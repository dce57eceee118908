---------------------------- MODULE PeerQueries ----------------------------
(***************************************************************************)
(* The queries on the collections: the aggregations of the MongoDB stores  *)
(* (store/peerstore/mongo/mongo.go, store/record/mongo) and what the       *)
(* resolvers (graph/schema.resolvers.go, graph/model/helpers.go) make of   *)
(* them.  A document of the peer collection is                             *)
(*   [id, connectable, digest, agent : [name, version, os], geo : [country,*)
(*    usage, located], sync : "none" | "synced" | "unsynced", next : the   *)
(*    version and epoch of its next fork]                                  *)
(* and a document of the history [time, sync, eth2].  A version is its     *)
(* three numbers, or <<>> when it is not a version.                        *)
(***************************************************************************)
EXTENDS Integers, Sequences, FiniteSets, FiniteSetsExt, Functions

CONSTANTS
  Digests,    \* the fork digests that peers tell
  Window      \* start and end of getNodeStatsOverTime

(* A field of a nil pointer is null in a document; the driver decodes null *)
(* into a string as the empty one.                                         *)
NoAgent == [name |-> "null", version |-> <<>>, os |-> "null"]
NoGeo   == [country |-> "null", usage |-> "null", located |-> FALSE]
Decoded(key) == IF key = "null" THEN "" ELSE key

(* What a call of a store comes to.  Rows are a function from what tells   *)
(* them apart to the row.                                                  *)
Failed    == [kind |-> "error"]
Panicked  == [kind |-> "panic"]
Rows(r)   == [kind |-> "rows", rows |-> r]

(* AddForkDigestFilterToQueryPipeline.  A filter is "none", a digest, or a *)
(* string: one too short for forkDigest[0:2], or one that is not hex.      *)
Filtered(filter, results) ==
  CASE filter = "short" -> {Panicked}
    [] filter = "odd"   -> {Failed}
    [] OTHER            -> {Failed} \cup results

Matching(docs, filter) ==
  {d \in docs : d.connectable /\ (filter \in Digests => d.digest = filter)}

(* cursor.Next ends the loop on an error too, and nothing asks cursor.Err: *)
(* the rows that came before it are the result.                            *)
Fetched(rows) == {Rows(Restrict(rows, keys)) : keys \in SUBSET DOMAIN rows}

(* $group with {$sum: 1}, by a key that is a function of the document.     *)
Grouped(key) ==
  [k \in Range(key) |->
    [name |-> Decoded(k), count |-> Cardinality({d \in DOMAIN key : key[d] = k})]]
-----------------------------------------------------------------------------
ViewAll(docs, filter) ==
  LET found == Matching(docs, filter)
  IN  Filtered(filter, Fetched([id \in {d.id : d \in found} |-> CHOOSE d \in found : d.id = id]))

AggregateByAgentName(docs, filter) ==
  Filtered(filter, Fetched(Grouped([d \in Matching(docs, filter) |-> d.agent.name])))

AggregateByOperatingSystem(docs, filter) ==
  Filtered(filter, Fetched(Grouped([d \in Matching(docs, filter) |-> d.agent.os])))

AggregateByCountry(docs, filter) ==
  Filtered(filter, Fetched(Grouped([d \in Matching(docs, filter) |-> d.geo.country])))

(* Those without geolocation are left out.                                 *)
AggregateByNetworkType(docs, filter) ==
  LET located == {d \in Matching(docs, filter) : d.geo # NoGeo}
  IN  Filtered(filter, Fetched(Grouped([d \in located |-> d.geo.usage])))

(* {$sum: "$count"}, and the loops of the resolvers that add up counts.    *)
TotalCount(rows, keys) == MapThenSumSet(LAMBDA k : rows[k].count, keys)

VersionRow(docs, version) ==
  [name |-> version, count |-> Cardinality({d \in docs : d.agent.version = version})]

(* Mutant of ClientRow: the second $group counts the versions.             *)
MutClientRow(docs, client) ==
  LET own == {d \in docs : d.agent.name = client}
      versions == [v \in {d.agent.version : d \in own} |-> VersionRow(own, v)]
  IN  [client |-> Decoded(client), versions |-> versions, count |-> Cardinality(DOMAIN versions)]

(* The two $group stages: one row for each client and version, then one    *)
(* for each client, which sums the counts and collects the versions.       *)
ClientRow(docs, client) ==
  LET own == {d \in docs : d.agent.name = client}
      versions == [v \in {d.agent.version : d \in own} |-> VersionRow(own, v)]
  IN  [client |-> Decoded(client), versions |-> versions,
       count |-> TotalCount(versions, DOMAIN versions)]

AggregateByClientVersion(docs, filter) ==
  LET found == Matching(docs, filter)
  IN  Filtered(filter, Fetched([c \in {d.agent.name : d \in found} |-> ClientRow(found, c)]))

SyncData(docs) ==
  [kind |-> "sync", total |-> Cardinality(docs),
   synced |-> Cardinality({d \in docs : d.sync = "synced"}),
   unsynced |-> Cardinality({d \in docs : d.sync = "unsynced"})]

(* $facet: the three counts of one pass, in one row, or all 0 without it.  *)
AggregateBySyncStatus(docs, filter) ==
  Filtered(filter, {SyncData(Matching(docs, filter)), SyncData({})})

(* GetHistory: with a digest the filter holds $match, which Find refuses.  *)
GetHistory(records, window, filter) ==
  LET found == {r \in records : window[1] < r.time /\ r.time < window[2]}
  IN  Filtered(filter,
        IF filter \in Digests THEN {}
        ELSE Fetched([t \in {r.time : r \in found} |->
               LET r == CHOOSE s \in found : s.time = t
               IN  [time |-> t, total |-> r.eth2, synced |-> r.sync]]))
-----------------------------------------------------------------------------
(* A float is the fraction it is computed from, NaN or infinite when the   *)
(* denominator is 0.                                                       *)
Float(num, den) == [num |-> num, den |-> den]

GetNodeStats(data) ==
  [totalNodes |-> data.total, nodeSyncedPercentage |-> Float(data.synced, data.total),
   nodeUnsyncedPercentage |-> Float(data.unsynced, data.total)]

GetNodeStatsOverTime(rows) ==
  [t \in DOMAIN rows |->
    [time |-> Float(t, 1), totalNodes |-> rows[t].total, syncedNodes |-> rows[t].synced,
     unsyncedNodes |-> rows[t].total - rows[t].synced]]

GetRegionalStats(countries, networks) ==
  LET hosted == {n \in DOMAIN networks : networks[n].name = "hosting"}
      total == TotalCount(networks, DOMAIN networks)
  IN  [totalParticipatingCountries |-> Cardinality(DOMAIN countries),
       hostedNodePercentage |-> Float(TotalCount(networks, hosted), total),
       nonhostedNodePercentage |-> Float(TotalCount(networks, DOMAIN networks \ hosted), total)]

(* GetHeatmapData: a document on the map and without agent is a nil        *)
(* dereference.                                                            *)
OnTheMap(peers) == {id \in DOMAIN peers : peers[id].geo.located}
Dereferences(peers) == \E id \in OnTheMap(peers) : peers[id].agent = NoAgent
GetHeatmapData(peers) ==
  [id \in OnTheMap(peers) |->
    [networkType |-> peers[id].geo.usage, clientType |-> peers[id].agent.name,
     syncStatus |-> IF peers[id].sync = "none" THEN "" ELSE peers[id].sync,
     latitude |-> Float(1, 1), longitude |-> Float(1, 1),
     city |-> "city", country |-> peers[id].geo.country]]

(* GroupByHardforkSchedule.                                                *)
GroupByHardforkSchedule(peers) ==
  [n \in {peers[id].next : id \in DOMAIN peers} |->
    [version |-> n[1], epoch |-> n[2],
     count |-> Cardinality({id \in DOMAIN peers : peers[id].next = n})]]

(* SortByCount: for i, for j > i, the larger count goes first.             *)
Swapped(s, i, j) ==
  IF i < j /\ s[i].count < s[j].count THEN [s EXCEPT ![i] = s[j], ![j] = s[i]] ELSE s

SortByCount(data) ==
  LET n == Len(data)
      swapped[k \in 0 .. n * n] ==
        IF k = 0 THEN data
        ELSE Swapped(swapped[k - 1], ((k - 1) \div n) + 1, ((k - 1) % n) + 1)
  IN  swapped[n * n]

(* AggregateByHardforkSchedule walks the groups in any order, then sorts.  *)
AggregateByHardforkSchedule(peers) ==
  LET groups == GroupByHardforkSchedule(peers)
  IN  {SortByCount([i \in DOMAIN order |-> groups[order[i]]]) :
         order \in {f \in [1 .. Cardinality(DOMAIN groups) -> DOMAIN groups] : IsInjective(f)}}

Altair == [prysm |-> <<2, 0, 0>>, teku |-> <<21, 9, 2>>, lighthouse |-> <<2, 0, 0>>,
           nimbus |-> <<1, 5, 0>>, lodestar |-> <<0, 31, 0>>]

AtLeast(v, w) == v = w \/ \E i \in 1 .. 3 : v[i] > w[i] /\ \A j \in 1 .. i - 1 : v[j] = w[j]

SupportAltairUpgrade(client, version) ==
  version # <<>> /\ client \in DOMAIN Altair /\ AtLeast(version, Altair[client])

GetAltairUpgradePercentage(rows) ==
  LET pairs == UNION {{<<c, v>> : v \in DOMAIN rows[c].versions} : c \in DOMAIN rows}
      versions == [p \in pairs |-> rows[p[1]].versions[p[2]]]
      upgraded == {p \in pairs : SupportAltairUpgrade(rows[p[1]].client, p[2])}
  IN  Float(TotalCount(versions, upgraded), TotalCount(versions, pairs))
-----------------------------------------------------------------------------
(* The call of a store that a resolver makes first.                        *)
Called(field, filter, docs, records) ==
  CASE field = "aggregateByAgentName"       -> AggregateByAgentName(docs, filter)
    [] field = "aggregateByOperatingSystem" -> AggregateByOperatingSystem(docs, filter)
    [] field = "aggregateByNetwork"         -> AggregateByNetworkType(docs, filter)
    [] field \in {"aggregateByCountry", "getRegionalStats"} -> AggregateByCountry(docs, filter)
    [] field \in {"aggregateByClientVersion", "getAltairUpgradePercentage"} ->
         AggregateByClientVersion(docs, filter)
    [] field \in {"aggregateByHardforkSchedule", "getHeatmapData"} -> ViewAll(docs, filter)
    [] field = "getNodeStats"               -> AggregateBySyncStatus(docs, filter)
    [] field = "getNodeStatsOverTime"       -> GetHistory(records, Window, filter)

(* getRegionalStats makes another.                                         *)
CalledAgain(filter, docs) == AggregateByNetworkType(docs, filter)

(* What the resolver makes of it: a list, an object or a float.            *)
Made(field, data, countries) ==
  CASE field = "getNodeStats"                -> {GetNodeStats(data)}
    [] field = "getNodeStatsOverTime"        -> {GetNodeStatsOverTime(data.rows)}
    [] field = "getRegionalStats"            -> {GetRegionalStats(countries, data.rows)}
    [] field = "getAltairUpgradePercentage"  -> {GetAltairUpgradePercentage(data.rows)}
    [] field = "getHeatmapData"              -> {GetHeatmapData(data.rows)}
    [] field = "aggregateByHardforkSchedule" -> AggregateByHardforkSchedule(data.rows)
    [] OTHER                                 -> {data.rows}
-----------------------------------------------------------------------------
(* SortByCount returns what it was given, by falling count, and among the  *)
(* hard forks none is lost or shown twice (helpers.go, 14-23).             *)
Tagged == UNION {{[i \in 1 .. n |-> [tag |-> i, count |-> c[i]]] : c \in [1 .. n -> 1 .. 3]} : n \in 0 .. 4}
SortsByCount ==
  \A data \in Tagged :
    LET sorted == SortByCount(data)
    IN  /\ \A i \in 1 .. Len(sorted) - 1 : sorted[i].count >= sorted[i + 1].count
        /\ Len(sorted) = Len(data) /\ Range(sorted) = Range(data)

(* A client supports Altair from the version of its release on: by the     *)
(* order of releases, not number by number (helpers.go, 42-81).            *)
Release(v) == 10000 * v[1] + 100 * v[2] + v[3]
AltairFromReleaseOn ==
  \A client \in DOMAIN Altair : \A v \in {0, 1, 2, 3, 20, 21, 22} \X {0, 5, 9, 31, 32} \X {0, 1, 2, 3} :
    SupportAltairUpgrade(client, v) <=> Release(v) >= Release(Altair[client])
=============================================================================
