------------------------- MODULE QueryServerProofs -------------------------
(***************************************************************************)
(* The GraphQL API for any number of peers, any requests and any history   *)
(* of what the crawler writes beside them.                                 *)
(***************************************************************************)
EXTENDS StoredRecords, PeerQueryProofs
-----------------------------------------------------------------------------
(* The schema *)

(* The lists whose rows have a count.                                      *)
CountLists ==
  {"aggregateByAgentName", "aggregateByCountry", "aggregateByOperatingSystem",
   "aggregateByNetwork", "aggregateByHardforkSchedule", "aggregateByClientVersion"}
OtherLists == {"getHeatmapData", "getNodeStatsOverTime"}
Objects    == {"getNodeStats", "getRegionalStats"}

LEMMA FieldsOfQuery ==
  DOMAIN Query = CountLists \cup OtherLists \cup Objects
                 \cup {"getAltairUpgradePercentage", "__type", "__schema"}
BY Zenon DEF Query, CountLists, OtherLists, Objects

LEMMA Shapes ==
  ASSUME NEW f \in DOMAIN Query
  PROVE  /\ Query[f].shape = "list" <=> f \in CountLists \cup OtherLists
         /\ Query[f].shape = "object" <=> f \in Objects
         /\ Query[f].shape = "float" <=> f = "getAltairUpgradePercentage"
         /\ Query[f].shape = "schema" <=> f \in {"__type", "__schema"}
<1> USE DEF ListOf, ObjectOf, Scalar, Nullable
<1>1. CASE f \in CountLists
  <2>1. Query[f].shape = "list"
    BY <1>1 DEF Query, CountLists, aggregateByAgentName, aggregateByCountry,
       aggregateByOperatingSystem, aggregateByNetwork, aggregateByHardforkSchedule,
       aggregateByClientVersion
  <2> QED
    BY <1>1, <2>1 DEF CountLists, OtherLists, Objects
<1>2. CASE f \in OtherLists
  <2>1. Query[f].shape = "list"
    BY <1>2 DEF Query, OtherLists, getHeatmapData, getNodeStatsOverTime
  <2> QED
    BY <1>2, <2>1 DEF CountLists, OtherLists, Objects
<1>3. CASE f \in Objects
  <2>1. Query[f].shape = "object"
    BY <1>3 DEF Query, Objects, getNodeStats, getRegionalStats
  <2> QED
    BY <1>3, <2>1 DEF CountLists, OtherLists, Objects
<1>4. CASE f = "getAltairUpgradePercentage"
  <2>1. Query[f].shape = "float"
    BY <1>4 DEF Query, getAltairUpgradePercentage
  <2> QED
    BY <1>4, <2>1 DEF CountLists, OtherLists, Objects
<1>5. CASE f \in {"__type", "__schema"}
  <2>1. Query[f].shape = "schema"
    BY <1>5 DEF Query, __type, __schema
  <2> QED
    BY <1>5, <2>1 DEF CountLists, OtherLists, Objects
<1> QED
  BY <1>1, <1>2, <1>3, <1>4, <1>5, FieldsOfQuery

LEMMA TypesOfQuery ==
  /\ Query["aggregateByClientVersion"].type = ClientVersionAggregation
  /\ Query["aggregateByHardforkSchedule"].type = NextHardforkAggregation
  /\ \A f \in CountLists \ {"aggregateByClientVersion", "aggregateByHardforkSchedule"} :
       Query[f].type = AggregateData
  /\ Query["getHeatmapData"].type = HeatmapData
  /\ Query["getNodeStatsOverTime"].type = NodeStatsOverTime
  /\ Query["getNodeStats"].type = NodeStats
  /\ Query["getRegionalStats"].type = RegionalStats
BY DEF Query, ListOf, ObjectOf, CountLists, aggregateByAgentName, aggregateByCountry,
       aggregateByOperatingSystem, aggregateByNetwork, aggregateByHardforkSchedule,
       aggregateByClientVersion, getHeatmapData, getNodeStatsOverTime, getNodeStats,
       getRegionalStats

(* A field that is not the list of versions is written as it is.           *)
LEMMA WrittenField ==
  ASSUME NEW type, NEW object, NEW x \in DOMAIN type, x # "versions"
  PROVE  Written(type, object)[x] = object[x]
<1> DEFINE fields == Fields(type, object)
<1>1. x \in DOMAIN fields /\ fields[x] = object[x]
  BY DEF Fields
<1> HIDE DEF fields
<1>2. Written(type, object) =
        IF "versions" \in DOMAIN type
        THEN [fields EXCEPT !.versions = [k \in DOMAIN @ |-> Fields(AggregateData, @[k])]]
        ELSE fields
  BY DEF Written, fields
<1> QED
  BY <1>1, <1>2

LEMMA WrittenVersions ==
  ASSUME NEW object, NEW row, row = Written(ClientVersionAggregation, object)
  PROVE  /\ DOMAIN row.versions = DOMAIN object.versions
         /\ \A v \in DOMAIN object.versions : row.versions[v].count = object.versions[v].count
<1> DEFINE fields == Fields(ClientVersionAggregation, object)
           vs == [k \in DOMAIN fields.versions |-> Fields(AggregateData, fields.versions[k])]
<1>1. "versions" \in DOMAIN fields /\ fields.versions = object.versions
  BY DEF Fields, ClientVersionAggregation
<1>2. row = [fields EXCEPT !.versions = vs]
  <2>1. "versions" \in DOMAIN ClientVersionAggregation
    BY DEF ClientVersionAggregation
  <2> QED
    BY <2>1 DEF Written
<1>3. row.versions = vs
  <2> HIDE DEF fields, vs
  <2> QED
    BY <1>1, <1>2
<1>4. \A k \in DOMAIN object.versions : vs[k].count = object.versions[k].count
  BY <1>1 DEF Fields, AggregateData
<1> QED
  BY <1>1, <1>3, <1>4

-----------------------------------------------------------------------------
(* The inductive invariant *)

Bound == Cardinality(Ids) + MaxJobs

(* Rows of a list whose counts are right, for s peers that were there to   *)
(* be counted, w telling whether they have all been read.                  *)
RowsOK(f, rows, s, w) ==
  /\ f \in CountLists /\ w => TotalCount(rows, DOMAIN rows) = s
  /\ f = "aggregateByClientVersion" =>
       \A c \in DOMAIN rows : rows[c].count = TotalCount(rows[c].versions, DOMAIN rows[c].versions)
  /\ f = "getNodeStatsOverTime" =>
       \A t \in DOMAIN rows : rows[t].unsyncedNodes >= 0 /\ rows[t].time.den # 0
  /\ f = "getHeatmapData" =>
       \A id \in DOMAIN rows : rows[id].latitude.den # 0 /\ rows[id].longitude.den # 0

(* An object whose percentages are of all peers.                           *)
ObjectOK(f, object, s, w) ==
  /\ f = "getNodeStats" =>
       /\ object.nodeSyncedPercentage.num + object.nodeUnsyncedPercentage.num = object.totalNodes
       /\ object.nodeSyncedPercentage.den = object.totalNodes
       /\ object.nodeUnsyncedPercentage.den = object.totalNodes
       /\ object.totalNodes \in Nat
       /\ w => object.totalNodes >= s
  /\ f = "getRegionalStats" =>
       /\ w => object.hostedNodePercentage.den = s
       /\ w => object.nonhostedNodePercentage.den = s

(* What a resolver may return for a field.                                 *)
ValueOK(f, value, s, w) ==
  /\ f \in CountLists \cup OtherLists =>
       /\ IsFiniteSet(DOMAIN value) /\ Cardinality(DOMAIN value) <= Bound
       /\ RowsOK(f, value, s, w)
  /\ f \in Objects => ObjectOK(f, Written(Query[f].type, value), s, w)
  /\ f = "getAltairUpgradePercentage" /\ w => value.den = s

ListOK(f, o, s, w) ==
  /\ f \in CountLists \cup OtherLists
  /\ o = [shape |-> "list", rows |-> o.rows, written |-> o.written]
  /\ IsFiniteSet(DOMAIN o.rows) /\ Cardinality(DOMAIN o.rows) <= Bound
  /\ RowsOK(f, o.rows, s, w)
  /\ DOMAIN o.written \subseteq DOMAIN o.rows
  /\ o.written = [k \in DOMAIN o.written |-> o.written[k]]
  /\ \A k \in DOMAIN o.written : o.written[k] = Written(Query[f].type, o.rows[k])

(* What a field that is done has come to.                                  *)
ResultOK(f, filter, o, s, w) ==
  \/ o.shape = "null" /\ (o.why = "panic" => filter = "short")
  \/ o.shape = "schema" /\ f \in {"__type", "__schema"}
  \/ ListOK(f, o, s, w) /\ DOMAIN o.written = DOMAIN o.rows
  \/ f \in Objects /\ o.shape = "object" /\ ObjectOK(f, o.object, s, w)
  \/ f = "getAltairUpgradePercentage" /\ o.shape = "float" /\ (w => o.float.den = s)

(* The WaitGroup of a list counts the elements that are not yet written.   *)
FieldOK(f, filter, st, o, n, s, w) ==
  /\ st \in {"ready", "again", "writing", "done"}
  /\ s \in Nat
  /\ st \in {"ready", "again"} => o = Nothing /\ n = 0 /\ f \notin {"__type", "__schema"}
  /\ st = "again" => f = "getRegionalStats"
  /\ st = "writing" => ListOK(f, o, s, w) /\ n = Cardinality(DOMAIN o.rows \ DOMAIN o.written)
  /\ st = "done" => ResultOK(f, filter, o, s, w) /\ n = 0

HistoryInv ==
  /\ IsFiniteSet(records) /\ Cardinality(records) <= MaxJobs
  /\ \A r \in records : r.sync \in Nat /\ r.eth2 \in Nat /\ r.sync <= r.eth2

(* Only a field that failed is counted, and its error is there.            *)
FailsOK(f) ==
  /\ f \in invalids <=> f \notin {"__type", "__schema"} /\ out[f].shape = "null"
  /\ out[f].shape = "null" /\ out[f].why # "unknown" => f \in errors

FieldTypes ==
  /\ stage = [f \in Asked |-> stage[f]]
  /\ out = [f \in Asked |-> out[f]]
  /\ left = [f \in Asked |-> left[f]]
  /\ seen = [f \in Asked |-> seen[f]]
  /\ whole = [f \in Asked |-> whole[f]]
  /\ invalids \subseteq Asked /\ errors \subseteq Asked

RequestInv ==
  /\ phase \in {"idle", "running", "answered"} /\ reply \in {"none", "null", "data"}
  /\ Asked \subseteq DOMAIN Query
  /\ FieldTypes
  /\ \A f \in Asked : FieldOK(f, request[f], stage[f], out[f], left[f], seen[f], whole[f])
  /\ \A f \in Asked : FailsOK(f)
  /\ phase = "answered" =>
       /\ \A f \in Asked : stage[f] = "done"
       /\ reply = IF invalids # {} THEN "null" ELSE "data"

QueryInv == Collection(docs) /\ HistoryInv /\ RequestInv

-----------------------------------------------------------------------------
(* What the resolvers return *)

LEMMA BoundNat == Cardinality(Ids) \in Nat /\ MaxJobs \in Nat /\ Bound \in Nat
BY CollectionAssumption, ServerAssumption, FS_CardinalityType DEF Bound

LEMMA CollectionFinite ==
  ASSUME NEW D, Collection(D)
  PROVE  IsFiniteSet(D) /\ Cardinality(D) \in Nat /\ Cardinality(D) <= Cardinality(Ids)
<1> DEFINE ids == [d \in D |-> d.id]
<1>1. ids \in Injection(D, Ids)
  BY DEF Collection, IsDoc, Injection, IsInjective
<1> HIDE DEF ids
<1> QED
  BY <1>1, CollectionAssumption, FS_Injection, FS_CardinalityType

LEMMA FoundFinite ==
  ASSUME NEW D, Collection(D), NEW found \in SUBSET D
  PROVE  /\ IsFiniteSet(found) /\ Cardinality(found) \in Nat
         /\ Cardinality(found) <= Cardinality(Ids) /\ Cardinality(found) <= Bound
<1>1. IsFiniteSet(D) /\ Cardinality(D) \in Nat /\ Cardinality(D) <= Cardinality(Ids)
  BY CollectionFinite
<1>2. IsFiniteSet(found) /\ Cardinality(found) <= Cardinality(D) /\ Cardinality(found) \in Nat
  BY <1>1, FS_Subset, FS_CardinalityType
<1> QED
  BY <1>1, <1>2, BoundNat DEF Bound

(* What a cursor has delivered is not more than there is.                  *)
LEMMA PartFinite ==
  ASSUME NEW R, IsFiniteSet(R), Cardinality(R) <= Bound, NEW K \in SUBSET R
  PROVE  IsFiniteSet(K) /\ Cardinality(K) <= Bound
BY BoundNat, FS_Subset, FS_CardinalityType

(* Nothing has been missed.                                                *)
Complete(data, all) == \A d \in all : d.kind = "rows" => DOMAIN d.rows \subseteq DOMAIN data.rows

(* Rows that account for a set of peers, as far as they have been read.    *)
LEMMA RowsValue ==
  ASSUME NEW f \in CountLists, f # "aggregateByClientVersion",
         NEW rows, IsFiniteSet(DOMAIN rows), Cardinality(DOMAIN rows) <= Bound,
         rows = [k \in DOMAIN rows |-> rows[k]],
         NEW filter, NEW data \in Filtered(filter, Fetched(rows)), data.kind = "rows",
         NEW s, TotalCount(rows, DOMAIN rows) = s,
         NEW w, w => Complete(data, Filtered(filter, Fetched(rows)))
  PROVE  ValueOK(f, data.rows, s, w)
<1>1. DOMAIN data.rows \subseteq DOMAIN rows
  BY FetchedIs
<1>2. IsFiniteSet(DOMAIN data.rows) /\ Cardinality(DOMAIN data.rows) <= Bound
  BY <1>1, PartFinite
<1>3. w => data.rows = rows
  BY FetchedWhole DEF Complete
<1>4. w => TotalCount(data.rows, DOMAIN data.rows) = s
  BY <1>3, Zenon
<1>5. f \notin Objects \cup OtherLists \cup {"getAltairUpgradePercentage"}
  BY DEF CountLists, OtherLists, Objects
<1> QED
  BY <1>2, <1>4, <1>5 DEF ValueOK, RowsOK, OtherLists

LEMMA GroupedValue ==
  ASSUME NEW f \in CountLists, f # "aggregateByClientVersion",
         NEW D, Collection(D), NEW key, DOMAIN key \subseteq D, key = [d \in DOMAIN key |-> key[d]],
         NEW filter, NEW data \in Filtered(filter, Fetched(Grouped(key))), data.kind = "rows",
         NEW w, w => Complete(data, Filtered(filter, Fetched(Grouped(key))))
  PROVE  ValueOK(f, data.rows, Cardinality(DOMAIN key), w)
<1>1. /\ IsFiniteSet(DOMAIN key) /\ Cardinality(DOMAIN key) \in Nat
      /\ Cardinality(DOMAIN key) <= Bound
  BY FoundFinite
<1> DEFINE rows == Grouped(key)
<1>2. /\ rows = [k \in DOMAIN rows |-> rows[k]]
      /\ IsFiniteSet(DOMAIN rows)
      /\ Cardinality(DOMAIN rows) <= Cardinality(DOMAIN key)
      /\ TotalCount(rows, DOMAIN rows) = Cardinality(DOMAIN key)
  BY <1>1, GroupedTotal
<1> HIDE DEF rows
<1>3. Cardinality(DOMAIN rows) <= Bound
  BY <1>1, <1>2, BoundNat, FS_CardinalityType
<1> QED
  BY <1>2, <1>3, RowsValue DEF rows

LEMMA ClientsValue ==
  ASSUME NEW D, Collection(D), NEW found \in SUBSET D,
         NEW filter, NEW data \in Filtered(filter, Fetched(ClientRows(found))), data.kind = "rows",
         NEW w, w => Complete(data, Filtered(filter, Fetched(ClientRows(found))))
  PROVE  /\ ValueOK("aggregateByClientVersion", data.rows, Cardinality(found), w)
         /\ ValueOK("getAltairUpgradePercentage", GetAltairUpgradePercentage(data.rows),
                    Cardinality(found), w)
<1> DEFINE rows == ClientRows(found)
<1>1. /\ IsFiniteSet(found) /\ Cardinality(found) \in Nat /\ Cardinality(found) <= Bound
  BY FoundFinite
<1>2. /\ rows = [c \in DOMAIN rows |-> rows[c]]
      /\ IsFiniteSet(DOMAIN rows)
      /\ Cardinality(DOMAIN rows) <= Cardinality(found)
      /\ TotalCount(rows, DOMAIN rows) = Cardinality(found)
  BY <1>1, ClientsTotal
<1>3. \A c \in DOMAIN rows : rows[c].count = TotalCount(rows[c].versions, DOMAIN rows[c].versions)
  BY <1>1, ClientTotal DEF ClientRows
<1>4. GetAltairUpgradePercentage(rows).den = Cardinality(found)
  BY <1>1, UpgradeOfAll
<1> HIDE DEF rows
<1>5. /\ DOMAIN data.rows \subseteq DOMAIN rows
      /\ data.rows = [c \in DOMAIN data.rows |-> rows[c]]
  BY FetchedIs DEF rows
<1>6. Cardinality(DOMAIN rows) <= Bound
  BY <1>1, <1>2, BoundNat, FS_CardinalityType
<1>7. IsFiniteSet(DOMAIN data.rows) /\ Cardinality(DOMAIN data.rows) <= Bound
  BY <1>2, <1>5, <1>6, PartFinite
<1>8. w => data.rows = rows
  BY <1>2, FetchedWhole DEF Complete, rows
<1>9. w => TotalCount(data.rows, DOMAIN data.rows) = Cardinality(found)
  BY <1>2, <1>8, Zenon
<1>10. \A c \in DOMAIN data.rows :
         data.rows[c].count = TotalCount(data.rows[c].versions, DOMAIN data.rows[c].versions)
  BY <1>3, <1>5
<1>11. w => GetAltairUpgradePercentage(data.rows).den = Cardinality(found)
  BY <1>4, <1>8
<1>12. ValueOK("aggregateByClientVersion", data.rows, Cardinality(found), w)
  BY <1>7, <1>9, <1>10 DEF ValueOK, RowsOK, CountLists, OtherLists, Objects
<1>13. ValueOK("getAltairUpgradePercentage", GetAltairUpgradePercentage(data.rows), Cardinality(found), w)
  BY <1>11 DEF ValueOK, CountLists, OtherLists, Objects
<1> QED
  BY <1>12, <1>13

Viewed(found) == [id \in {d.id : d \in found} |-> CHOOSE d \in found : d.id = id]

LEMMA ViewValue ==
  ASSUME NEW D, Collection(D), NEW found \in SUBSET D,
         NEW filter, NEW data \in Filtered(filter, Fetched(Viewed(found))), data.kind = "rows",
         NEW w, w => Complete(data, Filtered(filter, Fetched(Viewed(found))))
  PROVE  /\ \A id \in DOMAIN data.rows : data.rows[id] \in found
         /\ \A value \in AggregateByHardforkSchedule(data.rows) :
              ValueOK("aggregateByHardforkSchedule", value, Cardinality(found), w)
         /\ ValueOK("getHeatmapData", GetHeatmapData(data.rows), Cardinality(found), w)
<1> DEFINE rows == Viewed(found)
<1>1. /\ IsFiniteSet(found) /\ Cardinality(found) \in Nat /\ Cardinality(found) <= Bound
  BY FoundFinite
<1>2. \A d \in found : \A e \in found : d.id = e.id => d = e
  BY DEF Collection
<1>3. /\ IsFiniteSet(DOMAIN rows)
      /\ Cardinality(DOMAIN rows) = Cardinality(found)
      /\ \A id \in DOMAIN rows : rows[id] \in found
  BY <1>1, <1>2, ViewAllRows DEF Viewed
<1>4. rows = [id \in DOMAIN rows |-> rows[id]]
  BY DEF Viewed
<1> HIDE DEF rows
<1>5. /\ DOMAIN data.rows \subseteq DOMAIN rows
      /\ data.rows = [id \in DOMAIN data.rows |-> rows[id]]
  BY FetchedIs DEF rows
<1>6. IsFiniteSet(DOMAIN data.rows) /\ Cardinality(DOMAIN data.rows) <= Bound
  BY <1>1, <1>3, <1>5, PartFinite
<1>7. w => data.rows = rows
  BY <1>4, FetchedWhole DEF Complete, rows
<1>8. \A id \in DOMAIN data.rows : data.rows[id] \in found
  BY <1>3, <1>5
<1>9. ASSUME NEW value \in AggregateByHardforkSchedule(data.rows)
      PROVE  ValueOK("aggregateByHardforkSchedule", value, Cardinality(found), w)
  <2>1. /\ IsFiniteSet(DOMAIN value)
        /\ Cardinality(DOMAIN value) <= Cardinality(DOMAIN data.rows)
        /\ TotalCount(value, DOMAIN value) = Cardinality(DOMAIN data.rows)
    BY <1>6, HardforkTotal
  <2>2. Cardinality(DOMAIN value) <= Bound
    BY <1>6, <2>1, BoundNat, FS_CardinalityType
  <2>3. w => TotalCount(value, DOMAIN value) = Cardinality(found)
    BY <1>3, <1>7, <2>1
  <2> QED
    BY <2>1, <2>2, <2>3 DEF ValueOK, RowsOK, CountLists, OtherLists, Objects
<1>10. ValueOK("getHeatmapData", GetHeatmapData(data.rows), Cardinality(found), w)
  <2> DEFINE value == GetHeatmapData(data.rows)
  <2>1. DOMAIN value \subseteq DOMAIN data.rows
    BY DEF GetHeatmapData, OnTheMap
  <2>2. IsFiniteSet(DOMAIN value) /\ Cardinality(DOMAIN value) <= Bound
    BY <1>6, <2>1, PartFinite
  <2>3. \A id \in DOMAIN value : value[id].latitude.den # 0 /\ value[id].longitude.den # 0
    <3>1. \A id \in DOMAIN value : value[id].latitude = Float(1, 1) /\ value[id].longitude = Float(1, 1)
      BY DEF GetHeatmapData
    <3>2. Float(1, 1).den = 1
      BY DEF Float
    <3> HIDE DEF value
    <3> QED
      BY <3>1, <3>2
  <2> HIDE DEF value
  <2>4. RowsOK("getHeatmapData", value, Cardinality(found), w)
    BY <2>3 DEF RowsOK, CountLists
  <2> QED
    BY <2>2, <2>4 DEF ValueOK, CountLists, OtherLists, Objects, value
<1> QED
  BY <1>8, <1>9, <1>10

LEMMA RegionalValue ==
  ASSUME NEW networks, NEW countries0, NEW s, NEW w,
         ValueOK("aggregateByNetwork", networks, s, w)
  PROVE  ValueOK("getRegionalStats", GetRegionalStats(countries0, networks), s, w)
<1> DEFINE value == GetRegionalStats(countries0, networks)
           object == Written(RegionalStats, value)
<1>1. /\ value.hostedNodePercentage.den = TotalCount(networks, DOMAIN networks)
      /\ value.nonhostedNodePercentage.den = TotalCount(networks, DOMAIN networks)
  BY DEF GetRegionalStats, Float
<1>2. w => TotalCount(networks, DOMAIN networks) = s
  BY DEF ValueOK, RowsOK, CountLists
<1> HIDE DEF value
<1>3. /\ object.hostedNodePercentage = value.hostedNodePercentage
      /\ object.nonhostedNodePercentage = value.nonhostedNodePercentage
  BY WrittenField DEF RegionalStats
<1> HIDE DEF object
<1>4. ObjectOK("getRegionalStats", object, s, w)
  BY <1>1, <1>2, <1>3 DEF ObjectOK
<1> QED
  BY <1>4, TypesOfQuery DEF ValueOK, CountLists, OtherLists, Objects, object, value

(* The synced and the unsynced of peers that all are one or the other.     *)
LEMMA SyncTotal ==
  ASSUME NEW found, IsFiniteSet(found), \A d \in found : d.sync \in {"synced", "unsynced"}
  PROVE  LET data == SyncData(found) IN
         /\ data.kind = "sync" /\ data.total = Cardinality(found)
         /\ data.total \in Nat /\ data.synced \in Nat /\ data.unsynced \in Nat
         /\ data.synced + data.unsynced = data.total
<1> DEFINE S == {d \in found : d.sync = "synced"}
           U == {d \in found : d.sync = "unsynced"}
           data == SyncData(found)
<1>1. /\ data.kind = "sync" /\ data.total = Cardinality(found)
      /\ data.synced = Cardinality(S) /\ data.unsynced = Cardinality(U)
  BY DEF SyncData
<1>2. S \cup U = found /\ S \cap U = {}
  OBVIOUS
<1>3. /\ IsFiniteSet(S) /\ IsFiniteSet(U)
      /\ Cardinality(S) \in Nat /\ Cardinality(U) \in Nat /\ Cardinality(found) \in Nat
  BY FS_Subset, FS_CardinalityType
<1> HIDE DEF S, U, data
<1>4. Cardinality(S \cup U) = Cardinality(S) + Cardinality(U) - Cardinality(S \cap U)
  BY <1>3, FS_Union
<1>5. Cardinality(S \cap U) = 0 /\ Cardinality(S \cup U) = Cardinality(found)
  BY <1>2, FS_EmptySet
<1> QED
  BY <1>1, <1>3, <1>4, <1>5 DEF data

LEMMA SyncValue ==
  ASSUME NEW found, IsFiniteSet(found), \A d \in found : d.sync \in {"synced", "unsynced"},
         NEW filter, NEW data \in Filtered(filter, {SyncData(found), SyncData({})}),
         data.kind = "sync", NEW w,
         w => \A d \in Filtered(filter, {SyncData(found), SyncData({})}) :
                d.kind = "sync" => d.total <= data.total
  PROVE  /\ data.total \in Nat /\ data.synced \in Nat /\ data.unsynced \in Nat
         /\ data.synced + data.unsynced = data.total
         /\ w => data.total >= Cardinality(found)
<1>1. /\ Filtered(filter, {SyncData(found), SyncData({})}) = {Failed} \cup {SyncData(found), SyncData({})}
      /\ data \in {SyncData(found), SyncData({})}
  BY FilteredIs DEF Failed, Panicked
<1>2. IsFiniteSet({})
  BY FS_EmptySet
<1>3. \A d \in {SyncData(found), SyncData({})} :
        /\ d.total \in Nat /\ d.synced \in Nat /\ d.unsynced \in Nat
        /\ d.synced + d.unsynced = d.total
  BY <1>2, SyncTotal
<1>4. SyncData(found).kind = "sync" /\ SyncData(found).total = Cardinality(found)
  BY SyncTotal
<1>5. w => Cardinality(found) <= data.total
  BY <1>1, <1>4
<1>6. Cardinality(found) \in Nat
  BY FS_CardinalityType
<1> QED
  BY <1>1, <1>3, <1>5, <1>6

LEMMA StatsValue ==
  ASSUME NEW data, data.total \in Nat, data.synced \in Nat, data.unsynced \in Nat,
         data.synced + data.unsynced = data.total,
         NEW s, NEW w, w => data.total >= s
  PROVE  ValueOK("getNodeStats", GetNodeStats(data), s, w)
<1> DEFINE value == GetNodeStats(data)
           object == Written(NodeStats, value)
<1>1. /\ value.totalNodes = data.total
      /\ value.nodeSyncedPercentage = Float(data.synced, data.total)
      /\ value.nodeUnsyncedPercentage = Float(data.unsynced, data.total)
  BY DEF GetNodeStats
<1> HIDE DEF value
<1>2. /\ object.totalNodes = value.totalNodes
      /\ object.nodeSyncedPercentage = value.nodeSyncedPercentage
      /\ object.nodeUnsyncedPercentage = value.nodeUnsyncedPercentage
  BY WrittenField DEF NodeStats
<1> HIDE DEF object
<1>3. ObjectOK("getNodeStats", object, s, w)
  BY <1>1, <1>2 DEF ObjectOK, Float
<1> QED
  BY <1>3, TypesOfQuery DEF ValueOK, CountLists, OtherLists, Objects, object, value

LEMMA HistoryValue ==
  ASSUME HistoryInv, NEW filter, NEW data \in GetHistory(records, Window, filter),
         data.kind \notin {"error", "panic"}, NEW s, NEW w
  PROVE  /\ data.kind = "rows"
         /\ ValueOK("getNodeStatsOverTime", GetNodeStatsOverTime(data.rows), s, w)
<1> DEFINE found == {r \in records : Window[1] < r.time /\ r.time < Window[2]}
           T == {r.time : r \in found}
           at(t) == CHOOSE r \in found : r.time = t
           rows == [t \in T |-> [time |-> t, total |-> at(t).eth2, synced |-> at(t).sync]]
           times == [r \in found |-> r.time]
<1>1. data \in Filtered(filter, IF filter \in Digests THEN {} ELSE Fetched(rows))
  BY Zenon DEF GetHistory
<1>2. IsFiniteSet(found) /\ Cardinality(found) <= MaxJobs /\ Cardinality(found) \in Nat
  <2>1. IsFiniteSet(records) /\ Cardinality(records) \in Nat /\ Cardinality(records) <= MaxJobs
    BY FS_CardinalityType DEF HistoryInv
  <2>2. IsFiniteSet(found) /\ Cardinality(found) <= Cardinality(records) /\ Cardinality(found) \in Nat
    <3>1. found \in SUBSET records
      OBVIOUS
    <3> HIDE DEF found
    <3> QED
      BY <2>1, <3>1, FS_Subset, FS_CardinalityType
  <2> HIDE DEF found
  <2> QED
    BY <2>1, <2>2, BoundNat
<1>3. IsFiniteSet(T) /\ Cardinality(T) <= Bound
  <2>1. T = Range(times) /\ times = [r \in DOMAIN times |-> times[r]] /\ DOMAIN times = found
    BY DEF Range
  <2> HIDE DEF found, T, times
  <2>2. IsFiniteSet(T) /\ Cardinality(T) <= Cardinality(found) /\ Cardinality(T) \in Nat
    BY <1>2, <2>1, RangeFinite, FS_CardinalityType
  <2> QED
    BY <1>2, <2>2, BoundNat DEF Bound
<1>4. ASSUME NEW t \in T
      PROVE  /\ rows[t].total \in Nat /\ rows[t].synced \in Nat /\ rows[t].synced <= rows[t].total
  <2>1. at(t) \in records
    OBVIOUS
  <2>2. rows[t] = [time |-> t, total |-> at(t).eth2, synced |-> at(t).sync]
    OBVIOUS
  <2> HIDE DEF at, rows
  <2> QED
    BY <2>1, <2>2 DEF HistoryInv
<1>5. DOMAIN rows = T
  OBVIOUS
<1> HIDE DEF rows, T
<1>6. filter \notin Digests
  BY <1>1, FilteredIs DEF Failed, Panicked
<1>7. data \in Filtered(filter, Fetched(rows))
  BY <1>1, <1>6
<1>8. /\ data.kind = "rows" /\ DOMAIN data.rows \subseteq T
      /\ data.rows = [t \in DOMAIN data.rows |-> rows[t]]
  BY <1>5, <1>7, FetchedIs
<1>9. IsFiniteSet(DOMAIN data.rows) /\ Cardinality(DOMAIN data.rows) <= Bound
  BY <1>3, <1>8, PartFinite
<1> DEFINE value == GetNodeStatsOverTime(data.rows)
<1>10. DOMAIN value = DOMAIN data.rows
  BY DEF GetNodeStatsOverTime
<1>11. ASSUME NEW t \in DOMAIN value
       PROVE  value[t].unsyncedNodes >= 0 /\ value[t].time.den # 0
  <2>1. /\ value[t].unsyncedNodes = data.rows[t].total - data.rows[t].synced
        /\ value[t].time = Float(t, 1)
    BY DEF GetNodeStatsOverTime
  <2>2. data.rows[t] = rows[t] /\ t \in T
    BY <1>8, <1>10
  <2> HIDE DEF value
  <2> QED
    BY <1>4, <2>1, <2>2 DEF Float
<1> HIDE DEF value
<1>12. ValueOK("getNodeStatsOverTime", value, s, w)
  BY <1>9, <1>10, <1>11 DEF ValueOK, RowsOK, CountLists, OtherLists, Objects
<1> QED
  BY <1>8, <1>12 DEF value

(* What whole says of a read.                                              *)
Full(data, all) ==
  CASE data.kind = "rows" -> Complete(data, all)
    [] data.kind = "sync" -> \A d \in all : d.kind = "sync" => d.total <= data.total
    [] OTHER -> TRUE

LEMMA MatchingDocs ==
  ASSUME Collection(docs), NEW filter
  PROVE  /\ Matching(docs, filter) \in SUBSET docs
         /\ \A d \in Matching(docs, filter) :
              d.agent # NoAgent /\ d.sync \in {"synced", "unsynced"}
BY DEF Matching, Collection, IsDoc

(* Whatever a store returns: the panic of a filter that is too short, an   *)
(* error, or what the resolver makes a right value of.                     *)
LEMMA ReadValue ==
  ASSUME Collection(docs), HistoryInv,
         NEW field \in DOMAIN Query \ {"__type", "__schema", "getRegionalStats"},
         NEW data \in Calls(field, request[field]), data.kind \notin {"error", "panic"},
         NEW value \in Resolved(field, data),
         NEW w, w => Full(data, Calls(field, request[field]))
  PROVE  ValueOK(field, value, Cardinality(Counted(field)), w)
<1> DEFINE filter == request[field]
           found == Matching(docs, filter)
<1>1. /\ found \in SUBSET docs
      /\ \A d \in found : d.agent # NoAgent /\ d.sync \in {"synced", "unsynced"}
  BY MatchingDocs
<1>2. field \notin {"aggregateByNetwork"} => Counted(field) = found
  BY DEF Counted
<1> HIDE DEF found
<1>3. ASSUME NEW all, all = Calls(field, request[field]), data.kind = "rows" PROVE w => Complete(data, all)
  BY <1>3 DEF Full
<1>4. ASSUME NEW key, key = [d \in DOMAIN key |-> key[d]], DOMAIN key = Counted(field),
             DOMAIN key \subseteq docs,
             Calls(field, filter) = Filtered(filter, Fetched(Grouped(key))),
             field \in CountLists \ {"aggregateByClientVersion", "aggregateByHardforkSchedule"}
      PROVE  ValueOK(field, value, Cardinality(Counted(field)), w)
  <2>1. data \in Filtered(filter, Fetched(Grouped(key)))
    BY <1>4
  <2>2. data.kind = "rows"
    <3> HIDE DEF filter
    <3>1. data.kind \in {"error", "panic", "rows"}
      BY <2>1, FetchedIs
    <3> QED
      BY <3>1
  <2>3. w => Complete(data, Filtered(filter, Fetched(Grouped(key))))
    BY <1>3, <1>4, <2>2
  <2>4. Resolved(field, data) = {data.rows}
    BY <1>4 DEF Resolved, Made, CountLists
  <2>5. ValueOK(field, data.rows, Cardinality(DOMAIN key), w)
    BY <1>4, <2>1, <2>2, <2>3, GroupedValue
  <2> QED
    BY <1>4, <2>4, <2>5
<1>5. CASE field = "aggregateByAgentName"
  <2> DEFINE key == [d \in found |-> d.agent.name]
  <2>1. Calls(field, filter) = Filtered(filter, Fetched(Grouped(key)))
    BY <1>5, Zenon DEF Calls, Called, AggregateByAgentName, found
  <2>2. key = [d \in DOMAIN key |-> key[d]] /\ DOMAIN key = found
    OBVIOUS
  <2> HIDE DEF key
  <2> QED
    BY <1>1, <1>2, <1>4, <1>5, <2>1, <2>2 DEF CountLists
<1>6. CASE field = "aggregateByOperatingSystem"
  <2> DEFINE key == [d \in found |-> d.agent.os]
  <2>1. Calls(field, filter) = Filtered(filter, Fetched(Grouped(key)))
    BY <1>6, Zenon DEF Calls, Called, AggregateByOperatingSystem, found
  <2>2. key = [d \in DOMAIN key |-> key[d]] /\ DOMAIN key = found
    OBVIOUS
  <2> HIDE DEF key
  <2> QED
    BY <1>1, <1>2, <1>4, <1>6, <2>1, <2>2 DEF CountLists
<1>7. CASE field = "aggregateByCountry"
  <2> DEFINE key == [d \in found |-> d.geo.country]
  <2>1. Calls(field, filter) = Filtered(filter, Fetched(Grouped(key)))
    BY <1>7, Zenon DEF Calls, Called, AggregateByCountry, found
  <2>2. key = [d \in DOMAIN key |-> key[d]] /\ DOMAIN key = found
    OBVIOUS
  <2> HIDE DEF key
  <2> QED
    BY <1>1, <1>2, <1>4, <1>7, <2>1, <2>2 DEF CountLists
<1>8. CASE field = "aggregateByNetwork"
  <2> DEFINE located == {d \in found : d.geo # NoGeo}
             key == [d \in located |-> d.geo.usage]
  <2>1. Calls(field, filter) = Filtered(filter, Fetched(Grouped(key)))
    BY <1>8, Zenon DEF Calls, Called, AggregateByNetworkType, found
  <2>2. key = [d \in DOMAIN key |-> key[d]] /\ DOMAIN key = located
    OBVIOUS
  <2>3. Counted(field) = located /\ located \subseteq docs
    BY <1>1, <1>8 DEF Counted, found
  <2> HIDE DEF key, located
  <2> QED
    BY <1>4, <1>8, <2>1, <2>2, <2>3 DEF CountLists
<1>9. CASE field \in {"aggregateByClientVersion", "getAltairUpgradePercentage"}
  <2>1. Calls(field, filter) = Filtered(filter, Fetched(ClientRows(found)))
    BY <1>9, Zenon DEF Calls, Called, AggregateByClientVersion, found, ClientRows
  <2>2. data.kind = "rows"
    <3>1. data \in Filtered(filter, Fetched(ClientRows(found)))
      BY <2>1
    <3> HIDE DEF filter
    <3>2. data.kind \in {"error", "panic", "rows"}
      BY <3>1, FetchedIs
    <3> QED
      BY <3>2
  <2>3. w => Complete(data, Filtered(filter, Fetched(ClientRows(found))))
    BY <1>3, <2>1, <2>2
  <2>4. /\ ValueOK("aggregateByClientVersion", data.rows, Cardinality(found), w)
        /\ ValueOK("getAltairUpgradePercentage", GetAltairUpgradePercentage(data.rows),
                   Cardinality(found), w)
    BY <1>1, <2>1, <2>2, <2>3, ClientsValue
  <2>5. CASE field = "aggregateByClientVersion"
    BY <1>2, <2>4, <2>5 DEF Resolved, Made
  <2>6. CASE field = "getAltairUpgradePercentage"
    BY <1>2, <2>4, <2>6 DEF Resolved, Made
  <2> QED
    BY <1>9, <2>5, <2>6
<1>10. CASE field \in {"aggregateByHardforkSchedule", "getHeatmapData"}
  <2>1. Calls(field, filter) = Filtered(filter, Fetched(Viewed(found)))
    BY <1>10, Zenon DEF Calls, Called, ViewAll, found, Viewed
  <2>2. data.kind = "rows"
    <3>1. data \in Filtered(filter, Fetched(Viewed(found)))
      BY <2>1
    <3> HIDE DEF filter
    <3>2. data.kind \in {"error", "panic", "rows"}
      BY <3>1, FetchedIs
    <3> QED
      BY <3>2
  <2>3. w => Complete(data, Filtered(filter, Fetched(Viewed(found))))
    BY <1>3, <2>1, <2>2
  <2>4. /\ \A v \in AggregateByHardforkSchedule(data.rows) :
             ValueOK("aggregateByHardforkSchedule", v, Cardinality(found), w)
        /\ ValueOK("getHeatmapData", GetHeatmapData(data.rows), Cardinality(found), w)
    BY <1>1, <2>1, <2>2, <2>3, ViewValue
  <2>5. CASE field = "aggregateByHardforkSchedule"
    BY <1>2, <2>4, <2>5 DEF Resolved, Made
  <2>6. CASE field = "getHeatmapData"
    BY <1>2, <2>4, <2>6 DEF Resolved, Made
  <2> QED
    BY <1>10, <2>5, <2>6
<1>11. CASE field = "getNodeStats"
  <2> DEFINE all == Filtered(filter, {SyncData(found), SyncData({})})
  <2>1. Calls(field, filter) = all
    BY <1>11, Zenon DEF Calls, Called, AggregateBySyncStatus, found
  <2>2. data.kind = "sync"
    <3>1. data \in {SyncData(found), SyncData({})}
      BY <2>1, FilteredIs DEF Failed, Panicked
    <3> QED
      BY <3>1 DEF SyncData
  <2>3. w => \A d \in all : d.kind = "sync" => d.total <= data.total
    BY <2>1, <2>2 DEF Full
  <2>4. IsFiniteSet(found)
    BY <1>1, FoundFinite
  <2>5. /\ data.total \in Nat /\ data.synced \in Nat /\ data.unsynced \in Nat
        /\ data.synced + data.unsynced = data.total
        /\ w => data.total >= Cardinality(found)
    BY <1>1, <2>1, <2>2, <2>3, <2>4, SyncValue
  <2>6. ValueOK("getNodeStats", GetNodeStats(data), Cardinality(found), w)
    BY <2>5, StatsValue
  <2>7. value = GetNodeStats(data)
    BY <1>11 DEF Resolved, Made
  <2> QED
    BY <1>2, <1>11, <2>6, <2>7
<1>12. CASE field = "getNodeStatsOverTime"
  <2>1. data \in GetHistory(records, Window, filter)
    BY <1>12 DEF Calls, Called
  <2>2. ValueOK("getNodeStatsOverTime", GetNodeStatsOverTime(data.rows), Cardinality(Counted(field)), w)
    BY <2>1, HistoryValue
  <2>3. value = GetNodeStatsOverTime(data.rows)
    BY <1>12 DEF Resolved, Made
  <2> QED
    BY <1>12, <2>2, <2>3
<1> QED
  BY <1>5, <1>6, <1>7, <1>8, <1>9, <1>10, <1>11, <1>12, FieldsOfQuery
     DEF CountLists, OtherLists, Objects

(* A store panics on nothing but a filter that is too short.               *)
LEMMA PanicOfFilter ==
  ASSUME HistoryInv, NEW field \in DOMAIN Query \ {"__type", "__schema"}, NEW filter,
         NEW data \in Calls(field, filter), data.kind = "panic"
  PROVE  filter = "short"
<1>1. ASSUME NEW rows, Calls(field, filter) = Filtered(filter, Fetched(rows))
      PROVE  filter = "short"
  <2>1. data \in Filtered(filter, Fetched(rows))
    BY <1>1
  <2> QED
    BY <2>1, FetchedIs
<1>2. CASE field \in {"aggregateByAgentName", "aggregateByOperatingSystem", "aggregateByNetwork",
                     "aggregateByCountry", "getRegionalStats"}
  BY <1>1, <1>2, Zenon DEF Calls, Called, AggregateByAgentName, AggregateByOperatingSystem, AggregateByNetworkType,
     AggregateByCountry
<1>3. CASE field \in {"aggregateByClientVersion", "getAltairUpgradePercentage",
                      "aggregateByHardforkSchedule", "getHeatmapData"}
  BY <1>1, <1>3, Zenon DEF Calls, Called, AggregateByClientVersion, ViewAll
<1>4. CASE field = "getNodeStats"
  <2>1. \E S : data \in Filtered(filter, {SyncData(S), SyncData({})})
    BY <1>4, Zenon DEF Calls, Called, AggregateBySyncStatus
  <2>2. \A S : SyncData(S).kind = "sync"
    BY DEF SyncData
  <2> QED
    BY <2>1, <2>2, FilteredIs DEF Failed
<1>5. CASE field = "getNodeStatsOverTime"
  <2>1. \E rows : data \in Filtered(filter, IF filter \in Digests THEN {} ELSE Fetched(rows))
    BY <1>5, Zenon DEF Calls, Called, GetHistory
  <2>2. PICK rows : data \in Filtered(filter, IF filter \in Digests THEN {} ELSE Fetched(rows))
    BY <2>1
  <2>3. CASE filter \in Digests
    BY <2>2, <2>3, FilteredIs DEF Failed
  <2>4. CASE filter \notin Digests
    BY <2>2, <2>4, FetchedIs
  <2> QED
    BY <2>3, <2>4
<1> QED
  BY <1>2, <1>3, <1>4, <1>5, FieldsOfQuery DEF CountLists, OtherLists, Objects

(* No peer that getHeatmapData reads is without agent.                     *)
LEMMA NoPeerWithoutAgent ==
  ASSUME Collection(docs), NEW filter, NEW data \in ViewAll(docs, filter), data.kind = "rows"
  PROVE  ~Dereferences(data.rows)
<1> DEFINE found == Matching(docs, filter)
<1>1. /\ found \in SUBSET docs
      /\ \A d \in found : d.agent # NoAgent
  BY MatchingDocs
<1>2. data \in Filtered(filter, Fetched(Viewed(found)))
  BY Zenon DEF ViewAll, Viewed
<1>3. \A id \in DOMAIN data.rows : data.rows[id] \in found
  <2> HIDE DEF found
  <2>1. FALSE => Complete(data, Filtered(filter, Fetched(Viewed(found))))
    OBVIOUS
  <2> QED
    BY <1>1, <1>2, <2>1, ViewValue
<1> QED
  BY <1>1, <1>3 DEF Dereferences, OnTheMap

(* getRegionalStats once it has read both collections of rows.             *)
LEMMA ReadAgainValue ==
  ASSUME Collection(docs), NEW filter, NEW data \in AggregateByNetworkType(docs, filter),
         NEW s, s = Cardinality({d \in Matching(docs, filter) : d.geo # NoGeo}),
         NEW w, w => Full(data, AggregateByNetworkType(docs, filter))
  PROVE  /\ data.kind \in {"error", "panic", "rows"}
         /\ data.kind = "panic" => filter = "short"
         /\ data.kind = "rows" =>
              \A cs : ValueOK("getRegionalStats", GetRegionalStats(cs, data.rows), s, w)
<1> DEFINE located == {d \in Matching(docs, filter) : d.geo # NoGeo}
           key == [d \in located |-> d.geo.usage]
           all == Filtered(filter, Fetched(Grouped(key)))
<1>1. AggregateByNetworkType(docs, filter) = all
  BY Zenon DEF AggregateByNetworkType
<1>2. key = [d \in DOMAIN key |-> key[d]] /\ DOMAIN key = located /\ s = Cardinality(located)
  OBVIOUS
<1>3. located \subseteq docs
  BY MatchingDocs
<1> HIDE DEF key, located
<1>4. /\ data.kind \in {"error", "panic", "rows"}
      /\ data.kind = "panic" => filter = "short"
  <2>1. data \in Filtered(filter, Fetched(Grouped(key)))
    BY <1>1
  <2> QED
    BY <2>1, FetchedIs
<1>5. ASSUME data.kind = "rows", NEW cs
      PROVE  ValueOK("getRegionalStats", GetRegionalStats(cs, data.rows), s, w)
  <2>1. w => Complete(data, Filtered(filter, Fetched(Grouped(key))))
    BY <1>1, <1>5 DEF Full
  <2>2. "aggregateByNetwork" \in CountLists /\ "aggregateByNetwork" # "aggregateByClientVersion"
    BY DEF CountLists
  <2>3. data \in Filtered(filter, Fetched(Grouped(key)))
    BY <1>1
  <2>4. ValueOK("aggregateByNetwork", data.rows, Cardinality(DOMAIN key), w)
    BY <1>2, <1>3, <1>5, <2>1, <2>2, <2>3, GroupedValue
  <2> QED
    BY <1>2, <2>4, RegionalValue
<1> QED
  BY <1>4, <1>5

-----------------------------------------------------------------------------
(* The steps of a field *)

(* A step of one field leaves the others alone.                            *)
OnlyField(field) ==
  /\ UNCHANGED <<phase, request, reply>>
  /\ stage' = [f \in Asked |-> stage'[f]] /\ out' = [f \in Asked |-> out'[f]]
  /\ left' = [f \in Asked |-> left'[f]] /\ seen' = [f \in Asked |-> seen'[f]]
  /\ whole' = [f \in Asked |-> whole'[f]]
  /\ \A f \in Asked \ {field} :
       /\ stage'[f] = stage[f] /\ out'[f] = out[f] /\ left'[f] = left[f]
       /\ seen'[f] = seen[f] /\ whole'[f] = whole[f]
  /\ invalids' \in {invalids, invalids \cup {field}}
  /\ errors' \in {errors, errors \cup {field}}

LEMMA FieldStep ==
  ASSUME RequestInv, phase = "running", NEW field \in Asked, OnlyField(field),
         FieldOK(field, request[field], stage'[field], out'[field], left'[field],
                 seen'[field], whole'[field]),
         field \in invalids' <=> field \notin {"__type", "__schema"} /\ out'[field].shape = "null",
         out'[field].shape = "null" /\ out'[field].why # "unknown" => field \in errors'
  PROVE  RequestInv'
<1>1. UNCHANGED <<phase, request, reply, Asked>>
  BY DEF OnlyField, Asked
<1>2. Asked \subseteq DOMAIN Query /\ Asked' \subseteq DOMAIN Query
  BY <1>1 DEF RequestInv
<1>3. FieldTypes'
  BY <1>1 DEF RequestInv, FieldTypes, OnlyField
<1>4. ASSUME NEW f \in Asked
      PROVE  FieldOK(f, request'[f], stage'[f], out'[f], left'[f], seen'[f], whole'[f])
  <2>1. CASE f = field
    BY <1>1, <2>1
  <2>2. CASE f # field
    <3>1. FieldOK(f, request[f], stage[f], out[f], left[f], seen[f], whole[f])
      BY DEF RequestInv
    <3> QED
      BY <1>1, <2>2, <3>1 DEF OnlyField
  <2> QED
    BY <2>1, <2>2
<1>5. ASSUME NEW f \in Asked PROVE FailsOK(f)'
  <2>1. CASE f = field
    BY <2>1 DEF FailsOK
  <2>2. CASE f # field
    <3>1. FailsOK(f)
      BY DEF RequestInv
    <3>2. (f \in invalids' <=> f \in invalids) /\ (f \in errors' <=> f \in errors) /\ out'[f] = out[f]
      BY <2>2 DEF OnlyField
    <3> QED
      BY <3>1, <3>2 DEF FailsOK
  <2> QED
    BY <2>1, <2>2
<1> QED
  BY <1>1, <1>2, <1>3, <1>4, <1>5 DEF RequestInv

(* A field that has failed.                                                *)
LEMMA NullStep ==
  ASSUME RequestInv, phase = "running", NEW field \in Asked, field \notin {"__type", "__schema"},
         UNCHANGED <<phase, request, reply>>, left[field] = 0,
         seen' = [f \in Asked |-> seen'[f]], whole' = [f \in Asked |-> whole'[f]],
         \A f \in Asked \ {field} : seen'[f] = seen[f] /\ whole'[f] = whole[f],
         seen'[field] \in Nat,
         NEW why, NullField(field, why), why = "panic" => request[field] = "short"
  PROVE  RequestInv'
<1>1. FieldTypes
  BY DEF RequestInv
<1>2. /\ stage'[field] = "done" /\ out'[field] = Null(why) /\ left' = left
      /\ \A f \in Asked \ {field} : stage'[f] = stage[f] /\ out'[f] = out[f]
      /\ stage' = [f \in Asked |-> stage'[f]] /\ out' = [f \in Asked |-> out'[f]]
  BY <1>1 DEF NullField, FieldTypes
<1>3. invalids' = invalids \cup {field} /\ errors' = errors \cup {field}
  BY DEF NullField
<1>4. OnlyField(field)
  BY <1>1, <1>2, <1>3 DEF OnlyField, FieldTypes
<1>5. out'[field].shape = "null" /\ out'[field].why = why
  BY <1>2 DEF Null
<1>6. FieldOK(field, request[field], stage'[field], out'[field], left'[field],
              seen'[field], whole'[field])
  BY <1>2, <1>5 DEF FieldOK, ResultOK
<1> QED
  BY <1>3, <1>4, <1>5, <1>6, FieldStep

(* A field whose resolver has returned.                                    *)
LEMMA MarshalStep ==
  ASSUME RequestInv, phase = "running", NEW field \in Asked, field \notin {"__type", "__schema"},
         UNCHANGED <<phase, request, reply>>, left[field] = 0, field \notin invalids,
         seen' = [f \in Asked |-> seen'[f]], whole' = [f \in Asked |-> whole'[f]],
         \A f \in Asked \ {field} : seen'[f] = seen[f] /\ whole'[f] = whole[f],
         seen'[field] \in Nat,
         NEW value, ValueOK(field, value, seen'[field], whole'[field]), Marshals(field, value)
  PROVE  RequestInv'
<1>1. FieldTypes /\ field \in DOMAIN Query
  BY DEF RequestInv
<1>2. CASE field \in CountLists \cup OtherLists
  <2> DEFINE R == DOMAIN value
             W == IF Cardinality(R) = 1 THEN [k \in R |-> Written(Query[field].type, value[k])] ELSE <<>>
  <2>1. Lists(field, value)
    BY <1>1, <1>2, Shapes DEF Marshals
  <2>2. /\ left' = [left EXCEPT ![field] = Added(value)]
        /\ out' = [out EXCEPT ![field] = [shape |-> "list", rows |-> value, written |-> W]]
        /\ stage' = [stage EXCEPT ![field] = "writing"]
        /\ UNCHANGED <<invalids, errors>>
    BY <2>1, Zenon DEF Lists
  <2> HIDE DEF W
  <2>3. OnlyField(field)
    BY <1>1, <2>2 DEF OnlyField, FieldTypes
  <2> DEFINE o == [shape |-> "list", rows |-> value, written |-> W]
  <2>4. stage'[field] = "writing" /\ out'[field] = o /\ left'[field] = Added(value)
    BY <1>1, <2>2 DEF FieldTypes
  <2>5. IsFiniteSet(R) /\ Cardinality(R) <= Bound /\ RowsOK(field, value, seen'[field], whole'[field])
    BY <1>2 DEF ValueOK
  <2>6. /\ DOMAIN W \subseteq R
        /\ \A k \in DOMAIN W : W[k] = Written(Query[field].type, value[k])
        /\ Added(value) = Cardinality(R \ DOMAIN W)
        /\ W = [k \in DOMAIN W |-> W[k]]
    <3>1. CASE Cardinality(R) = 1
      <4>1. DOMAIN W = R /\ \A k \in R : W[k] = Written(Query[field].type, value[k])
        BY <3>1 DEF W
      <4>2. R \ DOMAIN W = {}
        BY <4>1
      <4>3. W = [k \in DOMAIN W |-> W[k]]
        BY <3>1 DEF W
      <4> QED
        BY <3>1, <4>1, <4>2, <4>3, FS_EmptySet DEF Added
    <3>2. CASE Cardinality(R) # 1
      <4>1. DOMAIN W = {}
        BY <3>2, EmptySeq, LenProperties DEF W
      <4>2. R \ DOMAIN W = R
        BY <4>1
      <4>3. W = [k \in DOMAIN W |-> W[k]]
        BY <3>2 DEF W
      <4> QED
        BY <3>2, <4>1, <4>2, <4>3 DEF Added
    <3> QED
      BY <3>1, <3>2
  <2>7. o = [shape |-> "list", rows |-> o.rows, written |-> o.written]
        /\ o.rows = value /\ o.written = W /\ o.shape = "list"
    OBVIOUS
  <2> HIDE DEF o
  <2>8. ListOK(field, o, seen'[field], whole'[field])
    BY <1>2, <2>5, <2>6, <2>7 DEF ListOK
  <2>9. FieldOK(field, request[field], stage'[field], out'[field], left'[field],
                seen'[field], whole'[field])
    BY <2>4, <2>6, <2>7, <2>8 DEF FieldOK
  <2> QED
    BY <2>2, <2>3, <2>4, <2>7, <2>9, FieldStep
<1>3. CASE field \in Objects \cup {"getAltairUpgradePercentage"}
  <2>1. PICK o : /\ out' = [out EXCEPT ![field] = o]
                 /\ stage' = [stage EXCEPT ![field] = "done"]
                 /\ UNCHANGED <<left, invalids, errors>>
                 /\ \/ field \in Objects /\ o = [shape |-> "object", object |-> Written(Query[field].type, value)]
                    \/ field = "getAltairUpgradePercentage" /\ o = [shape |-> "float", float |-> value]
    <3>1. CASE field \in Objects
      BY <1>1, <3>1, Shapes DEF Marshals, CountLists, OtherLists, Objects
    <3>2. CASE field = "getAltairUpgradePercentage"
      BY <1>1, <3>2, Shapes DEF Marshals, CountLists, OtherLists, Objects
    <3> QED
      BY <1>3, <3>1, <3>2
  <2>2. OnlyField(field)
    BY <1>1, <2>1 DEF OnlyField, FieldTypes
  <2>3. stage'[field] = "done" /\ out'[field] = o /\ left'[field] = 0
    BY <1>1, <2>1 DEF FieldTypes
  <2>4. o.shape # "null" /\ ResultOK(field, request[field], o, seen'[field], whole'[field])
    BY <2>1 DEF ResultOK, ValueOK
  <2>5. FieldOK(field, request[field], stage'[field], out'[field], left'[field],
                seen'[field], whole'[field])
    BY <2>3, <2>4 DEF FieldOK
  <2> QED
    BY <2>1, <2>2, <2>3, <2>4, <2>5, FieldStep
<1> QED
  BY <1>1, <1>2, <1>3, FieldsOfQuery

LEMMA NotesStep ==
  ASSUME RequestInv, Collection(docs), NEW field \in Asked, NEW data, NEW all, Notes(field, data, all)
  PROVE  /\ seen' = [f \in Asked |-> seen'[f]] /\ whole' = [f \in Asked |-> whole'[f]]
         /\ \A f \in Asked \ {field} : seen'[f] = seen[f] /\ whole'[f] = whole[f]
         /\ seen'[field] = Cardinality(Counted(field)) /\ seen'[field] \in Nat
         /\ whole'[field] => Full(data, all)
<1>1. FieldTypes
  BY DEF RequestInv
<1>2. Counted(field) \in SUBSET docs
  BY DEF Counted, Matching
<1>3. Cardinality(Counted(field)) \in Nat
  BY <1>2, FoundFinite
<1>4. /\ seen' = [seen EXCEPT ![field] = Cardinality(Counted(field))]
      /\ whole' = [whole EXCEPT ![field] = @ /\ Full(data, all)]
  BY Zenon DEF Notes, Full, Complete
<1>5. /\ seen' = [f \in Asked |-> seen'[f]]
      /\ \A f \in Asked \ {field} : seen'[f] = seen[f]
      /\ seen'[field] = Cardinality(Counted(field))
  BY <1>1, <1>4 DEF FieldTypes
<1>6. DOMAIN whole = Asked
  BY <1>1, Zenon DEF FieldTypes
<1>7. /\ whole' = [f \in Asked |-> whole'[f]]
      /\ \A f \in Asked \ {field} : whole'[f] = whole[f]
      /\ whole'[field] = (whole[field] /\ Full(data, all))
  BY <1>4, <1>6, Zenon
<1> QED
  BY <1>3, <1>5, <1>7

(* A field that waits for a store has come to nothing yet.                 *)
LEMMA Waiting ==
  ASSUME RequestInv, NEW field \in Asked, stage[field] \in {"ready", "again"}
  PROVE  /\ field \in DOMAIN Query \ {"__type", "__schema"}
         /\ out[field] = Nothing /\ left[field] = 0 /\ field \notin invalids
         /\ stage[field] = "again" => field = "getRegionalStats"
<1>1. field \in DOMAIN Query /\ FailsOK(field)
  BY DEF RequestInv
<1>2. FieldOK(field, request[field], stage[field], out[field], left[field], seen[field], whole[field])
  BY DEF RequestInv
<1>3. Nothing.shape # "null"
  BY DEF Nothing
<1> QED
  BY <1>1, <1>2, <1>3 DEF FieldOK, FailsOK

LEMMA ReadStep ==
  ASSUME Collection(docs), HistoryInv, RequestInv, NEW field \in Asked, Read(field)
  PROVE  RequestInv'
<1>1. PICK data \in Calls(field, request[field]) :
        /\ Notes(field, data, Calls(field, request[field]))
        /\ \/ /\ Breaks(field, data)
              /\ NullField(field, IF data.kind = "error" THEN "error" ELSE "panic")
           \/ /\ ~Breaks(field, data) /\ field = "getRegionalStats"
              /\ stage' = [stage EXCEPT ![field] = "again"]
              /\ UNCHANGED <<out, left, invalids, errors>>
           \/ /\ ~Breaks(field, data) /\ field # "getRegionalStats"
              /\ \E value \in Resolved(field, data) : Marshals(field, value)
  BY Zenon DEF Read
<1>2. phase = "running" /\ stage[field] = "ready" /\ UNCHANGED <<phase, request, reply>>
  BY DEF Read
<1>3. /\ field \in DOMAIN Query \ {"__type", "__schema"}
      /\ out[field] = Nothing /\ left[field] = 0 /\ field \notin invalids
  BY <1>2, Waiting
<1> DEFINE all == Calls(field, request[field])
<1>4. /\ seen' = [f \in Asked |-> seen'[f]] /\ whole' = [f \in Asked |-> whole'[f]]
      /\ \A f \in Asked \ {field} : seen'[f] = seen[f] /\ whole'[f] = whole[f]
      /\ seen'[field] = Cardinality(Counted(field)) /\ seen'[field] \in Nat
      /\ whole'[field] => Full(data, all)
  BY <1>1, NotesStep
<1>5. data.kind = "panic" => request[field] = "short"
  BY <1>3, PanicOfFilter
<1> HIDE DEF all
<1>6. CASE Breaks(field, data)
  <2>1. data.kind \in {"error", "panic"}
    <3>1. SUFFICES ASSUME field = "getHeatmapData", Dereferences(data.rows),
                          data.kind \notin {"error", "panic"}
                   PROVE  FALSE
      BY <1>6 DEF Breaks
    <3>2. data \in ViewAll(docs, request[field])
      BY <3>1 DEF Calls, Called
    <3> DEFINE rows == Viewed(Matching(docs, request[field]))
               filter == request[field]
    <3>3. data \in Filtered(filter, Fetched(rows))
      BY <3>2, Zenon DEF ViewAll, Viewed
    <3> HIDE DEF rows, filter
    <3>4. data.kind \in {"error", "panic", "rows"}
      BY <3>3, FetchedIs
    <3> QED
      BY <3>1, <3>2, <3>4, NoPeerWithoutAgent
  <2> DEFINE why == IF data.kind = "error" THEN "error" ELSE "panic"
  <2>2. NullField(field, why)
    BY <1>1, <1>6
  <2>3. why = "panic" => request[field] = "short"
    BY <1>5, <2>1
  <2> HIDE DEF why
  <2> QED
    BY <1>2, <1>3, <1>4, <2>2, <2>3, NullStep
<1>7. CASE ~Breaks(field, data) /\ field = "getRegionalStats"
  <2>1. stage' = [stage EXCEPT ![field] = "again"] /\ UNCHANGED <<out, left, invalids, errors>>
    BY <1>1, <1>7
  <2>2. FieldTypes
    BY DEF RequestInv
  <2>3. OnlyField(field)
    BY <1>2, <1>4, <2>1, <2>2 DEF OnlyField, FieldTypes
  <2>4. stage'[field] = "again" /\ out'[field] = Nothing /\ left'[field] = 0 /\ Nothing.shape # "null"
    BY <1>3, <2>1, <2>2 DEF FieldTypes, Nothing
  <2>5. FieldOK(field, request[field], stage'[field], out'[field], left'[field],
                seen'[field], whole'[field])
    BY <1>3, <1>4, <1>7, <2>4 DEF FieldOK
  <2> QED
    BY <1>2, <1>3, <2>1, <2>3, <2>4, <2>5, FieldStep
<1>8. CASE ~Breaks(field, data) /\ field # "getRegionalStats"
  <2>1. data.kind \notin {"error", "panic"}
    BY <1>8 DEF Breaks
  <2>2. PICK value \in Resolved(field, data) : Marshals(field, value)
    BY <1>1, <1>8
  <2>3. field \in DOMAIN Query \ {"__type", "__schema", "getRegionalStats"}
    BY <1>3, <1>8
  <2>4. ValueOK(field, value, Cardinality(Counted(field)), whole'[field])
    BY <1>4, <2>1, <2>2, <2>3, ReadValue DEF all
  <2> QED
    BY <1>2, <1>3, <1>4, <2>2, <2>4, MarshalStep
<1> QED
  BY <1>6, <1>7, <1>8

LEMMA ReadAgainStep ==
  ASSUME Collection(docs), RequestInv, NEW field \in Asked, ReadAgain(field)
  PROVE  RequestInv'
<1> DEFINE all == AggregateByNetworkType(docs, request[field])
<1>1. PICK data \in all :
        /\ Notes(field, data, all)
        /\ IF data.kind = "rows"
           THEN \E value \in Resolved(field, data) : Marshals(field, value)
           ELSE NullField(field, data.kind)
  BY Zenon DEF ReadAgain, CalledAgain
<1>2. phase = "running" /\ stage[field] = "again" /\ UNCHANGED <<phase, request, reply>>
  BY DEF ReadAgain
<1>3. /\ field \in DOMAIN Query \ {"__type", "__schema"} /\ field = "getRegionalStats"
      /\ out[field] = Nothing /\ left[field] = 0 /\ field \notin invalids
  BY <1>2, Waiting
<1>4. /\ seen' = [f \in Asked |-> seen'[f]] /\ whole' = [f \in Asked |-> whole'[f]]
      /\ \A f \in Asked \ {field} : seen'[f] = seen[f] /\ whole'[f] = whole[f]
      /\ seen'[field] = Cardinality(Counted(field)) /\ seen'[field] \in Nat
      /\ whole'[field] => Full(data, all)
  BY <1>1, NotesStep
<1>5. Counted(field) = {d \in Matching(docs, request[field]) : d.geo # NoGeo}
  BY <1>3 DEF Counted
<1>6. /\ data.kind \in {"error", "panic", "rows"}
      /\ data.kind = "panic" => request[field] = "short"
      /\ data.kind = "rows" =>
           \A cs : ValueOK("getRegionalStats", GetRegionalStats(cs, data.rows), seen'[field], whole'[field])
  BY <1>4, <1>5, ReadAgainValue
<1> HIDE DEF all
<1>7. CASE data.kind = "rows"
  <2>1. PICK value \in Resolved(field, data) : Marshals(field, value)
    BY <1>1, <1>7
  <2>2. value = GetRegionalStats(countries[field], data.rows)
    BY <1>3, <2>1 DEF Resolved, Made
  <2>3. ValueOK(field, value, seen'[field], whole'[field])
    BY <1>3, <1>6, <1>7, <2>2
  <2> QED
    BY <1>2, <1>3, <1>4, <2>1, <2>3, MarshalStep
<1>8. CASE data.kind # "rows"
  <2>1. NullField(field, data.kind)
    BY <1>1, <1>8
  <2> QED
    BY <1>2, <1>3, <1>4, <1>6, <1>8, <2>1, NullStep
<1> QED
  BY <1>7, <1>8

LEMMA ListFields ==
  ASSUME NEW f, NEW o, NEW s, NEW w, ListOK(f, o, s, w)
  PROVE  o.shape = "list"
BY DEF ListOK

(* The written elements are written once, and the WaitGroup counts them.   *)
LEMMA WriteElementStep ==
  ASSUME RequestInv, NEW field \in Asked, NEW k, WriteElement(field, k)
  PROVE  RequestInv'
<1> DEFINE o == out[field]
           t == Written(Query[field].type, o.rows[k])
           W == [j \in DOMAIN o.written \cup {k} |-> IF j = k THEN t ELSE o.written[j]]
           p == [shape |-> "list", rows |-> o.rows, written |-> W]
           s == seen[field]
           w == whole[field]
           rest == DOMAIN o.rows \ DOMAIN o.written
<1>1. /\ phase = "running" /\ stage[field] = "writing" /\ k \in rest
      /\ out' = [out EXCEPT ![field].written =
           [j \in DOMAIN @ \cup {k} |-> IF j = k THEN Written(Query[field].type, out[field].rows[k]) ELSE @[j]]]
      /\ left' = [left EXCEPT ![field] = @ - 1]
      /\ UNCHANGED <<phase, request, reply, stage, invalids, errors, seen, whole>>
  BY DEF WriteElement
<1>2. FieldTypes
  BY DEF RequestInv
<1>3. ListOK(field, o, s, w) /\ left[field] = Cardinality(rest) /\ s \in Nat
  BY <1>1 DEF RequestInv, FieldOK
<1>4. o = [shape |-> "list", rows |-> o.rows, written |-> o.written]
  BY <1>3, Zenon DEF ListOK
<1>5. out'[field] = [o EXCEPT !.written = W]
  BY <1>1, <1>2 DEF FieldTypes
<1> HIDE DEF W, t
<1>6. out'[field] = p
  BY <1>4, <1>5
<1>7. DOMAIN W = DOMAIN o.written \cup {k} /\ DOMAIN W \subseteq DOMAIN o.rows
  BY <1>1, <1>3 DEF W, ListOK
<1>8. /\ \A j \in DOMAIN W : W[j] = Written(Query[field].type, o.rows[j])
      /\ W = [j \in DOMAIN W |-> W[j]]
  BY <1>3, <1>7 DEF W, t, ListOK
<1>9. left'[field] = Cardinality(DOMAIN o.rows \ DOMAIN W)
  <2>1. DOMAIN o.rows \ DOMAIN W = rest \ {k}
    BY <1>7
  <2>2. IsFiniteSet(DOMAIN o.rows)
    BY <1>3 DEF ListOK
  <2>3. IsFiniteSet(rest)
    BY <2>2, FS_Subset
  <2>4. left'[field] = left[field] - 1
    BY <1>1, <1>2 DEF FieldTypes
  <2> HIDE DEF rest, o
  <2>5. Cardinality(rest \ {k}) = Cardinality(rest) - 1
    BY <1>1, <2>3, FS_RemoveElement
  <2> QED
    BY <1>3, <2>1, <2>4, <2>5
<1>10. p.rows = o.rows /\ p.written = W /\ p.shape = "list"
       /\ p = [shape |-> "list", rows |-> p.rows, written |-> p.written]
  OBVIOUS
<1> HIDE DEF p, o
<1>11. ListOK(field, p, s, w)
  BY <1>3, <1>7, <1>8, <1>10 DEF ListOK
<1>12. FieldOK(field, request[field], stage'[field], out'[field], left'[field],
               seen'[field], whole'[field])
  BY <1>1, <1>3, <1>6, <1>9, <1>10, <1>11 DEF FieldOK
<1>13. OnlyField(field)
  BY <1>1, <1>2 DEF OnlyField, FieldTypes
<1>14. field \notin invalids
  <2>1. FailsOK(field)
    BY DEF RequestInv
  <2> QED
    BY <1>3, <2>1, ListFields DEF FailsOK, o
<1> QED
  BY <1>1, <1>6, <1>10, <1>12, <1>13, <1>14, FieldStep

(* wg.Wait comes back when there is nothing left to write.                 *)
LEMMA ReturnsListStep ==
  ASSUME RequestInv, NEW field \in Asked, ReturnsList(field)
  PROVE  RequestInv'
<1> DEFINE o == out[field]
           rest == DOMAIN o.rows \ DOMAIN o.written
<1>1. /\ phase = "running" /\ stage[field] = "writing" /\ left[field] = 0
      /\ stage' = [stage EXCEPT ![field] = "done"]
      /\ UNCHANGED <<phase, request, reply, out, left, invalids, errors, seen, whole>>
  BY DEF ReturnsList
<1>2. FieldTypes
  BY DEF RequestInv
<1>3. ListOK(field, o, seen[field], whole[field]) /\ left[field] = Cardinality(rest) /\ seen[field] \in Nat
  BY <1>1 DEF RequestInv, FieldOK
<1>4. DOMAIN o.written = DOMAIN o.rows
  <2>1. IsFiniteSet(DOMAIN o.rows) /\ DOMAIN o.written \subseteq DOMAIN o.rows
    BY <1>3 DEF ListOK
  <2>2. IsFiniteSet(rest)
    BY <2>1, FS_Subset
  <2>3. rest = {}
    BY <1>1, <1>3, <2>2, FS_EmptySet
  <2> QED
    BY <2>1, <2>3
<1>5. ResultOK(field, request[field], o, seen[field], whole[field])
  BY <1>3, <1>4 DEF ResultOK
<1>6. stage'[field] = "done"
  BY <1>1, <1>2 DEF FieldTypes
<1>7. FieldOK(field, request[field], stage'[field], out'[field], left'[field],
              seen'[field], whole'[field])
  BY <1>1, <1>3, <1>5, <1>6 DEF FieldOK
<1>8. OnlyField(field)
  BY <1>1, <1>2 DEF OnlyField, FieldTypes
<1>9. FailsOK(field)
  BY DEF RequestInv
<1> QED
  BY <1>1, <1>7, <1>8, <1>9, FieldStep DEF FailsOK

(* The steps of a request *)

LEMMA AskStep ==
  ASSUME NEW r \in Requests, Ask(r)
  PROVE  RequestInv'
<1>1. Asked' = DOMAIN r /\ request' = r /\ DOMAIN r \subseteq DOMAIN Query
  BY CollectionAssumption DEF Ask, Asked
<1> DEFINE inline == {f \in DOMAIN r : Inline(f)}
<1>2. inline = DOMAIN r \cap {"__type", "__schema"}
  BY <1>1, Shapes DEF Inline
<1>3. PICK disabled \in BOOLEAN, known \in BOOLEAN :
        /\ stage' = [f \in DOMAIN r |-> IF f \in inline THEN "done" ELSE "ready"]
        /\ out' = [f \in DOMAIN r |->
             IF f \notin inline THEN Nothing
             ELSE IF disabled THEN Null("error")
             ELSE IF f = "__type" /\ ~known THEN Null("unknown")
             ELSE [shape |-> "schema"]]
        /\ errors' = IF disabled THEN inline ELSE {}
  BY DEF Ask
<1>4. /\ left' = [f \in DOMAIN r |-> 0] /\ invalids' = {} /\ reply' = "none"
      /\ seen' = [f \in DOMAIN r |-> 0] /\ whole' = [f \in DOMAIN r |-> TRUE]
      /\ phase' = "running"
  BY DEF Ask
<1> HIDE DEF inline
<1>5. FieldTypes'
  <2>1. whole' = [f \in Asked' |-> whole'[f]]
    BY <1>1, <1>4
  <2>2. stage' = [f \in Asked' |-> stage'[f]] /\ left' = [f \in Asked' |-> left'[f]]
        /\ seen' = [f \in Asked' |-> seen'[f]]
    BY <1>1, <1>3, <1>4
  <2>3. out' = [f \in Asked' |-> out'[f]]
    BY <1>1, <1>3
  <2>4. invalids' \subseteq Asked' /\ errors' \subseteq Asked'
    BY <1>1, <1>2, <1>3, <1>4
  <2> QED
    BY <2>1, <2>2, <2>3, <2>4 DEF FieldTypes
<1>6. ASSUME NEW f \in DOMAIN r
      PROVE  /\ FieldOK(f, request'[f], stage'[f], out'[f], left'[f], seen'[f], whole'[f])
             /\ f \in invalids' <=> f \notin {"__type", "__schema"} /\ out'[f].shape = "null"
             /\ out'[f].shape = "null" /\ out'[f].why # "unknown" => f \in errors'
  <2>1. left'[f] = 0 /\ seen'[f] = 0
    BY <1>4
  <2>2. CASE f \notin inline
    <3>1. stage'[f] = "ready" /\ out'[f] = Nothing /\ Nothing.shape # "null" /\ f \notin {"__type", "__schema"}
      BY <1>2, <1>3, <2>2 DEF Nothing
    <3> QED
      BY <1>4, <2>1, <3>1 DEF FieldOK
  <2>3. CASE f \in inline
    <3>1. stage'[f] = "done" /\ f \in {"__type", "__schema"}
      BY <1>2, <1>3, <2>3
    <3>2. \/ disabled /\ out'[f] = Null("error") /\ f \in errors'
          \/ out'[f] = Null("unknown")
          \/ out'[f] = [shape |-> "schema"]
      BY <1>3, <2>3
    <3>3. /\ Null("error").shape = "null" /\ Null("error").why = "error"
          /\ Null("unknown").shape = "null" /\ Null("unknown").why = "unknown"
      BY DEF Null
    <3>4. ResultOK(f, request'[f], out'[f], seen'[f], whole'[f])
      BY <3>1, <3>2, <3>3 DEF ResultOK
    <3>5. FieldOK(f, request'[f], stage'[f], out'[f], left'[f], seen'[f], whole'[f])
      BY <2>1, <3>1, <3>4 DEF FieldOK
    <3>6. out'[f].shape = "null" /\ out'[f].why # "unknown" => f \in errors'
      BY <3>2, <3>3
    <3> QED
      BY <1>4, <3>1, <3>5, <3>6
  <2> QED
    BY <2>2, <2>3
<1> QED
  BY <1>1, <1>4, <1>5, <1>6 DEF RequestInv, FailsOK

LEMMA RespondStep ==
  ASSUME RequestInv, Respond
  PROVE  RequestInv'
<1> DEFINE nulls == {f \in Asked : NullFloats(f)}
<1>1. /\ \A f \in Asked : stage[f] = "done"
      /\ phase' = "answered"
      /\ reply' = IF invalids # {} THEN "null" ELSE "data"
      /\ errors' = IF invalids # {} THEN errors ELSE errors \cup nulls
      /\ UNCHANGED <<request, stage, out, left, invalids, seen, whole>>
  BY DEF Respond
<1>2. nulls \subseteq Asked
  OBVIOUS
<1> HIDE DEF nulls
<1>3. Asked' = Asked /\ errors \subseteq errors' /\ errors' \subseteq Asked \cup errors
  BY <1>1, <1>2 DEF Asked
<1>4. FieldTypes'
  BY <1>1, <1>3 DEF RequestInv, FieldTypes
<1>5. ASSUME NEW f \in Asked PROVE FailsOK(f)'
  BY <1>1, <1>3 DEF RequestInv, FailsOK
<1>6. ASSUME NEW f \in Asked
      PROVE  FieldOK(f, request'[f], stage'[f], out'[f], left'[f], seen'[f], whole'[f])
  BY <1>1 DEF RequestInv
<1>7. ASSUME NEW f \in Asked PROVE stage'[f] = "done"
  BY <1>1
<1>8. Asked' \subseteq DOMAIN Query
  BY <1>3 DEF RequestInv
<1> QED
  BY <1>1, <1>3, <1>4, <1>5, <1>6, <1>7, <1>8 DEF RequestInv

(* Nothing is asked.                                                       *)
LEMMA NothingAsked ==
  ASSUME phase = "idle", reply = "none", request = <<>>, stage = <<>>, out = <<>>, left = <<>>,
         seen = <<>>, whole = <<>>, invalids = {}, errors = {}
  PROVE  RequestInv
<1>1. Asked = {}
  BY DEF Asked
<1>2. <<>> = [f \in {} |-> <<>>[f]]
  OBVIOUS
<1>3. FieldTypes
  BY <1>1, <1>2 DEF FieldTypes
<1> QED
  BY <1>1, <1>3 DEF RequestInv

-----------------------------------------------------------------------------
(* The steps of the crawler *)

LEMMA DocKnown ==
  ASSUME NEW id \in Known
  PROVE  Doc(id) \in docs /\ Doc(id).id = id
BY DEF Known, Doc

LEMMA CollectionReplaced ==
  ASSUME Collection(docs), NEW doc, IsDoc(doc), doc.id \in Known
  PROVE  Collection(Replaced(doc))
<1>1. Doc(doc.id) \in docs /\ Doc(doc.id).id = doc.id
  BY DocKnown
<1>2. \A d \in docs : d.id = doc.id => d = Doc(doc.id)
  BY <1>1 DEF Collection
<1>3. Replaced(doc) = (docs \ {Doc(doc.id)}) \cup {doc}
  BY DEF Replaced
<1> HIDE DEF Replaced
<1>4. \A d \in Replaced(doc) : d = doc \/ (d \in docs /\ d.id # doc.id)
  BY <1>2, <1>3
<1>5. \A d \in Replaced(doc) : IsDoc(d)
  BY <1>4 DEF Collection
<1>6. \A d, e \in Replaced(doc) : d.id = e.id => d = e
  BY <1>4 DEF Collection
<1> QED
  BY <1>5, <1>6 DEF Collection

DocOf(id, c, dg, a, g, s, n) ==
  [id |-> id, connectable |-> c, digest |-> dg, agent |-> a, geo |-> g, sync |-> s, next |-> n]

AnsweredBy(d, connectable, agent, sync, digest) ==
  [d EXCEPT !.connectable = connectable, !.agent = agent, !.sync = sync, !.digest = digest]

LEMMA AnsweredDoc ==
  ASSUME NEW id, NEW c, NEW dg, NEW a, NEW g, NEW s, NEW n,
         NEW connectable, NEW digest, NEW agent, NEW sync,
         NEW d, d = DocOf(id, c, dg, a, g, s, n)
  PROVE  AnsweredBy(d, connectable, agent, sync, digest)
           = DocOf(id, connectable, digest, agent, g, sync, n)
<1> USE DEF DocOf
<1> DEFINE d1 == [d EXCEPT !.connectable = connectable]
           d2 == [d1 EXCEPT !.agent = agent]
           d3 == [d2 EXCEPT !.sync = sync]
<1>1. d1 = DocOf(id, connectable, dg, a, g, s, n)
  OBVIOUS
<1> HIDE DEF d1
<1>2. d2 = DocOf(id, connectable, dg, agent, g, s, n)
  BY <1>1
<1> HIDE DEF d2
<1>3. d3 = DocOf(id, connectable, dg, agent, g, sync, n)
  BY <1>2
<1> HIDE DEF d3
<1>4. [d3 EXCEPT !.digest = digest] = DocOf(id, connectable, digest, agent, g, sync, n)
  BY <1>3
<1> QED
  BY <1>4, Zenon DEF d1, d2, d3, AnsweredBy

(* What the crawler writes leaves one right document for each id.          *)
LEMMA CrawlerWrites ==
  ASSUME Collection(docs), NEW id \in Ids,
         StorePeer(id) \/ Answers(id) \/ FailsLate(id) \/ DeletePeer(id)
  PROVE  Collection(docs')
<1>1. CASE StorePeer(id)
  <2> DEFINE new == [id |-> id, connectable |-> FALSE, digest |-> Current, agent |-> NoAgent,
                     geo |-> NoGeo, sync |-> "none", next |-> <<"v", 1>>]
  <2>1. docs' = IF id \in Known THEN docs ELSE docs \cup {new}
    BY <1>1 DEF StorePeer
  <2>2. IsDoc(new) /\ new.id = id
    BY DEF IsDoc
  <2> HIDE DEF new
  <2>3. CASE id \in Known
    BY <2>1, <2>3
  <2>4. CASE id \notin Known
    <3>1. \A d \in docs : d.id # id
      BY <2>4 DEF Known
    <3>2. \A d \in docs' : d = new \/ d \in docs
      BY <2>1, <2>4
    <3>3. \A d \in docs' : IsDoc(d)
      BY <2>2, <3>2 DEF Collection
    <3>4. \A d, e \in docs' : d.id = e.id => d = e
      BY <2>2, <3>1, <3>2 DEF Collection
    <3> QED
      BY <3>3, <3>4 DEF Collection
  <2> QED
    BY <2>3, <2>4
<1>2. CASE Answers(id)
  <2>1. PICK agent \in Agents[id], sync \in {"synced", "unsynced"}, digest \in Digests :
          WriteDocs(Replaced([Doc(id) EXCEPT !.connectable = TRUE, !.agent = agent,
                                             !.sync = sync, !.digest = digest]))
    BY <1>2 DEF Answers
  <2> DEFINE doc == [Doc(id) EXCEPT !.connectable = TRUE, !.agent = agent,
                                    !.sync = sync, !.digest = digest]
  <2>2. id \in Known
    BY <1>2 DEF Answers
  <2>3. IsDoc(Doc(id)) /\ Doc(id).id = id
    BY <2>2, DocKnown DEF Collection
  <2> DEFINE d == Doc(id)
  <2>4. doc = DocOf(id, TRUE, digest, agent, d.geo, sync, d.next)
    <3> DEFINE b == TRUE
    <3>1. d = DocOf(id, d.connectable, d.digest, d.agent, d.geo, d.sync, d.next)
      BY <2>3 DEF IsDoc, DocOf
    <3> HIDE DEF d, b
    <3>2. AnsweredBy(d, b, agent, sync, digest) = DocOf(id, b, digest, agent, d.geo, sync, d.next)
      BY <3>1, AnsweredDoc
    <3> QED
      BY <3>2, Zenon DEF d, b, AnsweredBy
  <2>5. agent # NoAgent
    BY CollectionAssumption
  <2> HIDE DEF doc
  <2>6. IsDoc(doc) /\ doc.id = id
    BY <2>4, <2>5 DEF IsDoc, DocOf
  <2>7. docs' = Replaced(doc)
    BY <2>1 DEF WriteDocs, doc
  <2> QED
    BY <2>2, <2>6, <2>7, CollectionReplaced
<1>3. CASE FailsLate(id)
  <2>1. PICK agent \in Agents[id] : WriteDocs(Replaced([Doc(id) EXCEPT !.agent = agent]))
    BY <1>3 DEF FailsLate
  <2> DEFINE doc == [Doc(id) EXCEPT !.agent = agent]
  <2>2. id \in Known
    BY <1>3 DEF FailsLate
  <2>3. IsDoc(Doc(id)) /\ Doc(id).id = id
    BY <2>2, DocKnown DEF Collection
  <2> DEFINE d == Doc(id)
  <2>4. doc = [id |-> id, connectable |-> d.connectable, digest |-> d.digest, agent |-> agent,
               geo |-> d.geo, sync |-> d.sync, next |-> d.next]
    BY <2>3 DEF IsDoc
  <2>5. agent # NoAgent
    BY CollectionAssumption
  <2>6. d.connectable => d.sync \in {"synced", "unsynced"}
    BY <2>3 DEF IsDoc
  <2> HIDE DEF doc, d
  <2>7. IsDoc(doc) /\ doc.id = id
    BY <2>3, <2>4, <2>5, <2>6 DEF IsDoc
  <2>8. docs' = Replaced(doc)
    BY <2>1 DEF WriteDocs, doc
  <2> QED
    BY <2>2, <2>7, <2>8, CollectionReplaced
<1>4. CASE DeletePeer(id)
  <2>1. docs' = docs \ {Doc(id)}
    BY <1>4 DEF DeletePeer, WriteDocs
  <2> QED
    BY <2>1 DEF Collection
<1> QED
  BY <1>1, <1>2, <1>3, <1>4

(* No record counts more synced peers than peers.                          *)
LEMMA InsertStep ==
  ASSUME Collection(docs), HistoryInv, InsertToHistory
  PROVE  HistoryInv'
<1> DEFINE found == Matching(docs, "none")
<1>1. PICK data \in AggregateBySyncStatus(docs, "none") :
        /\ data.kind = "sync"
        /\ records' = records \cup
             {[time |-> Cardinality(records) + 1, sync |-> data.synced, eth2 |-> data.total]}
  BY DEF InsertToHistory
<1>2. Cardinality(records) < MaxJobs
  BY DEF InsertToHistory
<1>3. found \in SUBSET docs /\ \A d \in found : d.sync \in {"synced", "unsynced"}
  BY MatchingDocs
<1>4. IsFiniteSet(found)
  BY <1>3, FoundFinite
<1>5. data \in Filtered("none", {SyncData(found), SyncData({})})
  BY Zenon DEF AggregateBySyncStatus
<1> HIDE DEF found
<1>6. FALSE => \A d \in Filtered("none", {SyncData(found), SyncData({})}) :
                 d.kind = "sync" => d.total <= data.total
  OBVIOUS
<1>7. /\ data.total \in Nat /\ data.synced \in Nat /\ data.unsynced \in Nat
      /\ data.synced + data.unsynced = data.total
  BY <1>1, <1>3, <1>4, <1>5, <1>6, SyncValue
<1>8. data.synced <= data.total
  BY <1>7
<1> DEFINE new == [time |-> Cardinality(records) + 1, sync |-> data.synced, eth2 |-> data.total]
<1>9. IsFiniteSet(records) /\ Cardinality(records) \in Nat
  BY FS_CardinalityType DEF HistoryInv
<1>10. new.sync = data.synced /\ new.eth2 = data.total /\ records' = records \cup {new}
  BY <1>1
<1> HIDE DEF new
<1>11. IsFiniteSet(records') /\ Cardinality(records') <= MaxJobs
  <2>1. /\ IsFiniteSet(records \cup {new})
        /\ Cardinality(records \cup {new}) \in {Cardinality(records), Cardinality(records) + 1}
    BY <1>9, FS_AddElement
  <2> QED
    BY <1>2, <1>9, <1>10, <2>1, BoundNat
<1>12. \A r \in records' : r.sync \in Nat /\ r.eth2 \in Nat /\ r.sync <= r.eth2
  BY <1>7, <1>8, <1>10 DEF HistoryInv
<1> QED
  BY <1>11, <1>12 DEF HistoryInv

(* A request does not see the writes but through its reads.                *)
LEMMA RequestFrame ==
  ASSUME RequestInv, UNCHANGED <<phase, request, fieldVars, reply>>
  PROVE  RequestInv'
<1>1. UNCHANGED <<phase, request, stage, out, left, invalids, errors, reply, seen, whole>>
  BY DEF fieldVars
<1>2. UNCHANGED <<Asked, FieldTypes>> /\ \A f : FailsOK(f)' <=> FailsOK(f)
  BY <1>1, Zenon DEF Asked, FieldTypes, FailsOK
<1> QED
  BY <1>1, <1>2 DEF RequestInv

-----------------------------------------------------------------------------
(* The invariant is inductive *)

LEMMA QueryInit == QInit => QueryInv
<1> SUFFICES ASSUME QInit PROVE QueryInv
  OBVIOUS
<1>1. Collection(docs)
  BY CollectionAssumption DEF QInit
<1>2. HistoryInv
  BY BoundNat, FS_EmptySet DEF QInit, HistoryInv
<1>3. RequestInv
  BY NothingAsked DEF QInit
<1> QED
  BY <1>1, <1>2, <1>3 DEF QueryInv

LEMMA HistoryFrame ==
  ASSUME HistoryInv, UNCHANGED records
  PROVE  HistoryInv'
BY DEF HistoryInv

LEMMA QueryNext == QueryInv /\ [QNext]_qvars => QueryInv'
<1> SUFFICES ASSUME QueryInv, [QNext]_qvars PROVE QueryInv'
  OBVIOUS
<1>1. Collection(docs) /\ HistoryInv /\ RequestInv
  BY DEF QueryInv
<1>2. ASSUME UNCHANGED docs PROVE Collection(docs)' /\ Collection(docs')
  BY <1>1, <1>2
<1>3. ASSUME NEW id \in Ids, StorePeer(id) \/ Answers(id) \/ FailsLate(id) \/ DeletePeer(id)
      PROVE  QueryInv'
  <2>1. UNCHANGED <<records, phase, request, fieldVars, reply>>
    BY <1>3 DEF StorePeer, Answers, FailsLate, DeletePeer, WriteDocs
  <2>2. Collection(docs')
    BY <1>1, <1>3, CrawlerWrites
  <2> QED
    BY <1>1, <2>1, <2>2, HistoryFrame, RequestFrame DEF QueryInv
<1>4. CASE InsertToHistory
  <2>1. UNCHANGED <<docs, phase, request, fieldVars, reply>>
    BY <1>4 DEF InsertToHistory
  <2> QED
    BY <1>1, <1>2, <1>4, <2>1, InsertStep, RequestFrame DEF QueryInv
<1>5. ASSUME RequestInv', UNCHANGED crawlerVars PROVE QueryInv'
  <2>1. UNCHANGED <<docs, records>>
    BY <1>5 DEF crawlerVars
  <2> QED
    BY <1>1, <1>2, <1>5, <2>1, HistoryFrame DEF QueryInv
<1>6. ASSUME NEW r \in Requests, Ask(r) PROVE QueryInv'
  <2>1. UNCHANGED crawlerVars
    BY <1>6 DEF Ask
  <2> QED
    BY <1>5, <1>6, <2>1, AskStep
<1>7. ASSUME NEW f \in Asked, Field(f) PROVE QueryInv'
  <2>1. CASE Read(f)
    <3>1. UNCHANGED crawlerVars
      BY <2>1 DEF Read
    <3> QED
      BY <1>1, <1>5, <2>1, <3>1, ReadStep
  <2>2. CASE ReadAgain(f)
    <3>1. UNCHANGED crawlerVars
      BY <2>2 DEF ReadAgain
    <3> QED
      BY <1>1, <1>5, <2>2, <3>1, ReadAgainStep
  <2>3. CASE ReturnsList(f)
    <3>1. UNCHANGED crawlerVars
      BY <2>3 DEF ReturnsList
    <3> QED
      BY <1>1, <1>5, <2>3, <3>1, ReturnsListStep
  <2>4. ASSUME NEW k, WriteElement(f, k) PROVE QueryInv'
    <3>1. UNCHANGED crawlerVars
      BY <2>4 DEF WriteElement
    <3> QED
      BY <1>1, <1>5, <2>4, <3>1, WriteElementStep
  <2> QED
    BY <1>7, <2>1, <2>2, <2>3, <2>4 DEF Field
<1>8. CASE Respond
  <2>1. UNCHANGED crawlerVars
    BY <1>8 DEF Respond
  <2> QED
    BY <1>1, <1>5, <1>8, <2>1, RespondStep
<1>9. CASE Sent
  <2>1. UNCHANGED crawlerVars
    BY <1>9 DEF Sent
  <2>2. RequestInv'
    <3>1. Asked' = {}
      BY <1>9 DEF Sent, Asked
    <3>2. <<>> = [f \in {} |-> <<>>[f]]
      OBVIOUS
    <3>3. FieldTypes'
      BY <1>9, <3>1, <3>2 DEF Sent, FieldTypes
    <3> QED
      BY <1>9, <3>1, <3>3 DEF Sent, RequestInv
  <2> QED
    BY <1>5, <2>1, <2>2
<1>10. CASE UNCHANGED qvars
  <2>1. UNCHANGED <<phase, request, fieldVars, reply>> /\ UNCHANGED crawlerVars
    BY <1>10 DEF qvars, crawlerVars
  <2>2. RequestInv'
    BY <1>1, <2>1, RequestFrame
  <2> QED
    BY <1>5, <2>1, <2>2
<1> QED
  BY <1>3, <1>4, <1>6, <1>7, <1>8, <1>9, <1>10 DEF QNext

(* The documents of the crawler, the records of the history and what each  *)
(* field of a request has come to stay as QueryInv says (QueryServer.tla,  *)
(* mongo.go, generated.go, schema.resolvers.go).                           *)
THEOREM QueryInvariant == QFairSpec => []QueryInv
<1>1. QInit => QueryInv
  BY QueryInit
<1>2. QueryInv /\ [QNext]_qvars => QueryInv'
  BY QueryNext
<1> QED
  BY <1>1, <1>2, PTL DEF QFairSpec
-----------------------------------------------------------------------------
(* What it implies *)

LEMMA DoneFields ==
  ASSUME QueryInv, phase = "answered", NEW f \in Asked
  PROVE  /\ ResultOK(f, request[f], out[f], seen[f], whole[f])
         /\ stage[f] = "done" /\ FailsOK(f) /\ f \in DOMAIN Query /\ seen[f] \in Nat
BY DEF QueryInv, RequestInv, FieldOK

LEMMA DoneShapes ==
  ASSUME NEW f \in DOMAIN Query, NEW filter, NEW o, NEW s, NEW w, ResultOK(f, filter, o, s, w)
  PROVE  /\ o.shape \in {"null", Query[f].shape}
         /\ o.shape = "list" => ListOK(f, o, s, w) /\ DOMAIN o.written = DOMAIN o.rows
         /\ o.shape = "object" => f \in Objects /\ ObjectOK(f, o.object, s, w)
         /\ o.shape = "float" => f = "getAltairUpgradePercentage" /\ (w => o.float.den = s)
         /\ o.shape = "null" /\ o.why = "panic" => filter = "short"
<1>1. ListOK(f, o, s, w) => o.shape = "list" /\ Query[f].shape = "list"
  BY Shapes, ListFields DEF ListOK
<1>2. f \in Objects => Query[f].shape = "object"
  BY Shapes
<1>3. f = "getAltairUpgradePercentage" => Query[f].shape = "float"
  BY Shapes
<1>4. f \in {"__type", "__schema"} => Query[f].shape = "schema"
  BY Shapes
<1> QED
  BY <1>1, <1>2, <1>3, <1>4 DEF ResultOK

LEMMA QueryTypes == QueryInv => QTypeOK
<1> SUFFICES ASSUME QueryInv PROVE QTypeOK
  OBVIOUS
<1>1. \A d \in docs : d.id \in Ids /\ \A e \in docs : d.id = e.id => d = e
  BY DEF QueryInv, Collection, IsDoc
<1>2. /\ phase \in {"idle", "running", "answered"} /\ reply \in {"none", "null", "data"}
      /\ invalids \subseteq Asked /\ errors \subseteq Asked
  BY DEF QueryInv, RequestInv, FieldTypes
<1>3. ASSUME NEW f \in Asked
      PROVE  /\ stage[f] \in {"ready", "again", "writing", "done"}
             /\ left[f] \in 0 .. Cardinality(Ids) + MaxJobs
             /\ out[f].shape \in {"none", "null", Query[f].shape}
             /\ stage[f] = "done" => out[f].shape # "none"
  <2>1. /\ FieldOK(f, request[f], stage[f], out[f], left[f], seen[f], whole[f])
        /\ f \in DOMAIN Query
    BY DEF QueryInv, RequestInv
  <2>2. CASE stage[f] \in {"ready", "again"}
    BY <2>1, <2>2, BoundNat DEF FieldOK, Nothing, Bound
  <2>3. CASE stage[f] = "writing"
    <3> DEFINE o == out[f]
    <3>1. ListOK(f, o, seen[f], whole[f]) /\ left[f] = Cardinality(DOMAIN o.rows \ DOMAIN o.written)
      BY <2>1, <2>3 DEF FieldOK
    <3>2. /\ IsFiniteSet(DOMAIN o.rows) /\ Cardinality(DOMAIN o.rows) <= Bound
          /\ f \in CountLists \cup OtherLists /\ o.shape = "list"
      BY <3>1, ListFields DEF ListOK
    <3>3. Query[f].shape = "list"
      BY <2>1, <3>2, Shapes
    <3> DEFINE rest == DOMAIN o.rows \ DOMAIN o.written
    <3>4. rest \in SUBSET (DOMAIN o.rows)
      OBVIOUS
    <3>5. Cardinality(rest) \in Nat /\ Cardinality(rest) <= Bound
      <4> HIDE DEF rest
      <4> QED
        BY <3>2, <3>4, PartFinite, FS_CardinalityType
    <3>6. left[f] \in 0 .. Bound
      BY <3>1, <3>5, BoundNat
    <3> QED
      BY <2>3, <3>2, <3>3, <3>6 DEF Bound
  <2>4. CASE stage[f] = "done"
    <3>1. ResultOK(f, request[f], out[f], seen[f], whole[f]) /\ left[f] = 0
      BY <2>1, <2>4 DEF FieldOK
    <3>2. out[f].shape \in {"null", Query[f].shape}
      BY <2>1, <3>1, DoneShapes
    <3>3. Query[f].shape \in {"list", "object", "float", "schema"}
      BY <2>1, Shapes, FieldsOfQuery
    <3> QED
      BY <2>4, <3>1, <3>2, <3>3, BoundNat DEF Bound
  <2> QED
    BY <2>1, <2>2, <2>3, <2>4 DEF FieldOK
<1> QED
  BY <1>1, <1>2, <1>3 DEF QTypeOK

LEMMA QueryWhole == QueryInv => WholeResponse
<1> SUFFICES ASSUME QueryInv PROVE WholeResponse
  OBVIOUS
<1>1. QTypeOK
  BY QueryTypes
<1>2. ListsComplete
  <2>1. ASSUME NEW f \in Asked, phase = "answered", out[f].shape = "list"
        PROVE  DOMAIN out[f].written = DOMAIN out[f].rows
    BY <2>1, DoneFields, DoneShapes
  <2> QED
    BY <2>1 DEF ListsComplete, Served
<1>3. AllOrNothing
  <2>1. ASSUME phase = "answered"
        PROVE  reply = "null" <=> \E f \in Asked : ~Inline(f) /\ out[f].shape = "null"
    <3>1. reply = IF invalids # {} THEN "null" ELSE "data"
      BY <2>1 DEF QueryInv, RequestInv
    <3>2. \A f \in Asked : f \in invalids <=> ~Inline(f) /\ out[f].shape = "null"
      BY <2>1, DoneFields, Shapes DEF FailsOK, Inline
    <3>3. invalids \subseteq Asked
      BY DEF QueryInv, RequestInv, FieldTypes
    <3> QED
      BY <3>1, <3>2, <3>3
  <2>2. ASSUME NEW f \in Asked, phase = "answered", out[f].shape = "null", out[f].why # "unknown"
        PROVE  f \in errors
    BY <2>2, DoneFields DEF FailsOK
  <2> QED
    BY <2>1, <2>2 DEF AllOrNothing, Served
<1> QED
  BY <1>1, <1>2, <1>3 DEF WholeResponse

(* The response is whole: data is null exactly when a field that may not   *)
(* be null has failed, every failure has its error, and every list has all *)
(* of its elements (generated.go, 5160-5595).                              *)
THEOREM WholeResponses == QFairSpec => []WholeResponse
BY QueryInvariant, QueryWhole, PTL

(* No row of a list has a float that is null.                              *)
LEMMA NoNullInList ==
  ASSUME NEW f, NEW o, NEW s, NEW w, ListOK(f, o, s, w), NEW k \in DOMAIN o.written
  PROVE  ~HasNull(Query[f].type, o.written[k])
<1>1. /\ RowsOK(f, o.rows, s, w) /\ k \in DOMAIN o.rows
      /\ o.written[k] = Written(Query[f].type, o.rows[k])
      /\ f \in CountLists \cup OtherLists
  BY DEF ListOK
<1>2. CASE f \in CountLists
  <2>1. Query[f].type \in {AggregateData, ClientVersionAggregation, NextHardforkAggregation}
    BY <1>2, TypesOfQuery
  <2>2. \A type \in {AggregateData, ClientVersionAggregation, NextHardforkAggregation} :
          \A x \in DOMAIN type : type[x] # "Float"
    BY DEF AggregateData, ClientVersionAggregation, NextHardforkAggregation
  <2> QED
    BY <2>1, <2>2 DEF HasNull
<1>3. CASE f = "getHeatmapData"
  <2>1. \A x \in DOMAIN HeatmapData : HeatmapData[x] = "Float" => x \in {"latitude", "longitude"}
    BY DEF HeatmapData
  <2>2. {"latitude", "longitude"} \subseteq DOMAIN HeatmapData
    BY DEF HeatmapData
  <2>3. \A x \in {"latitude", "longitude"} : o.written[k][x] = o.rows[k][x]
    BY <1>1, <1>3, <2>2, TypesOfQuery, WrittenField
  <2>4. o.rows[k].latitude.den # 0 /\ o.rows[k].longitude.den # 0
    BY <1>1, <1>3 DEF RowsOK
  <2> QED
    BY <1>3, <2>1, <2>3, <2>4, TypesOfQuery DEF HasNull, NullFloat
<1>4. CASE f = "getNodeStatsOverTime"
  <2>1. \A x \in DOMAIN NodeStatsOverTime : NodeStatsOverTime[x] = "Float" => x = "time"
    BY DEF NodeStatsOverTime
  <2>2. "time" \in DOMAIN NodeStatsOverTime
    BY DEF NodeStatsOverTime
  <2>3. o.written[k].time = o.rows[k].time
    BY <1>1, <1>4, <2>2, TypesOfQuery, WrittenField
  <2>4. o.rows[k].time.den # 0
    BY <1>1, <1>4 DEF RowsOK
  <2> QED
    BY <1>4, <2>1, <2>3, <2>4, TypesOfQuery DEF HasNull, NullFloat
<1> QED
  BY <1>1, <1>2, <1>3, <1>4 DEF OtherLists

LEMMA NullOfNothing ==
  ASSUME NEW f \in Objects, NEW object, NEW s \in Nat, NEW w, ObjectOK(f, object, s, w), w,
         HasNull(Query[f].type, object)
  PROVE  s = 0
<1>1. CASE f = "getNodeStats"
  <2>1. \A x \in DOMAIN NodeStats :
          NodeStats[x] = "Float" => x \in {"nodeSyncedPercentage", "nodeUnsyncedPercentage"}
    BY DEF NodeStats
  <2>2. \A x \in {"nodeSyncedPercentage", "nodeUnsyncedPercentage"} : object[x].den = object.totalNodes
    BY <1>1 DEF ObjectOK
  <2>3. object.totalNodes \in Nat /\ object.totalNodes >= s
    BY <1>1 DEF ObjectOK
  <2>4. object.totalNodes = 0
    BY <1>1, <2>1, <2>2, TypesOfQuery DEF HasNull, NullFloat
  <2> QED
    BY <2>3, <2>4
<1>2. CASE f = "getRegionalStats"
  <2>1. \A x \in DOMAIN RegionalStats :
          RegionalStats[x] = "Float" => x \in {"hostedNodePercentage", "nonhostedNodePercentage"}
    BY DEF RegionalStats
  <2>2. \A x \in {"hostedNodePercentage", "nonhostedNodePercentage"} : object[x].den = s
    BY <1>2 DEF ObjectOK
  <2> QED
    BY <1>2, <2>1, <2>2, TypesOfQuery DEF HasNull, NullFloat
<1> QED
  BY <1>1, <1>2 DEF Objects

LEMMA QueryNulls == QueryInv => NullsJustified
<1> SUFFICES ASSUME QueryInv PROVE NullsJustified
  OBVIOUS
<1>1. ASSUME NEW f \in Asked, out[f].shape = "null", out[f].why = "panic"
      PROVE  request[f] = "short"
  <2>1. FieldOK(f, request[f], stage[f], out[f], left[f], seen[f], whole[f]) /\ f \in DOMAIN Query
    BY DEF QueryInv, RequestInv
  <2>2. stage[f] \notin {"ready", "again"}
    BY <1>1, <2>1 DEF FieldOK, Nothing
  <2>3. stage[f] # "writing"
    BY <1>1, <2>1, ListFields DEF FieldOK
  <2>4. ResultOK(f, request[f], out[f], seen[f], whole[f])
    BY <2>1, <2>2, <2>3 DEF FieldOK
  <2> QED
    BY <1>1, <2>1, <2>4, DoneShapes
<1>2. ASSUME NEW f \in Asked, phase = "answered", whole[f], NullFloats(f)
      PROVE  seen[f] = 0
  <2> DEFINE o == out[f]
  <2>1. ResultOK(f, request[f], o, seen[f], whole[f]) /\ f \in DOMAIN Query /\ seen[f] \in Nat
    BY <1>2, DoneFields
  <2>2. /\ o.shape = "list" => ListOK(f, o, seen[f], whole[f])
        /\ o.shape = "object" => f \in Objects /\ ObjectOK(f, o.object, seen[f], whole[f])
        /\ o.shape = "float" => (whole[f] => o.float.den = seen[f])
    <3> HIDE DEF o
    <3> QED
      BY <2>1, DoneShapes
  <2>3. CASE o.shape = "list"
    BY <1>2, <2>2, <2>3, NoNullInList DEF NullFloats
  <2>4. CASE o.shape = "object"
    <3>1. HasNull(Query[f].type, o.object)
      BY <1>2, <2>4 DEF NullFloats
    <3> HIDE DEF o
    <3> QED
      BY <1>2, <2>1, <2>2, <2>4, <3>1, NullOfNothing
  <2>5. CASE o.shape = "float"
    BY <1>2, <2>2, <2>5 DEF NullFloats, NullFloat
  <2>6. o.shape \in {"list", "object", "float"}
    BY <1>2 DEF NullFloats
  <2> QED
    BY <2>3, <2>4, <2>5, <2>6
<1> QED
  BY <1>1, <1>2 DEF NullsJustified, NoDereference, NullOnlyWhenEmpty, Served

(* A resolver panics on nothing but a filter that is too short, and what   *)
(* has been counted is not empty where a percentage is a number            *)
(* (mongo.go, 84; schema.resolvers.go, 134-235; crawl.go, 279-378).        *)
THEOREM NullsAreJustified == QFairSpec => []NullsJustified
BY QueryInvariant, QueryNulls, PTL

(* What is written of the rows adds up as the rows do.                     *)
LEMMA WrittenCounts ==
  ASSUME NEW f \in CountLists, NEW o, NEW s, NEW w, ListOK(f, o, s, w),
         DOMAIN o.written = DOMAIN o.rows
  PROVE  /\ w => TotalCount(o.written, DOMAIN o.written) = s
         /\ f = "aggregateByClientVersion" => \A c \in DOMAIN o.written :
              o.written[c].count = TotalCount(o.written[c].versions, DOMAIN o.written[c].versions)
<1> DEFINE R == DOMAIN o.rows
           type == Query[f].type
<1>1. /\ RowsOK(f, o.rows, s, w)
      /\ \A k \in R : o.written[k] = Written(type, o.rows[k])
  BY DEF ListOK
<1>2. "count" \in DOMAIN type
  BY TypesOfQuery DEF AggregateData, ClientVersionAggregation, NextHardforkAggregation
<1>3. \A k \in R : o.written[k].count = o.rows[k].count
  BY <1>1, <1>2, WrittenField
<1>4. TotalCount(o.written, R) = TotalCount(o.rows, R)
  <2> HIDE DEF R
  <2> QED
    BY <1>3, TotalSame
<1>5. w => TotalCount(o.rows, R) = s
  BY <1>1 DEF RowsOK
<1>6. ASSUME f = "aggregateByClientVersion", NEW c \in R
      PROVE  o.written[c].count = TotalCount(o.written[c].versions, DOMAIN o.written[c].versions)
  <2> DEFINE a == o.rows[c].versions
             b == o.written[c].versions
  <2>1. o.rows[c].count = TotalCount(a, DOMAIN a)
    BY <1>1, <1>6 DEF RowsOK
  <2>2. o.written[c] = Written(ClientVersionAggregation, o.rows[c])
    BY <1>1, <1>6, TypesOfQuery
  <2>3. DOMAIN b = DOMAIN a /\ \A v \in DOMAIN a : b[v].count = a[v].count
    BY <2>2, WrittenVersions
  <2> HIDE DEF a, b
  <2>4. TotalCount(b, DOMAIN b) = TotalCount(a, DOMAIN a)
    BY <2>3, TotalSame
  <2> QED
    BY <1>3, <1>6, <2>1, <2>4 DEF a, b
<1> QED
  BY <1>4, <1>5, <1>6

LEMMA QueryCounts == QueryInv => CountsAddUp
<1> SUFFICES ASSUME QueryInv PROVE CountsAddUp
  OBVIOUS
<1>1. ASSUME NEW f \in Asked, phase = "answered", out[f].shape = "list"
      PROVE  ListOK(f, out[f], seen[f], whole[f]) /\ DOMAIN out[f].written = DOMAIN out[f].rows
  BY <1>1, DoneFields, DoneShapes
<1>2. RowsAccountForAll
  <2>1. ASSUME NEW f \in Asked, phase = "answered", out[f].shape = "list", f \in CountLists
        PROVE  /\ whole[f] => TotalCount(out[f].written, DOMAIN out[f].written) = seen[f]
               /\ f = "aggregateByClientVersion" => \A c \in DOMAIN out[f].written :
                    out[f].written[c].count
                      = TotalCount(out[f].written[c].versions, DOMAIN out[f].written[c].versions)
    BY <1>1, <2>1, WrittenCounts
  <2>2. \A f \in Asked : phase = "answered" /\ out[f].shape = "list" => f \in CountLists \cup OtherLists
    BY <1>1 DEF ListOK
  <2> QED
    BY <2>1, <2>2 DEF RowsAccountForAll, Served, CountLists, OtherLists
<1>3. ASSUME NEW f \in Asked, phase = "answered", out[f].shape = "object", f = "getNodeStats"
      PROVE  out[f].object.nodeSyncedPercentage.num + out[f].object.nodeUnsyncedPercentage.num
               = out[f].object.totalNodes
  <2>1. ObjectOK(f, out[f].object, seen[f], whole[f])
    BY <1>3, DoneFields, DoneShapes
  <2> QED
    BY <1>3, <2>1 DEF ObjectOK
<1>4. ASSUME NEW f \in Asked, phase = "answered", out[f].shape = "list", f = "getNodeStatsOverTime",
             NEW t \in DOMAIN out[f].written
      PROVE  out[f].written[t].unsyncedNodes >= 0
  <2>1. /\ RowsOK(f, out[f].rows, seen[f], whole[f]) /\ t \in DOMAIN out[f].rows
        /\ out[f].written[t] = Written(NodeStatsOverTime, out[f].rows[t])
    BY <1>1, <1>4, TypesOfQuery DEF ListOK
  <2>2. "unsyncedNodes" \in DOMAIN NodeStatsOverTime
    BY DEF NodeStatsOverTime
  <2>3. out[f].written[t].unsyncedNodes = out[f].rows[t].unsyncedNodes
    BY <2>1, <2>2, WrittenField
  <2> QED
    BY <1>4, <2>1, <2>3 DEF RowsOK
<1>5. SyncAddsUp
  BY <1>3, <1>4 DEF SyncAddsUp, Served
<1> QED
  BY <1>2, <1>5 DEF CountsAddUp

(* Every count of a response is the sum of its parts, however the reads of *)
(* its fields fall between the writes of the crawler (mongo.go, 175-410;   *)
(* schema.resolvers.go, 156-184).                                          *)
THEOREM CountsAlwaysAddUp == QFairSpec => []CountsAddUp
BY QueryInvariant, QueryCounts, PTL

-----------------------------------------------------------------------------
(* The records of the nodes *)

LEMMA PeerDialled ==
  ASSUME NEW node, NEW digest, NEW peer \in StoredPeers(node, digest)
  PROVE  /\ \E addr \in DialAddrs(peer) : addr.transport = "tcp" /\ addr.port # 0
         /\ peer.digest = digest /\ node.eth2 = digest
<1> DEFINE addrs == <<[ip |-> node.ip, transport |-> "tcp", port |-> node.tcp],
                      [ip |-> node.ip, transport |-> "udp", port |-> node.udp]>>
<1>1. Considered(node, digest) /\ peer \in PeerOf(node, digest)
  BY DEF StoredPeers
<1>2. node.tcp # 0 /\ node.eth2 = digest
  BY <1>1 DEF Considered, Eth2Digest
<1>3. peer = [addrs |-> addrs, digest |-> digest, attnets |-> node.attnets,
              connectable |-> FALSE, sync |-> "none", agent |-> <<>>]
  BY <1>1, Zenon DEF PeerOf, AddrsFromEnode
<1>4. addrs[1] \in DialAddrs(peer)
  <2>1. peer.addrs = addrs /\ 1 \in DOMAIN addrs
    BY <1>3
  <2> QED
    BY <2>1, Zenon DEF DialAddrs
<1>5. addrs[1].transport = "tcp" /\ addrs[1].port = node.tcp
  OBVIOUS
<1> QED
  BY <1>2, <1>3, <1>4, <1>5

(* No two clients have a name in common.                                   *)
LEMMA OneName ==
  ASSUME NEW part PROVE \E name : NamesFor(part) = {name}
<1> DEFINE found == {name \in DOMAIN Clients : \E identity \in Clients[name] : part = <<identity>>}
<1>1. ASSUME NEW m \in found, NEW n \in found PROVE m = n
  <2>1. PICK a \in Clients[m] : part = <<a>>
    OBVIOUS
  <2>2. PICK b \in Clients[n] : part = <<b>>
    OBVIOUS
  <2>3. a = b
    BY <2>1, <2>2
  <2> QED
    BY <2>3 DEF Clients
<1>2. NamesFor(part) = IF found = {} THEN {"others"} ELSE found
  BY Zenon DEF NamesFor
<1> HIDE DEF found
<1>3. CASE found = {}
  BY <1>2, <1>3
<1>4. CASE found # {}
  BY <1>1, <1>2, <1>4
<1> QED
  BY <1>3, <1>4

(* What precedes the first suffix has no suffix.                           *)
LEMMA StandardPart ==
  ASSUME NEW S, NEW part \in Seq(S)
  PROVE  \E n \in 0 .. Len(part) : /\ Standard(part) = SubSeq(part, 1, n)
                                   /\ \A i \in 1 .. n : part[i] \notin {"-", "+"}
<1> DEFINE cuts == {i \in DOMAIN part : part[i] \in {"-", "+"}}
           first == CHOOSE i \in cuts : \A j \in cuts : i <= j
           n == IF cuts = {} THEN Len(part) ELSE first - 1
<1>1. Standard(part) = SubSeq(part, 1, n)
  BY Zenon DEF Standard
<1>2. n \in 0 .. Len(part) /\ \A i \in 1 .. n : part[i] \notin {"-", "+"}
  <2>1. CASE cuts = {}
    BY <2>1
  <2>2. CASE cuts # {}
    <3>1. cuts \subseteq Nat /\ cuts \subseteq 1 .. Len(part)
      OBVIOUS
    <3>2. first \in cuts /\ \A j \in cuts : first <= j
      <4> HIDE DEF cuts
      <4>1. \E i \in cuts : \A j \in cuts : i <= j
        BY <2>2, <3>1, LeastNumber
      <4> QED
        BY <4>1, Zenon
    <3> HIDE DEF first
    <3> QED
      BY <2>2, <3>1, <3>2
  <2> QED
    BY <2>1, <2>2
<1> QED
  BY <1>1, <1>2

(* Whatever a node calls itself, it has one name, one version and one OS,  *)
(* and none of them is taken from a suffix or from what is not there       *)
(* (peer.go, 231-285): agents of any number of parts and pieces.           *)
THEOREM AgentsAlwaysDefinite ==
  ASSUME NEW S, NEW parts \in Seq(Seq(S)) PROVE Definite(parts)
<1> DEFINE Version(name) == LET v == Standard(Part(parts, VersionPart(name)))
                            IN  IF v = <<>> THEN <<"unknown">> ELSE v
           AgentOf(name) == [name |-> name, version |-> Version(name),
                             os |-> OSOf(OSParts(name, parts))]
<1>1. PICK name : NamesFor(parts[1]) = {name}
  BY OneName
<1>2. UserAgents(parts) = {AgentOf(n) : n \in NamesFor(parts[1])}
  BY Zenon DEF UserAgents
<1>3. UserAgents(parts) = {AgentOf(name)}
  <2> HIDE DEF AgentOf
  <2> QED
    BY <1>1, <1>2
<1>4. name = "prysm" => OSOf(OSParts(name, parts)) = "unknown"
  <2>1. DOMAIN <<>> = {}
    OBVIOUS
  <2>2. {i \in 1 .. 3 : \E j \in DOMAIN <<>> : <<>>[j] = ValidOS[i]} = {}
    BY <2>1
  <2>3. OSOf(<<>>) = "unknown"
    BY <2>2, Zenon DEF OSOf
  <2> QED
    BY <2>3, Zenon DEF OSParts
<1> DEFINE k == VersionPart(name)
           part == Part(parts, k)
<1>5. k \in 2 .. 3
  BY DEF VersionPart
<1>6. part \in Seq(S) /\ (part # <<>> => k <= Len(parts) /\ part = parts[k])
  <2> HIDE DEF k
  <2>1. CASE k <= Len(parts)
    <3>1. part = parts[k]
      BY <2>1, Zenon DEF Part
    <3> QED
      BY <1>5, <2>1, <3>1
  <2>2. CASE ~(k <= Len(parts))
    <3>1. part = <<>>
      BY <2>2, Zenon DEF Part
    <3>2. <<>> \in Seq(S)
      OBVIOUS
    <3> QED
      BY <3>1, <3>2, Zenon
  <2> QED
    BY <2>1, <2>2
<1> HIDE DEF k, part
<1>7. PICK n \in 0 .. Len(part) : /\ Standard(part) = SubSeq(part, 1, n)
                                  /\ \A i \in 1 .. n : part[i] \notin {"-", "+"}
  BY <1>6, StandardPart
<1>8. Version(name) = IF Standard(part) = <<>> THEN <<"unknown">> ELSE Standard(part)
  BY Zenon DEF part, k
<1> DEFINE v == Version(name)
<1>9. CASE n = 0
  <2>1. v = <<"unknown">>
    <3>1. SubSeq(part, 1, 0) = <<>>
      BY <1>6
    <3> QED
      BY <1>7, <1>8, <1>9, <3>1, Zenon
  <2>2. \A i \in DOMAIN v : v[i] \notin {"-", "+"}
    <3> HIDE DEF v
    <3> QED
      BY <2>1
  <2> HIDE DEF Version
  <2> QED
    BY <1>3, <1>4, <2>1, <2>2 DEF Definite
<1>10. CASE n # 0
  <2>1. SubSeq(part, 1, n) = [i \in 1 .. n |-> part[i]]
    BY <1>6
  <2>2. SubSeq(part, 1, n) # <<>> /\ part # <<>> /\ n \in DOMAIN part
    <3>1. Len(SubSeq(part, 1, n)) = n
      BY <1>6
    <3>2. Len(part) # 0 /\ n \in DOMAIN part
      BY <1>10, <1>6
    <3>3. Len(<<>>) = 0
      OBVIOUS
    <3> QED
      BY <1>10, <3>1, <3>2, <3>3, Zenon
  <2>3. v = SubSeq(part, 1, n)
    BY <1>7, <1>8, <2>2, Zenon
  <2>4. \A i \in DOMAIN v : v[i] \notin {"-", "+"}
    <3> HIDE DEF v
    <3> QED
      BY <1>7, <2>1, <2>3
  <2>5. k \in 2 .. Len(parts) /\ n \in DOMAIN parts[k] /\ v = SubSeq(parts[k], 1, n)
    <3> HIDE DEF v
    <3> QED
      BY <1>5, <1>6, <2>2, <2>3
  <2> HIDE DEF Version
  <2> QED
    BY <1>3, <1>4, <2>4, <2>5 DEF Definite
<1> QED
  BY <1>9, <1>10

LEMMA WrapsToItself ==
  ASSUME NEW M \in Nat \ {0}, 2 ^ (IntBits - 1) = M, 2 ^ IntBits = 2 * M,
         NEW n \in Int, -M <= n, n < M
  PROVE  Wrap(n) = n
<1>1. (n + M) \div (2 * M) = 0 /\ (n + M) % (2 * M) = n + M
  <2>1. n + M \in Nat /\ 2 * M \in Nat \ {0} /\ n + M < 2 * M /\ n + M = (2 * M) * 0 + (n + M)
    OBVIOUS
  <2> QED
    BY <2>1, DivMod
<1>2. Wrap(n) = ((n + M) % (2 * M)) - M
  BY Zenon DEF Wrap
<1> QED
  BY <1>1, <1>2

(* Division keeps the order.                                               *)
LEMMA DivMonotone ==
  ASSUME NEW n \in Nat \ {0}, NEW a \in Nat, NEW b \in Nat, a <= b
  PROVE  a \div n <= b \div n
OBVIOUS

(* What the distance is while no product leaves the integers.              *)
LEMMA DistanceIs ==
  ASSUME NodeAssumption,
         NEW M \in Nat \ {0}, 2 ^ (IntBits - 1) = M, 2 ^ IntBits = 2 * M,
         NEW cb \in Nat \ {0}, 100 * cb < M, NEW block \in Nat, block <= M
  PROVE  SyncOf(cb, block) = IF cb - block <= Threshold
                             THEN [status |-> TRUE, distance |-> 0]
                             ELSE [status |-> FALSE, distance |-> ((cb - block) * 100) \div cb]
<1>1. Wrap(cb - block) = cb - block
  BY WrapsToItself
<1>2. CASE cb - block <= Threshold
  BY <1>1, <1>2 DEF SyncOf
<1>3. CASE ~(cb - block <= Threshold)
  <2>1. cb - block \in Nat /\ (cb - block) * 100 \in Nat /\ (cb - block) * 100 <= 100 * cb
    BY <1>3 DEF NodeAssumption
  <2>2. Wrap((cb - block) * 100) = (cb - block) * 100
    BY <2>1, WrapsToItself
  <2>3. Quotient((cb - block) * 100, cb) = ((cb - block) * 100) \div cb
    BY <2>1 DEF Quotient
  <2> QED
    BY <1>1, <1>3, <2>2, <2>3, Zenon DEF SyncOf
<1> QED
  BY <1>2, <1>3

(* For any width of the integers, any threshold and any clock whose slot   *)
(* can be multiplied by 100: the status, the distance as a percentage and  *)
(* its order are right for every head slot (peer.go, 296-309).  M is the   *)
(* power of two, of which the provers know nothing.                        *)
THEOREM DistancesAlwaysHonest ==
  ASSUME NEW M \in Nat \ {0}, 2 ^ (IntBits - 1) = M, 2 ^ IntBits = 2 * M,
         NEW cb \in Nat \ {0}, 100 * cb < M, NEW block \in Nat, block <= M
  PROVE  Honest(cb, block)
<1> DEFINE Far(b) == ((cb - b) * 100) \div cb
<1>0. Threshold \in Nat
  BY NodeAssumption
<1>1. ASSUME NEW b \in Nat, b <= M
      PROVE  SyncOf(cb, b) = IF cb - b <= Threshold
                             THEN [status |-> TRUE, distance |-> 0]
                             ELSE [status |-> FALSE, distance |-> Far(b)]
  BY <1>1, NodeAssumption, DistanceIs
<1>2. ASSUME NEW b \in Nat, ~(cb - b <= Threshold)
      PROVE  (cb - b) * 100 \in Nat /\ (cb - b) * 100 <= cb * 100 /\ Far(b) \in 0 .. 100
  <2>1. (cb - b) * 100 \in Nat /\ (cb - b) * 100 <= cb * 100
    BY <1>0, <1>2
  <2>2. (cb * 100) \div cb = 100
    BY DivMod
  <2> QED
    BY <2>1, <2>2, DivMonotone
<1>3. ASSUME NEW b \in Nat, b > 0, ~(cb - b <= Threshold)
      PROVE  Far(b - 1) >= Far(b)
  <2>1. (cb - b) * 100 \in Nat /\ (cb - (b - 1)) * 100 \in Nat
        /\ (cb - b) * 100 <= (cb - (b - 1)) * 100
    BY <1>0, <1>3
  <2>2. Far(b) \in Int /\ Far(b - 1) \in Int
    OBVIOUS
  <2> QED
    BY <2>1, <2>2, DivMonotone
<1> HIDE DEF Far
<1>4. SyncOf(cb, block).status <=> block >= cb - Threshold
  BY <1>0, <1>1
<1>5. SyncOf(cb, block).distance \in 0 .. 100
  BY <1>1, <1>2
<1>6. block > 0 => SyncOf(cb, block - 1).distance >= SyncOf(cb, block).distance
  <2> SUFFICES ASSUME block > 0
               PROVE  SyncOf(cb, block - 1).distance >= SyncOf(cb, block).distance
    OBVIOUS
  <2>1. block - 1 \in Nat /\ block - 1 <= M
    OBVIOUS
  <2>2. CASE cb - block <= Threshold
    <3>1. SyncOf(cb, block).distance = 0
      BY <1>1, <2>2
    <3>2. SyncOf(cb, block - 1).distance \in 0 .. 100
      BY <1>1, <1>2, <2>1
    <3> QED
      BY <3>1, <3>2
  <2>3. CASE ~(cb - block <= Threshold)
    <3>1. ~(cb - (block - 1) <= Threshold)
      BY <1>0, <2>3
    <3>2. SyncOf(cb, block).distance = Far(block)
      BY <1>1, <2>3
    <3>3. SyncOf(cb, block - 1).distance = Far(block - 1)
      BY <1>1, <2>1, <3>1
    <3> QED
      BY <1>3, <2>3, <3>2, <3>3
  <2> QED
    BY <2>2, <2>3
<1> QED
  BY <1>4, <1>5, <1>6, Zenon DEF Honest

(* The equation by which FromHex recurs on the digits.                     *)
HexEquation(s, f) == f = [i \in 0 .. Len(s) |-> IF i = 0 THEN 0 ELSE 16 * f[i - 1] + s[i]]

LEMMA HexValue ==
  ASSUME NEW s \in Seq(Nat), NEW g, HexEquation(s, g), 2 ^ IntBits \in Nat
  PROVE  FromHex(s) = IF g[Len(s)] < 2 ^ IntBits THEN g[Len(s)] ELSE -1
<1> DEFINE f == CHOOSE h : HexEquation(s, h)
<1>1. FromHex(s) = IF f[Len(s)] < 2 ^ IntBits THEN f[Len(s)] ELSE -1
  BY Zenon DEF FromHex, HexEquation
<1>2. HexEquation(s, f)
  BY Zenon
<1> HIDE DEF f
<1> DEFINE D == {i \in 0 .. Len(s) : f[i] # g[i]}
<1>3. D = {}
  <2> SUFFICES ASSUME D # {} PROVE FALSE
    OBVIOUS
  <2>1. D \subseteq Nat /\ D \subseteq 0 .. Len(s)
    OBVIOUS
  <2>2. PICK i \in D : \A j \in D : i <= j
    <3> HIDE DEF D
    <3> QED
      BY <2>1, LeastNumber
  <2>3. i \in 0 .. Len(s) /\ f[i] # g[i]
    OBVIOUS
  <2>4. i # 0 => f[i - 1] = g[i - 1]
    <3>1. i # 0 => i - 1 \in 0 .. Len(s) /\ ~(i <= i - 1)
      BY <2>3
    <3> QED
      BY <2>2, <3>1
  <2> HIDE DEF D
  <2>5. f[i] = IF i = 0 THEN 0 ELSE 16 * f[i - 1] + s[i]
    BY <1>2, <2>3 DEF HexEquation
  <2>6. g[i] = IF i = 0 THEN 0 ELSE 16 * g[i - 1] + s[i]
    BY <2>3 DEF HexEquation
  <2> QED
    BY <2>3, <2>4, <2>5, <2>6
<1>4. Len(s) \in 0 .. Len(s)
  OBVIOUS
<1>5. f[Len(s)] = g[Len(s)]
  BY <1>3, <1>4
<1> QED
  BY <1>1, <1>5, Zenon

(* Cutting off one digit after the others.                                 *)
LEMMA NextDigit ==
  ASSUME NEW n \in Nat, NEW q \in Nat \ {0}
  PROVE  n \div q = 16 * (n \div (16 * q)) + ((n \div q) % 16)
<1> DEFINE a == n \div q
           b == a \div 16
           c == a % 16
           d == n % q
<1>1. a \in Nat /\ d \in 0 .. q - 1 /\ n = q * a + d
  OBVIOUS
<1>2. b \in Nat /\ c \in 0 .. 15 /\ a = 16 * b + c
  BY <1>1
<1> HIDE DEF a, b, c, d
<1>3. n = (16 * q) * b + (q * c + d)
  <2>1. q * a = q * (16 * b) + q * c
    BY <1>2
  <2>2. q * (16 * b) = (16 * q) * b
    BY <1>2
  <2> QED
    BY <1>1, <1>2, <2>1, <2>2
<1>4. q * c + d \in Nat /\ q * c + d < 16 * q
  <2>1. q * c <= q * 15 /\ q * c \in Nat
    BY <1>2
  <2> QED
    BY <1>1, <2>1
<1>5. n \div (16 * q) = b
  <2>1. 16 * q \in Nat \ {0}
    OBVIOUS
  <2> QED
    BY <1>2, <1>3, <1>4, <2>1, DivMod
<1> QED
  BY <1>2, <1>5 DEF a, c

(* The number of digits is one that is enough.                             *)
LEMMA EnoughDigits ==
  ASSUME NEW n \in Nat, \A k \in Nat : 16 ^ k \in Nat, n < 16 ^ IntBits
  PROVE  Digits(n) \in 1 .. IntBits /\ 16 ^ Digits(n) > n
<1> DEFINE T == {k \in 1 .. IntBits : 16 ^ k > n}
<1>1. T \subseteq Nat /\ T \subseteq 1 .. IntBits /\ T # {}
  <2>1. IntBits \in 1 .. IntBits /\ 16 ^ IntBits > n
    BY NodeAssumption
  <2>2. 1 .. IntBits \subseteq Nat
    BY NodeAssumption
  <2>3. IntBits \in T
    BY <2>1
  <2> QED
    BY <2>2, <2>3
<1>2. PICK k \in T : \A j \in T : k <= j
  <2> HIDE DEF T
  <2> QED
    BY <1>1, LeastNumber
<1>3. k \in 1 .. IntBits /\ 16 ^ k > n
  OBVIOUS
<1>4. k > 1 => 16 ^ (k - 1) <= n
  <2> SUFFICES ASSUME k > 1 PROVE 16 ^ (k - 1) <= n
    OBVIOUS
  <2>1. k - 1 \in 1 .. IntBits /\ k - 1 \in Nat /\ ~(k <= k - 1)
    BY <1>3, NodeAssumption
  <2>2. k - 1 \notin T
    BY <1>2, <2>1
  <2>3. 16 ^ (k - 1) \in Nat
    BY <2>1
  <2> QED
    BY <2>1, <2>2, <2>3
<1> QED
  BY <1>3, <1>4, Zenon DEF Digits

(* Every epoch comes back from the store as it went there, whatever the    *)
(* width of the integers (marshallable_epoch.go, 15-47).  The hypotheses   *)
(* are the laws of powers, of which the provers know nothing.              *)
THEOREM EpochsAlwaysSurvive ==
  ASSUME 16 ^ 0 = 1, \A k \in Nat : 16 ^ k \in Nat \ {0} /\ 16 ^ (k + 1) = 16 * 16 ^ k,
         2 ^ IntBits \in Nat, 2 ^ IntBits <= 16 ^ IntBits,
         NEW n \in Nat, n < 2 ^ IntBits
  PROVE  FromHex(ToHex(n)) = n
<1> DEFINE D == Digits(n)
           s == ToHex(n)
           p == [k \in Nat |-> 16 ^ k]
<1>1. D \in 1 .. IntBits /\ D \in Nat /\ p[D] > n
  <2>1. IntBits \in Nat /\ 16 ^ IntBits \in Nat
    BY NodeAssumption
  <2>2. n < 16 ^ IntBits
    BY <2>1
  <2>3. D \in 1 .. IntBits /\ 16 ^ D > n
    BY <2>2, EnoughDigits
  <2> QED
    BY <2>1, <2>3
<1>2. s = [i \in 1 .. D |-> (n \div p[D - i]) % 16]
  <2>1. \A i \in 1 .. D : p[D - i] = 16 ^ (D - i)
    BY <1>1
  <2> QED
    BY <2>1, Zenon DEF ToHex
<1>3. p[0] = 1 /\ \A k \in Nat : p[k] \in Nat \ {0} /\ p[k + 1] = 16 * p[k]
  <2>1. \A k \in Nat : p[k] = 16 ^ k
    OBVIOUS
  <2> HIDE DEF p
  <2>2. p[0] = 1
    BY <2>1
  <2>3. ASSUME NEW k \in Nat PROVE p[k] \in Nat \ {0} /\ p[k + 1] = 16 * p[k]
    <3>1. k + 1 \in Nat
      OBVIOUS
    <3>2. p[k] = 16 ^ k /\ p[k + 1] = 16 ^ (k + 1)
      BY <2>1, <3>1
    <3> QED
      BY <3>2
  <2> QED
    BY <2>2, <2>3
<1> HIDE DEF D, s, p
<1>4. \A i \in 1 .. D : D - i \in Nat /\ p[D - i] \in Nat \ {0} /\ (n \div p[D - i]) % 16 \in Nat
  <2> SUFFICES ASSUME NEW i \in 1 .. D
               PROVE  D - i \in Nat /\ p[D - i] \in Nat \ {0} /\ (n \div p[D - i]) % 16 \in Nat
    OBVIOUS
  <2>1. D - i \in Nat /\ p[D - i] \in Nat \ {0}
    BY <1>1, <1>3
  <2>2. n \div p[D - i] \in Nat
    BY <2>1, DivModBounds
  <2> QED
    BY <2>1, <2>2
<1>5. s \in Seq(Nat) /\ Len(s) = D
  <2>1. s \in [1 .. D -> Nat]
    BY <1>2, <1>4
  <2>2. Indexed(s, D)
    BY <1>2, <2>1 DEF Indexed
  <2> QED
    BY <1>1, <2>1, <2>2, LenIndexed, SeqDef
<1> DEFINE f == [i \in 0 .. D |-> n \div p[D - i]]
<1>6. f[0] = 0
  <2>1. p[D] \in Nat \ {0} /\ n = p[D] * 0 + n
    BY <1>1, <1>3
  <2>2. n \div p[D] = 0
    BY <1>1, <2>1, DivMod
  <2> QED
    BY <1>1, <2>2
<1>7. ASSUME NEW i \in 1 .. D PROVE f[i] = 16 * f[i - 1] + s[i]
  <2>1. D - (i - 1) = (D - i) + 1 /\ D - i \in Nat /\ i \in 0 .. D /\ i - 1 \in 0 .. D
    BY <1>1
  <2>2. p[D - (i - 1)] = 16 * p[D - i]
    BY <1>3, <2>1
  <2>3. f[i - 1] = n \div (16 * p[D - i]) /\ f[i] = n \div p[D - i]
    BY <2>1, <2>2, Zenon
  <2>4. s[i] = (n \div p[D - i]) % 16
    BY <1>2
  <2> QED
    BY <1>4, <2>3, <2>4, NextDigit
<1>8. HexEquation(s, f)
  <2>1. ASSUME NEW i \in 0 .. D PROVE f[i] = IF i = 0 THEN 0 ELSE 16 * f[i - 1] + s[i]
    <3> HIDE DEF f
    <3>1. i # 0 => i \in 1 .. D
      BY <1>1
    <3> QED
      BY <1>6, <1>7, <3>1
  <2>2. f = [i \in 0 .. D |-> f[i]]
    OBVIOUS
  <2> HIDE DEF f
  <2> QED
    BY <1>5, <2>1, <2>2 DEF HexEquation
<1>9. f[D] = n
  <2>1. D - D = 0 /\ D \in 0 .. D
    BY <1>1
  <2>2. f[D] = n \div 1
    BY <1>3, <2>1
  <2> QED
    BY <2>2
<1>10. FromHex(s) = IF f[D] < 2 ^ IntBits THEN f[D] ELSE -1
  <2> HIDE DEF f
  <2> QED
    BY <1>5, <1>8, HexValue
<1> HIDE DEF f
<1> QED
  BY <1>9, <1>10 DEF s

(* Arithmetic that the provers do not know.                                *)
PowerLaws ==
  /\ \A k \in Nat : 2 ^ k \in Nat \ {0} /\ 2 ^ (k + 1) = 2 * 2 ^ k
  /\ \A k \in Nat : 16 ^ k \in Nat \ {0} /\ 16 ^ (k + 1) = 16 * 16 ^ k
  /\ \A k \in Nat : 2 ^ k <= 16 ^ k
  /\ 16 ^ 0 = 1

LEMMA SeqOf ==
  ASSUME NEW S, NEW n \in Nat, NEW f \in [1 .. n -> S]
  PROVE  f \in Seq(S)
BY SeqDef

LEMMA SamplesDefinite == AgentDefinite
<1> DEFINE S == Pieces \cup {"v1", "-", "linux"}
<1>1. ASSUME NEW part \in SampleParts PROVE part \in Seq(S)
  <2>1. Pieces \subseteq S /\ {"v1", "-", "linux"} \subseteq S
    BY Zenon DEF S
  <2> HIDE DEF S
  <2>2. CASE part = <<>>
    <3>1. <<>> \in Seq(S)
      OBVIOUS
    <3> QED
      BY <2>2, <3>1
  <2>3. CASE part \in [1 .. 1 -> Pieces]
    <3>1. part \in [1 .. 1 -> S]
      BY <2>1, <2>3
    <3> QED
      BY <3>1, SeqOf
  <2>4. CASE part \in [1 .. 2 -> {"v1", "-", "linux"}]
    <3>1. part \in [1 .. 2 -> S]
      BY <2>1, <2>4
    <3> QED
      BY <3>1, SeqOf
  <2> QED
    BY <1>1, <2>2, <2>3, <2>4 DEF SampleParts
<1>2. ASSUME NEW parts \in SampleAgents PROVE parts \in Seq(Seq(S))
  <2>1. PICK n \in 1 .. 3 : parts \in [1 .. n -> SampleParts]
    BY DEF SampleAgents
  <2>2. parts \in [1 .. n -> Seq(S)]
    BY <1>1, <2>1
  <2> QED
    BY <2>2, SeqOf
<1> QED
  BY <1>2, AgentsAlwaysDefinite DEF AgentDefinite

LEMMA SamplesHonest ==
  ASSUME PowerLaws PROVE DistanceHonest
<1> DEFINE M == 2 ^ (IntBits - 1)
<1>1. IntBits - 1 \in Nat /\ (IntBits - 1) + 1 = IntBits
  BY NodeAssumption
<1>2. M \in Nat \ {0} /\ 2 ^ IntBits = 2 * M
  <2>1. 2 ^ ((IntBits - 1) + 1) = 2 * M /\ M \in Nat \ {0}
    BY <1>1, Zenon DEF PowerLaws
  <2> QED
    BY <1>1, <2>1
<1> SUFFICES ASSUME NEW cb \in Clocks, 100 * cb < M, NEW block \in HeadSlots
             PROVE  Honest(cb, block)
  BY DEF DistanceHonest
<1>3. cb \in Nat \ {0}
  <2>1. PICK time \in 12 .. 251 : cb = time \div 12
    BY DEF Clocks, CurrentBlock
  <2>2. time \div 12 \in Nat /\ time \div 12 > 0
    OBVIOUS
  <2> QED
    BY <2>1, <2>2
<1>4. block \in Nat /\ block <= M
  BY <1>2, <1>3 DEF HeadSlots
<1> HIDE DEF M
<1>5. 2 ^ (IntBits - 1) = M
  BY DEF M
<1> QED
  BY <1>2, <1>3, <1>4, <1>5, DistancesAlwaysHonest

LEMMA SamplesSurvive ==
  ASSUME PowerLaws PROVE EpochSurvives
<1>1. 2 ^ IntBits \in Nat \ {0} /\ 2 ^ IntBits <= 16 ^ IntBits
  BY NodeAssumption DEF PowerLaws
<1>2. ASSUME NEW n \in Epochs PROVE n \in Nat /\ n < 2 ^ IntBits
  BY <1>1, <1>2 DEF Epochs
<1>3. 16 ^ 0 = 1 /\ \A k \in Nat : 16 ^ k \in Nat \ {0} /\ 16 ^ (k + 1) = 16 * 16 ^ k
  BY Zenon DEF PowerLaws
<1>4. ASSUME NEW n \in Nat, n < 2 ^ IntBits PROVE FromHex(ToHex(n)) = n
  BY <1>1, <1>3, <1>4, EpochsAlwaysSurvive
<1> QED
  BY <1>2, <1>4, Zenon DEF EpochSurvives

(* What is stored of a node is what the node said, for any digests,        *)
(* threshold and width of the integers (peer.go, 185-309;                  *)
(* marshallable_epoch.go, 15-47; util.go, 22-76).                          *)
THEOREM RecordsAlwaysTrue ==
  ASSUME PowerLaws PROVE QFairSpec => []RecordsTrue
<1>1. AllDialled
  BY PeerDialled, Zenon DEF AllDialled
<1>2. RecordsTrue
  BY <1>1, SamplesDefinite, SamplesHonest, SamplesSurvive DEF RecordsTrue
<1> QED
  BY <1>2, PTL

-----------------------------------------------------------------------------
(* The API keeps the promise of ApiAnswers *)

ApiStep == [Api!ApiNext]_(Api!answerVars)

(* Between two calls something may be noted, and nothing has been replied  *)
(* before the response is there.                                           *)
SeenInv == DOMAIN countries = Asked /\ (phase # "answered" => reply = "none")

LEMMA SeenInit == QInit => SeenInv
<1> SUFFICES ASSUME QInit PROVE SeenInv
  OBVIOUS
<1>1. countries = <<>> /\ request = <<>> /\ phase = "idle" /\ reply = "none"
  BY DEF QInit
<1> QED
  BY <1>1 DEF SeenInv, Asked

LEMMA SeenNext == SeenInv /\ [QNext]_qvars => SeenInv'
<1> SUFFICES ASSUME SeenInv, [QNext]_qvars PROVE SeenInv'
  OBVIOUS
<1>1. CASE UNCHANGED <<phase, request, countries, reply>>
  BY <1>1 DEF SeenInv, Asked
<1>2. ASSUME NEW id \in Ids, StorePeer(id) \/ Answers(id) \/ FailsLate(id) \/ DeletePeer(id)
      PROVE  SeenInv'
  BY <1>1, <1>2 DEF StorePeer, Answers, FailsLate, DeletePeer, WriteDocs, fieldVars
<1>3. CASE InsertToHistory
  BY <1>1, <1>3 DEF InsertToHistory, fieldVars
<1>4. ASSUME NEW r \in Requests, Ask(r) PROVE SeenInv'
  <2>1. countries' = [f \in DOMAIN r |-> <<>>] /\ request' = r /\ phase' = "running" /\ reply' = "none"
    BY <1>4 DEF Ask
  <2> QED
    BY <2>1 DEF SeenInv, Asked
<1>5. ASSUME NEW f \in Asked, Read(f) PROVE SeenInv'
  <2>1. UNCHANGED <<phase, request, reply>> /\ DOMAIN countries' = DOMAIN countries
    BY <1>5, Zenon DEF Read
  <2> QED
    BY <2>1 DEF SeenInv, Asked
<1>6. ASSUME NEW f \in Asked, ReadAgain(f) \/ ReturnsList(f) \/ \E k : WriteElement(f, k) PROVE SeenInv'
  BY <1>1, <1>6 DEF ReadAgain, ReturnsList, WriteElement
<1>7. CASE Respond
  BY <1>7 DEF Respond, SeenInv, Asked
<1>8. CASE Sent
  BY <1>8 DEF Sent, SeenInv, Asked
<1>9. CASE UNCHANGED qvars
  BY <1>1, <1>9 DEF qvars, fieldVars
<1> QED
  BY <1>2, <1>3, <1>4, <1>5, <1>6, <1>7, <1>8, <1>9 DEF QNext, Field

LEMMA SeenStutters ==
  ASSUME UNCHANGED <<request, AnswersSeen, ReplySeen>>
  PROVE  ApiStep
BY DEF ApiStep, Api!answerVars

(* What a step of one field changes of what is seen.                       *)
LEMMA SeenOfOne ==
  ASSUME phase = "running", UNCHANGED <<phase, request, reply>>, NEW field \in Asked,
         \A f \in Asked \ {field} : Answer(f)' = Answer(f)
  PROVE  /\ AnswersSeen' = [AnswersSeen EXCEPT ![field] = Answer(field)']
         /\ ReplySeen = "pending" /\ UNCHANGED ReplySeen
         /\ AnswersSeen[field] = Answer(field) /\ AnswersSeen'[field] = Answer(field)'
<1>1. Asked' = Asked
  BY DEF Asked
<1>2. AnswersSeen' = [f \in Asked |-> Answer(f)']
  BY <1>1 DEF AnswersSeen
<1>3. AnswersSeen = [f \in Asked |-> Answer(f)]
  BY DEF AnswersSeen
<1>4. ReplySeen = "pending" /\ ReplySeen' = "pending"
  BY DEF ReplySeen
<1> QED
  BY <1>1, <1>2, <1>3, <1>4

LEMMA SameAnswer ==
  ASSUME UNCHANGED phase, NEW f, stage'[f] = stage[f], out'[f] = out[f], countries'[f] = countries[f]
  PROVE  Answer(f)' = Answer(f)
BY DEF Answer, AllWritten

LEMMA FieldSeen ==
  ASSUME phase = "running", UNCHANGED <<crawlerVars, phase, request, reply>>, NEW field \in Asked,
         \A f \in Asked \ {field} : Answer(f)' = Answer(f),
         Api!Settles(field) \/ Api!SettlesAfter(field)
  PROVE  ApiStep
<1>1. ReplySeen = "pending" /\ UNCHANGED ReplySeen
  BY SeenOfOne
<1>2. UNCHANGED <<docs, records>> /\ field \in DOMAIN request
  BY DEF crawlerVars, Asked
<1>3. Api!ApiNext
  BY <1>1, <1>2, Zenon DEF Api!ApiNext
<1> QED
  BY <1>3 DEF ApiStep

(* A step of one field that changes what is noted of it only.              *)
LEMMA OthersSeen ==
  ASSUME UNCHANGED phase, NEW field \in Asked,
         \A f \in Asked \ {field} :
           stage'[f] = stage[f] /\ out'[f] = out[f] /\ countries'[f] = countries[f]
  PROVE  \A f \in Asked \ {field} : Answer(f)' = Answer(f)
BY SameAnswer

(* What a marshaller makes of a value is what will be sent of it.          *)
LEMMA MarshalledSeen ==
  ASSUME RequestInv, phase = "running", UNCHANGED <<phase, request, countries>>, NEW field \in Asked,
         field \notin {"__type", "__schema"}, NEW value, Marshals(field, value)
  PROVE  /\ Answer(field)' = Marshalled(field, value)
         /\ Marshalled(field, value).shape \in {"list", "object", "float"}
         /\ \A f \in Asked \ {field} : Answer(f)' = Answer(f)
<1>1. FieldTypes /\ field \in DOMAIN Query
  BY DEF RequestInv
<1>2. DOMAIN stage = Asked /\ DOMAIN out = Asked
  BY <1>1 DEF FieldTypes
<1>3. CASE field \in CountLists \cup OtherLists
  <2>1. Query[field].shape = "list"
    BY <1>1, <1>3, Shapes
  <2>2. Lists(field, value)
    BY <2>1 DEF Marshals
  <2>3. PICK W : /\ out' = [out EXCEPT ![field] = [shape |-> "list", rows |-> value, written |-> W]]
                 /\ stage' = [stage EXCEPT ![field] = "writing"]
    BY <2>2 DEF Lists
  <2>4. /\ out'[field].shape = "list" /\ out'[field].rows = value /\ stage'[field] = "writing"
        /\ \A f \in Asked \ {field} : stage'[f] = stage[f] /\ out'[f] = out[f]
    BY <1>2, <2>3
  <2>5. Answer(field)' = Listed(AllWritten(field, value))
    BY <2>4 DEF Answer, AllWritten
  <2>6. Marshalled(field, value) = Listed(AllWritten(field, value))
    BY <2>1 DEF Marshalled
  <2>7. \A f \in Asked \ {field} : Answer(f)' = Answer(f)
    BY <2>4, OthersSeen
  <2> QED
    BY <2>5, <2>6, <2>7 DEF Listed
<1>4. CASE field \in Objects \cup {"getAltairUpgradePercentage"}
  <2>1. PICK o : /\ out' = [out EXCEPT ![field] = o]
                 /\ stage' = [stage EXCEPT ![field] = "done"]
                 /\ o = Marshalled(field, value) /\ o.shape \in {"object", "float"}
    <3>1. CASE field \in Objects
      <4>1. Query[field].shape = "object"
        BY <1>1, <3>1, Shapes
      <4> QED
        BY <4>1 DEF Marshals, Marshalled
    <3>2. CASE field = "getAltairUpgradePercentage"
      <4>1. Query[field].shape = "float"
        BY <1>1, <3>2, Shapes
      <4> QED
        BY <4>1 DEF Marshals, Marshalled
    <3> QED
      BY <1>4, <3>1, <3>2
  <2>2. /\ out'[field] = o /\ stage'[field] = "done"
        /\ \A f \in Asked \ {field} : stage'[f] = stage[f] /\ out'[f] = out[f]
    BY <1>2, <2>1
  <2>3. Answer(field)' = o
    BY <2>1, <2>2 DEF Answer
  <2>4. \A f \in Asked \ {field} : Answer(f)' = Answer(f)
    BY <2>2, OthersSeen
  <2> QED
    BY <2>1, <2>3, <2>4
<1> QED
  BY <1>1, <1>3, <1>4, FieldsOfQuery

(* Nor does the first reading of the countries matter to other fields.     *)
LEMMA MadeWithout ==
  ASSUME NEW field \in DOMAIN Query, field # "getRegionalStats", NEW data, NEW some, NEW other
  PROVE  Made(field, data, some) = Made(field, data, other)
BY Zenon DEF Made

(* The resolver itself breaks on nothing.                                  *)
LEMMA BreaksIsFailure ==
  ASSUME Collection(docs), NEW field \in Asked, NEW data \in Calls(field, request[field]),
         Breaks(field, data)
  PROVE  data.kind \in {"error", "panic"}
<1> SUFFICES ASSUME field = "getHeatmapData", Dereferences(data.rows), data.kind = "rows"
             PROVE  FALSE
  BY DEF Breaks
<1>1. data \in ViewAll(docs, request[field])
  BY DEF Calls, Called
<1> QED
  BY <1>1, NoPeerWithoutAgent

LEMMA FailedSeen ==
  ASSUME RequestInv, phase = "running", UNCHANGED <<phase, request, countries>>, NEW field \in Asked,
         NEW why, NullField(field, why)
  PROVE  /\ Answer(field)' = Null(why)
         /\ \A f \in Asked \ {field} : Answer(f)' = Answer(f)
<1>1. DOMAIN stage = Asked /\ DOMAIN out = Asked
  BY DEF RequestInv, FieldTypes
<1>2. /\ out'[field] = Null(why) /\ stage'[field] = "done"
      /\ \A f \in Asked \ {field} : stage'[f] = stage[f] /\ out'[f] = out[f]
  BY <1>1 DEF NullField
<1>3. Answer(field)' = Null(why)
  BY <1>2 DEF Answer, Null
<1> QED
  BY <1>2, <1>3, OthersSeen

LEMMA ReadSeen ==
  ASSUME Collection(docs), RequestInv, SeenInv, NEW field \in Asked, Read(field)
  PROVE  ApiStep
<1>1. PICK data \in Calls(field, request[field]) :
        \/ /\ Breaks(field, data)
           /\ NullField(field, IF data.kind = "error" THEN "error" ELSE "panic")
           /\ UNCHANGED countries
        \/ /\ ~Breaks(field, data) /\ field = "getRegionalStats"
           /\ countries' = [countries EXCEPT ![field] = data.rows]
           /\ stage' = [stage EXCEPT ![field] = "again"]
           /\ UNCHANGED <<out, left, invalids, errors>>
        \/ /\ ~Breaks(field, data) /\ field # "getRegionalStats"
           /\ \E value \in Resolved(field, data) : Marshals(field, value)
           /\ UNCHANGED countries
  BY Zenon DEF Read
<1>2. phase = "running" /\ stage[field] = "ready" /\ UNCHANGED <<crawlerVars, phase, request, reply>>
  BY DEF Read
<1>3. field \in DOMAIN Query \ {"__type", "__schema"} /\ out[field] = Nothing
  BY <1>2, Waiting
<1>4. AnswersSeen[field] = Api!Open
  BY <1>2, <1>3 DEF AnswersSeen, Answer, Nothing, Api!Open
<1>5. data \in Called(field, request[field], docs, records)
  BY DEF Calls
<1>6. ASSUME NEW v, Answer(field)' = v, v # Api!Open,
             \A f \in Asked \ {field} : Answer(f)' = Answer(f),
             \/ Api!Failed(data) /\ v = Api!Null(data.kind)
             \/ ~Api!Failed(data) /\ field = "getRegionalStats" /\ v = Api!Noted(data.rows)
             \/ ~Api!Failed(data) /\ field # "getRegionalStats" /\ v \in FieldOutcomes(field, data, <<>>)
      PROVE  ApiStep
  <2>1. AnswersSeen' = [AnswersSeen EXCEPT ![field] = v] /\ AnswersSeen'[field] = v
    BY <1>2, <1>6, SeenOfOne
  <2>2. Api!Comes(field, v)
    BY <2>1, Zenon DEF Api!Comes
  <2>3. \/ Api!Fails(field, data)
        \/ /\ ~Api!Failed(data) /\ field \in {"getRegionalStats"}
           /\ Api!Comes(field, Api!Noted(data.rows))
        \/ /\ ~Api!Failed(data) /\ field \notin {"getRegionalStats"}
           /\ \E value \in FieldOutcomes(field, data, <<>>) : Api!Comes(field, value)
    BY <1>6, <2>2 DEF Api!Fails
  <2>4. Api!Settles(field)
    BY <1>4, <1>5, <1>6, <2>1, <2>3, Zenon DEF Api!Settles
  <2> QED
    BY <1>2, <1>6, <2>4, FieldSeen
<1>7. CASE Breaks(field, data)
  <2>1. data.kind \in {"error", "panic"}
    BY <1>7, BreaksIsFailure
  <2>2. NullField(field, data.kind) /\ UNCHANGED countries
    BY <1>1, <1>7, <2>1
  <2>3. /\ Answer(field)' = Null(data.kind)
        /\ \A f \in Asked \ {field} : Answer(f)' = Answer(f)
    BY <1>2, <2>2, FailedSeen
  <2>4. Null(data.kind) = Api!Null(data.kind) /\ Null(data.kind) # Api!Open
    BY DEF Null, Api!Null, Api!Open
  <2> QED
    BY <1>6, <2>1, <2>3, <2>4 DEF Api!Failed
<1>8. CASE ~Breaks(field, data) /\ field = "getRegionalStats"
  <2>1. /\ countries' = [countries EXCEPT ![field] = data.rows]
        /\ stage' = [stage EXCEPT ![field] = "again"] /\ out' = out
    BY <1>1, <1>8
  <2>2. DOMAIN countries = Asked /\ DOMAIN stage = Asked
    BY DEF SeenInv, RequestInv, FieldTypes
  <2>3. /\ stage'[field] = "again" /\ countries'[field] = data.rows
        /\ \A f \in Asked \ {field} :
             stage'[f] = stage[f] /\ out'[f] = out[f] /\ countries'[f] = countries[f]
    BY <2>1, <2>2
  <2>4. Answer(field)' = Api!Noted(data.rows)
    BY <2>3 DEF Answer, Api!Noted
  <2>5. \A f \in Asked \ {field} : Answer(f)' = Answer(f)
    BY <1>2, <2>3, OthersSeen
  <2>6. ~Api!Failed(data) /\ Api!Noted(data.rows) # Api!Open
    BY <1>8 DEF Breaks, Api!Failed, Api!Noted, Api!Open
  <2> QED
    BY <1>6, <1>8, <2>4, <2>5, <2>6
<1>9. CASE ~Breaks(field, data) /\ field # "getRegionalStats"
  <2>1. PICK value \in Resolved(field, data) : Marshals(field, value)
    BY <1>1, <1>9
  <2>2. UNCHANGED countries
    BY <1>1, <1>9
  <2>3. /\ Answer(field)' = Marshalled(field, value)
        /\ Marshalled(field, value).shape \in {"list", "object", "float"}
        /\ \A f \in Asked \ {field} : Answer(f)' = Answer(f)
    BY <1>2, <1>3, <2>1, <2>2, MarshalledSeen
  <2>4. value \in Made(field, data, <<>>)
    BY <1>3, <1>9, <2>1, MadeWithout DEF Resolved
  <2>5. Marshalled(field, value) \in FieldOutcomes(field, data, <<>>)
    BY <2>4 DEF FieldOutcomes
  <2>6. ~Api!Failed(data) /\ Marshalled(field, value) # Api!Open
    BY <1>9, <2>3 DEF Breaks, Api!Failed, Api!Open
  <2> QED
    BY <1>6, <1>9, <2>3, <2>5, <2>6
<1> QED
  BY <1>1, <1>7, <1>8, <1>9

LEMMA ReadAgainSeen ==
  ASSUME Collection(docs), RequestInv, NEW field \in Asked, ReadAgain(field)
  PROVE  ApiStep
<1> DEFINE filter == request[field]
<1>1. PICK data \in CalledAgain(filter, docs) :
        IF data.kind = "rows" THEN \E value \in Resolved(field, data) : Marshals(field, value)
        ELSE NullField(field, data.kind)
  BY Zenon DEF ReadAgain
<1>2. /\ phase = "running" /\ stage[field] = "again"
      /\ UNCHANGED <<crawlerVars, phase, request, reply, countries>>
  BY DEF ReadAgain
<1>3. field \in DOMAIN Query \ {"__type", "__schema"} /\ field = "getRegionalStats"
  BY <1>2, Waiting
<1>4. data.kind \in {"error", "panic", "rows"}
  <2>1. data \in AggregateByNetworkType(docs, filter)
    BY DEF CalledAgain
  <2>2. FALSE => Full(data, AggregateByNetworkType(docs, filter))
    OBVIOUS
  <2> QED
    BY <2>1, <2>2, ReadAgainValue
<1>5. AnswersSeen[field] = Api!Noted(countries[field])
  BY <1>2 DEF AnswersSeen, Answer, Api!Noted
<1>6. ASSUME NEW v, Answer(field)' = v, v.shape # "noted",
             \A f \in Asked \ {field} : Answer(f)' = Answer(f),
             \/ Api!Failed(data) /\ v = Api!Null(data.kind)
             \/ ~Api!Failed(data) /\ v \in FieldOutcomes(field, data, countries[field])
      PROVE  ApiStep
  <2>1. AnswersSeen' = [AnswersSeen EXCEPT ![field] = v] /\ AnswersSeen'[field] = v
    BY <1>2, <1>6, SeenOfOne
  <2>2. Api!Comes(field, v)
    BY <2>1, Zenon DEF Api!Comes
  <2>3. AnswersSeen[field].shape = "noted" /\ AnswersSeen[field].rows = countries[field]
    BY <1>5 DEF Api!Noted
  <2>4. \/ Api!Fails(field, data)
        \/ /\ ~Api!Failed(data)
           /\ \E value \in FieldOutcomes(field, data, AnswersSeen[field].rows) : Api!Comes(field, value)
    BY <1>6, <2>2, <2>3 DEF Api!Fails
  <2>5. AnswersSeen'[field] # AnswersSeen[field]
    BY <1>6, <2>1, <2>3
  <2>6. Api!SettlesAfter(field)
    BY <2>3, <2>4, <2>5, Zenon DEF Api!SettlesAfter
  <2> QED
    BY <1>2, <1>6, <2>6, FieldSeen
<1>7. CASE data.kind = "rows"
  <2>1. PICK value \in Resolved(field, data) : Marshals(field, value)
    BY <1>1, <1>7
  <2>2. /\ Answer(field)' = Marshalled(field, value)
        /\ Marshalled(field, value).shape \in {"list", "object", "float"}
        /\ \A f \in Asked \ {field} : Answer(f)' = Answer(f)
    BY <1>2, <1>3, <2>1, MarshalledSeen
  <2>3. Marshalled(field, value) \in FieldOutcomes(field, data, countries[field])
    BY <2>1 DEF FieldOutcomes, Resolved
  <2> QED
    BY <1>6, <1>7, <2>2, <2>3 DEF Api!Failed
<1>8. CASE data.kind # "rows"
  <2>1. NullField(field, data.kind)
    BY <1>1, <1>8
  <2>2. /\ Answer(field)' = Null(data.kind)
        /\ \A f \in Asked \ {field} : Answer(f)' = Answer(f)
    BY <1>2, <2>1, FailedSeen
  <2>3. Null(data.kind) = Api!Null(data.kind) /\ Null(data.kind).shape # "noted"
    BY DEF Null, Api!Null
  <2> QED
    BY <1>4, <1>6, <1>8, <2>2, <2>3 DEF Api!Failed
<1> QED
  BY <1>7, <1>8

(* Where a list stands is not seen before it is sent.                      *)
LEMMA WriteElementSeen ==
  ASSUME RequestInv, NEW field \in Asked, NEW k, WriteElement(field, k)
  PROVE  ApiStep
<1> DEFINE o == out[field]
           W == [j \in DOMAIN o.written \cup {k} |->
                  IF j = k THEN Written(Query[field].type, o.rows[k]) ELSE o.written[j]]
<1>1. /\ phase = "running" /\ stage[field] = "writing"
      /\ out' = [out EXCEPT ![field].written = W]
      /\ UNCHANGED <<phase, request, reply, stage, countries>>
  BY DEF WriteElement
<1>2. DOMAIN out = Asked
  BY DEF RequestInv, FieldTypes
<1>3. ListOK(field, o, seen[field], whole[field])
  BY <1>1 DEF RequestInv, FieldOK
<1>4. o.shape = "list" /\ o = [shape |-> "list", rows |-> o.rows, written |-> o.written]
  BY <1>3, ListFields, Zenon DEF ListOK
<1> HIDE DEF W
<1>5. out'[field] = [o EXCEPT !.written = W] /\ \A f \in Asked \ {field} : out'[f] = out[f]
  BY <1>1, <1>2
<1> HIDE DEF o
<1>6. out'[field].shape = "list" /\ out'[field].rows = o.rows
  BY <1>4, <1>5
<1>7. Answer(field)' = Answer(field)
  BY <1>1, <1>4, <1>6 DEF Answer, AllWritten, o
<1>8. \A f \in Asked \ {field} : Answer(f)' = Answer(f)
  BY <1>1, <1>5, OthersSeen
<1>9. UNCHANGED <<AnswersSeen, ReplySeen>>
  <2>1. Asked' = Asked
    BY <1>1 DEF Asked
  <2> QED
    BY <1>1, <1>7, <1>8, <2>1 DEF AnswersSeen, ReplySeen
<1> QED
  BY <1>1, <1>9, SeenStutters

(* The list that wg.Wait lets through is the one that was to be written.   *)
LEMMA ListIsWhole ==
  ASSUME NEW f, NEW o, NEW s, NEW w, ListOK(f, o, s, w), DOMAIN o.written = DOMAIN o.rows
  PROVE  o.written = AllWritten(f, o.rows)
<1>1. o.written = [k \in DOMAIN o.written |-> o.written[k]]
  BY Zenon DEF ListOK
<1>2. \A k \in DOMAIN o.rows : o.written[k] = Written(Query[f].type, o.rows[k])
  BY Zenon DEF ListOK
<1> QED
  BY <1>1, <1>2 DEF AllWritten

LEMMA ReturnsListSeen ==
  ASSUME RequestInv, NEW field \in Asked, ReturnsList(field)
  PROVE  ApiStep
<1> DEFINE o == out[field]
           rest == DOMAIN o.rows \ DOMAIN o.written
<1>1. /\ phase = "running" /\ stage[field] = "writing" /\ left[field] = 0
      /\ stage' = [stage EXCEPT ![field] = "done"]
      /\ UNCHANGED <<phase, request, reply, out, countries>>
  BY DEF ReturnsList
<1>2. DOMAIN stage = Asked
  BY DEF RequestInv, FieldTypes
<1>3. ListOK(field, o, seen[field], whole[field]) /\ left[field] = Cardinality(rest)
  BY <1>1 DEF RequestInv, FieldOK
<1>4. DOMAIN o.written = DOMAIN o.rows
  <2>1. IsFiniteSet(DOMAIN o.rows) /\ DOMAIN o.written \subseteq DOMAIN o.rows
    BY <1>3 DEF ListOK
  <2>2. IsFiniteSet(rest)
    BY <2>1, FS_Subset
  <2>3. rest = {}
    BY <1>1, <1>3, <2>2, FS_EmptySet
  <2> QED
    BY <2>1, <2>3
<1>5. o.written = AllWritten(field, o.rows) /\ o.shape = "list"
  BY <1>3, <1>4, ListIsWhole, ListFields
<1>6. stage'[field] = "done" /\ \A f \in Asked \ {field} : stage'[f] = stage[f]
  BY <1>1, <1>2
<1>7. Answer(field) = Listed(AllWritten(field, o.rows))
  BY <1>1, <1>5 DEF Answer
<1>8. Answer(field)' = Listed(o.written)
  BY <1>1, <1>5, <1>6 DEF Answer
<1>9. \A f \in Asked \ {field} : Answer(f)' = Answer(f)
  BY <1>1, <1>6, OthersSeen
<1>10. UNCHANGED <<AnswersSeen, ReplySeen>>
  <2>1. Asked' = Asked
    BY <1>1 DEF Asked
  <2>2. \A f \in Asked : Answer(f)' = Answer(f)
    BY <1>5, <1>7, <1>8, <1>9
  <2> QED
    BY <1>1, <2>1, <2>2 DEF AnswersSeen, ReplySeen
<1> QED
  BY <1>1, <1>10, SeenStutters

LEMMA StaticIs ==
  ASSUME NEW f \in DOMAIN Query
  PROVE  f \in StaticFields <=> f \in {"__type", "__schema"}
BY Shapes DEF StaticFields, Inline

LEMMA RespondSeen ==
  ASSUME RequestInv, Respond
  PROVE  ApiStep
<1>1. /\ phase = "running" /\ phase' = "answered" /\ \A f \in Asked : stage[f] = "done"
      /\ reply' = IF invalids # {} THEN "null" ELSE "data"
      /\ UNCHANGED <<crawlerVars, request, stage, countries, out>>
  BY DEF Respond
<1>2. Asked' = Asked /\ Asked = DOMAIN request /\ Asked \subseteq DOMAIN Query /\ invalids \subseteq Asked
  BY <1>1 DEF Asked, RequestInv, FieldTypes
<1>3. ASSUME NEW f \in Asked
      PROVE  /\ Answer(f)' = Answer(f)
             /\ Answer(f).shape = out[f].shape
             /\ out[f].shape \in {"null", "schema", "list", "object", "float"}
             /\ f \in invalids <=> f \notin StaticFields /\ out[f].shape = "null"
  <2>1. Answer(f)' = Answer(f) /\ Answer(f).shape = out[f].shape
    BY <1>1 DEF Answer, Listed
  <2>2. ResultOK(f, request[f], out[f], seen[f], whole[f]) /\ FailsOK(f)
    BY <1>1 DEF RequestInv, FieldOK
  <2>3. out[f].shape \in {"null", "schema", "list", "object", "float"}
    BY <2>2, ListFields DEF ResultOK
  <2> QED
    BY <1>2, <2>1, <2>2, <2>3, StaticIs DEF FailsOK
<1>4. AnswersSeen' = AnswersSeen /\ \A f \in Asked : AnswersSeen[f] = Answer(f)
  BY <1>2, <1>3 DEF AnswersSeen
<1>5. ReplySeen = "pending" /\ ReplySeen' = reply'
  BY <1>1 DEF ReplySeen
<1>6. invalids # {} <=> \E f \in Asked \ StaticFields : AnswersSeen[f].shape = "null"
  BY <1>2, <1>3, <1>4
<1>7. Api!Replies
  BY <1>1, <1>2, <1>3, <1>4, <1>5, <1>6 DEF Api!Replies
<1>8. UNCHANGED <<docs, records>>
  BY <1>1 DEF crawlerVars
<1>9. Api!ApiNext
  BY <1>1, <1>4, <1>5, <1>7, <1>8, Zenon DEF Api!ApiNext
<1> QED
  BY <1>9 DEF ApiStep

LEMMA SentSeen ==
  ASSUME RequestInv, Sent
  PROVE  ApiStep
<1>1. /\ phase = "answered" /\ phase' = "idle" /\ request' = <<>> /\ reply' = "none"
      /\ UNCHANGED crawlerVars
  BY DEF Sent
<1>2. Asked' = {}
  BY <1>1 DEF Asked
<1>3. AnswersSeen' = <<>>
  BY <1>2 DEF AnswersSeen
<1>4. ReplySeen \in {"null", "data"} /\ ReplySeen' = "none"
  BY <1>1 DEF RequestInv, ReplySeen
<1>5. UNCHANGED <<docs, records>>
  BY <1>1 DEF crawlerVars
<1>6. Api!ApiNext
  BY <1>1, <1>3, <1>4, <1>5, Zenon DEF Api!ApiNext, Api!Forgets
<1> QED
  BY <1>6 DEF ApiStep

LEMMA AskSeen ==
  ASSUME SeenInv, NEW r \in Requests, Ask(r)
  PROVE  ApiStep
<1>1. /\ phase = "idle" /\ phase' = "running" /\ request' = r /\ UNCHANGED crawlerVars
      /\ Asked' = DOMAIN r /\ DOMAIN r \subseteq DOMAIN Query
  BY CollectionAssumption DEF Ask, Asked
<1> DEFINE inline == {f \in DOMAIN r : Inline(f)}
<1>2. inline = DOMAIN r \cap StaticFields
  BY <1>1 DEF StaticFields
<1>3. PICK disabled \in BOOLEAN, known \in BOOLEAN :
        /\ stage' = [f \in DOMAIN r |-> IF f \in inline THEN "done" ELSE "ready"]
        /\ out' = [f \in DOMAIN r |->
             IF f \notin inline THEN Nothing
             ELSE IF disabled THEN Null("error")
             ELSE IF f = "__type" /\ ~known THEN Null("unknown")
             ELSE [shape |-> "schema"]]
  BY DEF Ask
<1> HIDE DEF inline
<1> DEFINE static == [f \in DOMAIN r \cap StaticFields |-> out'[f]]
           values == {Api!Schema, Api!Null("error"), Api!Null("unknown")}
<1>4. ASSUME NEW f \in DOMAIN r
      PROVE  /\ Answer(f)' = out'[f]
             /\ f \in StaticFields => out'[f] \in values
             /\ f \notin StaticFields => out'[f] = Api!Open
  <2>1. CASE f \in inline
    <3>1. stage'[f] = "done"
      BY <1>3, <2>1
    <3>2. out'[f] \in {Null("error"), Null("unknown"), [shape |-> "schema"]}
      BY <1>3, <2>1
    <3>3. out'[f] \in values
      BY <3>2 DEF Null, Api!Null, Api!Schema
    <3>4. out'[f].shape # "list"
      BY <3>2 DEF Null
    <3> QED
      BY <1>2, <2>1, <3>1, <3>3, <3>4 DEF Answer
  <2>2. CASE f \notin inline
    <3>1. stage'[f] = "ready" /\ out'[f] = Nothing
      BY <1>3, <2>2
    <3> QED
      BY <1>2, <2>2, <3>1 DEF Answer, Nothing, Api!Open
  <2> QED
    BY <2>1, <2>2
<1>5. AnswersSeen' = [f \in DOMAIN r |-> Answer(f)']
  BY <1>1 DEF AnswersSeen
<1>6. static \in [DOMAIN r \cap StaticFields -> values]
  BY <1>4
<1>7. AnswersSeen' = [f \in DOMAIN r |-> IF f \in StaticFields THEN static[f] ELSE Api!Open]
  <2>1. ASSUME NEW f \in DOMAIN r
        PROVE  Answer(f)' = IF f \in StaticFields THEN static[f] ELSE Api!Open
    BY <1>4
  <2> HIDE DEF static
  <2> QED
    BY <1>5, <2>1
<1> HIDE DEF static
<1>8. ReplySeen = "none" /\ ReplySeen' = "pending"
  BY <1>1 DEF SeenInv, ReplySeen
<1>9. Api!Asks(r)
  BY <1>1, <1>6, <1>7, <1>8, Zenon DEF Api!Asks
<1>10. UNCHANGED <<docs, records>>
  BY <1>1 DEF crawlerVars
<1>11. Api!ApiNext
  BY <1>9, <1>10, Zenon DEF Api!ApiNext
<1> QED
  BY <1>11 DEF ApiStep

LEMMA ApiBegins == QInit => Api!ApiInit
<1> SUFFICES ASSUME QInit PROVE Api!ApiInit
  OBVIOUS
<1>1. request = <<>> /\ phase = "idle" /\ reply = "none"
  BY DEF QInit
<1>2. Asked = {}
  BY <1>1 DEF Asked
<1>3. AnswersSeen = <<>>
  BY <1>2 DEF AnswersSeen
<1> QED
  BY <1>1, <1>3 DEF Api!ApiInit, ReplySeen

LEMMA ApiSteps ==
  ASSUME QueryInv, SeenInv, [QNext]_qvars
  PROVE  ApiStep
<1>1. Collection(docs) /\ RequestInv
  BY DEF QueryInv
<1>2. CASE UNCHANGED <<phase, request, fieldVars, reply>>
  <2>1. UNCHANGED <<phase, request, stage, countries, out, reply>>
    BY <1>2 DEF fieldVars
  <2>2. Asked' = Asked /\ \A f \in Asked : Answer(f)' = Answer(f)
    BY <2>1, SameAnswer DEF Asked
  <2>3. UNCHANGED <<AnswersSeen, ReplySeen>>
    BY <2>1, <2>2 DEF AnswersSeen, ReplySeen
  <2> QED
    BY <2>1, <2>3, SeenStutters
<1>3. ASSUME NEW id \in Ids, StorePeer(id) \/ Answers(id) \/ FailsLate(id) \/ DeletePeer(id)
      PROVE  ApiStep
  BY <1>2, <1>3 DEF StorePeer, Answers, FailsLate, DeletePeer, WriteDocs
<1>4. CASE InsertToHistory
  BY <1>2, <1>4 DEF InsertToHistory
<1>5. ASSUME NEW r \in Requests, Ask(r) PROVE ApiStep
  BY <1>5, AskSeen
<1>6. ASSUME NEW f \in Asked, Field(f) PROVE ApiStep
  BY <1>1, <1>6, ReadSeen, ReadAgainSeen, ReturnsListSeen, WriteElementSeen, Zenon DEF Field
<1>7. CASE Respond
  BY <1>1, <1>7, RespondSeen
<1>8. CASE Sent
  BY <1>1, <1>8, SentSeen
<1>9. CASE UNCHANGED qvars
  BY <1>2, <1>9 DEF qvars
<1> QED
  BY <1>3, <1>4, <1>5, <1>6, <1>7, <1>8, <1>9 DEF QNext

(* For any requests, peers and writes, the goroutines of a request compute *)
(* an answer of ApiAnswers: every field as of one moment, whole, or null   *)
(* because its store has failed (generated.go, 447-485, 4888-5175,         *)
(* 5553-5595; schema.resolvers.go).                                        *)
THEOREM AnswersImplemented == QFairSpec => ImplementsAnswers
<1>1. QInit => Api!ApiInit
  BY ApiBegins
<1>2. QInit => SeenInv
  BY SeenInit
<1>3. SeenInv /\ [QNext]_qvars => SeenInv'
  BY SeenNext
<1>4. QueryInv /\ SeenInv /\ [QNext]_qvars => [Api!ApiNext]_(Api!answerVars)
  BY ApiSteps DEF ApiStep
<1> QED
  BY <1>1, <1>2, <1>3, <1>4, QueryInvariant, PTL DEF QFairSpec, ImplementsAnswers, Api!ApiSpec

-----------------------------------------------------------------------------
(* Every request comes to its end *)

(* The guards of a field's goroutines: a call of a store, an element that  *)
(* is not written yet, or the return of a complete list.                   *)
FieldGoesOn(f) ==
  \/ stage[f] \in {"ready", "again"}
  \/ stage[f] = "writing" /\ left[f] = 0
  \/ stage[f] = "writing" /\ \E k \in DOMAIN out[f].rows : k \notin DOMAIN out[f].written

(* No field waits for another one or for the crawler: one that is not done *)
(* can go on by itself (generated.go, 4905-5146, 5553-5595).               *)
NoFieldWaits == phase = "running" => \A f \in Asked : stage[f] = "done" \/ FieldGoesOn(f)

(* How many steps a field can still take: the calls of its resolver, and   *)
(* the elements, of which there are no more than peers, or records.        *)
StepsLeft(f) ==
  CASE stage[f] = "ready"   -> Bound + 3
    [] stage[f] = "again"   -> Bound + 2
    [] stage[f] = "writing" -> left[f] + 1
    [] stage[f] = "done"    -> 0

(* Each step of a request that runs on is one of one of its fields, which  *)
(* then has fewer to go, while the others have as many as before; the      *)
(* crawler's steps, however many there are, add none (generated.go,        *)
(* 4905-5146, 5553-5595; schema.resolvers.go, 193).                        *)
FieldAdvances ==
  phase = "running" /\ phase' = "running" =>
    \/ UNCHANGED fieldVars
    \/ \E f \in Asked : /\ StepsLeft(f)' < StepsLeft(f)
                        /\ \A g \in Asked \ {f} : StepsLeft(g)' = StepsLeft(g)

FieldsRunOut == [][FieldAdvances]_qvars

LEMMA LeftBounded ==
  ASSUME NEW f, NEW filter, NEW st, NEW o, NEW n, NEW s, NEW w, FieldOK(f, filter, st, o, n, s, w)
  PROVE  /\ st \in {"ready", "again", "writing", "done"} /\ n \in Nat /\ n <= Bound
         /\ st = "writing" /\ n # 0 => \E k \in DOMAIN o.rows : k \notin DOMAIN o.written
<1>1. CASE st = "writing"
  <2> DEFINE rows == DOMAIN o.rows
             rest == DOMAIN o.rows \ DOMAIN o.written
  <2>1. IsFiniteSet(rows) /\ Cardinality(rows) <= Bound /\ n = Cardinality(rest)
    BY <1>1 DEF FieldOK, ListOK
  <2>2. rest \in SUBSET rows
    OBVIOUS
  <2>3. n # 0 => rest # {}
    BY <2>1, FS_EmptySet
  <2> HIDE DEF rest, rows
  <2>4. IsFiniteSet(rest) /\ Cardinality(rest) <= Bound /\ Cardinality(rest) \in Nat
    BY <2>1, <2>2, PartFinite, FS_CardinalityType
  <2>5. rest # {} => \E k \in DOMAIN o.rows : k \notin DOMAIN o.written
    BY DEF rest
  <2> QED
    BY <1>1, <2>1, <2>3, <2>4, <2>5
<1>2. CASE st \in {"ready", "again", "done"}
  BY <1>2, BoundNat DEF FieldOK
<1> QED
  BY <1>1, <1>2 DEF FieldOK

(* Whatever the crawler writes, a field that is not done can go on.        *)
THEOREM FieldsNeverWait == QFairSpec => []NoFieldWaits
<1>1. QueryInv => NoFieldWaits
  <2> SUFFICES ASSUME QueryInv, NEW f \in Asked, stage[f] # "done" PROVE FieldGoesOn(f)
    BY DEF NoFieldWaits
  <2>1. FieldOK(f, request[f], stage[f], out[f], left[f], seen[f], whole[f])
    BY DEF QueryInv, RequestInv
  <2> QED
    BY <2>1, LeftBounded DEF FieldGoesOn
<1> QED
  BY <1>1, QueryInvariant, PTL

(* A step of a field's goroutines touches the stage and the WaitGroup of   *)
(* this field.                                                             *)
MovesOn(field) ==
  /\ UNCHANGED request
  /\ \E st \in {"again", "writing", "done"} : stage' = [stage EXCEPT ![field] = st]
  /\ \E n : left' = [left EXCEPT ![field] = n]

LEMMA MarshalMoves ==
  ASSUME FieldTypes, Asked \subseteq DOMAIN Query, UNCHANGED request,
         NEW field \in Asked \ {"__type", "__schema"}, NEW value, Marshals(field, value)
  PROVE  MovesOn(field) /\ stage'[field] \in {"writing", "done"}
<1>1. left = [left EXCEPT ![field] = left[field]]
  BY DEF FieldTypes
<1>2. CASE field \in CountLists \cup OtherLists
  <2>1. Lists(field, value)
    BY <1>2, Shapes DEF Marshals
  <2>2. left' = [left EXCEPT ![field] = Added(value)] /\ stage' = [stage EXCEPT ![field] = "writing"]
    BY <2>1, Zenon DEF Lists
  <2> QED
    BY <2>2 DEF MovesOn, FieldTypes
<1>3. CASE field \in Objects \cup {"getAltairUpgradePercentage"}
  <2>1. left' = left /\ stage' = [stage EXCEPT ![field] = "done"]
    <3>1. CASE field \in Objects
      BY <3>1, Shapes DEF Marshals, CountLists, OtherLists, Objects
    <3>2. CASE field = "getAltairUpgradePercentage"
      BY <3>2, Shapes DEF Marshals, CountLists, OtherLists, Objects
    <3> QED
      BY <1>3, <3>1, <3>2
  <2> QED
    BY <1>1, <2>1 DEF MovesOn, FieldTypes
<1> QED
  BY <1>2, <1>3, FieldsOfQuery

LEMMA NullMoves ==
  ASSUME FieldTypes, UNCHANGED request, NEW field \in Asked, NEW why, NullField(field, why)
  PROVE  MovesOn(field) /\ stage'[field] = "done"
<1>1. left' = left /\ stage' = [stage EXCEPT ![field] = "done"]
  BY DEF NullField
<1>2. left = [left EXCEPT ![field] = left[field]]
  BY DEF FieldTypes
<1> QED
  BY <1>1, <1>2 DEF MovesOn, FieldTypes

LEMMA StepOfField ==
  ASSUME RequestInv, RequestInv', NEW field \in Asked, MovesOn(field),
         \/ stage[field] = "ready" /\ stage'[field] # "ready"
         \/ stage[field] = "again" /\ stage'[field] \in {"writing", "done"}
         \/ stage[field] = "writing" /\ stage'[field] = "done"
         \/ stage[field] = "writing" /\ stage'[field] = "writing" /\ left'[field] = left[field] - 1
  PROVE  /\ StepsLeft(field)' < StepsLeft(field)
         /\ \A g \in Asked \ {field} : StepsLeft(g)' = StepsLeft(g)
<1>1. field \in Asked' /\ UNCHANGED request
  BY DEF MovesOn, Asked
<1>2. /\ FieldOK(field, request[field], stage[field], out[field], left[field], seen[field], whole[field])
      /\ FieldOK(field, request'[field], stage'[field], out'[field], left'[field], seen'[field], whole'[field])
  BY <1>1 DEF RequestInv
<1>3. /\ left[field] \in Nat /\ left[field] <= Bound
      /\ left'[field] \in Nat /\ left'[field] <= Bound
      /\ stage'[field] \in {"ready", "again", "writing", "done"}
  BY <1>2, LeftBounded
<1>4. StepsLeft(field)' < StepsLeft(field)
  BY <1>3, BoundNat DEF StepsLeft, Bound
<1>5. \A g \in Asked \ {field} : stage'[g] = stage[g] /\ left'[g] = left[g]
  BY DEF MovesOn, RequestInv, FieldTypes
<1>6. \A g \in Asked \ {field} : StepsLeft(g)' = StepsLeft(g)
  BY <1>5 DEF StepsLeft, Bound
<1> QED
  BY <1>4, <1>6

LEMMA FieldAdvance ==
  ASSUME RequestInv, RequestInv', NEW field \in Asked, Field(field)
  PROVE  FieldAdvances
<1>0. FieldTypes /\ Asked \subseteq DOMAIN Query
  BY DEF RequestInv
<1>1. CASE Read(field)
  <2>1. stage[field] = "ready" /\ UNCHANGED request /\ field \notin {"__type", "__schema"}
    BY <1>1, Waiting DEF Read
  <2>2. \/ \E why : NullField(field, why)
        \/ stage' = [stage EXCEPT ![field] = "again"] /\ left' = left
        \/ \E value : Marshals(field, value)
    BY <1>1, Zenon DEF Read
  <2>3. MovesOn(field) /\ stage'[field] # "ready"
    <3>1. CASE \E why : NullField(field, why)
      BY <1>0, <2>1, <3>1, NullMoves
    <3>2. CASE stage' = [stage EXCEPT ![field] = "again"] /\ left' = left
      <4>1. left' = [left EXCEPT ![field] = left[field]]
        BY <1>0, <3>2 DEF FieldTypes
      <4> QED
        BY <1>0, <2>1, <3>2, <4>1 DEF MovesOn, FieldTypes
    <3>3. CASE \E value : Marshals(field, value)
      BY <1>0, <2>1, <3>3, MarshalMoves
    <3> QED
      BY <2>2, <3>1, <3>2, <3>3
  <2> QED
    BY <2>1, <2>3, StepOfField DEF FieldAdvances
<1>2. CASE ReadAgain(field)
  <2>1. stage[field] = "again" /\ UNCHANGED request /\ field \notin {"__type", "__schema"}
    BY <1>2, Waiting DEF ReadAgain
  <2>2. \/ \E why : NullField(field, why)
        \/ \E value : Marshals(field, value)
    BY <1>2, Zenon DEF ReadAgain
  <2>3. MovesOn(field) /\ stage'[field] \in {"writing", "done"}
    BY <1>0, <2>1, <2>2, NullMoves, MarshalMoves
  <2> QED
    BY <2>1, <2>3, StepOfField DEF FieldAdvances
<1>3. CASE ReturnsList(field)
  <2>1. /\ stage[field] = "writing" /\ UNCHANGED <<request, left>>
        /\ stage' = [stage EXCEPT ![field] = "done"]
    BY <1>3 DEF ReturnsList
  <2>2. left' = [left EXCEPT ![field] = left[field]]
    BY <1>0, <2>1 DEF FieldTypes
  <2>3. MovesOn(field) /\ stage'[field] = "done"
    BY <1>0, <2>1, <2>2 DEF MovesOn, FieldTypes
  <2> QED
    BY <2>1, <2>3, StepOfField DEF FieldAdvances
<1>4. ASSUME NEW k, WriteElement(field, k) PROVE FieldAdvances
  <2>1. /\ stage[field] = "writing" /\ UNCHANGED <<request, stage>>
        /\ left' = [left EXCEPT ![field] = @ - 1]
    BY <1>4 DEF WriteElement
  <2>2. stage' = [stage EXCEPT ![field] = "writing"] /\ left'[field] = left[field] - 1
    BY <1>0, <2>1 DEF FieldTypes
  <2>3. MovesOn(field) /\ stage'[field] = "writing"
    BY <2>1, <2>2 DEF MovesOn
  <2> QED
    BY <2>1, <2>2, <2>3, StepOfField DEF FieldAdvances
<1> QED
  BY <1>1, <1>2, <1>3, <1>4 DEF Field

(* Every step of a request brings it nearer to its answer, for any peers,  *)
(* requests and writes of the crawler; with FieldsNeverWait, it is the     *)
(* store alone that a request can wait for.                                *)
THEOREM FieldsFinish == QFairSpec => FieldsRunOut
<1>1. QueryInv /\ QueryInv' /\ [QNext]_qvars => FieldAdvances
  <2> SUFFICES ASSUME QueryInv, QueryInv', [QNext]_qvars PROVE FieldAdvances
    OBVIOUS
  <2>1. CASE UNCHANGED qvars
    BY <2>1 DEF FieldAdvances, qvars
  <2>2. ASSUME NEW id \in Ids, StorePeer(id) \/ Answers(id) \/ FailsLate(id) \/ DeletePeer(id)
        PROVE  FieldAdvances
    BY <2>2 DEF StorePeer, Answers, FailsLate, DeletePeer, WriteDocs, FieldAdvances
  <2>3. CASE InsertToHistory
    BY <2>3 DEF InsertToHistory, FieldAdvances
  <2>4. CASE Respond \/ Sent \/ \E r \in Requests : Ask(r)
    BY <2>4 DEF Respond, Sent, Ask, FieldAdvances
  <2>5. ASSUME NEW f \in Asked, Field(f) PROVE FieldAdvances
    BY <2>5, FieldAdvance DEF QueryInv
  <2> QED
    BY <2>1, <2>2, <2>3, <2>4, <2>5 DEF QNext
<1> QED
  BY <1>1, QueryInvariant, PTL DEF QFairSpec, FieldsRunOut
=============================================================================
