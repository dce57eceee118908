---------------------------- MODULE QueryServer ----------------------------
(***************************************************************************)
(* Requests to the GraphQL API beside a crawler that goes on writing.  The *)
(* fields of a request run at the same time, each in its own goroutine and *)
(* each reading the collections at its own moment; the elements of a list  *)
(* are written by goroutines of their own; what fails becomes null, and    *)
(* what may not be null makes the whole response null (generated.go).      *)
(***************************************************************************)
EXTENDS PeerQueries, GraphSchema

CONSTANTS
  Ids,            \* the ids of peers
  Agents,         \* what each node may call itself, as name, version and OS
  Current,        \* the digest in force, under which the crawler stores peers
  InitialDocs,    \* what an earlier run has left in the peer collection
  Requests,       \* functions from fields of Query to filters
  MaxWrites,      \* bound on the updates and deletions by the crawler
  MaxJobs         \* bound on the runs of the daily job

ASSUME ServerAssumption == Current \in Digests /\ MaxWrites \in Nat /\ MaxJobs \in Nat

(* What the crawler leaves in a document: one of a peer that counts as     *)
(* connectable holds what a round that succeeded has written.              *)
IsDoc(d) ==
  /\ d = [id |-> d.id, connectable |-> d.connectable, digest |-> d.digest, agent |-> d.agent,
          geo |-> d.geo, sync |-> d.sync, next |-> d.next]
  /\ d.id \in Ids
  /\ d.connectable => d.agent # NoAgent /\ d.sync \in {"synced", "unsynced"}

(* The id is the key of the collection.                                    *)
Collection(D) == \A d \in D : IsDoc(d) /\ \A e \in D : d.id = e.id => d = e

ASSUME CollectionAssumption ==
  /\ IsFiniteSet(Ids)
  /\ \A id \in Ids : NoAgent \notin Agents[id]
  /\ \A D \in InitialDocs : Collection(D)
  /\ \A r \in Requests : DOMAIN r \subseteq DOMAIN Query

VARIABLES
  docs,       \* the peer collection
  records,    \* the history collection
  writes,     \* the updates and deletions so far
  phase,      \* "idle", "running" or "answered"
  request,    \* the request, from the moment it is executed
  stage,      \* of each of its fields
  countries,  \* what getRegionalStats has read first
  out,        \* what each field has come to
  left,       \* the WaitGroup of each list
  invalids,   \* the fields counted in Invalids
  errors,     \* the fields with an error
  reply,      \* the response: is data null
  seen,       \* how many peers each field should have counted (history variable)
  whole       \* whether it has got all of them (history variable)

crawlerVars == <<docs, records, writes>>
fieldVars   == <<stage, countries, out, left, invalids, errors, seen, whole>>
qvars       == <<docs, records, writes, phase, request, fieldVars, reply>>

Nothing == [shape |-> "none"]
Null(why) == [shape |-> "null", why |-> why]

QInit ==
  /\ docs \in InitialDocs
  /\ records = {}
  /\ writes = 0
  /\ phase = "idle"
  /\ request = <<>>
  /\ stage = <<>> /\ countries = <<>> /\ out = <<>> /\ left = <<>>
  /\ invalids = {} /\ errors = {} /\ reply = "none"
  /\ seen = <<>> /\ whole = <<>>
-----------------------------------------------------------------------------
(* The crawler and the daily job.                                          *)
Doc(id) == CHOOSE d \in docs : d.id = id
Known == {d.id : d \in docs}

WriteDocs(new) ==
  /\ writes < MaxWrites
  /\ writes' = writes + 1
  /\ docs' = new
  /\ UNCHANGED <<records, phase, request, fieldVars, reply>>

Replaced(doc) == (docs \ {Doc(doc.id)}) \cup {doc}

(* storePeer and Create: a peer that is known is left as it is.  No bound: *)
(* there is an insertion only after a deletion.                            *)
StorePeer(id) ==
  /\ docs' = IF id \in Known THEN docs
             ELSE docs \cup {[id |-> id, connectable |-> FALSE, digest |-> Current, agent |-> NoAgent,
                              geo |-> NoGeo, sync |-> "none", next |-> <<"v", 1>>]}
  /\ UNCHANGED <<records, writes, phase, request, fieldVars, reply>>

(* Mutant of Answers: the peer is connectable once its status is known.    *)
MutAnswers(id) ==
  /\ id \in Known
  /\ \E sync \in {"synced", "unsynced"}, digest \in Digests :
       WriteDocs(Replaced([Doc(id) EXCEPT !.connectable = TRUE, !.sync = sync, !.digest = digest]))

(* A round that succeeds writes agent, sync status and digest of the node. *)
Answers(id) ==
  /\ id \in Known
  /\ \E agent \in Agents[id], sync \in {"synced", "unsynced"}, digest \in Digests :
       WriteDocs(Replaced([Doc(id) EXCEPT !.connectable = TRUE, !.agent = agent,
                                          !.sync = sync, !.digest = digest]))

(* One that fails after the agent has been told keeps the agent.           *)
FailsLate(id) ==
  /\ id \in Known
  /\ \E agent \in Agents[id] : WriteDocs(Replaced([Doc(id) EXCEPT !.agent = agent]))

(* A peer is deleted once its score is used up.                            *)
DeletePeer(id) == id \in Known /\ WriteDocs(docs \ {Doc(id)})

(* insertToHistory: a record of the counts, unless a store fails.          *)
InsertToHistory ==
  /\ Cardinality(records) < MaxJobs
  /\ \E data \in AggregateBySyncStatus(docs, "none") :
       /\ data.kind = "sync"
       /\ records' = records \cup
            {[time |-> Cardinality(records) + 1, sync |-> data.synced, eth2 |-> data.total]}
  /\ UNCHANGED <<docs, writes, phase, request, fieldVars, reply>>
-----------------------------------------------------------------------------
Asked == DOMAIN request
Inline(field) == Query[field].shape = "schema"

(* Exec and _Query: every field but those of the introspection, which are  *)
(* done at once, is left to a goroutine.  The type asked for may be        *)
(* unknown, and the introspection may be disabled, which is an error.      *)
Ask(r) ==
  /\ phase = "idle"
  /\ phase' = "running"
  /\ request' = r
  /\ LET inline == {f \in DOMAIN r : Inline(f)} IN
     \E disabled, known \in IF inline = {} THEN {FALSE} ELSE BOOLEAN :
       /\ stage' = [f \in DOMAIN r |-> IF f \in inline THEN "done" ELSE "ready"]
       /\ out' = [f \in DOMAIN r |->
            IF f \notin inline THEN Nothing
            ELSE IF disabled THEN Null("error")
            ELSE IF f = "__type" /\ ~known THEN Null("unknown")
            ELSE [shape |-> "schema"]]
       /\ errors' = IF disabled THEN inline ELSE {}
  /\ countries' = [f \in DOMAIN r |-> <<>>]
  /\ left' = [f \in DOMAIN r |-> 0]
  /\ invalids' = {}
  /\ reply' = "none"
  /\ seen' = [f \in DOMAIN r |-> 0]
  /\ whole' = [f \in DOMAIN r |-> TRUE]
  /\ UNCHANGED crawlerVars

Calls(field, filter)  == Called(field, filter, docs, records)
Resolved(field, data) == Made(field, data, countries[field])

(* Mutant of NullField: a root field that fails is not counted.            *)
MutNullField(field, why) ==
  /\ out' = [out EXCEPT ![field] = Null(why)]
  /\ errors' = errors \cup {field}
  /\ stage' = [stage EXCEPT ![field] = "done"]
  /\ UNCHANGED <<invalids, left>>

(* An error, or a panic that the field function recovers from.             *)
NullField(field, why) ==
  /\ out' = [out EXCEPT ![field] = Null(why)]
  /\ errors' = errors \cup {field}
  /\ invalids' = invalids \cup {field}
  /\ stage' = [stage EXCEPT ![field] = "done"]
  /\ UNCHANGED left

(* Mutant of Added: also for the element that gets no goroutine.           *)
MutAddsAlways(rows) == Cardinality(DOMAIN rows)

(* wg.Add in the list marshallers: a single element is written in line.    *)
Added(rows) == IF Cardinality(DOMAIN rows) = 1 THEN 0 ELSE Cardinality(DOMAIN rows)

Lists(field, rows) ==
  LET single == Cardinality(DOMAIN rows) = 1 IN
  /\ left' = [left EXCEPT ![field] = Added(rows)]
  /\ out' = [out EXCEPT ![field] =
       [shape |-> "list", rows |-> rows,
        written |-> IF single THEN [k \in DOMAIN rows |-> Written(Query[field].type, rows[k])]
                    ELSE <<>>]]
  /\ stage' = [stage EXCEPT ![field] = "writing"]
  /\ UNCHANGED <<invalids, errors>>

(* The marshaller of what the resolver has returned.                       *)
Marshals(field, value) ==
  CASE Query[field].shape = "list" -> Lists(field, value)
    [] Query[field].shape = "object" ->
         /\ out' = [out EXCEPT ![field] =
              [shape |-> "object", object |-> Written(Query[field].type, value)]]
         /\ stage' = [stage EXCEPT ![field] = "done"]
         /\ UNCHANGED <<left, invalids, errors>>
    [] Query[field].shape = "float" ->
         /\ out' = [out EXCEPT ![field] = [shape |-> "float", float |-> value]]
         /\ stage' = [stage EXCEPT ![field] = "done"]
         /\ UNCHANGED <<left, invalids, errors>>

(* The peers that a field counts: those with geolocation, or all.          *)
Counted(field) ==
  LET found == Matching(docs, request[field])
  IN  IF field \in {"getRegionalStats", "aggregateByNetwork"}
      THEN {d \in found : d.geo # NoGeo} ELSE found

Notes(field, data, all) ==
  /\ seen' = [seen EXCEPT ![field] = Cardinality(Counted(field))]
  /\ whole' = [whole EXCEPT ![field] =
       @ /\ CASE data.kind = "rows" -> \A d \in all : d.kind = "rows" => DOMAIN d.rows \subseteq DOMAIN data.rows
              [] data.kind = "sync" -> \A d \in all : d.kind = "sync" => d.total <= data.total
              [] OTHER -> TRUE]

(* The store fails, or the resolver dereferences a nil agent.              *)
Breaks(field, data) ==
  \/ data.kind \in {"error", "panic"}
  \/ data.kind = "rows" /\ field = "getHeatmapData" /\ Dereferences(data.rows)

(* A resolver calls the store and goes on with what it returns.            *)
Read(field) ==
  /\ phase = "running" /\ stage[field] = "ready"
  /\ \E data \in Calls(field, request[field]) :
       /\ Notes(field, data, Calls(field, request[field]))
       /\ \/ /\ Breaks(field, data)
             /\ NullField(field, IF data.kind = "error" THEN "error" ELSE "panic")
             /\ UNCHANGED countries
          \/ /\ ~Breaks(field, data) /\ field = "getRegionalStats"
             /\ countries' = [countries EXCEPT ![field] = data.rows]
             /\ stage' = [stage EXCEPT ![field] = "again"]
             /\ UNCHANGED <<out, left, invalids, errors>>
          \/ /\ ~Breaks(field, data) /\ field # "getRegionalStats"
             /\ \E value \in Resolved(field, data) : Marshals(field, value)
             /\ UNCHANGED countries
  /\ UNCHANGED <<crawlerVars, phase, request, reply>>

(* getRegionalStats calls it once more.                                    *)
ReadAgain(field) ==
  /\ phase = "running" /\ stage[field] = "again"
  /\ \E data \in CalledAgain(request[field], docs) :
       /\ Notes(field, data, CalledAgain(request[field], docs))
       /\ IF data.kind = "rows"
          THEN \E value \in Resolved(field, data) : Marshals(field, value)
          ELSE NullField(field, data.kind)
  /\ UNCHANGED <<crawlerVars, phase, request, reply, countries>>

(* The goroutine of an element writes it and calls wg.Done.                *)
WriteElement(field, k) ==
  /\ phase = "running" /\ stage[field] = "writing"
  /\ k \in DOMAIN out[field].rows \ DOMAIN out[field].written
  /\ out' = [out EXCEPT ![field].written =
       [j \in DOMAIN @ \cup {k} |->
         IF j = k THEN Written(Query[field].type, out[field].rows[k]) ELSE @[j]]]
  /\ left' = [left EXCEPT ![field] = @ - 1]
  /\ UNCHANGED <<crawlerVars, phase, request, reply, stage, countries, invalids, errors, seen, whole>>

(* Mutant of ReturnsList: without wg.Wait.                                 *)
MutReturnsList(field) ==
  /\ phase = "running" /\ stage[field] = "writing"
  /\ stage' = [stage EXCEPT ![field] = "done"]
  /\ UNCHANGED <<crawlerVars, phase, request, reply, countries, out, left, invalids, errors, seen, whole>>

(* wg.Wait: the list is returned as it is.                                 *)
ReturnsList(field) ==
  /\ phase = "running" /\ stage[field] = "writing" /\ left[field] = 0
  /\ stage' = [stage EXCEPT ![field] = "done"]
  /\ UNCHANGED <<crawlerVars, phase, request, reply, countries, out, left, invalids, errors, seen, whole>>

(* The floats of a field that are written as null.                         *)
NullFloats(field) ==
  CASE out[field].shape = "list"   -> \E k \in DOMAIN out[field].written :
                                        HasNull(Query[field].type, out[field].written[k])
    [] out[field].shape = "object" -> HasNull(Query[field].type, out[field].object)
    [] out[field].shape = "float"  -> NullFloat(out[field].float)
    [] OTHER -> FALSE

(* Dispatch has waited for every field; Invalids decides, and Exec writes  *)
(* what is left.                                                           *)
Respond ==
  /\ phase = "running" /\ \A f \in Asked : stage[f] = "done"
  /\ phase' = "answered"
  /\ reply' = IF invalids # {} THEN "null" ELSE "data"
  /\ errors' = IF invalids # {} THEN errors ELSE errors \cup {f \in Asked : NullFloats(f)}
  /\ UNCHANGED <<crawlerVars, request, stage, countries, out, left, invalids, seen, whole>>

(* The response has been sent: what the request has come to is dropped.    *)
Sent ==
  /\ phase = "answered"
  /\ phase' = "idle"
  /\ request' = <<>>
  /\ stage' = <<>> /\ countries' = <<>> /\ out' = <<>> /\ left' = <<>>
  /\ invalids' = {} /\ errors' = {} /\ reply' = "none"
  /\ seen' = <<>> /\ whole' = <<>>
  /\ UNCHANGED crawlerVars

Field(f) ==
  \/ Read(f) \/ ReadAgain(f) \/ ReturnsList(f)
  \/ stage[f] = "writing" /\ \E k \in DOMAIN out[f].rows : WriteElement(f, k)

QNext ==
  \/ \E id \in Ids : StorePeer(id) \/ Answers(id) \/ FailsLate(id) \/ DeletePeer(id)
  \/ InsertToHistory
  \/ \E r \in Requests : Ask(r)
  \/ \E f \in Asked : Field(f)
  \/ Respond \/ Sent

(* The goroutines of a request go on, and a store answers or fails.        *)
QFairSpec ==
  /\ QInit /\ [][QNext]_qvars
  /\ WF_qvars(\E f \in Asked : Field(f))
  /\ WF_qvars(Respond)
-----------------------------------------------------------------------------
QTypeOK ==
  /\ phase \in {"idle", "running", "answered"} /\ reply \in {"none", "null", "data"}
  /\ \A d \in docs : d.id \in Ids /\ \A e \in docs : d.id = e.id => d = e
  /\ invalids \subseteq Asked /\ errors \subseteq Asked
  /\ \A f \in Asked :
       /\ stage[f] \in {"ready", "again", "writing", "done"}
       /\ left[f] \in 0 .. Cardinality(Ids) + MaxJobs
       /\ out[f].shape \in {"none", "null", Query[f].shape}
       /\ stage[f] = "done" => out[f].shape # "none"

Served(f) == phase = "answered" /\ f \in Asked

(* The response is all or nothing: data is null exactly when a field that  *)
(* may not be null has failed, whichever goroutine it was and whenever, a  *)
(* field that failed has its error in the response, and the introspection  *)
(* takes nothing with it (generated.go, _Query and Exec).                  *)
AllOrNothing ==
  /\ phase = "answered" =>
       (reply = "null" <=> \E f \in Asked : ~Inline(f) /\ out[f].shape = "null")
  /\ \A f \in Asked : Served(f) /\ out[f].shape = "null" /\ out[f].why # "unknown" => f \in errors

(* No list is returned before the goroutines of its elements are through:  *)
(* every row of it is in the response (generated.go, 5553-5595).           *)
ListsComplete ==
  \A f \in Asked :
    Served(f) /\ out[f].shape = "list" => DOMAIN out[f].written = DOMAIN out[f].rows

(* The response is whole, and each of its parts has the shape that the     *)
(* schema gives it (generated.go, Exec).                                   *)
WholeResponse == QTypeOK /\ AllOrNothing /\ ListsComplete

(* Whatever the crawler writes between and during the reads, a resolver    *)
(* panics only on a digest of less than two characters: no peer counts as  *)
(* connectable before its agent is known, which getHeatmapData relies on   *)
(* (mongo.go, 84; schema.resolvers.go, 143; crawl.go, 279-281, 359-378).   *)
NoDereference ==
  \A f \in Asked : out[f].shape = "null" /\ out[f].why = "panic" => request[f] = "short"

(* A percentage is null, where the schema says Float!, only when there was *)
(* nothing to count or a cursor broke off (schema.resolvers.go, 156-235).  *)
NullOnlyWhenEmpty ==
  \A f \in Asked : Served(f) /\ whole[f] /\ NullFloats(f) => seen[f] = 0

(* What is null has a reason: a malformed filter, a store that failed, or  *)
(* nothing to count (generated.go, 5160; schema.resolvers.go, 134-235).    *)
NullsJustified == NoDereference /\ NullOnlyWhenEmpty

(* The rows of every aggregation account for the peers of one moment: each *)
(* of them is in one row, none in two, and the versions of a client add up *)
(* to the client, even when rows are missing (mongo.go, 175-410).          *)
RowsAccountForAll ==
  \A f \in Asked : Served(f) /\ out[f].shape = "list" =>
    LET rows == out[f].written IN
    /\ f \notin {"getHeatmapData", "getNodeStatsOverTime"} /\ whole[f] =>
         TotalCount(rows, DOMAIN rows) = seen[f]
    /\ f = "aggregateByClientVersion" => \A c \in DOMAIN rows :
         rows[c].count = TotalCount(rows[c].versions, DOMAIN rows[c].versions)

(* Every node that counts is either synced or unsynced, at any moment and  *)
(* in every record of the history, so that the unsynced nodes of the       *)
(* history, which are only subtracted, are right (schema.resolvers.go,     *)
(* 156-184; crawl.go, 421-436).                                            *)
SyncAddsUp ==
  /\ \A f \in Asked : Served(f) /\ out[f].shape = "object" /\ f = "getNodeStats" =>
       LET stats == out[f].object
       IN  stats.nodeSyncedPercentage.num + stats.nodeUnsyncedPercentage.num = stats.totalNodes
  /\ \A f \in Asked : Served(f) /\ out[f].shape = "list" /\ f = "getNodeStatsOverTime" =>
       \A t \in DOMAIN out[f].written : out[f].written[t].unsyncedNodes >= 0

(* However the reads of a request fall between the writes of the crawler,  *)
(* each count of a response is the sum of its parts (mongo.go, 175-410).   *)
CountsAddUp == RowsAccountForAll /\ SyncAddsUp

(* What ApiAnswers sees of a field: what has been noted between two calls, *)
(* the list that is being written as it will be, and otherwise what there  *)
(* is to send.                                                             *)
AllWritten(field, rows) == [k \in DOMAIN rows |-> Written(Query[field].type, rows[k])]
Listed(list) == [shape |-> "list", list |-> list]

Marshalled(field, value) ==
  CASE Query[field].shape = "list"   -> Listed(AllWritten(field, value))
    [] Query[field].shape = "object" ->
         [shape |-> "object", object |-> Written(Query[field].type, value)]
    [] Query[field].shape = "float"  -> [shape |-> "float", float |-> value]

Answer(f) ==
  IF stage[f] = "again" THEN [shape |-> "noted", rows |-> countries[f]]
  ELSE IF out[f].shape # "list" THEN out[f]
  ELSE IF phase = "running" /\ stage[f] = "writing" THEN Listed(AllWritten(f, out[f].rows))
  ELSE Listed(out[f].written)

FieldOutcomes(field, data, noted) == {Marshalled(field, value) : value \in Made(field, data, noted)}
StaticFields == {f \in DOMAIN Query : Inline(f)}

AnswersSeen == [f \in Asked |-> Answer(f)]
ReplySeen == IF phase = "running" THEN "pending" ELSE reply

Api == INSTANCE ApiAnswers WITH
  Static <- StaticFields, Twice <- {"getRegionalStats"}, Outcomes <- FieldOutcomes,
  answer <- AnswersSeen, reply <- ReplySeen

(* However the goroutines of a request and the writes of the crawler       *)
(* interleave, a field gets what its resolver makes of the collections as  *)
(* of one moment, whole, or null because a store has failed, and nothing   *)
(* changes it before it is sent (generated.go, 447-485, 4888-5175,         *)
(* 5553-5595; schema.resolvers.go).                                        *)
ImplementsAnswers == Api!ApiSpec

(* Every request is answered.                                              *)
Answered == phase = "running" ~> phase = "answered"
=============================================================================
