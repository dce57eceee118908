----------------------------- MODULE PeerStore -----------------------------
(***************************************************************************)
(* The peer collection of the crawler: the document kept for one node of   *)
(* the network (models/peer.go) and the operations of the MongoDB store on *)
(* it (store/peerstore/mongo/mongo.go).  A document is reduced to what the *)
(* scheduling of the crawler reads or writes: its score, its last_updated  *)
(* stamp, is_connectable, and whether a user agent is recorded.  The       *)
(* document's _id is its place in the function "store".                    *)
(*                                                                         *)
(* Every operation takes a context and talks to a server, so it can fail;  *)
(* a failed write may or may not have been applied.                        *)
(***************************************************************************)
EXTENDS Integers, Sequences

CONSTANTS
  Peers,       \* the node ids the network can offer (peer.ID, the _id field)
  Absent,      \* "no document has this _id"
  UpdateFreq   \* config.UpdateFreqMin, in ticks of the clock

ScoreGood == 3
ScoreBad  == 0

ASSUME UpdateFreqAssumption == UpdateFreq \in Nat \ {0}

(* models.Peer.  A worker decrements its own copy of the score below       *)
(* ScoreBad when a refused node also fails the round, hence -1.            *)
Peer == [id : Peers, score : -1 .. ScoreGood, lastUpdated : Nat,
         connectable : BOOLEAN, agent : BOOLEAN]

ASSUME AbsentAssumption == Absent \notin Peer

VARIABLE store   \* the collection: the document of each id, or Absent

Stored(p) == store[p] # Absent

(* models.NewPeer: what is inserted for a node seen for the first time.    *)
NewPeer(p) == [id |-> p, score |-> ScoreGood, lastUpdated |-> 0,
               connectable |-> FALSE, agent |-> FALSE]

StoreInit == store = [p \in Peers |-> Absent]

(* InsertOne: the unique index on _id rejects a second document.           *)
InsertOne(doc) ==
  store' = IF Stored(doc.id) THEN store ELSE [store EXCEPT ![doc.id] = doc]

(* Mutant of Update: ReplaceOne with the upsert option.                    *)
MutUpsert(doc) == store' = [store EXCEPT ![doc.id] = doc]

(* Update is ReplaceOne without upsert: no document, no change, no error.  *)
Update(doc) ==
  store' = IF Stored(doc.id) THEN [store EXCEPT ![doc.id] = doc] ELSE store

Delete(doc) == store' = [store EXCEPT ![doc.id] = Absent]

(* Mutant of Stale: $lte for $lt.                                          *)
MutStaleInclusive(now) ==
  {p \in Peers : Stored(p) /\ store[p].lastUpdated <= now - UpdateFreq}

(* The filter of ListForJob: last_updated < now - freq.                    *)
Stale(now) == {p \in Peers : Stored(p) /\ store[p].lastUpdated < now - UpdateFreq}

(* What ListForJob may return: distinct stale documents in ascending order *)
(* of last_updated, none of those left out older than one returned.  The   *)
(* full answer has min(limit, number of stale documents) entries, and      *)
(* cursor.Next ends the loop on an error exactly as at the end, so any     *)
(* shorter prefix is an answer too.                                        *)
IsListing(ids, now) ==
  /\ \A i, j \in DOMAIN ids : i < j =>
        /\ ids[i] # ids[j]
        /\ store[ids[i]].lastUpdated <= store[ids[j]].lastUpdated
  /\ \A i \in DOMAIN ids : \A q \in Stale(now) :
        (\A j \in DOMAIN ids : ids[j] # q)
           => store[ids[i]].lastUpdated <= store[q].lastUpdated

Listings(now, limit) ==
  {ids \in UNION {[1 .. n -> Stale(now)] : n \in 0 .. limit} : IsListing(ids, now)}
=============================================================================
