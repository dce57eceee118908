------------------------- MODULE CrawlerProperties -------------------------
(***************************************************************************)
(* What the crawler is meant to guarantee, stated over module Crawler.     *)
(***************************************************************************)
EXTENDS Crawler
-----------------------------------------------------------------------------
TypeOK ==
  /\ store \in [Peers -> Peer \cup {Absent}]
  /\ now \in Nat /\ wakeAt \in Nat /\ crashes \in Nat
  /\ ctxDone \in BOOLEAN /\ closed \in BOOLEAN
  /\ discPc \in {"select", "insert", "finished"}
  /\ discPeer \in Peers \cup {Absent}
  /\ selPc \in {"check", "stamp", "select", "send", "sleep", "wait", "done"}
  /\ reqs \in Seq(Peer) /\ Len(reqs) <= Concurrency
  /\ cur \in Peer \cup {Absent}
  /\ jobs \in Seq(Peer) /\ Len(jobs) <= Concurrency
  /\ wPc \in [Workers -> {"idle", "retry", "rpc", "emit", "write", "exited"}]
  /\ wDoc \in [Workers -> Peer \cup {Absent}]
  /\ wTries \in [Workers -> 0 .. ConnectionRetries]
  /\ wTimer \in [Workers -> Nat]
  /\ workchan \in Seq(Peers \X Nat) /\ Len(workchan) <= WorkChanCap
  /\ outPc \in {"run", "drain", "done"}
  /\ lines \in Seq((Peers \X Nat) \cup {Null})
  /\ flushed \in 0 .. Len(lines)
  /\ misses \in [Peers -> 0 .. ScoreGood]

(* No stored document has a score that should have removed it, although    *)
(* scores are decremented and zeroed on copies that live for a whole round *)
(* (crawl.go, 304-317).                                                    *)
StoredScoreInRange == \A p \in Peers : Stored(p) => store[p].score \in ScoreBad + 1 .. ScoreGood

(* The resolvers read UserAgent of every connectable peer without a nil    *)
(* test (schema.resolvers.go, 143): a peer is never stored connectable     *)
(* before its agent has been recorded.                                     *)
ConnectableHasAgent == \A p \in Peers : Stored(p) /\ store[p].connectable => store[p].agent

(* What View told Create still holds when InsertOne runs: nothing else     *)
(* brings a document back, in particular no worker's Update of a peer that *)
(* was deleted meanwhile.                                                  *)
ViewStillHolds == discPc = "insert" => ~Stored(discPeer)

(* No worker sends on the write channel after it is closed, which would    *)
(* panic: the selector waits for the pool first (crawl.go, 212-214).       *)
NoSendOnClosed == closed => \A w \in Workers : wPc[w] = "exited"

(* An orderly end loses nothing: when Output.Start has returned, whatever  *)
(* a worker emitted is a complete line on disk and no worker can emit any  *)
(* more.                                                                   *)
NothingLeftBehind ==
  outPc = "done" => /\ workchan = <<>>
                    /\ flushed = Len(lines)
                    /\ \A w \in Workers : wPc[w] \notin {"emit", "rpc", "retry"}

(* No two lines ever have the same UUID, over restarts and late rounds:    *)
(* a consumer can tell rounds apart by it (crawl.go, 292-298).             *)
Emitted == lines \o workchan
UniqueUuids ==
  \A i, j \in DOMAIN Emitted : Emitted[i] = Emitted[j] /\ Emitted[i] # Null => i = j

(* A peer is in at most one round at a time: no two of the documents that  *)
(* are queued, being handed over or held by a worker have the same id.     *)
(* This is what stamping a peer before it is handed over is for            *)
(* (crawl.go, 234-237).                                                    *)
SingleFlight ==
  /\ \A i, j \in DOMAIN jobs : jobs[i].id = jobs[j].id => i = j
  /\ \A v, w \in Busy : wDoc[v].id = wDoc[w].id => v = w
  /\ \A i \in DOMAIN jobs : \A w \in Busy : jobs[i].id # wDoc[w].id
  /\ \A d \in Cur : /\ \A i \in DOMAIN jobs : jobs[i].id # d.id
                    /\ \A w \in Busy : wDoc[w].id # d.id

(* A round in progress holds the stored document's stamp, and so its peer  *)
(* is neither deleted nor overwritten under it.                            *)
RoundOwnsPeer == \A d \in Rounds : Stored(d.id) /\ store[d.id].lastUpdated = d.lastUpdated

(* The stored score never counts a lost round twice: it has gone down by   *)
(* at most the rounds lost since the last success that was recorded        *)
(* (crawl.go, 276-317).                                                    *)
ScoreMatchesMisses == \A p \in Peers : Stored(p) => ScoreGood - store[p].score <= misses[p]

(* Between two stamps of a peer more than UpdateFreq passes, except over   *)
(* its deletion: no peer is polled more often than configured.             *)
StampsSpaced ==
  [][\A p \in Peers : Stored(p) /\ Stored(p)' /\ store[p]'.lastUpdated # store[p].lastUpdated
        => store[p]'.lastUpdated > store[p].lastUpdated + UpdateFreq]_vars

(* The crawler implements PeerTracker: seen through the store, it does to  *)
(* the standing of its peers nothing but what that module allows.  So no   *)
(* lost round counts twice, and a peer is deleted only after ScoreGood     *)
(* lost rounds in a row or a refusal (crawl.go, 276-323 and 340-357).      *)
Tracker == INSTANCE PeerTracker WITH
  standing <- [p \in Peers |-> IF Stored(p) THEN store[p].score ELSE 0],
  lost     <- misses

ImplementsTracker == Tracker!TrackerSpec
-----------------------------------------------------------------------------
(* After the signal, the selector and the output both come to their        *)
(* wg.Done, as long as no more peers are tracked than the pool has         *)
(* workers.                                                                *)
ShutdownCompletes == ctxDone ~> (selPc = "done" /\ outPc = "done")

(* "If the context has been cancelled workers should be starting to shut   *)
(* down and the work channel will eventually be closed" (file.go, 72).     *)
ChannelEventuallyClosed == ctxDone ~> closed

(* "Drain the channel of any remaining nodes updated then shutdown"        *)
(* (file.go, 73): the lines are nodes.                                     *)
OnlyNodesWritten == Null \notin {lines[i] : i \in DOMAIN lines}
=============================================================================
