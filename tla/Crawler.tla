------------------------------ MODULE Crawler ------------------------------
(***************************************************************************)
(* The crawler process (crawler/crawl/crawl.go) with the peer store and    *)
(* the file output it writes to.  Its goroutines:                          *)
(*   discovery  start and runIterator: inserts the nodes discv5 finds;     *)
(*   selector   updatePeer: every 5 seconds lists the stalest peers,       *)
(*              stamps them and hands them to the workers;                 *)
(*   workers    bgWorker: dial a peer, ask it for its status and agent,    *)
(*              emit the outcome to the output and write the peer back;    *)
(*   output     Output.Start, module Output.                               *)
(* They share the store, the buffered channel "jobs", the write channel    *)
(* and the context.  main cancels the context on a signal; the process can *)
(* also be killed, and be started again on the same store and file.        *)
(*                                                                         *)
(* One tick of "now" is the 5 seconds that the selector sleeps and that a  *)
(* worker waits before each dial.                                          *)
(***************************************************************************)
EXTENDS PeerStore, Output

CONSTANTS
  Workers,            \* the goroutines of runBGWorkersPool
  ConnectionRetries,  \* crawlerConfig.ConnectionRetries
  MaxTime,            \* bound: the last tick
  MaxCrashes,         \* bound: how often the process is killed and restarted
  Timely              \* TRUE: no round outlives UpdateFreq (see Tick)

ASSUME RetriesAssumption == ConnectionRetries \in Nat
ASSUME TimelyAssumption  == Timely \in BOOLEAN
ASSUME BoundsAssumption  == MaxTime \in Nat /\ MaxCrashes \in Nat
ASSUME WorkersAssumption == IsFiniteSet(Workers) /\ Workers # {}

Concurrency == Cardinality(Workers)

VARIABLES
  now,        \* time.Now()
  discPc,     \* discovery: "select", "insert" (View found nothing), "finished"
  discPeer,   \* the id about to be inserted
  selPc,      \* selector: "check", "stamp", "select", "send", "sleep", "wait", "done"
  reqs,       \* what ListForJob returned and is not handled yet
  cur,        \* the stamped document on its way to the jobs channel
  wakeAt,     \* end of the selector's sleep
  jobs,       \* the buffered channel of the worker pool
  wPc,        \* worker: "idle", "retry", "rpc", "emit", "write", "exited"
  wDoc,       \* the document it holds
  wTries,     \* count in collectNodeInfoRetryer
  wTimer,     \* when its time.After fires
  crashes,    \* how often the process was killed
  misses      \* history: rounds lost since the last recorded success

discVars   == <<discPc, discPeer>>
selVars    == <<selPc, reqs, cur, wakeAt>>
workerVars == <<wPc, wDoc, wTries, wTimer>>
vars == <<store, ctxDone, outVars, now, discVars, selVars, jobs, workerVars,
          crashes, misses>>
-----------------------------------------------------------------------------
Init ==
  /\ StoreInit
  /\ OutputInit
  /\ ctxDone = FALSE
  /\ discPc = "select" /\ discPeer = Absent
  /\ selPc = "check" /\ reqs = <<>> /\ cur = Absent /\ wakeAt = 0
  /\ jobs = <<>>
  /\ wPc = [w \in Workers |-> "idle"]
  /\ wDoc = [w \in Workers |-> Absent]
  /\ wTries = [w \in Workers |-> 0]
  /\ wTimer = [w \in Workers |-> 0]
  /\ now = UpdateFreq + 1
  /\ crashes = 0
  /\ misses = [p \in Peers |-> 0]
-----------------------------------------------------------------------------
(* Discovery: runIterator offers a node, storePeer looks it up (View) and, *)
(* when it is new, inserts it.  A node that the filters of storePeer drop, *)
(* that is already stored, or whose lookup fails changes nothing.          *)
Discover(p) ==
  /\ discPc = "select"
  /\ ~Stored(p)
  /\ discPc' = "insert"
  /\ discPeer' = p
  /\ UNCHANGED <<store, ctxDone, outVars, now, selVars, jobs, workerVars, crashes, misses>>

(* InsertOne; its error is only logged, so it may as well not be applied.  *)
InsertPeer ==
  /\ discPc = "insert"
  /\ InsertOne(NewPeer(discPeer)) \/ UNCHANGED store
  /\ misses' = IF store' = store THEN misses ELSE [misses EXCEPT ![discPeer] = 0]
  /\ discPc' = "select"
  /\ discPeer' = Absent
  /\ UNCHANGED <<ctxDone, outVars, now, selVars, jobs, workerVars, crashes>>

StopDiscovery ==
  /\ discPc = "select"
  /\ ctxDone
  /\ discPc' = "finished"
  /\ UNCHANGED <<store, ctxDone, outVars, now, discPeer, selVars, jobs, workerVars, crashes, misses>>
-----------------------------------------------------------------------------
(* Selector: updatePeer and selectPendingAndExecute.                       *)
Sleep ==
  /\ selPc' = "sleep"
  /\ wakeAt' = now + 1
  /\ reqs' = <<>>
  /\ cur' = Absent

(* ListForJob.  The full limit is the worker pool's size.                  *)
SelectPending ==
  /\ selPc = "check"
  /\ ~ctxDone
  /\ \E ids \in Listings(now, Concurrency) :
       /\ reqs' = [i \in DOMAIN ids |-> store[ids[i]]]
       /\ selPc' = "stamp"
  /\ UNCHANGED <<store, ctxDone, outVars, now, discVars, cur, wakeAt, jobs, workerVars, crashes, misses>>

(* Listing failed, or every listed document has been handled.              *)
EndCycle ==
  /\ \/ selPc = "check" /\ ~ctxDone
     \/ selPc = "stamp" /\ reqs = <<>>
  /\ Sleep
  /\ UNCHANGED <<store, ctxDone, outVars, now, discVars, jobs, workerVars, crashes, misses>>

(* Mutant of Stamped: LastUpdated is left to the worker.                   *)
MutNoStamp(doc) == doc

Stamped(doc) == [doc EXCEPT !.lastUpdated = now]

(* Mutant of StampReq: Update before LastUpdated is set.                   *)
MutUpdateThenStamp ==
  /\ selPc = "stamp"
  /\ reqs # <<>>
  /\ Update(Head(reqs))
  /\ cur' = Stamped(Head(reqs))
  /\ reqs' = Tail(reqs)
  /\ selPc' = "select"
  /\ UNCHANGED <<ctxDone, outVars, now, discVars, wakeAt, jobs, workerVars, crashes, misses>>

(* req.LastUpdated = now and Update, which succeeds (also when the         *)
(* document is gone)...                                                    *)
StampReq ==
  /\ selPc = "stamp"
  /\ reqs # <<>>
  /\ Update(Stamped(Head(reqs)))
  /\ cur' = Stamped(Head(reqs))
  /\ reqs' = Tail(reqs)
  /\ selPc' = "select"
  /\ UNCHANGED <<ctxDone, outVars, now, discVars, wakeAt, jobs, workerVars, crashes, misses>>

(* ...or fails, applied or not: continue with the next document.           *)
StampFails ==
  /\ selPc = "stamp"
  /\ reqs # <<>>
  /\ Update(Stamped(Head(reqs))) \/ UNCHANGED store
  /\ reqs' = Tail(reqs)
  /\ UNCHANGED <<ctxDone, outVars, now, discVars, selPc, cur, wakeAt, jobs, workerVars, crashes, misses>>

(* The select with a default: cancelled means return, otherwise the send   *)
(* is entered and from then on the context is not looked at.               *)
SelectCancelled ==
  /\ selPc = "select"
  /\ ctxDone
  /\ Sleep
  /\ UNCHANGED <<store, ctxDone, outVars, now, discVars, jobs, workerVars, crashes, misses>>

SelectDefault ==
  /\ selPc = "select"
  /\ ~ctxDone
  /\ selPc' = "send"
  /\ UNCHANGED <<store, ctxDone, outVars, now, discVars, reqs, cur, wakeAt, jobs, workerVars, crashes, misses>>

SendJob ==
  /\ selPc = "send"
  /\ Len(jobs) < Concurrency
  /\ jobs' = Append(jobs, cur)
  /\ cur' = Absent
  /\ selPc' = "stamp"
  /\ UNCHANGED <<store, ctxDone, outVars, now, discVars, reqs, wakeAt, workerVars, crashes, misses>>

(* time.Sleep is over.  At MaxTime the model's clock has stopped, so the   *)
(* sleep of a cancelled selector just ends: it reads the clock no more.    *)
Wake ==
  /\ selPc = "sleep"
  /\ now >= wakeAt \/ (ctxDone /\ now = MaxTime)
  /\ selPc' = "check"
  /\ UNCHANGED <<store, ctxDone, outVars, now, discVars, reqs, cur, wakeAt, jobs, workerVars, crashes, misses>>

BeginWait ==
  /\ selPc = "check"
  /\ ctxDone
  /\ selPc' = "wait"
  /\ UNCHANGED <<store, ctxDone, outVars, now, discVars, reqs, cur, wakeAt, jobs, workerVars, crashes, misses>>

(* Mutants of CloseWorkChan: close without Wait; return without close.     *)
MutNoPoolWait ==
  /\ selPc = "wait"
  /\ closed' = TRUE
  /\ selPc' = "done"
  /\ UNCHANGED <<store, ctxDone, workchan, outPc, lines, flushed, now, discVars, reqs, cur,
                 wakeAt, jobs, workerVars, crashes, misses>>

MutNoClose ==
  /\ selPc = "wait"
  /\ \A w \in Workers : wPc[w] = "exited"
  /\ selPc' = "done"
  /\ UNCHANGED <<store, ctxDone, outVars, now, discVars, reqs, cur, wakeAt, jobs, workerVars,
                 crashes, misses>>

(* bgWorkerWg.Wait() has returned: close the write channel, wg.Done.       *)
CloseWorkChan ==
  /\ selPc = "wait"
  /\ \A w \in Workers : wPc[w] = "exited"
  /\ closed' = TRUE
  /\ selPc' = "done"
  /\ UNCHANGED <<store, ctxDone, workchan, outPc, lines, flushed, now, discVars, reqs, cur,
                 wakeAt, jobs, workerVars, crashes, misses>>
-----------------------------------------------------------------------------
(* Workers: bgWorker, updatePeerInfo and collectNodeInfoRetryer.           *)
Goto(w, pc) == wPc' = [wPc EXCEPT ![w] = pc]
Hold(w, doc) == wDoc' = [wDoc EXCEPT ![w] = doc]
StartTimer(w) == wTimer' = [wTimer EXCEPT ![w] = now + 1]

TakeJob(w) ==
  /\ wPc[w] = "idle"
  /\ jobs # <<>>
  /\ jobs' = Tail(jobs)
  /\ Hold(w, Head(jobs))
  /\ Goto(w, "retry")
  /\ wTries' = [wTries EXCEPT ![w] = 0]
  /\ StartTimer(w)
  /\ UNCHANGED <<store, ctxDone, outVars, now, discVars, selVars, crashes, misses>>

(* The retry loop ends without success: no try is left, or the context is  *)
(* done.  Score--.                                                         *)
Lost(m) == IF m < ScoreGood THEN m + 1 ELSE m

(* Mutant of GiveUp: the score is decremented by the retryer and by its    *)
(* caller.                                                                 *)
MutScoreTwice(w) ==
  /\ wPc[w] = "retry"
  /\ ctxDone \/ wTries[w] >= ConnectionRetries
  /\ Hold(w, [wDoc[w] EXCEPT !.score = @ - 2])
  /\ misses' = [misses EXCEPT ![wDoc[w].id] = Lost(@)]
  /\ Goto(w, "write")
  /\ UNCHANGED <<store, ctxDone, outVars, now, discVars, selVars, jobs, wTries, wTimer, crashes>>

GiveUp(w) ==
  /\ wPc[w] = "retry"
  /\ ctxDone \/ wTries[w] >= ConnectionRetries
  /\ Hold(w, [wDoc[w] EXCEPT !.score = @ - 1])
  /\ misses' = [misses EXCEPT ![wDoc[w].id] = Lost(@)]
  /\ Goto(w, "write")
  /\ UNCHANGED <<store, ctxDone, outVars, now, discVars, selVars, jobs, wTries, wTimer, crashes>>

(* time.After fires and host.Connect is called.                            *)
Dial(w) ==
  /\ wPc[w] = "retry"
  /\ wTries[w] < ConnectionRetries
  /\ now >= wTimer[w]
  /\ wTries' = [wTries EXCEPT ![w] = @ + 1]

(* Mutant of DialFails: every failed try costs a point.                    *)
MutScorePerTry(w) ==
  /\ Dial(w)
  /\ StartTimer(w)
  /\ Hold(w, [wDoc[w] EXCEPT !.score = @ - 1])
  /\ UNCHANGED <<store, ctxDone, outVars, now, discVars, selVars, jobs, wPc, crashes, misses>>

DialFails(w) ==
  /\ Dial(w)
  /\ StartTimer(w)
  /\ UNCHANGED <<store, ctxDone, outVars, now, discVars, selVars, jobs, wPc, wDoc, crashes, misses>>

(* "failed to negotiate security protocol": the node is to be dropped,     *)
(* unless a later try of the round gets through.                           *)
DialRefused(w) ==
  /\ Dial(w)
  /\ StartTimer(w)
  /\ Hold(w, [wDoc[w] EXCEPT !.score = ScoreBad])
  /\ misses' = [misses EXCEPT ![wDoc[w].id] = ScoreGood]
  /\ UNCHANGED <<store, ctxDone, outVars, now, discVars, selVars, jobs, wPc, crashes>>

(* Mutant of DialOk: a peer that accepts the connection is connectable.    *)
MutConnectableOnDial(w) ==
  /\ Dial(w)
  /\ Goto(w, "rpc")
  /\ Hold(w, [wDoc[w] EXCEPT !.connectable = TRUE])
  /\ UNCHANGED <<store, ctxDone, outVars, now, discVars, selVars, jobs, wTimer, crashes, misses>>

DialOk(w) ==
  /\ Dial(w)
  /\ Goto(w, "rpc")
  /\ UNCHANGED <<store, ctxDone, outVars, now, discVars, selVars, jobs, wDoc, wTimer, crashes, misses>>

(* FetchStatus, GetAgentVersion, GetProtocolVersion: the last may fail     *)
(* when the second has already been recorded.                              *)
RpcFails(w) ==
  /\ wPc[w] = "rpc"
  /\ \E agent \in {wDoc[w].agent, TRUE} : Hold(w, [wDoc[w] EXCEPT !.agent = agent])
  /\ Goto(w, "retry")
  /\ StartTimer(w)
  /\ UNCHANGED <<store, ctxDone, outVars, now, discVars, selVars, jobs, wTries, crashes, misses>>

RpcOk(w) ==
  /\ wPc[w] = "rpc"
  /\ Hold(w, [wDoc[w] EXCEPT !.agent = TRUE, !.connectable = TRUE, !.score = ScoreGood])
  /\ Goto(w, "emit")
  /\ UNCHANGED <<store, ctxDone, outVars, now, discVars, selVars, jobs, wTries, wTimer, crashes, misses>>

(* The item's UUID hashes the id and LastUpdated.                          *)
Uuid(doc) == <<doc.id, doc.lastUpdated>>

EmitOutput(w) ==
  /\ wPc[w] = "emit"
  /\ Len(workchan) < WorkChanCap
  /\ workchan' = Append(workchan, Uuid(wDoc[w]))
  /\ Goto(w, "write")
  /\ UNCHANGED <<store, ctxDone, closed, outPc, lines, flushed, now, discVars, selVars, jobs,
                 wDoc, wTries, wTimer, crashes, misses>>

(* Mutants of Recorded: the bad score is taken to be 1; a peer is deleted  *)
(* only below the bad score.                                               *)
MutDeleteEarly(doc) ==
  IF doc.score <= ScoreBad + 1 THEN Delete(doc) ELSE Update(doc)

MutDeleteLate(doc) ==
  IF doc.score < ScoreBad THEN Delete(doc) ELSE Update(doc)

(* The end of updatePeerInfo: Delete or Update; an error is only logged.   *)
Recorded(doc) ==
  IF doc.score <= ScoreBad THEN Delete(doc) ELSE Update(doc)

WritePeer(w) ==
  /\ wPc[w] = "write"
  /\ Recorded(wDoc[w]) \/ UNCHANGED store
  /\ misses' = IF wDoc[w].score = ScoreGood /\ store' = [store EXCEPT ![wDoc[w].id] = wDoc[w]]
               THEN [misses EXCEPT ![wDoc[w].id] = 0] ELSE misses
  /\ Hold(w, Absent)
  /\ Goto(w, "idle")
  /\ wTries' = [wTries EXCEPT ![w] = 0]
  /\ wTimer' = [wTimer EXCEPT ![w] = 0]
  /\ UNCHANGED <<ctxDone, outVars, now, discVars, selVars, jobs, crashes>>

WorkerExit(w) ==
  /\ wPc[w] = "idle"
  /\ ctxDone
  /\ Goto(w, "exited")
  /\ UNCHANGED <<store, ctxDone, outVars, now, discVars, selVars, jobs, wDoc, wTries, wTimer, crashes, misses>>
-----------------------------------------------------------------------------
(* The documents on their way from their stamp to their final write: the   *)
(* rounds in progress.                                                     *)
Cur     == IF selPc \in {"select", "send"} THEN {cur} ELSE {}
Queued  == {jobs[i] : i \in DOMAIN jobs}
Busy    == {w \in Workers : wPc[w] \in {"retry", "rpc", "emit", "write"}}
Rounds  == Cur \cup Queued \cup {wDoc[w] : w \in Busy}

(* Time passes.  Nothing relates the length of a round to UpdateFreqMin:   *)
(* with Timely, the clock waits for the rounds whose peer is about to      *)
(* become stale again.  (After the cancellation nothing is listed.)        *)
Tick ==
  /\ now < MaxTime
  /\ now' = now + 1
  /\ Timely /\ ~ctxDone => \A d \in Rounds : d.lastUpdated >= now' - UpdateFreq
  /\ UNCHANGED <<store, ctxDone, outVars, discVars, selVars, jobs, workerVars, crashes, misses>>

(* main: the signal cancels the context.                                   *)
Cancel ==
  /\ ~ctxDone
  /\ ctxDone' = TRUE
  /\ UNCHANGED <<store, outVars, now, discVars, selVars, jobs, workerVars, crashes, misses>>

(* The process is killed and started again: the store stays, of the file   *)
(* (opened with O_APPEND) what had been flushed.                           *)
Crash ==
  /\ crashes < MaxCrashes
  /\ crashes' = crashes + 1
  /\ lines' = SubSeq(lines, 1, flushed)
  /\ ctxDone' = FALSE
  /\ workchan' = <<>> /\ closed' = FALSE /\ outPc' = "run"
  /\ discPc' = "select" /\ discPeer' = Absent
  /\ selPc' = "check" /\ reqs' = <<>> /\ cur' = Absent /\ wakeAt' = 0
  /\ jobs' = <<>>
  /\ wPc' = [w \in Workers |-> "idle"]
  /\ wDoc' = [w \in Workers |-> Absent]
  /\ wTries' = [w \in Workers |-> 0]
  /\ wTimer' = [w \in Workers |-> 0]
  /\ UNCHANGED <<store, flushed, now, misses>>
-----------------------------------------------------------------------------
Discovery == (\E p \in Peers : Discover(p)) \/ InsertPeer \/ StopDiscovery

Selector ==
  \/ SelectPending \/ EndCycle \/ StampReq \/ StampFails \/ SelectCancelled
  \/ SelectDefault \/ SendJob \/ Wake \/ BeginWait \/ CloseWorkChan

Rpc(w) == RpcFails(w) \/ RpcOk(w)

Worker(w) ==
  \/ TakeJob(w) \/ GiveUp(w) \/ DialFails(w) \/ DialRefused(w) \/ DialOk(w)
  \/ Rpc(w) \/ EmitOutput(w) \/ WritePeer(w) \/ WorkerExit(w)

Writer == OutputStep /\ UNCHANGED <<store, now, discVars, selVars, jobs, workerVars, crashes, misses>>

Environment == Tick \/ Cancel \/ Crash

Next == Discovery \/ Selector \/ (\E w \in Workers : Worker(w)) \/ Writer \/ Environment

Spec == Init /\ [][Next]_vars

(* Every goroutine that can go on is scheduled, and the clock runs.  The   *)
(* worker's fairness includes the answer of the remote node in state rpc,  *)
(* which nothing in the code limits in time (crawler/p2p/host.go, 176).    *)
Scheduling ==
  /\ WF_vars(Discovery)
  /\ WF_vars(Selector)
  /\ WF_vars(Writer)
  /\ WF_vars(Tick)

FairSpec == Spec /\ Scheduling /\ \A w \in Workers : WF_vars(Worker(w))
=============================================================================
