--------------------------- MODULE CrawlerProofs ---------------------------
(***************************************************************************)
(* Proofs about the crawler, for every set of peers, every pool size and   *)
(* every bound.                                                            *)
(***************************************************************************)
EXTENDS CrawlerProperties, FiniteSetTheorems, SequenceTheorems, TLAPS

(* A document a round works on, and one that may be stored or handed over. *)
WorkDoc == {d \in Peer : d.connectable => d.agent}
Doc == {d \in WorkDoc : d.score > ScoreBad}

DiscOK ==
  /\ discPc \in {"select", "insert", "finished"}
  /\ discPeer \in Peers \cup {Absent}
  /\ discPc = "insert" => discPeer \in Peers

StoreOK == store \in [Peers -> Doc \cup {Absent}]

SelOK ==
  /\ selPc \in {"check", "stamp", "select", "send", "sleep", "wait", "done"}
  /\ reqs \in Seq(Doc)
  /\ Len(reqs) <= Concurrency
  /\ cur \in Doc \cup {Absent}
  /\ selPc \in {"select", "send"} => cur \in Doc
  /\ wakeAt \in Nat

JobsOK ==
  /\ jobs \in Seq(Doc)
  /\ Len(jobs) <= Concurrency

WorkersOK ==
  /\ wPc \in [Workers -> {"idle", "retry", "rpc", "emit", "write", "exited"}]
  /\ wDoc \in [Workers -> WorkDoc \cup {Absent}]
  /\ wTries \in [Workers -> 0 .. ConnectionRetries]
  /\ wTimer \in [Workers -> Nat]
  /\ \A w \in Busy : wDoc[w] \in WorkDoc
  /\ \A w \in Workers : wPc[w] \in {"retry", "rpc"} => wDoc[w].score >= ScoreBad

OutOK ==
  /\ ctxDone \in BOOLEAN
  /\ closed \in BOOLEAN
  /\ workchan \in Seq(Peers \X Nat)
  /\ Len(workchan) <= WorkChanCap
  /\ outPc \in {"run", "drain", "done"}
  /\ lines \in Seq((Peers \X Nat) \cup {Null})
  /\ flushed \in 0 .. Len(lines)

MiscOK ==
  /\ now \in Nat
  /\ crashes \in Nat
  /\ misses \in [Peers -> 0 .. ScoreGood]

(* The scores handed around are what keeps the stored ones in range: a     *)
(* round starts from a stored score, so with at least one point, and what  *)
(* it leaves at ScoreBad or below is deleted and not stored.               *)
TypeInv == DiscOK /\ StoreOK /\ SelOK /\ JobsOK /\ WorkersOK /\ OutOK /\ MiscOK
-----------------------------------------------------------------------------
LEMMA ConcurrencyNat == Concurrency \in Nat /\ Concurrency > 0
  BY WorkersAssumption, FS_CardinalityType, FS_EmptySet DEF Concurrency

LEMMA TypeInvInit == Init => TypeInv
<1> SUFFICES ASSUME Init PROVE TypeInv
  OBVIOUS
<1> USE DEF Init, StoreInit, OutputInit
<1>1. DiscOK
  BY DEF DiscOK
<1>2. StoreOK
  BY DEF StoreOK
<1>3. SelOK /\ JobsOK
  BY ConcurrencyNat DEF SelOK, JobsOK
<1>4. WorkersOK
  BY RetriesAssumption DEF WorkersOK, Busy
<1>5. OutOK
  <2>1. ctxDone \in BOOLEAN /\ closed \in BOOLEAN
    OBVIOUS
  <2>2. /\ workchan \in Seq(Peers \X Nat) /\ Len(workchan) <= WorkChanCap
        /\ lines \in Seq((Peers \X Nat) \cup {Null}) /\ flushed \in 0 .. Len(lines)
        /\ outPc \in {"run", "drain", "done"}
    BY OutputAssumption, EmptySeq
  <2> QED
    BY <2>1, <2>2 DEF OutOK
<1>6. MiscOK
  BY UpdateFreqAssumption DEF MiscOK, ScoreGood
<1> QED
  BY <1>1, <1>2, <1>3, <1>4, <1>5, <1>6 DEF TypeInv

LEMMA NewPeerDoc == \A p \in Peers : NewPeer(p) \in Doc
  BY DEF NewPeer, Doc, WorkDoc, Peer, ScoreGood, ScoreBad

LEMMA StampedDoc ==
  ASSUME now \in Nat, NEW d \in Doc
  PROVE  Stamped(d) \in Doc /\ Stamped(d).id = d.id
  BY DEF Stamped, Doc, WorkDoc, Peer

(* The store's operations keep it a collection of documents.               *)
LEMMA StoreWrites ==
  ASSUME StoreOK, NEW d \in Doc
  PROVE  /\ InsertOne(d) => StoreOK'
         /\ Update(d) => StoreOK'
  BY DEF StoreOK, InsertOne, Update, Doc, WorkDoc, Peer

LEMMA StoreDelete ==
  ASSUME StoreOK, NEW d \in WorkDoc, Delete(d)
  PROVE  StoreOK'
  BY DEF StoreOK, Delete, WorkDoc, Peer
-----------------------------------------------------------------------------
LEMMA DiscoveryTypes == TypeInv /\ Discovery => TypeInv'
<1> SUFFICES ASSUME TypeInv, Discovery PROVE TypeInv'
  OBVIOUS
<1> USE DEF TypeInv, Discovery, Discover, InsertPeer, StopDiscovery
<1>1. SelOK' /\ JobsOK'
  BY DEF SelOK, JobsOK, selVars
<1>2. WorkersOK'
  BY DEF WorkersOK, Busy, workerVars
<1>3. OutOK'
  BY DEF OutOK, outVars
<1>4. DiscOK'
  BY DEF DiscOK
<1>5. StoreOK'
  <2>1. CASE InsertPeer
    BY <2>1, NewPeerDoc, StoreWrites DEF DiscOK, StoreOK
  <2> QED
    BY <2>1 DEF StoreOK
<1>6. MiscOK'
  BY DEF MiscOK, ScoreGood
<1> QED
  BY <1>1, <1>2, <1>3, <1>4, <1>5, <1>6

LEMMA SelectorTypes == TypeInv /\ Selector => TypeInv'
<1> SUFFICES ASSUME TypeInv, Selector PROVE TypeInv'
  OBVIOUS
<1> USE DEF TypeInv, Selector, SelectPending, EndCycle, StampReq, StampFails, SelectCancelled,
            SelectDefault, SendJob, Wake, BeginWait, CloseWorkChan, Sleep
<1>1. DiscOK'
  BY DEF DiscOK, discVars
<1>2. WorkersOK'
  BY DEF WorkersOK, Busy, workerVars
<1>3. MiscOK'
  BY DEF MiscOK
<1>4. OutOK'
  <2>1. CASE CloseWorkChan
    BY <2>1 DEF OutOK
  <2> QED
    BY <2>1 DEF OutOK, outVars
<1>5. reqs # <<>> => /\ Head(reqs) \in Doc /\ Stamped(Head(reqs)) \in Doc
                     /\ Tail(reqs) \in Seq(Doc) /\ Len(Tail(reqs)) <= Concurrency
  BY HeadTailProperties, StampedDoc, LenProperties, ConcurrencyNat DEF SelOK, MiscOK
<1>6. StoreOK'
  <2>1. CASE StampReq
    BY <2>1, <1>5, StoreWrites
  <2>2. CASE StampFails
    BY <2>2, <1>5, StoreWrites DEF StoreOK
  <2> QED
    BY <2>1, <2>2 DEF StoreOK
<1>7. SelOK'
  <2>1. CASE SelectPending
    <3>1. PICK ids \in Listings(now, Concurrency) : reqs' = [i \in DOMAIN ids |-> store[ids[i]]]
      BY <2>1
    <3>2. PICK n \in 0 .. Concurrency : ids \in [1 .. n -> Stale(now)]
      BY DEF Listings
    <3>3. reqs' \in [1 .. n -> Doc]
      BY <3>1, <3>2 DEF StoreOK, Stale, Stored
    <3>4. reqs' \in Seq(Doc) /\ Len(reqs') = n
      BY <3>3, <3>2, ConcurrencyNat
    <3> QED
      BY <2>1, <3>2, <3>4, ConcurrencyNat DEF SelOK
  <2>2. CASE StampReq \/ StampFails
    BY <2>2, <1>5 DEF SelOK
  <2>3. CASE EndCycle \/ SelectCancelled
    <3>1. reqs' = <<>>
      BY <2>3
    <3>. /\ <<>> \in Seq(Doc)
         /\ Len(<<>>) <= Concurrency
      BY ConcurrencyNat, EmptySeq
    <3>2. selPc' = "sleep" /\ cur' = Absent /\ wakeAt' \in Nat
      BY <2>3 DEF MiscOK
    <3> QED
      BY <3>1, <3>2 DEF SelOK
  <2>4. CASE SendJob \/ SelectDefault \/ Wake \/ BeginWait \/ CloseWorkChan
    BY <2>4 DEF SelOK
  <2> QED
    BY <2>1, <2>2, <2>3, <2>4
<1>8. JobsOK'
  <2>1. CASE SendJob
    BY <2>1, ConcurrencyNat, LenProperties DEF JobsOK, SelOK
  <2> QED
    BY <2>1 DEF JobsOK
<1> QED
  BY <1>1, <1>2, <1>3, <1>4, <1>6, <1>7, <1>8

LEMMA WriterTypes == TypeInv /\ Writer => TypeInv'
<1> SUFFICES ASSUME TypeInv, Writer PROVE TypeInv'
  OBVIOUS
<1> USE DEF TypeInv, Writer
<1>1. DiscOK' /\ StoreOK' /\ SelOK' /\ JobsOK' /\ MiscOK'
  BY DEF DiscOK, StoreOK, SelOK, JobsOK, MiscOK, discVars, selVars
<1>2. WorkersOK'
  BY DEF WorkersOK, Busy, workerVars
<1>3. OutOK'
  <2> DEFINE Line == (Peers \X Nat) \cup {Null}
  <2>1. \A item \in Line : WriteLine(item) => /\ lines' \in Seq(Line)
                                              /\ flushed' \in 0 .. Len(lines')
    BY LenProperties DEF OutOK, WriteLine
  <2>2. workchan # <<>> => /\ Head(workchan) \in Line
                           /\ Tail(workchan) \in Seq(Peers \X Nat)
                           /\ Len(Tail(workchan)) <= WorkChanCap
    BY HeadTailProperties, LenProperties, OutputAssumption DEF OutOK
  <2>3. CASE Receive
    BY <2>1, <2>2, <2>3 DEF OutOK, Receive
  <2>4. CASE ReceiveClosed
    BY <2>1, <2>4 DEF OutOK, ReceiveClosed
  <2>5. CASE Drain
    BY <2>1, <2>2, <2>5 DEF OutOK, Drain
  <2>6. CASE StartDrain
    BY <2>6 DEF OutOK, StartDrain
  <2>7. CASE FinishDrain
    BY <2>7, LenProperties DEF OutOK, FinishDrain
  <2> QED
    BY <2>3, <2>4, <2>5, <2>6, <2>7 DEF OutputStep
<1> QED
  BY <1>1, <1>2, <1>3

LEMMA EnvironmentTypes == TypeInv /\ Environment => TypeInv'
<1> SUFFICES ASSUME TypeInv, Environment PROVE TypeInv'
  OBVIOUS
<1> USE DEF TypeInv
<1>1. CASE Tick
  BY <1>1 DEF Tick, DiscOK, StoreOK, SelOK, JobsOK, WorkersOK, Busy, OutOK, MiscOK,
              discVars, selVars, workerVars, outVars
<1>2. CASE Cancel
  <2>1. OutOK'
    BY <1>2 DEF Cancel, OutOK, outVars
  <2> QED
    BY <1>2, <2>1 DEF Cancel, DiscOK, StoreOK, SelOK, JobsOK, WorkersOK, Busy, MiscOK,
                      discVars, selVars, workerVars
<1>3. CASE Crash
  <2>1. DiscOK' /\ StoreOK' /\ MiscOK'
    BY <1>3 DEF Crash, DiscOK, StoreOK, MiscOK
  <2>2. SelOK' /\ JobsOK'
    BY <1>3, ConcurrencyNat, EmptySeq DEF Crash, SelOK, JobsOK
  <2>3. WorkersOK'
    BY <1>3, RetriesAssumption DEF Crash, WorkersOK, Busy
  <2>4. OutOK'
    <3> DEFINE Line == (Peers \X Nat) \cup {Null}
    <3>1. /\ lines' \in Seq(Line)
          /\ Len(lines') = flushed
      BY <1>3, SubSeqProperties, LenProperties, ElementOfSeq DEF Crash, OutOK
    <3>2. ctxDone' \in BOOLEAN /\ closed' \in BOOLEAN
      BY <1>3 DEF Crash
    <3>3. workchan' \in Seq(Peers \X Nat) /\ Len(workchan') <= WorkChanCap
      BY <1>3, EmptySeq, OutputAssumption DEF Crash
    <3>4. flushed' \in 0 .. Len(lines')
      BY <1>3, <3>1, LenProperties DEF Crash, OutOK
    <3> QED
      BY <1>3, <3>1, <3>2, <3>3, <3>4 DEF Crash, OutOK
  <2> QED
    BY <2>1, <2>2, <2>3, <2>4
<1> QED
  BY <1>1, <1>2, <1>3 DEF Environment

(* What a successful round makes of its document.                          *)
LEMMA RecordUpdate ==
  \A d \in Peer : \A s \in -1 .. ScoreGood : \A c, a \in BOOLEAN :
    [d EXCEPT !.agent = a, !.connectable = c, !.score = s] \in Peer
  BY DEF Peer

LEMMA SucceededDoc ==
  ASSUME NEW d \in WorkDoc
  PROVE  [d EXCEPT !.agent = TRUE, !.connectable = TRUE, !.score = ScoreGood] \in WorkDoc
<1> DEFINE e == [d EXCEPT !.agent = TRUE, !.connectable = TRUE, !.score = ScoreGood]
<1>1. TRUE \in BOOLEAN /\ ScoreGood \in -1 .. ScoreGood /\ d \in Peer
  BY DEF ScoreGood, WorkDoc
<1>2. e \in Peer
  BY <1>1, RecordUpdate, Zenon
<1>3. e.agent
  BY <1>1 DEF Peer
<1> QED
  BY <1>2, <1>3 DEF WorkDoc

LEMMA WorkerTypes == ASSUME TypeInv, NEW w \in Workers, Worker(w) PROVE TypeInv'
<1> USE DEF TypeInv, Worker, Rpc, Goto, Hold, StartTimer, Dial
<1>1. DiscOK' /\ SelOK'
  BY DEF DiscOK, SelOK, discVars, selVars, TakeJob, GiveUp, DialFails, DialRefused, DialOk,
         RpcFails, RpcOk, EmitOutput, WritePeer, WorkerExit
<1>2. CASE TakeJob(w)
  <2>1. Head(jobs) \in Doc /\ Tail(jobs) \in Seq(Doc) /\ Len(Tail(jobs)) <= Concurrency
    BY <1>2, HeadTailProperties, LenProperties, ConcurrencyNat DEF TakeJob, JobsOK
  <2>2. JobsOK' /\ StoreOK' /\ MiscOK' /\ OutOK'
    BY <1>2, <2>1 DEF TakeJob, JobsOK, StoreOK, MiscOK, OutOK, outVars
  <2>3. WorkersOK'
    BY <1>2, <2>1, RetriesAssumption DEF TakeJob, WorkersOK, Busy, MiscOK, Doc, WorkDoc, Peer,
       ScoreBad
  <2> QED
    BY <1>1, <2>2, <2>3
<1>3. CASE GiveUp(w)
  <2>1. wDoc[w] \in WorkDoc /\ wDoc[w].score >= ScoreBad
    BY <1>3 DEF GiveUp, WorkersOK, Busy
  <2>2. [wDoc[w] EXCEPT !.score = @ - 1] \in WorkDoc
    BY <2>1 DEF WorkDoc, Peer, ScoreBad, ScoreGood
  <2>3. WorkersOK'
    BY <1>3, <2>2 DEF GiveUp, WorkersOK, Busy
  <2>4. MiscOK'
    BY <1>3, <2>1 DEF GiveUp, MiscOK, Lost, ScoreGood, WorkDoc, Peer
  <2>5. JobsOK' /\ StoreOK' /\ OutOK'
    BY <1>3 DEF GiveUp, JobsOK, StoreOK, OutOK, outVars
  <2> QED
    BY <1>1, <2>3, <2>4, <2>5
<1>4. CASE DialFails(w) \/ DialRefused(w) \/ DialOk(w)
  <2>1. wPc[w] = "retry" /\ wDoc[w] \in WorkDoc /\ wDoc[w].score >= ScoreBad
    BY <1>4 DEF DialFails, DialRefused, DialOk, WorkersOK, Busy
  <2>2. /\ [wDoc[w] EXCEPT !.score = ScoreBad] \in WorkDoc
        /\ [wDoc[w] EXCEPT !.score = ScoreBad].score = ScoreBad
    BY <2>1 DEF WorkDoc, Peer, ScoreBad, ScoreGood
  <2>3. wTries[w] + 1 \in 0 .. ConnectionRetries
    BY <1>4, RetriesAssumption DEF DialFails, DialRefused, DialOk, WorkersOK
  <2>4. CASE DialFails(w) \/ DialOk(w)
    <3>1. wTries' \in [Workers -> 0 .. ConnectionRetries] /\ wTimer' \in [Workers -> Nat]
      BY <2>3, <2>4 DEF DialFails, DialOk, WorkersOK, MiscOK
    <3>2. WorkersOK'
      BY <2>1, <2>4, <3>1 DEF DialFails, DialOk, WorkersOK, Busy
    <3> QED
      BY <1>1, <2>4, <3>2 DEF DialFails, DialOk, JobsOK, StoreOK, OutOK, outVars, MiscOK
  <2>5. CASE DialRefused(w)
    <3>1. wTries' \in [Workers -> 0 .. ConnectionRetries] /\ wTimer' \in [Workers -> Nat]
      BY <2>3, <2>5 DEF DialRefused, WorkersOK, MiscOK
    <3>2. WorkersOK'
      BY <2>1, <2>2, <2>5, <3>1 DEF DialRefused, WorkersOK, Busy, ScoreBad
    <3>3. MiscOK'
      BY <2>1, <2>5 DEF DialRefused, MiscOK, ScoreGood, WorkDoc, Peer
    <3> QED
      BY <1>1, <2>5, <3>2, <3>3 DEF DialRefused, JobsOK, StoreOK, OutOK, outVars
  <2> QED
    BY <1>4, <2>4, <2>5
<1>5. CASE RpcFails(w) \/ RpcOk(w)
  <2>1. wPc[w] = "rpc" /\ wDoc[w] \in WorkDoc /\ wDoc[w].score >= ScoreBad
    BY <1>5 DEF RpcFails, RpcOk, WorkersOK, Busy
  <2>2. \A agent \in {wDoc[w].agent, TRUE} :
          /\ [wDoc[w] EXCEPT !.agent = agent] \in WorkDoc
          /\ [wDoc[w] EXCEPT !.agent = agent].score = wDoc[w].score
    BY <2>1 DEF WorkDoc, Peer
  <2>3. [wDoc[w] EXCEPT !.agent = TRUE, !.connectable = TRUE, !.score = ScoreGood] \in WorkDoc
    BY <2>1, SucceededDoc
  <2>4. WorkersOK'
    <3>1. CASE RpcFails(w)
      <4>1. PICK e \in WorkDoc : wDoc' = [wDoc EXCEPT ![w] = e] /\ e.score = wDoc[w].score
        BY <2>2, <3>1, Zenon DEF RpcFails
      <4> QED
        BY <2>1, <3>1, <4>1 DEF RpcFails, WorkersOK, Busy, MiscOK
    <3>2. CASE RpcOk(w)
      BY <2>1, <2>3, <3>2 DEF RpcOk, WorkersOK, Busy
    <3> QED
      BY <1>5, <3>1, <3>2
  <2> QED
    BY <1>1, <1>5, <2>4 DEF RpcFails, RpcOk, JobsOK, StoreOK, OutOK, outVars, MiscOK
<1>6. CASE EmitOutput(w)
  <2>1. wDoc[w] \in WorkDoc
    BY <1>6 DEF EmitOutput, WorkersOK, Busy
  <2>2. OutOK'
    BY <1>6, <2>1, LenProperties, OutputAssumption DEF EmitOutput, OutOK, Uuid, WorkDoc, Peer
  <2>3. WorkersOK'
    BY <1>6, <2>1 DEF EmitOutput, WorkersOK, Busy
  <2> QED
    BY <1>1, <1>6, <2>2, <2>3 DEF EmitOutput, JobsOK, StoreOK, MiscOK
<1>7. CASE WritePeer(w)
  <2>1. wDoc[w] \in WorkDoc
    BY <1>7 DEF WritePeer, WorkersOK, Busy
  <2>2. StoreOK'
    <3>1. CASE UNCHANGED store
      BY <3>1 DEF StoreOK
    <3>2. CASE wDoc[w].score <= ScoreBad /\ Delete(wDoc[w])
      BY <2>1, <3>2, StoreDelete
    <3>3. CASE ~(wDoc[w].score <= ScoreBad) /\ Update(wDoc[w])
      <4>1. wDoc[w] \in Doc
        BY <2>1, <3>3 DEF Doc, WorkDoc, Peer, ScoreBad
      <4> QED
        BY <3>3, <4>1, StoreWrites
    <3> QED
      BY <1>7, <3>1, <3>2, <3>3 DEF WritePeer, Recorded
  <2>3. WorkersOK'
    BY <1>7, RetriesAssumption DEF WritePeer, WorkersOK, Busy
  <2>4. MiscOK'
    BY <1>7, <2>1 DEF WritePeer, MiscOK, ScoreGood, WorkDoc, Peer
  <2> QED
    BY <1>1, <1>7, <2>2, <2>3, <2>4 DEF WritePeer, JobsOK, OutOK, outVars
<1>8. CASE WorkerExit(w)
  BY <1>1, <1>8 DEF WorkerExit, WorkersOK, Busy, JobsOK, StoreOK, OutOK, outVars, MiscOK
<1> QED
  BY <1>2, <1>3, <1>4, <1>5, <1>6, <1>7, <1>8

LEMMA TypeInvStutter == TypeInv /\ UNCHANGED vars => TypeInv'
  BY DEF vars, TypeInv, DiscOK, StoreOK, SelOK, JobsOK, WorkersOK, Busy, OutOK, MiscOK,
         discVars, selVars, workerVars, outVars

LEMMA TypeInvNext == TypeInv /\ [Next]_vars => TypeInv'
  BY DiscoveryTypes, SelectorTypes, WorkerTypes, WriterTypes, EnvironmentTypes, TypeInvStutter
  DEF Next

(* The inductive invariant holds throughout.                               *)
LEMMA TypeInvAlways == Spec => []TypeInv
  BY TypeInvInit, TypeInvNext, PTL DEF Spec

LEMMA DocIsPeer == Doc \subseteq Peer /\ WorkDoc \subseteq Peer
  BY DEF Doc, WorkDoc

(* Every variable keeps its type: no decrement, refusal or write-back      *)
(* takes a score out of its range, no channel exceeds its buffer.          *)
THEOREM TypeCorrect == Spec => []TypeOK
<1>1. TypeInv => TypeOK
  BY DocIsPeer, SeqMonotonic
  DEF TypeInv, TypeOK, DiscOK, StoreOK, SelOK, JobsOK, WorkersOK, OutOK, MiscOK
<1> QED
  BY <1>1, TypeInvAlways, PTL

(* No stored document has a score that should have removed it.             *)
THEOREM ScoresInRange == Spec => []StoredScoreInRange
<1>1. TypeInv => StoredScoreInRange
  BY AbsentAssumption DEF TypeInv, StoreOK, StoredScoreInRange, Stored, Doc, WorkDoc, Peer,
                          ScoreBad, ScoreGood
<1> QED
  BY <1>1, TypeInvAlways, PTL

(* Every connectable peer in the store has its agent recorded.             *)
THEOREM ConnectableSafe == Spec => []ConnectableHasAgent
<1>1. TypeInv => ConnectableHasAgent
  BY AbsentAssumption DEF TypeInv, StoreOK, ConnectableHasAgent, Stored, Doc, WorkDoc, Peer
<1> QED
  BY <1>1, TypeInvAlways, PTL
-----------------------------------------------------------------------------
(* The end of the run: who has stopped when the channel is closed and when *)
(* the output returns.                                                     *)
EndInv ==
  /\ closed <=> selPc = "done"
  /\ closed => \A w \in Workers : wPc[w] = "exited"
  /\ outPc = "done" => closed /\ workchan = <<>> /\ flushed = Len(lines)

LEMMA EndStep == TypeInv /\ EndInv /\ [Next]_vars => EndInv'
<1> SUFFICES ASSUME TypeInv, EndInv, [Next]_vars PROVE EndInv'
  OBVIOUS
<1> USE DEF EndInv, selVars, workerVars, outVars
<1>1. CASE Discovery
  BY <1>1 DEF Discovery, Discover, InsertPeer, StopDiscovery
<1>2. CASE Selector
  BY <1>2 DEF Selector, SelectPending, EndCycle, StampReq, StampFails, SelectCancelled,
              SelectDefault, SendJob, Wake, BeginWait, CloseWorkChan, Sleep
<1>3. ASSUME NEW w \in Workers, Worker(w)
      PROVE  EndInv'
  <2>1. wPc[w] # "exited" /\ ~closed
    BY <1>3 DEF Worker, TakeJob, GiveUp, DialFails, DialRefused, DialOk, Dial, Rpc, RpcFails,
                RpcOk, EmitOutput, WritePeer, WorkerExit
  <2>2. UNCHANGED <<closed, selPc, outPc>>
    BY <1>3 DEF Worker, TakeJob, GiveUp, DialFails, DialRefused, DialOk, Rpc, RpcFails,
                RpcOk, EmitOutput, WritePeer, WorkerExit
  <2> QED
    BY <2>1, <2>2
<1>4. CASE Writer
  BY <1>4 DEF Writer, OutputStep, Receive, ReceiveClosed, StartDrain, Drain, FinishDrain
<1>5. CASE Environment
  BY <1>5 DEF Environment, Tick, Cancel, Crash
<1>6. CASE UNCHANGED vars
  BY <1>6 DEF vars
<1> QED
  BY <1>1, <1>2, <1>3, <1>4, <1>5, <1>6 DEF Next

LEMMA EndAlways == Spec => []EndInv
<1>1. Init => EndInv
  BY DEF Init, OutputInit, EndInv
<1> QED
  BY <1>1, EndStep, TypeInvAlways, PTL DEF Spec

(* No worker is left to send when the write channel is closed (crawl.go,   *)
(* 212-214).                                                               *)
THEOREM NoSendAfterClose == Spec => []NoSendOnClosed
<1>1. EndInv => NoSendOnClosed
  BY DEF EndInv, NoSendOnClosed
<1> QED
  BY <1>1, EndAlways, PTL

(* When the output returns, what was emitted is on disk and nobody emits   *)
(* any more (file.go, 64-95).                                              *)
THEOREM OrderlyEnd == Spec => []NothingLeftBehind
<1>1. EndInv => NothingLeftBehind
  BY DEF EndInv, NothingLeftBehind
<1> QED
  BY <1>1, EndAlways, PTL

LEMMA ViewStep == TypeInv /\ ViewStillHolds /\ [Next]_vars => ViewStillHolds'
<1> SUFFICES ASSUME TypeInv, ViewStillHolds, [Next]_vars PROVE ViewStillHolds'
  OBVIOUS
<1> USE DEF ViewStillHolds, discVars
<1>1. CASE Discovery
  BY <1>1 DEF Discovery, Discover, InsertPeer, StopDiscovery, Stored
<1>2. CASE StampReq \/ StampFails
  BY <1>2 DEF StampReq, StampFails, Update, Stored, TypeInv, DiscOK, StoreOK
<1>3. ASSUME NEW w \in Workers, WritePeer(w)
      PROVE  ViewStillHolds'
  BY <1>3 DEF WritePeer, Recorded, Update, Delete, Stored, TypeInv, DiscOK, StoreOK
<1>4. CASE UNCHANGED <<store, discVars>>
  BY <1>4 DEF Stored
<1>5. ASSUME NEW w \in Workers, Worker(w), ~WritePeer(w)
      PROVE  UNCHANGED <<store, discVars>>
  BY <1>5 DEF Worker, TakeJob, GiveUp, DialFails, DialRefused, DialOk, Rpc, RpcFails,
              RpcOk, EmitOutput, WorkerExit
<1>6. ASSUME Selector, ~(StampReq \/ StampFails)
      PROVE  UNCHANGED <<store, discVars>>
  BY <1>6 DEF Selector, SelectPending, EndCycle, SelectCancelled, SelectDefault, SendJob,
              Wake, BeginWait, CloseWorkChan
<1>7. ASSUME Writer \/ Tick \/ Cancel \/ UNCHANGED vars
      PROVE  UNCHANGED <<store, discVars>>
  BY <1>7 DEF Writer, Tick, Cancel, vars
<1>8. CASE Crash
  BY <1>8 DEF Crash
<1> QED
  BY <1>1, <1>2, <1>3, <1>4, <1>5, <1>6, <1>7, <1>8 DEF Next, Environment

(* Between View and InsertOne nothing brings the peer back: an Update of a *)
(* deleted peer changes nothing (mongo.go, 32-58; crawl.go, 195).          *)
THEOREM InsertSeesNoPeer == Spec => []ViewStillHolds
<1>1. Init => ViewStillHolds
  BY DEF Init, ViewStillHolds
<1> QED
  BY <1>1, ViewStep, TypeInvAlways, PTL DEF Spec
-----------------------------------------------------------------------------
(* Rounds do not overlap.  The argument: every document that is listed,    *)
(* stamped, queued or held by a worker owns its peer, that is, carries the *)
(* stamp the store has, and no two of them are of the same peer.  While    *)
(* rounds are Timely, an owned peer is never stale, so it is not listed    *)
(* again; and only the owner writes it.                                    *)

Owns(d) == Stored(d.id) /\ store[d.id].lastUpdated = d.lastUpdated

IdsOK == \A p \in Peers : Stored(p) => store[p].id = p

ReqsOwn ==
  /\ \A i \in DOMAIN reqs : Owns(reqs[i])
  /\ \A i, j \in DOMAIN reqs : reqs[i].id = reqs[j].id => i = j

RoundsOwn ==
  /\ \A d \in Cur : Owns(d)
  /\ \A i \in DOMAIN jobs : Owns(jobs[i])
  /\ \A w \in Busy : Owns(wDoc[w])

(* What is listed and not stamped yet is in no round.                      *)
ReqsApart ==
  \A i \in DOMAIN reqs :
    /\ \A d \in Cur : d.id # reqs[i].id
    /\ \A j \in DOMAIN jobs : jobs[j].id # reqs[i].id
    /\ \A w \in Busy : wDoc[w].id # reqs[i].id

Fresh(d) == d.lastUpdated >= now - UpdateFreq

RoundsFresh ==
  ~ctxDone => /\ \A d \in Cur : Fresh(d)
              /\ \A i \in DOMAIN jobs : Fresh(jobs[i])
              /\ \A w \in Busy : Fresh(wDoc[w])

RoundInv == IdsOK /\ ReqsOwn /\ RoundsOwn /\ ReqsApart /\ SingleFlight /\ RoundsFresh
-----------------------------------------------------------------------------
LEMMA RoundInvInit == Init => RoundInv
  BY EmptySeq DEF Init, StoreInit, OutputInit, RoundInv, IdsOK, ReqsOwn, RoundsOwn, ReqsApart,
     SingleFlight, RoundsFresh, Cur, Busy, Stored

(* Steps that leave every round its peer and its stamp, or end some.       *)
LEMMA RoundInvFrame ==
  ASSUME RoundInv,
         store' = store, now' = now, jobs' = jobs, ctxDone => ctxDone',
         reqs' = reqs \/ reqs' = <<>>, Cur' \subseteq Cur, Busy' \subseteq Busy,
         \A w \in Busy : wDoc'[w].id = wDoc[w].id /\ wDoc'[w].lastUpdated = wDoc[w].lastUpdated
  PROVE  RoundInv'
<1>1. IdsOK' /\ ReqsOwn' /\ RoundsOwn'
  BY DEF RoundInv, IdsOK, ReqsOwn, RoundsOwn, Owns, Stored
<1>2. ReqsApart' /\ SingleFlight'
  BY DEF RoundInv, ReqsApart, SingleFlight
<1>3. RoundsFresh'
  BY DEF RoundInv, RoundsFresh, Fresh
<1> QED
  BY <1>1, <1>2, <1>3 DEF RoundInv

(* The documents as the type invariant gives them.                         *)
LEMMA Documents ==
  ASSUME TypeInv
  PROVE  /\ now \in Nat
         /\ DOMAIN reqs = 1 .. Len(reqs) /\ Len(reqs) \in Nat
         /\ DOMAIN jobs = 1 .. Len(jobs) /\ Len(jobs) \in Nat
         /\ \A i \in DOMAIN reqs : reqs[i] \in Doc
         /\ \A i \in DOMAIN jobs : jobs[i] \in Doc
         /\ \A d \in Cur : d \in Doc
         /\ \A w \in Busy : wDoc[w] \in WorkDoc
         /\ \A p \in Peers : Stored(p) => store[p] \in Doc
  BY LenProperties, ElementOfSeq
  DEF TypeInv, MiscOK, SelOK, JobsOK, WorkersOK, StoreOK, Cur, Stored

LEMMA InsertRounds == TypeInv /\ RoundInv /\ InsertPeer => RoundInv'
<1> SUFFICES ASSUME TypeInv, RoundInv, InsertPeer PROVE RoundInv'
  OBVIOUS
<1>1. CASE UNCHANGED store \/ Stored(discPeer)
  BY <1>1, RoundInvFrame DEF InsertPeer, InsertOne, NewPeer, selVars, workerVars, Cur, Busy
<1>2. CASE ~Stored(discPeer) /\ InsertOne(NewPeer(discPeer))
  <2>1. discPeer \in Peers /\ store' = [store EXCEPT ![discPeer] = NewPeer(discPeer)]
    BY <1>2 DEF InsertPeer, InsertOne, NewPeer, TypeInv, DiscOK
  <2>2. /\ \A p \in Peers : p # discPeer => store'[p] = store[p]
        /\ store'[discPeer] = NewPeer(discPeer)
    BY <2>1 DEF TypeInv, StoreOK
  <2>3. UNCHANGED <<ctxDone, now, reqs, jobs, wDoc, Cur, Busy>>
    BY DEF InsertPeer, selVars, workerVars, Cur, Busy
  <2>4. IdsOK'
    BY <2>2 DEF RoundInv, IdsOK, Stored, NewPeer
  <2>5. ReqsOwn' /\ RoundsOwn'
    <3>1. \A d \in WorkDoc : Owns(d) => /\ store'[d.id] # Absent
                                        /\ store'[d.id].lastUpdated = d.lastUpdated
      BY <1>2, <2>2 DEF Owns, Stored, WorkDoc, Peer
    <3>2. Doc \subseteq WorkDoc
      BY DEF Doc
    <3>3. ReqsOwn'
      BY <2>3, <3>1, <3>2, Documents DEF RoundInv, ReqsOwn, Owns, Stored
    <3>4. RoundsOwn'
      BY <2>3, <3>1, <3>2, Documents DEF RoundInv, RoundsOwn, Owns, Stored
    <3> QED
      BY <3>3, <3>4
  <2>6. ReqsApart' /\ SingleFlight' /\ RoundsFresh'
    BY <2>3 DEF RoundInv, ReqsApart, SingleFlight, RoundsFresh, Fresh
  <2> QED
    BY <2>4, <2>5, <2>6 DEF RoundInv
<1> QED
  BY <1>1, <1>2 DEF InsertPeer

LEMMA FrameRounds ==
  ASSUME TypeInv, RoundInv,
         \/ \E p \in Peers : Discover(p)
         \/ StopDiscovery \/ Writer \/ Cancel
         \/ Wake \/ BeginWait \/ CloseWorkChan \/ SelectDefault
         \/ EndCycle \/ SelectCancelled
  PROVE  RoundInv'
<1> USE RoundInvFrame DEF selVars, workerVars
<1>1. CASE (\E p \in Peers : Discover(p)) \/ StopDiscovery \/ Writer \/ Cancel
  BY <1>1 DEF Discover, StopDiscovery, Writer, OutputStep, Receive, ReceiveClosed, StartDrain,
              Drain, FinishDrain, Cancel, Cur, Busy
<1>2. CASE Wake \/ BeginWait \/ CloseWorkChan \/ SelectDefault
  BY <1>2 DEF Wake, BeginWait, CloseWorkChan, SelectDefault, Cur, Busy
<1>3. CASE EndCycle \/ SelectCancelled
  BY <1>3 DEF EndCycle, SelectCancelled, Sleep, Cur, Busy
<1> QED
  BY <1>1, <1>2, <1>3

LEMMA TrialRounds ==
  ASSUME TypeInv, RoundInv, NEW w \in Workers,
         \/ GiveUp(w) \/ DialFails(w) \/ DialRefused(w) \/ DialOk(w)
         \/ Rpc(w) \/ EmitOutput(w) \/ WorkerExit(w)
  PROVE  RoundInv'
<1>1. UNCHANGED <<store, ctxDone, now, selVars, jobs>>
  BY DEF GiveUp, DialFails, DialRefused, DialOk, Rpc, RpcFails, RpcOk, EmitOutput, WorkerExit, outVars
<1>2. Cur' = Cur
  BY <1>1 DEF Cur, selVars
<1>3. Busy' = Busy
  BY DEF GiveUp, DialFails, DialRefused, DialOk, Rpc, RpcFails, RpcOk, EmitOutput, WorkerExit,
         Dial, Goto, Busy, TypeInv, WorkersOK
<1>4. \A v \in Busy : wDoc'[v].id = wDoc[v].id /\ wDoc'[v].lastUpdated = wDoc[v].lastUpdated
  <2>1. CASE UNCHANGED wDoc
    BY <2>1
  <2>2. CASE GiveUp(w) \/ DialRefused(w) \/ Rpc(w)
    <3>1. w \in Busy /\ wDoc[w] \in WorkDoc
      BY <2>2, Documents DEF GiveUp, DialRefused, Dial, Rpc, RpcFails, RpcOk, Busy
    <3>2. PICK e : /\ wDoc' = [wDoc EXCEPT ![w] = e]
                   /\ e.id = wDoc[w].id /\ e.lastUpdated = wDoc[w].lastUpdated
      BY <2>2, <3>1 DEF GiveUp, DialRefused, Rpc, RpcFails, RpcOk, Hold, WorkDoc, Peer
    <3> QED
      BY <3>2 DEF TypeInv, WorkersOK
  <2> QED
    BY <2>1, <2>2 DEF DialFails, DialOk, EmitOutput, WorkerExit
<1> QED
  BY <1>1, <1>2, <1>3, <1>4, RoundInvFrame DEF selVars

LEMMA TickRounds == Timely /\ TypeInv /\ RoundInv /\ Tick => RoundInv'
<1> SUFFICES ASSUME Timely, TypeInv, RoundInv, Tick PROVE RoundInv'
  OBVIOUS
<1>1. UNCHANGED <<store, ctxDone, reqs, jobs, wDoc, Cur, Busy>>
  BY DEF Tick, selVars, workerVars, Cur, Busy
<1>2. IdsOK' /\ ReqsOwn' /\ RoundsOwn' /\ ReqsApart' /\ SingleFlight'
  BY <1>1 DEF RoundInv, IdsOK, ReqsOwn, RoundsOwn, ReqsApart, SingleFlight, Owns, Stored
<1>3. RoundsFresh'
  <2> SUFFICES ASSUME ~ctxDone PROVE RoundsFresh'
    BY <1>1 DEF RoundsFresh
  <2>1. \A d \in Rounds : d.lastUpdated >= now' - UpdateFreq
    BY Zenon DEF Tick
  <2>2. /\ \A d \in Cur : d \in Rounds
        /\ \A i \in DOMAIN jobs : jobs[i] \in Rounds
        /\ \A w \in Busy : wDoc[w] \in Rounds
    BY DEF Rounds, Queued
  <2> QED
    BY <1>1, <2>1, <2>2 DEF RoundsFresh, Fresh
<1> QED
  BY <1>2, <1>3 DEF RoundInv

LEMMA CrashRounds == RoundInv /\ Crash => RoundInv'
  BY EmptySeq DEF Crash, RoundInv, IdsOK, ReqsOwn, RoundsOwn, ReqsApart, SingleFlight, RoundsFresh,
     Cur, Busy, Stored

LEMMA ListRounds == TypeInv /\ RoundInv /\ SelectPending => RoundInv'
<1> SUFFICES ASSUME TypeInv, RoundInv, SelectPending PROVE RoundInv'
  OBVIOUS
<1>1. UNCHANGED <<store, ctxDone, now, jobs, wDoc, Busy>> /\ Cur = {} /\ Cur' = {}
  BY DEF SelectPending, workerVars, Cur, Busy
<1>2. PICK ids \in Listings(now, Concurrency) : reqs' = [i \in DOMAIN ids |-> store[ids[i]]]
  BY DEF SelectPending
<1>3. /\ \A i \in DOMAIN ids : ids[i] \in Stale(now)
      /\ \A i, j \in DOMAIN ids : ids[i] = ids[j] => i = j
  <2>1. PICK n \in 0 .. Concurrency : ids \in [1 .. n -> Stale(now)] /\ IsListing(ids, now)
    BY <1>2 DEF Listings
  <2> QED
    BY <2>1, ConcurrencyNat DEF IsListing
<1>4. \A p \in Stale(now) : /\ Stored(p) /\ store[p].id = p /\ p \in Peers
                            /\ store[p].lastUpdated < now - UpdateFreq
  BY DEF Stale, RoundInv, IdsOK
<1>5. IdsOK' /\ RoundsOwn' /\ SingleFlight' /\ RoundsFresh'
  BY <1>1 DEF RoundInv, IdsOK, RoundsOwn, SingleFlight, RoundsFresh, Owns, Stored, Fresh
<1>6. ReqsOwn'
  BY <1>1, <1>2, <1>3, <1>4 DEF ReqsOwn, Owns, Stored
<1>7. ReqsApart'
  <2>1. \A d \in WorkDoc : Owns(d) /\ Fresh(d) => d.id \notin Stale(now)
    BY <1>4, UpdateFreqAssumption DEF Owns, Fresh, WorkDoc, Peer, TypeInv, MiscOK
  <2>2. /\ \A j \in DOMAIN jobs : jobs[j].id \notin Stale(now)
        /\ \A w \in Busy : wDoc[w].id \notin Stale(now)
    <3>1. ~ctxDone /\ Doc \subseteq WorkDoc
      BY DEF SelectPending, Doc
    <3> QED
      BY <2>1, <3>1, Documents DEF RoundInv, RoundsOwn, RoundsFresh
  <2> QED
    BY <1>1, <1>2, <1>3, <1>4, <2>2 DEF ReqsApart
<1> QED
  BY <1>5, <1>6, <1>7 DEF RoundInv

(* Writing an owned document leaves every other document its peer.         *)
LEMMA WriteOwned ==
  ASSUME TypeInv, NEW d \in WorkDoc, Update(d) \/ Delete(d) \/ UNCHANGED store,
         NEW e \in WorkDoc, Owns(e), e.id # d.id
  PROVE  store'[e.id] = store[e.id]
  BY DEF Update, Delete, TypeInv, StoreOK, WorkDoc, Peer, Owns

LEMMA WriteIds ==
  ASSUME TypeInv, IdsOK, NEW d \in WorkDoc, Update(d) \/ Delete(d) \/ UNCHANGED store
  PROVE  IdsOK'
  BY AbsentAssumption DEF Update, Delete, TypeInv, StoreOK, WorkDoc, Peer, IdsOK, Stored

LEMMA FirstRequest ==
  ASSUME TypeInv, reqs # <<>>
  PROVE  /\ Head(reqs) = reqs[1] /\ 1 \in DOMAIN reqs
         /\ DOMAIN Tail(reqs) = 1 .. Len(reqs) - 1
         /\ \A i \in DOMAIN Tail(reqs) : /\ Tail(reqs)[i] = reqs[i + 1]
                                         /\ i + 1 \in DOMAIN reqs /\ i + 1 # 1
  BY HeadTailProperties, LenProperties DEF TypeInv, SelOK

LEMMA StampRounds == TypeInv /\ RoundInv /\ (StampReq \/ StampFails) => RoundInv'
<1> SUFFICES ASSUME TypeInv, RoundInv, StampReq \/ StampFails PROVE RoundInv'
  OBVIOUS
<1> DEFINE r == Head(reqs)
           d == Stamped(r)
<1>1. /\ reqs # <<>> /\ reqs' = Tail(reqs)
      /\ UNCHANGED <<ctxDone, now, jobs, wDoc, Busy>> /\ Cur = {}
      /\ Update(d) \/ UNCHANGED store
  BY DEF StampReq, StampFails, workerVars, Cur, Busy
<1>2. /\ r \in Doc /\ d \in Doc /\ d.id = r.id /\ d.lastUpdated = now
      /\ Owns(r) /\ r = reqs[1] /\ 1 \in DOMAIN reqs
  <2>1. r \in Doc /\ r = reqs[1] /\ 1 \in DOMAIN reqs
    BY <1>1, FirstRequest, Documents
  <2>2. d.lastUpdated = now
    BY <2>1 DEF Stamped, Doc, WorkDoc, Peer
  <2> QED
    BY <2>1, <2>2, StampedDoc, Documents DEF RoundInv, ReqsOwn
<1> HIDE DEF r, d
<1>3. Doc \subseteq WorkDoc
  BY DEF Doc
<1>4. \A e \in WorkDoc : Owns(e) /\ e.id # r.id => store'[e.id] = store[e.id]
  BY <1>1, <1>2, <1>3, WriteOwned
<1>5. IdsOK'
  BY <1>1, <1>2, <1>3, WriteIds DEF RoundInv
<1>6. ReqsOwn' /\ ReqsApart'
  <2>1. \A i \in DOMAIN reqs' : /\ reqs'[i] = reqs[i + 1]
                                /\ i + 1 \in DOMAIN reqs /\ i + 1 # 1
                                /\ reqs'[i] \in WorkDoc /\ reqs'[i].id # r.id
    BY <1>1, <1>2, <1>3, FirstRequest, Documents DEF RoundInv, ReqsOwn
  <2>2. DOMAIN reqs' = 1 .. Len(reqs) - 1 /\ Len(reqs) \in Nat
    BY <1>1, FirstRequest, Documents
  <2>3. ReqsOwn'
    BY <1>4, <2>1, <2>2 DEF RoundInv, ReqsOwn, Owns, Stored
  <2>4. \A c \in Cur' : c.id = r.id
    BY <1>2 DEF StampReq, StampFails, Cur, d, r
  <2>5. ReqsApart'
    BY <1>1, <2>1, <2>4 DEF RoundInv, ReqsApart
  <2> QED
    BY <2>3, <2>5
<1>7. /\ \A i \in DOMAIN jobs : jobs[i].id # r.id /\ jobs[i] \in WorkDoc
      /\ \A w \in Busy : wDoc[w].id # r.id /\ wDoc[w] \in WorkDoc
  BY <1>2, <1>3, Documents DEF RoundInv, ReqsApart
<1>8. Cur' = {} \/ (Cur' = {d} /\ Update(d))
  BY DEF StampReq, StampFails, Cur, d, r
<1>9. RoundsOwn'
  <2>1. /\ \A i \in DOMAIN jobs : Owns(jobs[i])'
        /\ \A w \in Busy : Owns(wDoc[w])'
    BY <1>1, <1>4, <1>7 DEF RoundInv, RoundsOwn, Owns, Stored
  <2>2. Update(d) => store'[d.id] = d /\ d # Absent
    BY <1>2, AbsentAssumption
       DEF Update, Owns, Stored, TypeInv, StoreOK, Doc, WorkDoc, Peer
  <2>3. \A c \in Cur' : store'[c.id] # Absent /\ store'[c.id].lastUpdated = c.lastUpdated
    BY <1>8, <2>2
  <2> QED
    BY <1>1, <2>1, <2>3 DEF RoundsOwn, Owns, Stored
<1>10. SingleFlight'
  BY <1>1, <1>2, <1>7, <1>8 DEF RoundInv, SingleFlight
<1>11. RoundsFresh'
  <2>1. \A c \in Cur' : c.lastUpdated >= now' - UpdateFreq
    BY <1>1, <1>2, <1>8, UpdateFreqAssumption, Documents
  <2> QED
    BY <1>1, <2>1 DEF RoundInv, RoundsFresh, Fresh
<1> QED
  BY <1>5, <1>6, <1>9, <1>10, <1>11 DEF RoundInv

LEMMA SendRounds == TypeInv /\ RoundInv /\ SendJob => RoundInv'
<1> SUFFICES ASSUME TypeInv, RoundInv, SendJob PROVE RoundInv'
  OBVIOUS
<1>1. /\ UNCHANGED <<store, ctxDone, now, reqs, wDoc, Busy>>
      /\ Cur = {cur} /\ Cur' = {}
  BY DEF SendJob, workerVars, Cur, Busy
<1>2. /\ DOMAIN jobs' = 1 .. Len(jobs) + 1 /\ Len(jobs) \in Nat
      /\ \A i \in DOMAIN jobs' : \/ i \in DOMAIN jobs /\ jobs'[i] = jobs[i]
                                 \/ i = Len(jobs) + 1 /\ jobs'[i] = cur
      /\ DOMAIN jobs = 1 .. Len(jobs)
  BY Documents DEF SendJob, TypeInv, JobsOK
<1>3. IdsOK' /\ ReqsOwn'
  BY <1>1 DEF RoundInv, IdsOK, ReqsOwn, Owns, Stored
<1>4. RoundsOwn'
  BY <1>1, <1>2 DEF RoundInv, RoundsOwn, Owns, Stored
<1>5. ReqsApart'
  BY <1>1, <1>2 DEF RoundInv, ReqsApart
<1>6. SingleFlight'
  BY <1>1, <1>2 DEF RoundInv, SingleFlight
<1>7. RoundsFresh'
  BY <1>1, <1>2 DEF RoundInv, RoundsFresh, Fresh
<1> QED
  BY <1>3, <1>4, <1>5, <1>6, <1>7 DEF RoundInv

LEMMA TakeRounds ==
  ASSUME TypeInv, RoundInv, NEW w \in Workers, TakeJob(w)
  PROVE  RoundInv'
<1>1. /\ UNCHANGED <<store, ctxDone, now, reqs, Cur>>
      /\ Busy' = Busy \cup {w} /\ w \notin Busy
  BY DEF TakeJob, selVars, Goto, Cur, Busy, TypeInv, WorkersOK
<1>2. /\ wDoc'[w] = jobs[1] /\ 1 \in DOMAIN jobs
      /\ \A v \in Busy : wDoc'[v] = wDoc[v] /\ v # w
      /\ DOMAIN jobs' = 1 .. Len(jobs) - 1 /\ Len(jobs) \in Nat /\ DOMAIN jobs = 1 .. Len(jobs)
      /\ \A i \in DOMAIN jobs' : jobs'[i] = jobs[i + 1] /\ i + 1 \in DOMAIN jobs /\ i + 1 # 1
  <2>1. jobs # <<>> /\ jobs' = Tail(jobs) /\ Hold(w, Head(jobs))
    BY DEF TakeJob
  <2>2. jobs \in Seq(Doc) /\ wDoc \in [Workers -> WorkDoc \cup {Absent}]
    BY DEF TypeInv, JobsOK, WorkersOK
  <2>3. Head(jobs) = jobs[1] /\ 1 \in DOMAIN jobs
    BY <2>1, <2>2, LenProperties
  <2>4. \A v \in Busy : wDoc'[v] = wDoc[v] /\ v # w
    BY <1>1, <2>1, <2>2 DEF Hold, Busy
  <2> QED
    BY <2>1, <2>2, <2>3, <2>4, HeadTailProperties, LenProperties DEF Hold
<1>3. IdsOK' /\ ReqsOwn'
  BY <1>1 DEF RoundInv, IdsOK, ReqsOwn, Owns, Stored
<1>4. RoundsOwn'
  BY <1>1, <1>2 DEF RoundInv, RoundsOwn, Owns, Stored
<1>5. ReqsApart'
  BY <1>1, <1>2 DEF RoundInv, ReqsApart
<1>6. SingleFlight'
  <2>1. \A i, j \in DOMAIN jobs' : jobs'[i].id = jobs'[j].id => i = j
    BY <1>2 DEF RoundInv, SingleFlight
  <2>2. \A u, v \in Busy' : wDoc'[u].id = wDoc'[v].id => u = v
    BY <1>1, <1>2 DEF RoundInv, SingleFlight
  <2>3. \A i \in DOMAIN jobs' : \A v \in Busy' : jobs'[i].id # wDoc'[v].id
    BY <1>1, <1>2 DEF RoundInv, SingleFlight
  <2>4. \A d \in Cur' : /\ \A i \in DOMAIN jobs' : jobs'[i].id # d.id
                        /\ \A v \in Busy' : wDoc'[v].id # d.id
    BY <1>1, <1>2 DEF RoundInv, SingleFlight
  <2> QED
    BY <2>1, <2>2, <2>3, <2>4 DEF SingleFlight
<1>7. RoundsFresh'
  BY <1>1, <1>2 DEF RoundInv, RoundsFresh, Fresh
<1> QED
  BY <1>3, <1>4, <1>5, <1>6, <1>7 DEF RoundInv

LEMMA WriteRounds ==
  ASSUME TypeInv, RoundInv, NEW w \in Workers, WritePeer(w)
  PROVE  RoundInv'
<1> DEFINE d == wDoc[w]
<1>1. /\ UNCHANGED <<ctxDone, now, reqs, jobs, Cur>>
      /\ Busy' = Busy \ {w} /\ w \in Busy
      /\ \A v \in Busy' : wDoc'[v] = wDoc[v]
      /\ Update(d) \/ Delete(d) \/ UNCHANGED store
  BY DEF WritePeer, selVars, Goto, Hold, Recorded, Cur, Busy, TypeInv, WorkersOK
<1>2. d \in WorkDoc /\ Doc \subseteq WorkDoc
  BY <1>1, Documents DEF Doc
<1>3. \A e \in WorkDoc : Owns(e) /\ e.id # d.id => store'[e.id] = store[e.id]
  BY <1>1, <1>2, WriteOwned
<1>4. IdsOK'
  BY <1>1, <1>2, WriteIds DEF RoundInv
<1>5. ReqsOwn'
  <2>1. \A i \in DOMAIN reqs : reqs[i].id # d.id /\ reqs[i] \in WorkDoc
    BY <1>1, <1>2, Documents DEF RoundInv, ReqsApart
  <2> QED
    BY <1>1, <1>3, <2>1 DEF RoundInv, ReqsOwn, Owns, Stored
<1>6. RoundsOwn'
  <2>1. /\ \A i \in DOMAIN jobs : jobs[i].id # d.id /\ jobs[i] \in WorkDoc
        /\ \A v \in Busy' : wDoc[v].id # d.id /\ wDoc[v] \in WorkDoc
        /\ \A c \in Cur : c.id # d.id /\ c \in WorkDoc
    BY <1>1, <1>2, Documents DEF RoundInv, SingleFlight
  <2> QED
    BY <1>1, <1>3, <2>1 DEF RoundInv, RoundsOwn, Owns, Stored
<1>7. ReqsApart' /\ SingleFlight'
  BY <1>1 DEF RoundInv, ReqsApart, SingleFlight
<1>8. RoundsFresh'
  BY <1>1 DEF RoundInv, RoundsFresh, Fresh
<1> QED
  BY <1>4, <1>5, <1>6, <1>7, <1>8 DEF RoundInv
-----------------------------------------------------------------------------
LEMMA RoundInvNext == Timely /\ TypeInv /\ RoundInv /\ [Next]_vars => RoundInv'
<1> SUFFICES ASSUME Timely, TypeInv, RoundInv, [Next]_vars PROVE RoundInv'
  OBVIOUS
<1>1. CASE Discovery
  BY <1>1, InsertRounds, FrameRounds DEF Discovery
<1>2. CASE Selector
  BY <1>2, ListRounds, StampRounds, SendRounds, FrameRounds DEF Selector
<1>3. ASSUME NEW w \in Workers, Worker(w) PROVE RoundInv'
  BY <1>3, TakeRounds, WriteRounds, TrialRounds DEF Worker
<1>4. CASE Writer
  BY <1>4, FrameRounds
<1>5. CASE Environment
  BY <1>5, TickRounds, CrashRounds, FrameRounds DEF Environment
<1>6. CASE UNCHANGED vars
  BY <1>6, RoundInvFrame DEF vars, selVars, workerVars, Cur, Busy
<1> QED
  BY <1>1, <1>2, <1>3, <1>4, <1>5, <1>6 DEF Next

LEMMA RoundInvAlways == ASSUME Timely PROVE Spec => [](TypeInv /\ RoundInv)
<1>1. Init => TypeInv /\ RoundInv
  BY TypeInvInit, RoundInvInit
<1>2. TypeInv /\ RoundInv /\ [Next]_vars => (TypeInv /\ RoundInv)'
  BY TypeInvNext, RoundInvNext
<1> QED
  BY <1>1, <1>2, PTL DEF Spec

(* While rounds end in time, no peer is in two rounds at once, whatever    *)
(* the number of peers and workers, over store errors, restarts and the    *)
(* shutdown.                                                               *)
THEOREM NoOverlap == ASSUME Timely PROVE Spec => []SingleFlight
<1>1. RoundInv => SingleFlight
  BY DEF RoundInv
<1> QED
  BY <1>1, RoundInvAlways, PTL

(* Nothing but its own round changes or deletes a peer that is in one.     *)
THEOREM RoundsKeepPeers == ASSUME Timely PROVE Spec => []RoundOwnsPeer
<1>1. RoundInv => RoundOwnsPeer
  BY DEF RoundInv, RoundsOwn, RoundOwnsPeer, Rounds, Queued, Owns
<1> QED
  BY <1>1, RoundInvAlways, PTL

-----------------------------------------------------------------------------
(* The end of the process *)

(* Once the context is cancelled these guards let a goroutine go on.  The  *)
(* sleep of the selector passes with the clock, a worker in rpc goes on    *)
(* with the remote node's answer; discovery, which nobody waits for, and   *)
(* the receives of a closed channel are left out.                          *)
SelectorGoesOn ==
  \/ selPc \in {"check", "stamp", "select", "sleep"}
  \/ selPc = "send" /\ Len(jobs) < Concurrency
  \/ selPc = "wait" /\ \A w \in Workers : wPc[w] = "exited"

WorkerGoesOn(w) ==
  \/ wPc[w] \in {"idle", "retry", "rpc", "write"}
  \/ wPc[w] = "emit" /\ Len(workchan) < WorkChanCap

OutputGoesOn ==
  \/ outPc = "run"
  \/ outPc = "drain" /\ (workchan # <<>> \/ closed)

SomeoneGoesOn == SelectorGoesOn \/ OutputGoesOn \/ \E w \in Workers : WorkerGoesOn(w)

Ended == selPc = "done" /\ outPc = "done" /\ \A w \in Workers : wPc[w] = "exited"

(* The selector sends to a full queue that nobody reads any more.          *)
Hangs ==
  selPc = "send" /\ Len(jobs) = Concurrency /\ \A w \in Workers : wPc[w] = "exited"

(* The shutdown comes to a stop at its end or in the selector's send to    *)
(* the jobs channel, and nowhere else (crawl.go, 250; crawl.go, 203-217,   *)
(* 262-270; file.go, 68-95).                                               *)
StopsOnlyInSend == ctxDone => Ended \/ Hangs \/ SomeoneGoesOn

(* There it stops for ever: the context is not looked at any more          *)
(* (crawl.go, 243-251).                                                    *)
HangsForGood == [][Hangs /\ crashes' = crashes => Hangs']_vars

(* A send finds a place in the queue (crawl.go, 91, 250).                 *)
SendFindsRoom == selPc = "send" => Len(jobs) < Concurrency

LEMMA SelectorOrQueue ==
  ASSUME TypeInv, EndInv, \A w \in Workers : wPc[w] = "exited"
  PROVE  SelectorGoesOn \/ Hangs \/ closed
<1>1. selPc \in {"check", "stamp", "select", "send", "sleep", "wait", "done"}
  BY DEF TypeInv, SelOK
<1>2. CASE selPc = "send"
  <2>1. Len(jobs) \in Nat /\ Len(jobs) <= Concurrency
    BY Documents DEF TypeInv, JobsOK
  <2>2. Len(jobs) < Concurrency \/ Len(jobs) = Concurrency
    BY <2>1, ConcurrencyNat
  <2> QED
    BY <1>2, <2>2 DEF SelectorGoesOn, Hangs
<1>3. CASE selPc = "done"
  BY <1>3 DEF EndInv
<1> QED
  BY <1>1, <1>2, <1>3 DEF SelectorGoesOn

LEMMA WorkerOrOutput ==
  ASSUME WorkChanCap > 0, TypeInv, EndInv, NEW w \in Workers, wPc[w] # "exited"
  PROVE  WorkerGoesOn(w) \/ OutputGoesOn
<1>1. wPc[w] \in {"idle", "retry", "rpc", "emit", "write"}
  BY DEF TypeInv, WorkersOK
<1>2. CASE wPc[w] = "emit" /\ ~(Len(workchan) < WorkChanCap)
  <2>1. workchan # <<>>
    BY <1>2, EmptySeq
  <2>2. outPc \in {"run", "drain"}
    BY <2>1 DEF EndInv, TypeInv, OutOK
  <2> QED
    BY <2>1, <2>2 DEF OutputGoesOn
<1> QED
  BY <1>1, <1>2 DEF WorkerGoesOn

(* A shutdown that has not ended can go on or stands in the selector's     *)
(* send: no other wait of the goroutines for each other can become a       *)
(* deadlock, whatever the write channel's capacity (crawl.go, 203-217,     *)
(* 243-270; file.go, 58-95).                                               *)
THEOREM OnlySendStops == ASSUME WorkChanCap > 0 PROVE Spec => []StopsOnlyInSend
<1>1. ASSUME TypeInv, EndInv PROVE StopsOnlyInSend
  <2>1. CASE \E w \in Workers : wPc[w] # "exited"
    BY <1>1, <2>1, WorkerOrOutput DEF StopsOnlyInSend, SomeoneGoesOn
  <2>2. CASE \A w \in Workers : wPc[w] = "exited"
    <3>1. CASE closed
      <4>1. selPc = "done"
        BY <1>1, <3>1 DEF EndInv
      <4>2. outPc \in {"run", "drain", "done"}
        BY <1>1 DEF TypeInv, OutOK
      <4> QED
        BY <2>2, <3>1, <4>1, <4>2 DEF StopsOnlyInSend, SomeoneGoesOn, OutputGoesOn, Ended
    <3>2. CASE ~closed
      BY <1>1, <2>2, <3>2, SelectorOrQueue DEF StopsOnlyInSend, SomeoneGoesOn
    <3> QED
      BY <3>1, <3>2
  <2> QED
    BY <2>1, <2>2
<1> QED
  BY <1>1, TypeInvAlways, EndAlways, PTL

(* A selector that stands in a send to a queue that nobody reads any more  *)
(* stands there until the process is killed: wg.Wait of main never returns *)
(* (crawl.go, 250).                                                        *)
THEOREM SendHangsForGood == Spec => HangsForGood
<1>1. ASSUME TypeInv, [Next]_vars, Hangs, crashes' = crashes PROVE Hangs'
  <2> USE <1>1 DEF Hangs, selVars, workerVars, outVars
  <2>1. crashes \in Nat /\ Len(jobs) = Concurrency /\ Concurrency \in Nat
    BY ConcurrencyNat DEF TypeInv, MiscOK
  <2>2. CASE Discovery
    BY <2>2 DEF Discovery, Discover, InsertPeer, StopDiscovery, Concurrency
  <2>3. CASE Selector
    <3>1. ~SendJob
      BY <2>1 DEF SendJob
    <3> QED
      BY <2>3, <3>1 DEF Selector, SelectPending, EndCycle, StampReq, StampFails,
                        SelectCancelled, SelectDefault, Wake, BeginWait, CloseWorkChan
  <2>4. ASSUME NEW w \in Workers, Worker(w)
        PROVE  FALSE
    BY <2>4 DEF Worker, TakeJob, GiveUp, DialFails, DialRefused, DialOk, Dial, Rpc, RpcFails,
                RpcOk, EmitOutput, WritePeer, WorkerExit
  <2>5. CASE Writer
    BY <2>5 DEF Writer, Concurrency
  <2>6. CASE Environment
    <3>1. ~Crash
      BY <2>1 DEF Crash
    <3> QED
      BY <2>6, <3>1 DEF Environment, Tick, Cancel, Concurrency
  <2>7. CASE UNCHANGED vars
    BY <2>7 DEF vars, Concurrency
  <2> QED
    BY <2>2, <2>3, <2>4, <2>5, <2>6, <2>7 DEF Next
<1> QED
  BY <1>1, TypeInvAlways, PTL DEF Spec, HangsForGood

(* The documents in the queue and the one to be sent are of as many peers. *)
LEMMA QueueOfPeers ==
  ASSUME TypeInv, SingleFlight, IsFiniteSet(Peers), selPc = "send"
  PROVE  Len(jobs) < Cardinality(Peers)
<1> DEFINE f == [i \in 1 .. Len(jobs) |-> jobs[i].id]
<1> DEFINE Others == Peers \ {cur.id}
<1>1. Len(jobs) \in Nat /\ DOMAIN jobs = 1 .. Len(jobs) /\ \A i \in DOMAIN jobs : jobs[i] \in Doc
  BY Documents
<1>2. Cur = {cur} /\ cur \in Doc
  BY DEF Cur, TypeInv, SelOK
<1>3. \A d \in Doc : d.id \in Peers
  BY DEF Doc, WorkDoc, Peer
<1>4. \A i \in 1 .. Len(jobs) : jobs[i].id \in Others
  BY <1>1, <1>2, <1>3 DEF SingleFlight
<1>5. \A i, j \in 1 .. Len(jobs) : jobs[i].id = jobs[j].id => i = j
  BY <1>1 DEF SingleFlight
<1>6. f \in Injection(1 .. Len(jobs), Others)
  <2> HIDE DEF Others
  <2>1. f \in [1 .. Len(jobs) -> Others]
    BY <1>4
  <2>2. \A i, j \in 1 .. Len(jobs) : f[i] = f[j] => i = j
    BY <1>5
  <2> HIDE DEF f
  <2> QED
    BY <2>1, <2>2 DEF Injection, IsInjective
<1>7. IsFiniteSet(Others) /\ Cardinality(Others) = Cardinality(Peers) - 1
  BY <1>2, <1>3, FS_RemoveElement
<1>8. Cardinality(1 .. Len(jobs)) <= Cardinality(Others)
  <2> HIDE DEF f, Others
  <2> QED
    BY <1>6, <1>7, FS_Injection
<1>9. Cardinality(1 .. Len(jobs)) = Len(jobs)
  <2>1. Cardinality(1 .. Len(jobs)) = IF 1 > Len(jobs) THEN 0 ELSE Len(jobs) - 1 + 1
    BY <1>1, FS_Interval
  <2> QED
    BY <1>1, <2>1
<1>10. Cardinality(Peers) \in Nat
  BY FS_CardinalityType
<1> HIDE DEF f, Others
<1> QED
  BY <1>1, <1>7, <1>8, <1>9, <1>10

(* With no more peers than workers, and rounds that end in time, the send  *)
(* to the jobs channel never blocks (crawl.go, 91, 250).                  *)
THEOREM QueueHoldsPeers ==
  ASSUME Timely, IsFiniteSet(Peers), Cardinality(Peers) <= Cardinality(Workers)
  PROVE  Spec => []SendFindsRoom
<1>1. ASSUME TypeInv, RoundInv PROVE SendFindsRoom
  <2> SUFFICES ASSUME selPc = "send" PROVE Len(jobs) < Concurrency
    BY DEF SendFindsRoom
  <2>1. Len(jobs) < Cardinality(Peers)
    BY <1>1, QueueOfPeers DEF RoundInv
  <2>2. Len(jobs) \in Nat /\ Cardinality(Peers) \in Nat
    BY <1>1, Documents, FS_CardinalityType
  <2> QED
    BY <2>1, <2>2, ConcurrencyNat DEF Concurrency
<1> QED
  BY <1>1, RoundInvAlways, PTL

(* So their shutdown always ends or can go on: the hang needs more peers   *)
(* than workers, or rounds that outlive their peer's turn.                 *)
THEOREM FewPeersNeverStuck ==
  ASSUME Timely, WorkChanCap > 0, IsFiniteSet(Peers), Cardinality(Peers) <= Cardinality(Workers)
  PROVE  Spec => [](ctxDone => Ended \/ SomeoneGoesOn)
<1>1. TypeInv /\ StopsOnlyInSend /\ SendFindsRoom => (ctxDone => Ended \/ SomeoneGoesOn)
  BY ConcurrencyNat DEF StopsOnlyInSend, SendFindsRoom, Hangs
<1> QED
  BY <1>1, TypeInvAlways, OnlySendStops, QueueHoldsPeers, PTL
=============================================================================
