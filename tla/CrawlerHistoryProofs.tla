----------------------- MODULE CrawlerHistoryProofs ------------------------
(***************************************************************************)
(* The crawler implements PeerTracker.  The argument: until its round ends *)
(* a copy has the score that the store has, or the round is lost or won,   *)
(* and the history knows.  Since rounds do not overlap, the store's score  *)
(* cannot move away under a copy.  And the UUIDs of what is emitted are    *)
(* unique, whether rounds end in time or not.                              *)
(***************************************************************************)
EXTENDS CrawlerProofs

(* What PeerTracker sees of a peer, and the copies that agree with it.     *)
Standing(p) == IF Stored(p) THEN store[p].score ELSE 0

Same(d) == d.score = Standing(d.id)

Counted == \A p \in Peers : Standing(p) > 0 => ScoreGood - Standing(p) <= misses[p]

Refused(d) == misses[d.id] = ScoreGood

(* The copy that a worker holds.                                           *)
Held(w) ==
  /\ wPc[w] \in {"retry", "rpc"} =>
       Same(wDoc[w]) \/ (wDoc[w].score = ScoreBad /\ Refused(wDoc[w]))
  /\ wPc[w] = "emit" => wDoc[w].score = ScoreGood
  /\ wPc[w] = "write" =>
       \/ wDoc[w].score = ScoreGood
       \/ /\ wDoc[w].score = Standing(wDoc[w].id) - 1
          /\ ScoreGood - wDoc[w].score <= misses[wDoc[w].id]
       \/ wDoc[w].score = ScoreBad - 1 /\ Refused(wDoc[w])

ReqsSame == \A i \in DOMAIN reqs : Same(reqs[i])
CurSame  == \A d \in Cur : Same(d)
JobsSame == \A i \in DOMAIN jobs : Same(jobs[i])
AllHeld  == \A w \in Busy : Held(w)

HistInv == Counted /\ ReqsSame /\ CurSame /\ JobsSame /\ AllHeld

(* A step of the tracker, or one that it does not see.                     *)
TrackerStep == [Tracker!TrackerNext]_(Tracker!TrackerVars)
-----------------------------------------------------------------------------
LEMMA StandingType ==
  ASSUME TypeInv
  PROVE  /\ \A p \in Peers : /\ Standing(p) \in 0 .. ScoreGood
                             /\ Stored(p) <=> Standing(p) > 0
         /\ misses \in [Peers -> 0 .. ScoreGood]
  BY DEF TypeInv, StoreOK, MiscOK, Standing, Stored, Doc, WorkDoc, Peer, ScoreGood, ScoreBad

LEMMA HistInit == Init => HistInv
  BY EmptySeq DEF Init, StoreInit, OutputInit, HistInv, Counted, ReqsSame, CurSame, JobsSame,
     AllHeld, Standing, Stored, Cur, Busy

(* A step that moves no standing is none of the tracker's.                 *)
LEMMA NotSeen ==
  ASSUME \A p \in Peers : Standing(p)' = Standing(p), misses' = misses
  PROVE  TrackerStep
<1>1. [p \in Peers |-> Standing(p)]' = [p \in Peers |-> Standing(p)]
  OBVIOUS
<1> QED
  BY <1>1, Zenon DEF TrackerStep, Tracker!TrackerVars, Standing

(* Steps that move no standing, no copy and no worker that holds one.      *)
LEMMA HistFrame ==
  ASSUME HistInv,
         \A p \in Peers : Standing(p)' = Standing(p), misses' = misses,
         TypeInv, jobs' = jobs, reqs' = reqs \/ reqs' = <<>>, Cur' \subseteq Cur,
         Busy' \subseteq Busy,
         \A w \in Busy : w \in Busy' => wDoc'[w] = wDoc[w] /\ wPc'[w] = wPc[w]
  PROVE  HistInv' /\ TrackerStep
<1>1. /\ \A i \in DOMAIN reqs : reqs[i].id \in Peers
      /\ \A d \in Cur : d.id \in Peers
      /\ \A i \in DOMAIN jobs : jobs[i].id \in Peers
      /\ \A w \in Busy : wDoc[w].id \in Peers
  BY Documents DEF Doc, WorkDoc, Peer
<1>2. Counted'
  BY DEF HistInv, Counted
<1>3. ReqsSame' /\ CurSame' /\ JobsSame'
  BY <1>1 DEF HistInv, ReqsSame, CurSame, JobsSame, Same
<1>4. AllHeld'
  BY <1>1 DEF HistInv, AllHeld, Held, Same, Refused
<1> QED
  BY <1>2, <1>3, <1>4, NotSeen DEF HistInv
-----------------------------------------------------------------------------
(* The steps that record nothing and end no round.                         *)
LEMMA QuietHistory ==
  ASSUME TypeInv, HistInv,
         \/ \E p \in Peers : Discover(p)
         \/ StopDiscovery \/ Writer \/ Cancel \/ Tick \/ Crash
         \/ Wake \/ BeginWait \/ CloseWorkChan \/ SelectDefault
         \/ EndCycle \/ SelectCancelled \/ \E w \in Workers : WorkerExit(w)
  PROVE  HistInv' /\ TrackerStep
<1> USE HistFrame DEF selVars, workerVars, Standing, Stored
<1>1. CASE (\E p \in Peers : Discover(p)) \/ StopDiscovery \/ Writer \/ Cancel \/ Tick
  BY <1>1 DEF Discover, StopDiscovery, Writer, OutputStep, Receive, ReceiveClosed, StartDrain,
              Drain, FinishDrain, Cancel, Tick, Cur, Busy
<1>2. CASE Wake \/ BeginWait \/ CloseWorkChan \/ SelectDefault
  BY <1>2 DEF Wake, BeginWait, CloseWorkChan, SelectDefault, Cur, Busy
<1>3. CASE EndCycle \/ SelectCancelled
  BY <1>3 DEF EndCycle, SelectCancelled, Sleep, Cur, Busy
<1>4. CASE \E w \in Workers : WorkerExit(w)
  <2>1. PICK w \in Workers : WorkerExit(w)
    BY <1>4
  <2>2. UNCHANGED <<store, misses, jobs, reqs, Cur, wDoc>>
    BY <2>1 DEF WorkerExit, Cur
  <2>3. Busy' \subseteq Busy /\ \A v \in Busy : wPc'[v] = wPc[v]
    BY <2>1 DEF WorkerExit, Goto, Busy, TypeInv, WorkersOK
  <2> QED
    BY <2>2, <2>3
<1>5. CASE Crash
  <2>1. /\ UNCHANGED <<store, misses>> /\ Cur' = {} /\ Busy' = {}
        /\ reqs' = <<>> /\ jobs' = <<>>
    BY <1>5 DEF Crash, Cur, Busy
  <2>2. HistInv'
    BY <2>1, EmptySeq DEF HistInv, Counted, ReqsSame, CurSame, JobsSame, AllHeld
  <2> QED
    BY <2>1, <2>2, NotSeen
<1> QED
  BY <1>1, <1>2, <1>3, <1>4, <1>5

LEMMA InsertHistory ==
  ASSUME TypeInv, RoundInv, HistInv, InsertPeer
  PROVE  HistInv' /\ TrackerStep
<1>1. PICK p \in Peers : p = discPeer
  BY DEF InsertPeer, TypeInv, DiscOK
<1>2. UNCHANGED <<jobs, reqs, Cur, Busy, wDoc, wPc>>
  BY DEF InsertPeer, selVars, workerVars, Cur, Busy
<1>3. CASE store' = store
  BY <1>2, <1>3, HistFrame DEF InsertPeer, Standing, Stored
<1>4. CASE store' # store
  <2>1. /\ ~Stored(p) /\ store' = [store EXCEPT ![p] = NewPeer(p)]
        /\ misses' = [misses EXCEPT ![p] = 0]
    BY <1>1, <1>4 DEF InsertPeer, InsertOne, NewPeer
  <2>2. /\ Standing(p) = 0 /\ Standing(p)' = ScoreGood
        /\ misses'[p] = 0
        /\ \A q \in Peers : q # p => Standing(q)' = Standing(q) /\ misses'[q] = misses[q]
    <3>1. store'[p] = NewPeer(p) /\ NewPeer(p) # Absent
      BY <1>1, <2>1, NewPeerDoc, AbsentAssumption DEF TypeInv, StoreOK, Doc, WorkDoc
    <3>2. Standing(p) = 0 /\ Standing(p)' = ScoreGood
      BY <2>1, <3>1 DEF Standing, Stored, NewPeer
    <3>3. misses'[p] = 0
      BY <1>1, <2>1, StandingType
    <3>4. ASSUME NEW q \in Peers, q # p
          PROVE  Standing(q)' = Standing(q) /\ misses'[q] = misses[q]
      BY <2>1, <3>4, StandingType DEF TypeInv, StoreOK, Standing, Stored
    <3> QED
      BY <3>2, <3>3, <3>4
  <2>3. Counted'
    BY <1>1, <2>2 DEF HistInv, Counted, ScoreGood
  <2>4. \A d \in WorkDoc : Owns(d) => d.id \in Peers /\ d.id # p
    BY <2>1 DEF Owns, WorkDoc, Peer
  <2>5. ReqsSame' /\ CurSame' /\ JobsSame'
    BY <1>2, <2>2, <2>4, Documents
    DEF HistInv, RoundInv, ReqsOwn, RoundsOwn, ReqsSame, CurSame, JobsSame, Same, Doc
  <2>6. AllHeld'
    BY <1>2, <2>2, <2>4, Documents DEF HistInv, RoundInv, RoundsOwn, AllHeld, Held, Same, Refused
  <2>7. Tracker!Track(p)
    <3>1. [q \in Peers |-> Standing(q)]' = [[q \in Peers |-> Standing(q)]
                                            EXCEPT ![p] = ScoreGood]
      BY <1>1, <2>2
    <3> QED
      BY <1>1, <2>1, <2>2, <3>1 DEF Tracker!Track, Tracker!Chances, Standing
  <2>8. Tracker!TrackerNext
    BY <1>1, <2>7, Zenon DEF Tracker!TrackerNext
  <2> QED
    BY <2>3, <2>5, <2>6, <2>8 DEF HistInv, TrackerStep
<1> QED
  BY <1>3, <1>4

LEMMA ListHistory ==
  ASSUME TypeInv, RoundInv, HistInv, SelectPending
  PROVE  HistInv' /\ TrackerStep
<1>1. UNCHANGED <<store, misses, jobs, wDoc, wPc, Busy>> /\ Cur' = {}
  BY DEF SelectPending, workerVars, Cur, Busy
<1>2. PICK ids \in Listings(now, Concurrency) : reqs' = [i \in DOMAIN ids |-> store[ids[i]]]
  BY DEF SelectPending
<1>3. \A i \in DOMAIN ids : Stored(ids[i]) /\ store[ids[i]].id = ids[i]
  <2>1. PICK n \in 0 .. Concurrency : ids \in [1 .. n -> Stale(now)]
    BY <1>2 DEF Listings
  <2> QED
    BY <2>1 DEF Stale, RoundInv, IdsOK
<1>4. ReqsSame'
  BY <1>1, <1>2, <1>3 DEF ReqsSame, Same, Standing, Stored
<1>5. Counted' /\ CurSame' /\ JobsSame' /\ AllHeld'
  BY <1>1 DEF HistInv, Counted, CurSame, JobsSame, AllHeld, Held, Same, Refused, Standing, Stored
<1> QED
  BY <1>1, <1>4, <1>5, NotSeen DEF HistInv, Standing, Stored

(* The stamp of a document keeps its score, and so the standing.           *)
LEMMA StampHistory ==
  ASSUME TypeInv, RoundInv, HistInv, StampReq \/ StampFails
  PROVE  HistInv' /\ TrackerStep
<1> DEFINE d == Stamped(Head(reqs))
<1>1. reqs # <<>> /\ (Update(d) \/ UNCHANGED store) /\ reqs' = Tail(reqs)
      /\ UNCHANGED <<misses, jobs, wDoc, wPc, Busy>>
  BY DEF StampReq, StampFails, workerVars, Busy
<1>2. /\ 1 \in DOMAIN reqs /\ Head(reqs) = reqs[1] /\ reqs[1] \in Doc
      /\ DOMAIN Tail(reqs) = 1 .. Len(reqs) - 1
      /\ \A i \in DOMAIN Tail(reqs) : Tail(reqs)[i] = reqs[i + 1] /\ i + 1 \in DOMAIN reqs
  BY <1>1, FirstRequest, Documents
<1>3. d \in Doc /\ d.id = reqs[1].id /\ d.score = reqs[1].score
  BY <1>2, StampedDoc DEF Stamped, Doc, WorkDoc, Peer, TypeInv, MiscOK
<1>4. Same(reqs[1]) /\ d.id \in Peers
  BY <1>2, <1>3 DEF HistInv, ReqsSame, Doc, WorkDoc, Peer
<1>5. \A p \in Peers : Standing(p)' = Standing(p)
  <2>1. CASE UNCHANGED store
    BY <2>1 DEF Standing, Stored
  <2>2. CASE Update(d)
    <3>1. CASE Stored(d.id)
      <4>1. d # Absent /\ store' = [store EXCEPT ![d.id] = d]
        BY <1>3, <2>2, <3>1, AbsentAssumption DEF Update, Doc, WorkDoc
      <4>2. Standing(d.id) = d.score
        BY <1>3, <1>4 DEF Same
      <4> QED
        BY <1>4, <3>1, <4>1, <4>2 DEF Standing, Stored, TypeInv, StoreOK
    <3>2. CASE ~Stored(d.id)
      BY <2>2, <3>2 DEF Update, Standing, Stored
    <3> QED
      BY <3>1, <3>2
  <2> QED
    BY <1>1, <2>1, <2>2
<1>6. \A e \in WorkDoc : e.id \in Peers
  BY DEF WorkDoc, Peer
<1>7. ReqsSame'
  <2>1. \A i \in DOMAIN Tail(reqs) : Same(Tail(reqs)[i]) /\ Tail(reqs)[i].id \in Peers
    BY <1>2, <1>6, Documents DEF HistInv, ReqsSame, Doc
  <2> QED
    BY <1>1, <1>5, <2>1 DEF ReqsSame, Same
<1>8. CurSame'
  <2>1. \A e \in Cur' : e.id \in Peers /\ e.score = Standing(e.id)
    BY <1>3, <1>4 DEF StampReq, StampFails, Cur, Same
  <2> QED
    BY <1>5, <2>1 DEF CurSame, Same
<1>9. Counted' /\ JobsSame' /\ AllHeld'
  <2>1. Counted'
    BY <1>1, <1>5 DEF HistInv, Counted
  <2>2. JobsSame'
    BY <1>1, <1>5, <1>6, Documents DEF HistInv, JobsSame, Same, Doc
  <2>3. AllHeld'
    BY <1>1, <1>5, <1>6, Documents DEF HistInv, AllHeld, Held, Same, Refused
  <2> QED
    BY <2>1, <2>2, <2>3
<1> QED
  BY <1>1, <1>5, <1>7, <1>8, <1>9, NotSeen DEF HistInv

LEMMA SendHistory ==
  ASSUME TypeInv, HistInv, SendJob
  PROVE  HistInv' /\ TrackerStep
<1>1. /\ UNCHANGED <<store, misses, reqs, wDoc, wPc, Busy>> /\ Cur' = {} /\ cur \in Cur
      /\ jobs' = Append(jobs, cur)
  BY DEF SendJob, workerVars, Cur, Busy
<1>2. \A p : Standing(p)' = Standing(p)
  BY <1>1 DEF Standing, Stored
<1>3. /\ DOMAIN jobs = 1 .. Len(jobs) /\ DOMAIN jobs' = 1 .. Len(jobs) + 1
      /\ \A i \in 1 .. Len(jobs) : jobs'[i] = jobs[i]
      /\ jobs'[Len(jobs) + 1] = cur /\ Len(jobs) \in Nat
  <2>1. jobs \in Seq(Doc) /\ cur \in Doc
    BY <1>1, Documents DEF TypeInv, JobsOK
  <2> QED
    BY <1>1, <2>1, AppendProperties, LenProperties
<1>4. JobsSame'
  <2>1. \A i \in DOMAIN jobs' : Same(jobs'[i])
    BY <1>1, <1>3 DEF HistInv, JobsSame, CurSame
  <2> QED
    BY <1>2, <2>1 DEF JobsSame, Same
<1>5. Counted' /\ ReqsSame' /\ CurSame' /\ AllHeld'
  BY <1>1, <1>2 DEF HistInv, Counted, ReqsSame, CurSame, AllHeld, Held, Same, Refused
<1> QED
  BY <1>1, <1>2, <1>4, <1>5, NotSeen DEF HistInv

LEMMA TakeHistory ==
  ASSUME TypeInv, HistInv, NEW w \in Workers, TakeJob(w)
  PROVE  HistInv' /\ TrackerStep
<1>1. /\ UNCHANGED <<store, misses, reqs, Cur>> /\ jobs # <<>> /\ jobs' = Tail(jobs)
      /\ Busy' = Busy \cup {w} /\ w \notin Busy
      /\ wDoc'[w] = Head(jobs) /\ wPc'[w] = "retry"
      /\ \A v \in Busy : wDoc'[v] = wDoc[v] /\ wPc'[v] = wPc[v]
  BY DEF TakeJob, selVars, Goto, Hold, Cur, Busy, TypeInv, WorkersOK
<1>2. \A p : Standing(p)' = Standing(p)
  BY <1>1 DEF Standing, Stored
<1>3. /\ Head(jobs) = jobs[1] /\ 1 \in DOMAIN jobs
      /\ \A i \in DOMAIN Tail(jobs) : Tail(jobs)[i] = jobs[i + 1] /\ i + 1 \in DOMAIN jobs
  BY <1>1, HeadTailProperties, LenProperties DEF TypeInv, JobsOK
<1>4. JobsSame'
  BY <1>1, <1>2, <1>3 DEF HistInv, JobsSame, Same
<1>5. Held(w)'
  BY <1>1, <1>2, <1>3 DEF HistInv, JobsSame, Held, Same
<1>6. \A v \in Busy : Held(v)'
  BY <1>1, <1>2 DEF HistInv, AllHeld, Held, Same, Refused
<1>7. Counted' /\ ReqsSame' /\ CurSame'
  BY <1>1, <1>2 DEF HistInv, Counted, ReqsSame, CurSame, Same
<1> QED
  BY <1>1, <1>2, <1>4, <1>5, <1>6, <1>7, NotSeen DEF HistInv, AllHeld
-----------------------------------------------------------------------------
(* A worker's step on its own round: whatever it does to its copy, its     *)
(* peer's standing and the history, the others do not depend on them.      *)
LEMMA OwnRound ==
  ASSUME TypeInv, RoundInv, HistInv, NEW w \in Busy,
         UNCHANGED <<reqs, jobs, Cur>>, Busy' \subseteq Busy,
         \A v \in Busy : v # w => wDoc'[v] = wDoc[v] /\ wPc'[v] = wPc[v],
         \A q \in Peers : q # wDoc[w].id => Standing(q)' = Standing(q) /\ misses'[q] = misses[q],
         Counted', w \in Busy' => Held(w)'
  PROVE  HistInv'
<1>1. Doc \subseteq WorkDoc /\ \A d \in WorkDoc : d.id \in Peers
  BY DEF Doc, WorkDoc, Peer
<1>2. /\ \A i \in DOMAIN reqs : reqs[i].id # wDoc[w].id
      /\ \A d \in Cur : d.id # wDoc[w].id
      /\ \A i \in DOMAIN jobs : jobs[i].id # wDoc[w].id
      /\ \A v \in Busy : v # w => wDoc[v].id # wDoc[w].id
  BY DEF RoundInv, ReqsApart, SingleFlight
<1>3. ReqsSame' /\ CurSame' /\ JobsSame'
  BY <1>1, <1>2, Documents DEF HistInv, ReqsSame, CurSame, JobsSame, Same
<1>4. ASSUME NEW v \in Busy', v # w
      PROVE  Held(v)'
  <2>1. /\ v \in Busy /\ wDoc'[v] = wDoc[v] /\ wPc'[v] = wPc[v]
        /\ wDoc[v].id \in Peers /\ wDoc[v].id # wDoc[w].id
    BY <1>1, <1>2, <1>4, Documents
  <2>2. /\ Standing(wDoc[v].id) = IF store'[wDoc[v].id] # Absent THEN store'[wDoc[v].id].score
                                  ELSE 0
        /\ misses'[wDoc[v].id] = misses[wDoc[v].id]
    BY <2>1 DEF Standing, Stored
  <2> QED
    BY <2>1, <2>2 DEF HistInv, AllHeld, Held, Same, Refused, Standing, Stored
<1> QED
  BY <1>3, <1>4 DEF HistInv, AllHeld

LEMMA TrialHistory ==
  ASSUME TypeInv, RoundInv, HistInv, NEW w \in Workers,
         DialFails(w) \/ DialOk(w) \/ Rpc(w) \/ EmitOutput(w)
  PROVE  HistInv' /\ TrackerStep
<1>1. /\ UNCHANGED <<store, misses, reqs, jobs, Cur>> /\ w \in Busy /\ Busy' = Busy
      /\ \A v \in Busy : v # w => wDoc'[v] = wDoc[v] /\ wPc'[v] = wPc[v]
  <2>1. UNCHANGED <<store, misses, reqs, jobs, Cur>>
    BY DEF DialFails, DialOk, Rpc, RpcFails, RpcOk, EmitOutput, selVars, Cur
  <2>2. w \in Busy /\ Busy' = Busy
    BY DEF DialFails, DialOk, Rpc, RpcFails, RpcOk, EmitOutput, Dial, Goto, Busy, TypeInv,
           WorkersOK
  <2>3. \A v \in Busy : v # w => wDoc'[v] = wDoc[v] /\ wPc'[v] = wPc[v]
    BY DEF DialFails, DialOk, Rpc, RpcFails, RpcOk, EmitOutput, Goto, Hold, Busy, TypeInv,
           WorkersOK
  <2> QED
    BY <2>1, <2>2, <2>3
<1>2. (\A p : Standing(p)' = Standing(p)) /\ Counted'
  BY <1>1 DEF Standing, Stored, HistInv, Counted
<1>3. Held(w)'
  <2>1. Held(w) /\ wDoc[w] \in WorkDoc /\ w \in DOMAIN wDoc /\ w \in DOMAIN wPc
    BY <1>1, Documents DEF HistInv, AllHeld, TypeInv, WorkersOK
  <2>2. CASE DialFails(w)
    BY <1>1, <1>2, <2>1, <2>2 DEF DialFails, Held, Same, Refused
  <2>3. CASE DialOk(w)
    BY <1>1, <1>2, <2>1, <2>3 DEF DialOk, Dial, Goto, Held, Same, Refused
  <2>4. CASE RpcFails(w)
    BY <1>1, <1>2, <2>1, <2>4 DEF RpcFails, Hold, Goto, Held, Same, Refused, WorkDoc, Peer
  <2>5. CASE RpcOk(w)
    BY <1>1, <1>2, <2>1, <2>5 DEF RpcOk, Hold, Goto, Held, WorkDoc, Peer
  <2>6. CASE EmitOutput(w)
    BY <1>1, <1>2, <2>1, <2>6 DEF EmitOutput, Goto, Held
  <2> QED
    BY <2>2, <2>3, <2>4, <2>5, <2>6 DEF Rpc
<1> QED
  BY <1>1, <1>2, <1>3, OwnRound, NotSeen

(* The tracker's step Lose, on the numbers it is about.                    *)
LEMMA LoseStep ==
  ASSUME NEW p \in Peers, NEW n \in {misses[p] + 1, ScoreGood}, n <= ScoreGood,
         Standing(p) > 0, \A q : Standing(q)' = Standing(q), misses' = [misses EXCEPT ![p] = n]
  PROVE  Tracker!Lose(p)
<1>1. [q \in Peers |-> Standing(q)]' = [q \in Peers |-> Standing(q)]
  OBVIOUS
<1>2. [q \in Peers |-> Standing(q)][p] > 0
  OBVIOUS
<1>3. \E k \in {misses[p] + 1, ScoreGood} : k <= ScoreGood /\ misses' = [misses EXCEPT ![p] = k]
  OBVIOUS
<1> QED
  BY <1>1, <1>2, <1>3, Zenon DEF Tracker!Lose, Standing

(* A round is lost, or the node refuses: Lose, unless all is lost already. *)
LEMMA LoseHistory ==
  ASSUME TypeInv, RoundInv, HistInv, NEW w \in Workers, GiveUp(w) \/ DialRefused(w)
  PROVE  HistInv' /\ TrackerStep
<1>1. /\ UNCHANGED <<store, reqs, jobs, Cur>> /\ w \in Busy /\ Busy' = Busy /\ wPc[w] = "retry"
      /\ \A v \in Busy : v # w => wDoc'[v] = wDoc[v] /\ wPc'[v] = wPc[v]
  BY DEF GiveUp, DialRefused, Dial, Goto, Hold, selVars, Cur, Busy, TypeInv, WorkersOK
<1>2. wDoc[w] \in WorkDoc /\ Owns(wDoc[w]) /\ Held(w)
  BY <1>1, Documents DEF RoundInv, RoundsOwn, HistInv, AllHeld
<1>3. PICK p \in Peers : p = wDoc[w].id
  BY <1>2 DEF WorkDoc, Peer
<1>4. /\ Standing(p) \in 1 .. ScoreGood /\ misses[p] \in 0 .. ScoreGood
      /\ ScoreGood - Standing(p) <= misses[p]
  BY <1>2, <1>3, StandingType DEF Owns, HistInv, Counted
<1>5. \A q : Standing(q)' = Standing(q)
  BY <1>1 DEF Standing, Stored
<1>6. PICK n \in {Lost(misses[p]), ScoreGood} :
        /\ misses' = [misses EXCEPT ![p] = n]
        /\ \/ /\ n = ScoreGood /\ wPc'[w] = "retry"
              /\ wDoc' = [wDoc EXCEPT ![w] = [wDoc[w] EXCEPT !.score = ScoreBad]]
           \/ /\ n = Lost(misses[p]) /\ wPc'[w] = "write"
              /\ wDoc' = [wDoc EXCEPT ![w] = [wDoc[w] EXCEPT !.score = @ - 1]]
  <2>1. CASE GiveUp(w)
    BY <1>3, <2>1 DEF GiveUp, Hold, Goto, TypeInv, WorkersOK
  <2>2. CASE DialRefused(w)
    BY <1>1, <1>3, <2>2 DEF DialRefused, Hold
  <2> QED
    BY <2>1, <2>2
<1>7. /\ n \in 0 .. ScoreGood /\ misses[p] <= n /\ misses'[p] = n
      /\ n = Lost(misses[p]) => ScoreGood - (Standing(p) - 1) <= n
      /\ n # misses[p] => n \in {misses[p] + 1, ScoreGood}
      /\ \A q \in Peers : q # p => misses'[q] = misses[q]
  BY <1>4, <1>6, StandingType DEF Lost, ScoreGood
<1>8. Counted'
  <2>1. ASSUME NEW q \in Peers, Standing(q) > 0
        PROVE  ScoreGood - Standing(q) <= misses'[q]
    <3>1. ScoreGood - Standing(q) <= misses[q] /\ misses[q] <= misses'[q]
      BY <1>7, <2>1, StandingType DEF HistInv, Counted, ScoreGood
    <3> QED
      BY <1>7, <2>1, <3>1, StandingType DEF ScoreGood
  <2> QED
    BY <1>5, <2>1 DEF Counted
<1>9. Held(w)'
  <2>1. w \in DOMAIN wDoc /\ wDoc[w].score \in Int
    BY <1>2 DEF TypeInv, WorkersOK, WorkDoc, Peer
  <2>2. CASE wPc'[w] = "retry"
    <3>1. wDoc'[w].score = ScoreBad /\ wDoc'[w].id = p /\ misses'[p] = ScoreGood
      BY <1>2, <1>3, <1>6, <1>7, <2>1, <2>2 DEF WorkDoc, Peer
    <3> QED
      BY <2>2, <3>1 DEF Held, Refused
  <2>3. CASE wPc'[w] = "write"
    <3>1. /\ wDoc'[w].score = wDoc[w].score - 1 /\ wDoc'[w].id = p
          /\ n = Lost(misses[p])
      BY <1>2, <1>3, <1>6, <2>1, <2>3 DEF WorkDoc, Peer
    <3>2. CASE Same(wDoc[w])
      BY <1>3, <1>4, <1>5, <1>7, <2>3, <3>1, <3>2 DEF Held, Same
    <3>3. CASE wDoc[w].score = ScoreBad /\ Refused(wDoc[w])
      <4>1. misses'[p] = ScoreGood
        BY <1>3, <1>7, <3>1, <3>3 DEF Refused, Lost, ScoreGood
      <4> QED
        BY <2>3, <3>1, <3>3, <4>1 DEF Held, Refused
    <3> QED
      BY <1>1, <1>2, <3>2, <3>3 DEF Held
  <2> QED
    BY <1>6, <2>2, <2>3
<1>10. TrackerStep
  <2>1. CASE n = misses[p]
    <3>1. misses' = misses
      BY <1>6, <2>1, StandingType
    <3> QED
      BY <1>5, <3>1, NotSeen
  <2>2. CASE n # misses[p]
    <3>1. n \in {misses[p] + 1, ScoreGood} /\ n <= ScoreGood /\ Standing(p) > 0
      BY <1>4, <1>7, <2>2 DEF ScoreGood
    <3>2. Tracker!Lose(p)
      BY <1>5, <1>6, <3>1, LoseStep
    <3> QED
      BY <3>2, Zenon DEF Tracker!TrackerNext, TrackerStep
  <2> QED
    BY <2>1, <2>2
<1> QED
  BY <1>1, <1>3, <1>5, <1>7, <1>8, <1>9, <1>10, OwnRound

(* The tracker's steps that set a standing, on the numbers they are about. *)
LEMMA StandingSteps ==
  ASSUME NEW p \in Peers, NEW n, Standing(p) > 0,
         Standing(p)' = n, \A q \in Peers : q # p => Standing(q)' = Standing(q)
  PROVE  /\ n = ScoreGood /\ misses' = [misses EXCEPT ![p] = 0] => Tracker!Confirm(p)
         /\ n = 0 /\ misses[p] = ScoreGood /\ misses' = misses => Tracker!Drop(p)
         /\ /\ n = Standing(p) - 1 /\ Standing(p) > 1
            /\ ScoreGood - (Standing(p) - 1) <= misses[p] /\ misses' = misses
            => Tracker!Penalise(p)
<1> DEFINE standing == [q \in Peers |-> Standing(q)]
<1>1. standing' = [standing EXCEPT ![p] = n] /\ standing[p] = Standing(p)
  OBVIOUS
<1> HIDE DEF standing
<1>2. /\ standing = [q \in Peers |-> IF Stored(q) THEN store[q].score ELSE 0]
      /\ standing' = [q \in Peers |-> IF Stored(q) THEN store[q].score ELSE 0]'
  BY DEF standing, Standing
<1>3. n = ScoreGood /\ misses' = [misses EXCEPT ![p] = 0] => Tracker!Confirm(p)
  BY <1>1, <1>2 DEF Tracker!Confirm, Tracker!Chances
<1>4. n = 0 /\ misses[p] = ScoreGood /\ misses' = misses => Tracker!Drop(p)
  BY <1>1, <1>2 DEF Tracker!Drop, Tracker!Chances
<1>5. /\ n = Standing(p) - 1 /\ Standing(p) > 1
      /\ ScoreGood - (Standing(p) - 1) <= misses[p] /\ misses' = misses
      => Tracker!Penalise(p)
  BY <1>1, <1>2 DEF Tracker!Penalise, Tracker!Chances
<1> QED
  BY <1>3, <1>4, <1>5

(* The end of a round: Confirm, Penalise or Drop, or a write that has not  *)
(* been applied.                                                           *)
LEMMA WriteHistory ==
  ASSUME TypeInv, RoundInv, HistInv, NEW w \in Workers, WritePeer(w)
  PROVE  HistInv' /\ TrackerStep
<1>1. /\ UNCHANGED <<reqs, jobs, Cur>> /\ w \in Busy /\ Busy' = Busy \ {w} /\ wPc[w] = "write"
      /\ \A v \in Busy : v # w => wDoc'[v] = wDoc[v] /\ wPc'[v] = wPc[v]
  BY DEF WritePeer, Goto, Hold, selVars, Cur, Busy, TypeInv, WorkersOK
<1>2. wDoc[w] \in WorkDoc /\ Owns(wDoc[w]) /\ Held(w)
  BY <1>1, Documents DEF RoundInv, RoundsOwn, HistInv, AllHeld
<1>3. PICK d \in WorkDoc : d = wDoc[w]
  BY <1>2
<1>4. PICK p \in Peers : p = d.id
  BY DEF WorkDoc, Peer
<1>5. /\ Standing(p) \in 1 .. ScoreGood /\ misses[p] \in 0 .. ScoreGood /\ Stored(p)
      /\ ScoreGood - Standing(p) <= misses[p] /\ d.score \in -1 .. ScoreGood
  BY <1>2, <1>3, <1>4, StandingType DEF Owns, HistInv, Counted, WorkDoc, Peer
<1>6. \/ d.score = ScoreGood
      \/ d.score = Standing(p) - 1 /\ ScoreGood - d.score <= misses[p]
      \/ d.score = -1 /\ misses[p] = ScoreGood
  BY <1>1, <1>2, <1>3, <1>4 DEF Held, Refused, ScoreBad
<1>7. /\ Recorded(d) \/ UNCHANGED store
      /\ misses' = IF d.score = ScoreGood /\ store' = [store EXCEPT ![p] = d]
                   THEN [misses EXCEPT ![p] = 0] ELSE misses
  BY <1>3, <1>4 DEF WritePeer
<1>8. d # Absent
  BY AbsentAssumption DEF WorkDoc
<1>9. ASSUME NEW n \in 0 .. ScoreGood, NEW m \in 0 .. ScoreGood,
             \/ n = ScoreGood /\ m = 0
             \/ n = Standing(p) /\ m = misses[p]
             \/ n = 0 /\ m = ScoreGood /\ misses[p] = ScoreGood
             \/ n = Standing(p) - 1 /\ n > 0 /\ m = misses[p] /\ ScoreGood - n <= m,
             Standing(p)' = n, misses' = [misses EXCEPT ![p] = m],
             \A q \in Peers : q # p => Standing(q)' = Standing(q)
      PROVE  HistInv' /\ TrackerStep
  <2>1. /\ misses'[p] = m
        /\ \A q \in Peers : q # p => misses'[q] = misses[q]
    BY StandingType, <1>9
  <2>2. Counted'
    <3>1. Standing(p)' > 0 => ScoreGood - Standing(p)' <= misses'[p]
      BY <1>5, <1>9, <2>1 DEF ScoreGood
    <3> QED
      BY <1>9, <2>1, <3>1 DEF HistInv, Counted
  <2>3. HistInv'
    BY <1>1, <1>3, <1>4, <1>9, <2>1, <2>2, OwnRound
  <2>4. TrackerStep
    <3>1. Standing(p) > 0
      BY <1>5 DEF ScoreGood
    <3>2. CASE n = ScoreGood /\ m = 0
      <4>1. Tracker!Confirm(p)
        BY <1>9, <3>1, <3>2, StandingSteps
      <4> QED
        BY <4>1, Zenon DEF Tracker!TrackerNext, TrackerStep
    <3>3. CASE n = Standing(p) /\ m = misses[p]
      <4>1. misses' = misses /\ \A q \in Peers : Standing(q)' = Standing(q)
        BY <1>9, <3>3, StandingType
      <4> QED
        BY <4>1, NotSeen
    <3>4. CASE n = 0 /\ m = ScoreGood /\ misses[p] = ScoreGood
      <4>1. misses' = misses
        BY <1>9, <3>4, StandingType
      <4>2. Tracker!Drop(p)
        BY <1>9, <3>1, <3>4, <4>1, StandingSteps
      <4> QED
        BY <4>2, Zenon DEF Tracker!TrackerNext, TrackerStep
    <3>5. CASE n = Standing(p) - 1 /\ n > 0 /\ m = misses[p] /\ ScoreGood - n <= m
      <4>1. misses' = misses /\ Standing(p) > 1
        BY <1>5, <1>9, <3>5, StandingType
      <4>2. Tracker!Penalise(p)
        BY <1>9, <3>1, <3>5, <4>1, StandingSteps
      <4> QED
        BY <4>2, Zenon DEF Tracker!TrackerNext, TrackerStep
    <3> QED
      BY <1>9, <3>2, <3>3, <3>4, <3>5
  <2> QED
    BY <2>3, <2>4
<1>10. CASE UNCHANGED store /\ misses' = misses
  <2>1. /\ \A q : Standing(q)' = Standing(q)
        /\ misses' = [misses EXCEPT ![p] = misses[p]]
    BY <1>10, StandingType DEF Standing, Stored
  <2>2. PICK n \in 0 .. ScoreGood, m \in 0 .. ScoreGood : n = Standing(p) /\ m = misses[p]
    BY <1>5 DEF ScoreGood
  <2> QED
    BY <1>9, <2>1, <2>2, Zenon
<1>11. CASE d.score = ScoreGood /\ store' = [store EXCEPT ![p] = d]
  <2>1. Standing(p)' = ScoreGood /\ \A q \in Peers : q # p => Standing(q)' = Standing(q)
    BY <1>4, <1>8, <1>11 DEF Standing, Stored, TypeInv, StoreOK
  <2> QED
    BY <1>7, <1>9, <1>11, <2>1 DEF ScoreGood
<1>12. CASE Recorded(d) /\ d.score # ScoreGood
  <2>1. misses' = [misses EXCEPT ![p] = misses[p]]
    BY <1>7, <1>12, StandingType
  <2>2. CASE d.score <= ScoreBad
    <3>1. Standing(p)' = 0 /\ \A q \in Peers : q # p => Standing(q)' = Standing(q)
      BY <1>4, <1>12, <2>2 DEF Recorded, Delete, Standing, Stored, TypeInv, StoreOK
    <3>2. misses[p] = ScoreGood
      BY <1>5, <1>6, <1>12, <2>2 DEF ScoreGood, ScoreBad
    <3> QED
      BY <1>9, <2>1, <3>1, <3>2 DEF ScoreGood
  <2>3. CASE d.score > ScoreBad
    <3>1. store' = [store EXCEPT ![p] = d]
      BY <1>4, <1>5, <1>12, <2>3 DEF Recorded, Update, ScoreBad
    <3>2. Standing(p)' = d.score /\ \A q \in Peers : q # p => Standing(q)' = Standing(q)
      BY <1>4, <1>8, <3>1 DEF Standing, Stored, TypeInv, StoreOK
    <3>3. d.score = Standing(p) - 1 /\ ScoreGood - d.score <= misses[p] /\ d.score > 0
      BY <1>5, <1>6, <1>12, <2>3 DEF ScoreBad
    <3>4. PICK n \in 0 .. ScoreGood, m \in 0 .. ScoreGood :
            /\ n = Standing(p) - 1 /\ n > 0 /\ n = d.score
            /\ m = misses[p] /\ ScoreGood - n <= m
      BY <1>5, <3>3 DEF ScoreGood
    <3>5. Standing(p)' = n /\ misses' = [misses EXCEPT ![p] = m]
      BY <2>1, <3>2, <3>4
    <3> QED
      BY <1>9, <3>2, <3>4, <3>5, Zenon
  <2> QED
    BY <1>5, <2>2, <2>3 DEF ScoreBad
<1>13. CASE Recorded(d) /\ d.score = ScoreGood
  <2>1. store' = [store EXCEPT ![p] = d]
    BY <1>4, <1>5, <1>13 DEF Recorded, Update, ScoreGood, ScoreBad
  <2> QED
    BY <1>11, <1>13, <2>1
<1> QED
  BY <1>7, <1>10, <1>11, <1>12, <1>13
-----------------------------------------------------------------------------
LEMMA HistStep ==
  ASSUME TypeInv, RoundInv, HistInv, [Next]_vars
  PROVE  HistInv' /\ TrackerStep
<1>1. CASE Discovery
  BY <1>1, QuietHistory, InsertHistory DEF Discovery
<1>2. CASE Selector
  BY <1>2, QuietHistory, ListHistory, StampHistory, SendHistory DEF Selector
<1>3. ASSUME NEW w \in Workers, Worker(w)
      PROVE  HistInv' /\ TrackerStep
  BY <1>3, QuietHistory, TakeHistory, LoseHistory, TrialHistory, WriteHistory DEF Worker
<1>4. CASE Writer
  BY <1>4, QuietHistory
<1>5. CASE Environment
  BY <1>5, QuietHistory DEF Environment
<1>6. CASE UNCHANGED vars
  BY <1>6, HistFrame DEF vars, selVars, workerVars, Cur, Busy, Standing, Stored
<1> QED
  BY <1>1, <1>2, <1>3, <1>4, <1>5, <1>6 DEF Next

LEMMA HistAlways == ASSUME Timely PROVE Spec => [](TypeInv /\ RoundInv /\ HistInv)
<1>1. Init => HistInv
  BY HistInit
<1>2. TypeInv /\ RoundInv /\ HistInv /\ [Next]_vars => HistInv'
  BY HistStep
<1> QED
  BY <1>1, <1>2, RoundInvAlways, PTL DEF Spec

(* While rounds end in time, no lost round is counted twice: whatever the  *)
(* interleaving of rounds, failing writes and restarts, a stored score has *)
(* gone down by at most the rounds lost since the last recorded success    *)
(* (crawl.go, 276-317).                                                    *)
THEOREM ScoresCountMisses == ASSUME Timely PROVE Spec => []ScoreMatchesMisses
<1>1. TypeInv /\ HistInv => ScoreMatchesMisses
  BY StandingType DEF HistInv, Counted, ScoreMatchesMisses, Standing
<1> QED
  BY <1>1, HistAlways, PTL

(* While rounds end in time, the crawler implements PeerTracker: every one *)
(* of its steps is a step of the tracker, on the stored scores and the     *)
(* history, or none that it sees.  So a peer is forgotten only after       *)
(* ScoreGood lost rounds in a row or a refusal (crawl.go, 276-323).        *)
THEOREM TrackerImplemented == ASSUME Timely PROVE Spec => ImplementsTracker
<1>1. Init => Tracker!TrackerInit
  BY DEF Init, StoreInit, Stored, Tracker!TrackerInit
<1>2. TypeInv /\ RoundInv /\ HistInv /\ [Next]_vars =>
        [Tracker!TrackerNext]_(Tracker!TrackerVars)
  BY HistStep DEF TrackerStep
<1> QED
  BY <1>1, <1>2, HistAlways, PTL DEF Spec, ImplementsTracker, Tracker!TrackerSpec
-----------------------------------------------------------------------------
(* What has been listed is stale, and stays so until it is stamped.        *)
ReqsStale == \A i \in DOMAIN reqs : reqs[i].lastUpdated < now - UpdateFreq

LEMMA ReqsTyped ==
  ASSUME TypeInv
  PROVE  /\ now \in Nat /\ UpdateFreq \in Nat
         /\ \A i \in DOMAIN reqs : reqs[i].lastUpdated \in Nat
         /\ \A i \in DOMAIN Tail(reqs) :
              reqs # <<>> => Tail(reqs)[i] = reqs[i + 1] /\ i + 1 \in DOMAIN reqs
<1>1. \A d \in Doc : d.lastUpdated \in Nat
  BY DEF Doc, WorkDoc, Peer
<1> QED
  BY <1>1, Documents, FirstRequest, UpdateFreqAssumption

LEMMA StaleStep == TypeInv /\ ReqsStale /\ [Next]_vars => ReqsStale'
<1> SUFFICES ASSUME TypeInv, ReqsStale, [Next]_vars PROVE ReqsStale'
  OBVIOUS
<1>1. CASE SelectPending
  <2>1. PICK ids \in Listings(now, Concurrency) : reqs' = [i \in DOMAIN ids |-> store[ids[i]]]
    BY <1>1 DEF SelectPending
  <2>2. PICK n \in 0 .. Concurrency : ids \in [1 .. n -> Stale(now)]
    BY <2>1 DEF Listings
  <2> QED
    BY <1>1, <2>1, <2>2 DEF SelectPending, Stale, ReqsStale
<1>2. CASE StampReq \/ StampFails
  <2>1. reqs # <<>> /\ reqs' = Tail(reqs) /\ now' = now
    BY <1>2 DEF StampReq, StampFails
  <2> QED
    BY <2>1, ReqsTyped DEF ReqsStale
<1>3. CASE EndCycle \/ SelectCancelled \/ Crash
  BY <1>3, EmptySeq DEF EndCycle, SelectCancelled, Sleep, Crash, ReqsStale
<1>4. CASE UNCHANGED reqs /\ now' >= now /\ now' \in Nat
  BY <1>4, ReqsTyped DEF ReqsStale
<1>5. ASSUME NEW w \in Workers, Worker(w)
      PROVE  UNCHANGED <<reqs, now>>
  BY <1>5 DEF Worker, TakeJob, GiveUp, DialFails, DialRefused, DialOk, Rpc, RpcFails,
              RpcOk, EmitOutput, WritePeer, WorkerExit, selVars
<1>6. ASSUME SendJob \/ Wake \/ BeginWait \/ CloseWorkChan \/ SelectDefault
      PROVE  UNCHANGED <<reqs, now>>
  BY <1>6 DEF SendJob, Wake, BeginWait, CloseWorkChan, SelectDefault
<1>7. ASSUME Discovery \/ Writer \/ Cancel \/ UNCHANGED vars
      PROVE  UNCHANGED <<reqs, now>>
  BY <1>7 DEF Discovery, Discover, InsertPeer, StopDiscovery, Writer, Cancel, vars, selVars
<1>8. CASE Tick
  BY <1>4, <1>8, ReqsTyped DEF Tick, selVars
<1>9. CASE UNCHANGED <<reqs, now>>
  BY <1>4, <1>9, ReqsTyped
<1> QED
  BY <1>1, <1>2, <1>3, <1>5, <1>6, <1>7, <1>8, <1>9 DEF Next, Selector, Environment

(* While rounds end in time, no peer is polled more often than configured: *)
(* its next stamp is more than UpdateFreq after the last (crawl.go,        *)
(* 231-240; mongo.go, 145-170).                                            *)
THEOREM PollsSpaced == ASSUME Timely PROVE Spec => StampsSpaced
<1> DEFINE Spaced(p) ==
             Stored(p) /\ Stored(p)' /\ store[p]'.lastUpdated # store[p].lastUpdated
               => store[p]'.lastUpdated > store[p].lastUpdated + UpdateFreq
<1>1. Init => ReqsStale
  BY EmptySeq DEF Init, ReqsStale
<1>2. TypeInv /\ RoundInv /\ ReqsStale /\ [Next]_vars => [\A p \in Peers : Spaced(p)]_vars
  <2> SUFFICES ASSUME TypeInv, RoundInv, ReqsStale, [Next]_vars, NEW p \in Peers
               PROVE  Spaced(p)
    OBVIOUS
  <2>1. CASE UNCHANGED store
    BY <2>1
  <2>2. CASE StampReq \/ StampFails
    <3> DEFINE d == Stamped(Head(reqs))
    <3>1. Update(d) \/ UNCHANGED store
      BY <2>2 DEF StampReq, StampFails
    <3>2. /\ Head(reqs) \in Doc /\ Head(reqs).lastUpdated < now - UpdateFreq
          /\ Owns(Head(reqs))
      BY <2>2, FirstRequest, Documents DEF StampReq, StampFails, ReqsStale, RoundInv, ReqsOwn
    <3>3. d.lastUpdated = now /\ d.id = Head(reqs).id /\ d.id \in Peers
      BY <3>2 DEF Stamped, Doc, WorkDoc, Peer
    <3>4. /\ store[d.id].lastUpdated = Head(reqs).lastUpdated
          /\ Head(reqs).lastUpdated \in Nat /\ now \in Nat /\ UpdateFreq \in Nat
      BY <3>2, <3>3, ReqsTyped DEF Owns, Doc, WorkDoc, Peer
    <3> HIDE DEF d
    <3>5. CASE Update(d) /\ p = d.id
      <4>1. store'[p].lastUpdated = store[p].lastUpdated \/ store'[p].lastUpdated = now
        BY <3>3, <3>5 DEF Update, TypeInv, StoreOK
      <4> QED
        BY <3>2, <3>4, <3>5, <4>1
    <3>6. CASE UNCHANGED store \/ p # d.id
      <4>1. store'[p] = store[p]
        BY <3>1, <3>3, <3>6 DEF Update, TypeInv, StoreOK
      <4> QED
        BY <4>1
    <3> QED
      BY <3>1, <3>5, <3>6
  <2>3. ASSUME NEW w \in Workers, WritePeer(w)
        PROVE  Spaced(p)
    <3>1. w \in Busy /\ wDoc[w] \in WorkDoc /\ Owns(wDoc[w])
      BY <2>3, Documents DEF WritePeer, Busy, RoundInv, RoundsOwn
    <3>2. store'[p] \in {store[p], Absent} \/ (store'[p] = wDoc[w] /\ p = wDoc[w].id)
      BY <2>3, <3>1 DEF WritePeer, Recorded, Update, Delete, TypeInv, StoreOK
    <3> QED
      BY <3>1, <3>2 DEF Owns, Stored
  <2>4. CASE InsertPeer
    BY <2>4 DEF InsertPeer, InsertOne, NewPeer, Stored, TypeInv, StoreOK, DiscOK
  <2>5. ASSUME NEW w \in Workers, Worker(w), ~WritePeer(w)
        PROVE  UNCHANGED store
    BY <2>5 DEF Worker, TakeJob, GiveUp, DialFails, DialRefused, DialOk, Rpc, RpcFails,
                RpcOk, EmitOutput, WorkerExit
  <2>6. ASSUME Selector, ~(StampReq \/ StampFails)
        PROVE  UNCHANGED store
    BY <2>6 DEF Selector, SelectPending, EndCycle, SelectCancelled, SelectDefault, SendJob,
                Wake, BeginWait, CloseWorkChan
  <2>7. ASSUME \/ \E q \in Peers : Discover(q)
               \/ StopDiscovery \/ Writer \/ Environment \/ UNCHANGED vars
        PROVE  UNCHANGED store
    BY <2>7 DEF Discover, StopDiscovery, Writer, Environment, Tick, Cancel, Crash, vars
  <2> QED
    BY <2>1, <2>2, <2>3, <2>4, <2>5, <2>6, <2>7 DEF Next, Discovery
<1>3. TypeInv /\ ReqsStale /\ [Next]_vars => ReqsStale'
  BY StaleStep
<1> QED
  BY <1>1, <1>2, <1>3, RoundInvAlways, PTL DEF Spec, StampsSpaced
-----------------------------------------------------------------------------
(* No two lines have the same UUID, whether rounds end in time or not.  A  *)
(* round emits at least one tick after its stamp, and a peer is stamped at *)
(* most once in a tick unless the process has been killed in between: so   *)
(* what has been emitted has old stamps, and the rounds that may still     *)
(* emit have different ones.                                               *)
Active == {w \in Workers : wPc[w] \in {"retry", "rpc", "emit"}}
Flight == Cur \cup Queued \cup {wDoc[w] : w \in Active}

FlightApart ==
  /\ \A i, j \in DOMAIN jobs : Uuid(jobs[i]) = Uuid(jobs[j]) => i = j
  /\ \A v, w \in Active : Uuid(wDoc[v]) = Uuid(wDoc[w]) => v = w
  /\ \A i \in DOMAIN jobs : \A w \in Active : Uuid(jobs[i]) # Uuid(wDoc[w])
  /\ \A d \in Cur : /\ \A i \in DOMAIN jobs : Uuid(jobs[i]) # Uuid(d)
                    /\ \A w \in Active : Uuid(wDoc[w]) # Uuid(d)

(* What is left to be stamped in this cycle has not been stamped in this   *)
(* tick, and the next cycle begins in a later one.                         *)
StampsOld ==
  /\ \A d \in Flight : d.lastUpdated <= now
  /\ \A i \in DOMAIN reqs : \A d \in Flight : d.id = reqs[i].id => d.lastUpdated < now
  /\ \A i, j \in DOMAIN reqs : reqs[i].id = reqs[j].id => i = j
  /\ selPc = "check" /\ ~ctxDone => \A d \in Flight : d.lastUpdated < now
  /\ selPc = "sleep" => \A d \in Flight : d.lastUpdated < wakeAt

EmitsLater ==
  /\ \A w \in Active : wPc[w] = "retry" => wDoc[w].lastUpdated < wTimer[w]
  /\ \A w \in Active : wPc[w] # "retry" => wDoc[w].lastUpdated < now

EmittedOld ==
  \A i \in DOMAIN Emitted : Emitted[i] # Null =>
    /\ Emitted[i][2] < now
    /\ \A d \in Flight : Emitted[i] # Uuid(d)

UuidInv == FlightApart /\ StampsOld /\ EmitsLater /\ EmittedOld /\ UniqueUuids /\ IdsOK

(* Everything about a document in flight that a UUID is made of.           *)
LEMMA FlightTyped ==
  ASSUME TypeInv
  PROVE  /\ now \in Nat /\ wakeAt \in Nat /\ \A w \in Workers : wTimer[w] \in Nat
         /\ \A d \in Flight : d.id \in Peers /\ d.lastUpdated \in Nat
         /\ Active \subseteq Busy /\ Cur \subseteq Flight
         /\ \A i \in DOMAIN jobs : jobs[i] \in Flight
         /\ \A w \in Active : wDoc[w] \in Flight
<1>1. Active \subseteq Busy /\ Doc \subseteq WorkDoc
  BY DEF Active, Busy, Doc
<1>2. \A d \in WorkDoc : d.id \in Peers /\ d.lastUpdated \in Nat
  BY DEF WorkDoc, Peer
<1>3. now \in Nat /\ wakeAt \in Nat /\ \A w \in Workers : wTimer[w] \in Nat
  BY DEF TypeInv, MiscOK, SelOK, WorkersOK
<1>4. \A d \in Flight : d \in WorkDoc
  BY <1>1, Documents DEF Flight, Queued
<1> QED
  BY <1>1, <1>2, <1>3, <1>4 DEF Flight, Queued

LEMMA UuidInit == Init => UuidInv
<1> SUFFICES ASSUME Init PROVE UuidInv
  OBVIOUS
<1>1. Active = {} /\ Cur = {} /\ DOMAIN jobs = {} /\ DOMAIN reqs = {}
  BY EmptySeq DEF Init, Active, Cur
<1>2. Flight = {}
  BY <1>1 DEF Flight, Queued
<1>3. DOMAIN Emitted = {}
  BY EmptySeq DEF Init, OutputInit, Emitted
<1> QED
  BY <1>1, <1>2, <1>3 DEF UuidInv, FlightApart, StampsOld, EmitsLater, EmittedOld, UniqueUuids,
                          Init, StoreInit, IdsOK, Stored

LEMMA EmittedTyped ==
  ASSUME TypeInv
  PROVE  /\ Emitted \in Seq((Peers \X Nat) \cup {Null})
         /\ DOMAIN Emitted = 1 .. Len(Emitted) /\ Len(Emitted) \in Nat
         /\ \A i \in DOMAIN Emitted : Emitted[i] # Null => Emitted[i][2] \in Nat
<1>1. Emitted \in Seq((Peers \X Nat) \cup {Null})
  BY DEF Emitted, TypeInv, OutOK
<1>2. DOMAIN Emitted = 1 .. Len(Emitted) /\ Len(Emitted) \in Nat
  BY <1>1, LenProperties
<1>3. \A i \in DOMAIN Emitted : Emitted[i] \in (Peers \X Nat) \cup {Null}
  BY <1>1, ElementOfSeq
<1> QED
  BY <1>1, <1>2, <1>3

(* What a step leaves alone: rounds keep their UUIDs or leave the flight...*)
Shadowed ==
  \A e \in Flight' : \E d \in Flight : e.id = d.id /\ e.lastUpdated = d.lastUpdated

LEMMA ShadowUuid ==
  ASSUME Shadowed
  PROVE  \A e \in Flight' : \E d \in Flight :
           Uuid(e) = Uuid(d) /\ e.id = d.id /\ e.lastUpdated = d.lastUpdated
  BY DEF Shadowed, Uuid

(* ...and the lines are the old ones, or fewer, or nulls.                  *)
LEMMA EmittedFrame ==
  ASSUME TypeInv, UuidInv, Shadowed, now' \in Nat, now' >= now,
         \A i \in DOMAIN Emitted' :
           Emitted'[i] = Null \/ (i \in DOMAIN Emitted /\ Emitted'[i] = Emitted[i])
  PROVE  EmittedOld' /\ UniqueUuids'
<1>1. EmittedOld'
  <2> SUFFICES ASSUME NEW i \in DOMAIN Emitted', Emitted'[i] # Null
               PROVE  /\ Emitted'[i][2] < now'
                      /\ \A e \in Flight' : Emitted'[i] # Uuid(e)
    BY DEF EmittedOld, Uuid
  <2>1. /\ i \in DOMAIN Emitted /\ Emitted'[i] = Emitted[i]
        /\ Emitted[i][2] < now /\ \A d \in Flight : Emitted[i] # Uuid(d)
    BY DEF UuidInv, EmittedOld
  <2>2. Emitted[i][2] \in Nat /\ now \in Nat
    BY <2>1, EmittedTyped, FlightTyped
  <2> QED
    BY <2>1, <2>2, ShadowUuid
<1>2. UniqueUuids'
  BY DEF UuidInv, UniqueUuids
<1> QED
  BY <1>1, <1>2

LEMMA ApartFrame ==
  ASSUME UuidInv, jobs' = jobs, Cur' \subseteq Cur, Active' \subseteq Active,
         \A w \in Active' : Uuid(wDoc'[w]) = Uuid(wDoc[w])
  PROVE  FlightApart'
  BY DEF UuidInv, FlightApart, Uuid

(* A step that starts and ends no round.                                   *)
LEMMA CalmUuid ==
  ASSUME TypeInv, UuidInv, UNCHANGED <<jobs, wPc, wDoc, wTimer>>, Cur' \subseteq Cur,
         now' \in Nat, now' >= now,
         \A i \in DOMAIN Emitted' :
           Emitted'[i] = Null \/ (i \in DOMAIN Emitted /\ Emitted'[i] = Emitted[i])
  PROVE  /\ FlightApart' /\ EmitsLater' /\ EmittedOld' /\ UniqueUuids'
         /\ Flight' \subseteq Flight
<1>1. Active' = Active
  BY DEF Active
<1>2. Flight' \subseteq Flight
  BY <1>1 DEF Flight, Queued
<1>3. Shadowed
  BY <1>2 DEF Shadowed
<1>4. FlightApart'
  BY <1>1, ApartFrame
<1>5. EmitsLater'
  BY <1>1, FlightTyped DEF UuidInv, EmitsLater
<1> QED
  BY <1>2, <1>3, <1>4, <1>5, EmittedFrame

LEMMA WriterUuid == TypeInv /\ UuidInv /\ Writer => UuidInv'
<1> SUFFICES ASSUME TypeInv, UuidInv, Writer PROVE UuidInv'
  OBVIOUS
<1>1. UNCHANGED <<jobs, wPc, wDoc, wTimer, now, ctxDone, store, reqs, selPc, wakeAt, Cur>>
  BY DEF Writer, OutputStep, Receive, ReceiveClosed, StartDrain, Drain, FinishDrain, workerVars,
         selVars, Cur
<1>2. \A i \in DOMAIN Emitted' :
        Emitted'[i] = Null \/ (i \in DOMAIN Emitted /\ Emitted'[i] = Emitted[i])
  <2>1. lines \in Seq((Peers \X Nat) \cup {Null}) /\ workchan \in Seq(Peers \X Nat)
    BY DEF TypeInv, OutOK
  <2>2. CASE Receive \/ Drain
    <3>1. workchan # <<>> /\ lines' = Append(lines, Head(workchan)) /\ workchan' = Tail(workchan)
      BY <2>2 DEF Receive, Drain, WriteLine
    <3> QED
      BY <2>1, <3>1 DEF Emitted
  <2>3. CASE ReceiveClosed
    <3>1. lines' = Append(lines, Null) /\ workchan = <<>> /\ workchan' = <<>>
      BY <2>3 DEF ReceiveClosed, WriteLine
    <3> QED
      BY <2>1, <3>1 DEF Emitted
  <2>4. CASE StartDrain \/ FinishDrain
    BY <2>4 DEF StartDrain, FinishDrain, Emitted
  <2> QED
    BY <2>2, <2>3, <2>4 DEF Writer, OutputStep
<1>3. /\ FlightApart' /\ EmitsLater' /\ EmittedOld' /\ UniqueUuids'
      /\ Flight' \subseteq Flight
  BY <1>1, <1>2, CalmUuid, FlightTyped
<1>4. StampsOld' /\ IdsOK'
  BY <1>1, <1>3 DEF UuidInv, StampsOld, IdsOK, Stored
<1> QED
  BY <1>3, <1>4 DEF UuidInv

(* The steps that touch neither the rounds nor the output.                 *)
LEMMA QuietUuid ==
  ASSUME TypeInv, UuidInv, UNCHANGED <<jobs, wPc, wDoc, wTimer, lines, workchan>>,
         Cur' \subseteq Cur, now' \in Nat, now' >= now
  PROVE  /\ FlightApart' /\ EmitsLater' /\ EmittedOld' /\ UniqueUuids'
         /\ Flight' \subseteq Flight
<1>1. Emitted' = Emitted
  BY DEF Emitted
<1> QED
  BY <1>1, CalmUuid

LEMMA InsertUuid == TypeInv /\ UuidInv /\ Discovery => UuidInv'
<1> SUFFICES ASSUME TypeInv, UuidInv, Discovery PROVE UuidInv'
  OBVIOUS
<1>1. UNCHANGED <<jobs, wPc, wDoc, wTimer, lines, workchan, now, ctxDone, reqs, selPc, wakeAt, Cur>>
  BY DEF Discovery, Discover, InsertPeer, StopDiscovery, workerVars, selVars, outVars, Cur
<1>2. /\ FlightApart' /\ EmitsLater' /\ EmittedOld' /\ UniqueUuids'
      /\ Flight' \subseteq Flight
  BY <1>1, QuietUuid, FlightTyped
<1>3. StampsOld'
  BY <1>1, <1>2 DEF UuidInv, StampsOld
<1>4. IdsOK'
  <2>1. CASE UNCHANGED store
    BY <2>1 DEF UuidInv, IdsOK, Stored
  <2>2. CASE InsertPeer /\ InsertOne(NewPeer(discPeer))
    <3>1. discPeer \in Peers
      BY <2>2 DEF InsertPeer, TypeInv, DiscOK
    <3> QED
      BY <2>2, <3>1 DEF InsertOne, NewPeer, UuidInv, IdsOK, Stored, TypeInv, StoreOK
  <2> QED
    BY <2>1, <2>2 DEF Discovery, Discover, InsertPeer, StopDiscovery
<1> QED
  BY <1>2, <1>3, <1>4 DEF UuidInv

LEMMA EnvironmentUuid == TypeInv /\ UuidInv /\ (Tick \/ Cancel) => UuidInv'
<1> SUFFICES ASSUME TypeInv, UuidInv, Tick \/ Cancel PROVE UuidInv'
  OBVIOUS
<1>1. /\ UNCHANGED <<jobs, wPc, wDoc, wTimer, lines, workchan, store, reqs, selPc, wakeAt, Cur>>
      /\ ctxDone => ctxDone'
      /\ now' \in Nat /\ now' >= now
  <2>1. now' \in {now, now + 1} /\ now \in Nat
    BY FlightTyped DEF Tick, Cancel
  <2>2. UNCHANGED <<jobs, wPc, wDoc, wTimer, lines, workchan, store, reqs, selPc, wakeAt>>
    BY DEF Tick, Cancel, workerVars, selVars, outVars
  <2>3. Cur' = Cur
    BY DEF Tick, Cancel, selVars, Cur
  <2>4. ctxDone => ctxDone'
    BY Zenon DEF Tick, Cancel
  <2>5. now' \in Nat /\ now' >= now
    BY <2>1
  <2> QED
    BY <2>2, <2>3, <2>4, <2>5, Zenon
<1>2. /\ FlightApart' /\ EmitsLater' /\ EmittedOld' /\ UniqueUuids'
      /\ Flight' \subseteq Flight
  BY <1>1, QuietUuid
<1>3. StampsOld'
  BY <1>1, <1>2, FlightTyped DEF UuidInv, StampsOld
<1>4. IdsOK'
  BY <1>1 DEF UuidInv, IdsOK, Stored
<1> QED
  BY <1>2, <1>3, <1>4 DEF UuidInv

LEMMA CrashUuid == TypeInv /\ UuidInv /\ Crash => UuidInv'
<1> SUFFICES ASSUME TypeInv, UuidInv, Crash PROVE UuidInv'
  OBVIOUS
<1>1. Active' = {} /\ Cur' = {} /\ DOMAIN jobs' = {} /\ DOMAIN reqs' = {}
  BY EmptySeq DEF Crash, Active, Cur
<1>2. Flight' = {}
  BY <1>1 DEF Flight, Queued
<1>3. Shadowed /\ now' = now
  BY <1>2 DEF Shadowed, Crash
<1>4. \A i \in DOMAIN Emitted' : i \in DOMAIN Emitted /\ Emitted'[i] = Emitted[i]
  <2>1. /\ lines \in Seq((Peers \X Nat) \cup {Null}) /\ workchan \in Seq(Peers \X Nat)
        /\ flushed \in 0 .. Len(lines)
    BY DEF TypeInv, OutOK
  <2>2. lines' = SubSeq(lines, 1, flushed) /\ workchan' = <<>>
    BY DEF Crash
  <2> QED
    BY <2>1, <2>2 DEF Emitted
<1>5. EmittedOld' /\ UniqueUuids'
  BY <1>3, <1>4, EmittedFrame, FlightTyped
<1>6. IdsOK'
  BY DEF Crash, UuidInv, IdsOK, Stored
<1> QED
  BY <1>1, <1>2, <1>5, <1>6 DEF UuidInv, FlightApart, StampsOld, EmitsLater

(* The selector's steps that stamp and send nothing.                       *)
LEMMA PauseUuid ==
  ASSUME TypeInv, UuidInv,
         \/ EndCycle \/ SelectCancelled \/ SelectDefault \/ Wake \/ BeginWait \/ CloseWorkChan
  PROVE  UuidInv'
<1>1. /\ UNCHANGED <<jobs, wPc, wDoc, wTimer, lines, workchan, now, ctxDone, store>>
      /\ reqs' \in {reqs, <<>>} /\ Cur' \subseteq Cur
  BY DEF EndCycle, SelectCancelled, SelectDefault, Wake, BeginWait, CloseWorkChan, Sleep,
         workerVars, outVars, Cur
<1>2. /\ FlightApart' /\ EmitsLater' /\ EmittedOld' /\ UniqueUuids'
      /\ Flight' \subseteq Flight
  BY <1>1, QuietUuid, FlightTyped
<1>3. \A d \in Flight' : d.lastUpdated <= now /\ d.lastUpdated \in Nat /\ now \in Nat
  BY <1>2, FlightTyped DEF UuidInv, StampsOld
<1>4. StampsOld'
  <2>1. (selPc = "check" /\ ~ctxDone)' => \A d \in Flight' : d.lastUpdated < now
    <3> SUFFICES ASSUME selPc' = "check", ~ctxDone PROVE \A d \in Flight' : d.lastUpdated < now
      BY <1>1
    <3>1. selPc = "sleep" /\ now >= wakeAt
      BY DEF EndCycle, SelectCancelled, SelectDefault, Wake, BeginWait, CloseWorkChan, Sleep
    <3> QED
      BY <1>2, <3>1, FlightTyped DEF UuidInv, StampsOld
  <2>2. selPc' = "sleep" => \A d \in Flight' : d.lastUpdated < wakeAt'
    <3> SUFFICES ASSUME selPc' = "sleep" PROVE \A d \in Flight' : d.lastUpdated < wakeAt'
      OBVIOUS
    <3>1. wakeAt' = now + 1
      BY DEF EndCycle, SelectCancelled, SelectDefault, Wake, BeginWait, CloseWorkChan, Sleep
    <3> QED
      BY <1>3, <3>1
  <2>3. DOMAIN reqs' = {} \/ reqs' = reqs
    BY <1>1, EmptySeq
  <2> QED
    BY <1>1, <1>2, <1>3, <2>1, <2>2, <2>3 DEF UuidInv, StampsOld
<1>5. IdsOK'
  BY <1>1 DEF UuidInv, IdsOK, Stored
<1> QED
  BY <1>2, <1>4, <1>5 DEF UuidInv

LEMMA ListUuid == TypeInv /\ UuidInv /\ SelectPending => UuidInv'
<1> SUFFICES ASSUME TypeInv, UuidInv, SelectPending PROVE UuidInv'
  OBVIOUS
<1>1. /\ UNCHANGED <<jobs, wPc, wDoc, wTimer, lines, workchan, now, ctxDone, store, wakeAt>>
      /\ Cur' \subseteq Cur /\ selPc = "check" /\ ~ctxDone /\ selPc' = "stamp"
  BY DEF SelectPending, workerVars, outVars, Cur
<1>2. /\ FlightApart' /\ EmitsLater' /\ EmittedOld' /\ UniqueUuids'
      /\ Flight' \subseteq Flight
  BY <1>1, QuietUuid, FlightTyped
<1>3. \A i, j \in DOMAIN reqs' : reqs'[i].id = reqs'[j].id => i = j
  <2>1. PICK ids \in Listings(now, Concurrency) : reqs' = [i \in DOMAIN ids |-> store[ids[i]]]
    BY DEF SelectPending
  <2>2. PICK n \in 0 .. Concurrency : ids \in [1 .. n -> Stale(now)] /\ IsListing(ids, now)
    BY <2>1 DEF Listings
  <2>3. \A i, j \in DOMAIN ids : ids[i] = ids[j] => i = j
    BY <2>2, ConcurrencyNat DEF IsListing
  <2>4. \A i \in DOMAIN ids : store[ids[i]].id = ids[i]
    BY <2>2 DEF Stale, UuidInv, IdsOK
  <2> QED
    BY <2>1, <2>3, <2>4
<1>4. StampsOld' /\ IdsOK'
  BY <1>1, <1>2, <1>3, FlightTyped DEF UuidInv, StampsOld, IdsOK, Stored
<1> QED
  BY <1>2, <1>4 DEF UuidInv

(* The new stamp is later than every stamp of the same peer in flight and  *)
(* than everything emitted.                                                *)
LEMMA StampUuid == TypeInv /\ UuidInv /\ (StampReq \/ StampFails) => UuidInv'
<1> SUFFICES ASSUME TypeInv, UuidInv, StampReq \/ StampFails PROVE UuidInv'
  OBVIOUS
<1> DEFINE r == Head(reqs)
           d == Stamped(r)
<1>1. /\ reqs # <<>> /\ reqs' = Tail(reqs) /\ selPc = "stamp" /\ Cur = {}
      /\ UNCHANGED <<jobs, wPc, wDoc, wTimer, lines, workchan, now, ctxDone, wakeAt, Active, Emitted>>
      /\ Update(d) \/ UNCHANGED store
      /\ selPc' \in {"stamp", "select"} /\ Cur' \subseteq {d}
  BY DEF StampReq, StampFails, workerVars, outVars, Cur, Active, Emitted
<1>2. /\ d \in WorkDoc /\ d.id = r.id /\ d.lastUpdated = now
      /\ r = reqs[1] /\ 1 \in DOMAIN reqs
  <2>1. r \in Doc /\ r = reqs[1] /\ 1 \in DOMAIN reqs
    BY <1>1, FirstRequest, Documents
  <2>2. d.lastUpdated = now
    BY <2>1 DEF Stamped, Doc, WorkDoc, Peer
  <2>3. d \in WorkDoc /\ d.id = r.id
    BY <2>1, StampedDoc, FlightTyped DEF Doc
  <2> QED
    BY <2>1, <2>2, <2>3
<1> HIDE DEF r, d
<1>3. Flight' \subseteq Flight \cup {d}
  BY <1>1 DEF Flight, Queued
<1>4. \A e \in Flight : e.id = d.id => e.lastUpdated < now
  BY <1>2 DEF UuidInv, StampsOld
<1>5. \A e \in Flight : Uuid(e) # Uuid(d)
  BY <1>2, <1>4, FlightTyped DEF Uuid
<1>6. FlightApart'
  <2>1. \A e \in Cur' : /\ \A i \in DOMAIN jobs : Uuid(jobs[i]) # Uuid(e)
                        /\ \A w \in Active : Uuid(wDoc[w]) # Uuid(e)
    BY <1>1, <1>5, FlightTyped
  <2> QED
    BY <1>1, <2>1 DEF UuidInv, FlightApart, Uuid
<1>7. StampsOld'
  <2>1. \A e \in Flight' : e.lastUpdated <= now
    BY <1>2, <1>3, FlightTyped DEF UuidInv, StampsOld
  <2>2. \A i \in DOMAIN reqs' : /\ i + 1 \in DOMAIN reqs /\ i + 1 # 1 /\ i \in Nat
                                /\ reqs'[i] = reqs[i + 1]
    BY <1>1, FirstRequest, Documents
  <2>3. \A i \in DOMAIN reqs' : reqs'[i].id # d.id
    BY <1>2, <2>2 DEF UuidInv, StampsOld
  <2>4. \A i \in DOMAIN reqs' : \A e \in Flight' : e.id = reqs'[i].id => e.lastUpdated < now
    BY <1>3, <2>2, <2>3 DEF UuidInv, StampsOld
  <2>5. \A i, j \in DOMAIN reqs' : reqs'[i].id = reqs'[j].id => i = j
    BY <2>2 DEF UuidInv, StampsOld
  <2> QED
    BY <1>1, <2>1, <2>4, <2>5 DEF StampsOld
<1>8. EmitsLater'
  BY <1>1 DEF UuidInv, EmitsLater
<1>9. EmittedOld' /\ UniqueUuids'
  <2>1. \A i \in DOMAIN Emitted : Emitted[i] # Null => Emitted[i] # Uuid(d)
    BY <1>2, EmittedTyped, FlightTyped DEF UuidInv, EmittedOld, Uuid
  <2>2. \A i \in DOMAIN Emitted : Emitted[i] # Null => \A e \in Flight' : Emitted[i] # Uuid(e)
    BY <1>3, <2>1 DEF UuidInv, EmittedOld
  <2> QED
    BY <1>1, <2>2 DEF UuidInv, EmittedOld, UniqueUuids, Uuid
<1>10. IdsOK'
  BY <1>1, <1>2, WriteIds DEF UuidInv
<1> QED
  BY <1>6, <1>7, <1>8, <1>9, <1>10 DEF UuidInv

LEMMA SendUuid == TypeInv /\ UuidInv /\ SendJob => UuidInv'
<1> SUFFICES ASSUME TypeInv, UuidInv, SendJob PROVE UuidInv'
  OBVIOUS
<1>1. /\ UNCHANGED <<wPc, wDoc, wTimer, lines, workchan, now, ctxDone, wakeAt, store, reqs,
                     Active, Emitted>>
      /\ Cur = {cur} /\ Cur' = {} /\ selPc' = "stamp"
  BY DEF SendJob, workerVars, outVars, Cur, Active, Emitted
<1>2. /\ DOMAIN jobs' = 1 .. Len(jobs) + 1 /\ Len(jobs) \in Nat
      /\ \A i \in DOMAIN jobs' : \/ i \in DOMAIN jobs /\ jobs'[i] = jobs[i]
                                 \/ i = Len(jobs) + 1 /\ jobs'[i] = cur
      /\ DOMAIN jobs = 1 .. Len(jobs)
  BY Documents DEF SendJob, TypeInv, JobsOK
<1>3. Flight' \subseteq Flight
  BY <1>1, <1>2 DEF Flight, Queued
<1>4. FlightApart'
  BY <1>1, <1>2 DEF UuidInv, FlightApart, Uuid
<1>5. StampsOld' /\ EmitsLater' /\ EmittedOld' /\ UniqueUuids' /\ IdsOK'
  <2>1. StampsOld'
    BY <1>1, <1>3 DEF UuidInv, StampsOld
  <2>2. EmitsLater'
    BY <1>1 DEF UuidInv, EmitsLater
  <2>3. EmittedOld'
    BY <1>1, <1>3 DEF UuidInv, EmittedOld, Uuid
  <2>4. UniqueUuids' /\ IdsOK'
    BY <1>1 DEF UuidInv, UniqueUuids, IdsOK, Stored
  <2> QED
    BY <2>1, <2>2, <2>3, <2>4
<1> QED
  BY <1>4, <1>5 DEF UuidInv

(* A worker's steps with the document it holds: the round goes on, or      *)
(* leaves the flight.                                                      *)
LEMMA HeldUuid ==
  ASSUME TypeInv, UuidInv, NEW w \in Workers,
         \/ GiveUp(w) \/ DialFails(w) \/ DialRefused(w) \/ DialOk(w)
         \/ Rpc(w) \/ WritePeer(w) \/ WorkerExit(w)
  PROVE  UuidInv'
<1>1. UNCHANGED <<ctxDone, now, selVars, jobs, lines, workchan>>
  BY DEF GiveUp, DialFails, DialRefused, DialOk, Rpc, RpcFails, RpcOk, WritePeer, WorkerExit, outVars
<1>2. Cur' = Cur /\ Emitted' = Emitted /\ UNCHANGED <<reqs, selPc, wakeAt>>
  BY <1>1 DEF Cur, selVars, Emitted
<1>3. /\ Active' \subseteq Active
      /\ \A v \in Workers : v # w => wPc'[v] = wPc[v] /\ wTimer'[v] = wTimer[v] /\ wDoc'[v] = wDoc[v]
  BY DEF GiveUp, DialFails, DialRefused, DialOk, Rpc, RpcFails, RpcOk, WritePeer, WorkerExit,
         Dial, Goto, Hold, StartTimer, Active, TypeInv, WorkersOK
<1>4. \A v \in Active' : wDoc'[v].id = wDoc[v].id /\ wDoc'[v].lastUpdated = wDoc[v].lastUpdated
  <2>1. CASE UNCHANGED wDoc
    BY <2>1
  <2>2. CASE GiveUp(w) \/ DialRefused(w) \/ Rpc(w)
    <3>1. w \in Busy /\ wDoc[w] \in WorkDoc
      BY <2>2, Documents DEF GiveUp, DialRefused, Dial, Rpc, RpcFails, RpcOk, Busy
    <3>2. PICK e : /\ wDoc' = [wDoc EXCEPT ![w] = e]
                   /\ e.id = wDoc[w].id /\ e.lastUpdated = wDoc[w].lastUpdated
      BY <2>2, <3>1 DEF GiveUp, DialRefused, Rpc, RpcFails, RpcOk, Hold, WorkDoc, Peer
    <3> QED
      BY <3>2 DEF TypeInv, WorkersOK
  <2>3. CASE WritePeer(w)
    <3>1. w \notin Active'
      BY <2>3 DEF WritePeer, Goto, Active, TypeInv, WorkersOK
    <3> QED
      BY <1>3, <3>1 DEF Active
  <2> QED
    BY <2>1, <2>2, <2>3 DEF DialFails, DialOk, WorkerExit
<1>5. Shadowed
  BY <1>1, <1>2, <1>3, <1>4 DEF Shadowed, Flight, Queued
<1>6. FlightApart'
  BY <1>1, <1>2, <1>3, <1>4, ApartFrame DEF Uuid
<1>7. EmittedOld' /\ UniqueUuids'
  BY <1>1, <1>2, <1>5, EmittedFrame, FlightTyped
<1>8. StampsOld'
  BY <1>1, <1>2, <1>5 DEF UuidInv, StampsOld, Shadowed
<1>9. EmitsLater'
  <2>1. \A v \in Active' : v # w => /\ wPc'[v] = "retry" => wDoc'[v].lastUpdated < wTimer'[v]
                                    /\ wPc'[v] # "retry" => wDoc'[v].lastUpdated < now'
    BY <1>1, <1>3 DEF UuidInv, EmitsLater, Active
  <2>2. w \in Active' => /\ wPc'[w] = "retry" => wDoc'[w].lastUpdated < wTimer'[w]
                         /\ wPc'[w] # "retry" => wDoc'[w].lastUpdated < now'
    <3> SUFFICES ASSUME w \in Active'
                 PROVE  /\ wPc'[w] = "retry" => wDoc'[w].lastUpdated < wTimer'[w]
                        /\ wPc'[w] # "retry" => wDoc'[w].lastUpdated < now'
      OBVIOUS
    <3>1. /\ wDoc'[w].lastUpdated = wDoc[w].lastUpdated /\ wDoc[w].lastUpdated \in Nat
          /\ wDoc[w].lastUpdated <= now /\ now \in Nat /\ wTimer[w] \in Nat /\ w \in Active
      BY <1>3, <1>4, FlightTyped DEF UuidInv, StampsOld
    <3>2. CASE DialFails(w) \/ DialRefused(w) \/ RpcFails(w)
      <4>1. wPc'[w] = "retry" /\ wTimer'[w] = now + 1
        BY <3>2 DEF DialFails, DialRefused, RpcFails, Dial, StartTimer, Goto, TypeInv, WorkersOK
      <4> QED
        BY <3>1, <4>1
    <3>3. CASE DialOk(w)
      <4>1. wPc[w] = "retry" /\ now >= wTimer[w] /\ wPc'[w] = "rpc"
        BY <3>3 DEF DialOk, Dial, Goto, TypeInv, WorkersOK
      <4> QED
        BY <1>1, <3>1, <4>1 DEF UuidInv, EmitsLater
    <3>4. CASE RpcOk(w)
      <4>1. wPc[w] = "rpc" /\ wPc'[w] = "emit"
        BY <3>4 DEF RpcOk, Goto, TypeInv, WorkersOK
      <4> QED
        BY <1>1, <3>1, <4>1 DEF UuidInv, EmitsLater
    <3>5. CASE GiveUp(w) \/ WritePeer(w) \/ WorkerExit(w)
      BY <3>5 DEF GiveUp, WritePeer, WorkerExit, Goto, Active, TypeInv, WorkersOK
    <3> QED
      BY <3>2, <3>3, <3>4, <3>5 DEF Rpc
  <2> QED
    BY <2>1, <2>2 DEF EmitsLater
<1>10. IdsOK'
  <2>1. CASE WritePeer(w)
    <3>1. w \in Busy /\ wDoc[w] \in WorkDoc
      BY <2>1, Documents DEF WritePeer, Busy
    <3>2. Update(wDoc[w]) \/ Delete(wDoc[w]) \/ UNCHANGED store
      BY <2>1 DEF WritePeer, Recorded
    <3> QED
      BY <3>1, <3>2, WriteIds DEF UuidInv
  <2>2. CASE UNCHANGED store
    BY <2>2 DEF UuidInv, IdsOK, Stored
  <2> QED
    BY <2>1, <2>2 DEF GiveUp, DialFails, DialRefused, DialOk, Rpc, RpcFails, RpcOk, WorkerExit
<1> QED
  BY <1>6, <1>7, <1>8, <1>9, <1>10 DEF UuidInv

LEMMA TakeUuid ==
  ASSUME TypeInv, UuidInv, NEW w \in Workers, TakeJob(w)
  PROVE  UuidInv'
<1>1. /\ UNCHANGED <<store, ctxDone, now, reqs, selPc, wakeAt, Cur, Emitted>>
      /\ Active' = Active \cup {w} /\ w \notin Active
      /\ wPc' = [wPc EXCEPT ![w] = "retry"] /\ wTimer' = [wTimer EXCEPT ![w] = now + 1]
  BY DEF TakeJob, selVars, outVars, Goto, StartTimer, Cur, Active, Emitted, TypeInv, WorkersOK
<1>2. /\ wDoc'[w] = jobs[1] /\ 1 \in DOMAIN jobs
      /\ \A v \in Active : wDoc'[v] = wDoc[v] /\ v # w
      /\ DOMAIN jobs' = 1 .. Len(jobs) - 1 /\ Len(jobs) \in Nat /\ DOMAIN jobs = 1 .. Len(jobs)
      /\ \A i \in DOMAIN jobs' : jobs'[i] = jobs[i + 1] /\ i + 1 \in DOMAIN jobs /\ i + 1 # 1
  <2>1. jobs # <<>> /\ jobs' = Tail(jobs) /\ Hold(w, Head(jobs))
    BY DEF TakeJob
  <2>2. jobs \in Seq(Doc) /\ wDoc \in [Workers -> WorkDoc \cup {Absent}]
    BY DEF TypeInv, JobsOK, WorkersOK
  <2>3. Head(jobs) = jobs[1] /\ 1 \in DOMAIN jobs
    BY <2>1, <2>2, LenProperties
  <2>4. \A v \in Active : wDoc'[v] = wDoc[v] /\ v # w
    BY <1>1, <2>1, <2>2 DEF Hold, Active
  <2> QED
    BY <2>1, <2>2, <2>3, <2>4, HeadTailProperties, LenProperties DEF Hold
<1>3. Flight' \subseteq Flight
  BY <1>1, <1>2 DEF Flight, Queued
<1>4. FlightApart'
  <2>1. \A i, j \in DOMAIN jobs' : Uuid(jobs'[i]) = Uuid(jobs'[j]) => i = j
    BY <1>2 DEF UuidInv, FlightApart
  <2>2. \A u, v \in Active' : Uuid(wDoc'[u]) = Uuid(wDoc'[v]) => u = v
    BY <1>1, <1>2 DEF UuidInv, FlightApart
  <2>3. \A i \in DOMAIN jobs' : \A v \in Active' : Uuid(jobs'[i]) # Uuid(wDoc'[v])
    BY <1>1, <1>2 DEF UuidInv, FlightApart
  <2>4. \A d \in Cur' : /\ \A i \in DOMAIN jobs' : Uuid(jobs'[i]) # Uuid(d)
                        /\ \A v \in Active' : Uuid(wDoc'[v]) # Uuid(d)
    BY <1>1, <1>2 DEF UuidInv, FlightApart
  <2> QED
    BY <2>1, <2>2, <2>3, <2>4 DEF FlightApart, Uuid
<1>5. StampsOld'
  BY <1>1, <1>3 DEF UuidInv, StampsOld
<1>6. EmitsLater'
  <2>1. wDoc'[w].lastUpdated <= now /\ wDoc'[w].lastUpdated \in Nat /\ now \in Nat
    BY <1>2, FlightTyped DEF UuidInv, StampsOld
  <2>2. wPc'[w] = "retry" /\ wTimer'[w] = now + 1
    BY <1>1 DEF TypeInv, WorkersOK
  <2>3. \A v \in Active : wPc'[v] = wPc[v] /\ wTimer'[v] = wTimer[v]
    BY <1>1, <1>2 DEF TypeInv, WorkersOK, Active
  <2> QED
    BY <1>1, <1>2, <2>1, <2>2, <2>3 DEF UuidInv, EmitsLater
<1>7. EmittedOld' /\ UniqueUuids' /\ IdsOK'
  BY <1>1, <1>3 DEF UuidInv, EmittedOld, UniqueUuids, IdsOK, Stored, Uuid
<1> QED
  BY <1>4, <1>5, <1>6, <1>7 DEF UuidInv

(* The emitted UUID is old by now, and leaves the flight.                  *)
LEMMA EmitUuid ==
  ASSUME TypeInv, UuidInv, NEW w \in Workers, EmitOutput(w)
  PROVE  UuidInv'
<1>1. /\ UNCHANGED <<store, ctxDone, now, reqs, selPc, wakeAt, Cur, jobs, wDoc, wTimer>>
      /\ w \in Active /\ Active' = Active \ {w} /\ wPc[w] = "emit"
      /\ \A v \in Active' : wPc'[v] = wPc[v]
  BY DEF EmitOutput, selVars, Goto, Cur, Active, TypeInv, WorkersOK
<1>2. Flight' \subseteq Flight
  BY <1>1 DEF Flight, Queued
<1>3. FlightApart' /\ EmitsLater' /\ StampsOld' /\ IdsOK'
  <2>1. FlightApart'
    BY <1>1, ApartFrame
  <2>2. EmitsLater'
    BY <1>1 DEF UuidInv, EmitsLater
  <2>3. StampsOld' /\ IdsOK'
    BY <1>1, <1>2 DEF UuidInv, StampsOld, IdsOK, Stored
  <2> QED
    BY <2>1, <2>2, <2>3
<1> DEFINE u == Uuid(wDoc[w])
<1>4. /\ DOMAIN Emitted' = 1 .. Len(Emitted) + 1 /\ Emitted'[Len(Emitted) + 1] = u
      /\ \A i \in DOMAIN Emitted : Emitted'[i] = Emitted[i]
  <2>1. /\ lines \in Seq((Peers \X Nat) \cup {Null}) /\ workchan \in Seq(Peers \X Nat)
        /\ lines' = lines /\ workchan' = Append(workchan, u) /\ u \in Peers \X Nat
    BY <1>1, FlightTyped DEF EmitOutput, TypeInv, OutOK, Uuid
  <2> HIDE DEF u
  <2>2. Emitted' = Append(Emitted, u)
    BY <2>1 DEF Emitted
  <2> QED
    BY <2>2, EmittedTyped
<1>5. /\ u[2] < now /\ \A i \in DOMAIN Emitted : Emitted[i] # Null => Emitted[i] # u
      /\ \A e \in Flight' : Uuid(e) # u
  <2>1. u[2] < now
    BY <1>1 DEF UuidInv, EmitsLater, Uuid
  <2>2. \A i \in DOMAIN Emitted : Emitted[i] # Null => Emitted[i] # u
    BY <1>1, FlightTyped DEF UuidInv, EmittedOld
  <2>3. \A e \in Flight' : Uuid(e) # u
    <3>1. \A e \in Cur : Uuid(e) # u
      BY <1>1 DEF UuidInv, FlightApart
    <3>2. \A i \in DOMAIN jobs : Uuid(jobs[i]) # u
      BY <1>1 DEF UuidInv, FlightApart
    <3>3. \A v \in Active \ {w} : Uuid(wDoc[v]) # u
      BY <1>1 DEF UuidInv, FlightApart
    <3> QED
      BY <1>1, <3>1, <3>2, <3>3 DEF Flight, Queued
  <2> QED
    BY <2>1, <2>2, <2>3
<1> HIDE DEF u
<1>6. EmittedOld'
  <2> SUFFICES ASSUME NEW i \in DOMAIN Emitted', Emitted'[i] # Null
               PROVE  Emitted'[i][2] < now' /\ \A e \in Flight' : Emitted'[i] # Uuid(e)
    BY DEF EmittedOld, Uuid
  <2>1. CASE i \in DOMAIN Emitted
    <3>1. Emitted'[i] = Emitted[i]
      BY <1>4, <2>1
    <3> QED
      BY <1>1, <1>2, <2>1, <3>1 DEF UuidInv, EmittedOld
  <2>2. CASE i = Len(Emitted) + 1
    BY <1>1, <1>4, <1>5, <2>2
  <2> QED
    BY <1>4, <2>1, <2>2, EmittedTyped
<1>7. UniqueUuids'
  BY <1>4, <1>5, EmittedTyped DEF UuidInv, UniqueUuids
<1> QED
  BY <1>3, <1>6, <1>7 DEF UuidInv

LEMMA UuidStep == TypeInv /\ UuidInv /\ [Next]_vars => UuidInv'
<1> SUFFICES ASSUME TypeInv, UuidInv, [Next]_vars PROVE UuidInv'
  OBVIOUS
<1>1. CASE Discovery
  BY <1>1, InsertUuid
<1>2. CASE Selector
  BY <1>2, ListUuid, PauseUuid, StampUuid, SendUuid DEF Selector
<1>3. ASSUME NEW w \in Workers, Worker(w) PROVE UuidInv'
  BY <1>3, TakeUuid, EmitUuid, HeldUuid DEF Worker
<1>4. CASE Writer
  BY <1>4, WriterUuid
<1>5. CASE Environment
  BY <1>5, EnvironmentUuid, CrashUuid DEF Environment
<1>6. CASE UNCHANGED vars
  <2>1. UNCHANGED <<jobs, wPc, wDoc, wTimer, lines, workchan, now, ctxDone, store, reqs, selPc,
                    wakeAt, Cur>>
    BY <1>6 DEF vars, selVars, workerVars, outVars, Cur
  <2>2. /\ FlightApart' /\ EmitsLater' /\ EmittedOld' /\ UniqueUuids'
        /\ Flight' \subseteq Flight
    BY <2>1, QuietUuid, FlightTyped
  <2>3. StampsOld' /\ IdsOK'
    BY <2>1, <2>2 DEF UuidInv, StampsOld, IdsOK, Stored
  <2> QED
    BY <2>2, <2>3 DEF UuidInv
<1> QED
  BY <1>1, <1>2, <1>3, <1>4, <1>5, <1>6 DEF Next

(* No two lines ever have the same UUID, over restarts and rounds of any   *)
(* length (crawl.go, 292-298).                                             *)
THEOREM UuidsUnique == Spec => []UniqueUuids
<1>1. UuidInv => UniqueUuids
  BY DEF UuidInv
<1> QED
  BY <1>1, UuidInit, UuidStep, TypeInvAlways, PTL DEF Spec
=============================================================================
