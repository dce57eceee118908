-------------------------- MODULE LifecycleProofs --------------------------
(***************************************************************************)
(* The end of the process, for any configurations, any number of workers   *)
(* and of outcomes: the WaitGroup and the gauge, and what a return of main *)
(* means.                                                                  *)
(***************************************************************************)
EXTENDS Lifecycle, FiniteSetTheorems, SequenceTheorems, TLAPS
-----------------------------------------------------------------------------
(* The control of the goroutines *)

Control ==
  /\ proc \in {"up", "returned", "fatal", "panic"}
  /\ cause \in {"none", "config", "network", "initialize", "reused", "closed", "job"}
  /\ mainPc \in {"load", "stores", "file", "spawn", "await", "cancel", "wait",
                 "blocked", "released"}
  /\ httpPc \in {"off", "starting", "listen", "serve", "done"}
  /\ startPc \in {"off", "network", "disc", "host", "updater", "output", "cron", "done"}
  /\ selPc \in {"off", "spawn", "run", "wait", "done"}
  /\ outOn \in {"off", "starting", "on"}
  /\ outPc \in {"run", "drain", "done"}
  /\ monPc \in {"off", "run", "done"}

(* What has been started, and what has not.                                *)
Starting ==
  /\ mainPc \in {"load", "stores", "file", "spawn"} => httpPc = "off" /\ startPc = "off"
  /\ startPc \in {"cron", "done", "output"} <=> selPc # "off"
  /\ startPc \in {"cron", "done"} <=> outOn # "off"
  /\ outOn = "on" <=> monPc # "off"
  /\ outOn # "on" => outPc = "run"
  /\ complete => AllJoined

(* Main is released, and returns, on a counter of zero: with a complete    *)
(* start-up it stays there.                                                *)
Returning ==
  /\ mainPc = "released" /\ complete => wg = 0
  /\ proc = "returned" => wg = 0
  /\ proc = "panic" => cause # "closed" /\ cause # "none" /\ (cause = "reused" => ~complete)

ControlInv == Control /\ Starting /\ CounterBalanced /\ Returning

(* The workers are there between the start of the pool and its end.        *)
Stopping ==
  /\ wPc \in [Workers -> {"off", "idle", "send", "exited"}]
  /\ selPc \in {"off", "spawn"} => \A w \in Workers : wPc[w] = "off"
  /\ closed <=> selPc = "done"
  /\ selPc = "done" => \A w \in Workers : wPc[w] = "exited"
  /\ outPc = "done" => closed /\ workchan = <<>> /\ flushed = Len(lines)

(* Every outcome is in the channel, on its way there, or a line.           *)
Sending == {w \in Workers : wPc[w] = "send"}

Accounts ==
  /\ workchan \in Seq(Nat) /\ Len(workchan) <= WorkChanCap
  /\ wItem \in [Workers -> Nat]
  /\ lines \in Seq(Nat \cup {Null}) /\ drained \in Seq(Nat)
  /\ gauge \in Int /\ emitted \in 0 .. MaxItems /\ jobs \in 0 .. MaxJobs
  /\ GaugeAccounts
  /\ emitted = Len(workchan) + Cardinality(Sending) + Len(lines) - Cardinality(NullLines)

LInv == ControlInv /\ Stopping /\ Accounts

(* What is left alone by the steps that only start or end something.       *)
itemVars == <<wPc, wItem, workchan, lines, drained, gauge, emitted>>
-----------------------------------------------------------------------------
LEMMA LifecycleInit == LInit => LInv
<1> SUFFICES ASSUME LInit PROVE LInv
  OBVIOUS
<1> USE DEF LInit, OutputInit
<1>1. ControlInv
  BY DEF ControlInv, Control, Starting, CounterBalanced, Live, Returning, AllJoined
<1>2. Stopping
  BY DEF Stopping
<1>3. Sending = {} /\ NullLines = {}
  BY DEF Sending, NullLines
<1>4. Cardinality(Sending) = 0 /\ Cardinality(NullLines) = 0
  BY <1>3, FS_EmptySet
<1>5. workchan \in Seq(Nat) /\ lines \in Seq(Nat \cup {Null}) /\ drained \in Seq(Nat)
  OBVIOUS
<1>6. Accounts
  BY <1>4, <1>5, OutputAssumption, LifecycleAssumption DEF Accounts, GaugeAccounts, Sending
<1> QED
  BY <1>1, <1>2, <1>6 DEF LInv

(* The steps of main, the HTTP server and the start-up.                    *)
LEMMA MainControl ==
  ASSUME ControlInv, proc = "up", Signal \/ Main
  PROVE  ControlInv'
<1> USE DEF ControlInv, Control, Starting, CounterBalanced, Live, Returning, AllJoined,
            Goto, Panic, Fatal, Others, httpVars, poolVars, outVars, teeVars
<1>1. CASE Signal
  BY <1>1 DEF Signal
<1>2. CASE LoadConfig
  <2>1. PICK env \in BOOLEAN :
          CASE Load(cfg, env) = "ok"    -> Goto("stores")
            [] Load(cfg, env) = "error" -> Fatal
            [] Load(cfg, env) = "panic" -> Panic("config")
    BY <1>2 DEF LoadConfig
  <2>2. Load(cfg, env) \in {"ok", "error", "panic"}
    BY DEF Load
  <2>3. Goto("stores") \/ Fatal \/ Panic("config")
    BY <2>1, <2>2, Zenon
  <2> QED
    BY <1>2, <2>3 DEF LoadConfig
<1>3. CASE OpenStores
  BY <1>3 DEF OpenStores
<1>4. CASE OpenFile
  BY <1>4 DEF OpenFile
<1>5. CASE Spawn
  BY <1>5 DEF Spawn
<1>6. CASE Receives
  BY <1>6 DEF Receives
<1>7. CASE Cancels
  BY <1>7 DEF Cancels
<1>8. CASE Waits
  <2> HIDE DEF AllJoined
  <2>1. complete' => AllJoined
    BY <1>8 DEF Waits
  <2>2. AllJoined' <=> AllJoined
    BY <1>8 DEF Waits, AllJoined
  <2> QED
    BY <1>8, <2>1, <2>2 DEF Waits
<1>9. CASE Returns
  BY <1>9 DEF Returns
<1> QED
  BY <1>1, <1>2, <1>3, <1>4, <1>5, <1>6, <1>7, <1>8, <1>9 DEF Main

LEMMA StartControl ==
  ASSUME ControlInv, proc = "up", Http \/ HttpEnds \/ Start
  PROVE  ControlInv'
<1> USE DEF ControlInv, Control, Starting, CounterBalanced, Live, Returning, AllJoined,
            Panic, Fatal, Join, Done, Rest1, Rest2, mainVars, httpVars, poolVars, outVars,
            teeVars
<1>1. CASE HttpJoins
  BY <1>1 DEF HttpJoins
<1>2. CASE HttpListens
  BY <1>2 DEF HttpListens
<1>3. CASE HttpEnds
  BY <1>3 DEF HttpEnds
<1>4. CASE HttpShutdown
  BY <1>4 DEF HttpShutdown
<1>5. CASE StartNetwork
  BY <1>5 DEF StartNetwork
<1>6. CASE StartHosts
  BY <1>6 DEF StartHosts
<1>7. CASE StartUpdater
  BY <1>7 DEF StartUpdater
<1>8. CASE StartOutput
  BY <1>8 DEF StartOutput
<1>9. CASE StartCron
  BY <1>9 DEF StartCron
<1> QED
  BY <1>1, <1>2, <1>3, <1>4, <1>5, <1>6, <1>7, <1>8, <1>9 DEF Http, Start

(* The steps of the selector, the workers, the output and the job.         *)
LEMMA WorkControl ==
  ASSUME ControlInv, Stopping, proc = "up",
         Updater \/ Writer \/ MonitorEnds \/ Job \/ \E w \in Workers : Worker(w)
  PROVE  ControlInv'
<1> USE DEF ControlInv, Control, Starting, CounterBalanced, Live, Returning, AllJoined,
            Panic, Join, Done, Rest3, Rest4, mainVars, httpVars, poolVars, outVars, teeVars
<1>1. CASE StartPool
  BY <1>1 DEF StartPool
<1>2. CASE StopsSelecting
  BY <1>2 DEF StopsSelecting
<1>3. CASE ClosesChannel
  BY <1>3 DEF ClosesChannel
<1>4. CASE OutputJoins
  BY <1>4 DEF OutputJoins
<1>5. CASE ReceivesItem
  BY <1>5 DEF ReceivesItem, Receive, ReceiveClosed
<1>6. CASE BeginsDrain
  BY <1>6 DEF BeginsDrain, StartDrain
<1>7. CASE Drains
  BY <1>7 DEF Drains, Drain
<1>8. CASE EndsDrain
  BY <1>8 DEF EndsDrain, FinishDrain
<1>9. CASE MonitorEnds
  BY <1>9 DEF MonitorEnds
<1>10. CASE Job
  BY <1>10 DEF Job
<1>11. ASSUME NEW w \in Workers, Worker(w)
       PROVE  ControlInv'
  <2>1. CASE Emit(w)
    BY <2>1 DEF Emit
  <2>2. CASE WorkerExits(w)
    BY <2>2 DEF WorkerExits
  <2>3. CASE Send(w)
    <3>1. ~closed
      BY <2>3 DEF Send, Stopping
    <3> QED
      BY <2>3, <3>1 DEF Send
  <2> QED
    BY <1>11, <2>1, <2>2, <2>3 DEF Worker
<1> QED
  BY <1>1, <1>2, <1>3, <1>4, <1>5, <1>6, <1>7, <1>8, <1>9, <1>10, <1>11
  DEF Updater, Writer
-----------------------------------------------------------------------------
(* The pool and the channel *)

LEMMA StoppingKept ==
  ASSUME LInv, UNCHANGED <<wPc, closed, workchan, flushed, lines, outPc>>,
         selPc' \in {"off", "spawn"} => selPc \in {"off", "spawn"},
         selPc' = "done" <=> selPc = "done"
  PROVE  Stopping'
BY DEF LInv, Stopping

LEMMA PoolStep ==
  ASSUME LInv, proc = "up", Updater \/ \E w \in Workers : Worker(w)
  PROVE  Stopping'
<1> USE DEF LInv, Stopping, ControlInv, Control, Starting, Panic, Done, Rest3, mainVars,
            httpVars, outVars
<1>1. CASE StartPool
  BY <1>1 DEF StartPool
<1>2. CASE StopsSelecting
  BY <1>2 DEF StopsSelecting
<1>3. CASE ClosesChannel
  BY <1>3 DEF ClosesChannel
<1>4. ASSUME NEW w \in Workers, Worker(w)
      PROVE  Stopping'
  <2>1. CASE Emit(w)
    BY <1>4, <2>1 DEF Emit
  <2>2. CASE WorkerExits(w)
    BY <1>4, <2>2 DEF WorkerExits
  <2>3. CASE Send(w)
    BY <1>4, <2>3 DEF Send
  <2> QED
    BY <1>4, <2>1, <2>2, <2>3 DEF Worker
<1> QED
  BY <1>1, <1>2, <1>3, <1>4 DEF Updater

LEMMA WriterStep ==
  ASSUME LInv, proc = "up", Writer
  PROVE  Stopping'
<1> USE DEF LInv, Stopping, ControlInv, Control, Starting, Done, Join, Rest4, mainVars,
            poolVars, outVars
<1>1. CASE OutputJoins
  BY <1>1 DEF OutputJoins
<1>2. CASE ReceivesItem
  BY <1>2 DEF ReceivesItem, Receive, ReceiveClosed
<1>3. CASE BeginsDrain
  BY <1>3 DEF BeginsDrain, StartDrain
<1>4. CASE Drains
  BY <1>4 DEF Drains, Drain
<1>5. CASE EndsDrain
  BY <1>5 DEF EndsDrain, FinishDrain
<1> QED
  BY <1>1, <1>2, <1>3, <1>4, <1>5 DEF Writer
-----------------------------------------------------------------------------
(* The items *)

LEMMA AccountsKept ==
  ASSUME Accounts, UNCHANGED itemVars, jobs' \in 0 .. MaxJobs
  PROVE  Accounts'
<1>1. Sending' = Sending /\ NullLines' = NullLines
  BY DEF itemVars, Sending, NullLines
<1> QED
  BY <1>1 DEF Accounts, GaugeAccounts, itemVars, Sending

LEMMA SendingFinite == IsFiniteSet(Sending) /\ Cardinality(Sending) \in Nat
<1>1. Sending \subseteq Workers
  BY DEF Sending
<1> QED
  BY <1>1, FS_Subset, FS_CardinalityType, LifecycleAssumption

LEMMA NullLinesFinite ==
  ASSUME lines \in Seq(Nat \cup {Null})
  PROVE  IsFiniteSet(NullLines) /\ Cardinality(NullLines) \in Nat
<1>1. NullLines \subseteq 1 .. Len(lines) /\ 1 \in Int /\ Len(lines) \in Int
  BY DEF NullLines
<1> QED
  BY <1>1, FS_Subset, FS_CardinalityType, FS_Interval

(* A line is appended: an outcome, or a nil.                               *)
LEMMA LineAppended ==
  ASSUME lines \in Seq(Nat \cup {Null}), NEW item \in Nat \cup {Null},
         lines' = Append(lines, item)
  PROVE  /\ lines' \in Seq(Nat \cup {Null}) /\ Len(lines') = Len(lines) + 1
         /\ Cardinality(NullLines') = Cardinality(NullLines) + IF item = Null THEN 1 ELSE 0
<1>1. /\ lines' \in Seq(Nat \cup {Null}) /\ Len(lines') = Len(lines) + 1
      /\ Len(lines) \in Nat
      /\ \A i \in 1 .. Len(lines) : lines'[i] = lines[i]
      /\ lines'[Len(lines) + 1] = item
  OBVIOUS
<1>2. IsFiniteSet(NullLines) /\ Cardinality(NullLines) \in Nat
  BY NullLinesFinite
<1>3. CASE item = Null
  <2>1. NullLines' = NullLines \cup {Len(lines) + 1} /\ Len(lines) + 1 \notin NullLines
    BY <1>1, <1>3 DEF NullLines
  <2>2. Cardinality(NullLines') = Cardinality(NullLines) + 1
    BY <1>2, <2>1, FS_AddElement
  <2> QED
    BY <1>1, <1>3, <2>2
<1>4. CASE item # Null
  <2>1. NullLines' = NullLines
    BY <1>1, <1>4 DEF NullLines
  <2> QED
    BY <1>1, <1>2, <1>4, <2>1
<1> QED
  BY <1>3, <1>4

(* The two equations of Accounts, on the numbers they are about, before    *)
(* and after a step.                                                       *)
LEMMA Sums ==
  /\ GaugeAccounts <=> gauge = Len(workchan) + Cardinality(Sending) + Len(drained)
                               - Cardinality(NullLines)
  /\ GaugeAccounts' <=> gauge' = Len(workchan') + Cardinality(Sending') + Len(drained')
                                 - Cardinality(NullLines')
BY DEF GaugeAccounts, Sending

LEMMA Lengths ==
  ASSUME Accounts
  PROVE  /\ Len(workchan) \in Nat /\ Len(lines) \in Nat /\ Len(drained) \in Nat
         /\ Cardinality(Sending) \in Nat /\ Cardinality(NullLines) \in Nat
         /\ gauge \in Int /\ emitted \in Nat
<1>1. Len(workchan) \in Nat /\ Len(lines) \in Nat /\ Len(drained) \in Nat
  BY DEF Accounts
<1>2. Cardinality(Sending) \in Nat /\ Cardinality(NullLines) \in Nat
  BY SendingFinite, NullLinesFinite DEF Accounts
<1>3. gauge \in Int /\ emitted \in Nat
  BY LifecycleAssumption DEF Accounts
<1> QED
  BY <1>1, <1>2, <1>3

LEMMA PoolAccounts ==
  ASSUME LInv, proc = "up", NEW w \in Workers, Worker(w)
  PROVE  Accounts'
<1>1. IsFiniteSet(Sending) /\ Cardinality(Sending) \in Nat
  BY SendingFinite
<1>2. /\ Accounts /\ wPc \in [Workers -> {"off", "idle", "send", "exited"}]
      /\ Cardinality(NullLines) \in Nat
  BY NullLinesFinite DEF LInv, Stopping, Accounts
<1>3. CASE Emit(w)
  <2>1. Sending' = Sending \cup {w} /\ w \notin Sending
    BY <1>2, <1>3 DEF Emit, Sending
  <2>2. Cardinality(Sending') = Cardinality(Sending) + 1
    BY <1>1, <2>1, FS_AddElement
  <2>3. UNCHANGED <<workchan, lines, drained, jobs>> /\ gauge' = gauge + 1
        /\ emitted' = emitted + 1 /\ emitted < MaxItems
    BY <1>3 DEF Emit, outVars, Rest3
  <2>4. NullLines' = NullLines
    BY <2>3 DEF NullLines
  <2>5. wItem' \in [Workers -> Nat]
    BY <1>2, <1>3, LifecycleAssumption DEF Emit, Accounts
  <2>6. emitted' \in 0 .. MaxItems /\ gauge' \in Int
    BY <1>2, <2>3, LifecycleAssumption DEF Accounts
  <2>7. GaugeAccounts'
    <3>1. gauge = Len(workchan) + Cardinality(Sending) + Len(drained) - Cardinality(NullLines)
      BY <1>2, Sums DEF Accounts
    <3>2. gauge' = Len(workchan') + Cardinality(Sending') + Len(drained') - Cardinality(NullLines')
      BY <1>2, <2>2, <2>3, <2>4, <3>1, Lengths
    <3> QED
      BY <3>2, Sums
  <2>8. emitted' = Len(workchan') + Cardinality(Sending') + Len(lines') - Cardinality(NullLines')
    BY <1>1, <1>2, <2>2, <2>3, <2>4 DEF Accounts
  <2> QED
    BY <1>2, <2>3, <2>5, <2>6, <2>7, <2>8 DEF Accounts
<1>4. CASE WorkerExits(w)
  <2>1. Sending' = Sending
    BY <1>2, <1>4 DEF WorkerExits, Sending
  <2>2. UNCHANGED <<workchan, lines, drained, jobs, gauge, emitted, wItem>>
    BY <1>4 DEF WorkerExits, outVars, Rest3
  <2>3. NullLines' = NullLines
    BY <2>2 DEF NullLines
  <2> QED
    BY <1>2, <2>1, <2>2, <2>3 DEF Accounts, GaugeAccounts, Sending
<1>5. CASE Send(w)
  <2>1. CASE closed
    BY <1>2, <1>5, <2>1 DEF Send, LInv, Stopping
  <2>2. CASE ~closed
    <3>1. /\ wPc[w] = "send" /\ Len(workchan) < WorkChanCap
          /\ workchan' = Append(workchan, wItem[w])
          /\ wPc' = [wPc EXCEPT ![w] = "idle"] /\ wItem' = [wItem EXCEPT ![w] = 0]
          /\ UNCHANGED <<lines, drained, jobs, gauge, emitted>>
      BY <1>5, <2>2 DEF Send, Rest3
    <3>2. Sending' = Sending \ {w} /\ w \in Sending
      BY <1>2, <3>1 DEF Sending
    <3>3. Cardinality(Sending') = Cardinality(Sending) - 1
      BY <1>1, <3>2, FS_RemoveElement
    <3>4. NullLines' = NullLines
      BY <3>1 DEF NullLines
    <3>5. /\ workchan' \in Seq(Nat) /\ Len(workchan') = Len(workchan) + 1
          /\ wItem' \in [Workers -> Nat]
      BY <1>2, <3>1 DEF Accounts
    <3>6. Len(workchan') <= WorkChanCap
      BY <1>2, <3>1, <3>5, OutputAssumption DEF Accounts
    <3>7. GaugeAccounts'
      BY <1>1, <1>2, <3>1, <3>3, <3>4, <3>5 DEF Accounts, GaugeAccounts, Sending
    <3>8. emitted' = Len(workchan') + Cardinality(Sending') + Len(lines') - Cardinality(NullLines')
      BY <1>1, <1>2, <3>1, <3>3, <3>4, <3>5 DEF Accounts
    <3> QED
      BY <1>2, <3>1, <3>5, <3>6, <3>7, <3>8 DEF Accounts
  <2> QED
    BY <2>1, <2>2
<1> QED
  BY <1>3, <1>4, <1>5 DEF Worker

(* What is taken from the channel becomes a line.                          *)
LEMMA TakenLine ==
  ASSUME Accounts, workchan # <<>>, workchan' = Tail(workchan),
         lines' = Append(lines, Head(workchan))
  PROVE  /\ Head(workchan) \in Nat
         /\ workchan' \in Seq(Nat) /\ Len(workchan') = Len(workchan) - 1
         /\ lines' \in Seq(Nat \cup {Null}) /\ Len(lines') = Len(lines) + 1
         /\ Cardinality(NullLines') = Cardinality(NullLines)
         /\ Cardinality(NullLines) \in Nat
<1>1. Head(workchan) \in Nat /\ workchan' \in Seq(Nat) /\ Len(workchan') = Len(workchan) - 1
  BY DEF Accounts
<1>2. Head(workchan) # Null
  BY <1>1, LifecycleAssumption
<1>3. lines \in Seq(Nat \cup {Null}) /\ Head(workchan) \in Nat \cup {Null}
  BY <1>1 DEF Accounts
<1>4. Cardinality(NullLines) \in Nat
  BY <1>3, NullLinesFinite
<1> QED
  BY <1>1, <1>2, <1>3, <1>4, LineAppended

LEMMA WriterAccounts ==
  ASSUME LInv, proc = "up", ReceivesItem \/ Drains
  PROVE  Accounts'
<1>1. Accounts /\ lines \in Seq(Nat \cup {Null})
  BY DEF LInv, Accounts
<1>2. UNCHANGED <<wPc, wItem, emitted, jobs>>
  BY DEF ReceivesItem, Drains, Rest4, poolVars
<1>3. Sending' = Sending /\ Cardinality(Sending) \in Nat
  BY <1>2, SendingFinite DEF Sending
<1>4. CASE ReceivesItem /\ Receive
  <2>1. /\ workchan # <<>> /\ workchan' = Tail(workchan)
        /\ lines' = Append(lines, Head(workchan))
        /\ gauge' = gauge - 1 /\ drained' = drained
    BY <1>4 DEF ReceivesItem, Receive, WriteLine
  <2>2. /\ workchan' \in Seq(Nat) /\ Len(workchan') = Len(workchan) - 1
        /\ lines' \in Seq(Nat \cup {Null}) /\ Len(lines') = Len(lines) + 1
        /\ Cardinality(NullLines') = Cardinality(NullLines)
        /\ Cardinality(NullLines) \in Nat
    BY <1>1, <2>1, TakenLine
  <2>5. gauge = Len(workchan) + Cardinality(Sending) + Len(drained) - Cardinality(NullLines)
    BY <1>1, Sums DEF Accounts
  <2>6. emitted = Len(workchan) + Cardinality(Sending) + Len(lines) - Cardinality(NullLines)
    BY <1>1 DEF Accounts
  <2>7. gauge' = Len(workchan') + Cardinality(Sending') + Len(drained') - Cardinality(NullLines')
    BY <1>1, <1>2, <1>3, <2>1, <2>2, <2>5, Lengths
  <2>8. emitted' = Len(workchan') + Cardinality(Sending') + Len(lines') - Cardinality(NullLines')
    BY <1>1, <1>2, <1>3, <2>1, <2>2, <2>6, Lengths
  <2>9. workchan' \in Seq(Nat) /\ Len(workchan') <= WorkChanCap
    BY <1>1, <2>1, <2>2, Lengths, OutputAssumption DEF Accounts
  <2>10. /\ wItem' \in [Workers -> Nat] /\ gauge' \in Int
         /\ emitted' \in 0 .. MaxItems /\ jobs' \in 0 .. MaxJobs /\ drained' \in Seq(Nat)
    BY <1>1, <1>2, <2>1, <2>2, Lengths DEF Accounts
  <2> QED
    BY <2>1, <2>2, <2>7, <2>8, <2>9, <2>10, Sums DEF Accounts
<1>5. CASE ReceivesItem /\ ReceiveClosed
  <2>1. /\ workchan' = workchan /\ lines' = Append(lines, Null)
        /\ gauge' = gauge - 1 /\ drained' = drained
    BY <1>5 DEF ReceivesItem, ReceiveClosed, WriteLine
  <2>2. /\ lines' \in Seq(Nat \cup {Null}) /\ Len(lines') = Len(lines) + 1
        /\ Cardinality(NullLines') = Cardinality(NullLines) + 1
        /\ Cardinality(NullLines) \in Nat
    BY <1>1, <2>1, LineAppended, NullLinesFinite
  <2>5. gauge = Len(workchan) + Cardinality(Sending) + Len(drained) - Cardinality(NullLines)
    BY <1>1, Sums DEF Accounts
  <2>6. emitted = Len(workchan) + Cardinality(Sending) + Len(lines) - Cardinality(NullLines)
    BY <1>1 DEF Accounts
  <2>7. gauge' = Len(workchan') + Cardinality(Sending') + Len(drained') - Cardinality(NullLines')
    BY <1>1, <1>2, <1>3, <2>1, <2>2, <2>5, Lengths
  <2>8. emitted' = Len(workchan') + Cardinality(Sending') + Len(lines') - Cardinality(NullLines')
    BY <1>1, <1>2, <1>3, <2>1, <2>2, <2>6, Lengths
  <2>9. workchan' \in Seq(Nat) /\ Len(workchan') <= WorkChanCap
    BY <1>1, <2>1, <2>2, Lengths, OutputAssumption DEF Accounts
  <2>10. /\ wItem' \in [Workers -> Nat] /\ gauge' \in Int
         /\ emitted' \in 0 .. MaxItems /\ jobs' \in 0 .. MaxJobs /\ drained' \in Seq(Nat)
    BY <1>1, <1>2, <2>1, <2>2, Lengths DEF Accounts
  <2> QED
    BY <2>1, <2>2, <2>7, <2>8, <2>9, <2>10, Sums DEF Accounts
<1>6. CASE Drains
  <2>1. /\ workchan # <<>> /\ workchan' = Tail(workchan)
        /\ lines' = Append(lines, Head(workchan))
        /\ gauge' = gauge /\ drained' = Append(drained, Head(workchan))
    BY <1>6 DEF Drains, Drain, WriteLine
  <2>2. /\ workchan' \in Seq(Nat) /\ Len(workchan') = Len(workchan) - 1
        /\ lines' \in Seq(Nat \cup {Null}) /\ Len(lines') = Len(lines) + 1
        /\ Cardinality(NullLines') = Cardinality(NullLines)
        /\ Cardinality(NullLines) \in Nat /\ Head(workchan) \in Nat
    BY <1>1, <2>1, TakenLine
  <2>3. drained' \in Seq(Nat) /\ Len(drained') = Len(drained) + 1
    BY <1>1, <2>1, <2>2 DEF Accounts
  <2>5. gauge = Len(workchan) + Cardinality(Sending) + Len(drained) - Cardinality(NullLines)
    BY <1>1, Sums DEF Accounts
  <2>6. emitted = Len(workchan) + Cardinality(Sending) + Len(lines) - Cardinality(NullLines)
    BY <1>1 DEF Accounts
  <2>7. gauge' = Len(workchan') + Cardinality(Sending') + Len(drained') - Cardinality(NullLines')
    BY <1>1, <1>2, <1>3, <2>1, <2>2, <2>3, <2>5, Lengths
  <2>8. emitted' = Len(workchan') + Cardinality(Sending') + Len(lines') - Cardinality(NullLines')
    BY <1>1, <1>2, <1>3, <2>1, <2>2, <2>3, <2>6, Lengths
  <2>9. workchan' \in Seq(Nat) /\ Len(workchan') <= WorkChanCap
    BY <1>1, <2>1, <2>2, <2>3, Lengths, OutputAssumption DEF Accounts
  <2>10. /\ wItem' \in [Workers -> Nat] /\ gauge' \in Int
         /\ emitted' \in 0 .. MaxItems /\ jobs' \in 0 .. MaxJobs /\ drained' \in Seq(Nat)
    BY <1>1, <1>2, <2>1, <2>2, <2>3, Lengths DEF Accounts
  <2> QED
    BY <2>1, <2>2, <2>3, <2>7, <2>8, <2>9, <2>10, Sums DEF Accounts
<1> QED
  BY <1>4, <1>5, <1>6 DEF ReceivesItem
-----------------------------------------------------------------------------
LEMMA LifecycleStep == LInv /\ [LNext]_lvars => LInv'
<1> SUFFICES ASSUME LInv, [LNext]_lvars PROVE LInv'
  OBVIOUS
<1>1. CASE UNCHANGED lvars
  <2> USE <1>1 DEF lvars, mainVars, httpVars, poolVars, outVars, teeVars
  <2>1. ControlInv'
    BY DEF LInv, ControlInv, Control, Starting, AllJoined, CounterBalanced, Returning
  <2>2. Stopping' /\ UNCHANGED itemVars /\ UNCHANGED jobs
    BY DEF LInv, Stopping, itemVars
  <2> QED
    BY <2>1, <2>2, AccountsKept DEF LInv, Accounts
<1>2. CASE LNext
  <2>0. proc = "up" /\ ControlInv /\ Stopping /\ Accounts
    BY <1>2 DEF LNext, LInv
  <2>1. CASE Signal \/ Main
    <3>1. UNCHANGED <<itemVars, closed, flushed, outPc, jobs>>
          /\ selPc' = selPc
      BY <2>1 DEF Signal, Main, LoadConfig, OpenStores, OpenFile, Spawn, Receives, Cancels,
                  Waits, Returns, Others, itemVars, poolVars, outVars, teeVars
    <3>2. Stopping'
      BY <3>1, StoppingKept DEF itemVars
    <3>3. Accounts'
      BY <2>0, <3>1, AccountsKept DEF Accounts
    <3> QED
      BY <2>0, <2>1, <3>2, <3>3, MainControl DEF LInv
  <2>2. CASE Http \/ HttpEnds \/ Start
    <3>1. UNCHANGED <<itemVars, closed, flushed, outPc, jobs>>
          /\ (selPc' = selPc \/ (selPc = "off" /\ selPc' = "spawn"))
      BY <2>0, <2>2
      DEF Http, HttpJoins, HttpListens, HttpEnds, HttpShutdown, Start, StartNetwork,
          StartHosts, StartUpdater, StartOutput, StartCron, Rest1, Rest2, itemVars,
          poolVars, outVars, teeVars, ControlInv, Control, Starting
    <3>2. Stopping'
      BY <3>1, StoppingKept DEF itemVars
    <3>3. Accounts'
      BY <2>0, <3>1, AccountsKept DEF Accounts
    <3> QED
      BY <2>0, <2>2, <3>2, <3>3, StartControl DEF LInv
  <2>3. CASE Updater
    <3>1. CASE StartPool
      <4>1. Sending' = Sending
        BY <2>0, <3>1 DEF StartPool, Sending, Stopping
      <4>2. UNCHANGED <<wItem, workchan, lines, drained, gauge, emitted, jobs>>
        BY <3>1 DEF StartPool, outVars, Rest3
      <4>3. NullLines' = NullLines
        BY <4>2 DEF NullLines
      <4>4. Accounts'
        BY <2>0, <4>1, <4>2, <4>3 DEF Accounts, GaugeAccounts, Sending
      <4> QED
        BY <2>0, <2>3, <4>4, WorkControl, PoolStep DEF LInv
    <3>2. CASE StopsSelecting \/ ClosesChannel
      <4>1. UNCHANGED itemVars /\ UNCHANGED jobs
        BY <3>2 DEF StopsSelecting, ClosesChannel, itemVars, outVars, Rest3
      <4>2. Accounts'
        BY <2>0, <4>1, AccountsKept DEF Accounts
      <4> QED
        BY <2>0, <2>3, <4>2, WorkControl, PoolStep DEF LInv
    <3> QED
      BY <2>3, <3>1, <3>2 DEF Updater
  <2>4. CASE Writer
    <3>1. CASE ReceivesItem \/ Drains
      BY <2>0, <2>4, <3>1, WriterAccounts, WorkControl, WriterStep DEF LInv
    <3>2. CASE OutputJoins \/ BeginsDrain \/ EndsDrain
      <4>1. UNCHANGED itemVars /\ UNCHANGED jobs
        BY <3>2 DEF OutputJoins, BeginsDrain, EndsDrain, StartDrain, FinishDrain, itemVars,
                    outVars, teeVars, poolVars, Rest4
      <4>2. Accounts'
        BY <2>0, <4>1, AccountsKept DEF Accounts
      <4> QED
        BY <2>0, <2>4, <4>2, WorkControl, WriterStep DEF LInv
    <3> QED
      BY <2>4, <3>1, <3>2 DEF Writer
  <2>5. CASE MonitorEnds \/ Job
    <3>1. UNCHANGED <<itemVars, closed, flushed, outPc, selPc>> /\ jobs' \in 0 .. MaxJobs
      BY <2>0, <2>5, LifecycleAssumption
      DEF MonitorEnds, Job, itemVars, poolVars, outVars, teeVars, Rest4, Accounts
    <3>2. Stopping'
      BY <3>1, StoppingKept DEF itemVars
    <3>3. Accounts'
      BY <2>0, <3>1, AccountsKept
    <3> QED
      BY <2>0, <2>5, <3>2, <3>3, WorkControl DEF LInv
  <2>6. CASE \E w \in Workers : Worker(w)
    BY <2>0, <2>6, PoolAccounts, PoolStep, WorkControl DEF LInv
  <2> QED
    BY <1>2, <2>1, <2>2, <2>3, <2>4, <2>5, <2>6 DEF LNext
<1> QED
  BY <1>1, <1>2

LEMMA LifecycleInvariant == LSpec => []LInv
  BY LifecycleInit, LifecycleStep, PTL DEF LSpec

(* Every variable of the process keeps its type (main.go, http.go,         *)
(* service.go, file.go).                                                   *)
THEOREM ProcessTypeCorrect == LSpec => []LTypeOK
<1>1. LInv => LTypeOK
  <2> SUFFICES ASSUME LInv PROVE LTypeOK
    OBVIOUS
  <2>1. wg \in Nat
    BY DEF LInv, ControlInv, CounterBalanced, Live
  <2> QED
    BY <2>1 DEF LInv, ControlInv, Control, Stopping, Accounts, LTypeOK
<1> QED
  BY <1>1, LifecycleInvariant, PTL

(* No goroutine misses its wg.Done or calls it twice, whatever the order   *)
(* in which they start and stop (main.go, 91; file.go, 65 and 94).         *)
THEOREM WaitGroupBalanced == LSpec => []CounterBalanced
<1>1. LInv => CounterBalanced
  BY DEF LInv, ControlInv
<1> QED
  BY <1>1, LifecycleInvariant, PTL

(* What the gauge of the write channel counts (metrics.go, 28).            *)
THEOREM GaugeIsAccountedFor == LSpec => []GaugeAccounts
<1>1. LInv => GaugeAccounts
  BY DEF LInv, Accounts
<1> QED
  BY <1>1, LifecycleInvariant, PTL

(* The stops cannot panic, in any order: no send finds the channel closed  *)
(* and no WaitGroup is reused after a complete start-up (main.go, 82-91;   *)
(* crawl.go, 212-214).                                                     *)
THEOREM NoStopPanics == LSpec => []StopsWithoutPanic
<1>1. LInv => StopsWithoutPanic
  BY DEF LInv, ControlInv, Control, Returning, StopsWithoutPanic
<1> QED
  BY <1>1, LifecycleInvariant, PTL

(* A return of main after a complete start-up is the end of every          *)
(* goroutine, with every outcome in the file (main.go, 87-91).             *)
THEOREM MainReturnsLast == LSpec => []ReturnsLast
<1>1. LInv => ReturnsLast
  <2> SUFFICES ASSUME LInv, proc = "returned", complete
               PROVE  /\ httpPc = "done" /\ selPc = "done" /\ outPc = "done" /\ monPc = "done"
                      /\ \A w \in Workers : wPc[w] = "exited"
                      /\ workchan = <<>> /\ flushed = Len(lines) /\ Len(lines) >= emitted
    BY DEF ReturnsLast
  <2>1. wg = 0 /\ AllJoined
    BY DEF LInv, ControlInv, Returning, Starting
  <2>2. httpPc = "done" /\ selPc = "done" /\ outPc = "done" /\ monPc = "done"
    BY <2>1 DEF LInv, ControlInv, Control, Starting, CounterBalanced, Live, AllJoined
  <2>3. /\ \A w \in Workers : wPc[w] = "exited"
        /\ workchan = <<>> /\ flushed = Len(lines)
    BY <2>2 DEF LInv, Stopping
  <2>4. Sending = {}
    BY <2>3 DEF Sending
  <2>5. Cardinality(Sending) = 0 /\ Len(workchan) = 0
    BY <2>3, <2>4, FS_EmptySet
  <2>6. lines \in Seq(Nat \cup {Null}) /\ Cardinality(NullLines) \in Nat
    BY NullLinesFinite DEF LInv, Accounts
  <2>7. Len(lines) >= emitted
    BY <2>5, <2>6 DEF LInv, Accounts
  <2> QED
    BY <2>2, <2>3, <2>7
<1> QED
  BY <1>1, LifecycleInvariant, PTL
-----------------------------------------------------------------------------
(* Kafka follows the file: what it has is a subsequence of the lines that  *)
(* precede the drain's, and those are what the drain has collected.        *)
Before == 1 .. Len(lines) - Len(drained)

Fed == \E at \in [DOMAIN kafka -> Before] : Embeds(at)

KafkaInv ==
  /\ kafka \in Seq(Nat \cup {Null})
  /\ outPc = "run" => drained = <<>>
  /\ outPc # "done" =>
       /\ Len(drained) <= Len(lines)
       /\ \A i \in DOMAIN drained : drained[i] = lines[Len(lines) - Len(drained) + i]
       /\ Fed
  /\ KafkaInFileOrder

LEMMA KafkaKept ==
  ASSUME KafkaInv, UNCHANGED <<lines, drained, kafka>>,
         outPc' = outPc \/ (outPc = "run" /\ outPc' = "drain")
  PROVE  KafkaInv'
BY DEF KafkaInv, Fed, Before, Embeds, KafkaInFileOrder

LEMMA KafkaSequences ==
  ASSUME Accounts, KafkaInv
  PROVE  /\ DOMAIN kafka = 1 .. Len(kafka) /\ Len(kafka) \in Nat
         /\ DOMAIN drained = 1 .. Len(drained) /\ Len(drained) \in Nat
         /\ DOMAIN lines = 1 .. Len(lines) /\ Len(lines) \in Nat
BY LenProperties DEF Accounts, KafkaInv

(* A line is appended, which may be a message too...                       *)
LEMMA MessageAppended ==
  ASSUME Accounts, KafkaInv, outPc = "run", NEW item \in Nat \cup {Null},
         lines' = Append(lines, item), UNCHANGED <<drained, outPc>>,
         kafka' = kafka \/ kafka' = Append(kafka, item)
  PROVE  KafkaInv'
<1>1. /\ drained = <<>> /\ Len(drained) = 0
      /\ kafka \in Seq(Nat \cup {Null}) /\ lines \in Seq(Nat \cup {Null})
  BY DEF KafkaInv, Accounts
<1>2. PICK at \in [DOMAIN kafka -> DOMAIN lines] : Embeds(at)
  BY DEF KafkaInv, KafkaInFileOrder
<1>3. /\ DOMAIN lines' = 1 .. Len(lines) + 1 /\ Len(lines') = Len(lines) + 1
      /\ lines'[Len(lines) + 1] = item
      /\ \A i \in DOMAIN lines : lines'[i] = lines[i]
  BY <1>1
<1>4. kafka' \in Seq(Nat \cup {Null})
  <2>1. Append(kafka, item) \in Seq(Nat \cup {Null})
    BY <1>1, AppendProperties
  <2> QED
    BY <1>1, <2>1
<1>5. \E b \in [DOMAIN kafka' -> DOMAIN lines'] :
        /\ \A i, j \in DOMAIN b : i < j => b[i] < b[j]
        /\ \A i \in DOMAIN b : lines'[b[i]] = kafka'[i]
  <2>1. CASE kafka' = kafka
    <3>1. at \in [DOMAIN kafka' -> DOMAIN lines']
      BY <1>2, <1>3, <2>1, KafkaSequences
    <3> QED
      BY <1>2, <1>3, <2>1, <3>1 DEF Embeds
  <2>2. CASE kafka' = Append(kafka, item)
    <3> DEFINE n == Len(kafka) + 1
               b == [i \in 1 .. n |-> IF i = n THEN Len(lines) + 1 ELSE at[i]]
    <3>1. /\ DOMAIN kafka' = 1 .. n /\ kafka'[n] = item /\ n \in Nat
          /\ \A i \in DOMAIN kafka : kafka'[i] = kafka[i]
      BY <1>1, <2>2
    <3>2. b \in [DOMAIN kafka' -> DOMAIN lines']
      BY <1>2, <1>3, <3>1, KafkaSequences
    <3>3. \A i, j \in DOMAIN b : i < j => b[i] < b[j]
      <4>1. \A i, j \in DOMAIN kafka : i < j => at[i] < at[j]
        BY <1>2 DEF Embeds
      <4>2. \A i \in DOMAIN kafka : at[i] \in 1 .. Len(lines)
        BY <1>2, KafkaSequences
      <4>3. DOMAIN kafka = 1 .. n - 1 /\ n \in Nat /\ Len(lines) \in Nat
        BY KafkaSequences
      <4>4. DOMAIN b = 1 .. n /\ \A i \in 1 .. n : b[i] = IF i = n THEN Len(lines) + 1 ELSE at[i]
        OBVIOUS
      <4> HIDE DEF n, b
      <4> SUFFICES ASSUME NEW i \in 1 .. n, NEW j \in 1 .. n, i < j PROVE b[i] < b[j]
        BY <4>4
      <4>5. b[i] = at[i] /\ at[i] \in 1 .. Len(lines) /\ i \in DOMAIN kafka
        BY <4>2, <4>3, <4>4
      <4>6. CASE j = n
        BY <4>3, <4>4, <4>5, <4>6
      <4>7. CASE j # n
        <5>1. b[j] = at[j] /\ j \in DOMAIN kafka
          BY <4>3, <4>4, <4>7
        <5> QED
          BY <4>1, <4>5, <5>1
      <4> QED
        BY <4>6, <4>7
    <3>4. \A i \in DOMAIN b : lines'[b[i]] = kafka'[i]
      BY <1>2, <1>3, <3>1, KafkaSequences DEF Embeds
    <3> QED
      BY <3>2, <3>3, <3>4
  <2> QED
    BY <2>1, <2>2
<1>6. KafkaInFileOrder'
  BY <1>5 DEF KafkaInFileOrder, Embeds
<1>7. Fed' /\ Len(drained') <= Len(lines') /\ DOMAIN drained' = {}
  <2>1. drained' = <<>> /\ Len(drained') = 0 /\ DOMAIN drained' = {}
    BY <1>1
  <2>2. Before' = DOMAIN lines' /\ Len(drained') <= Len(lines')
    BY <1>3, <2>1, KafkaSequences DEF Before
  <2> QED
    BY <1>5, <2>1, <2>2 DEF Fed, Embeds
<1> QED
  BY <1>1, <1>4, <1>6, <1>7 DEF KafkaInv

(* ...or is collected for the batch...                                     *)
LEMMA BatchGrows ==
  ASSUME Accounts, KafkaInv, outPc = "drain", NEW item \in Nat,
         lines' = Append(lines, item), drained' = Append(drained, item),
         UNCHANGED <<kafka, outPc>>
  PROVE  KafkaInv'
<1>1. drained \in Seq(Nat) /\ lines \in Seq(Nat \cup {Null}) /\ Len(drained) <= Len(lines)
  BY DEF KafkaInv, Accounts
<1>2. /\ Len(lines') = Len(lines) + 1 /\ Len(drained') = Len(drained) + 1
      /\ DOMAIN drained' = 1 .. Len(drained) + 1 /\ DOMAIN lines' = 1 .. Len(lines) + 1
      /\ drained'[Len(drained) + 1] = item /\ lines'[Len(lines) + 1] = item
      /\ \A i \in DOMAIN lines : lines'[i] = lines[i]
      /\ \A i \in DOMAIN drained : drained'[i] = drained[i]
  BY <1>1
<1>3. PICK at \in [DOMAIN kafka -> Before] : Embeds(at)
  BY DEF KafkaInv, Fed
<1>4. Before' = Before /\ Before \subseteq DOMAIN lines /\ Before \subseteq DOMAIN lines'
  BY <1>1, <1>2, KafkaSequences DEF Before
<1>5. /\ at \in [DOMAIN kafka' -> Before']
      /\ at \in [DOMAIN kafka' -> DOMAIN lines']
      /\ \A i \in DOMAIN at : lines'[at[i]] = kafka'[i]
  BY <1>2, <1>3, <1>4 DEF Embeds
<1>6. Fed' /\ KafkaInFileOrder'
  BY <1>3, <1>5 DEF Fed, KafkaInFileOrder, Embeds
<1>7. \A i \in DOMAIN drained' : drained'[i] = lines'[Len(lines') - Len(drained') + i]
  <2> SUFFICES ASSUME NEW i \in DOMAIN drained'
               PROVE  drained'[i] = lines'[Len(lines') - Len(drained') + i]
    OBVIOUS
  <2>1. CASE i \in DOMAIN drained
    <3>1. Len(lines) - Len(drained) + i \in DOMAIN lines
      BY <1>1, <2>1, KafkaSequences
    <3>2. Len(lines') - Len(drained') + i = Len(lines) - Len(drained) + i
      BY <1>2, KafkaSequences
    <3>3. drained[i] = lines[Len(lines) - Len(drained) + i]
      BY <2>1 DEF KafkaInv
    <3>4. lines'[Len(lines) - Len(drained) + i] = lines[Len(lines) - Len(drained) + i]
      BY <1>2, <3>1
    <3> QED
      BY <1>2, <2>1, <3>2, <3>3, <3>4
  <2>2. CASE i = Len(drained) + 1
    BY <1>2, <2>2, KafkaSequences
  <2>3. i \in DOMAIN drained \/ i = Len(drained) + 1
    BY <1>2, KafkaSequences
  <2> QED
    BY <2>1, <2>2, <2>3
<1>8. Len(drained') <= Len(lines')
  BY <1>1, <1>2, KafkaSequences
<1> QED
  BY <1>6, <1>7, <1>8 DEF KafkaInv

(* ...of which some or none arrive at the end.                             *)
LEMMA BatchSent ==
  ASSUME Accounts, KafkaInv, outPc = "drain", outPc' = "done", UNCHANGED <<lines, drained>>,
         NEW n \in 0 .. Len(drained), kafka' = kafka \o SubSeq(drained, 1, n)
  PROVE  KafkaInv'
<1>1. /\ kafka \in Seq(Nat \cup {Null}) /\ drained \in Seq(Nat) /\ Len(drained) <= Len(lines)
      /\ \A i \in DOMAIN drained : drained[i] = lines[Len(lines) - Len(drained) + i]
  BY DEF KafkaInv, Accounts
<1>2. PICK at \in [DOMAIN kafka -> Before] : Embeds(at)
  BY DEF KafkaInv, Fed
<1> DEFINE batch == SubSeq(drained, 1, n)
           k == Len(kafka)
           m == Len(lines) - Len(drained)
           b == [i \in 1 .. k + n |-> IF i <= k THEN at[i] ELSE m + (i - k)]
<1>3. batch \in Seq(Nat \cup {Null}) /\ Len(batch) = n /\ \A i \in 1 .. n : batch[i] = drained[i]
  BY <1>1
<1>4. k \in Nat /\ m \in Nat /\ n \in Nat /\ n <= Len(drained) /\ Len(lines) = m + Len(drained)
  BY <1>1, KafkaSequences
<1> HIDE DEF batch
<1>5. /\ kafka' \in Seq(Nat \cup {Null}) /\ DOMAIN kafka' = 1 .. k + n
      /\ \A i \in 1 .. k : kafka'[i] = kafka[i]
      /\ \A i \in 1 .. k + n : i > k => kafka'[i] = batch[i - k]
  BY <1>1, <1>3 DEF batch
<1>6. \A i \in 1 .. k : at[i] \in 1 .. m /\ lines[at[i]] = kafka[i]
  BY <1>2, KafkaSequences DEF Before, Embeds
<1>7. \A i \in 1 .. k + n : i > k => i - k \in 1 .. n /\ kafka'[i] = lines[m + (i - k)]
  <2> SUFFICES ASSUME NEW i \in 1 .. k + n, i > k
               PROVE  i - k \in 1 .. n /\ kafka'[i] = lines[m + (i - k)]
    OBVIOUS
  <2>1. i - k \in 1 .. n /\ i - k \in DOMAIN drained
    BY <1>4, KafkaSequences
  <2> QED
    BY <1>1, <1>3, <1>5, <2>1
<1> HIDE DEF k, m
<1>8. b \in [DOMAIN kafka' -> DOMAIN lines]
  BY <1>4, <1>5, <1>6, KafkaSequences
<1>9. \A i, j \in DOMAIN b : i < j => b[i] < b[j]
  <2>1. \A i, j \in 1 .. k : i < j => at[i] < at[j]
    BY <1>2, KafkaSequences DEF Embeds, k
  <2> QED
    BY <1>4, <1>6, <2>1
<1>10. \A i \in DOMAIN b : lines[b[i]] = kafka'[i]
  <2>1. ASSUME NEW i \in 1 .. k + n, i <= k PROVE lines[b[i]] = kafka'[i]
    <3>1. i \in 1 .. k /\ b[i] = at[i]
      BY <1>4, <2>1
    <3> QED
      BY <1>5, <1>6, <3>1
  <2>2. ASSUME NEW i \in 1 .. k + n, i > k PROVE lines[b[i]] = kafka'[i]
    <3>1. b[i] = m + (i - k)
      BY <1>4, <2>2
    <3> QED
      BY <1>7, <2>2, <3>1
  <2>3. \A i \in 1 .. k + n : i <= k \/ i > k
    BY <1>4
  <2>4. DOMAIN b = 1 .. k + n
    OBVIOUS
  <2> HIDE DEF b
  <2> QED
    BY <2>1, <2>2, <2>3, <2>4
<1>11. KafkaInFileOrder'
  BY <1>8, <1>9, <1>10 DEF KafkaInFileOrder, Embeds
<1> QED
  BY <1>5, <1>11 DEF KafkaInv

LEMMA KafkaStep == LInv /\ KafkaInv /\ [LNext]_lvars => KafkaInv'
<1> SUFFICES ASSUME LInv, KafkaInv, [LNext]_lvars PROVE KafkaInv'
  OBVIOUS
<1>0. Accounts
  BY DEF LInv
<1>1. CASE UNCHANGED lvars
  BY <1>1, KafkaKept DEF lvars, outVars, teeVars
<1>2. CASE Signal \/ Main
  BY <1>2, KafkaKept DEF Signal, Main, LoadConfig, OpenStores, OpenFile, Spawn, Receives, Cancels,
                         Waits, Returns, Others, outVars, teeVars
<1>3. CASE Http \/ HttpEnds \/ Start
  BY <1>3, KafkaKept
  DEF Http, HttpJoins, HttpListens, HttpEnds, HttpShutdown, Start, StartNetwork, StartHosts,
      StartUpdater, StartOutput, StartCron, Rest1, Rest2, outVars, teeVars
<1>4. CASE Updater \/ MonitorEnds \/ Job \/ \E w \in Workers : Worker(w)
  <2>1. UNCHANGED <<lines, drained, kafka, outPc>>
    BY <1>4 DEF Updater, StartPool, StopsSelecting, ClosesChannel, MonitorEnds, Job, Worker,
                Emit, Send, WorkerExits, Rest3, Rest4, outVars, teeVars
  <2> QED
    BY <2>1, KafkaKept
<1>5. CASE OutputJoins \/ BeginsDrain
  BY <1>5, KafkaKept DEF OutputJoins, BeginsDrain, StartDrain, outVars, teeVars
<1>6. CASE ReceivesItem
  <2>1. CASE Receive /\ ToKafka(Head(workchan))
    <3>1. workchan # <<>> /\ lines' = Append(lines, Head(workchan)) /\ workchan' = Tail(workchan)
      BY <2>1 DEF Receive, WriteLine
    <3>2. Head(workchan) \in Nat
      BY <1>0, <3>1 DEF Accounts
    <3> QED
      BY <1>0, <1>6, <2>1, <3>1, <3>2, MessageAppended DEF ReceivesItem, Receive, ToKafka
  <2>2. CASE ReceiveClosed /\ ToKafka(Null)
    BY <1>0, <1>6, <2>2, MessageAppended DEF ReceivesItem, ReceiveClosed, WriteLine, ToKafka
  <2> QED
    BY <1>6, <2>1, <2>2 DEF ReceivesItem
<1>7. CASE Drains
  <2>1. /\ workchan # <<>> /\ lines' = Append(lines, Head(workchan)) /\ outPc = "drain"
        /\ drained' = Append(drained, Head(workchan)) /\ UNCHANGED <<kafka, outPc>>
    BY <1>7 DEF Drains, Drain, WriteLine
  <2>2. Head(workchan) \in Nat
    BY <1>0, <2>1 DEF Accounts
  <2> QED
    BY <1>0, <2>1, <2>2, BatchGrows
<1>8. CASE EndsDrain
  <2>1. PICK n \in 0 .. (IF cfg.kafka THEN Len(drained) ELSE 0) :
           kafka' = kafka \o SubSeq(drained, 1, n)
    BY <1>8 DEF EndsDrain
  <2>2. n \in 0 .. Len(drained)
    BY <1>0, <2>1, KafkaSequences
  <2>3. outPc = "drain" /\ outPc' = "done" /\ UNCHANGED <<lines, drained>>
    BY <1>8 DEF EndsDrain, FinishDrain
  <2> QED
    BY <1>0, <2>1, <2>2, <2>3, BatchSent
<1> QED
  BY <1>1, <1>2, <1>3, <1>4, <1>5, <1>6, <1>7, <1>8 DEF LNext, Writer

LEMMA KafkaInit == LInit => KafkaInv
<1> SUFFICES ASSUME LInit PROVE KafkaInv
  OBVIOUS
<1>1. kafka = <<>> /\ drained = <<>> /\ lines = <<>>
  BY DEF LInit, OutputInit
<1>2. DOMAIN kafka = {} /\ DOMAIN drained = {} /\ Len(drained) = 0 /\ Len(lines) = 0
  BY <1>1
<1>3. \A S : \E at \in [DOMAIN kafka -> S] : Embeds(at)
  <2> SUFFICES ASSUME NEW S PROVE \E at \in [DOMAIN kafka -> S] : Embeds(at)
    OBVIOUS
  <2>1. [i \in DOMAIN kafka |-> i] \in [DOMAIN kafka -> S] /\ Embeds([i \in DOMAIN kafka |-> i])
    BY <1>2 DEF Embeds
  <2> QED
    BY <2>1
<1> QED
  BY <1>1, <1>2, <1>3 DEF KafkaInv, Fed, KafkaInFileOrder

(* Kafka never has a message twice or out of the file's order, whatever    *)
(* the drain's batch loses (file.go, 74-88 and 103-109).                   *)
THEOREM KafkaFollowsFile == LSpec => []KafkaInFileOrder
<1>1. KafkaInv => KafkaInFileOrder
  BY DEF KafkaInv
<1> QED
  BY <1>1, KafkaInit, KafkaStep, LifecycleInvariant, PTL DEF LSpec

-----------------------------------------------------------------------------
(* The fork schedule *)

(* The order of the tries agrees with the epochs, and what is supported    *)
(* has a digest.                                                           *)
Ordered(forks) ==
  /\ \A i \in 1 .. 5 : forks[Tries[i]].supported => forks[Tries[i]].digest # <<>>
  /\ \A i, j \in 1 .. 5 :
       i <= j /\ forks[Tries[i]].supported /\ forks[Tries[j]].supported =>
         forks[Tries[j]].epoch <= forks[Tries[i]].epoch

(* In a schedule in that order the fork in force at any epoch is the one   *)
(* that began last, and it has a digest (fork.go, 75-90).                  *)
LEMMA InForceBeganLast ==
  ASSUME NEW forks, NEW epoch, Ordered(forks), Due(forks, epoch) # {}
  PROVE  /\ forks[InForce(forks, epoch)].digest # <<>>
         /\ \A i \in Due(forks, epoch) :
              forks[Tries[i]].epoch <= forks[InForce(forks, epoch)].epoch
<1> DEFINE D == Due(forks, epoch)
           least == CHOOSE i \in D : \A j \in D : i <= j
<1>1. D \subseteq 1 .. 5
  BY DEF Due
<1>2. \E i \in D : \A j \in D : i <= j
  <2>1. PICK k \in D : k \in 1 .. 5
    BY <1>1
  <2> HIDE DEF D
  <2> QED
    BY <1>1, <2>1, SMTT(30)
<1>3. least \in D /\ \A j \in D : least <= j
  BY <1>2, Zenon
<1>4. InForce(forks, epoch) = Tries[least]
  BY Zenon DEF InForce
<1> HIDE DEF least
<1>5. least \in 1 .. 5 /\ forks[Tries[least]].supported
  BY <1>3 DEF Due
<1>6. forks[Tries[least]].digest # <<>>
  BY <1>5, Zenon DEF Ordered
<1>7. ASSUME NEW i \in D
      PROVE  forks[Tries[i]].epoch <= forks[Tries[least]].epoch
  <2>1. i \in 1 .. 5 /\ forks[Tries[i]].supported
    BY DEF Due
  <2>2. least <= i
    BY <1>3
  <2> QED
    BY <1>5, <2>1, <2>2, Zenon DEF Ordered
<1> QED
  BY <1>4, <1>6, <1>7

(* The schedules of the three public networks are in that order.           *)
LEMMA DevOrdered == Ordered(WithDefaults(DevConfig))
<1>1. \A f \in ForkNames : TakesDefault(DevConfig, f) <=> f # "altair"
  BY DEF TakesDefault, DevConfig, File, Forks5, Unlisted, Listed, ForkNames
<1> QED
  BY <1>1 DEF Ordered, WithDefaults, DevConfig, File, Forks5, Unlisted, Listed, ForkNames,
     SpecEpochs, ForkEpochs, Tries

LEMMA GoerliOrdered == Ordered(WithDefaults(GoerliConfig))
<1>1. \A f \in ForkNames : TakesDefault(GoerliConfig, f) <=> f # "altair"
  BY DEF TakesDefault, GoerliConfig, File, Forks5, Unlisted, Listed, ForkNames
<1> QED
  BY <1>1 DEF Ordered, WithDefaults, GoerliConfig, File, Forks5, Unlisted, Listed, ForkNames,
     SpecEpochs, ForkEpochs, Tries

LEMMA HoleskyOrdered == Ordered(WithDefaults(HoleskyConfig))
<1>1. \A f \in ForkNames : TakesDefault(HoleskyConfig, f) <=> f # "altair"
  BY DEF TakesDefault, HoleskyConfig, File, Forks5, Unlisted, Listed, ForkNames
<1> QED
  BY <1>1 DEF Ordered, WithDefaults, HoleskyConfig, File, Forks5, Unlisted, Listed, ForkNames,
     SpecEpochs, ForkEpochs, Tries

(* With the configurations kept for the public networks, the fork in force *)
(* at EVERY epoch is the one that began last, and it has a digest; the     *)
(* property of the run looks at the epochs next to a fork's beginning.     *)
THEOREM EveryEpochInOrder ==
  ASSUME NEW file \in {DevConfig, GoerliConfig, HoleskyConfig}, NEW epoch \in Nat,
         Due(WithDefaults(file), epoch) # {}
  PROVE  LET forks == WithDefaults(file)
             f == InForce(forks, epoch)
         IN  /\ forks[f].digest # <<>>
             /\ \A i \in Due(forks, epoch) : forks[Tries[i]].epoch <= forks[f].epoch
<1>1. Ordered(WithDefaults(file))
  BY DevOrdered, GoerliOrdered, HoleskyOrdered
<1> QED
  BY <1>1, InForceBeganLast, Zenon

(* ScheduleInOrder is a fact about the configurations that are kept: it    *)
(* holds whatever the process does (config.go, 172-214; fork.go, 75-90).   *)
THEOREM ScheduleAlwaysInOrder == LSpec => []ScheduleInOrder
<1>1. ASSUME NEW file \in {DevConfig, GoerliConfig, HoleskyConfig}
      PROVE  Ordered(WithDefaults(file))
  BY DevOrdered, GoerliOrdered, HoleskyOrdered
<1>2. ScheduleInOrder
  BY <1>1, InForceBeganLast, Zenon DEF ScheduleInOrder
<1> QED
  BY <1>2, PTL

-----------------------------------------------------------------------------
(* Nobody waits for everybody *)

(* A step that brings the end nearer can be taken: the guards of every     *)
(* goroutine but those of what may go on for ever (the workers' rounds,    *)
(* the daily job, the nil of a closed channel) or need not happen (a       *)
(* signal, an error of Serve).                                             *)
MainGoesOn ==
  \/ mainPc \in {"load", "stores", "file", "spawn", "cancel", "wait", "released"}
  \/ mainPc = "await" /\ signalled

HttpGoesOn ==
  \/ httpPc \in {"starting", "listen"}
  \/ httpPc = "serve" /\ shutdown
  \/ httpPc \in {"listen", "serve", "done"} /\ ctxDone /\ ~shutdown

StartGoesOn == startPc \in {"network", "disc", "host", "updater", "output", "cron"}

UpdaterGoesOn ==
  \/ selPc = "spawn"
  \/ selPc = "run" /\ ctxDone
  \/ selPc = "wait" /\ \A w \in Workers : wPc[w] = "exited"

WorkerGoesOn(w) ==
  \/ wPc[w] = "idle" /\ ctxDone
  \/ wPc[w] = "send" /\ Len(workchan) < WorkChanCap

WriterGoesOn ==
  \/ outOn = "starting"
  \/ outOn = "on" /\ outPc = "run" /\ (workchan # <<>> \/ ctxDone)
  \/ outOn = "on" /\ outPc = "drain" /\ (workchan # <<>> \/ closed)

MonitorGoesOn == monPc = "run" /\ ctxDone

SomeoneGoesOn ==
  \/ MainGoesOn \/ HttpGoesOn \/ StartGoesOn \/ UpdaterGoesOn \/ WriterGoesOn \/ MonitorGoesOn
  \/ \E w \in Workers : WorkerGoesOn(w)

(* Main waits only for a counter that is not zero, with the context        *)
(* cancelled; and the pool runs from its start on.                         *)
Waiting ==
  /\ mainPc \in {"wait", "blocked", "released"} => ctxDone
  /\ mainPc = "blocked" => wg # 0
  /\ selPc \in {"run", "wait", "done"} => \A w \in Workers : wPc[w] # "off"

LEMMA WaitingInit == LInit => Waiting
  BY DEF LInit, Waiting

(* wg.Wait blocks on a counter that is not zero, and whoever lowers it to  *)
(* zero releases main.                                                     *)
LEMMA WaitingKept ==
  ASSUME UNCHANGED <<mainPc, ctxDone, wg, selPc, wPc>>, Waiting
  PROVE  Waiting'
  BY DEF Waiting

LEMMA MainWaits ==
  ASSUME LInv, Waiting, Main
  PROVE  Waiting'
<1>0. UNCHANGED <<wg, selPc, wPc>>
  BY DEF Main, LoadConfig, OpenStores, OpenFile, Spawn, Receives, Cancels, Waits, Returns,
         Others, poolVars
<1>1. selPc' \in {"run", "wait", "done"} => \A w \in Workers : wPc'[w] # "off"
  BY <1>0 DEF Waiting
<1>2. CASE LoadConfig
  <2>1. mainPc' = mainPc \/ mainPc' = "stores"
    <3>1. PICK env \in BOOLEAN :
            CASE Load(cfg, env) = "ok"    -> Goto("stores")
              [] Load(cfg, env) = "error" -> Fatal
              [] Load(cfg, env) = "panic" -> Panic("config")
      BY <1>2 DEF LoadConfig
    <3>2. Load(cfg, env) \in {"ok", "error", "panic"}
      BY DEF Load
    <3>3. Goto("stores") \/ Fatal \/ Panic("config")
      BY <3>1, <3>2, Zenon
    <3> QED
      BY <3>3 DEF Goto, Fatal, Panic
  <2>2. ctxDone' = ctxDone
    BY <1>2 DEF LoadConfig, Others
  <2> QED
    BY <1>0, <1>1, <2>1, <2>2 DEF Waiting
<1>3. CASE OpenStores \/ OpenFile \/ Spawn \/ Receives \/ Cancels
  <2>1. /\ mainPc' \in {"wait", "blocked", "released"} =>
             \/ mainPc' = mainPc /\ ctxDone' = ctxDone
             \/ mainPc' = "wait" /\ ctxDone'
        /\ mainPc' = "blocked" => mainPc = "blocked"
    BY <1>3 DEF OpenStores, OpenFile, Spawn, Receives, Cancels, Goto, Fatal, Panic, Others
  <2> QED
    BY <1>0, <1>1, <2>1 DEF Waiting
<1>4. CASE Waits \/ Returns
  <2>1. /\ mainPc \in {"wait", "released"} /\ ctxDone' = ctxDone
        /\ mainPc' = mainPc \/ (mainPc' = "blocked" /\ wg # 0)
    BY <1>4 DEF Waits, Returns, Panic, Others
  <2> QED
    BY <1>0, <1>1, <2>1 DEF Waiting
<1> QED
  BY <1>2, <1>3, <1>4 DEF Main

LEMMA WaitingNext == LInv /\ Waiting /\ [LNext]_lvars => Waiting'
<1> SUFFICES ASSUME LInv, Waiting, [LNext]_lvars PROVE Waiting'
  OBVIOUS
<1>1. CASE UNCHANGED lvars
  BY <1>1, WaitingKept DEF lvars, mainVars, poolVars
<1>2. CASE Main
  BY <1>2, MainWaits
<1>3. CASE Signal \/ HttpListens \/ HttpShutdown \/ StartNetwork \/ StartHosts \/ StartCron \/ Job
  <2>1. UNCHANGED <<mainPc, ctxDone, wg, selPc, wPc>>
    BY <1>3 DEF Signal, HttpListens, HttpShutdown, StartNetwork, StartHosts, StartCron, Job,
                Fatal, Panic, mainVars, Others, Rest1, Rest2, poolVars
  <2> QED
    BY <2>1, WaitingKept
<1>4. CASE HttpJoins \/ StartUpdater \/ StartOutput \/ OutputJoins
  <2>1. wg \in Nat
    BY DEF LInv, ControlInv, CounterBalanced, Live
  <2>2. /\ UNCHANGED <<mainPc, ctxDone, wPc>>
        /\ wg' = wg \/ wg' = wg + 1
        /\ selPc' = selPc \/ selPc' = "spawn"
    BY <1>4 DEF HttpJoins, StartUpdater, StartOutput, OutputJoins, Join, Panic, mainVars,
                Rest1, Rest2, Rest4, poolVars
  <2> QED
    BY <2>1, <2>2 DEF Waiting
<1>5. CASE HttpEnds \/ ClosesChannel \/ EndsDrain \/ MonitorEnds
  <2>1. Done /\ UNCHANGED <<ctxDone, wPc>> /\ (selPc' = selPc \/ selPc = "wait")
    BY <1>5 DEF HttpEnds, ClosesChannel, EndsDrain, MonitorEnds, FinishDrain, Rest1, Rest3,
                Rest4, poolVars
  <2>2. wg \in Nat
    BY DEF LInv, ControlInv, CounterBalanced, Live
  <2>3. wg' = wg - 1 /\ mainPc' = IF wg = 1 /\ mainPc = "blocked" THEN "released" ELSE mainPc
    BY <2>1 DEF Done
  <2> QED
    BY <2>1, <2>2, <2>3 DEF Waiting
<1>6. CASE StartPool \/ StopsSelecting
  <2>1. UNCHANGED <<mainPc, ctxDone, wg>>
        /\ \/ selPc = "spawn" /\ wPc' = [w \in Workers |-> "idle"]
           \/ selPc = "run" /\ wPc' = wPc
    BY <1>6 DEF StartPool, StopsSelecting, mainVars, Rest3
  <2> QED
    BY <2>1 DEF Waiting
<1>7. CASE \E w \in Workers : Worker(w)
  <2>1. UNCHANGED <<mainPc, ctxDone, wg, selPc>>
    BY <1>7 DEF Worker, Emit, Send, WorkerExits, Panic, mainVars, Rest3
  <2>2. PICK w \in Workers : wPc' = wPc \/ \E pc \in {"idle", "send", "exited"} :
                                             wPc' = [wPc EXCEPT ![w] = pc]
    BY <1>7 DEF Worker, Emit, Send, WorkerExits
  <2>3. \A v \in Workers : wPc[v] # "off" => wPc'[v] # "off"
    BY <2>2 DEF LInv, Stopping
  <2> QED
    BY <2>1, <2>3 DEF Waiting
<1>8. CASE ReceivesItem \/ BeginsDrain \/ Drains
  <2>1. UNCHANGED <<mainPc, ctxDone, wg, selPc, wPc>>
    BY <1>8 DEF ReceivesItem, BeginsDrain, Drains, Receive, ReceiveClosed, StartDrain, Drain,
                mainVars, Rest4, poolVars
  <2> QED
    BY <2>1, WaitingKept
<1> QED
  BY <1>1, <1>2, <1>3, <1>4, <1>5, <1>6, <1>7, <1>8
  DEF LNext, Http, Start, Updater, Writer

(* What the wait of the selector, and of the others, rests on: the next    *)
(* one in the chain can always go on.                                      *)
LEMMA PoolGoesOn ==
  ASSUME LInv, Waiting, ctxDone, WorkChanCap > 0, selPc \in {"spawn", "run", "wait"}
  PROVE  SomeoneGoesOn
<1>1. CASE selPc \in {"spawn", "run"}
  BY <1>1 DEF SomeoneGoesOn, UpdaterGoesOn
<1>2. CASE selPc = "wait" /\ \A w \in Workers : wPc[w] = "exited"
  BY <1>2 DEF SomeoneGoesOn, UpdaterGoesOn
<1>3. CASE selPc = "wait" /\ \E w \in Workers : wPc[w] # "exited"
  <2>1. PICK w \in Workers : wPc[w] \in {"idle", "send"}
    BY <1>3 DEF LInv, Stopping, Waiting
  <2>2. CASE wPc[w] = "idle" \/ Len(workchan) < WorkChanCap
    BY <2>1, <2>2 DEF SomeoneGoesOn, WorkerGoesOn
  <2>3. CASE ~(Len(workchan) < WorkChanCap)
    <3>1. workchan # <<>>
      BY <2>3 DEF LInv, Accounts
    <3>2. outPc # "done"
      BY <3>1 DEF LInv, Stopping
    <3>3. CASE outOn = "off"
      <4>1. startPc = "output"
        BY <1>3, <3>3 DEF LInv, ControlInv, Starting, Control
      <4> QED
        BY <4>1 DEF SomeoneGoesOn, StartGoesOn
    <3>4. CASE outOn \in {"starting", "on"}
      BY <3>1, <3>2, <3>4 DEF SomeoneGoesOn, WriterGoesOn, LInv, ControlInv, Control
    <3> QED
      BY <3>3, <3>4 DEF LInv, ControlInv, Control
  <2> QED
    BY <2>1, <2>2, <2>3
<1> QED
  BY <1>1, <1>2, <1>3

LEMMA BlockedMainIsServed ==
  ASSUME LInv, Waiting, WorkChanCap > 0, mainPc = "blocked"
  PROVE  SomeoneGoesOn
<1>1. ctxDone /\ wg # 0
  BY DEF Waiting
<1>2. \/ httpPc \in {"listen", "serve"} \/ selPc \in {"spawn", "run", "wait"}
      \/ (outOn # "off" /\ outPc # "done") \/ monPc = "run"
  BY <1>1 DEF LInv, ControlInv, CounterBalanced, Live
<1>3. CASE httpPc \in {"listen", "serve"}
  BY <1>1, <1>3 DEF SomeoneGoesOn, HttpGoesOn
<1>4. CASE selPc \in {"spawn", "run", "wait"}
  BY <1>1, <1>4, PoolGoesOn
<1>5. CASE monPc = "run"
  BY <1>1, <1>5 DEF SomeoneGoesOn, MonitorGoesOn
<1>6. CASE outOn # "off" /\ outPc # "done"
  <2>1. CASE outOn = "starting" \/ outPc = "run" \/ closed
    BY <1>1, <1>6, <2>1 DEF SomeoneGoesOn, WriterGoesOn, LInv, ControlInv, Control
  <2>2. CASE ~closed
    <3>1. selPc \in {"spawn", "run", "wait"}
      BY <1>6, <2>2 DEF LInv, Stopping, ControlInv, Control, Starting
    <3> QED
      BY <1>1, <3>1, PoolGoesOn
  <2> QED
    BY <1>6, <2>1, <2>2
<1> QED
  BY <1>2, <1>3, <1>4, <1>5, <1>6

(* From a signal to the end of the process there is always a goroutine     *)
(* that can take a step towards it: nobody waits for everybody, wherever   *)
(* the signal falls, for any configurations and workers and any channel    *)
(* with a place (main.go, 82-91; crawl.go, 203-217; file.go, 64-131).      *)
NeverStuck == signalled /\ proc = "up" => SomeoneGoesOn

THEOREM SignalNeverStuck ==
  ASSUME WorkChanCap > 0
  PROVE  LSpec => []NeverStuck
<1>1. LInv /\ Waiting => NeverStuck
  <2> SUFFICES ASSUME LInv, Waiting, signalled, proc = "up" PROVE SomeoneGoesOn
    BY DEF NeverStuck
  <2>1. CASE mainPc = "blocked"
    BY <2>1, BlockedMainIsServed
  <2>2. CASE mainPc # "blocked"
    BY <2>2 DEF SomeoneGoesOn, MainGoesOn, LInv, ControlInv, Control
  <2> QED
    BY <2>1, <2>2
<1> QED
  BY <1>1, WaitingInit, WaitingNext, LifecycleInvariant, PTL DEF LSpec
=============================================================================
