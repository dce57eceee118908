----------------------------- MODULE ForkClock -----------------------------
(***************************************************************************)
(* The slot clock (utils/clock/clock.go) and the fork choice that follows  *)
(* it (utils/fork/fork.go).  Three goroutines in a line:                   *)
(*   ticker   TickSlots: reads the wall clock, sends the slot, sleeps      *)
(*            until the next one is due;                                   *)
(*   epochs   TickEpochs: passes on the slots that begin a new epoch;      *)
(*   monitor  monitorForkChange: sets the epoch, then the fork digest.     *)
(* Timers run on the monotonic clock, slots are computed from the wall     *)
(* clock, which may be set while the program runs.                         *)
(***************************************************************************)
EXTENDS Integers, Sequences, FiniteSets

CONSTANTS
  GenesisTime, SecondsPerSlot, SlotsPerEpoch,   \* of the network
  Forks,        \* the fork schedule, latest fork first, as getForkForEpoch
                \* tries it: records [epoch, digest, supported]
  NoDigest,     \* the zero digest
  Shifts,       \* bound: what the wall clock may be set to, relative to time
  MaxTime,      \* bound: the last second
  MaxSets       \* bound: how often the wall clock is set

ASSUME ClockAssumption ==
  /\ GenesisTime \in Int /\ SecondsPerSlot \in Nat \ {0} /\ SlotsPerEpoch \in Nat \ {0}
ASSUME ForksAssumption ==
  /\ Forks \in Seq([epoch : Int, digest : STRING, supported : BOOLEAN])
  /\ NoDigest \in STRING
ASSUME TimeAssumption ==
  /\ Shifts \subseteq Int /\ 0 \in Shifts /\ MaxTime \in Nat /\ MaxSets \in Nat

VARIABLES
  time,         \* monotonic clock
  shift,        \* wall clock = time + shift
  sets,         \* how often it was set
  ctxDone,
  tPc,          \* ticker: "read", "send", "wait", "done"
  tNow,         \* the wall clock it has read
  tDue,         \* when its timer fires
  slots,        \* channel of capacity 1
  slotsClosed,
  ePc,          \* epochs: "first", "range", "send", "done"
  eEpoch,       \* its currentEpoch
  epochCh,      \* channel of capacity 1
  epochsClosed,
  mPc,          \* monitor: "receive", "digest", "done"
  heard,        \* history: the monitor has received an epoch
  currentEpoch, currentForkDigest               \* of ForkChoice

envVars     == <<time, shift, sets, ctxDone>>
tickerVars  == <<tPc, tNow, tDue, slotsClosed>>
epochsVars  == <<ePc, eEpoch, epochsClosed>>
monitorVars == <<mPc, heard, currentEpoch, currentForkDigest>>
fvars == <<envVars, tickerVars, slots, epochsVars, epochCh, monitorVars>>

Wall == time + shift

(* Mutant of CurrentSlot: rounded up.                                      *)
MutRoundUp(t) ==
  IF t < GenesisTime THEN 0 ELSE (t - GenesisTime + SecondsPerSlot - 1) \div SecondsPerSlot

(* Times before genesis belong to slot 0.                                  *)
CurrentSlot(t) == IF t < GenesisTime THEN 0 ELSE (t - GenesisTime) \div SecondsPerSlot
SlotInSeconds(slot) == slot * SecondsPerSlot + GenesisTime
EpochForSlot(slot) == slot \div SlotsPerEpoch
Epoch(t) == EpochForSlot(CurrentSlot(t))

(* Mutant of Due: a fork begins after its epoch.                           *)
MutDueLate(epoch) == {i \in DOMAIN Forks : Forks[i].supported /\ Forks[i].epoch < epoch}

(* getForkForEpoch: the first fork of the list that is supported and due.  *)
(* It looks at the field, whatever epoch it is given.                      *)
Due(epoch) == {i \in DOMAIN Forks : Forks[i].supported /\ Forks[i].epoch <= epoch}
GetFork(epoch) ==
  IF Due(epoch) = {} THEN NoDigest
  ELSE Forks[CHOOSE i \in Due(epoch) : \A j \in Due(epoch) : i <= j].digest
-----------------------------------------------------------------------------
(* NewForkChoice has run: epoch and digest are those of the start.         *)
Init ==
  /\ time = 0 /\ shift \in Shifts /\ sets = 0 /\ ctxDone = FALSE
  /\ tPc = "read" /\ tNow = 0 /\ tDue = 0 /\ slots = <<>> /\ slotsClosed = FALSE
  /\ ePc = "first" /\ eEpoch = 0 /\ epochCh = <<>> /\ epochsClosed = FALSE
  /\ mPc = "receive" /\ heard = FALSE
  /\ currentEpoch = Epoch(Wall)
  /\ currentForkDigest = GetFork(currentEpoch)
-----------------------------------------------------------------------------
(* TickSlots                                                               *)
ReadClock ==
  /\ tPc = "read"
  /\ tNow' = Wall
  /\ tPc' = "send"
  /\ UNCHANGED <<envVars, tDue, slotsClosed, slots, epochsVars, epochCh, monitorVars>>

(* The send, which may have waited, and the timer: its duration is reckoned *)
(* from the clock as it was read before the send.                          *)
SendSlot ==
  /\ tPc = "send"
  /\ Len(slots) < 1
  /\ slots' = Append(slots, CurrentSlot(tNow))
  /\ tDue' = time + (SlotInSeconds(CurrentSlot(tNow) + 1) - tNow)
  /\ tPc' = "wait"
  /\ UNCHANGED <<envVars, tNow, slotsClosed, epochsVars, epochCh, monitorVars>>

TimerFires ==
  /\ tPc = "wait"
  /\ time >= tDue
  /\ tPc' = "read"
  /\ UNCHANGED <<envVars, tNow, tDue, slotsClosed, slots, epochsVars, epochCh, monitorVars>>

CloseSlots ==
  /\ tPc = "wait"
  /\ ctxDone
  /\ slotsClosed' = TRUE
  /\ tPc' = "done"
  /\ UNCHANGED <<envVars, tNow, tDue, slots, epochsVars, epochCh, monitorVars>>
-----------------------------------------------------------------------------
(* TickEpochs.  The first slot's epoch is passed on unconditionally.       *)
FirstSlot ==
  /\ ePc = "first"
  /\ slots # <<>>
  /\ slots' = <<>>
  /\ eEpoch' = EpochForSlot(Head(slots))
  /\ ePc' = "send"
  /\ UNCHANGED <<envVars, tickerVars, epochCh, epochsClosed, monitorVars>>

(* Mutant of NewerEpoch: every epoch but the last one.                     *)
MutOtherEpoch(epoch) == epoch # eEpoch
NewerEpoch(epoch) == epoch > eEpoch

NextSlot ==
  /\ ePc = "range"
  /\ slots # <<>>
  /\ slots' = <<>>
  /\ LET epoch == EpochForSlot(Head(slots)) IN
       IF NewerEpoch(epoch) THEN eEpoch' = epoch /\ ePc' = "send"
                            ELSE UNCHANGED <<eEpoch, ePc>>
  /\ UNCHANGED <<envVars, tickerVars, epochCh, epochsClosed, monitorVars>>

(* Mutant of SendEpoch: an epoch is dropped when the monitor is behind.    *)
MutSendOrDrop ==
  /\ ePc = "send"
  /\ epochCh' = IF epochCh = <<>> THEN <<eEpoch>> ELSE epochCh
  /\ ePc' = "range"
  /\ UNCHANGED <<envVars, tickerVars, slots, eEpoch, epochsClosed, monitorVars>>

SendEpoch ==
  /\ ePc = "send"
  /\ Len(epochCh) < 1
  /\ epochCh' = Append(epochCh, eEpoch)
  /\ ePc' = "range"
  /\ UNCHANGED <<envVars, tickerVars, slots, eEpoch, epochsClosed, monitorVars>>

(* Mutant of CloseEpochs: the channel is left open.                        *)
MutLeaveOpen ==
  /\ ePc = "range"
  /\ slots = <<>> /\ slotsClosed
  /\ ePc' = "done"
  /\ UNCHANGED <<envVars, tickerVars, slots, eEpoch, epochsClosed, epochCh, monitorVars>>

CloseEpochs ==
  /\ ePc = "range"
  /\ slots = <<>> /\ slotsClosed
  /\ epochsClosed' = TRUE
  /\ ePc' = "done"
  /\ UNCHANGED <<envVars, tickerVars, slots, eEpoch, epochCh, monitorVars>>
-----------------------------------------------------------------------------
(* monitorForkChange                                                       *)
ReceiveEpoch ==
  /\ mPc = "receive"
  /\ epochCh # <<>>
  /\ epochCh' = <<>>
  /\ currentEpoch' = Head(epochCh)
  /\ heard' = TRUE
  /\ mPc' = "digest"
  /\ UNCHANGED <<envVars, tickerVars, slots, epochsVars, currentForkDigest>>

SwitchDigest ==
  /\ mPc = "digest"
  /\ currentForkDigest' = GetFork(currentEpoch)
  /\ mPc' = "receive"
  /\ UNCHANGED <<envVars, tickerVars, slots, epochsVars, epochCh, heard, currentEpoch>>

StopMonitor ==
  /\ mPc = "receive"
  /\ epochCh = <<>> /\ epochsClosed
  /\ mPc' = "done"
  /\ UNCHANGED <<envVars, tickerVars, slots, epochsVars, epochCh, heard, currentEpoch,
                 currentForkDigest>>
-----------------------------------------------------------------------------
Pass ==
  /\ time < MaxTime
  /\ time' = time + 1
  /\ UNCHANGED <<shift, sets, ctxDone, tickerVars, slots, epochsVars, epochCh, monitorVars>>

SetClock ==
  /\ sets < MaxSets
  /\ sets' = sets + 1
  /\ shift' \in Shifts
  /\ UNCHANGED <<time, ctxDone, tickerVars, slots, epochsVars, epochCh, monitorVars>>

Cancel ==
  /\ ~ctxDone
  /\ ctxDone' = TRUE
  /\ UNCHANGED <<time, shift, sets, tickerVars, slots, epochsVars, epochCh, monitorVars>>

Ticker  == ReadClock \/ SendSlot \/ TimerFires \/ CloseSlots
Epochs  == FirstSlot \/ NextSlot \/ SendEpoch \/ CloseEpochs
Monitor == ReceiveEpoch \/ SwitchDigest \/ StopMonitor

Next == Ticker \/ Epochs \/ Monitor \/ Pass \/ SetClock \/ Cancel

Spec == Init /\ [][Next]_fvars

(* Every goroutine that can go on is scheduled and time passes.  The       *)
(* select of the ticker need not choose the context while timers fire, but *)
(* at MaxTime none does.                                                   *)
FairSpec ==
  Spec /\ WF_fvars(Ticker) /\ WF_fvars(Epochs) /\ WF_fvars(Monitor) /\ WF_fvars(Pass)
-----------------------------------------------------------------------------
TypeOK ==
  /\ time \in Nat /\ shift \in Int /\ sets \in Nat /\ ctxDone \in BOOLEAN
  /\ tPc \in {"read", "send", "wait", "done"} /\ tNow \in Int /\ tDue \in Int
  /\ slots \in Seq(Nat) /\ Len(slots) <= 1 /\ slotsClosed \in BOOLEAN
  /\ ePc \in {"first", "range", "send", "done"} /\ eEpoch \in Nat
  /\ epochCh \in Seq(Nat) /\ Len(epochCh) <= 1 /\ epochsClosed \in BOOLEAN
  /\ mPc \in {"receive", "digest", "done"} /\ heard \in BOOLEAN
  /\ currentEpoch \in Nat
  /\ currentForkDigest \in {Forks[i].digest : i \in DOMAIN Forks} \cup {NoDigest}

(* Between two epochs the digest in force is the scheduled one: that of a  *)
(* supported fork that is due, and no supported later fork is due; without *)
(* such a fork it is none.  Whatever happened to the epochs in between     *)
(* (fork.go, 55-66).                                                       *)
Scheduled(digest, epoch) ==
  \/ \E i \in DOMAIN Forks :
       /\ Forks[i].supported /\ Forks[i].epoch <= epoch /\ Forks[i].digest = digest
       /\ \A j \in 1 .. i - 1 : Forks[j].supported => Forks[j].epoch > epoch
  \/ /\ digest = NoDigest
     /\ \A j \in DOMAIN Forks : Forks[j].supported => Forks[j].epoch > epoch
DigestScheduled == mPc # "digest" => Scheduled(currentForkDigest, currentEpoch)

(* Once the monitor follows the clock, its epoch never goes back, also     *)
(* when the wall clock is set back: no fork is left again (clock.go, 74).  *)
EpochsAscend == [][heard => currentEpoch' >= currentEpoch]_fvars

(* From genesis on the ticker never sleeps longer than a slot, so that it  *)
(* notices a set clock within one, although the send before the sleep may  *)
(* have taken any time (clock.go, 48-55).                                  *)
SleepWithinSlot ==
  tPc = "wait" /\ tNow >= GenesisTime => tDue - time <= SecondsPerSlot

(* The epoch follows the clock: an epoch the wall clock is in while the    *)
(* ticker still has a wake-up before the model's time ends reaches the     *)
(* monitor, or the program is told to stop.                                *)
Latest == Epoch(MaxTime + (CHOOSE s \in Shifts : \A t \in Shifts : s >= t))
WillRead == tPc = "read" \/ (tPc = "wait" /\ tDue <= MaxTime)
EpochFollowed ==
  \A e \in 0 .. Latest :
    (sets = MaxSets /\ WillRead /\ Epoch(Wall) >= e) ~> (currentEpoch >= e \/ ctxDone)

(* A cancelled context ends the whole line, wherever each of the three was. *)
MonitorEnds == ctxDone ~> mPc = "done"
=============================================================================
