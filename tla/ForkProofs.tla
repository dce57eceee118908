----------------------------- MODULE ForkProofs -----------------------------
(***************************************************************************)
(* For every network (genesis, slot and epoch lengths), every schedule of  *)
(* forks and every way the wall clock is set: the digest in force is the   *)
(* scheduled one, epochs ascend, and the ticker never oversleeps.          *)
(***************************************************************************)
EXTENDS ForkClock, WellFoundedInduction, TLAPS
-----------------------------------------------------------------------------
(* The arithmetic of the clock *)

LEMMA DivBounds ==
  ASSUME NEW a \in Nat, NEW b \in Nat \ {0}
  PROVE  /\ a \div b \in Nat
         /\ b * (a \div b) <= a
         /\ a < b * (a \div b) + b
OBVIOUS

LEMMA SlotOfTime ==
  ASSUME NEW t \in Int
  PROVE  CurrentSlot(t) \in Nat
BY ClockAssumption, DivBounds DEF CurrentSlot

LEMMA EpochOfSlot ==
  ASSUME NEW slot \in Nat
  PROVE  EpochForSlot(slot) \in Nat
BY ClockAssumption, DivBounds DEF EpochForSlot

LEMMA TimeToNextSlot ==
  ASSUME NEW t \in Int
  PROVE  /\ SlotInSeconds(CurrentSlot(t) + 1) \in Int
         /\ t >= GenesisTime => SlotInSeconds(CurrentSlot(t) + 1) - t <= SecondsPerSlot
<1> DEFINE S == SecondsPerSlot
           k == (t - GenesisTime) \div S
<1>1. S \in Nat \ {0} /\ GenesisTime \in Int /\ CurrentSlot(t) + 1 \in Int
  BY ClockAssumption, SlotOfTime
<1>2. (CurrentSlot(t) + 1) * S \in Int
  BY <1>1
<1>3. SlotInSeconds(CurrentSlot(t) + 1) \in Int
  BY <1>1, <1>2 DEF SlotInSeconds
<1>4. ASSUME t >= GenesisTime
      PROVE  SlotInSeconds(CurrentSlot(t) + 1) - t <= S
  <2>1. t - GenesisTime \in Nat
    BY <1>1, <1>4
  <2>2. k \in Nat /\ S * k <= t - GenesisTime
    BY <1>1, <2>1, DivBounds
  <2>3. CurrentSlot(t) = k
    BY <1>1, <1>4 DEF CurrentSlot
  <2>4. (k + 1) * S = S * k + S /\ S * k \in Int
    BY <1>1, <2>2
  <2>5. SlotInSeconds(k + 1) = (k + 1) * S + GenesisTime
    BY DEF SlotInSeconds
  <2> HIDE DEF S, k
  <2> QED
    BY <1>1, <2>2, <2>3, <2>4, <2>5
<1> QED
  BY <1>3, <1>4
-----------------------------------------------------------------------------
(* getForkForEpoch finds the scheduled fork *)

LEMMA SmallestIndex ==
  ASSUME NEW T, T \subseteq Nat, T # {}
  PROVE  \E x \in T : \A y \in T : x <= y
<1> DEFINE R == OpToRel(<, Nat)
<1>1. IsWellFoundedOn(R, Nat)
  BY NatLessThanWellFounded
<1>2. \A x, y \in Nat : x < y => <<x, y>> \in R
  BY DEF OpToRel
<1> HIDE DEF R
<1>3. PICK x \in T : \A y \in T : ~(<<y, x>> \in R)
  BY <1>1, WFMin, Zenon
<1>4. x \in Nat /\ \A y \in T : y \in Nat
  BY <1>3
<1>5. \A y \in T : ~(y < x)
  BY <1>2, <1>3, <1>4
<1>6. \A y \in T : x <= y
  BY <1>4, <1>5
<1> QED
  BY <1>3, <1>6

LEMMA ForkIsScheduled ==
  ASSUME NEW epoch \in Nat
  PROVE  /\ Scheduled(GetFork(epoch), epoch)
         /\ GetFork(epoch) \in {Forks[i].digest : i \in DOMAIN Forks} \cup {NoDigest}
<1>1. DOMAIN Forks = 1 .. Len(Forks) /\ Len(Forks) \in Nat
  BY ForksAssumption
<1>2. \A i \in DOMAIN Forks : Forks[i].epoch \in Int
  <2>1. \A i \in DOMAIN Forks : Forks[i] \in [epoch : Int, digest : STRING, supported : BOOLEAN]
    <3> DEFINE Fork == [epoch : Int, digest : STRING, supported : BOOLEAN]
    <3>1. Forks \in Seq(Fork)
      BY ForksAssumption
    <3> HIDE DEF Fork
    <3>2. \A i \in DOMAIN Forks : Forks[i] \in Fork
      BY <3>1
    <3> QED
      BY <3>2 DEF Fork
  <2> QED
    BY <2>1
<1>3. CASE Due(epoch) = {}
  BY <1>2, <1>3 DEF Due, GetFork, Scheduled
<1>4. CASE Due(epoch) # {}
  <2> DEFINE i == CHOOSE x \in Due(epoch) : \A y \in Due(epoch) : x <= y
  <2>1. Due(epoch) \in SUBSET Nat
    BY <1>1 DEF Due
  <2>2. \E x \in Due(epoch) : \A y \in Due(epoch) : x <= y
    BY <1>4, <2>1, SmallestIndex
  <2>3. i \in Due(epoch) /\ \A y \in Due(epoch) : i <= y
    BY <2>2
  <2>4. GetFork(epoch) = Forks[i].digest
    BY <1>4 DEF GetFork
  <2> HIDE DEF i
  <2>5. /\ i \in DOMAIN Forks /\ Forks[i].supported /\ Forks[i].epoch <= epoch
        /\ i \in 1 .. Len(Forks)
    BY <1>1, <2>3 DEF Due
  <2>6. ASSUME NEW j \in 1 .. i - 1, Forks[j].supported
        PROVE  Forks[j].epoch > epoch
    <3>1. j \in DOMAIN Forks /\ ~(i <= j)
      BY <1>1, <2>5
    <3>2. j \notin Due(epoch)
      BY <2>3, <3>1
    <3> QED
      BY <1>2, <2>6, <3>1, <3>2 DEF Due
  <2> QED
    BY <2>4, <2>5, <2>6 DEF Scheduled
<1> QED
  BY <1>3, <1>4
-----------------------------------------------------------------------------
(* The invariant.  Epochs are in order along the line: the monitor's is    *)
(* not after the one in the channel, which is not after the one that       *)
(* TickEpochs has reached.  A started epoch goroutine is the only source.  *)
EpochsInOrder ==
  /\ epochCh # <<>> => ePc # "first" /\ epochCh[1] <= eEpoch
  /\ heard => /\ ePc # "first"
              /\ currentEpoch <= eEpoch
              /\ epochCh # <<>> => currentEpoch <= epochCh[1]

ForkInv ==
  /\ TypeOK
  /\ DigestScheduled
  /\ SleepWithinSlot
  /\ EpochsInOrder

LEMMA OneEntry ==
  ASSUME NEW ch \in Seq(Nat), Len(ch) <= 1
  PROVE  /\ \A n \in Nat : Len(ch) < 1 =>
              Append(ch, n) \in Seq(Nat) /\ Len(Append(ch, n)) <= 1 /\ Append(ch, n)[1] = n
         /\ ch # <<>> => Head(ch) \in Nat /\ Head(ch) = ch[1]
         /\ <<>> \in Seq(Nat) /\ Len(<<>>) = 0
OBVIOUS

LEMMA ForkInit == Init => ForkInv
<1> SUFFICES ASSUME Init PROVE ForkInv
  OBVIOUS
<1>1. shift \in Int /\ Wall \in Int
  BY TimeAssumption DEF Init, Wall
<1>2. currentEpoch \in Nat
  BY <1>1, SlotOfTime, EpochOfSlot DEF Init, Epoch
<1>3. /\ Scheduled(currentForkDigest, currentEpoch)
      /\ currentForkDigest \in {Forks[i].digest : i \in DOMAIN Forks} \cup {NoDigest}
  BY <1>2, ForkIsScheduled DEF Init
<1>4. TypeOK
  <2>1. slots = <<>> /\ epochCh = <<>> /\ <<>> \in Seq(Nat) /\ Len(<<>>) = 0
    BY DEF Init
  <2>2. slots \in Seq(Nat) /\ Len(slots) <= 1 /\ epochCh \in Seq(Nat) /\ Len(epochCh) <= 1
    BY <2>1
  <2>3. /\ ctxDone \in BOOLEAN /\ slotsClosed \in BOOLEAN
        /\ epochsClosed \in BOOLEAN /\ heard \in BOOLEAN
    BY Zenon DEF Init
  <2> QED
    BY <1>1, <1>2, <1>3, <2>2, <2>3 DEF Init, TypeOK
<1> QED
  BY <1>3, <1>4 DEF Init, ForkInv, DigestScheduled, SleepWithinSlot, EpochsInOrder

LEMMA TickerStep ==
  ASSUME ForkInv, Ticker
  PROVE  ForkInv'
<1> USE DEF ForkInv
<1>1. CASE ReadClock
  BY <1>1 DEF ReadClock, envVars, epochsVars, monitorVars, TypeOK, Wall,
     DigestScheduled, Scheduled, SleepWithinSlot, EpochsInOrder
<1>2. CASE SendSlot
  <2>1. /\ CurrentSlot(tNow) \in Nat
        /\ slots' \in Seq(Nat) /\ Len(slots') <= 1
    BY <1>2, SlotOfTime, OneEntry DEF SendSlot, TypeOK
  <2>2. /\ SlotInSeconds(CurrentSlot(tNow) + 1) \in Int /\ tNow \in Int
        /\ tNow >= GenesisTime => SlotInSeconds(CurrentSlot(tNow) + 1) - tNow <= SecondsPerSlot
    BY TimeToNextSlot DEF TypeOK
  <2>3. tDue' \in Int /\ SleepWithinSlot'
    BY <1>2, <2>2, ClockAssumption DEF SendSlot, TypeOK, SleepWithinSlot, envVars
  <2> QED
    BY <1>2, <2>1, <2>3 DEF SendSlot, TypeOK, envVars, epochsVars, monitorVars,
       DigestScheduled, Scheduled, EpochsInOrder
<1>3. CASE TimerFires
  BY <1>3 DEF TimerFires, envVars, epochsVars, monitorVars, TypeOK,
     DigestScheduled, Scheduled, SleepWithinSlot, EpochsInOrder
<1>4. CASE CloseSlots
  BY <1>4 DEF CloseSlots, envVars, epochsVars, monitorVars, TypeOK,
     DigestScheduled, Scheduled, SleepWithinSlot, EpochsInOrder
<1> QED
  BY <1>1, <1>2, <1>3, <1>4 DEF Ticker

LEMMA EpochsStep ==
  ASSUME ForkInv, Epochs
  PROVE  ForkInv'
<1> USE DEF ForkInv
<1>1. CASE FirstSlot
  <2>1. slots' \in Seq(Nat) /\ Len(slots') <= 1 /\ eEpoch' \in Nat
    BY <1>1, OneEntry, EpochOfSlot DEF FirstSlot, TypeOK
  <2> QED
    BY <1>1, <2>1 DEF FirstSlot, TypeOK, envVars, tickerVars, monitorVars,
       DigestScheduled, Scheduled, SleepWithinSlot, EpochsInOrder
<1>2. CASE NextSlot
  <2>1. slots' \in Seq(Nat) /\ Len(slots') <= 1 /\ Head(slots) \in Nat
    BY <1>2, OneEntry DEF NextSlot, TypeOK
  <2>2. EpochForSlot(Head(slots)) \in Nat
    BY <2>1, EpochOfSlot
  <2>3. eEpoch' \in Nat /\ eEpoch' >= eEpoch /\ ePc' \in {"range", "send"}
    BY <1>2, <2>2 DEF NextSlot, NewerEpoch, TypeOK
  <2>4. EpochsInOrder'
    BY <1>2, <2>3 DEF NextSlot, monitorVars, EpochsInOrder, TypeOK
  <2> QED
    BY <1>2, <2>1, <2>3, <2>4 DEF NextSlot, TypeOK, envVars, tickerVars, monitorVars,
       DigestScheduled, Scheduled, SleepWithinSlot
<1>3. CASE SendEpoch
  <2>1. epochCh' \in Seq(Nat) /\ Len(epochCh') <= 1 /\ epochCh'[1] = eEpoch
    BY <1>3, OneEntry DEF SendEpoch, TypeOK
  <2>2. EpochsInOrder'
    BY <1>3, <2>1 DEF SendEpoch, monitorVars, EpochsInOrder, TypeOK
  <2> QED
    BY <1>3, <2>1, <2>2 DEF SendEpoch, TypeOK, envVars, tickerVars, monitorVars,
       DigestScheduled, Scheduled, SleepWithinSlot
<1>4. CASE CloseEpochs
  BY <1>4 DEF CloseEpochs, envVars, tickerVars, monitorVars, TypeOK,
     DigestScheduled, Scheduled, SleepWithinSlot, EpochsInOrder
<1> QED
  BY <1>1, <1>2, <1>3, <1>4 DEF Epochs

LEMMA MonitorStep ==
  ASSUME ForkInv, Monitor
  PROVE  ForkInv' /\ (heard => currentEpoch' >= currentEpoch)
<1> USE DEF ForkInv
<1>1. CASE ReceiveEpoch
  <2>1. /\ epochCh' \in Seq(Nat) /\ Len(epochCh') <= 1 /\ epochCh' = <<>>
        /\ currentEpoch' \in Nat /\ currentEpoch' = epochCh[1]
    BY <1>1, OneEntry DEF ReceiveEpoch, TypeOK
  <2>2. EpochsInOrder' /\ (heard => currentEpoch' >= currentEpoch)
    BY <1>1, <2>1 DEF ReceiveEpoch, epochsVars, EpochsInOrder, TypeOK
  <2> QED
    BY <1>1, <2>1, <2>2 DEF ReceiveEpoch, TypeOK, envVars, tickerVars, epochsVars,
       DigestScheduled, SleepWithinSlot
<1>2. CASE SwitchDigest
  <2>1. /\ Scheduled(currentForkDigest', currentEpoch)
        /\ currentForkDigest' \in {Forks[i].digest : i \in DOMAIN Forks} \cup {NoDigest}
    BY <1>2, ForkIsScheduled DEF SwitchDigest, TypeOK
  <2> QED
    BY <1>2, <2>1 DEF SwitchDigest, TypeOK, envVars, tickerVars, epochsVars,
       DigestScheduled, Scheduled, SleepWithinSlot, EpochsInOrder
<1>3. CASE StopMonitor
  BY <1>3 DEF StopMonitor, TypeOK, envVars, tickerVars, epochsVars,
     DigestScheduled, Scheduled, SleepWithinSlot, EpochsInOrder
<1> QED
  BY <1>1, <1>2, <1>3 DEF Monitor

LEMMA ClockStep ==
  ASSUME ForkInv, Pass \/ SetClock \/ Cancel \/ UNCHANGED fvars
  PROVE  ForkInv'
<1> USE DEF ForkInv, TypeOK, tickerVars, epochsVars, monitorVars,
            DigestScheduled, Scheduled, SleepWithinSlot, EpochsInOrder
<1>1. CASE Pass
  <2>1. SleepWithinSlot'
    BY <1>1, ClockAssumption DEF Pass
  <2>2. DigestScheduled' /\ EpochsInOrder'
    BY <1>1 DEF Pass
  <2>3. TypeOK'
    BY <1>1 DEF Pass
  <2> QED
    BY <2>1, <2>2, <2>3
<1>2. CASE SetClock
  BY <1>2, TimeAssumption DEF SetClock
<1>3. CASE Cancel
  <2>1. ctxDone' \in BOOLEAN
    BY <1>3, Zenon DEF Cancel
  <2> QED
    BY <1>3, <2>1 DEF Cancel
<1>4. CASE UNCHANGED fvars
  BY <1>4 DEF fvars, envVars
<1> QED
  BY <1>1, <1>2, <1>3, <1>4

LEMMA ForkInductive ==
  ASSUME ForkInv, [Next]_fvars
  PROVE  ForkInv'
BY TickerStep, EpochsStep, MonitorStep, ClockStep DEF Next
-----------------------------------------------------------------------------
(* The digest in force is that of the newest supported fork that is due    *)
(* (fork.go, 48-66).                                                       *)
THEOREM DigestAlwaysScheduled == Spec => []DigestScheduled
<1>1. ForkInv => DigestScheduled
  BY DEF ForkInv
<1> QED
  BY ForkInit, ForkInductive, <1>1, PTL DEF Spec

(* However long its send has waited, the ticker's next wake-up is at most  *)
(* a slot away (clock.go, 44-63).                                          *)
THEOREM NeverOversleeps == Spec => []SleepWithinSlot
<1>1. ForkInv => SleepWithinSlot
  BY DEF ForkInv
<1> QED
  BY ForkInit, ForkInductive, <1>1, PTL DEF Spec

(* However the wall clock is set, the epoch that the monitor follows never *)
(* goes back (clock.go, 65-82 and fork.go, 52-70).                         *)
THEOREM EpochsNeverGoBack == Spec => EpochsAscend
<1>1. ForkInv /\ [Next]_fvars => [heard => currentEpoch' >= currentEpoch]_fvars
  <2> SUFFICES ASSUME ForkInv, [Next]_fvars
               PROVE  heard => currentEpoch' >= currentEpoch
    OBVIOUS
  <2>1. CASE Monitor
    BY <2>1, MonitorStep
  <2>2. CASE ~Monitor
    <3>1. currentEpoch' = currentEpoch
      BY <2>2 DEF Next, Ticker, Epochs, ReadClock, SendSlot, TimerFires, CloseSlots, FirstSlot,
         NextSlot, SendEpoch, CloseEpochs, Pass, SetClock, Cancel, fvars, monitorVars
    <3> QED
      BY <3>1 DEF ForkInv, TypeOK
  <2> QED
    BY <2>1, <2>2
<1> QED
  BY ForkInit, ForkInductive, <1>1, PTL DEF Spec, EpochsAscend

(* Every variable of the tickers, the monitor and the two channels keeps   *)
(* its type: no channel holds more than one value (clock.go, 38-82).       *)
THEOREM ClockTypeCorrect == Spec => []TypeOK
<1>1. ForkInv => TypeOK
  BY DEF ForkInv
<1> QED
  BY ForkInit, ForkInductive, <1>1, PTL DEF Spec
=============================================================================
