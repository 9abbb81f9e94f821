---------------------------- MODULE Parts_proofs ----------------------------
(***************************************************************************)
(* Proofs about the parts that are not built on the task queue: the        *)
(* watchdog, the LED, the motion sensor, the filter, packets, rings, the   *)
(* network side, texts, and variables and settings.  Each section has the  *)
(* inductive invariant of one part and the property that follows from it.  *)
(***************************************************************************)
EXTENDS Settings, TextBuffer, Watchdog, BlinkLed, Pir, KernelFilter, Packets, RingBuffer,
        Mdns, HAApp, SequenceTheorems, FiniteSetTheorems, WellFoundedInduction, TLAPS

-----------------------------------------------------------------------------
(* WifiWatchdog.  How long the timer was not fed is bounded by what is     *)
(* known of update(): the time since it was queued, and the time for which *)
(* it could have run.  The bound is kept by a program that switches the    *)
(* watchdog off, because the callback goes on, but not by an update over   *)
(* the air, which stops the callbacks: there it is the list of the timer   *)
(* that the loop's task is not on.                                         *)
FedInTime ==
  /\ pass \in {"start", "loop", "ota", "restart", "stuck"}
  /\ unfed \in Nat /\ late \in 0 .. LoopTime
  /\ updateIn \in -1 .. Update
  /\ updateIn = -1 => lost
  /\ pass = "start" => updateIn = 0
  /\ pass \in {"start", "loop"} /\ ~lost => unfed <= (Update - updateIn) + late
  /\ pass = "ota" => ~watched
  /\ pass = "restart" => unfed <= LoopTime
  /\ pass \in {"start", "loop", "stuck"} /\ ~disabled => watched

(* The timer is fed when the loop starts.                                  *)
LEMMA InitFedInTime == WatchdogInit => FedInTime
BY WatchdogAssumption DEF WatchdogInit, FedInTime

(* Every step of the loop keeps the bound on how long it was not fed.      *)
LEMMA StepFedInTime == FedInTime /\ [WatchdogNext]_watchdogVars => FedInTime'
<1> SUFFICES ASSUME FedInTime, [WatchdogNext]_watchdogVars PROVE FedInTime'
  OBVIOUS
<1> USE WatchdogAssumption DEF FedInTime
<1>1. CASE UpdateWatchdog
  BY <1>1 DEF UpdateWatchdog
<1>2. CASE EnableByProgram
  BY <1>2 DEF EnableByProgram, Enable
<1>3. CASE DisableByProgram
  BY <1>3 DEF DisableByProgram, Disable
<1>4. CASE OtaStarts
  BY <1>4 DEF OtaStarts, Disable
<1>5. CASE OtaFails
  BY <1>5 DEF OtaFails, Enable
<1>6. CASE OtaEnds
  BY <1>6 DEF OtaEnds, Enable
<1>7. CASE Restarts \/ Bites
  BY <1>7 DEF Restarts, Bites, Booted
<1>8. CASE Hangs
  BY <1>8 DEF Hangs
<1>9. CASE TimePasses
  BY <1>9 DEF TimePasses
<1>10. CASE UNCHANGED watchdogVars
  BY <1>10 DEF watchdogVars
<1> QED
  BY <1>1, <1>2, <1>3, <1>4, <1>5, <1>6, <1>7, <1>8, <1>9, <1>10 DEF WatchdogNext

(* The watchdog resets the device only if the loop is stuck or update()    *)
(* was refused by a full queue, for every choice of the three times that   *)
(* leaves the loop its share.                                              *)
THEOREM BitesOnlyStuckLoops == WatchdogSpec => []BitesOnlyStuck
<1>1. FedInTime => BitesOnlyStuck
  BY WatchdogAssumption DEF FedInTime, BitesOnlyStuck
<1> QED
  BY <1>1, InitFedInTime, StepFedInTime, PTL DEF WatchdogSpec

-----------------------------------------------------------------------------
(* BlinkLed.  Between two callbacks the flashes made and those still owed  *)
(* add up to what was asked for.                                           *)
FlashesAddUp ==
  /\ blinks \in Nat /\ flashes \in Nat /\ due \in 0 .. MaxBlinks
  /\ due > 0 /\ led => scheduled /\ flashes + blinks = due
  /\ due > 0 /\ ~led /\ scheduled => flashes + blinks + 1 = due
  /\ due > 0 /\ ~led /\ ~scheduled => blinks = 0 /\ flashes = due

(* No blink is asked for at first.                                         *)
LEMMA InitFlashesAddUp == LedInit => FlashesAddUp
BY MaxBlinksAssumption DEF LedInit, FlashesAddUp

(* A call or a callback changes the flashes, done and due, together.       *)
LEMMA StepFlashesAddUp == FlashesAddUp /\ [LedNext]_ledVars => FlashesAddUp'
<1> SUFFICES ASSUME FlashesAddUp, [LedNext]_ledVars PROVE FlashesAddUp'
  OBVIOUS
<1> USE MaxBlinksAssumption DEF FlashesAddUp
<1>1. ASSUME NEW num \in 1 .. MaxBlinks, Blink(num) PROVE FlashesAddUp'
  BY <1>1 DEF Blink, Schedule
<1>2. ASSUME NEW num \in 0 .. MaxBlinks, DelayedBlink(num) PROVE FlashesAddUp'
  BY <1>2 DEF DelayedBlink, Schedule
<1>3. CASE LedOn \/ LedOff
  BY <1>3 DEF LedOn, LedOff
<1>4. CASE BlinkCallback
  <2>1. CASE led
    <3>1. ~led'
      BY <1>4, <2>1 DEF BlinkCallback
    <3>2. scheduled' <=> blinks > 0
      BY <1>4, <2>1, Zenon DEF BlinkCallback
    <3>3. /\ blinks' = IF blinks > 0 THEN blinks - 1 ELSE blinks
          /\ flashes' = flashes /\ due' = due
      BY <1>4, <2>1 DEF BlinkCallback
    <3> QED
      BY <2>1, <3>1, <3>2, <3>3
  <2>2. CASE ~led
    <3>1. led' /\ scheduled'
      BY <1>4, <2>2, Zenon DEF BlinkCallback
    <3>2. /\ blinks' = blinks /\ due' = due
          /\ flashes' = IF flashes <= MaxBlinks THEN flashes + 1 ELSE flashes
      BY <1>4, <2>2 DEF BlinkCallback
    <3>3. scheduled
      BY <1>4 DEF BlinkCallback
    <3> QED
      BY <2>2, <3>1, <3>2, <3>3
  <2> QED
    BY <2>1, <2>2
<1>5. CASE UNCHANGED ledVars
  BY <1>5 DEF ledVars
<1> QED
  BY <1>1, <1>2, <1>3, <1>4, <1>5 DEF LedNext

(* blink(num) makes num flashes and leaves the LED off, for every num.     *)
THEOREM FlashesAsAsked == LedSpec => []BlinksAsAsked
<1>1. FlashesAddUp => BlinksAsAsked
  BY DEF FlashesAddUp, BlinksAsAsked
<1> QED
  BY <1>1, InitFlashesAddUp, StepFlashesAddUp, PTL DEF LedSpec

-----------------------------------------------------------------------------
(* Pir.  The property is inductive together with the fact that the         *)
(* callback and the interrupt are set by the same call.                    *)
MotionPending ==
  /\ {attached, callback, slot, loop} \subseteq Sensors \cup {Nobody}
  /\ attached = Nobody <=> callback = Nobody
  /\ MotionNotLost

(* Calls, interrupts and the loop keep the motion or its notice.           *)
LEMMA StepMotionPending == MotionPending /\ [PirNext]_pirVars => MotionPending'
<1> SUFFICES ASSUME MotionPending, [PirNext]_pirVars PROVE MotionPending'
  OBVIOUS
<1> USE NobodyAssumption DEF MotionPending, MotionNotLost
<1>1. ASSUME NEW s \in Sensors, CallOnMotion(s) PROVE MotionPending'
  BY <1>1 DEF CallOnMotion
<1>2. ASSUME NEW s \in Sensors, ReadSensor(s) PROVE MotionPending'
  BY <1>2 DEF ReadSensor, ReadsPin
<1>3. ASSUME NEW s \in Sensors, PinChanges(s) PROVE MotionPending'
  BY <1>3 DEF PinChanges
<1>4. CASE TakeCallback
  BY <1>4 DEF TakeCallback
<1>5. CASE RunCallback
  BY <1>5 DEF RunCallback, ReadsPin
<1>6. CASE UNCHANGED pirVars
  BY <1>6 DEF pirVars
<1> QED
  BY <1>1, <1>2, <1>3, <1>4, <1>5, <1>6 DEF PirNext

(* No change of the pin is lost between the interrupt and the loop, for    *)
(* every number of sensors.                                                *)
THEOREM NoMotionLost == PirSpec => []MotionNotLost
<1>1. PirInit => MotionPending
  BY DEF PirInit, MotionPending, MotionNotLost
<1>2. MotionPending => MotionNotLost
  BY DEF MotionPending
<1> QED
  BY <1>1, <1>2, StepMotionPending, PTL DEF PirSpec

-----------------------------------------------------------------------------
(* KernelFilter.  The slots of two samples that are less than FilterSize   *)
(* apart are different ones.                                               *)
LEMMA SlotsDiffer ==
  ASSUME NEW a \in Nat, NEW b \in Nat, a < b, b < a + FilterSize
  PROVE  a % FilterSize # b % FilterSize
<1>1. FilterSize \in Nat /\ FilterSize > 0
  BY FilterSizeAssumption
<1>2. PICK x \in Int : a = FilterSize * x + (a % FilterSize)
  <2>1. a = FilterSize * (a \div FilterSize) + (a % FilterSize) /\ a \div FilterSize \in Int
    BY <1>1
  <2> QED
    BY <2>1
<1>3. PICK y \in Int : b = FilterSize * y + (b % FilterSize)
  <2>1. b = FilterSize * (b \div FilterSize) + (b % FilterSize) /\ b \div FilterSize \in Int
    BY <1>1
  <2> QED
    BY <2>1
<1> SUFFICES ASSUME a % FilterSize = b % FilterSize PROVE FALSE
  OBVIOUS
<1>4. b - a = FilterSize * y - FilterSize * x
  BY <1>1, <1>2, <1>3
<1>5. FilterSize * y - FilterSize * x = (y - x) * FilterSize
  BY <1>1
<1>6. (y - x) * FilterSize > 0 /\ (y - x) * FilterSize < FilterSize
  BY <1>1, <1>4, <1>5
<1> DEFINE d == y - x
<1>7. d \in Int /\ d * FilterSize > 0 /\ d * FilterSize < FilterSize
  BY <1>6
<1> HIDE DEF d
<1>8. d <= 0 => d * FilterSize <= 0
  BY <1>1, <1>7
<1>9. d >= 1 => d * FilterSize >= FilterSize
  BY <1>1, <1>7
<1> QED
  BY <1>1, <1>7, <1>8, <1>9

(* The buffer `values', after `num' samples, has the last ones r.          *)
KeepsLast(num, values, r) ==
  /\ num \in Nat /\ values \in [0 .. FilterSize - 1 -> Samples \cup {0}] /\ r \in Seq(Samples)
  /\ Len(r) = IF num <= FilterSize THEN num ELSE FilterSize
  /\ \A k \in 1 .. Len(r) : r[k] = values[(num - Len(r) + k - 1) % FilterSize]

(* A sample more takes the place of the oldest in the window.              *)
LEMMA SampleAdded ==
  ASSUME NEW num, NEW values, NEW r, KeepsLast(num, values, r), NEW sample \in Samples
  PROVE  KeepsLast(num + 1, [values EXCEPT ![num % FilterSize] = sample],
                   LastOf(Append(r, sample)))
<1> DEFINE s == Append(r, sample)
           v == [values EXCEPT ![num % FilterSize] = sample]
           t == LastOf(s)
           L == Len(r)
<1>1. /\ FilterSize \in Nat /\ FilterSize > 0 /\ num \in Nat /\ L \in Nat /\ L <= FilterSize
      /\ L = (IF num <= FilterSize THEN num ELSE FilterSize) /\ L <= num
      /\ \A n \in Nat : n % FilterSize \in 0 .. FilterSize - 1
      /\ r \in Seq(Samples) /\ values \in [0 .. FilterSize - 1 -> Samples \cup {0}]
  BY FilterSizeAssumption DEF KeepsLast
<1>2. /\ s \in Seq(Samples) /\ Len(s) = L + 1
      /\ \A k \in 1 .. L : s[k] = r[k]
      /\ s[L + 1] = sample
  BY <1>1, AppendProperties
<1>3. /\ v \in [0 .. FilterSize - 1 -> Samples \cup {0}]
      /\ v[num % FilterSize] = sample
      /\ \A n \in Nat : n % FilterSize # num % FilterSize =>
                          v[n % FilterSize] = values[n % FilterSize]
  BY <1>1
<1>4. \A k \in 1 .. L : r[k] = values[(num - L + k - 1) % FilterSize]
  BY DEF KeepsLast
<1> HIDE DEF s, v, L
(* The samples that stay are those in the slots that are not written.      *)
<1>5. ASSUME NEW k \in 1 .. L, num < FilterSize \/ k > 1
      PROVE  s[k] = v[(num - L + k - 1) % FilterSize]
  <2> DEFINE n == num - L + k - 1
  <2>1. n \in Nat /\ n < num /\ num < n + FilterSize
    BY <1>1, <1>5
  <2> HIDE DEF n
  <2>2. v[n % FilterSize] = values[n % FilterSize]
    BY <1>1, <1>3, <2>1, SlotsDiffer
  <2> QED
    BY <1>2, <1>4, <2>2 DEF n
<1>6. CASE num < FilterSize
  <2>1. L = num /\ t = s
    BY <1>1, <1>2, <1>6 DEF LastOf
  <2>2. \A k \in 1 .. num + 1 : s[k] = v[((num + 1) - (num + 1) + k - 1) % FilterSize]
    <3> SUFFICES ASSUME NEW k \in 1 .. num + 1
                 PROVE  s[k] = v[((num + 1) - (num + 1) + k - 1) % FilterSize]
      OBVIOUS
    <3>1. (num + 1) - (num + 1) + k - 1 = k - 1 /\ num - L + k - 1 = k - 1
      BY <1>1, <2>1
    <3>2. CASE k \in 1 .. num
      BY <1>5, <1>6, <2>1, <3>1, <3>2
    <3>3. CASE k = num + 1
      BY <1>1, <1>2, <1>3, <2>1, <3>1, <3>3
    <3> QED
      BY <1>1, <3>2, <3>3
  <2> HIDE DEF t
  <2> QED
    BY <1>1, <1>2, <1>3, <1>6, <2>1, <2>2 DEF KeepsLast, s, v, t
<1>7. CASE num >= FilterSize
  <2>1. L = FilterSize /\ t = SubSeq(s, 2, FilterSize + 1)
    BY <1>1, <1>2, <1>7 DEF LastOf
  <2>2. /\ t \in Seq(Samples) /\ Len(t) = FilterSize
        /\ \A k \in 1 .. FilterSize : t[k] = s[k + 1]
    <3>1. 2 \in Int /\ FilterSize + 1 \in Int /\ (FilterSize + 1) - 2 + 1 = FilterSize /\ 2 <= FilterSize + 1
      BY <1>1
    <3>2. \A k \in 2 .. FilterSize + 1 : s[k] \in Samples
      BY <1>1, <1>2, <2>1, ElementOfSeq
    <3>3. /\ SubSeq(s, 2, FilterSize + 1) \in Seq(Samples)
          /\ Len(SubSeq(s, 2, FilterSize + 1)) = FilterSize
          /\ \A k \in 1 .. FilterSize : SubSeq(s, 2, FilterSize + 1)[k] = s[2 + k - 1]
      BY <3>1, <3>2, SubSeqProperties
    <3>4. \A k \in 1 .. FilterSize : 2 + k - 1 = k + 1
      BY <1>1
    <3> HIDE DEF t
    <3> QED
      BY <2>1, <3>3, <3>4
  <2>3. \A k \in 1 .. FilterSize : t[k] = v[((num + 1) - FilterSize + k - 1) % FilterSize]
    <3> SUFFICES ASSUME NEW k \in 1 .. FilterSize
                 PROVE  s[k + 1] = v[((num + 1) - FilterSize + k - 1) % FilterSize]
      BY <2>2
    <3>1. (num + 1) - FilterSize + k - 1 = num - L + (k + 1) - 1
      BY <1>1, <2>1
    <3>2. CASE k < FilterSize
      <4>1. k + 1 \in 1 .. L /\ k + 1 > 1
        BY <1>1, <2>1, <3>2
      <4> QED
        BY <1>5, <3>1, <4>1
    <3>3. CASE k = FilterSize
      <4>1. (num + 1) - FilterSize + k - 1 = num
        BY <1>1, <3>3
      <4> QED
        BY <1>2, <1>3, <2>1, <3>3, <4>1
    <3> QED
      BY <1>1, <3>2, <3>3
  <2> HIDE DEF t
  <2> QED
    BY <1>1, <1>3, <1>7, <2>2, <2>3 DEF KeepsLast, s, v, t
<1> QED
  BY <1>1, <1>6, <1>7

(* The filter, and a saved state, are of their types, and each has the     *)
(* samples that were the last when it was written.  A state outlives the   *)
(* filter it was saved by, so both are needed.                             *)
FilterRecord == [values : [0 .. FilterSize - 1 -> Samples \cup {0}], num : Nat,
                 sigma : Sigmas, scalar : Sigmas]
StateRecord == [header : {TRUE}, values : [0 .. FilterSize - 1 -> Samples \cup {0}],
                num : Nat, sigma : Sigmas]

FilterKeepsLast ==
  /\ filter \in FilterRecord
  /\ KeepsLast(filter.num, filter.values, recent)
  /\ state # NoState => /\ state \in StateRecord
                        /\ KeepsLast(state.num, state.values, savedRecent)

(* A new filter holds no sample.                                           *)
LEMMA NewFilterEmpty ==
  ASSUME NEW sigma \in Sigmas
  PROVE  /\ NewFilter(sigma) \in FilterRecord
         /\ KeepsLast(NewFilter(sigma).num, NewFilter(sigma).values, <<>>)
<1>1. FilterSize \in Nat /\ FilterSize > 0
  BY FilterSizeAssumption
<1>2. NewFilter(sigma) \in FilterRecord
  BY DEF NewFilter, FilterRecord
<1>3. <<>> \in Seq(Samples) /\ Len(<<>>) = 0
  OBVIOUS
<1> QED
  BY <1>1, <1>2, <1>3 DEF NewFilter, KeepsLast

(* Samples, saving and restoring keep the last samples in the window.      *)
LEMMA StepFilterKeepsLast ==
  ASSUME FilterKeepsLast, [FilterNext]_filterVars PROVE FilterKeepsLast'
<1> USE DEF FilterKeepsLast
<1>1. ASSUME NEW sample \in Samples, AddSample(sample) PROVE FilterKeepsLast'
  <2>1. /\ filter.num \in Nat
        /\ filter'.values = [filter.values EXCEPT ![filter.num % FilterSize] = sample]
        /\ filter'.num = filter.num + 1 /\ filter' \in FilterRecord
    <3>1. FilterSize \in Nat /\ FilterSize > 0 /\ filter \in FilterRecord /\ filter.num \in Nat
      BY FilterSizeAssumption DEF FilterRecord
    <3>2. filter' = [filter EXCEPT !.values = [filter.values EXCEPT ![filter.num % FilterSize] = sample],
                                   !.num = filter.num + 1]
      BY <1>1 DEF AddSample
    <3>3. [filter.values EXCEPT ![filter.num % FilterSize] = sample]
            \in [0 .. FilterSize - 1 -> Samples \cup {0}]
      BY <3>1 DEF FilterRecord
    <3>4. filter.num + 1 \in Nat
      BY <3>1
    <3> QED
      BY <3>1, <3>2, <3>3, <3>4 DEF FilterRecord
  <2>2. KeepsLast(filter.num + 1, [filter.values EXCEPT ![filter.num % FilterSize] = sample],
                  LastOf(Append(recent, sample)))
    BY SampleAdded
  <2> QED
    BY <1>1, <2>1, <2>2 DEF AddSample
<1>2. ASSUME NEW sigma \in Sigmas, SetSigma(sigma) PROVE FilterKeepsLast'
  <2>1. filter'.values = filter.values /\ filter'.num = filter.num /\ filter' \in FilterRecord
    BY <1>2 DEF SetSigma, FilterRecord
  <2> QED
    BY <1>2, <2>1 DEF SetSigma
<1>3. CASE SaveState
  <2>1. /\ state'.values = filter.values /\ state'.num = filter.num /\ state' \in StateRecord
    BY <1>3 DEF SaveState, FilterRecord, StateRecord
  <2> QED
    BY <1>3, <2>1 DEF SaveState
<1>4. CASE RestoreState
  <2>1. state # NoState
    BY <1>4 DEF RestoreState, NoState
  <2>2. filter'.values = state.values /\ filter'.num = state.num /\ filter' \in FilterRecord
    BY <1>4, <2>1 DEF RestoreState, FilterRecord, StateRecord
  <2> QED
    BY <1>4, <2>1, <2>2 DEF RestoreState
<1>5. CASE DeepSleep
  <2>1. PICK sigma \in Sigmas : filter' = NewFilter(sigma)
    BY <1>5 DEF DeepSleep
  <2>2. filter' \in FilterRecord /\ KeepsLast(filter'.num, filter'.values, <<>>)
    BY <2>1, NewFilterEmpty
  <2> QED
    BY <1>5, <2>2 DEF DeepSleep
<1>6. CASE UNCHANGED filterVars
  BY <1>6 DEF filterVars
<1> QED
  BY <1>1, <1>2, <1>3, <1>4, <1>5, <1>6 DEF FilterNext

(* computeValue() averages the last samples, for every size of the buffer, *)
(* set of samples and number of them, through saving, sleep and restoring. *)
THEOREM AverageOfRecent == FilterSpec => []WindowIsRecent
<1>1. FilterInit => FilterKeepsLast
  <2> SUFFICES ASSUME FilterInit PROVE FilterKeepsLast
    OBVIOUS
  <2>1. PICK sigma \in Sigmas : filter = NewFilter(sigma)
    BY DEF FilterInit
  <2> QED
    BY <2>1, NewFilterEmpty DEF FilterInit, FilterKeepsLast
<1>2. FilterKeepsLast => WindowIsRecent
  <2> SUFFICES ASSUME FilterKeepsLast PROVE Window = recent
    BY DEF WindowIsRecent
  <2> DEFINE num == filter.num
             first == IF num <= FilterSize THEN 0 ELSE num - FilterSize
  <2>1. /\ num \in Nat /\ first \in Nat /\ recent \in Seq(Samples) /\ Len(recent) = num - first
        /\ num - Len(recent) = first
        /\ \A k \in 1 .. Len(recent) :
             recent[k] = filter.values[(num - Len(recent) + k - 1) % FilterSize]
    BY FilterSizeAssumption DEF FilterKeepsLast, KeepsLast
  <2>2. Window = [k \in 1 .. num - first |-> filter.values[(first + k - 1) % FilterSize]]
    BY DEF Window
  <2>3. recent = [k \in 1 .. Len(recent) |-> recent[k]]
    BY <2>1
  <2> HIDE DEF num, first
  <2> QED
    BY <2>1, <2>2, <2>3
<1> QED
  BY <1>1, <1>2, StepFilterKeepsLast, PTL DEF FilterSpec

-----------------------------------------------------------------------------
(* Ring buffers.  The rings there can be, and what it is for a ring to     *)
(* hold a sequence: positions count from 0 in a ring and from 1 in a       *)
(* sequence.                                                               *)
Rings == [store : [0 .. RingCapacity - 1 -> Elements \cup {Unset}],
          start : 0 .. RingCapacity - 1, size : 0 .. RingCapacity]

Holds(r, s) ==
  /\ r \in Rings /\ s \in Seq(Elements) /\ Len(s) = r.size
  /\ \A k \in 0 .. r.size - 1 : Element(r, k) = s[k + 1]

InOrderOfKeys(s) == \A i, j \in 1 .. Len(s) : i < j => s[i][1] <= s[j][1]

(* The inductive invariant.                                                *)
RingInv == Holds(ring, items) /\ sorted \in BOOLEAN /\ (sorted => InOrderOfKeys(items))

(* The rest of a sum of two numbers below the divisor.                     *)
LEMMA Wraps ==
  ASSUME NEW c \in Nat, c > 0, NEW a \in 0 .. c - 1, NEW b \in 0 .. c
  PROVE  /\ (a + b) % c = IF a + b < c THEN a + b ELSE a + b - c
         /\ (a + b) % c \in 0 .. c - 1
BY SMTT(30)

(* What a ring is made of, as one fact to be cited.                        *)
LEMMA RingTypes ==
  ASSUME NEW r \in Rings
  PROVE  /\ RingCapacity \in Nat /\ RingCapacity > 0
         /\ r.start \in 0 .. RingCapacity - 1 /\ r.size \in 0 .. RingCapacity
BY RingAssumption DEF Rings

(* Where the index of the code wraps.                                      *)
LEMMA IndexWraps ==
  ASSUME NEW r \in Rings, NEW i \in 0 .. RingCapacity - 1
  PROVE  /\ Index(r, i) \in 0 .. RingCapacity - 1
         /\ Index(r, i) = IF r.start + i < RingCapacity THEN r.start + i
                          ELSE r.start + i - RingCapacity
BY RingTypes, Wraps DEF Index

(* Different positions are different places of the array.                  *)
LEMMA IndexIsOneToOne ==
  ASSUME NEW r \in Rings, NEW i \in 0 .. RingCapacity - 1, NEW j \in 0 .. RingCapacity - 1,
         Index(r, i) = Index(r, j)
  PROVE  i = j
<1>1. /\ RingCapacity \in Nat /\ r.start \in 0 .. RingCapacity - 1
      /\ i \in 0 .. RingCapacity - 1 /\ j \in 0 .. RingCapacity - 1
  BY RingTypes
<1>2. ASSUME NEW c \in Nat, NEW start \in 0 .. c - 1, NEW k \in 0 .. c - 1,
             NEW l \in 0 .. c - 1,
             (IF start + k < c THEN start + k ELSE start + k - c)
               = (IF start + l < c THEN start + l ELSE start + l - c)
      PROVE  k = l
  BY <1>2
<1> QED
  BY <1>1, <1>2, IndexWraps

(* An assignment changes the element at its position and no other.         *)
LEMMA ElementPut ==
  ASSUME NEW r \in Rings, NEW i \in 0 .. RingCapacity - 1, NEW e \in Elements
  PROVE  /\ Put(r, i, e) \in Rings /\ Put(r, i, e).size = r.size
         /\ \A j \in 0 .. RingCapacity - 1 :
              Element(Put(r, i, e), j) = IF j = i THEN e ELSE Element(r, j)
<1>1. Index(r, i) \in 0 .. RingCapacity - 1
  BY IndexWraps
<1>2. /\ Put(r, i, e) \in Rings /\ Put(r, i, e).size = r.size
      /\ Put(r, i, e).start = r.start
      /\ Put(r, i, e).store = [r.store EXCEPT ![Index(r, i)] = e]
  BY <1>1 DEF Put, Rings
<1>3. \A j \in 0 .. RingCapacity - 1 :
        Element(Put(r, i, e), j) = IF j = i THEN e ELSE Element(r, j)
  <2> SUFFICES ASSUME NEW j \in 0 .. RingCapacity - 1
               PROVE  Element(Put(r, i, e), j) = IF j = i THEN e ELSE Element(r, j)
    OBVIOUS
  <2>1. Index(Put(r, i, e), j) = Index(r, j)
    BY <1>2 DEF Index
  <2>2. Index(r, j) \in 0 .. RingCapacity - 1 /\ DOMAIN r.store = 0 .. RingCapacity - 1
    BY IndexWraps DEF Rings
  <2>3. j # i => Index(r, j) # Index(r, i)
    BY IndexIsOneToOne
  <2> QED
    BY <1>1, <1>2, <2>1, <2>2, <2>3 DEF Element
<1> QED
  BY <1>2, <1>3

(* The size says how many elements count, not what they are.               *)
LEMMA ElementSized ==
  ASSUME NEW r \in Rings, NEW n \in 0 .. RingCapacity
  PROVE  /\ [r EXCEPT !.size = n] \in Rings /\ [r EXCEPT !.size = n].size = n
         /\ \A j \in 0 .. RingCapacity - 1 : Element([r EXCEPT !.size = n], j) = Element(r, j)
BY DEF Rings, Element, Index

(* A start that moves on drops the first position.                         *)
LEMMA ElementIncrement ==
  ASSUME NEW r \in Rings
  PROVE  /\ IncrementStart(r) \in Rings /\ IncrementStart(r).size = r.size
         /\ \A j \in 0 .. RingCapacity - 2 : Element(IncrementStart(r), j) = Element(r, j + 1)
<1>1. /\ IncrementStart(r) \in Rings /\ IncrementStart(r).size = r.size
      /\ IncrementStart(r).store = r.store
      /\ IncrementStart(r).start = IF r.start + 1 < RingCapacity THEN r.start + 1 ELSE 0
  <2>1. /\ (r.start + 1) % RingCapacity \in 0 .. RingCapacity - 1
        /\ (r.start + 1) % RingCapacity = IF r.start + 1 < RingCapacity THEN r.start + 1 ELSE 0
    <3>1. 1 \in 0 .. RingCapacity
      BY RingTypes
    <3> QED
      BY <3>1, RingTypes, Wraps
  <2> QED
    BY <2>1 DEF Rings, IncrementStart
<1>2. ASSUME NEW j \in 0 .. RingCapacity - 2
      PROVE  Index(IncrementStart(r), j) = Index(r, j + 1)
  <2>1. j \in 0 .. RingCapacity - 1 /\ j + 1 \in 0 .. RingCapacity - 1
    BY RingTypes
  <2>2. /\ Index(IncrementStart(r), j)
             = IF IncrementStart(r).start + j < RingCapacity THEN IncrementStart(r).start + j
               ELSE IncrementStart(r).start + j - RingCapacity
        /\ Index(r, j + 1) = IF r.start + (j + 1) < RingCapacity THEN r.start + (j + 1)
                              ELSE r.start + (j + 1) - RingCapacity
    BY <1>1, <2>1, IndexWraps
  <2>3. RingCapacity \in Nat /\ r.start \in 0 .. RingCapacity - 1
    BY RingTypes
  <2> QED
    BY <1>1, <2>1, <2>2, <2>3
<1> QED
  BY <1>1, <1>2 DEF Element

(* A start that moves back makes room for a new first position.            *)
LEMMA ElementDecrement ==
  ASSUME NEW r \in Rings
  PROVE  /\ DecrementStart(r) \in Rings /\ DecrementStart(r).size = r.size
         /\ \A j \in 1 .. RingCapacity - 1 : Element(DecrementStart(r), j) = Element(r, j - 1)
<1>1. /\ DecrementStart(r) \in Rings /\ DecrementStart(r).size = r.size
      /\ DecrementStart(r).store = r.store
      /\ DecrementStart(r).start = IF r.start = 0 THEN RingCapacity - 1 ELSE r.start - 1
  <2>1. /\ (r.start + (RingCapacity - 1)) % RingCapacity \in 0 .. RingCapacity - 1
        /\ (r.start + (RingCapacity - 1)) % RingCapacity
             = IF r.start = 0 THEN RingCapacity - 1 ELSE r.start - 1
    <3>1. RingCapacity - 1 \in 0 .. RingCapacity
      BY RingTypes
    <3> QED
      BY <3>1, RingTypes, Wraps
  <2> QED
    BY <2>1 DEF Rings, DecrementStart
<1>2. ASSUME NEW j \in 1 .. RingCapacity - 1
      PROVE  Index(DecrementStart(r), j) = Index(r, j - 1)
  <2>1. j \in 0 .. RingCapacity - 1 /\ j - 1 \in 0 .. RingCapacity - 1
    BY RingTypes
  <2>2. /\ Index(DecrementStart(r), j)
             = IF DecrementStart(r).start + j < RingCapacity THEN DecrementStart(r).start + j
               ELSE DecrementStart(r).start + j - RingCapacity
        /\ Index(r, j - 1) = IF r.start + (j - 1) < RingCapacity THEN r.start + (j - 1)
                              ELSE r.start + (j - 1) - RingCapacity
    BY <1>1, <2>1, IndexWraps
  <2>3. RingCapacity \in Nat /\ r.start \in 0 .. RingCapacity - 1
    BY RingTypes
  <2> QED
    BY <1>1, <2>1, <2>2, <2>3
<1> QED
  BY <1>1, <1>2 DEF Element

(* shift() moves the last num elements one position towards the end.       *)
LEMMA ElementShift ==
  ASSUME NEW r \in Rings, r.size < RingCapacity, NEW num \in 0 .. r.size
  PROVE  /\ Shift(r, num) \in Rings /\ Shift(r, num).size = r.size
         /\ \A j \in 0 .. r.size :
              Element(Shift(r, num), j)
                = IF j > r.size - num THEN Element(r, j - 1) ELSE Element(r, j)
<1>1. /\ Shift(r, num).size = r.size /\ Shift(r, num).start = r.start
      /\ Shift(r, num).store = [p \in 0 .. RingCapacity - 1 |->
           IF \E i \in r.size - num .. r.size - 1 : i + 1 < RingCapacity /\ Index(r, i + 1) = p
           THEN r.store[(p + RingCapacity - 1) % RingCapacity] ELSE r.store[p]]
      /\ Shift(r, num) = [store |-> Shift(r, num).store, start |-> Shift(r, num).start,
                          size |-> Shift(r, num).size]
  <2>1. DOMAIN r.store = 0 .. RingCapacity - 1
    BY DEF Rings
  <2>2. ASSUME NEW f
        PROVE  [r EXCEPT !.store = f] = [store |-> f, start |-> r.start, size |-> r.size]
    BY DEF Rings
  <2>3. PICK moved : moved = [p \in DOMAIN r.store |->
          IF \E i \in r.size - num .. r.size - 1 : i + 1 < RingCapacity /\ Index(r, i + 1) = p
          THEN r.store[(p + RingCapacity - 1) % RingCapacity] ELSE r.store[p]]
    OBVIOUS
  <2>4. Shift(r, num) = [r EXCEPT !.store = moved]
    BY <2>3, Zenon DEF Shift
  <2>5. moved = [p \in 0 .. RingCapacity - 1 |->
          IF \E i \in r.size - num .. r.size - 1 : i + 1 < RingCapacity /\ Index(r, i + 1) = p
          THEN r.store[(p + RingCapacity - 1) % RingCapacity] ELSE r.store[p]]
    BY <2>1, <2>3, Zenon
  <2>6. Shift(r, num) = [store |-> moved, start |-> r.start, size |-> r.size]
    BY <2>2, <2>4, Zenon
  <2>7. /\ Shift(r, num).store = moved
        /\ Shift(r, num).start = r.start /\ Shift(r, num).size = r.size
    BY <2>6
  <2> QED
    BY <2>5, <2>6, <2>7, Zenon
<1>2. \A p \in 0 .. RingCapacity - 1 :
        /\ r.store[p] \in Elements \cup {Unset}
        /\ (p + RingCapacity - 1) % RingCapacity \in 0 .. RingCapacity - 1
  BY RingAssumption DEF Rings
<1>3. Shift(r, num) \in Rings
  <2>1. Shift(r, num).store \in [0 .. RingCapacity - 1 -> Elements \cup {Unset}]
    BY <1>1, <1>2
  <2> QED
    BY <1>1, <2>1 DEF Rings
<1>4. ASSUME NEW j \in 0 .. r.size
      PROVE  Element(Shift(r, num), j)
               = IF j > r.size - num THEN Element(r, j - 1) ELSE Element(r, j)
  <2>1. /\ j \in 0 .. RingCapacity - 1 /\ r.size \in Nat /\ num \in Nat
        /\ r.start \in 0 .. RingCapacity - 1 /\ RingCapacity \in Nat /\ RingCapacity > 0
    BY RingTypes
  <2>2. Index(Shift(r, num), j) = Index(r, j) /\ Index(r, j) \in 0 .. RingCapacity - 1
    BY <1>1, <2>1, IndexWraps DEF Index
  <2>3. CASE j > r.size - num
    <3>1. j - 1 \in r.size - num .. r.size - 1 /\ (j - 1) + 1 = j /\ j < RingCapacity
      BY <2>1, <2>3
    <3>2. \E i \in r.size - num .. r.size - 1 :
            i + 1 < RingCapacity /\ Index(r, i + 1) = Index(r, j)
      BY <3>1
    <3>3. j - 1 \in 0 .. RingCapacity - 1
      BY <2>1, <2>3
    <3>4. (Index(r, j) + RingCapacity - 1) % RingCapacity = Index(r, j - 1)
      <4>1. /\ Index(r, j) = IF r.start + j < RingCapacity THEN r.start + j
                             ELSE r.start + j - RingCapacity
            /\ Index(r, j - 1) = IF r.start + (j - 1) < RingCapacity THEN r.start + (j - 1)
                                 ELSE r.start + (j - 1) - RingCapacity
        BY <2>1, <3>3, IndexWraps
      <4>2. (Index(r, j) + (RingCapacity - 1)) % RingCapacity
              = IF Index(r, j) = 0 THEN RingCapacity - 1 ELSE Index(r, j) - 1
        <5>1. RingCapacity - 1 \in 0 .. RingCapacity
          BY <2>1
        <5> QED
          BY <2>1, <2>2, <5>1, Wraps
      <4> QED
        BY <2>1, <2>2, <3>3, <4>1, <4>2
    <3> QED
      BY <1>1, <2>2, <2>3, <3>2, <3>4 DEF Element
  <2>4. CASE ~(j > r.size - num)
    <3>1. ASSUME NEW i \in r.size - num .. r.size - 1, i + 1 < RingCapacity
          PROVE  Index(r, i + 1) # Index(r, j)
      <4>1. i + 1 \in 0 .. RingCapacity - 1 /\ i + 1 # j
        BY <2>1, <2>4, <3>1
      <4> QED
        BY <2>1, <4>1, IndexIsOneToOne
    <3> QED
      BY <1>1, <2>2, <2>4, <3>1 DEF Element
  <2> QED
    BY <2>3, <2>4
<1> QED
  BY <1>1, <1>3, <1>4

(* lshift() moves the last num elements one position towards the front.    *)
LEMMA ElementLShift ==
  ASSUME NEW r \in Rings, NEW num \in 0 .. r.size - 1
  PROVE  /\ LShift(r, num) \in Rings /\ LShift(r, num).size = r.size
         /\ \A j \in 0 .. r.size - 2 :
              Element(LShift(r, num), j)
                = IF j >= r.size - num - 1 THEN Element(r, j + 1) ELSE Element(r, j)
<1>1. /\ LShift(r, num).size = r.size /\ LShift(r, num).start = r.start
      /\ LShift(r, num).store = [p \in 0 .. RingCapacity - 1 |->
           IF \E i \in r.size - num .. r.size - 1 : Index(r, i - 1) = p
           THEN r.store[(p + 1) % RingCapacity] ELSE r.store[p]]
      /\ LShift(r, num) = [store |-> LShift(r, num).store, start |-> LShift(r, num).start,
                           size |-> LShift(r, num).size]
  <2>1. DOMAIN r.store = 0 .. RingCapacity - 1
    BY DEF Rings
  <2>2. ASSUME NEW f
        PROVE  [r EXCEPT !.store = f] = [store |-> f, start |-> r.start, size |-> r.size]
    BY DEF Rings
  <2>3. PICK moved : moved = [p \in DOMAIN r.store |->
          IF \E i \in r.size - num .. r.size - 1 : Index(r, i - 1) = p
          THEN r.store[(p + 1) % RingCapacity] ELSE r.store[p]]
    OBVIOUS
  <2>4. LShift(r, num) = [r EXCEPT !.store = moved]
    BY <2>3, Zenon DEF LShift
  <2>5. moved = [p \in 0 .. RingCapacity - 1 |->
          IF \E i \in r.size - num .. r.size - 1 : Index(r, i - 1) = p
          THEN r.store[(p + 1) % RingCapacity] ELSE r.store[p]]
    BY <2>1, <2>3, Zenon
  <2>6. LShift(r, num) = [store |-> moved, start |-> r.start, size |-> r.size]
    BY <2>2, <2>4, Zenon
  <2>7. /\ LShift(r, num).store = moved
        /\ LShift(r, num).start = r.start /\ LShift(r, num).size = r.size
    BY <2>6
  <2> QED
    BY <2>5, <2>6, <2>7, Zenon
<1>2. \A p \in 0 .. RingCapacity - 1 :
        /\ r.store[p] \in Elements \cup {Unset}
        /\ (p + 1) % RingCapacity \in 0 .. RingCapacity - 1
  BY RingAssumption DEF Rings
<1>3. LShift(r, num) \in Rings
  <2>1. LShift(r, num).store \in [0 .. RingCapacity - 1 -> Elements \cup {Unset}]
    BY <1>1, <1>2
  <2> QED
    BY <1>1, <2>1 DEF Rings
<1>4. ASSUME NEW j \in 0 .. r.size - 2
      PROVE  Element(LShift(r, num), j)
               = IF j >= r.size - num - 1 THEN Element(r, j + 1) ELSE Element(r, j)
  <2>1. /\ j \in 0 .. RingCapacity - 1 /\ r.size \in Nat /\ num \in Nat
        /\ r.size <= RingCapacity
        /\ r.start \in 0 .. RingCapacity - 1 /\ RingCapacity \in Nat /\ RingCapacity > 0
    BY RingTypes
  <2>2. Index(LShift(r, num), j) = Index(r, j) /\ Index(r, j) \in 0 .. RingCapacity - 1
    BY <1>1, <2>1, IndexWraps DEF Index
  <2>3. CASE j >= r.size - num - 1
    <3>1. j + 1 \in r.size - num .. r.size - 1 /\ (j + 1) - 1 = j
      BY <2>1, <2>3
    <3>2. \E i \in r.size - num .. r.size - 1 : Index(r, i - 1) = Index(r, j)
      BY <3>1
    <3>3. j + 1 \in 0 .. RingCapacity - 1
      BY <2>1, <2>3
    <3>4. (Index(r, j) + 1) % RingCapacity = Index(r, j + 1)
      <4>1. /\ Index(r, j) = IF r.start + j < RingCapacity THEN r.start + j
                             ELSE r.start + j - RingCapacity
            /\ Index(r, j + 1) = IF r.start + (j + 1) < RingCapacity THEN r.start + (j + 1)
                                 ELSE r.start + (j + 1) - RingCapacity
            /\ Index(r, j + 1) \in 0 .. RingCapacity - 1
        BY <2>1, <3>3, IndexWraps
      <4>2. (Index(r, j) + 1) % RingCapacity
              = IF Index(r, j) + 1 < RingCapacity THEN Index(r, j) + 1 ELSE 0
        <5>1. 1 \in 0 .. RingCapacity
          BY <2>1
        <5> QED
          BY <2>1, <2>2, <5>1, Wraps
      <4> QED
        BY <2>1, <2>2, <3>3, <4>1, <4>2
    <3> QED
      BY <1>1, <2>2, <2>3, <3>2, <3>4 DEF Element
  <2>4. CASE ~(j >= r.size - num - 1)
    <3>1. ASSUME NEW i \in r.size - num .. r.size - 1
          PROVE  Index(r, i - 1) # Index(r, j)
      <4>1. i - 1 \in 0 .. RingCapacity - 1 /\ i - 1 # j
        BY <2>1, <2>4
      <4> QED
        BY <2>1, <4>1, IndexIsOneToOne
    <3> QED
      BY <1>1, <2>2, <2>4, <3>1 DEF Element
  <2> QED
    BY <2>3, <2>4
<1> QED
  BY <1>1, <1>3, <1>4
(* What RemoveAt, InsertAt, Tail and Front make of a sequence.             *)
LEMMA RemoveAtProperties ==
  ASSUME NEW S, NEW q \in Seq(S), NEW i \in 1 .. Len(q)
  PROVE  /\ RemoveAt(q, i) \in Seq(S)
         /\ Len(RemoveAt(q, i)) = Len(q) - 1
         /\ \A k \in 1 .. Len(q) - 1 :
              RemoveAt(q, i)[k] = IF k < i THEN q[k] ELSE q[k + 1]
<1> DEFINE front == SubSeq(q, 1, i - 1)
           rest == SubSeq(q, i + 1, Len(q))
<1>1. /\ front \in Seq(S) /\ Len(front) = i - 1
      /\ \A k \in 1 .. i - 1 : front[k] = q[k]
  BY SubSeqProperties, ElementOfSeq, LenProperties
<1>2. /\ rest \in Seq(S) /\ Len(rest) = Len(q) - i
      /\ \A k \in 1 .. Len(q) - i : rest[k] = q[i + k]
  BY SubSeqProperties, ElementOfSeq, LenProperties
<1>3. /\ front \o rest \in Seq(S)
      /\ Len(front \o rest) = Len(front) + Len(rest)
      /\ \A k \in 1 .. Len(front) + Len(rest) :
           (front \o rest)[k] = IF k <= Len(front) THEN front[k] ELSE rest[k - Len(front)]
  BY <1>1, <1>2, ConcatProperties
<1>4. RemoveAt(q, i) = front \o rest
  BY DEF RemoveAt
<1>5. Len(q) \in Nat
  BY LenProperties
<1> HIDE DEF front, rest
<1>6. \A k \in 1 .. Len(q) - 1 :
        (front \o rest)[k] = IF k < i THEN q[k] ELSE q[k + 1]
  <2> SUFFICES ASSUME NEW k \in 1 .. Len(q) - 1
               PROVE  (front \o rest)[k] = IF k < i THEN q[k] ELSE q[k + 1]
    OBVIOUS
  <2>1. CASE k < i
    BY <1>1, <1>2, <1>3, <1>5, <2>1
  <2>2. CASE k >= i
    <3>1. (front \o rest)[k] = rest[k - i + 1]
      BY <1>1, <1>2, <1>3, <1>5, <2>2
    <3>2. k - i + 1 \in 1 .. Len(q) - i /\ i + (k - i + 1) = k + 1
      BY <1>5, <2>2
    <3>3. rest[k - i + 1] = q[i + (k - i + 1)]
      BY <1>2, <3>2
    <3> QED
      BY <2>2, <3>1, <3>2, <3>3
  <2>3. k < i \/ k >= i
    OBVIOUS
  <2> QED
    BY <2>1, <2>2, <2>3
<1>7. Len(front \o rest) = Len(q) - 1
  BY <1>1, <1>2, <1>3, <1>5
<1> QED
  BY <1>3, <1>4, <1>6, <1>7

(* InsertAt puts the entry at its place and moves what is behind it up.    *)
LEMMA InsertAtProperties ==
  ASSUME NEW S, NEW q \in Seq(S), NEW i \in 1 .. Len(q) + 1, NEW e \in S
  PROVE  /\ InsertAt(q, i, e) \in Seq(S)
         /\ Len(InsertAt(q, i, e)) = Len(q) + 1
         /\ \A k \in 1 .. Len(q) + 1 :
              InsertAt(q, i, e)[k] = IF k < i THEN q[k] ELSE IF k = i THEN e ELSE q[k - 1]
<1> DEFINE front == SubSeq(q, 1, i - 1)
           rest == SubSeq(q, i, Len(q))
           left == front \o <<e>>
<1>1. /\ front \in Seq(S) /\ Len(front) = i - 1
      /\ \A k \in 1 .. i - 1 : front[k] = q[k]
  BY SubSeqProperties, ElementOfSeq, LenProperties
<1>2. /\ rest \in Seq(S) /\ Len(rest) = Len(q) - i + 1
      /\ \A k \in 1 .. Len(q) - i + 1 : rest[k] = q[i + k - 1]
  BY SubSeqProperties, ElementOfSeq, LenProperties
<1>3. <<e>> \in Seq(S) /\ Len(<<e>>) = 1 /\ <<e>>[1] = e
  OBVIOUS
<1>4. /\ left \in Seq(S) /\ Len(left) = i
      /\ \A k \in 1 .. i : left[k] = IF k < i THEN q[k] ELSE e
  <2>1. /\ left \in Seq(S) /\ Len(left) = Len(front) + Len(<<e>>)
        /\ \A k \in 1 .. Len(front) + Len(<<e>>) :
             left[k] = IF k <= Len(front) THEN front[k] ELSE <<e>>[k - Len(front)]
    BY <1>1, <1>3, ConcatProperties
  <2> HIDE DEF front, left
  <2> QED
    BY <1>1, <1>3, <2>1
<1>5. /\ left \o rest \in Seq(S)
      /\ Len(left \o rest) = Len(left) + Len(rest)
      /\ \A k \in 1 .. Len(left) + Len(rest) :
           (left \o rest)[k] = IF k <= Len(left) THEN left[k] ELSE rest[k - Len(left)]
  BY <1>2, <1>4, ConcatProperties
<1>6. InsertAt(q, i, e) = left \o rest
  BY DEF InsertAt
<1> HIDE DEF front, rest, left
<1> QED
  BY <1>2, <1>4, <1>5, <1>6, LenProperties

(* Tail and Front take the first and the last element out.                 *)
LEMMA EndsAreRemovals ==
  ASSUME NEW S, NEW q \in Seq(S), q # <<>>
  PROVE  /\ Len(q) \in Nat \ {0}
         /\ Tail(q) = RemoveAt(q, 1)
         /\ Front(q) = RemoveAt(q, Len(q))
<1>1. Len(q) \in Nat \ {0}
  BY EmptySeq
<1>2. Tail(q) = RemoveAt(q, 1)
  <2>1. /\ Tail(q) \in Seq(S) /\ Len(Tail(q)) = Len(q) - 1
        /\ \A k \in 1 .. Len(q) - 1 : Tail(q)[k] = q[k + 1]
    BY HeadTailProperties
  <2>2. /\ RemoveAt(q, 1) \in Seq(S) /\ Len(RemoveAt(q, 1)) = Len(q) - 1
        /\ \A k \in 1 .. Len(q) - 1 : RemoveAt(q, 1)[k] = q[k + 1]
    BY <1>1, RemoveAtProperties
  <2> QED
    BY <2>1, <2>2, SeqEqual
<1>3. Front(q) = RemoveAt(q, Len(q))
  <2>1. /\ Front(q) \in Seq(S) /\ Len(Front(q)) = Len(q) - 1
        /\ \A k \in 1 .. Len(q) - 1 : Front(q)[k] = q[k]
    BY <1>1, SubSeqProperties, ElementOfSeq DEF Front
  <2>2. /\ RemoveAt(q, Len(q)) \in Seq(S) /\ Len(RemoveAt(q, Len(q))) = Len(q) - 1
        /\ \A k \in 1 .. Len(q) - 1 : RemoveAt(q, Len(q))[k] = q[k]
    BY <1>1, RemoveAtProperties
  <2> QED
    BY <2>1, <2>2, SeqEqual
<1> QED
  BY <1>1, <1>2, <1>3

(* A set of numbers up to n that is not empty has a greatest one.          *)
LEMMA GreatestExists ==
  ASSUME NEW n \in Nat, NEW T, T \subseteq 0 .. n, T # {}
  PROVE  \E i \in T : \A j \in T : j <= i
<1> DEFINE mirrored == { n - i : i \in T }
<1>1. mirrored \subseteq Nat /\ mirrored # {}
  <2>1. \A i \in T : n - i \in Nat
    OBVIOUS
  <2> QED
    BY <2>1
<1> HIDE DEF mirrored
<1>2. PICK x \in mirrored : \A y \in mirrored : ~(<<y, x>> \in OpToRel(<, Nat))
  BY <1>1, NatLessThanWellFounded, WFMin
<1>3. \A y \in mirrored : x <= y
  <2> SUFFICES ASSUME NEW y \in mirrored
               PROVE  x <= y
    OBVIOUS
  <2>1. ~(<<y, x>> \in OpToRel(<, Nat))
    BY <1>2
  <2>2. x \in Nat /\ y \in Nat
    BY <1>1
  <2> QED
    BY <2>1, <2>2 DEF OpToRel
<1>4. PICK i \in T : x = n - i
  BY <1>2 DEF mirrored
<1>5. \A j \in T : n - j \in mirrored
  BY DEF mirrored
<1>6. \A j \in T : j \in Int
  OBVIOUS
<1> QED
  BY <1>3, <1>4, <1>5, <1>6

-----------------------------------------------------------------------------
(* A ring holds a sequence when its elements are those of the sequence and *)
(* it is given the size.                                                   *)
LEMMA SizedHolds ==
  ASSUME NEW r \in Rings, NEW s \in Seq(Elements), NEW n \in 0 .. RingCapacity, Len(s) = n,
         \A k \in 0 .. n - 1 : Element(r, k) = s[k + 1]
  PROVE  Holds([r EXCEPT !.size = n], s)
<1>1. \A k \in 0 .. n - 1 : k \in 0 .. RingCapacity - 1
  BY RingAssumption
<1> QED
  BY <1>1, ElementSized DEF Holds

(* A ring without its element at i.                                        *)
LEMMA CutHolds ==
  ASSUME NEW r, NEW s, Holds(r, s), NEW i \in 0 .. r.size - 1
  PROVE  Holds(Cut(r, i), RemoveAt(s, i + 1))
<1>1. /\ r \in Rings /\ s \in Seq(Elements) /\ Len(s) = r.size
      /\ \A k \in 0 .. r.size - 1 : Element(r, k) = s[k + 1]
  BY DEF Holds
<1>2. r.size \in 1 .. RingCapacity /\ RingCapacity \in Nat
  BY <1>1, RingTypes
<1> DEFINE left == RemoveAt(s, i + 1)
<1>3. /\ left \in Seq(Elements) /\ Len(left) = r.size - 1
      /\ \A k \in 0 .. r.size - 2 : left[k + 1] = IF k < i THEN s[k + 1] ELSE s[k + 2]
  <2>1. i + 1 \in 1 .. Len(s)
    BY <1>1, <1>2
  <2>2. /\ left \in Seq(Elements) /\ Len(left) = Len(s) - 1
        /\ \A k \in 1 .. Len(s) - 1 : left[k] = IF k < i + 1 THEN s[k] ELSE s[k + 1]
    BY <1>1, <2>1, RemoveAtProperties
  <2>3. ASSUME NEW k \in 0 .. r.size - 2
        PROVE  left[k + 1] = IF k < i THEN s[k + 1] ELSE s[k + 2]
    <3>1. k + 1 \in 1 .. Len(s) - 1 /\ (k + 1 < i + 1 <=> k < i) /\ (k + 1) + 1 = k + 2
      BY <1>1, <1>2
    <3> QED
      BY <2>2, <3>1
  <2> QED
    BY <1>1, <2>2, <2>3
<1>4. r.size - 1 \in 0 .. RingCapacity
  BY <1>2
<1> HIDE DEF left
<1>5. CASE i = 0
  <2>1. IncrementStart(r) \in Rings /\ IncrementStart(r).size = r.size
    BY <1>1, ElementIncrement
  <2>2. ASSUME NEW k \in 0 .. (r.size - 1) - 1
        PROVE  Element(IncrementStart(r), k) = left[k + 1]
    <3>1. k \in 0 .. RingCapacity - 2 /\ k \in 0 .. r.size - 2 /\ k + 1 \in 0 .. r.size - 1
          /\ (k + 1) + 1 = k + 2 /\ ~(k < 0)
      BY <1>2
    <3>2. Element(IncrementStart(r), k) = Element(r, k + 1)
      BY <1>1, <3>1, ElementIncrement
    <3>3. Element(r, k + 1) = s[k + 2]
      BY <1>1, <3>1
    <3> QED
      BY <1>3, <1>5, <3>1, <3>2, <3>3
  <2>3. Cut(r, i) = [IncrementStart(r) EXCEPT !.size = r.size - 1]
    BY <1>5, <2>1 DEF Cut
  <2> QED
    BY <1>3, <1>4, <2>1, <2>2, <2>3, SizedHolds DEF left
<1>6. CASE i # 0
  <2> DEFINE num == r.size - i - 1
  <2>1. num \in 0 .. r.size - 1 /\ r.size - num - 1 = i
    BY <1>2
  <2>2. /\ LShift(r, num) \in Rings /\ LShift(r, num).size = r.size
        /\ \A j \in 0 .. r.size - 2 :
             Element(LShift(r, num), j) = IF j >= i THEN Element(r, j + 1) ELSE Element(r, j)
    <3>1. /\ LShift(r, num) \in Rings /\ LShift(r, num).size = r.size
          /\ \A j \in 0 .. r.size - 2 :
               Element(LShift(r, num), j)
                 = IF j >= r.size - num - 1 THEN Element(r, j + 1) ELSE Element(r, j)
      BY <1>1, <2>1, ElementLShift
    <3> HIDE DEF num
    <3> QED
      BY <2>1, <3>1
  <2>3. Cut(r, i) = [LShift(r, num) EXCEPT !.size = r.size - 1]
    BY <1>6, <2>2 DEF Cut
  <2> HIDE DEF num
  <2>4. ASSUME NEW k \in 0 .. (r.size - 1) - 1
        PROVE  Element(LShift(r, num), k) = left[k + 1]
    <3>1. /\ k \in 0 .. r.size - 2 /\ k \in 0 .. r.size - 1 /\ k + 1 \in 0 .. r.size - 1
          /\ (k + 1) + 1 = k + 2 /\ (k >= i <=> ~(k < i))
      BY <1>2
    <3>2. Element(r, k) = s[k + 1] /\ Element(r, k + 1) = s[k + 2]
      BY <1>1, <3>1
    <3> QED
      BY <1>3, <2>2, <3>1, <3>2
  <2> QED
    BY <1>3, <1>4, <2>2, <2>3, <2>4, SizedHolds DEF left
<1> QED
  BY <1>5, <1>6

(* removeIndex() on a position of the ring, or beyond it.                  *)
LEMMA RemoveIndexHolds ==
  ASSUME NEW r, NEW s, Holds(r, s), NEW i \in Nat
  PROVE  Holds(RemoveIndex(r, i), IF i < Len(s) THEN RemoveAt(s, i + 1) ELSE s)
<1>1. Len(s) = r.size /\ r.size \in Nat
  BY RingTypes DEF Holds
<1>2. CASE i < r.size
  <2>1. i \in 0 .. r.size - 1 /\ ~(i >= r.size)
    BY <1>1, <1>2
  <2> QED
    BY <1>1, <1>2, <2>1, CutHolds DEF RemoveIndex
<1>3. CASE ~(i < r.size)
  <2>1. i >= r.size
    BY <1>1, <1>3
  <2> QED
    BY <1>1, <1>3, <2>1 DEF RemoveIndex
<1> QED
  BY <1>2, <1>3

(* The only element of a ring leaves, and its start goes back to 0.        *)
LEMMA EmptiedHolds ==
  ASSUME NEW r \in Rings
  PROVE  Holds(Emptied(r), <<>>)
<1>1. Emptied(r) \in Rings /\ Emptied(r).size = 0
  <2>1. 0 \in 0 .. RingCapacity - 1 /\ 0 \in 0 .. RingCapacity
    BY RingTypes
  <2>2. [r EXCEPT !.start = 0] \in Rings
    BY <2>1 DEF Rings
  <2>3. Emptied(r) = [[r EXCEPT !.start = 0] EXCEPT !.size = 0]
    BY DEF Emptied
  <2> QED
    BY <2>1, <2>2, <2>3, ElementSized
<1>2. <<>> \in Seq(Elements) /\ Len(<<>>) = 0
  OBVIOUS
<1> QED
  BY <1>1, <1>2 DEF Holds

(* popFront() drops the first element, if there is one.                    *)
LEMMA PopFrontHolds ==
  ASSUME NEW r, NEW s, Holds(r, s)
  PROVE  Holds(PopFront(r), IF s = <<>> THEN s ELSE Tail(s))
<1>1. /\ r \in Rings /\ s \in Seq(Elements) /\ Len(s) = r.size /\ r.size \in Nat
      /\ s = <<>> <=> r.size = 0
  BY RingTypes, EmptySeq DEF Holds
<1>2. CASE r.size = 0
  BY <1>1, <1>2 DEF PopFront
<1>3. CASE r.size = 1
  <2>1. Tail(s) = <<>>
    <3>1. Tail(s) \in Seq(Elements) /\ Len(Tail(s)) = 0
      BY <1>1, <1>3, HeadTailProperties
    <3> QED
      BY <3>1, EmptySeq
  <2> QED
    BY <1>1, <1>3, <2>1, EmptiedHolds DEF PopFront
<1>4. CASE r.size > 1
  <2>1. PopFront(r) = Cut(r, 0)
    BY <1>1, <1>4, ElementIncrement DEF PopFront, Cut
  <2>2. Tail(s) = RemoveAt(s, 1)
    BY <1>1, <1>4, EndsAreRemovals
  <2>3. 0 \in 0 .. r.size - 1 /\ 0 + 1 = 1
    BY <1>1, <1>4
  <2>4. Holds(Cut(r, 0), RemoveAt(s, 0 + 1))
    BY <2>3, CutHolds
  <2>5. Holds(PopFront(r), Tail(s))
    BY <2>1, <2>2, <2>3, <2>4
  <2>6. s # <<>>
    BY <1>1, <1>4
  <2> QED
    BY <2>5, <2>6
<1> QED
  BY <1>1, <1>2, <1>3, <1>4

(* popBack() drops the last.                                               *)
LEMMA PopBackHolds ==
  ASSUME NEW r, NEW s, Holds(r, s)
  PROVE  Holds(PopBack(r), IF s = <<>> THEN s ELSE Front(s))
<1>1. /\ r \in Rings /\ s \in Seq(Elements) /\ Len(s) = r.size /\ r.size \in 0 .. RingCapacity
      /\ RingCapacity \in Nat
      /\ s = <<>> <=> r.size = 0
      /\ \A k \in 0 .. r.size - 1 : Element(r, k) = s[k + 1]
  BY RingTypes, EmptySeq DEF Holds
<1>2. r.size > 0 => /\ Front(s) \in Seq(Elements) /\ Len(Front(s)) = r.size - 1
                    /\ \A k \in 0 .. (r.size - 1) - 1 : Front(s)[k + 1] = s[k + 1]
  <2> SUFFICES ASSUME r.size > 0
               PROVE  /\ Front(s) \in Seq(Elements) /\ Len(Front(s)) = r.size - 1
                      /\ \A k \in 0 .. (r.size - 1) - 1 : Front(s)[k + 1] = s[k + 1]
    OBVIOUS
  <2>1. Front(s) = RemoveAt(s, Len(s))
    BY <1>1, EndsAreRemovals
  <2>2. Len(s) \in 1 .. Len(s)
    BY <1>1
  <2>3. /\ Front(s) \in Seq(Elements) /\ Len(Front(s)) = Len(s) - 1
        /\ \A k \in 1 .. Len(s) - 1 : Front(s)[k] = IF k < Len(s) THEN s[k] ELSE s[k + 1]
    <3>1. /\ RemoveAt(s, Len(s)) \in Seq(Elements)
          /\ Len(RemoveAt(s, Len(s))) = Len(s) - 1
          /\ \A k \in 1 .. Len(s) - 1 :
               RemoveAt(s, Len(s))[k] = IF k < Len(s) THEN s[k] ELSE s[k + 1]
      BY <1>1, <2>2, RemoveAtProperties
    <3> QED
      BY <2>1, <3>1
  <2>4. ASSUME NEW k \in 0 .. (r.size - 1) - 1
        PROVE  Front(s)[k + 1] = s[k + 1]
    <3>1. k + 1 \in 1 .. Len(s) - 1 /\ k + 1 < Len(s)
      BY <1>1
    <3> QED
      BY <2>3, <3>1
  <2> QED
    BY <1>1, <2>3, <2>4
<1>3. CASE r.size = 0
  BY <1>1, <1>3 DEF PopBack
<1>4. CASE r.size = 1
  <2>1. Front(s) = <<>>
    BY <1>2, <1>4, EmptySeq
  <2> QED
    BY <1>1, <1>4, <2>1, EmptiedHolds DEF PopBack
<1>5. CASE r.size > 1
  <2>1. PopBack(r) = [r EXCEPT !.size = r.size - 1]
    BY <1>1, <1>5 DEF PopBack
  <2>2. r.size - 1 \in 0 .. RingCapacity
    BY <1>1, <1>5
  <2>3. \A k \in 0 .. (r.size - 1) - 1 : k \in 0 .. r.size - 1
    BY <1>1
  <2> QED
    <3>1. /\ r.size > 0 /\ s # <<>> /\ Len(Front(s)) = r.size - 1
          /\ Front(s) \in Seq(Elements)
          /\ \A k \in 0 .. (r.size - 1) - 1 : Element(r, k) = Front(s)[k + 1]
      BY <1>1, <1>2, <1>5, <2>3
    <3>2. Holds([r EXCEPT !.size = r.size - 1], Front(s))
      BY <1>1, <2>2, <3>1, SizedHolds
    <3> QED
      BY <2>1, <3>1, <3>2
<1> QED
  BY <1>1, <1>3, <1>4, <1>5

(* remove() finds, from the back, the last element of the sequence that is *)
(* selected.                                                               *)
LEMMA RemoveMatchHolds ==
  ASSUME NEW r, NEW s, Holds(r, s), NEW selected
  PROVE  /\ Holds(RemoveMatch(r, selected), WithoutLast(s, selected))
         /\ \/ WithoutLast(s, selected) = s
            \/ \E i \in 1 .. Len(s) : WithoutLast(s, selected) = RemoveAt(s, i)
<1>1. /\ r \in Rings /\ s \in Seq(Elements) /\ Len(s) = r.size /\ r.size \in Nat
      /\ DOMAIN s = 1 .. r.size
      /\ \A k \in 0 .. r.size - 1 : Element(r, k) = s[k + 1]
  BY RingTypes, LenProperties DEF Holds
<1> DEFINE found == { i \in 0 .. r.size - 1 : Element(r, i) \in selected }
           places == { i \in DOMAIN s : s[i] \in selected }
           last == CHOOSE i \in found : \A j \in found : j <= i
<1>2. \A i : i \in places <=> i \in Int /\ i - 1 \in found
  <2>1. ASSUME NEW i \in 1 .. r.size
        PROVE  Element(r, i - 1) = s[i]
    <3>1. i - 1 \in 0 .. r.size - 1 /\ (i - 1) + 1 = i
      BY <1>1
    <3> QED
      BY <1>1, <3>1
  <2>2. \A i \in Int : i \in 1 .. r.size <=> i - 1 \in 0 .. r.size - 1
    BY <1>1
  <2>3. \A i \in 1 .. r.size : i \in Int
    BY <1>1
  <2> QED
    BY <1>1, <2>1, <2>2, <2>3
<1>3. CASE found = {}
  <2>1. places = {}
    BY <1>2, <1>3
  <2> QED
    BY <1>3, <2>1 DEF RemoveMatch, WithoutLast
<1>4. CASE found # {}
  <2>1. last \in found /\ \A j \in found : j <= last
    <3>1. found \subseteq 0 .. r.size
      BY <1>1
    <3>2. \E i \in found : \A j \in found : j <= i
      BY <1>1, <1>4, <3>1, GreatestExists
    <3> QED
      BY <3>2
  <2>2. last \in 0 .. r.size - 1
    BY <2>1
  <2>3. /\ RemoveMatch(r, selected)
             = IF Cut(r, last).size = 0 THEN Emptied(Cut(r, last)) ELSE Cut(r, last)
    BY <1>4 DEF RemoveMatch
  <2>4. WithoutLast(s, selected) = RemoveAt(s, last + 1)
    <3>1. last + 1 \in places
      <4>1. last + 1 \in Int /\ (last + 1) - 1 = last
        BY <2>2
      <4> QED
        BY <1>2, <2>1, <4>1
    <3>2. \A i \in places : last + 1 >= i
      <4> SUFFICES ASSUME NEW i \in places
                   PROVE  last + 1 >= i
        OBVIOUS
      <4>1. i \in Int /\ i - 1 <= last
        BY <1>2, <2>1
      <4> QED
        BY <2>2, <4>1
    <3>3. \A i \in places : i \in Int
      BY <1>2
    <3>4. last + 1 \in Int
      BY <2>2
    <3> HIDE DEF places, last
    <3>5. Max(places) = last + 1
      BY <3>1, <3>2, <3>3, <3>4 DEF Max
    <3> QED
      BY <3>1, <3>5 DEF WithoutLast, places
  <2> HIDE DEF last, found, places
  <2>5. Holds(Cut(r, last), RemoveAt(s, last + 1))
    BY <2>2, CutHolds
  <2>6. CASE Cut(r, last).size = 0
    <3>1. RemoveAt(s, last + 1) = <<>> /\ Cut(r, last) \in Rings
      BY <2>5, <2>6, EmptySeq DEF Holds
    <3> QED
      BY <2>2, <2>3, <2>4, <2>6, <3>1, <1>1, EmptiedHolds
  <2>7. CASE Cut(r, last).size # 0
    BY <1>1, <2>2, <2>3, <2>4, <2>5, <2>7
  <2> QED
    BY <2>6, <2>7
<1> QED
  BY <1>3, <1>4

(* pushFront() puts the element in front of the first, over the last one   *)
(* when the ring is full.                                                  *)
LEMMA PushFrontHolds ==
  ASSUME NEW r, NEW s, Holds(r, s), NEW e \in Elements
  PROVE  Holds(PushFront(r, e), Kept(<<e>> \o s))
<1>1. /\ r \in Rings /\ s \in Seq(Elements) /\ Len(s) = r.size /\ r.size \in 0 .. RingCapacity
      /\ RingCapacity \in Nat /\ RingCapacity > 0
      /\ \A k \in 0 .. r.size - 1 : Element(r, k) = s[k + 1]
  BY RingTypes DEF Holds
<1> DEFINE longer == <<e>> \o s
           n == IF Full(r) THEN r.size ELSE r.size + 1
           at == IF r.size > 0 THEN DecrementStart(r) ELSE r
<1>2. /\ longer \in Seq(Elements) /\ Len(longer) = r.size + 1 /\ longer[1] = e
      /\ \A k \in 1 .. r.size : longer[k + 1] = s[k]
  <2>1. <<e>> \in Seq(Elements) /\ Len(<<e>>) = 1 /\ <<e>>[1] = e
    OBVIOUS
  <2>2. /\ longer \in Seq(Elements) /\ Len(longer) = Len(<<e>>) + Len(s)
        /\ \A k \in 1 .. Len(<<e>>) + Len(s) :
             longer[k] = IF k <= Len(<<e>>) THEN <<e>>[k] ELSE s[k - Len(<<e>>)]
    BY <1>1, <2>1, ConcatProperties
  <2> HIDE DEF longer
  <2>3. ASSUME NEW k \in 1 .. r.size
        PROVE  longer[k + 1] = s[k]
    <3>1. k + 1 \in 1 .. 1 + r.size /\ ~(k + 1 <= 1) /\ (k + 1) - 1 = k
      BY <1>1
    <3> QED
      BY <1>1, <2>1, <2>2, <3>1
  <2>4. longer[1] = e
    <3>1. 1 \in 1 .. 1 + r.size
      BY <1>1
    <3> QED
      BY <1>1, <2>1, <2>2, <3>1
  <2> QED
    BY <1>1, <2>1, <2>2, <2>3, <2>4
<1>3. /\ at \in Rings /\ at.size = r.size
      /\ \A k \in 1 .. r.size : k <= RingCapacity - 1 => Element(at, k) = s[k]
  <2>1. CASE r.size > 0
    <3>1. /\ at \in Rings /\ at.size = r.size
          /\ \A j \in 1 .. RingCapacity - 1 : Element(at, j) = Element(r, j - 1)
      BY <1>1, <2>1, ElementDecrement
    <3> HIDE DEF at
    <3>2. ASSUME NEW k \in 1 .. r.size, k <= RingCapacity - 1
          PROVE  Element(at, k) = s[k]
      <4>1. k \in 1 .. RingCapacity - 1 /\ k - 1 \in 0 .. r.size - 1 /\ (k - 1) + 1 = k
        BY <1>1, <3>2
      <4>2. Element(at, k) = Element(r, k - 1)
        BY <3>1, <4>1
      <4> QED
        BY <1>1, <4>1, <4>2
    <3> QED
      BY <3>1, <3>2
  <2>2. CASE r.size = 0
    BY <1>1, <2>2
  <2> QED
    BY <1>1, <2>1, <2>2
<1> HIDE DEF longer, at
<1>4. /\ n \in 0 .. RingCapacity /\ n > 0
      /\ Full(r) <=> r.size = RingCapacity
  BY <1>1 DEF Full
<1>5. 0 \in 0 .. RingCapacity - 1
  BY <1>1
<1> DEFINE put == Put(at, 0, e)
<1>6. /\ put \in Rings /\ put.size = r.size /\ Element(put, 0) = e
      /\ \A j \in 1 .. RingCapacity - 1 : Element(put, j) = Element(at, j)
  <2>1. /\ put \in Rings /\ put.size = at.size
        /\ \A j \in 0 .. RingCapacity - 1 :
             Element(put, j) = IF j = 0 THEN e ELSE Element(at, j)
    BY <1>3, <1>5, ElementPut
  <2> HIDE DEF put
  <2>2. \A j \in 1 .. RingCapacity - 1 : j \in 0 .. RingCapacity - 1 /\ j # 0
    OBVIOUS
  <2> QED
    BY <1>3, <1>5, <2>1, <2>2
<1>7. PushFront(r, e) = [put EXCEPT !.size = n]
  BY <1>6 DEF PushFront, at
<1> HIDE DEF put
<1>8. ASSUME NEW k \in 0 .. n - 1
      PROVE  Element(put, k) = longer[k + 1]
  <2>1. CASE k = 0
    BY <1>2, <1>6, <2>1
  <2>2. CASE k # 0
    <3>1. k \in 1 .. r.size /\ k \in 1 .. RingCapacity - 1 /\ k <= RingCapacity - 1
      BY <1>1, <1>4, <2>2
    <3> QED
      BY <1>2, <1>3, <1>6, <3>1
  <2> QED
    BY <2>1, <2>2
<1> DEFINE fitted == Kept(longer)
<1>9. /\ fitted \in Seq(Elements) /\ Len(fitted) = n
      /\ \A k \in 0 .. n - 1 : fitted[k + 1] = longer[k + 1]
  <2>1. CASE Full(r)
    <3>1. longer # <<>> /\ Len(longer) > RingCapacity
      BY <1>1, <1>2, <1>4, <2>1
    <3>2. fitted = RemoveAt(longer, Len(longer))
      BY <1>2, <3>1, EndsAreRemovals DEF Kept
    <3>3. Len(longer) \in 1 .. Len(longer)
      BY <1>1, <1>2
    <3>4. /\ RemoveAt(longer, Len(longer)) \in Seq(Elements)
          /\ Len(RemoveAt(longer, Len(longer))) = Len(longer) - 1
          /\ \A k \in 1 .. Len(longer) - 1 :
               RemoveAt(longer, Len(longer))[k]
                 = IF k < Len(longer) THEN longer[k] ELSE longer[k + 1]
      BY <1>2, <3>3, RemoveAtProperties
    <3> HIDE DEF fitted
    <3>5. n = r.size /\ Len(longer) = n + 1
      BY <1>2, <2>1
    <3>6. \A k \in 0 .. n - 1 : k + 1 \in 1 .. Len(longer) - 1 /\ k + 1 < Len(longer)
      BY <1>1, <3>5
    <3>7. \A k \in 0 .. n - 1 : fitted[k + 1] = longer[k + 1]
      BY <3>2, <3>4, <3>6
    <3> QED
      BY <1>1, <3>2, <3>4, <3>5, <3>7
  <2>2. CASE ~Full(r)
    BY <1>1, <1>2, <1>4, <2>2 DEF Kept
  <2> QED
    BY <2>1, <2>2
<1> HIDE DEF fitted, n
<1>10. Holds([put EXCEPT !.size = n], fitted)
  BY <1>4, <1>6, <1>8, <1>9, SizedHolds
<1> QED
  BY <1>7, <1>10 DEF fitted, longer

(* pushBack() puts the element behind the last, over the first one when    *)
(* the ring is full.                                                       *)
LEMMA PushBackHolds ==
  ASSUME NEW r, NEW s, Holds(r, s), NEW e \in Elements
  PROVE  Holds(PushBack(r, e),
               IF Len(s) < RingCapacity THEN Append(s, e) ELSE Append(Tail(s), e))
<1>1. /\ r \in Rings /\ s \in Seq(Elements) /\ Len(s) = r.size /\ r.size \in 0 .. RingCapacity
      /\ RingCapacity \in Nat /\ RingCapacity > 0
      /\ \A k \in 0 .. r.size - 1 : Element(r, k) = s[k + 1]
  BY RingTypes DEF Holds
<1>2. CASE Full(r)
  <2>1. r.size = RingCapacity /\ ~(Len(s) < RingCapacity) /\ s # <<>>
    BY <1>1, <1>2 DEF Full
  <2> DEFINE rest == Tail(s)
             longer == Append(rest, e)
             at == IncrementStart(r)
             put == Put(at, RingCapacity - 1, e)
  <2>2. /\ rest \in Seq(Elements) /\ Len(rest) = RingCapacity - 1
        /\ \A k \in 1 .. RingCapacity - 1 : rest[k] = s[k + 1]
    BY <1>1, <2>1, HeadTailProperties
  <2> HIDE DEF rest
  <2>3. /\ longer \in Seq(Elements) /\ Len(longer) = RingCapacity
        /\ longer[RingCapacity] = e
        /\ \A k \in 1 .. RingCapacity - 1 : longer[k] = rest[k]
    BY <1>1, <2>2, AppendProperties
  <2>4. /\ at \in Rings /\ at.size = r.size
        /\ \A j \in 0 .. RingCapacity - 2 : Element(at, j) = Element(r, j + 1)
    BY <1>1, ElementIncrement
  <2>5. RingCapacity - 1 \in 0 .. RingCapacity - 1
    BY <1>1
  <2> HIDE DEF at
  <2>6. /\ put \in Rings /\ put.size = r.size
        /\ \A j \in 0 .. RingCapacity - 1 :
             Element(put, j) = IF j = RingCapacity - 1 THEN e ELSE Element(at, j)
    BY <2>4, <2>5, ElementPut
  <2>7. PushBack(r, e) = put
    BY <1>2, <2>1 DEF PushBack, at
  <2> HIDE DEF put, longer
  <2>8. ASSUME NEW k \in 0 .. RingCapacity - 1
        PROVE  Element(put, k) = longer[k + 1]
    <3>1. CASE k = RingCapacity - 1
      <4>1. k + 1 = RingCapacity
        BY <1>1, <3>1
      <4> QED
        BY <2>3, <2>6, <3>1, <4>1
    <3>2. CASE k # RingCapacity - 1
      <4>1. /\ k \in 0 .. RingCapacity - 2 /\ k + 1 \in 0 .. r.size - 1
            /\ k + 1 \in 1 .. RingCapacity - 1
        BY <1>1, <2>1, <3>2
      <4>2. Element(put, k) = Element(r, k + 1)
        BY <2>4, <2>6, <3>2, <4>1
      <4>3. longer[k + 1] = s[(k + 1) + 1]
        BY <2>2, <2>3, <4>1
      <4>4. Element(r, k + 1) = s[(k + 1) + 1]
        BY <1>1, <4>1
      <4> QED
        BY <4>2, <4>3, <4>4
    <3> QED
      BY <3>1, <3>2
  <2>9. Holds(put, longer)
    BY <2>1, <2>3, <2>6, <2>8 DEF Holds
  <2> QED
    BY <2>1, <2>7, <2>9 DEF longer, rest
<1>3. CASE ~Full(r)
  <2>1. r.size \in 0 .. RingCapacity - 1 /\ Len(s) < RingCapacity
    BY <1>1, <1>3 DEF Full
  <2> DEFINE longer == Append(s, e)
             put == Put(r, r.size, e)
  <2>2. /\ longer \in Seq(Elements) /\ Len(longer) = r.size + 1
        /\ longer[r.size + 1] = e
        /\ \A k \in 1 .. r.size : longer[k] = s[k]
    BY <1>1, AppendProperties
  <2>3. /\ put \in Rings /\ put.size = r.size
        /\ \A j \in 0 .. RingCapacity - 1 :
             Element(put, j) = IF j = r.size THEN e ELSE Element(r, j)
    BY <1>1, <2>1, ElementPut
  <2>4. PushBack(r, e) = [put EXCEPT !.size = r.size + 1]
    BY <1>3, <2>3 DEF PushBack
  <2> HIDE DEF longer, put
  <2>5. ASSUME NEW k \in 0 .. (r.size + 1) - 1
        PROVE  Element(put, k) = longer[k + 1]
    <3>1. k \in 0 .. RingCapacity - 1
      BY <1>1, <2>1
    <3>2. CASE k = r.size
      BY <2>2, <2>3, <3>1, <3>2
    <3>3. CASE k # r.size
      <4>1. k \in 0 .. r.size - 1 /\ k + 1 \in 1 .. r.size
        BY <2>1, <3>3
      <4> QED
        BY <1>1, <2>2, <2>3, <3>1, <3>3, <4>1
    <3> QED
      BY <3>2, <3>3
  <2>6. r.size + 1 \in 0 .. RingCapacity
    BY <1>1, <2>1
  <2>7. Holds([put EXCEPT !.size = r.size + 1], longer)
    BY <2>2, <2>3, <2>5, <2>6, SizedHolds
  <2> QED
    BY <2>1, <2>4, <2>7 DEF longer
<1> QED
  BY <1>2, <1>3

(* In a sequence in the order of the keys there is one place for e: behind *)
(* all smaller elements and in front of all others.                        *)
LEMMA InOrderAtPlace ==
  ASSUME NEW s \in Seq(Elements), NEW e \in Elements, InOrderOfKeys(s),
         NEW p \in 0 .. Len(s),
         p > 0 => Less(s[p], e),
         \A i \in p + 1 .. Len(s) : ~Less(s[i], e)
  PROVE  /\ InOrder(s, e) = InsertAt(s, p + 1, e)
         /\ InOrderOfKeys(InOrder(s, e))
<1>1. Len(s) \in Nat /\ DOMAIN s = 1 .. Len(s) /\ \A i \in 1 .. Len(s) : s[i] \in Elements
  BY LenProperties, ElementOfSeq
<1>2. e[1] \in Int /\ \A i \in 1 .. Len(s) : s[i][1] \in Int
  BY <1>1, RingAssumption
<1>3. ASSUME NEW i \in 1 .. Len(s)
      PROVE  Less(s[i], e) <=> i < p + 1
  <2>1. CASE i > p
    BY <1>1, <2>1
  <2>2. CASE i = p
    BY <1>1, <2>2
  <2>3. CASE i < p
    <3>1. p \in 1 .. Len(s) /\ s[i][1] <= s[p][1] /\ s[p][1] < e[1]
      BY <1>1, <2>3 DEF InOrderOfKeys, Less
    <3> QED
      BY <1>1, <1>2, <2>3, <3>1 DEF Less
  <2> QED
    BY <1>1, <2>1, <2>2, <2>3
<1> DEFINE IsPlace(q) == \A i \in DOMAIN s : Less(s[i], e) <=> i < q
           place == CHOOSE q \in 1 .. Len(s) + 1 : IsPlace(q)
<1>4. p + 1 \in 1 .. Len(s) + 1 /\ IsPlace(p + 1)
  BY <1>1, <1>3
<1>5. place = p + 1
  <2>1. place \in 1 .. Len(s) + 1 /\ IsPlace(place)
    <3>1. \E q \in 1 .. Len(s) + 1 : IsPlace(q)
      BY <1>4
    <3> HIDE DEF IsPlace
    <3> QED
      BY <3>1
  <2> HIDE DEF place
  <2>2. ~(place < p + 1)
    <3> SUFFICES ASSUME place < p + 1
                 PROVE  FALSE
      OBVIOUS
    <3>1. place \in 1 .. Len(s)
      BY <1>1, <2>1
    <3> QED
      BY <1>1, <1>3, <2>1, <3>1
  <2>3. ~(p + 1 < place)
    <3> SUFFICES ASSUME p + 1 < place
                 PROVE  FALSE
      OBVIOUS
    <3>1. p + 1 \in 1 .. Len(s)
      BY <1>1, <2>1
    <3> QED
      BY <1>1, <1>3, <2>1, <3>1
  <2> QED
    BY <1>1, <2>1, <2>2, <2>3
<1>6. InOrder(s, e) = InsertAt(s, p + 1, e)
  BY <1>5 DEF InOrder
<1> DEFINE longer == InsertAt(s, p + 1, e)
<1>7. /\ Len(longer) = Len(s) + 1
      /\ \A k \in 1 .. Len(s) + 1 :
           longer[k] = IF k < p + 1 THEN s[k] ELSE IF k = p + 1 THEN e ELSE s[k - 1]
  <2>1. PICK q \in 1 .. Len(s) + 1 : q = p + 1
    BY <1>4
  <2> QED
    BY <2>1, InsertAtProperties
<1> HIDE DEF longer
<1>8. ASSUME NEW i \in 1 .. Len(longer), NEW j \in 1 .. Len(longer), i < j
      PROVE  longer[i][1] <= longer[j][1]
  <2>1. CASE j < p + 1
    <3>1. longer[i] = s[i] /\ longer[j] = s[j] /\ i \in 1 .. Len(s) /\ j \in 1 .. Len(s)
      BY <1>1, <1>7, <1>8, <2>1
    <3> QED
      BY <1>8, <3>1 DEF InOrderOfKeys
  <2>2. CASE j = p + 1
    <3>1. longer[i] = s[i] /\ longer[j] = e /\ i \in 1 .. Len(s) /\ i < p + 1
      BY <1>1, <1>7, <1>8, <2>2
    <3> QED
      BY <1>2, <1>3, <3>1 DEF Less
  <2>3. CASE j > p + 1 /\ i = p + 1
    <3>1. longer[i] = e /\ longer[j] = s[j - 1] /\ j - 1 \in 1 .. Len(s) /\ ~(j - 1 < p + 1)
      BY <1>1, <1>7, <1>8, <2>3
    <3> QED
      BY <1>2, <1>3, <3>1 DEF Less
  <2>4. CASE j > p + 1 /\ i < p + 1
    <3>1. /\ longer[i] = s[i] /\ longer[j] = s[j - 1]
          /\ i \in 1 .. Len(s) /\ j - 1 \in 1 .. Len(s) /\ i < j - 1
      BY <1>1, <1>7, <1>8, <2>4
    <3> QED
      BY <3>1 DEF InOrderOfKeys
  <2>5. CASE j > p + 1 /\ i > p + 1
    <3>1. /\ longer[i] = s[i - 1] /\ longer[j] = s[j - 1]
          /\ i - 1 \in 1 .. Len(s) /\ j - 1 \in 1 .. Len(s) /\ i - 1 < j - 1
      BY <1>1, <1>7, <1>8, <2>5
    <3> QED
      BY <3>1 DEF InOrderOfKeys
  <2> QED
    BY <1>1, <1>7, <2>1, <2>2, <2>3, <2>4, <2>5
<1>9. InOrderOfKeys(longer)
  BY <1>8 DEF InOrderOfKeys
<1> QED
  BY <1>6, <1>9 DEF longer

(* insert() of a SortedRing puts the element at its place, unless the ring *)
(* is full.                                                                *)
LEMMA SortedInsertHolds ==
  ASSUME NEW r, NEW s, Holds(r, s), NEW e \in Elements, InOrderOfKeys(s)
  PROVE  LET new == IF Len(s) < RingCapacity THEN InOrder(s, e) ELSE s
         IN  Holds(SortedInsert(r, e), new) /\ InOrderOfKeys(new)
<1>1. /\ r \in Rings /\ s \in Seq(Elements) /\ Len(s) = r.size /\ r.size \in 0 .. RingCapacity
      /\ RingCapacity \in Nat /\ RingCapacity > 0
      /\ \A k \in 0 .. r.size - 1 : Element(r, k) = s[k + 1]
  BY RingTypes DEF Holds
<1>2. Full(r) <=> r.size = RingCapacity
  BY DEF Full
<1>3. CASE Full(r)
  BY <1>1, <1>2, <1>3 DEF SortedInsert
<1>4. CASE ~Full(r)
  <2>1. r.size < RingCapacity /\ Len(s) < RingCapacity
    BY <1>1, <1>2, <1>4
  <2> DEFINE before == { i \in 0 .. r.size - 1 : Less(Element(r, i), e) }
             p == IF before = {} THEN 0 ELSE 1 + CHOOSE i \in before : \A j \in before : j <= i
             longer == InsertAt(s, p + 1, e)
  <2>2. p \in 0 .. r.size /\ (p > 0 => p - 1 \in before) /\ (\A i \in before : i < p)
    <3>1. CASE before = {}
      BY <1>1, <3>1
    <3>2. CASE before # {}
      <4>1. PICK last : last = CHOOSE i \in before : \A j \in before : j <= i
        OBVIOUS
      <4>2. before \subseteq 0 .. r.size /\ before \subseteq 0 .. r.size - 1
        BY <1>1
      <4>3. \E i \in before : \A j \in before : j <= i
        <5>1. PICK n \in Nat : n = r.size
          BY <1>1
        <5> HIDE DEF before
        <5>2. before \subseteq 0 .. n /\ before # {}
          BY <3>2, <4>2, <5>1
        <5> QED
          BY <5>2, GreatestExists
      <4>4. p = 1 + last
        BY <3>2, <4>1
      <4> HIDE DEF p, before
      <4>5. last \in before /\ \A j \in before : j <= last
        BY <4>1, <4>3
      <4>6. last \in 0 .. r.size - 1
        BY <4>2, <4>5
      <4>7. p - 1 = last /\ p \in 0 .. r.size
        BY <1>1, <4>4, <4>6
      <4>8. \A i \in before : i < p
        BY <4>2, <4>4, <4>5, <4>6
      <4> QED
        BY <4>5, <4>7, <4>8
    <3> QED
      BY <3>1, <3>2
  <2>3. \A k \in 1 .. r.size : Less(s[k], e) <=> k - 1 \in before
    <3> SUFFICES ASSUME NEW k \in 1 .. r.size
                 PROVE  Less(s[k], e) <=> k - 1 \in before
      OBVIOUS
    <3>1. k - 1 \in 0 .. r.size - 1 /\ (k - 1) + 1 = k
      BY <1>1
    <3>2. Element(r, k - 1) = s[k]
      BY <1>1, <3>1
    <3> QED
      BY <3>1, <3>2
  <2>4. SortedInsert(r, e)
          = IF r.size = 0 THEN Put([r EXCEPT !.start = 0, !.size = 1], 0, e)
            ELSE IF Less(e, Element(r, 0)) THEN [Put(DecrementStart(r), 0, e) EXCEPT !.size = @ + 1]
            ELSE [Put(Shift(r, r.size - p), r.size - (r.size - p), e) EXCEPT !.size = @ + 1]
    <3>1. r.size > 0 <=> r.size # 0
      BY <1>1
    <3> QED
      BY <1>4, <3>1 DEF SortedInsert
  <2> HIDE DEF p, before
  <2>5. r.size - (r.size - p) = p /\ r.size - p \in 0 .. r.size
    BY <1>1, <2>2
  <2>6. /\ p > 0 => Less(s[p], e)
        /\ \A i \in p + 1 .. Len(s) : ~Less(s[i], e)
    <3>1. ASSUME p > 0
          PROVE  Less(s[p], e)
      <4>1. p \in 1 .. r.size
        BY <1>1, <2>2, <3>1
      <4> QED
        BY <2>2, <2>3, <3>1, <4>1
    <3>2. ASSUME NEW i \in p + 1 .. Len(s)
          PROVE  ~Less(s[i], e)
      <4>1. i \in 1 .. r.size /\ ~(i - 1 < p)
        BY <1>1, <2>2
      <4> QED
        BY <2>2, <2>3, <4>1
    <3> QED
      BY <3>1, <3>2
  <2>7. InOrder(s, e) = longer /\ InOrderOfKeys(longer)
    BY <1>1, <2>2, <2>6, InOrderAtPlace
  <2>8. /\ longer \in Seq(Elements) /\ Len(longer) = r.size + 1
        /\ \A k \in 0 .. r.size :
             longer[k + 1] = IF k < p THEN s[k + 1] ELSE IF k = p THEN e ELSE s[k]
    <3>1. p + 1 \in 1 .. Len(s) + 1
      BY <1>1, <2>2
    <3>2. /\ longer \in Seq(Elements) /\ Len(longer) = Len(s) + 1
          /\ \A k \in 1 .. Len(s) + 1 :
               longer[k] = IF k < p + 1 THEN s[k] ELSE IF k = p + 1 THEN e ELSE s[k - 1]
      BY <1>1, <3>1, InsertAtProperties
    <3> HIDE DEF longer
    <3>3. ASSUME NEW k \in 0 .. r.size
          PROVE  longer[k + 1] = IF k < p THEN s[k + 1] ELSE IF k = p THEN e ELSE s[k]
      <4>1. /\ k + 1 \in 1 .. Len(s) + 1 /\ (k + 1) - 1 = k
            /\ (k + 1 < p + 1 <=> k < p) /\ (k + 1 = p + 1 <=> k = p)
        BY <1>1, <2>2
      <4> QED
        BY <3>2, <4>1
    <3> QED
      BY <1>1, <3>2, <3>3
  <2> HIDE DEF longer
  <2>9. Holds(SortedInsert(r, e), longer)
    <3>1. r.size + 1 \in 0 .. RingCapacity /\ (r.size + 1) - 1 = r.size /\ 0 \in 0 .. RingCapacity - 1
      BY <1>1, <2>1
    <3>2. CASE r.size = 0
      <4>1. PICK at : at = [r EXCEPT !.start = 0, !.size = 1]
        OBVIOUS
      <4>2. at \in Rings /\ at.size = 1
        <5>1. [r EXCEPT !.start = 0] \in Rings
          BY <1>1, <3>1 DEF Rings
        <5>2. at = [[r EXCEPT !.start = 0] EXCEPT !.size = 1]
          BY <4>1
        <5>3. 1 \in 0 .. RingCapacity
          BY <1>1
        <5> QED
          BY <5>1, <5>2, <5>3, ElementSized
      <4>3. /\ Put(at, 0, e) \in Rings /\ Put(at, 0, e).size = 1
            /\ Element(Put(at, 0, e), 0) = e
        BY <3>1, <4>2, ElementPut
      <4>4. SortedInsert(r, e) = Put(at, 0, e)
        BY <2>4, <3>2, <4>1
      <4>5. longer[0 + 1] = e /\ p = 0 /\ Len(longer) = 1
        BY <2>2, <2>8, <3>2
      <4>6. \A k \in 0 .. 1 - 1 : k = 0
        OBVIOUS
      <4> QED
        BY <2>8, <4>3, <4>4, <4>5, <4>6 DEF Holds
    <3>3. CASE r.size > 0 /\ Less(e, Element(r, 0))
      <4>1. p = 0
        <5>1. 0 \in 0 .. r.size - 1 /\ 0 + 1 = 1 /\ 1 \in 1 .. Len(s)
          BY <1>1, <3>3
        <5>2. Less(e, s[1]) /\ s[1] \in Elements
          BY <1>1, <3>3, <5>1, ElementOfSeq
        <5>3. ~(p > 0)
          <6> SUFFICES ASSUME p > 0
                       PROVE  FALSE
            OBVIOUS
          <6>1. p \in 1 .. Len(s) /\ Less(s[p], e) /\ s[p] \in Elements
            BY <1>1, <2>2, <2>6, ElementOfSeq
          <6>2. s[1][1] <= s[p][1]
            <7>1. CASE p = 1
              BY <5>2, <7>1, RingAssumption
            <7>2. CASE p # 1
              <8>1. 1 < p
                BY <6>1, <7>2
              <8> QED
                BY <5>1, <6>1, <8>1 DEF InOrderOfKeys
            <7> QED
              BY <7>1, <7>2
          <6>3. e[1] \in Int /\ s[1][1] \in Int /\ s[p][1] \in Int
            BY <5>2, <6>1, RingAssumption
          <6> QED
            BY <5>2, <6>1, <6>2, <6>3 DEF Less
        <5> QED
          BY <2>2, <5>3
      <4>2. PICK at : at = DecrementStart(r)
        OBVIOUS
      <4>3. /\ at \in Rings /\ at.size = r.size
            /\ \A j \in 1 .. RingCapacity - 1 : Element(at, j) = Element(r, j - 1)
        BY <1>1, <4>2, ElementDecrement
      <4>4. PICK put : put = Put(at, 0, e)
        OBVIOUS
      <4>5. /\ put \in Rings /\ put.size = r.size
            /\ \A j \in 0 .. RingCapacity - 1 :
                 Element(put, j) = IF j = 0 THEN e ELSE Element(at, j)
        BY <3>1, <4>3, <4>4, ElementPut
      <4>6. SortedInsert(r, e) = [put EXCEPT !.size = r.size + 1]
        BY <2>4, <3>3, <4>2, <4>4, <4>5
      <4>7. ASSUME NEW k \in 0 .. (r.size + 1) - 1
            PROVE  Element(put, k) = longer[k + 1]
        <5>1. k \in 0 .. r.size /\ k \in 0 .. RingCapacity - 1
          BY <1>1, <2>1
        <5>2. CASE k = 0
          BY <2>8, <4>1, <4>5, <5>1, <5>2
        <5>3. CASE k # 0
          <6>1. k \in 1 .. RingCapacity - 1 /\ k - 1 \in 0 .. r.size - 1 /\ (k - 1) + 1 = k
                /\ ~(k < 0)
            BY <1>1, <5>1, <5>3
          <6>2. Element(put, k) = Element(r, k - 1)
            BY <4>3, <4>5, <5>1, <5>3, <6>1
          <6>3. Element(r, k - 1) = s[k]
            BY <1>1, <6>1
          <6>4. longer[k + 1] = s[k]
            BY <2>8, <4>1, <5>1, <5>3, <6>1
          <6> QED
            BY <6>2, <6>3, <6>4
        <5> QED
          BY <5>2, <5>3
      <4> QED
        BY <2>8, <3>1, <4>5, <4>6, <4>7, SizedHolds
    <3>4. CASE r.size > 0 /\ ~Less(e, Element(r, 0))
      <4> DEFINE num == r.size - p
      <4>1. num \in 0 .. r.size /\ r.size - num = p /\ p \in 0 .. RingCapacity - 1
        BY <1>1, <2>1, <2>2
      <4> HIDE DEF num
      <4>2. PICK at : at = Shift(r, num)
        OBVIOUS
      <4>3. /\ at \in Rings /\ at.size = r.size
            /\ \A j \in 0 .. r.size :
                 Element(at, j) = IF j > p THEN Element(r, j - 1) ELSE Element(r, j)
        <5>1. /\ at \in Rings /\ at.size = r.size
              /\ \A j \in 0 .. r.size :
                   Element(at, j) = IF j > r.size - num THEN Element(r, j - 1) ELSE Element(r, j)
          BY <1>1, <2>1, <4>1, <4>2, ElementShift
        <5> QED
          BY <4>1, <5>1
      <4>4. PICK put : put = Put(at, p, e)
        OBVIOUS
      <4>5. /\ put \in Rings /\ put.size = r.size
            /\ \A j \in 0 .. RingCapacity - 1 :
                 Element(put, j) = IF j = p THEN e ELSE Element(at, j)
        BY <4>1, <4>3, <4>4, ElementPut
      <4>6. SortedInsert(r, e) = [put EXCEPT !.size = r.size + 1]
        <5>1. r.size # 0
          BY <3>4
        <5> QED
          BY <2>4, <2>5, <3>4, <4>2, <4>4, <4>5, <5>1 DEF num
      <4>7. ASSUME NEW k \in 0 .. (r.size + 1) - 1
            PROVE  Element(put, k) = longer[k + 1]
        <5>1. k \in 0 .. r.size /\ k \in 0 .. RingCapacity - 1 /\ p \in Int
          BY <1>1, <2>1, <4>1
        <5>2. CASE k = p
          BY <2>8, <4>5, <5>1, <5>2
        <5>3. CASE k < p
          <6>1. k \in 0 .. r.size - 1 /\ ~(k > p) /\ k # p
            BY <1>1, <2>2, <5>1, <5>3
          <6> QED
            BY <1>1, <2>8, <4>3, <4>5, <5>1, <5>3, <6>1
        <5>4. CASE k > p
          <6>1. k - 1 \in 0 .. r.size - 1 /\ (k - 1) + 1 = k /\ ~(k < p) /\ k # p
            BY <1>1, <2>2, <5>1, <5>4
          <6>2. Element(put, k) = Element(r, k - 1)
            BY <4>3, <4>5, <5>1, <5>4, <6>1
          <6>3. Element(r, k - 1) = s[k]
            BY <1>1, <6>1
          <6>4. longer[k + 1] = s[k]
            BY <2>8, <5>1, <6>1
          <6> QED
            BY <6>2, <6>3, <6>4
        <5> QED
          BY <5>1, <5>2, <5>3, <5>4
      <4> QED
        BY <2>8, <3>1, <4>5, <4>6, <4>7, SizedHolds
    <3> QED
      BY <1>1, <3>2, <3>3, <3>4
  <2> QED
    BY <2>1, <2>7, <2>9
<1> QED
  BY <1>3, <1>4

(* What is left when an element leaves is in the order of the keys.        *)
LEMMA RemovalKeepsOrder ==
  ASSUME NEW s \in Seq(Elements), InOrderOfKeys(s), NEW i \in 1 .. Len(s)
  PROVE  InOrderOfKeys(RemoveAt(s, i))
<1>1. Len(s) \in Nat
  BY LenProperties
<1> DEFINE left == RemoveAt(s, i)
<1>2. /\ Len(left) = Len(s) - 1
      /\ \A k \in 1 .. Len(s) - 1 : left[k] = IF k < i THEN s[k] ELSE s[k + 1]
  BY RemoveAtProperties
<1> HIDE DEF left
<1>3. ASSUME NEW k \in 1 .. Len(left), NEW l \in 1 .. Len(left), k < l
      PROVE  left[k][1] <= left[l][1]
  <2>1. /\ k \in 1 .. Len(s) /\ l \in 1 .. Len(s) /\ k + 1 \in 1 .. Len(s)
        /\ l + 1 \in 1 .. Len(s) /\ k + 1 < l + 1 /\ k < l + 1
        /\ k \in 1 .. Len(s) - 1 /\ l \in 1 .. Len(s) - 1
    BY <1>1, <1>2, <1>3
  <2>2. CASE l < i
    <3>1. k < i
      BY <1>1, <1>3, <2>2
    <3> QED
      BY <1>2, <1>3, <2>1, <2>2, <3>1 DEF InOrderOfKeys
  <2>3. CASE ~(l < i) /\ k < i
    BY <1>2, <2>1, <2>3 DEF InOrderOfKeys
  <2>4. CASE ~(l < i) /\ ~(k < i)
    BY <1>2, <2>1, <2>4 DEF InOrderOfKeys
  <2>5. (l < i) \/ (~(l < i) /\ k < i) \/ (~(l < i) /\ ~(k < i))
    OBVIOUS
  <2> QED
    BY <2>2, <2>3, <2>4, <2>5
<1> QED
  BY <1>3 DEF left, InOrderOfKeys

(* A new ring is empty.                                                    *)
LEMMA InitRingInv == RingInit => RingInv
<1> SUFFICES ASSUME RingInit
             PROVE  RingInv
  OBVIOUS
<1>1. ring \in Rings /\ ring.size = 0
  BY RingAssumption DEF RingInit, Rings
<1>2. items \in Seq(Elements) /\ Len(items) = 0 /\ items = <<>>
  BY DEF RingInit
<1>3. Holds(ring, items)
  BY <1>1, <1>2 DEF Holds
<1>4. InOrderOfKeys(items)
  BY <1>2 DEF InOrderOfKeys
<1> QED
  BY <1>3, <1>4 DEF RingInv, RingInit

(* Every call keeps the ring and the sequence alike.                       *)
LEMMA StepRingInv == RingInv /\ [RingNext]_ringVars => RingInv'
<1> SUFFICES ASSUME RingInv, [RingNext]_ringVars
             PROVE  RingInv'
  OBVIOUS
<1>1. /\ Holds(ring, items) /\ sorted \in BOOLEAN /\ (sorted => InOrderOfKeys(items))
      /\ items \in Seq(Elements) /\ Len(items) \in Nat
  BY LenProperties DEF RingInv, Holds
<1>2. ASSUME NEW e \in Elements, QueuePushFront(e)
      PROVE  RingInv'
  BY <1>1, <1>2, PushFrontHolds DEF QueuePushFront, Does, RingInv
<1>3. ASSUME NEW e \in Elements, QueuePushBack(e)
      PROVE  RingInv'
  BY <1>1, <1>3, PushBackHolds DEF QueuePushBack, Does, RingInv
<1>4. ASSUME NEW e \in Elements, SortedRingInsert(e)
      PROVE  RingInv'
  BY <1>1, <1>4, SortedInsertHolds DEF SortedRingInsert, Does, RingInv
<1>5. ASSUME NEW e \in Elements, RingRemove(e)
      PROVE  RingInv'
  <2> DEFINE sameKey == { x \in Elements : x[1] = e[1] }
             left == WithoutLast(items, sameKey)
  <2>1. /\ ring' = RemoveMatch(ring, sameKey) /\ items' = left /\ sorted' = sorted
    BY <1>5 DEF RingRemove, Does
  <2> HIDE DEF sameKey
  <2>2. /\ Holds(RemoveMatch(ring, sameKey), left)
        /\ left = items \/ \E i \in 1 .. Len(items) : left = RemoveAt(items, i)
    BY <1>1, RemoveMatchHolds
  <2> HIDE DEF left
  <2>3. sorted => InOrderOfKeys(left)
    BY <1>1, <2>2, RemovalKeepsOrder
  <2> QED
    BY <1>1, <2>1, <2>2, <2>3 DEF RingInv
<1>6. CASE RingPopFront
  <2>1. sorted => InOrderOfKeys(IF items = <<>> THEN items ELSE Tail(items))
    <3>1. items # <<>> => Tail(items) = RemoveAt(items, 1) /\ 1 \in 1 .. Len(items)
      BY <1>1, EndsAreRemovals
    <3> QED
      BY <1>1, <3>1, RemovalKeepsOrder
  <2> QED
    BY <1>1, <1>6, <2>1, PopFrontHolds DEF RingPopFront, Does, RingInv
<1>7. CASE RingPopBack
  <2>1. sorted => InOrderOfKeys(IF items = <<>> THEN items ELSE Front(items))
    <3>1. items # <<>> =>
            Front(items) = RemoveAt(items, Len(items)) /\ Len(items) \in 1 .. Len(items)
      BY <1>1, EndsAreRemovals
    <3> QED
      BY <1>1, <3>1, RemovalKeepsOrder
  <2> QED
    BY <1>1, <1>7, <2>1, PopBackHolds DEF RingPopBack, Does, RingInv
<1>8. ASSUME NEW i \in 0 .. RingCapacity, RingRemoveIndex(i)
      PROVE  RingInv'
  <2>1. i \in Nat
    BY RingAssumption
  <2>2. sorted => InOrderOfKeys(IF i < Len(items) THEN RemoveAt(items, i + 1) ELSE items)
    <3>1. i < Len(items) => i + 1 \in 1 .. Len(items)
      BY <1>1, <2>1
    <3> QED
      BY <1>1, <3>1, RemovalKeepsOrder
  <2> QED
    BY <1>1, <1>8, <2>1, <2>2, RemoveIndexHolds DEF RingRemoveIndex, Does, RingInv
<1>9. CASE UNCHANGED ringVars
  BY <1>1, <1>9 DEF ringVars, RingInv
<1> QED
  BY <1>2, <1>3, <1>4, <1>5, <1>6, <1>7, <1>8, <1>9 DEF RingNext

(* A ring of any capacity holds, wherever it starts in its array, the      *)
(* sequence that the same calls make of a list, and a SortedRing stays     *)
(* sorted (ring_buffer.h); the list differs from the words of the header   *)
(* in the two ways that RingIsSequence names.                              *)
THEOREM RingHoldsSequence == RingSpec => []RingIsSequence
<1>1. RingInv => RingIsSequence
  <2> SUFFICES ASSUME RingInv
               PROVE  RingIsSequence
    OBVIOUS
  <2>1. /\ ring \in Rings /\ items \in Seq(Elements) /\ Len(items) = ring.size
        /\ \A k \in 0 .. ring.size - 1 : Element(ring, k) = items[k + 1]
        /\ ring.size \in Nat
    BY RingTypes DEF RingInv, Holds
  <2>2. Contents(ring) = items
    <3>1. \A i \in 1 .. ring.size : i - 1 \in 0 .. ring.size - 1 /\ (i - 1) + 1 = i
      BY <2>1
    <3>2. \A i \in 1 .. ring.size : Element(ring, i - 1) = items[i]
      BY <2>1, <3>1
    <3>3. items = [i \in 1 .. ring.size |-> items[i]]
      BY <2>1, LenProperties
    <3> QED
      BY <3>2, <3>3 DEF Contents
  <2>3. sorted => \A i \in 1 .. ring.size - 1 : ~Less(items[i + 1], items[i])
    <3> SUFFICES ASSUME sorted, NEW i \in 1 .. ring.size - 1
                 PROVE  ~Less(items[i + 1], items[i])
      OBVIOUS
    <3>1. i \in 1 .. Len(items) /\ i + 1 \in 1 .. Len(items) /\ i < i + 1
      BY <2>1
    <3>2. items[i][1] <= items[i + 1][1]
      BY <3>1 DEF RingInv, InOrderOfKeys
    <3>3. items[i][1] \in Int /\ items[i + 1][1] \in Int
      BY <2>1, <3>1, ElementOfSeq, RingAssumption
    <3> QED
      BY <3>2, <3>3 DEF Less
  <2> QED
    BY <2>2, <2>3 DEF RingIsSequence
<1> QED
  BY <1>1, InitRingInv, StepRingInv, PTL DEF RingSpec

-----------------------------------------------------------------------------
(* Packets.  The messages that were accepted lie one behind the other: the *)
(* packet has places for them, each the next multiple of four bytes after  *)
(* the one before, and the header of each is at its place.                 *)
Places(at) ==
  /\ at \in [0 .. packet.num -> Nat] /\ at[0] = HeaderSize
  /\ \A i \in 1 .. packet.num :
       /\ at[i] = at[i - 1] + MsgHeaderSize + RoundUp(sent[i].size)
       /\ HeaderAt(packet, at[i - 1]) = sent[i]
  /\ \A i \in 0 .. packet.num : HeaderSize + MsgHeaderSize * i <= at[i] /\ at[i] <= at[packet.num]
  /\ packet.size = at[packet.num] + (IF packet.crc THEN CrcSize ELSE 0)

PacketInv ==
  /\ bufferSize \in BufferSizes
  /\ packet = [ok |-> packet.ok, size |-> packet.size, num |-> packet.num,
               headers |-> packet.headers, crc |-> packet.crc]
  /\ packet.ok => /\ sent \in Seq(Messages) /\ packet.num = Len(sent)
                  /\ packet.size <= bufferSize
                  /\ \E at : Places(at)

(* Rounding up to a multiple of 4 makes nothing smaller.                   *)
LEMMA RoundUpIsAbove ==
  ASSUME NEW size \in Nat
  PROVE  RoundUp(size) \in Nat /\ RoundUp(size) >= size
BY DEF RoundUp

(* The first of two headers put into a packet is the one that is read.     *)
LEMMA HeaderPut ==
  ASSUME NEW place, NEW msg, packet'.headers = Overlaid(packet.headers, place, msg)
  PROVE  /\ HeaderAt(packet', place) = msg
         /\ \A o : o # place => HeaderAt(packet', o) = HeaderAt(packet, o)
<1>1. DOMAIN packet'.headers = {place} \cup DOMAIN packet.headers
  BY DEF Overlaid
<1>2. packet'.headers[place] = msg
  BY DEF Overlaid
<1>3. \A o \in DOMAIN packet.headers : o # place => packet'.headers[o] = packet.headers[o]
  BY DEF Overlaid
<1> QED
  BY <1>1, <1>2, <1>3 DEF HeaderAt

(* A new packet has no message, and its size is that of its header.        *)
LEMMA InitPacketInv == PacketInit => PacketInv
<1> SUFFICES ASSUME PacketInit PROVE PacketInv
  OBVIOUS
<1>1. /\ bufferSize \in BufferSizes /\ bufferSize \in Nat /\ sent = <<>>
      /\ packet = [ok |-> bufferSize >= HeaderSize,
                   size |-> IF bufferSize >= HeaderSize THEN HeaderSize ELSE 0,
                   num |-> 0, headers |-> [offset \in {} |-> 0], crc |-> FALSE]
  BY PacketAssumption DEF PacketInit, PacketWriter
<1>2. CASE bufferSize >= HeaderSize
  <2> DEFINE at == [i \in 0 .. 0 |-> HeaderSize]
  <2>1. packet.num = 0 /\ packet.size = HeaderSize /\ ~packet.crc
    BY <1>1, <1>2
  <2>2. \A i \in 0 .. 0 : i = 0
    OBVIOUS
  <2>3. at[0] = HeaderSize /\ at \in [0 .. 0 -> Nat]
    BY DEF HeaderSize
  <2> HIDE DEF at
  <2>4. Places(at)
    BY <2>1, <2>2, <2>3 DEF Places, HeaderSize, MsgHeaderSize
  <2>5. sent \in Seq(Messages) /\ Len(sent) = 0
    BY <1>1
  <2> QED
    BY <1>1, <1>2, <2>1, <2>4, <2>5 DEF PacketInv
<1>3. CASE ~(bufferSize >= HeaderSize)
  BY <1>1, <1>3 DEF PacketInv
<1> QED
  BY <1>2, <1>3

(* add_message() puts the next message where the last one ends.            *)
LEMMA AddMessageKeepsInv ==
  ASSUME PacketInv, NEW msg \in Messages, AddMessage(msg)
  PROVE  PacketInv'
<1> DEFINE n == packet.num
           end == packet.size + MsgHeaderSize + RoundUp(msg.size)
<1>1. /\ packet.ok /\ ~packet.crc /\ sent \in Seq(Messages) /\ n = Len(sent)
      /\ bufferSize \in BufferSizes
  BY DEF AddMessage, PacketInv
<1>2. PICK at : Places(at)
  BY <1>1 DEF PacketInv
<1>3. n \in Nat /\ DOMAIN sent = 1 .. n
  BY <1>1, LenProperties
<1>4. /\ at \in [0 .. n -> Nat] /\ at[0] = HeaderSize /\ packet.size = at[n]
      /\ \A i \in 1 .. n : /\ at[i] = at[i - 1] + MsgHeaderSize + RoundUp(sent[i].size)
                           /\ HeaderAt(packet, at[i - 1]) = sent[i]
      /\ \A i \in 0 .. n : HeaderSize + MsgHeaderSize * i <= at[i] /\ at[i] <= at[n]
  <2>1. n \in 0 .. n
    BY <1>3
  <2>2. at[n] \in Nat
    BY <1>2, <2>1 DEF Places
  <2> QED
    BY <1>1, <1>2, <2>2 DEF Places
<1>5. RoundUp(msg.size) \in Nat /\ at[n] \in Nat
  <2>1. msg.size \in Nat
    BY PacketAssumption
  <2>2. n \in 0 .. n
    BY <1>3
  <2>3. at[n] \in Nat
    BY <1>4, <2>2
  <2> QED
    BY <2>1, <2>3, RoundUpIsAbove
<1>6. end \in Nat /\ end <= bufferSize /\ end % SizeModulus = end
  <2>1. end \in Nat /\ end <= bufferSize
    BY <1>4, <1>5 DEF AddMessage, MsgHeaderSize
  <2>2. SizeModulus \in Nat /\ bufferSize \in Nat /\ bufferSize < SizeModulus
    BY <1>1, PacketAssumption
  <2> HIDE DEF end
  <2> QED
    BY <2>1, <2>2
<1>7. /\ packet'.headers = Overlaid(packet.headers, at[n], msg)
      /\ packet'.num = n + 1 /\ packet'.size = end
      /\ packet'.crc = packet.crc /\ packet'.ok = packet.ok
      /\ packet' = [ok |-> packet'.ok, size |-> packet'.size, num |-> packet'.num,
                    headers |-> packet'.headers, crc |-> packet'.crc]
      /\ sent' = Append(sent, msg) /\ bufferSize' = bufferSize
  BY <1>4, <1>6 DEF AddMessage, PacketInv
<1>8. /\ sent' \in Seq(Messages) /\ Len(sent') = n + 1 /\ sent'[n + 1] = msg
      /\ \A i \in 1 .. n : sent'[i] = sent[i]
  BY <1>1, <1>3, <1>7, AppendProperties
<1>9. /\ HeaderAt(packet', at[n]) = msg
       /\ \A o : o # at[n] => HeaderAt(packet', o) = HeaderAt(packet, o)
  BY <1>7, HeaderPut
<1>10. end = at[n] + MsgHeaderSize + RoundUp(msg.size)
  BY <1>4
<1>11. PICK bt : bt = [i \in 0 .. n + 1 |-> IF i = n + 1 THEN end ELSE at[i]]
  OBVIOUS
<1>12. Places(bt)'
  <2> HIDE DEF end, n
  <2>1. \A i \in 0 .. n + 1 : i \in 0 .. n \/ i = n + 1
    BY <1>3
  <2>2. bt[n + 1] = end /\ \A i \in 0 .. n : bt[i] = at[i] /\ i # n + 1
    BY <1>3, <1>11
  <2>3. bt \in [0 .. n + 1 -> Nat]
    BY <1>4, <1>6, <1>11, <2>1
  <2>4. bt[0] = HeaderSize
    BY <1>3, <1>4, <2>2
  <2>5. ASSUME NEW i \in 1 .. n + 1
        PROVE  /\ bt[i] = bt[i - 1] + MsgHeaderSize + RoundUp(sent'[i].size)
               /\ HeaderAt(packet', bt[i - 1]) = sent'[i]
    <3>1. i - 1 \in 0 .. n
      BY <1>3
    <3>2. CASE i = n + 1
      <4>1. i - 1 = n
        BY <1>3, <3>2
      <4>2. bt[i - 1] = at[n]
        BY <2>2, <3>1, <4>1
      <4>3. HeaderAt(packet', at[n]) = msg
        BY <1>9
      <4> QED
        BY <1>8, <1>10, <2>2, <3>2, <4>2, <4>3
    <3>3. CASE i # n + 1
      <4>1. i \in 1 .. n /\ i \in 0 .. n
        BY <1>3, <3>3
      <4>2. bt[i] = at[i] /\ bt[i - 1] = at[i - 1] /\ sent'[i] = sent[i]
        BY <1>8, <2>2, <3>1, <4>1
      <4>3. sent[i] \in Messages
        BY <1>1, <1>3, <4>1, ElementOfSeq
      <4>4. RoundUp(sent[i].size) \in Nat
        BY <4>3, PacketAssumption, RoundUpIsAbove
      <4>5. at[i - 1] \in Nat /\ at[i] \in Nat /\ at[i] = at[i - 1] + MsgHeaderSize + RoundUp(sent[i].size)
            /\ at[i] <= at[n]
        BY <1>4, <3>1, <4>1
      <4>6. at[i - 1] # at[n]
        BY <1>5, <4>4, <4>5 DEF MsgHeaderSize
      <4>7. HeaderAt(packet', at[i - 1]) = HeaderAt(packet, at[i - 1])
        BY <1>9, <4>6
      <4> QED
        BY <1>4, <4>1, <4>2, <4>7
    <3> QED
      BY <3>2, <3>3
  <2>6. at[n] <= end /\ HeaderSize + MsgHeaderSize * (n + 1) <= end
    <3>1. HeaderSize + MsgHeaderSize * n <= at[n]
      BY <1>3, <1>4
    <3> QED
      BY <1>3, <1>5, <1>10, <3>1 DEF HeaderSize, MsgHeaderSize
  <2>7. ASSUME NEW i \in 0 .. n + 1
        PROVE  HeaderSize + MsgHeaderSize * i <= bt[i] /\ bt[i] <= bt[n + 1]
    <3>1. CASE i \in 0 .. n
      <4>1. bt[i] = at[i] /\ at[i] \in Nat /\ at[i] <= at[n] /\ HeaderSize + MsgHeaderSize * i <= at[i]
        BY <1>4, <2>2, <3>1
      <4> QED
        BY <1>5, <1>6, <2>2, <2>6, <4>1
    <3>2. CASE i = n + 1
      BY <1>6, <2>2, <2>6, <3>2
    <3> QED
      BY <2>1, <3>1, <3>2
  <2>8. packet'.size = bt[n + 1] + (IF packet'.crc THEN CrcSize ELSE 0)
    BY <1>1, <1>6, <1>7, <2>2
  <2> QED
    BY <1>7, <2>3, <2>4, <2>5, <2>7, <2>8 DEF Places
<1>13. \E a : Places(a)'
  BY <1>12
<1> QED
  BY <1>1, <1>6, <1>7, <1>8, <1>13 DEF PacketInv

(* add_crc() leaves the messages alone.                                    *)
LEMMA AddCrcKeepsInv ==
  ASSUME PacketInv, AddCrc
  PROVE  PacketInv'
<1>1. /\ packet.ok /\ ~packet.crc /\ sent \in Seq(Messages) /\ packet.num = Len(sent)
      /\ bufferSize \in BufferSizes
  BY DEF AddCrc, PacketInv
<1>2. PICK at : Places(at)
  BY <1>1 DEF PacketInv
<1>3. packet.num \in Nat /\ packet.num \in 0 .. packet.num
  BY <1>1, LenProperties
<1>4. packet.size = at[packet.num] /\ packet.size \in Nat
  BY <1>1, <1>2, <1>3 DEF Places
<1>5. /\ packet.size + CrcSize <= bufferSize
      /\ (packet.size + CrcSize) % SizeModulus = packet.size + CrcSize
  <2>1. SizeModulus \in Nat /\ bufferSize \in Nat /\ bufferSize < SizeModulus
    BY <1>1, PacketAssumption
  <2> QED
    BY <1>4, <2>1 DEF AddCrc, CrcSize
<1>6. /\ packet'.headers = packet.headers /\ packet'.num = packet.num
      /\ packet'.size = packet.size + CrcSize
      /\ packet'.crc = TRUE /\ packet'.ok = packet.ok
      /\ packet' = [ok |-> packet'.ok, size |-> packet'.size, num |-> packet'.num,
                    headers |-> packet'.headers, crc |-> packet'.crc]
      /\ sent' = sent /\ bufferSize' = bufferSize
  BY <1>5 DEF AddCrc, PacketInv
<1>7. \A o : HeaderAt(packet', o) = HeaderAt(packet, o)
  BY <1>6 DEF HeaderAt
<1>8. Places(at)'
  BY <1>2, <1>4, <1>6, <1>7 DEF Places
<1>9. \E a : Places(a)'
  BY <1>8
<1> QED
  BY <1>1, <1>5, <1>6, <1>9 DEF PacketInv

(* Each call of the writer keeps the places of the messages.               *)
LEMMA StepPacketInv == PacketInv /\ [PacketNext]_packetVars => PacketInv'
<1> SUFFICES ASSUME PacketInv, [PacketNext]_packetVars PROVE PacketInv'
  OBVIOUS
<1>1. CASE UNCHANGED packetVars
  BY <1>1 DEF packetVars, PacketInv, Places, HeaderAt
<1> QED
  BY <1>1, AddMessageKeepsInv, AddCrcKeepsInv DEF PacketNext

(* What holds at 0 and after every number for which it holds holds at all. *)
LEMMA AllUpTo ==
  ASSUME NEW n \in Nat, NEW P, 0 \in P, \A k \in 0 .. n : k # 0 /\ k - 1 \in P => k \in P
  PROVE  0 .. n \subseteq P
<1> DEFINE T == (0 .. n) \ P
<1> SUFFICES ASSUME T # {} PROVE FALSE
  OBVIOUS
<1>1. T \subseteq Nat
  OBVIOUS
<1>2. PICK k \in T : \A y \in T : ~(<<y, k>> \in OpToRel(<, Nat))
  <2> HIDE DEF T
  <2> QED
    BY <1>1, NatLessThanWellFounded, WFMin
<1>3. k \in 0 .. n /\ k \notin P /\ k # 0
  OBVIOUS
<1>4. k - 1 \notin T
  <2> SUFFICES ASSUME k - 1 \in T PROVE FALSE
    OBVIOUS
  <2>1. k - 1 \in Nat /\ k \in Nat /\ k - 1 < k
    BY <1>3
  <2>2. <<k - 1, k>> \in OpToRel(<, Nat)
    BY <2>1 DEF OpToRel
  <2> QED
    BY <1>2, <2>2
<1>5. k - 1 \in 0 .. n
  BY <1>3
<1> QED
  BY <1>3, <1>4, <1>5

(* Going from message to message, a reader comes by their places.          *)
LEMMA OffsetsArePlaces ==
  ASSUME PacketInv, packet.ok, NEW at, Places(at)
  PROVE  \A i \in 0 .. packet.num : MessageOffset(packet)[i] = at[i]
<1> DEFINE n == packet.num
           Turn(g, i) == IF i = 0 THEN HeaderSize
                         ELSE g[i - 1] + MsgHeaderSize + RoundUp(HeaderAt(packet, g[i - 1]).size)
           Loop(g) == g = [i \in 0 .. n |-> Turn(g, i)]
           offset == CHOOSE g : Loop(g)
<1>1. /\ n \in Nat /\ at \in [0 .. n -> Nat] /\ at[0] = HeaderSize
      /\ \A i \in 1 .. n : /\ at[i] = at[i - 1] + MsgHeaderSize + RoundUp(sent[i].size)
                           /\ HeaderAt(packet, at[i - 1]) = sent[i]
  BY LenProperties DEF PacketInv, Places
<1>2. Loop(at)
  <2>1. ASSUME NEW i \in 0 .. n PROVE Turn(at, i) = at[i]
    <3>1. i = 0 \/ i \in 1 .. n
      BY <1>1
    <3> QED
      BY <1>1, <3>1
  <2>2. at = [i \in 0 .. n |-> at[i]]
    BY <1>1
  <2> HIDE DEF Turn
  <2> QED
    BY <2>1, <2>2
<1>3. Loop(offset)
  <2> HIDE DEF Loop
  <2> QED
    BY <1>2
<1>4. MessageOffset(packet) = offset
  BY DEF MessageOffset
<1> HIDE DEF offset
<1>5. \A i \in 0 .. n : offset[i] = Turn(offset, i)
  BY <1>3
<1> DEFINE P == { i \in 0 .. n : offset[i] = at[i] }
<1>6. 0 \in P
  BY <1>1, <1>5
<1>7. ASSUME NEW i \in 0 .. n, i # 0, i - 1 \in P PROVE i \in P
  <2>1. i \in 1 .. n /\ offset[i - 1] = at[i - 1]
    BY <1>1, <1>7
  <2>2. offset[i] = Turn(at, i) /\ at[i] = Turn(at, i)
    BY <1>1, <1>5, <1>7, <2>1
  <2> QED
    BY <2>2
<1>8. 0 .. n \subseteq P
  <2> HIDE DEF P, n
  <2> QED
    BY <1>1, <1>6, <1>7, AllUpTo
<1> QED
  BY <1>4, <1>8

(* A reader of any part of the packet refuses it or finds the messages.    *)
LEMMA PacketIsRead ==
  ASSUME PacketInv, packet.ok
  PROVE  ReadsWhatWasSent
<1> DEFINE n == packet.num
           a == Available(packet)
<1>1. /\ sent \in Seq(Messages) /\ n = Len(sent) /\ n \in Nat /\ packet.size <= bufferSize
      /\ bufferSize \in Nat /\ MaxAvailable \in Nat
  BY PacketAssumption, LenProperties DEF PacketInv
<1>2. PICK at : Places(at)
  BY DEF PacketInv
<1>3. /\ at \in [0 .. n -> Nat] /\ n \in 0 .. n /\ at[n] \in Nat
      /\ \A i \in 1 .. n : /\ at[i] = at[i - 1] + MsgHeaderSize + RoundUp(sent[i].size)
                           /\ HeaderAt(packet, at[i - 1]) = sent[i]
      /\ \A i \in 0 .. n : HeaderSize + MsgHeaderSize * i <= at[i] /\ at[i] <= at[n]
      /\ packet.size = at[n] + (IF packet.crc THEN CrcSize ELSE 0)
  BY <1>1, <1>2 DEF Places
<1>4. \A i \in 0 .. n : MessageOffset(packet)[i] = at[i]
  BY <1>2, OffsetsArePlaces
<1>5. a \in 0 .. n
  BY <1>1 DEF Available
<1>6. ASSUME NEW i \in 0 .. n, i < n
      PROVE  /\ MessageOffset(packet)[i] + MsgHeaderSize <= packet.size
             /\ MessageOffset(packet)[i]
                  + HeaderAt(packet, MessageOffset(packet)[i]).size <= packet.size
             /\ HeaderAt(packet, MessageOffset(packet)[i]) = sent[i + 1]
  <2>1. PICK j \in 1 .. n : j = i + 1
    BY <1>1, <1>6
  <2>2. j - 1 = i /\ i + 1 = j
    BY <2>1
  <2>3. at[j] = at[i] + MsgHeaderSize + RoundUp(sent[j].size) /\ HeaderAt(packet, at[i]) = sent[j]
    BY <1>3, <2>2
  <2>4. sent[j].size \in Nat
    BY <1>1, <2>1, ElementOfSeq, PacketAssumption
  <2>5. RoundUp(sent[j].size) \in Nat /\ RoundUp(sent[j].size) >= sent[j].size
    BY <2>4, RoundUpIsAbove
  <2>6. at[i] \in Nat /\ at[j] \in Nat /\ at[j] <= at[n]
    <3>1. j \in 0 .. n
      OBVIOUS
    <3> QED
      BY <1>3, <3>1
  <2>7. at[n] <= packet.size /\ packet.size \in Nat
    BY <1>3 DEF CrcSize
  <2>8. at[i] + MsgHeaderSize <= packet.size /\ at[i] + sent[j].size <= packet.size
    <3> DEFINE x == at[i]
               y == at[j]
               z == at[n]
               r == RoundUp(sent[j].size)
               s == sent[j].size
    <3>1. /\ x \in Nat /\ y \in Nat /\ z \in Nat /\ r \in Nat /\ s \in Nat /\ packet.size \in Nat
          /\ y = x + 4 + r /\ y <= z /\ z <= packet.size /\ s <= r
      BY <1>3, <2>3, <2>4, <2>5, <2>6, <2>7 DEF MsgHeaderSize
    <3> HIDE DEF x, y, z, r, s
    <3>2. x + 4 <= packet.size /\ x + s <= packet.size
      BY <3>1
    <3> QED
      BY <3>2 DEF x, s, MsgHeaderSize
  <2> QED
    BY <1>4, <2>2, <2>3, <2>8
<1>7. \A i \in 0 .. a - 1 : i \in 0 .. n /\ i < n
  BY <1>1, <1>5
<1>8. /\ packet.size >= HeaderSize /\ packet.size \in Nat
      /\ packet.crc => packet.size >= HeaderSize + CrcSize
      /\ MsgHeaderSize * n <= packet.size - HeaderSize - (IF packet.crc THEN CrcSize ELSE 0)
  <2>1. HeaderSize + MsgHeaderSize * n <= at[n]
    BY <1>3
  <2> QED
    BY <1>1, <1>3, <2>1 DEF HeaderSize, MsgHeaderSize, CrcSize
<1>9. ASSUME NEW nbytes \in 0 .. bufferSize
      PROVE  Parse(packet, nbytes, FALSE) = IF nbytes < packet.size THEN "kBadSize" ELSE "kOk"
  <2>1. CASE nbytes < packet.size
    BY <1>8, <2>1 DEF Parse
  <2>2. CASE ~(nbytes < packet.size)
    <3>1. /\ ~(nbytes < HeaderSize \/ packet.size > nbytes \/ packet.size < HeaderSize)
          /\ ~(packet.crc /\ packet.size < HeaderSize + CrcSize)
      BY <1>8, <2>2 DEF HeaderSize, CrcSize
    <3>2. ~(MsgHeaderSize * n > packet.size - HeaderSize - (IF packet.crc THEN CrcSize ELSE 0))
      BY <1>1, <1>8 DEF HeaderSize, MsgHeaderSize, CrcSize
    <3>3. \A i \in 0 .. a - 1 :
            /\ MessageOffset(packet)[i] + MsgHeaderSize <= packet.size
            /\ MessageOffset(packet)[i]
                 + HeaderAt(packet, MessageOffset(packet)[i]).size <= packet.size
      BY <1>6, <1>7
    <3>4. Parse(packet, nbytes, FALSE) = "kOk"
      BY <1>8, <3>1, <3>2, <3>3 DEF Parse
    <3> QED
      BY <2>2, <3>4
  <2> QED
    BY <2>1, <2>2
<1>10. ASSUME packet.crc PROVE Parse(packet, bufferSize, TRUE) = "kBadCrc"
  BY <1>1, <1>8, <1>10 DEF Parse, HeaderSize, CrcSize
<1>11. Read(packet) = SubSeq(sent, 1, a)
  <2>1. ASSUME NEW i \in 1 .. a PROVE HeaderAt(packet, MessageOffset(packet)[i - 1]) = sent[i]
    <3>1. i - 1 \in 0 .. n /\ i - 1 < n /\ (i - 1) + 1 = i
      BY <1>1, <1>5
    <3> QED
      BY <1>6, <3>1
  <2>2. SubSeq(sent, 1, a) = [i \in 1 .. a |-> sent[i]]
    BY <1>1, <1>5
  <2> QED
    BY <2>1, <2>2 DEF Read
<1> QED
  BY <1>9, <1>10, <1>11 DEF ReadsWhatWasSent

(* A packet that is read at any moment gives the messages that were put    *)
(* into it, and a part of it, or one that was damaged and has a CRC, is    *)
(* refused: for all messages and buffers below the range of the sizes.     *)
THEOREM WhatWasSentIsRead == PacketSpec => []ReadsWhatWasSent
<1>1. PacketInv => ReadsWhatWasSent
  BY PacketIsRead DEF ReadsWhatWasSent
<1> QED
  BY <1>1, InitPacketInv, StepPacketInv, PTL DEF PacketSpec

-----------------------------------------------------------------------------
(* WifiManager.  The last that was reported of the link, handled or not    *)
(* yet, is the state of the link, unless the queue refused the event; a    *)
(* client in its soft AP has no link; and one that lost its connection or  *)
(* waits to try again is not connected.                                    *)
WifiTypes ==
  /\ pending \in {"none", "onConnect", "onDisconnect", "trySetup"}
  /\ startAge \in {"zero", "now", "recent", "old"} /\ lostAge \in {"zero", "recent", "old"}
  /\ link \in {"off", "down", "joining", "up"} /\ outcome \in {"idle", "failed"}
  /\ events \in Seq({"DISCONNECTED", "GOT_IP"}) /\ Len(events) <= MaxEvents + 1

BeforeStart ==
  ~started => /\ ~apMode /\ ~wasConnected /\ startAge = "zero" /\ lostAge = "zero"
              /\ pending = "none" /\ link = "off" /\ outcome = "idle" /\ events = <<>>

NewsOfLink ==
  /\ events # <<>> => (Last(events) = "GOT_IP" <=> link = "up")
  /\ events = <<>> /\ ~apMode /\ ~newsLost =>
       /\ pending = "onConnect" => link = "up"
       /\ pending \in {"onDisconnect", "trySetup"} => link # "up"
       /\ pending = "none" => (wasConnected <=> link = "up")

(* The driver is one event more ahead only after a call of disconnect() or *)
(* mode(), which a client makes again only after it was connected again.   *)
OneMoreEvent ==
  Len(events) = MaxEvents + 1 /\ ~apMode =>
    /\ link # "up" /\ ~wasConnected /\ pending \in {"none", "trySetup"}
    /\ link = "joining" => outcome = "idle"

WifiInv ==
  /\ WifiTypes /\ BeforeStart /\ NewsOfLink /\ OneMoreEvent
  /\ apMode => link = "off"
  /\ ~HaveEssid => link \in {"off", "down"}
  /\ pending = "trySetup" => ~wasConnected
  /\ lostAge # "zero" => ~wasConnected
  /\ retryDelay \in {5, 10} /\ (wasConnected => retryDelay = 5)

Flags == {started, apMode, apUp, wasConnected, sanityQueued, newsLost, checkLost} \subseteq BOOLEAN

(* What the invariant is about.                                            *)
wifiState == <<started, apMode, wasConnected, startAge, lostAge, retryDelay, pending, newsLost,
               link, outcome, events>>

(* A step that changes none of it keeps the invariant.                     *)
LEMMA NothingKeepsInv ==
  ASSUME WifiInv, UNCHANGED wifiState
  PROVE  WifiInv'
<1>1. UNCHANGED <<started, apMode, wasConnected, startAge, lostAge, retryDelay, pending, newsLost,
                  link, outcome, events>>
  BY DEF wifiState
<1>2. WifiTypes' /\ BeforeStart'
  BY <1>1 DEF WifiInv, WifiTypes, BeforeStart
<1>3. NewsOfLink' /\ OneMoreEvent'
  BY <1>1 DEF WifiInv, NewsOfLink, OneMoreEvent
<1> QED
  BY <1>1, <1>2, <1>3 DEF WifiInv

(* An event that is reported is the last one.                              *)
LEMMA EventAdded ==
  ASSUME WifiTypes, NEW e \in {"DISCONNECTED", "GOT_IP"}, events' = Append(events, e)
  PROVE  /\ events' \in Seq({"DISCONNECTED", "GOT_IP"}) /\ events' # <<>> /\ Last(events') = e
         /\ Len(events) \in Nat /\ Len(events') = Len(events) + 1
<1>1. events \in Seq({"DISCONNECTED", "GOT_IP"}) /\ Len(events) \in Nat
  BY LenProperties DEF WifiTypes
<1>2. /\ events' \in Seq({"DISCONNECTED", "GOT_IP"}) /\ Len(events') = Len(events) + 1
      /\ events'[Len(events) + 1] = e
  BY <1>1, AppendProperties
<1>3. events' # <<>>
  BY <1>1, <1>2
<1> QED
  BY <1>1, <1>2, <1>3 DEF Last

(* What the driver reports when the program ends a link.                   *)
LEMMA ReportedFacts ==
  ASSUME WifiTypes, Reported
  PROVE  /\ events' \in Seq({"DISCONNECTED", "GOT_IP"}) /\ Len(events) \in Nat
         /\ \/ link # "up" /\ events' = events
            \/ /\ link \in {"up", "joining"} /\ events' # <<>> /\ Last(events') = "DISCONNECTED"
               /\ Len(events') = Len(events) + 1
<1>1. Len(events) \in Nat
  BY LenProperties DEF WifiTypes
<1>2. CASE link \in {"up", "joining"} /\ events' = Append(events, "DISCONNECTED")
  BY <1>2, EventAdded
<1>3. CASE link # "up" /\ UNCHANGED events
  BY <1>1, <1>3 DEF WifiTypes
<1> QED
  BY <1>2, <1>3 DEF Reported

(* startAp() from a client that is not connected keeps the invariant.      *)
LEMMA StartApKeepsInv ==
  ASSUME WifiInv, NEW same \in {"none", pending}, StartAp(same), started' = TRUE, ~wasConnected,
         newsLost' = newsLost,
         Len(events) = MaxEvents + 1 => link \notin {"joining", "up"}
  PROVE  WifiInv'
<1>1. /\ Reported /\ link' = "off" /\ outcome' = "idle" /\ apMode'
      /\ wasConnected' = wasConnected /\ lostAge' = lostAge /\ retryDelay' = retryDelay
      /\ pending' \in {"onConnect", same} /\ startAge' \in {"now", startAge}
  <2>1. pending' \in {"onConnect", same} /\ startAge' \in {"now", startAge}
    BY DEF StartAp, RunInOrFull
  <2> QED
    BY <2>1 DEF StartAp, ModeAp
<1>2. /\ events' \in Seq({"DISCONNECTED", "GOT_IP"}) /\ Len(events) \in Nat
      /\ \/ link # "up" /\ events' = events
         \/ /\ link \in {"up", "joining"} /\ events' # <<>> /\ Last(events') = "DISCONNECTED"
            /\ Len(events') = Len(events) + 1
  BY <1>1, ReportedFacts DEF WifiInv
<1>3. Len(events') <= MaxEvents + 1
  BY <1>2, WifiAssumption DEF WifiInv, WifiTypes
<1>4. WifiTypes'
  <2>1. WifiTypes
    BY DEF WifiInv
  <2>2. pending' \in {"none", "onConnect", "onDisconnect", "trySetup"}
    BY <1>1, <2>1 DEF WifiTypes
  <2>3. startAge' \in {"zero", "now", "recent", "old"}
    BY <1>1, <2>1 DEF WifiTypes
  <2> QED
    BY <1>1, <1>2, <1>3, <2>1, <2>2, <2>3 DEF WifiTypes
<1>5. NewsOfLink'
  <2>1. events' # <<>> => Last(events') # "GOT_IP"
    BY <1>2 DEF WifiInv, NewsOfLink
  <2> QED
    BY <1>1, <2>1 DEF NewsOfLink
<1> QED
  BY <1>1, <1>4, <1>5 DEF WifiInv, BeforeStart, OneMoreEvent

(* trySetup() keeps the invariant, called by the start function and by     *)
(* sanityCheck(), or as the retry that was queued.                         *)
LEMMA TrySetupKeepsInv ==
  ASSUME WifiInv, NEW same \in {"none", pending}, TrySetup(same), started' = TRUE,
         newsLost' = newsLost,
         \/ same = pending /\ ~apMode /\ link # "up" /\ ~wasConnected
         \/ same = "none" /\ pending = "trySetup"
  PROVE  WifiInv'
<1>1. ~wasConnected
  BY DEF WifiInv
<1>2. CASE startAge = "recent" /\ RunInOrFull("trySetup", same) /\ NothingElse
  <2>1. /\ pending' \in {"trySetup", same}
        /\ UNCHANGED <<apMode, wasConnected, startAge, lostAge, retryDelay, link, outcome, events>>
    BY <1>2 DEF RunInOrFull, NothingElse, ages, driver
  <2>2. WifiTypes' /\ BeforeStart'
    BY <2>1 DEF WifiInv, WifiTypes, BeforeStart
  <2>3. NewsOfLink'
    BY <1>1, <2>1 DEF WifiInv, NewsOfLink
  <2>4. OneMoreEvent'
    BY <1>1, <2>1 DEF WifiInv, OneMoreEvent
  <2> QED
    BY <1>1, <2>1, <2>2, <2>3, <2>4 DEF WifiInv
<1>3. CASE startAge # "recent" /\ Status = "connected" /\ pending' = same /\ NothingElse
  <2>1. link = "up" /\ same = "none" /\ ~apMode
    BY <1>3 DEF Status, WifiInv, WifiTypes
  <2>2. events # <<>> \/ newsLost
    BY <2>1 DEF WifiInv, NewsOfLink
  <2>3. /\ pending' = "none"
        /\ UNCHANGED <<apMode, apUp, wasConnected, startAge, lostAge, retryDelay, link, outcome, events>>
    BY <1>3, <2>1 DEF NothingElse, ages, driver
  <2>4. WifiTypes' /\ BeforeStart'
    BY <2>3 DEF WifiInv, WifiTypes, BeforeStart
  <2>5. NewsOfLink' /\ OneMoreEvent'
    BY <2>1, <2>2, <2>3 DEF WifiInv, NewsOfLink, OneMoreEvent
  <2>6. ~wasConnected' /\ retryDelay' \in {5, 10} /\ (~HaveEssid => link' \in {"off", "down"})
    BY <1>1, <2>3 DEF WifiInv
  <2>7. ~apMode'
    BY <2>1, <2>3
  <2> QED
    BY <2>4, <2>5, <2>6, <2>7 DEF WifiInv
<1>4. CASE startAge # "recent" /\ Status = "idle" /\ HaveEssid /\ StartClient(same)
  <2>1. link # "up" /\ outcome = "idle"
    BY <1>4 DEF Status
  <2>2. /\ ~apMode' /\ startAge' = "now" /\ link' = "joining" /\ pending' = same
        /\ UNCHANGED <<outcome, events, wasConnected, lostAge, retryDelay>>
    BY <1>4 DEF StartClient, ModeStaBegin
  <2>3. NewsOfLink'
    BY <1>1, <2>1, <2>2 DEF WifiInv, NewsOfLink
  <2>4. OneMoreEvent'
    BY <1>1, <2>1, <2>2 DEF WifiInv, OneMoreEvent
  <2> QED
    BY <1>1, <1>4, <2>2, <2>3, <2>4 DEF WifiInv, WifiTypes, BeforeStart
<1>5. CASE startAge # "recent" /\ StartAp(same) /\ (Status = "failed" \/ (Status = "idle" /\ ~HaveEssid))
  <2>1. link # "up"
    BY <1>5 DEF Status
  <2>2. Len(events) = MaxEvents + 1 => link # "joining"
    <3>1. CASE Status = "failed"
      BY <2>1, <3>1 DEF WifiInv, OneMoreEvent, Status
    <3>2. CASE ~HaveEssid
      BY <3>2 DEF WifiInv
    <3> QED
      BY <1>5, <3>1, <3>2
  <2> QED
    BY <1>1, <1>5, <2>1, <2>2, StartApKeepsInv
<1> QED
  BY <1>2, <1>3, <1>4, <1>5 DEF TrySetup, StartClient

(* The invariant holds initially.                                          *)
LEMMA InitWifiInv == Init => WifiInv
<1> SUFFICES ASSUME Init PROVE WifiInv
  OBVIOUS
<1>1. events \in Seq({"DISCONNECTED", "GOT_IP"}) /\ Len(events) = 0
  BY DEF Init
<1> QED
  BY <1>1, WifiAssumption DEF Init, WifiInv, WifiTypes, BeforeStart, NewsOfLink, OneMoreEvent,
                              InitialRetryDelay

(* The start of WiFi begins to connect, or starts the AP.                  *)
LEMMA WifiStartKeepsInv ==
  ASSUME WifiInv, Start
  PROVE  WifiInv'
<1>1. ~started /\ started' = TRUE /\ TrySetup(pending) /\ newsLost' = newsLost
  BY DEF Start
<1>2. ~apMode /\ ~wasConnected /\ link # "up"
  BY <1>1 DEF WifiInv, BeforeStart
<1> QED
  BY <1>1, <1>2, TrySetupKeepsInv

(* A link that the program ends itself is reported, if it was up.          *)
LEMMA DisconnectFacts ==
  ASSUME WifiInv, Disconnect
  PROVE  /\ events' \in Seq({"DISCONNECTED", "GOT_IP"}) /\ Len(events) \in Nat
         /\ \/ link \in {"off", "down"} /\ events' = events /\ link' = link /\ outcome' = outcome
            \/ link = "joining" /\ events' = events /\ link' = "down" /\ outcome' = "idle"
            \/ /\ link \in {"up", "joining"} /\ link' = "down" /\ outcome' = "idle"
               /\ events' # <<>> /\ Last(events') = "DISCONNECTED"
               /\ Len(events') = Len(events) + 1
<1>1. Reported
  BY DEF Disconnect
<1>2. WifiTypes
  BY DEF WifiInv
<1> QED
  BY <1>1, <1>2, ReportedFacts DEF Disconnect, WifiTypes

(* What is queued keeps the invariant when the loop runs it.               *)
LEMMA OnConnectKeepsInv ==
  ASSUME WifiInv, pending = "onConnect", OnConnect, UNCHANGED <<started, newsLost>>
  PROVE  WifiInv'
<1>1. /\ startAge' = "zero" /\ lostAge' = "zero" /\ retryDelay' = 5 /\ wasConnected' = TRUE
      /\ pending' = "none" /\ UNCHANGED <<apMode, link, outcome, events, started>>
  BY DEF OnConnect, driver, InitialRetryDelay
<1>2. started
  BY DEF WifiInv, BeforeStart
<1>3. WifiTypes'
  BY <1>1 DEF WifiInv, WifiTypes
<1>4. BeforeStart'
  BY <1>1, <1>2 DEF BeforeStart
<1>5. NewsOfLink' /\ OneMoreEvent'
  BY <1>1 DEF WifiInv, NewsOfLink, OneMoreEvent
<1>6. /\ apMode' => link' = "off"
      /\ ~HaveEssid => link' \in {"off", "down"}
  BY <1>1 DEF WifiInv
<1> QED
  BY <1>1, <1>3, <1>4, <1>5, <1>6 DEF WifiInv

(* onDisconnect() queues a retry, if a client lost its connection.         *)
LEMMA OnDisconnectKeepsInv ==
  ASSUME WifiInv, pending = "onDisconnect", OnDisconnect,
         UNCHANGED <<started, newsLost>>
  PROVE  WifiInv'
<1>1. started /\ started'
  BY DEF WifiInv, BeforeStart
<1>2. /\ wasConnected' = FALSE /\ UNCHANGED <<apMode, startAge>>
  BY DEF OnDisconnect
<1>3. CASE wasConnected
  <2>1. /\ Disconnect /\ pending' \in {"trySetup", "none"}
        /\ lostAge' = "recent" /\ retryDelay' = 10
    BY <1>3 DEF OnDisconnect, RunInOrFull, WifiInv, BackoffMultiplier, MaxRetryDelay
  <2>2. /\ events' \in Seq({"DISCONNECTED", "GOT_IP"}) /\ Len(events) \in Nat
        /\ \/ link \in {"off", "down"} /\ events' = events /\ link' = link /\ outcome' = outcome
           \/ link = "joining" /\ events' = events /\ link' = "down" /\ outcome' = "idle"
           \/ /\ link \in {"up", "joining"} /\ link' = "down" /\ outcome' = "idle"
              /\ events' # <<>> /\ Last(events') = "DISCONNECTED"
              /\ Len(events') = Len(events) + 1
    BY <2>1, DisconnectFacts
  <2>3. link' \in {"off", "down"} /\ outcome' \in {"idle", "failed"}
    BY <2>2 DEF WifiInv, WifiTypes
  <2>4. Len(events) = MaxEvents + 1 => link = "off"
    BY <1>3 DEF WifiInv, OneMoreEvent
  <2>5. Len(events') <= MaxEvents + 1
    BY <2>2, <2>4, WifiAssumption DEF WifiInv, WifiTypes
  <2>6. WifiTypes'
    BY <1>2, <2>1, <2>2, <2>3, <2>5 DEF WifiInv, WifiTypes
  <2>7. events' # <<>> => Last(events') # "GOT_IP"
    BY <2>2 DEF WifiInv, NewsOfLink
  <2>8. NewsOfLink'
    <3>1. link' # "up" /\ pending' # "onConnect" /\ ~wasConnected'
      BY <1>2, <2>1, <2>3
    <3> QED
      BY <2>7, <3>1 DEF NewsOfLink
  <2>9. OneMoreEvent'
    BY <1>2, <2>1, <2>3 DEF OneMoreEvent
  <2>10. apMode' => link' = "off"
    BY <1>2, <2>2 DEF WifiInv
  <2> QED
    BY <1>1, <1>2, <2>1, <2>3, <2>6, <2>8, <2>9, <2>10 DEF WifiInv, BeforeStart
<1>4. CASE ~wasConnected
  <2>1. pending' = "none" /\ UNCHANGED <<link, outcome, events, retryDelay, lostAge>>
    BY <1>4 DEF OnDisconnect, driver
  <2>2. WifiTypes'
    BY <1>2, <2>1 DEF WifiInv, WifiTypes
  <2>3. NewsOfLink'
    BY <1>2, <2>1 DEF WifiInv, NewsOfLink
  <2>4. OneMoreEvent'
    BY <1>2, <2>1 DEF WifiInv, OneMoreEvent
  <2>5. apMode' => link' = "off"
    BY <1>2, <2>1 DEF WifiInv
  <2> QED
    BY <1>1, <1>2, <2>1, <2>2, <2>3, <2>4, <2>5 DEF WifiInv, BeforeStart
<1> QED
  BY <1>3, <1>4

(* What is queued under the id of the manager runs.                        *)
LEMMA RunPendingKeepsInv ==
  ASSUME WifiInv, RunPending
  PROVE  WifiInv'
<1>1. pending # "none" /\ UNCHANGED <<started, newsLost>>
  BY DEF RunPending
<1>2. started /\ started' = started
  BY <1>1 DEF WifiInv, BeforeStart
<1>3. CASE pending = "trySetup" /\ TrySetup("none")
  <2>1. started' = TRUE
    BY <1>2, <1>3 DEF TrySetup
  <2> QED
    BY <1>1, <1>3, <2>1, TrySetupKeepsInv
<1> QED
  BY <1>1, <1>3, OnConnectKeepsInv, OnDisconnectKeepsInv DEF RunPending

(* sanityCheck() finds a client that lost its connection an hour ago, or   *)
(* has nothing to do.                                                      *)
LEMMA SanityCheckKeepsInv ==
  ASSUME WifiInv, SanityCheck
  PROVE  WifiInv'
<1>1. started' = TRUE /\ started' = started /\ newsLost' = newsLost /\ CheckLink
  BY DEF SanityCheck
<1>2. CASE ~apMode /\ link # "up" /\ lostAge = "old" /\ TrySetup(pending)
  <2>1. ~wasConnected
    BY <1>2 DEF WifiInv
  <2> QED
    BY <1>1, <1>2, <2>1, TrySetupKeepsInv
<1>3. CASE UNCHANGED pending /\ NothingElse
  BY <1>1, <1>3, NothingKeepsInv DEF NothingElse, wifiState, ages, driver
<1> QED
  BY <1>1, <1>2, <1>3 DEF CheckLink, Status

(* The handler takes the oldest event; the last one stays the last.        *)
LEMMA OnWifiEventKeepsInv ==
  ASSUME WifiInv, OnWifiEvent
  PROVE  WifiInv'
<1>1. /\ events # <<>> /\ events' = Tail(events)
      /\ \/ /\ newsLost' = FALSE
            /\ pending' = IF Head(events) = "GOT_IP" THEN "onConnect" ELSE "onDisconnect"
         \/ newsLost' = TRUE /\ pending' = pending
      /\ UNCHANGED <<started, apMode, wasConnected, startAge, lostAge, retryDelay, link, outcome>>
  BY DEF OnWifiEvent, News, ages
<1>2. events \in Seq({"DISCONNECTED", "GOT_IP"}) /\ Len(events) \in Nat \ {0}
  BY <1>1, LenProperties, EmptySeq DEF WifiInv, WifiTypes
<1>3. /\ events' \in Seq({"DISCONNECTED", "GOT_IP"}) /\ Len(events') = Len(events) - 1
      /\ \A k \in 1 .. Len(events) - 1 : events'[k] = events[k + 1]
  BY <1>1, <1>2, HeadTailProperties
<1>4. IF events' = <<>> THEN Head(events) = Last(events) ELSE Last(events') = Last(events)
  <2>1. CASE events' = <<>>
    <3>1. Len(events) = 1
      BY <1>2, <1>3, <2>1
    <3> QED
      BY <1>2, <2>1, <3>1, HeadTailProperties DEF Last
  <2>2. CASE events' # <<>>
    <3>1. Len(events') \in Nat \ {0}
      BY <1>3, <2>2, LenProperties, EmptySeq
    <3>2. Len(events) - 1 \in 1 .. Len(events) - 1 /\ (Len(events) - 1) + 1 = Len(events)
      BY <1>2, <1>3, <3>1
    <3>3. events'[Len(events) - 1] = events[Len(events)]
      BY <1>3, <3>2
    <3> QED
      BY <1>3, <2>2, <3>3 DEF Last
  <2> QED
    BY <2>1, <2>2
<1>5. Last(events) = "GOT_IP" <=> link = "up"
  BY <1>1 DEF WifiInv, NewsOfLink
<1>6. /\ newsLost' \/ pending' \in {"onConnect", "onDisconnect"}
      /\ pending' \in {"onConnect", "onDisconnect", pending} /\ started
  BY <1>1 DEF WifiInv, BeforeStart
<1>7. NewsOfLink'
  <2>1. CASE events' = <<>>
    <3>1. newsLost' \/ (pending' = "onConnect" <=> link = "up")
      BY <1>1, <1>4, <1>5, <2>1
    <3> QED
      BY <1>1, <1>6, <2>1, <3>1 DEF NewsOfLink
  <2>2. CASE events' # <<>>
    BY <1>1, <1>4, <1>5, <2>2 DEF NewsOfLink
  <2> QED
    BY <2>1, <2>2
<1>8. Len(events') <= MaxEvents
  BY <1>2, <1>3, WifiAssumption DEF WifiInv, WifiTypes
<1>9. OneMoreEvent' /\ WifiTypes'
  <2>1. Len(events') \in Nat /\ MaxEvents \in Nat
    BY <1>3, LenProperties, WifiAssumption
  <2>2. Len(events') <= MaxEvents + 1 /\ Len(events') # MaxEvents + 1
    BY <1>8, <2>1
  <2> QED
    BY <1>1, <1>3, <1>6, <2>2 DEF WifiInv, WifiTypes, OneMoreEvent
<1>10. /\ apMode' => link' = "off"
       /\ lostAge' # "zero" => ~wasConnected'
       /\ retryDelay' \in {5, 10} /\ (wasConnected' => retryDelay' = 5)
  BY <1>1 DEF WifiInv
<1>11. BeforeStart'
  BY <1>1, <1>6 DEF BeforeStart
<1> QED
  BY <1>1, <1>6, <1>7, <1>9, <1>10, <1>11 DEF WifiInv

(* Ages change no decision that the invariant is about.                    *)
LEMMA TimeKeepsInv ==
  ASSUME WifiInv, HalfMinute \/ Hour
  PROVE  WifiInv'
<1>1. /\ UNCHANGED <<started, apMode, wasConnected, retryDelay, pending, newsLost>>
      /\ UNCHANGED <<link, outcome, events>>
      /\ startAge # "zero" \/ lostAge # "zero"
  BY DEF HalfMinute, Hour, entries, driver, Later
<1>2. startAge' \in {"zero", "now", "recent", "old"} /\ lostAge' \in {"zero", "recent", "old"}
      /\ (lostAge' # "zero" => lostAge # "zero")
  BY DEF HalfMinute, Hour, Later, WifiInv, WifiTypes
<1>3. started
  BY <1>1 DEF WifiInv, BeforeStart
<1>4. WifiTypes'
  BY <1>1, <1>2 DEF WifiInv, WifiTypes
<1>5. NewsOfLink'
  BY <1>1 DEF WifiInv, NewsOfLink
<1>6. OneMoreEvent'
  BY <1>1 DEF WifiInv, OneMoreEvent
<1> QED
  BY <1>1, <1>2, <1>3, <1>4, <1>5, <1>6 DEF WifiInv, BeforeStart

(* The driver reports what becomes of a link.                              *)
LEMMA EnvKeepsInv ==
  ASSUME WifiInv, JoinSucceeds \/ JoinFails \/ LinkLost
  PROVE  WifiInv'
<1>1. PICK l \in {"up", "down", "joining"}, o \in {"idle", "failed"}, e \in {"DISCONNECTED", "GOT_IP"} :
        Env(l, o, e) /\ (e = "GOT_IP" <=> l = "up") /\ link \in {"joining", "up"}
  BY DEF JoinSucceeds, JoinFails, LinkLost, Given, WifiInv, WifiTypes
<1>2. /\ Len(events) < MaxEvents /\ events' = Append(events, e) /\ link' = l /\ outcome' = o
      /\ UNCHANGED <<started, apMode, wasConnected, startAge, lostAge, retryDelay, pending, newsLost>>
  BY <1>1 DEF Env, ages, entries
<1>3. /\ events' \in Seq({"DISCONNECTED", "GOT_IP"}) /\ events' # <<>> /\ Last(events') = e
      /\ Len(events) \in Nat /\ Len(events') = Len(events) + 1
  BY <1>2, EventAdded DEF WifiInv
<1>4. Len(events') <= MaxEvents
  BY <1>2, <1>3, WifiAssumption
<1>5. WifiTypes' /\ OneMoreEvent'
  BY <1>2, <1>3, <1>4, WifiAssumption DEF WifiInv, WifiTypes, OneMoreEvent
<1>6. NewsOfLink'
  BY <1>1, <1>2, <1>3 DEF NewsOfLink
<1>7. started /\ ~apMode /\ HaveEssid
  BY <1>1 DEF WifiInv, BeforeStart
<1> QED
  BY <1>2, <1>5, <1>6, <1>7 DEF WifiInv, BeforeStart

(* Every step of WifiManager and of its driver keeps the invariant.        *)
LEMMA StepWifiInv ==
  ASSUME WifiInv, [Next]_vars
  PROVE  WifiInv'
<1>1. CASE UNCHANGED vars
  BY <1>1, NothingKeepsInv DEF vars, entries, wifiState, ages, driver
<1> QED
  BY <1>1, WifiStartKeepsInv, RunPendingKeepsInv, SanityCheckKeepsInv, OnWifiEventKeepsInv,
     TimeKeepsInv, EnvKeepsInv DEF Next

(* The flags stay what they are.                                           *)
LEMMA StepFlags ==
  ASSUME Flags, [Next]_vars
  PROVE  Flags'
<1>1. started' \in BOOLEAN
  BY DEF Flags, Next, vars, Start, RunPending, SanityCheck, OnWifiEvent, HalfMinute, Hour,
         JoinSucceeds, JoinFails, LinkLost, Env
<1>2. apMode' \in BOOLEAN /\ apUp' \in BOOLEAN
  BY DEF Flags, Next, vars, Start, RunPending, SanityCheck, CheckLink, OnWifiEvent, HalfMinute, Hour,
         JoinSucceeds, JoinFails, LinkLost, Env, TrySetup, StartClient, StartAp, NothingElse,
         OnConnect, OnDisconnect
<1>3. wasConnected' \in BOOLEAN
  BY DEF Flags, Next, vars, Start, RunPending, SanityCheck, CheckLink, OnWifiEvent, HalfMinute, Hour,
         JoinSucceeds, JoinFails, LinkLost, Env, TrySetup, StartClient, StartAp, NothingElse,
         OnConnect, OnDisconnect
<1>4. sanityQueued' \in BOOLEAN /\ newsLost' \in BOOLEAN /\ checkLost' \in BOOLEAN
  BY DEF Flags, Next, vars, entries, Start, RunPending, SanityCheck, Reschedule, OnWifiEvent,
         HalfMinute, Hour, JoinSucceeds, JoinFails, LinkLost, Env
<1> QED
  BY <1>1, <1>2, <1>3, <1>4 DEF Flags

(* The invariant has the bounds of the type invariant and the agreement of *)
(* view and link.                                                          *)
LEMMA InvGivesTypeInv == WifiInv /\ Flags => TypeInv /\ ViewMatchesLink
<1>1. WifiInv /\ Flags => TypeInv
  BY DEF WifiInv, WifiTypes, Flags, TypeInv, InitialRetryDelay, BackoffMultiplier
<1>2. WifiInv => ViewMatchesLink
  BY DEF WifiInv, NewsOfLink, ViewMatchesLink
<1> QED
  BY <1>1, <1>2

-----------------------------------------------------------------------------
(* Mdns on the callbacks of WifiManager.                                   *)
WifiMdnsInv ==
  /\ WifiInv /\ Flags
  /\ mdnsRetries \in 0 .. MdnsRoom /\ MdnsKeepsTrying

MdnsFlags == {mdnsOk, mdnsConnected, mdnsRefused} \subseteq BOOLEAN

(* connect() leaves a retry, unless the responder started or the queue was *)
(* full.                                                                   *)
LEMMA MdnsConnectRetries ==
  ASSUME NEW queued \in 0 .. MdnsRoom, MdnsConnect(queued)
  PROVE  mdnsRetries' \in 0 .. MdnsRoom /\ MdnsKeepsTrying'
<1>1. MdnsRoom \in Nat
  BY MdnsAssumption
<1> QED
  BY <1>1 DEF MdnsConnect, MdnsKeepsTrying

(* Steps of WifiManager and of Mdns keep the invariant of both.            *)
LEMMA StepWifiMdnsInv == WifiMdnsInv /\ [WifiMdnsNext]_wifiMdnsVars => WifiMdnsInv'
<1> SUFFICES ASSUME WifiMdnsInv, [WifiMdnsNext]_wifiMdnsVars PROVE WifiMdnsInv'
  OBVIOUS
<1>1. [Next]_vars
  BY DEF WifiMdnsNext, wifiMdnsVars, MdnsToldConnected, MdnsToldDisconnected, RunMdnsRetry, Next
<1>2. WifiInv' /\ Flags'
  BY <1>1, StepWifiInv, StepFlags DEF WifiMdnsInv
<1> SUFFICES mdnsRetries' \in 0 .. MdnsRoom /\ MdnsKeepsTrying'
  BY <1>2 DEF WifiMdnsInv
<1>3. CASE MdnsToldConnected
  BY <1>3, MdnsConnectRetries DEF MdnsToldConnected, WifiMdnsInv
<1>4. CASE RunMdnsRetry
  <2>1. mdnsRetries - 1 \in 0 .. MdnsRoom
    BY <1>4, MdnsAssumption DEF WifiMdnsInv, RunMdnsRetry
  <2> QED
    BY <1>4, <2>1, MdnsConnectRetries DEF RunMdnsRetry
<1>5. CASE MdnsToldDisconnected
  BY <1>5 DEF MdnsToldDisconnected, WifiMdnsInv, MdnsKeepsTrying
<1>6. CASE UNCHANGED mdnsVars
  BY <1>6 DEF mdnsVars, WifiMdnsInv, MdnsKeepsTrying
<1>7. MdnsToldConnected \/ RunMdnsRetry \/ MdnsToldDisconnected \/ UNCHANGED mdnsVars
  BY DEF WifiMdnsNext, wifiMdnsVars, MdnsUntold
<1> QED
  BY <1>3, <1>4, <1>5, <1>6, <1>7

(* The flags of Mdns stay what they are.                                   *)
LEMMA StepMdnsFlags == MdnsFlags /\ [WifiMdnsNext]_wifiMdnsVars => MdnsFlags'
  BY DEF MdnsFlags, WifiMdnsNext, wifiMdnsVars, mdnsVars, MdnsUntold, MdnsToldConnected,
         MdnsToldDisconnected, RunMdnsRetry, MdnsConnect

(* The invariant holds in every reachable state.                           *)
LEMMA AlwaysWifiMdnsInv == WifiMdnsSpec => [](WifiMdnsInv /\ MdnsFlags)
<1>1. WifiMdnsInit => WifiMdnsInv /\ MdnsFlags
  <2> SUFFICES ASSUME WifiMdnsInit PROVE WifiMdnsInv /\ MdnsFlags
    OBVIOUS
  <2>1. WifiInv /\ Flags
    BY InitWifiInv DEF WifiMdnsInit, Init, Flags
  <2>2. mdnsRetries \in 0 .. MdnsRoom /\ MdnsKeepsTrying
    BY MdnsAssumption DEF WifiMdnsInit, MdnsInit, MdnsKeepsTrying
  <2>3. MdnsFlags
    BY DEF WifiMdnsInit, MdnsInit, MdnsFlags
  <2> QED
    BY <2>1, <2>2, <2>3 DEF WifiMdnsInv
<1> QED
  BY <1>1, StepWifiMdnsInv, StepMdnsFlags, PTL DEF WifiMdnsSpec

(* WifiManager and Mdns keep their state within its types: in particular   *)
(* the retry delay never gets past its first doubling, and the driver is   *)
(* never more than one event further ahead than its own steps take it.     *)
THEOREM WifiTypeCorrect == WifiMdnsSpec => []WifiMdnsTypeInv
<1>1. WifiMdnsInv /\ MdnsFlags => WifiMdnsTypeInv
  BY InvGivesTypeInv DEF WifiMdnsInv, MdnsFlags, WifiMdnsTypeInv
<1> QED
  BY <1>1, AlwaysWifiMdnsInv, PTL

(* Once every event is handled, m_was_connected is what the link is,       *)
(* however many events the driver was ahead and whichever entries the task *)
(* queue refused, if the last event was not one of them.                   *)
THEOREM ViewIsTrue == WifiMdnsSpec => []ViewMatchesLink
<1>1. WifiMdnsInv => ViewMatchesLink
  BY InvGivesTypeInv DEF WifiMdnsInv
<1> QED
  BY <1>1, AlwaysWifiMdnsInv, PTL

(* A retry is queued for as long as a connected Mdns has not started.      *)
THEOREM MdnsRetryQueued == WifiMdnsSpec => []MdnsKeepsTrying
<1>1. WifiMdnsInv => MdnsKeepsTrying
  BY DEF WifiMdnsInv
<1> QED
  BY <1>1, AlwaysWifiMdnsInv, PTL

-----------------------------------------------------------------------------
(* MqttManager and HADiscovery on the callbacks of WifiManager.            *)
TimersFit ==
  /\ DOMAIN timers = Kinds /\ timers = [k \in Kinds |-> timers[k]]
  /\ timers["reconnect"] \in 0 .. 1 /\ timers["discovery"] \in Nat /\ Queued <= Room

NetInv ==
  /\ WifiInv /\ Flags
  /\ TimersFit /\ next \in 0 .. Entries /\ DiscoveryGoesOn

BrokerTypes ==
  /\ {mqttEnabled, refused, birth, begun} \subseteq BOOLEAN
  /\ client \in {"off", "connecting", "up"}
  /\ session \in {"none", "live", "dead"}
  /\ retained \in {"none", "online", "offline"}

CountsFit == listeners \in [Commands -> 0 .. MaxListeners]

(* What an entry that is queued, replaced or refused does to the counts.   *)
LEMMA RunInFits ==
  ASSUME TimersFit, NEW kind \in Kinds, RunIn(kind)
  PROVE  /\ TimersFit'
         /\ timers'["discovery"] >= timers["discovery"]
         /\ kind = "discovery" => timers'["discovery"] > 0 \/ refused'
<1>1. Room \in Nat /\ Kinds = {"reconnect", "discovery"} /\ WithId = {"reconnect"}
  BY MqttAssumption DEF Kinds, WithId
<1>2. CASE Queued = Room
  BY <1>1, <1>2 DEF RunIn, TimersFit, Queued
<1>3. CASE Queued # Room
  <2>1. timers' = [timers EXCEPT ![kind] = IF kind \in WithId THEN 1 ELSE @ + 1]
    BY <1>3 DEF RunIn
  <2>2. DOMAIN timers' = Kinds /\ timers' = [k \in Kinds |-> timers'[k]]
    BY <2>1 DEF TimersFit
  <2>3. CASE kind = "reconnect"
    <3>1. timers'["reconnect"] = 1 /\ timers'["discovery"] = timers["discovery"]
      BY <1>1, <2>1, <2>3 DEF TimersFit
    <3> QED
      BY <1>1, <1>3, <2>2, <2>3, <3>1 DEF TimersFit, Queued
  <2>4. CASE kind = "discovery"
    <3>1. timers'["discovery"] = timers["discovery"] + 1 /\ timers'["reconnect"] = timers["reconnect"]
      BY <1>1, <2>1, <2>4 DEF TimersFit
    <3> QED
      BY <1>1, <1>3, <2>2, <2>4, <3>1 DEF TimersFit, Queued
  <2> QED
    BY <1>1, <2>3, <2>4
<1> QED
  BY <1>2, <1>3

(* An entry that runs leaves the queue.                                    *)
LEMMA RanFits ==
  ASSUME TimersFit, NEW kind \in Kinds, timers[kind] > 0, timers' = Ran(kind)
  PROVE  TimersFit' /\ (kind = "reconnect" => timers'["discovery"] = timers["discovery"])
<1>1. Room \in Nat /\ Kinds = {"reconnect", "discovery"}
  BY MqttAssumption DEF Kinds
<1>2. DOMAIN timers' = Kinds /\ timers' = [k \in Kinds |-> timers'[k]]
  BY DEF Ran, TimersFit
<1>3. CASE kind = "reconnect"
  <2>1. timers'["reconnect"] = timers["reconnect"] - 1 /\ timers'["discovery"] = timers["discovery"]
    BY <1>1, <1>3 DEF Ran, TimersFit
  <2> QED
    BY <1>1, <1>2, <1>3, <2>1 DEF TimersFit, Queued
<1>4. CASE kind = "discovery"
  <2>1. timers'["discovery"] = timers["discovery"] - 1 /\ timers'["reconnect"] = timers["reconnect"]
    BY <1>1, <1>4 DEF Ran, TimersFit
  <2> QED
    BY <1>1, <1>2, <1>4, <2>1 DEF TimersFit, Queued
<1> QED
  BY <1>1, <1>3, <1>4

(* What the handler of a lost connection does to the counts.               *)
LEMMA OnMqttDisconnectFits ==
  ASSUME TimersFit, next \in 0 .. Entries, DiscoveryGoesOn, OnMqttDisconnect, UNCHANGED <<next, begun>>
  PROVE  TimersFit' /\ DiscoveryGoesOn'
<1>1. CASE RunIn("reconnect")
  <2>1. TimersFit' /\ timers'["discovery"] >= timers["discovery"]
    BY <1>1, RunInFits DEF Kinds
  <2>2. refused => refused'
    BY <1>1 DEF RunIn
  <2>3. timers["discovery"] \in Nat /\ timers'["discovery"] \in Nat
    BY <2>1 DEF TimersFit
  <2> QED
    BY <2>1, <2>2, <2>3 DEF DiscoveryGoesOn
<1>2. CASE UNCHANGED tasksVars
  BY <1>2 DEF tasksVars, TimersFit, DiscoveryGoesOn, Queued
<1> QED
  BY <1>1, <1>2 DEF OnMqttDisconnect

(* A run of the discovery callbacks ends with all entries sent, or asks    *)
(* for another.                                                            *)
LEMMA OutcomesGoOn ==
  ASSUME next \in 0 .. Entries, NEW up, NEW o \in Outcomes(up)
  PROVE  o.next \in 0 .. Entries /\ (o.again \/ o.next = Entries)
<1>1. Entries \in Nat /\ MaxSends \in Nat \ {0}
  BY DiscoveryAssumption
<1> DEFINE end == Smaller(next + MaxSends, Entries)
<1>2. end \in next .. Entries /\ (end < Entries \/ end = Entries)
  BY <1>1 DEF Smaller
<1>3. CASE o = [next |-> end, tried |-> next .. end - 1, again |-> end < Entries]
  <2>1. o.next = end
    BY <1>3
  <2>2. o.again = (end < Entries)
    BY <1>3, Zenon
  <2>3. end < Entries => o.again
    BY <2>2, Zenon
  <2>4. o.next \in 0 .. Entries
    BY <1>1, <1>2, <2>1
  <2> QED
    BY <1>2, <2>1, <2>3, <2>4, Zenon
<1>4. CASE \E e \in next .. end - 1 : o = [next |-> e, tried |-> next .. e, again |-> TRUE]
  BY <1>1, <1>2, <1>4
<1>5. CASE \E e \in {next} : o = [next |-> e, tried |-> next .. e, again |-> TRUE]
  BY <1>1, <1>5
<1>6. \/ o = [next |-> end, tried |-> next .. end - 1, again |-> end < Entries]
      \/ \E e \in IF up THEN next .. end - 1 ELSE {next} \ {Entries} :
           o = [next |-> e, tried |-> next .. e, again |-> TRUE]
  BY Zenon DEF Outcomes
<1>7. CASE \E e \in IF up THEN next .. end - 1 ELSE {next} \ {Entries} :
             o = [next |-> e, tried |-> next .. e, again |-> TRUE]
  <2>1. PICK e \in IF up THEN next .. end - 1 ELSE {next} \ {Entries} :
          o = [next |-> e, tried |-> next .. e, again |-> TRUE]
    BY <1>7
  <2>2. e \in next .. end - 1 \/ e \in {next}
    BY <2>1
  <2> QED
    BY <1>4, <1>5, <2>1, <2>2
<1> QED
  BY <1>3, <1>6, <1>7

(* Steps of WifiManager, MqttManager and HADiscovery keep the invariant of *)
(* all three.                                                              *)
LEMMA StepNetInv == NetInv /\ [NetNext]_netVars => NetInv'
<1> SUFFICES ASSUME NetInv, [NetNext]_netVars PROVE NetInv'
  OBVIOUS
<1>1. [Next]_vars
  BY DEF NetNext, netVars, Quiet, Mqtt, WifiConnected, WifiDisconnected, Next
<1>2. WifiInv' /\ Flags'
  BY <1>1, StepWifiInv, StepFlags DEF NetInv
<1> SUFFICES TimersFit' /\ next' \in 0 .. Entries /\ DiscoveryGoesOn'
  BY <1>2 DEF NetInv
<1>3. CASE UNCHANGED <<timers, refused, next, begun>>
  <2>1. TimersFit' /\ next' \in 0 .. Entries
    BY <1>3 DEF NetInv, TimersFit, Queued
  <2>2. DiscoveryGoesOn'
    BY <1>3 DEF NetInv, DiscoveryGoesOn
  <2> QED
    BY <2>1, <2>2
<1>4. CASE OnMqttDisconnect /\ UNCHANGED <<next, begun>>
  BY <1>4, OnMqttDisconnectFits DEF NetInv
<1>5. CASE RunReconnect /\ UNCHANGED <<next, begun>>
  <2>1. TimersFit' /\ timers'["discovery"] = timers["discovery"] /\ refused' = refused
    BY <1>5, RanFits DEF NetInv, RunReconnect, Kinds
  <2> QED
    BY <1>5, <2>1 DEF NetInv, DiscoveryGoesOn
<1>6. CASE DiscoverOnConnect
  <2>1. PICK o \in Outcomes(TRUE) : Takes(o) /\ TryAgain(o)
    BY <1>6 DEF DiscoverOnConnect
  <2>2. next' \in 0 .. Entries /\ (o.again \/ next' = Entries)
    BY <2>1, OutcomesGoOn DEF Takes, NetInv
  <2>3. CASE o.again
    <3>1. TimersFit' /\ (timers'["discovery"] > 0 \/ refused')
      BY <2>1, <2>3, RunInFits DEF TryAgain, NetInv, Kinds
    <3> QED
      BY <2>2, <3>1 DEF DiscoveryGoesOn
  <2>4. CASE ~o.again
    <3>1. TimersFit'
      BY <2>1, <2>4 DEF TryAgain, tasksVars, NetInv, TimersFit, Queued
    <3>2. next' = Entries /\ ~(next' < Entries)
      BY <2>2, <2>4, DiscoveryAssumption
    <3> QED
      BY <2>2, <3>1, <3>2 DEF DiscoveryGoesOn
  <2> QED
    BY <2>3, <2>4
<1>7. CASE RunDiscovery
  <2>1. PICK o \in Outcomes(client = "up") :
          Takes(o) /\ timers' = IF o.again THEN timers ELSE Ran("discovery")
    BY <1>7 DEF RunDiscovery
  <2>2. next' \in 0 .. Entries /\ (o.again \/ next' = Entries)
    BY <2>1, OutcomesGoOn DEF Takes, NetInv
  <2>3. timers["discovery"] > 0
    BY <1>7 DEF RunDiscovery
  <2>4. CASE o.again
    <3>1. timers' = timers
      BY <2>1, <2>4
    <3>2. TimersFit'
      BY <3>1 DEF NetInv, TimersFit, Queued
    <3> QED
      BY <2>2, <2>3, <3>1, <3>2 DEF DiscoveryGoesOn
  <2>5. CASE ~o.again
    <3>1. TimersFit'
      BY <2>1, <2>3, <2>5, RanFits DEF NetInv, Kinds
    <3>2. next' = Entries /\ ~(next' < Entries)
      BY <2>2, <2>5, DiscoveryAssumption
    <3> QED
      BY <2>2, <3>1, <3>2 DEF DiscoveryGoesOn
  <2> QED
    BY <2>4, <2>5
<1>8. \/ UNCHANGED <<timers, refused, next, begun>>
      \/ OnMqttDisconnect /\ UNCHANGED <<next, begun>>
      \/ RunReconnect /\ UNCHANGED <<next, begun>>
      \/ DiscoverOnConnect \/ RunDiscovery
  BY DEF NetNext, netVars, Quiet, Mqtt, WifiConnected, WifiDisconnected, MqttDisconnect, SetMqttEnabled,
         ConnectFails, ClientNotices, BirthArrives, BrokerDrops, BrokerTimesOut, tasksVars, discoveryVars
<1> QED
  BY <1>3, <1>4, <1>5, <1>6, <1>7, <1>8

(* What the broker, the client and the counted callbacks may be.           *)
LEMMA StepBrokerTypes == BrokerTypes /\ [NetNext]_netVars => BrokerTypes'
<1> SUFFICES ASSUME BrokerTypes, [NetNext]_netVars PROVE BrokerTypes'
  OBVIOUS
<1>1. client' \in {"off", "connecting", "up"}
  BY DEF BrokerTypes, NetNext, netVars, mqttVars, Quiet, Mqtt, WifiConnected, WifiDisconnected,
         Connect, MqttDisconnect, OnMqttDisconnect, RunReconnect, SetMqttEnabled, ConnectFails,
         ClientNotices, BirthArrives, BrokerDrops, BrokerTimesOut, DiscoverOnConnect, OnMqttConnect,
         Accepted, RunDiscovery
<1>2. session' \in {"none", "live", "dead"} /\ retained' \in {"none", "online", "offline"}
  BY DEF BrokerTypes, NetNext, netVars, mqttVars, broker, Quiet, Mqtt, WifiConnected, WifiDisconnected,
         Connect, MqttDisconnect, OnMqttDisconnect, RunReconnect, SetMqttEnabled, ConnectFails,
         ClientNotices, BirthArrives, BrokerDrops, BrokerTimesOut, DiscoverOnConnect, OnMqttConnect,
         Accepted, RunDiscovery, LinkEffect
<1>3. mqttEnabled' \in BOOLEAN /\ birth' \in BOOLEAN
  BY DEF BrokerTypes, NetNext, netVars, mqttVars, broker, Quiet, Mqtt, WifiConnected, WifiDisconnected,
         Connect, MqttDisconnect, OnMqttDisconnect, RunReconnect, SetMqttEnabled, ConnectFails,
         ClientNotices, BirthArrives, BrokerDrops, BrokerTimesOut, DiscoverOnConnect, OnMqttConnect,
         RunDiscovery, LinkEffect
<1>4. refused' \in BOOLEAN /\ begun' \in BOOLEAN
  BY DEF BrokerTypes, NetNext, netVars, tasksVars, discoveryVars, Quiet, Mqtt, WifiConnected,
         WifiDisconnected, MqttDisconnect, OnMqttDisconnect, RunIn, RunReconnect, SetMqttEnabled,
         ConnectFails, ClientNotices, BirthArrives, BrokerDrops, BrokerTimesOut, DiscoverOnConnect,
         RunDiscovery, Takes, TryAgain
<1> QED
  BY <1>1, <1>2, <1>3, <1>4 DEF BrokerTypes

(* The counted callbacks stay within their bound.                          *)
LEMMA StepCountsFit == CountsFit /\ [NetNext]_netVars => CountsFit'
<1> SUFFICES ASSUME CountsFit, [NetNext]_netVars PROVE CountsFit'
  OBVIOUS
<1>1. listeners' = listeners \/ \E tried : listeners' = Subscribed(tried)
  BY DEF NetNext, netVars, discoveryVars, Quiet, Mqtt, WifiConnected, WifiDisconnected,
         DiscoverOnConnect, RunDiscovery, Takes
<1>2. ASSUME NEW tried PROVE Subscribed(tried) \in [Commands -> 0 .. MaxListeners]
  BY DiscoveryAssumption DEF Subscribed, CountsFit
<1> QED
  BY <1>1, <1>2 DEF CountsFit

(* The invariant and the types hold in every reachable state.              *)
LEMMA AlwaysNetInv == NetSpec => [](NetInv /\ BrokerTypes /\ CountsFit)
<1>1. NetInit => NetInv /\ BrokerTypes /\ CountsFit
  <2> SUFFICES ASSUME NetInit PROVE NetInv /\ BrokerTypes /\ CountsFit
    OBVIOUS
  <2>1. WifiInv /\ Flags
    BY InitWifiInv DEF NetInit, Init, Flags
  <2>2. TimersFit
    BY MqttAssumption DEF NetInit, MqttInit, TimersFit, Kinds, Queued
  <2>3. next \in 0 .. Entries /\ DiscoveryGoesOn
    BY DiscoveryAssumption DEF NetInit, DiscoveryInit, DiscoveryGoesOn
  <2>4. BrokerTypes
    BY DEF NetInit, MqttInit, DiscoveryInit, BrokerTypes
  <2>5. CountsFit
    BY DiscoveryAssumption DEF NetInit, DiscoveryInit, CountsFit
  <2> QED
    BY <2>1, <2>2, <2>3, <2>4, <2>5 DEF NetInv
<1> QED
  BY <1>1, StepNetInv, StepBrokerTypes, StepCountsFit, PTL DEF NetSpec

(* The modules of the network side keep their state within its types: one  *)
(* queued reconnection at most, and never more entries than there is room. *)
THEOREM NetTypeCorrect == NetSpec => []NetTypeInv
<1>1. NetInv /\ BrokerTypes /\ CountsFit => NetTypeInv
  <2> SUFFICES ASSUME NetInv, BrokerTypes, CountsFit PROVE NetTypeInv
    OBVIOUS
  <2>1. TypeInv
    BY InvGivesTypeInv DEF NetInv
  <2>2. timers \in [Kinds -> 0 .. Room] /\ timers["reconnect"] <= 1
    <3>1. timers["reconnect"] \in 0 .. Room /\ timers["discovery"] \in 0 .. Room
      BY MqttAssumption DEF NetInv, TimersFit, Queued
    <3> QED
      BY <3>1 DEF NetInv, TimersFit, Kinds
  <2>3. MqttTypeInv
    BY <2>2 DEF BrokerTypes, CountsFit, MqttTypeInv
  <2>4. DiscoveryTypeInv
    BY DEF NetInv, BrokerTypes, CountsFit, DiscoveryTypeInv
  <2> QED
    BY <2>1, <2>3, <2>4 DEF NetTypeInv
<1> QED
  BY <1>1, AlwaysNetInv, PTL

(* Once discovery began, another run is queued until all is published, or  *)
(* a full task queue refused one.                                          *)
THEOREM DiscoveryRunQueued == NetSpec => []DiscoveryGoesOn
<1>1. NetInv => DiscoveryGoesOn
  BY DEF NetInv
<1> QED
  BY <1>1, AlwaysNetInv, PTL
-----------------------------------------------------------------------------
(* TextBuffer.  What split() knows of the line that it is in: the start,   *)
(* the last space behind it, and that every other place it has looked at   *)
(* is neither the end of the line nor a later space.  A line that is too   *)
(* long already when its first space comes is broken there.                *)
Splitting ==
  /\ cursor = [lineLen |-> cursor.lineLen, i |-> cursor.i, start |-> cursor.start,
               last |-> cursor.last]
  /\ cursor.lineLen \in Nat /\ cursor.lineLen >= 4
  /\ cursor.i \in Nat /\ cursor.start \in Nat /\ cursor.last \in Nat
  /\ cursor.start < cursor.i /\ cursor.i <= Len(text)
  /\ cursor.last > 0 => /\ cursor.start < cursor.last /\ cursor.last < cursor.i
                        /\ text[cursor.last + 1] = Space
                        /\ \/ cursor.last - cursor.start <= cursor.lineLen
                           \/ \A k \in cursor.start + 2 .. cursor.last : text[k] # Space
  /\ \A k \in cursor.start + 2 .. cursor.i :
       text[k] # Newline /\ (text[k] = Space => k <= cursor.last + 1)
  /\ text[Len(text)] = "a"

TextInv == text \in Seq(Chars) /\ (cursor = NoCursor \/ Splitting)

(* A set of numbers from n on that is not empty has a least one.           *)
LEMMA LeastExists ==
  ASSUME NEW T, T \subseteq Nat, T # {}
  PROVE  \E x \in T : \A y \in T : x <= y
<1>1. PICK x \in T : \A y \in T : ~(<<y, x>> \in OpToRel(<, Nat))
  BY NatLessThanWellFounded, WFMin
<1>2. ASSUME NEW y \in T
      PROVE  x <= y
  <2>1. ~(<<y, x>> \in OpToRel(<, Nat)) /\ x \in Nat /\ y \in Nat
    BY <1>1
  <2> QED
    BY <2>1 DEF OpToRel
<1> QED
  BY <1>2

(* A line fits if it does up to a place where it must end, wherever it     *)
(* ends before.                                                            *)
LEMMA FitsUpToEnd ==
  ASSUME NEW s \in Seq(Chars), NEW start \in Nat, NEW lineLen \in Nat,
         NEW e \in start + 1 .. Len(s) + 1, e = Len(s) + 1 \/ s[e] = Newline,
         \/ e - 1 - start <= lineLen
         \/ \A k \in start + 2 .. e - 1 : s[k] # Space
  PROVE  LineFits(s, start, lineLen)
<1>1. Len(s) \in Nat
  BY LenProperties
<1> DEFINE ends == { f \in start + 1 .. Len(s) : s[f] = Newline } \cup {Len(s) + 1}
           end == CHOOSE x \in ends : \A f \in ends : x <= f
<1>2. ends \subseteq Nat /\ ends # {} /\ e \in ends
  <2>1. e \in start + 1 .. Len(s) \/ e = Len(s) + 1
    BY <1>1
  <2> QED
    BY <1>1, <2>1
<1>3. end \in ends /\ end <= e
  <2> HIDE DEF ends
  <2>1. \E x \in ends : \A f \in ends : x <= f
    BY <1>2, LeastExists
  <2> QED
    BY <1>2, <2>1
<1>4. end \in Nat
  BY <1>2, <1>3
<1> HIDE DEF ends, end
<1>5. end - 1 - start <= lineLen \/ \A k \in start + 2 .. end - 1 : s[k] # Space
  BY <1>1, <1>3, <1>4
<1> QED
  BY <1>5 DEF LineFits, end, ends

(* The next character is none that the line ends with, or the line is at   *)
(* its end: its part up to i fits.                                         *)
LEMMA NotTooLongFits ==
  ASSUME Splitting, ~(TooLong /\ cursor.last > 0)
  PROVE  \/ cursor.i - cursor.start <= cursor.lineLen
         \/ \A k \in cursor.start + 2 .. cursor.i : text[k] # Space
<1>1. CASE TooLong
  <2>1. cursor.last = 0
    BY <1>1 DEF Splitting
  <2>2. \A k \in cursor.start + 2 .. cursor.i : k \in Nat /\ k > cursor.last + 1
    BY <2>1 DEF Splitting
  <2> QED
    BY <2>1, <2>2 DEF Splitting
<1>2. CASE ~TooLong
  BY <1>2 DEF Splitting, TooLong
<1> QED
  BY <1>1, <1>2

(* A text that is cut to fit is a text.                                    *)
LEMMA AtMostIsText ==
  ASSUME NEW s \in Seq(Chars), NEW n \in Nat
  PROVE  AtMost(s, n) \in Seq(Chars)
<1>1. Len(s) > n => SubSeq(s, 1, n) \in Seq(Chars)
  BY LenProperties, SubSeqProperties
<1> QED
  BY <1>1 DEF AtMost

(* A new line: nothing behind its first character has been looked at.      *)
LEMMA NewLineSplits ==
  ASSUME Splitting, text' \in Seq(Chars), Len(text') = Len(text), text'[Len(text')] = "a",
         NEW at \in Nat, at + 1 <= Len(text), cursor' = NewLine(at)
  PROVE  Splitting'
<1>1. /\ cursor'.lineLen = cursor.lineLen /\ cursor'.i = at + 1 /\ cursor'.start = at
      /\ cursor'.last = 0
      /\ cursor' = [lineLen |-> cursor'.lineLen, i |-> cursor'.i, start |-> cursor'.start,
                    last |-> cursor'.last]
  BY DEF NewLine, Splitting
<1>2. cursor'.start + 2 .. cursor'.i = {}
  BY <1>1
<1>3. /\ cursor'.lineLen \in Nat /\ cursor'.lineLen >= 4
      /\ cursor'.i \in Nat /\ cursor'.start \in Nat /\ cursor'.last \in Nat
      /\ cursor'.start < cursor'.i /\ cursor'.i <= Len(text')
  BY <1>1 DEF Splitting
<1> QED
  BY <1>1, <1>2, <1>3 DEF Splitting

(* Each turn of the loop.                                                  *)
LEMMA BreakLineSplits ==
  ASSUME TextInv, Splitting, BreakLine
  PROVE  /\ Splitting' /\ text' \in Seq(Chars)
         /\ \A k \in DOMAIN text : text'[k] # text[k] => text[k] = Space /\ text'[k] = Newline
         /\ LineFits(text', cursor.start, cursor.lineLen)
<1>1. /\ text \in Seq(Chars) /\ Len(text) \in Nat /\ DOMAIN text = 1 .. Len(text)
      /\ \A k \in 1 .. Len(text) : text[k] \in Chars
  BY LenProperties, ElementOfSeq DEF TextInv
<1> DEFINE p == cursor.last + 1
<1>2. /\ p \in 1 .. Len(text) /\ p < Len(text) /\ p >= 2 /\ cursor.start + 1 < p
      /\ text[p] = Space /\ p \in Nat
  BY <1>1 DEF Splitting, BreakLine, Space
<1>3. /\ text' = [text EXCEPT ![p] = Newline] /\ cursor' = NewLine(p)
  BY DEF BreakLine
<1>4. /\ text' \in Seq(Chars) /\ Len(text') = Len(text) /\ DOMAIN text' = DOMAIN text
      /\ \A k \in 1 .. Len(text) : text'[k] = IF k = p THEN Newline ELSE text[k]
  <2>1. Newline \in Chars
    BY DEF Chars
  <2>2. text' \in Seq(Chars) /\ Len(text') = Len(text) /\ DOMAIN text' = DOMAIN text
    BY <1>1, <1>2, <1>3, <2>1, ExceptSeq
  <2> HIDE DEF p
  <2> QED
    BY <1>1, <1>2, <1>3, <2>2
<1> HIDE DEF p
<1>5. Splitting'
  <2>1. text'[Len(text')] = "a" /\ p + 1 <= Len(text)
    BY <1>1, <1>2, <1>4 DEF Splitting
  <2> QED
    BY <1>2, <1>3, <1>4, <2>1, NewLineSplits
<1>6. LineFits(text', cursor.start, cursor.lineLen)
  <2>1. /\ cursor.start \in Nat /\ cursor.lineLen \in Nat
        /\ p \in cursor.start + 1 .. Len(text') + 1
    BY <1>1, <1>2, <1>4 DEF Splitting
  <2>2. text'[p] = Newline
    BY <1>2, <1>4
  <2>3. \/ p - 1 - cursor.start <= cursor.lineLen
        \/ \A k \in cursor.start + 2 .. p - 1 : text'[k] # Space
    <3>1. \/ p - 1 - cursor.start <= cursor.lineLen
          \/ \A k \in cursor.start + 2 .. p - 1 : text[k] # Space
      BY DEF Splitting, BreakLine, p
    <3>2. \A k \in cursor.start + 2 .. p - 1 : k \in 1 .. Len(text) /\ k # p
      BY <1>1, <1>2, <2>1
    <3> QED
      BY <1>4, <3>1, <3>2
  <2> QED
    BY <1>4, <2>1, <2>2, <2>3, FitsUpToEnd
<1> QED
  BY <1>1, <1>2, <1>4, <1>5, <1>6

(* The space that ends a line that is too long, or the next character.     *)
LEMMA NextCharSplits ==
  ASSUME TextInv, Splitting, NextChar
  PROVE  /\ Splitting'
         /\ \/ cursor'.start = cursor.start
            \/ LineFits(text', cursor.start, cursor.lineLen)
<1>1. /\ text \in Seq(Chars) /\ Len(text) \in Nat /\ text' = text
      /\ \A k \in 1 .. Len(text) : text[k] \in Chars
  BY LenProperties, ElementOfSeq DEF TextInv, NextChar
<1>2. /\ cursor.i \in Nat /\ cursor.start \in Nat /\ cursor.lineLen \in Nat
      /\ cursor.start < cursor.i /\ cursor.last \in Nat
      /\ cursor.i < Len(text) /\ cursor.i + 1 \in 1 .. Len(text)
      /\ ~(TooLong /\ cursor.last > 0)
  BY <1>1 DEF Splitting, NextChar
<1>3. text[cursor.i + 1] \in Chars
  BY <1>1, <1>2
<1>4. \/ cursor.i - cursor.start <= cursor.lineLen
      \/ \A k \in cursor.start + 2 .. cursor.i : text[k] # Space
  BY <1>2, NotTooLongFits
<1>5. \A k \in cursor.start + 2 .. cursor.i + 1 :
        k = cursor.i + 1 \/ k \in cursor.start + 2 .. cursor.i
  BY <1>2
<1>6. CASE text[cursor.i + 1] = Newline
  <2>1. cursor' = NewLine(cursor.i + 1)
    BY <1>6 DEF NextChar, Newline, Space
  <2>2. cursor.i + 1 # Len(text) /\ text[Len(text)] = "a"
    BY <1>6 DEF Splitting, Newline
  <2>3. cursor.i + 1 \in Nat /\ cursor.i + 1 + 1 <= Len(text)
    BY <1>1, <1>2, <2>2
  <2>4. Splitting'
    BY <1>1, <2>1, <2>2, <2>3, NewLineSplits
  <2>5. LineFits(text, cursor.start, cursor.lineLen)
    <3>1. cursor.i + 1 \in cursor.start + 1 .. Len(text) + 1 /\ (cursor.i + 1) - 1 = cursor.i
      BY <1>1, <1>2
    <3> QED
      BY <1>1, <1>2, <1>4, <1>6, <3>1, FitsUpToEnd
  <2> QED
    BY <1>1, <2>4, <2>5
<1>7. CASE text[cursor.i + 1] = Space
  <2>1. cursor' = [cursor EXCEPT !.last = cursor.i, !.i = cursor.i + 1]
    BY <1>7 DEF NextChar, Newline, Space
  <2>2. /\ cursor'.lineLen = cursor.lineLen /\ cursor'.i = cursor.i + 1
        /\ cursor'.start = cursor.start /\ cursor'.last = cursor.i
        /\ cursor' = [lineLen |-> cursor'.lineLen, i |-> cursor'.i, start |-> cursor'.start,
                      last |-> cursor'.last]
    BY <2>1 DEF Splitting
  <2>3. \A k \in cursor.start + 2 .. cursor.i + 1 :
          text[k] # Newline /\ (text[k] = Space => k <= cursor.i + 1)
    BY <1>2, <1>5, <1>7 DEF Splitting, Newline, Space
  <2> QED
    BY <1>1, <1>2, <1>4, <1>7, <2>2, <2>3 DEF Splitting
<1>8. CASE text[cursor.i + 1] = "a"
  <2>1. cursor' = [cursor EXCEPT !.i = cursor.i + 1]
    BY <1>8 DEF NextChar, Newline, Space
  <2>2. /\ cursor'.lineLen = cursor.lineLen /\ cursor'.i = cursor.i + 1
        /\ cursor'.start = cursor.start /\ cursor'.last = cursor.last
        /\ cursor' = [lineLen |-> cursor'.lineLen, i |-> cursor'.i, start |-> cursor'.start,
                      last |-> cursor'.last]
    BY <2>1 DEF Splitting
  <2>3. \A k \in cursor.start + 2 .. cursor.i + 1 :
          text[k] # Newline /\ (text[k] = Space => k <= cursor.last + 1)
    BY <1>2, <1>5, <1>8 DEF Splitting, Newline, Space
  <2> QED
    BY <1>1, <1>2, <2>2, <2>3 DEF Splitting
<1> QED
  BY <1>3, <1>6, <1>7, <1>8 DEF Chars

(* Every step keeps the invariant, and the property is what it gives.      *)
LEMMA StepTextInv ==
  ASSUME TextInv, [TextNext]_textVars
  PROVE  /\ TextInv'
         /\ cursor # NoCursor /\ ~UNCHANGED textVars =>
              /\ \A k \in DOMAIN text :
                   text'[k] # text[k] => text[k] = Space /\ text'[k] = Newline
              /\ \/ cursor' # NoCursor /\ cursor'.start = cursor.start
                 \/ LineFits(text', cursor.start, cursor.lineLen)
<1>1. /\ text \in Seq(Chars) /\ Len(text) \in Nat
      /\ \A k \in 1 .. Len(text) : text[k] \in Chars
      /\ cursor # NoCursor => Splitting
  BY LenProperties, ElementOfSeq DEF TextInv
<1>2. Splitting => cursor # NoCursor
  BY DEF Splitting, NoCursor
<1>3. Splitting' => cursor' # NoCursor
  BY DEF Splitting, NoCursor
<1>4. ASSUME NEW piece \in Pieces, AddText(piece)
      PROVE  cursor = NoCursor /\ TextInv'
  <2>1. piece \in Seq(Chars) /\ BufferLen - 1 \in Nat
    BY TextAssumption
  <2>2. text \o piece \in Seq(Chars)
    BY <1>1, <2>1, ConcatProperties
  <2>3. AtMost(text \o piece, BufferLen - 1) \in Seq(Chars)
    BY <2>1, <2>2, AtMostIsText
  <2> QED
    BY <1>1, <1>4, <2>3 DEF AddText, TextInv
<1>5. ASSUME NEW lineLen \in LineLens, StartSplit(lineLen)
      PROVE  cursor = NoCursor /\ TextInv'
  <2>1. /\ cursor = NoCursor /\ text' = text /\ text # <<>> /\ text[Len(text)] = "a"
        /\ cursor' = [lineLen |-> lineLen, i |-> 1, start |-> 0, last |-> 0]
        /\ lineLen \in Nat /\ lineLen >= 4
    BY <1>5, TextAssumption DEF StartSplit, Last
  <2>2. Len(text) >= 1
    BY <1>1, <2>1, EmptySeq
  <2>3. \A k \in 0 + 2 .. 1 : FALSE
    OBVIOUS
  <2>4. Splitting'
    BY <1>1, <2>1, <2>2, <2>3 DEF Splitting
  <2> QED
    BY <1>1, <2>1, <2>4 DEF TextInv
<1>6. CASE ClearText
  <2>1. <<>> \in Seq(Chars)
    OBVIOUS
  <2>2. cursor = NoCursor /\ TextInv'
    BY <1>6, <2>1 DEF ClearText, TextInv
  <2> QED
    BY <2>2
<1>7. CASE BreakLine
  <2>1. Splitting
    BY <1>1, <1>7 DEF BreakLine
  <2> QED
    BY <1>7, <2>1, BreakLineSplits DEF TextInv
<1>8. CASE NextChar
  <2>1. Splitting /\ text' = text
    BY <1>1, <1>8 DEF NextChar
  <2>2. Splitting' /\ \/ cursor'.start = cursor.start
                      \/ LineFits(text', cursor.start, cursor.lineLen)
    BY <1>8, <2>1, NextCharSplits
  <2> QED
    BY <1>1, <1>3, <2>1, <2>2 DEF TextInv
<1>9. CASE EndSplit
  <2>1. /\ Splitting /\ text' = text /\ cursor' = NoCursor /\ cursor.i = Len(text)
        /\ ~(TooLong /\ cursor.last > 0)
    BY <1>1, <1>9 DEF EndSplit
  <2>2. /\ cursor.start \in Nat /\ cursor.lineLen \in Nat /\ cursor.start < Len(text)
        /\ Len(text) + 1 \in cursor.start + 1 .. Len(text) + 1
        /\ (Len(text) + 1) - 1 = Len(text)
    BY <1>1, <2>1 DEF Splitting
  <2>3. \/ Len(text) - cursor.start <= cursor.lineLen
        \/ \A k \in cursor.start + 2 .. Len(text) : text[k] # Space
    BY <2>1, NotTooLongFits
  <2>4. LineFits(text, cursor.start, cursor.lineLen)
    BY <1>1, <2>2, <2>3, FitsUpToEnd
  <2> QED
    BY <1>1, <2>1, <2>4 DEF TextInv
<1>10. CASE UNCHANGED textVars
  BY <1>10 DEF textVars, TextInv, Splitting
<1> QED
  BY <1>4, <1>5, <1>6, <1>7, <1>8, <1>9, <1>10 DEF TextNext

(* split() turns nothing but spaces into newlines, and leaves no line that *)
(* could have been broken and is too long, for every text, buffer and line *)
(* length (text_buffer.cpp).                                               *)
THEOREM SplitAtSpaces == TextSpec => SplitsAtSpaces
<1>1. TextInit => TextInv
  <2>1. <<>> \in Seq(Chars)
    OBVIOUS
  <2> QED
    BY <2>1 DEF TextInit, TextInv
<1>2. TextInv /\ [TextNext]_textVars => TextInv'
  BY StepTextInv
<1>3. TextInv /\ [TextNext]_textVars =>
        [ cursor # NoCursor =>
            /\ \A k \in DOMAIN text : text'[k] # text[k] => text[k] = Space /\ text'[k] = Newline
            /\ \/ cursor' # NoCursor /\ cursor'.start = cursor.start
               \/ LineFits(text', cursor.start, cursor.lineLen) ]_textVars
  BY StepTextInv
<1> QED
  BY <1>1, <1>2, <1>3, PTL DEF TextSpec, SplitsAtSpaces
-----------------------------------------------------------------------------
(* Variables and settings.  A variable of a kind.                          *)
IsVariable(kind, v) == v = State(v.value, v.failed) /\ IsValue(kind, v.value)

(* The names of an EnumStrVariable are found at their places, and no       *)
(* number is a name.                                                       *)
LEMMA NameIndexes ==
  /\ NameIndex("low") = 0 /\ NameIndex("high") = 1
  /\ \A word : word \notin {"low", "high"} => NameIndex(word) = -1
<1>1. /\ Len(ValueNames) = 2 /\ ValueNames[1] = "low" /\ ValueNames[2] = "high"
  BY DEF ValueNames
<1>2. ASSUME NEW word
      PROVE  LET found == { i \in 1 .. 2 : ValueNames[i] = word }
             IN  NameIndex(word) = (IF found # {} THEN Min(found) ELSE 0) - 1
  BY <1>1 DEF NameIndex, SelectInSeq
<1>3. Min({1}) = 1 /\ Min({2}) = 2
  BY DEF Min
<1>4. { i \in 1 .. 2 : ValueNames[i] = "low" } = {1}
  BY <1>1
<1>5. { i \in 1 .. 2 : ValueNames[i] = "high" } = {2}
  BY <1>1
<1>6. ASSUME NEW word, word \notin {"low", "high"}
      PROVE  { i \in 1 .. 2 : ValueNames[i] = word } = {}
  BY <1>1, <1>6
<1>7. NameIndex("low") = 0
  BY <1>2, <1>3, <1>4
<1>8. NameIndex("high") = 1
  BY <1>2, <1>3, <1>5
<1>9. ASSUME NEW word, word \notin {"low", "high"}
      PROVE  NameIndex(word) = -1
  <2>1. NameIndex(word) = 0 - 1
    <3>1. ~({ i \in 1 .. 2 : ValueNames[i] = word } # {})
      BY <1>6, <1>9
    <3> QED
      BY <1>2, <3>1, Zenon
  <2> QED
    BY <2>1
<1> QED
  BY <1>7, <1>8, <1>9

(* A number is spelled by some text, which scans as that number, and as    *)
(* its tenth if that is an integer.                                        *)
LEMMA SpelledScans ==
  ASSUME NEW number \in {0, 10, 20, 25, 30, NaN}
  PROVE  /\ Spelled(number) \in DOMAIN ScannedFloat
         /\ ScannedFloat[Spelled(number)] = number
         /\ Spelled(number) \notin {"low", "high"}
         /\ number # NaN => /\ Spelled(number) \in DOMAIN ScannedInt
                            /\ ScannedInt[Spelled(number)] = number \div 10
<1>1. /\ DOMAIN ScannedFloat = {"0", "1", "2", "2.5", "3", "nan"}
      /\ ScannedFloat["0"] = 0 /\ ScannedFloat["1"] = 10 /\ ScannedFloat["2"] = 20
      /\ ScannedFloat["2.5"] = 25 /\ ScannedFloat["3"] = 30 /\ ScannedFloat["nan"] = NaN
  BY DEF ScannedFloat
<1>2. \E word \in DOMAIN ScannedFloat : ScannedFloat[word] = number
  BY <1>1
<1>3. Spelled(number) \in DOMAIN ScannedFloat /\ ScannedFloat[Spelled(number)] = number
  BY <1>2 DEF Spelled
<1>4. Spelled(number) \notin {"low", "high"}
  BY <1>1, <1>3
<1>5. ASSUME number # NaN
      PROVE  /\ Spelled(number) \in DOMAIN ScannedInt
             /\ ScannedInt[Spelled(number)] = number \div 10
  <2>1. Spelled(number) # "nan"
    BY <1>1, <1>3, <1>5
  <2> QED
    BY <1>3, <2>1 DEF ScannedInt
<1> QED
  BY <1>3, <1>4, <1>5

(* A state with a value of the kind is a variable, failed or not.          *)
LEMMA StateTyped ==
  ASSUME NEW kind, NEW value, IsValue(kind, value), NEW failed
  PROVE  IsVariable(kind, State(value, failed))
<1>1. State(value, failed).value = value /\ State(value, failed).failed = failed
  BY DEF State
<1> QED
  BY <1>1, Zenon DEF IsVariable

(* A variable that fails keeps its value, and one that is given a value of *)
(* its kind is a variable.                                                 *)
LEMMA ChangeTyped ==
  ASSUME NEW kind, NEW v, IsVariable(kind, v)
  PROVE  /\ IsVariable(kind, Failed(v)) /\ Failed(v).value = v.value
         /\ \A value : /\ [v EXCEPT !.value = value].value = value
                       /\ IsValue(kind, value) => IsVariable(kind, [v EXCEPT !.value = value])
<1>1. v = [value |-> v.value, failed |-> v.failed] /\ IsValue(kind, v.value)
  BY DEF IsVariable, State
<1>2. Failed(v) = State(v.value, TRUE) /\ Failed(v).value = v.value
  <2>1. ASSUME NEW failed
        PROVE  [v EXCEPT !.failed = failed] = [value |-> v.value, failed |-> failed]
    BY <1>1
  <2>2. Failed(v) = State(v.value, TRUE)
    BY <2>1, Zenon DEF Failed, State
  <2>3. ASSUME NEW failed
        PROVE  State(v.value, failed).value = v.value
    BY DEF State
  <2>4. State(v.value, TRUE).value = v.value
    BY <2>3, Zenon
  <2> QED
    BY <2>2, <2>4, Zenon
<1>3. ASSUME NEW value
      PROVE  /\ [v EXCEPT !.value = value] = State(value, v.failed)
             /\ [v EXCEPT !.value = value].value = value
  BY <1>1 DEF State
<1>4. IsVariable(kind, Failed(v))
  BY <1>1, <1>2, StateTyped
<1>5. ASSUME NEW value, IsValue(kind, value)
      PROVE  IsVariable(kind, [v EXCEPT !.value = value])
  BY <1>3, <1>5, StateTyped
<1> QED
  BY <1>2, <1>3, <1>4, <1>5

(* A text that scans as an integer is one of the spelled ones.             *)
LEMMA IntFromStringTyped ==
  ASSUME NEW kind \in {"int", "enum", "enumStr"}, NEW v, IsVariable(kind, v), NEW word
  PROVE  IsVariable(kind, IntFromString(v, word))
<1>1. \A t \in DOMAIN ScannedInt : ScannedInt[t] \in {0, 1, 2, 3}
  BY DEF ScannedFloat, ScannedInt
<1>2. CASE word \in DOMAIN ScannedInt
  <2>1. IsValue(kind, ScannedInt[word])
    BY <1>1, <1>2 DEF IsValue
  <2>2. IsVariable(kind, State(ScannedInt[word], FALSE))
    BY <2>1, StateTyped
  <2> QED
    BY <1>2, <2>2 DEF IntFromString
<1>3. CASE word \notin DOMAIN ScannedInt
  BY <1>3, ChangeTyped DEF IntFromString
<1> QED
  BY <1>2, <1>3

(* What a text converts to is a value of the kind.                         *)
LEMMA FromStringTyped ==
  ASSUME NEW kind, NEW v, IsVariable(kind, v), NEW word
  PROVE  IsVariable(kind, FromString(kind, v, word))
<1>1. CASE kind = "float"
  <2>1. FromString(kind, v, word) = FloatFromString(v, word)
    BY <1>1 DEF FromString
  <2>2. CASE word \in DOMAIN ScannedFloat
    <3>1. IsValue(kind, ScannedFloat[word])
      BY <1>1, <2>2 DEF IsValue, ScannedFloat
    <3>2. IsVariable(kind, State(ScannedFloat[word], FALSE))
      BY <3>1, StateTyped
    <3> QED
      BY <2>1, <2>2, <3>2 DEF FloatFromString
  <2>3. CASE word \notin DOMAIN ScannedFloat
    BY <2>1, <2>3, ChangeTyped DEF FloatFromString
  <2> QED
    BY <2>2, <2>3
<1>2. CASE kind \in {"int", "enum"}
  <2>1. FromString(kind, v, word) = IntFromString(v, word)
    BY <1>2 DEF FromString, EnumFromString
  <2> QED
    BY <1>2, <2>1, IntFromStringTyped
<1>3. CASE kind = "enumStr"
  <2>1. FromString(kind, v, word) = EnumStrFromString(v, word)
    BY <1>3 DEF FromString
  <2>2. IsVariable(kind, IntFromString(v, word))
    BY <1>3, IntFromStringTyped
  <2>3. CASE NameIndex(word) \in {0, 1}
    <3>1. IsValue(kind, NameIndex(word)) /\ NameIndex(word) >= 0
      BY <1>3, <2>3 DEF IsValue
    <3>2. IsVariable(kind, State(NameIndex(word), FALSE))
      BY <3>1, StateTyped
    <3> QED
      BY <2>1, <3>1, <3>2 DEF EnumStrFromString
  <2>4. CASE ~(NameIndex(word) >= 0)
    BY <2>1, <2>2, <2>4 DEF EnumStrFromString
  <2> QED
    BY <2>3, <2>4, NameIndexes
<1>4. CASE kind = "string"
  <2>1. FromString(kind, v, word) = [v EXCEPT !.value = word]
    BY <1>4 DEF FromString, StringFromString
  <2>2. IsValue(kind, word)
    BY <1>4 DEF IsValue
  <2> QED
    BY <2>1, <2>2, ChangeTyped
<1>5. CASE kind = "bool"
  <2>1. FromString(kind, v, word) = State(word \notin FalseTexts, FALSE)
    BY <1>5 DEF FromString, BoolFromString
  <2>2. IsValue(kind, word \notin FalseTexts)
    BY <1>5, Zenon DEF IsValue
  <2>3. IsVariable(kind, State(word \notin FalseTexts, FALSE))
    BY <2>2, StateTyped, Zenon
  <2> QED
    BY <2>1, <2>3, Zenon
<1> QED
  BY <1>1, <1>2, <1>3, <1>4, <1>5 DEF IsVariable, IsValue

(* A number that is rounded is one that the texts spell, the same one if   *)
(* its variable shows decimals.                                            *)
LEMMA RoundedSpelled ==
  ASSUME NEW tenths \in {0, 10, 20, 25, 30, NaN}, NEW decimals \in Nat
  PROVE  /\ Rounded(tenths, decimals) \in {0, 10, 20, 25, 30, NaN}
         /\ decimals > 0 => Rounded(tenths, decimals) = tenths
<1>1. CASE tenths = NaN \/ decimals > 0
  BY <1>1 DEF Rounded
<1>2. CASE ~(tenths = NaN \/ decimals > 0)
  <2>1. Rounded(tenths, decimals) = ((tenths + 5) \div 10) * 10
    BY <1>2 DEF Rounded
  <2>2. tenths \in {0, 10, 20, 25, 30}
    BY <1>2
  <2>3. ((tenths + 5) \div 10) * 10 \in {0, 10, 20, 30}
    BY <2>2
  <2> QED
    BY <1>2, <2>1, <2>3
<1> QED
  BY <1>1, <1>2

(* What a form shows converts back to the value, for numbers with no more  *)
(* decimals than are shown, which are rounded, for texts without a quote   *)
(* and enumeration values with a name.                                     *)
LEMMA FormRoundTrip ==
  ASSUME NEW kind, NEW decimals \in Nat, NEW v, IsVariable(kind, v)
  PROVE  \/ /\ kind = "float"
            /\ FromString(kind, v, FormEntry(kind, decimals, v)).value
                 = Rounded(v.value, decimals)
         \/ /\ kind # "float"
            /\ FromString(kind, v, FormEntry(kind, decimals, v)).value = v.value
         \/ kind = "string" /\ v.value = Quoted
         \/ kind = "enumStr" /\ v.value + 1 \notin DOMAIN ValueNames
<1>1. v = [value |-> v.value, failed |-> v.failed]
  BY DEF IsVariable, State
<1>2. CASE kind = "float"
  <2>1. v.value \in {0, 10, 20, 25, 30, NaN}
    BY <1>2 DEF IsVariable, IsValue
  <2>2. PICK number : number = Rounded(v.value, decimals)
    OBVIOUS
  <2>3. number \in {0, 10, 20, 25, 30, NaN}
    BY <2>1, <2>2, RoundedSpelled
  <2>4. FromString(kind, v, FormEntry(kind, decimals, v)) = FloatFromString(v, Spelled(number))
    BY <1>2, <2>2 DEF FromString, FormEntry, FloatFormEntry
  <2>5. FloatFromString(v, Spelled(number)).value = number
    BY <2>3, SpelledScans DEF FloatFromString, State
  <2> QED
    BY <1>2, <2>2, <2>4, <2>5
<1>3. CASE kind \in {"int", "enum", "enumStr"}
  <2>1. v.value \in {0, 1, 2, 3}
    BY <1>3 DEF IsVariable, IsValue
  <2>2. PICK number : number = v.value * 10
    OBVIOUS
  <2>3. /\ number \in {0, 10, 20, 25, 30, NaN} /\ number # NaN /\ number \div 10 = v.value
    BY <2>1, <2>2, SettingsAssumption
  <2>4. /\ Spelled(number) \in DOMAIN ScannedInt /\ ScannedInt[Spelled(number)] = v.value
        /\ Spelled(number) \notin {"low", "high"}
    BY <2>3, SpelledScans
  <2>5. IntFromString(v, Spelled(number)).value = v.value
    BY <2>4 DEF IntFromString, State
  <2>6. CASE kind \in {"int", "enum"}
    BY <2>2, <2>5, <2>6 DEF FromString, FormEntry, IntFormEntry, EnumFromString
  <2>7. CASE kind = "enumStr" /\ v.value + 1 \in DOMAIN ValueNames
    <3>1. FromString(kind, v, FormEntry(kind, decimals, v)) = EnumStrFromString(v, Spelled(number))
      BY <2>2, <2>7 DEF FromString, FormEntry, EnumStrFormEntry
    <3>2. ~(NameIndex(Spelled(number)) >= 0)
      BY <2>4, NameIndexes
    <3> QED
      BY <2>5, <2>7, <3>1, <3>2 DEF EnumStrFromString
  <2> QED
    BY <1>3, <2>6, <2>7
<1>4. CASE kind = "string"
  <2>1. v.value # Quoted =>
          FromString(kind, v, FormEntry(kind, decimals, v)) = [v EXCEPT !.value = v.value]
    BY <1>4 DEF FromString, FormEntry, StringFormEntry, StringFromString
  <2> QED
    BY <1>1, <1>4, <2>1
<1>5. CASE kind = "bool"
  <2>1. FromString(kind, v, FormEntry(kind, decimals, v))
          = State((IF v.value THEN "true" ELSE "false") \notin FalseTexts, FALSE)
    BY <1>5 DEF FromString, FormEntry, BoolFormEntry, BoolFromString
  <2>2. v.value = TRUE \/ v.value = FALSE
    BY <1>5 DEF IsVariable, IsValue
  <2>3. "true" \notin FalseTexts /\ "false" \in FalseTexts
    BY DEF FalseTexts
  <2>4. ((IF v.value THEN "true" ELSE "false") \notin FalseTexts) = v.value
    <3>1. CASE v.value = TRUE
      <4>1. (IF v.value THEN "true" ELSE "false") = "true"
        BY <3>1, Zenon
      <4> QED
        BY <2>3, <3>1, <4>1, Zenon
    <3>2. CASE v.value = FALSE
      <4>1. (IF v.value THEN "true" ELSE "false") = "false"
        BY <3>2, Zenon
      <4> QED
        BY <2>3, <3>2, <4>1, Zenon
    <3> QED
      BY <2>2, <3>1, <3>2
  <2>5. FromString(kind, v, FormEntry(kind, decimals, v)) = State(v.value, FALSE)
    BY <2>1, <2>4, Zenon
  <2> QED
    BY <1>5, <2>5 DEF State
<1> QED
  BY <1>2, <1>3, <1>4, <1>5 DEF IsVariable, IsValue

(* A JSON number that is an integer becomes one of the spelled ones, and   *)
(* any other one changes nothing.                                          *)
LEMMA IntFromJsonTyped ==
  ASSUME NEW kind \in {"int", "enum", "enumStr"}, NEW v, IsVariable(kind, v),
         NEW json, IsJson(json)
  PROVE  IsVariable(kind, IntFromJson(v, json))
<1>1. CASE IsInt(json)
  <2>1. json.of \in {0, 10, 20, 25, 30} /\ json.of % 10 = 0
    BY <1>1 DEF IsInt, IsJson
  <2>2. json.of \div 10 \in {0, 1, 2, 3}
    BY <2>1
  <2>3. IsValue(kind, json.of \div 10)
    BY <2>2 DEF IsValue
  <2> QED
    BY <1>1, <2>3, ChangeTyped DEF IntFromJson
<1>2. CASE ~IsInt(json)
  BY <1>2 DEF IntFromJson
<1> QED
  BY <1>1, <1>2

(* What a JSON value converts to is a value of the kind.                   *)
LEMMA FromJsonTyped ==
  ASSUME NEW kind, NEW v, IsVariable(kind, v), NEW json, IsJson(json), json.is # "null"
  PROVE  IsVariable(kind, FromJson(kind, v, json))
<1>1. CASE kind = "float"
  <2>1. FromJson(kind, v, json) = FloatFromJson(v, json)
    BY <1>1 DEF FromJson
  <2>2. CASE json.is = "number"
    <3>1. IsValue(kind, json.of)
      BY <1>1, <2>2 DEF IsJson, IsValue
    <3> QED
      BY <2>1, <2>2, <3>1, ChangeTyped DEF FloatFromJson
  <2>3. CASE json.is # "number"
    BY <2>1, <2>3, ChangeTyped DEF FloatFromJson
  <2> QED
    BY <2>2, <2>3
<1>2. CASE kind \in {"int", "enum"}
  <2>1. FromJson(kind, v, json) = IntFromJson(v, json)
    BY <1>2 DEF FromJson, EnumFromJson
  <2> QED
    BY <1>2, <2>1, IntFromJsonTyped
<1>3. CASE kind = "enumStr"
  <2>1. FromJson(kind, v, json) = EnumStrFromJson(v, json)
    BY <1>3 DEF FromJson
  <2>2. IsVariable(kind, IntFromJson(v, json))
    BY <1>3, IntFromJsonTyped
  <2>3. CASE json.is = "text" /\ NameIndex(json.of) >= 0
    <3>1. NameIndex(json.of) \in {0, 1}
      BY <2>3, NameIndexes
    <3>2. IsValue(kind, NameIndex(json.of))
      BY <1>3, <3>1 DEF IsValue
    <3> QED
      BY <2>1, <2>3, <3>2, ChangeTyped DEF EnumStrFromJson
  <2>4. CASE json.is = "text" /\ ~(NameIndex(json.of) >= 0)
    BY <2>1, <2>4 DEF EnumStrFromJson
  <2>5. CASE json.is # "text"
    BY <2>1, <2>2, <2>5 DEF EnumStrFromJson
  <2> QED
    BY <2>3, <2>4, <2>5
<1>4. CASE kind = "string"
  <2>1. FromJson(kind, v, json) = StringFromJson(v, json)
    BY <1>4 DEF FromJson
  <2>2. IsValue(kind, json.of)
    BY <1>4 DEF IsValue
  <2>3. IsVariable(kind, [v EXCEPT !.value = json.of])
    BY <2>2, ChangeTyped
  <2> QED
    BY <2>1, <2>3 DEF StringFromJson
<1>5. CASE kind = "bool"
  <2>1. FromJson(kind, v, json) = BoolFromJson(v, json)
    BY <1>5 DEF FromJson
  <2>2. CASE json.is = "text"
    <3>1. FromString(kind, v, json.of) = BoolFromString(v, json.of)
      BY <1>5 DEF FromString
    <3>2. IsVariable(kind, BoolFromString(v, json.of))
      BY <3>1, FromStringTyped
    <3> QED
      BY <2>1, <2>2, <3>2 DEF BoolFromJson
  <2>3. CASE json.is = "boolean"
    <3>1. IsValue(kind, json.of)
      BY <1>5, <2>3 DEF IsJson, IsValue
    <3>2. IsVariable(kind, [v EXCEPT !.value = json.of])
      BY <3>1, ChangeTyped
    <3> QED
      BY <2>1, <2>3, <3>2 DEF BoolFromJson
  <2>4. CASE json.is = "number"
    BY <2>1, <2>4, ChangeTyped DEF BoolFromJson
  <2> QED
    BY <2>2, <2>3, <2>4 DEF IsJson
<1> QED
  BY <1>1, <1>2, <1>3, <1>4, <1>5 DEF IsVariable, IsValue

(* What toJson() writes, for each kind.                                    *)
LEMMA ToJsonCases ==
  ASSUME NEW kind, NEW v
  PROVE  /\ v.failed => ToJson(kind, v) = Null
         /\ ~v.failed =>
              /\ kind = "float" => ToJson(kind, v) = Number(v.value)
              /\ kind \in {"int", "enum"} => ToJson(kind, v) = Number(v.value * 10)
              /\ kind = "enumStr" => ToJson(kind, v) = Text(EnumStrName(v.value))
              /\ kind = "string" => ToJson(kind, v) = Text(v.value)
              /\ kind = "bool" => ToJson(kind, v) = Text(IF v.value THEN "true" ELSE "false")
BY DEF ToJson, FloatToJson, IntToJson, EnumToJson, EnumStrToJson, StringToJson, BoolToJson

(* It is a JSON value.                                                     *)
LEMMA ToJsonTyped ==
  ASSUME NEW kind, NEW v, IsVariable(kind, v)
  PROVE  IsJson(ToJson(kind, v))
<1>1. IsJson(Null) /\ \A word : IsJson(Text(word))
  BY DEF IsJson, Null, Text
<1>2. ASSUME NEW number \in {0, 10, 20, 25, 30, NaN}
      PROVE  IsJson(Number(number))
  BY <1>1 DEF IsJson, Number
<1>3. CASE kind = "float"
  BY <1>1, <1>2, <1>3, ToJsonCases DEF IsVariable, IsValue
<1>4. CASE kind \in {"int", "enum"}
  <2>1. v.value * 10 \in {0, 10, 20, 25, 30, NaN}
    BY <1>4 DEF IsVariable, IsValue
  <2> QED
    BY <1>1, <1>2, <1>4, <2>1, ToJsonCases
<1>5. CASE kind \in {"enumStr", "string", "bool"}
  BY <1>1, <1>5, ToJsonCases
<1> QED
  BY <1>3, <1>4, <1>5 DEF IsVariable, IsValue

(* What the file can hold is read back from it, whatever the default is.   *)
LEMMA JsonRoundTrip ==
  ASSUME NEW kind, NEW v, IsVariable(kind, v), ~v.failed,
         kind = "float" => v.value # NaN,
         kind = "enumStr" => v.value + 1 \in DOMAIN ValueNames,
         NEW default, IsVariable(kind, default)
  PROVE  /\ ToJson(kind, v).is # "null"
         /\ FromJson(kind, default, ToJson(kind, v)).value = v.value
<1>1. \A word : Text(word).is = "text" /\ Text(word).of = word
  BY DEF Text
<1>2. CASE kind = "float"
  <2>1. ToJson(kind, v) = [is |-> "number", of |-> v.value]
    BY <1>2, ToJsonCases DEF Number
  <2>2. ToJson(kind, v).is = "number" /\ ToJson(kind, v).of = v.value
    BY <2>1
  <2>3. ToJson(kind, v).is # "null"
    BY <2>2
  <2>4. FromJson(kind, default, ToJson(kind, v)) = [default EXCEPT !.value = v.value]
    BY <1>2, <2>2 DEF FromJson, FloatFromJson
  <2>5. [default EXCEPT !.value = v.value].value = v.value
    BY ChangeTyped
  <2> QED
    BY <2>3, <2>4, <2>5, Zenon
<1>3. CASE kind \in {"int", "enum"}
  <2>1. v.value \in {0, 1, 2, 3}
    BY <1>3 DEF IsVariable, IsValue
  <2>2. PICK number : number = v.value * 10
    OBVIOUS
  <2>3. number # NaN /\ number % 10 = 0 /\ number \div 10 = v.value
    BY <2>1, <2>2, SettingsAssumption
  <2>4. PICK json : json = [is |-> "number", of |-> number]
    OBVIOUS
  <2>5. ToJson(kind, v) = json
    BY <1>3, <2>2, <2>3, <2>4, ToJsonCases DEF Number
  <2>6. IsInt(json) /\ json.of \div 10 = v.value /\ json.is # "null"
    BY <2>3, <2>4 DEF IsInt
  <2>7. FromJson(kind, default, json) = [default EXCEPT !.value = v.value]
    BY <1>3, <2>6 DEF FromJson, IntFromJson, EnumFromJson
  <2> QED
    BY <2>5, <2>6, <2>7, ChangeTyped
<1>4. CASE kind = "enumStr"
  <2>1. v.value \in {0, 1}
    BY <1>4 DEF IsVariable, IsValue, ValueNames
  <2>2. EnumStrName(v.value) = (IF v.value = 0 THEN "low" ELSE "high")
    BY <2>1 DEF EnumStrName, ValueNames
  <2>3. NameIndex(EnumStrName(v.value)) = v.value
    BY <2>1, <2>2, NameIndexes
  <2>4. PICK name : name = EnumStrName(v.value)
    OBVIOUS
  <2>5. ToJson(kind, v) = Text(name)
    BY <1>4, <2>4, ToJsonCases
  <2>6. NameIndex(name) = v.value /\ NameIndex(name) >= 0
    BY <2>1, <2>3, <2>4
  <2>7. FromJson(kind, default, Text(name)) = [default EXCEPT !.value = NameIndex(name)]
    BY <1>1, <1>4, <2>6 DEF FromJson, EnumStrFromJson
  <2> QED
    BY <1>1, <2>5, <2>6, <2>7, ChangeTyped
<1>5. CASE kind = "string"
  <2>1. ToJson(kind, v) = Text(v.value)
    BY <1>5, ToJsonCases
  <2>2. FromJson(kind, default, Text(v.value)) = [default EXCEPT !.value = v.value]
    BY <1>1, <1>5 DEF FromJson, StringFromJson
  <2> QED
    BY <1>1, <2>1, <2>2, ChangeTyped
<1>6. CASE kind = "bool"
  <2>1. PICK word : word = BoolFormEntry(v)
    OBVIOUS
  <2>2. ToJson(kind, v) = Text(word)
    BY <1>6, <2>1, ToJsonCases DEF BoolFormEntry
  <2>3. FromString(kind, v, FormEntry(kind, 0, v)) = State(word \notin FalseTexts, FALSE)
    BY <1>6, <2>1 DEF FromString, FormEntry, BoolFromString
  <2>4. FromJson(kind, default, Text(word)) = State(word \notin FalseTexts, FALSE)
    BY <1>1, <1>6 DEF FromJson, BoolFromJson, BoolFromString
  <2>5. FromString(kind, v, FormEntry(kind, 0, v)).value = v.value
    BY <1>6, FormRoundTrip
  <2>6. Text(word).is # "null"
    BY <1>1
  <2>7. FromJson(kind, default, ToJson(kind, v)).value = v.value
    BY <2>2, <2>3, <2>4, <2>5, Zenon
  <2> QED
    BY <2>2, <2>6, <2>7, Zenon
<1> QED
  BY <1>2, <1>3, <1>4, <1>5, <1>6 DEF IsVariable, IsValue

(* The variables stay of their kinds; what a form left and nobody touched  *)
(* since is what they are; a document is one that write_config() builds    *)
(* from them; and what must be there after a restart is what read_config() *)
(* finds in the file.                                                      *)
SettingsInv ==
  /\ group \in Groups
  /\ DOMAIN variables = Indices
  /\ \A i \in Indices : IsVariable(group[i].kind, variables[i])
  /\ flash \in {"blank", "formatted"}
  /\ flash = "blank" => ~preexisted
  /\ handler = "open" => flash = "formatted"
  /\ handler # "open" => doc = <<>>
  /\ DOMAIN asked \subseteq Indices
  /\ \A i \in DOMAIN asked : asked[i] = variables[i]
  /\ \E S : doc \in Seq(S)
  /\ \A i \in DOMAIN doc :
       /\ i \in Indices /\ IsJson(doc[i])
       /\ i \in DOMAIN asked /\ group[i].config => doc[i] = ToJson(group[i].kind, variables[i])
  /\ file # <<>> => DOMAIN file = Indices /\ \A i \in Indices : IsJson(file[i])
  /\ \A i \in DOMAIN kept :
       /\ i \in Indices /\ file # <<>> /\ flash = "formatted"
       /\ group[i].config /\ file[i].is # "null"
       /\ FromJson(group[i].kind, Defaults[i], file[i]).value = kept[i]

(* The variables of a group are numbered from 1, and the constructors give *)
(* them values of their kinds.                                             *)
LEMMA DefaultsTyped ==
  ASSUME group \in Groups
  PROVE  /\ Indices = 1 .. Len(group) /\ Len(group) \in Nat
         /\ DOMAIN Defaults = Indices
         /\ \A i \in Indices : /\ Defaults[i] = State(group[i].default, FALSE)
                               /\ IsValue(group[i].kind, group[i].default)
                               /\ IsVariable(group[i].kind, Defaults[i])
<1>1. /\ Indices = 1 .. Len(group) /\ Len(group) \in Nat
      /\ \A i \in Indices : IsValue(group[i].kind, group[i].default)
  BY SettingsAssumption DEF Indices
<1>2. DOMAIN Defaults = Indices /\ \A i \in Indices : Defaults[i] = State(group[i].default, FALSE)
  BY Zenon DEF Defaults
<1> QED
  BY <1>1, <1>2, StateTyped

(* No form was filled in before the first boot.                            *)
LEMMA InitSettingsInv == SettingsInit => SettingsInv
<1> SUFFICES ASSUME SettingsInit PROVE SettingsInv
  OBVIOUS
<1>1. group \in Groups /\ variables = Defaults
  BY DEF SettingsInit
<1>2. DOMAIN NoValues = {} /\ <<>> \in Seq({}) /\ DOMAIN <<>> = {}
  BY DEF NoValues
<1>3. \E S : doc \in Seq(S)
  BY <1>2 DEF SettingsInit
<1> QED
  BY <1>1, <1>2, <1>3, DefaultsTyped DEF SettingsInit, SettingsInv

(* What a boot finds in the file is of the variables' kinds, and holds     *)
(* what must be there.                                                     *)
LEMMA BootRestores ==
  ASSUME SettingsInv
  PROVE  LET found == ReadConfig(Defaults)
         IN  /\ DOMAIN found = Indices
             /\ \A i \in Indices : IsVariable(group[i].kind, found[i])
             /\ \A i \in DOMAIN kept : found[i].value = kept[i]
<1> DEFINE found == ReadConfig(Defaults)
<1>1. /\ DOMAIN Defaults = Indices
      /\ \A i \in Indices : IsVariable(group[i].kind, Defaults[i])
  BY DefaultsTyped DEF SettingsInv
<1>2. CASE flash = "blank" \/ file = <<>>
  <2>1. found = Defaults
    BY <1>2 DEF ReadConfig
  <2>2. DOMAIN kept = {}
    BY <1>2 DEF SettingsInv
  <2> QED
    BY <1>1, <2>1, <2>2
<1>3. CASE ~(flash = "blank" \/ file = <<>>)
  <2>1. /\ DOMAIN found = Indices
        /\ \A i \in Indices :
             found[i] = IF group[i].config /\ file[i].is # "null"
                        THEN FromJson(group[i].kind, Defaults[i], file[i]) ELSE Defaults[i]
    BY <1>3, Zenon DEF ReadConfig
  <2>2. \A i \in Indices : IsJson(file[i])
    BY <1>3 DEF SettingsInv
  <2>3. ASSUME NEW i \in Indices
        PROVE  IsVariable(group[i].kind, found[i])
    <3>1. CASE group[i].config /\ file[i].is # "null"
      BY <1>1, <2>1, <2>2, <3>1, FromJsonTyped
    <3>2. CASE ~(group[i].config /\ file[i].is # "null")
      BY <1>1, <2>1, <3>2
    <3> QED
      BY <3>1, <3>2
  <2>4. ASSUME NEW i \in DOMAIN kept
        PROVE  found[i].value = kept[i]
    BY <2>1 DEF SettingsInv
  <2> QED
    BY <2>1, <2>3, <2>4
<1> QED
  BY <1>2, <1>3

(* A boot leaves no document half written and no form half handled.        *)
LEMMA BootKeeps == ASSUME SettingsInv, Boot PROVE SettingsInv'
<1>1. DOMAIN variables' = Indices /\ \A i \in Indices : IsVariable(group[i].kind, variables'[i])
  BY BootRestores DEF Boot
<1>2. DOMAIN NoValues = {} /\ <<>> \in Seq({}) /\ DOMAIN <<>> = {}
  BY DEF NoValues
<1>3. /\ flash' = "formatted" /\ handler' = "idle" /\ doc' = <<>> /\ asked' = NoValues
      /\ UNCHANGED <<group, file, kept>>
  BY DEF Boot, SetUpFlash
<1>4. Indices' = Indices /\ Defaults' = Defaults
  BY <1>3 DEF Indices, Defaults
<1>5. \E S : doc' \in Seq(S)
  BY <1>2, <1>3
<1> QED
  BY <1>1, <1>2, <1>3, <1>4, <1>5 DEF SettingsInv

(* A form changes variables to values of their kinds.                      *)
LEMMA ReadFormKeeps ==
  ASSUME SettingsInv, NEW texts, ReadForm(texts)
  PROVE  SettingsInv'
<1>1. ASSUME NEW i \in Indices
      PROVE  IsVariable(group[i].kind, variables'[i])
  <2>1. IsVariable(group[i].kind, variables[i])
    BY DEF SettingsInv
  <2>2. IsVariable(group[i].kind, FromString(group[i].kind, variables[i], texts[i]))
    BY <2>1, FromStringTyped
  <2>3. variables'[i] = IF i \in DOMAIN texts
                        THEN FromString(group[i].kind, variables[i], texts[i]) ELSE variables[i]
    BY Zenon DEF ReadForm
  <2> QED
    BY <2>1, <2>2, <2>3
<1>2. DOMAIN variables' = Indices
  BY Zenon DEF ReadForm
<1>3. /\ handler = "idle" /\ handler' = "read" /\ asked' = variables'
      /\ UNCHANGED <<group, preexisted, doc, flash, file, kept>>
  BY DEF ReadForm
<1>4. Indices' = Indices /\ Defaults' = Defaults
  BY <1>3 DEF Indices, Defaults
<1>5. doc = <<>> /\ DOMAIN doc = {}
  BY <1>3 DEF SettingsInv
<1>6. \E S : doc' \in Seq(S)
  BY <1>3 DEF SettingsInv
<1> QED
  BY <1>1, <1>2, <1>3, <1>4, <1>5, <1>6 DEF SettingsInv

(* A variable that is changed to a value of its kind no longer is what the *)
(* form left.                                                              *)
LEMMA ChangesKeeps ==
  ASSUME SettingsInv, NEW i \in Indices, NEW v, IsVariable(group[i].kind, v), Changes(i, v)
  PROVE  SettingsInv'
<1>1. /\ DOMAIN variables' = Indices /\ variables'[i] = v
      /\ \A j \in Indices \ {i} : variables'[j] = variables[j]
  BY DEF SettingsInv, Changes
<1>2. /\ DOMAIN asked' = DOMAIN asked \ {i}
      /\ \A j \in DOMAIN asked \ {i} : asked'[j] = asked[j]
  BY DEF Changes, Without
<1>3. UNCHANGED <<group, preexisted, handler, doc, flash, file, kept>>
  BY DEF Changes
<1>4. Indices' = Indices /\ Defaults' = Defaults
  BY <1>3 DEF Indices, Defaults
<1>5. \A j \in Indices : IsVariable(group[j].kind, variables'[j])
  BY <1>1 DEF SettingsInv
<1>6. DOMAIN asked' \subseteq Indices /\ \A j \in DOMAIN asked' : asked'[j] = variables'[j]
  BY <1>1, <1>2 DEF SettingsInv
<1>7. \A j \in DOMAIN doc' :
        /\ j \in Indices /\ IsJson(doc'[j])
        /\ j \in DOMAIN asked' /\ group[j].config
             => doc'[j] = ToJson(group[j].kind, variables'[j])
  BY <1>1, <1>2, <1>3 DEF SettingsInv
<1>8. \E S : doc' \in Seq(S)
  BY <1>3 DEF SettingsInv
<1> QED
  BY <1>1, <1>3, <1>4, <1>5, <1>6, <1>7, <1>8 DEF SettingsInv

(* The next variable is written as it is now.                              *)
LEMMA WriteVariableKeeps == ASSUME SettingsInv, WriteVariable PROVE SettingsInv'
<1> DEFINE i == Len(doc) + 1
           json == IF group[i].config THEN ToJson(group[i].kind, variables[i]) ELSE Null
<1>1. PICK S : doc \in Seq(S)
  BY DEF SettingsInv
<1>2. /\ handler = "open" /\ i \in Indices /\ doc' = Append(doc, json)
      /\ UNCHANGED <<group, variables, preexisted, handler, flash, file, asked, kept>>
  BY DEF WriteVariable
<1>3. IsJson(json) /\ (group[i].config => json = ToJson(group[i].kind, variables[i]))
  <2>1. IsJson(ToJson(group[i].kind, variables[i]))
    BY <1>2, ToJsonTyped DEF SettingsInv
  <2> QED
    BY <2>1 DEF IsJson, Null
<1> HIDE DEF json
<1>4. /\ doc' \in Seq(S \union {json})
      /\ DOMAIN doc' = DOMAIN doc \union {i} /\ doc'[i] = json
      /\ \A j \in DOMAIN doc : doc'[j] = doc[j]
  BY <1>1, <1>2
<1>5. Indices' = Indices /\ Defaults' = Defaults
  BY <1>2 DEF Indices, Defaults
<1>6. \A j \in DOMAIN doc' :
        /\ j \in Indices /\ IsJson(doc'[j])
        /\ j \in DOMAIN asked' /\ group[j].config
             => doc'[j] = ToJson(group[j].kind, variables'[j])
  BY <1>2, <1>3, <1>4 DEF SettingsInv
<1>7. \E T : doc' \in Seq(T)
  BY <1>4
<1> HIDE DEF i
<1> QED
  BY <1>2, <1>5, <1>6, <1>7 DEF SettingsInv

(* A file that is complete holds every variable as the form left it, if it *)
(* can hold it at all.                                                     *)
LEMMA CloseConfigKeeps == ASSUME SettingsInv, CloseConfig PROVE SettingsInv'
<1>1. /\ handler = "open" /\ Len(doc) = Len(group) /\ file' = doc
      /\ kept' = [i \in { j \in DOMAIN asked : Storable(j) } |-> asked[i].value]
      /\ handler' = "idle" /\ doc' = <<>> /\ asked' = NoValues
      /\ UNCHANGED <<group, variables, preexisted, flash>>
  BY DEF CloseConfig, Reply, WifiReply, PlainReply, Replied
<1>2. DOMAIN NoValues = {} /\ <<>> \in Seq({}) /\ DOMAIN <<>> = {}
  BY DEF NoValues
<1>3. Indices' = Indices /\ Defaults' = Defaults
  BY <1>1 DEF Indices, Defaults
<1>4. DOMAIN doc = Indices
  <2>1. Indices = 1 .. Len(group)
    BY DefaultsTyped DEF SettingsInv
  <2> QED
    BY <1>1, <2>1 DEF SettingsInv
<1>5. DOMAIN file' = Indices /\ \A i \in Indices : IsJson(file'[i])
  BY <1>1, <1>4 DEF SettingsInv
<1>6. flash' = "formatted"
  BY <1>1 DEF SettingsInv
<1>7. ASSUME NEW i \in DOMAIN kept'
      PROVE  /\ i \in Indices /\ file' # <<>>
             /\ group[i].config /\ file'[i].is # "null"
             /\ FromJson(group[i].kind, Defaults[i], file'[i]).value = kept'[i]
  <2>1. i \in DOMAIN asked /\ Storable(i) /\ kept'[i] = asked[i].value
    BY <1>1
  <2>2. i \in Indices /\ asked[i] = variables[i] /\ IsVariable(group[i].kind, variables[i])
    BY <2>1 DEF SettingsInv
  <2>3. group[i].config /\ file'[i] = ToJson(group[i].kind, variables[i])
    BY <1>1, <1>4, <2>1, <2>2 DEF SettingsInv, Storable
  <2>4. /\ ~variables[i].failed
        /\ group[i].kind = "float" => variables[i].value # NaN
        /\ group[i].kind = "enumStr" => variables[i].value + 1 \in DOMAIN ValueNames
    BY <2>1, <2>2 DEF Storable
  <2>5. IsVariable(group[i].kind, Defaults[i])
    BY <2>2, DefaultsTyped DEF SettingsInv
  <2>6. /\ ToJson(group[i].kind, variables[i]).is # "null"
        /\ FromJson(group[i].kind, Defaults[i], ToJson(group[i].kind, variables[i])).value
             = variables[i].value
    BY <2>2, <2>4, <2>5, JsonRoundTrip
  <2>7. file' # <<>>
    BY <1>1, <1>2, <1>4, <2>2
  <2> QED
    BY <2>1, <2>2, <2>3, <2>6, <2>7
<1>8. \E S : doc' \in Seq(S)
  BY <1>1, <1>2
<1>9. group' = group /\ variables' = variables
  BY <1>1
<1> QED
  BY <1>1, <1>2, <1>3, <1>5, <1>6, <1>7, <1>8, <1>9 DEF SettingsInv

(* Every step keeps SettingsInv.                                           *)
LEMMA StepSettingsInv == SettingsInv /\ [SettingsNext]_settingsVars => SettingsInv'
<1> SUFFICES ASSUME SettingsInv, [SettingsNext]_settingsVars PROVE SettingsInv'
  OBVIOUS
<1>1. CASE PowerLoss \/ Restart
  BY <1>1, BootKeeps DEF PowerLoss, Restart
<1>2. CASE PostUnedited \/ PostEdited \/ PostPartly
  BY <1>2, ReadFormKeeps DEF PostUnedited, PostEdited, PostPartly
<1>3. CASE WriteRefused \/ OpenConfig
  <2>1. /\ handler = "read" /\ UNCHANGED <<group, variables, preexisted, flash, file, kept>>
        /\ \/ handler' = "idle" /\ doc' = <<>> /\ asked' = NoValues
           \/ preexisted /\ handler' = "open" /\ doc' = doc /\ asked' = asked
    BY <1>3 DEF WriteRefused, OpenConfig, Reply, WifiReply, PlainReply, Replied
  <2>2. doc = <<>>
    BY <2>1 DEF SettingsInv
  <2>3. DOMAIN NoValues = {}
    BY DEF NoValues
  <2>4. Indices' = Indices /\ Defaults' = Defaults
    BY <2>1 DEF Indices, Defaults
  <2>5. doc' = doc /\ \E S : doc' \in Seq(S)
    BY <2>1, <2>2 DEF SettingsInv
  <2> QED
    BY <2>1, <2>2, <2>3, <2>4, <2>5 DEF SettingsInv
<1>4. CASE WriteVariable
  BY <1>4, WriteVariableKeeps
<1>5. CASE CloseConfig
  BY <1>5, CloseConfigKeeps
<1>6. CASE Assign
  <2>1. PICK i \in Indices : Changes(i, Assigned(variables[i], group[i].default))
    BY <1>6 DEF Assign
  <2>2. IsVariable(group[i].kind, State(group[i].default, FALSE))
    BY DefaultsTyped DEF SettingsInv
  <2>3. IsVariable(group[i].kind, Assigned(variables[i], group[i].default))
    BY <2>2 DEF Assigned
  <2> QED
    BY <2>1, <2>3, ChangesKeeps
<1>7. CASE SetFailed
  <2>1. PICK i \in Indices : Changes(i, Failed(variables[i]))
    BY <1>7 DEF SetFailed
  <2>2. IsVariable(group[i].kind, Failed(variables[i]))
    BY ChangeTyped DEF SettingsInv
  <2> QED
    BY <2>1, <2>2, ChangesKeeps
<1>8. CASE UpdateFromJson
  <2>1. PICK i \in Settable, json \in JsonInputs :
          Changes(i, FromJson(group[i].kind, variables[i], json))
    BY <1>8 DEF UpdateFromJson
  <2>2. i \in Indices /\ IsVariable(group[i].kind, variables[i])
    BY DEF Settable, SettingsInv
  <2>3. IsVariable(group[i].kind, FromJson(group[i].kind, variables[i], json))
    BY <2>2, SettingsAssumption, FromJsonTyped
  <2> QED
    BY <2>1, <2>2, <2>3, ChangesKeeps
<1>9. CASE UNCHANGED settingsVars
  <2>1. UNCHANGED <<group, variables, flash, preexisted, handler, doc, asked, file, kept>>
    BY <1>9 DEF settingsVars, ram
  <2>2. Indices' = Indices /\ Defaults' = Defaults
    BY <2>1 DEF Indices, Defaults
  <2>3. \E S : doc' \in Seq(S)
    BY <2>1 DEF SettingsInv
  <2> QED
    BY <2>1, <2>2, <2>3 DEF SettingsInv
<1> QED
  BY <1>1, <1>2, <1>3, <1>4, <1>5, <1>6, <1>7, <1>8, <1>9 DEF SettingsNext

(* For every group of variables, every text and every JSON value that they *)
(* are given: a boot, at any step of the form's handler, brings back what  *)
(* the last form left that was saved, all of it, and nothing of a later    *)
(* one (write_config(), read_config(), toJson(), fromJson()).              *)
THEOREM SavedIsRestored == SettingsSpec => RestartRestores
<1>1. ASSUME SettingsInv, Boot
      PROVE  \A i \in DOMAIN kept : variables'[i].value = kept[i]
  BY <1>1, BootRestores DEF Boot
<1>2. SettingsInv /\ [SettingsNext]_settingsVars
        => [Boot => \A i \in DOMAIN kept : variables'[i].value = kept[i]]_settingsVars
  BY <1>1
<1> QED
  BY <1>2, InitSettingsInv, StepSettingsInv, PTL DEF SettingsSpec, RestartRestores

(* Whatever the settings are, a form that is posted as it was shown rounds *)
(* each number to the decimals of its variable and changes no other        *)
(* setting, but for texts with a quote and enumeration values without a    *)
(* name (formEntry(), string(), fromString()).                             *)
THEOREM UneditedFormKept == SettingsSpec => UneditedKept
<1>1. ASSUME SettingsInv, PostUnedited
      PROVE  \A i \in Settable :
               \/ variables'[i].value = variables[i].value
               \/ /\ group[i].kind = "float"
                  /\ variables'[i].value = Rounded(variables[i].value, group[i].decimals)
               \/ group[i].kind = "string" /\ variables[i].value = Quoted
               \/ /\ group[i].kind = "enumStr"
                  /\ variables[i].value + 1 \notin DOMAIN ValueNames
  <2> TAKE i \in Settable
  <2>1. i \in Indices /\ IsVariable(group[i].kind, variables[i]) /\ group[i].decimals \in Nat
    BY <1>1, SettingsAssumption DEF Settable, SettingsInv, Indices
  <2>2. variables'[i] = FromString(group[i].kind, variables[i], Shown(i))
    <3> DEFINE texts == [j \in Settable |-> Shown(j)]
    <3>1. ReadForm(texts)
      BY <1>1 DEF PostUnedited
    <3>2. i \in DOMAIN texts /\ texts[i] = Shown(i)
      OBVIOUS
    <3> HIDE DEF texts
    <3>3. variables'[i] = IF i \in DOMAIN texts
                          THEN FromString(group[i].kind, variables[i], texts[i]) ELSE variables[i]
      BY <2>1, <3>1, Zenon DEF ReadForm
    <3> QED
      BY <3>2, <3>3
  <2>3. variables'[i]
          = FromString(group[i].kind, variables[i],
                       FormEntry(group[i].kind, group[i].decimals, variables[i]))
    BY <2>2 DEF Shown
  <2> QED
    BY <2>1, <2>3, FormRoundTrip
<1>2. SettingsInv /\ [SettingsNext]_settingsVars
        => [PostUnedited =>
              \A i \in Settable :
                \/ variables'[i].value = variables[i].value
                \/ /\ group[i].kind = "float"
                   /\ variables'[i].value = Rounded(variables[i].value, group[i].decimals)
                \/ group[i].kind = "string" /\ variables[i].value = Quoted
                \/ /\ group[i].kind = "enumStr"
                   /\ variables[i].value + 1 \notin DOMAIN ValueNames]_settingsVars
  BY <1>1
<1> QED
  BY <1>2, InitSettingsInv, StepSettingsInv, PTL DEF SettingsSpec, UneditedKept
=============================================================================
