---------------------------- MODULE DevicesProofs ----------------------------
(***************************************************************************)
(* Theorems about the devices MCDevices runs one at a time: the drivers    *)
(* that tell the time (watchdog, timer, calendar, alarm), the PWM driver,  *)
(* and the parts that tie the system together (the REE's boot control, the *)
(* way to slave 9, the interrupts' way to their drivers).  Each is proved  *)
(* of its component's own specification; at the end, of all of them.       *)
(***************************************************************************)
EXTENDS MCDevices, IicProofs, FiniteSetTheorems, TLAPS

--------------------------------------------------------------------------------
(* The watchdog never bites early, for every unit, number of ranges, clock and
   set of timeouts, and any number of calls.                               *)

WdtSpec == WdtInit /\ [][WdtNext]_wvars

WdtHistory == [asked : Nat, since : Nat, calls : Nat]
WdtTypes   == wdt \in WdtRegs /\ wrec \in WdtHistory

\* The range is long enough for what was asked last.
RangeServes == wrec.asked * WdtMs <= Cycles(wdt.range)

\* Loaded, the counter has as far to go as is missing from the timeout.
CountsDown ==
  /\ ~wdt.reset /\ ~wdt.fresh => wrec.since + wdt.cnt >= Cycles(wdt.range) - 1
  /\ wdt.reset => wrec.since >= Cycles(wdt.range)

WdtInv == WdtTypes /\ RangeServes /\ CountsDown

\* A power of two is the number of subsets of an interval.
LEMMA PowerPositive ==
  ASSUME NEW i \in Nat
  PROVE  2^i \in Nat /\ 2^i >= 1
PROOF
  <1>1. IsFiniteSet(1..i) /\ Cardinality(1..i) = i
    BY FS_Interval
  <1>2. IsFiniteSet(SUBSET (1..i)) /\ Cardinality(SUBSET (1..i)) = 2^i
    BY <1>1, FS_SUBSET
  <1>3. Cardinality(SUBSET (1..i)) \in Nat
    BY <1>2, FS_CardinalityType
  <1>4. Cardinality(SUBSET (1..i)) # 0
    BY <1>2, FS_EmptySet
  <1> QED
    BY <1>2, <1>3, <1>4

\* Every range of the watchdog is some cycles long.
LEMMA CyclesPositive ==
  ASSUME NEW i \in Ranges
  PROVE  Cycles(i) \in Nat /\ Cycles(i) >= 1
PROOF
  <1>1. 2^i \in Nat /\ 2^i >= 1
    BY PowerPositive DEF Ranges
  <1> DEFINE p == 2^i
  <1>2. p \in Nat /\ p >= 1
    BY <1>1
  <1> HIDE DEF p
  <1>3. WdtUnit * p \in Nat /\ WdtUnit * p >= 1
    BY <1>2, WdtAssumption
  <1> QED
    BY <1>3 DEF Cycles, p

\* A timeout of that many ms is that many cycles or more.
LEMMA LongEnoughIsLong ==
  ASSUME NEW ms \in Nat, NEW i \in Ranges, TimeoutMs(i) >= ms
  PROVE  ms * WdtMs <= Cycles(i)
PROOF
  <1> DEFINE c == Cycles(i)
             q == c \div WdtMs
  <1>1. c \in Nat
    BY CyclesPositive
  <1>2. q >= ms
    BY DEF TimeoutMs
  <1> HIDE DEF c
  <1>3. q \in Nat /\ q * WdtMs <= c
    BY <1>1, WdtAssumption
  <1> HIDE DEF q
  <1>4. ms * WdtMs <= q * WdtMs
    BY <1>2, <1>3, WdtAssumption
  <1>5. ms * WdtMs \in Nat /\ q * WdtMs \in Nat
    BY <1>3, WdtAssumption
  <1> QED
    BY <1>1, <1>3, <1>4, <1>5 DEF c

\* The watchdog begins in its invariant ...
LEMMA WdtStarts == WdtInit => WdtInv
PROOF
  <1> SUFFICES ASSUME WdtInit PROVE WdtInv
    OBVIOUS
  <1>1. 0 \in Ranges
    BY WdtAssumption DEF Ranges
  <1>2. Cycles(0) \in Nat /\ Cycles(0) >= 1
    BY <1>1, CyclesPositive
  <1> QED
    BY <1>1, <1>2, WdtAssumption DEF WdtInit, WdtInv, WdtTypes, WdtRegs, WdtHistory, RangeServes, CountsDown

\* ... and stays in it.
LEMMA WdtSteps == WdtInv /\ [WdtNext]_wvars => WdtInv'
PROOF
  <1> SUFFICES ASSUME WdtInv, [WdtNext]_wvars PROVE WdtInv'
    OBVIOUS
  <1> DEFINE top == Cycles(wdt.range)
  <1>t. wdt \in WdtRegs /\ wrec \in WdtHistory /\ RangeServes /\ CountsDown
    BY DEF WdtInv, WdtTypes
  <1>w. wdt \in WdtRegs
    BY <1>t
  <1>h. wrec \in WdtHistory
    BY <1>t
  <1>0. top \in Nat /\ top >= 1
    BY <1>t, CyclesPositive DEF WdtRegs
  \* Steps that leave the range, the timeout and a counter that runs alone.
  <1>q. ASSUME wdt' \in WdtRegs, wrec' \in WdtHistory,
               wdt'.range = wdt.range, wrec'.asked = wrec.asked, CountsDown'
        PROVE  WdtInv'
    BY <1>t, <1>q DEF WdtInv, WdtTypes, RangeServes
  <1>1. CASE WdtTick
    <2> HIDE DEF top
    <2>1. CASE wdt.fresh
      <3>1. wdt' = [wdt EXCEPT !.cnt = Cycles(wdt.range) - 1, !.fresh = FALSE]
            /\ wrec' = [wrec EXCEPT !.since = 0] /\ ~wdt.reset
        BY <1>1, <2>1 DEF WdtTick, Fed
      <3>2. Cycles(wdt.range) - 1 \in Nat
        BY <1>0 DEF top
      <3>3. wdt' \in WdtRegs /\ wrec' \in WdtHistory
        BY <1>t, <3>1, <3>2 DEF WdtRegs, WdtHistory
      <3>4. CountsDown'
        BY <1>t, <3>1, <3>2 DEF WdtRegs, WdtHistory, CountsDown
      <3>5. wdt'.range = wdt.range /\ wrec'.asked = wrec.asked
        BY <1>t, <3>1 DEF WdtRegs, WdtHistory
      <3> QED
        BY <1>q, <3>3, <3>4, <3>5
    <2>2. CASE ~wdt.fresh /\ wdt.cnt = 0
      <3>1. wdt' = [wdt EXCEPT !.cnt = Cycles(wdt.range) - 1, !.reset = TRUE]
            /\ wrec' = [wrec EXCEPT !.since = @ + 1] /\ ~wdt.reset
        BY <1>t, <1>1, <2>2 DEF WdtTick, WdtRegs
      <3>2. Cycles(wdt.range) - 1 \in Nat
        BY <1>0 DEF top
      <3>a. wdt' = [wdt EXCEPT !.cnt = Cycles(wdt.range) - 1, !.reset = TRUE]
        BY <3>1
      <3>b. wdt' \in WdtRegs
        BY <1>w, <3>2, <3>a DEF WdtRegs
      <3>c. wrec' \in WdtHistory
        BY <1>h, <3>1 DEF WdtHistory
      <3>3. wdt' \in WdtRegs /\ wrec' \in WdtHistory
        BY <3>b, <3>c
      <3>4. wdt'.range = wdt.range /\ wrec'.asked = wrec.asked /\ wdt'.reset
            /\ wrec'.since = wrec.since + 1
        BY <1>t, <3>1 DEF WdtRegs, WdtHistory
      <3>5. wrec.since + wdt.cnt >= top - 1 /\ wrec.since \in Nat
        BY <1>t, <2>2, <3>1 DEF CountsDown, WdtHistory, top
      <3>6. wrec'.since >= top
        BY <1>0, <2>2, <3>4, <3>5
      <3> QED
        BY <1>q, <3>3, <3>4, <3>6 DEF CountsDown, top
    <2>3. CASE ~wdt.fresh /\ wdt.cnt # 0
      <3>1. wdt' = [wdt EXCEPT !.cnt = @ - 1, !.reset = FALSE]
            /\ wrec' = [wrec EXCEPT !.since = @ + 1] /\ ~wdt.reset
        BY <1>t, <1>1, <2>3 DEF WdtTick, WdtRegs
      <3>2. wdt.cnt \in Nat /\ wdt.cnt - 1 \in Nat /\ wrec.since \in Nat
        BY <1>t, <2>3 DEF WdtRegs, WdtHistory
      <3>a. wdt' = [wdt EXCEPT !.cnt = @ - 1, !.reset = FALSE]
        BY <3>1
      <3>b. wdt' \in WdtRegs
        BY <1>w, <3>2, <3>a DEF WdtRegs
      <3>c. wrec' \in WdtHistory
        BY <1>h, <3>1 DEF WdtHistory
      <3>3. wdt' \in WdtRegs /\ wrec' \in WdtHistory
        BY <3>b, <3>c
      <3>4. wdt'.range = wdt.range /\ wrec'.asked = wrec.asked /\ ~wdt'.reset
            /\ wrec'.since = wrec.since + 1 /\ wdt'.cnt = wdt.cnt - 1
        BY <1>t, <3>1 DEF WdtRegs, WdtHistory
      <3>5. wrec.since + wdt.cnt >= top - 1
        BY <1>t, <2>3, <3>1 DEF CountsDown, top
      <3>6. wrec'.since + wdt'.cnt >= top - 1
        BY <1>0, <3>2, <3>4, <3>5
      <3> QED
        BY <1>q, <3>3, <3>4, <3>6 DEF CountsDown, top
    <2> QED
      BY <2>1, <2>2, <2>3
  <1>2. CASE WdtStart
    <2>1. wdt' = [wdt EXCEPT !.en = TRUE] /\ wrec' = [wrec EXCEPT !.calls = @ + 1]
      BY <1>2 DEF WdtStart, WdtCounted
    <2>a. wdt' \in WdtRegs
      BY <1>w, <2>1 DEF WdtRegs
    <2>b. wrec' \in WdtHistory
      BY <1>h, <2>1 DEF WdtHistory
    <2>2. wdt' \in WdtRegs /\ wrec' \in WdtHistory
      BY <2>a, <2>b
    <2>3. wdt'.range = wdt.range /\ wrec'.asked = wrec.asked /\ CountsDown'
      BY <1>t, <2>1 DEF WdtRegs, WdtHistory, CountsDown
    <2> QED
      BY <1>q, <2>2, <2>3
  <1>3. CASE WdtSetTimeout
    <2>1. CASE WdtCounted /\ UNCHANGED <<wdt, wmain>>
      <3>1. wdt' = wdt /\ wrec' = [wrec EXCEPT !.calls = @ + 1]
        BY <2>1 DEF WdtCounted
      <3>2. wrec' \in WdtHistory /\ wrec'.asked = wrec.asked /\ wrec'.since = wrec.since
        BY <1>t, <3>1 DEF WdtHistory
      <3> QED
        BY <1>t, <1>q, <3>1, <3>2 DEF CountsDown
    <2>2. ASSUME NEW ms \in WdtValues, NEW i \in RangesFor(ms), ~wdt.reset,
                 wdt' = [wdt EXCEPT !.en = FALSE, !.fresh = TRUE, !.range = i],
                 wrec' = [wrec EXCEPT !.asked = ms, !.calls = @ + 1]
          PROVE  WdtInv'
      <3>1. i \in Ranges /\ TimeoutMs(i) >= ms /\ ms \in Nat
        BY WdtAssumption DEF RangesFor, LongEnough
      <3>2. ms * WdtMs <= Cycles(i)
        BY <3>1, LongEnoughIsLong
      <3>3. wdt'.range = i /\ wdt'.fresh /\ ~wdt'.reset /\ wrec'.asked = ms
        BY <1>t, <2>2 DEF WdtRegs, WdtHistory
      <3>a. wdt' \in WdtRegs
        BY <1>w, <2>2, <3>1 DEF WdtRegs
      <3>c. wrec' = [wrec EXCEPT !.asked = ms, !.calls = @ + 1] /\ ms \in Nat
        BY <2>2, <3>1
      <3>b. wrec' \in WdtHistory
        <4>1. wrec.calls \in Nat /\ wrec.since \in Nat
          BY <1>h DEF WdtHistory
        <4>2. wrec.calls + 1 \in Nat
          BY <4>1
        <4>3. wrec' = [asked |-> ms, since |-> wrec.since, calls |-> wrec.calls + 1]
          BY <1>h, <3>c DEF WdtHistory
        <4> QED
          BY <3>c, <4>1, <4>2, <4>3 DEF WdtHistory
      <3>4. wdt' \in WdtRegs /\ wrec' \in WdtHistory
        BY <3>a, <3>b
      <3> QED
        BY <3>2, <3>3, <3>4 DEF WdtInv, WdtTypes, RangeServes, CountsDown
    <2> QED
      BY <1>3, <2>1, <2>2 DEF WdtSetTimeout, WdtCall
  <1>4. CASE WdtEnable
    <2>1. wdt' = [wdt EXCEPT !.en = TRUE] /\ wrec' = wrec
      BY <1>4 DEF WdtEnable
    <2>2. wdt' \in WdtRegs
      BY <1>t, <2>1 DEF WdtRegs
    <2>3. wdt'.range = wdt.range /\ CountsDown'
      BY <1>t, <2>1 DEF WdtRegs, CountsDown
    <2> QED
      BY <1>q, <1>t, <2>1, <2>2, <2>3
  <1>5. CASE WdtRestart
    <2>1. PICK n \in {wrec.calls, wrec.calls + 1} :
            wrec' = [wrec EXCEPT !.since = 0, !.calls = n]
      BY <1>t, <1>5 DEF WdtRestart, WdtHistory
    <2>2. wdt' = [wdt EXCEPT !.cnt = Cycles(wdt.range) - 1] /\ ~wdt.reset
      BY <1>5 DEF WdtRestart
    <2>3. Cycles(wdt.range) - 1 \in Nat /\ n \in Nat
      BY <1>0, <1>t DEF WdtHistory
    <2>4. wdt' \in WdtRegs /\ wrec' \in WdtHistory
      BY <1>t, <2>1, <2>2, <2>3 DEF WdtRegs, WdtHistory
    <2>5. wdt'.range = wdt.range /\ wdt'.cnt = Cycles(wdt.range) - 1 /\ ~wdt'.reset
          /\ wrec'.asked = wrec.asked /\ wrec'.since = 0
      BY <1>t, <2>1, <2>2 DEF WdtRegs, WdtHistory
    <2> QED
      BY <1>q, <2>3, <2>4, <2>5 DEF CountsDown
  <1>6. CASE UNCHANGED wvars
    BY <1>6 DEF wvars, WdtInv, WdtTypes, RangeServes, CountsDown
  <1> QED
    BY <1>1, <1>2, <1>3, <1>4, <1>5, <1>6 DEF WdtNext

\* A watchdog that resets the chip has not been fed for the time it was asked to
\* wait, whatever timeouts were set before and in between.
THEOREM BitesInTime == WdtSpec => []NeverBitesEarly
PROOF
  <1>1. WdtInv => NeverBitesEarly
    <2> SUFFICES ASSUME WdtInv, wdt.reset PROVE wrec.since >= wrec.asked * WdtMs
      BY DEF NeverBitesEarly
    <2>1. Cycles(wdt.range) \in Nat
      BY CyclesPositive DEF WdtInv, WdtTypes, WdtRegs
    <2>2. wrec.since \in Nat /\ wrec.asked * WdtMs \in Nat
      BY WdtAssumption DEF WdtInv, WdtTypes, WdtHistory
    <2> QED
      BY <2>1, <2>2 DEF WdtInv, RangeServes, CountsDown
  <1> QED
    BY <1>1, WdtStarts, WdtSteps, PTL DEF WdtSpec

--------------------------------------------------------------------------------
(* A timer reports its timeout in time, for every width of the counter, clock and
   set of timeouts, and any number of calls.                               *)

TimerSpec == TimerInit /\ [][TimerNext]_tvars

TimerHistory == [asked : Nat, ran : Nat, calls : Nat]
TimerTypes   == TimerTypeOK /\ trec \in TimerHistory

\* The counter is loaded with all of a timeout that fits it.
LoadServes == tmain # "on" /\ trec.asked * TimerUs < TimerMod => tim.load >= trec.asked * TimerUs

\* So it is when a start has written the load, for the timeout to come.
LoadReady == tmain = "on" /\ tpriv.timeout * TimerUs < TimerMod => tim.load >= tpriv.timeout * TimerUs

\* Loaded, it has as far to go as is missing from the load.
RunsDown == tmain # "on" /\ tim.en /\ ~tim.fresh => trec.ran + tim.cnt >= tim.load + 1

\* The interrupt waits for the end of the count.
RaisedInTime == tmain # "on" /\ tim.raw => trec.ran >= tim.load + 1

TimerInv == TimerTypes /\ LoadServes /\ LoadReady /\ RunsDown /\ RaisedInTime

\* The product of a timeout that fits is not cut.
LEMMA LoadOfFits ==
  ASSUME NEW us \in Nat
  PROVE  /\ LoadOf(us) \in TimCounts
         /\ us * TimerUs < TimerMod => LoadOf(us) = us * TimerUs
PROOF
  <1> DEFINE p == us * TimerUs
  <1>1. p \in Nat
    BY TimerAssumption
  <1>2. LoadOf(us) = p % TimerMod
    BY DEF LoadOf
  <1> HIDE DEF p
  <1>3. p % TimerMod \in TimCounts /\ (p < TimerMod => p % TimerMod = p)
    BY <1>1, TimerAssumption DEF TimCounts
  <1> QED
    BY <1>2, <1>3 DEF p

\* The timer begins in its invariant.
LEMMA TimerStarts == TimerInit => TimerInv
PROOF
  <1> SUFFICES ASSUME TimerInit PROVE TimerInv
    OBVIOUS
  <1>1. 0 \in TimCounts /\ Top \in TimCounts /\ 0 * TimerUs = 0
    BY TimerAssumption DEF TimCounts, Top
  <1> QED
    BY <1>1 DEF TimerInit, TimerInv, TimerTypes, TimerTypeOK, TimRegs, TimPriv, TimerHistory,
                LoadServes, LoadReady, RunsDown, RaisedInTime

\* A call that leaves the count alone, or switches the timer off, loads nothing
\* and asks for nothing new.
LEMMA TimerQuiet ==
  ASSUME TimerInv, TimerTypes',
         tim'.load = tim.load, trec'.asked = trec.asked, trec'.ran = trec.ran, tmain' = tmain,
         tmain = "on" => tpriv'.timeout = tpriv.timeout,
         tim'.raw => tim.raw,
         tim'.en /\ ~tim'.fresh => tim.en /\ ~tim.fresh /\ tim'.cnt = tim.cnt
  PROVE  TimerInv'
PROOF
  <1>1. LoadServes'
    BY DEF TimerInv, LoadServes
  <1>2. RunsDown'
    BY DEF TimerInv, RunsDown
  <1>3. RaisedInTime'
    BY DEF TimerInv, RaisedInTime
  <1>4. LoadReady'
    BY DEF TimerInv, LoadReady
  <1> QED
    BY <1>1, <1>2, <1>3, <1>4 DEF TimerInv

\* The counter's steps keep the invariant of the timer.
LEMMA TimerTicks == TimerInv /\ TimerTick => TimerInv'
PROOF
  <1> SUFFICES ASSUME TimerInv, TimerTick PROVE TimerInv'
    OBVIOUS
  <1>t. tim \in TimRegs
    BY DEF TimerInv, TimerTypes, TimerTypeOK
  <1>h. trec \in TimerHistory
    BY DEF TimerInv, TimerTypes
  <1> DEFINE n == IF tim.fresh THEN tim.load
                  ELSE IF tim.cnt > 0 THEN tim.cnt - 1
                  ELSE IF tim.reload THEN tim.load ELSE Top
             up == tim.raw \/ (tim.cnt = 0 /\ ~tim.fresh)
             ran == IF trec.ran < 2 * TimerMod THEN trec.ran + 1 ELSE trec.ran
  <1>1. n \in TimCounts /\ up \in BOOLEAN /\ ran \in Nat
    BY <1>t, <1>h, TimerAssumption DEF TimRegs, TimCounts, Top, TimerHistory
  <1>2. tim.load \in Nat /\ tim.load < TimerMod /\ tim.cnt \in Nat /\ trec.ran \in Nat
    BY <1>t, <1>h, TimerAssumption DEF TimRegs, TimCounts, TimerHistory
  <1>3. tim' = [tim EXCEPT !.fresh = FALSE, !.raw = up, !.cnt = n]
    BY DEF TimerTick
  <1>4. trec' = [trec EXCEPT !.ran = ran] /\ tpriv' = tpriv /\ tmain' = tmain /\ tim.en
    BY DEF TimerTick
  <1>5. n \in Nat /\ n >= IF tim.fresh THEN tim.load ELSE tim.cnt - 1
    BY <1>2, TimerAssumption DEF Top
  <1>6. ran >= IF trec.ran < tim.load + 1 THEN trec.ran + 1 ELSE tim.load + 1
    BY <1>2, TimerAssumption
  <1>u. up <=> tim.raw \/ (tim.cnt = 0 /\ ~tim.fresh)
    OBVIOUS
  <1> HIDE DEF n, up, ran
  <1>7. tim' \in TimRegs
    BY <1>t, <1>1, <1>3 DEF TimRegs
  <1>8. trec' \in TimerHistory
    BY <1>h, <1>1, <1>4 DEF TimerHistory
  <1>9. tim'.load = tim.load /\ ~tim'.fresh /\ tim'.cnt = n /\ trec'.asked = trec.asked /\ trec'.ran = ran
    BY <1>t, <1>h, <1>3, <1>4 DEF TimRegs, TimerHistory
  <1>10. tim'.raw = up
    BY <1>t, <1>3 DEF TimRegs
  <1>11. LoadServes' /\ LoadReady'
    BY <1>4, <1>9 DEF TimerInv, LoadServes, LoadReady
  <1>12. tmain # "on" => ran + n >= tim.load + 1
    <2> SUFFICES ASSUME tmain # "on" PROVE ran + n >= tim.load + 1
      OBVIOUS
    <2>1. CASE tim.fresh
      BY <1>1, <1>2, <1>5, <1>6, <2>1
    <2>2. CASE ~tim.fresh
      <3>1. trec.ran + tim.cnt >= tim.load + 1
        BY <1>4, <2>2 DEF TimerInv, RunsDown
      <3> QED
        BY <1>1, <1>2, <1>5, <1>6, <2>2, <3>1
    <2> QED
      BY <2>1, <2>2
  <1>13. tmain # "on" /\ up => ran >= tim.load + 1
    <2> SUFFICES ASSUME tmain # "on", up PROVE ran >= tim.load + 1
      OBVIOUS
    <2>1. CASE tim.raw
      BY <1>1, <1>2, <1>6, <2>1 DEF TimerInv, RaisedInTime
    <2>2. CASE tim.cnt = 0 /\ ~tim.fresh
      BY <1>1, <1>2, <1>4, <1>6, <2>2 DEF TimerInv, RunsDown
    <2> QED
      BY <1>u, <2>1, <2>2
  <1> QED
    BY <1>7, <1>8, <1>9, <1>10, <1>11, <1>12, <1>13, <1>4
    DEF TimerInv, TimerTypes, TimerTypeOK, RunsDown, RaisedInTime

\* The three steps of a start keep the invariant of the timer.
LEMMA TimerBegins == TimerInv /\ (TimerStart \/ TimerLoad \/ TimerSwitch) => TimerInv'
PROOF
  <1> SUFFICES ASSUME TimerInv, TimerStart \/ TimerLoad \/ TimerSwitch PROVE TimerInv'
    OBVIOUS
  <1>t. tim \in TimRegs /\ tpriv \in TimPriv
    BY DEF TimerInv, TimerTypes, TimerTypeOK
  <1>h. trec \in TimerHistory
    BY DEF TimerInv, TimerTypes
  <1> DEFINE us == tpriv.timeout
             load == IF us = 0 \/ Bare(tim) THEN Top ELSE LoadOf(us)
  <1>1. us \in Nat /\ Top \in TimCounts
    BY <1>t, TimerAssumption DEF TimPriv, Top, TimCounts
  <1>2. load \in TimCounts
    BY <1>1, LoadOfFits
  <1>3. us * TimerUs < TimerMod => load >= us * TimerUs
    <2> DEFINE p == us * TimerUs
    <2>1. p \in Nat
      BY <1>1, TimerAssumption
    <2>2. us \in Nat /\ (p < TimerMod => LoadOf(us) = p)
      BY <1>1, LoadOfFits
    <2>3. load = Top \/ load = LoadOf(us)
      OBVIOUS
    <2> HIDE DEF p, load
    <2>4. p < TimerMod => load >= p
      BY <2>1, <2>2, <2>3, TimerAssumption DEF Top
    <2> QED
      BY <2>4 DEF p
  <1>4. CASE TimerStart
    <2>1. /\ tpriv' = [tpriv EXCEPT !.late = FALSE] /\ tmain = "free" /\ tmain' = "load" /\ tim' = tim
          /\ trec' = [trec EXCEPT !.calls = @ + 1]
      BY <1>4 DEF TimerStart, TimerOpen, TimerCall
    <2>2. tpriv' \in TimPriv
      BY <1>t, <2>1 DEF TimPriv
    <2>3. trec' \in TimerHistory /\ trec'.asked = trec.asked /\ trec'.ran = trec.ran
      BY <1>h, <2>1 DEF TimerHistory
    <2> QED
      BY <1>t, <2>1, <2>2, <2>3
      DEF TimerInv, TimerTypes, TimerTypeOK, LoadServes, LoadReady, RunsDown, RaisedInTime
  <1>5. CASE TimerLoad
    <2>1. tim' = [tim EXCEPT !.load = load] /\ tpriv' = tpriv /\ trec' = trec /\ tmain' = "on"
      BY <1>5 DEF TimerLoad
    <2>2. us' = us
      BY <2>1
    <2> HIDE DEF us, load
    <2>3. tim' \in TimRegs /\ tim'.load = load
      BY <1>t, <1>2, <2>1 DEF TimRegs
    <2>4. LoadReady'
      BY <1>3, <2>2, <2>3 DEF LoadReady, us
    <2> QED
      BY <1>t, <1>h, <2>1, <2>3, <2>4
      DEF TimerInv, TimerTypes, TimerTypeOK, LoadServes, RunsDown, RaisedInTime
  <1>6. CASE TimerSwitch
    <2>1. /\ tim' = [TimerOff(tim) EXCEPT !.en = TRUE, !.masked = FALSE] /\ tpriv' = tpriv
          /\ trec' = [trec EXCEPT !.asked = us, !.ran = 0] /\ tmain = "on" /\ tmain' = "free"
      BY <1>6 DEF TimerSwitch, Switched
    <2>2. us * TimerUs < TimerMod => tim.load >= us * TimerUs
      BY <2>1 DEF TimerInv, LoadReady
    <2> HIDE DEF us
    <2>3. tim' \in TimRegs /\ tim'.load = tim.load /\ tim'.fresh /\ ~tim'.raw
      BY <1>t, <1>1, <2>1 DEF TimRegs, TimerOff
    <2>4. trec' \in TimerHistory /\ trec'.asked = us
      BY <1>h, <1>1, <2>1 DEF TimerHistory
    <2> QED
      BY <1>t, <2>1, <2>2, <2>3, <2>4
      DEF TimerInv, TimerTypes, TimerTypeOK, LoadServes, LoadReady, RunsDown, RaisedInTime
  <1> QED
    BY <1>4, <1>5, <1>6

\* Every step of the timer keeps its invariant.
LEMMA TimerSteps == TimerInv /\ [TimerNext]_tvars => TimerInv'
PROOF
  <1> SUFFICES ASSUME TimerInv, [TimerNext]_tvars PROVE TimerInv'
    OBVIOUS
  <1>t. tim \in TimRegs /\ tpriv \in TimPriv
    BY DEF TimerInv, TimerTypes, TimerTypeOK
  <1>h. trec \in TimerHistory
    BY DEF TimerInv, TimerTypes
  <1>m. tmain \in {"free", "load", "on"}
    BY DEF TimerInv, TimerTypes, TimerTypeOK
  <1>c. TimerCounted => /\ trec' \in TimerHistory /\ trec'.asked = trec.asked /\ trec'.ran = trec.ran
                        /\ tmain' = tmain
    BY <1>h DEF TimerCounted, TimerHistory
  <1>f. TimerOpen \/ TimerCall => tmain # "on"
    BY DEF TimerOpen, TimerCall
  <1>top. Top \in TimCounts /\ DefaultTimeout \in Nat
    <2> DEFINE s == TimerUs * TimerSecond
               q == Top \div s
    <2>1. Top \in Nat /\ Top \in TimCounts /\ s \in Nat \ {0}
      BY TimerAssumption DEF Top, TimCounts
    <2> HIDE DEF s
    <2>2. q \in Nat
      BY <2>1
    <2> HIDE DEF q
    <2>3. q * TimerSecond \in Nat
      BY <2>2, TimerAssumption
    <2> QED
      BY <2>1, <2>3 DEF DefaultTimeout, q, s
  <1>1. CASE TimerTick
    BY <1>1, TimerTicks
  <1>2. CASE TimerInterrupt
    <2>1. tim' = [tim EXCEPT !.raw = FALSE] /\ tpriv' = [tpriv EXCEPT !.late = TRUE] /\ trec' = trec /\ tmain' = tmain
      BY <1>2 DEF TimerInterrupt
    <2>2. tim' \in TimRegs
      BY <1>t, <2>1 DEF TimRegs
    <2>3. tpriv' \in TimPriv /\ tpriv'.timeout = tpriv.timeout
      BY <1>t, <2>1 DEF TimPriv
    <2> QED
      BY <1>t, <1>h, <1>m, <2>1, <2>2, <2>3, TimerQuiet DEF TimerTypes, TimerTypeOK, TimRegs
  <1>3. CASE TimerInitialize
    <2>1. PICK cb \in BOOLEAN :
            /\ tpriv' = [tpriv EXCEPT !.open = TRUE, !.cb = cb, !.timeout = DefaultTimeout]
            /\ tim' = [TimerOff(tim) EXCEPT !.masked = TRUE, !.irq = @ \/ cb]
      BY <1>3 DEF TimerInitialize
    <2>2. tim' \in TimRegs
      BY <1>t, <1>top, <2>1 DEF TimRegs, TimerOff
    <2>3. tpriv' \in TimPriv
      BY <1>t, <1>top, <2>1 DEF TimPriv
    <2>4. tim'.load = tim.load /\ ~tim'.raw /\ ~tim'.en
      BY <1>t, <2>1 DEF TimRegs, TimerOff
    <2> QED
      BY <1>3, <1>c, <1>f, <1>m, <2>2, <2>3, <2>4, TimerQuiet DEF TimerTypes, TimerTypeOK, TimerInitialize
  <1>4. CASE TimerUninitialize
    <2>1. /\ tpriv' = [tpriv EXCEPT !.open = FALSE, !.cb = FALSE]
          /\ tim' = [TimerOff(tim) EXCEPT !.masked = TRUE, !.irq = FALSE]
      BY <1>4 DEF TimerUninitialize
    <2>2. tim' \in TimRegs
      BY <1>t, <1>top, <2>1 DEF TimRegs, TimerOff
    <2>3. tpriv' \in TimPriv
      BY <1>t, <2>1 DEF TimPriv
    <2>4. tim'.load = tim.load /\ ~tim'.raw /\ ~tim'.en
      BY <1>t, <2>1 DEF TimRegs, TimerOff
    <2> QED
      BY <1>4, <1>c, <1>f, <1>m, <2>2, <2>3, <2>4, TimerQuiet DEF TimerTypes, TimerTypeOK, TimerUninitialize
  <1>5. CASE TimerConfig
    <2>1. PICK reload \in BOOLEAN : tim' = [tim EXCEPT !.reload = reload, !.trigger = TRUE]
      BY <1>5 DEF TimerConfig
    <2>2. tim' \in TimRegs
      BY <1>t, <2>1 DEF TimRegs
    <2>3. tim'.load = tim.load /\ tim'.raw = tim.raw /\ tim'.en = tim.en
          /\ tim'.fresh = tim.fresh /\ tim'.cnt = tim.cnt
      BY <1>t, <2>1 DEF TimRegs
    <2> QED
      BY <1>5, <1>t, <1>c, <1>f, <1>m, <2>2, <2>3, TimerQuiet DEF TimerTypes, TimerTypeOK, TimerConfig
  <1>6. CASE TimerSetTimeout
    <2>1. PICK us \in Timeouts : tpriv' = [tpriv EXCEPT !.timeout = us]
      BY <1>6 DEF TimerSetTimeout
    <2>2. tpriv' \in TimPriv
      BY <1>t, <2>1, TimerAssumption DEF TimPriv
    <2> QED
      BY <1>6, <1>t, <1>c, <1>f, <1>m, <2>2, TimerQuiet DEF TimerTypes, TimerTypeOK, TimerSetTimeout
  <1>7. CASE TimerStart \/ TimerLoad \/ TimerSwitch
    BY <1>7, TimerBegins
  <1>8. CASE TimerStop
    <2>1. tim' = [TimerOff(tim) EXCEPT !.masked = TRUE]
      BY <1>8 DEF TimerStop
    <2>2. tim' \in TimRegs
      BY <1>t, <1>top, <2>1 DEF TimRegs, TimerOff
    <2>3. tim'.load = tim.load /\ ~tim'.raw /\ ~tim'.en
      BY <1>t, <2>1 DEF TimRegs, TimerOff
    <2> QED
      BY <1>8, <1>t, <1>c, <1>f, <1>m, <2>2, <2>3, TimerQuiet DEF TimerTypes, TimerTypeOK, TimerStop
  <1>9. CASE TimerResume
    <2>1. tim' = [TimerOff(tim) EXCEPT !.reload = FALSE, !.masked = FALSE, !.trigger = FALSE]
      BY <1>9 DEF TimerResume
    <2>2. tim' \in TimRegs
      BY <1>t, <1>top, <2>1 DEF TimRegs, TimerOff
    <2>3. tim'.load = tim.load /\ ~tim'.raw /\ ~tim'.en
      BY <1>t, <2>1 DEF TimRegs, TimerOff
    <2> QED
      BY <1>9, <1>t, <1>c, <1>f, <1>m, <2>2, <2>3, TimerQuiet DEF TimerTypes, TimerTypeOK, TimerResume
  <1>10. CASE UNCHANGED tvars
    BY <1>10 DEF tvars, TimerInv, TimerTypes, TimerTypeOK, LoadServes, LoadReady, RunsDown, RaisedInTime
  <1> QED
    BY <1>1, <1>2, <1>3, <1>4, <1>5, <1>6, <1>7, <1>8, <1>9, <1>10 DEF TimerNext

\* The flag that get_status reports goes up in the interrupt only, and that one
\* is raised no earlier than the timeout of the last start, if it fits the
\* counter, whatever is set, configured, stopped and started in between.
THEOREM TimeoutIsInTime == TimerSpec => TimeoutInTime
PROOF
  <1> DEFINE Late == tmain = "free" /\ tpriv'.late /\ ~tpriv.late /\ trec.asked * TimerUs < TimerMod
                       => trec.ran >= trec.asked * TimerUs
  <1>1. TimerInv /\ [TimerNext]_tvars => [Late]_tvars
    <2> SUFFICES ASSUME TimerInv, TimerNext, tmain = "free", tpriv'.late, ~tpriv.late,
                        trec.asked * TimerUs < TimerMod
                 PROVE  trec.ran >= trec.asked * TimerUs
      OBVIOUS
    <2>1. tpriv \in TimPriv
      BY SMTT(60) DEF TimerInv, TimerTypes, TimerTypeOK
    <2>2. tim.raw
      BY <2>1 DEF TimerNext, TimPriv, TimerTick, TimerInterrupt, TimerInitialize, TimerUninitialize,
                  TimerConfig, TimerSetTimeout, TimerStart, TimerLoad, TimerSwitch, TimerStop, TimerResume
    <2>3. trec.ran >= tim.load + 1 /\ tim.load >= trec.asked * TimerUs
      BY <2>2 DEF TimerInv, RaisedInTime, LoadServes
    <2>4. trec.ran \in Nat /\ tim.load \in Nat /\ trec.asked * TimerUs \in Nat
      BY TimerAssumption DEF TimerInv, TimerTypes, TimerTypeOK, TimRegs, TimCounts, TimerHistory
    <2> QED
      BY <2>3, <2>4
  <1> QED
    BY <1>1, TimerStarts, TimerSteps, PTL DEF TimerSpec, TimeoutInTime

--------------------------------------------------------------------------------
(* The clock driver's two conversions are right for every date of every calendar
   up to 2099: the number of days, and the date computed back from it.     *)

Years == 1970..2099

CalInv == date \in Dates /\ DateOk(date) /\ DaysOf(date) = day

\* Between 1970 and 2099 every fourth year is a leap year.
LEMMA LeapYears ==
  ASSUME NEW y \in Years
  PROVE  Leap(y) <=> y % 4 = 0
PROOF
  BY DEF Leap, Years

\* The days before each month of an ordinary year.
LEMMA DaysBefore ==
  /\ NoLeapDaysBefore[0] = 0    /\ NoLeapDaysBefore[1] = 31   /\ NoLeapDaysBefore[2] = 59
  /\ NoLeapDaysBefore[3] = 90   /\ NoLeapDaysBefore[4] = 120  /\ NoLeapDaysBefore[5] = 151
  /\ NoLeapDaysBefore[6] = 181  /\ NoLeapDaysBefore[7] = 212  /\ NoLeapDaysBefore[8] = 243
  /\ NoLeapDaysBefore[9] = 273  /\ NoLeapDaysBefore[10] = 304 /\ NoLeapDaysBefore[11] = 334
  /\ NoLeapDaysBefore[12] = 365
PROOF
  BY DEF NoLeapDaysBefore

\* A month ends where the next one begins; its length is the calendar's.
LEMMA MonthByMonth ==
  ASSUME NEW y \in Years, NEW m \in 0..11
  PROVE  /\ MonthDays(m, Leap(y)) = TrueMonth(y, m) /\ TrueMonth(y, m) \in 28..31
         /\ DaysBeforeMonth(m + 1, Leap(y)) = DaysBeforeMonth(m, Leap(y)) + TrueMonth(y, m)
         /\ DaysBeforeMonth(m, Leap(y)) \in 0..366
PROOF
  <1> DEFINE leap == Leap(y)
  <1>1. leap <=> y % 4 = 0
    BY LeapYears
  <1> HIDE DEF leap
  <1>2. /\ MonthDays(m, leap) = TrueMonth(y, m) /\ TrueMonth(y, m) \in 28..31
        /\ DaysBeforeMonth(m + 1, leap) = DaysBeforeMonth(m, leap) + TrueMonth(y, m)
        /\ DaysBeforeMonth(m, leap) \in 0..366
    <2>1. CASE m \in {0, 1, 2, 3}
      BY <1>1, <2>1, DaysBefore DEF MonthDays, TrueMonth, DaysBeforeMonth
    <2>2. CASE m \in {4, 5, 6, 7}
      BY <1>1, <2>2, DaysBefore DEF MonthDays, TrueMonth, DaysBeforeMonth
    <2>3. CASE m \in {8, 9, 10, 11}
      BY <1>1, <2>3, DaysBefore DEF MonthDays, TrueMonth, DaysBeforeMonth
    <2> QED
      BY <2>1, <2>2, <2>3
  <1> QED
    BY <1>2 DEF leap

\* The walk over the calendar begins in its invariant ...
LEMMA CalStarts == CalInit => CalInv
PROOF
  <1> SUFFICES ASSUME CalInit PROVE CalInv
    OBVIOUS
  <1>1. date = [y |-> 1970, m |-> 0, d |-> 1] /\ day = 0
    BY DEF CalInit
  <1>2. ~Leap(1970)
    BY DEF Leap
  <1> QED
    BY <1>1, <1>2, DaysBefore DEF CalInv, Dates, DateOk, DaysOf, MonthDays, DaysBeforeMonth

\* ... and stays in it.
LEMMA CalSteps == CalInv /\ [CalNext]_calvars => CalInv'
PROOF
  <1> SUFFICES ASSUME CalInv, [CalNext]_calvars PROVE CalInv'
    OBVIOUS
  <1>1. CASE CalNext
    <2> DEFINE y == date.y
               m == date.m
               d == date.d
               n == TrueMonth(y, m)
               b == DaysBeforeMonth(m, Leap(y))
    <2>0. date = [y |-> y, m |-> m, d |-> d] /\ y \in Years /\ m \in 0..11 /\ d \in 1..31
      BY DEF CalInv, Dates, Years
    <2>1. /\ MonthDays(m, Leap(y)) = n /\ n \in 28..31 /\ b \in 0..366
          /\ DaysBeforeMonth(m + 1, Leap(y)) = b + n
      BY <2>0, MonthByMonth
    <2>2. d <= n /\ day = (y - 1970) * 365 + (y - 1969) \div 4 + b + d - 1
      BY <2>1 DEF CalInv, DateOk, DaysOf
    <2>3. date' = Tomorrow(date) /\ day' = day + 1 /\ Tomorrow(date).y <= LastYear
      BY <1>1 DEF CalNext
    <2>4. LastYear \in 1970..2099
      BY CalendarAssumption
    <2> HIDE DEF y, m, d, n, b
    <2>5. CASE d < n
      <3>1. date' = [y |-> y, m |-> m, d |-> d + 1]
        BY <2>0, <2>3, <2>5 DEF Tomorrow, y, m, d, n
      <3>2. date' \in Dates
        BY <2>0, <2>1, <2>5, <3>1 DEF Dates, Years
      <3>3. DateOk(date')
        BY <2>0, <2>1, <2>5, <3>1 DEF DateOk
      <3>4. DaysOf(date') = (y - 1970) * 365 + (y - 1969) \div 4 + b + (d + 1) - 1
        BY <3>1 DEF DaysOf, b
      <3>5. (y - 1970) * 365 + (y - 1969) \div 4 + b \in Nat
        BY <2>0, <2>1 DEF Years
      <3>6. DaysOf(date') = day'
        BY <2>0, <2>2, <2>3, <3>4, <3>5
      <3> QED
        BY <3>2, <3>3, <3>6 DEF CalInv
    <2>6. CASE ~(d < n) /\ m < 11
      <3>1. date' = [y |-> y, m |-> m + 1, d |-> 1]
        BY <2>0, <2>3, <2>6 DEF Tomorrow, y, m, d, n
      <3>2. m + 1 \in 0..11
        BY <2>0, <2>6
      <3>3. date' \in Dates
        BY <2>0, <3>1, <3>2 DEF Dates, Years
      <3>4. MonthDays(m + 1, Leap(y)) \in 28..31
        BY <2>0, <3>2, MonthByMonth
      <3>5. DateOk(date')
        BY <3>1, <3>4 DEF DateOk
      <3>6. DaysOf(date') = (y - 1970) * 365 + (y - 1969) \div 4 + (b + n) + 1 - 1
        BY <2>1, <3>1 DEF DaysOf
      <3>7. (y - 1970) * 365 + (y - 1969) \div 4 \in Nat /\ d = n
        BY <2>0, <2>1, <2>2, <2>6 DEF Years
      <3>8. DaysOf(date') = day'
        BY <2>0, <2>1, <2>2, <2>3, <3>6, <3>7
      <3> QED
        BY <3>3, <3>5, <3>8 DEF CalInv
    <2>7. CASE ~(d < n) /\ ~(m < 11)
      <3>1. date' = [y |-> y + 1, m |-> 0, d |-> 1]
        BY <2>0, <2>3, <2>7 DEF Tomorrow, y, m, d, n
      <3>2. y + 1 \in Years
        <4>1. date'.y <= LastYear
          BY <2>3
        <4> QED
          BY <2>0, <2>4, <3>1, <4>1 DEF Years
      <3>3. date' \in Dates
        BY <3>1, <3>2 DEF Dates, Years
      <3>4. MonthDays(0, Leap(y + 1)) \in 28..31
        BY <3>2, MonthByMonth
      <3>5. DateOk(date')
        BY <3>1, <3>4 DEF DateOk
      <3>6. DaysOf(date') = ((y + 1) - 1970) * 365 + ((y + 1) - 1969) \div 4 + 0 + 1 - 1
        BY <3>1, DaysBefore DEF DaysOf, DaysBeforeMonth
      <3>7. m = 11 /\ d = n /\ n = 31 /\ b = 334 + (IF Leap(y) THEN 1 ELSE 0)
        BY <2>0, <2>1, <2>2, <2>7, DaysBefore DEF b, n, TrueMonth, DaysBeforeMonth
      <3>8. Leap(y) <=> y % 4 = 0
        BY <2>0, LeapYears
      <3>9. ((y + 1) - 1969) \div 4 = (y - 1969) \div 4 + (IF y % 4 = 0 THEN 1 ELSE 0)
        BY <2>0 DEF Years
      <3>10. DaysOf(date') = day'
        BY <2>0, <2>2, <2>3, <3>6, <3>7, <3>8, <3>9 DEF Years
      <3> QED
        BY <3>3, <3>5, <3>10 DEF CalInv
    <2> QED
      BY <2>5, <2>6, <2>7
  <1>2. CASE UNCHANGED calvars
    BY <1>2 DEF calvars, CalInv
  <1> QED
    BY <1>1, <1>2

\* Every date of the calendar up to LastYear is accepted, and mktime's number of
\* days is the number of days since 1.1.1970, whatever the last year (2099 at most).
THEOREM DaysAreRight == CalSpec => []DaysRight
PROOF
  <1>1. CalInv => DaysRight
    BY DEF CalInv, DaysRight
  <1> QED
    BY <1>1, CalStarts, CalSteps, PTL DEF CalSpec

\* The days from the first of a year to a day in a month of it.
InMonth(left, m, leap) == DaysBeforeMonth(m, leap) <= left /\ left < DaysBeforeMonth(m + 1, leap)

\* The days of a year are within its length.
LEMMA WithinYear ==
  ASSUME NEW leap \in BOOLEAN, NEW m \in 0..11, NEW left \in Nat, InMonth(left, m, leap)
  PROVE  left < (IF leap THEN 366 ELSE 365)
PROOF
  <1>1. CASE m \in {0, 1, 2, 3}
    BY <1>1, DaysBefore DEF InMonth, DaysBeforeMonth
  <1>2. CASE m \in {4, 5, 6, 7}
    BY <1>2, DaysBefore DEF InMonth, DaysBeforeMonth
  <1>3. CASE m \in {8, 9, 10, 11}
    BY <1>3, DaysBefore DEF InMonth, DaysBeforeMonth
  <1> QED
    BY <1>1, <1>2, <1>3

\* The days before a month are more, the later the month is.
LEMMA MonthsOrdered ==
  ASSUME NEW leap \in BOOLEAN, NEW m \in 0..12, NEW k \in 0..12, k <= m
  PROVE  /\ DaysBeforeMonth(k, leap) \in Nat
         /\ DaysBeforeMonth(k, leap) <= DaysBeforeMonth(m, leap)
PROOF
  <1> DEFINE N(i) == NoLeapDaysBefore[i]
  <1>1. \A i \in 0..12 : N(i) \in Nat
    BY DaysBefore
  <1>2. N(k) <= N(m)
    <2>1. CASE k \in {0, 1, 2, 3}
      BY <2>1, DaysBefore
    <2>2. CASE k \in {4, 5, 6, 7}
      BY <2>2, DaysBefore
    <2>3. CASE k \in {8, 9, 10, 11, 12}
      BY <2>3, DaysBefore
    <2> QED
      BY <2>1, <2>2, <2>3
  <1>3. \A i \in 0..12 : DaysBeforeMonth(i, leap) = N(i) + (IF i >= 2 /\ leap THEN 1 ELSE 0)
    BY DEF DaysBeforeMonth
  <1> HIDE DEF N
  <1> QED
    BY <1>1, <1>2, <1>3

\* An iteration of the halving keeps the month among the candidates, and the
\* candidates in the year.
LEMMA HalvedKeeps ==
  ASSUME NEW leap \in BOOLEAN, NEW m \in 0..11, NEW left \in Nat, InMonth(left, m, leap),
         NEW lo \in 0..11, NEW hi \in 0..11, lo <= m, m <= hi
  PROVE  \E a, b \in 0..11 :
           /\ Halved(<<lo, hi>>, left, leap) = <<a, b>> /\ a <= m /\ m <= b
           /\ (b = a \/ 2 * (b - a) < hi - lo)
PROOF
  <1> DEFINE mid == (lo + hi) \div 2
  <1>1. mid \in 0..11 /\ lo <= mid /\ mid <= hi /\ hi - lo - 1 <= 2 * (mid - lo) /\ 2 * (mid - lo) <= hi - lo
    OBVIOUS
  <1>2. Halved(<<lo, hi>>, left, leap) =
          IF lo >= hi THEN <<lo, hi>>
          ELSE IF DaysBeforeMonth(mid + 1, leap) <= left THEN <<mid + 1, hi>>
          ELSE IF DaysBeforeMonth(mid, leap) <= left THEN <<mid, mid>>
          ELSE <<lo, mid - 1>>
    BY DEF Halved
  <1>3. DaysBeforeMonth(mid + 1, leap) \in Nat /\ DaysBeforeMonth(mid, leap) \in Nat
    BY <1>1, MonthsOrdered
  <1>4. DaysBeforeMonth(m + 1, leap) \in Nat /\ DaysBeforeMonth(m, leap) \in Nat
    BY MonthsOrdered
  <1> HIDE DEF mid
  <1>5. CASE lo >= hi
    BY <1>2, <1>5
  <1>6. CASE lo < hi /\ DaysBeforeMonth(mid + 1, leap) <= left
    <2>1. mid + 1 <= m
      <3> SUFFICES ASSUME m <= mid PROVE FALSE
        BY <1>1
      <3>1. DaysBeforeMonth(m + 1, leap) <= DaysBeforeMonth(mid + 1, leap)
        BY <1>1, MonthsOrdered
      <3> QED
        BY <1>3, <1>4, <1>6, <3>1 DEF InMonth
    <2>2. mid + 1 \in 0..11 /\ 2 * (hi - (mid + 1)) < hi - lo
      BY <1>1, <2>1
    <2> QED
      BY <1>2, <1>6, <2>1, <2>2
  <1>7. CASE lo < hi /\ left < DaysBeforeMonth(mid + 1, leap)
    <2>1. m <= mid
      <3> SUFFICES ASSUME mid + 1 <= m PROVE FALSE
        BY <1>1
      <3>1. DaysBeforeMonth(mid + 1, leap) <= DaysBeforeMonth(m, leap)
        BY <1>1, MonthsOrdered
      <3> QED
        BY <1>3, <1>4, <1>7, <3>1 DEF InMonth
    <2>2. CASE DaysBeforeMonth(mid, leap) <= left
      <3>1. mid <= m
        <4> SUFFICES ASSUME m + 1 <= mid PROVE FALSE
          BY <1>1
        <4>1. DaysBeforeMonth(m + 1, leap) <= DaysBeforeMonth(mid, leap)
          BY <1>1, MonthsOrdered
        <4> QED
          BY <1>3, <1>4, <2>2, <4>1 DEF InMonth
      <3>2. Halved(<<lo, hi>>, left, leap) = <<mid, mid>>
        BY <1>2, <1>3, <1>7, <2>2
      <3> QED
        BY <1>1, <2>1, <3>1, <3>2
    <2>3. CASE left < DaysBeforeMonth(mid, leap)
      <3>1. m # mid
        BY <1>4, <2>3 DEF InMonth
      <3>2. Halved(<<lo, hi>>, left, leap) = <<lo, mid - 1>>
        BY <1>2, <1>3, <1>7, <2>3
      <3>3. mid - 1 \in 0..11 /\ m <= mid - 1 /\ 2 * ((mid - 1) - lo) < hi - lo
        BY <1>1, <2>1, <3>1
      <3> QED
        BY <3>2, <3>3
    <2> QED
      BY <1>3, <2>2, <2>3
  <1> QED
    BY <1>3, <1>5, <1>6, <1>7

\* The candidates c are a pair of months with m between them.
Candidates(c, m) ==
  c[1] \in 0..11 /\ c[2] \in 0..11 /\ c = <<c[1], c[2]>> /\ c[1] <= m /\ m <= c[2]

\* The same of a pair: what is left of it is m alone, or less than half of it.
LEMMA CandidatesHalved ==
  ASSUME NEW leap \in BOOLEAN, NEW m \in 0..11, NEW left \in Nat, InMonth(left, m, leap),
         NEW c, Candidates(c, m), NEW d, d = Halved(c, left, leap)
  PROVE  Candidates(d, m) /\ (d[2] = d[1] \/ 2 * (d[2] - d[1]) < c[2] - c[1])
PROOF
  <1> DEFINE lo == c[1]
             hi == c[2]
  <1>1. lo \in 0..11 /\ hi \in 0..11 /\ c = <<lo, hi>> /\ lo <= m /\ m <= hi
    BY DEF Candidates
  <1> HIDE DEF lo, hi
  <1>2. PICK a, b \in 0..11 :
          /\ Halved(<<lo, hi>>, left, leap) = <<a, b>> /\ a <= m /\ m <= b
          /\ (b = a \/ 2 * (b - a) < hi - lo)
    BY <1>1, HalvedKeeps, ZenonT(60)
  <1>3. d = <<a, b>>
    BY <1>1, <1>2
  <1>4. d[1] = a /\ d[2] = b
    BY <1>3
  <1>5. Candidates(d, m)
    BY <1>2, <1>3, <1>4 DEF Candidates
  <1>6. b = a \/ 2 * (b - a) < c[2] - c[1]
    BY <1>2 DEF lo, hi
  <1> QED
    BY <1>4, <1>5, <1>6

\* Three iterations find the month.
LEMMA MonthFound ==
  ASSUME NEW leap \in BOOLEAN, NEW m \in 0..11, NEW left \in Nat, InMonth(left, m, leap)
  PROVE  MonthOf(left, leap) = m
PROOF
  <1> DEFINE c == <<0, 11>>
             d == Halved(c, left, leap)
             e == Halved(d, left, leap)
             f == Halved(e, left, leap)
  <1>1. Candidates(c, m) /\ c[2] - c[1] = 11
    BY DEF Candidates
  <1>2. MonthOf(left, leap) = f[1]
    BY DEF MonthOf
  <1> HIDE DEF c
  <1>3. Candidates(d, m) /\ (d[2] = d[1] \/ 2 * (d[2] - d[1]) < c[2] - c[1])
    BY <1>1, CandidatesHalved
  <1> HIDE DEF d
  <1>4. Candidates(e, m) /\ (e[2] = e[1] \/ 2 * (e[2] - e[1]) < d[2] - d[1])
    BY <1>3, CandidatesHalved
  <1> HIDE DEF e
  <1>5. Candidates(f, m) /\ (f[2] = f[1] \/ 2 * (f[2] - f[1]) < e[2] - e[1])
    BY <1>4, CandidatesHalved
  <1> HIDE DEF f
  <1>6. d[2] - d[1] <= 5
    BY <1>1, <1>3 DEF Candidates
  <1>7. e[2] - e[1] <= 2
    BY <1>4, <1>6, <1>3 DEF Candidates
  <1>8. f[2] = f[1]
    BY <1>5, <1>7, <1>4 DEF Candidates
  <1> QED
    BY <1>2, <1>5, <1>8 DEF Candidates

\* A year that is one of the four: the loop leaves it behind while the days are
\* more than its own ...
LEMMA YearPassed ==
  ASSUME NEW v \in Nat, NEW left \in Nat, left >= (IF Leap(v + 1970) THEN 366 ELSE 365)
  PROVE  NextYear(<<left, v>>) = <<left - (IF Leap(v + 1970) THEN 366 ELSE 365), v + 1>>
PROOF
  BY DEF NextYear

\* ... and stays with it when they are not, however often it looks again.
LEMMA YearKept ==
  ASSUME NEW v \in Nat, NEW left \in Nat, left < (IF Leap(v + 1970) THEN 366 ELSE 365)
  PROVE  NextYear(<<left, v>>) = <<left, v>>
PROOF
  <1> DEFINE size == IF Leap(v + 1970) THEN 366 ELSE 365
  <1>1. size \in Nat /\ NextYear(<<left, v>>) = IF left >= size THEN <<left - size, v + 1>> ELSE <<left, v>>
    BY DEF NextYear
  <1> HIDE DEF size
  <1>2. left < size
    BY DEF size
  <1> QED
    BY <1>1, <1>2

\* The years are found: the days of a year y and those into it give both back.
LEMMA YearFound ==
  ASSUME NEW y \in Years, NEW left \in Nat, left < (IF Leap(y) THEN 366 ELSE 365),
         NEW days, days = (y - 1970) * 365 + (y - 1969) \div 4 + left
  PROVE  YearOf(days) = <<left, y - 1970>>
PROOF
  <1> DEFINE q == (y - 1970) \div 4
             r == (y - 1970) % 4
             v == 4 * q
  <1>1. q \in Nat /\ r \in 0..3 /\ y = 1970 + 4 * q + r
    BY DEF Years
  <1>2. Leap(y) <=> r = 2
    <2>1. Leap(y) <=> y % 4 = 0
      BY LeapYears
    <2> QED
      BY <1>1, <2>1
  <1> HIDE DEF q, r
  <1>3. (y - 1969) \div 4 = q + (IF r = 3 THEN 1 ELSE 0)
    BY <1>1
  <1> DEFINE over == 365 * r + (IF r = 3 THEN 1 ELSE 0) + left
  <1>4. over \in Nat /\ over < 1461 /\ days = 1461 * q + over
    BY <1>1, <1>2, <1>3
  <1>5. days % 1461 = over /\ days \div 1461 = q
    BY <1>1, <1>4
  <1>6. YearOf(days) = NextYear(NextYear(NextYear(<<over, v>>)))
    BY <1>5 DEF YearOf, YearFrom
  <1>7. \A i \in 0..3 : i <= r => (Leap(v + i + 1970) <=> i = 2)
    <2> TAKE i \in 0..3
    <2> HAVE i <= r
    <2>1. v + i + 1970 \in Years
      BY <1>1 DEF Years
    <2>2. Leap(v + i + 1970) <=> (v + i + 1970) % 4 = 0
      BY <2>1, LeapYears
    <2> QED
      BY <1>1, <2>2
  <1>8. v \in Nat /\ y = 1970 + v + r
    BY <1>1
  <1> DEFINE At(i) == <<over - 365 * i - (IF i = 3 THEN 1 ELSE 0), v + i>>
  <1>9. \A i \in 0..2 : i < r => NextYear(At(i)) = At(i + 1)
    <2> TAKE i \in 0..2
    <2> HAVE i < r
    <2>1. Leap(v + i + 1970) <=> i = 2
      BY <1>1, <1>7
    <2>2. /\ over - 365 * i - (IF i = 3 THEN 1 ELSE 0) \in Nat
          /\ over - 365 * i - (IF i = 3 THEN 1 ELSE 0) >= (IF i = 2 THEN 366 ELSE 365)
      BY <1>1
    <2>3. NextYear(At(i)) = <<over - 365 * i - (IF i = 3 THEN 1 ELSE 0) - (IF i = 2 THEN 366 ELSE 365), (v + i) + 1>>
      BY <1>8, <2>1, <2>2, YearPassed
    <2> QED
      BY <1>1, <1>4, <1>8, <2>3
  <1>10. At(r) = <<left, y - 1970>>
    BY <1>1, <1>8
  <1>11. NextYear(At(r)) = At(r)
    <2>1. Leap(y - 1970 + 1970) = Leap(y) /\ y - 1970 \in Nat
      BY DEF Years
    <2> QED
      BY <1>10, <2>1, YearKept
  <1>12. At(0) = <<over, v>>
    BY <1>4, <1>8
  <1> HIDE DEF v, over, At
  <1>13. NextYear(NextYear(NextYear(At(0)))) = At(r)
    <2>1. CASE r = 0
      BY <1>11, <2>1
    <2>2. CASE r = 1
      BY <1>9, <1>11, <2>2
    <2>3. CASE r = 2
      BY <1>9, <1>11, <2>3
    <2>4. CASE r = 3
      BY <1>9, <1>11, <2>4
    <2> QED
      BY <1>1, <2>1, <2>2, <2>3, <2>4
  <1> QED
    BY <1>6, <1>10, <1>12, <1>13

\* gmtime_r undoes mktime, for every date the driver accepts.
LEMMA DateFound ==
  ASSUME NEW c \in Dates, DateOk(c)
  PROVE  DateOf(DaysOf(c)) = c
PROOF
  <1> DEFINE y == c.y
             m == c.m
             d == c.d
             leap == Leap(y)
             left == DaysBeforeMonth(m, leap) + d - 1
  <1>1. c = [y |-> y, m |-> m, d |-> d] /\ y \in Years /\ m \in 0..11 /\ d \in 1..31
    BY DEF Dates, Years
  <1>2. /\ MonthDays(m, leap) = TrueMonth(y, m) /\ TrueMonth(y, m) \in 28..31
        /\ DaysBeforeMonth(m + 1, leap) = DaysBeforeMonth(m, leap) + TrueMonth(y, m)
        /\ DaysBeforeMonth(m, leap) \in 0..366
    BY <1>1, MonthByMonth
  <1>3. d <= TrueMonth(y, m)
    BY <1>2 DEF DateOk
  <1>4. DaysOf(c) = (y - 1970) * 365 + (y - 1969) \div 4 + left
    <2>1. DaysOf(c) = (y - 1970) * 365 + (y - 1969) \div 4 + DaysBeforeMonth(m, leap) + d - 1
      BY DEF DaysOf
    <2>2. (y - 1970) * 365 + (y - 1969) \div 4 \in Int
      BY <1>1 DEF Years
    <2> HIDE DEF y, m, d, leap
    <2> QED
      BY <1>1, <1>2, <2>1, <2>2
  <1>5. leap \in BOOLEAN
    BY DEF Leap
  <1> HIDE DEF y, m, d, leap
  <1>6. left \in Nat /\ InMonth(left, m, leap)
    BY <1>1, <1>2, <1>3 DEF InMonth
  <1>7. left < (IF leap THEN 366 ELSE 365)
    BY <1>1, <1>5, <1>6, WithinYear
  <1>8. left - DaysBeforeMonth(m, leap) + 1 = d
    BY <1>1, <1>2, SMTT(60)
  <1> HIDE DEF left
  <1>9. YearOf(DaysOf(c)) = <<left, y - 1970>>
    BY <1>1, <1>4, <1>6, <1>7, YearFound DEF leap
  <1>10. MonthOf(left, leap) = m
    BY <1>1, <1>5, <1>6, MonthFound
  <1>11. y - 1970 + 1970 = y
    BY <1>1 DEF Years
  <1>12. DateOf(DaysOf(c)) = [y |-> y, m |-> m, d |-> left - DaysBeforeMonth(m, leap) + 1]
    BY <1>9, <1>10, <1>11 DEF DateOf, leap
  <1> QED
    BY <1>1, <1>8, <1>12

\* The date that gmtime_r computes from the days walked is the date of the walk,
\* whatever the last year (2099 at most).
THEOREM DatesAreRight == CalSpec => []DateRight
PROOF
  <1>1. CalInv => DateRight
    BY DateFound DEF CalInv, DateRight
  <1> QED
    BY <1>1, CalStarts, CalSteps, PTL DEF CalSpec

--------------------------------------------------------------------------------
(* The clock rings no alarm before its time, for every rate, width of the counter
   and value it is loaded with, and any times, alarms and number of calls.  *)

RtcSpec == RtcInit /\ [][RtcNext]_rvars

\* The match of an alarm that is due is not before its time.
MatchServes == ralarm.on \/ ralarm.due >= 0 => Now(rtc.cmr) >= ralarm.due

\* Main works out the match from a time that the count has not left behind.
MainServes == rmain.pc \in {"look", "wait", "add", "write"} /\ rmain.fresh
                => Now(rmain.last) + rmain.delta >= rmain.due

RtcInv == RtcTypeOK /\ MatchServes /\ MainServes

\* A quotient and what it leaves over.
LEMMA QuotientBounds ==
  ASSUME NEW a \in Int
  PROVE  LET q == a \div RtcRate IN q \in Int /\ q * RtcRate <= a /\ a < q * RtcRate + RtcRate
PROOF BY RtcAssumption

\* A number lies in one interval between multiples only.
LEMMA QuotientIs ==
  ASSUME NEW a \in Int, NEW b \in Int, NEW q \in Int, NEW p \in Int, a >= b,
         a < q * RtcRate + RtcRate, p * RtcRate <= b
  PROVE  q >= p
PROOF
  <1> SUFFICES ASSUME q + 1 <= p PROVE FALSE
    OBVIOUS
  <1>1. (q + 1) * RtcRate <= p * RtcRate
    BY RtcAssumption
  <1>2. (q + 1) * RtcRate = q * RtcRate + RtcRate
    BY RtcAssumption
  <1>3. q * RtcRate \in Int /\ p * RtcRate \in Int /\ RtcRate \in Int
    BY RtcAssumption
  <1> QED
    BY <1>1, <1>2, <1>3

\* Whole seconds grow with the count, and by d in d times the rate.
LEMMA SecondsGrow ==
  ASSUME NEW c \in Int, NEW e \in Int, c >= e, rtc.clr \in Int
  PROVE  Elapsed(e) \in Int /\ Elapsed(c) >= Elapsed(e)
PROOF
  <1> DEFINE q == (c - rtc.clr) \div RtcRate
             p == (e - rtc.clr) \div RtcRate
  <1>1. q \in Int /\ c - rtc.clr < q * RtcRate + RtcRate
    BY QuotientBounds
  <1>2. p \in Int /\ p * RtcRate <= e - rtc.clr
    BY QuotientBounds
  <1>3. q >= p
    BY <1>1, <1>2, QuotientIs
  <1> QED
    BY <1>2, <1>3 DEF Elapsed

\* Seconds added to a time are counts added to the counter.
LEMMA SecondsAdd ==
  ASSUME NEW c \in Int, NEW d \in Int, rtc.clr \in Int
  PROVE  Elapsed(c + d * RtcRate) >= Elapsed(c) + d
PROOF
  <1> DEFINE f == c + d * RtcRate
             q == (f - rtc.clr) \div RtcRate
             p == (c - rtc.clr) \div RtcRate
             pd == p + d
             x == d * RtcRate
             y == p * RtcRate
  <1>1. x \in Int /\ f \in Int
    BY RtcAssumption
  <1>2. q \in Int /\ f - rtc.clr < q * RtcRate + RtcRate
    BY <1>1, QuotientBounds
  <1>3. p \in Int /\ y <= c - rtc.clr /\ y \in Int
    BY RtcAssumption, QuotientBounds
  <1>4. pd * RtcRate = y + x
    BY <1>3, RtcAssumption
  <1>5. f = c + x
    OBVIOUS
  <1>6. Elapsed(f) = q /\ Elapsed(c) = p
    BY DEF Elapsed
  <1>7. pd \in Int /\ pd = p + d
    BY <1>3
  <1> HIDE DEF f, q, p, pd, x, y
  <1>8. pd * RtcRate <= f - rtc.clr
    BY <1>1, <1>3, <1>4, <1>5
  <1>9. q >= pd
    BY <1>1, <1>2, <1>7, <1>8, QuotientIs
  <1> QED
    BY <1>6, <1>7, <1>9 DEF f

\* The clock begins in its invariant.
LEMMA RtcStarts == RtcInit => RtcInv
PROOF
  <1> SUFFICES ASSUME RtcInit PROVE RtcInv
    OBVIOUS
  <1>1. 0 \in Counts
    BY RtcAssumption DEF Counts
  <1> QED
    BY <1>1 DEF RtcInit, RtcInv, RtcTypeOK, RtcRegs, RtcMain, Free, NoAlarm, MatchServes, MainServes

\* A step that leaves the base and the match alone, announces no alarm and
\* measures nothing anew.
LEMMA RtcQuiet ==
  ASSUME RtcInv, RtcTypeOK', rbase' = rbase, rtc'.clr = rtc.clr, rtc'.cmr = rtc.cmr,
         \/ ralarm' = NoAlarm
         \/ ralarm'.due = ralarm.due /\ (ralarm'.on => ralarm.on \/ ralarm.due >= 0),
         \/ rmain' = rmain
         \/ rmain'.pc \notin {"look", "wait", "add", "write"}
         \/ ~rmain'.fresh
  PROVE  RtcInv'
PROOF
  <1>1. MatchServes'
    BY DEF RtcInv, MatchServes, Now, Elapsed, NoAlarm
  <1>2. MainServes'
    BY DEF RtcInv, MainServes, Now, Elapsed
  <1> QED
    BY <1>1, <1>2 DEF RtcInv

\* The counter and its interrupt.
LEMMA RtcCounterKeeps ==
  ASSUME RtcInv, RtcMatch \/ RtcTick \/ RtcLoaded \/ RtcInterrupt
  PROVE  RtcInv'
PROOF
  <1>t. rtc \in RtcRegs
    BY DEF RtcInv, RtcTypeOK
  <1>o. rmain \in RtcMain /\ rbase \in Int /\ ralarm \in [due : Int, on : BOOLEAN, rang : BOOLEAN]
    BY DEF RtcInv, RtcTypeOK
  <1>m. Match \in BOOLEAN
    BY <1>t DEF Match, RtcRegs
  <1>1. CASE RtcMatch
    <2>1. rtc' = [rtc EXCEPT !.flag = TRUE] /\ UNCHANGED <<rbase, rmain, ralarm>>
      BY <1>1 DEF RtcMatch
    <2>2. rtc' \in RtcRegs /\ rtc'.clr = rtc.clr /\ rtc'.cmr = rtc.cmr
      BY <1>t, <2>1 DEF RtcRegs
    <2> QED
      BY <1>o, <2>1, <2>2, RtcQuiet DEF RtcTypeOK
  <1>2. CASE RtcTick
    <2> DEFINE n == (rtc.cnt + 1) % RtcMod
               f == rtc.flag \/ Match
    <2>1. rtc' = [rtc EXCEPT !.cnt = n, !.flag = f] /\ UNCHANGED <<rbase, rmain, ralarm>>
      BY <1>2 DEF RtcTick
    <2>2. n \in Counts /\ f \in BOOLEAN
      BY <1>t, <1>m, RtcAssumption DEF Counts, RtcRegs
    <2> HIDE DEF n, f
    <2>3. rtc' \in RtcRegs /\ rtc'.clr = rtc.clr /\ rtc'.cmr = rtc.cmr
      BY <1>t, <2>1, <2>2 DEF RtcRegs
    <2> QED
      BY <1>o, <2>1, <2>3, RtcQuiet DEF RtcTypeOK
  <1>3. CASE RtcLoaded
    <2>1. rtc' = [rtc EXCEPT !.cnt = rtc.clr, !.load = FALSE] /\ UNCHANGED <<rbase, rmain, ralarm>>
      BY <1>3 DEF RtcLoaded
    <2>2. rtc' \in RtcRegs /\ rtc'.clr = rtc.clr /\ rtc'.cmr = rtc.cmr
      BY <1>t, <2>1 DEF RtcRegs
    <2> QED
      BY <1>o, <2>1, <2>2, RtcQuiet DEF RtcTypeOK
  <1>4. CASE RtcInterrupt
    <2>1. /\ rtc' = [rtc EXCEPT !.flag = FALSE] /\ UNCHANGED <<rbase, rmain>>
          /\ ralarm' = [ralarm EXCEPT !.rang = @ \/ ralarm.on]
      BY <1>4 DEF RtcInterrupt
    <2>2. rtc' \in RtcRegs /\ rtc'.clr = rtc.clr /\ rtc'.cmr = rtc.cmr
      BY <1>t, <2>1 DEF RtcRegs
    <2>3. ralarm' \in [due : Int, on : BOOLEAN, rang : BOOLEAN]
          /\ ralarm'.due = ralarm.due /\ ralarm'.on = ralarm.on
      BY <1>o, <2>1
    <2> QED
      BY <1>o, <2>1, <2>2, <2>3, RtcQuiet DEF RtcTypeOK
  <1> QED
    BY <1>1, <1>2, <1>3, <1>4

\* The calls that only switch something, or set the time.
LEMMA RtcCallsKeep ==
  ASSUME RtcInv,
         RtcInitialize \/ RtcUninitialize \/ RtcRun \/ RtcSetTime \/ RtcSetAlarm \/ RtcEnable \/ RtcDisable
  PROVE  RtcInv'
PROOF
  <1>t. rtc \in RtcRegs
    BY DEF RtcInv, RtcTypeOK
  <1>o. rmain \in RtcMain /\ rbase \in Int /\ ralarm \in [due : Int, on : BOOLEAN, rang : BOOLEAN]
    BY DEF RtcInv, RtcTypeOK
  <1>n. NoAlarm \in [due : Int, on : BOOLEAN, rang : BOOLEAN]
    BY DEF NoAlarm
  <1>f. Free \in RtcMain
    BY RtcAssumption DEF Free, RtcMain, Counts
  <1>1. CASE RtcInitialize
    <2>1. /\ rtc' = [rtc EXCEPT !.run = FALSE, !.int = FALSE, !.flag = FALSE, !.irq = TRUE]
          /\ ralarm' = NoAlarm /\ UNCHANGED <<rbase, rmain>>
      BY <1>1 DEF RtcInitialize
    <2>2. rtc' \in RtcRegs /\ rtc'.clr = rtc.clr /\ rtc'.cmr = rtc.cmr
      BY <1>t, <2>1 DEF RtcRegs
    <2> QED
      BY <1>o, <1>n, <2>1, <2>2, RtcQuiet DEF RtcTypeOK
  <1>2. CASE RtcUninitialize
    <2>1. rtc' = [rtc EXCEPT !.irq = FALSE] /\ ralarm' = NoAlarm /\ UNCHANGED <<rbase, rmain>>
      BY <1>2 DEF RtcUninitialize
    <2>2. rtc' \in RtcRegs /\ rtc'.clr = rtc.clr /\ rtc'.cmr = rtc.cmr
      BY <1>t, <2>1 DEF RtcRegs
    <2> QED
      BY <1>o, <1>n, <2>1, <2>2, RtcQuiet DEF RtcTypeOK
  <1>3. CASE RtcRun
    <2>1. PICK run \in BOOLEAN : rtc' = [rtc EXCEPT !.run = run]
      BY <1>3 DEF RtcRun
    <2>2. rtc' \in RtcRegs /\ rtc'.clr = rtc.clr /\ rtc'.cmr = rtc.cmr
      BY <1>t, <2>1 DEF RtcRegs
    <2> QED
      BY <1>3, <1>o, <2>2, RtcQuiet DEF RtcTypeOK, RtcRun
  <1>4. CASE RtcSetTime
    <2>1. /\ rtc' = [rtc EXCEPT !.clr = RtcLoad, !.load = TRUE] /\ rbase' \in RtcTimes
          /\ ralarm' = NoAlarm /\ rmain' = rmain /\ rmain.pc = "free"
      BY <1>4 DEF RtcSetTime, RtcOpen, RtcCall
    <2>2. RtcLoad \in Counts
      BY RtcAssumption DEF Counts
    <2>3. rtc' \in RtcRegs
      BY <1>t, <2>1, <2>2 DEF RtcRegs
    <2>4. rbase' \in Int
      BY <2>1, RtcAssumption
    <2>5. RtcTypeOK'
      BY <1>o, <1>n, <2>1, <2>3, <2>4 DEF RtcTypeOK
    <2> QED
      BY <2>1, <2>5 DEF RtcInv, MatchServes, MainServes, NoAlarm
  <1>5. CASE RtcSetAlarm
    <2>1. PICK due \in RtcAlarms : rmain' = [Free EXCEPT !.pc = "get", !.due = due]
      BY <1>5 DEF RtcSetAlarm
    <2>2. due \in Int
      BY RtcAssumption
    <2>3. rmain' \in RtcMain /\ rmain'.pc = "get"
      BY <1>f, <2>1, <2>2 DEF RtcMain
    <2> QED
      BY <1>5, <1>t, <1>o, <2>3, RtcQuiet DEF RtcTypeOK, RtcSetAlarm
  <1>6. CASE RtcEnable
    <2>1. /\ rtc' = [rtc EXCEPT !.int = TRUE]
          /\ rmain' = [Free EXCEPT !.pc = "settle", !.last = rtc.cnt] /\ rbase' = rbase
          /\ \/ ralarm.due >= 0 /\ ralarm' = [ralarm EXCEPT !.on = TRUE]
             \/ ralarm' = ralarm
      BY <1>6 DEF RtcEnable, IntOn
    <2>2. rtc' \in RtcRegs /\ rtc'.clr = rtc.clr /\ rtc'.cmr = rtc.cmr
      BY <1>t, <2>1 DEF RtcRegs
    <2>3. rmain' \in RtcMain /\ rmain'.pc = "settle"
      BY <1>t, <1>f, <2>1 DEF RtcMain, RtcRegs
    <2>4. /\ ralarm' \in [due : Int, on : BOOLEAN, rang : BOOLEAN]
          /\ ralarm'.due = ralarm.due /\ (ralarm'.on => ralarm.on \/ ralarm.due >= 0)
      BY <1>o, <2>1
    <2> QED
      BY <1>o, <2>1, <2>2, <2>3, <2>4, RtcQuiet DEF RtcTypeOK
  <1>7. CASE RtcDisable
    <2>1. /\ rtc' = [rtc EXCEPT !.int = FALSE] /\ rbase' = rbase /\ ralarm' = NoAlarm
          /\ rmain' = [Free EXCEPT !.pc = "look", !.delta = Elapsed(rtc.cnt)]
      BY <1>7 DEF RtcDisable
    <2>2. rtc' \in RtcRegs /\ rtc'.clr = rtc.clr /\ rtc'.cmr = rtc.cmr
      BY <1>t, <2>1 DEF RtcRegs
    <2>3. rtc.cnt \in Int /\ rtc.clr \in Int
      BY <1>t DEF RtcRegs, Counts
    <2>4. Elapsed(rtc.cnt) \in Int
      BY <2>3, SecondsGrow
    <2>5. rmain' \in RtcMain /\ ~rmain'.fresh
      BY <1>f, <2>1, <2>4 DEF RtcMain, Free
    <2> QED
      BY <1>o, <1>n, <2>1, <2>2, <2>5, RtcQuiet DEF RtcTypeOK
  <1> QED
    BY <1>1, <1>2, <1>3, <1>4, <1>5, <1>6, <1>7

\* Main within a call.  A match that is due is as far ahead of the time of the
\* count as the alarm was of the time that was read, which the count has passed.
LEMMA RtcMainKeeps ==
  ASSUME RtcInv, RtcGetTime \/ RtcLook \/ RtcMoved \/ RtcAdd \/ RtcSetMatch \/ RtcGivesUp \/ RtcSettled
  PROVE  RtcInv'
PROOF
  <1>t. rtc \in RtcRegs
    BY DEF RtcInv, RtcTypeOK
  <1>o. rmain \in RtcMain /\ rbase \in Int /\ ralarm \in [due : Int, on : BOOLEAN, rang : BOOLEAN]
    BY DEF RtcInv, RtcTypeOK
  <1>n. NoAlarm \in [due : Int, on : BOOLEAN, rang : BOOLEAN]
    BY DEF NoAlarm
  <1>f. Free \in RtcMain
    BY RtcAssumption DEF Free, RtcMain, Counts
  <1>c. rtc.cnt \in Int /\ rtc.clr \in Int /\ rmain.last \in Int /\ rmain.delta \in Int /\ rmain.due \in Int
    BY <1>t, <1>o DEF RtcRegs, RtcMain, Counts
  <1>e. Elapsed(rtc.cnt) \in Int /\ Elapsed(rmain.last) \in Int
    BY <1>c, SecondsGrow
  <1>1. CASE RtcGetTime
    <2>0. PICK now \in ReadAs :
            rmain' = IF rmain.due < now THEN Free
                     ELSE [rmain EXCEPT !.pc = "look", !.delta = rmain.due - now, !.last = rtc.cnt,
                                          !.fresh = ~rtc.load /\ rtc.cnt >= rtc.clr]
      BY <1>1 DEF RtcGetTime
    <2> DEFINE delta == rmain.due - now
               fresh == ~rtc.load /\ rtc.cnt >= rtc.clr
    <2>1. UNCHANGED <<rtc, rbase, ralarm>>
      BY <1>1 DEF RtcGetTime
    <2>2. delta \in Int /\ fresh \in BOOLEAN /\ (fresh => Now(rtc.cnt) + delta = rmain.due)
      <3>1. now \in Int
        BY <1>e, <1>o DEF ReadAs, Now
      <3>2. fresh => now = Now(rtc.cnt)
        BY DEF ReadAs
      <3> QED
        BY <3>1, <3>2, <1>c, <1>t DEF RtcRegs
    <2>3. CASE rmain' = Free
      BY <1>t, <1>o, <1>f, <2>1, <2>3, RtcQuiet DEF RtcTypeOK, Free
    <2>4. CASE rmain' = [rmain EXCEPT !.pc = "look", !.delta = delta,
                                      !.last = rtc.cnt, !.fresh = fresh]
      <3> HIDE DEF delta, fresh
      <3>1. rmain' \in RtcMain
        BY <1>t, <1>o, <2>2, <2>4 DEF RtcMain, RtcRegs
      <3>2. /\ rmain'.last = rtc.cnt /\ rmain'.delta = delta /\ rmain'.due = rmain.due
            /\ rmain'.fresh = fresh
        BY <1>o, <2>4 DEF RtcMain
      <3>3. RtcTypeOK'
        BY <1>t, <1>o, <2>1, <3>1 DEF RtcTypeOK
      <3>4. Now(rmain.last)' = Now(rtc.cnt)
        BY <2>1, <3>2 DEF Now, Elapsed
      <3>5. MainServes'
        BY <2>2, <3>2, <3>4, <1>c, <1>e, <1>o DEF MainServes, Now
      <3>6. MatchServes'
        BY <2>1 DEF RtcInv, MatchServes, Now, Elapsed
      <3> QED
        BY <3>3, <3>5, <3>6 DEF RtcInv
    <2> QED
      BY <2>0, <2>3, <2>4
  <1>2. CASE RtcLook \/ RtcMoved \/ RtcAdd
    <2> DEFINE fresh == rmain.fresh /\ rtc.cnt >= rmain.last
    <2>0. rmain.pc \in {"look", "wait", "add"} /\ \E pc \in {"wait", "add", "write"} : ReadCount(pc)
      BY <1>2 DEF RtcLook, RtcMoved, RtcAdd
    <2>1. PICK pc \in {"wait", "add", "write"} :
          /\ rmain' = [rmain EXCEPT !.pc = pc, !.last = rtc.cnt, !.fresh = fresh]
          /\ UNCHANGED <<rtc, rbase, ralarm>> /\ rmain.pc \in {"look", "wait", "add"}
      BY <2>0 DEF ReadCount
    <2>2. fresh \in BOOLEAN /\ (fresh => rmain.fresh /\ rtc.cnt >= rmain.last)
      BY <1>o DEF RtcMain
    <2> HIDE DEF fresh
    <2>3. rmain' \in RtcMain
      BY <1>t, <1>o, <2>1, <2>2 DEF RtcMain, RtcRegs
    <2>4. /\ rmain'.last = rtc.cnt /\ rmain'.delta = rmain.delta /\ rmain'.due = rmain.due
          /\ rmain'.fresh = fresh
      BY <1>o, <2>1 DEF RtcMain
    <2>5. RtcTypeOK'
      BY <1>t, <1>o, <2>1, <2>3 DEF RtcTypeOK
    <2>6. Now(rmain.last)' = Now(rtc.cnt)
      BY <2>1, <2>4 DEF Now, Elapsed
    <2>7. fresh => Now(rtc.cnt) >= Now(rmain.last)
      BY <1>c, <1>e, <1>o, <2>2, SecondsGrow DEF Now
    <2>8. fresh => Now(rmain.last) + rmain.delta >= rmain.due
      BY <2>1, <2>2 DEF RtcInv, MainServes
    <2>9. Now(rtc.cnt) \in Int /\ Now(rmain.last) \in Int
      BY <1>e, <1>o DEF Now
    <2>10. fresh => Now(rtc.cnt) + rmain.delta >= rmain.due
      BY <1>c, <2>7, <2>8, <2>9
    <2>11. MainServes'
      BY <2>4, <2>6, <2>10 DEF MainServes
    <2>12. MatchServes'
      BY <2>1 DEF RtcInv, MatchServes, Now, Elapsed
    <2> QED
      BY <2>5, <2>11, <2>12 DEF RtcInv
  <1>3. CASE RtcSetMatch
    <2> DEFINE m == MatchAt(rmain.last, rmain.delta)
               x == rmain.delta * RtcRate
    <2>1. /\ rtc' = [rtc EXCEPT !.cmr = m] /\ rmain' = Free /\ rbase' = rbase
          /\ rmain.pc = "write"
          /\ ralarm' = IF Due(rmain.last) THEN [due |-> rmain.due, on |-> rtc.int, rang |-> FALSE] ELSE NoAlarm
      BY <1>3 DEF RtcSetMatch
    <2>2. x \in Int
      BY <1>c, RtcAssumption
    <2>3. m = (rmain.last + x) % RtcMod
      BY DEF MatchAt
    <2> HIDE DEF m
    <2>4. m \in Counts
      <3> HIDE DEF x
      <3> QED
        BY <1>c, <2>2, <2>3, RtcAssumption DEF Counts
    <2>5. rtc' \in RtcRegs /\ rtc'.cmr = m /\ rtc'.clr = rtc.clr
      BY <1>t, <2>1, <2>4 DEF RtcRegs
    <2>6. ralarm' \in [due : Int, on : BOOLEAN, rang : BOOLEAN]
      BY <1>c, <1>n, <1>t, <2>1 DEF RtcRegs
    <2>7. RtcTypeOK'
      BY <1>o, <1>f, <2>1, <2>5, <2>6 DEF RtcTypeOK
    <2>8. MainServes'
      BY <2>1 DEF MainServes, Free
    <2>9. CASE ~Due(rmain.last)
      BY <2>1, <2>7, <2>8, <2>9 DEF RtcInv, MatchServes, NoAlarm
    <2>10. CASE Due(rmain.last)
      <3>1. ralarm'.due = rmain.due
        BY <2>1, <2>10
      <3>2. rmain.fresh /\ rmain.delta > 0 /\ rmain.last + x < RtcMod
        BY <2>10 DEF Due
      <3>3. x >= 0
        BY <1>c, <3>2, RtcAssumption
      <3>4. m = rmain.last + x
        <4>1. rmain.last >= 0
          BY <1>o DEF RtcMain, Counts
        <4> HIDE DEF x
        <4> QED
          BY <1>c, <2>2, <2>3, <3>2, <3>3, <4>1, RtcAssumption
      <3>5. Elapsed(m) >= Elapsed(rmain.last) + rmain.delta
        BY <1>c, <3>4, SecondsAdd
      <3>7. Elapsed(m) \in Int
        BY <1>c, <2>4, SecondsGrow DEF Counts
      <3>8. rbase + Elapsed(rmain.last) + rmain.delta >= rmain.due
        BY <2>1, <3>2 DEF RtcInv, MainServes, Now
      <3>9. rbase + Elapsed(m) >= rmain.due
        <4> HIDE DEF x
        <4> QED
          BY <1>c, <1>e, <1>o, <3>5, <3>7, <3>8
      <3>10. Now(rtc.cmr)' = rbase + Elapsed(m)
        BY <2>1, <2>5 DEF Now, Elapsed
      <3>11. MatchServes'
        BY <3>1, <3>9, <3>10 DEF MatchServes
      <3> QED
        BY <2>7, <2>8, <3>11 DEF RtcInv
    <2> QED
      BY <2>9, <2>10
  <1>4. CASE RtcGivesUp
    BY <1>4, <1>t, <1>o, <1>f, RtcQuiet DEF RtcTypeOK, RtcGivesUp, Free
  <1>5. CASE RtcSettled
    BY <1>5, <1>t, <1>o, <1>f, RtcQuiet DEF RtcTypeOK, RtcSettled, Free
  <1> QED
    BY <1>1, <1>2, <1>3, <1>4, <1>5

\* Every step of the clock keeps its invariant.
LEMMA RtcSteps == RtcInv /\ [RtcNext]_rvars => RtcInv'
PROOF
  <1>1. RtcInv /\ RtcNext => RtcInv'
    BY RtcCounterKeeps, RtcCallsKeep, RtcMainKeeps DEF RtcNext
  <1>2. RtcInv /\ UNCHANGED rvars => RtcInv'
    BY DEF rvars, RtcInv, RtcTypeOK, MatchServes, MainServes, Now, Elapsed
  <1> QED
    BY <1>1, <1>2

\* An alarm that is on does not raise its interrupt before its time, though the
\* counter runs on, is loaded and wraps while the driver works out the match.
THEOREM AlarmNeverEarly == RtcSpec => NeverEarly
PROOF
  <1> DEFINE InTime == rtc'.flag /\ ~rtc.flag /\ ralarm.on => Now(rtc.cnt) >= ralarm.due
  <1>1. RtcInv /\ [RtcNext]_rvars => [InTime]_rvars
    <2> SUFFICES ASSUME RtcInv, RtcNext, rtc'.flag, ~rtc.flag, ralarm.on
                 PROVE  Now(rtc.cnt) >= ralarm.due
      OBVIOUS
    <2>1. rtc \in RtcRegs
      BY DEF RtcInv, RtcTypeOK
    <2>2. Match
      BY <2>1 DEF RtcRegs, RtcNext, RtcMatch, RtcTick, RtcLoaded, RtcInterrupt, RtcInitialize,
                  RtcUninitialize, RtcRun, RtcSetTime, RtcSetAlarm, RtcGetTime, RtcLook, RtcMoved, RtcAdd,
                  ReadCount, RtcSetMatch, RtcGivesUp, RtcEnable, IntOn, RtcSettled, RtcDisable
    <2>3. rtc.cnt = rtc.cmr
      BY <2>2 DEF Match
    <2> QED
      BY <2>3 DEF RtcInv, MatchServes
  <1> QED
    BY <1>1, RtcStarts, RtcSteps, PTL DEF RtcSpec, NeverEarly

\* The clock's registers, main and history stay well formed.
LEMMA RtcTyped == RtcSpec => []RtcTypeOK
PROOF
  <1>1. RtcInv => RtcTypeOK
    BY DEF RtcInv
  <1> QED
    BY <1>1, RtcStarts, RtcSteps, PTL DEF RtcSpec

\* The line of the clock is on while main is in a call, which has measured
\* against a counter that is loaded if it counts the alarm as due.
RtcReady ==
  /\ rmain.pc # "free" => rtc.irq /\ (rmain.fresh => ~rtc.load)
  /\ ralarm.on \/ ralarm.due >= 0 => ~rtc.load

RtcAhead == RtcTypeOK /\ RtcReady /\ AlarmAhead

\* The counter runs towards the match, and stops there for the flag.
LEMMA AheadOfCount ==
  ASSUME RtcAhead, RtcMatch \/ RtcTick \/ RtcLoaded \/ RtcInterrupt
  PROVE  (RtcReady /\ AlarmAhead)'
PROOF
  <1>t. rtc \in RtcRegs /\ ralarm \in [due : Int, on : BOOLEAN, rang : BOOLEAN] /\ rmain \in RtcMain
    BY DEF RtcAhead, RtcTypeOK
  <1>1. CASE RtcMatch
    BY <1>1, <1>t DEF RtcMatch, RtcAhead, RtcReady, AlarmAhead, RtcRegs
  <1>2. CASE RtcTick
    <2> DEFINE n == (rtc.cnt + 1) % RtcMod
               f == rtc.flag \/ Match
    <2>1. rtc' = [rtc EXCEPT !.cnt = n, !.flag = f] /\ UNCHANGED <<rbase, rmain, ralarm>> /\ rtc.run
      BY <1>2 DEF RtcTick
    <2>2. /\ rtc'.cnt = n /\ rtc'.flag = f /\ rtc'.cmr = rtc.cmr /\ rtc'.irq = rtc.irq
          /\ rtc'.int = rtc.int /\ rtc'.load = rtc.load
      BY <2>1, <1>t DEF RtcRegs
    <2>3. ASSUME rtc.int, ~f, rtc.cnt <= rtc.cmr PROVE n <= rtc.cmr
      <3>1. rtc.cnt \in Counts /\ rtc.cmr \in Counts
        BY <1>t DEF RtcRegs
      <3>2. rtc.cnt < rtc.cmr
        BY <2>1, <2>3, <3>1, RtcAssumption DEF Match, Counts
      <3>3. n = rtc.cnt + 1
        BY <3>1, <3>2, RtcAssumption DEF Counts
      <3> QED
        BY <3>1, <3>2, <3>3, RtcAssumption DEF Counts
    <2>4. f \in BOOLEAN /\ (~f => ~rtc.flag)
      BY <1>t DEF Match, RtcRegs
    <2> HIDE DEF n, f
    <2>5. AlarmAhead'
      BY <2>1, <2>2, <2>3, <2>4, <1>t DEF RtcAhead, AlarmAhead
    <2>6. RtcReady'
      BY <2>1, <2>2 DEF RtcAhead, RtcReady
    <2> QED
      BY <2>5, <2>6
  <1>3. CASE RtcLoaded
    BY <1>3, <1>t DEF RtcLoaded, RtcAhead, RtcReady, AlarmAhead, RtcRegs
  <1>4. CASE RtcInterrupt
    BY <1>4, <1>t DEF RtcInterrupt, RtcAhead, RtcReady, AlarmAhead, RtcRegs
  <1> QED
    BY <1>1, <1>2, <1>3, <1>4

\* The calls: what switches the clock off, or loads it, calls the alarm off.
LEMMA AheadOfCalls ==
  ASSUME RtcAhead,
         \/ RtcInitialize \/ RtcUninitialize \/ RtcRun \/ RtcSetTime
         \/ RtcSetAlarm \/ RtcEnable \/ RtcDisable
  PROVE  (RtcReady /\ AlarmAhead)'
PROOF
  <1>t. rtc \in RtcRegs /\ ralarm \in [due : Int, on : BOOLEAN, rang : BOOLEAN] /\ rmain \in RtcMain
    BY DEF RtcAhead, RtcTypeOK
  <1>1. CASE RtcInitialize \/ RtcUninitialize \/ RtcSetTime
    <2>1. rmain' = rmain /\ rmain.pc = "free" /\ ralarm' = NoAlarm
      BY <1>1 DEF RtcInitialize, RtcUninitialize, RtcSetTime, RtcOpen, RtcCall
    <2> QED
      BY <2>1 DEF RtcReady, AlarmAhead, NoAlarm
  <1>2. CASE RtcRun
    BY <1>2, <1>t DEF RtcRun, RtcOpen, RtcCall, RtcAhead, RtcReady, AlarmAhead, RtcRegs
  <1>3. CASE RtcSetAlarm
    <2>1. rtc' = rtc /\ ralarm' = ralarm /\ rtc.irq /\ rmain'.fresh = FALSE
      BY <1>3 DEF RtcSetAlarm, RtcOpen, Free
    <2> QED
      BY <2>1 DEF RtcAhead, RtcReady, AlarmAhead
  <1>4. CASE RtcEnable
    <2>1. /\ rtc'.irq /\ rtc'.int /\ rtc'.load = rtc.load /\ rtc'.flag = rtc.flag
          /\ rtc'.cnt = rtc.cnt /\ rtc'.cmr = rtc.cmr
      BY <1>4, <1>t DEF RtcEnable, RtcOpen, IntOn, RtcRegs
    <2>2. rmain'.fresh = FALSE
      BY <1>4 DEF RtcEnable, Free
    <2>3. \/ ralarm.due >= 0 /\ rtc.cnt <= rtc.cmr /\ ralarm' = [ralarm EXCEPT !.on = TRUE]
          \/ ralarm' = ralarm
      BY <1>4 DEF RtcEnable
    <2>4. ralarm'.due = ralarm.due /\ (ralarm'.on => ralarm.on \/ ralarm.due >= 0)
      BY <1>t, <2>3
    <2>5. RtcReady'
      BY <2>1, <2>2, <2>4 DEF RtcAhead, RtcReady
    <2>6. AlarmAhead'
      BY <2>1, <2>3, <1>t DEF RtcAhead, AlarmAhead
    <2> QED
      BY <2>5, <2>6
  <1>5. CASE RtcDisable
    <2>1. rtc'.irq /\ rmain'.fresh = FALSE /\ ralarm' = NoAlarm
      BY <1>5, <1>t DEF RtcDisable, RtcOpen, Free, RtcRegs
    <2> QED
      BY <2>1 DEF RtcReady, AlarmAhead, NoAlarm
  <1> QED
    BY <1>1, <1>2, <1>3, <1>4, <1>5

\* Main within a call: an alarm that is due is later than the count of the call.
LEMMA AheadOfMain ==
  ASSUME RtcAhead, RtcGetTime \/ RtcLook \/ RtcMoved \/ RtcAdd \/ RtcSetMatch \/ RtcGivesUp \/ RtcSettled
  PROVE  (RtcReady /\ AlarmAhead)'
PROOF
  <1>t. rtc \in RtcRegs /\ ralarm \in [due : Int, on : BOOLEAN, rang : BOOLEAN] /\ rmain \in RtcMain
    BY DEF RtcAhead, RtcTypeOK
  <1>1. CASE RtcGetTime
    <2>1. rtc' = rtc /\ ralarm' = ralarm /\ rmain.pc = "get"
      BY <1>1 DEF RtcGetTime
    <2> DEFINE fresh == ~rtc.load /\ rtc.cnt >= rtc.clr
    <2>2. fresh \in BOOLEAN /\ (fresh => ~rtc.load)
      BY <1>t DEF RtcRegs
    <2>3. PICK now \in ReadAs :
            rmain' = IF rmain.due < now THEN Free
                     ELSE [rmain EXCEPT !.pc = "look", !.delta = rmain.due - now, !.last = rtc.cnt,
                                          !.fresh = fresh]
      BY <1>1 DEF RtcGetTime
    <2> HIDE DEF fresh
    <2>4. rmain'.fresh => ~rtc.load
      BY <2>2, <2>3, <1>t DEF RtcMain, Free
    <2> QED
      BY <2>1, <2>4 DEF RtcAhead, RtcReady, AlarmAhead
  <1>2. CASE RtcLook \/ RtcMoved \/ RtcAdd
    BY <1>2, <1>t DEF RtcLook, RtcMoved, RtcAdd, ReadCount, RtcAhead, RtcReady, AlarmAhead, RtcMain
  <1>3. CASE RtcSetMatch
    <2> DEFINE m == MatchAt(rmain.last, rmain.delta)
    <2>1. /\ rtc'.irq = rtc.irq /\ rtc'.int = rtc.int /\ rtc'.load = rtc.load /\ rtc'.cnt = rtc.cnt
          /\ rtc'.cmr = m /\ rmain' = Free /\ rmain.pc = "write"
          /\ ralarm' = IF Due(rmain.last) THEN [due |-> rmain.due, on |-> rtc.int, rang |-> FALSE] ELSE NoAlarm
      BY <1>3, <1>t DEF RtcSetMatch, RtcRegs
    <2>2. CASE ~Due(rmain.last)
      BY <2>1, <2>2 DEF RtcReady, AlarmAhead, NoAlarm, Free
    <2>3. CASE Due(rmain.last)
      <3>1. rmain.fresh /\ rtc.cnt <= m
        BY <2>3 DEF Due
      <3>2. rtc.irq /\ ~rtc.load
        BY <2>1, <3>1 DEF RtcAhead, RtcReady
      <3> HIDE DEF m
      <3> QED
        BY <2>1, <2>3, <3>1, <3>2 DEF RtcReady, AlarmAhead, Free
    <2> QED
      BY <2>2, <2>3
  <1>4. CASE RtcGivesUp \/ RtcSettled
    BY <1>4 DEF RtcGivesUp, RtcSettled, Free, RtcAhead, RtcReady, AlarmAhead
  <1> QED
    BY <1>1, <1>2, <1>3, <1>4

\* An alarm that is on and has not rung is flagged or has its match ahead of the
\* count, and can interrupt, whatever is called while the clock runs and wraps.
THEOREM AlarmIsAhead == RtcSpec => []AlarmAhead
PROOF
  <1>1. RtcInit => RtcAhead
    <2>1. RtcInit => RtcTypeOK
      <3>1. 0 \in Counts
        BY RtcAssumption DEF Counts
      <3> QED
        BY <3>1 DEF RtcInit, RtcTypeOK, RtcRegs, RtcMain, Free, NoAlarm
    <2> QED
      BY <2>1 DEF RtcInit, RtcAhead, RtcReady, AlarmAhead, NoAlarm, Free
  <1>2. RtcAhead /\ RtcTypeOK' /\ [RtcNext]_rvars => RtcAhead'
    <2>1. RtcAhead /\ RtcTypeOK' /\ RtcNext => RtcAhead'
      BY AheadOfCount, AheadOfCalls, AheadOfMain DEF RtcNext, RtcAhead
    <2>2. RtcAhead /\ UNCHANGED rvars => RtcAhead'
      BY DEF rvars, RtcAhead, RtcTypeOK, RtcReady, AlarmAhead
    <2> QED
      BY <2>1, <2>2
  <1>3. RtcAhead => AlarmAhead
    BY DEF RtcAhead
  <1> QED
    BY <1>1, <1>2, <1>3, RtcTyped, PTL DEF RtcSpec

--------------------------------------------------------------------------------
PwmSpec == PwmInit /\ [][PwmNext]_pwmvars

PwmHistory == [last : [known : BOOLEAN, chan : Channels, period : Nat, pulse : Nat],
               due : SUBSET Events, calls : Nat]
PwmTypes == pwm \in PwmRegs /\ pisr.todo \subseteq Gens /\ prec \in PwmHistory

PwmInv == PwmTypes /\ EventsKept /\ PwmShape

\* Every channel belongs to a generator.
LEMMA ChannelsHaveGens ==
  ASSUME NEW c \in Channels
  PROVE  GenOf(c) \in Gens
PROOF
  BY PwmAssumption DEF Channels, Gens, GenOf

\* A power of two is the number of subsets of an interval.
LEMMA PowersOfTwo ==
  ASSUME NEW i \in Nat
  PROVE  2^i \in Nat /\ 2^i >= 1 /\ (i = 0 => 2^i = 1)
PROOF
  <1>1. IsFiniteSet(1..i) /\ Cardinality(1..i) = i
    BY FS_Interval
  <1>2. IsFiniteSet(SUBSET (1..i)) /\ Cardinality(SUBSET (1..i)) = 2^i
    BY <1>1, FS_SUBSET
  <1>3. Cardinality(SUBSET (1..i)) \in Nat
    BY <1>2, FS_CardinalityType
  <1>4. Cardinality(SUBSET (1..i)) # 0
    BY <1>2, FS_EmptySet
  <1>5. i = 0 => Cardinality(SUBSET (1..i)) = 1
    <2> SUFFICES ASSUME i = 0 PROVE Cardinality(SUBSET (1..i)) = 1
      OBVIOUS
    <2>1. 1..i = {}
      OBVIOUS
    <2>2. SUBSET (1..i) = {{}}
      BY <2>1
    <2> QED
      BY <2>2, FS_Singleton
  <1> QED
    BY <1>2, <1>3, <1>4, <1>5

\* A quotient, back in counts of the divisor, is less than one of them short.
LEMMA QuotientShort ==
  ASSUME NEW x \in Nat, NEW p \in Nat, p >= 1
  PROVE  x \div p \in Nat /\ (x \div p) * p <= x /\ x < ((x \div p) + 1) * p
PROOF
  OBVIOUS

\* A quotient grows with what is divided.
LEMMA QuotientsOrdered ==
  ASSUME NEW x \in Nat, NEW z \in Nat, x <= z, NEW p \in Nat, p >= 1
  PROVE  x \div p <= z \div p
PROOF
  OBVIOUS

\* A remainder is one of the numbers of a word, and what fits the word is its own.
LEMMA Remainder ==
  ASSUME NEW x \in Nat, NEW w \in Nat, w >= 1
  PROVE  x % w \in 0..(w - 1) /\ (x < w => x % w = x)
PROOF
  OBVIOUS

\* The product of a time and the clock is a word, and is that product if it fits.
LEMMA ClocksAre ==
  ASSUME NEW us \in Nat
  PROVE  ClocksOf(us) \in Nat /\ (PwmMHz * us < PwmWord => ClocksOf(us) = PwmMHz * us)
PROOF
  <1> DEFINE x == PwmMHz * us
  <1>1. x \in Nat /\ PwmWord \in Nat /\ PwmWord >= 1
    BY PwmAssumption
  <1>2. ClocksOf(us) = x % PwmWord
    BY DEF ClocksOf
  <1> HIDE DEF x
  <1>3. x % PwmWord \in 0..(PwmWord - 1) /\ (x < PwmWord => x % PwmWord = x)
    BY <1>1, Remainder
  <1>4. ClocksOf(us) \in Nat /\ (x < PwmWord => ClocksOf(us) = x)
    <2> DEFINE r == x % PwmWord
    <2>1. r \in Nat /\ (x < PwmWord => r = x) /\ ClocksOf(us) = r
      BY <1>1, <1>2, <1>3
    <2> HIDE DEF r
    <2> QED
      BY <2>1
  <1> QED
    BY <1>4 DEF x

\* The counts of a time at a divider.
LEMMA CountsAreShort ==
  ASSUME NEW us \in Nat, NEW step \in Steps
  PROVE  /\ CountsAt(us, step) \in Nat /\ CountsAt(us, step) * 2^step <= ClocksOf(us)
         /\ ClocksOf(us) < (CountsAt(us, step) + 1) * 2^step
PROOF
  <1> DEFINE x == ClocksOf(us)
             p == 2^step
  <1>1. x \in Nat
    BY ClocksAre
  <1>2. p \in Nat /\ p >= 1
    BY PwmAssumption, PowersOfTwo DEF Steps
  <1>3. CountsAt(us, step) = x \div p
    BY DEF CountsAt
  <1> HIDE DEF x, p
  <1>4. x \div p \in Nat /\ (x \div p) * p <= x /\ x < ((x \div p) + 1) * p
    BY <1>1, <1>2, QuotientShort
  <1> QED
    BY <1>3, <1>4 DEF x, p

\* A pulse that is within a period whose clocks fit a word is so in counts.
LEMMA CountsAreOrdered ==
  ASSUME NEW us \in Nat, NEW more \in Nat, us <= more, PwmMHz * more < PwmWord, NEW step \in Steps
  PROVE  CountsAt(us, step) <= CountsAt(more, step)
PROOF
  <1> DEFINE x == PwmMHz * us
             z == PwmMHz * more
             p == 2^step
  <1>1. x \in Nat /\ z \in Nat /\ x <= z /\ PwmWord \in Nat
    BY PwmAssumption
  <1>2. p \in Nat /\ p >= 1
    BY PwmAssumption, PowersOfTwo DEF Steps
  <1>3. ClocksOf(us) = x /\ ClocksOf(more) = z
    BY <1>1, ClocksAre
  <1> HIDE DEF x, z, p
  <1>4. x \div p <= z \div p
    BY <1>1, <1>2, QuotientsOrdered
  <1> QED
    BY <1>3, <1>4 DEF CountsAt, p

\* The compare values stay values of their registers, and one that fits is set
\* alone.
LEMMA ComparedIs ==
  ASSUME NEW regs \in [Channels -> Loads], NEW c \in Channels, NEW count \in Nat,
         NEW cmp \in Compared(regs, c, count)
  PROVE  cmp \in [Channels -> Loads] /\ (count <= PwmTop => cmp[c] = count)
PROOF
  <1> DEFINE own  == count % (PwmTop + 1)
             over == (count \div (PwmTop + 1)) % (PwmTop + 1)
             one  == [regs EXCEPT ![c] = own]
  <1>1. own \in 0..PwmTop /\ (count <= PwmTop => own = count)
    <2>1. PwmTop + 1 \in Nat /\ PwmTop + 1 >= 1 /\ PwmTop \in Nat
      BY PwmAssumption
    <2>2. own \in 0..((PwmTop + 1) - 1) /\ (count < PwmTop + 1 => own = count)
      BY <2>1, Remainder
    <2> HIDE DEF own
    <2> QED
      BY <2>1, <2>2
  <1>2. cmp = one \/ \E n \in Loads : cmp = [regs EXCEPT ![c] = own, ![c + 1] = n]
    BY DEF Compared
  <1> HIDE DEF own
  <1>3. own \in Loads
    BY <1>1 DEF Loads
  <1>4. one \in [Channels -> Loads] /\ one[c] = own
    BY <1>3
  <1>5. ASSUME NEW n \in Loads, cmp = [regs EXCEPT ![c] = own, ![c + 1] = n]
        PROVE  cmp \in [Channels -> Loads] /\ cmp[c] = own
    <2>1. cmp = [one EXCEPT ![c + 1] = n]
      BY <1>5
    <2>2. c + 1 # c
      BY DEF Channels
    <2> HIDE DEF one
    <2> QED
      BY <1>4, <2>1, <2>2
  <1> QED
    BY <1>1, <1>2, <1>4, <1>5

\* The PWM begins in its invariant.
LEMMA PwmStarts == PwmInit => PwmInv
PROOF
  <1> SUFFICES ASSUME PwmInit PROVE PwmInv
    OBVIOUS
  <1>1. pwm \in PwmRegs
    BY PwmAssumption DEF PwmInit, PwmRegs, Loads
  <1>2. 0 \in Channels
    BY PwmAssumption DEF Channels
  <1>3. prec \in PwmHistory
    BY <1>2 DEF PwmInit, PwmHistory, NoChannel
  <1>4. prec.due = {} /\ prec.last.known = FALSE /\ pisr.todo = {}
    BY DEF PwmInit, NoChannel
  <1> QED
    BY <1>1, <1>3, <1>4 DEF PwmInv, PwmTypes, EventsKept, PwmShape

\* Steps that leave the clock, the periods, the pulses and what was asked last
\* keep the shape.
LEMMA ShapeStays ==
  ASSUME PwmShape, pwm'.bits = pwm.bits, pwm'.diven = pwm.diven, pwm'.load = pwm.load,
         pwm'.cmp = pwm.cmp, prec'.last = prec.last
  PROVE  PwmShape'
PROOF
  BY DEF PwmShape, AsAsked, PeriodOf, LowOf, Divider

\* A call that only changes the registers and is counted.
LEMMA CallsKeep ==
  ASSUME PwmInv, pwm' \in PwmRegs, PwmCall, PwmCounted,
         pwm'.bits = pwm.bits, pwm'.diven = pwm.diven, pwm'.load = pwm.load,
         pwm'.cmp = pwm.cmp, pwm'.is = pwm.is
  PROVE  PwmInv'
PROOF
  <1>1. prec \in PwmHistory /\ pisr.todo \subseteq Gens /\ pisr' = pisr
    BY DEF PwmInv, PwmTypes, PwmCall
  <1>2. prec' = [prec EXCEPT !.calls = @ + 1]
    BY DEF PwmCounted
  <1>3. prec' \in PwmHistory /\ prec'.last = prec.last /\ prec'.due = prec.due
    BY <1>1, <1>2 DEF PwmHistory
  <1>4. PwmShape'
    BY <1>3, ShapeStays DEF PwmInv
  <1> QED
    BY <1>1, <1>3, <1>4 DEF PwmInv, PwmTypes, EventsKept

\* A divider is set: what it is then.
LEMMA DividerIs ==
  ASSUME NEW step \in Steps, pwm'.bits = IF step = 0 THEN 0 ELSE step - 1,
         pwm'.diven <=> step # 0
  PROVE  Divider' = 2^step
PROOF
  <1>1. CASE step = 0
    <2>1. 2^step = 1
      BY <1>1, PowersOfTwo
    <2> QED
      BY <1>1, <2>1 DEF Divider
  <1>2. CASE step # 0
    <2>1. pwm'.bits + 1 = step
      BY <1>2, PwmAssumption DEF Steps
    <2> QED
      BY <1>2, <2>1 DEF Divider
  <1> QED
    BY <1>1, <1>2

\* What the two fields of the divider mean is the step that was set.
LEMMA DividerSet ==
  ASSUME pwm \in PwmRegs, NEW step \in Steps
  PROVE  /\ WithDiv(pwm, step) \in PwmRegs /\ WithDiv(pwm, step).is = pwm.is
         /\ WithDiv(pwm, step).bits = (IF step = 0 THEN 0 ELSE step - 1)
         /\ (WithDiv(pwm, step).diven <=> step # 0)
PROOF
  <1> DEFINE b == IF step = 0 THEN 0 ELSE step - 1
             e == step # 0
  <1>1. b \in 0..7
    BY PwmAssumption DEF Steps
  <1>2. e \in BOOLEAN
    OBVIOUS
  <1>3. WithDiv(pwm, step) = [pwm EXCEPT !.bits = b, !.diven = e]
    BY DEF WithDiv
  <1> HIDE DEF b, e
  <1>4. [pwm EXCEPT !.bits = b] \in PwmRegs /\ [pwm EXCEPT !.bits = b].is = pwm.is
        /\ [pwm EXCEPT !.bits = b].bits = b
    BY <1>1 DEF PwmRegs
  <1> DEFINE q == [pwm EXCEPT !.bits = b]
  <1>5. WithDiv(pwm, step) = [q EXCEPT !.diven = e] /\ q \in PwmRegs /\ q.is = pwm.is /\ q.bits = b
    BY <1>3, <1>4
  <1> HIDE DEF q
  <1>6. WithDiv(pwm, step) \in PwmRegs
    BY <1>2, <1>5 DEF PwmRegs
  <1>7. WithDiv(pwm, step).is = pwm.is /\ WithDiv(pwm, step).bits = b /\ WithDiv(pwm, step).diven = e
    BY <1>5 DEF PwmRegs
  <1> QED
    BY <1>6, <1>7 DEF b, e

\* The configuration of a channel: its registers hold values of theirs, and when
\* the period in clocks fits a word the signal is the one that was asked for.
LEMMA ConfigKeeps == PwmInv /\ PwmConfig => PwmInv'
PROOF
  <1> SUFFICES ASSUME PwmInv, PwmConfig PROVE PwmInv'
    OBVIOUS
  <1>p. pwm \in PwmRegs
    BY DEF PwmInv, PwmTypes
  <1>h. prec \in PwmHistory /\ pisr.todo \subseteq Gens /\ pisr' = pisr
    BY DEF PwmInv, PwmTypes, PwmConfig, PwmCall
  <1>e. prec.due \subseteq pwm.is
    BY DEF PwmInv, EventsKept
  <1>1. PICK c \in Channels, period \in PwmPeriods : \E pulse \in {us \in PwmPeriods : us <= period} :
          \/ /\ Fits(period) = {}
             /\ pwm' = WithDiv(pwm, PwmSteps)
             /\ prec' = [prec EXCEPT !.last = NoChannel, !.calls = @ + 1]
          \/ \E step \in FirstFit(period) : \E cmp \in Compared(pwm.cmp, c, CountsAt(pulse, step)) :
               /\ pwm' = [WithDiv(pwm, step) EXCEPT !.load[GenOf(c)] = CountsAt(period, step), !.cmp = cmp]
               /\ prec' = [last |-> [known |-> TRUE, chan |-> c, period |-> period, pulse |-> pulse],
                           due |-> prec.due, calls |-> prec.calls + 1]
    BY DEF PwmConfig
  <1>a. PICK pulse \in {us \in PwmPeriods : us <= period} :
          \/ /\ Fits(period) = {}
             /\ pwm' = WithDiv(pwm, PwmSteps)
             /\ prec' = [prec EXCEPT !.last = NoChannel, !.calls = @ + 1]
          \/ \E step \in FirstFit(period) : \E cmp \in Compared(pwm.cmp, c, CountsAt(pulse, step)) :
               /\ pwm' = [WithDiv(pwm, step) EXCEPT !.load[GenOf(c)] = CountsAt(period, step), !.cmp = cmp]
               /\ prec' = [last |-> [known |-> TRUE, chan |-> c, period |-> period, pulse |-> pulse],
                           due |-> prec.due, calls |-> prec.calls + 1]
    BY <1>1
  <1>2. period \in Nat /\ pulse \in Nat /\ pulse <= period
    BY PwmAssumption
  <1>3. CASE pwm' = WithDiv(pwm, PwmSteps) /\ prec' = [prec EXCEPT !.last = NoChannel, !.calls = @ + 1]
    <2>1. pwm' \in PwmRegs /\ pwm'.is = pwm.is
      BY <1>p, <1>3, PwmAssumption, DividerSet DEF Steps
    <2>2. 0 \in Channels
      BY PwmAssumption DEF Channels
    <2>n. NoChannel \in [known : BOOLEAN, chan : Channels, period : Nat, pulse : Nat]
      BY <2>2 DEF NoChannel
    <2>c. prec.calls + 1 \in Nat
      BY <1>h DEF PwmHistory
    <2>3. prec' \in PwmHistory /\ prec'.due = prec.due /\ prec'.last = NoChannel
      <3> DEFINE n == prec.calls + 1
      <3>1. prec' = [prec EXCEPT !.last = NoChannel, !.calls = n] /\ n \in Nat
        BY <1>3, <2>c
      <3> HIDE DEF n
      <3> QED
        BY <1>h, <2>n, <3>1 DEF PwmHistory
    <2>4. PwmShape'
      BY <2>3 DEF PwmShape, NoChannel
    <2> QED
      BY <1>h, <1>e, <2>1, <2>3, <2>4 DEF PwmInv, PwmTypes, EventsKept
  <1>4. ASSUME NEW step \in FirstFit(period), NEW cmp \in Compared(pwm.cmp, c, CountsAt(pulse, step)),
               pwm' = [WithDiv(pwm, step) EXCEPT !.load[GenOf(c)] = CountsAt(period, step), !.cmp = cmp],
               prec' = [last |-> [known |-> TRUE, chan |-> c, period |-> period, pulse |-> pulse],
                        due |-> prec.due, calls |-> prec.calls + 1]
        PROVE  PwmInv'
    <2> DEFINE top == CountsAt(period, step)
               mid == CountsAt(pulse, step)
               two == 2^step
               b   == IF step = 0 THEN 0 ELSE step - 1
    <2>1. step \in Steps /\ top <= PwmTop
      BY DEF FirstFit, Fits
    <2>2. top \in Nat /\ top * two <= ClocksOf(period) /\ ClocksOf(period) < (top + 1) * two
      BY <1>2, <2>1, CountsAreShort
    <2>3. mid \in Nat /\ mid * two <= ClocksOf(pulse) /\ ClocksOf(pulse) < (mid + 1) * two
      BY <1>2, <2>1, CountsAreShort
    <2>4. cmp \in [Channels -> Loads] /\ (mid <= PwmTop => cmp[c] = mid)
      <3>1. pwm.cmp \in [Channels -> Loads]
        BY <1>p DEF PwmRegs
      <3> QED
        BY <2>3, <3>1, ComparedIs
    <2>5. GenOf(c) \in Gens
      BY ChannelsHaveGens
    <2>6. pwm' = [WithDiv(pwm, step) EXCEPT !.load[GenOf(c)] = top, !.cmp = cmp]
      BY <1>4
    <2>7. two \in Nat /\ two >= 1
      BY <2>1, PwmAssumption, PowersOfTwo DEF Steps
    <2>c. PwmMHz * period < PwmWord
            => mid <= top /\ ClocksOf(period) = PwmMHz * period /\ ClocksOf(pulse) = PwmMHz * pulse
      <3> SUFFICES ASSUME PwmMHz * period < PwmWord
                   PROVE  mid <= top /\ ClocksOf(period) = PwmMHz * period /\ ClocksOf(pulse) = PwmMHz * pulse
        OBVIOUS
      <3>1. mid <= top
        BY <1>2, <2>1, CountsAreOrdered
      <3>2. PwmMHz * pulse < PwmWord
        <4>1. PwmMHz * pulse <= PwmMHz * period
          BY <1>2, PwmAssumption
        <4> QED
          BY <1>2, <4>1, PwmAssumption
      <3> QED
        BY <1>2, <3>1, <3>2, ClocksAre
    <2> HIDE DEF top, mid, two
    <2>8. top \in Loads
      BY <2>1, <2>2, PwmAssumption DEF Loads
    <2>9. pwm' \in PwmRegs /\ pwm'.load[GenOf(c)] = top /\ pwm'.cmp = cmp /\ pwm'.is = pwm.is
          /\ pwm'.bits = b /\ (pwm'.diven <=> step # 0)
      <3> DEFINE w == WithDiv(pwm, step)
                 v == [w EXCEPT !.load[GenOf(c)] = top]
      <3>1. w \in PwmRegs /\ w.is = pwm.is /\ w.bits = b /\ (w.diven <=> step # 0)
        BY <1>p, <2>1, DividerSet
      <3>2. pwm' = [v EXCEPT !.cmp = cmp]
        BY <2>6
      <3> HIDE DEF w
      <3>3. v \in PwmRegs /\ v.load[GenOf(c)] = top
        BY <2>5, <2>8, <3>1 DEF PwmRegs
      <3>4. v.is = w.is /\ v.bits = w.bits /\ v.diven = w.diven
        BY <3>1 DEF PwmRegs
      <3> HIDE DEF v
      <3>5. pwm' \in PwmRegs /\ pwm'.cmp = cmp
        BY <2>4, <3>2, <3>3 DEF PwmRegs
      <3>6. pwm'.load = v.load /\ pwm'.is = v.is /\ pwm'.bits = v.bits /\ pwm'.diven = v.diven
        BY <3>2, <3>3 DEF PwmRegs
      <3> QED
        BY <3>1, <3>3, <3>4, <3>5, <3>6
    <2>10. Divider' = two
      BY <2>1, <2>9, DividerIs DEF two
    <2>11. prec' \in PwmHistory /\ prec'.due = prec.due
           /\ prec'.last = [known |-> TRUE, chan |-> c, period |-> period, pulse |-> pulse]
      BY <1>h, <1>2, <1>4 DEF PwmHistory
    <2>12. PwmShape'
      <3> SUFFICES ASSUME PwmMHz * period < PwmWord PROVE AsAsked(prec.last)'
        BY <2>11 DEF PwmShape
      <3> DEFINE x == PwmMHz * period
                 y == PwmMHz * pulse
      <3>1. x \in Nat /\ y \in Nat
        BY <1>2, PwmAssumption
      <3>2. top * two <= x /\ x < (top + 1) * two /\ mid * two <= y /\ y < (mid + 1) * two /\ mid <= top
        BY <2>2, <2>3, <2>c
      <3>3. cmp[c] = mid
        BY <2>1, <2>2, <2>3, <2>4, <3>2, PwmAssumption
      <3>4. PeriodOf(c)' = (top + 1) * two /\ LowOf(c)' = mid * two
        BY <2>9, <2>10, <3>2, <3>3 DEF PeriodOf, LowOf
      <3>5. (top + 1) * two = top * two + two /\ (mid + 1) * two = mid * two + two
        BY <2>2, <2>3, <2>7
      <3> HIDE DEF x, y
      <3>6. x < PeriodOf(c)' /\ PeriodOf(c)' <= x + two /\ LowOf(c)' <= y /\ y < LowOf(c)' + two
        <4> DEFINE m == top * two
                   k == mid * two
        <4>1. m \in Nat /\ k \in Nat
          BY <2>2, <2>3, <2>7
        <4> HIDE DEF m, k
        <4>2. PeriodOf(c)' = m + two /\ LowOf(c)' = k /\ m <= x /\ x < m + two /\ k <= y /\ y < k + two
          BY <3>2, <3>4, <3>5 DEF m, k
        <4> QED
          BY <2>7, <3>1, <4>1, <4>2
      <3> QED
        BY <2>10, <2>11, <3>6 DEF AsAsked, x, y
    <2> QED
      BY <1>h, <1>e, <2>9, <2>11, <2>12 DEF PwmInv, PwmTypes, EventsKept
  <1> QED
    BY <1>a, <1>3, <1>4

\* Setting the divider by itself gives up the shape.
LEMMA ConfigDivKeeps == PwmInv /\ PwmConfigDiv => PwmInv'
PROOF
  <1> SUFFICES ASSUME PwmInv, PwmConfigDiv PROVE PwmInv'
    OBVIOUS
  <1>1. PICK step \in Steps : pwm' = WithDiv(pwm, step)
    BY DEF PwmConfigDiv
  <1>2. pwm' \in PwmRegs /\ pwm'.is = pwm.is
    BY <1>1, DividerSet DEF PwmInv, PwmTypes
  <1>3. prec \in PwmHistory /\ pisr.todo \subseteq Gens /\ pisr' = pisr
    BY DEF PwmInv, PwmTypes, PwmConfigDiv, PwmCall
  <1>4. 0 \in Channels
    BY PwmAssumption DEF Channels
  <1>5. NoChannel \in [known : BOOLEAN, chan : Channels, period : Nat, pulse : Nat]
    BY <1>4 DEF NoChannel
  <1>6. prec' \in PwmHistory /\ prec'.due = prec.due /\ prec'.last = NoChannel
    <2> DEFINE n == prec.calls + 1
    <2>1. prec' = [prec EXCEPT !.last = NoChannel, !.calls = n] /\ n \in Nat
      BY <1>3 DEF PwmConfigDiv, PwmHistory
    <2> HIDE DEF n
    <2> QED
      BY <1>3, <1>5, <2>1 DEF PwmHistory
  <1> QED
    BY <1>2, <1>3, <1>6 DEF PwmInv, PwmTypes, EventsKept, PwmShape, NoChannel

\* The calls that leave the clock, the periods and the pulses.
LEMMA OtherCallsKeep ==
  ASSUME PwmInv,
         \/ PwmConfigCb \/ PwmUninitialize \/ PwmStart \/ PwmStop \/ PwmCaptureConfig
         \/ PwmCaptureStart \/ PwmCaptureStop \/ PwmSetTimeout \/ PwmTimerStart \/ PwmTimerStop
  PROVE  PwmInv'
PROOF
  <1>0. pwm \in PwmRegs
    BY DEF PwmInv, PwmTypes
  <1>1. CASE PwmConfigCb
    <2>1. PICK c \in Channels : pwm' = [pwm EXCEPT !.cbs = @ \cup {c}, !.irq = TRUE]
      BY <1>1 DEF PwmConfigCb
    <2>2. pwm' \in PwmRegs /\ pwm'.is = pwm.is
      BY <1>0, <2>1 DEF PwmRegs
    <2>3. pwm'.bits = pwm.bits /\ pwm'.diven = pwm.diven /\ pwm'.load = pwm.load /\ pwm'.cmp = pwm.cmp
      BY <1>0, <2>1 DEF PwmRegs
    <2> QED
      BY <1>1, <2>2, <2>3, CallsKeep DEF PwmConfigCb
  <1>2. CASE PwmUninitialize
    <2>1. pwm' = [pwm EXCEPT !.irq = FALSE]
      BY <1>2 DEF PwmUninitialize
    <2>2. pwm' \in PwmRegs /\ pwm'.is = pwm.is
      BY <1>0, <2>1 DEF PwmRegs
    <2>3. pwm'.bits = pwm.bits /\ pwm'.diven = pwm.diven /\ pwm'.load = pwm.load /\ pwm'.cmp = pwm.cmp
      BY <1>0, <2>1 DEF PwmRegs
    <2> QED
      BY <1>2, <2>2, <2>3, CallsKeep DEF PwmUninitialize
  \* Calls that change which channels are on, the captures, timers and enables.
  <1>3. ASSUME NEW out \in SUBSET Channels, NEW cap \in SUBSET Gens, NEW tms \in SUBSET Gens,
               NEW ie \in SUBSET Events,
               pwm' = [pwm EXCEPT !.out = out, !.cap = cap, !.tim = tms, !.ie = ie],
               PwmCall, PwmCounted
        PROVE  PwmInv'
    <2>1. pwm' \in PwmRegs /\ pwm'.is = pwm.is
      BY <1>0, <1>3 DEF PwmRegs
    <2>2. pwm'.bits = pwm.bits /\ pwm'.diven = pwm.diven /\ pwm'.load = pwm.load /\ pwm'.cmp = pwm.cmp
      BY <1>0, <1>3 DEF PwmRegs
    <2> QED
      BY <1>3, <2>1, <2>2, CallsKeep
  <1>4. pwm.out \in SUBSET Channels /\ pwm.cap \in SUBSET Gens /\ pwm.tim \in SUBSET Gens
        /\ pwm.ie \in SUBSET Events
    BY <1>0 DEF PwmRegs
  <1>5. \A g \in Gens : {2 * g, 2 * g + 1} \subseteq Channels
    BY PwmAssumption DEF Gens, Channels
  <1>6. CASE PwmStart
    <2>1. PICK g \in Gens : pwm' = [pwm EXCEPT !.out = @ \cup {2 * g, 2 * g + 1}]
      BY <1>6 DEF PwmStart
    <2>2. pwm.out \cup {2 * g, 2 * g + 1} \in SUBSET Channels
      BY <1>4, <1>5
    <2>3. pwm' = [pwm EXCEPT !.out = pwm.out \cup {2 * g, 2 * g + 1}, !.cap = pwm.cap,
                             !.tim = pwm.tim, !.ie = pwm.ie]
      BY <1>0, <2>1 DEF PwmRegs
    <2> QED
      BY <1>3, <1>4, <1>6, <2>2, <2>3 DEF PwmStart
  <1>7. CASE PwmStop
    <2>1. PICK g \in Gens : pwm' = [pwm EXCEPT !.out = @ \ {2 * g, 2 * g + 1}]
      BY <1>7 DEF PwmStop
    <2>2. pwm.out \ {2 * g, 2 * g + 1} \in SUBSET Channels
      BY <1>4
    <2>3. pwm' = [pwm EXCEPT !.out = pwm.out \ {2 * g, 2 * g + 1}, !.cap = pwm.cap,
                             !.tim = pwm.tim, !.ie = pwm.ie]
      BY <1>0, <2>1 DEF PwmRegs
    <2> QED
      BY <1>3, <1>4, <1>7, <2>2, <2>3 DEF PwmStop
  <1>8. CASE PwmCaptureConfig
    <2>1. PICK e \in Events :
            pwm' = [pwm EXCEPT !.ie = (IF e[2] = "time" THEN @ \ {<<e[1], "count">>} ELSE @) \cup {e}]
      BY <1>8 DEF PwmCaptureConfig
    <2> DEFINE ie == (IF e[2] = "time" THEN pwm.ie \ {<<e[1], "count">>} ELSE pwm.ie) \cup {e}
    <2>2. ie \in SUBSET Events
      BY <1>4
    <2>3. pwm' = [pwm EXCEPT !.ie = ie]
      BY <2>1
    <2> HIDE DEF ie
    <2>4. pwm' = [pwm EXCEPT !.out = pwm.out, !.cap = pwm.cap, !.tim = pwm.tim, !.ie = ie]
      BY <1>0, <2>3 DEF PwmRegs
    <2> QED
      BY <1>3, <1>4, <1>8, <2>2, <2>4 DEF PwmCaptureConfig
  <1>9. CASE PwmCaptureStart
    <2>1. PICK g \in Gens : pwm' = [pwm EXCEPT !.out = @ \ {g}, !.cap = @ \cup {g}]
      BY <1>9 DEF PwmCaptureStart
    <2>2. pwm.out \ {g} \in SUBSET Channels /\ pwm.cap \cup {g} \in SUBSET Gens
      BY <1>4
    <2>3. pwm' = [pwm EXCEPT !.out = pwm.out \ {g}, !.cap = pwm.cap \cup {g},
                             !.tim = pwm.tim, !.ie = pwm.ie]
      BY <1>0, <2>1 DEF PwmRegs
    <2> QED
      BY <1>3, <1>4, <1>9, <2>2, <2>3 DEF PwmCaptureStart
  <1>10. CASE PwmCaptureStop
    <2>1. PICK g \in Gens : pwm' = [pwm EXCEPT !.cap = @ \ {g}, !.ie = @ \ {<<g, "count">>, <<g, "time">>}]
      BY <1>10 DEF PwmCaptureStop
    <2>2. pwm.cap \ {g} \in SUBSET Gens /\ pwm.ie \ {<<g, "count">>, <<g, "time">>} \in SUBSET Events
      BY <1>4
    <2>3. pwm' = [pwm EXCEPT !.out = pwm.out, !.cap = pwm.cap \ {g},
                             !.tim = pwm.tim, !.ie = pwm.ie \ {<<g, "count">>, <<g, "time">>}]
      BY <1>0, <2>1 DEF PwmRegs
    <2> QED
      BY <1>3, <1>4, <1>10, <2>2, <2>3 DEF PwmCaptureStop
  <1>11. CASE PwmTimerStart
    <2>1. PICK g \in Gens : pwm' = [pwm EXCEPT !.tim = @ \cup {g}, !.ie = @ \cup {<<g, "timeout">>}]
      BY <1>11 DEF PwmTimerStart
    <2>2. pwm.tim \cup {g} \in SUBSET Gens /\ pwm.ie \cup {<<g, "timeout">>} \in SUBSET Events
      BY <1>4 DEF Events
    <2>3. pwm' = [pwm EXCEPT !.out = pwm.out, !.cap = pwm.cap,
                             !.tim = pwm.tim \cup {g}, !.ie = pwm.ie \cup {<<g, "timeout">>}]
      BY <1>0, <2>1 DEF PwmRegs
    <2> QED
      BY <1>3, <1>4, <1>11, <2>2, <2>3 DEF PwmTimerStart
  <1>12. CASE PwmTimerStop
    <2>1. PICK g \in Gens : pwm' = [pwm EXCEPT !.tim = @ \ {g}, !.ie = @ \ {<<g, "timeout">>}]
      BY <1>12 DEF PwmTimerStop
    <2>2. pwm.tim \ {g} \in SUBSET Gens /\ pwm.ie \ {<<g, "timeout">>} \in SUBSET Events
      BY <1>4
    <2>3. pwm' = [pwm EXCEPT !.out = pwm.out, !.cap = pwm.cap,
                             !.tim = pwm.tim \ {g}, !.ie = pwm.ie \ {<<g, "timeout">>}]
      BY <1>0, <2>1 DEF PwmRegs
    <2> QED
      BY <1>3, <1>4, <1>12, <2>2, <2>3 DEF PwmTimerStop
  <1>13. CASE PwmSetTimeout
    <2>1. PICK g \in Gens, us \in PwmPeriods :
            pwm' = [pwm EXCEPT !.tload[g] = (ClocksOf(us) \div ClockDiv) % (PwmTop + 1), !.out = @ \ {g}]
      BY <1>13 DEF PwmSetTimeout
    <2> DEFINE n == (ClocksOf(us) \div ClockDiv) % (PwmTop + 1)
               x == ClocksOf(us)
               k == x \div ClockDiv
    <2>2. x \in Nat
      BY PwmAssumption, ClocksAre
    <2>3. ClockDiv \in Nat /\ ClockDiv >= 1
      <3>1. pwm.bits + 1 \in Nat
        BY <1>0 DEF PwmRegs
      <3> QED
        BY <3>1, PowersOfTwo DEF ClockDiv
    <2>4. k \in Nat
      <3> HIDE DEF x
      <3> QED
        BY <2>2, <2>3, QuotientShort
    <2>5. n = k % (PwmTop + 1)
      OBVIOUS
    <2>6. pwm' = [pwm EXCEPT !.tload[g] = n, !.out = pwm.out \ {g}]
      BY <2>1
    <2> HIDE DEF k, n, x
    <2>7. n \in Loads
      BY <2>4, <2>5, PwmAssumption DEF Loads
    <2>8. pwm' \in PwmRegs /\ pwm'.is = pwm.is
      BY <1>0, <1>4, <2>6, <2>7 DEF PwmRegs
    <2>9. pwm'.bits = pwm.bits /\ pwm'.diven = pwm.diven /\ pwm'.load = pwm.load /\ pwm'.cmp = pwm.cmp
      BY <1>0, <2>6 DEF PwmRegs
    <2> QED
      BY <1>13, <2>8, <2>9, CallsKeep DEF PwmSetTimeout
  <1> QED
    BY <1>1, <1>2, <1>6, <1>7, <1>8, <1>9, <1>10, <1>11, <1>12, <1>13

\* The events, and the handler: what it takes from the pending ones is told.
LEMMA HandlerKeeps ==
  ASSUME PwmInv, PwmEvent \/ PwmEnter \/ PwmServe
  PROVE  PwmInv'
PROOF
  <1>0. pwm \in PwmRegs /\ prec \in PwmHistory /\ pisr.todo \subseteq Gens
        /\ prec.due \subseteq pwm.is /\ PwmShape
    BY DEF PwmInv, PwmTypes, EventsKept
  <1>t. pwm.is \in SUBSET Events /\ prec.due \in SUBSET Events /\ pwm.ie \in SUBSET Events
    BY <1>0 DEF PwmRegs, PwmHistory
  <1>1. ASSUME NEW is \in SUBSET Events, NEW due \in SUBSET Events, due \subseteq is,
               pwm' = [pwm EXCEPT !.is = is], prec' = [prec EXCEPT !.due = due],
               pisr'.todo \subseteq Gens
        PROVE  PwmInv'
    <2>1. pwm' \in PwmRegs /\ pwm'.is = is
      BY <1>0, <1>1 DEF PwmRegs
    <2>2. prec' \in PwmHistory /\ prec'.due = due /\ prec'.last = prec.last
      BY <1>0, <1>1 DEF PwmHistory
    <2>3. pwm'.bits = pwm.bits /\ pwm'.diven = pwm.diven /\ pwm'.load = pwm.load /\ pwm'.cmp = pwm.cmp
      BY <1>0, <1>1 DEF PwmRegs
    <2>4. PwmShape'
      BY <1>0, <2>2, <2>3, ShapeStays
    <2> QED
      BY <1>1, <2>1, <2>2, <2>4 DEF PwmInv, PwmTypes, EventsKept
  <1>2. CASE PwmEvent
    <2>1. PICK e \in pwm.ie : /\ pwm' = [pwm EXCEPT !.is = @ \cup {e}]
                              /\ prec' = [prec EXCEPT !.due = @ \cup {e}]
      BY <1>2 DEF PwmEvent
    <2>2. pisr' = pisr
      BY <1>2 DEF PwmEvent
    <2> QED
      BY <1>0, <1>t, <1>1, <2>1, <2>2
  <1>3. CASE PwmEnter
    <2>1. pwm' = pwm /\ prec' = prec /\ pisr'.todo = Gens
      BY <1>3 DEF PwmEnter
    <2>2. PwmShape'
      BY <1>0, <2>1, ShapeStays
    <2> QED
      BY <1>0, <2>1, <2>2 DEF PwmInv, PwmTypes, EventsKept
  <1>4. CASE PwmServe
    <2>1. PICK g \in pisr.todo : /\ pwm' = [pwm EXCEPT !.is = @ \ FirstCause(g)]
                                 /\ prec' = [prec EXCEPT !.due = @ \ FirstCause(g)]
                                 /\ pisr' = [pisr EXCEPT !.todo = @ \ {g}]
      BY <1>4 DEF PwmServe, Cleared
    <2>2. pisr'.todo \subseteq Gens
      BY <1>0, <2>1
    <2>3. /\ pwm.is \ FirstCause(g) \in SUBSET Events
          /\ prec.due \ FirstCause(g) \in SUBSET Events
          /\ prec.due \ FirstCause(g) \subseteq pwm.is \ FirstCause(g)
      BY <1>0, <1>t
    <2> QED
      BY <1>1, <2>1, <2>2, <2>3
  <1> QED
    BY <1>2, <1>3, <1>4

\* Every step of the PWM keeps its invariant.
LEMMA PwmKeeps == PwmInv /\ [PwmNext]_pwmvars => PwmInv'
PROOF
  <1> SUFFICES ASSUME PwmInv, [PwmNext]_pwmvars PROVE PwmInv'
    OBVIOUS
  <1>1. CASE PwmNext
    BY <1>1, ConfigKeeps, ConfigDivKeeps, OtherCallsKeep, HandlerKeeps DEF PwmNext
  <1>2. CASE UNCHANGED pwmvars
    BY <1>2 DEF pwmvars, PwmInv, PwmTypes, EventsKept, PwmShape, AsAsked, PeriodOf, LowOf, Divider
  <1> QED
    BY <1>1, <1>2

\* No event is cleared before its callback's turn, for every number of generators
\* and any sequence of calls, events and interrupts.
THEOREM EventsAreKept == PwmSpec => []EventsKept
PROOF
  <1>1. PwmInv => EventsKept
    BY DEF PwmInv
  <1> QED
    BY <1>1, PwmStarts, PwmKeeps, PTL DEF PwmSpec

\* The channel configured last has the period and the pulse it was asked for, each
\* within a tick, for every clock, width of counters and words and set of dividers,
\* when the period in clocks fits a word.
THEOREM ShapeIsKept == PwmSpec => []PwmShape
PROOF
  <1>1. PwmInv => PwmShape
    BY DEF PwmInv
  <1> QED
    BY <1>1, PwmStarts, PwmKeeps, PTL DEF PwmSpec

--------------------------------------------------------------------------------
(* The REE runs where the TEE told it to, for any start addresses and any number
   of writes, however close, with resets of the chip at any time.          *)

BootSpec == BootInit /\ [][BootNext]_bootvars

\* The access in its data phase is one of the writes, or none.
BootTypes ==
  /\ boot \in [rst : {0, 1}, addr : Nat, ff : Writes5 \cup {NoWrite}]
  /\ told \in [rst : {0, 1}, addr : Nat, writes : Nat]

\* RunsWhereTold says nothing while a write is on its way: with it done, the
\* registers are what the writes in their order say.
Follows == LET b == Written(boot, boot.ff) IN b.rst = told.rst /\ b.addr = told.addr

BootInv == BootTypes /\ Follows

\* The writes of the TEE to the boot control.
LEMMA WriteKinds ==
  ASSUME NEW w \in Writes5
  PROVE  /\ w.to \in {"rst_b", "rst_addr", "other"} /\ w.data \in Nat
         /\ w.to = "rst_b" => w.data \in {0, 1}
PROOF
  <1>1. CASE w \in [to : {"rst_b"}, data : {0, 1}]
    BY <1>1
  <1>2. CASE w \in [to : {"rst_addr", "other"}, data : BootAddrs]
    BY <1>2, BootAssumption
  <1> QED
    BY <1>1, <1>2 DEF Writes5

\* What a write leaves has the types of the registers.
LEMMA WrittenTypes ==
  ASSUME BootTypes
  PROVE  LET b == Written(boot, boot.ff) IN
           b.rst \in {0, 1} /\ b.addr \in Nat /\ DOMAIN b = {"rst", "addr", "ff"}
PROOF
  <1>1. CASE boot.ff = NoWrite
    BY <1>1 DEF BootTypes, Written, NoWrite
  <1>2. CASE boot.ff \in Writes5
    BY <1>2, WriteKinds DEF BootTypes, Written
  <1> QED
    BY <1>1, <1>2 DEF BootTypes

\* The boot control begins in its invariant ...
LEMMA BootStarts == BootInit => BootInv
PROOF BY DEF BootInit, BootInv, BootTypes, Follows, Written, NoWrite

\* ... and stays in it.
LEMMA BootSteps == BootInv /\ [BootNext]_bootvars => BootInv'
PROOF
  <1> SUFFICES ASSUME BootInv, [BootNext]_bootvars PROVE BootInv'
    OBVIOUS
  <1> USE DEF BootInv
  <1> DEFINE b == Written(boot, boot.ff)
  <1>1. b \in [rst : {0, 1}, addr : Nat, ff : Writes5 \cup {NoWrite}]
    BY WrittenTypes DEF Written, BootTypes
  <1>2. CASE boot' = [b EXCEPT !.ff = NoWrite] /\ UNCHANGED told
    BY <1>1, <1>2 DEF BootTypes, Follows, Written, NoWrite
  <1>3. ASSUME NEW w \in Writes5, told.writes < BootWrites,
               boot' = [b EXCEPT !.ff = w], told' = Told(w)
        PROVE  BootInv'
    <2>1. boot'.rst = told.rst /\ boot'.addr = told.addr /\ boot'.ff = w
      BY <1>1, <1>3 DEF Follows
    <2>2. boot' \in [rst : {0, 1}, addr : Nat, ff : Writes5 \cup {NoWrite}]
      BY <1>1, <1>3
    <2>3. told' \in [rst : {0, 1}, addr : Nat, writes : Nat]
      <3>1. w.data \in Nat /\ (w.to = "rst_b" => w.data \in {0, 1})
        BY WriteKinds
      <3>2. told \in [rst : {0, 1}, addr : Nat, writes : Nat]
        BY DEF BootTypes
      <3>3. told' = Told(w)
        BY <1>3
      <3>4. Told(w).rst \in {0, 1}
        BY <3>1, <3>2 DEF Told
      <3>5. Told(w).addr \in Nat
        BY <3>1, <3>2 DEF Told
      <3>6. Told(w).writes \in Nat
        BY <3>2 DEF Told
      <3> QED
        BY <3>2, <3>3, <3>4, <3>5, <3>6 DEF Told
    <2>4. Follows'
      BY <1>3, <2>1, <2>2, WriteKinds DEF Follows, Written, Told, Runs, BootTypes
    <2> QED
      BY <2>2, <2>3, <2>4 DEF BootTypes
  <1>4. CASE BootReset
    BY <1>4 DEF BootReset, BootTypes, Follows, Written, NoWrite
  <1>5. CASE UNCHANGED bootvars
    BY <1>5 DEF bootvars, BootTypes, Follows
  <1> QED
    BY <1>2, <1>3, <1>4, <1>5 DEF BootNext, BootClock

\* The REE runs only where it was told to: the decoding in the data phase, the
\* guard on the running REE and the reset agree with the order of the writes.
THEOREM RunsWhereItWasTold == BootSpec => []RunsWhereTold
PROOF
  <1>1. BootInv => RunsWhereTold
    BY DEF BootInv, BootTypes, Follows, RunsWhereTold, Written, Runs
  <1> QED
    BY <1>1, BootStarts, BootSteps, PTL DEF BootSpec

--------------------------------------------------------------------------------
(* The way to slave 9 carries what it is given, for any set of words.      *)

Slave9Spec == Slave9Init /\ [][Slave9Next]_s9vars

\* The router's registers are those of the access in its data phase.
InPhase ==
  /\ phase \in Access9
  /\ s9 = [sel |-> ToIopmp(Passed(phase)), passed |-> Passed(phase),
           exc |-> ToIopmp(Passed(phase)) /\ ~phase.write]

\* Only the access behind a write can blank it.
BlankedByNext ==
  stored.got # stored.given => stored.got = 0 /\ (stored.next.denied \/ ToIopmp(stored.next))

Slave9Inv == InPhase /\ BlankedByNext

\* The way to slave 9 begins in its invariant ...
LEMMA Slave9Starts == Slave9Init => Slave9Inv
PROOF
  <1> SUFFICES ASSUME Slave9Init PROVE Slave9Inv
    OBVIOUS
  <1>1. phase \in Access9
    BY DEF Slave9Init, Access9
  <1>2. Passed(phase) = NoAccess9 /\ ~ToIopmp(NoAccess9) /\ ~phase.write
    BY DEF Slave9Init, Passed, ToIopmp, NoAccess9
  <1>3. stored.got = stored.given
    BY DEF Slave9Init
  <1>4. s9 = [sel |-> FALSE, passed |-> NoAccess9, exc |-> FALSE]
    BY DEF Slave9Init
  <1> QED
    BY <1>1, <1>2, <1>3, <1>4 DEF Slave9Inv, InPhase, BlankedByNext, ToIopmp

\* ... and stays in it.
LEMMA Slave9Steps == Slave9Inv /\ [Slave9Next]_s9vars => Slave9Inv'
PROOF
  <1> SUFFICES ASSUME Slave9Inv, [Slave9Next]_s9vars PROVE Slave9Inv'
    OBVIOUS
  <1>1. ASSUME NEW a \in Access9, Clock9(a) PROVE Slave9Inv'
    <2>1. InPhase'
      BY <1>1 DEF Clock9, InPhase, Passed, ToIopmp
    <2>2. CASE s9.passed.to = "mailbox" /\ s9.passed.write
      <3>1. stored' = [given |-> phase.data, got |-> WriteData(a), next |-> a]
        BY <1>1, <2>2 DEF Clock9
      <3>2. WriteData(a) # phase.data => WriteData(a) = 0 /\ (a.denied \/ ToIopmp(a))
        BY DEF WriteData, Passed
      <3> QED
        BY <2>1, <3>1, <3>2 DEF Slave9Inv, BlankedByNext
    <2>3. CASE ~(s9.passed.to = "mailbox" /\ s9.passed.write)
      <3>1. stored' = stored
        BY <1>1, <2>3 DEF Clock9
      <3> QED
        BY <2>1, <3>1 DEF Slave9Inv, BlankedByNext
    <2> QED
      BY <2>2, <2>3
  <1>2. CASE UNCHANGED s9vars
    BY <1>2 DEF s9vars, Slave9Inv, InPhase, BlankedByNext
  <1> QED
    BY <1>1, <1>2 DEF Slave9Next

\* Writes to the mailbox lose their word only to a denial or a read of the
\* IOPMP right behind them, and reads are answered by the slave they were made to.
THEOREM SlaveNineCarries == Slave9Spec => []Slave9Carries
PROOF
  <1>1. ASSUME Slave9Inv, ~phase.write, ~phase.denied, phase.to # "none"
        PROVE  Answer9 = phase.to
    <2>1. phase.to \in {"mailbox", "iopmp"}
      <3>1. CASE phase = NoAccess9
        BY <1>1, <3>1 DEF NoAccess9
      <3>2. CASE phase # NoAccess9
        <4>1. phase \in Reads9 \/ phase \in Writes9
          BY <1>1, <3>2 DEF Slave9Inv, InPhase, Access9
        <4> QED
          BY <4>1 DEF Reads9, Writes9
      <3> QED
        BY <3>1, <3>2
    <2> QED
      BY <1>1, <2>1 DEF Slave9Inv, InPhase, Answer9, Passed, ToIopmp
  <1>2. Slave9Inv => Slave9Carries
    BY <1>1 DEF Slave9Inv, BlankedByNext, Slave9Carries
  <1> QED
    BY <1>2, Slave9Starts, Slave9Steps, PTL DEF Slave9Spec

--------------------------------------------------------------------------------
(* Every interrupt is served by the driver of the device that raised it, for any
   set of the instances in the tables and any number of initializations.   *)

DispatchSpec == DispatchInit /\ [][DispatchNext]_dispvars

-----------------------------------------------------------------------------
(* The tables.                                                             *)

\* An instance of the tables is a timer, a USI or a device that is alone.
LEMMA InstanceKinds ==
  ASSUME NEW d \in Instances
  PROVE  \/ \E i \in 0..15 : d = [drv |-> "timer", idx |-> i]
         \/ \E i \in 0..2 : d = [drv |-> "usi", idx |-> i]
         \/ \E k \in DOMAIN Only : d = [drv |-> k, idx |-> 0]
PROOF
  <1>1. DOMAIN Only = {"gpio", "pwm", "rtc", "wdt", "dmac", "mbx_ch0", "mbx_ch1", "iopmp"}
    BY DEF Only
  <1>2. CASE d \in [drv : {"timer"}, idx : 0..15]
    BY <1>2
  <1>3. CASE d \in [drv : {"usi"}, idx : 0..2]
    BY <1>3
  <1>4. CASE d \in [drv : {"gpio", "pwm", "rtc", "wdt", "dmac", "mbx_ch0", "mbx_ch1", "iopmp"},
                    idx : {0}]
    <2>1. d.drv \in DOMAIN Only /\ d.idx = 0 /\ d = [drv |-> d.drv, idx |-> d.idx]
      BY <1>1, <1>4
    <2> QED
      BY <2>1
  <1> QED
    BY <1>2, <1>3, <1>4 DEF Instances

\* Devices that are alone have numbers of their own.
LEMMA OnlyNumbers ==
  ASSUME NEW k \in DOMAIN Only
  PROVE  /\ k # "timer" /\ k # "usi"
         /\ Only[k] \in {16, 25, 26, 27, 32, 43, 44, 45}
         /\ \A l \in DOMAIN Only : Only[k] = Only[l] => k = l
         /\ Wire[k] = Only[k]
PROOF BY DEF Only, Wire, MainDummy

\* The timers' numbers, with their gap.
LEMMA TimerNumbers ==
  ASSUME NEW i \in 0..15
  PROVE  LET d == [drv |-> "timer", idx |-> i] IN
           /\ IrqOf(d) = (IF i < 8 THEN 17 ELSE 25) + i
           /\ LineOf(d) = IrqOf(d)
PROOF BY DEF IrqOf, TimerIrq, LineOf, TimLine, BaseOf

\* The USIs' numbers, from either bus.
LEMMA UsiNumbers ==
  ASSUME NEW i \in 0..2
  PROVE  LET d == [drv |-> "usi", idx |-> i] IN
           /\ IrqOf(d) = 28 + i
           /\ LineOf(d) = IrqOf(d)
PROOF BY DEF IrqOf, UsiIrq, LineOf, UsiLine, UsiBase

\* The tables of devices.c and soc.h name the line the hardware drives.
LEMMA TablesMatchWires ==
  ASSUME NEW d \in Instances
  PROVE  LineOf(d) = IrqOf(d) /\ IrqOf(d) \in 16..45
PROOF
  <1>1. CASE \E i \in 0..15 : d = [drv |-> "timer", idx |-> i]
    BY <1>1, TimerNumbers
  <1>2. CASE \E i \in 0..2 : d = [drv |-> "usi", idx |-> i]
    BY <1>2, UsiNumbers
  <1>3. CASE \E k \in DOMAIN Only : d = [drv |-> k, idx |-> 0]
    BY <1>3, OnlyNumbers DEF IrqOf, LineOf
  <1> QED
    BY <1>1, <1>2, <1>3, InstanceKinds

\* No two instances share a number.
LEMMA NumbersDiffer ==
  ASSUME NEW d \in Instances, NEW e \in Instances, IrqOf(d) = IrqOf(e)
  PROVE  d = e
PROOF
  <1> DEFINE Kind(x) == IF x.drv = "timer" THEN IrqOf(x) \in 17..24 \cup 33..40
                        ELSE IF x.drv = "usi" THEN IrqOf(x) \in 28..30
                        ELSE IrqOf(x) \in {16, 25, 26, 27, 32, 43, 44, 45}
  <1>1. ASSUME NEW x \in Instances
        PROVE  /\ Kind(x)
               /\ x.drv = "timer" => \E i \in 0..15 : /\ x = [drv |-> "timer", idx |-> i]
                                                     /\ IrqOf(x) = (IF i < 8 THEN 17 ELSE 25) + i
               /\ x.drv = "usi" => \E i \in 0..2 : /\ x = [drv |-> "usi", idx |-> i]
                                                  /\ IrqOf(x) = 28 + i
               /\ x.drv \notin {"timer", "usi"} => /\ x = [drv |-> x.drv, idx |-> 0]
                                                   /\ x.drv \in DOMAIN Only
                                                   /\ IrqOf(x) = Only[x.drv]
    <2>1. CASE \E i \in 0..15 : x = [drv |-> "timer", idx |-> i]
      BY <2>1, TimerNumbers
    <2>2. CASE \E i \in 0..2 : x = [drv |-> "usi", idx |-> i]
      BY <2>2 DEF IrqOf, UsiIrq
    <2>3. CASE \E k \in DOMAIN Only : x = [drv |-> k, idx |-> 0]
      BY <2>3, OnlyNumbers DEF IrqOf
    <2> QED
      BY <1>1, <2>1, <2>2, <2>3, InstanceKinds
  <1>2. Kind(d) /\ Kind(e)
    BY <1>1
  <1>3. CASE d.drv = "timer"
    BY <1>1, <1>2, <1>3
  <1>4. CASE d.drv = "usi"
    BY <1>1, <1>2, <1>4
  <1>5. CASE d.drv \notin {"timer", "usi"}
    <2>1. e.drv \notin {"timer", "usi"}
      BY <1>2, <1>5
    <2> QED
      BY <1>1, <1>5, <2>1, OnlyNumbers
  <1> QED
    BY <1>3, <1>4, <1>5

\* An empty place of the vector table is no instance.
LEMMA NoIsrIsNone == NoIsr \notin Instances
PROOF BY DEF NoIsr, Instances

-----------------------------------------------------------------------------
(* The inductive invariant.                                                *)

Jobs == [op : {"none", "open", "close"}, dev : Instances \cup {NoIsr}, at : {1, 2}]

DispTypes ==
  /\ irqtab \in [0..47 -> Instances \cup {NoIsr}] /\ irqon \subseteq 0..47
  /\ raised \subseteq Instances
  /\ inisr \in [irq : 0..47, pc : {"no", "taken", "called"}, with : Instances \cup {NoIsr}]
  /\ jobs \in [main : Jobs, callback : Jobs]
  /\ opened \in [who : SUBSET Instances, calls : Nat]

\* An entry of the vector table stands at its own number.
InPlace == \A n \in 0..47 : irqtab[n] # NoIsr => IrqOf(irqtab[n]) = n

\* An enabled number has an entry: it is registered first and disabled first.
Registered == \A n \in irqon : irqtab[n] # NoIsr

\* What a job under way has done, and what it may rely on.
Underway(j) ==
  /\ j.op # "none" => j.dev \in Instances
  /\ j.op = "none" => j = NoJob
  /\ j.op = "open" => /\ j.dev \notin opened.who
                      /\ j.at = 2 => irqtab[IrqOf(j.dev)] # NoIsr
  /\ j.op = "close" /\ j.at = 2 => IrqOf(j.dev) \notin irqon

\* A callback runs in its handler only, and gives back a device that is open.
CallbackOwn ==
  /\ jobs.callback # NoJob => inisr.pc = "called"
  /\ jobs.callback.op \in {"none", "close"}
  /\ jobs.callback.op = "close" => jobs.callback.dev \in opened.who

\* The number taken stays enabled until its entry is loaded.
TakenStaysOn == inisr.pc = "taken" => inisr.irq \in irqon

DispInv == /\ DispTypes /\ InPlace /\ Registered /\ Underway(jobs.main) /\ Underway(jobs.callback)
           /\ CallbackOwn /\ TakenStaysOn /\ ServedByOwner

\* The tables begin in their invariant.
LEMMA DispStarts == DispatchInit => DispInv
PROOF
  <1> SUFFICES ASSUME DispatchInit PROVE DispInv
    OBVIOUS
  <1> USE DEF DispatchInit
  <1>1. DispTypes
    BY DEF DispTypes, Jobs, NoJob, NotServing
  <1>2. InPlace /\ Registered
    BY DEF InPlace, Registered
  <1>3. Underway(jobs.main) /\ Underway(jobs.callback)
    BY DEF Underway, NoJob
  <1>4. CallbackOwn /\ TakenStaysOn /\ ServedByOwner
    BY DEF CallbackOwn, TakenStaysOn, ServedByOwner, NoJob, NotServing
  <1> QED
    BY <1>1, <1>2, <1>3, <1>4 DEF DispInv

\* A step of a job keeps the vector table in place and its enabled numbers registered.
LEMMA EffectKeeps ==
  ASSUME DispTypes, InPlace, Registered, NEW j \in Jobs, j.op # "none", Underway(j), Effect(j)
  PROVE  /\ irqtab' \in [0..47 -> Instances \cup {NoIsr}] /\ irqon' \subseteq 0..47
         /\ InPlace' /\ Registered'
         /\ j.op = "open" /\ j.at = 1 => irqtab'[IrqOf(j.dev)] # NoIsr
         /\ j.op = "close" /\ j.at = 1 => IrqOf(j.dev) \notin irqon'
         /\ j.op = "close" => irqon' \subseteq irqon
PROOF
  <1> DEFINE n == IrqOf(j.dev)
  <1>1. j.dev \in Instances /\ n \in 0..47 /\ j.dev # NoIsr
    <2>1. j.dev \in Instances
      BY DEF Underway
    <2> QED
      BY <2>1, TablesMatchWires, NoIsrIsNone
  <1>2. \A m \in 0..47 : m # n => irqtab'[m] = irqtab[m]
    BY DEF Effect, DispTypes
  <1>3. CASE j.op = "open" /\ j.at = 1
    <2>1. StepOf(j) = "register"
      BY <1>3 DEF StepOf, Opening
    <2>2. irqtab' = [irqtab EXCEPT ![n] = j.dev] /\ irqon' = irqon
      BY <2>1 DEF Effect
    <2>3. irqtab'[n] = j.dev
      BY <1>1, <2>2 DEF DispTypes
    <2> QED
      BY <1>1, <1>2, <1>3, <2>2, <2>3 DEF DispTypes, InPlace, Registered
  <1>4. CASE j.op = "open" /\ j.at = 2
    <2>1. StepOf(j) = "enable"
      BY <1>4 DEF StepOf, Opening
    <2>2. irqtab' = irqtab /\ irqon' = irqon \cup {n}
      BY <2>1 DEF Effect, DispTypes
    <2>3. irqtab[n] # NoIsr
      BY <1>4 DEF Underway
    <2> QED
      BY <1>1, <1>4, <2>2, <2>3 DEF DispTypes, InPlace, Registered
  <1>5. CASE j.op = "close" /\ j.at = 1
    <2>1. StepOf(j) = "disable"
      BY <1>5 DEF StepOf, Closing
    <2>2. irqtab' = irqtab /\ irqon' = irqon \ {n}
      BY <2>1 DEF Effect, DispTypes
    <2> QED
      BY <1>1, <1>5, <2>2 DEF DispTypes, InPlace, Registered
  <1>6. CASE j.op = "close" /\ j.at = 2
    <2>1. StepOf(j) = "unregister"
      BY <1>6 DEF StepOf, Closing
    <2>2. irqtab' = [irqtab EXCEPT ![n] = NoIsr] /\ irqon' = irqon
      BY <2>1 DEF Effect
    <2>3. n \notin irqon
      BY <1>6 DEF Underway
    <2> QED
      BY <1>1, <1>2, <1>6, <2>2, <2>3 DEF DispTypes, InPlace, Registered
  <1> QED
    BY <1>3, <1>4, <1>5, <1>6 DEF Jobs

\* A step of main's initialize or uninitialize keeps the invariant.
LEMMA MainStep ==
  ASSUME DispInv, JobStep("main")
  PROVE  DispInv'
PROOF
  <1> DEFINE j == jobs.main
  <1>1. j \in Jobs /\ j # NoJob /\ j.op # "none" /\ Underway(j) /\ Effect(j) /\ inisr.pc = "no"
    BY DEF DispInv, JobStep, DispTypes, Underway
  <1>2. jobs.callback = NoJob
    BY <1>1 DEF DispInv, CallbackOwn
  <1>3. /\ irqtab' \in [0..47 -> Instances \cup {NoIsr}] /\ irqon' \subseteq 0..47
        /\ InPlace' /\ Registered'
        /\ j.op = "open" /\ j.at = 1 => irqtab'[IrqOf(j.dev)] # NoIsr
        /\ j.op = "close" /\ j.at = 1 => IrqOf(j.dev) \notin irqon'
    BY <1>1, EffectKeeps DEF DispInv
  <1>4. UNCHANGED <<raised, inisr>>
    BY DEF JobStep
  <1>5. CASE j.at = 1 /\ jobs' = [jobs EXCEPT !["main"].at = 2] /\ UNCHANGED opened
    <2>1. jobs'.main = [j EXCEPT !.at = 2] /\ jobs'.callback = jobs.callback
      BY <1>5 DEF DispInv, DispTypes
    <2>2. jobs'.main \in Jobs
      BY <1>1, <2>1 DEF Jobs
    <2>3. jobs' \in [main : Jobs, callback : Jobs]
      BY <1>5, <2>2, <2>1 DEF DispInv, DispTypes
    <2>4. Underway(jobs.main)'
      BY <1>1, <1>3, <1>5, <2>1 DEF Underway, Jobs
    <2>5. Underway(jobs.callback)'
      BY <1>2, <2>1 DEF Underway, NoJob
    <2>6. DispTypes'
      BY <1>3, <1>4, <1>5, <2>3 DEF DispInv, DispTypes
    <2>7. (CallbackOwn /\ TakenStaysOn /\ ServedByOwner)'
      BY <1>1, <1>2, <1>4, <2>1 DEF CallbackOwn, TakenStaysOn, ServedByOwner, NoJob
    <2> QED
      BY <1>3, <2>4, <2>5, <2>6, <2>7 DEF DispInv
  <1>6. CASE /\ j.at = 2 /\ jobs' = [jobs EXCEPT !["main"] = NoJob]
             /\ opened' = [opened EXCEPT !.who = IF j.op = "open" THEN @ \cup {j.dev}
                                                ELSE @ \ {j.dev}]
    <2>1. jobs'.main = NoJob /\ jobs'.callback = NoJob
      BY <1>2, <1>6 DEF DispInv, DispTypes
    <2>2. jobs' \in [main : Jobs, callback : Jobs]
      <3>1. NoJob \in Jobs
        BY DEF NoJob, Jobs
      <3> QED
        BY <1>6, <3>1 DEF DispInv, DispTypes
    <2>3. opened' \in [who : SUBSET Instances, calls : Nat]
      BY <1>1, <1>6 DEF DispInv, DispTypes, Underway
    <2>4. DispTypes'
      BY <1>3, <1>4, <2>2, <2>3 DEF DispInv, DispTypes
    <2>5. (Underway(jobs.main) /\ Underway(jobs.callback))'
      BY <2>1 DEF Underway, NoJob
    <2>6. (CallbackOwn /\ TakenStaysOn /\ ServedByOwner)'
      BY <1>1, <1>4, <2>1 DEF CallbackOwn, TakenStaysOn, ServedByOwner, NoJob
    <2> QED
      BY <1>3, <2>4, <2>5, <2>6 DEF DispInv
  <1> QED
    BY <1>5, <1>6 DEF JobStep

\* So does a step of a callback's uninitialize.
LEMMA CallbackStep ==
  ASSUME DispInv, JobStep("callback")
  PROVE  DispInv'
PROOF
  <1> DEFINE j == jobs.callback
  <1>1. j \in Jobs /\ j.op = "close" /\ Underway(j) /\ Effect(j) /\ inisr.pc = "called"
        /\ j.dev \in opened.who
    BY DEF DispInv, JobStep, DispTypes, Underway, CallbackOwn
  <1>2. /\ irqtab' \in [0..47 -> Instances \cup {NoIsr}] /\ irqon' \subseteq 0..47
        /\ InPlace' /\ Registered' /\ irqon' \subseteq irqon
        /\ j.at = 1 => IrqOf(j.dev) \notin irqon'
    BY <1>1, EffectKeeps DEF DispInv
  <1>3. UNCHANGED <<raised, inisr>>
    BY DEF JobStep
  <1>4. j.dev \in Instances
    BY <1>1 DEF Underway
  \* A number main has registered and not yet enabled is not the callback's.
  <1>5. ASSUME jobs.main.op = "open", jobs.main.at = 2
        PROVE  irqtab'[IrqOf(jobs.main.dev)] # NoIsr
    <2>1. /\ jobs.main.dev \in Instances /\ jobs.main.dev \notin opened.who
          /\ irqtab[IrqOf(jobs.main.dev)] # NoIsr
      BY <1>5 DEF DispInv, Underway
    <2>2. IrqOf(jobs.main.dev) \in 0..47
      BY <2>1, TablesMatchWires
    <2>3. IrqOf(jobs.main.dev) # IrqOf(j.dev)
      BY <1>1, <1>4, <2>1, NumbersDiffer
    <2> QED
      BY <1>1, <2>1, <2>2, <2>3 DEF Effect, DispInv, DispTypes
  <1>6. CASE j.at = 1 /\ jobs' = [jobs EXCEPT !["callback"].at = 2] /\ UNCHANGED opened
    <2>1. jobs'.callback = [j EXCEPT !.at = 2] /\ jobs'.main = jobs.main
      BY <1>6 DEF DispInv, DispTypes
    <2>2. jobs'.callback \in Jobs
      BY <1>1, <2>1 DEF Jobs
    <2>3. jobs' \in [main : Jobs, callback : Jobs]
      BY <1>6, <2>1, <2>2 DEF DispInv, DispTypes
    <2>4. Underway(jobs.callback)'
      BY <1>1, <1>2, <1>6, <2>1 DEF Underway, Jobs
    <2>5. Underway(jobs.main)'
      BY <1>2, <1>5, <1>6, <2>1 DEF DispInv, Underway
    <2>6. DispTypes'
      BY <1>2, <1>3, <1>6, <2>3 DEF DispInv, DispTypes
    <2>7. (CallbackOwn /\ TakenStaysOn /\ ServedByOwner)'
      BY <1>1, <1>3, <1>6, <2>1, <2>2 DEF CallbackOwn, TakenStaysOn, ServedByOwner, DispInv, Jobs
    <2> QED
      BY <1>2, <2>4, <2>5, <2>6, <2>7 DEF DispInv
  <1>7. CASE /\ j.at = 2 /\ jobs' = [jobs EXCEPT !["callback"] = NoJob]
             /\ opened' = [opened EXCEPT !.who = IF j.op = "open" THEN @ \cup {j.dev}
                                                ELSE @ \ {j.dev}]
    <2>1. jobs'.callback = NoJob /\ jobs'.main = jobs.main
      BY <1>7 DEF DispInv, DispTypes
    <2>2. jobs' \in [main : Jobs, callback : Jobs]
      <3>1. NoJob \in Jobs
        BY DEF NoJob, Jobs
      <3> QED
        BY <1>7, <3>1 DEF DispInv, DispTypes
    <2>3. opened' = [opened EXCEPT !.who = opened.who \ {j.dev}]
      BY <1>1, <1>7
    <2>4. opened' \in [who : SUBSET Instances, calls : Nat] /\ opened'.who \subseteq opened.who
      BY <2>3 DEF DispInv, DispTypes
    <2>5. DispTypes'
      BY <1>2, <1>3, <2>2, <2>4 DEF DispInv, DispTypes
    <2>6. Underway(jobs.callback)'
      BY <2>1 DEF Underway, NoJob
    <2>7. Underway(jobs.main)'
      BY <1>2, <1>5, <2>1, <2>4 DEF DispInv, Underway
    <2>8. (CallbackOwn /\ TakenStaysOn /\ ServedByOwner)'
      BY <1>1, <1>3, <2>1 DEF CallbackOwn, TakenStaysOn, ServedByOwner, DispInv, NoJob
    <2> QED
      BY <1>2, <2>5, <2>6, <2>7, <2>8 DEF DispInv
  <1> QED
    BY <1>6, <1>7 DEF JobStep

\* Every step of the dispatch keeps the invariant.
LEMMA DispSteps == DispInv /\ [DispatchNext]_dispvars => DispInv'
PROOF
  <1> SUFFICES ASSUME DispInv, [DispatchNext]_dispvars PROVE DispInv'
    OBVIOUS
  <1> DEFINE Same == UNCHANGED <<irqtab, irqon>>
  <1>1. CASE LineMoves
    <2>1. raised' \subseteq Instances
      BY <1>1, DispatchAssumption DEF LineMoves, DispInv, DispTypes
    <2> QED
      BY <1>1, <2>1 DEF LineMoves, DispInv, DispTypes, InPlace, Registered, Underway, CallbackOwn,
         TakenStaysOn, ServedByOwner
  <1>2. CASE TakeIrq
    <2>1. PICK d \in raised : /\ LineOf(d) \in irqon
                              /\ inisr' = [irq |-> LineOf(d), pc |-> "taken", with |-> NoIsr]
      BY <1>2 DEF TakeIrq
    <2>2. DispTypes'
      BY <1>2, <2>1 DEF TakeIrq, DispInv, DispTypes
    <2>3. CallbackOwn'
      BY <1>2, <2>1 DEF TakeIrq, DispInv, CallbackOwn
    <2>4. (InPlace /\ Registered /\ Underway(jobs.main) /\ Underway(jobs.callback))'
      BY <1>2 DEF TakeIrq, DispInv, InPlace, Registered, Underway
    <2>5. (TakenStaysOn /\ ServedByOwner)'
      BY <1>2, <2>1 DEF TakeIrq, TakenStaysOn, ServedByOwner
    <2> QED
      BY <2>2, <2>3, <2>4, <2>5 DEF DispInv
  <1>3. CASE CallIsr
    <2>1. inisr' = [inisr EXCEPT !.pc = "called", !.with = irqtab[inisr.irq]]
          /\ UNCHANGED <<irqtab, irqon, raised, jobs, opened>> /\ inisr.pc = "taken"
      BY <1>3 DEF CallIsr
    <2>2. inisr.irq \in 0..47 /\ inisr.irq \in irqon
      BY <2>1 DEF DispInv, DispTypes, TakenStaysOn
    <2>3. /\ irqtab[inisr.irq] \in Instances /\ IrqOf(irqtab[inisr.irq]) = inisr.irq
      BY <2>2 DEF DispInv, DispTypes, InPlace, Registered
    <2>4. DispTypes'
      BY <2>1, <2>2, <2>3 DEF DispInv, DispTypes
    <2>5. inisr'.pc = "called" /\ inisr'.with = irqtab[inisr.irq] /\ inisr'.irq = inisr.irq
      BY <2>1 DEF DispInv, DispTypes
    <2>6. (ServedByOwner /\ TakenStaysOn)'
      BY <2>3, <2>5, TablesMatchWires, NoIsrIsNone DEF ServedByOwner, TakenStaysOn
    <2>7. (InPlace /\ Registered /\ Underway(jobs.main) /\ Underway(jobs.callback) /\ CallbackOwn)'
      BY <2>1, <2>5 DEF DispInv, InPlace, Registered, Underway, CallbackOwn
    <2> QED
      BY <2>4, <2>6, <2>7 DEF DispInv
  <1>4. CASE LeaveIsr
    <2>1. DispTypes'
      BY <1>4 DEF LeaveIsr, DispInv, DispTypes, NotServing
    <2>2. (InPlace /\ Registered /\ Underway(jobs.main) /\ Underway(jobs.callback))'
      BY <1>4 DEF LeaveIsr, DispInv, InPlace, Registered, Underway
    <2>3. (CallbackOwn /\ TakenStaysOn /\ ServedByOwner)'
      BY <1>4 DEF LeaveIsr, DispInv, CallbackOwn, TakenStaysOn, ServedByOwner, NotServing, NoJob
    <2> QED
      BY <2>1, <2>2, <2>3 DEF DispInv
  <1>5. CASE StartJob
    <2>1. PICK d \in IrqDevices :
            \/ /\ d \notin opened.who /\ opened.calls < IrqJobs
               /\ jobs' = [jobs EXCEPT !.main = [op |-> "open", dev |-> d, at |-> 1]]
               /\ opened' = [opened EXCEPT !.calls = @ + 1]
            \/ /\ d \in opened.who
               /\ jobs' = [jobs EXCEPT !.main = [op |-> "close", dev |-> d, at |-> 1]]
               /\ UNCHANGED opened
      BY <1>5 DEF StartJob
    <2>2. d \in Instances
      BY DispatchAssumption
    <2>3. \E op \in {"open", "close"} :
            /\ jobs' = [jobs EXCEPT !.main = [op |-> op, dev |-> d, at |-> 1]]
            /\ op = "open" => d \notin opened.who
      BY <2>1
    <2>4. opened' \in [who : SUBSET Instances, calls : Nat] /\ opened'.who = opened.who
      BY <2>1 DEF DispInv, DispTypes
    <2>5. UNCHANGED <<irqtab, irqon, raised, inisr>>
      BY <1>5 DEF StartJob
    <2>6. PICK op \in {"open", "close"} :
            /\ jobs' = [jobs EXCEPT !.main = [op |-> op, dev |-> d, at |-> 1]]
            /\ op = "open" => d \notin opened.who
      BY <2>3
    <2>7. /\ jobs'.main = [op |-> op, dev |-> d, at |-> 1] /\ jobs'.callback = jobs.callback
          /\ jobs' \in [main : Jobs, callback : Jobs]
      BY <2>2, <2>6 DEF DispInv, DispTypes, Jobs
    <2>8. DispTypes'
      BY <2>4, <2>5, <2>7 DEF DispInv, DispTypes
    <2>9. (Underway(jobs.main))'
      BY <2>2, <2>4, <2>6, <2>7 DEF Underway
    <2>10. (InPlace /\ Registered /\ Underway(jobs.callback) /\ CallbackOwn /\ TakenStaysOn
            /\ ServedByOwner)'
      BY <2>4, <2>5, <2>7 DEF DispInv, InPlace, Registered, Underway, CallbackOwn, TakenStaysOn,
         ServedByOwner
    <2> QED
      BY <2>8, <2>9, <2>10 DEF DispInv
  <1>6. CASE StartCallback
    <2>1. /\ jobs' = [jobs EXCEPT !.callback = [op |-> "close", dev |-> inisr.with, at |-> 1]]
          /\ inisr.with \in opened.who /\ inisr.pc = "called"
          /\ UNCHANGED <<irqtab, irqon, raised, inisr, opened>>
      BY <1>6 DEF StartCallback
    <2>2. inisr.with \in Instances
      BY <2>1 DEF DispInv, DispTypes
    <2>3. /\ jobs'.callback = [op |-> "close", dev |-> inisr.with, at |-> 1]
          /\ jobs'.main = jobs.main /\ jobs' \in [main : Jobs, callback : Jobs]
      BY <2>1, <2>2 DEF DispInv, DispTypes, Jobs
    <2>4. DispTypes'
      BY <2>1, <2>3 DEF DispInv, DispTypes
    <2>5. (Underway(jobs.callback) /\ CallbackOwn)'
      BY <2>1, <2>2, <2>3 DEF Underway, CallbackOwn
    <2>6. (InPlace /\ Registered /\ Underway(jobs.main) /\ TakenStaysOn /\ ServedByOwner)'
      BY <2>1, <2>3 DEF DispInv, InPlace, Registered, Underway, TakenStaysOn, ServedByOwner
    <2> QED
      BY <2>4, <2>5, <2>6 DEF DispInv
  <1>7. CASE UNCHANGED dispvars
    BY <1>7 DEF dispvars, DispInv, DispTypes, InPlace, Registered, Underway, CallbackOwn, TakenStaysOn,
       ServedByOwner
  <1> QED
    BY <1>1, <1>2, <1>3, <1>4, <1>5, <1>6, <1>7, MainStep, CallbackStep DEF DispatchNext

\* The handler called is always that of the device whose line was taken: the
\* order of register and enable, of disable and unregister, and the agreement of
\* the tables with the wires.
THEOREM InterruptsAreServedByOwner == DispatchSpec => []ServedByOwner
PROOF
  <1>1. DispInv => ServedByOwner
    BY DEF DispInv
  <1> QED
    BY <1>1, DispStarts, DispSteps, PTL DEF DispatchSpec

--------------------------------------------------------------------------------
(* All devices together: a run of MCDevices is a run of each part, so that
   what is proved of the parts holds of it.                                *)

GpioSpec == GpioInit /\ [][GpioNext]_gvars
DmacSpec == DmacInit /\ [][DmacNext]_dmavars

\* The first state is a first state of each part, and a step of one is a step or
\* a stutter of each.
THEOREM PartsRunAlone ==
  Spec => /\ IicSpec /\ GpioSpec /\ RtcSpec /\ CalSpec /\ TimerSpec /\ WdtSpec /\ PwmSpec
          /\ DmacSpec /\ Slave9Spec /\ BootSpec /\ DispatchSpec
PROOF
  <1>1. Init => /\ usi = [ResetPort EXCEPT !.mode = "i2c"] /\ isr = Idle /\ IicInit
                /\ GpioInit /\ RtcInit /\ CalInit /\ TimerInit /\ WdtInit /\ PwmInit /\ DmacInit
                /\ Slave9Init /\ BootInit /\ DispatchInit
    BY DEF Init
  <1>2. [Next]_vars =>
          /\ [IicNext]_ivars /\ [GpioNext]_gvars /\ [RtcNext]_rvars /\ [CalNext]_calvars
          /\ [TimerNext]_tvars /\ [WdtNext]_wvars /\ [PwmNext]_pwmvars /\ [DmacNext]_dmavars
          /\ [Slave9Next]_s9vars /\ [BootNext]_bootvars /\ [DispatchNext]_dispvars
    <2>1. CASE Next
      BY <2>1 DEF Next
    <2>2. CASE UNCHANGED vars
      BY <2>2 DEF vars
    <2> QED
      BY <2>1, <2>2
  <1> QED
    BY <1>1, <1>2, PTL DEF Spec, IicSpec, GpioSpec, RtcSpec, CalSpec, TimerSpec, WdtSpec, PwmSpec,
                           DmacSpec, Slave9Spec, BootSpec, DispatchSpec

\* The GPIO's registers, handler and main stay well formed.
LEMMA GpioTyped == GpioSpec => []GpioTypeOK
PROOF
  <1>1. GpioInit => GpioTypeOK
    BY DEF GpioInit, GpioTypeOK, GpioPort
  <1>2. ASSUME GpioTypeOK, GpioNext PROVE GpioTypeOK'
    <2>1. /\ gport \in GpioPort /\ gpin \subseteq Pins
          /\ gmain \in [pc : {"free", "write"}, val : SUBSET Pins]
          /\ gisr \in [on : BOOLEAN, left : SUBSET Pins]
      BY <1>2 DEF GpioTypeOK
    <2>2. ASSUME NEW s \in SUBSET Pins PROVE WriteInten(gport, s) \in GpioPort
      BY <2>1, <2>2 DEF WriteInten, GpioPort
    <2>3. Status(gport) \in SUBSET Pins
      BY <2>1 DEF Status, GpioPort
    <2>4. CASE GpioChange
      <3> DEFINE Turned(p) == [gport EXCEPT !.level = IF p \in @ THEN @ \ {p} ELSE @ \cup {p}]
      <3>1. ASSUME NEW p \in Pins
            PROVE  Turned(p) \in GpioPort /\ [Turned(p) EXCEPT !.latch = @ \cup {p}] \in GpioPort
        <4>1. Turned(p) \in GpioPort
          BY <2>1 DEF GpioPort
        <4> HIDE DEF Turned
        <4> QED
          BY <4>1 DEF GpioPort
      <3>2. PICK p \in Pins : gport' \in {Turned(p), [Turned(p) EXCEPT !.latch = @ \cup {p}]}
        BY <2>4 DEF GpioChange
      <3> HIDE DEF Turned
      <3>3. gport' \in GpioPort
        BY <3>1, <3>2
      <3> QED
        BY <2>1, <2>4, <3>3 DEF GpioChange, GpioTypeOK
    <2>5. CASE GpioEnter
      BY <2>1, <2>3, <2>5 DEF GpioEnter, GpioTypeOK
    <2>6. CASE GpioServe
      <3>1. gport' \in GpioPort
        <4> DEFINE p == Lowest(gisr.left)
        <4>1. gport.inten \ {p} \in SUBSET Pins
          BY <2>1 DEF GpioPort
        <4>2. gport' = gport \/ gport' = WriteInten(gport, gport.inten \ {p})
          BY <2>6 DEF GpioServe, WriteEoi
        <4> HIDE DEF p
        <4> QED
          BY <2>1, <2>2, <4>1, <4>2
      <3>2. gisr' \in [on : BOOLEAN, left : SUBSET Pins]
        BY <2>1, <2>6 DEF GpioServe, StillToServe
      <3> QED
        BY <2>1, <2>6, <3>1, <3>2 DEF GpioServe, GpioTypeOK
    <2>7. CASE GpioLeave
      BY <2>1, <2>7 DEF GpioLeave, GpioTypeOK
    <2>8. CASE GpioPinInitialize \/ GpioPortUninitialize \/ GpioPinUninitialize
      <3>1. CASE GpioPinInitialize \/ GpioPortUninitialize
        <4>1. gport' \in GpioPort /\ gpin' \subseteq Pins
          BY <2>1, <3>1 DEF GpioPinInitialize, GpioPortUninitialize, GpioPort
        <4> QED
          BY <2>1, <3>1, <4>1 DEF GpioPinInitialize, GpioPortUninitialize, GpioCall, GpioTypeOK
      <3>2. CASE GpioPinUninitialize
        <4>1. gport.inten \subseteq Pins
          BY <2>1 DEF GpioPort
        <4> QED
          BY <2>1, <3>2, <4>1 DEF GpioPinUninitialize, GpioCall, GpioTypeOK
      <3> QED
        BY <2>8, <3>1, <3>2
    <2>9. CASE GpioSetIrq
      <3>1. ASSUME NEW p \in Pins, NEW edge \in BOOLEAN, NEW high \in BOOLEAN,
                   NEW g, g = IrqMode(gport, p, edge, high)
            PROVE  g \in GpioPort /\ [g EXCEPT !.latch = @ \cup {p}] \in GpioPort
        <4>1. g \in GpioPort
          BY <2>1, <3>1 DEF IrqMode, GpioPort
        <4> QED
          BY <4>1 DEF GpioPort
      <3>2. gport' \in GpioPort
        <4>1. CASE UNCHANGED gport
          BY <2>1, <4>1
        <4>2. CASE ~UNCHANGED gport
          <5>1. PICK p \in Pins, edge \in BOOLEAN, high \in BOOLEAN :
                  gport' \in {IrqMode(gport, p, edge, high),
                              [IrqMode(gport, p, edge, high) EXCEPT !.latch = @ \cup {p}]}
            BY <2>9, <4>2 DEF GpioSetIrq
          <5> DEFINE g == IrqMode(gport, p, edge, high)
          <5>2. g \in GpioPort /\ [g EXCEPT !.latch = @ \cup {p}] \in GpioPort
            BY <3>1
          <5> QED
            BY <5>1, <5>2
        <4> QED
          BY <4>1, <4>2
      <3>3. gmain' \in [pc : {"free", "write"}, val : SUBSET Pins]
        BY <2>1, <2>9 DEF GpioSetIrq, GpioPort
      <3> QED
        BY <2>1, <2>9, <3>2, <3>3 DEF GpioSetIrq, GpioCall, GpioTypeOK
    <2>10. CASE GpioWriteInten
      <3> DEFINE g == WriteInten(gport, gmain.val)
      <3>1. g \in GpioPort
        BY <2>1, <2>2
      <3> QED
        BY <2>1, <2>10, <3>1 DEF GpioWriteInten, GpioTypeOK
    <2>11. CASE GpioDirection \/ GpioWrite
      BY <2>1, <2>11 DEF GpioDirection, GpioWrite, GpioCall, GpioTypeOK, GpioPort
    <2> QED
      BY <1>2, <2>4, <2>5, <2>6, <2>7, <2>8, <2>9, <2>10, <2>11 DEF GpioNext
  <1>3. ASSUME GpioTypeOK, UNCHANGED gvars PROVE GpioTypeOK'
    BY <1>3 DEF gvars, GpioTypeOK
  <1> QED
    BY <1>1, <1>2, <1>3, PTL DEF GpioSpec

\* The DMA channel, its driver's state and main stay well formed.
LEMMA DmacTyped == DmacSpec => []DmacTypeOK
PROOF
  <1>1. DmacInit => DmacTypeOK
    BY DEF DmacInit, DmacTypeOK, DmaChannel, DmaPriv, DmaStates
  <1>2. ASSUME DmacTypeOK, DmacNext PROVE DmacTypeOK'
    <2>1. CASE DmaRequest \/ DmaEnd
      BY <1>2, <2>1 DEF DmaRequest, DmaEnd, DmacTypeOK, DmaChannel
    <2>2. CASE DmaInterrupt
      BY <1>2, <2>2 DEF DmaInterrupt, DmacTypeOK, DmaChannel, DmaPriv, DmaStates
    <2>3. CASE DmaAlloc
      <3>1. Taken(dch) \in DmaChannel
        BY <1>2 DEF Taken, DmacTypeOK, DmaChannel
      <3>2. [dpriv EXCEPT !.opened = TRUE, !.status = "ready"] \in DmaPriv
        BY <1>2 DEF DmacTypeOK, DmaPriv, DmaStates
      <3>3. dch' \in {dch, Taken(dch)} /\ dmain' = dmain
        BY <2>3 DEF DmaAlloc
      <3>4. dpriv' \in {dpriv, [dpriv EXCEPT !.opened = TRUE, !.status = "ready"]}
        BY <2>3 DEF DmaAlloc
      <3> QED
        BY <1>2, <3>1, <3>2, <3>3, <3>4 DEF DmacTypeOK
    <2>4. CASE DmaRelease
      BY <1>2, <2>4 DEF DmaRelease, DmacTypeOK, DmaChannel, DmaPriv, DmaStates
    <2>5. CASE DmaConfig
      BY <1>2, <2>5 DEF DmaConfig, DmacTypeOK, DmaChannel, DmaPriv, DmaStates
    <2>6. CASE DmaStart \/ DmaAsk \/ DmaNote
      BY <1>2, <2>6 DEF DmaStart, DmaAsk, DmaNote, Enabled, DmacTypeOK, DmaChannel, DmaPriv, DmaStates
    <2>7. CASE DmaStop
      BY <1>2, <2>7 DEF DmaStop, DmacTypeOK, DmaChannel, DmaPriv, DmaStates
    <2>8. CASE DmaGetStatus
      BY <1>2, <2>8 DEF DmaGetStatus, DmacTypeOK, DmaChannel, DmaPriv, DmaStates
    <2> QED
      BY <1>2, <2>1, <2>2, <2>3, <2>4, <2>5, <2>6, <2>7, <2>8 DEF DmacNext
  <1>3. ASSUME DmacTypeOK, UNCHANGED dmavars PROVE DmacTypeOK'
    BY <1>3 DEF dmavars, DmacTypeOK
  <1> QED
    BY <1>1, <1>2, <1>3, PTL DEF DmacSpec

\* A channel that is taken has its interrupt unmasked and its line switched on;
\* the transfer that is owed is of a channel that is taken, and interrupts.
DmacInv ==
  /\ DmacTypeOK /\ OwedIsComing
  /\ dpriv.opened => dch.mask /\ dch.irq
  /\ drec.owed => dpriv.opened /\ dch.inte
  /\ drec = [owed |-> drec.owed, calls |-> drec.calls]

\* Every step of the channel and of its driver keeps it.
LEMMA DmacKeeps ==
  ASSUME DmacInv, DmacTypeOK', DmacNext
  PROVE  DmacInv'
PROOF
  <1>1. CASE DmaRequest
    BY <1>1 DEF DmacInv, DmacTypeOK, OwedIsComing, DmaRequest, DmaChannel, DmaPriv
  <1>7. CASE DmaEnd
    BY <1>7 DEF DmacInv, DmacTypeOK, OwedIsComing, DmaEnd, DmaChannel, DmaPriv
  <1>8. CASE DmaInterrupt
    BY <1>8 DEF DmacInv, DmacTypeOK, OwedIsComing, DmaInterrupt, DmaChannel, DmaPriv
  <1>2. CASE DmaAlloc
    <2>1. CASE dpriv.opened
      BY <1>2, <2>1 DEF DmacInv, OwedIsComing, DmaAlloc, DmaCall, DmaCounted
    <2>2. CASE ~dpriv.opened
      BY <1>2, <2>2 DEF DmacInv, DmacTypeOK, OwedIsComing, DmaAlloc, DmaCall, DmaCounted, Taken, DmaChannel, DmaPriv
    <2> QED
      BY <2>1, <2>2
  <1>3. CASE DmaRelease \/ DmaConfig \/ DmaGetStatus
    <2>1. DmaCounted /\ ~(drec.owed /\ ~DmaGetStatus)
      BY <1>3 DEF DmaRelease, DmaConfig, DmaGetStatus, AtRest, DmacInv, OwedIsComing
    <2>2. CASE DmaRelease
      BY <2>1, <2>2 DEF DmacInv, DmacTypeOK, OwedIsComing, DmaRelease, DmaCounted, DmaGetStatus, AtRest, DmaCall, DmaChannel, DmaPriv
    <2>3. CASE DmaConfig
      BY <2>1, <2>3 DEF DmacInv, DmacTypeOK, OwedIsComing, DmaConfig, DmaCounted, AtRest, DmaCall, DmaChannel, DmaPriv
    <2>4. CASE DmaGetStatus
      BY <2>1, <2>4 DEF DmacInv, DmacTypeOK, OwedIsComing, DmaGetStatus, DmaCounted, DmaCall, DmaChannel, DmaPriv
    <2> QED
      BY <1>3, <2>2, <2>3, <2>4
  <1>4. CASE DmaStart
    BY <1>4 DEF DmacInv, DmacTypeOK, OwedIsComing, DmaStart, Enabled, DmaCall, AtRest, DmaChannel, DmaPriv
  <1>5. CASE DmaAsk \/ DmaNote
    BY <1>5 DEF DmacInv, DmacTypeOK, OwedIsComing, DmaAsk, DmaNote, DmaChannel, DmaPriv
  <1>6. CASE DmaStop
    BY <1>6 DEF DmacInv, DmacTypeOK, OwedIsComing, DmaStop, DmaCall, DmaChannel, DmaPriv
  <1> QED
    BY <1>1, <1>2, <1>3, <1>4, <1>5, <1>6, <1>7, <1>8 DEF DmacNext

\* A transfer that was started is asked for and on its way, or its interrupt is
\* raised and can be taken, until its owner has been told or has stopped it.
THEOREM TransfersComing == DmacSpec => []OwedIsComing
PROOF
  <1>1. DmacInit => DmacInv
    BY DEF DmacInit, DmacInv, DmacTypeOK, OwedIsComing, DmaChannel, DmaPriv, DmaStates
  <1>2. ASSUME DmacInv, DmacTypeOK', [DmacNext]_dmavars PROVE DmacInv'
    <2>1. CASE UNCHANGED dmavars
      BY <1>2, <2>1 DEF dmavars, DmacInv, OwedIsComing
    <2> QED
      BY <1>2, <2>1, DmacKeeps
  <1>3. DmacInv => OwedIsComing
    BY DEF DmacInv
  <1> QED
    BY <1>1, <1>2, <1>3, DmacTyped, PTL DEF DmacSpec

\* The watchdog's registers and main stay well formed.
LEMMA WdtTyped == WdtSpec => []WdtTypeOK
PROOF
  <1> DEFINE MainOK == wmain \in {"free", "enable", "restart"}
  <1>1. WdtInit => MainOK
    BY DEF WdtInit
  <1>2. MainOK /\ [WdtNext]_wvars => MainOK'
    BY DEF WdtNext, wvars, WdtTick, WdtStart, WdtSetTimeout, WdtEnable, WdtRestart
  <1>3. WdtInv /\ MainOK => WdtTypeOK
    BY DEF WdtInv, WdtTypes, WdtTypeOK
  <1> QED
    BY <1>1, <1>2, <1>3, WdtStarts, WdtSteps, PTL DEF WdtSpec

\* The PWM's registers and handler stay well formed.
LEMMA PwmTyped == PwmSpec => []PwmTypeOK
PROOF
  <1> DEFINE SeenOK == pisr \in [todo : SUBSET Gens, seen : SUBSET Events]
  <1>1. PwmInit => SeenOK
    BY DEF PwmInit
  <1>2. PwmInv /\ SeenOK /\ [PwmNext]_pwmvars => SeenOK'
    <2>1. PwmInv => pwm.is \subseteq Events
      BY DEF PwmInv, PwmTypes, PwmRegs
    <2>2. SeenOK /\ PwmInv /\ PwmEnter => SeenOK'
      BY <2>1 DEF PwmEnter
    <2>3. SeenOK /\ PwmServe => SeenOK'
      BY DEF PwmServe
    <2>4. SeenOK /\ (UNCHANGED pisr \/ UNCHANGED pwmvars) => SeenOK'
      BY DEF pwmvars
    <2>5. PwmNext => PwmEnter \/ PwmServe \/ UNCHANGED pisr
      BY DEF PwmNext, PwmEvent, PwmConfigCb, PwmUninitialize, PwmConfigDiv, PwmConfig, PwmStart, PwmStop,
             PwmCaptureConfig, PwmCaptureStart, PwmCaptureStop, PwmSetTimeout, PwmTimerStart,
             PwmTimerStop, PwmCall
    <2> HIDE DEF SeenOK
    <2> QED
      BY <2>2, <2>3, <2>4, <2>5
  <1>3. PwmInv /\ SeenOK => PwmTypeOK
    BY DEF PwmInv, PwmTypes, PwmTypeOK
  <1> QED
    BY <1>1, <1>2, <1>3, PwmStarts, PwmKeeps, PTL DEF PwmSpec

\* The state of the part that runs is well formed: registers, handlers and the
\* points in main of all drivers of MCDevices, for every value of the constants.
THEOREM DevicesTyped == Spec => []DevicesTypeOK
PROOF
  <1>2. TimerInv => TimerTypeOK
    BY DEF TimerInv, TimerTypes
  <1>3. IicTypeOK /\ GpioTypeOK /\ RtcTypeOK /\ TimerTypeOK /\ WdtTypeOK /\ PwmTypeOK /\ DmacTypeOK
          => DevicesTypeOK
    BY DEF DevicesTypeOK
  <1>5. TimerSpec => []TimerTypeOK
    BY <1>2, TimerStarts, TimerSteps, PTL DEF TimerSpec
  <1> QED
    BY <1>3, <1>5, PartsRunAlone, IicTyped, GpioTyped, RtcTyped, WdtTyped, PwmTyped, DmacTyped, PTL

\* Both conversions of the clock driver agree with the calendar, day by day, up to
\* any last year it accepts.
THEOREM CalendarIsRight == CalSpec => []CalendarRight
PROOF
  <1>1. DaysRight /\ DateRight => CalendarRight
    BY DEF CalendarRight
  <1> QED
    BY <1>1, DaysAreRight, DatesAreRight, PTL

\* An I2C transfer, an alarm and a DMA transfer that were started can go on,
\* whatever the drivers and their devices have done since.
THEOREM DevicesCanGoOn == Spec => []DevicesGoOn
PROOF
  <1>1. IicGoesOn /\ ThresholdInReach /\ AlarmAhead /\ OwedIsComing => DevicesGoOn
    BY DEF DevicesGoOn
  <1> QED
    BY <1>1, PartsRunAlone, IicCanGoOn, IicThresholdInReach, AlarmIsAhead, TransfersComing, PTL

\* No alarm rings and no timeout is told before its time.
THEOREM NothingIsEarly == Spec => NothingEarly
PROOF
  <1>1. NeverEarly /\ TimeoutInTime => NothingEarly
    BY DEF NothingEarly
  <1> QED
    BY <1>1, PartsRunAlone, AlarmNeverEarly, TimeoutIsInTime, PTL

\* Everything proved of a part holds of the devices together.
THEOREM DevicesKeepPromises ==
  Spec => /\ [](DevicesGoOn /\ RequestsAddUp /\ DoneIsComplete /\ CalendarRight
                 /\ NeverBitesEarly /\ PwmShape /\ EventsKept
                 /\ Slave9Carries /\ RunsWhereTold /\ ServedByOwner)
          /\ NothingEarly
PROOF
  BY DevicesCanGoOn, NothingIsEarly, CalendarIsRight, PartsRunAlone,
     IicRequestsAddUp, IicDoneIsComplete, BitesInTime, ShapeIsKept, EventsAreKept,
     SlaveNineCarries, RunsWhereItWasTold, InterruptsAreServedByOwner, PTL
===============================================================================
