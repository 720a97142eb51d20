--------------------------------- MODULE Timer ---------------------------------
(***************************************************************************)
(* The timer driver (wj_oip_timer.c) on one timer of tim.v: a down counter *)
(* that loads when it is switched on and, at zero, loads again (reload) or *)
(* goes on from its greatest value (free running).                         *)
(***************************************************************************)
EXTENDS Integers

CONSTANTS
  TimerMod,      \* the counter counts modulo this (2^32)
  TimerUs,       \* counts in a microsecond, drv_get_timer_freq / 1000000
  TimerSecond,   \* microseconds in a second, 1000000
  Timeouts,      \* the timeouts main sets
  TimerCalls     \* bound: calls of main

ASSUME TimerAssumption ==
  /\ TimerMod \in Nat \ {0} /\ TimerUs \in Nat \ {0} /\ TimerSecond \in Nat \ {0}
  /\ Timeouts \subseteq Nat /\ TimerCalls \in Nat

VARIABLES
  tim,     \* TxLoadCount, the count, TxControl, the raw interrupt, the line
  tpriv,   \* wj_oip_timer_priv_t
  tmain,   \* main: where it is in csi_timer_start
  trec     \* history: the timeout of the last start, counts since then, calls

tvars == <<tim, tpriv, tmain, trec>>

TimCounts == 0..(TimerMod - 1)
Top == TimerMod - 1
TimRegs == [load : TimCounts, cnt : TimCounts, fresh : BOOLEAN,  \* fresh: just switched on
            en : BOOLEAN, reload : BOOLEAN, masked : BOOLEAN, trigger : BOOLEAN,
            raw : BOOLEAN, irq : BOOLEAN]
TimPriv == [open : BOOLEAN, cb : BOOLEAN, timeout : Nat, late : BOOLEAN]   \* late: timeout_flag

TimerInit ==
  /\ tim = [load |-> 0, cnt |-> Top, fresh |-> TRUE, en |-> FALSE, reload |-> FALSE, masked |-> FALSE,
            trigger |-> FALSE, raw |-> FALSE, irq |-> FALSE]
  /\ tpriv = [open |-> FALSE, cb |-> FALSE, timeout |-> 0, late |-> FALSE]
  /\ tmain = "free"
  /\ trec = [asked |-> 0, ran |-> 0, calls |-> 0]

\* Switched off, a timer forgets its count and its interrupt.
TimerOff(t) == [t EXCEPT !.en = FALSE, !.cnt = Top, !.fresh = TRUE, !.raw = FALSE]

\* One clock: load, or count down; zero raises the interrupt.
TimerTick ==
  /\ tim.en
  /\ tim' = [tim EXCEPT !.fresh = FALSE, !.raw = @ \/ (tim.cnt = 0 /\ ~tim.fresh),
                        !.cnt = IF tim.fresh THEN tim.load
                                ELSE IF @ > 0 THEN @ - 1
                                ELSE IF tim.reload THEN tim.load ELSE Top]
  /\ trec' = [trec EXCEPT !.ran = IF @ < 2 * TimerMod THEN @ + 1 ELSE @]
  /\ UNCHANGED <<tpriv, tmain>>

\* wj_oip_timer_irqhandler: the flag, end of interrupt, the callback.
TimerInterrupt ==
  /\ tim.raw /\ ~tim.masked /\ tim.irq
  /\ tim' = [tim EXCEPT !.raw = FALSE]
  /\ tpriv' = [tpriv EXCEPT !.late = TRUE]
  /\ UNCHANGED <<tmain, trec>>

-----------------------------------------------------------------------------
(* The calls of main.                                                      *)

TimerCall == tmain = "free" /\ trec.calls < TimerCalls
TimerCounted == trec' = [trec EXCEPT !.calls = @ + 1] /\ UNCHANGED tmain
TimerOpen == TimerCall /\ tpriv.open

\* The default is the longest timeout of whole seconds, in microseconds.
DefaultTimeout == (Top \div (TimerUs * TimerSecond)) * TimerSecond

TimerInitialize ==
  /\ TimerCall /\ TimerCounted
  /\ \E cb \in BOOLEAN :
       /\ tpriv' = [tpriv EXCEPT !.open = TRUE, !.cb = cb, !.timeout = DefaultTimeout]
       /\ tim' = [TimerOff(tim) EXCEPT !.masked = TRUE, !.irq = @ \/ cb]

TimerUninitialize ==
  /\ TimerOpen /\ TimerCounted
  /\ tpriv' = [tpriv EXCEPT !.open = FALSE, !.cb = FALSE]
  /\ tim' = [TimerOff(tim) EXCEPT !.masked = TRUE, !.irq = FALSE]

TimerConfig ==
  /\ TimerOpen /\ TimerCounted
  /\ \E reload \in BOOLEAN : tim' = [tim EXCEPT !.reload = reload, !.trigger = TRUE]
  /\ UNCHANGED tpriv

TimerSetTimeout ==
  /\ TimerOpen /\ TimerCounted
  /\ \E us \in Timeouts : tpriv' = [tpriv EXCEPT !.timeout = us]
  /\ UNCHANGED tim

\* The product is cut to the width of the counter.
LoadOf(us) == (us * TimerUs) % TimerMod

\* TxControl is zero but for the mode: the timeout is not loaded then.
Bare(t) == ~t.en /\ ~t.masked /\ ~t.trigger

\* csi_timer_start, of a timer that is stopped or runs: the flag is cleared ...
TimerStart ==
  /\ TimerOpen
  /\ tpriv' = [tpriv EXCEPT !.late = FALSE]
  /\ tmain' = "load"
  /\ trec' = [trec EXCEPT !.calls = @ + 1]
  /\ UNCHANGED tim

\* ... the load is written, under a count that may go on ...
TimerLoad ==
  /\ tmain = "load" /\ tmain' = "on"
  /\ tim' = [tim EXCEPT !.load = IF tpriv.timeout = 0 \/ Bare(tim) THEN Top ELSE LoadOf(tpriv.timeout)]
  /\ UNCHANGED <<tpriv, trec>>

\* Mutant: switched on without being off in between.
MutSwitched(t) == [t EXCEPT !.en = TRUE, !.masked = FALSE]
\* Off, on, and unmasked.
Switched(t) == [TimerOff(t) EXCEPT !.en = TRUE, !.masked = FALSE]

\* ... and the timer is switched off and on.
TimerSwitch ==
  /\ tmain = "on" /\ tmain' = "free"
  /\ tim' = Switched(tim)
  /\ trec' = [trec EXCEPT !.asked = tpriv.timeout, !.ran = 0]
  /\ UNCHANGED tpriv

TimerStop ==
  /\ TimerOpen /\ TimerCounted
  /\ tim' = [TimerOff(tim) EXCEPT !.masked = TRUE]
  /\ UNCHANGED tpriv

\* csi_timer_resume ands with the enable bit where it means to set it: the
\* control register is cleared.
TimerResume ==
  /\ TimerOpen /\ TimerCounted
  /\ tim' = [TimerOff(tim) EXCEPT !.reload = FALSE, !.masked = FALSE, !.trigger = FALSE]
  /\ UNCHANGED tpriv

\* csi_timer_get_status.
TimerStatus == [active |-> tim.en, timeout |-> tpriv.late]

TimerNext ==
  \/ TimerTick \/ TimerInterrupt
  \/ TimerInitialize \/ TimerUninitialize \/ TimerConfig \/ TimerSetTimeout
  \/ TimerStart \/ TimerLoad \/ TimerSwitch \/ TimerStop \/ TimerResume

TimerFair == WF_tvars(TimerTick) /\ WF_tvars(TimerInterrupt)

-----------------------------------------------------------------------------
(* What must hold.                                                         *)

\* The registers and the driver's state are well formed.
TimerTypeOK == tim \in TimRegs /\ tpriv \in TimPriv /\ tmain \in {"free", "load", "on"}

\* A timer that reports its timeout has run that long since it was started, if
\* the timeout fits the counter: a restart of a running timer leaves neither the
\* old count nor its interrupt behind.  While csi_timer_start is at it, the old run
\* may still set the flag.
TimeoutInTime ==
  [][tmain = "free" /\ tpriv'.late /\ ~tpriv.late /\ trec.asked * TimerUs < TimerMod
       => trec.ran >= trec.asked * TimerUs]_tvars
================================================================================
