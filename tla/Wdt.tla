---------------------------------- MODULE Wdt ----------------------------------
(***************************************************************************)
(* The watchdog driver (wj_oip_wdt.c) on wdt.v: a down counter that loads  *)
(* when it is switched on and when it is restarted (fed).  No call sets    *)
(* its response mode, so zero resets the chip at once: the interrupt, its  *)
(* handler and the callback never come.                                    *)
(***************************************************************************)
EXTENDS Integers

CONSTANTS
  WdtUnit,      \* cycles of the shortest timeout (16#10000#)
  WdtRanges,    \* the timeouts double: ranges 0..WdtRanges (15)
  WdtMs,        \* cycles in a millisecond (SYSTEM_CLOCK_MS)
  WdtValues,    \* timeouts main asks for, in ms
  WdtCalls      \* bound: calls of main

ASSUME WdtAssumption ==
  /\ WdtUnit \in Nat \ {0} /\ WdtRanges \in Nat /\ WdtMs \in Nat \ {0}
  /\ WdtValues \subseteq Nat /\ WdtCalls \in Nat

VARIABLES
  wdt,    \* WDT_CR, WDT_TORR, the count, reset
  wmain,  \* main: in a call that is at its enable or its restart
  wrec    \* history: ms asked for, cycles since it was fed, calls

wvars == <<wdt, wmain, wrec>>

Ranges == 0..WdtRanges
\* timeout_ms, and the cycles the counter needs to zero.
Cycles(i)    == WdtUnit * 2^i
TimeoutMs(i) == Cycles(i) \div WdtMs

WdtRegs == [en : BOOLEAN, range : Ranges, cnt : Nat, fresh : BOOLEAN, reset : BOOLEAN]

WdtInit ==
  /\ wdt = [en |-> FALSE, range |-> 0, cnt |-> Cycles(0) - 1, fresh |-> TRUE, reset |-> FALSE]
  /\ wmain = "free"
  /\ wrec = [asked |-> 0, since |-> 0, calls |-> 0]

\* Feeding loads the counter.
Fed == /\ wdt' = [wdt EXCEPT !.cnt = Cycles(wdt.range) - 1, !.fresh = FALSE]
       /\ wrec' = [wrec EXCEPT !.since = 0]

\* One clock; a reset starts the chip anew, which the model does not follow.
WdtTick ==
  /\ wdt.en /\ ~wdt.reset
  /\ IF wdt.fresh THEN Fed
     ELSE /\ wdt' = [wdt EXCEPT !.cnt = IF @ = 0 THEN Cycles(wdt.range) - 1 ELSE @ - 1,
                                !.reset = wdt.cnt = 0]
          /\ wrec' = [wrec EXCEPT !.since = @ + 1]
  /\ UNCHANGED wmain

WdtCall == /\ wmain = "free" /\ ~wdt.reset /\ wrec.calls < WdtCalls
WdtCounted == wrec' = [wrec EXCEPT !.calls = @ + 1]

\* csi_wdt_start: enable, then restart.
WdtStart ==
  /\ WdtCall /\ WdtCounted
  /\ wdt' = [wdt EXCEPT !.en = TRUE]
  /\ wmain' = "restart"

\* csi_wdt_set_timeout: the shortest timeout that is long enough; none is an
\* error.  A watchdog that ran is off while its range is written.
MutLongEnough(ms) == {i \in Ranges : Cycles(i) >= ms}
LongEnough(ms) == {i \in Ranges : TimeoutMs(i) >= ms}
RangesFor(ms)  == {i \in LongEnough(ms) : \A j \in LongEnough(ms) : i <= j}

WdtSetTimeout ==
  /\ WdtCall
  /\ \E ms \in WdtValues :
       \/ LongEnough(ms) = {} /\ WdtCounted /\ UNCHANGED <<wdt, wmain>>
       \/ \E i \in RangesFor(ms) :
            /\ wdt' = [wdt EXCEPT !.en = FALSE, !.fresh = TRUE, !.range = i]
            /\ wrec' = [wrec EXCEPT !.asked = ms, !.calls = @ + 1]
            /\ wmain' = IF wdt.en THEN "enable" ELSE "free"

WdtEnable ==
  /\ wmain = "enable" /\ ~wdt.reset
  /\ wdt' = [wdt EXCEPT !.en = TRUE] /\ wmain' = "restart"
  /\ UNCHANGED wrec

\* csi_wdt_restart, called by itself or at the end of the others.
WdtRestart ==
  /\ ~wdt.reset
  /\ \/ wmain = "restart" /\ wrec' = [wrec EXCEPT !.since = 0]
     \/ WdtCall /\ wrec' = [wrec EXCEPT !.since = 0, !.calls = @ + 1]
  /\ wdt' = [wdt EXCEPT !.cnt = Cycles(wdt.range) - 1]
  /\ wmain' = "free"

WdtNext == WdtTick \/ WdtStart \/ WdtSetTimeout \/ WdtEnable \/ WdtRestart

WdtFair == WF_wvars(WdtTick)

-----------------------------------------------------------------------------
(* What must hold.                                                         *)

\* The registers and main are well formed.
WdtTypeOK == wdt \in WdtRegs /\ wmain \in {"free", "enable", "restart"}

\* The watchdog never bites sooner after it was fed than it was asked to wait,
\* across changes of the timeout and a start in between.
NeverBitesEarly == wdt.reset => wrec.since >= wrec.asked * WdtMs
================================================================================
