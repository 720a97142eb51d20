---------------------------------- MODULE Rtc ----------------------------------
(***************************************************************************)
(* The clock driver (wj_rtc.c) on the counter of rtc.v.  A time is a       *)
(* number of seconds here (RtcCalendar has the calendar).  The counter is  *)
(* loaded some while after it is told to, runs on while the driver looks   *)
(* at it, and wraps.                                                       *)
(***************************************************************************)
EXTENDS Integers

CONSTANTS
  RtcRate,     \* counts in a second: ((frequency / 2) / 1000) * 1000
  RtcMod,      \* the counter counts modulo this (2^32)
  RtcLoad,     \* the value set_time loads (10)
  RtcTimes,    \* times that are set, as seconds
  RtcAlarms,   \* times an alarm is set to
  RtcCalls     \* bound: calls of main

ASSUME RtcAssumption ==
  /\ RtcRate \in Nat \ {0} /\ RtcMod \in Nat \ {0} /\ RtcLoad \in 1..(RtcMod - 1)
  /\ RtcTimes \subseteq Nat /\ RtcAlarms \subseteq Nat /\ RtcCalls \in Nat

VARIABLES
  rtc,     \* CCVR, CLR and a load on its way, CCR, CMR, the flag; the line
  rbase,   \* rtc_base: the time that was set, -1 when none was
  rmain,   \* main in a call: waiting for the counter
  ralarm,  \* history: the alarm that is due, and whether it rang
  rcalls

rvars == <<rtc, rbase, rmain, ralarm, rcalls>>

Counts == 0..(RtcMod - 1)
RtcRegs == [cnt : Counts, clr : Counts, load : BOOLEAN, run : BOOLEAN, int : BOOLEAN,
            cmr : Counts, flag : BOOLEAN, irq : BOOLEAN]
RtcMain == [pc : {"free", "get", "look", "wait", "add", "write", "settle"},
            due : Int, delta : Int, last : Counts, fresh : BOOLEAN]
NoAlarm == [due |-> -1, on |-> FALSE, rang |-> FALSE]
Free    == [pc |-> "free", due |-> -1, delta |-> 0, last |-> 0, fresh |-> FALSE]

RtcInit ==
  /\ rtc = [cnt |-> 0, clr |-> 0, load |-> FALSE, run |-> FALSE, int |-> FALSE,
            cmr |-> 0, flag |-> FALSE, irq |-> FALSE]
  /\ rbase = -1 /\ rmain = Free /\ ralarm = NoAlarm /\ rcalls = 0

-----------------------------------------------------------------------------
(* The counter.                                                            *)

Match == rtc.cnt = rtc.cmr /\ rtc.run /\ rtc.int

\* The flag rises at each edge of the fast clock while the count matches ...
RtcMatch ==
  /\ Match
  /\ rtc' = [rtc EXCEPT !.flag = TRUE]
  /\ UNCHANGED <<rbase, rmain, ralarm, rcalls>>

\* ... and at the latest with the edge that ends the count, which goes on while
\* a load is on its way.
RtcTick ==
  /\ rtc.run
  /\ rtc' = [rtc EXCEPT !.cnt = (@ + 1) % RtcMod, !.flag = @ \/ Match]
  /\ UNCHANGED <<rbase, rmain, ralarm, rcalls>>

\* The load crosses into the clock of the counter, which it holds for some edges.
RtcLoaded ==
  /\ rtc.load
  /\ rtc' = [rtc EXCEPT !.cnt = rtc.clr, !.load = FALSE]
  /\ UNCHANGED <<rbase, rmain, ralarm, rcalls>>

-----------------------------------------------------------------------------
(* wj_rtc_irqhandler: end of interrupt, then the callback.                 *)

RtcInterrupt ==
  /\ rtc.flag /\ rtc.irq
  /\ rtc' = [rtc EXCEPT !.flag = FALSE]
  /\ ralarm' = [ralarm EXCEPT !.rang = @ \/ ralarm.on]
  /\ UNCHANGED <<rbase, rmain, rcalls>>

-----------------------------------------------------------------------------
(* The calls of main.                                                      *)

\* Seconds since the time was set: wj_rtc_readtime and the division by 1000.
Elapsed(c) == (c - rtc.clr) \div RtcRate
Now(c)     == rbase + Elapsed(c)

RtcCall == rmain.pc = "free" /\ rcalls < RtcCalls /\ rcalls' = rcalls + 1
RtcOpen == RtcCall /\ rtc.irq

RtcInitialize ==
  /\ RtcCall
  /\ rtc' = [rtc EXCEPT !.run = FALSE, !.int = FALSE, !.flag = FALSE, !.irq = TRUE]
  /\ ralarm' = NoAlarm
  /\ UNCHANGED <<rbase, rmain>>

RtcUninitialize ==
  /\ RtcOpen /\ rtc' = [rtc EXCEPT !.irq = FALSE] /\ ralarm' = NoAlarm
  /\ UNCHANGED <<rbase, rmain>>

\* csi_rtc_start and csi_rtc_stop.
RtcRun ==
  /\ RtcOpen /\ \E run \in BOOLEAN : rtc' = [rtc EXCEPT !.run = run]
  /\ UNCHANGED <<rbase, rmain, ralarm>>

\* The alarm of the old time is not the alarm of the new one.
RtcSetTime ==
  /\ RtcOpen
  /\ rbase' \in RtcTimes
  /\ rtc' = [rtc EXCEPT !.clr = RtcLoad, !.load = TRUE]
  /\ ralarm' = NoAlarm
  /\ UNCHANGED rmain

\* csi_rtc_set_alarm reads the time: csi_rtc_get_time waits for the load, as far
\* as the count shows it, and for a clock that stands short of CLR no longer than
\* its timeout ...
RtcSetAlarm ==
  /\ RtcOpen
  /\ \E due \in RtcAlarms : rmain' = [Free EXCEPT !.pc = "get", !.due = due]
  /\ UNCHANGED <<rtc, rbase, ralarm>>

\* ... when CCVR - CLR is 2^64 less a few: 0 seconds, or no date, which mktime
\* answers with -1, as the bits of time_t have it.
Stands == ~rtc.run /\ ~rtc.load
ReadAs   == IF rtc.cnt >= rtc.clr THEN {Now(rtc.cnt)} ELSE {rbase, -1}

RtcGetTime ==
  /\ rmain.pc = "get" /\ (rtc.cnt >= rtc.clr \/ Stands)
  /\ \E now \in ReadAs :
       rmain' = IF rmain.due < now THEN Free
                ELSE [rmain EXCEPT !.pc = "look", !.delta = rmain.due - now, !.last = rtc.cnt,
                                     !.fresh = ~rtc.load /\ rtc.cnt >= rtc.clr]
  /\ UNCHANGED <<rtc, rbase, ralarm, rcalls>>

\* One read of the count by wj_rtc_setmarchtime.
ReadCount(pc) ==
  /\ rmain' = [rmain EXCEPT !.pc = pc, !.last = rtc.cnt, !.fresh = @ /\ rtc.cnt >= rmain.last]
  /\ UNCHANGED <<rtc, rbase, ralarm, rcalls>>

\* It looks, looks until the count moves, and looks once more for what it adds to.
RtcLook  == rmain.pc = "look" /\ ReadCount("wait")
RtcMoved == rmain.pc = "wait" /\ rtc.cnt > rmain.last /\ ReadCount("add")
RtcAdd   == rmain.pc = "add" /\ ReadCount("write")

\* Mutant: the match counts from nothing.
MutFromZero(c, delta) == (delta * RtcRate) % RtcMod
\* The match is as far from the count of now as the alarm was from the time
\* that was read.
MatchAt(c, delta) == (c + delta * RtcRate) % RtcMod

\* An alarm that the counter reaches without a wrap, later than the second of
\* the call, set with the counter loaded and no older alarm ringing, and written
\* before the count is there.
Due(c) == /\ rmain.fresh /\ rmain.delta > 0 /\ ~rtc.flag /\ c + rmain.delta * RtcRate < RtcMod
          /\ rtc.cnt <= MatchAt(c, rmain.delta)

RtcSetMatch ==
  /\ rmain.pc = "write"
  /\ rtc' = [rtc EXCEPT !.cmr = MatchAt(rmain.last, rmain.delta)]
  /\ ralarm' = IF Due(rmain.last) THEN [due |-> rmain.due, on |-> rtc.int, rang |-> FALSE] ELSE NoAlarm
  /\ rmain' = Free
  /\ UNCHANGED <<rbase, rcalls>>

\* The counter stands, or has wrapped: the wait may time out.  set_alarm
\* ignores it.
RtcGivesUp ==
  /\ rmain.pc \in {"wait", "settle"} /\ (~rtc.run \/ rtc.cnt < rmain.last \/ rmain.last = RtcMod - 1)
  /\ rmain' = Free
  /\ UNCHANGED <<rtc, rbase, ralarm, rcalls>>

\* Mutant: unmasked but not enabled.
MutIntOn(r) == r
IntOn(r)    == [r EXCEPT !.int = TRUE]

\* csi_rtc_enable_alarm.  An alarm that is due counts from here, if its match
\* is still to come.
RtcEnable ==
  /\ RtcOpen
  /\ rtc' = IntOn(rtc)
  /\ rmain' = [Free EXCEPT !.pc = "settle", !.last = rtc.cnt]
  /\ ralarm' = IF ralarm.due >= 0 /\ rtc.cnt <= rtc.cmr THEN [ralarm EXCEPT !.on = TRUE] ELSE ralarm
  /\ UNCHANGED rbase

RtcSettled ==
  /\ rmain.pc = "settle" /\ rtc.cnt > rmain.last
  /\ rmain' = Free
  /\ UNCHANGED <<rtc, rbase, ralarm, rcalls>>

\* Off: the match goes as far ahead as the clock has run, and no alarm is due.
RtcDisable ==
  /\ RtcOpen
  /\ rtc' = [rtc EXCEPT !.int = FALSE]
  /\ rmain' = [Free EXCEPT !.pc = "look", !.delta = Elapsed(rtc.cnt)]
  /\ ralarm' = NoAlarm
  /\ UNCHANGED rbase

RtcNext ==
  \/ RtcMatch \/ RtcTick \/ RtcLoaded \/ RtcInterrupt
  \/ RtcInitialize \/ RtcUninitialize \/ RtcRun \/ RtcSetTime
  \/ RtcSetAlarm \/ RtcGetTime \/ RtcLook \/ RtcMoved \/ RtcAdd \/ RtcSetMatch \/ RtcGivesUp
  \/ RtcEnable \/ RtcSettled \/ RtcDisable

\* A running counter counts, a load arrives, a pending interrupt is taken.
RtcFair == WF_rvars(RtcTick) /\ WF_rvars(RtcLoaded) /\ WF_rvars(RtcInterrupt)

-----------------------------------------------------------------------------
(* What must hold.                                                         *)

\* The registers, main and the history are well formed.
RtcTypeOK == /\ rtc \in RtcRegs /\ rmain \in RtcMain /\ rbase \in Int
             /\ ralarm \in [due : Int, on : BOOLEAN, rang : BOOLEAN]

\* The interrupt of an alarm is never raised before its time, though the
\* counter runs on while the driver works out the match.
NeverEarly == [][rtc'.flag /\ ~rtc.flag /\ ralarm.on => Now(rtc.cnt) >= ralarm.due]_rvars

\* An alarm that is on and has not rung is flagged, or its match is still ahead
\* of the count, and the driver can be interrupted: the counter never runs past it.
AlarmAhead == ralarm.on /\ ~ralarm.rang => rtc.irq /\ rtc.int /\ (rtc.flag \/ rtc.cnt <= rtc.cmr)

\* An alarm that is due and on rings, unless it is called off or the clock stops.
AlarmRings == ralarm.on /\ rtc.run ~> ralarm.rang \/ ~ralarm.on \/ ~rtc.run
================================================================================
