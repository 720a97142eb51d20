---------------------------------- MODULE Pwm ----------------------------------
(***************************************************************************)
(* The PWM driver (wj_pwm.c) on pwm.v.  A generator drives two channels    *)
(* with one period; one clock divider serves all generators.  The counter  *)
(* of a generator also times captures and timeouts; of those the model     *)
(* keeps the events, which come at any time they are enabled.              *)
(***************************************************************************)
EXTENDS Integers

CONSTANTS
  PwmGens,      \* generators (6)
  PwmTop,       \* the greatest load, 16#ffff
  PwmWord,      \* the numbers of a uint32_t, 2^32
  PwmSteps,     \* dividers 2^0..2^PwmSteps (7: up to 128)
  PwmMHz,       \* counts in a microsecond at divider 1
  PwmPeriods,   \* periods main asks for, in us
  PwmCalls      \* bound: calls of main

ASSUME PwmAssumption ==
  /\ PwmGens \in Nat \ {0} /\ PwmTop \in Nat /\ PwmWord \in Nat \ {0} /\ PwmSteps \in 0..7 /\ PwmMHz \in Nat \ {0}
  /\ PwmPeriods \subseteq Nat /\ PwmCalls \in Nat

VARIABLES
  pwm,      \* the registers and the pending events
  pisr,     \* wj_pwm_irqhandler: the statuses it read, the generators it has to look at
  prec      \* history: the last channel configured and what was asked, events not told, calls

pwmvars == <<pwm, pisr, prec>>

Gens == 0..(PwmGens - 1)
Channels == 0..(2 * PwmGens - 1)
GenOf(c) == c \div 2
Steps == 0..PwmSteps
Loads == 0..PwmTop
Events == Gens \X {"timeout", "count", "time"}
NoChannel == [known |-> FALSE, chan |-> 0, period |-> 0, pulse |-> 0]

PwmRegs == [bits : 0..7, diven : BOOLEAN,                           \* PWMCFG
            out : SUBSET Channels, cap : SUBSET Gens, tim : SUBSET Gens,
            load : [Gens -> Loads], cmp : [Channels -> Loads], tload : [Gens -> Loads],
            ie : SUBSET Events, is : SUBSET Events,                 \* CAPINTEN, TIMINTEN; CAPIS, TIMIS
            cbs : SUBSET Channels, irq : BOOLEAN]                   \* pwm_event_cb, the line

PwmInit ==
  /\ pwm = [bits |-> 0, diven |-> FALSE, out |-> {}, cap |-> {}, tim |-> {},
            load |-> [g \in Gens |-> 0], cmp |-> [c \in Channels |-> 0], tload |-> [g \in Gens |-> 0],
            ie |-> {}, is |-> {}, cbs |-> {}, irq |-> FALSE]
  /\ pisr = [todo |-> {}, seen |-> {}]
  /\ prec = [last |-> NoChannel, due |-> {}, calls |-> 0]

\* A timer runs out or an edge is captured; it is latched if it is enabled.
PwmEvent ==
  /\ \E e \in pwm.ie \ pwm.is :
       /\ e[1] \in IF e[2] = "timeout" THEN pwm.tim ELSE pwm.cap
       /\ pwm' = [pwm EXCEPT !.is = @ \cup {e}]
       /\ prec' = [prec EXCEPT !.due = @ \cup {e}]
  /\ UNCHANGED pisr

-----------------------------------------------------------------------------
(* wj_pwm_irqhandler: the statuses are read, then the generators looked at *)
(* in turn, each for the first cause only.                                 *)

PwmEnter ==
  /\ pisr.todo = {} /\ pwm.irq /\ pwm.is # {}
  /\ pisr' = [todo |-> Gens, seen |-> pwm.is]
  /\ UNCHANGED <<pwm, prec>>

SeenOf(g) == {e \in pisr.seen : e[1] = g}
FirstCause(g) ==
  IF <<g, "timeout">> \in pisr.seen THEN {<<g, "timeout">>}
  ELSE IF <<g, "count">> \in pisr.seen THEN {<<g, "count">>}
  ELSE SeenOf(g)

\* The cause is cleared; then the callback of the generator's first channel,
\* if there is one, is told.
MutCleared(g) == SeenOf(g)
Cleared(g) == FirstCause(g)
PwmServe ==
  /\ \E g \in pisr.todo :
       /\ \A h \in pisr.todo : g <= h
       /\ pwm' = [pwm EXCEPT !.is = @ \ Cleared(g)]
       /\ prec' = [prec EXCEPT !.due = @ \ FirstCause(g)]
       /\ pisr' = [pisr EXCEPT !.todo = @ \ {g}]

-----------------------------------------------------------------------------
(* The calls of main, which the handler interrupts between calls.          *)

PwmCall == /\ pisr.todo = {} /\ prec.calls < PwmCalls
           /\ UNCHANGED pisr
PwmCounted == prec' = [prec EXCEPT !.calls = @ + 1]

\* drv_pwm_config_cb registers a callback and switches the line on;
\* csi_pwm_uninitialize switches it off and forgets nothing.
PwmConfigCb ==
  /\ PwmCall /\ PwmCounted
  /\ \E c \in Channels : pwm' = [pwm EXCEPT !.cbs = @ \cup {c}, !.irq = TRUE]
PwmUninitialize ==
  /\ PwmCall /\ PwmCounted
  /\ pwm' = [pwm EXCEPT !.irq = FALSE]

\* drv_pwm_config_clockdiv, of the divider 2^step; what drv_pwm_get_clockdiv
\* reads of it, which is 2 when the divider is off; and what it is.
MutWithDiv(p, step) == [p EXCEPT !.bits = step, !.diven = step # 0]
WithDiv(p, step) == [p EXCEPT !.bits = IF step = 0 THEN 0 ELSE step - 1, !.diven = step # 0]
ClockDiv == 2^(pwm.bits + 1)
Divider  == IF pwm.diven THEN 2^(pwm.bits + 1) ELSE 1

PwmConfigDiv ==
  /\ PwmCall
  /\ \E step \in Steps : pwm' = WithDiv(pwm, step)
  /\ prec' = [prec EXCEPT !.last = NoChannel, !.calls = @ + 1]

\* Microseconds in clocks, a uint32_t product, and these in counts of a divider.
ClocksOf(us) == (PwmMHz * us) % PwmWord
CountsAt(us, step) == ClocksOf(us) \div 2^step

\* The compare values of a generator share a word.  What is too long for its half
\* is ored into the other half if it is the upper one, and cut if it is not there.
Bit(n, i) == (n \div 2^i) % 2
Ored(n, a, b) == \A i \in 0..15 : Bit(n, i) = 1 <=> Bit(a, i) = 1 \/ Bit(b, i) = 1
Compared(cmp, c, count) ==
  LET own  == count % (PwmTop + 1)
      over == (count \div (PwmTop + 1)) % (PwmTop + 1)
  IN  IF c % 2 = 1 \/ over = 0 THEN {[cmp EXCEPT ![c] = own]}
      ELSE {[cmp EXCEPT ![c] = own, ![c + 1] = n] : n \in {v \in Loads : Ored(v, cmp[c + 1], over)}}

\* csi_pwm_config takes the first divider the counts of the period fit at, be they
\* those of the period or what the product left of them.  When none fits it fails,
\* and leaves the clock of all generators at the last one it tried.
Fits(us)    == {step \in Steps : CountsAt(us, step) <= PwmTop}
FirstFit(us) == {step \in Fits(us) : \A other \in Fits(us) : step <= other}
PwmConfig ==
  /\ PwmCall
  /\ \E c \in Channels, period \in PwmPeriods : \E pulse \in {us \in PwmPeriods : us <= period} :
       \/ /\ Fits(period) = {}
          /\ pwm' = WithDiv(pwm, PwmSteps)
          /\ prec' = [prec EXCEPT !.last = NoChannel, !.calls = @ + 1]
       \/ \E step \in FirstFit(period) : \E cmp \in Compared(pwm.cmp, c, CountsAt(pulse, step)) :
            /\ pwm' = [WithDiv(pwm, step) EXCEPT !.load[GenOf(c)] = CountsAt(period, step), !.cmp = cmp]
            /\ prec' = [last |-> [known |-> TRUE, chan |-> c, period |-> period, pulse |-> pulse],
                        due |-> prec.due, calls |-> prec.calls + 1]

\* csi_pwm_start and csi_pwm_stop switch both channels of the generator.
PwmStart ==
  /\ PwmCall /\ PwmCounted
  /\ \E g \in Gens : pwm' = [pwm EXCEPT !.out = @ \cup {2 * g, 2 * g + 1}]
PwmStop ==
  /\ PwmCall /\ PwmCounted
  /\ \E g \in Gens : pwm' = [pwm EXCEPT !.out = @ \ {2 * g, 2 * g + 1}]

\* drv_pwm_capture_config: to count edges the match is set first.  The enable
\* of the other kind stays.
PwmCaptureConfig ==
  /\ PwmCall /\ PwmCounted
  /\ \E e \in Events : e[2] # "timeout" /\
       pwm' = [pwm EXCEPT !.ie = (IF e[2] = "time" THEN @ \ {<<e[1], "count">>} ELSE @) \cup {e}]

\* drv_pwm_capture_start switches the channel off that has the number of the
\* generator.
PwmCaptureStart ==
  /\ PwmCall /\ PwmCounted
  /\ \E g \in Gens : pwm' = [pwm EXCEPT !.out = @ \ {g}, !.cap = @ \cup {g}]
PwmCaptureStop ==
  /\ PwmCall /\ PwmCounted
  /\ \E g \in Gens : pwm' = [pwm EXCEPT !.cap = @ \ {g}, !.ie = @ \ {<<g, "count">>, <<g, "time">>}]

\* drv_pwm_timer_set_timeout, by what drv_pwm_get_clockdiv says, cut to the
\* width of the register.
PwmSetTimeout ==
  /\ PwmCall /\ PwmCounted
  /\ \E g \in Gens, us \in PwmPeriods :
       pwm' = [pwm EXCEPT !.tload[g] = (ClocksOf(us) \div ClockDiv) % (PwmTop + 1), !.out = @ \ {g}]
PwmTimerStart ==
  /\ PwmCall /\ PwmCounted
  /\ \E g \in Gens : pwm' = [pwm EXCEPT !.tim = @ \cup {g}, !.ie = @ \cup {<<g, "timeout">>}]
PwmTimerStop ==
  /\ PwmCall /\ PwmCounted
  /\ \E g \in Gens : pwm' = [pwm EXCEPT !.tim = @ \ {g}, !.ie = @ \ {<<g, "timeout">>}]

PwmNext ==
  \/ PwmEvent \/ PwmEnter \/ PwmServe
  \/ PwmConfigCb \/ PwmUninitialize \/ PwmConfigDiv \/ PwmConfig \/ PwmStart \/ PwmStop
  \/ PwmCaptureConfig \/ PwmCaptureStart \/ PwmCaptureStop
  \/ PwmSetTimeout \/ PwmTimerStart \/ PwmTimerStop

-----------------------------------------------------------------------------
(* What must hold.                                                         *)

\* The registers and the handler are well formed.
PwmTypeOK == pwm \in PwmRegs /\ pisr.todo \subseteq Gens /\ pisr.seen \subseteq Events

\* The signal of a channel in clocks: the counter of its generator runs from 0 to
\* the load, and the output is low until it reaches the compare value.
PeriodOf(c) == (pwm.load[GenOf(c)] + 1) * Divider
LowOf(c) == (IF pwm.cmp[c] <= pwm.load[GenOf(c)] THEN pwm.cmp[c] ELSE pwm.load[GenOf(c)] + 1) * Divider

\* The period is longer than what was asked for, by a tick of the divider at most;
\* the pulse, which is low, is as long or less than a tick shorter.
AsAsked(last) ==
  LET period == PwmMHz * last.period
      pulse  == PwmMHz * last.pulse
  IN  /\ period < PeriodOf(last.chan) /\ PeriodOf(last.chan) <= period + Divider
      /\ LowOf(last.chan) <= pulse /\ pulse < LowOf(last.chan) + Divider

\* The channel configured last has the signal it was asked for, whatever the other
\* calls, the timers and the captures did since, unless one of them failed or
\* changed the clock, and provided that the period in clocks fits a word.
PwmShape == prec.last.known /\ PwmMHz * prec.last.period < PwmWord => AsAsked(prec.last)

\* The same of any period: csi_pwm_config, when it returns 0, has set "the PWM
\* period in us" (wj_pwm.c) of its caller.
ShapeAsAsked == prec.last.known => AsAsked(prec.last)

\* An event is pending until its callback's turn: a handler that looks at one
\* cause of a generator loses neither the other ones nor those that come after
\* it read the statuses.
EventsKept == prec.due \subseteq pwm.is
================================================================================
