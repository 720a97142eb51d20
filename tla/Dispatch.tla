-------------------------------- MODULE Dispatch --------------------------------
(***************************************************************************)
(* From a device's request line to its driver: the tables of devices.c,    *)
(* g_irqvector, the interrupt controller of one core and the entry code of *)
(* vectors.S.  Every line is a level of the same priority, so an interrupt *)
(* is taken only when none is being served.                                *)
(***************************************************************************)
EXTENDS Integers

\* The driver instances of the tables.
Instances ==
  [drv : {"timer"}, idx : 0..15] \cup [drv : {"usi"}, idx : 0..2]
  \cup [drv : {"gpio", "pwm", "rtc", "wdt", "dmac", "mbx_ch0", "mbx_ch1", "iopmp"}, idx : {0}]

CONSTANTS
  IrqDevices,    \* the instances that are used: those whose requests reach this core
  IrqJobs        \* bound: initializations of main

ASSUME DispatchAssumption == IrqDevices \subseteq Instances /\ IrqJobs \in Nat

VARIABLES
  irqtab,    \* g_irqvector: the instance an ISR calls its driver with, or NoIsr
  irqon,     \* the numbers enabled in the controller
  raised,    \* the instances that request an interrupt
  inisr,     \* the interrupt being served: its number, how far, the instance called
  jobs,      \* the initialize or uninitialize under way in main and in a callback
  opened     \* history: the instances initialized, and how often main did

dispvars == <<irqtab, irqon, raised, inisr, jobs, opened>>

NoIsr == [drv |-> "Default_Handler", idx |-> 0]
NoJob == [op |-> "none", dev |-> NoIsr, at |-> 1]
NotServing == [irq |-> 0, pc |-> "no", with |-> NoIsr]
Only == [gpio |-> 16, pwm |-> 25, rtc |-> 26, wdt |-> 27, dmac |-> 32,
         mbx_ch0 |-> 43, mbx_ch1 |-> 44, iopmp |-> 45]

TimerIrq(i) == (IF i < 8 THEN 17 ELSE 25) + i
UsiIrq(i) == 28 + i
\* The number a driver gets for its instance.
IrqOf(d) == IF d.drv = "timer" THEN TimerIrq(d.idx)
            ELSE IF d.drv = "usi" THEN UsiIrq(d.idx) ELSE Only[d.drv]

\* Where the registers of a timer are: one of two buses, a block of two timers on it.
BaseOf(i) == [bus |-> (i \div 2) % 2, block |-> i \div 4, half |-> i % 2]
\* The block with those registers drives these lines of the core.
TimLine(b) == LET tim == 2 * b.block + b.bus IN
              (IF tim < 4 THEN 17 + 2 * tim ELSE 33 + 2 * (tim - 4)) + b.half
\* Where the registers of a USI are: a slave of one of the two buses.
UsiBase(i) == [bus |-> i % 2, slave |-> 4 + i \div 2]
\* The port with those registers drives this line.
UsiLine(b) == 28 + b.bus + 2 * (b.slave - 4)
\* The lines of the requests the main bus has spare: the two doorbells and the denial.
MainDummy(k) == 42 + k
\* The lines the devices drive of which there is one.
Wire == [gpio |-> 16, pwm |-> 25, rtc |-> 26, wdt |-> 27, dmac |-> 32,
         mbx_ch0 |-> MainDummy(1), mbx_ch1 |-> MainDummy(2), iopmp |-> MainDummy(3)]
\* The line of the device an instance drives, from the registers it is given.
LineOf(d) == IF d.drv = "timer" THEN TimLine(BaseOf(d.idx))
             ELSE IF d.drv = "usi" THEN UsiLine(UsiBase(d.idx)) ELSE Wire[d.drv]

MutOpening == <<"enable", "register">>
Opening == <<"register", "enable">>
Closing == <<"disable", "unregister">>
StepOf(j) == IF j.op = "open" THEN Opening[j.at] ELSE Closing[j.at]

DispatchInit ==
  /\ irqtab = [n \in 0..47 |-> NoIsr] /\ irqon = {}
  /\ raised = {} /\ inisr = NotServing
  /\ jobs = [main |-> NoJob, callback |-> NoJob]
  /\ opened = [who |-> {}, calls |-> 0]

\* A device raises its request, whether it is open or not, or withdraws it (a
\* denial's line is up for the denied cycles only).
LineMoves == /\ \E d \in IrqDevices : raised' = IF d \in raised THEN raised \ {d} ELSE raised \cup {d}
             /\ UNCHANGED <<irqtab, irqon, inisr, jobs, opened>>

\* The core takes an enabled line that is up, in any order.
TakeIrq == /\ inisr.pc = "no"
           /\ \E d \in raised : /\ LineOf(d) \in irqon
                                /\ inisr' = [irq |-> LineOf(d), pc |-> "taken", with |-> NoIsr]
           /\ UNCHANGED <<irqtab, irqon, raised, jobs, opened>>

\* The entry code loads the vector of the number and calls it.
CallIsr == /\ inisr.pc = "taken"
           /\ inisr' = [inisr EXCEPT !.pc = "called", !.with = irqtab[inisr.irq]]
           /\ UNCHANGED <<irqtab, irqon, raised, jobs, opened>>

\* The driver clears the request; it may be up again at once.
LeaveIsr == /\ inisr.pc = "called" /\ jobs.callback = NoJob
            /\ raised' = raised \ {inisr.with} /\ inisr' = NotServing
            /\ UNCHANGED <<irqtab, irqon, jobs, opened>>

\* Main initializes a device that is not, or gives one back.
StartJob == /\ inisr.pc = "no" /\ jobs.main = NoJob
            /\ \E d \in IrqDevices :
                 \/ /\ d \notin opened.who /\ opened.calls < IrqJobs
                    /\ jobs' = [jobs EXCEPT !.main = [op |-> "open", dev |-> d, at |-> 1]]
                    /\ opened' = [opened EXCEPT !.calls = @ + 1]
                 \/ /\ d \in opened.who
                    /\ jobs' = [jobs EXCEPT !.main = [op |-> "close", dev |-> d, at |-> 1]]
                    /\ UNCHANGED opened
            /\ UNCHANGED <<irqtab, irqon, raised, inisr>>

\* A callback gives its own device back.
StartCallback ==
  /\ inisr.pc = "called" /\ jobs.callback = NoJob /\ inisr.with \in opened.who
  /\ jobs' = [jobs EXCEPT !.callback = [op |-> "close", dev |-> inisr.with, at |-> 1]]
  /\ UNCHANGED <<irqtab, irqon, raised, inisr, opened>>

\* drv_irq_register, drv_irq_enable, drv_irq_disable, drv_irq_unregister for j.
Effect(j) ==
  LET n == IrqOf(j.dev)
      s == StepOf(j)
  IN /\ irqtab' = [irqtab EXCEPT ![n] = CASE s = "register" -> j.dev
                                          [] s = "unregister" -> NoIsr
                                          [] OTHER -> @]
     /\ irqon' = CASE s = "enable" -> irqon \cup {n}
                   [] s = "disable" -> irqon \ {n}
                   [] OTHER -> irqon

JobStep(who) ==
  LET j == jobs[who] IN
  /\ j # NoJob /\ inisr.pc = (IF who = "main" THEN "no" ELSE "called")
  /\ Effect(j)
  /\ \/ /\ j.at = 1 /\ jobs' = [jobs EXCEPT ![who].at = 2] /\ UNCHANGED opened
     \/ /\ j.at = 2 /\ jobs' = [jobs EXCEPT ![who] = NoJob]
        /\ opened' = [opened EXCEPT !.who = IF j.op = "open" THEN @ \cup {j.dev} ELSE @ \ {j.dev}]
  /\ UNCHANGED <<raised, inisr>>

DispatchNext == \/ LineMoves \/ TakeIrq \/ CallIsr \/ LeaveIsr
                \/ StartJob \/ StartCallback \/ JobStep("main") \/ JobStep("callback")

-----------------------------------------------------------------------------
(* What must hold.                                                         *)

\* The ISR the entry code calls is the one of the device whose line was taken,
\* never Default_Handler, which would enter again without end: whenever a line
\* rises, before its driver is initialized, while it is or while it is given
\* back by main or by the callback, and for every instance of the tables.
ServedByOwner == inisr.pc = "called" => inisr.with # NoIsr /\ LineOf(inisr.with) = inisr.irq
================================================================================
