------------------------------- MODULE MCDevices -------------------------------
(* The drivers and devices that share nothing, one of them for the length of a
   run: a port used as an I2C master, GPIO, clock, calendar, timer, watchdog,
   PWM, DMA channel, way to slave 9, boot control, and
   the interrupts' way to their drivers. *)
EXTENDS Iic, Gpio, Rtc, RtcCalendar, Timer, Wdt, Pwm, Dmac,
  Slave9, Boot, Dispatch

VARIABLE part

\* Devices of the REE: timers on both sides of the gap in the numbers, a USI and one
\* that is alone.
MCIrqDevices == {[drv |-> "timer", idx |-> 7], [drv |-> "timer", idx |-> 10],
                 [drv |-> "usi", idx |-> 1], [drv |-> "mbx_ch1", idx |-> 0]}

vars == <<part, ivars, gvars, rvars, calvars, tvars, wvars, pwmvars, dmavars,
          s9vars, bootvars, dispvars>>

Init ==
  /\ part \in {"iic", "gpio", "rtc", "calendar", "timer", "wdt", "pwm", "dmac",
              "slave9", "boot", "dispatch"}
  /\ usi = [ResetPort EXCEPT !.mode = "i2c"] /\ isr = Idle /\ IicInit
  /\ GpioInit /\ RtcInit /\ CalInit /\ TimerInit /\ WdtInit /\ PwmInit /\ DmacInit
  /\ Slave9Init /\ BootInit /\ DispatchInit

\* A step of one of them leaves the others alone.
Next ==
  /\ UNCHANGED part
  /\ \/ part = "iic" /\ IicNext
        /\ UNCHANGED <<gvars, rvars, calvars, tvars, wvars, pwmvars, dmavars, s9vars, bootvars, dispvars>>
     \/ part = "gpio" /\ GpioNext
        /\ UNCHANGED <<ivars, rvars, calvars, tvars, wvars, pwmvars, dmavars, s9vars, bootvars, dispvars>>
     \/ part = "rtc" /\ RtcNext
        /\ UNCHANGED <<ivars, gvars, calvars, tvars, wvars, pwmvars, dmavars, s9vars, bootvars, dispvars>>
     \/ part = "calendar" /\ CalNext
        /\ UNCHANGED <<ivars, gvars, rvars, tvars, wvars, pwmvars, dmavars, s9vars, bootvars, dispvars>>
     \/ part = "timer" /\ TimerNext
        /\ UNCHANGED <<ivars, gvars, rvars, calvars, wvars, pwmvars, dmavars, s9vars, bootvars, dispvars>>
     \/ part = "wdt" /\ WdtNext
        /\ UNCHANGED <<ivars, gvars, rvars, calvars, tvars, pwmvars, dmavars, s9vars, bootvars, dispvars>>
     \/ part = "pwm" /\ PwmNext
        /\ UNCHANGED <<ivars, gvars, rvars, calvars, tvars, wvars, dmavars, s9vars, bootvars, dispvars>>
     \/ part = "dmac" /\ DmacNext
        /\ UNCHANGED <<ivars, gvars, rvars, calvars, tvars, wvars, pwmvars, s9vars, bootvars, dispvars>>
     \/ part = "slave9" /\ Slave9Next
        /\ UNCHANGED <<ivars, gvars, rvars, calvars, tvars, wvars, pwmvars, dmavars, bootvars, dispvars>>
     \/ part = "boot" /\ BootNext
        /\ UNCHANGED <<ivars, gvars, rvars, calvars, tvars, wvars, pwmvars, dmavars, s9vars, dispvars>>
     \/ part = "dispatch" /\ DispatchNext
        /\ UNCHANGED <<ivars, gvars, rvars, calvars, tvars, wvars, pwmvars, dmavars, s9vars, bootvars>>

Spec == /\ Init /\ [][Next]_vars
        /\ IicFair /\ GpioFair /\ RtcFair /\ TimerFair /\ WdtFair /\ DmacFair

\* The state of the part that runs is well formed.
DevicesTypeOK ==
  /\ part = "iic" => IicTypeOK
  /\ part = "gpio" => GpioTypeOK
  /\ part = "rtc" => RtcTypeOK
  /\ part = "timer" => TimerTypeOK
  /\ part = "wdt" => WdtTypeOK
  /\ part = "pwm" => PwmTypeOK
  /\ part = "dmac" => DmacTypeOK

\* What was started can go on: an I2C transfer, which never waits for a level that
\* cannot be reached, an alarm, a DMA transfer.
DevicesGoOn == IicGoesOn /\ ThresholdInReach /\ AlarmAhead /\ OwedIsComing

\* Neither an alarm nor a timeout is told before its time.
NothingEarly == NeverEarly /\ TimeoutInTime
================================================================================
