--------------------------------- MODULE MCPwm ---------------------------------
(* The PWM by itself. *)
EXTENDS Pwm

Spec == PwmInit /\ [][PwmNext]_pwmvars
================================================================================
