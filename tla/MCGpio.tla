-------------------------------- MODULE MCGpio ---------------------------------
(* The GPIO port by itself. *)
EXTENDS Gpio

Spec == GpioInit /\ [][GpioNext]_gvars
================================================================================
