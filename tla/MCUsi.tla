-------------------------------- MODULE MCUsi ---------------------------------
(* One port, used as a UART or as an SPI master for the length of a run. *)
EXTENDS Usart, Spi

vars == <<uvars, svars>>

Init == /\ isr = Idle /\ UsartInit /\ SpiInit
        /\ \E mode \in {"uart", "spi"} : usi = [ResetPort EXCEPT !.mode = mode]

Next == \/ usi.mode = "uart" /\ UsartNext /\ UNCHANGED <<sd, sline, smain, srec>>
        \/ usi.mode = "spi" /\ SpiNext /\ UNCHANGED <<ud, umain, urec>>

Spec == Init /\ [][Next]_vars /\ UsartFair /\ SpiFair

\* The state of the mode that is used, and of the idle driver beside it, is well formed.
PortTypeOK == UsartTypeOK /\ SpiTypeOK

\* What runs can go on, in either mode: driver and line never wait for each other.
PortGoesOn == SendGoesOn /\ SpiGoesOn
===============================================================================
