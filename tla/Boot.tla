--------------------------------- MODULE Boot ----------------------------------
(***************************************************************************)
(* The boot control of the REE (s5_ahb_dummy_top.v) and the TEE that       *)
(* writes it (example_spi.c): a reset line and a start address.  A write   *)
(* is decoded in its data phase; the next one may be right behind it.      *)
(***************************************************************************)
EXTENDS Integers

CONSTANTS
  BootAddrs,    \* start addresses; 0 is the one after reset
  BootWrites    \* bound: writes of the TEE since the reset

ASSUME BootAssumption == BootAddrs \subseteq Nat /\ BootWrites \in Nat

VARIABLES
  boot,    \* REE_rst_b, REE_rst_addr, and the access whose data phase this is
  told     \* history: what the writes say in the order the TEE made them

bootvars == <<boot, told>>

NoWrite == [to |-> "none", data |-> 0]
\* Writes to the two registers and to others of the slave's range.
Writes5 == [to : {"rst_b"}, data : {0, 1}] \cup [to : {"rst_addr", "other"}, data : BootAddrs]

Runs(b) == b.rst = 1

BootInit ==
  /\ boot = [rst |-> 0, addr |-> 0, ff |-> NoWrite]
  /\ told = [rst |-> 0, addr |-> 0, writes |-> 0]

\* The registers at the end of the data phase of w.
MutWritten(b, w) == [b EXCEPT !.rst  = IF w.to = "rst_b" THEN w.data ELSE @,
                              !.addr = IF w.to = "rst_addr" THEN w.data ELSE @]
Written(b, w) == [b EXCEPT !.rst  = IF w.to = "rst_b" THEN w.data ELSE @,
                           !.addr = IF w.to = "rst_addr" /\ ~Runs(b) THEN w.data ELSE @]

\* The address of a write counts when the REE is in reset by then.
Told(w) == [told EXCEPT !.rst  = IF w.to = "rst_b" THEN w.data ELSE @,
                        !.addr = IF w.to = "rst_addr" /\ told.rst = 0 THEN w.data ELSE @,
                        !.writes = @ + 1]

BootClock ==
  \/ boot' = [Written(boot, boot.ff) EXCEPT !.ff = NoWrite] /\ UNCHANGED told
  \/ \E w \in Writes5 : /\ told.writes < BootWrites
                        /\ boot' = [Written(boot, boot.ff) EXCEPT !.ff = w] /\ told' = Told(w)

\* The reset of the chip, at any clock.
BootReset == /\ boot' = [rst |-> 0, addr |-> 0, ff |-> NoWrite]
             /\ told' = [told EXCEPT !.rst = 0, !.addr = 0]

BootNext == BootClock \/ BootReset

-----------------------------------------------------------------------------
(* What must hold.                                                         *)

\* The REE runs only where the TEE told it to, in the order of the TEE's writes
\* however close they are: at the last address set before its release, and that
\* address stays as long as it runs.
RunsWhereTold == Runs(boot) /\ boot.ff.to = "none" => told.rst = 1 /\ boot.addr = told.addr
================================================================================
