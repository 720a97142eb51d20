-------------------------------- MODULE Slave9 ---------------------------------
(***************************************************************************)
(* The way of an REE access to slave 9: the IOPMP's output (iopmp.sv), the *)
(* router (slave9_ahb_mux.sv) and the two slaves behind it, mailbox and    *)
(* IOPMP registers.  One step is one clock: the next access is in its      *)
(* address phase while the last one is in its data phase, and the data of  *)
(* the last one passes through muxes that look at the next one.            *)
(***************************************************************************)
EXTENDS Integers

CONSTANT S9Words   \* data words; 0 is what a blanked bus carries

ASSUME Slave9Assumption == S9Words \subseteq Nat \ {0}

VARIABLES
  phase,    \* the access in its data phase, as the master sees it
  s9,       \* iopmp_req_ff, what the router has passed on, the IOPMP's answer
  stored    \* history: the mailbox's last write: its word, what was stored, what came next

s9vars == <<phase, s9, stored>>

NoAccess9 == [to |-> "none", write |-> FALSE, denied |-> FALSE, data |-> 0]
Reads9    == [to : {"mailbox", "iopmp"}, write : {FALSE}, denied : BOOLEAN, data : {0}]
Writes9   == [to : {"mailbox", "iopmp"}, write : {TRUE}, denied : BOOLEAN, data : S9Words]
Access9   == {NoAccess9} \cup Reads9 \cup Writes9

\* A denied access goes on as an idle one; the matrix drives zero when no
\* access selects the slave, so that the router sees the mailbox's side idle.
Passed(a) == IF a.denied THEN NoAccess9 ELSE a

\* iopmp_req: the address is one of the IOPMP's two registers.
ToIopmp(a) == a.to = "iopmp"

Slave9Init ==
  /\ phase = NoAccess9
  /\ s9 = [sel |-> FALSE, passed |-> NoAccess9, exc |-> FALSE]
  /\ stored = [given |-> 0, got |-> 0, next |-> NoAccess9]

\* The write data of the data phase, blanked by the denial of the next access
\* (iopmp.sv, AHB_Out) or by its going to the IOPMP (mux_out).
MutWriteData(a) == IF ToIopmp(a) THEN 0 ELSE IF ToIopmp(s9.passed) THEN phase.data ELSE 0
WriteData(a) == IF a.denied \/ ToIopmp(Passed(a)) THEN 0 ELSE phase.data

\* The mailbox stores in the data phase; the IOPMP, whose registers are read
\* only, has its answer ready after the address phase.
Clock9(a) ==
  /\ phase' = a
  /\ s9' = [sel |-> ToIopmp(Passed(a)), passed |-> Passed(a),
            exc |-> ToIopmp(Passed(a)) /\ ~a.write]
  /\ stored' = IF s9.passed.to = "mailbox" /\ s9.passed.write
               THEN [given |-> phase.data, got |-> WriteData(a), next |-> a]
               ELSE stored

Slave9Next == \E a \in Access9 : Clock9(a)

\* What the master reads in the data phase: AHB_resp_mux.
Answer9 == IF s9.sel THEN IF s9.exc THEN "iopmp" ELSE "zero" ELSE "mailbox"

-----------------------------------------------------------------------------
(* What must hold.                                                         *)

\* A mailbox write stores the word it was given, unless the access right behind
\* it is denied or goes to the IOPMP's registers, and then it stores zero; and
\* a granted read is answered by the slave it was made to.
Slave9Carries ==
  /\ stored.got # stored.given =>
       stored.got = 0 /\ (stored.next.denied \/ ToIopmp(stored.next))
  /\ ~phase.write /\ ~phase.denied /\ phase.to # "none" => Answer9 = phase.to
================================================================================
