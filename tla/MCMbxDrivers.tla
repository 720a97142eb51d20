---------------------------- MODULE MCMbxDrivers -----------------------------
(***************************************************************************)
(* Instances of MbxDrivers for TLC.                                        *)
(***************************************************************************)
EXTENDS MbxDrivers

\* CTRL values are the lengths they announce.
MCCtrlFor(n) == n
MCLenOf(v)   == v
MCIdle       == [c \in Chan |-> {NoAccess}]

MCSends(tee, ree) == [p \in CPU |-> IF p = "tee" THEN tee ELSE ree]

\* example_spi.c with mailbox_test_main.c: two words and three words at once.
MCMains == [sent |-> MCSends(<<11, 12>>, <<21, 22, 23>>), faults |-> << >>]
\* example_spi.c with iopmp_test_main.c: an exception while the TEE sends.
MCAlarm == [sent |-> MCSends(<<11, 12>>, << >>), faults |-> <<31>>]
\* iopmp_test_main.c with three faulting reads.
MCAlarms == [sent |-> MCSends(<< >>, << >>), faults |-> <<31, 32, 33>>]
MCPrograms == {MCMains, MCAlarm, MCAlarms}
=============================================================================
