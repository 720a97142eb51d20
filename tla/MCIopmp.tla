------------------------------- MODULE MCIopmp -------------------------------
(***************************************************************************)
(* Instances of Iopmp for TLC.                                             *)
(***************************************************************************)
EXTENDS Iopmp

MCQuiet == [trans |-> FALSE, addr |-> AddrZero, write |-> FALSE]
MCReads(addrs)  == [trans : {TRUE}, addr : addrs, write : {FALSE}]
MCWrites(addrs) == [trans : {TRUE}, addr : addrs, write : {TRUE}]
MCBus(q0, q1, q2) == {[p \in Port |-> IF p = 0 THEN r0 ELSE IF p = 1 THEN r1 ELSE r2] :
                        r0 \in q0 \cup {MCQuiet}, r1 \in q1 \cup {MCQuiet}, r2 \in q2 \cup {MCQuiet}}

\* Every transfer there is, on port 0 alone.
MCPort0 == MCBus(MCReads(Addr) \cup MCWrites(Addr), {}, {})

\* The ports as the core uses them: port 0 only fetches.
MCCore == MCBus(MCReads({"S2_DSRAM"}),
                MCReads({"S2_DSRAM", "P13_APB0_DUMMY7"}) \cup MCWrites({"S8_MBX_CH0"}),
                MCReads({"S3_DSRAM"}) \cup MCWrites({"P0_TIMER1"}))
\* And as they disturb each other: port 0 writes, port 2 sets the latch in MD5 and
\* goes on to MD3 or to the boot memory, whatever port 1 does.
MCShared == MCBus(MCWrites({"S2_DSRAM"}),
                  MCReads({"S2_DSRAM", "S9_MDUMMY2_1"}) \cup MCWrites({"S8_MBX_CH0", "S11_MDUMMY3"}),
                  MCReads({"S9_MDUMMY2_1", "P5_GPIO", "S0_BOOTINST"}) \cup MCWrites({"S2_DSRAM", "S9_IOPMP"}))
\* Together: every region, and denials of one, two and three ports.
MCTable == MCPort0 \cup MCCore \cup MCShared

\* Port 0 and port 1 ask for the same, port 2 for anything of MD3.
MCSame == MCBus(MCReads({"S9_MDUMMY2_1"}), MCReads({"S9_MDUMMY2_1"}), MCReads({"S4_DSRAM"}))
=============================================================================
