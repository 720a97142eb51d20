-------------------------------- MODULE Iopmp --------------------------------
(***************************************************************************)
(* The IOPMP between the three AHB master ports of the REE core and the    *)
(* bus matrix: rtl/iopmp.sv and rtl/iopmp_define.svh.  Every cycle each    *)
(* port's request is looked up in a table; one that is denied is replaced  *)
(* by an idle transfer, kept in two registers and signalled.               *)
(*                                                                         *)
(* An address is the name of the region it lies in (the define file's      *)
(* names); addresses are compared by their place in the memory map.        *)
(***************************************************************************)
EXTENDS Integers, Sequences

CONSTANTS
  Bus,        \* the requests the REE may present on its three ports at once
  Readouts    \* the accesses made to the IOPMP's own slave port

Port == 0..2    \* the REE's instruction, data and system bus

\* The memory map, ascending.  CH0_STATUS_ADDR is not an entry of the table:
\* it is the mailbox register that lies within S8_DUMMY.
AddrMap == <<
  "S0_BOOTINST", "S1_BOOTDATA", "S2_DSRAM", "S3_DSRAM", "S4_DSRAM", "S5_DMEM_DUMMY1",
  "S6_DMA", "S7_MDUMMY0", "S8_MBX_GB", "S8_MBX_CH0", "S8_DUMMY", "CH0_STATUS_ADDR",
  "S9_MDUMMY2_0", "S9_MBX_CH1", "S9_IOPMP", "S9_MDUMMY2_1", "S0_LS_DUMMY0", "S1_LS_DUMMY1",
  "P0_TIMER0", "P1_TIMER2", "P2_TIMER4", "P3_TIMER6", "P6_APB0_DUMMY1", "P7_WDT",
  "P8_APB0_DUMMY2", "P9_APB0_DUMMY3", "P10_APB0_DUMMY4", "P11_APB0_DUMMY5", "P12_PWM",
  "P13_APB0_DUMMY7", "P14_APB0_DUMMY8", "P4_USI0", "P5_USI2", "P15_APB0_DUMMY9",
  "P0_TIMER1", "P1_TIMER3", "P2_TIMER5", "P3_TIMER7", "P6_RTC", "P7_APB1_DUMMY1",
  "P8_APB1_DUMMY2", "P9_APB1_DUMMY3", "P10_APB1_DUMMY4", "P5_GPIO", "P11_APB1_DUMMY5",
  "P12_APB1_DUMMY6", "P13_APB1_DUMMY7", "P4_USI1", "P14_APB1_DUMMY8", "P15_PMU",
  "S4_LS_DUMMY2", "S5_LS_DUMMY3", "S11_MDUMMY3" >>
Addr == {AddrMap[i] : i \in DOMAIN AddrMap}
Rank == [a \in Addr |-> CHOOSE i \in DOMAIN AddrMap : AddrMap[i] = a]
AddrZero == "S0_BOOTINST"

\* The entries of each memory domain, in the order of the table.
Closed(addrs) == [i \in DOMAIN addrs |-> [addr |-> addrs[i], r |-> FALSE, w |-> FALSE]]
ReadOnly(addrs) == [i \in DOMAIN addrs |-> [addr |-> addrs[i], r |-> TRUE, w |-> FALSE]]
Open(addrs)   == [i \in DOMAIN addrs |-> [addr |-> addrs[i], r |-> TRUE, w |-> TRUE]]
MD == 0..6
Table == [m \in MD |->
  CASE m = 0 -> Closed(<<"S0_BOOTINST", "S1_BOOTDATA">>)
    [] m = 1 -> ReadOnly(<<"S2_DSRAM">>)
    [] m = 2 -> Closed(<<"S3_DSRAM">>)
    [] m = 3 -> Open(<<"S4_DSRAM", "S5_DMEM_DUMMY1", "S6_DMA", "S7_MDUMMY0">>)
                \o ReadOnly(<<"S8_MBX_GB", "S8_MBX_CH0">>)
                \o Open(<<"S8_DUMMY", "S9_MDUMMY2_0", "S9_MBX_CH1">>)
                \o ReadOnly(<<"S9_IOPMP">>)
                \o Open(<<"S9_MDUMMY2_1", "S0_LS_DUMMY0", "S1_LS_DUMMY1">>)
    [] m = 4 -> Closed(<<"P0_TIMER0", "P1_TIMER2", "P2_TIMER4", "P3_TIMER6", "P4_USI0", "P5_USI2",
                         "P6_APB0_DUMMY1", "P7_WDT", "P8_APB0_DUMMY2", "P9_APB0_DUMMY3",
                         "P10_APB0_DUMMY4", "P11_APB0_DUMMY5", "P12_PWM">>)
                \o Open(<<"P13_APB0_DUMMY7">>)
                \o Closed(<<"P14_APB0_DUMMY8", "P15_APB0_DUMMY9">>)
    [] m = 5 -> Open(<<"P0_TIMER1", "P1_TIMER3", "P2_TIMER5", "P3_TIMER7", "P4_USI1", "P5_GPIO",
                       "P6_RTC", "P7_APB1_DUMMY1", "P8_APB1_DUMMY2", "P9_APB1_DUMMY3",
                       "P10_APB1_DUMMY4", "P11_APB1_DUMMY5", "P12_APB1_DUMMY6",
                       "P13_APB1_DUMMY7", "P14_APB1_DUMMY8", "P15_PMU">>)
    [] m = 6 -> Open(<<"S4_LS_DUMMY2", "S5_LS_DUMMY3", "S11_MDUMMY3">>)]

\* The first address of each domain, MD0 to MD6.
MDBase == [m \in MD |-> <<"S0_BOOTINST", "S2_DSRAM", "S3_DSRAM", "S4_DSRAM",
                          "P0_TIMER0", "P0_TIMER1", "S4_LS_DUMMY2">>[m + 1]]
\* m*_md_sel: the domain an address lies in.
Sel == [a \in Addr |-> CHOOSE m \in MD : /\ Rank[a] >= Rank[MDBase[m]]
                                         /\ m = 6 \/ Rank[a] < Rank[MDBase[m + 1]]]

Request == [trans : BOOLEAN, addr : Addr, write : BOOLEAN]
Idle(q)    == ~q.trans
ToDummy    == [trans |-> FALSE, addr |-> "S11_MDUMMY3", write |-> FALSE]

ASSUME BusAssumption == Bus \subseteq [Port -> Request]
ASSUME IdleAssumption == \E qs \in Bus : \A p \in Port : Idle(qs[p])
ASSUME ReadoutAssumption == Readouts \subseteq {"none", "EXP_ADDR", "WRITE_ADDR", "other"}

VARIABLES
  resetn,    \* REE_rst_b
  req,       \* req[p]: the request in its address phase on port p
  held,      \* m2_entry_match[10], a latch while port 2 is in MD3
  expAddr,   \* ahb_exp_addr
  expWrite,  \* ahb_exp_write
  readout,   \* the access in its address phase on the IOPMP's own slave port
  rdata,     \* iopmp_hrdata
  resp,      \* iopmp_hresp
  blamed     \* history: the requests denied in the last cycle that denied any

vars == <<resetn, req, held, expAddr, expWrite, readout, rdata, resp, blamed>>
-----------------------------------------------------------------------------
(* The decision on a request: combinational logic over req, resetn and held. *)

Transit(p) == resetn /\ req[p].trans

\* srcmd_en and srcmd_w, or srcmd_r: the domains a write, or a read, may enter.
Domains(write) == IF write THEN {3, 5, 6} ELSE {1, 3, 5, 6}

\* m*_md_access_ok: every port's domain is checked with hwrite of port 0.
Enters(p) == Transit(p) /\ Sel[req[p].addr] \in Domains(req[0].write)

\* Mutant: a region includes the first address of the next one.
MutCovers(m, i, a) ==
  /\ Rank[a] >= Rank[Table[m][i].addr]
  /\ CASE i < Len(Table[m]) -> Rank[a] <= Rank[Table[m][i + 1].addr]
       [] i = Len(Table[m]) -> m = 6 => Rank[a] < Rank[AddrZero]

\* An entry covers the addresses up to the next entry's.  The last one is
\* open, but in MD6 it is bounded by an entry that was never written.
Covers(m, i, a) ==
  /\ Rank[a] >= Rank[Table[m][i].addr]
  /\ CASE i < Len(Table[m]) -> Rank[a] < Rank[Table[m][i + 1].addr]
       [] i = Len(Table[m]) -> m = 6 => Rank[a] < Rank[AddrZero]

OwnMatch(p) == IF Enters(p)
               THEN LET m == Sel[req[p].addr]
                    IN  {i \in DOMAIN Table[m] : Covers(m, i, req[p].addr)}
               ELSE {}

\* m*_entry_match.  The MD3 branch of port 2 drives bit 10 (entry 11 here) of
\* port 1's vector instead of its own, which keeps its value.
InMD3(p) == Enters(p) /\ Sel[req[p].addr] = 3
Match(p) ==
  CASE p = 1 /\ InMD3(2) -> (OwnMatch(1) \ {11}) \cup (OwnMatch(2) \cap {11})
    [] p = 2 /\ InMD3(2) -> (OwnMatch(2) \ {11}) \cup (IF held THEN {11} ELSE {})
    [] OTHER -> OwnMatch(p)

\* m*_md_idx and m*_entry_idx: the first entry unless exactly one matches.
Domain(p)   == IF Enters(p) THEN Sel[req[p].addr] ELSE 0
Selected(p) == IF \E i \in 1..16 : Match(p) = {i} THEN CHOOSE i \in 1..16 : Match(p) = {i} ELSE 1
Granted(p)  == /\ Match(p) # {}
               /\ Selected(p) \in DOMAIN Table[Domain(p)]
               /\ LET e == Table[Domain(p)][Selected(p)]
                  IN  IF req[p].write THEN e.w ELSE e.r

Deny(p)   == Transit(p) /\ ~Granted(p)
Denied    == {p \in Port : Deny(p)}

\* Mutant: the output of every port is switched by the denial of port 0.
MutOutput(p) == IF Deny(0) THEN ToDummy ELSE req[p]
Output(p) == IF Deny(p) THEN ToDummy ELSE req[p]     \* AHB_Out
-----------------------------------------------------------------------------
Init ==
  /\ resetn = FALSE
  /\ req \in Bus /\ \A p \in Port : Idle(req[p])
  /\ held = FALSE
  /\ expAddr = AddrZero
  /\ expWrite = FALSE
  /\ readout = "none"
  /\ rdata = AddrZero
  /\ resp = "OKAY"
  /\ blamed = {}

\* Mutant: the first exception is kept until reset.
MutRecord(D) == IF D = {} \/ blamed # {} THEN <<expAddr, expWrite>>
                ELSE IF \E p \in Port : D = {p}
                     THEN LET p == CHOOSE p \in Port : D = {p} IN <<req[p].addr, req[p].write>>
                     ELSE <<ToDummy.addr, ToDummy.write>>

\* Exception_Logic: the request denied, or the dummy if two ports are denied.
Record(D) == IF D = {} THEN <<expAddr, expWrite>>
             ELSE IF \E p \in Port : D = {p}
                  THEN LET p == CHOOSE p \in Port : D = {p} IN <<req[p].addr, req[p].write>>
                  ELSE <<ToDummy.addr, ToDummy.write>>

\* Read_Exception_Info: the answer to a read of one of the registers.
Answer == CASE readout = "EXP_ADDR"   -> expAddr
            [] readout = "WRITE_ADDR" -> IF expWrite THEN "one" ELSE AddrZero
            [] OTHER                  -> AddrZero

\* A rising clock edge with REE_rst_b high.
Clock ==
  /\ resetn
  /\ expAddr' = Record(Denied)[1]
  /\ expWrite' = Record(Denied)[2]
  /\ rdata' = Answer
  /\ resp' = IF readout = "other" THEN "ERROR" ELSE "OKAY"
  /\ blamed' = IF Denied = {} THEN blamed ELSE {<<p, req[p]>> : p \in Denied}

\* A rising clock edge with REE_rst_b low.
ClockReset ==
  /\ ~resetn
  /\ expAddr' = AddrZero
  /\ expWrite' = FALSE
  /\ rdata' = AddrZero
  /\ resp' = "OKAY"
  /\ blamed' = {}

\* The next requests: the REE's ports are idle while it is in reset.
Present ==
  /\ resetn' \in BOOLEAN
  /\ req' \in Bus /\ (~resetn' => \A p \in Port : Idle(req'[p]))
  /\ readout' \in Readouts

Next == (Clock \/ ClockReset) /\ held' = (11 \in Match(2)) /\ Present
Spec == Init /\ [][Next]_vars
-----------------------------------------------------------------------------
(* Properties *)

\* The type of every register.
TypeOK ==
  /\ resetn \in BOOLEAN
  /\ req \in [Port -> Request]
  /\ held \in BOOLEAN
  /\ expAddr \in Addr /\ expWrite \in BOOLEAN
  /\ readout \in {"none", "EXP_ADDR", "WRITE_ADDR", "other"}
  /\ rdata \in Addr \cup {"one"}
  /\ resp \in {"OKAY", "ERROR"}
  /\ blamed \in SUBSET (Port \X Request)

\* No transfer to the boot memory, the TEE's data or the TEE's peripherals
\* (MD0, MD2, MD4) leaves the IOPMP, whatever the three ports ask for at once
\* and although they share hwrite and a match bit.
Isolation == \A p \in Port : Transit(p) /\ Output(p).trans => Sel[Output(p).addr] \notin {0, 2, 4}

\* What the table says of one request taken alone: its domain is enabled and
\* the last entry at or below the address grants it.
Below(m, a)  == {i \in DOMAIN Table[m] : Rank[Table[m][i].addr] <= Rank[a]}
EntryOf(m, a) == CHOOSE i \in Below(m, a) :
                   \A j \in Below(m, a) : Rank[Table[m][j].addr] <= Rank[Table[m][i].addr]
Grants(q) == /\ Sel[q.addr] \in Domains(q.write)
             /\ LET e == Table[Sel[q.addr]][EntryOf(Sel[q.addr], q.addr)]
                IN  IF q.write THEN e.w ELSE e.r

\* Where a decision is not the table's.  The entry of MD6's last region has no end.
NoEnd(p) == req[p].addr = "S11_MDUMMY3"

\* A read of the RAM that may only be read, while port 0 writes: the direction of
\* port 0 stands for everybody's.
Misdirected(p) == req[p].addr = "S2_DSRAM" /\ ~req[p].write /\ req[0].write

\* A request in MD3 whose eleventh match bit is not its own: that of port 2 is what
\* the latch kept, and that of port 1 is port 2's when port 2 is in MD3 too.
\* Without the bit the eleventh region is missed.  With it another one matches
\* twice, and is taken for the first, which is open.
Eleventh(p) == req[p].addr = "S9_MDUMMY2_1"
BitOf(p) == IF p = 2 THEN held ELSE Eleventh(2)
Misled(p) ==
  /\ Sel[req[p].addr] = 3
  /\ p = 2 \/ (p = 1 /\ req[2].trans /\ Sel[req[2].addr] = 3)
  /\ IF Eleventh(p) THEN ~BitOf(p) ELSE BitOf(p) /\ ~Grants(req[p])

\* Every port is decided by the table, on its own request, but for these cases;
\* and in these it is decided the other way.
TableObeyed == \A p \in Port : Transit(p) =>
  (Granted(p) <=> (Grants(req[p]) <=> ~(NoEnd(p) \/ Misdirected(p) \/ Misled(p))))

\* The exception registers name the last request denied, when one port was.
ExceptionNamed == \A b \in blamed : blamed = {b} => expAddr = b[2].addr /\ expWrite = b[2].write

\* Port 1 is decided like port 0 would be: the comment above the match
\* signals calls the three copies "Duplicate Match Logic".
PortsAlike == \A p \in Port : Transit(p) /\ Transit(0) /\ req[p] = req[0] => (Granted(p) <=> Granted(0))

\* The REE may read the registers of mailbox channel 0, not write them
\* (iopmp_define.svh: "w: sid 0,1,2").
Channel0ReadOnly == \A p \in Port : Transit(p) /\ req[p].write /\ req[p].addr \in {"S8_MBX_CH0", "CH0_STATUS_ADDR"}
                                    => ~Granted(p)
=============================================================================
