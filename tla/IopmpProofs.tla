----------------------------- MODULE IopmpProofs -----------------------------
(***************************************************************************)
(* Theorems about Iopmp, for every use of the three ports.                 *)
(***************************************************************************)
EXTENDS Iopmp, SequenceTheorems, TLAPS

\* The domains of the TEE are open to nobody.
LEMMA ClosedDomains ==
  ASSUME NEW p \in Port, Sel[req[p].addr] \in {0, 2, 4}
  PROVE  ~Enters(p) /\ OwnMatch(p) = {} /\ Domain(p) = 0
PROOF BY DEF Enters, Domains, OwnMatch, Domain

\* A port that enters no domain has at most the match bit that port 2 drives.
LEMMA StrayMatch ==
  ASSUME NEW p \in Port, ~Enters(p), OwnMatch(p) = {}
  PROVE  Match(p) \subseteq {11}
PROOF
  <1>1. CASE p = 1 /\ InMD3(2)
    <2>1. Match(p) = (OwnMatch(1) \ {11}) \cup (OwnMatch(2) \cap {11})
      BY <1>1 DEF Match
    <2> QED
      BY <1>1, <2>1
  <1>2. CASE p = 2 /\ InMD3(2)
    BY <1>2 DEF InMD3
  <1>3. CASE ~(p = 1 /\ InMD3(2)) /\ ~(p = 2 /\ InMD3(2))
    <2>1. Match(p) = OwnMatch(p)
      BY <1>3 DEF Match
    <2> QED
      BY <2>1
  <1> QED
    BY <1>1, <1>2, <1>3

\* Domain 0, which stands for "no domain", has no eleventh entry.
LEMMA NoEleventhEntry == 11 \notin DOMAIN Table[0]
PROOF
  <1>1. Table[0] = Closed(<<"S0_BOOTINST", "S1_BOOTDATA">>)
    BY DEF Table, MD
  <1>2. DOMAIN Table[0] = DOMAIN <<"S0_BOOTINST", "S1_BOOTDATA">>
    BY <1>1 DEF Closed
  <1> QED
    BY <1>2

\* Without an open domain nothing is granted.
LEMMA NoDomainNoGrant ==
  ASSUME NEW p \in Port, ~Enters(p)
  PROVE  ~Granted(p)
PROOF
  <1>1. Domain(p) = 0 /\ Match(p) \subseteq {11}
    BY StrayMatch DEF Domain, OwnMatch
  <1> SUFFICES ASSUME Match(p) # {}
               PROVE  Selected(p) \notin DOMAIN Table[Domain(p)]
    BY DEF Granted
  <1>2. Match(p) = {11}
    BY <1>1
  <1>3. Selected(p) = 11
    <2>1. \E i \in 1..16 : Match(p) = {i}
      BY <1>2
    <2>2. \A i \in 1..16 : Match(p) = {i} => i = 11
      BY <1>2
    <2> QED
      BY <2>1, <2>2 DEF Selected
  <1> QED
    BY <1>1, <1>3, NoEleventhEntry

\* Nothing of the TEE's is granted.
LEMMA NotGranted ==
  ASSUME NEW p \in Port, Sel[req[p].addr] \in {0, 2, 4}
  PROVE  ~Granted(p)
PROOF BY ClosedDomains, NoDomainNoGrant

\* No transfer to the TEE's memory or peripherals leaves the IOPMP, whatever
\* the three ports ask for together.
THEOREM IsolationHolds == Spec => []Isolation
PROOF
  <1>1. Isolation
    <2> SUFFICES ASSUME NEW p \in Port, Transit(p), Output(p).trans
                 PROVE  Sel[Output(p).addr] \notin {0, 2, 4}
      BY DEF Isolation
    <2>1. ~Deny(p)
      BY DEF Output, ToDummy
    <2>2. Granted(p) /\ Output(p) = req[p]
      BY <2>1 DEF Deny, Output
    <2> QED
      BY <2>2, NotGranted
  <1> QED
    BY <1>1, PTL
-----------------------------------------------------------------------------
\* One port named in the history is one port denied.
LEMMA BlamedOne ==
  ASSUME NEW b, {<<p, req[p]>> : p \in Denied} = {b}
  PROVE  \E p \in Port : Denied = {p} /\ b = <<p, req[p]>>
PROOF
  <1>1. PICK p \in Denied : b = <<p, req[p]>>
    OBVIOUS
  <1>2. \A q \in Denied : <<q, req[q]>> = b
    OBVIOUS
  <1>3. \A q \in Denied : q = p
    BY <1>1, <1>2
  <1> QED
    BY <1>1, <1>3 DEF Denied

\* The exception registers name the last request denied, if only one port
\* was denied in its cycle.
THEOREM ExceptionIsNamed == Spec => []ExceptionNamed
PROOF
  <1>1. Init => ExceptionNamed
    BY DEF Init, ExceptionNamed
  <1>2. ExceptionNamed /\ [Next]_vars => ExceptionNamed'
    <2> SUFFICES ASSUME ExceptionNamed, [Next]_vars
                 PROVE  ExceptionNamed'
      OBVIOUS
    <2>1. CASE Clock
      <3>1. CASE Denied = {}
        BY <2>1, <3>1 DEF Clock, Record, ExceptionNamed
      <3>2. CASE Denied # {}
        <4> SUFFICES ASSUME NEW b \in blamed', blamed' = {b}
                     PROVE  expAddr' = b[2].addr /\ expWrite' = b[2].write
          BY DEF ExceptionNamed
        <4>1. {<<p, req[p]>> : p \in Denied} = {b}
          BY <2>1, <3>2 DEF Clock
        <4>2. PICK p \in Port : Denied = {p} /\ b = <<p, req[p]>>
          BY <4>1, BlamedOne
        <4>3. Record(Denied) = <<req[p].addr, req[p].write>>
          BY <4>2 DEF Record
        <4> QED
          BY <2>1, <4>2, <4>3 DEF Clock
      <3> QED
        BY <3>1, <3>2
    <2>2. CASE ClockReset
      BY <2>2 DEF ClockReset, ExceptionNamed
    <2>3. CASE UNCHANGED vars
      BY <2>3 DEF vars, ExceptionNamed
    <2> QED
      BY <2>1, <2>2, <2>3 DEF Next
  <1> QED
    BY <1>1, <1>2, PTL DEF Spec
-----------------------------------------------------------------------------
\* What the exception registers are given is an address and a kind.
LEMMA RecordType ==
  ASSUME TypeOK, NEW D \in SUBSET Port
  PROVE  Record(D)[1] \in Addr /\ Record(D)[2] \in BOOLEAN
PROOF
  <1>1. ToDummy.addr \in Addr /\ ToDummy.write \in BOOLEAN
    <2>1. AddrMap[53] = "S11_MDUMMY3" /\ 53 \in DOMAIN AddrMap
      BY DEF AddrMap
    <2> QED
      BY <2>1 DEF ToDummy, Addr
  <1>2. CASE D = {}
    BY <1>2 DEF Record, TypeOK
  <1>3. CASE D # {} /\ \E p \in Port : D = {p}
    <2>1. PICK p \in Port : D = {p}
      BY <1>3
    <2>2. Record(D) = <<req[p].addr, req[p].write>>
      BY <2>1 DEF Record
    <2>3. req[p] \in Request
      BY DEF TypeOK
    <2> QED
      BY <2>2, <2>3 DEF Request
  <1>4. CASE D # {} /\ ~ \E p \in Port : D = {p}
    <2>1. Record(D) = <<ToDummy.addr, ToDummy.write>>
      BY <1>4 DEF Record
    <2> QED
      BY <1>1, <2>1
  <1> QED
    BY <1>2, <1>3, <1>4

\* The value the exception register has after reset is an address.
LEMMA ZeroIsAddress == AddrZero \in Addr
PROOF
  <1>1. AddrMap[1] = "S0_BOOTINST" /\ 1 \in DOMAIN AddrMap
    BY DEF AddrMap
  <1> QED
    BY <1>1 DEF AddrZero, Addr

\* Every register keeps its type, whatever is asked of the ports.
THEOREM TypeCorrect == Spec => []TypeOK
PROOF
  <1>1. Init => TypeOK
    BY ZeroIsAddress, BusAssumption DEF Init, TypeOK
  <1>2. TypeOK /\ [Next]_vars => TypeOK'
    <2> SUFFICES ASSUME TypeOK, [Next]_vars
                 PROVE  TypeOK'
      OBVIOUS
    <2>1. CASE Next
      <3>1. resetn' \in BOOLEAN /\ req' \in [Port -> Request] /\ held' \in BOOLEAN
        BY <2>1, BusAssumption DEF Next, Present
      <3>2. readout' \in {"none", "EXP_ADDR", "WRITE_ADDR", "other"}
        BY <2>1, ReadoutAssumption DEF Next, Present
      <3>3. CASE Clock
        <4>1. Denied \in SUBSET Port
          BY DEF Denied
        <4>2. expAddr' \in Addr /\ expWrite' \in BOOLEAN
          BY <3>3, <4>1, RecordType DEF Clock
        <4>3. rdata' \in Addr \cup {"one"}
          BY <3>3, ZeroIsAddress DEF Clock, Answer, TypeOK
        <4>4. resp' \in {"OKAY", "ERROR"}
          BY <3>3 DEF Clock
        <4>5. blamed' \in SUBSET (Port \X Request)
          BY <3>3, <4>1 DEF Clock, TypeOK
        <4> QED
          BY <3>1, <3>2, <4>2, <4>3, <4>4, <4>5 DEF TypeOK
      <3>4. CASE ClockReset
        BY <3>1, <3>2, <3>4, ZeroIsAddress DEF ClockReset, TypeOK
      <3> QED
        BY <2>1, <3>3, <3>4 DEF Next
    <2>2. CASE UNCHANGED vars
      BY <2>2 DEF vars, TypeOK
    <2> QED
      BY <2>1, <2>2
  <1> QED
    BY <1>1, <1>2, PTL DEF Spec
-----------------------------------------------------------------------------
(* What the table says, region by region. *)

Places == 1..53

\* The number of regions of the memory map.
LEMMA MapLength == DOMAIN AddrMap = Places
PROOF BY DEF AddrMap, Places

\* Each place of the memory map has an address of its own.
LEMMA RankOf == \A i \in Places : AddrMap[i] \in Addr /\ Rank[AddrMap[i]] = i
PROOF
  <1>1. \A i \in Places, j \in Places : AddrMap[i] = AddrMap[j] => i = j
    BY DEF AddrMap, Places
  <1> SUFFICES ASSUME NEW i \in Places PROVE AddrMap[i] \in Addr /\ Rank[AddrMap[i]] = i
    OBVIOUS
  <1>2. AddrMap[i] \in Addr
    BY MapLength DEF Addr
  <1>3. \A j \in DOMAIN AddrMap : AddrMap[j] = AddrMap[i] <=> j = i
    BY <1>1, MapLength
  <1>4. (CHOOSE j \in DOMAIN AddrMap : AddrMap[j] = AddrMap[i]) = i
    BY <1>3, MapLength
  <1> QED
    BY <1>2, <1>4 DEF Rank

\* Every address has a place.
LEMMA AddrRank ==
  ASSUME NEW a \in Addr
  PROVE  Rank[a] \in Places /\ AddrMap[Rank[a]] = a
PROOF BY RankOf, MapLength DEF Addr


\* The places of the addresses of MD3 in the memory map.
LEMMA RanksOf3 ==
  /\ Rank["S4_DSRAM"] = 5 /\ Rank["S5_DMEM_DUMMY1"] = 6 /\ Rank["S6_DMA"] = 7 /\ Rank["S7_MDUMMY0"] = 8
  /\ Rank["S8_MBX_GB"] = 9 /\ Rank["S8_MBX_CH0"] = 10 /\ Rank["S8_DUMMY"] = 11
  /\ Rank["S9_MDUMMY2_0"] = 13 /\ Rank["S9_MBX_CH1"] = 14 /\ Rank["S9_IOPMP"] = 15
  /\ Rank["S9_MDUMMY2_1"] = 16 /\ Rank["S0_LS_DUMMY0"] = 17 /\ Rank["S1_LS_DUMMY1"] = 18
  /\ {"S4_DSRAM", "S5_DMEM_DUMMY1", "S6_DMA", "S7_MDUMMY0", "S8_MBX_GB", "S8_MBX_CH0", "S8_DUMMY",
      "S9_MDUMMY2_0", "S9_MBX_CH1", "S9_IOPMP", "S9_MDUMMY2_1", "S0_LS_DUMMY0", "S1_LS_DUMMY1"} \subseteq Addr
PROOF
  <1>1. /\ AddrMap[5] = "S4_DSRAM" /\ AddrMap[6] = "S5_DMEM_DUMMY1" /\ AddrMap[7] = "S6_DMA"
        /\ AddrMap[8] = "S7_MDUMMY0" /\ AddrMap[9] = "S8_MBX_GB" /\ AddrMap[10] = "S8_MBX_CH0"
        /\ AddrMap[11] = "S8_DUMMY" /\ AddrMap[13] = "S9_MDUMMY2_0" /\ AddrMap[14] = "S9_MBX_CH1"
        /\ AddrMap[15] = "S9_IOPMP" /\ AddrMap[16] = "S9_MDUMMY2_1" /\ AddrMap[17] = "S0_LS_DUMMY0"
        /\ AddrMap[18] = "S1_LS_DUMMY1"
    BY DEF AddrMap
  <1>2. {5, 6, 7, 8, 9, 10, 11, 13, 14, 15, 16, 17, 18} \subseteq Places
    BY DEF Places
  <1> QED
    BY <1>1, <1>2, RankOf

Line == [addr : Addr, r : BOOLEAN, w : BOOLEAN]

\* What the entries made for a list of addresses allow.
LEMMA LinesAre ==
  ASSUME NEW s \in Seq(Addr)
  PROVE  /\ Open(s) \in Seq(Line) /\ Len(Open(s)) = Len(s)
         /\ \A i \in 1..Len(s) : Open(s)[i].addr = s[i] /\ Open(s)[i].r /\ Open(s)[i].w
         /\ ReadOnly(s) \in Seq(Line) /\ Len(ReadOnly(s)) = Len(s)
         /\ \A i \in 1..Len(s) : ReadOnly(s)[i].addr = s[i] /\ ReadOnly(s)[i].r /\ ~ReadOnly(s)[i].w
PROOF
  <1>1. \A i \in 1..Len(s) : s[i] \in Addr
    OBVIOUS
  <1>2. DOMAIN s = 1..Len(s) /\ Len(s) \in Nat
    OBVIOUS
  <1>3. Open(s) \in [1..Len(s) -> Line] /\ ReadOnly(s) \in [1..Len(s) -> Line]
    BY <1>1, <1>2 DEF Open, ReadOnly, Line
  <1>4. Open(s) \in Seq(Line) /\ ReadOnly(s) \in Seq(Line) /\ Len(Open(s)) = Len(s) /\ Len(ReadOnly(s)) = Len(s)
    BY <1>2, <1>3
  <1>5. \A i \in 1..Len(s) : Open(s)[i].addr = s[i] /\ Open(s)[i].r /\ Open(s)[i].w
    BY <1>2 DEF Open
  <1>6. \A i \in 1..Len(s) : ReadOnly(s)[i].addr = s[i] /\ ReadOnly(s)[i].r /\ ~ReadOnly(s)[i].w
    BY <1>2 DEF ReadOnly
  <1> QED
    BY <1>4, <1>5, <1>6

\* The entries of MD3: their regions in order, and what they allow.
LEMMA Table3 ==
  /\ DOMAIN Table[3] = 1..13 /\ Len(Table[3]) = 13
  /\ \A i \in 1..7 : Rank[Table[3][i].addr] = i + 4
  /\ \A i \in 8..13 : Rank[Table[3][i].addr] = i + 5
  /\ \A i \in 1..13 : Table[3][i].r /\ (Table[3][i].w <=> i \notin {5, 6, 10})
PROOF
  <1> DEFINE sa == <<"S4_DSRAM", "S5_DMEM_DUMMY1", "S6_DMA", "S7_MDUMMY0">>
             sb == <<"S8_MBX_GB", "S8_MBX_CH0">>
             sc == <<"S8_DUMMY", "S9_MDUMMY2_0", "S9_MBX_CH1">>
             sd == <<"S9_IOPMP">>
             se == <<"S9_MDUMMY2_1", "S0_LS_DUMMY0", "S1_LS_DUMMY1">>
             a == Open(sa)
             b == ReadOnly(sb)
             c == Open(sc)
             d == ReadOnly(sd)
             e == Open(se)
  <1>1. Table[3] = a \o b \o c \o d \o e
    BY DEF Table, MD
  <1>2. /\ sa \in Seq(Addr) /\ Len(sa) = 4 
        /\ sb \in Seq(Addr) /\ Len(sb) = 2 
        /\ sc \in Seq(Addr) /\ Len(sc) = 3 
        /\ sd \in Seq(Addr) /\ Len(sd) = 1
        /\ se \in Seq(Addr) /\ Len(se) = 3
    BY RanksOf3
  <1>3. /\ Rank[sa[1]] = 5 /\ Rank[sa[2]] = 6 /\ Rank[sa[3]] = 7 /\ Rank[sa[4]] = 8
        /\ Rank[sb[1]] = 9 /\ Rank[sb[2]] = 10
        /\ Rank[sc[1]] = 11 /\ Rank[sc[2]] = 13 /\ Rank[sc[3]] = 14
        /\ Rank[sd[1]] = 15
        /\ Rank[se[1]] = 16 /\ Rank[se[2]] = 17 /\ Rank[se[3]] = 18
    BY RanksOf3
  <1> HIDE DEF sa, sb, sc, sd, se
  <1>4. /\ a \in Seq(Line) /\ Len(a) = 4
        /\ b \in Seq(Line) /\ Len(b) = 2
        /\ c \in Seq(Line) /\ Len(c) = 3
        /\ d \in Seq(Line) /\ Len(d) = 1
        /\ e \in Seq(Line) /\ Len(e) = 3
    BY <1>2, LinesAre
  <1>5. /\ \A i \in 1..4 : Rank[a[i].addr] = Rank[sa[i]] /\ a[i].r /\ a[i].w
        /\ \A i \in 1..2 : Rank[b[i].addr] = Rank[sb[i]] /\ b[i].r /\ ~b[i].w
        /\ \A i \in 1..3 : Rank[c[i].addr] = Rank[sc[i]] /\ c[i].r /\ c[i].w
        /\ \A i \in 1..1 : Rank[d[i].addr] = Rank[sd[i]] /\ d[i].r /\ ~d[i].w
        /\ \A i \in 1..3 : Rank[e[i].addr] = Rank[se[i]] /\ e[i].r /\ e[i].w
    <2>1. \A i \in 1..Len(sa) : a[i].addr = sa[i] /\ a[i].r /\ a[i].w
      BY <1>2, LinesAre
    <2>2. \A i \in 1..Len(sb) : b[i].addr = sb[i] /\ b[i].r /\ ~b[i].w
      BY <1>2, LinesAre
    <2>3. \A i \in 1..Len(sc) : c[i].addr = sc[i] /\ c[i].r /\ c[i].w
      BY <1>2, LinesAre
    <2>4. \A i \in 1..Len(sd) : d[i].addr = sd[i] /\ d[i].r /\ ~d[i].w
      BY <1>2, LinesAre
    <2>5. \A i \in 1..Len(se) : e[i].addr = se[i] /\ e[i].r /\ e[i].w
      BY <1>2, LinesAre
    <2> HIDE DEF a, b, c, d, e
    <2> QED
      BY <1>2, <2>1, <2>2, <2>3, <2>4, <2>5
  <1> HIDE DEF a, b, c, d, e
  <1> DEFINE ab == a \o b
             abc == ab \o c
             abcd == abc \o d
             abcde == abcd \o e
  <1>6. /\ ab \in Seq(Line) /\ Len(ab) = 6
        /\ \A i \in 1..6 : ab[i] = IF i <= 4 THEN a[i] ELSE b[i - 4]
    <2>1. ab \in Seq(Line)
      BY <1>4, ConcatProperties
    <2>2. Len(ab) = Len(a) + Len(b)
      BY <1>4, ConcatProperties
    <2>3. \A i \in 1..Len(a) + Len(b) : ab[i] = IF i <= Len(a) THEN a[i] ELSE b[i - Len(a)]
      BY <1>4, ConcatProperties
    <2> HIDE DEF ab
    <2> QED
      BY <1>4, <2>1, <2>2, <2>3
  <1> HIDE DEF ab
  <1>7. /\ abc \in Seq(Line) /\ Len(abc) = 9
        /\ \A i \in 1..9 : abc[i] = IF i <= 6 THEN ab[i] ELSE c[i - 6]
    <2>1. abc \in Seq(Line)
      BY <1>4, <1>6, ConcatProperties
    <2>2. Len(abc) = Len(ab) + Len(c)
      BY <1>4, <1>6, ConcatProperties
    <2>3. \A i \in 1..Len(ab) + Len(c) : abc[i] = IF i <= Len(ab) THEN ab[i] ELSE c[i - Len(ab)]
      BY <1>4, <1>6, ConcatProperties
    <2> HIDE DEF abc
    <2> QED
      BY <1>4, <1>6, <2>1, <2>2, <2>3
  <1> HIDE DEF abc
  <1>8. /\ abcd \in Seq(Line) /\ Len(abcd) = 10
        /\ \A i \in 1..10 : abcd[i] = IF i <= 9 THEN abc[i] ELSE d[i - 9]
    <2>1. abcd \in Seq(Line)
      BY <1>4, <1>7, ConcatProperties
    <2>2. Len(abcd) = Len(abc) + Len(d)
      BY <1>4, <1>7, ConcatProperties
    <2>3. \A i \in 1..Len(abc) + Len(d) : abcd[i] = IF i <= Len(abc) THEN abc[i] ELSE d[i - Len(abc)]
      BY <1>4, <1>7, ConcatProperties
    <2> HIDE DEF abcd
    <2> QED
      BY <1>4, <1>7, <2>1, <2>2, <2>3
  <1> HIDE DEF abcd
  <1>9. /\ abcde \in Seq(Line) /\ Len(abcde) = 13
        /\ \A i \in 1..13 : abcde[i] = IF i <= 10 THEN abcd[i] ELSE e[i - 10]
    <2>1. abcde \in Seq(Line)
      BY <1>4, <1>8, ConcatProperties
    <2>2. Len(abcde) = Len(abcd) + Len(e)
      BY <1>4, <1>8, ConcatProperties
    <2>3. \A i \in 1..Len(abcd) + Len(e) : abcde[i] = IF i <= Len(abcd) THEN abcd[i] ELSE e[i - Len(abcd)]
      BY <1>4, <1>8, ConcatProperties
    <2> HIDE DEF abcde
    <2> QED
      BY <1>4, <1>8, <2>1, <2>2, <2>3
  <1> HIDE DEF abcde
  <1>10. Table[3] = abcde
    BY <1>1 DEF ab, abc, abcd, abcde
  <1>11. DOMAIN Table[3] = 1..13 /\ Len(Table[3]) = 13
    BY <1>9, <1>10
  <1>12. /\ \A i \in 1..4 : abcde[i] = a[i]
         /\ \A i \in 5..6 : abcde[i] = b[i - 4]
         /\ \A i \in 7..9 : abcde[i] = c[i - 6]
         /\ abcde[10] = d[1]
         /\ \A i \in 11..13 : abcde[i] = e[i - 10]
    BY <1>6, <1>7, <1>8, <1>9
  <1>13. \A i \in 1..13 : abcde[i].r /\ (abcde[i].w <=> i \notin {5, 6, 10})
    BY <1>5, <1>12
  <1>14. \A i \in 1..7 : Rank[abcde[i].addr] = i + 4
    BY <1>3, <1>5, <1>12
  <1>15. \A i \in 8..13 : Rank[abcde[i].addr] = i + 5
    BY <1>3, <1>5, <1>12
  <1> QED
    BY <1>10, <1>11, <1>13, <1>14, <1>15

\* The entries of the other domains that anyone may enter.
LEMMA Table5 ==
  /\ DOMAIN Table[5] = 1..16 /\ Len(Table[5]) = 16
  /\ \A i \in 1..4 : Rank[Table[5][i].addr] = i + 34
  /\ Rank[Table[5][5].addr] = 48 /\ Rank[Table[5][6].addr] = 44
  /\ \A i \in 7..11 : Rank[Table[5][i].addr] = i + 32
  /\ \A i \in 12..14 : Rank[Table[5][i].addr] = i + 33
  /\ \A i \in 15..16 : Rank[Table[5][i].addr] = i + 34
  /\ \A i \in 1..16 : Table[5][i].r /\ Table[5][i].w
PROOF
  <1> DEFINE s == <<"P0_TIMER1", "P1_TIMER3", "P2_TIMER5", "P3_TIMER7", "P4_USI1", "P5_GPIO",
                    "P6_RTC", "P7_APB1_DUMMY1", "P8_APB1_DUMMY2", "P9_APB1_DUMMY3",
                    "P10_APB1_DUMMY4", "P11_APB1_DUMMY5", "P12_APB1_DUMMY6",
                    "P13_APB1_DUMMY7", "P14_APB1_DUMMY8", "P15_PMU">>
  <1>1. Table[5] = Open(s)
    BY DEF Table, MD
  <1>2. /\ AddrMap[35] = s[1] /\ AddrMap[36] = s[2] /\ AddrMap[37] = s[3] /\ AddrMap[38] = s[4]
        /\ AddrMap[48] = s[5] /\ AddrMap[44] = s[6] /\ AddrMap[39] = s[7] /\ AddrMap[40] = s[8]
        /\ AddrMap[41] = s[9] /\ AddrMap[42] = s[10] /\ AddrMap[43] = s[11] /\ AddrMap[45] = s[12]
        /\ AddrMap[46] = s[13] /\ AddrMap[47] = s[14] /\ AddrMap[49] = s[15] /\ AddrMap[50] = s[16]
    BY DEF AddrMap
  <1>3. 35..50 \subseteq Places
    BY DEF Places
  <1>4. /\ \A i \in 1..16 : s[i] \in Addr
        /\ \A i \in 1..4 : Rank[s[i]] = i + 34
        /\ Rank[s[5]] = 48 /\ Rank[s[6]] = 44
        /\ \A i \in 7..11 : Rank[s[i]] = i + 32
        /\ \A i \in 12..14 : Rank[s[i]] = i + 33
        /\ \A i \in 15..16 : Rank[s[i]] = i + 34
    <2> HIDE DEF s
    <2> QED
      BY <1>2, <1>3, RankOf
  <1>5. Len(s) = 16 /\ DOMAIN s = 1..16
    OBVIOUS
  <1>6. /\ s[1] \in Addr /\ s[2] \in Addr /\ s[3] \in Addr /\ s[4] \in Addr
        /\ s[5] \in Addr /\ s[6] \in Addr /\ s[7] \in Addr /\ s[8] \in Addr
        /\ s[9] \in Addr /\ s[10] \in Addr /\ s[11] \in Addr /\ s[12] \in Addr
        /\ s[13] \in Addr /\ s[14] \in Addr /\ s[15] \in Addr /\ s[16] \in Addr
    <2> HIDE DEF s
    <2> QED
      BY <1>4
  <1>7. s \in Seq(Addr)
    BY <1>6
  <1> HIDE DEF s
  <1>8. /\ Open(s) \in Seq(Line) /\ Len(Open(s)) = Len(s)
        /\ \A i \in 1..Len(s) : Open(s)[i].addr = s[i] /\ Open(s)[i].r /\ Open(s)[i].w
    BY <1>7, LinesAre
  <1>9. /\ Len(Open(s)) = 16 /\ DOMAIN Open(s) = 1..16
        /\ \A i \in 1..16 : Open(s)[i].addr = s[i] /\ Open(s)[i].r /\ Open(s)[i].w
    BY <1>5, <1>8
  <1> QED
    BY <1>1, <1>4, <1>9

\* The entries of MD1: their regions in order, and what they allow.
LEMMA Table1 ==
  /\ DOMAIN Table[1] = {1} /\ Len(Table[1]) = 1
  /\ Rank[Table[1][1].addr] = 3 /\ Table[1][1].r /\ ~Table[1][1].w
PROOF
  <1> DEFINE s == <<"S2_DSRAM">>
  <1>1. Table[1] = ReadOnly(s)
    BY DEF Table, MD
  <1>2. AddrMap[3] = s[1] /\ 3 \in Places
    BY DEF AddrMap, Places
  <1>3. s[1] \in Addr /\ Rank[s[1]] = 3
    <2> HIDE DEF s
    <2> QED
      BY <1>2, RankOf
  <1>4. s \in Seq(Addr) /\ Len(s) = 1
    BY <1>3
  <1> HIDE DEF s
  <1>5. /\ ReadOnly(s) \in Seq(Line) /\ Len(ReadOnly(s)) = Len(s)
        /\ \A i \in 1..Len(s) : ReadOnly(s)[i].addr = s[i] /\ ReadOnly(s)[i].r /\ ~ReadOnly(s)[i].w
    BY <1>4, LinesAre
  <1> QED
    BY <1>1, <1>3, <1>4, <1>5

\* The entries of MD6: their regions in order, and what they allow.
LEMMA Table6 ==
  /\ DOMAIN Table[6] = 1..3 /\ Len(Table[6]) = 3
  /\ \A i \in 1..2 : Rank[Table[6][i].addr] = i + 50
  /\ Rank[Table[6][3].addr] = 53
  /\ \A i \in 1..3 : Table[6][i].r /\ Table[6][i].w
PROOF
  <1> DEFINE s == <<"S4_LS_DUMMY2", "S5_LS_DUMMY3", "S11_MDUMMY3">>
  <1>1. Table[6] = Open(s)
    BY DEF Table, MD
  <1>2. AddrMap[51] = s[1] /\ AddrMap[52] = s[2] /\ AddrMap[53] = s[3] /\ 51..53 \subseteq Places
    BY DEF AddrMap, Places
  <1>3. /\ s[1] \in Addr /\ s[2] \in Addr /\ s[3] \in Addr
        /\ Rank[s[1]] = 51 /\ Rank[s[2]] = 52 /\ Rank[s[3]] = 53
    <2> HIDE DEF s
    <2> QED
      BY <1>2, RankOf
  <1>4. s \in Seq(Addr) /\ Len(s) = 3
    BY <1>3
  <1> HIDE DEF s
  <1>5. /\ Open(s) \in Seq(Line) /\ Len(Open(s)) = Len(s)
        /\ \A i \in 1..Len(s) : Open(s)[i].addr = s[i] /\ Open(s)[i].r /\ Open(s)[i].w
    BY <1>4, LinesAre
  <1>6. /\ DOMAIN Open(s) = 1..3
        /\ \A i \in 1..3 : Open(s)[i].addr = s[i] /\ Open(s)[i].r /\ Open(s)[i].w
    BY <1>4, <1>5
  <1> QED
    BY <1>1, <1>3, <1>4, <1>5, <1>6

\* The domain of an address is told by its place in the memory map.
LEMMA DomainOf ==
  ASSUME NEW a \in Addr
  PROVE  /\ Sel[a] \in MD
         /\ Sel[a] = 1 => Rank[a] = 3
         /\ Sel[a] = 3 => Rank[a] \in 5..18
         /\ Sel[a] = 5 => Rank[a] \in 35..50
         /\ Sel[a] = 6 => Rank[a] \in 51..53
         /\ Rank[a] = 3 => Sel[a] = 1
         /\ Rank[a] \in 5..18 => Sel[a] = 3
         /\ Rank[a] \in 35..50 => Sel[a] = 5
         /\ Rank[a] \in 51..53 => Sel[a] = 6
PROOF
  <1> DEFINE In(m) == /\ Rank[a] >= Rank[MDBase[m]]
                      /\ m = 6 \/ Rank[a] < Rank[MDBase[m + 1]]
             r == Rank[a]
  <1>1. /\ AddrMap[1] = "S0_BOOTINST" /\ AddrMap[3] = "S2_DSRAM" /\ AddrMap[4] = "S3_DSRAM"
        /\ AddrMap[5] = "S4_DSRAM" /\ AddrMap[19] = "P0_TIMER0" /\ AddrMap[35] = "P0_TIMER1"
        /\ AddrMap[51] = "S4_LS_DUMMY2"
    BY DEF AddrMap
  <1>2. {1, 3, 4, 5, 19, 35, 51} \subseteq Places
    BY DEF Places
  <1>3. /\ Rank["S0_BOOTINST"] = 1 /\ Rank["S2_DSRAM"] = 3 /\ Rank["S3_DSRAM"] = 4
        /\ Rank["S4_DSRAM"] = 5 /\ Rank["P0_TIMER0"] = 19 /\ Rank["P0_TIMER1"] = 35
        /\ Rank["S4_LS_DUMMY2"] = 51
    BY <1>1, <1>2, RankOf
  <1>4. /\ MDBase[0] = "S0_BOOTINST" /\ MDBase[1] = "S2_DSRAM" /\ MDBase[2] = "S3_DSRAM"
        /\ MDBase[3] = "S4_DSRAM" /\ MDBase[4] = "P0_TIMER0" /\ MDBase[5] = "P0_TIMER1"
        /\ MDBase[6] = "S4_LS_DUMMY2"
    BY DEF MDBase, MD
  <1>5. /\ Rank[MDBase[0]] = 1 /\ Rank[MDBase[1]] = 3 /\ Rank[MDBase[2]] = 4 /\ Rank[MDBase[3]] = 5
        /\ Rank[MDBase[4]] = 19 /\ Rank[MDBase[5]] = 35 /\ Rank[MDBase[6]] = 51
    BY <1>3, <1>4
  <1>6. r \in 1..53
    BY AddrRank DEF Places
  <1>7. Sel[a] = CHOOSE m \in MD : In(m)
    BY DEF Sel
  <1> HIDE DEF r
  <1>8. /\ In(0) <=> r < 3
        /\ In(1) <=> r = 3
        /\ In(2) <=> r = 4
        /\ In(3) <=> r \in 5..18
        /\ In(4) <=> r \in 19..34
        /\ In(5) <=> r \in 35..50
        /\ In(6) <=> r \in 51..53
    BY <1>5, <1>6 DEF r
  <1>9. \E m \in MD : In(m)
    BY <1>6, <1>8 DEF MD
  <1> HIDE DEF In
  <1>10. Sel[a] \in MD /\ In(Sel[a])
    BY <1>7, <1>9
  <1>11. Sel[a] \in {0, 1, 2, 3, 4, 5, 6}
    BY <1>10 DEF MD
  <1> QED
    BY <1>8, <1>10, <1>11 DEF r

\* The entries of a domain that cover an address of it.
Cover(m, a) == {i \in DOMAIN Table[m] : Covers(m, i, a)}

\* The entry the table means: it begins at or below the address, and no other
\* one begins between the two.
LEMMA EntryIs ==
  ASSUME NEW m \in MD, NEW a \in Addr, NEW k \in DOMAIN Table[m],
         Rank[Table[m][k].addr] <= Rank[a],
         \A j \in DOMAIN Table[m] :
           Rank[Table[m][j].addr] <= Rank[a] => Rank[Table[m][j].addr] <= Rank[Table[m][k].addr]
  PROVE  /\ EntryOf(m, a) \in DOMAIN Table[m]
         /\ Rank[Table[m][EntryOf(m, a)].addr] <= Rank[a]
         /\ Rank[Table[m][k].addr] <= Rank[Table[m][EntryOf(m, a)].addr]
PROOF
  <1>1. k \in Below(m, a) /\ \A j \in Below(m, a) : Rank[Table[m][j].addr] <= Rank[Table[m][k].addr]
    BY SMTT(60) DEF Below
  <1>2. /\ EntryOf(m, a) \in Below(m, a)
        /\ \A j \in Below(m, a) : Rank[Table[m][j].addr] <= Rank[Table[m][EntryOf(m, a)].addr]
    BY <1>1 DEF EntryOf
  <1> QED
    BY <1>1, <1>2 DEF Below

\* What an entry that is not the last of its domain covers.
LEMMA CoversInner ==
  ASSUME NEW m, NEW a, NEW n \in Nat, Len(Table[m]) = n, NEW i \in Int, i < n
  PROVE  Covers(m, i, a) <=> /\ Rank[a] >= Rank[Table[m][i].addr]
                             /\ Rank[a] < Rank[Table[m][i + 1].addr]
PROOF
  <1> DEFINE P == Rank[a] < Rank[Table[m][i + 1].addr]
             Q == m = 6 => Rank[a] < Rank[AddrZero]
  <1>1. Covers(m, i, a) <=> /\ Rank[a] >= Rank[Table[m][i].addr]
                            /\ CASE i < n -> P [] i = n -> Q
    BY DEF Covers
  <1>2. P \in BOOLEAN
    OBVIOUS
  <1> HIDE DEF P, Q
  <1>3. (CASE i < n -> P [] i = n -> Q) = P
    OBVIOUS
  <1> QED
    BY <1>1, <1>3 DEF P

\* What the last entry of a domain covers.
LEMMA CoversLast ==
  ASSUME NEW m, NEW a, NEW n \in Nat, Len(Table[m]) = n, m # 6
  PROVE  Covers(m, n, a) <=> Rank[a] >= Rank[Table[m][n].addr]
PROOF
  <1> DEFINE P == Rank[a] < Rank[Table[m][n + 1].addr]
             Q == m = 6 => Rank[a] < Rank[AddrZero]
  <1>1. Covers(m, n, a) <=> /\ Rank[a] >= Rank[Table[m][n].addr]
                            /\ CASE n < n -> P [] n = n -> Q
    BY DEF Covers
  <1>2. Q \in BOOLEAN
    OBVIOUS
  <1> HIDE DEF P, Q
  <1>3. (CASE n < n -> P [] n = n -> Q) = Q
    OBVIOUS
  <1> QED
    BY <1>1, <1>3 DEF Q

\* MD3 is sorted: one entry covers each address, and it is the one meant.
LEMMA Covered3 ==
  ASSUME NEW a \in Addr, Sel[a] = 3
  PROVE  /\ Cover(3, a) = {EntryOf(3, a)} /\ EntryOf(3, a) \in 1..13
         /\ EntryOf(3, a) = 11 <=> Rank[a] = 16
PROOF
  <1> DEFINE r == Rank[a]
             k == IF r <= 11 THEN r - 4 ELSE IF r = 12 THEN 7 ELSE r - 5
             R(i) == Rank[Table[3][i].addr]
  <1>1. r \in 5..18
    BY DomainOf
  <1>2. /\ \A i \in 1..7 : R(i) = i + 4
        /\ \A i \in 8..13 : R(i) = i + 5
    BY Table3
  <1> HIDE DEF r, R
  <1>3. k \in 1..13 /\ R(k) <= r
    BY <1>1, <1>2
  <1>4. \A j \in 1..13 : R(j) <= r => j <= k /\ R(j) <= R(k)
    BY <1>1, <1>2
  <1>5. \A j \in 1..13 : R(k) <= R(j) /\ R(j) <= r => j = k
    BY <1>1, <1>2
  <1> HIDE DEF k
  <1>6. EntryOf(3, a) \in 1..13 /\ R(EntryOf(3, a)) <= r /\ R(k) <= R(EntryOf(3, a))
    <2>1. 3 \in MD /\ DOMAIN Table[3] = 1..13
      BY Table3 DEF MD
    <2>2. Rank[Table[3][k].addr] <= Rank[a]
      BY <1>3 DEF r, R
    <2>3. \A j \in 1..13 : Rank[Table[3][j].addr] <= Rank[a] => Rank[Table[3][j].addr] <= Rank[Table[3][k].addr]
      BY <1>4 DEF r, R
    <2>4. /\ EntryOf(3, a) \in DOMAIN Table[3]
          /\ Rank[Table[3][EntryOf(3, a)].addr] <= Rank[a]
          /\ Rank[Table[3][k].addr] <= Rank[Table[3][EntryOf(3, a)].addr]
      BY <1>3, <2>1, <2>2, <2>3, EntryIs
    <2> QED
      BY <2>1, <2>4 DEF r, R
  <1>7. EntryOf(3, a) = k
    BY <1>5, <1>6
  <1>8. \A i \in 1..12 : Covers(3, i, a) <=> R(i) <= r /\ r < R(i + 1)
    <2>1. Len(Table[3]) = 13
      BY Table3
    <2>2. r \in Int /\ \A i \in 1..13 : R(i) \in Int
      BY <1>1, <1>2
    <2> SUFFICES ASSUME NEW i \in 1..12
                 PROVE  Covers(3, i, a) <=> R(i) <= r /\ r < R(i + 1)
      OBVIOUS
    <2>5. 13 \in Nat /\ i \in Int /\ i < 13
      OBVIOUS
    <2>3. Covers(3, i, a) <=> Rank[a] >= Rank[Table[3][i].addr] /\ Rank[a] < Rank[Table[3][i + 1].addr]
      BY <2>1, <2>5, CoversInner
    <2>4. i \in 1..13 /\ i + 1 \in 1..13
      OBVIOUS
    <2> QED
      BY <2>2, <2>3, <2>4 DEF r, R
  <1>9. Covers(3, 13, a) <=> R(13) <= r
    <2>1. Len(Table[3]) = 13
      BY Table3
    <2>2. r \in Int /\ R(13) \in Int
      BY <1>1, <1>2
    <2>4. 13 \in Nat /\ 3 # 6
      OBVIOUS
    <2>3. Covers(3, 13, a) <=> Rank[a] >= Rank[Table[3][13].addr]
      BY <2>1, <2>4, CoversLast
    <2> QED
      BY <2>2, <2>3 DEF r, R
  <1>10. \A i \in 1..13 : Covers(3, i, a) <=> i = k
    BY <1>1, <1>2, <1>8, <1>9 DEF k
  <1>11. Cover(3, a) = {k}
    BY <1>3, <1>10, Table3 DEF Cover
  <1> QED
    BY <1>1, <1>6, <1>7, <1>11 DEF k, r

\* MD5 is not sorted, but open as a whole: an entry covers each address, and it
\* need not be the eleventh.
LEMMA Covered5 ==
  ASSUME NEW a \in Addr, Sel[a] = 5
  PROVE  /\ Cover(5, a) \subseteq 1..16 /\ \E i \in Cover(5, a) : i # 11
         /\ 11 \in Cover(5, a) => Rank[a] \in {43, 44}
         /\ EntryOf(5, a) \in 1..16
PROOF
  <1> DEFINE r == Rank[a]
             R(i) == Rank[Table[5][i].addr]
             k == IF r <= 38 THEN r - 34 ELSE IF r = 48 THEN 5 ELSE IF r = 44 THEN 6
                  ELSE IF r <= 43 THEN r - 32 ELSE IF r <= 47 THEN r - 33 ELSE r - 34
             c == IF r <= 38 THEN r - 34 ELSE IF r <= 47 THEN 4 ELSE IF r = 48 THEN 14 ELSE r - 34
  <1>1. r \in 35..50
    BY DomainOf
  <1>2. /\ \A i \in 1..4 : R(i) = i + 34
        /\ R(5) = 48 /\ R(6) = 44
        /\ \A i \in 7..11 : R(i) = i + 32
        /\ \A i \in 12..14 : R(i) = i + 33
        /\ \A i \in 15..16 : R(i) = i + 34
    BY Table5
  <1> HIDE DEF r, R
  <1>3. k \in 1..16 /\ R(k) = r
    BY <1>1, <1>2
  <1> HIDE DEF k
  <1>4. EntryOf(5, a) \in 1..16
    <2>1. 5 \in MD /\ DOMAIN Table[5] = 1..16
      BY Table5 DEF MD
    <2>2. Rank[Table[5][k].addr] = Rank[a] /\ Rank[a] \in Int
      BY <1>1, <1>3 DEF r, R
    <2>3. \A j \in 1..16 : Rank[Table[5][j].addr] <= Rank[a] => Rank[Table[5][j].addr] <= Rank[Table[5][k].addr]
      BY <2>2
    <2>4. Rank[Table[5][k].addr] <= Rank[a]
      BY <2>2
    <2> QED
      BY <1>3, <2>1, <2>3, <2>4, EntryIs
  <1>5. \A i \in 1..15 : Covers(5, i, a) <=> R(i) <= r /\ r < R(i + 1)
    <2>1. Len(Table[5]) = 16
      BY Table5
    <2>2. r \in Int /\ \A i \in 1..16 : R(i) \in Int
      BY <1>1, <1>2
    <2> SUFFICES ASSUME NEW i \in 1..15
                 PROVE  Covers(5, i, a) <=> R(i) <= r /\ r < R(i + 1)
      OBVIOUS
    <2>5. 16 \in Nat /\ i \in Int /\ i < 16
      OBVIOUS
    <2>3. Covers(5, i, a) <=> Rank[a] >= Rank[Table[5][i].addr] /\ Rank[a] < Rank[Table[5][i + 1].addr]
      BY <2>1, <2>5, CoversInner
    <2>4. i \in 1..16 /\ i + 1 \in 1..16
      OBVIOUS
    <2> QED
      BY <2>2, <2>3, <2>4 DEF r, R
  <1>6. Covers(5, 16, a) <=> R(16) <= r
    <2>1. Len(Table[5]) = 16
      BY Table5
    <2>2. r \in Int /\ R(16) \in Int
      BY <1>1, <1>2
    <2>4. 16 \in Nat /\ 5 # 6
      OBVIOUS
    <2>3. Covers(5, 16, a) <=> Rank[a] >= Rank[Table[5][16].addr]
      BY <2>1, <2>4, CoversLast
    <2> QED
      BY <2>2, <2>3 DEF r, R
  <1>7. c \in 1..16 /\ c # 11 /\ Covers(5, c, a)
    BY <1>1, <1>2, <1>5, <1>6
  <1>8. Covers(5, 11, a) => r \in {43, 44}
    BY <1>1, <1>2, <1>5
  <1> QED
    BY <1>4, <1>7, <1>8, Table5 DEF Cover, r

\* MD6 but for its last region, whose end is an entry that is zero.
LEMMA Covered6 ==
  ASSUME NEW a \in Addr, Sel[a] = 6, a # "S11_MDUMMY3"
  PROVE  /\ Cover(6, a) \subseteq 1..3 /\ Cover(6, a) # {}
         /\ EntryOf(6, a) \in 1..3
PROOF
  <1> DEFINE r == Rank[a]
             R(i) == Rank[Table[6][i].addr]
             k == r - 50
  <1>1. r \in 51..52
    <2>1. r \in 51..53 /\ AddrMap[r] = a
      BY DomainOf, AddrRank
    <2>2. AddrMap[53] = "S11_MDUMMY3"
      BY DEF AddrMap
    <2> HIDE DEF r
    <2> QED
      BY <2>1, <2>2
  <1>2. R(1) = 51 /\ R(2) = 52 /\ R(3) = 53
    BY Table6
  <1> HIDE DEF r, R
  <1>3. k \in 1..2 /\ R(k) = r
    BY <1>1, <1>2
  <1> HIDE DEF k
  <1>4. EntryOf(6, a) \in 1..3
    <2>1. 6 \in MD /\ DOMAIN Table[6] = 1..3
      BY Table6 DEF MD
    <2>2. Rank[Table[6][k].addr] = Rank[a] /\ Rank[a] \in Int
      BY <1>1, <1>3 DEF r, R
    <2>3. \A j \in 1..3 : Rank[Table[6][j].addr] <= Rank[a] => Rank[Table[6][j].addr] <= Rank[Table[6][k].addr]
      BY <2>2
    <2>4. Rank[Table[6][k].addr] <= Rank[a]
      BY <2>2
    <2> QED
      BY <1>3, <2>1, <2>2, <2>3, <2>4, EntryIs
  <1>5. Covers(6, k, a)
    <2>1. Len(Table[6]) = 3
      BY Table6
    <2>4. 3 \in Nat /\ k \in Int /\ k < 3
      BY <1>3
    <2>2. Covers(6, k, a) <=> Rank[a] >= Rank[Table[6][k].addr] /\ Rank[a] < Rank[Table[6][k + 1].addr]
      BY <2>1, <2>4, CoversInner
    <2>3. R(k + 1) = r + 1 /\ R(k) = r /\ r \in Int
      BY <1>1, <1>2, <1>3 DEF k
    <2> QED
      BY <2>2, <2>3 DEF r, R
  <1> QED
    BY <1>3, <1>4, <1>5, Table6 DEF Cover

\* MD1 has one entry without an end.
LEMMA Covered1 ==
  ASSUME NEW a \in Addr, Sel[a] = 1
  PROVE  Cover(1, a) = {1} /\ EntryOf(1, a) = 1
PROOF
  <1>1. Rank[a] = 3
    BY DomainOf
  <1>2. Covers(1, 1, a)
    BY <1>1, Table1 DEF Covers
  <1>3. EntryOf(1, a) = 1
    <2>1. 1 \in MD /\ 1 \in DOMAIN Table[1] /\ DOMAIN Table[1] = {1}
      BY Table1 DEF MD
    <2>2. Rank[Table[1][1].addr] <= Rank[a]
      BY <1>1, Table1
    <2>3. \A j \in {1} : Rank[Table[1][j].addr] <= Rank[a] => Rank[Table[1][j].addr] <= Rank[Table[1][1].addr]
      BY Table1
    <2>4. EntryOf(1, a) \in DOMAIN Table[1]
      BY <2>1, <2>2, <2>3, EntryIs
    <2> QED
      BY <2>1, <2>4
  <1> QED
    BY <1>2, <1>3, Table1 DEF Cover
-----------------------------------------------------------------------------
\* The last region of MD6: its end is an entry that is zero, so nothing covers it.
LEMMA NoneCovers ==
  /\ "S11_MDUMMY3" \in Addr /\ Sel["S11_MDUMMY3"] = 6
  /\ Cover(6, "S11_MDUMMY3") = {} /\ EntryOf(6, "S11_MDUMMY3") \in 1..3
PROOF
  <1> DEFINE a == "S11_MDUMMY3"
             R(i) == Rank[Table[6][i].addr]
  <1>1. AddrMap[53] = a /\ AddrMap[1] = AddrZero
    BY DEF AddrMap, AddrZero
  <1>2. 53 \in Places /\ 1 \in Places
    BY DEF Places
  <1> HIDE DEF a
  <1>3. a \in Addr /\ Rank[a] = 53 /\ Rank[AddrZero] = 1
    BY <1>1, <1>2, RankOf
  <1>4. Sel[a] = 6
    BY <1>3, DomainOf
  <1>5. R(1) = 51 /\ R(2) = 52 /\ R(3) = 53
    BY Table6
  <1>6. DOMAIN Table[6] = 1..3 /\ Len(Table[6]) = 3 /\ 6 \in MD
    BY Table6 DEF MD
  <1>7. EntryOf(6, a) \in 1..3
    <2>1. Rank[Table[6][3].addr] <= Rank[a]
      BY <1>3, <1>5
    <2>2. \A j \in 1..3 : Rank[Table[6][j].addr] <= Rank[a] => Rank[Table[6][j].addr] <= Rank[Table[6][3].addr]
      BY <1>3, <1>5
    <2>3. 3 \in DOMAIN Table[6]
      BY <1>6
    <2> QED
      BY <1>3, <1>6, <2>1, <2>2, <2>3, EntryIs
  <1>8. ~Covers(6, 1, a) /\ ~Covers(6, 2, a)
    <2>1. 3 \in Nat /\ 1 \in Int /\ 2 \in Int /\ 1 < 3 /\ 2 < 3 /\ 1 + 1 = 2 /\ 2 + 1 = 3
      OBVIOUS
    <2>2. Covers(6, 1, a) <=> Rank[a] >= Rank[Table[6][1].addr] /\ Rank[a] < Rank[Table[6][1 + 1].addr]
      BY <1>6, <2>1, CoversInner
    <2>3. Covers(6, 2, a) <=> Rank[a] >= Rank[Table[6][2].addr] /\ Rank[a] < Rank[Table[6][2 + 1].addr]
      BY <1>6, <2>1, CoversInner
    <2> QED
      BY <1>3, <1>5, <2>1, <2>2, <2>3
  <1>9. ~Covers(6, 3, a)
    <2>1. Covers(6, 3, a) => (CASE 3 < 3 -> Rank[a] < Rank[Table[6][3 + 1].addr]
                                [] 3 = 3 -> 6 = 6 => Rank[a] < Rank[AddrZero])
      BY <1>6 DEF Covers
    <2>2. ~(Rank[a] < Rank[AddrZero])
      BY <1>3
    <2> QED
      BY <2>1, <2>2
  <1>10. Cover(6, a) = {}
    BY <1>6, <1>8, <1>9 DEF Cover
  <1> QED
    BY <1>3, <1>4, <1>7, <1>10 DEF a
-----------------------------------------------------------------------------
\* The addresses the proof tells apart, by their places.
LEMMA PlaceIs ==
  ASSUME NEW a \in Addr
  PROVE  /\ Rank[a] = 3 <=> a = "S2_DSRAM"
         /\ Rank[a] = 16 <=> a = "S9_MDUMMY2_1"
PROOF
  <1>1. AddrMap[3] = "S2_DSRAM" /\ AddrMap[16] = "S9_MDUMMY2_1"
    BY DEF AddrMap
  <1>2. {3, 16} \subseteq Places
    BY DEF Places
  <1>3. Rank["S2_DSRAM"] = 3 /\ Rank["S9_MDUMMY2_1"] = 16
    BY <1>1, <1>2, RankOf
  <1>4. AddrMap[Rank[a]] = a
    BY AddrRank
  <1> QED
    BY <1>1, <1>3, <1>4

\* The domain a port enters is that of its address.
LEMMA EntersOwn ==
  ASSUME NEW p \in Port, Enters(p)
  PROVE  Domain(p) = Sel[req[p].addr] /\ OwnMatch(p) = Cover(Sel[req[p].addr], req[p].addr)
PROOF
  BY DEF Domain, OwnMatch, Cover

\* A port's matches are its own, but for the eleventh while port 2 is in MD3.
LEMMA MatchIs ==
  ASSUME NEW p \in Port
  PROVE  /\ Match(p) \ {11} = OwnMatch(p) \ {11}
         /\ p = 1 /\ InMD3(2) => (11 \in Match(p) <=> 11 \in OwnMatch(2))
         /\ p = 2 /\ InMD3(2) => (11 \in Match(p) <=> held)
         /\ ~(p = 1 /\ InMD3(2)) /\ ~(p = 2 /\ InMD3(2)) => Match(p) = OwnMatch(p)
PROOF
  <1>1. CASE p = 1 /\ InMD3(2)
    <2>1. Match(p) = (OwnMatch(1) \ {11}) \cup (OwnMatch(2) \cap {11})
      BY <1>1 DEF Match
    <2> QED
      BY <1>1, <2>1
  <1>2. CASE p = 2 /\ InMD3(2)
    <2>1. Match(p) = (OwnMatch(2) \ {11}) \cup (IF held THEN {11} ELSE {})
      BY <1>2 DEF Match
    <2> QED
      BY <1>2, <2>1
  <1>3. CASE ~(p = 1 /\ InMD3(2)) /\ ~(p = 2 /\ InMD3(2))
    <2>1. Match(p) = OwnMatch(p)
      BY <1>3 DEF Match
    <2> QED
      BY <1>3, <2>1
  <1> QED
    BY <1>1, <1>2, <1>3

\* The entry that decides is the one that matches alone, or the first.
LEMMA SelectedIs ==
  ASSUME NEW p \in Port
  PROVE  /\ \A i \in 1..16 : Match(p) = {i} => Selected(p) = i
         /\ (\A i \in 1..16 : Match(p) # {i}) => Selected(p) = 1
PROOF
  <1>1. CASE \E i \in 1..16 : Match(p) = {i}
    <2>1. PICK i \in 1..16 : Match(p) = {i}
      BY <1>1
    <2>2. \A j \in 1..16 : Match(p) = {j} <=> j = i
      BY <2>1
    <2>3. Selected(p) = CHOOSE j \in 1..16 : Match(p) = {j}
      BY <1>1 DEF Selected
    <2>4. Selected(p) = i
      BY <2>2, <2>3
    <2> QED
      BY <2>1, <2>2, <2>4
  <1>2. CASE ~ \E i \in 1..16 : Match(p) = {i}
    BY <1>2 DEF Selected
  <1> QED
    BY <1>1, <1>2

\* A domain that is open as a whole grants whatever enters it and is covered.
LEMMA OpenGrants ==
  ASSUME NEW p \in Port, Transit(p), NEW n \in 1..16, NEW m \in {5, 6},
         Sel[req[p].addr] = m, DOMAIN Table[m] = 1..n,
         \A i \in 1..n : Table[m][i].r /\ Table[m][i].w,
         Cover(m, req[p].addr) \subseteq 1..n, \E i \in Cover(m, req[p].addr) : i # 11
  PROVE  Granted(p)
PROOF
  <1>1. Enters(p)
    BY DEF Enters, Domains
  <1>2. Domain(p) = m /\ OwnMatch(p) = Cover(m, req[p].addr)
    BY <1>1, EntersOwn
  <1>3. PICK c \in Cover(m, req[p].addr) : c # 11
    OBVIOUS
  <1>4. c \in Match(p) /\ Match(p) \ {11} \subseteq 1..n
    BY <1>2, <1>3, MatchIs
  <1>5. Selected(p) \in 1..n
    <2>1. CASE \E i \in 1..16 : Match(p) = {i}
      <3>1. PICK i \in 1..16 : Match(p) = {i}
        BY <2>1
      <3>2. i = c /\ Selected(p) = i
        BY <1>4, <3>1, SelectedIs
      <3> QED
        BY <1>3, <3>2
    <2>2. CASE \A i \in 1..16 : Match(p) # {i}
      <3>1. Selected(p) = 1
        BY <2>2, SelectedIs
      <3>2. 1 \in 1..n
        OBVIOUS
      <3> QED
        BY <3>1, <3>2
    <2> QED
      BY <2>1, <2>2
  <1> QED
    BY <1>2, <1>4, <1>5 DEF Granted

\* MD1 is decided by its entry, if it is entered.
LEMMA ReadOnlyGrants ==
  ASSUME NEW p \in Port, Enters(p), req[p].addr \in Addr, Sel[req[p].addr] = 1
  PROVE  Granted(p) <=> ~req[p].write
PROOF
  <1>1. Domain(p) = 1 /\ OwnMatch(p) = {1}
    BY EntersOwn, Covered1
  <1>2. 1 \in Match(p) /\ Match(p) \subseteq {1, 11}
    BY <1>1, MatchIs
  <1>3. Selected(p) = 1
    BY <1>2, SelectedIs
  <1> QED
    BY <1>1, <1>2, <1>3, Table1 DEF Granted

\* The eleventh match bit of a request in MD3.
LEMMA BitIs ==
  ASSUME NEW p \in Port, req \in [Port -> Request], Transit(p), Sel[req[p].addr] = 3
  PROVE  11 \in Match(p) <=> IF p = 2 \/ (p = 1 /\ req[2].trans /\ Sel[req[2].addr] = 3)
                             THEN BitOf(p) ELSE Eleventh(p)
PROOF
  <1>1. \A q \in Port : req[q].addr \in Addr
    BY DEF Request
  <1>2. 2 \in Port
    BY DEF Port
  <1>3. InMD3(2) <=> req[2].trans /\ Sel[req[2].addr] = 3
    BY DEF InMD3, Enters, Transit, Domains
  <1>4. \A q \in Port : Enters(q) /\ Sel[req[q].addr] = 3 => (11 \in OwnMatch(q) <=> Eleventh(q))
    <2> SUFFICES ASSUME NEW q \in Port, Enters(q), Sel[req[q].addr] = 3
                 PROVE  11 \in OwnMatch(q) <=> Eleventh(q)
      OBVIOUS
    <2>1. OwnMatch(q) = Cover(3, req[q].addr)
      BY EntersOwn
    <2>2. 11 \in OwnMatch(q) <=> Rank[req[q].addr] = 16
      BY <1>1, <2>1, Covered3
    <2> QED
      BY <1>1, <2>2, PlaceIs DEF Eleventh
  <1>5. Enters(p)
    BY DEF Enters, Domains
  <1>6. CASE p = 2
    <2>1. InMD3(2)
      BY <1>5, <1>6 DEF InMD3
    <2> QED
      BY <1>6, <2>1, MatchIs DEF BitOf
  <1>7. CASE p = 1 /\ InMD3(2)
    <2>1. 11 \in Match(p) <=> 11 \in OwnMatch(2)
      BY <1>7, MatchIs
    <2>2. 11 \in OwnMatch(2) <=> Eleventh(2)
      BY <1>2, <1>4, <1>7 DEF InMD3
    <2> QED
      BY <1>3, <1>7, <2>1, <2>2 DEF BitOf
  <1>8. CASE p # 2 /\ ~(p = 1 /\ InMD3(2))
    <2>1. Match(p) = OwnMatch(p)
      BY <1>8, MatchIs
    <2> QED
      BY <1>3, <1>4, <1>5, <1>8, <2>1
  <1> QED
    BY <1>6, <1>7, <1>8

\* MD3 is decided by the entry that covers the address and by that bit.
LEMMA SharedGrants ==
  ASSUME NEW p \in Port, req \in [Port -> Request], Transit(p), Sel[req[p].addr] = 3
  PROVE  /\ Eleventh(p) => Grants(req[p]) /\ (Granted(p) <=> 11 \in Match(p))
         /\ ~Eleventh(p) => (Granted(p) <=> 11 \in Match(p) \/ Grants(req[p]))
PROOF
  <1> DEFINE a == req[p].addr
             w == req[p].write
             k == EntryOf(3, a)
             Ok(i) == IF w THEN Table[3][i].w ELSE Table[3][i].r
  <1>1. a \in Addr
    BY DEF Request
  <1>2. Enters(p)
    BY DEF Enters, Domains
  <1>3. Domain(p) = 3 /\ OwnMatch(p) = {k} /\ k \in 1..13 /\ (k = 11 <=> Rank[a] = 16)
    BY <1>1, <1>2, EntersOwn, Covered3
  <1>4. k = 11 <=> Eleventh(p)
    BY <1>1, <1>3, PlaceIs DEF Eleventh
  <1>5. Grants(req[p]) <=> Ok(k)
    BY DEF Grants, Domains
  <1>6. Granted(p) <=> Match(p) # {} /\ Selected(p) \in 1..13 /\ Ok(Selected(p))
    BY <1>3, Table3 DEF Granted
  <1>7. Ok(1) /\ Ok(11)
    BY Table3
  <1>8. Match(p) \ {11} = {k} \ {11}
    BY <1>3, MatchIs
  <1> HIDE DEF k, Ok, a, w
  <1>9. CASE k = 11
    <2>1. Match(p) = {} \/ Match(p) = {11}
      BY <1>8, <1>9
    <2>2. Match(p) = {11} => Selected(p) = 11
      BY SelectedIs
    <2> QED
      BY <1>4, <1>5, <1>6, <1>7, <1>9, <2>1, <2>2
  <1>10. CASE k # 11 /\ 11 \in Match(p)
    <2>1. Match(p) = {k, 11}
      BY <1>8, <1>10
    <2>2. \A i \in 1..16 : Match(p) # {i}
      BY <1>10, <2>1
    <2>3. Selected(p) = 1
      BY <2>2, SelectedIs
    <2> QED
      BY <1>4, <1>6, <1>7, <1>10, <2>1, <2>3
  <1>11. CASE k # 11 /\ 11 \notin Match(p)
    <2>1. Match(p) = {k} /\ k \in 1..16
      BY <1>3, <1>8, <1>11
    <2>2. Selected(p) = k
      BY <2>1, SelectedIs
    <2> QED
      BY <1>3, <1>4, <1>5, <1>6, <1>11, <2>1, <2>2
  <1> QED
    BY <1>9, <1>10, <1>11

\* Every request is decided by the table, but for the cases of TableObeyed.
LEMMA DecidedByTable ==
  ASSUME req \in [Port -> Request]
  PROVE  TableObeyed
PROOF
  <1> SUFFICES ASSUME NEW p \in Port, Transit(p)
               PROVE  Granted(p) <=> (Grants(req[p]) <=> ~(NoEnd(p) \/ Misdirected(p) \/ Misled(p)))
    BY DEF TableObeyed
  <1> DEFINE a == req[p].addr
             w == req[p].write
  <1>1. a \in Addr /\ w \in BOOLEAN
    BY DEF Request
  <1>2. Sel[a] \in {0, 1, 2, 3, 4, 5, 6}
    BY <1>1, DomainOf DEF MD
  <1>e. Enters(p) <=> Sel[a] \in Domains(req[0].write)
    BY DEF Enters
  <1>n. NoEnd(p) => Sel[a] = 6
    BY NoneCovers DEF NoEnd
  <1>d. Misdirected(p) => Sel[a] = 1
    <2>1. Misdirected(p) => Rank[a] = 3
      BY <1>1, PlaceIs DEF Misdirected
    <2> QED
      BY <1>1, <2>1, DomainOf
  <1>m. Misled(p) => Sel[a] = 3
    BY DEF Misled
  <1>4. CASE Sel[a] \in {0, 2, 4}
    <2>1. ~Granted(p)
      BY <1>4, NotGranted
    <2>2. ~Grants(req[p])
      BY <1>4 DEF Grants, Domains
    <2> QED
      BY <1>4, <1>n, <1>d, <1>m, <2>1, <2>2
  <1>5. CASE Sel[a] = 1
    <2>1. EntryOf(1, a) = 1 /\ Table[1][1].r /\ ~Table[1][1].w
      BY <1>1, <1>5, Covered1, Table1
    <2>2. Grants(req[p]) <=> ~w
      BY <1>5, <2>1 DEF Grants, Domains
    <2>3. a = "S2_DSRAM"
      BY <1>1, <1>5, DomainOf, PlaceIs
    <2>4. Misdirected(p) <=> ~w /\ req[0].write
      BY <2>3 DEF Misdirected
    <2>5. Enters(p) <=> ~req[0].write
      BY <1>5, <1>e DEF Domains
    <2>6. Granted(p) <=> ~w /\ ~req[0].write
      BY <1>1, <1>5, <2>5, ReadOnlyGrants, NoDomainNoGrant
    <2> QED
      BY <1>5, <1>n, <1>m, <2>2, <2>4, <2>6
  <1>6. CASE Sel[a] = 3
    <2> DEFINE shared == p = 2 \/ (p = 1 /\ req[2].trans /\ Sel[req[2].addr] = 3)
    <2>1. 11 \in Match(p) <=> IF shared THEN BitOf(p) ELSE Eleventh(p)
      BY <1>6, BitIs
    <2>2. Misled(p) <=> shared /\ IF Eleventh(p) THEN ~BitOf(p) ELSE BitOf(p) /\ ~Grants(req[p])
      BY <1>6 DEF Misled
    <2> HIDE DEF shared
    <2>3. /\ Eleventh(p) => Grants(req[p]) /\ (Granted(p) <=> 11 \in Match(p))
          /\ ~Eleventh(p) => (Granted(p) <=> 11 \in Match(p) \/ Grants(req[p]))
      BY <1>6, SharedGrants
    <2>4. ~NoEnd(p) /\ ~Misdirected(p)
      BY <1>6, <1>n, <1>d
    <2> QED
      BY <2>1, <2>2, <2>3, <2>4
  <1>7. CASE Sel[a] = 5
    <2>1. /\ Cover(5, a) \subseteq 1..16 /\ \E i \in Cover(5, a) : i # 11
          /\ EntryOf(5, a) \in 1..16
      BY <1>1, <1>7, Covered5
    <2>2. DOMAIN Table[5] = 1..16 /\ \A i \in 1..16 : Table[5][i].r /\ Table[5][i].w
      BY Table5
    <2>3. 16 \in 1..16 /\ 5 \in {5, 6}
      BY SMTT(60)
    <2>4. Granted(p)
      <3> HIDE DEF a
      <3> QED
        BY <1>7, <2>1, <2>2, <2>3, OpenGrants DEF a
    <2>5. Grants(req[p])
      BY <1>7, <2>1, <2>2 DEF Grants, Domains
    <2> QED
      BY <1>7, <1>n, <1>d, <1>m, <2>4, <2>5
  <1>8. CASE Sel[a] = 6
    <2>1. EntryOf(6, a) \in 1..3
      BY <1>1, <1>8, Covered6, NoneCovers
    <2>2. DOMAIN Table[6] = 1..3 /\ \A i \in 1..3 : Table[6][i].r /\ Table[6][i].w
      BY Table6
    <2>3. Grants(req[p])
      BY <1>8, <2>1, <2>2 DEF Grants, Domains
    <2>4. Granted(p) <=> ~NoEnd(p)
      <3>1. CASE NoEnd(p)
        <4>1. Enters(p)
          BY <1>8, <1>e DEF Domains
        <4>2. Domain(p) = 6 /\ OwnMatch(p) = {}
          BY <1>8, <3>1, <4>1, EntersOwn, NoneCovers DEF NoEnd
        <4>3. Match(p) = {} \/ Match(p) = {11}
          BY <4>2, MatchIs
        <4>4. Match(p) = {11} => Selected(p) = 11
          BY SelectedIs
        <4> QED
          BY <2>2, <3>1, <4>2, <4>3, <4>4 DEF Granted
      <3>2. CASE ~NoEnd(p)
        <4>1. Cover(6, a) \subseteq 1..3 /\ Cover(6, a) # {}
          BY <1>1, <1>8, <3>2, Covered6 DEF NoEnd
        <4>2. \E i \in Cover(6, a) : i # 11
          BY <4>1
        <4>3. 3 \in 1..16 /\ 6 \in {5, 6}
          BY SMTT(60)
        <4> HIDE DEF a
        <4>4. Granted(p)
          BY <1>8, <2>2, <4>1, <4>2, <4>3, OpenGrants DEF a
        <4> QED
          BY <3>2, <4>4
      <3> QED
        BY <3>1, <3>2
    <2> QED
      BY <1>8, <1>d, <1>m, <2>3, <2>4
  <1> QED
    BY <1>2, <1>4, <1>5, <1>6, <1>7, <1>8

\* Every port is granted what the table grants it and denied what it denies, each
\* on its own request, whatever the three ports ask for together and whatever the
\* latch has kept, but for the four ways of the source to decide otherwise: the
\* open end of MD6, the shared direction, and the match bit of port 2 in the
\* latch and in port 1.  In these it always decides otherwise.
THEOREM TableIsObeyed == Spec => []TableObeyed
PROOF
  <1>1. TypeOK => TableObeyed
    BY DecidedByTable DEF TypeOK
  <1> QED
    BY <1>1, TypeCorrect, PTL
=============================================================================
