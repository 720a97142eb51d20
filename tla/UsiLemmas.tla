------------------------------ MODULE UsiLemmas -------------------------------
(***************************************************************************)
(* What the register accesses of Usi do to a port, and facts about the     *)
(* sequences that stand for its FIFOs and the buffers of its drivers.      *)
(***************************************************************************)
EXTENDS Usi, SequenceTheorems, TLAPS

Ports == Port(Nat, Nat)

\* v is u but for the fields that may differ: its switches, its enables, its
\* FIFOs (empty where they are off) and the latched bits.  TX_EMPTY is latched
\* again by its level, the I2C bits are not.
Access(v, u, en, ie, tx, rx, ip) ==
  /\ v \in Ports
  /\ v.mode = u.mode /\ v.irq = u.irq /\ v.mask = u.mask /\ v.th = u.th
  /\ v.en = en /\ v.ie = ie
  /\ v.tx = IF {"usi", "tx"} \subseteq en THEN tx ELSE << >>
  /\ v.rx = IF {"usi", "rx"} \subseteq en THEN rx ELSE << >>
  /\ v.ip \subseteq ie
  /\ "TX_EMPTY" \in v.ip <=> "TX_EMPTY" \in ie /\ ("TX_EMPTY" \in ip \/ v.tx = << >>)
  /\ "I2C_STOP" \in v.ip <=> "I2C_STOP" \in ie /\ "I2C_STOP" \in ip
  /\ "I2C_NACK" \in v.ip <=> "I2C_NACK" \in ie /\ "I2C_NACK" \in ip

\* What every access ends with: FIFOs that are off are emptied, levels latched.
LEMMA SettleIs ==
  ASSUME NEW u \in Ports
  PROVE  Access(Settle(u), u, u.en, u.ie, u.tx, u.rx, u.ip)
PROOF
  <1> DEFINE t == IF TxOn(u) THEN u.tx ELSE << >>
             r == IF RxOn(u) THEN u.rx ELSE << >>
             v == [[u EXCEPT !.tx = t] EXCEPT !.rx = r]
             w == [v EXCEPT !.ip = (@ \cup Level(v)) \cap v.ie]
  <1>1. Settle(u) = w
    BY DEF Settle, TxOn, RxOn, Ports, Port
  <1>2. t \in Seq(Nat) /\ r \in Seq(Nat)
    BY DEF Ports, Port
  <1> HIDE DEF t, r
  <1>3. /\ v \in Ports /\ v.mode = u.mode /\ v.irq = u.irq /\ v.mask = u.mask /\ v.th = u.th
        /\ v.en = u.en /\ v.ie = u.ie /\ v.ip = u.ip /\ v.tx = t /\ v.rx = r
    BY <1>2 DEF Ports, Port
  <1> HIDE DEF v
  <1>4. /\ Level(v) \subseteq Intr /\ ("TX_EMPTY" \in Level(v) <=> v.tx = << >>)
        /\ "I2C_STOP" \notin Level(v) /\ "I2C_NACK" \notin Level(v)
    BY DEF Level, Intr
  <1>5. (v.ip \cup Level(v)) \cap v.ie \in SUBSET Intr
    BY <1>3 DEF Ports, Port
  <1> DEFINE q == (v.ip \cup Level(v)) \cap v.ie
  <1>6. w = [v EXCEPT !.ip = q]
    OBVIOUS
  <1>7. /\ q \subseteq v.ie
        /\ "TX_EMPTY" \in q <=> "TX_EMPTY" \in v.ie /\ ("TX_EMPTY" \in v.ip \/ v.tx = << >>)
        /\ "I2C_STOP" \in q <=> "I2C_STOP" \in v.ie /\ "I2C_STOP" \in v.ip
        /\ "I2C_NACK" \in q <=> "I2C_NACK" \in v.ie /\ "I2C_NACK" \in v.ip
    BY <1>4
  <1> HIDE DEF q
  <1>8. /\ w \in Ports /\ w.mode = v.mode /\ w.irq = v.irq /\ w.mask = v.mask /\ w.th = v.th
        /\ w.en = v.en /\ w.ie = v.ie /\ w.ip = q /\ w.tx = v.tx /\ w.rx = v.rx
    BY <1>3, <1>5, <1>6 DEF Ports, Port, q
  <1> HIDE DEF w
  <1> QED
    BY <1>1, <1>3, <1>7, <1>8 DEF Access, t, r, TxOn, RxOn

\* A FIFO with room takes everything.
LEMMA NewestIs ==
  ASSUME NEW f \in Seq(Nat)
  PROVE  /\ Newest(f) \in Seq(Nat)
         /\ Len(f) <= Fifo => Newest(f) = f
         /\ Len(f) > Fifo => Len(Newest(f)) = Fifo
PROOF
  <1>1. CASE Len(f) <= Fifo
    BY <1>1, FifoAssumption DEF Newest
  <1>2. CASE Len(f) > Fifo
    <2>1. Newest(f) = SubSeq(f, Len(f) - Fifo + 1, Len(f))
      BY <1>2 DEF Newest
    <2>2. Len(f) - Fifo + 1 \in 1..Len(f) + 1 /\ Len(f) \in 0..Len(f)
      BY <1>2, FifoAssumption
    <2>3. Newest(f) \in Seq(Nat) /\ Len(Newest(f)) = Len(f) - (Len(f) - Fifo + 1) + 1
      BY <2>1, <2>2
    <2> QED
      BY <1>2, <2>3, FifoAssumption
  <1> QED
    BY <1>1, <1>2, FifoAssumption

\* Each access is the settling of one change.

\* Switching the FIFOs on or off.
LEMMA SetEnIs ==
  ASSUME NEW u \in Ports, NEW e \in SUBSET EnBit
  PROVE  Access(SetEn(u, e), u, e, u.ie, u.tx, u.rx, u.ip)
PROOF
  <1> DEFINE w == [u EXCEPT !.en = e]
  <1>1. /\ w \in Ports /\ w.mode = u.mode /\ w.irq = u.irq /\ w.mask = u.mask /\ w.th = u.th
        /\ w.en = e /\ w.ie = u.ie /\ w.tx = u.tx /\ w.rx = u.rx /\ w.ip = u.ip
    BY DEF Ports, Port
  <1>2. SetEn(u, e) = Settle(w)
    BY DEF SetEn
  <1> HIDE DEF w
  <1> QED
    BY <1>1, <1>2, SettleIs DEF Access

\* Enabling interrupts.
LEMMA SetIeIs ==
  ASSUME NEW u \in Ports, NEW s \in SUBSET Intr
  PROVE  Access(SetIe(u, s), u, u.en, s, u.tx, u.rx, u.ip)
PROOF
  <1> DEFINE w == [u EXCEPT !.ie = s]
  <1>1. /\ w \in Ports /\ w.mode = u.mode /\ w.irq = u.irq /\ w.mask = u.mask /\ w.th = u.th
        /\ w.en = u.en /\ w.ie = s /\ w.tx = u.tx /\ w.rx = u.rx /\ w.ip = u.ip
    BY DEF Ports, Port
  <1>2. SetIe(u, s) = Settle(w)
    BY DEF SetIe
  <1> HIDE DEF w
  <1> QED
    BY <1>1, <1>2, SettleIs DEF Access

\* Enabling some more ...
LEMMA IrqOnIs ==
  ASSUME NEW u \in Ports, NEW s \in SUBSET Intr
  PROVE  Access(IrqOn(u, s), u, u.en, u.ie \cup s, u.tx, u.rx, u.ip)
PROOF
  <1>1. u.ie \cup s \in SUBSET Intr
    BY DEF Ports, Port
  <1> QED
    BY <1>1, SetIeIs DEF IrqOn

\* ... and disabling some.
LEMMA IrqOffIs ==
  ASSUME NEW u \in Ports, NEW s \in SUBSET Intr
  PROVE  Access(IrqOff(u, s), u, u.en, u.ie \ s, u.tx, u.rx, u.ip)
PROOF
  <1>1. u.ie \ s \in SUBSET Intr
    BY DEF Ports, Port
  <1> QED
    BY <1>1, SetIeIs DEF IrqOff

\* The mask is the one register whose change settles nothing.
LEMMA UnmaskIs ==
  ASSUME NEW u \in Ports, NEW s \in SUBSET Intr
  PROVE  /\ Unmask(u, s) \in Ports /\ Unmask(u, s).mask = s
         /\ Unmask(u, s).mode = u.mode /\ Unmask(u, s).irq = u.irq /\ Unmask(u, s).th = u.th
         /\ Unmask(u, s).en = u.en /\ Unmask(u, s).ie = u.ie /\ Unmask(u, s).ip = u.ip
         /\ Unmask(u, s).tx = u.tx /\ Unmask(u, s).rx = u.rx
PROOF BY DEF Unmask, Ports, Port

\* Clearing causes; a level that holds is latched again.
LEMMA ClearIrqIs ==
  ASSUME NEW u \in Ports, NEW s
  PROVE  Access(ClearIrq(u, s), u, u.en, u.ie, u.tx, u.rx, u.ip \ s)
PROOF
  <1> DEFINE w == [u EXCEPT !.ip = @ \ s]
  <1>1. /\ w \in Ports /\ w.mode = u.mode /\ w.irq = u.irq /\ w.mask = u.mask /\ w.th = u.th
        /\ w.en = u.en /\ w.ie = u.ie /\ w.tx = u.tx /\ w.rx = u.rx /\ w.ip = u.ip \ s
    BY DEF Ports, Port
  <1>2. ClearIrq(u, s) = Settle(w)
    BY DEF ClearIrq
  <1> HIDE DEF w
  <1> QED
    BY <1>1, <1>2, SettleIs DEF Access

\* Raising causes.
LEMMA RaiseIs ==
  ASSUME NEW u \in Ports, NEW s \in SUBSET Intr
  PROVE  Access(Raise(u, s), u, u.en, u.ie, u.tx, u.rx, u.ip \cup s)
PROOF
  <1> DEFINE w == [u EXCEPT !.ip = @ \cup s]
  <1>1. /\ w \in Ports /\ w.mode = u.mode /\ w.irq = u.irq /\ w.mask = u.mask /\ w.th = u.th
        /\ w.en = u.en /\ w.ie = u.ie /\ w.tx = u.tx /\ w.rx = u.rx /\ w.ip = u.ip \cup s
    BY DEF Ports, Port
  <1>2. Raise(u, s) = Settle(w)
    BY DEF Raise
  <1> HIDE DEF w
  <1> QED
    BY <1>1, <1>2, SettleIs DEF Access

\* Writing words to the FIFO.
LEMMA WriteTxIs ==
  ASSUME NEW u \in Ports, NEW ws \in Seq(Nat)
  PROVE  Access(WriteTx(u, ws), u, u.en, u.ie, Newest(u.tx \o ws), u.rx, u.ip)
PROOF
  <1> DEFINE n == Newest(u.tx \o ws)
             w == [u EXCEPT !.tx = n]
  <1>1. n \in Seq(Nat)
    <2>1. u.tx \o ws \in Seq(Nat)
      BY ConcatProperties DEF Ports, Port
    <2> QED
      BY <2>1, NewestIs
  <1>2. WriteTx(u, ws) = Settle(w)
    BY DEF WriteTx
  <1> HIDE DEF n
  <1>3. /\ w \in Ports /\ w.mode = u.mode /\ w.irq = u.irq /\ w.mask = u.mask /\ w.th = u.th
        /\ w.en = u.en /\ w.ie = u.ie /\ w.tx = n /\ w.rx = u.rx /\ w.ip = u.ip
    BY <1>1 DEF Ports, Port
  <1> HIDE DEF w
  <1>4. Access(WriteTx(u, ws), u, u.en, u.ie, n, u.rx, u.ip)
    BY <1>2, <1>3, SettleIs DEF Access
  <1> QED
    BY <1>4 DEF n

\* Reading words from the FIFO.
LEMMA TakeRxIs ==
  ASSUME NEW u \in Ports, NEW n \in 0..Len(u.rx)
  PROVE  Access(TakeRx(u, n), u, u.en, u.ie, u.tx, SubSeq(u.rx, n + 1, Len(u.rx)), u.ip)
PROOF
  <1> DEFINE r == SubSeq(u.rx, n + 1, Len(u.rx))
             w == [u EXCEPT !.rx = r]
  <1>1. r \in Seq(Nat)
    <2>1. u.rx \in Seq(Nat) /\ n + 1 \in 1..Len(u.rx) + 1 /\ Len(u.rx) \in 0..Len(u.rx)
      BY DEF Ports, Port
    <2> QED
      BY <2>1
  <1>2. TakeRx(u, n) = Settle(w)
    BY DEF TakeRx
  <1> HIDE DEF r
  <1>3. /\ w \in Ports /\ w.mode = u.mode /\ w.irq = u.irq /\ w.mask = u.mask /\ w.th = u.th
        /\ w.en = u.en /\ w.ie = u.ie /\ w.tx = u.tx /\ w.rx = r /\ w.ip = u.ip
    BY <1>1 DEF Ports, Port
  <1> HIDE DEF w
  <1>4. Access(TakeRx(u, n), u, u.en, u.ie, u.tx, r, u.ip)
    BY <1>2, <1>3, SettleIs DEF Access
  <1> QED
    BY <1>4 DEF r

\* A restart: FIFOs are emptied, and only those told to are on.
LEMMA RestartIs ==
  ASSUME NEW u \in Ports, NEW f, NEW e \in SUBSET EnBit
  PROVE  Access(Restart(u, f, e), u, e, u.ie, IF "tx" \in f THEN << >> ELSE u.tx,
                IF "rx" \in f THEN << >> ELSE u.rx, u.ip)
PROOF
  <1> DEFINE t == IF "tx" \in f THEN << >> ELSE u.tx
             r == IF "rx" \in f THEN << >> ELSE u.rx
             v == [u EXCEPT !.tx = t]
             x == [v EXCEPT !.rx = r]
             w == [x EXCEPT !.en = e]
  <1>1. t \in Seq(Nat) /\ r \in Seq(Nat)
    BY DEF Ports, Port
  <1>2. Restart(u, f, e) = Settle(w)
    BY DEF Restart, Ports, Port
  <1> HIDE DEF t, r
  <1>3. /\ v \in Ports /\ v.mode = u.mode /\ v.irq = u.irq /\ v.mask = u.mask /\ v.th = u.th
        /\ v.en = u.en /\ v.ie = u.ie /\ v.tx = t /\ v.rx = u.rx /\ v.ip = u.ip
    BY <1>1 DEF Ports, Port
  <1> HIDE DEF v
  <1>4. /\ x \in Ports /\ x.mode = u.mode /\ x.irq = u.irq /\ x.mask = u.mask /\ x.th = u.th
        /\ x.en = u.en /\ x.ie = u.ie /\ x.tx = t /\ x.rx = r /\ x.ip = u.ip
    BY <1>1, <1>3 DEF Ports, Port
  <1> HIDE DEF x
  <1>5. /\ w \in Ports /\ w.mode = u.mode /\ w.irq = u.irq /\ w.mask = u.mask /\ w.th = u.th
        /\ w.en = e /\ w.ie = u.ie /\ w.tx = t /\ w.rx = r /\ w.ip = u.ip
    BY <1>4 DEF Ports, Port
  <1> HIDE DEF w
  <1>6. Access(Restart(u, f, e), u, e, u.ie, t, r, u.ip)
    BY <1>2, <1>5, SettleIs DEF Access
  <1> QED
    BY <1>6 DEF t, r

\* A flush empties FIFOs and leaves them on.
LEMMA FlushIs ==
  ASSUME NEW u \in Ports, NEW f \in SUBSET EnBit
  PROVE  Access(Flush(u, f), u, u.en \cup f, u.ie, IF "tx" \in f THEN << >> ELSE u.tx,
                IF "rx" \in f THEN << >> ELSE u.rx, u.ip)
PROOF
  <1>1. u.en \cup f \in SUBSET EnBit
    BY DEF Ports, Port
  <1> QED
    BY <1>1, RestartIs DEF Flush

\* The threshold is a quarter of the FIFO, two or three, whatever is asked for.
LEMMA SetRxTholdIs ==
  ASSUME NEW u \in Ports, NEW n \in Nat
  PROVE  LET v == SetRxThold(u, n)
         IN  /\ v \in Ports /\ v.mode = u.mode /\ v.irq = u.irq /\ v.mask = u.mask
             /\ v.en = u.en /\ v.ie = u.ie
             /\ v.tx = IF {"usi", "tx"} \subseteq u.en THEN u.tx ELSE << >>
             /\ v.rx = IF {"usi", "rx"} \subseteq u.en THEN u.rx ELSE << >>
             /\ v.ip \subseteq u.ie
             /\ "I2C_STOP" \in v.ip <=> "I2C_STOP" \in u.ie /\ "I2C_STOP" \in u.ip
             /\ v.th.edge = (n >= Fifo \div 4)
             /\ v.th.quarter = IF n >= Fifo THEN 3
                               ELSE IF n >= Fifo - (Fifo \div 4) THEN 2 ELSE 1
PROOF
  <1> DEFINE h == [edge    |-> n >= Fifo \div 4,
                   quarter |-> IF n >= Fifo THEN 3
                               ELSE IF n >= Fifo - (Fifo \div 4) THEN 2 ELSE 1]
             w == [u EXCEPT !.th = h]
  <1>1. h \in [edge : BOOLEAN, quarter : 1..3]
    OBVIOUS
  <1>2. SetRxThold(u, n) = Settle(w)
    BY DEF SetRxThold
  <1>3. h.edge = (n >= Fifo \div 4) /\ h.quarter = IF n >= Fifo THEN 3
                                                    ELSE IF n >= Fifo - (Fifo \div 4) THEN 2 ELSE 1
    OBVIOUS
  <1> HIDE DEF h
  <1>4. /\ w \in Ports /\ w.mode = u.mode /\ w.irq = u.irq /\ w.mask = u.mask /\ w.th = h
        /\ w.en = u.en /\ w.ie = u.ie /\ w.tx = u.tx /\ w.rx = u.rx /\ w.ip = u.ip
    BY <1>1 DEF Ports, Port
  <1> HIDE DEF w
  <1> QED
    BY <1>2, <1>3, <1>4, SettleIs DEF Access

\* A word leaves the FIFO for the line.
LEMMA ShiftedIs ==
  ASSUME NEW u \in Ports, u.tx # << >>
  PROVE  Access(Shifted(u), u, u.en, u.ie, Tail(u.tx), u.rx, u.ip)
PROOF
  <1> DEFINE t == Tail(u.tx)
             w == [u EXCEPT !.tx = t]
  <1>1. t \in Seq(Nat)
    BY DEF Ports, Port
  <1>2. Shifted(u) = Settle(w)
    BY DEF Shifted
  <1> HIDE DEF t
  <1>3. /\ w \in Ports /\ w.mode = u.mode /\ w.irq = u.irq /\ w.mask = u.mask /\ w.th = u.th
        /\ w.en = u.en /\ w.ie = u.ie /\ w.tx = t /\ w.rx = u.rx /\ w.ip = u.ip
    BY <1>1 DEF Ports, Port
  <1> HIDE DEF w
  <1>4. Access(Shifted(u), u, u.en, u.ie, t, u.rx, u.ip)
    BY <1>2, <1>3, SettleIs DEF Access
  <1> QED
    BY <1>4 DEF t

\* A word arrives from the line.
LEMMA ArrivedIs ==
  ASSUME NEW u \in Ports, NEW x \in Nat
  PROVE  Access(Arrived(u, x), u, u.en, u.ie, u.tx, Newest(Append(u.rx, x)), u.ip)
PROOF
  <1> DEFINE r == Newest(Append(u.rx, x))
             w == [u EXCEPT !.rx = r]
  <1>1. r \in Seq(Nat)
    <2>1. Append(u.rx, x) \in Seq(Nat)
      BY DEF Ports, Port
    <2> QED
      BY <2>1, NewestIs
  <1>2. Arrived(u, x) = Settle(w)
    BY DEF Arrived
  <1> HIDE DEF r
  <1>3. /\ w \in Ports /\ w.mode = u.mode /\ w.irq = u.irq /\ w.mask = u.mask /\ w.th = u.th
        /\ w.en = u.en /\ w.ie = u.ie /\ w.tx = u.tx /\ w.rx = r /\ w.ip = u.ip
    BY <1>1 DEF Ports, Port
  <1> HIDE DEF w
  <1>4. Access(Arrived(u, x), u, u.en, u.ie, u.tx, r, u.ip)
    BY <1>2, <1>3, SettleIs DEF Access
  <1> QED
    BY <1>4 DEF r
-----------------------------------------------------------------------------
(* Words in the order they were given: 0 stands for no word of a caller.   *)

Els(s)      == {s[i] : i \in DOMAIN s}
Rising(s)   == \A i, j \in DOMAIN s : i < j /\ s[i] # 0 /\ s[j] # 0 => s[i] < s[j]
Under(S, T) == \A x \in S, y \in T : x # 0 /\ y # 0 => x < y

\* What has left, waits in the FIFO and waits in the buffer is in order.
InParts(out, fifo, buf) ==
  /\ Rising(out) /\ Rising(fifo) /\ Rising(buf)
  /\ Under(Els(out), Els(fifo)) /\ Under(Els(out), Els(buf)) /\ Under(Els(fifo), Els(buf))

\* The elements and the order of the empty sequence ...
LEMMA OfNothing == Els(<< >>) = {} /\ Rising(<< >>)
PROOF BY DEF Els, Rising

\* ... what it is to be one ...
LEMMA AnElement ==
  ASSUME NEW s, NEW i \in DOMAIN s
  PROVE  s[i] \in Els(s)
PROOF BY DEF Els

\* ... where one is ...
LEMMA ElementOf ==
  ASSUME NEW s, NEW x \in Els(s)
  PROVE  \E i \in DOMAIN s : s[i] = x
PROOF BY DEF Els

\* ... those of a concatenation,
LEMMA OfConcat ==
  ASSUME NEW s \in Seq(Nat), NEW t \in Seq(Nat)
  PROVE  /\ s \o t \in Seq(Nat) /\ Els(s \o t) = Els(s) \cup Els(t)
         /\ Rising(s) /\ Rising(t) /\ Under(Els(s), Els(t)) => Rising(s \o t)
PROOF
  <1> DEFINE c == s \o t
  <1>1. c \in Seq(Nat) /\ \A i \in 1..Len(s) + Len(t) : c[i] = IF i <= Len(s) THEN s[i] ELSE t[i - Len(s)]
    BY ConcatProperties
  <1>2. Len(c) = Len(s) + Len(t)
    BY ConcatProperties
  <1> HIDE DEF c
  <1>3. DOMAIN c = 1..Len(s) + Len(t) /\ DOMAIN s = 1..Len(s) /\ DOMAIN t = 1..Len(t)
    BY <1>1, <1>2
  <1>4. \A i \in 1..Len(s) : i \in DOMAIN c /\ c[i] = s[i]
    BY <1>1, <1>3
  <1>5. \A i \in 1..Len(t) : i + Len(s) \in DOMAIN c /\ c[i + Len(s)] = t[i]
    <2> SUFFICES ASSUME NEW i \in 1..Len(t)
                 PROVE  i + Len(s) \in DOMAIN c /\ c[i + Len(s)] = t[i]
      OBVIOUS
    <2> DEFINE k == i + Len(s)
    <2>1. k \in 1..Len(s) + Len(t) /\ ~(k <= Len(s)) /\ k - Len(s) = i
      OBVIOUS
    <2> HIDE DEF k
    <2>2. c[k] = IF k <= Len(s) THEN s[k] ELSE t[k - Len(s)]
      BY <1>1, <2>1
    <2>3. k \in DOMAIN c /\ c[k] = t[i]
      BY <1>3, <2>1, <2>2
    <2> QED
      BY <2>3 DEF k
  <1>6. \A i \in DOMAIN c : \/ i \in 1..Len(s) /\ c[i] = s[i]
                            \/ i > Len(s) /\ i - Len(s) \in 1..Len(t) /\ c[i] = t[i - Len(s)]
    BY <1>1, <1>3
  <1>7. Els(c) = Els(s) \cup Els(t)
    <2>1. ASSUME NEW x \in Els(c) PROVE x \in Els(s) \cup Els(t)
      <3>1. PICK i \in DOMAIN c : c[i] = x
        BY <2>1, ElementOf
      <3> QED
        BY <1>3, <1>6, <3>1, AnElement
    <2>2. ASSUME NEW x \in Els(s) PROVE x \in Els(c)
      <3>1. PICK i \in DOMAIN s : s[i] = x
        BY <2>2, ElementOf
      <3> QED
        BY <1>3, <1>4, <3>1, AnElement
    <2>3. ASSUME NEW x \in Els(t) PROVE x \in Els(c)
      <3>1. PICK i \in DOMAIN t : t[i] = x
        BY <2>3, ElementOf
      <3>2. i + Len(s) \in DOMAIN c /\ c[i + Len(s)] = x
        BY <1>3, <1>5, <3>1
      <3> QED
        BY <3>2, AnElement
    <2> QED
      BY <2>1, <2>2, <2>3
  <1>8. ASSUME Rising(s), Rising(t), Under(Els(s), Els(t))
        PROVE  Rising(c)
    <2> SUFFICES ASSUME NEW i \in DOMAIN c, NEW j \in DOMAIN c, i < j, c[i] # 0, c[j] # 0
                 PROVE  c[i] < c[j]
      BY DEF Rising
    <2>1. CASE i <= Len(s) /\ j <= Len(s)
      <3>1. i \in DOMAIN s /\ j \in DOMAIN s /\ c[i] = s[i] /\ c[j] = s[j]
        BY <1>3, <1>6, <2>1
      <3> QED
        BY <1>8, <3>1 DEF Rising
    <2>2. CASE i <= Len(s) /\ j > Len(s)
      <3>1. c[i] \in Els(s) /\ c[j] \in Els(t)
        <4>1. i \in DOMAIN s /\ c[i] = s[i]
          BY <1>3, <1>6, <2>2
        <4>2. j - Len(s) \in DOMAIN t /\ c[j] = t[j - Len(s)]
          BY <1>3, <1>6, <2>2
        <4> QED
          BY <4>1, <4>2, AnElement
      <3> QED
        BY <1>8, <3>1 DEF Under
    <2>3. CASE i > Len(s) /\ j > Len(s)
      <3>1. /\ i - Len(s) \in DOMAIN t /\ j - Len(s) \in DOMAIN t
            /\ c[i] = t[i - Len(s)] /\ c[j] = t[j - Len(s)]
        BY <1>3, <1>6, <2>3
      <3>2. i - Len(s) < j - Len(s)
        BY <1>3
      <3> QED
        BY <1>8, <3>1, <3>2 DEF Rising
    <2> QED
      BY <1>3, <2>1, <2>2, <2>3
  <1> QED
    BY <1>1, <1>7, <1>8 DEF c

\* of a tail,
LEMMA OfTail ==
  ASSUME NEW s \in Seq(Nat), s # << >>
  PROVE  /\ Head(s) \in Nat /\ Tail(s) \in Seq(Nat) /\ Len(Tail(s)) = Len(s) - 1
         /\ Els(s) = {Head(s)} \cup Els(Tail(s))
         /\ Rising(s) => Rising(Tail(s)) /\ Under({Head(s)}, Els(Tail(s)))
PROOF
  <1> DEFINE t == Tail(s)
  <1>1. /\ Len(s) >= 1 /\ Head(s) = s[1] /\ t \in Seq(Nat) /\ Len(t) = Len(s) - 1
        /\ \A i \in 1..Len(t) : t[i] = s[i + 1]
    OBVIOUS
  <1>2. DOMAIN s = 1..Len(s) /\ DOMAIN t = 1..Len(t) /\ s[1] \in Nat
    BY <1>1
  <1> HIDE DEF t
  <1>3. \A i \in DOMAIN s : i = 1 \/ (i - 1 \in DOMAIN t /\ t[i - 1] = s[i])
    BY <1>1, <1>2, SMTT(20)
  <1>4. \A i \in DOMAIN t : i + 1 \in DOMAIN s /\ t[i] = s[i + 1]
    BY <1>1, <1>2, SMTT(20)
  <1>5. Els(s) = {Head(s)} \cup Els(t)
    <2>1. ASSUME NEW x \in Els(s) PROVE x \in {Head(s)} \cup Els(t)
      <3>1. PICK i \in DOMAIN s : s[i] = x
        BY <2>1, ElementOf
      <3>2. CASE i = 1
        BY <1>1, <3>1, <3>2
      <3>3. CASE i - 1 \in DOMAIN t /\ t[i - 1] = s[i]
        BY <3>1, <3>3, AnElement
      <3> QED
        BY <1>3, <3>1, <3>2, <3>3
    <2>2. ASSUME NEW x \in Els(t) PROVE x \in Els(s)
      <3>1. PICK i \in DOMAIN t : t[i] = x
        BY <2>2, ElementOf
      <3>2. i + 1 \in DOMAIN s /\ s[i + 1] = x
        BY <1>4, <3>1
      <3> QED
        BY <3>2, AnElement
    <2>3. Head(s) \in Els(s)
      <3>1. 1 \in DOMAIN s
        BY <1>1, <1>2
      <3> QED
        BY <1>1, <3>1, AnElement
    <2> QED
      BY <2>1, <2>2, <2>3
  <1>6. ASSUME Rising(s) PROVE Rising(t)
    <2> SUFFICES ASSUME NEW i \in DOMAIN t, NEW j \in DOMAIN t, i < j, t[i] # 0, t[j] # 0
                 PROVE  t[i] < t[j]
      BY DEF Rising
    <2>1. i + 1 < j + 1
      BY <1>2
    <2> QED
      BY <1>4, <1>6, <2>1 DEF Rising
  <1>7. ASSUME Rising(s) PROVE Under({Head(s)}, Els(t))
    <2> SUFFICES ASSUME NEW i \in DOMAIN t, s[1] # 0, t[i] # 0
                 PROVE  s[1] < t[i]
      BY <1>1 DEF Under, Els
    <2>1. 1 \in DOMAIN s /\ 1 < i + 1
      BY <1>1, <1>2
    <2> QED
      BY <1>4, <1>7, <2>1 DEF Rising
  <1> QED
    BY <1>1, <1>2, <1>5, <1>6, <1>7 DEF t

\* of a sequence with a word appended,
LEMMA OfAppend ==
  ASSUME NEW s \in Seq(Nat), NEW x \in Nat
  PROVE  /\ Append(s, x) \in Seq(Nat) /\ Len(Append(s, x)) = Len(s) + 1
         /\ Els(Append(s, x)) = Els(s) \cup {x}
         /\ Rising(s) /\ Under(Els(s), {x}) => Rising(Append(s, x))
PROOF
  <1> DEFINE c == Append(s, x)
  <1>1. /\ c \in Seq(Nat) /\ Len(c) = Len(s) + 1
        /\ \A i \in 1..Len(s) : c[i] = s[i]
        /\ c[Len(s) + 1] = x
    OBVIOUS
  <1> HIDE DEF c
  <1>2. DOMAIN s = 1..Len(s) /\ DOMAIN c = 1..Len(s) + 1
    BY <1>1
  <1>3. \A i \in DOMAIN c : (i \in DOMAIN s /\ c[i] = s[i]) \/ (i = Len(s) + 1 /\ c[i] = x)
    BY <1>1, <1>2
  <1>4. Els(c) = Els(s) \cup {x}
    BY <1>1, <1>2, <1>3 DEF Els
  <1>5. ASSUME Rising(s), Under(Els(s), {x}) PROVE Rising(c)
    <2> SUFFICES ASSUME NEW i \in DOMAIN c, NEW j \in DOMAIN c, i < j, c[i] # 0, c[j] # 0
                 PROVE  c[i] < c[j]
      BY DEF Rising
    <2>1. i \in DOMAIN s /\ c[i] = s[i] /\ c[i] \in Els(s)
      BY <1>2, <1>3 DEF Els
    <2>2. CASE j \in DOMAIN s /\ c[j] = s[j]
      BY <1>5, <2>1, <2>2 DEF Rising
    <2>3. CASE c[j] = x
      BY <1>5, <2>1, <2>3 DEF Under
    <2> QED
      BY <1>3, <2>2, <2>3
  <1> QED
    BY <1>1, <1>4, <1>5 DEF c

\* and of the parts of a sequence.
LEMMA OfSplit ==
  ASSUME NEW s \in Seq(Nat), NEW n \in 0..Len(s)
  PROVE  LET p == SubSeq(s, 1, n)
             q == SubSeq(s, n + 1, Len(s))
         IN  /\ p \in Seq(Nat) /\ Len(p) = n /\ q \in Seq(Nat) /\ Len(q) = Len(s) - n
             /\ \A i \in 1..n : p[i] = s[i]
             /\ \A i \in 1..Len(s) - n : q[i] = s[i + n]
             /\ Els(s) = Els(p) \cup Els(q)
             /\ Rising(s) => Rising(p) /\ Rising(q) /\ Under(Els(p), Els(q))
PROOF
  <1> DEFINE p == SubSeq(s, 1, n)
             q == SubSeq(s, n + 1, Len(s))
  <1>1. p \in Seq(Nat) /\ Len(p) = n /\ \A i \in 1..n : p[i] = s[i]
    OBVIOUS
  <1>2. /\ q \in Seq(Nat) /\ Len(q) = Len(s) - n
        /\ \A i \in 1..Len(s) - n : q[i] = s[i + n]
    <2>1. n + 1 \in 1..Len(s) + 1 /\ Len(s) \in n..Len(s) /\ Len(s) \in Nat
      OBVIOUS
    <2>2. q \in Seq(Nat)
      BY <2>1
    <2>3. Len(q) = Len(s) - n
      BY <2>1
    <2>4. \A i \in 1..Len(s) - n : q[i] = s[i + (n + 1) - 1]
      BY <2>1
    <2> QED
      BY <2>2, <2>3, <2>4
  <1> HIDE DEF p, q
  <1>3. DOMAIN s = 1..Len(s) /\ DOMAIN p = 1..n /\ DOMAIN q = 1..Len(s) - n
    BY <1>1, <1>2
  <1>4. \A i \in DOMAIN p : i \in DOMAIN s /\ p[i] = s[i]
    BY <1>1, <1>3
  <1>5. \A i \in DOMAIN q : i + n \in DOMAIN s /\ q[i] = s[i + n]
    <2> SUFFICES ASSUME NEW i \in 1..Len(s) - n
                 PROVE  i + n \in 1..Len(s) /\ q[i] = s[i + n]
      BY <1>3
    <2> QED
      BY <1>2
  <1>6. \A i \in DOMAIN s : i \in DOMAIN p \/ (i - n \in DOMAIN q /\ q[i - n] = s[i])
    BY <1>2, <1>3
  <1>7. Els(s) = Els(p) \cup Els(q)
    <2>1. ASSUME NEW x \in Els(s) PROVE x \in Els(p) \cup Els(q)
      <3>1. PICK i \in DOMAIN s : s[i] = x
        BY <2>1, ElementOf
      <3>2. CASE i \in DOMAIN p
        BY <1>4, <3>1, <3>2, AnElement
      <3>3. CASE i - n \in DOMAIN q /\ q[i - n] = s[i]
        BY <3>1, <3>3, AnElement
      <3> QED
        BY <1>6, <3>1, <3>2, <3>3
    <2>2. ASSUME NEW x \in Els(p) PROVE x \in Els(s)
      <3>1. PICK i \in DOMAIN p : p[i] = x
        BY <2>2, ElementOf
      <3> QED
        BY <1>4, <3>1, AnElement
    <2>3. ASSUME NEW x \in Els(q) PROVE x \in Els(s)
      <3>1. PICK i \in DOMAIN q : q[i] = x
        BY <2>3, ElementOf
      <3>2. i + n \in DOMAIN s /\ s[i + n] = x
        BY <1>5, <3>1
      <3> QED
        BY <3>2, AnElement
    <2> QED
      BY <2>1, <2>2, <2>3
  <1>8. ASSUME Rising(s) PROVE Rising(p)
    BY <1>4, <1>8 DEF Rising
  <1>9. ASSUME Rising(s) PROVE Rising(q)
    <2> SUFFICES ASSUME NEW i \in DOMAIN q, NEW j \in DOMAIN q, i < j, q[i] # 0, q[j] # 0
                 PROVE  q[i] < q[j]
      BY DEF Rising
    <2>1. i + n < j + n
      BY <1>3
    <2> QED
      BY <1>5, <1>9, <2>1 DEF Rising
  <1>10. ASSUME Rising(s) PROVE Under(Els(p), Els(q))
    <2> SUFFICES ASSUME NEW i \in DOMAIN p, NEW j \in DOMAIN q, p[i] # 0, q[j] # 0
                 PROVE  p[i] < q[j]
      BY DEF Under, Els
    <2>1. i < j + n
      BY <1>3
    <2> QED
      BY <1>4, <1>5, <1>10, <2>1 DEF Rising
  <1> QED
    BY <1>1, <1>2, <1>7, <1>8, <1>9, <1>10 DEF p, q

\* The next n words after the g given so far.
LEMMA OfNew ==
  ASSUME NEW g \in Nat, NEW n \in Nat
  PROVE  LET ws == [i \in 1..n |-> g + i]
         IN  /\ ws \in Seq(Nat) /\ Len(ws) = n
             /\ Els(ws) = (g + 1)..(g + n) /\ Rising(ws)
             /\ \A S \in SUBSET (0..g) : Under(S, Els(ws))
PROOF
  <1> DEFINE ws == [i \in 1..n |-> g + i]
  <1>1. ws \in Seq(Nat) /\ Len(ws) = n /\ DOMAIN ws = 1..n /\ \A i \in 1..n : ws[i] = g + i
    OBVIOUS
  <1> HIDE DEF ws
  <1>2. Els(ws) = (g + 1)..(g + n)
    <2>1. \A x \in (g + 1)..(g + n) : x - g \in 1..n /\ ws[x - g] = x
      BY <1>1
    <2>2. \A i \in 1..n : ws[i] \in (g + 1)..(g + n)
      BY <1>1
    <2> QED
      BY <1>1, <2>1, <2>2 DEF Els
  <1>3. Rising(ws)
    BY <1>1 DEF Rising
  <1>4. \A S \in SUBSET (0..g) : Under(S, Els(ws))
    BY <1>2 DEF Under
  <1> QED
    BY <1>1, <1>2, <1>3, <1>4 DEF ws

\* A stream made of the three parts.
LEMMA OfStream ==
  ASSUME NEW out \in Seq(Nat), NEW fifo \in Seq(Nat), NEW buf \in Seq(Nat),
         InParts(out, fifo, buf)
  PROVE  LET s == out \o fifo \o buf
         IN  s \in Seq(Nat) /\ Rising(s) /\ Els(s) = Els(out) \cup Els(fifo) \cup Els(buf)
PROOF
  <1> DEFINE h == out \o fifo
  <1>1. h \in Seq(Nat) /\ Els(h) = Els(out) \cup Els(fifo) /\ Rising(h)
    BY OfConcat DEF InParts
  <1>2. Under(Els(h), Els(buf))
    BY <1>1 DEF InParts, Under
  <1> HIDE DEF h
  <1>3. /\ h \o buf \in Seq(Nat) /\ Rising(h \o buf) /\ Els(h \o buf) = Els(h) \cup Els(buf)
    BY <1>1, <1>2, OfConcat DEF InParts
  <1> QED
    BY <1>1, <1>3 DEF h

\* The oldest word of the FIFO leaves.
LEMMA PartsShift ==
  ASSUME NEW out \in Seq(Nat), NEW fifo \in Seq(Nat), NEW buf \in Seq(Nat),
         InParts(out, fifo, buf), fifo # << >>
  PROVE  InParts(Append(out, Head(fifo)), Tail(fifo), buf)
PROOF
  <1> DEFINE x == Head(fifo)
             t == Tail(fifo)
             o == Append(out, x)
  <1>1. /\ x \in Nat /\ t \in Seq(Nat) /\ Els(fifo) = {x} \cup Els(t)
        /\ Rising(t) /\ Under({x}, Els(t))
    BY OfTail DEF InParts
  <1> HIDE DEF x, t
  <1>2. Els(out) \subseteq Els(out) /\ Under(Els(out), {x}) /\ Under(Els(out), Els(t))
    BY <1>1 DEF InParts, Under
  <1>3. Rising(o) /\ Els(o) = Els(out) \cup {x}
    BY <1>1, <1>2, OfAppend DEF InParts
  <1> HIDE DEF o
  <1>4. Under(Els(o), Els(t)) /\ Under(Els(o), Els(buf)) /\ Under(Els(t), Els(buf))
    BY <1>1, <1>2, <1>3 DEF InParts, Under
  <1>5. InParts(o, t, buf)
    BY <1>1, <1>3, <1>4 DEF InParts
  <1> QED
    BY <1>5 DEF o, x, t

\* The next n words of the buffer go to the FIFO, empty before.
LEMMA PartsWrite ==
  ASSUME NEW out \in Seq(Nat), NEW buf \in Seq(Nat), InParts(out, << >>, buf), NEW n \in 0..Len(buf)
  PROVE  InParts(out, SubSeq(buf, 1, n), SubSeq(buf, n + 1, Len(buf)))
PROOF
  <1> DEFINE p == SubSeq(buf, 1, n)
             q == SubSeq(buf, n + 1, Len(buf))
  <1>1. Els(buf) = Els(p) \cup Els(q) /\ Rising(p) /\ Rising(q) /\ Under(Els(p), Els(q))
    BY OfSplit DEF InParts
  <1> HIDE DEF p, q
  <1>2. Under(Els(out), Els(p)) /\ Under(Els(out), Els(q))
    BY <1>1 DEF InParts, Under
  <1>3. InParts(out, p, q)
    BY <1>1, <1>2 DEF InParts
  <1> QED
    BY <1>3 DEF p, q

\* Words are thrown away.
LEMMA PartsLess ==
  ASSUME NEW out, NEW fifo, NEW buf, InParts(out, fifo, buf)
  PROVE  /\ InParts(out, << >>, buf) /\ InParts(out, fifo, << >>) /\ InParts(out, << >>, << >>)
PROOF BY OfNothing DEF InParts, Under

-----------------------------------------------------------------------------
(* The words of a call and their answers: stored in got, waiting in rx, on  *)
(* their way in tx, still to write.                                        *)

Chain(got, rx, tx, rest, sent) ==
  LET g == Len(got)
      r == Len(rx)
      t == Len(tx)
  IN  /\ g + r + t + Len(rest) = Len(sent)
      /\ \A i \in 1..g : got[i] = sent[i]
      /\ \A i \in 1..r : rx[i] = sent[g + i]
      /\ \A i \in 1..t : tx[i] = sent[g + r + i]
      /\ \A i \in 1..Len(rest) : rest[i] = sent[g + r + t + i]

\* Before the first round all words of a call are still to write.
LEMMA ChainNew ==
  ASSUME NEW ws \in Seq(Nat)
  PROVE  Chain(<< >>, << >>, << >>, ws, ws)
PROOF
  <1>1. Len(<< >>) = 0 /\ Len(ws) \in Nat
    OBVIOUS
  <1>2. \A i \in 1..Len(ws) : 0 + 0 + 0 + i = i
    BY <1>1
  <1> QED
    BY <1>1, <1>2 DEF Chain

\* The oldest word on its way is answered.
LEMMA ChainShift ==
  ASSUME NEW got \in Seq(Nat), NEW rx \in Seq(Nat), NEW tx \in Seq(Nat), NEW rest \in Seq(Nat),
         NEW sent \in Seq(Nat), Chain(got, rx, tx, rest, sent), tx # << >>
  PROVE  Chain(got, Append(rx, Head(tx)), Tail(tx), rest, sent)
PROOF
  <1> DEFINE g == Len(got)
             r == Len(rx)
             t == Len(tx)
             k == Len(rest)
             a == Append(rx, Head(tx))
             b == Tail(tx)
  <1>1. g \in Nat /\ r \in Nat /\ t \in Nat /\ k \in Nat /\ t >= 1
    OBVIOUS
  <1>2. /\ a \in Seq(Nat) /\ Len(a) = r + 1 /\ a[r + 1] = tx[1]
        /\ \A i \in 1..r : a[i] = rx[i]
    <2>1. tx[1] = Head(tx) /\ Head(tx) \in Nat
      BY <1>1
    <2> QED
      BY <2>1
  <1>3. b \in Seq(Nat) /\ Len(b) = t - 1 /\ \A i \in 1..t - 1 : b[i] = tx[i + 1]
    OBVIOUS
  <1>4. /\ g + r + t + k = Len(sent)
        /\ \A i \in 1..g : got[i] = sent[i]
        /\ \A i \in 1..r : rx[i] = sent[g + i]
        /\ \A i \in 1..t : tx[i] = sent[g + r + i]
        /\ \A i \in 1..k : rest[i] = sent[g + r + t + i]
    BY DEF Chain
  <1> HIDE DEF a, b, g, r, t, k
  <1>5. g + (r + 1) + (t - 1) + k = Len(sent)
    BY <1>1, <1>4
  <1>6. ASSUME NEW i \in 1..(r + 1) PROVE a[i] = sent[g + i]
    <2>1. CASE i \in 1..r
      BY <1>2, <1>4, <2>1
    <2>2. CASE i = r + 1
      <3>1. tx[1] = sent[g + r + 1] /\ g + r + 1 = g + i
        BY <1>1, <1>4, <2>2
      <3> QED
        BY <1>2, <2>2, <3>1
    <2> QED
      BY <1>1, <2>1, <2>2
  <1>7. ASSUME NEW i \in 1..(t - 1) PROVE b[i] = sent[g + (r + 1) + i]
    <2>1. i + 1 \in 1..t /\ g + r + (i + 1) = g + (r + 1) + i
      BY <1>1
    <2>2. tx[i + 1] = sent[g + r + (i + 1)]
      BY <1>4, <2>1
    <2> QED
      BY <1>3, <2>1, <2>2
  <1>8. ASSUME NEW i \in 1..k PROVE rest[i] = sent[g + (r + 1) + (t - 1) + i]
    <2>1. g + r + t + i = g + (r + 1) + (t - 1) + i
      BY <1>1
    <2> QED
      BY <1>4, <2>1
  <1>9. Chain(got, a, b, rest, sent)
    BY <1>2, <1>3, <1>4, <1>5, <1>6, <1>7, <1>8 DEF Chain, g, r, t, k
  <1> QED
    BY <1>9 DEF a, b

\* All answers are stored.
LEMMA ChainRead ==
  ASSUME NEW got \in Seq(Nat), NEW rx \in Seq(Nat), NEW tx \in Seq(Nat), NEW rest \in Seq(Nat),
         NEW sent \in Seq(Nat), Chain(got, rx, tx, rest, sent)
  PROVE  Chain(got \o rx, << >>, tx, rest, sent)
PROOF
  <1> DEFINE g == Len(got)
             r == Len(rx)
             t == Len(tx)
             k == Len(rest)
             a == got \o rx
  <1>1. g \in Nat /\ r \in Nat /\ t \in Nat /\ k \in Nat
    OBVIOUS
  <1>2. a \in Seq(Nat) /\ Len(a) = g + r
    BY ConcatProperties
  <1>3. \A i \in 1..(g + r) : a[i] = IF i <= g THEN got[i] ELSE rx[i - g]
    BY ConcatProperties
  <1>4. /\ g + r + t + k = Len(sent)
        /\ \A i \in 1..g : got[i] = sent[i]
        /\ \A i \in 1..r : rx[i] = sent[g + i]
        /\ \A i \in 1..t : tx[i] = sent[g + r + i]
        /\ \A i \in 1..k : rest[i] = sent[g + r + t + i]
    BY DEF Chain
  <1> HIDE DEF a, g, r, t, k
  <1>5. (g + r) + 0 + t + k = Len(sent)
    BY <1>1, <1>4
  <1>6. ASSUME NEW i \in 1..(g + r) PROVE a[i] = sent[i]
    <2>1. CASE i <= g
      <3>1. i \in 1..g
        BY <1>1, <2>1
      <3> QED
        BY <1>3, <1>4, <2>1, <3>1
    <2>2. CASE ~(i <= g)
      <3>1. i - g \in 1..r /\ g + (i - g) = i
        BY <1>1, <2>2
      <3>2. rx[i - g] = sent[g + (i - g)]
        BY <1>4, <3>1
      <3> QED
        BY <1>3, <2>2, <3>1, <3>2
    <2> QED
      BY <2>1, <2>2
  <1>7. ASSUME NEW i \in 1..t PROVE tx[i] = sent[(g + r) + 0 + i]
    <2>1. g + r + i = (g + r) + 0 + i
      BY <1>1
    <2> QED
      BY <1>4, <2>1
  <1>8. ASSUME NEW i \in 1..k PROVE rest[i] = sent[(g + r) + 0 + t + i]
    <2>1. g + r + t + i = (g + r) + 0 + t + i
      BY <1>1
    <2> QED
      BY <1>4, <2>1
  <1>9. Len(<< >>) = 0 /\ \A i \in 1..0 : FALSE
    OBVIOUS
  <1>10. Chain(a, << >>, tx, rest, sent)
    BY <1>1, <1>2, <1>5, <1>6, <1>7, <1>8, <1>9 DEF Chain, t, k
  <1> QED
    BY <1>10 DEF a

\* The next n words go to the FIFO, empty before.
LEMMA ChainWrite ==
  ASSUME NEW got \in Seq(Nat), NEW rx \in Seq(Nat), NEW rest \in Seq(Nat),
         NEW sent \in Seq(Nat), Chain(got, rx, << >>, rest, sent), NEW n \in 0..Len(rest)
  PROVE  Chain(got, rx, SubSeq(rest, 1, n), SubSeq(rest, n + 1, Len(rest)), sent)
PROOF
  <1> DEFINE g == Len(got)
             r == Len(rx)
             k == Len(rest)
             p == SubSeq(rest, 1, n)
             q == SubSeq(rest, n + 1, Len(rest))
  <1>1. g \in Nat /\ r \in Nat /\ k \in Nat /\ n \in Nat /\ Len(<< >>) = 0
    OBVIOUS
  <1>2. /\ p \in Seq(Nat) /\ Len(p) = n /\ q \in Seq(Nat) /\ Len(q) = k - n
        /\ \A i \in 1..n : p[i] = rest[i]
        /\ \A i \in 1..k - n : q[i] = rest[i + n]
    BY OfSplit
  <1>3. /\ g + r + 0 + k = Len(sent)
        /\ \A i \in 1..g : got[i] = sent[i]
        /\ \A i \in 1..r : rx[i] = sent[g + i]
        /\ \A i \in 1..k : rest[i] = sent[g + r + 0 + i]
    BY <1>1 DEF Chain
  <1> HIDE DEF p, q, g, r, k
  <1>4. n <= k
    BY DEF k
  <1>5. g + r + n + (k - n) = Len(sent)
    <2>1. g + r + n + (k - n) = g + r + 0 + k
      BY <1>1
    <2> QED
      BY <1>3, <2>1
  <1>6. ASSUME NEW i \in 1..n PROVE p[i] = sent[g + r + i]
    <2>1. i \in 1..k /\ g + r + 0 + i = g + r + i
      BY <1>1, <1>4
    <2> QED
      BY <1>2, <1>3, <2>1
  <1>7. ASSUME NEW i \in 1..(k - n) PROVE q[i] = sent[g + r + n + i]
    <2>1. i + n \in 1..k /\ g + r + 0 + (i + n) = g + r + n + i
      BY <1>1, <1>4
    <2>2. rest[i + n] = sent[g + r + 0 + (i + n)]
      BY <1>3, <2>1
    <2> QED
      BY <1>2, <2>1, <2>2
  <1>8. Chain(got, rx, p, q, sent)
    BY <1>2, <1>3, <1>5, <1>6, <1>7 DEF Chain, g, r
  <1> QED
    BY <1>8 DEF p, q

\* What is stored is the start of what was sent, and all of it at the end.
Stored(got, sent) == \A i \in 1..Len(got) : i \in 1..Len(sent) /\ got[i] = sent[i]

\* What a call has stored is always the start of what it sent; with nothing on its
\* way and nothing left to write it is all of it.
LEMMA ChainStored ==
  ASSUME NEW got \in Seq(Nat), NEW rx \in Seq(Nat), NEW tx \in Seq(Nat), NEW rest \in Seq(Nat),
         NEW sent \in Seq(Nat), Chain(got, rx, tx, rest, sent)
  PROVE  /\ Stored(got, sent)
         /\ rx = << >> /\ tx = << >> /\ rest = << >> => got = sent
PROOF
  <1>1. /\ Len(got) + Len(rx) + Len(tx) + Len(rest) = Len(sent)
        /\ \A i \in 1..Len(got) : got[i] = sent[i]
    BY DEF Chain
  <1>2. Len(got) \in Nat /\ Len(rx) \in Nat /\ Len(tx) \in Nat /\ Len(rest) \in Nat /\ Len(<< >>) = 0
    OBVIOUS
  <1>3. Len(got) <= Len(sent)
    BY <1>1, <1>2
  <1>4. Stored(got, sent)
    BY <1>1, <1>2, <1>3 DEF Stored
  <1>5. ASSUME rx = << >>, tx = << >>, rest = << >> PROVE got = sent
    <2>1. Len(got) = Len(sent)
      BY <1>1, <1>2, <1>5
    <2> QED
      BY <1>1, <2>1, SeqEqual
  <1> QED
    BY <1>4, <1>5
===============================================================================
