----------------------------- MODULE UsartProofs -----------------------------
(***************************************************************************)
(* The UART driver: an invariant of the driver, the port and the handler,  *)
(* for every FIFO depth, set of lengths and any number of bytes, and a     *)
(* lemma for each action that preserves it. UsiProofs draws the theorems   *)
(* from it.                                                                *)
(***************************************************************************)
EXTENDS Usart, UsiLemmas

-----------------------------------------------------------------------------
(* The UART driver: the invariant, over the driver's state d, the port u,  *)
(* the history h, what main is in, m, and the handler i.                   *)

UartTypes(d, u, h, m, i) ==
  /\ d \in UsartDriver /\ u \in Ports /\ u.mode = "uart" /\ h \in UsartHistory
  /\ m \in {"free", "putchar", "getchar"} /\ i \in Handler

\* A send is busy until its count is put back, and the buffer holds the rest.
UartCounts(d) == /\ d.txBusy <=> d.txTot # 0
                 /\ d.txCnt + Len(d.txBuf) = d.txTot

\* Nothing runs before the driver is open; a transmitter that is off is empty.
UartOpen(d, u, i) == /\ ~d.open => u.en = {}
                     /\ u.irq => d.open
                     /\ i.on => d.open
                     /\ i.left # {} => i.on
                     /\ ~TxOn(u) => u.tx = << >>

\* There is room for a batch whenever one may be written: when TX_EMPTY is
\* latched, or its part of the handler is still to come, the FIFO is empty,
\* but for the one byte of putchar, during which no send runs.
UartRoom(d, u, m, i) ==
  /\ Len(u.tx) <= Fifo
  /\ m # "putchar" => Len(u.tx) < Fifo
  /\ m = "putchar" => d.txTot = 0
  /\ m # "putchar" /\ ("TX_EMPTY" \in u.ip \/ "TX_EMPTY" \in i.left) => u.tx = << >>

\* Where a send may be served the transmitter is on.
UartDriven(d, u, i) == /\ "TX_EMPTY" \in u.mask /\ d.open /\ d.txTot # 0 => TxOn(u)
                       /\ "TX_EMPTY" \in i.left => "TX_EMPTY" \in u.mask

UartWords(d, u, h) ==
  /\ InParts(h.out, u.tx, d.txBuf)
  /\ Els(h.out) \cup Els(u.tx) \cup Els(d.txBuf) \cup h.drop = 1..h.given

\* A receive that runs has stored less than it was asked for.
UartRecv(d, h) ==
  /\ d.rxBuf /\ d.rxTot # 0 =>
       d.rxTot = h.want /\ Len(h.put) <= d.rxCnt /\ Len(h.put) < h.want

UartGood(d, u, h, m, i) ==
  /\ UartTypes(d, u, h, m, i) /\ UartCounts(d) /\ UartOpen(d, u, i) /\ UartRoom(d, u, m, i)
  /\ UartDriven(d, u, i) /\ UartWords(d, u, h) /\ UartRecv(d, h)

UartInv == UartGood(ud, usi, urec, umain, isr)

\* The port goes from u to v and the driver's words are as they were.
Gently(v, u) ==
  /\ v \in Ports /\ v.mode = u.mode /\ v.irq = u.irq /\ v.mask = u.mask /\ v.tx = u.tx
  /\ TxOn(u) => TxOn(v)
  /\ ~TxOn(v) => v.tx = << >>
  /\ "TX_EMPTY" \in v.ip => "TX_EMPTY" \in u.ip \/ v.tx = << >>

\* A register access that leaves the transmitter on is gentle ...
LEMMA GentleAccess ==
  ASSUME NEW u \in Ports, NEW v, NEW en, NEW ie, NEW rx, NEW ip,
         ~TxOn(u) => u.tx = << >>,
         Access(v, u, en, ie, u.tx, rx, ip),
         TxOn(u) => {"usi", "tx"} \subseteq en,
         "TX_EMPTY" \in ip => "TX_EMPTY" \in u.ip
  PROVE  Gently(v, u) /\ v.en = en
PROOF BY DEF Gently, Access, TxOn

\* ... for one, those that clear bits or switch an interrupt.
LEMMA GentleIrq ==
  ASSUME NEW u \in Ports, ~TxOn(u) => u.tx = << >>, NEW s \in SUBSET Intr
  PROVE  /\ Gently(ClearIrq(u, s), u) /\ Gently(IrqOn(u, s), u) /\ Gently(IrqOff(u, s), u)
         /\ ClearIrq(u, s).en = u.en /\ IrqOn(u, s).en = u.en /\ IrqOff(u, s).en = u.en
PROOF
  <1>1. TxOn(u) => {"usi", "tx"} \subseteq u.en
    BY DEF TxOn
  <1> DEFINE a == ClearIrq(u, s)
             b == IrqOn(u, s)
             c == IrqOff(u, s)
  <1>2. Access(a, u, u.en, u.ie, u.tx, u.rx, u.ip \ s)
    BY ClearIrqIs
  <1>3. Access(b, u, u.en, u.ie \cup s, u.tx, u.rx, u.ip)
    BY IrqOnIs
  <1>4. Access(c, u, u.en, u.ie \ s, u.tx, u.rx, u.ip)
    BY IrqOffIs
  <1> HIDE DEF a, b, c
  <1>5. Gently(a, u) /\ a.en = u.en
    BY <1>2 DEF Gently, Access, TxOn
  <1>6. Gently(b, u) /\ b.en = u.en
    BY <1>3 DEF Gently, Access, TxOn
  <1>7. Gently(c, u) /\ c.en = u.en
    BY <1>4 DEF Gently, Access, TxOn
  <1> QED
    BY <1>5, <1>6, <1>7 DEF a, b, c

\* One gentle change after another.
LEMMA GentleTwice ==
  ASSUME NEW u, NEW v, NEW w, Gently(v, u), Gently(w, v)
  PROVE  Gently(w, u)
PROOF BY DEF Gently

\* No change is one.
LEMMA GentleSame ==
  ASSUME NEW u \in Ports, ~TxOn(u) => u.tx = << >>
  PROVE  Gently(u, u)
PROOF BY DEF Gently

\* Such accesses, and any step of main or the handler that does not pass by
\* the start of a byte of putchar, keep the invariant.
LEMMA UartQuiet ==
  ASSUME NEW d, NEW u, NEW h, NEW m, NEW i, UartGood(d, u, h, m, i),
         NEW v, Gently(v, u),
         NEW m2 \in {"free", "putchar", "getchar"}, m2 = "putchar" <=> m = "putchar",
         NEW i2 \in Handler, i2.left # {} => i2.on, d.open \/ (v.en = u.en /\ i2 = i),
         "TX_EMPTY" \in i2.left =>
           "TX_EMPTY" \in i.left \/ ("TX_EMPTY" \in u.ip /\ "TX_EMPTY" \in u.mask)
  PROVE  UartGood(d, v, h, m2, i2)
PROOF
  <1>1. UartTypes(d, v, h, m2, i2)
    BY DEF UartGood, UartTypes, Gently
  <1>2. UartOpen(d, v, i2)
    BY DEF UartGood, UartOpen, Gently
  <1>3. UartRoom(d, v, m2, i2)
    BY DEF UartGood, UartRoom, Gently
  <1>4. UartDriven(d, v, i2)
    BY DEF UartGood, UartDriven, Gently
  <1>5. UartWords(d, v, h)
    BY DEF UartGood, UartWords, Gently
  <1> QED
    BY <1>1, <1>2, <1>3, <1>4, <1>5 DEF UartGood

\* Bits are cleared at the end of a part of the handler.
LEMMA ClearedGood ==
  ASSUME NEW d, NEW u, NEW h, NEW m, NEW i, UartGood(d, u, h, m, i), d.open, NEW s \in SUBSET Intr,
         NEW j \in Handler, j.left \subseteq i.left, j.left # {} => j.on
  PROVE  UartGood(d, ClearIrq(u, s), h, m, j)
PROOF
  <1> DEFINE v == ClearIrq(u, s)
  <1>1. u \in Ports /\ (~TxOn(u) => u.tx = << >>) /\ m \in {"free", "putchar", "getchar"}
    BY DEF UartGood, UartTypes, UartOpen
  <1>2. Gently(v, u)
    BY <1>1, GentleIrq
  <1> HIDE DEF v
  <1>3. "TX_EMPTY" \in j.left => "TX_EMPTY" \in i.left
    OBVIOUS
  <1>4. UartGood(d, v, h, m, j)
    BY <1>1, <1>2, <1>3, UartQuiet
  <1> QED
    BY <1>4 DEF v

\* So do changes of the receiving half and of the counts of calls.
LEMMA UartSwap ==
  ASSUME NEW d, NEW u, NEW h, NEW m, NEW i, UartGood(d, u, h, m, i),
         NEW d2 \in UsartDriver, NEW h2 \in UsartHistory,
         d2.open = d.open, d2.txBuf = d.txBuf, d2.txTot = d.txTot, d2.txCnt = d.txCnt,
         d2.txBusy = d.txBusy,
         h2.given = h.given, h2.out = h.out, h2.drop = h.drop,
         UartRecv(d2, h2)
  PROVE  UartGood(d2, u, h2, m, i)
PROOF
  <1>1. UartTypes(d2, u, h2, m, i)
    BY DEF UartGood, UartTypes
  <1>2. UartCounts(d2)
    BY DEF UartGood, UartCounts
  <1>3. UartOpen(d2, u, i)
    BY DEF UartGood, UartOpen
  <1>4. UartRoom(d2, u, m, i)
    BY DEF UartGood, UartRoom
  <1>5. UartDriven(d2, u, i)
    BY DEF UartGood, UartDriven
  <1>6. UartWords(d2, u, h2)
    BY DEF UartGood, UartWords
  <1> QED
    BY <1>1, <1>2, <1>3, <1>4, <1>5, <1>6 DEF UartGood

\* The start of a send, by main or by a callback.
LEMMA SendPort ==
  ASSUME NEW s, s.u \in Ports, ~TxOn(s.u) => s.u.tx = << >>, NEW n
  PROVE  LET v == SendEffect(s, n).u
         IN  /\ v \in Ports /\ v.mode = s.u.mode /\ v.irq = s.u.irq /\ v.tx = s.u.tx
             /\ v.mask = s.u.mask \cup {"TX_EMPTY"} /\ TxOn(v)
             /\ "TX_EMPTY" \in v.ip => "TX_EMPTY" \in s.u.ip \/ s.u.tx = << >>
PROOF
  <1> DEFINE u == s.u
             a == Unmask(u, u.mask \cup {"TX_EMPTY"})
             b == IrqOn(a, {"TX_EMPTY"})
             c == IrqOff(b, {"UART_STOP"})
             v == SetEn(c, EnBit)
  <1>1. SendEffect(s, n).u = v
    BY DEF SendEffect
  <1>2. {"TX_EMPTY"} \in SUBSET Intr /\ {"UART_STOP"} \in SUBSET Intr /\ EnBit \in SUBSET EnBit
    BY DEF Intr
  <1>3. u.mask \cup {"TX_EMPTY"} \in SUBSET Intr
    BY <1>2 DEF Ports, Port
  <1>4. /\ a \in Ports /\ a.mask = u.mask \cup {"TX_EMPTY"} /\ a.mode = u.mode /\ a.irq = u.irq
        /\ a.en = u.en /\ a.ip = u.ip /\ a.tx = u.tx
    BY <1>3, UnmaskIs
  <1> HIDE DEF a
  <1>5. Gently(b, a)
    <2>1. ~TxOn(a) => a.tx = << >>
      BY <1>4 DEF TxOn
    <2> QED
      BY <1>2, <1>4, <2>1, GentleIrq
  <1> HIDE DEF b
  <1>6. b \in Ports /\ (~TxOn(b) => b.tx = << >>)
    BY <1>5 DEF Gently
  <1>7. Gently(c, b)
    BY <1>2, <1>6, GentleIrq
  <1> HIDE DEF c
  <1>8. c \in Ports /\ (~TxOn(c) => c.tx = << >>) /\ {"usi", "tx"} \subseteq EnBit
    BY <1>7 DEF Gently, EnBit
  <1>9. Gently(v, c) /\ v.en = EnBit
    <2>1. Access(v, c, EnBit, c.ie, c.tx, c.rx, c.ip)
      BY <1>2, <1>8, SetEnIs
    <2> QED
      BY <1>8, <2>1, GentleAccess
  <1> HIDE DEF v
  <1>10. Gently(v, a) /\ TxOn(v)
    BY <1>5, <1>7, <1>8, <1>9, GentleTwice DEF TxOn
  <1> QED
    BY <1>1, <1>4, <1>10 DEF Gently

\* A send that starts with none in progress keeps the invariant.
LEMMA SendGood ==
  ASSUME NEW s, NEW m, NEW i, UartGood(s.d, s.u, s.h, m, i), s.d.open, s.d.txTot = 0, m # "putchar",
         NEW n \in UsartLens
  PROVE  LET t == SendEffect(s, n) IN UartGood(t.d, t.u, t.h, m, i)
PROOF
  <1> DEFINE t == SendEffect(s, n)
             ws == [k \in 1..n |-> s.h.given + k]
  <1>1. n \in Nat /\ n # 0
    BY UsartAssumption
  <1>2. /\ s.d \in UsartDriver /\ s.h \in UsartHistory /\ s.u \in Ports /\ (~TxOn(s.u) => s.u.tx = << >>)
        /\ s.h.given \in Nat
    BY DEF UartGood, UartTypes, UartOpen, UsartHistory
  <1>3. /\ ws \in Seq(Nat) /\ Len(ws) = n /\ Els(ws) = (s.h.given + 1)..(s.h.given + n) /\ Rising(ws)
        /\ \A S \in SUBSET (0..s.h.given) : Under(S, Els(ws))
    BY <1>1, <1>2, OfNew
  <1>4. /\ t.d = [s.d EXCEPT !.txBuf = ws, !.txTot = n, !.txCnt = 0, !.txBusy = TRUE, !.lastTx = 0]
        /\ t.h = [s.h EXCEPT !.given = @ + n]
    BY DEF SendEffect
  <1>5. /\ t.u \in Ports /\ t.u.mode = s.u.mode /\ t.u.irq = s.u.irq /\ t.u.tx = s.u.tx
        /\ t.u.mask = s.u.mask \cup {"TX_EMPTY"} /\ TxOn(t.u)
        /\ "TX_EMPTY" \in t.u.ip => "TX_EMPTY" \in s.u.ip \/ s.u.tx = << >>
    BY <1>2, SendPort
  <1> HIDE DEF t, ws
  <1>6. /\ t.d \in UsartDriver /\ t.d.open = s.d.open /\ t.d.txBuf = ws /\ t.d.txTot = n /\ t.d.txCnt = 0
        /\ t.d.txBusy = TRUE /\ t.d.rxBuf = s.d.rxBuf /\ t.d.rxTot = s.d.rxTot /\ t.d.rxCnt = s.d.rxCnt
    <2> DEFINE d1 == [s.d EXCEPT !.txBuf = ws]
               d2 == [d1 EXCEPT !.txTot = n]
               d3 == [d2 EXCEPT !.txCnt = 0]
               d4 == [d3 EXCEPT !.txBusy = TRUE]
               d5 == [d4 EXCEPT !.lastTx = 0]
    <2>1. d1 \in UsartDriver /\ d1.open = s.d.open /\ d1.txBuf = ws /\ d1.rxBuf = s.d.rxBuf
          /\ d1.rxTot = s.d.rxTot /\ d1.rxCnt = s.d.rxCnt
      BY <1>2, <1>3 DEF UsartDriver
    <2>2. t.d = d5
      BY <1>2, <1>4 DEF UsartDriver
    <2> HIDE DEF d1
    <2>3. d2 \in UsartDriver /\ d2.open = s.d.open /\ d2.txBuf = ws /\ d2.rxBuf = s.d.rxBuf
          /\ d2.rxTot = s.d.rxTot /\ d2.rxCnt = s.d.rxCnt /\ d2.txTot = n
      BY <1>1, <2>1 DEF UsartDriver
    <2> HIDE DEF d2
    <2>4. d3 \in UsartDriver /\ d3.open = s.d.open /\ d3.txBuf = ws /\ d3.rxBuf = s.d.rxBuf
          /\ d3.rxTot = s.d.rxTot /\ d3.rxCnt = s.d.rxCnt /\ d3.txTot = n /\ d3.txCnt = 0
      BY <2>3 DEF UsartDriver
    <2> HIDE DEF d3
    <2>5. d4 \in UsartDriver /\ d4.open = s.d.open /\ d4.txBuf = ws /\ d4.rxBuf = s.d.rxBuf
          /\ d4.rxTot = s.d.rxTot /\ d4.rxCnt = s.d.rxCnt /\ d4.txTot = n /\ d4.txCnt = 0 /\ d4.txBusy = TRUE
      BY <2>4 DEF UsartDriver
    <2> HIDE DEF d4
    <2>6. d5 \in UsartDriver /\ d5.open = s.d.open /\ d5.txBuf = ws /\ d5.rxBuf = s.d.rxBuf
          /\ d5.rxTot = s.d.rxTot /\ d5.rxCnt = s.d.rxCnt /\ d5.txTot = n /\ d5.txCnt = 0 /\ d5.txBusy = TRUE
      BY <2>5 DEF UsartDriver
    <2> HIDE DEF d5
    <2> QED
      BY <2>2, <2>6
  <1>7. /\ t.h \in UsartHistory /\ t.h.given = s.h.given + n /\ t.h.out = s.h.out /\ t.h.drop = s.h.drop
        /\ t.h.want = s.h.want /\ t.h.put = s.h.put
    <2>1. s.h.given + n \in Nat /\ s.h \in UsartHistory
      BY <1>1, <1>2
    <2>2. t.h = [s.h EXCEPT !.given = s.h.given + n]
      BY <1>4
    <2>3. [s.h EXCEPT !.given = s.h.given + n] \in UsartHistory
      BY <2>1 DEF UsartHistory
    <2> QED
      BY <2>1, <2>2, <2>3 DEF UsartHistory
  <1>8. UartTypes(t.d, t.u, t.h, m, i)
    BY <1>5, <1>6, <1>7 DEF UartGood, UartTypes
  <1>9. UartCounts(t.d)
    BY <1>1, <1>3, <1>6 DEF UartCounts
  <1>10. UartOpen(t.d, t.u, i)
    BY <1>5, <1>6 DEF UartGood, UartOpen
  <1>11. UartRoom(t.d, t.u, m, i)
    BY <1>5, <1>6 DEF UartGood, UartRoom
  <1>12. UartDriven(t.d, t.u, i)
    BY <1>5, <1>6 DEF UartGood, UartDriven
  <1>13. UartWords(t.d, t.u, t.h)
    <2>1. s.d.txBuf = << >>
      <3>1. s.d.txBuf \in Seq(Nat) /\ s.d.txCnt \in Nat
        BY <1>2 DEF UsartDriver
      <3>2. Len(s.d.txBuf) = 0
        BY <3>1 DEF UartGood, UartCounts
      <3> QED
        BY <3>1, <3>2
    <2>2. /\ InParts(s.h.out, s.u.tx, << >>)
          /\ Els(s.h.out) \cup Els(s.u.tx) \cup s.h.drop = 1..s.h.given
      BY <2>1, OfNothing DEF UartGood, UartWords
    <2>3. Els(s.h.out) \in SUBSET (0..s.h.given) /\ Els(s.u.tx) \in SUBSET (0..s.h.given)
      BY <1>2, <2>2
    <2>4. InParts(s.h.out, s.u.tx, ws)
      BY <1>3, <2>2, <2>3 DEF InParts
    <2>5. Els(s.h.out) \cup Els(s.u.tx) \cup Els(ws) \cup s.h.drop = 1..(s.h.given + n)
      BY <1>1, <1>2, <1>3, <2>2
    <2> QED
      BY <1>5, <1>6, <1>7, <2>4, <2>5 DEF UartWords
  <1>14. UartRecv(t.d, t.h)
    BY <1>6, <1>7 DEF UartGood, UartRecv
  <1>15. UartGood(t.d, t.u, t.h, m, i)
    BY <1>8, <1>9, <1>10, <1>11, <1>12, <1>13, <1>14 DEF UartGood
  <1> QED
    BY <1>15 DEF t

\* The states of the driver's functions.
States == [d : UsartDriver, u : Ports, h : UsartHistory]

\* The send is over, or given up: what was still to write is thrown away.
LEMMA SendOver ==
  ASSUME NEW d, NEW u, NEW h, NEW m, NEW i, UartGood(d, u, h, m, i),
         NEW d2 \in UsartDriver, NEW h2 \in UsartHistory,
         d2.open = d.open, d2.txBuf = << >>, d2.txTot = 0, d2.txCnt = 0, d2.txBusy = FALSE,
         d2.rxBuf = d.rxBuf, d2.rxTot = d.rxTot, d2.rxCnt = d.rxCnt,
         h2.given = h.given, h2.out = h.out, h2.drop = h.drop \cup Els(d.txBuf),
         h2.want = h.want, h2.put = h.put
  PROVE  UartGood(d2, u, h2, m, i)
PROOF
  <1>1. UartTypes(d2, u, h2, m, i)
    BY DEF UartGood, UartTypes
  <1>2. UartCounts(d2)
    <2>1. Len(<< >>) = 0
      OBVIOUS
    <2> QED
      BY <2>1 DEF UartCounts
  <1>3. UartOpen(d2, u, i)
    BY DEF UartGood, UartOpen
  <1>4. UartRoom(d2, u, m, i)
    BY DEF UartGood, UartRoom
  <1>5. UartDriven(d2, u, i)
    BY DEF UartGood, UartDriven
  <1>6. UartWords(d2, u, h2)
    <2>1. InParts(h.out, u.tx, << >>)
      BY PartsLess DEF UartGood, UartWords
    <2>2. Els(h.out) \cup Els(u.tx) \cup Els(<< >>) \cup (h.drop \cup Els(d.txBuf)) = 1..h.given
      BY OfNothing DEF UartGood, UartWords
    <2> QED
      BY <2>1, <2>2 DEF UartWords
  <1>7. UartRecv(d2, h2)
    BY DEF UartGood, UartRecv
  <1> QED
    BY <1>1, <1>2, <1>3, <1>4, <1>5, <1>6, <1>7 DEF UartGood

\* What remains of the driver's state after a send.
LEMMA SentDriver ==
  ASSUME NEW d \in UsartDriver
  PROVE  LET e == [d EXCEPT !.lastTx = d.txTot, !.txCnt = 0, !.txBusy = FALSE,
                            !.txBuf = << >>, !.txTot = 0]
         IN  /\ e \in UsartDriver /\ e.open = d.open /\ e.txBuf = << >> /\ e.txTot = 0 /\ e.txCnt = 0
             /\ e.txBusy = FALSE /\ e.rxBuf = d.rxBuf /\ e.rxTot = d.rxTot /\ e.rxCnt = d.rxCnt
PROOF
  <1> DEFINE d1 == [d EXCEPT !.lastTx = d.txTot]
             d2 == [d1 EXCEPT !.txCnt = 0]
             d3 == [d2 EXCEPT !.txBusy = FALSE]
             d4 == [d3 EXCEPT !.txBuf = << >>]
             e == [d4 EXCEPT !.txTot = 0]
             Same(f) == f.open = d.open /\ f.rxBuf = d.rxBuf /\ f.rxTot = d.rxTot /\ f.rxCnt = d.rxCnt
  <1>1. d1 \in UsartDriver /\ Same(d1)
    BY DEF UsartDriver
  <1> HIDE DEF d1
  <1>2. d2 \in UsartDriver /\ Same(d2) /\ d2.txCnt = 0
    BY <1>1 DEF UsartDriver
  <1> HIDE DEF d2
  <1>3. d3 \in UsartDriver /\ Same(d3) /\ d3.txCnt = 0 /\ d3.txBusy = FALSE
    BY <1>2 DEF UsartDriver
  <1> HIDE DEF d3
  <1>4. d4 \in UsartDriver /\ Same(d4) /\ d4.txCnt = 0 /\ d4.txBusy = FALSE /\ d4.txBuf = << >>
    BY <1>3, << >> \in Seq(Nat) DEF UsartDriver
  <1> HIDE DEF d4
  <1>5. /\ e \in UsartDriver /\ Same(e) /\ e.txCnt = 0 /\ e.txBusy = FALSE /\ e.txBuf = << >>
        /\ e.txTot = 0
    BY <1>4 DEF UsartDriver
  <1>6. e = [d EXCEPT !.lastTx = d.txTot, !.txCnt = 0, !.txBusy = FALSE, !.txBuf = << >>, !.txTot = 0]
    BY DEF UsartDriver, d1, d2, d3, d4
  <1> HIDE DEF e
  <1> QED
    BY <1>5, <1>6

\* The handler's part for TX_EMPTY: nothing to do, the end of a send, which
\* finds the FIFO and the buffer empty, or one batch into the empty FIFO.
LEMMA TxEmptyGood ==
  ASSUME NEW s \in States, NEW m, NEW i, UartGood(s.d, s.u, s.h, m, i), i.on, "TX_EMPTY" \in i.left,
         NEW r \in TxEmpty(s), NEW j \in Handler, j.left = i.left \ {"TX_EMPTY"}, j.on
  PROVE  /\ r \in States /\ UartGood(r.d, ClearIrq(r.u, {"TX_EMPTY"}), r.h, m, j)
         /\ s.d.txBusy /\ ~r.d.txBusy => s.d.txBuf = << >> /\ s.u.tx = << >>
PROOF
  <1> DEFINE d == s.d
             u == s.u
             n == Batch(d)
  <1>1. /\ d \in UsartDriver /\ u \in Ports /\ s.h \in UsartHistory /\ d.open
        /\ d.txBuf \in Seq(Nat) /\ d.txTot \in Nat /\ d.txCnt \in Nat /\ d.txBusy \in BOOLEAN
        /\ u.tx \in Seq(Nat) /\ Len(d.txBuf) \in Nat
    BY DEF States, UartGood, UartOpen, UsartDriver, Ports, Port
  <1>2. d.txCnt + Len(d.txBuf) = d.txTot /\ (d.txBusy <=> d.txTot # 0)
    BY DEF UartGood, UartCounts
  <1>3. ~TxOn(u) => u.tx = << >>
    BY DEF UartGood, UartOpen
  <1>4. Fifo - 1 \in Nat /\ Fifo - 1 >= 1 /\ Fifo \in Nat
    BY FifoAssumption
  \* Clearing the bit keeps what holds.
  <1>5. ASSUME NEW q \in States, UartGood(q.d, q.u, q.h, m, i), q.d.open
        PROVE  UartGood(q.d, ClearIrq(q.u, {"TX_EMPTY"}), q.h, m, j)
    <2>1. {"TX_EMPTY"} \in SUBSET Intr
      BY DEF Intr
    <2> QED
      BY <1>5, <2>1, ClearedGood
  <1>6. CASE d.txTot = 0
    <2>1. r = s
      BY <1>6 DEF TxEmpty
    <2> QED
      BY <1>1, <1>5, <2>1
  <1>7. CASE d.txTot # 0 /\ AllWritten(d)
    <2>1. d.txBuf = << >> /\ u.tx = << >> /\ m # "putchar"
      <3>1. Len(d.txBuf) = 0
        BY <1>1, <1>2, <1>7 DEF AllWritten
      <3>2. d.txBuf = << >>
        BY <1>1, <3>1
      <3> QED
        BY <1>7, <3>2 DEF UartGood, UartRoom
    <2> DEFINE a == IrqOff(u, {"TX_EMPTY"})
               v == IrqOn(a, {"UART_STOP"})
               e == [d EXCEPT !.lastTx = d.txTot, !.txCnt = 0, !.txBusy = FALSE,
                              !.txBuf = << >>, !.txTot = 0]
               t == [s EXCEPT !.u = v, !.d = e]
    <2>2. r \in SendAgain(t)
      BY <1>7 DEF TxEmpty
    <2>3. {"TX_EMPTY"} \in SUBSET Intr /\ {"UART_STOP"} \in SUBSET Intr
      BY DEF Intr
    <2>4. Gently(a, u)
      BY <1>1, <1>3, <2>3, GentleIrq
    <2> HIDE DEF a
    <2>5. Gently(v, a)
      <3>1. a \in Ports /\ (~TxOn(a) => a.tx = << >>)
        BY <2>4 DEF Gently
      <3> QED
        BY <2>3, <3>1, GentleIrq
    <2> HIDE DEF v
    <2>6. Gently(v, u) /\ v \in Ports
      BY <2>4, <2>5, GentleTwice DEF Gently
    <2>7. /\ e \in UsartDriver /\ e.open = d.open /\ e.txBuf = << >> /\ e.txTot = 0 /\ e.txCnt = 0
          /\ e.txBusy = FALSE /\ e.rxBuf = d.rxBuf /\ e.rxTot = d.rxTot /\ e.rxCnt = d.rxCnt
      BY <1>1, SentDriver
    <2> HIDE DEF e
    <2>8. t \in States /\ t.d = e /\ t.u = v /\ t.h = s.h
      BY <2>6, <2>7 DEF States
    <2> HIDE DEF t
    <2>9. s.h.drop = s.h.drop \cup Els(d.txBuf)
      BY <2>1, OfNothing
    <2>10. UartGood(e, u, s.h, m, i)
      BY <1>1, <2>7, <2>9, SendOver
    <2>11. i \in Handler /\ m \in {"free", "putchar", "getchar"}
      BY DEF UartGood, UartTypes
    <2>12. UartGood(e, v, s.h, m, i)
      <3>1. e.open
        BY <1>1, <2>7
      <3>2. m = "putchar" <=> m = "putchar"
        OBVIOUS
      <3> QED
        BY <2>6, <2>10, <2>11, <3>1, <3>2, UartQuiet
    <2>13. UartGood(t.d, t.u, t.h, m, i) /\ t.d.open /\ t.d.txTot = 0
      BY <1>1, <2>7, <2>8, <2>12
    <2>14. r \in States /\ UartGood(r.d, r.u, r.h, m, i) /\ r.d.open
      <3>1. CASE r = t
        BY <2>8, <2>13, <3>1
      <3>2. CASE r # t
        <4>1. PICK k \in UsartLens : r = SendEffect(t, k)
          BY <2>2, <3>2 DEF SendAgain
        <4>2. UartGood(r.d, r.u, r.h, m, i)
          BY <2>1, <2>13, <4>1, SendGood
        <4>3. r.d.open
          <5>1. t.d \in UsartDriver
            BY <2>8 DEF States
          <5>2. r.d = [t.d EXCEPT !.txBuf = [x \in 1..k |-> t.h.given + x], !.txTot = k, !.txCnt = 0,
                                  !.txBusy = TRUE, !.lastTx = 0]
            BY <4>1 DEF SendEffect
          <5> QED
            BY <2>13, <5>1, <5>2 DEF UsartDriver
        <4>4. r = [d |-> r.d, u |-> r.u, h |-> r.h]
          BY <4>1 DEF SendEffect
        <4>5. r.d \in UsartDriver /\ r.u \in Ports /\ r.h \in UsartHistory
          BY <4>2 DEF UartGood, UartTypes
        <4> QED
          BY <4>2, <4>3, <4>4, <4>5 DEF States
      <3> QED
        BY <3>1, <3>2
    <2> QED
      BY <1>5, <2>1, <2>14
  <1>8. CASE d.txTot # 0 /\ ~AllWritten(d)
    <2> DEFINE p == SubSeq(d.txBuf, 1, n)
               q == SubSeq(d.txBuf, n + 1, Len(d.txBuf))
               w == WriteTx(u, p)
               v == ClearIrq(w, {"TX_EMPTY"})
               x == ClearIrq(v, {"TX_EMPTY"})
               e == [d EXCEPT !.txBuf = q, !.txCnt = @ + n]
    <2>1. r = [s EXCEPT !.u = v, !.d = e]
      BY <1>8 DEF TxEmpty
    <2>2. n \in 1..Len(d.txBuf) /\ n <= Fifo - 1 /\ n \in 0..Len(d.txBuf)
      BY <1>1, <1>2, <1>4, <1>8 DEF AllWritten, Batch, Least
    <2>3. u.tx = << >> /\ m # "putchar" /\ TxOn(u)
      BY <1>1, <1>8 DEF UartGood, UartRoom, UartDriven
    <2>4. /\ p \in Seq(Nat) /\ Len(p) = n /\ q \in Seq(Nat) /\ Len(q) = Len(d.txBuf) - n
          /\ Els(d.txBuf) = Els(p) \cup Els(q)
      BY <1>1, <2>2, OfSplit
    <2>5. InParts(s.h.out, p, q)
      <3>1. s.h.out \in Seq(Nat) /\ InParts(s.h.out, << >>, d.txBuf)
        BY <1>1, <2>3 DEF UartGood, UartWords, UsartHistory
      <3> QED
        BY <1>1, <2>2, <3>1, PartsWrite
    <2> HIDE DEF p, q, n
    <2>6. Newest(u.tx \o p) = p
      <3>1. << >> \o p = p
        BY <2>4
      <3> QED
        BY <1>4, <2>2, <2>3, <2>4, <3>1, NewestIs
    <2>7. Access(w, u, u.en, u.ie, p, u.rx, u.ip)
      BY <1>1, <2>4, <2>6, WriteTxIs
    <2> HIDE DEF w
    <2>8. w \in Ports
      BY <2>7 DEF Access
    <2>9. Access(v, w, w.en, w.ie, w.tx, w.rx, w.ip \ {"TX_EMPTY"})
      BY <2>8, ClearIrqIs
    <2> HIDE DEF v
    <2>10. v \in Ports
      BY <2>9 DEF Access
    <2>11. Access(x, v, v.en, v.ie, v.tx, v.rx, v.ip \ {"TX_EMPTY"})
      BY <2>10, ClearIrqIs
    <2> HIDE DEF x
    <2>12. w.tx = p /\ w.en = u.en /\ w.irq = u.irq /\ w.mask = u.mask /\ w.mode = u.mode
      BY <2>3, <2>7 DEF Access, TxOn
    <2>13. v.tx = p /\ v.en = u.en /\ v.irq = u.irq /\ v.mask = u.mask /\ v.mode = u.mode
      BY <2>3, <2>9, <2>12 DEF Access, TxOn
    <2>14. /\ x \in Ports /\ x.tx = p /\ x.en = u.en /\ x.irq = u.irq /\ x.mask = u.mask
           /\ x.mode = u.mode /\ TxOn(x)
      BY <2>3, <2>11, <2>13 DEF Access, TxOn
    <2>15. p # << >>
      BY <2>2, <2>4
    <2>16. "TX_EMPTY" \notin x.ip
      BY <2>11, <2>14, <2>15 DEF Access
    <2>17. /\ e \in UsartDriver /\ e.open = d.open /\ e.txBuf = q /\ e.txTot = d.txTot
           /\ e.txCnt = d.txCnt + n /\ e.txBusy = d.txBusy
           /\ e.rxBuf = d.rxBuf /\ e.rxTot = d.rxTot /\ e.rxCnt = d.rxCnt
      <3>1. n \in Nat /\ d.txCnt + n \in Nat
        BY <1>1, <2>2
      <3> DEFINE f == [d EXCEPT !.txBuf = q]
      <3>2. /\ f \in UsartDriver /\ f.open = d.open /\ f.txBuf = q /\ f.txTot = d.txTot
            /\ f.txCnt = d.txCnt /\ f.txBusy = d.txBusy
            /\ f.rxBuf = d.rxBuf /\ f.rxTot = d.rxTot /\ f.rxCnt = d.rxCnt
        BY <1>1, <2>4 DEF UsartDriver
      <3>3. e = [f EXCEPT !.txCnt = d.txCnt + n]
        BY <1>1 DEF UsartDriver
      <3> HIDE DEF e, f
      <3> QED
        BY <3>1, <3>2, <3>3 DEF UsartDriver
    <2> HIDE DEF e
    <2>18. r \in States /\ r.d = e /\ r.u = v /\ r.h = s.h
      BY <2>1, <2>10, <2>17 DEF States
    <2>19. UartTypes(e, x, s.h, m, j)
      BY <1>1, <2>14, <2>17 DEF UartGood, UartTypes
    <2>20. UartCounts(e)
      <3>1. n \in Nat /\ Len(q) = Len(d.txBuf) - n
        BY <2>2, <2>4
      <3>2. (d.txCnt + n) + (Len(d.txBuf) - n) = d.txTot
        BY <1>1, <1>2, <3>1
      <3> QED
        BY <1>2, <2>17, <3>1, <3>2 DEF UartCounts
    <2>21. UartOpen(e, x, j)
      BY <1>1, <2>14, <2>17 DEF UartGood, UartOpen
    <2>22. UartRoom(e, x, m, j)
      BY <1>4, <2>2, <2>3, <2>4, <2>14, <2>16, <2>17 DEF UartRoom
    <2>23. UartDriven(e, x, j)
      BY <2>14, <2>17 DEF UartGood, UartDriven
    <2>24. UartWords(e, x, s.h)
      <3>1. Els(s.h.out) \cup Els(p) \cup Els(q) \cup s.h.drop = 1..s.h.given
        BY <2>3, <2>4, OfNothing DEF UartGood, UartWords
      <3> QED
        BY <2>5, <2>14, <2>17, <3>1 DEF UartWords
    <2>25. UartRecv(e, s.h)
      BY <2>17 DEF UartGood, UartRecv
    <2>26. UartGood(e, x, s.h, m, j)
      BY <2>19, <2>20, <2>21, <2>22, <2>23, <2>24, <2>25 DEF UartGood
    <2>27. UartGood(r.d, ClearIrq(r.u, {"TX_EMPTY"}), r.h, m, j)
      BY <2>18, <2>26 DEF x
    <2> QED
      BY <2>17, <2>18, <2>27
  <1> QED
    BY <1>6, <1>7, <1>8

\* What the receiving half of the handler may do to a state.
Received(r, s) ==
  /\ r \in States
  /\ \A m, i : UartGood(s.d, s.u, s.h, m, i) => UartGood(r.d, r.u, r.h, m, i)
  /\ r.d.open = s.d.open /\ r.d.txBusy = s.d.txBusy

\* One change of the receiving half after another.
LEMMA ReceivedTwice ==
  ASSUME NEW q, NEW r, NEW s, Received(r, q), Received(q, s)
  PROVE  Received(r, s)
PROOF BY DEF Received

\* No change is one.
LEMMA ReceivedSame ==
  ASSUME NEW s \in States
  PROVE  Received(s, s)
PROOF BY DEF Received

\* The start of a receive changes the receiving half alone ...
LEMMA ReceiveGood ==
  ASSUME NEW s \in States, NEW n \in UsartLens
  PROVE  Received(ReceiveEffect(s, n), s)
PROOF
  <1> DEFINE r == ReceiveEffect(s, n)
             e1 == [s.d EXCEPT !.rxBuf = TRUE]
             e2 == [e1 EXCEPT !.rxTot = n]
             e3 == [e2 EXCEPT !.rxCnt = 0]
             e4 == [e3 EXCEPT !.rxBusy = TRUE]
             e == [e4 EXCEPT !.lastRx = 0]
             h1 == [s.h EXCEPT !.want = n]
             h2 == [h1 EXCEPT !.put = << >>]
             h == [h2 EXCEPT !.recvs = s.h.recvs + 1]
             Same(f) == /\ f.open = s.d.open /\ f.txBuf = s.d.txBuf /\ f.txTot = s.d.txTot
                        /\ f.txCnt = s.d.txCnt /\ f.txBusy = s.d.txBusy
             Alike(g) == g.given = s.h.given /\ g.out = s.h.out /\ g.drop = s.h.drop
  <1>1. n \in Nat /\ n > 0 /\ s.d \in UsartDriver /\ s.u \in Ports /\ s.h \in UsartHistory
    BY UsartAssumption DEF States
  <1>2. r = [[s EXCEPT !.d = e] EXCEPT !.h = h]
    <2>1. e = [s.d EXCEPT !.rxBuf = TRUE, !.rxTot = n, !.rxCnt = 0, !.rxBusy = TRUE, !.lastRx = 0]
      BY <1>1 DEF UsartDriver
    <2>2. h = [s.h EXCEPT !.want = n, !.put = << >>, !.recvs = s.h.recvs + 1]
      BY <1>1 DEF UsartHistory
    <2> HIDE DEF e, h
    <2> QED
      BY <2>1, <2>2 DEF ReceiveEffect
  <1>3. e1 \in UsartDriver /\ Same(e1) /\ e1.rxBuf = TRUE
    BY <1>1 DEF UsartDriver
  <1> HIDE DEF e1
  <1>4. e2 \in UsartDriver /\ Same(e2) /\ e2.rxBuf = TRUE /\ e2.rxTot = n
    BY <1>1, <1>3 DEF UsartDriver
  <1> HIDE DEF e2
  <1>5. e3 \in UsartDriver /\ Same(e3) /\ e3.rxBuf = TRUE /\ e3.rxTot = n /\ e3.rxCnt = 0
    BY <1>4 DEF UsartDriver
  <1> HIDE DEF e3
  <1>6. e4 \in UsartDriver /\ Same(e4) /\ e4.rxBuf = TRUE /\ e4.rxTot = n /\ e4.rxCnt = 0
    BY <1>5 DEF UsartDriver
  <1> HIDE DEF e4
  <1>7. e \in UsartDriver /\ Same(e) /\ e.rxBuf = TRUE /\ e.rxTot = n /\ e.rxCnt = 0
    BY <1>6 DEF UsartDriver
  <1> HIDE DEF e
  <1>8. h1 \in UsartHistory /\ Alike(h1) /\ h1.want = n /\ h1.recvs = s.h.recvs
    BY <1>1 DEF UsartHistory
  <1> HIDE DEF h1
  <1>9. h2 \in UsartHistory /\ Alike(h2) /\ h2.want = n /\ h2.put = << >> /\ h2.recvs = s.h.recvs
    BY <1>8, << >> \in Seq(Nat) DEF UsartHistory
  <1> HIDE DEF h2
  <1>10. h \in UsartHistory /\ Alike(h) /\ h.want = n /\ h.put = << >>
    BY <1>9, s.h.recvs + 1 \in Nat DEF UsartHistory
  <1> HIDE DEF h
  <1>11. r \in States /\ r.d = e /\ r.u = s.u /\ r.h = h
    BY <1>1, <1>2, <1>7, <1>10 DEF States
  <1> HIDE DEF r
  <1>12. UartRecv(e, h)
    <2>1. Len(<< >>) = 0
      BY <1>1
    <2> QED
      BY <1>1, <1>7, <1>10, <2>1 DEF UartRecv
  <1>13. ASSUME NEW m, NEW i, UartGood(s.d, s.u, s.h, m, i)
         PROVE  UartGood(e, s.u, h, m, i)
    BY <1>7, <1>10, <1>12, <1>13, UartSwap
  <1>14. Received(r, s)
    BY <1>7, <1>11, <1>13 DEF Received
  <1> QED
    BY <1>14 DEF r

\* ... also when a callback starts it.
LEMMA ReceiveAgainGood ==
  ASSUME NEW s \in States, NEW r \in ReceiveAgain(s)
  PROVE  Received(r, s)
PROOF BY ReceiveGood, ReceivedSame DEF ReceiveAgain

\* The port alone changes, gently.
LEMMA ReceivedPort ==
  ASSUME NEW s \in States, s.d.open, NEW v, Gently(v, s.u)
  PROVE  Received([s EXCEPT !.u = v], s)
PROOF
  <1> DEFINE r == [s EXCEPT !.u = v]
  <1>1. v \in Ports /\ r \in States /\ r.d = s.d /\ r.h = s.h /\ r.u = v
    BY DEF States, Gently
  <1> HIDE DEF r
  <1>2. ASSUME NEW m, NEW i, UartGood(s.d, s.u, s.h, m, i)
        PROVE  UartGood(s.d, v, s.h, m, i)
    <2>1. /\ m \in {"free", "putchar", "getchar"} /\ i \in Handler /\ (i.left # {} => i.on)
      BY <1>2 DEF UartGood, UartTypes, UartOpen
    <2> QED
      BY <1>2, <2>1, UartQuiet
  <1>3. Received(r, s)
    BY <1>1, <1>2 DEF Received
  <1> QED
    BY <1>3 DEF r

\* Flushing the receive FIFO leaves the transmitter.
LEMMA FlushRxGood ==
  ASSUME NEW u \in Ports, ~TxOn(u) => u.tx = << >>
  PROVE  Gently(Flush(u, {"rx"}), u)
PROOF
  <1> DEFINE v == Flush(u, {"rx"})
  <1>1. {"rx"} \in SUBSET EnBit
    BY DEF EnBit
  <1>2. Access(v, u, u.en \cup {"rx"}, u.ie, u.tx, << >>, u.ip)
    BY <1>1, FlushIs
  <1> HIDE DEF v
  <1>3. Gently(v, u)
    BY <1>2 DEF Gently, Access, TxOn
  <1> QED
    BY <1>3 DEF v

\* The count of the FIFO, four bits of it, is not above what the FIFO holds.
LEMMA RemainderIs ==
  ASSUME NEW a \in Nat, NEW f \in Nat \ {0}
  PROVE  a % f \in Nat /\ a % f <= a
PROOF OBVIOUS

\* The batch a receive stores: it is over, or it still lacks what its count
\* says it lacks.
LEMMA RecvDataGood ==
  ASSUME NEW s \in States, NEW m, NEW i, UartGood(s.d, s.u, s.h, m, i), s.d.open,
         NEW r \in RecvData(s)
  PROVE  r \in States /\ UartGood(r.d, r.u, r.h, m, i) /\ r.d.open /\ r.d.txBusy = s.d.txBusy
PROOF
  <1> DEFINE d == s.d
             n == Arrivals(s)
             p == SubSeq(s.u.rx, 1, n)
             v == TakeRx(s.u, n)
             h == [s.h EXCEPT !.put = s.h.put \o p]
             t == [s EXCEPT !.u = v, !.h = h]
  <1>1. /\ d \in UsartDriver /\ s.u \in Ports /\ s.h \in UsartHistory
        /\ s.u.rx \in Seq(Nat) /\ s.h.put \in Seq(Nat) /\ d.rxTot \in Nat /\ d.rxCnt \in Nat
        /\ s.h.want \in Nat
    BY DEF States, UsartDriver, UsartHistory, Ports, Port
  <1>2. CASE d.rxTot = 0 \/ ~d.rxBuf
    <2>1. r \in ReceiveAgain(s)
      BY <1>2 DEF RecvData
    <2> QED
      BY <2>1, ReceiveAgainGood DEF Received
  <1>3. CASE ~(d.rxTot = 0 \/ ~d.rxBuf)
    <2>1. d.rxTot = s.h.want /\ Len(s.h.put) <= d.rxCnt /\ Len(s.h.put) < s.h.want
      BY <1>3 DEF UartGood, UartRecv
    <2>2. n \in 0..Len(s.u.rx) /\ n <= d.rxTot /\ n \in Nat
      <3>1. Len(s.u.rx) \in Nat
        BY <1>1
      <3>2. Len(s.u.rx) % Fifo \in Nat /\ Len(s.u.rx) % Fifo <= Len(s.u.rx)
        BY <3>1, RemainderIs, FifoAssumption
      <3> QED
        BY <1>1, <3>1, <3>2 DEF Arrivals, Least
    <2>3. r \in IF d.rxCnt + n >= d.rxTot
                THEN ReceiveAgain([t EXCEPT !.d = [d EXCEPT !.lastRx = d.rxTot, !.rxCnt = 0,
                                                            !.rxBuf = FALSE, !.rxBusy = FALSE, !.rxTot = 0]])
                ELSE {[t EXCEPT !.d = [d EXCEPT !.rxCnt = @ + n]]}
      <3>1. t = [s EXCEPT !.u = TakeRx(@, n), !.h = [s.h EXCEPT !.put = @ \o SubSeq(s.u.rx, 1, n)]]
        OBVIOUS
      <3> QED
        BY <1>3, <3>1 DEF RecvData
    <2>4. p \in Seq(Nat) /\ Len(p) = n
      BY <1>1, <2>2, OfSplit
    <2>5. Gently(v, s.u)
      <3>1. Access(v, s.u, s.u.en, s.u.ie, s.u.tx, SubSeq(s.u.rx, n + 1, Len(s.u.rx)), s.u.ip)
        BY <1>1, <2>2, TakeRxIs
      <3>2. ~TxOn(s.u) => s.u.tx = << >>
        BY DEF UartGood, UartOpen
      <3> HIDE DEF v
      <3> QED
        BY <3>1, <3>2 DEF Gently, Access, TxOn
    <2> HIDE DEF v, p, n
    <2>6. /\ h \in UsartHistory /\ h.put = s.h.put \o p /\ Len(h.put) = Len(s.h.put) + n
          /\ h.want = s.h.want /\ h.given = s.h.given /\ h.out = s.h.out /\ h.drop = s.h.drop
      <3>1. s.h.put \o p \in Seq(Nat) /\ Len(s.h.put \o p) = Len(s.h.put) + n
        BY <1>1, <2>4, ConcatProperties
      <3>2. /\ h \in UsartHistory /\ h.put = s.h.put \o p
            /\ h.want = s.h.want /\ h.given = s.h.given /\ h.out = s.h.out /\ h.drop = s.h.drop
        BY <1>1, <3>1 DEF UsartHistory
      <3> QED
        BY <3>1, <3>2
    <2> HIDE DEF h
    <2>7. UartGood(d, v, s.h, m, i)
      <3>1. /\ m \in {"free", "putchar", "getchar"} /\ i \in Handler /\ (i.left # {} => i.on)
        BY DEF UartGood, UartTypes, UartOpen
      <3> QED
        BY <2>5, <3>1, UartQuiet
    <2>8. t \in States /\ t.d = d /\ t.u = v /\ t.h = h
      BY <1>1, <2>5, <2>6 DEF States, Gently
    <2> HIDE DEF t
    <2>10. CASE d.rxCnt + n >= d.rxTot
      <3> DEFINE e1 == [d EXCEPT !.lastRx = d.rxTot]
                 e2 == [e1 EXCEPT !.rxCnt = 0]
                 e3 == [e2 EXCEPT !.rxBuf = FALSE]
                 e4 == [e3 EXCEPT !.rxBusy = FALSE]
                 e == [e4 EXCEPT !.rxTot = 0]
                 Same(f) == /\ f.open = s.d.open /\ f.txBuf = s.d.txBuf /\ f.txTot = s.d.txTot
                            /\ f.txCnt = s.d.txCnt /\ f.txBusy = s.d.txBusy
                 q == [t EXCEPT !.d = e]
      <3>1. e1 \in UsartDriver /\ Same(e1)
        BY <1>1 DEF UsartDriver
      <3>2. e = [d EXCEPT !.lastRx = d.rxTot, !.rxCnt = 0, !.rxBuf = FALSE, !.rxBusy = FALSE, !.rxTot = 0]
        BY <1>1 DEF UsartDriver
      <3>3. r \in ReceiveAgain(q)
        BY <2>3, <2>10, <3>2
      <3> HIDE DEF e1
      <3>4. e2 \in UsartDriver /\ Same(e2)
        BY <3>1 DEF UsartDriver
      <3> HIDE DEF e2
      <3>5. e3 \in UsartDriver /\ Same(e3)
        BY <3>4 DEF UsartDriver
      <3> HIDE DEF e3
      <3>6. e4 \in UsartDriver /\ Same(e4)
        BY <3>5 DEF UsartDriver
      <3> HIDE DEF e4
      <3>7. e \in UsartDriver /\ Same(e) /\ e.rxTot = 0
        BY <3>6 DEF UsartDriver
      <3> HIDE DEF e
      <3>8. UartRecv(e, h)
        BY <3>7 DEF UartRecv
      <3>9. UartGood(e, v, h, m, i)
        BY <2>6, <2>7, <3>7, <3>8, UartSwap
      <3>10. q \in States /\ q.d = e /\ q.u = v /\ q.h = h
        BY <2>8, <3>7 DEF States
      <3> HIDE DEF q
      <3>11. Received(r, q)
        BY <3>3, <3>10, ReceiveAgainGood
      <3> QED
        BY <3>7, <3>9, <3>10, <3>11 DEF Received
    <2>11. CASE ~(d.rxCnt + n >= d.rxTot)
      <3> DEFINE e == [d EXCEPT !.rxCnt = d.rxCnt + n]
      <3>1. r = [t EXCEPT !.d = e]
        BY <2>3, <2>11
      <3>2. /\ e \in UsartDriver
            /\ e.open = d.open /\ e.txBuf = d.txBuf /\ e.txTot = d.txTot
            /\ e.txCnt = d.txCnt /\ e.txBusy = d.txBusy
            /\ e.rxCnt = d.rxCnt + n /\ e.rxTot = d.rxTot
        <4>1. d.rxCnt + n \in Nat
          BY <1>1, <2>2
        <4> QED
          BY <1>1, <4>1 DEF UsartDriver
      <3> HIDE DEF e
      <3>3. Len(h.put) <= e.rxCnt /\ Len(h.put) < h.want /\ e.rxTot = h.want
        <4>1. Len(s.h.put) \in Nat
          BY <1>1
        <4> QED
          BY <1>1, <2>1, <2>2, <2>6, <2>11, <3>2, <4>1
      <3>4. UartRecv(e, h)
        BY <3>3 DEF UartRecv
      <3>5. UartGood(e, v, h, m, i)
        BY <2>6, <2>7, <3>2, <3>4, UartSwap
      <3>6. r \in States /\ r.d = e /\ r.u = v /\ r.h = h
        BY <2>8, <3>1, <3>2 DEF States
      <3> QED
        BY <3>2, <3>5, <3>6
    <2> QED
      BY <2>10, <2>11
  <1> QED
    BY <1>2, <1>3

\* The handler's part for a stop bit keeps the invariant and the send as it was.
LEMMA CharTimeoutGood ==
  ASSUME NEW s \in States, NEW m, NEW i, UartGood(s.d, s.u, s.h, m, i), s.d.open,
         NEW r \in CharTimeout(s)
  PROVE  r \in States /\ UartGood(r.d, r.u, r.h, m, i) /\ r.d.open /\ r.d.txBusy = s.d.txBusy
PROOF
  <1>1. CASE r \in RecvData(s)
    BY <1>1, RecvDataGood
  <1>2. CASE r \in ReceiveAgain(s)
    BY <1>2, ReceiveAgainGood DEF Received
  <1>3. CASE r = [s EXCEPT !.u = Flush(s.u, {"rx"})]
    <2>1. s.u \in Ports /\ (~TxOn(s.u) => s.u.tx = << >>)
      BY DEF UartGood, UartOpen, States
    <2>2. Gently(Flush(s.u, {"rx"}), s.u)
      BY <2>1, FlushRxGood
    <2> QED
      BY <1>3, <2>2, ReceivedPort DEF Received
  <1> QED
    BY <1>1, <1>2, <1>3 DEF CharTimeout

\* So does its part for a parity error.
LEMMA RecvLineGood ==
  ASSUME NEW s \in States, NEW m, NEW i, UartGood(s.d, s.u, s.h, m, i), s.d.open,
         NEW r \in RecvLine(s)
  PROVE  r \in States /\ UartGood(r.d, r.u, r.h, m, i) /\ r.d.open /\ r.d.txBusy = s.d.txBusy
PROOF
  <1> DEFINE q == [s EXCEPT !.u = Flush(s.u, {"rx"})]
  <1>1. s.u \in Ports /\ (~TxOn(s.u) => s.u.tx = << >>)
    BY DEF UartGood, UartOpen, States
  <1>2. Gently(Flush(s.u, {"rx"}), s.u)
    BY <1>1, FlushRxGood
  <1>3. Received(q, s)
    BY <1>2, ReceivedPort
  <1>4. r \in ReceiveAgain(q)
    BY DEF RecvLine
  <1> HIDE DEF q
  <1>5. Received(r, s)
    BY <1>3, <1>4, ReceiveAgainGood, ReceivedTwice DEF Received
  <1> QED
    BY <1>5 DEF Received

\* A call that is over leaves the counts, and what it threw away.
LEMMA HistoryAfter ==
  ASSUME NEW h \in UsartHistory, NEW drop \in SUBSET Nat
  PROVE  LET g == [h EXCEPT !.drop = @ \cup drop, !.calls = @ + 1]
         IN  /\ g \in UsartHistory /\ g.drop = h.drop \cup drop /\ g.given = h.given /\ g.out = h.out
             /\ g.want = h.want /\ g.put = h.put
PROOF
  <1> DEFINE n == h.drop \cup drop
             k == h.calls + 1
             g == [h EXCEPT !.drop = n]
  <1>1. h.drop \in SUBSET Nat /\ h.calls \in Nat
    BY DEF UsartHistory
  <1>2. n \in SUBSET Nat /\ k \in Nat
    <2>1. \A x \in n : x \in Nat
      BY <1>1
    <2>2. k \in Nat
      BY <1>1
    <2> QED
      BY <2>1, <2>2
  <1>3. [h EXCEPT !.drop = @ \cup drop, !.calls = @ + 1] = [g EXCEPT !.calls = k]
    BY DEF UsartHistory
  <1> HIDE DEF n, k
  <1>4. /\ g \in UsartHistory /\ g.drop = n /\ g.given = h.given /\ g.out = h.out
        /\ g.want = h.want /\ g.put = h.put
    BY <1>2 DEF UsartHistory
  <1> HIDE DEF g
  <1> DEFINE f == [g EXCEPT !.calls = k]
  <1>5. /\ f \in UsartHistory /\ f.drop = n /\ f.given = h.given /\ f.out = h.out
        /\ f.want = h.want /\ f.put = h.put
    BY <1>2, <1>4 DEF UsartHistory
  <1> QED
    BY <1>3, <1>5 DEF n

\* The FIFO is emptied, by a call of main: what it held is thrown away.
LEMMA UartEmptied ==
  ASSUME NEW d, NEW u, NEW h, NEW m, NEW i, UartGood(d, u, h, m, i), ~i.on,
         NEW d2 \in UsartDriver, NEW v \in Ports, NEW h2 \in UsartHistory,
         d2.txBuf = d.txBuf, d2.txTot = d.txTot, d2.txCnt = d.txCnt, d2.txBusy = d.txBusy,
         d2.rxBuf = d.rxBuf, d2.rxTot = d.rxTot, d2.rxCnt = d.rxCnt,
         v.mode = u.mode, v.tx = << >>, ~d2.open => v.en = {}, v.irq => d2.open,
         "TX_EMPTY" \in v.mask /\ d2.open /\ d2.txTot # 0 => TxOn(v),
         h2.given = h.given, h2.out = h.out, h2.drop = h.drop \cup Els(u.tx),
         h2.want = h.want, h2.put = h.put
  PROVE  UartGood(d2, v, h2, m, i)
PROOF
  <1>1. UartTypes(d2, v, h2, m, i)
    BY DEF UartGood, UartTypes
  <1>2. UartCounts(d2)
    BY DEF UartGood, UartCounts
  <1>3. i.left = {} /\ i.on = FALSE
    BY DEF UartGood, UartOpen, UartTypes, Handler
  <1>4. UartOpen(d2, v, i)
    BY <1>3 DEF UartOpen
  <1>5. UartRoom(d2, v, m, i)
    <2>1. Len(<< >>) = 0
      OBVIOUS
    <2> QED
      BY <2>1, FifoAssumption DEF UartGood, UartRoom
  <1>6. UartDriven(d2, v, i)
    BY <1>3 DEF UartDriven
  <1>7. UartWords(d2, v, h2)
    BY OfNothing, PartsLess DEF UartGood, UartWords
  <1>8. UartRecv(d2, h2)
    BY DEF UartGood, UartRecv
  <1> QED
    BY <1>1, <1>2, <1>4, <1>5, <1>6, <1>7, <1>8 DEF UartGood

-----------------------------------------------------------------------------
(* The actions of the UART mode, one by one.                               *)

\* What the invariant says of the types, for the lemmas about the steps.
LEMMA UartFacts ==
  ASSUME UartInv
  PROVE  /\ ud \in UsartDriver /\ usi \in Ports /\ usi.mode = "uart" /\ urec \in UsartHistory
         /\ umain \in {"free", "putchar", "getchar"} /\ isr \in Handler
         /\ (~TxOn(usi) => usi.tx = << >>) /\ (isr.left # {} => isr.on) /\ (isr.on => ud.open)
         /\ UsartState \in States
         /\ UsartState.d = ud /\ UsartState.u = usi /\ UsartState.h = urec
PROOF BY DEF UartInv, UartGood, UartTypes, UartOpen, States, UsartState

\* The handler is entered: TX_EMPTY is served only if the FIFO has run empty.
LEMMA UartEnterStep ==
  ASSUME UartInv, UsartEnter
  PROVE  UartInv'
PROOF
  <1> USE UartFacts
  <1>1. usi.irq /\ usi' = usi /\ ud' = ud /\ umain' = umain /\ urec' = urec
    BY DEF UsartEnter, Serve
  <1>2. /\ isr' \in Handler /\ isr'.on /\ isr'.left \subseteq Pending(usi)
    BY DEF UsartEnter, Serve, Handler, Pending, Ports, Port, UartServed
  <1>3. ud.open /\ Gently(usi, usi)
    BY <1>1, GentleSame DEF UartInv, UartGood, UartOpen
  <1>4. "TX_EMPTY" \in isr'.left => "TX_EMPTY" \in usi.ip /\ "TX_EMPTY" \in usi.mask
    BY <1>2 DEF Pending
  <1>5. UartGood(ud, usi, urec, umain, isr')
    BY <1>2, <1>3, <1>4, UartQuiet DEF UartInv
  <1> QED
    BY <1>1, <1>5 DEF UartInv

\* The handler when a bit is served.
LEMMA ServedIs ==
  ASSUME isr \in Handler, NEW bit
  PROVE  /\ Served(bit) \in Handler /\ Served(bit).left = isr.left \ {bit} /\ Served(bit).on = isr.on
PROOF BY DEF Served, Handler

\* TX_EMPTY is served: a batch goes to an empty FIFO, or the send ends, its buffer
\* and the FIFO empty.
LEMMA UartServeTxStep ==
  ASSUME UartInv, UsartServeTx
  PROVE  UartInv' /\ (ud.txBusy /\ ~ud'.txBusy => ud.txBuf = << >> /\ usi.tx = << >>)
PROOF
  <1> USE UartFacts
  <1> DEFINE s == UsartState
             j == Served("TX_EMPTY")
  <1>1. PICK r \in TxEmpty(s) : UsartBecomes([r EXCEPT !.u = ClearIrq(@, {"TX_EMPTY"})])
    BY DEF UsartServeTx, UsartServe
  <1>2. isr.on /\ "TX_EMPTY" \in isr.left /\ isr' = j /\ umain' = umain
    BY DEF UsartServeTx, UsartServe, Serving
  <1>3. j \in Handler /\ j.left = isr.left \ {"TX_EMPTY"} /\ j.on
    BY <1>2, ServedIs
  <1>4. UartGood(s.d, s.u, s.h, umain, isr)
    BY DEF UartInv
  <1> HIDE DEF s, j
  <1>5. s \in States /\ s.d = ud /\ s.u = usi
    BY DEF s
  <1>6. /\ r \in States /\ UartGood(r.d, ClearIrq(r.u, {"TX_EMPTY"}), r.h, umain, j)
        /\ s.d.txBusy /\ ~r.d.txBusy => s.d.txBuf = << >> /\ s.u.tx = << >>
    BY <1>1, <1>2, <1>3, <1>4, <1>5, TxEmptyGood
  <1>7. ud' = r.d /\ usi' = ClearIrq(r.u, {"TX_EMPTY"}) /\ urec' = r.h
    BY <1>1, <1>6 DEF UsartBecomes, States
  <1> QED
    BY <1>2, <1>5, <1>6, <1>7 DEF UartInv

\* The parts that only receive.
LEMMA UartServeRest ==
  ASSUME UartInv, NEW bit, bit # "TX_EMPTY", isr.on, isr' = Served(bit), umain' = umain,
         NEW r \in States, UartGood(r.d, r.u, r.h, umain, isr), r.d.open, r.d.txBusy = ud.txBusy,
         UsartBecomes([r EXCEPT !.u = ClearIrq(@, {"RX_THOLD"})])
  PROVE  UartInv' /\ ud'.txBusy = ud.txBusy
PROOF
  <1> USE UartFacts
  <1> DEFINE j == Served(bit)
  <1>1. {"RX_THOLD"} \in SUBSET Intr
    BY DEF Intr
  <1>2. ud' = r.d /\ usi' = ClearIrq(r.u, {"RX_THOLD"}) /\ urec' = r.h /\ isr' = j
    BY DEF UsartBecomes, States
  <1>3. j \in Handler /\ j.left \subseteq isr.left /\ (j.left # {} => j.on)
    BY ServedIs
  <1> HIDE DEF j
  <1>4. UartGood(r.d, ClearIrq(r.u, {"RX_THOLD"}), r.h, umain, j)
    BY <1>1, <1>3, ClearedGood
  <1> QED
    BY <1>2, <1>4 DEF UartInv

\* A stop bit is served: the send stays as it was.
LEMMA UartServeStopStep ==
  ASSUME UartInv, UsartServeStop
  PROVE  UartInv' /\ ud'.txBusy = ud.txBusy
PROOF
  <1> USE UartFacts
  <1> DEFINE s == UsartState
  <1>1. PICK r \in (IF usi.rx # << >> THEN CharTimeout(s) ELSE {s}) :
          UsartBecomes([r EXCEPT !.u = ClearIrq(@, {"RX_THOLD"})])
    BY DEF UsartServeStop, UsartServe
  <1>2. isr.on /\ isr' = Served("UART_STOP") /\ umain' = umain
    BY DEF UsartServeStop, UsartServe, Serving
  <1>3. UartGood(s.d, s.u, s.h, umain, isr)
    BY DEF UartInv
  <1> HIDE DEF s
  <1>4. s \in States /\ s.d = ud /\ s.d.open
    BY <1>2 DEF s
  <1>5. r \in CharTimeout(s) \/ r = s
    OBVIOUS
  <1>6. /\ r \in States /\ UartGood(r.d, r.u, r.h, umain, isr) /\ r.d.open
        /\ r.d.txBusy = ud.txBusy
    BY <1>3, <1>4, <1>5, CharTimeoutGood
  <1> QED
    BY <1>1, <1>2, <1>6, UartServeRest

\* A parity error is served: the send stays as it was.
LEMMA UartServeParityStep ==
  ASSUME UartInv, UsartServeParity
  PROVE  UartInv' /\ ud'.txBusy = ud.txBusy
PROOF
  <1> USE UartFacts
  <1> DEFINE s == UsartState
  <1>1. PICK r \in RecvLine(s) : UsartBecomes([r EXCEPT !.u = ClearIrq(@, {"RX_THOLD"})])
    BY DEF UsartServeParity, UsartServe
  <1>2. isr.on /\ isr' = Served("UART_PERR") /\ umain' = umain
    BY DEF UsartServeParity, UsartServe, Serving
  <1>3. UartGood(s.d, s.u, s.h, umain, isr)
    BY DEF UartInv
  <1> HIDE DEF s
  <1>4. s \in States /\ s.d = ud /\ s.d.open
    BY <1>2 DEF s
  <1>5. /\ r \in States /\ UartGood(r.d, r.u, r.h, umain, isr) /\ r.d.open
        /\ r.d.txBusy = ud.txBusy
    BY <1>3, <1>4, RecvLineGood, ZenonT(20)
  <1> QED
    BY <1>1, <1>2, <1>5, UartServeRest

\* The handler returns; a TX_EMPTY that is still true is latched again.
LEMMA UartLeaveStep ==
  ASSUME UartInv, UsartLeave
  PROVE  UartInv' /\ ud' = ud
PROOF
  <1> USE UartFacts
  <1>1. isr.on /\ usi' = ClearIrq(usi, isr.sta) /\ isr' = Idle /\ ud' = ud /\ umain' = umain /\ urec' = urec
    BY DEF UsartLeave, AllServed
  <1>2. isr.sta \in SUBSET Intr /\ Idle \in Handler /\ Idle.left = {}
    BY DEF Handler, Idle
  <1>3. Gently(ClearIrq(usi, isr.sta), usi)
    BY <1>2, GentleIrq
  <1>4. UartGood(ud, ClearIrq(usi, isr.sta), urec, umain, Idle)
    BY <1>1, <1>2, <1>3, UartQuiet DEF UartInv
  <1> QED
    BY <1>1, <1>4 DEF UartInv

\* A byte leaves.
LEMMA UartShiftStep ==
  ASSUME UartInv, UsartShift
  PROVE  UartInv' /\ ud' = ud
PROOF
  <1> USE UartFacts
  <1> DEFINE a == Shifted(usi)
             v == IF a.tx = << >> THEN Raise(a, {"UART_STOP"}) ELSE a
             x == Head(usi.tx)
             t == Tail(usi.tx)
             h == [urec EXCEPT !.out = Append(@, x)]
  <1>1. usi.tx # << >> /\ usi' = v /\ urec' = h /\ ud' = ud /\ umain' = umain /\ isr' = isr
    BY DEF UsartShift
  <1>2. TxOn(usi) /\ usi.tx \in Seq(Nat) /\ urec.out \in Seq(Nat) /\ ud.txBuf \in Seq(Nat)
    BY <1>1 DEF Ports, Port, UsartHistory, UsartDriver
  <1>3. /\ x \in Nat /\ t \in Seq(Nat) /\ Len(t) = Len(usi.tx) - 1 /\ Els(usi.tx) = {x} \cup Els(t)
    BY <1>1, <1>2, OfTail
  <1>4. Access(a, usi, usi.en, usi.ie, t, usi.rx, usi.ip)
    BY <1>1, ShiftedIs
  <1>5. InParts(Append(urec.out, x), t, ud.txBuf)
    BY <1>1, <1>2, PartsShift DEF UartInv, UartGood, UartWords
  <1>6. Append(urec.out, x) \in Seq(Nat) /\ Els(Append(urec.out, x)) = Els(urec.out) \cup {x}
    BY <1>2, <1>3, OfAppend
  <1> HIDE DEF x, t, a
  <1>7. /\ a \in Ports /\ a.mode = "uart" /\ a.irq = usi.irq /\ a.mask = usi.mask /\ a.en = usi.en
        /\ a.tx = t /\ TxOn(a)
        /\ "TX_EMPTY" \in a.ip => "TX_EMPTY" \in usi.ip \/ t = << >>
    BY <1>2, <1>4 DEF Access, TxOn
  <1>8. /\ v \in Ports /\ v.mode = "uart" /\ v.irq = usi.irq /\ v.mask = usi.mask /\ v.en = usi.en
        /\ v.tx = t /\ TxOn(v)
        /\ "TX_EMPTY" \in v.ip => "TX_EMPTY" \in usi.ip \/ t = << >>
    <2> DEFINE b == Raise(a, {"UART_STOP"})
    <2>1. {"UART_STOP"} \in SUBSET Intr
      BY DEF Intr
    <2>2. Access(b, a, a.en, a.ie, a.tx, a.rx, a.ip \cup {"UART_STOP"})
      BY <1>7, <2>1, RaiseIs
    <2> HIDE DEF b
    <2>3. v = b \/ v = a
      BY DEF b
    <2>4. /\ b \in Ports /\ b.mode = a.mode /\ b.irq = a.irq /\ b.mask = a.mask /\ b.en = a.en
          /\ b.tx = a.tx /\ TxOn(b) /\ ("TX_EMPTY" \in b.ip => "TX_EMPTY" \in a.ip \/ b.tx = << >>)
      BY <1>7, <2>2 DEF Access, TxOn
    <2> QED
      BY <1>7, <2>3, <2>4
  <1> HIDE DEF v
  <1>9. /\ h \in UsartHistory /\ h.out = Append(urec.out, x) /\ h.given = urec.given
        /\ h.drop = urec.drop /\ h.want = urec.want /\ h.put = urec.put
    BY <1>6 DEF UsartHistory
  <1> HIDE DEF h
  <1>10. UartTypes(ud, v, h, umain, isr)
    BY <1>8, <1>9 DEF UartTypes
  <1>11. UartCounts(ud)
    BY DEF UartInv, UartGood
  <1>12. UartOpen(ud, v, isr)
    BY <1>8 DEF UartInv, UartGood, UartOpen
  <1>13. UartRoom(ud, v, umain, isr)
    <2>1. Len(t) < Len(usi.tx) /\ Len(t) \in Nat /\ Len(usi.tx) \in Nat
      BY <1>2, <1>3
    <2>2. Len(t) <= Fifo /\ (umain # "putchar" => Len(t) < Fifo)
      BY <2>1, FifoAssumption DEF UartInv, UartGood, UartRoom
    <2>3. umain # "putchar" => "TX_EMPTY" \notin usi.ip /\ "TX_EMPTY" \notin isr.left
      BY <1>1 DEF UartInv, UartGood, UartRoom
    <2>4. umain = "putchar" => ud.txTot = 0
      BY DEF UartInv, UartGood, UartRoom
    <2> QED
      BY <1>8, <2>2, <2>3, <2>4 DEF UartRoom
  <1>14. UartDriven(ud, v, isr)
    BY <1>8 DEF UartInv, UartGood, UartDriven
  <1>15. UartWords(ud, v, h)
    <2>1. Els(urec.out) \cup Els(usi.tx) \cup Els(ud.txBuf) \cup urec.drop = 1..urec.given
      BY DEF UartInv, UartGood, UartWords
    <2>2. (Els(urec.out) \cup {x}) \cup Els(t) \cup Els(ud.txBuf) \cup urec.drop = 1..urec.given
      BY <1>3, <2>1
    <2> QED
      BY <1>5, <1>6, <1>8, <1>9, <2>2 DEF UartWords
  <1>16. UartRecv(ud, h)
    BY <1>9 DEF UartInv, UartGood, UartRecv
  <1>17. UartGood(ud, v, h, umain, isr)
    BY <1>10, <1>11, <1>12, <1>13, <1>14, <1>15, <1>16 DEF UartGood
  <1> QED
    BY <1>1, <1>17 DEF UartInv

\* A byte arrives.
LEMMA UartArriveStep ==
  ASSUME UartInv, UsartArrive
  PROVE  UartInv' /\ ud' = ud
PROOF
  <1> USE UartFacts
  <1>1. PICK err \in {{}, {"UART_PERR"}} :
          usi' = Raise(Arrived(usi, urec.in + 1), {"UART_STOP"} \cup err)
    BY DEF UsartArrive
  <1> DEFINE b == {"UART_STOP"} \cup err
             a == Arrived(usi, urec.in + 1)
             v == Raise(a, b)
             h == [urec EXCEPT !.in = urec.in + 1]
  <1>2. urec' = h /\ ud' = ud /\ umain' = umain /\ isr' = isr /\ usi' = v
    BY <1>1 DEF UsartArrive
  <1>3. urec.in + 1 \in Nat
    BY DEF UsartHistory
  <1>4. Access(a, usi, usi.en, usi.ie, usi.tx, Newest(Append(usi.rx, urec.in + 1)), usi.ip)
    BY <1>3, ArrivedIs
  <1>5. b \in SUBSET Intr /\ "TX_EMPTY" \notin b
    BY DEF Intr
  <1> HIDE DEF a, b
  <1>6. a \in Ports /\ Gently(a, usi) /\ (~TxOn(a) => a.tx = << >>)
    BY <1>4 DEF Access, Gently, TxOn
  <1>7. Access(v, a, a.en, a.ie, a.tx, a.rx, a.ip \cup b)
    BY <1>5, <1>6, RaiseIs
  <1> HIDE DEF v
  <1>8. Gently(v, a)
    BY <1>5, <1>6, <1>7 DEF Access, Gently, TxOn
  <1>9. Gently(v, usi)
    BY <1>6, <1>8, GentleTwice
  <1>10. /\ h \in UsartHistory /\ h.out = urec.out /\ h.given = urec.given
         /\ h.drop = urec.drop /\ h.want = urec.want /\ h.put = urec.put
    BY <1>3 DEF UsartHistory
  <1> HIDE DEF h
  <1>11. UartGood(ud, usi, h, umain, isr)
    <2>1. UartRecv(ud, h)
      BY <1>10 DEF UartInv, UartGood, UartRecv
    <2> QED
      BY <1>10, <2>1, UartSwap DEF UartInv
  <1>12. CASE ud.open
    <2>1. UartGood(ud, v, h, umain, isr)
      BY <1>9, <1>11, <1>12, UartQuiet
    <2> QED
      BY <1>2, <2>1 DEF UartInv
  <1>13. CASE ~ud.open
    <2>1. usi.en = {}
      BY <1>13 DEF UartInv, UartGood, UartOpen
    <2> QED
      BY <2>1 DEF UsartArrive, Working
  <1> QED
    BY <1>12, <1>13

\* Initialisation, which leaves what an earlier session left in the driver.
LEMMA UartInitializeStep ==
  ASSUME UartInv, UsartInitialize
  PROVE  UartInv'
PROOF
  <1> USE UartFacts
  <1>1. PICK cb \in BOOLEAN :
          /\ ud' = [ud EXCEPT !.open = TRUE, !.cb = cb]
          /\ usi' = [SetRxThold(SetIe(Unmask(SetEn(usi, {}), UartDefaults), UartDefaults), Fifo)
                       EXCEPT !.mode = "uart", !.irq = TRUE]
    BY DEF UsartInitialize
  <1>2. ~isr.on /\ ~ud.open /\ isr' = isr /\ umain' = umain /\ urec' = urec
    BY DEF UsartInitialize, MainRuns
  <1> DEFINE a == SetEn(usi, {})
             b == Unmask(a, UartDefaults)
             c == SetIe(b, UartDefaults)
             e == SetRxThold(c, Fifo)
             v == [e EXCEPT !.mode = "uart", !.irq = TRUE]
             d == [ud EXCEPT !.open = TRUE, !.cb = cb]
  <1>3. UartDefaults \in SUBSET Intr /\ "TX_EMPTY" \notin UartDefaults /\ {} \in SUBSET EnBit /\ Fifo \in Nat
    BY FifoAssumption DEF UartDefaults, Intr
  <1>4. Access(a, usi, {}, usi.ie, usi.tx, usi.rx, usi.ip)
    BY <1>3, SetEnIs
  <1> HIDE DEF a
  <1>5. a \in Ports /\ a.tx = << >> /\ a.mode = "uart"
    BY <1>4 DEF Access
  <1>6. b \in Ports /\ b.tx = << >> /\ b.mode = "uart" /\ b.mask = UartDefaults
    BY <1>3, <1>5, UnmaskIs
  <1> HIDE DEF b
  <1>7. Access(c, b, b.en, UartDefaults, b.tx, b.rx, b.ip)
    BY <1>3, <1>6, SetIeIs
  <1> HIDE DEF c
  <1>8. c \in Ports /\ c.tx = << >> /\ c.mode = "uart" /\ c.mask = UartDefaults
    BY <1>6, <1>7 DEF Access
  <1>9. /\ e \in Ports /\ e.mode = c.mode /\ e.mask = c.mask
        /\ e.tx = IF {"usi", "tx"} \subseteq c.en THEN c.tx ELSE << >>
    BY <1>3, <1>8, SetRxTholdIs
  <1> HIDE DEF e
  <1>10. e \in Ports /\ e.tx = << >> /\ e.mode = "uart" /\ e.mask = UartDefaults
    BY <1>8, <1>9
  <1>11. v \in Ports /\ v.tx = << >> /\ v.mode = "uart" /\ v.mask = UartDefaults
    BY <1>10 DEF Ports, Port, Modes
  <1>12. /\ d \in UsartDriver /\ d.open = TRUE /\ d.txBuf = ud.txBuf /\ d.txTot = ud.txTot
         /\ d.txCnt = ud.txCnt /\ d.txBusy = ud.txBusy
         /\ d.rxBuf = ud.rxBuf /\ d.rxTot = ud.rxTot /\ d.rxCnt = ud.rxCnt
    BY DEF UsartDriver
  <1>13. ud' = d /\ usi' = v
    BY <1>1 DEF a, b, c, e
  <1> HIDE DEF v, d
  <1>14. urec.drop = urec.drop \cup Els(usi.tx)
    <2>1. usi.tx = << >>
      BY <1>2 DEF UartInv, UartGood, UartOpen, TxOn
    <2> QED
      BY <2>1, OfNothing
  <1>15. UartGood(ud, usi, urec, umain, isr)
    BY DEF UartInv
  <1>16. UartGood(d, v, urec, umain, isr)
    BY <1>2, <1>3, <1>11, <1>12, <1>14, <1>15, UartEmptied
  <1> QED
    BY <1>2, <1>13, <1>16 DEF UartInv

\* A call of main that ends at once.
LEMMA UartDoesStep ==
  ASSUME UartInv, NEW d, NEW v, NEW drop \in SUBSET Nat, UsartDoes(d, v, drop),
         \A h \in UsartHistory :
            /\ h.drop = urec.drop \cup drop /\ h.given = urec.given /\ h.out = urec.out
            /\ h.want = urec.want /\ h.put = urec.put
            => UartGood(d, v, h, umain, isr)
  PROVE  UartInv'
PROOF
  <1> USE UartFacts
  <1> DEFINE h == [urec EXCEPT !.drop = @ \cup drop, !.calls = @ + 1]
  <1>1. ud' = d /\ usi' = v /\ urec' = h /\ isr' = isr /\ umain' = umain
    BY DEF UsartDoes
  <1>2. /\ h \in UsartHistory /\ h.drop = urec.drop \cup drop /\ h.given = urec.given /\ h.out = urec.out
        /\ h.want = urec.want /\ h.put = urec.put
    BY HistoryAfter
  <1> HIDE DEF h
  <1>3. UartGood(d, v, h, umain, isr)
    BY <1>2
  <1> QED
    BY <1>1, <1>3 DEF UartInv

\* A call that leaves the driver's words as they were.
LEMMA UartDoesGently ==
  ASSUME UartInv, ud.open, NEW v, Gently(v, usi), UsartDoes(ud, v, {})
  PROVE  UartInv'
PROOF
  <1> USE UartFacts
  <1>1. UartGood(ud, usi, urec, umain, isr)
    BY DEF UartInv
  <1>2. ASSUME NEW h \in UsartHistory,
               h.drop = urec.drop \cup {}, h.given = urec.given, h.out = urec.out,
               h.want = urec.want, h.put = urec.put
        PROVE  UartGood(ud, v, h, umain, isr)
    <2>1. UartRecv(ud, h)
      BY <1>2 DEF UartInv, UartGood, UartRecv
    <2>2. h.drop = urec.drop
      BY <1>2
    <2>3. UartGood(ud, usi, h, umain, isr)
      BY <1>1, <1>2, <2>1, <2>2, UartSwap
    <2> QED
      BY <2>3, UartQuiet
  <1>3. {} \in SUBSET Nat
    OBVIOUS
  <1> QED
    BY <1>2, <1>3, UartDoesStep

\* A call that empties the transmit FIFO.
LEMMA UartDoesEmpty ==
  ASSUME UartInv, ~isr.on, NEW d \in UsartDriver, NEW v \in Ports, UsartDoes(d, v, InFifo),
         d.txBuf = ud.txBuf, d.txTot = ud.txTot, d.txCnt = ud.txCnt, d.txBusy = ud.txBusy,
         d.rxBuf = ud.rxBuf, d.rxTot = ud.rxTot, d.rxCnt = ud.rxCnt,
         v.mode = usi.mode, v.tx = << >>, ~d.open => v.en = {}, v.irq => d.open,
         "TX_EMPTY" \in v.mask /\ d.open /\ d.txTot # 0 => TxOn(v)
  PROVE  UartInv'
PROOF
  <1> USE UartFacts
  <1>1. UartGood(ud, usi, urec, umain, isr)
    BY DEF UartInv
  <1>2. InFifo = Els(usi.tx)
    BY DEF InFifo, Els
  <1>3. InFifo \in SUBSET Nat
    BY <1>2 DEF Els, Ports, Port
  <1>4. ASSUME NEW h \in UsartHistory,
               h.drop = urec.drop \cup InFifo, h.given = urec.given, h.out = urec.out,
               h.want = urec.want, h.put = urec.put
        PROVE  UartGood(d, v, h, umain, isr)
    BY <1>1, <1>2, <1>4, UartEmptied
  <1> QED
    BY <1>3, <1>4, UartDoesStep

\* Uninitialisation discards what waits in the FIFO.
LEMMA UartUninitializeStep ==
  ASSUME UartInv, UsartUninitialize
  PROVE  UartInv'
PROOF
  <1> USE UartFacts
  <1> DEFINE a == SetEn(usi, {})
             v == [a EXCEPT !.irq = FALSE]
             d == [ud EXCEPT !.open = FALSE, !.cb = FALSE]
  <1>1. UsartDoes(d, v, InFifo) /\ ~isr.on
    BY DEF UsartUninitialize, UsartFree, MainRuns
  <1>2. {} \in SUBSET EnBit
    OBVIOUS
  <1>3. Access(a, usi, {}, usi.ie, usi.tx, usi.rx, usi.ip)
    BY <1>2, SetEnIs
  <1> HIDE DEF a
  <1>4. a \in Ports /\ a.tx = << >> /\ a.mode = "uart" /\ a.en = {}
    BY <1>3 DEF Access
  <1>5. v \in Ports /\ v.tx = << >> /\ v.mode = "uart" /\ v.en = {} /\ v.irq = FALSE
    BY <1>4 DEF Ports, Port
  <1>6. /\ d \in UsartDriver /\ d.open = FALSE /\ d.txBuf = ud.txBuf /\ d.txTot = ud.txTot
        /\ d.txCnt = ud.txCnt /\ d.txBusy = ud.txBusy
        /\ d.rxBuf = ud.rxBuf /\ d.rxTot = ud.rxTot /\ d.rxCnt = ud.rxCnt
    BY DEF UsartDriver
  <1> HIDE DEF v, d
  <1> QED
    BY <1>1, <1>5, <1>6, UartDoesEmpty

\* A restart of both FIFOs empties the transmitter.
LEMMA RestartAll ==
  ASSUME NEW u \in Ports, NEW e \in SUBSET EnBit
  PROVE  LET v == Restart(u, Fifos, e)
         IN  v \in Ports /\ v.tx = << >> /\ v.mode = u.mode /\ v.mask = u.mask /\ v.irq = u.irq /\ v.en = e
PROOF
  <1> DEFINE v == Restart(u, Fifos, e)
  <1>1. "tx" \in Fifos /\ "rx" \in Fifos
    BY DEF Fifos
  <1>2. Access(v, u, e, u.ie, << >>, << >>, u.ip)
    BY <1>1, RestartIs
  <1> HIDE DEF v
  <1>3. v \in Ports /\ v.tx = << >> /\ v.mode = u.mode /\ v.mask = u.mask /\ v.irq = u.irq /\ v.en = e
    BY <1>2 DEF Access
  <1> QED
    BY <1>3 DEF v

\* Configuration, which may leave the port off.
LEMMA UartConfigStep ==
  ASSUME UartInv, UsartConfig
  PROVE  UartInv'
PROOF
  <1> USE UartFacts
  <1>1. PICK parity, length \in BOOLEAN :
          UsartDoes(ud, IF ~parity THEN UsartSet(usi, FALSE)
                        ELSE UsartSet(UsartSetMode(UsartSet(usi, TRUE)), length), InFifo)
    BY DEF UsartConfig
  <1>2. ~isr.on /\ ud.open /\ ud.txTot = 0
    BY DEF UsartConfig, UsartFree, MainRuns, UartInv, UartGood, UartCounts
  <1>3. {} \in SUBSET EnBit /\ EnBit \in SUBSET EnBit
    OBVIOUS
  <1>4. ASSUME NEW u \in Ports, NEW known \in BOOLEAN
        PROVE  UsartSet(u, known) \in Ports /\ UsartSet(u, known).tx = << >> /\ UsartSet(u, known).mode = u.mode
    BY <1>3, RestartAll DEF UsartSet
  <1>5. ASSUME NEW u \in Ports
        PROVE  UsartSetMode(u) \in Ports /\ UsartSetMode(u).tx = << >> /\ UsartSetMode(u).mode = u.mode
    BY <1>3, RestartAll DEF UsartSetMode
  <1> DEFINE p == UsartSet(usi, TRUE)
             q == UsartSetMode(p)
             r == UsartSet(q, length)
             v == IF ~parity THEN UsartSet(usi, FALSE) ELSE r
  <1>6. p \in Ports /\ p.tx = << >> /\ p.mode = "uart"
    BY <1>4
  <1> HIDE DEF p
  <1>7. q \in Ports /\ q.tx = << >> /\ q.mode = "uart"
    BY <1>5, <1>6
  <1> HIDE DEF q
  <1>8. r \in Ports /\ r.tx = << >> /\ r.mode = "uart"
    BY <1>4, <1>7
  <1> HIDE DEF r
  <1>9. v \in Ports /\ v.tx = << >> /\ v.mode = "uart"
    BY <1>4, <1>8
  <1>10. UsartDoes(ud, v, InFifo)
    BY <1>1 DEF p, q, r
  <1> HIDE DEF v
  <1> QED
    BY <1>2, <1>9, <1>10, UartDoesEmpty

\* Main starts a send.
LEMMA UartSendStep ==
  ASSUME UartInv, UsartSend
  PROVE  UartInv'
PROOF
  <1> USE UartFacts
  <1> DEFINE s == UsartState
  <1>1. PICK n \in UsartLens : UsartBecomes(SendEffect(s, n))
    BY DEF UsartSend
  <1>2. s.d.open /\ s.d.txTot = 0 /\ umain # "putchar" /\ isr' = isr /\ umain' = umain
    BY DEF UsartSend, UsartFree, UartInv, UartGood, UartCounts
  <1>3. UartGood(s.d, s.u, s.h, umain, isr)
    BY DEF UartInv
  <1> HIDE DEF s
  <1> DEFINE t == SendEffect(s, n)
  <1>4. UartGood(t.d, t.u, t.h, umain, isr)
    BY <1>2, <1>3, SendGood
  <1>5. ud' = t.d /\ usi' = t.u /\ urec' = t.h
    BY <1>1 DEF UsartBecomes
  <1> HIDE DEF t
  <1> QED
    BY <1>2, <1>4, <1>5 DEF UartInv

\* Main starts a receive.
LEMMA UartReceiveStep ==
  ASSUME UartInv, UsartReceive
  PROVE  UartInv'
PROOF
  <1> USE UartFacts
  <1> DEFINE s == UsartState
  <1>1. PICK n \in UsartLens : UsartBecomes(ReceiveEffect(s, n))
    BY DEF UsartReceive
  <1>2. isr' = isr /\ umain' = umain
    BY DEF UsartReceive
  <1>3. UartGood(s.d, s.u, s.h, umain, isr) /\ s \in States
    BY DEF UartInv
  <1> HIDE DEF s
  <1> DEFINE t == ReceiveEffect(s, n)
  <1>4. Received(t, s)
    BY <1>3, ReceiveGood
  <1>5. ud' = t.d /\ usi' = t.u /\ urec' = t.h
    BY <1>1 DEF UsartBecomes
  <1> HIDE DEF t
  <1>6. UartGood(t.d, t.u, t.h, umain, isr)
    BY <1>3, <1>4 DEF Received
  <1> QED
    BY <1>2, <1>5, <1>6 DEF UartInv

\* An abort of the send discards what waits in the buffer, not in the FIFO.
LEMMA UartAbortSendStep ==
  ASSUME UartInv, UsartAbortSend
  PROVE  UartInv'
PROOF
  <1> USE UartFacts
  <1> DEFINE e1 == [ud EXCEPT !.txCnt = 0]
             e2 == [e1 EXCEPT !.txBusy = FALSE]
             e3 == [e2 EXCEPT !.txBuf = << >>]
             d == [e3 EXCEPT !.txTot = 0]
             v == IrqOff(usi, {"TX_EMPTY"})
             Same(f) == f.open = ud.open /\ f.rxBuf = ud.rxBuf /\ f.rxTot = ud.rxTot /\ f.rxCnt = ud.rxCnt
  <1>1. UsartDoes([ud EXCEPT !.txCnt = 0, !.txBusy = FALSE, !.txBuf = << >>, !.txTot = 0], v, InBuf)
    BY DEF UsartAbortSend
  <1>2. d = [ud EXCEPT !.txCnt = 0, !.txBusy = FALSE, !.txBuf = << >>, !.txTot = 0]
    BY DEF UsartDriver
  <1>3. e1 \in UsartDriver /\ Same(e1) /\ e1.txCnt = 0
    BY DEF UsartDriver
  <1> HIDE DEF e1
  <1>4. e2 \in UsartDriver /\ Same(e2) /\ e2.txCnt = 0 /\ e2.txBusy = FALSE
    BY <1>3 DEF UsartDriver
  <1> HIDE DEF e2
  <1>5. e3 \in UsartDriver /\ Same(e3) /\ e3.txCnt = 0 /\ e3.txBusy = FALSE /\ e3.txBuf = << >>
    BY <1>4, << >> \in Seq(Nat) DEF UsartDriver
  <1> HIDE DEF e3
  <1>6. /\ d \in UsartDriver /\ Same(d) /\ d.txCnt = 0 /\ d.txBusy = FALSE /\ d.txBuf = << >>
        /\ d.txTot = 0
    BY <1>5 DEF UsartDriver
  <1> HIDE DEF d
  <1>7. UartGood(ud, usi, urec, umain, isr) /\ ud.open
    BY DEF UartInv, UsartAbortSend, UsartFree
  <1>8. InBuf = Els(ud.txBuf)
    BY DEF InBuf, Els
  <1>9. InBuf \in SUBSET Nat
    <2>1. ud.txBuf \in Seq(Nat)
      BY DEF UsartDriver
    <2> QED
      BY <1>8, <2>1 DEF Els
  <1>10. {"TX_EMPTY"} \in SUBSET Intr
    BY DEF Intr
  <1>11. Gently(v, usi)
    BY <1>10, GentleIrq
  <1> HIDE DEF v
  <1>12. ASSUME NEW h \in UsartHistory,
                h.drop = urec.drop \cup InBuf, h.given = urec.given, h.out = urec.out,
                h.want = urec.want, h.put = urec.put
         PROVE  UartGood(d, v, h, umain, isr)
    <2>1. UartGood(d, usi, h, umain, isr)
      BY <1>6, <1>7, <1>8, <1>12, SendOver
    <2>2. d.open
      BY <1>6, <1>7
    <2> QED
      BY <1>11, <2>1, <2>2, UartQuiet
  <1>13. UsartDoes(d, v, InBuf)
    BY <1>1, <1>2
  <1> QED
    BY <1>9, <1>12, <1>13, UartDoesStep

\* An abort of the receive: its count is full, its buffer still there.
LEMMA UartAbortReceiveStep ==
  ASSUME UartInv, UsartAbortReceive
  PROVE  UartInv'
PROOF
  <1> USE UartFacts
  <1> DEFINE d == [ud EXCEPT !.rxCnt = ud.rxTot]
  <1>1. UsartDoes(d, usi, {})
    BY DEF UsartAbortReceive
  <1>2. /\ d \in UsartDriver /\ d.open = ud.open /\ d.txBuf = ud.txBuf /\ d.txTot = ud.txTot
        /\ d.txCnt = ud.txCnt /\ d.txBusy = ud.txBusy
        /\ d.rxBuf = ud.rxBuf /\ d.rxTot = ud.rxTot /\ d.rxCnt = ud.rxTot
    BY DEF UsartDriver
  <1> HIDE DEF d
  <1>3. ASSUME NEW h \in UsartHistory,
               h.drop = urec.drop \cup {}, h.given = urec.given, h.out = urec.out,
               h.want = urec.want, h.put = urec.put
        PROVE  UartGood(d, usi, h, umain, isr)
    <2>1. ud.rxTot \in Nat /\ Len(urec.put) \in Nat
      BY DEF UsartDriver, UsartHistory
    <2>2. UartRecv(d, h)
      BY <1>2, <1>3, <2>1 DEF UartInv, UartGood, UartRecv
    <2>3. UartGood(ud, usi, urec, umain, isr)
      BY DEF UartInv
    <2>4. h.drop = urec.drop
      BY <1>3
    <2> QED
      BY <1>2, <1>3, <2>2, <2>3, <2>4, UartSwap
  <1>4. {} \in SUBSET Nat
    OBVIOUS
  <1> QED
    BY <1>1, <1>3, <1>4, UartDoesStep

\* Reading words from the receive FIFO leaves the transmitter.
LEMMA TakeRxGood ==
  ASSUME NEW u \in Ports, ~TxOn(u) => u.tx = << >>, NEW n \in 0..Len(u.rx)
  PROVE  Gently(TakeRx(u, n), u) /\ TakeRx(u, n).en = u.en
PROOF
  <1> DEFINE v == TakeRx(u, n)
  <1>1. Access(v, u, u.en, u.ie, u.tx, SubSeq(u.rx, n + 1, Len(u.rx)), u.ip)
    BY TakeRxIs
  <1> HIDE DEF v
  <1>2. Gently(v, u) /\ v.en = u.en
    BY <1>1 DEF Gently, Access, TxOn
  <1> QED
    BY <1>2 DEF v

\* Main reads the FIFO itself.
LEMMA UartReceiveQueryStep ==
  ASSUME UartInv, UsartReceiveQuery
  PROVE  UartInv'
PROOF
  <1> USE UartFacts
  <1>1. PICK n \in UsartLens : UsartDoes(ud, TakeRx(usi, Least(n, Len(usi.rx))), {})
    BY DEF UsartReceiveQuery
  <1>2. Least(n, Len(usi.rx)) \in 0..Len(usi.rx)
    <2>1. n \in Nat /\ Len(usi.rx) \in Nat
      BY UsartAssumption DEF Ports, Port
    <2> QED
      BY <2>1 DEF Least
  <1>3. Gently(TakeRx(usi, Least(n, Len(usi.rx))), usi)
    BY <1>2, TakeRxGood
  <1>4. ud.open
    BY DEF UsartReceiveQuery, UsartFree
  <1> QED
    BY <1>1, <1>3, <1>4, UartDoesGently

\* A flush of either FIFO.
LEMMA UartFlushStep ==
  ASSUME UartInv, UsartFlush
  PROVE  UartInv'
PROOF
  <1> USE UartFacts
  <1>1. ud.open /\ ~isr.on
    BY DEF UsartFlush, UsartFree, MainRuns
  <1>2. CASE UsartDoes(ud, Flush(usi, {"rx"}), {})
    BY <1>1, <1>2, FlushRxGood, UartDoesGently
  <1>3. CASE UsartDoes(ud, Flush(usi, {"tx"}), InFifo)
    <2> DEFINE v == Flush(usi, {"tx"})
    <2>1. {"tx"} \in SUBSET EnBit
      BY DEF EnBit
    <2>2. Access(v, usi, usi.en \cup {"tx"}, usi.ie, << >>, usi.rx, usi.ip)
      BY <2>1, FlushIs
    <2> HIDE DEF v
    <2>3. v \in Ports /\ v.mode = usi.mode /\ v.tx = << >> /\ v.mask = usi.mask /\ (TxOn(usi) => TxOn(v))
      BY <2>2 DEF Access, TxOn
    <2>4. "TX_EMPTY" \in v.mask /\ ud.open /\ ud.txTot # 0 => TxOn(v)
      BY <2>3 DEF UartInv, UartGood, UartDriven
    <2>5. UsartDoes(ud, v, InFifo)
      BY <1>3 DEF v
    <2> QED
      BY <1>1, <2>3, <2>4, <2>5, UartDoesEmpty
  <1> QED
    BY <1>2, <1>3 DEF UsartFlush

\* Main switches an interrupt of the transmitter or the receiver.
LEMMA UartSetInterruptStep ==
  ASSUME UartInv, UsartSetInterrupt
  PROVE  UartInv'
PROOF
  <1> USE UartFacts
  <1>1. PICK bit \in UsartIntr : \/ UsartDoes(ud, IrqOff(usi, {bit}), {})
                                 \/ UsartDoes(ud, IrqOn(usi, {bit}), {})
    BY DEF UsartSetInterrupt
  <1>2. {bit} \in SUBSET Intr
    BY UsartAssumption DEF Intr
  <1>3. Gently(IrqOff(usi, {bit}), usi) /\ Gently(IrqOn(usi, {bit}), usi)
    BY <1>2, GentleIrq
  <1>4. ud.open
    BY DEF UsartSetInterrupt, UsartFree
  <1> QED
    BY <1>1, <1>3, <1>4, UartDoesGently

\* putchar adds the next byte behind what the FIFO holds: no send runs.
LEMMA UartPutcharStep ==
  ASSUME UartInv, UsartPutchar
  PROVE  UartInv'
PROOF
  <1> USE UartFacts
  <1> DEFINE g == urec.given
             w == <<g + 1>>
             v == WriteTx(usi, w)
             f == usi.tx \o w
             h == [urec EXCEPT !.given = g + 1]
  <1>1. /\ usi' = v /\ umain' = "putchar" /\ urec' = h /\ isr' = isr /\ ud' = ud
        /\ ~isr.on /\ umain = "free" /\ ud.open /\ ~ud.txBusy /\ TxOn(usi)
    BY DEF UsartPutchar, UsartFree, MainRuns
  <1>2. g \in Nat /\ w \in Seq(Nat) /\ Len(w) = 1 /\ usi.tx \in Seq(Nat) /\ Els(w) = {g + 1} /\ Rising(w)
    <2>1. g \in Nat /\ usi.tx \in Seq(Nat)
      BY DEF UsartHistory, Ports, Port
    <2>2. w \in Seq(Nat) /\ Len(w) = 1 /\ DOMAIN w = 1..1 /\ w[1] = g + 1
      BY <2>1
    <2> HIDE DEF w
    <2>3. Els(w) = {g + 1} /\ Rising(w)
      BY <2>2 DEF Els, Rising
    <2> QED
      BY <2>1, <2>2, <2>3
  <1>3. ud.txTot = 0 /\ ud.txBuf = << >> /\ Len(usi.tx) < Fifo
    <2>1. ud.txTot = 0 /\ Len(usi.tx) < Fifo
      BY <1>1 DEF UartInv, UartGood, UartCounts, UartRoom
    <2>2. ud.txBuf \in Seq(Nat) /\ ud.txCnt \in Nat
      BY DEF UsartDriver
    <2>3. Len(ud.txBuf) = 0
      BY <2>1, <2>2 DEF UartInv, UartGood, UartCounts
    <2> QED
      BY <2>1, <2>2, <2>3
  <1> HIDE DEF w
  <1>4. /\ InParts(urec.out, usi.tx, << >>)
        /\ Els(urec.out) \cup Els(usi.tx) \cup urec.drop = 1..g
    BY <1>3, OfNothing DEF UartInv, UartGood, UartWords
  <1>5. Under(Els(urec.out), Els(w)) /\ Under(Els(usi.tx), Els(w))
    <2>1. \A x \in Els(urec.out) \cup Els(usi.tx) : x \in 1..g
      BY <1>4
    <2>2. \A x \in Els(urec.out) \cup Els(usi.tx) : x < g + 1
      BY <1>2, <2>1
    <2> QED
      BY <1>2, <2>2 DEF Under
  <1>6. /\ f \in Seq(Nat) /\ Len(f) = Len(usi.tx) + 1 /\ Els(f) = Els(usi.tx) \cup {g + 1}
        /\ Rising(f)
    <2>1. f \in Seq(Nat) /\ Len(f) = Len(usi.tx) + Len(w)
      <3>1. usi.tx \in Seq(Nat) /\ w \in Seq(Nat)
        BY <1>2
      <3>2. Len(usi.tx \o w) = Len(usi.tx) + Len(w)
        BY <3>1, ConcatProperties
      <3> QED
        BY <3>1, <3>2, OfConcat
    <2>2. Els(f) = Els(usi.tx) \cup Els(w) /\ Rising(f)
      BY <1>2, <1>4, <1>5, OfConcat DEF InParts
    <2> QED
      BY <1>2, <2>1, <2>2
  <1> HIDE DEF f
  <1>7. Len(f) <= Fifo
    BY <1>2, <1>3, <1>6, FifoAssumption
  <1>8. Newest(f) = f
    BY <1>6, <1>7, NewestIs
  <1>9. Access(v, usi, usi.en, usi.ie, f, usi.rx, usi.ip)
    BY <1>2, <1>8, WriteTxIs DEF f
  <1> HIDE DEF v
  <1>10. v \in Ports /\ v.mode = "uart" /\ v.irq = usi.irq /\ v.mask = usi.mask /\ v.en = usi.en /\ v.tx = f
         /\ TxOn(v)
    BY <1>1, <1>9 DEF Access, TxOn
  <1>11. /\ h \in UsartHistory /\ h.given = g + 1 /\ h.out = urec.out /\ h.drop = urec.drop
         /\ h.want = urec.want /\ h.put = urec.put
    <2>1. g + 1 \in Nat
      BY <1>2
    <2> HIDE DEF g
    <2> QED
      BY <2>1 DEF UsartHistory
  <1> HIDE DEF h, g
  <1>12. UartTypes(ud, v, h, "putchar", isr)
    BY <1>10, <1>11 DEF UartTypes
  <1>13. UartCounts(ud)
    BY DEF UartInv, UartGood
  <1>14. UartOpen(ud, v, isr)
    BY <1>10 DEF UartInv, UartGood, UartOpen
  <1>15. UartRoom(ud, v, "putchar", isr)
    BY <1>3, <1>7, <1>10 DEF UartRoom
  <1>16. UartDriven(ud, v, isr)
    BY <1>10 DEF UartInv, UartGood, UartDriven
  <1>17. UartWords(ud, v, h)
    <2>1. InParts(urec.out, f, << >>)
      <3>1. Under(Els(urec.out), Els(f))
        BY <1>2, <1>4, <1>5, <1>6 DEF InParts, Under
      <3> QED
        BY <1>4, <1>6, <3>1, OfNothing DEF InParts, Under
    <2>2. Els(urec.out) \cup Els(f) \cup Els(<< >>) \cup urec.drop = 1..(g + 1)
      <3>1. 1..(g + 1) = 1..g \cup {g + 1}
        BY <1>2
      <3> QED
        BY <1>4, <1>6, <3>1, OfNothing
    <2> QED
      BY <1>3, <1>10, <1>11, <2>1, <2>2 DEF UartWords
  <1>18. UartRecv(ud, h)
    BY <1>11 DEF UartInv, UartGood, UartRecv
  <1>19. UartGood(ud, v, h, "putchar", isr)
    BY <1>12, <1>13, <1>14, <1>15, <1>16, <1>17, <1>18 DEF UartGood
  <1> QED
    BY <1>1, <1>19 DEF UartInv

\* putchar returns.
LEMMA UartPutcharEndStep ==
  ASSUME UartInv, UsartPutcharEnd
  PROVE  UartInv'
PROOF
  <1> USE UartFacts
  <1>1. usi.tx = << >> /\ umain' = "free" /\ usi' = usi /\ isr' = isr /\ ud' = ud /\ urec' = urec
    BY DEF UsartPutcharEnd
  <1>2. UartTypes(ud, usi, urec, "free", isr)
    BY DEF UartTypes
  <1>3. UartRoom(ud, usi, "free", isr)
    <2>1. Len(<< >>) = 0
      OBVIOUS
    <2> QED
      BY <1>1, <2>1, FifoAssumption DEF UartRoom
  <1>4. UartGood(ud, usi, urec, "free", isr)
    BY <1>2, <1>3 DEF UartInv, UartGood
  <1> QED
    BY <1>1, <1>4 DEF UartInv

\* getchar restarts the port.
LEMMA UartGetcharStep ==
  ASSUME UartInv, UsartGetchar
  PROVE  UartInv'
PROOF
  <1> USE UartFacts
  <1> DEFINE v == Restart(usi, {"rx"}, EnBit)
             h == [urec EXCEPT !.calls = urec.calls + 1]
  <1>1. /\ usi' = v /\ umain' = "getchar" /\ urec' = h /\ isr' = isr /\ ud' = ud
        /\ umain = "free" /\ ud.open
    BY DEF UsartGetchar, UsartFree
  <1>2. EnBit \in SUBSET EnBit /\ {"usi", "tx"} \subseteq EnBit
    BY DEF EnBit
  <1>3. Access(v, usi, EnBit, usi.ie, usi.tx, << >>, usi.ip)
    BY <1>2, RestartIs
  <1> HIDE DEF v
  <1>4. Gently(v, usi)
    BY <1>2, <1>3 DEF Gently, Access, TxOn
  <1>5. /\ h \in UsartHistory /\ h.given = urec.given /\ h.out = urec.out /\ h.drop = urec.drop
        /\ h.want = urec.want /\ h.put = urec.put
    <2>1. urec.calls + 1 \in Nat
      BY DEF UsartHistory
    <2> QED
      BY <2>1 DEF UsartHistory
  <1> HIDE DEF h
  <1>6. UartGood(ud, usi, h, umain, isr)
    <2>1. UartRecv(ud, h)
      BY <1>5 DEF UartInv, UartGood, UartRecv
    <2> QED
      BY <1>5, <2>1, UartSwap DEF UartInv
  <1>7. UartGood(ud, v, h, "getchar", isr)
    BY <1>1, <1>4, <1>6, UartQuiet
  <1> QED
    BY <1>1, <1>7 DEF UartInv

\* getchar returns with its byte.
LEMMA UartGetcharEndStep ==
  ASSUME UartInv, UsartGetcharEnd
  PROVE  UartInv'
PROOF
  <1> USE UartFacts
  <1> DEFINE v == TakeRx(usi, 1)
  <1>1. /\ usi' = v /\ umain' = "free" /\ urec' = urec /\ isr' = isr /\ ud' = ud
        /\ umain = "getchar" /\ usi.rx # << >> /\ ~isr.on
    BY DEF UsartGetcharEnd, MainRuns
  <1>2. 1 \in 0..Len(usi.rx)
    <2>1. usi.rx \in Seq(Nat)
      BY DEF Ports, Port
    <2> QED
      BY <1>1, <2>1
  <1>3. Gently(v, usi) /\ v.en = usi.en
    BY <1>2, TakeRxGood
  <1> HIDE DEF v
  <1>4. UartGood(ud, usi, urec, umain, isr)
    BY DEF UartInv
  <1>5. UartGood(ud, v, urec, "free", isr)
    BY <1>1, <1>3, <1>4, UartQuiet
  <1> QED
    BY <1>1, <1>5 DEF UartInv
-----------------------------------------------------------------------------
(* A send can go on: what the port tells.                                  *)

\* An empty FIFO, where TX_EMPTY is enabled, is latched; a port that is on works.
Telling(u) == /\ "TX_EMPTY" \in u.ie /\ u.tx = << >> => "TX_EMPTY" \in u.ip
              /\ "usi" \in u.en => "fm" \in u.en

TellingPorts == {u \in Ports : Telling(u)}

UartAhead == Telling(usi)

\* Whatever an access clears, the level is latched again: an access that leaves
\* the port off, or on as a whole, leaves it telling ...
LEMMA AccessTells ==
  ASSUME NEW v, NEW u, NEW en, NEW ie, NEW tx, NEW rx, NEW ip, Access(v, u, en, ie, tx, rx, ip),
         "usi" \in en => "fm" \in en
  PROVE  v \in TellingPorts
PROOF BY DEF Access, TellingPorts, Telling

\* ... and each of this driver does.
LEMMA AccessesTell ==
  ASSUME NEW u \in TellingPorts
  PROVE  /\ \A s : ClearIrq(u, s) \in TellingPorts
         /\ \A s \in SUBSET Intr : IrqOn(u, s) \in TellingPorts /\ IrqOff(u, s) \in TellingPorts
         /\ \A s \in SUBSET Intr : Unmask(u, s) \in TellingPorts
         /\ \A s \in SUBSET Intr : Raise(u, s) \in TellingPorts
         /\ \A ws \in Seq(Nat) : WriteTx(u, ws) \in TellingPorts
         /\ \A n \in 0..Len(u.rx) : TakeRx(u, n) \in TellingPorts
         /\ \A f \in SUBSET Fifos : Flush(u, f) \in TellingPorts
         /\ u.tx # << >> => Shifted(u) \in TellingPorts
         /\ \A x \in Nat : Arrived(u, x) \in TellingPorts
PROOF
  <1>1. u \in Ports /\ ("usi" \in u.en => "fm" \in u.en)
    BY DEF TellingPorts, Telling
  <1>2. \A s : ClearIrq(u, s) \in TellingPorts
    BY <1>1, ClearIrqIs, AccessTells
  <1>3. \A s \in SUBSET Intr : IrqOn(u, s) \in TellingPorts /\ IrqOff(u, s) \in TellingPorts
    BY <1>1, IrqOnIs, IrqOffIs, AccessTells
  <1>4. \A s \in SUBSET Intr : Unmask(u, s) \in TellingPorts
    BY <1>1, UnmaskIs DEF TellingPorts, Telling
  <1>5. \A s \in SUBSET Intr : Raise(u, s) \in TellingPorts
    BY <1>1, RaiseIs, AccessTells
  <1>6. \A ws \in Seq(Nat) : WriteTx(u, ws) \in TellingPorts
    BY <1>1, WriteTxIs, AccessTells
  <1>7. \A n \in 0..Len(u.rx) : TakeRx(u, n) \in TellingPorts
    BY <1>1, TakeRxIs, AccessTells
  <1>8. \A f \in SUBSET Fifos : Flush(u, f) \in TellingPorts
    <2> TAKE f \in SUBSET Fifos
    <2> DEFINE v == Flush(u, f)
               t == IF "tx" \in f THEN << >> ELSE u.tx
               r == IF "rx" \in f THEN << >> ELSE u.rx
    <2>1. f \in SUBSET EnBit /\ "usi" \notin f
      BY DEF Fifos, EnBit
    <2>2. Access(v, u, u.en \cup f, u.ie, t, r, u.ip)
      BY <1>1, <2>1, FlushIs
    <2> HIDE DEF v, t, r
    <2>3. "usi" \in u.en \cup f => "fm" \in u.en \cup f
      BY <1>1, <2>1
    <2>4. v \in TellingPorts
      BY <2>2, <2>3, AccessTells
    <2> QED
      BY <2>4 DEF v
  <1>9. u.tx # << >> => Shifted(u) \in TellingPorts
    BY <1>1, ShiftedIs, AccessTells
  <1>10. \A x \in Nat : Arrived(u, x) \in TellingPorts
    BY <1>1, ArrivedIs, AccessTells
  <1> QED
    BY <1>2, <1>3, <1>4, <1>5, <1>6, <1>7, <1>8, <1>9, <1>10

\* So does switching a port on or off, whatever it was before.
LEMMA SwitchTells ==
  ASSUME NEW u \in Ports, NEW e \in {{}, EnBit}
  PROVE  SetEn(u, e) \in TellingPorts /\ \A f : Restart(u, f, e) \in TellingPorts
PROOF
  <1>1. e \in SUBSET EnBit /\ ("usi" \in e => "fm" \in e)
    BY DEF EnBit
  <1>2. SetEn(u, e) \in TellingPorts
    BY <1>1, SetEnIs, AccessTells
  <1>3. ASSUME NEW f PROVE Restart(u, f, e) \in TellingPorts
    <2> DEFINE v == Restart(u, f, e)
               t == IF "tx" \in f THEN << >> ELSE u.tx
               r == IF "rx" \in f THEN << >> ELSE u.rx
    <2>1. Access(v, u, e, u.ie, t, r, u.ip)
      BY <1>1, RestartIs
    <2> HIDE DEF v, t, r
    <2>2. v \in TellingPorts
      BY <1>1, <2>1, AccessTells
    <2> QED
      BY <2>2 DEF v
  <1> QED
    BY <1>2, <1>3

\* A send that main or a callback starts.
LEMMA SendTells ==
  ASSUME NEW s, s.u \in TellingPorts, NEW n
  PROVE  SendEffect(s, n).u \in TellingPorts
PROOF
  <1> DEFINE a == Unmask(s.u, s.u.mask \cup {"TX_EMPTY"})
             b == IrqOn(a, {"TX_EMPTY"})
             c == IrqOff(b, {"UART_STOP"})
             v == SetEn(c, EnBit)
  <1>1. /\ s.u.mask \cup {"TX_EMPTY"} \in SUBSET Intr
        /\ {"TX_EMPTY"} \in SUBSET Intr /\ {"UART_STOP"} \in SUBSET Intr
    BY DEF TellingPorts, Ports, Port, Intr
  <1>2. a \in TellingPorts
    BY <1>1, AccessesTell
  <1> HIDE DEF a
  <1>3. b \in TellingPorts
    BY <1>1, <1>2, AccessesTell
  <1> HIDE DEF b
  <1>4. c \in TellingPorts
    BY <1>1, <1>3, AccessesTell
  <1> HIDE DEF c
  <1>5. v \in TellingPorts
    BY <1>4, SwitchTells DEF TellingPorts
  <1> HIDE DEF v
  <1>6. SendEffect(s, n).u = v
    BY DEF SendEffect, a, b, c, v
  <1> QED
    BY <1>5, <1>6

\* A send or a receive that a callback starts, or none.
LEMMA AgainTells ==
  ASSUME NEW s, s.u \in TellingPorts
  PROVE  /\ \A r \in SendAgain(s) : r.u \in TellingPorts
         /\ s \in States => \A r \in ReceiveAgain(s) : r.u \in TellingPorts
PROOF
  <1>1. ASSUME s \in States, NEW n PROVE ReceiveEffect(s, n).u = s.u
    BY <1>1 DEF ReceiveEffect, States
  <1>2. s \in States => \A r \in ReceiveAgain(s) : r.u = s.u
    BY <1>1 DEF ReceiveAgain
  <1>3. ASSUME NEW r \in SendAgain(s) PROVE r.u \in TellingPorts
    <2>1. r = s \/ \E n : r = SendEffect(s, n)
      BY DEF SendAgain
    <2> QED
      BY <2>1, SendTells
  <1> QED
    BY <1>2, <1>3

\* The next batch, or the end of the send.
LEMMA TxEmptyTells ==
  ASSUME NEW s \in States, s.u \in TellingPorts, NEW m, NEW i, UartGood(s.d, s.u, s.h, m, i),
         NEW r \in TxEmpty(s)
  PROVE  r.u \in TellingPorts
PROOF
  <1> DEFINE d == s.d
             n == Batch(d)
  <1>1. /\ d \in UsartDriver /\ d.txBuf \in Seq(Nat) /\ d.txTot \in Nat /\ d.txCnt \in Nat
        /\ Len(d.txBuf) \in Nat /\ d.txCnt + Len(d.txBuf) = d.txTot
        /\ Fifo - 1 \in Nat
    BY FifoAssumption DEF States, UsartDriver, UartGood, UartCounts
  <1>2. {"TX_EMPTY"} \in SUBSET Intr /\ {"UART_STOP"} \in SUBSET Intr
    BY DEF Intr
  <1>3. CASE d.txTot = 0
    BY <1>3 DEF TxEmpty
  <1>4. CASE d.txTot # 0 /\ AllWritten(d)
    <2> DEFINE a == IrqOff(s.u, {"TX_EMPTY"})
               v == IrqOn(a, {"UART_STOP"})
               e == [d EXCEPT !.lastTx = d.txTot, !.txCnt = 0, !.txBusy = FALSE,
                              !.txBuf = << >>, !.txTot = 0]
               t == [s EXCEPT !.u = v, !.d = e]
    <2>1. r \in SendAgain(t)
      BY <1>4 DEF TxEmpty
    <2>2. a \in TellingPorts
      BY <1>2, AccessesTell
    <2> HIDE DEF a
    <2>3. v \in TellingPorts
      BY <1>2, <2>2, AccessesTell
    <2> HIDE DEF v, e
    <2>4. t.u = v
      BY DEF States
    <2> HIDE DEF t
    <2> QED
      BY <2>1, <2>3, <2>4, AgainTells
  <1>5. CASE d.txTot # 0 /\ ~AllWritten(d)
    <2> DEFINE ws == SubSeq(d.txBuf, 1, n)
               a == WriteTx(s.u, ws)
               v == ClearIrq(a, {"TX_EMPTY"})
    <2>1. n \in 0..Len(d.txBuf)
      <3>1. d.txTot - d.txCnt = Len(d.txBuf)
        BY <1>1
      <3>2. n = Least(Len(d.txBuf), Fifo - 1)
        BY <3>1 DEF Batch
      <3> HIDE DEF n
      <3> QED
        BY <1>1, <3>2 DEF Least
    <2>2. ws \in Seq(Nat)
      BY <1>1, <2>1, OfSplit
    <2>3. r.u = v
      BY <1>5 DEF TxEmpty, States
    <2> HIDE DEF ws
    <2>4. a \in TellingPorts
      BY <2>2, AccessesTell
    <2> HIDE DEF a
    <2>5. v \in TellingPorts
      BY <2>4, AccessesTell
    <2> QED
      BY <2>3, <2>5
  <1> QED
    BY <1>3, <1>4, <1>5

\* The batch of a receive, or its end.
LEMMA RecvDataTells ==
  ASSUME NEW s \in States, s.u \in TellingPorts, NEW r \in RecvData(s)
  PROVE  r.u \in TellingPorts
PROOF
  <1> DEFINE n == Arrivals(s)
             v == TakeRx(s.u, n)
             h == [s.h EXCEPT !.put = s.h.put \o SubSeq(s.u.rx, 1, n)]
             t == [s EXCEPT !.u = v, !.h = h]
             d1 == [s.d EXCEPT !.lastRx = s.d.rxTot, !.rxCnt = 0, !.rxBuf = FALSE, !.rxBusy = FALSE,
                               !.rxTot = 0]
             d2 == [s.d EXCEPT !.rxCnt = @ + n]
             t1 == [t EXCEPT !.d = d1]
             t2 == [t EXCEPT !.d = d2]
  <1>1. CASE s.d.rxTot = 0 \/ ~s.d.rxBuf
    BY <1>1, AgainTells DEF RecvData
  <1>2. CASE ~(s.d.rxTot = 0 \/ ~s.d.rxBuf)
    <2>1. n \in 0..Len(s.u.rx)
      <3>1. Len(s.u.rx) \in Nat /\ s.d.rxTot \in Nat
        BY DEF States, UsartDriver, Ports, Port
      <3>2. Len(s.u.rx) % Fifo \in Nat /\ Len(s.u.rx) % Fifo <= Len(s.u.rx)
        BY <3>1, RemainderIs, FifoAssumption
      <3> QED
        BY <3>1, <3>2 DEF Arrivals, Least
    <2>2. v \in TellingPorts
      BY <2>1, AccessesTell
    <2>3. r \in ReceiveAgain(t1) \/ r = t2
      <3>1. t = [s EXCEPT !.u = TakeRx(@, n), !.h = [s.h EXCEPT !.put = @ \o SubSeq(s.u.rx, 1, n)]]
        OBVIOUS
      <3> QED
        BY <1>2, <3>1 DEF RecvData
    <2> HIDE DEF v, h, d1, d2
    <2>4. /\ t1.u = v /\ t2.u = v
          /\ \A m : [t1 EXCEPT !.d = [t1.d EXCEPT !.rxBuf = TRUE, !.rxTot = m, !.rxCnt = 0,
                                                  !.rxBusy = TRUE, !.lastRx = 0],
                             !.h = [t1.h EXCEPT !.want = m, !.put = << >>, !.recvs = @ + 1]].u = v
      BY DEF States
    <2>5. \A m : ReceiveEffect(t1, m).u = v
      BY <2>4 DEF ReceiveEffect
    <2> QED
      BY <2>2, <2>3, <2>4, <2>5 DEF ReceiveAgain
  <1> QED
    BY <1>1, <1>2

\* The parts of the handler that receive.
LEMMA ReceivingTells ==
  ASSUME NEW s \in States, s.u \in TellingPorts
  PROVE  /\ \A r \in CharTimeout(s) : r.u \in TellingPorts
         /\ \A r \in RecvLine(s) : r.u \in TellingPorts
PROOF
  <1> DEFINE v == Flush(s.u, {"rx"})
             q == [s EXCEPT !.u = v]
  <1>1. {"rx"} \in SUBSET Fifos
    BY DEF Fifos
  <1>2. v \in TellingPorts
    BY <1>1, AccessesTell
  <1> HIDE DEF v
  <1>3. q \in States /\ q.u = v
    BY <1>2 DEF States, TellingPorts
  <1>4. q = [s EXCEPT !.u = Flush(@, {"rx"})]
    BY DEF v
  <1> HIDE DEF q
  <1>5. ASSUME NEW r \in CharTimeout(s) PROVE r.u \in TellingPorts
    <2>1. r \in RecvData(s) \/ r \in ReceiveAgain(s) \/ r = q
      BY <1>4 DEF CharTimeout
    <2> QED
      BY <1>2, <1>3, <2>1, RecvDataTells, AgainTells
  <1>6. ASSUME NEW r \in RecvLine(s) PROVE r.u \in TellingPorts
    <2>1. r \in ReceiveAgain(q)
      BY <1>4 DEF RecvLine
    <2> QED
      BY <1>2, <1>3, <2>1, AgainTells
  <1> QED
    BY <1>5, <1>6

\* A step of the handler.
LEMMA HandlerTells ==
  ASSUME UartInv, UartAhead, UsartEnter \/ UsartHandler
  PROVE  UartAhead'
PROOF
  <1> DEFINE s == UsartState
  <1>1. /\ s \in States /\ s.u = usi /\ usi \in Ports /\ UartGood(s.d, s.u, s.h, umain, isr)
        /\ usi.rx \in Seq(Nat)
    BY UartFacts DEF UartInv, Ports, Port
  <1>2. usi \in TellingPorts
    BY <1>1 DEF UartAhead, TellingPorts
  <1> HIDE DEF s
  <1>3. SUFFICES usi' \in TellingPorts
    BY DEF UartAhead, TellingPorts
  <1>4. ASSUME NEW r, r \in States, r.u \in TellingPorts, NEW c,
               UsartBecomes([r EXCEPT !.u = ClearIrq(@, c)])
        PROVE  usi' \in TellingPorts
    <2>1. usi' = ClearIrq(r.u, c)
      BY <1>4 DEF UsartBecomes, States
    <2> QED
      BY <1>4, <2>1, AccessesTell
  <1>5. CASE UsartEnter
    BY <1>2, <1>5 DEF UsartEnter, Serve
  <1>6. CASE UsartServeTx
    <2>1. PICK r \in TxEmpty(s) : UsartBecomes([r EXCEPT !.u = ClearIrq(@, {"TX_EMPTY"})])
      BY <1>6 DEF UsartServeTx, UsartServe, s
    <2>2. r.u \in TellingPorts
      BY <1>1, <1>2, TxEmptyTells
    <2>3. r \in States
      <3>1. isr.on /\ "TX_EMPTY" \in isr.left
        BY <1>6 DEF UsartServeTx, UsartServe, Serving
      <3>2. /\ Served("TX_EMPTY") \in Handler /\ Served("TX_EMPTY").left = isr.left \ {"TX_EMPTY"}
            /\ Served("TX_EMPTY").on
        BY <3>1, UartFacts, ServedIs
      <3> QED
        BY <1>1, <3>1, <3>2, TxEmptyGood
    <2> QED
      BY <1>4, <2>1, <2>2, <2>3
  <1>7. CASE UsartServeStop \/ UsartServeParity
    <2>1. s.d.open
      BY <1>7, UartFacts DEF UsartServeStop, UsartServeParity, UsartServe, Serving, s
    <2>2. PICK r : /\ r \in CharTimeout(s) \/ r = s \/ r \in RecvLine(s)
                   /\ UsartBecomes([r EXCEPT !.u = ClearIrq(@, {"RX_THOLD"})])
      BY <1>7 DEF UsartServeStop, UsartServeParity, UsartServe, s
    <2>3. r.u \in TellingPorts
      BY <1>1, <1>2, <2>2, ReceivingTells
    <2>4. r \in States
      BY <1>1, <2>1, <2>2, CharTimeoutGood, RecvLineGood
    <2> QED
      BY <1>4, <2>2, <2>3, <2>4
  <1>8. CASE UsartLeave
    BY <1>2, <1>8, AccessesTell DEF UsartLeave
  <1> QED
    BY <1>5, <1>6, <1>7, <1>8 DEF UsartHandler

\* A byte leaves or arrives.
LEMMA LineTells ==
  ASSUME UartInv, UartAhead, UsartShift \/ UsartArrive
  PROVE  UartAhead'
PROOF
  <1>1. usi \in TellingPorts
    BY UartFacts DEF UartAhead, TellingPorts
  <1>2. SUFFICES usi' \in TellingPorts
    BY DEF UartAhead, TellingPorts
  <1>3. CASE UsartShift
    <2> DEFINE a == Shifted(usi)
    <2>1. usi.tx # << >> /\ (usi' = a \/ usi' = Raise(a, {"UART_STOP"}))
      BY <1>3 DEF UsartShift
    <2>2. a \in TellingPorts /\ {"UART_STOP"} \in SUBSET Intr
      BY <1>1, <2>1, AccessesTell DEF Intr
    <2> HIDE DEF a
    <2> QED
      BY <2>1, <2>2, AccessesTell
  <1>4. CASE UsartArrive
    <2> DEFINE a == Arrived(usi, urec.in + 1)
    <2>1. PICK e \in {{}, {"UART_PERR"}} : usi' = Raise(a, {"UART_STOP"} \cup e)
      BY <1>4 DEF UsartArrive
    <2>2. urec.in + 1 \in Nat /\ {"UART_STOP"} \cup e \in SUBSET Intr
      BY UartFacts DEF UsartHistory, Intr
    <2>3. a \in TellingPorts
      BY <1>1, <2>2, AccessesTell
    <2> HIDE DEF a
    <2> QED
      BY <2>1, <2>2, <2>3, AccessesTell
  <1> QED
    BY <1>3, <1>4

\* A call of main that opens, closes or configures the port.
LEMMA SetupTells ==
  ASSUME UartInv, UartAhead, UsartInitialize \/ UsartUninitialize \/ UsartConfig
  PROVE  UartAhead'
PROOF
  <1>1. usi \in Ports
    BY UartFacts
  <1>2. CASE UsartInitialize
    <2> DEFINE a == SetEn(usi, {})
               b == Unmask(a, UartDefaults)
               c == SetIe(b, UartDefaults)
               e == SetRxThold(c, Fifo)
               v == [e EXCEPT !.mode = "uart", !.irq = TRUE]
    <2>1. PICK cb \in BOOLEAN :
            /\ ud' = [ud EXCEPT !.open = TRUE, !.cb = cb]
            /\ usi' = [SetRxThold(SetIe(Unmask(SetEn(usi, {}), UartDefaults), UartDefaults), Fifo)
                         EXCEPT !.mode = "uart", !.irq = TRUE]
      BY <1>2 DEF UsartInitialize
    <2>2. /\ UartDefaults \in SUBSET Intr /\ "TX_EMPTY" \notin UartDefaults /\ {} \in SUBSET EnBit
          /\ Fifo \in Nat
      BY FifoAssumption DEF UartDefaults, Intr
    <2>3. a \in Ports /\ a.en = {}
      BY <1>1, <2>2, SetEnIs DEF Access
    <2> HIDE DEF a
    <2>4. b \in Ports /\ b.en = {}
      BY <2>2, <2>3, UnmaskIs
    <2> HIDE DEF b
    <2>5. c \in Ports /\ c.en = {} /\ c.ie = UartDefaults
      BY <2>2, <2>4, SetIeIs DEF Access
    <2> HIDE DEF c
    <2>6. e \in Ports /\ e.en = {} /\ e.ie = UartDefaults
      BY <2>2, <2>5, SetRxTholdIs
    <2> HIDE DEF e
    <2>7. v.en = {} /\ v.ie = UartDefaults
      BY <2>6 DEF Ports, Port
    <2>8. usi' = v
      BY <2>1 DEF a, b, c, e
    <2> QED
      BY <2>2, <2>7, <2>8 DEF UartAhead, Telling
  <1>3. CASE UsartUninitialize
    <2> DEFINE a == SetEn(usi, {})
    <2>1. usi' = [a EXCEPT !.irq = FALSE]
      BY <1>3 DEF UsartUninitialize, UsartDoes
    <2>2. a \in TellingPorts
      BY <1>1, SwitchTells
    <2> HIDE DEF a
    <2>3. a \in Ports /\ Telling(a)
      BY <2>2 DEF TellingPorts
    <2>4. usi'.ie = a.ie /\ usi'.ip = a.ip /\ usi'.tx = a.tx /\ usi'.en = a.en
      BY <2>1, <2>3 DEF Ports, Port
    <2> QED
      BY <2>3, <2>4 DEF UartAhead, Telling
  <1>4. CASE UsartConfig
    <2>1. PICK parity, length \in BOOLEAN :
            usi' = IF ~parity THEN UsartSet(usi, FALSE)
                   ELSE UsartSet(UsartSetMode(UsartSet(usi, TRUE)), length)
      BY <1>4 DEF UsartConfig, UsartDoes
    <2>2. ASSUME NEW u \in Ports
          PROVE  UsartSetMode(u) \in TellingPorts /\ \A known : UsartSet(u, known) \in TellingPorts
      BY SwitchTells DEF UsartSet, UsartSetMode
    <2> DEFINE x == UsartSet(usi, TRUE)
               y == UsartSetMode(x)
    <2>3. x \in Ports
      BY <1>1, <2>2 DEF TellingPorts
    <2> HIDE DEF x
    <2>4. y \in Ports
      BY <2>2, <2>3 DEF TellingPorts
    <2>5. usi' = UsartSet(usi, FALSE) \/ usi' = UsartSet(y, length)
      BY <2>1 DEF x, y
    <2> HIDE DEF y
    <2> QED
      BY <1>1, <2>2, <2>4, <2>5 DEF UartAhead, TellingPorts
  <1> QED
    BY <1>2, <1>3, <1>4

\* A call that sends or receives, or switches an interrupt.
LEMMA CallTells ==
  ASSUME UartInv, UartAhead, UsartCalls, ~UsartInitialize, ~UsartUninitialize, ~UsartConfig
  PROVE  UartAhead'
PROOF
  <1>1. /\ usi \in TellingPorts /\ usi \in Ports /\ UsartState.u = usi /\ Len(usi.rx) \in Nat
        /\ usi.rx # << >> => 1 \in 0..Len(usi.rx)
    BY UartFacts DEF UartAhead, TellingPorts, Ports, Port
  <1>2. SUFFICES usi' \in TellingPorts
    BY DEF UartAhead, TellingPorts
  <1>3. CASE UsartSend
    BY <1>1, <1>3, SendTells DEF UsartSend, UsartBecomes
  <1>4. CASE UsartReceive
    <2>1. ASSUME NEW n PROVE ReceiveEffect(UsartState, n).u = usi
      BY DEF ReceiveEffect, UsartState
    <2> QED
      BY <1>1, <1>4, <2>1 DEF UsartReceive, UsartBecomes
  <1>5. CASE UsartAbortSend
    <2>1. {"TX_EMPTY"} \in SUBSET Intr /\ usi' = IrqOff(usi, {"TX_EMPTY"})
      BY <1>5 DEF UsartAbortSend, UsartDoes, Intr
    <2> QED
      BY <1>1, <2>1, AccessesTell
  <1>6. CASE UsartReceiveQuery
    <2>1. PICK n \in UsartLens : usi' = TakeRx(usi, Least(n, Len(usi.rx)))
      BY <1>6 DEF UsartReceiveQuery, UsartDoes
    <2>2. Least(n, Len(usi.rx)) \in 0..Len(usi.rx)
      BY <1>1, UsartAssumption DEF Least
    <2> QED
      BY <1>1, <2>1, <2>2, AccessesTell
  <1>7. CASE UsartFlush
    <2>1. {"tx"} \in SUBSET Fifos /\ {"rx"} \in SUBSET Fifos
      BY DEF Fifos
    <2>2. usi' = Flush(usi, {"tx"}) \/ usi' = Flush(usi, {"rx"})
      BY <1>7 DEF UsartFlush, UsartDoes
    <2> QED
      BY <1>1, <2>1, <2>2, AccessesTell
  <1>8. CASE UsartSetInterrupt
    <2>1. PICK bit \in UsartIntr : usi' = IrqOff(usi, {bit}) \/ usi' = IrqOn(usi, {bit})
      BY <1>8 DEF UsartSetInterrupt, UsartDoes
    <2>2. {bit} \in SUBSET Intr
      BY UsartAssumption DEF Intr
    <2> QED
      BY <1>1, <2>1, <2>2, AccessesTell
  <1>9. CASE UsartPutchar
    <2>1. usi' = WriteTx(usi, <<urec.given + 1>>) /\ urec.given + 1 \in Nat
      BY <1>9, UartFacts DEF UsartPutchar, UsartHistory
    <2>2. <<urec.given + 1>> \in Seq(Nat)
      BY <2>1
    <2> QED
      BY <1>1, <2>1, <2>2, AccessesTell
  <1>10. CASE UsartGetchar
    BY <1>1, <1>10, SwitchTells DEF UsartGetchar
  <1>11. CASE UsartGetcharEnd
    BY <1>1, <1>11, AccessesTell DEF UsartGetcharEnd
  <1>12. CASE UsartAbortReceive \/ UsartPutcharEnd
    BY <1>1, <1>12 DEF UsartAbortReceive, UsartDoes, UsartPutcharEnd
  <1> QED
    BY <1>3, <1>4, <1>5, <1>6, <1>7, <1>8, <1>9, <1>10, <1>11, <1>12 DEF UsartCalls

\* Each step keeps the second invariant ...
LEMMA UartAheadStep == UartInv /\ UartAhead /\ UsartNext => UartAhead'
PROOF BY HandlerTells, LineTells, SetupTells, CallTells DEF UsartNext

\* ... and with both a send goes on: an empty FIFO calls the handler, and what is
\* in the FIFO can be shifted.
LEMMA UartAheadGoesOn == UartInv /\ UartAhead => SendGoesOn
PROOF
  <1> SUFFICES ASSUME UartInv, UartAhead, SendArmed, ~isr.on, Pending(usi) = {}
               PROVE  Working(usi) /\ usi.tx # << >>
    BY DEF SendGoesOn
  <1>1. "TX_EMPTY" \in usi.ie /\ "TX_EMPTY" \in usi.mask /\ "TX_EMPTY" \notin usi.ip
    BY DEF SendArmed, Pending
  <1>2. usi.tx # << >>
    BY <1>1 DEF UartAhead, Telling
  <1>3. TxOn(usi)
    BY <1>2, UartFacts
  <1> QED
    BY <1>2, <1>3 DEF UartAhead, Telling, TxOn, Working
===============================================================================
