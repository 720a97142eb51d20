------------------------------ MODULE IicProofs ------------------------------
(***************************************************************************)
(* The I2C master driver: an invariant of the driver, the port, the bus    *)
(* and the handler, for every FIFO depth, set of lengths and any number of *)
(* calls, a lemma for each action that preserves it, and what follows.     *)
(***************************************************************************)
EXTENDS Iic, UsiLemmas, FiniteSetTheorems

\* The driver on a port that is an I2C master from reset.
IicSpec == /\ usi = [ResetPort EXCEPT !.mode = "i2c"] /\ isr = Idle /\ IicInit
           /\ [][IicNext]_ivars

-----------------------------------------------------------------------------
(* The invariant, over the driver d, the port u, the bus b, the history h  *)
(* and the handler i.                                                      *)

IicTypes(d, u, b, h, i) ==
  /\ d \in IicDriver /\ u \in Ports /\ u.mode = "i2c" /\ b \in IicBus /\ h \in IicHistory
  /\ i \in Handler

\* Only an open driver has a callback or a transfer; the handler serves bits
\* that are enabled, and the port latches only those; its FIFO never overflows.
IicOpen(d, u, i) ==
  /\ ~d.open => ~d.cb /\ d.status \notin {"send", "receive"}
  /\ u.ip \subseteq u.ie
  /\ i.on => i.sta \subseteq u.ie
  /\ Len(u.tx) <= Fifo
  /\ u.en = {} => u.tx = << >> /\ u.rx = << >>

\* The bytes of a send are numbered in the order of the buffer.
Bytes(n) == [k \in 1..n |-> k]

\* What TRANSFER_DONE promises.
Done(d, b, h) ==
  h.event = "done" =>
    /\ d.status = "sent" /\ d.armed => h.out = Bytes(d.txTot)
    /\ d.status = "received" /\ d.armed /\ b.present => h.got = d.rxTot

\* The driver is in one of these states: no transfer runs;
Over(d, u, b, h) ==
  /\ d.status \notin {"send", "receive"} /\ u.en = {} /\ b.st = "idle" /\ Done(d, b, h)

\* A stop that is not served together with a refusal.
StopFor(bits) == "I2C_STOP" \in bits /\ "I2C_NACK" \notin bits

SendCounts(d, u, i) ==
  /\ d.txTot # 0 /\ d.txCnt <= d.txTot /\ u.mask = IicSendBits /\ "I2C_NACK" \in u.ie
  /\ StopFor(u.ip) \/ (i.on /\ StopFor(i.sta)) => "TX_EMPTY" \notin u.ie

\* a send that was aborted, on a port that is off;
SendLost(d, u, b, i) ==
  /\ d.status = "send" /\ ~d.armed /\ u.en = {} /\ b.st = "idle" /\ SendCounts(d, u, i)

\* one that runs: its bytes have left, wait in the FIFO or in the buffer;
Sends(d, u, b, h, i) ==
  /\ d.status = "send" /\ d.armed /\ u.en = EnBit /\ b.st # "read" /\ SendCounts(d, u, i)
  /\ Len(d.txBuf) = d.txTot - d.txCnt
  /\ Chain(<< >>, h.out, u.tx, d.txBuf, Bytes(d.txTot))
  /\ "TX_EMPTY" \in u.ip \/ (i.on /\ "TX_EMPTY" \in i.sta) => u.tx = << >>
  /\ b.stop => d.txCnt = d.txTot /\ "TX_EMPTY" \notin u.ie
  /\ StopFor(u.ip) \/ (i.on /\ StopFor(i.sta)) => b.stop /\ u.tx = << >>

\* a receive that was aborted;
ReceiveLost(d, u, b) ==
  /\ d.status = "receive" /\ ~d.armed /\ u.en = {} /\ b.st = "idle"

\* The words of a receive are stored, have arrived, are asked for or are still to
\* be asked for; what has arrived and what is asked for reach the threshold.
Adds(d, u, h) ==
  /\ h.got = d.rxCnt /\ h.got + Len(u.rx) + Len(u.tx) + d.rxClk = d.rxTot
  /\ Len(u.rx) + Len(u.tx) <= Fifo
  /\ \A k \in 1..Len(u.tx) : u.tx[k] = Request
  /\ u.th.edge => (Fifo \div 4) * u.th.quarter <= Len(u.rx) + Len(u.tx)

\* or one that runs, and stops when it has all of them.
Receives(d, u, b, h, i) ==
  /\ d.status = "receive" /\ d.armed /\ u.en = EnBit /\ b.st # "write" /\ Adds(d, u, h)
  /\ b.stop => d.rxCnt = d.rxTot
  /\ "I2C_STOP" \in u.ip \/ (i.on /\ "I2C_STOP" \in i.sta) => b.stop \/ ~b.present

IicPhase(d, u, b, h, i) ==
  \/ Over(d, u, b, h) \/ SendLost(d, u, b, i) \/ Sends(d, u, b, h, i)
  \/ ReceiveLost(d, u, b) \/ Receives(d, u, b, h, i)

IicGood(d, u, b, h, i) ==
  IicTypes(d, u, b, h, i) /\ IicOpen(d, u, i) /\ IicPhase(d, u, b, h, i)

IicInv == IicGood(id, usi, ibus, irec, isr)

\* The four as one record, as the handler and the calls pass them on.
IicStates  == [d : IicDriver, u : Ports, b : IicBus, h : IicHistory]
Fine(s, i) == s \in IicStates /\ IicGood(s.d, s.u, s.b, s.h, i)

-----------------------------------------------------------------------------
(* The start of a transfer.                                                *)

\* A state with one part replaced.
LEMMA Replaced ==
  ASSUME NEW s \in IicStates
  PROVE  /\ \A u \in Ports : LET t == [s EXCEPT !.u = u]
                             IN t \in IicStates /\ t.d = s.d /\ t.u = u /\ t.b = s.b /\ t.h = s.h
         /\ \A d \in IicDriver : LET t == [s EXCEPT !.d = d]
                                 IN t \in IicStates /\ t.d = d /\ t.u = s.u /\ t.b = s.b /\ t.h = s.h
         /\ \A b \in IicBus : LET t == [s EXCEPT !.b = b]
                              IN t \in IicStates /\ t.d = s.d /\ t.u = s.u /\ t.b = b /\ t.h = s.h
         /\ \A h \in IicHistory : LET t == [s EXCEPT !.h = h]
                                  IN t \in IicStates /\ t.d = s.d /\ t.u = s.u /\ t.b = s.b /\ t.h = h
PROOF BY DEF IicStates

\* A state put together.
LEMMA PutTogether ==
  ASSUME NEW d \in IicDriver, NEW u \in Ports, NEW b \in IicBus, NEW h \in IicHistory
  PROVE  LET s == [d |-> d, u |-> u, b |-> b, h |-> h]
         IN  s \in IicStates /\ s.d = d /\ s.u = u /\ s.b = b /\ s.h = h
PROOF BY DEF IicStates

\* A word in an empty FIFO.
LEMMA FirstWord ==
  ASSUME NEW x \in Nat
  PROVE  Newest(<< >> \o <<x>>) = <<x>> /\ <<x>> \in Seq(Nat) /\ Len(<<x>>) = 1 /\ <<x>> # << >>
PROOF
  <1>1. <<x>> \in Seq(Nat) /\ Len(<<x>>) = 1 /\ <<x>> # << >> /\ << >> \o <<x>> = <<x>>
    BY ConcatEmptySeq
  <1>2. 1 <= Fifo
    BY FifoAssumption
  <1>3. Newest(<<x>>) = <<x>>
    BY <1>1, <1>2, NewestIs
  <1> QED
    BY <1>1, <1>3

\* A port whose enables and FIFOs are cleared and that is given one word: from a
\* port without interrupts, with ie enabled at the end.
LEMMA GivenWord ==
  ASSUME NEW u \in Ports, NEW x \in Nat, NEW ie \in SUBSET Intr
  PROVE  LET v == SetIe(WriteTx(Restart(SetIe(u, {}), Fifos, EnBit), <<x>>), ie)
         IN  /\ v \in Ports /\ v.mode = u.mode /\ v.mask = u.mask /\ v.irq = u.irq
             /\ v.th = u.th
             /\ v.en = EnBit /\ v.ie = ie /\ v.ip \subseteq ie
             /\ v.tx = <<x>> /\ v.rx = << >>
             /\ "TX_EMPTY" \notin v.ip /\ "I2C_STOP" \notin v.ip
PROOF
  <1> DEFINE a == SetIe(u, {})
             b == Restart(a, Fifos, EnBit)
             c == WriteTx(b, <<x>>)
             v == SetIe(c, ie)
  <1>1. /\ a \in Ports /\ a.mode = u.mode /\ a.mask = u.mask /\ a.irq = u.irq /\ a.th = u.th
        /\ a.ie = {} /\ a.ip = {}
    <2>1. Access(a, u, u.en, {}, u.tx, u.rx, u.ip)
      BY SetIeIs
    <2> QED
      BY <2>1 DEF Access
  <1> HIDE DEF a
  <1>2. /\ b \in Ports /\ b.mode = u.mode /\ b.mask = u.mask /\ b.irq = u.irq /\ b.th = u.th
        /\ b.en = EnBit /\ b.ie = {} /\ b.ip = {} /\ b.tx = << >> /\ b.rx = << >>
    <2>1. EnBit \in SUBSET EnBit /\ "tx" \in Fifos /\ "rx" \in Fifos
      BY DEF Fifos
    <2>2. Access(b, a, EnBit, a.ie, << >>, << >>, a.ip)
      BY <1>1, <2>1, RestartIs
    <2> QED
      BY <1>1, <2>2 DEF Access
  <1> HIDE DEF b
  <1>3. /\ c \in Ports /\ c.mode = u.mode /\ c.mask = u.mask /\ c.irq = u.irq /\ c.th = u.th
        /\ c.en = EnBit /\ c.ie = {} /\ c.ip = {} /\ c.tx = <<x>> /\ c.rx = << >>
    <2>1. <<x>> \in Seq(Nat) /\ Newest(b.tx \o <<x>>) = <<x>>
      BY <1>2, FirstWord
    <2>2. Access(c, b, b.en, b.ie, <<x>>, b.rx, b.ip)
      BY <1>2, <2>1, WriteTxIs
    <2>3. {"usi", "tx"} \subseteq EnBit
      BY DEF EnBit
    <2> QED
      BY <1>2, <2>2, <2>3 DEF Access
  <1> HIDE DEF c
  <1>4. Access(v, c, c.en, ie, c.tx, c.rx, c.ip)
    BY <1>3, SetIeIs
  <1>5. {"usi", "tx"} \subseteq EnBit /\ {"usi", "rx"} \subseteq EnBit
    BY DEF EnBit
  <1>6. c.tx # << >>
    BY <1>3, FirstWord
  <1> HIDE DEF v
  <1>7. /\ v \in Ports /\ v.mode = u.mode /\ v.mask = u.mask /\ v.irq = u.irq /\ v.th = u.th
        /\ v.en = EnBit /\ v.ie = ie /\ v.ip \subseteq ie /\ v.tx = <<x>> /\ v.rx = << >>
    BY <1>3, <1>4, <1>5 DEF Access
  <1>8. "TX_EMPTY" \notin v.ip /\ "I2C_STOP" \notin v.ip
    BY <1>3, <1>4, <1>6, <1>7 DEF Access
  <1> QED
    BY <1>7, <1>8 DEF v, c, b, a

\* The words of a new send: the first in the FIFO, the others in the buffer.
LEMMA SendChain ==
  ASSUME NEW n \in Nat \ {0}
  PROVE  LET rest == [k \in 1..(n - 1) |-> 1 + k]
         IN  /\ rest \in Seq(Nat) /\ Len(rest) = n - 1
             /\ Chain(<< >>, << >>, <<1>>, rest, Bytes(n))
PROOF
  <1> DEFINE rest == [k \in 1..(n - 1) |-> 1 + k]
             sent == Bytes(n)
  <1>1. rest \in Seq(Nat) /\ Len(rest) = n - 1 /\ \A k \in 1..(n - 1) : rest[k] = 1 + k
    OBVIOUS
  <1>2. Len(sent) = n /\ \A k \in 1..n : sent[k] = k
    BY DEF Bytes
  <1>3. Len(<< >>) = 0 /\ Len(<<1>>) = 1 /\ <<1>>[1] = 1
    OBVIOUS
  <1> HIDE DEF rest, sent
  <1>4. \A k \in 1..1 : <<1>>[k] = sent[0 + 0 + k]
    BY <1>2, <1>3
  <1>5. \A k \in 1..(n - 1) : rest[k] = sent[0 + 0 + 1 + k]
    BY <1>1, <1>2
  <1>6. 0 + 0 + 1 + (n - 1) = n
    OBVIOUS
  <1>7. Chain(<< >>, << >>, <<1>>, rest, sent)
    BY <1>1, <1>2, <1>3, <1>4, <1>5, <1>6 DEF Chain
  <1> QED
    BY <1>1, <1>7 DEF rest, sent

\* The history of a new transfer.
LEMMA HistoryStarts ==
  ASSUME NEW h \in IicHistory
  PROVE  LET k == [h EXCEPT !.out = << >>, !.got = 0, !.calls = @ + 1, !.event = "none"]
         IN  k \in IicHistory /\ k.out = << >> /\ k.got = 0 /\ k.event = "none"
PROOF
  <1> DEFINE a == [h EXCEPT !.out = << >>]
             b == [a EXCEPT !.got = 0]
             c == [b EXCEPT !.calls = h.calls + 1]
             k == [c EXCEPT !.event = "none"]
  <1>1. << >> \in Seq(Nat) /\ h.calls + 1 \in Nat
    BY DEF IicHistory
  <1>2. a \in IicHistory /\ a.out = << >> /\ a.calls = h.calls
    BY <1>1 DEF IicHistory
  <1>3. k = [h EXCEPT !.out = << >>, !.got = 0, !.calls = @ + 1, !.event = "none"]
    BY DEF IicHistory
  <1> HIDE DEF a
  <1>4. b \in IicHistory /\ b.out = << >> /\ b.got = 0
    BY <1>2 DEF IicHistory
  <1> HIDE DEF b
  <1>5. c \in IicHistory /\ c.out = << >> /\ c.got = 0
    BY <1>1, <1>4 DEF IicHistory
  <1> HIDE DEF c
  <1>6. k \in IicHistory /\ k.out = << >> /\ k.got = 0 /\ k.event = "none"
    BY <1>5 DEF IicHistory
  <1> HIDE DEF k
  <1> QED
    BY <1>3, <1>6

\* A send starts from any state in which no handler runs.
LEMMA SendStarts ==
  ASSUME NEW s \in IicStates, s.u.mode = "i2c", s.d.open,
         NEW i \in Handler, ~i.on, NEW n \in IicLens, NEW p \in BOOLEAN
  PROVE  Fine(IicSendStart(s, n, p), i)
PROOF
  <1>1. s.d \in IicDriver /\ s.u \in Ports /\ s.h \in IicHistory /\ n \in Nat \ {0}
    BY IicAssumption DEF IicStates
  <1> DEFINE m == Unmask(s.u, IicSendBits)
             v == SetIe(WriteTx(Restart(SetIe(m, {}), Fifos, EnBit), <<1>>), IicSendBits)
             rest == [k \in 1..(n - 1) |-> 1 + k]
             d == [s.d EXCEPT !.txBuf = rest, !.txTot = n, !.txCnt = 1,
                              !.status = "send", !.armed = TRUE]
             b == [st |-> "idle", stop |-> FALSE, present |-> p]
             h == [s.h EXCEPT !.out = << >>, !.got = 0, !.calls = @ + 1, !.event = "none"]
             t == [d |-> d, u |-> v, b |-> b, h |-> h]
  <1>2. IicSendStart(s, n, p) = t
    BY DEF IicSendStart
  <1>3. IicSendBits \in SUBSET Intr /\ "I2C_NACK" \in IicSendBits
    BY DEF IicSendBits, Intr
  <1>4. /\ v \in Ports /\ v.mode = "i2c" /\ v.mask = IicSendBits
        /\ v.en = EnBit /\ v.ie = IicSendBits /\ v.ip \subseteq IicSendBits
        /\ v.tx = <<1>> /\ "TX_EMPTY" \notin v.ip /\ "I2C_STOP" \notin v.ip
    <2>1. m \in Ports /\ m.mode = "i2c" /\ m.mask = IicSendBits
      BY <1>1, <1>3, UnmaskIs
    <2> HIDE DEF m
    <2> QED
      BY <1>3, <2>1, GivenWord
  <1>5. /\ rest \in Seq(Nat) /\ Len(rest) = n - 1
        /\ Chain(<< >>, << >>, <<1>>, rest, Bytes(n))
    BY <1>1, SendChain
  <1> HIDE DEF rest, v
  <1>6. /\ d \in IicDriver /\ d.open /\ d.status = "send" /\ d.armed /\ d.txTot = n /\ d.txCnt = 1
        /\ d.txBuf = rest
    BY <1>1, <1>5 DEF IicDriver
  <1>7. b \in IicBus /\ b.st = "idle" /\ ~b.stop
    BY DEF IicBus
  <1>9. h \in IicHistory /\ h.out = << >>
    BY <1>1, HistoryStarts
  <1> HIDE DEF d, b, h
  <1>10. t \in IicStates /\ t.d = d /\ t.u = v /\ t.b = b /\ t.h = h
    BY <1>4, <1>6, <1>7, <1>9, PutTogether
  <1>11. IicTypes(d, v, b, h, i)
    BY <1>4, <1>6, <1>7, <1>9 DEF IicTypes
  <1>12. IicOpen(d, v, i)
    <2>1. Len(v.tx) = 1 /\ v.en # {}
      BY <1>4, FirstWord DEF EnBit
    <2>2. Fifo >= 1 /\ Fifo \in Nat
      BY FifoAssumption
    <2> QED
      BY <1>4, <1>6, <2>1, <2>2 DEF IicOpen
  <1>13. SendCounts(d, v, i)
    <2>1. d.txTot # 0 /\ d.txCnt <= d.txTot
      BY <1>1, <1>6
    <2> QED
      BY <1>3, <1>4, <2>1 DEF SendCounts, StopFor
  <1>14. Len(d.txBuf) = d.txTot - d.txCnt
    BY <1>5, <1>6
  <1>15. Chain(<< >>, h.out, v.tx, d.txBuf, Bytes(d.txTot))
    BY <1>4, <1>5, <1>6, <1>9
  <1>16. Sends(d, v, b, h, i)
    BY <1>4, <1>6, <1>7, <1>13, <1>14, <1>15 DEF Sends, StopFor
  <1>17. IicGood(d, v, b, h, i)
    BY <1>11, <1>12, <1>16 DEF IicGood, IicPhase
  <1> HIDE DEF t
  <1> QED
    BY <1>2, <1>10, <1>17 DEF Fine

\* So does a receive.
LEMMA ReceiveStarts ==
  ASSUME NEW s \in IicStates, s.u.mode = "i2c", s.d.open,
         NEW i \in Handler, ~i.on, NEW n \in IicLens, NEW p \in BOOLEAN
  PROVE  Fine(IicReceiveStart(s, n, p), i)
PROOF
  <1>1. s.d \in IicDriver /\ s.u \in Ports /\ s.h \in IicHistory /\ n \in Nat \ {0}
    BY IicAssumption DEF IicStates
  <1> DEFINE r == SetRxThold(s.u, 1)
             m == Unmask(r, {"I2C_STOP", "RX_THOLD"})
             v == SetIe(WriteTx(Restart(SetIe(m, {}), Fifos, EnBit), <<Request>>), {"RX_THOLD"})
             d == [s.d EXCEPT !.rxTot = n, !.rxCnt = 0, !.rxClk = n - 1,
                              !.status = "receive", !.armed = TRUE]
             b == [st |-> "idle", stop |-> FALSE, present |-> p]
             h == [s.h EXCEPT !.out = << >>, !.got = 0, !.calls = @ + 1, !.event = "none"]
             t == [d |-> d, u |-> v, b |-> b, h |-> h]
  <1>2. IicReceiveStart(s, n, p) = t
    BY DEF IicReceiveStart
  <1>3. /\ v \in Ports /\ v.mode = "i2c"
        /\ v.en = EnBit /\ v.ie = {"RX_THOLD"} /\ v.ip \subseteq {"RX_THOLD"}
        /\ v.tx = <<Request>> /\ v.rx = << >> /\ "I2C_STOP" \notin v.ip
        /\ v.th.edge = (1 >= Fifo \div 4)
        /\ v.th.quarter = IF 1 >= Fifo THEN 3 ELSE IF 1 >= Fifo - (Fifo \div 4) THEN 2 ELSE 1
    <2>1. /\ r \in Ports /\ r.mode = "i2c" /\ r.th.edge = (1 >= Fifo \div 4)
          /\ r.th.quarter = IF 1 >= Fifo THEN 3 ELSE IF 1 >= Fifo - (Fifo \div 4) THEN 2 ELSE 1
      <3>1. 1 \in Nat
        OBVIOUS
      <3> HIDE DEF r
      <3> QED
        BY <1>1, <3>1, SetRxTholdIs DEF r
    <2> HIDE DEF r
    <2>2. {"I2C_STOP", "RX_THOLD"} \in SUBSET Intr /\ {"RX_THOLD"} \in SUBSET Intr
      BY DEF Intr
    <2>3. m \in Ports /\ m.mode = "i2c" /\ m.th = r.th
      BY <2>1, <2>2, UnmaskIs
    <2> HIDE DEF m
    <2>4. Request \in Nat
      BY DEF Request
    <2>5. /\ v \in Ports /\ v.mode = m.mode /\ v.th = m.th
          /\ v.en = EnBit /\ v.ie = {"RX_THOLD"} /\ v.ip \subseteq {"RX_THOLD"}
          /\ v.tx = <<Request>> /\ v.rx = << >> /\ "I2C_STOP" \notin v.ip
      BY <2>2, <2>3, <2>4, GivenWord
    <2> QED
      BY <2>1, <2>3, <2>5
  <1> HIDE DEF v
  <1>4. /\ d \in IicDriver /\ d.open /\ d.status = "receive" /\ d.armed /\ d.rxTot = n /\ d.rxCnt = 0
        /\ d.rxClk = n - 1
    <2>1. n - 1 \in Nat
      BY <1>1
    <2> QED
      BY <1>1, <2>1 DEF IicDriver
  <1>5. b \in IicBus /\ b.st = "idle" /\ ~b.stop
    BY DEF IicBus
  <1>7. h \in IicHistory /\ h.got = 0
    BY <1>1, HistoryStarts
  <1> HIDE DEF d, b, h
  <1>8. t \in IicStates /\ t.d = d /\ t.u = v /\ t.b = b /\ t.h = h
    BY <1>3, <1>4, <1>5, <1>7, PutTogether
  <1>9. IicTypes(d, v, b, h, i)
    BY <1>3, <1>4, <1>5, <1>7 DEF IicTypes
  <1>10. Len(v.tx) = 1 /\ v.tx[1] = Request /\ Len(v.rx) = 0
    BY <1>3
  <1>11. Fifo >= 4 /\ Fifo \in Nat /\ Fifo = 4 * (Fifo \div 4) /\ Fifo \div 4 \in Nat
    BY FifoAssumption
  <1>12. IicOpen(d, v, i)
    <2>1. v.en # {}
      BY <1>3 DEF EnBit
    <2> QED
      BY <1>3, <1>4, <1>10, <1>11, <2>1 DEF IicOpen
  <1>13. h.got + Len(v.rx) + Len(v.tx) + d.rxClk = d.rxTot
    BY <1>1, <1>4, <1>7, <1>10
  <1>14. Len(v.rx) + Len(v.tx) <= Fifo
    BY <1>10, <1>11
  <1>15. v.th.edge => (Fifo \div 4) * v.th.quarter <= Len(v.rx) + Len(v.tx)
    <2>1. SUFFICES ASSUME v.th.edge
                   PROVE  (Fifo \div 4) * v.th.quarter <= Len(v.rx) + Len(v.tx)
      OBVIOUS
    <2>2. 1 >= Fifo \div 4
      BY <1>3, <2>1
    <2>3. Fifo \div 4 = 1 /\ Fifo = 4
      BY <1>11, <2>2
    <2>4. v.th.quarter = 1
      BY <1>3, <2>3
    <2> QED
      BY <1>10, <2>3, <2>4
  <1>16. Receives(d, v, b, h, i)
    BY <1>3, <1>4, <1>5, <1>7, <1>10, <1>13, <1>14, <1>15 DEF Receives, Adds
  <1>17. IicGood(d, v, b, h, i)
    BY <1>9, <1>12, <1>16 DEF IicGood, IicPhase
  <1> HIDE DEF t
  <1> QED
    BY <1>2, <1>8, <1>17 DEF Fine

\* The callback is told of an event, or starts a transfer at once.
LEMMA SignalGood ==
  ASSUME NEW s \in IicStates, NEW i \in Handler, ~i.on,
         NEW event \in {"none", "done", "bus_error", "arbitration_lost"},
         Fine([s EXCEPT !.h = [s.h EXCEPT !.event = event]], i),
         NEW t \in Signal(s, event)
  PROVE  Fine(t, i)
PROOF
  <1> DEFINE h == [s.h EXCEPT !.event = event]
             r == [s EXCEPT !.h = h]
  <1>1. h \in IicHistory
    BY DEF IicStates, IicHistory
  <1> HIDE DEF h
  <1>2. r \in IicStates /\ r.d = s.d /\ r.u = s.u
    BY <1>1, Replaced
  <1>3. Fine(r, i)
    BY DEF h
  <1>4. t = r \/ (s.d.cb /\ t \in IicStarts(r))
    BY DEF Signal, h
  <1> HIDE DEF r
  <1>5. r.u.mode = "i2c" /\ (r.d.cb => r.d.open)
    BY <1>2, <1>3 DEF Fine, IicGood, IicTypes, IicOpen, IicStates, IicDriver
  <1>6. ASSUME s.d.cb, t \in IicStarts(r) PROVE Fine(t, i)
    <2>1. \E n \in IicLens, p \in BOOLEAN : t = IicSendStart(r, n, p) \/ t = IicReceiveStart(r, n, p)
      BY <1>6 DEF IicStarts
    <2> QED
      BY <1>2, <1>5, <1>6, <2>1, SendStarts, ReceiveStarts
  <1> QED
    BY <1>3, <1>4, <1>6

-----------------------------------------------------------------------------
(* The end of a transfer.                                                  *)

\* Switched off, the port is empty and the bus idle; the rest stays.
LEMMA OffIs ==
  ASSUME NEW s \in IicStates
  PROVE  LET t == Off(s)
         IN  /\ t \in IicStates /\ t.d = s.d /\ t.h = s.h
             /\ t.b.st = "idle" /\ t.b.stop = s.b.stop /\ t.b.present = s.b.present
             /\ t.u \in Ports /\ t.u.mode = s.u.mode /\ t.u.mask = s.u.mask /\ t.u.en = {}
             /\ t.u.tx = << >> /\ t.u.rx = << >> /\ t.u.ie = s.u.ie /\ t.u.ip \subseteq t.u.ie
             /\ Access(t.u, s.u, {}, s.u.ie, s.u.tx, s.u.rx, s.u.ip)
PROOF
  <1> DEFINE u == SetEn(s.u, {})
             b == [s.b EXCEPT !.st = "idle"]
             r == [s EXCEPT !.u = u]
             t == [r EXCEPT !.b = b]
  <1>1. s.u \in Ports /\ s.b \in IicBus /\ {} \in SUBSET EnBit
    BY DEF IicStates
  <1>2. Off(s) = t
    BY DEF Off, IicStates
  <1>3. Access(u, s.u, {}, s.u.ie, s.u.tx, s.u.rx, s.u.ip)
    BY <1>1, SetEnIs
  <1> HIDE DEF u
  <1>4. b \in IicBus /\ b.st = "idle" /\ b.stop = s.b.stop /\ b.present = s.b.present
    BY <1>1 DEF IicBus
  <1> HIDE DEF b
  <1>5. /\ u \in Ports /\ u.mode = s.u.mode /\ u.mask = s.u.mask /\ u.en = {}
        /\ u.tx = << >> /\ u.rx = << >> /\ u.ie = s.u.ie /\ u.ip \subseteq u.ie
    BY <1>3 DEF Access
  <1>6. r \in IicStates /\ r.d = s.d /\ r.u = u /\ r.h = s.h
    BY <1>5, Replaced
  <1> HIDE DEF r
  <1>7. t \in IicStates /\ t.d = s.d /\ t.u = u /\ t.b = b /\ t.h = s.h
    BY <1>4, <1>6, Replaced
  <1> HIDE DEF t
  <1> QED
    BY <1>2, <1>3, <1>4, <1>5, <1>7

\* A transfer has ended: the driver is switched off, and has nothing to send.
LEMMA OffGood ==
  ASSUME NEW s \in IicStates, s.u.mode = "i2c", NEW i \in Handler, ~i.on,
         s.d.status \notin {"send", "receive"}, ~s.d.open => ~s.d.cb, Done(s.d, s.b, s.h)
  PROVE  Fine(Off(s), i)
PROOF
  <1> DEFINE t == Off(s)
  <1>1. /\ t \in IicStates /\ t.d = s.d /\ t.h = s.h
        /\ t.b.st = "idle" /\ t.b.present = s.b.present
        /\ t.u \in Ports /\ t.u.mode = s.u.mode /\ t.u.en = {}
        /\ t.u.tx = << >> /\ t.u.rx = << >> /\ t.u.ip \subseteq t.u.ie
    BY OffIs
  <1> HIDE DEF t
  <1>2. t.d \in IicDriver /\ t.b \in IicBus /\ t.h \in IicHistory
    BY <1>1 DEF IicStates
  <1>3. IicTypes(t.d, t.u, t.b, t.h, i)
    BY <1>1, <1>2 DEF IicTypes
  <1>4. Len(t.u.tx) <= Fifo
    <2>1. Len(<< >>) = 0 /\ 0 <= Fifo
      BY FifoAssumption
    <2> QED
      BY <1>1, <2>1
  <1>5. IicOpen(t.d, t.u, i)
    BY <1>1, <1>4 DEF IicOpen
  <1>6. Over(t.d, t.u, t.b, t.h)
    BY <1>1 DEF Over, Done
  <1>7. Fine(t, i)
    BY <1>1, <1>3, <1>5, <1>6 DEF Fine, IicGood, IicPhase
  <1> QED
    BY <1>7 DEF t

\* The event of a transfer that has ended keeps what it promises; the callback
\* may start the next one.
LEMMA EndGood ==
  ASSUME NEW s \in IicStates, s.u.mode = "i2c", NEW i \in Handler, ~i.on,
         s.d.status \notin {"send", "receive"}, ~s.d.open => ~s.d.cb,
         NEW event \in {"none", "done", "bus_error", "arbitration_lost"},
         event = "done" /\ s.d.status = "sent" /\ s.d.armed => s.h.out = Bytes(s.d.txTot),
         event = "done" /\ s.d.status = "received" /\ s.d.armed /\ s.b.present => s.h.got = s.d.rxTot,
         NEW t \in Signal(Off(s), event)
  PROVE  Fine(t, i)
PROOF
  <1> DEFINE r == Off(s)
             h == [r.h EXCEPT !.event = event]
             w == [r EXCEPT !.h = h]
             x == [s EXCEPT !.h = h]
  <1>1. r \in IicStates /\ r.h = s.h
    BY OffIs
  <1>2. h \in IicHistory /\ h.event = event /\ h.out = s.h.out /\ h.got = s.h.got
    BY <1>1 DEF IicStates, IicHistory
  <1>3. x \in IicStates /\ x.d = s.d /\ x.u = s.u /\ x.b = s.b /\ x.h = h
    BY <1>2, Replaced
  <1>4. Done(x.d, x.b, x.h)
    BY <1>2, <1>3 DEF Done
  <1>5. Off(x) = w
    BY DEF Off, IicStates
  <1>6. Fine(Off(x), i)
    BY <1>3, <1>4, OffGood
  <1>7. Fine(w, i)
    BY <1>5, <1>6
  <1> QED
    BY <1>1, <1>7, SignalGood

\* With all its interrupts off and its FIFOs empty the port is quiet whatever it did.
LEMMA AllOffGood ==
  ASSUME NEW s \in IicStates, s.u.mode = "i2c", NEW i \in Handler, ~i.on,
         s.d.status \notin {"send", "receive"}, ~s.d.open => ~s.d.cb,
         NEW event \in {"bus_error", "arbitration_lost"}, NEW t \in Signal(AllOff(s), event)
  PROVE  Fine(t, i)
PROOF
  <1> DEFINE m == Unmask(s.u, {})
             v == SetIe(m, {})
             x == [s EXCEPT !.u = v]
  <1>1. s.u \in Ports /\ {} \in SUBSET Intr
    BY DEF IicStates
  <1>2. m \in Ports /\ m.mode = "i2c"
    BY <1>1, UnmaskIs
  <1>3. AllOff(s) = Off(x)
    BY DEF AllOff, IicStates
  <1> HIDE DEF m
  <1>4. v \in Ports /\ v.mode = "i2c"
    <2>1. Access(v, m, m.en, {}, m.tx, m.rx, m.ip)
      BY <1>1, <1>2, SetIeIs
    <2> QED
      BY <1>2, <2>1 DEF Access
  <1> HIDE DEF v
  <1>5. x \in IicStates /\ x.d = s.d /\ x.u = v /\ x.b = s.b /\ x.h = s.h
    BY <1>4, Replaced
  <1> HIDE DEF x
  <1>6. t \in Signal(Off(x), event)
    BY <1>3
  <1> QED
    BY <1>4, <1>5, <1>6, EndGood

\* Between transfers of the handler, bits other than NACK may be cleared.
LEMMA ClearedFine ==
  ASSUME NEW s \in IicStates, NEW i \in Handler, ~i.on, Fine(s, i), NEW bits, "I2C_NACK" \notin bits
  PROVE  Fine([s EXCEPT !.u = ClearIrq(@, bits)], i)
PROOF
  <1> DEFINE u == s.u
             v == ClearIrq(u, bits)
             t == [s EXCEPT !.u = v]
  <1>1. u \in Ports /\ Len(u.tx) <= Fifo /\ (u.en = {} => u.tx = << >> /\ u.rx = << >>) /\ u.mode = "i2c"
    BY DEF Fine, IicGood, IicTypes, IicOpen
  <1>2. Access(v, u, u.en, u.ie, u.tx, u.rx, u.ip \ bits)
    BY <1>1, ClearIrqIs
  <1> HIDE DEF v
  <1>3. /\ v \in Ports /\ v.mode = "i2c" /\ v.mask = u.mask /\ v.th = u.th /\ v.en = u.en
        /\ v.ie = u.ie /\ v.ip \subseteq v.ie
        /\ v.tx = u.tx \/ v.tx = << >>
        /\ v.rx = u.rx \/ v.rx = << >>
        /\ u.en = EnBit => v.tx = u.tx /\ v.rx = u.rx
        /\ "TX_EMPTY" \in v.ip => "TX_EMPTY" \in u.ip \/ v.tx = << >>
        /\ "I2C_STOP" \in v.ip => "I2C_STOP" \in u.ip
        /\ "I2C_NACK" \in u.ip => "I2C_NACK" \in v.ip
    <2>1. {"usi", "tx"} \subseteq EnBit /\ {"usi", "rx"} \subseteq EnBit
      BY DEF EnBit
    <2>2. u.ip \subseteq u.ie
      BY DEF Fine, IicGood, IicOpen
    <2> QED
      BY <1>1, <1>2, <2>1, <2>2 DEF Access
  <1>4. t \in IicStates /\ t.d = s.d /\ t.u = v /\ t.b = s.b /\ t.h = s.h
    BY <1>3, Replaced
  <1>5. StopFor(v.ip) => StopFor(u.ip)
    BY <1>3 DEF StopFor
  <1>6. IicTypes(s.d, v, s.b, s.h, i)
    BY <1>3 DEF Fine, IicGood, IicTypes
  <1>7. IicOpen(s.d, v, i)
    <2>1. Len(v.tx) <= Fifo
      <3>1. Len(<< >>) <= Fifo
        BY FifoAssumption
      <3> QED
        BY <1>1, <1>3, <3>1
    <2> QED
      BY <1>1, <1>3, <2>1 DEF Fine, IicGood, IicOpen
  <1>8. IicPhase(s.d, v, s.b, s.h, i)
    <2>1. ASSUME Over(s.d, u, s.b, s.h) PROVE Over(s.d, v, s.b, s.h)
      BY <1>3, <2>1 DEF Over
    <2>2. ASSUME SendCounts(s.d, u, i) PROVE SendCounts(s.d, v, i)
      BY <1>3, <1>5, <2>2 DEF SendCounts
    <2>3. ASSUME SendLost(s.d, u, s.b, i) PROVE SendLost(s.d, v, s.b, i)
      BY <1>3, <2>2, <2>3 DEF SendLost
    <2>4. ASSUME Sends(s.d, u, s.b, s.h, i) PROVE Sends(s.d, v, s.b, s.h, i)
      BY <1>3, <1>5, <2>2, <2>4 DEF Sends
    <2>5. ASSUME ReceiveLost(s.d, u, s.b) PROVE ReceiveLost(s.d, v, s.b)
      BY <1>3, <2>5 DEF ReceiveLost
    <2>6. ASSUME Receives(s.d, u, s.b, s.h, i) PROVE Receives(s.d, v, s.b, s.h, i)
      BY <1>3, <2>6 DEF Receives, Adds
    <2>7. IicPhase(s.d, u, s.b, s.h, i)
      BY DEF Fine, IicGood
    <2> HIDE DEF u
    <2> QED
      BY <2>1, <2>3, <2>4, <2>5, <2>6, <2>7 DEF IicPhase
  <1>9. Fine(t, i)
    BY <1>4, <1>6, <1>7, <1>8 DEF Fine, IicGood
  <1> QED
    BY <1>9 DEF t, v

-----------------------------------------------------------------------------
(* The handler's part of a send.                                           *)

\* How many bytes a pass writes.
Batch(s, sta) ==
  LET d == s.d
      free == Fifo - Len(s.u.tx)
  IN  IF "TX_EMPTY" \notin sta THEN 0 ELSE IF d.txTot - d.txCnt > free THEN free ELSE d.txTot - d.txCnt

\* A pass writes no more bytes than are left and than have room.
LEMMA BatchIs ==
  ASSUME NEW s \in IicStates, Len(s.u.tx) <= Fifo, s.d.txCnt <= s.d.txTot, NEW sta
  PROVE  LET n == Batch(s, sta)
         IN  /\ n \in Nat /\ n <= s.d.txTot - s.d.txCnt
             /\ s.d.txCnt = s.d.txTot \/ "TX_EMPTY" \notin sta => n = 0
             /\ n # 0 => n <= Fifo - Len(s.u.tx)
PROOF
  <1>1. s.d.txCnt \in Nat /\ s.d.txTot \in Nat /\ Len(s.u.tx) \in Nat /\ Fifo \in Nat
    BY FifoAssumption DEF IicStates, IicDriver, Ports, Port
  <1> DEFINE c == s.d.txCnt
             m == s.d.txTot
             free == Fifo - Len(s.u.tx)
  <1>2. c \in Nat /\ m \in Nat /\ free \in Nat /\ c <= m
    BY <1>1
  <1>3. Batch(s, sta) = IF "TX_EMPTY" \notin sta THEN 0 ELSE IF m - c > free THEN free ELSE m - c
    BY DEF Batch
  <1> HIDE DEF c, m, free
  <1>4. LET n == Batch(s, sta)
        IN  /\ n \in Nat /\ n <= m - c
            /\ c = m \/ "TX_EMPTY" \notin sta => n = 0
            /\ n # 0 => n <= free
    BY <1>2, <1>3
  <1> QED
    BY <1>4 DEF c, m, free

\* After its event the pass still adds up its count, of no bytes, and clears its bits.
LEMMA StopPassGood ==
  ASSUME NEW s \in IicStates, Fine(s, Idle), NEW sta, "I2C_NACK" \notin sta
  PROVE  LET r == [s EXCEPT !.d = [s.d EXCEPT !.txCnt = @ + 0]]
         IN  Fine([r EXCEPT !.u = ClearIrq(@, sta)], Idle)
PROOF
  <1>1. s.d \in IicDriver /\ s.d.txCnt \in Nat
    BY DEF IicStates, IicDriver
  <1>2. s.d.txCnt + 0 = s.d.txCnt
    BY <1>1
  <1>3. [s.d EXCEPT !.txCnt = @ + 0] = s.d
    BY <1>1, <1>2, SMTT(60) DEF IicDriver
  <1>4. [s EXCEPT !.d = [s.d EXCEPT !.txCnt = @ + 0]] = s
    BY <1>3 DEF IicStates
  <1>5. Idle \in Handler /\ ~Idle.on
    BY DEF Idle, Handler
  <1> QED
    BY <1>4, <1>5, ClearedFine

\* The FIFO is fed, if there is a buffer, and the stop ordered after the last byte.
Filled(s, n) == IF ~s.d.armed THEN s
             ELSE [s EXCEPT !.u = WriteTx(@, SubSeq(s.d.txBuf, 1, n)),
                            !.d = [s.d EXCEPT !.txBuf = SubSeq(@, n + 1, Len(@))]]
Ordered(s, fed) == IF s.d.txCnt # s.d.txTot THEN fed
                   ELSE [fed EXCEPT !.b = [fed.b EXCEPT !.stop = TRUE], !.u = IrqOff(@, {"TX_EMPTY"})]

\* A pass writes its batch, and ends the transfer if the stop is there.
LEMMA TxPass ==
  ASSUME NEW s \in IicStates, NEW sta, NEW r \in IicTxEmpty(s, sta)
  PROVE  LET n == Batch(s, sta)
             o == Ordered(s, Filled(s, n))
         IN  \E t : /\ r = [t EXCEPT !.d = [t.d EXCEPT !.txCnt = @ + n]]
                    /\ "I2C_STOP" \notin sta => t = o
                    /\ "I2C_STOP" \in sta => t \in Signal(Off([o EXCEPT !.d = [o.d EXCEPT !.status = "sent"]]), "done")
PROOF BY DEF IicTxEmpty, Batch, Filled, Ordered

\* A send that was aborted is neither fed nor finished, or finished at once.
LEMMA TxLostGood ==
  ASSUME NEW s \in IicStates, NEW i \in Handler, i.on, "I2C_NACK" \notin i.sta,
         IicGood(s.d, s.u, s.b, s.h, i), SendLost(s.d, s.u, s.b, i), NEW r \in IicTxEmpty(s, i.sta)
  PROVE  Fine([r EXCEPT !.u = ClearIrq(@, i.sta)], Idle)
PROOF
  <1> DEFINE d == s.d
             u == s.u
             n == Batch(s, i.sta)
             v == IF d.txCnt # d.txTot THEN u ELSE IrqOff(u, {"TX_EMPTY"})
             b == IF d.txCnt # d.txTot THEN s.b ELSE [s.b EXCEPT !.stop = TRUE]
             e == [d EXCEPT !.txCnt = @ + n]
             o == Ordered(s, Filled(s, n))
  <1>1. /\ d \in IicDriver /\ u \in Ports /\ s.b \in IicBus /\ s.h \in IicHistory /\ u.mode = "i2c"
        /\ Len(u.tx) <= Fifo /\ u.tx = << >> /\ u.rx = << >> /\ u.ip \subseteq u.ie /\ u.en = {}
        /\ (~d.open => ~d.cb /\ d.status \notin {"send", "receive"})
    BY DEF IicGood, IicTypes, IicOpen, SendLost
  <1>2. /\ ~d.armed /\ d.status = "send" /\ s.b.st = "idle"
        /\ d.txTot # 0 /\ d.txCnt <= d.txTot /\ u.mask = IicSendBits /\ "I2C_NACK" \in u.ie
        /\ StopFor(u.ip) \/ StopFor(i.sta) => "TX_EMPTY" \notin u.ie
    BY DEF SendLost, SendCounts
  <1>3. d.open
    BY <1>1, <1>2
  <1>4. n \in Nat /\ n <= d.txTot - d.txCnt /\ ("TX_EMPTY" \notin i.sta => n = 0)
    BY <1>1, <1>2, BatchIs
  <1>5. /\ v \in Ports /\ v.mode = "i2c" /\ v.mask = u.mask /\ v.en = {} /\ v.tx = << >> /\ v.rx = << >>
        /\ v.ie \subseteq u.ie /\ v.ip \subseteq v.ie /\ "I2C_NACK" \in v.ie
        /\ "I2C_STOP" \in v.ip => "I2C_STOP" \in u.ip
        /\ "I2C_NACK" \in u.ip => "I2C_NACK" \in v.ip
    <2>1. CASE d.txCnt # d.txTot
      BY <1>1, <1>2, <2>1
    <2>2. CASE d.txCnt = d.txTot
      <3>1. v = IrqOff(u, {"TX_EMPTY"}) /\ {"TX_EMPTY"} \in SUBSET Intr
        BY <2>2 DEF Intr
      <3>2. Access(v, u, u.en, u.ie \ {"TX_EMPTY"}, u.tx, u.rx, u.ip)
        BY <1>1, <3>1, IrqOffIs
      <3> HIDE DEF v
      <3> QED
        BY <1>1, <1>2, <3>2 DEF Access
    <2> QED
      BY <2>1, <2>2
  <1>6. b \in IicBus /\ b.st = "idle"
    BY <1>1, <1>2 DEF IicBus
  <1> HIDE DEF v, b, n
  <1>7. o \in IicStates /\ o.d = d /\ o.u = v /\ o.b = b /\ o.h = s.h
    <2>1. o = IF d.txCnt # d.txTot THEN s ELSE [s EXCEPT !.b = b, !.u = v]
      BY <1>2 DEF Ordered, Filled, IicStates, v, b
    <2> QED
      BY <1>1, <1>5, <1>6, <2>1 DEF IicStates, v, b
  <1> HIDE DEF o
  <1>8. PICK t : /\ r = [t EXCEPT !.d = [t.d EXCEPT !.txCnt = @ + n]]
                 /\ "I2C_STOP" \notin i.sta => t = o
                 /\ "I2C_STOP" \in i.sta =>
                      t \in Signal(Off([o EXCEPT !.d = [o.d EXCEPT !.status = "sent"]]), "done")
    BY TxPass DEF n, o
  <1>9. Idle \in Handler /\ ~Idle.on
    BY DEF Idle, Handler
  <1>10. CASE "I2C_STOP" \in i.sta
    <2>1. n = 0
      <3>1. "TX_EMPTY" \notin u.ie /\ i.sta \subseteq u.ie
        BY <1>2, <1>10 DEF StopFor, IicGood, IicOpen
      <3> QED
        BY <1>4, <3>1
    <2> DEFINE f == [d EXCEPT !.status = "sent"]
               x == [o EXCEPT !.d = f]
    <2>2. f \in IicDriver /\ f.status = "sent" /\ ~f.armed /\ f.open
      BY <1>1, <1>2, <1>3 DEF IicDriver
    <2> HIDE DEF f
    <2>3. x \in IicStates /\ x.d = f /\ x.u = v
      BY <1>7, <2>2, Replaced
    <2>4. t \in Signal(Off(x), "done")
      BY <1>7, <1>8, <1>10 DEF f
    <2> HIDE DEF x
    <2>5. Fine(t, Idle)
      BY <1>5, <1>9, <2>2, <2>3, <2>4, EndGood
    <2>6. t \in IicStates
      BY <2>5 DEF Fine
    <2>7. r = [t EXCEPT !.d = [t.d EXCEPT !.txCnt = @ + 0]]
      BY <1>8, <2>1
    <2> QED
      BY <2>5, <2>6, <2>7, StopPassGood
  <1>11. CASE "I2C_STOP" \notin i.sta
    <2> DEFINE w == ClearIrq(v, i.sta)
               y == [o EXCEPT !.d = e]
               z == [y EXCEPT !.u = w]
    <2>1. e \in IicDriver /\ e.status = "send" /\ ~e.armed /\ e.open /\ e.txTot = d.txTot
          /\ e.txCnt = d.txCnt + n /\ e.cb = d.cb
      <3>1. d.txCnt + n \in Nat
        BY <1>1, <1>4 DEF IicDriver
      <3> QED
        BY <1>1, <1>2, <1>3, <3>1 DEF IicDriver
    <2>2. e.txCnt <= e.txTot
      <3>1. d.txCnt \in Nat /\ d.txTot \in Nat
        BY <1>1 DEF IicDriver
      <3> QED
        BY <1>4, <2>1, <3>1
    <2> HIDE DEF e
    <2>3. y \in IicStates /\ y.d = e /\ y.u = v /\ y.b = b /\ y.h = s.h
      BY <1>7, <2>1, Replaced
    <2>4. [r EXCEPT !.u = ClearIrq(@, i.sta)] = z
      <3>1. r = y
        BY <1>7, <1>8, <1>11 DEF e
      <3> HIDE DEF y
      <3> QED
        BY <2>3, <3>1 DEF IicStates
    <2>5. Access(w, v, v.en, v.ie, v.tx, v.rx, v.ip \ i.sta)
      BY <1>5, ClearIrqIs
    <2> HIDE DEF w, y
    <2>6. /\ w \in Ports /\ w.mode = "i2c" /\ w.mask = u.mask /\ w.en = {} /\ w.tx = << >> /\ w.rx = << >>
          /\ w.ie = v.ie /\ w.ip \subseteq w.ie /\ "I2C_NACK" \in w.ie
          /\ "I2C_STOP" \in w.ip => "I2C_STOP" \in v.ip
          /\ "I2C_NACK" \in v.ip => "I2C_NACK" \in w.ip
      BY <1>5, <2>5 DEF Access
    <2>7. z \in IicStates /\ z.d = e /\ z.u = w /\ z.b = b /\ z.h = s.h
      BY <2>3, <2>6, Replaced
    <2> HIDE DEF z
    <2>8. IicTypes(e, w, b, s.h, Idle)
      BY <1>1, <1>6, <1>9, <2>1, <2>6 DEF IicTypes
    <2>9. Len(w.tx) <= Fifo
      BY <2>6, FifoAssumption
    <2>10. IicOpen(e, w, Idle)
      BY <1>9, <2>1, <2>6, <2>9 DEF IicOpen
    <2>11. StopFor(w.ip) => StopFor(u.ip)
      BY <1>5, <2>6 DEF StopFor
    <2>12. SendCounts(e, w, Idle)
      BY <1>2, <1>5, <1>9, <2>1, <2>2, <2>6, <2>11 DEF SendCounts
    <2>13. SendLost(e, w, b, Idle)
      BY <1>6, <2>1, <2>6, <2>12 DEF SendLost
    <2>14. Fine(z, Idle)
      BY <2>7, <2>8, <2>10, <2>13 DEF Fine, IicGood, IicPhase
    <2> QED
      BY <2>4, <2>14
  <1> QED
    BY <1>10, <1>11

\* The batch goes to the end of the FIFO, and leaves the buffer.
LEMMA BatchWritten ==
  ASSUME NEW s \in IicStates, s.u.en = EnBit, NEW n \in 0..Len(s.d.txBuf),
         (n = 0 /\ Len(s.u.tx) <= Fifo) \/ (s.u.tx = << >> /\ n <= Fifo),
         Chain(<< >>, s.h.out, s.u.tx, s.d.txBuf, Bytes(s.d.txTot))
  PROVE  LET v == WriteTx(s.u, SubSeq(s.d.txBuf, 1, n))
             q == SubSeq(s.d.txBuf, n + 1, Len(s.d.txBuf))
         IN  /\ q \in Seq(Nat) /\ Len(q) = Len(s.d.txBuf) - n
             /\ Access(v, s.u, EnBit, s.u.ie, v.tx, s.u.rx, s.u.ip)
             /\ Len(v.tx) <= Fifo /\ (n = 0 => v.tx = s.u.tx)
             /\ Chain(<< >>, s.h.out, v.tx, q, Bytes(s.d.txTot))
PROOF
  <1> DEFINE u == s.u
             w == s.d.txBuf
             p == SubSeq(w, 1, n)
             q == SubSeq(w, n + 1, Len(w))
             v == WriteTx(u, p)
             sent == Bytes(s.d.txTot)
  <1>1. /\ u \in Ports /\ u.tx \in Seq(Nat) /\ w \in Seq(Nat) /\ s.h.out \in Seq(Nat)
        /\ s.d.txTot \in Nat
    BY DEF IicStates, IicDriver, IicHistory, Ports, Port
  <1>2. sent \in Seq(Nat)
    BY <1>1 DEF Bytes
  <1>3. /\ p \in Seq(Nat) /\ Len(p) = n /\ q \in Seq(Nat) /\ Len(q) = Len(w) - n
    BY <1>1, OfSplit
  <1>4. ASSUME u.tx = << >> PROVE Chain(<< >>, s.h.out, p, q, sent)
    <2>1. << >> \in Seq(Nat) /\ Chain(<< >>, s.h.out, << >>, w, sent)
      BY <1>4
    <2> HIDE DEF sent
    <2> QED
      BY <1>1, <1>2, <2>1, ChainWrite
  <1>5. ASSUME n = 0 PROVE p = << >> /\ q = w
    <2>1. p = << >>
      BY <1>3, <1>5
    <2>2. q = SubSeq(w, 1, Len(w))
      BY <1>5
    <2>3. q = w
      BY <1>1, <2>2
    <2> QED
      BY <2>1, <2>3
  <1>6. Access(v, u, EnBit, u.ie, Newest(u.tx \o p), u.rx, u.ip)
    <2> HIDE DEF p
    <2> QED
      BY <1>1, <1>3, WriteTxIs
  <1>7. v.tx = Newest(u.tx \o p)
    <2>1. {"usi", "tx"} \subseteq EnBit
      BY DEF EnBit
    <2> HIDE DEF v, p
    <2> QED
      BY <1>6, <2>1 DEF Access
  <1>8. v.tx = IF n = 0 THEN u.tx ELSE p
    <2>1. CASE n = 0
      <3>1. u.tx \o p = u.tx
        BY <1>1, <1>5, <2>1, ConcatEmptySeq
      <3>2. Len(u.tx) <= Fifo
        <4>1. Len(<< >>) <= Fifo
          BY FifoAssumption
        <4> QED
          BY <4>1
      <3> QED
        BY <1>1, <1>7, <2>1, <3>1, <3>2, NewestIs
    <2>2. CASE n # 0
      <3>1. u.tx \o p = p
        BY <1>3, <2>2, ConcatEmptySeq
      <3> QED
        BY <1>3, <1>7, <2>2, <3>1, NewestIs
    <2> QED
      BY <2>1, <2>2
  <1> HIDE DEF v, p, q
  <1>9. Access(v, u, EnBit, u.ie, v.tx, u.rx, u.ip)
    BY <1>6, <1>7
  <1>10. Len(v.tx) <= Fifo
    <2>1. CASE n = 0
      <3>1. Len(<< >>) <= Fifo
        BY FifoAssumption
      <3> QED
        BY <1>8, <2>1, <3>1
    <2>2. CASE n # 0
      BY <1>3, <1>8, <2>2
    <2> QED
      BY <2>1, <2>2
  <1>11. Chain(<< >>, s.h.out, v.tx, q, sent)
    <2>1. CASE n = 0
      BY <1>5, <1>8, <2>1
    <2>2. CASE n # 0
      BY <1>4, <1>8, <2>2
    <2> QED
      BY <2>1, <2>2
  <1> QED
    BY <1>3, <1>8, <1>9, <1>10, <1>11 DEF v, p, q

\* A running send is fed: none of its bytes is lost, and the stop is only ordered
\* when all of them are in the FIFO.
LEMMA FedGood ==
  ASSUME NEW s \in IicStates, NEW i \in Handler, i.on, "I2C_NACK" \notin i.sta,
         IicGood(s.d, s.u, s.b, s.h, i), Sends(s.d, s.u, s.b, s.h, i)
  PROVE  LET n == Batch(s, i.sta)
             o == Ordered(s, Filled(s, n))
         IN  /\ n \in Nat /\ s.d.txCnt + n <= s.d.txTot
             /\ o \in IicStates /\ o.h = s.h
             /\ o.d = [s.d EXCEPT !.txBuf = SubSeq(s.d.txBuf, n + 1, Len(s.d.txBuf))]
             /\ Len(o.d.txBuf) = Len(s.d.txBuf) - n
             /\ o.b.st = s.b.st /\ o.b.present = s.b.present
             /\ o.u.mode = "i2c" /\ o.u.mask = s.u.mask /\ o.u.en = EnBit
             /\ o.u.ie \subseteq s.u.ie /\ o.u.ip \subseteq o.u.ie /\ "I2C_NACK" \in o.u.ie
             /\ "I2C_STOP" \in o.u.ip => "I2C_STOP" \in s.u.ip
             /\ "I2C_NACK" \in s.u.ip => "I2C_NACK" \in o.u.ip
             /\ "TX_EMPTY" \in o.u.ip => o.u.tx = << >> \/ "TX_EMPTY" \in i.sta
             /\ Len(o.u.tx) <= Fifo /\ (n = 0 => o.u.tx = s.u.tx)
             /\ Chain(<< >>, s.h.out, o.u.tx, o.d.txBuf, Bytes(s.d.txTot))
             /\ o.b.stop => s.d.txCnt = s.d.txTot /\ "TX_EMPTY" \notin o.u.ie
             /\ s.d.txCnt = s.d.txTot => n = 0 /\ o.b.stop
PROOF
  <1> DEFINE d == s.d
             u == s.u
             n == Batch(s, i.sta)
             q == SubSeq(d.txBuf, n + 1, Len(d.txBuf))
             v == WriteTx(u, SubSeq(d.txBuf, 1, n))
             e == [d EXCEPT !.txBuf = q]
             w == IF d.txCnt # d.txTot THEN v ELSE IrqOff(v, {"TX_EMPTY"})
             b == IF d.txCnt # d.txTot THEN s.b ELSE [s.b EXCEPT !.stop = TRUE]
             o == Ordered(s, Filled(s, n))
  <1>1. /\ d \in IicDriver /\ u \in Ports /\ s.b \in IicBus /\ s.h \in IicHistory /\ u.mode = "i2c"
        /\ Len(u.tx) <= Fifo /\ u.ip \subseteq u.ie /\ u.en = EnBit
    BY DEF IicGood, IicTypes, IicOpen, Sends
  <1>2. d.armed /\ d.txCnt <= d.txTot /\ "I2C_NACK" \in u.ie
    BY DEF Sends, SendCounts
  <1>3. /\ Len(d.txBuf) = d.txTot - d.txCnt
        /\ Chain(<< >>, s.h.out, u.tx, d.txBuf, Bytes(d.txTot))
        /\ "TX_EMPTY" \in u.ip \/ "TX_EMPTY" \in i.sta => u.tx = << >>
        /\ s.b.stop => d.txCnt = d.txTot
    BY DEF Sends
  <1>4. d.txCnt \in Nat /\ d.txTot \in Nat /\ d.txBuf \in Seq(Nat)
    BY <1>1 DEF IicDriver
  <1>5. /\ n \in Nat /\ n <= d.txTot - d.txCnt /\ (n # 0 => n <= Fifo - Len(u.tx))
        /\ d.txCnt = d.txTot \/ "TX_EMPTY" \notin i.sta => n = 0
    BY <1>1, <1>2, BatchIs
  <1> HIDE DEF n
  <1>6. d.txCnt + n <= d.txTot /\ n \in 0..Len(d.txBuf)
    BY <1>3, <1>4, <1>5
  <1>7. (n = 0 /\ Len(u.tx) <= Fifo) \/ (u.tx = << >> /\ n <= Fifo)
    <2>1. ASSUME n # 0 PROVE u.tx = << >> /\ n <= Fifo
      <3>1. u.tx = << >> /\ Len(<< >>) = 0 /\ Fifo \in Nat
        BY <1>3, <1>5, <2>1, FifoAssumption
      <3> QED
        BY <1>5, <2>1, <3>1
    <2> QED
      BY <1>1, <2>1
  <1>8. /\ q \in Seq(Nat) /\ Len(q) = Len(d.txBuf) - n
        /\ Access(v, u, EnBit, u.ie, v.tx, u.rx, u.ip)
        /\ Len(v.tx) <= Fifo /\ (n = 0 => v.tx = u.tx)
        /\ Chain(<< >>, s.h.out, v.tx, q, Bytes(d.txTot))
    BY <1>1, <1>3, <1>6, <1>7, BatchWritten
  <1> HIDE DEF v, q
  <1>9. /\ v \in Ports /\ v.mode = "i2c" /\ v.mask = u.mask /\ v.en = EnBit /\ v.ie = u.ie
        /\ v.ip \subseteq v.ie
        /\ "I2C_STOP" \in v.ip => "I2C_STOP" \in u.ip
        /\ "I2C_NACK" \in u.ip => "I2C_NACK" \in v.ip
        /\ "TX_EMPTY" \in v.ip => v.tx = << >> \/ "TX_EMPTY" \in u.ip
    BY <1>1, <1>2, <1>8 DEF Access
  <1>10. "TX_EMPTY" \in v.ip => v.tx = << >> \/ "TX_EMPTY" \in i.sta
    <2>1. ASSUME "TX_EMPTY" \in v.ip, "TX_EMPTY" \notin i.sta PROVE v.tx = << >>
      BY <1>3, <1>5, <1>8, <1>9, <2>1
    <2> QED
      BY <2>1
  <1>11. /\ w \in Ports /\ w.mode = "i2c" /\ w.mask = u.mask /\ w.en = EnBit /\ w.ie \subseteq u.ie
         /\ w.ip \subseteq w.ie /\ "I2C_NACK" \in w.ie /\ w.tx = v.tx
         /\ "I2C_STOP" \in w.ip => "I2C_STOP" \in u.ip
         /\ "I2C_NACK" \in u.ip => "I2C_NACK" \in w.ip
         /\ "TX_EMPTY" \in w.ip => w.tx = << >> \/ "TX_EMPTY" \in i.sta
         /\ d.txCnt = d.txTot => "TX_EMPTY" \notin w.ie
    <2>1. CASE d.txCnt # d.txTot
      BY <1>2, <1>9, <1>10, <2>1
    <2>2. CASE d.txCnt = d.txTot
      <3>1. w = IrqOff(v, {"TX_EMPTY"}) /\ {"TX_EMPTY"} \in SUBSET Intr
        BY <2>2 DEF Intr
      <3>2. Access(w, v, v.en, v.ie \ {"TX_EMPTY"}, v.tx, v.rx, v.ip)
        BY <1>9, <3>1, IrqOffIs
      <3>3. {"usi", "tx"} \subseteq EnBit
        BY DEF EnBit
      <3> HIDE DEF w
      <3> QED
        BY <1>2, <1>9, <3>2, <3>3 DEF Access
    <2> QED
      BY <2>1, <2>2
  <1>12. /\ b \in IicBus /\ b.st = s.b.st /\ b.present = s.b.present
         /\ b.stop => d.txCnt = d.txTot
         /\ d.txCnt = d.txTot => b.stop
    BY <1>1, <1>3 DEF IicBus
  <1>13. e \in IicDriver /\ e.txBuf = q
    BY <1>1, <1>8 DEF IicDriver
  <1>14. o \in IicStates /\ o.d = e /\ o.u = w /\ o.b = b /\ o.h = s.h
    <2> DEFINE f == [[s EXCEPT !.u = v] EXCEPT !.d = e]
               g == [[f EXCEPT !.b = b] EXCEPT !.u = w]
    <2> HIDE DEF e
    <2>1. /\ f \in IicStates /\ f.d = e /\ f.u = v /\ f.b = s.b /\ f.h = s.h
      BY <1>9, <1>13 DEF IicStates
    <2>2. Filled(s, n) = f
      BY <1>2 DEF Filled, e, v, q, IicStates
    <2> HIDE DEF f
    <2>3. CASE d.txCnt # d.txTot
      BY <2>1, <2>2, <2>3 DEF Ordered
    <2>4. CASE d.txCnt = d.txTot
      <3>1. w = IrqOff(v, {"TX_EMPTY"}) /\ b = [s.b EXCEPT !.stop = TRUE]
        BY <2>4
      <3> HIDE DEF w, b
      <3>2. o = g
        BY <2>1, <2>2, <2>4, <3>1 DEF Ordered, IicStates
      <3> QED
        BY <1>11, <1>12, <2>1, <3>2 DEF IicStates
    <2> QED
      BY <2>3, <2>4
  <1>15. o.b.stop => s.d.txCnt = s.d.txTot /\ "TX_EMPTY" \notin o.u.ie
    <2> HIDE DEF w, b, e, o
    <2> QED
      BY <1>11, <1>12, <1>14
  <1> HIDE DEF w, b, o
  <1> QED
    BY <1>5, <1>6, <1>8, <1>11, <1>12, <1>13, <1>14, <1>15 DEF n, o, q

\* A running send is fed, or ends with all its bytes on the bus.
LEMMA TxRunsGood ==
  ASSUME NEW s \in IicStates, NEW i \in Handler, i.on, "I2C_NACK" \notin i.sta,
         IicGood(s.d, s.u, s.b, s.h, i), Sends(s.d, s.u, s.b, s.h, i), NEW r \in IicTxEmpty(s, i.sta)
  PROVE  Fine([r EXCEPT !.u = ClearIrq(@, i.sta)], Idle)
PROOF
  <1> DEFINE d == s.d
             u == s.u
             n == Batch(s, i.sta)
             o == Ordered(s, Filled(s, n))
             q == SubSeq(d.txBuf, n + 1, Len(d.txBuf))
  <1>1. /\ d \in IicDriver /\ u \in Ports /\ s.h \in IicHistory /\ u.mode = "i2c" /\ d.open
        /\ i.sta \subseteq u.ie
    BY DEF IicGood, IicTypes, IicOpen, Sends
  <1>2. /\ d.status = "send" /\ d.armed /\ d.txTot # 0 /\ d.txCnt <= d.txTot /\ u.mask = IicSendBits
        /\ StopFor(u.ip) \/ StopFor(i.sta) => "TX_EMPTY" \notin u.ie
        /\ s.b.st # "read" /\ Len(d.txBuf) = d.txTot - d.txCnt
        /\ s.b.stop => d.txCnt = d.txTot
        /\ StopFor(u.ip) \/ StopFor(i.sta) => s.b.stop /\ u.tx = << >>
    BY DEF Sends, SendCounts
  <1>3. d.txCnt \in Nat /\ d.txTot \in Nat /\ d.txBuf \in Seq(Nat)
    BY <1>1 DEF IicDriver
  <1>4. /\ n \in Nat /\ d.txCnt + n <= d.txTot
        /\ o \in IicStates /\ o.h = s.h
        /\ o.d = [d EXCEPT !.txBuf = q]
        /\ Len(o.d.txBuf) = Len(d.txBuf) - n
        /\ o.b.st = s.b.st /\ o.b.present = s.b.present
        /\ o.u.mode = "i2c" /\ o.u.mask = u.mask /\ o.u.en = EnBit
        /\ o.u.ie \subseteq u.ie /\ o.u.ip \subseteq o.u.ie /\ "I2C_NACK" \in o.u.ie
        /\ "I2C_STOP" \in o.u.ip => "I2C_STOP" \in u.ip
        /\ "I2C_NACK" \in u.ip => "I2C_NACK" \in o.u.ip
        /\ "TX_EMPTY" \in o.u.ip => o.u.tx = << >> \/ "TX_EMPTY" \in i.sta
        /\ Len(o.u.tx) <= Fifo /\ (n = 0 => o.u.tx = u.tx)
        /\ Chain(<< >>, s.h.out, o.u.tx, o.d.txBuf, Bytes(d.txTot))
        /\ o.b.stop => d.txCnt = d.txTot /\ "TX_EMPTY" \notin o.u.ie
        /\ d.txCnt = d.txTot => n = 0 /\ o.b.stop
    BY FedGood
  <1>5. PICK t : /\ r = [t EXCEPT !.d = [t.d EXCEPT !.txCnt = @ + n]]
                 /\ "I2C_STOP" \notin i.sta => t = o
                 /\ "I2C_STOP" \in i.sta =>
                      t \in Signal(Off([o EXCEPT !.d = [o.d EXCEPT !.status = "sent"]]), "done")
    BY TxPass DEF n, o
  <1> HIDE DEF o, n
  <1>6. /\ o.d \in IicDriver /\ o.u \in Ports /\ o.b \in IicBus
    BY <1>4 DEF IicStates
  <1>7. /\ o.d.status = "send" /\ o.d.armed /\ o.d.open /\ o.d.txTot = d.txTot
        /\ o.d.txCnt = d.txCnt /\ o.d.cb = d.cb
    <2> HIDE DEF q
    <2> QED
      BY <1>1, <1>2, <1>4 DEF IicDriver
  <1> HIDE DEF q
  <1>8. Idle \in Handler /\ ~Idle.on
    BY DEF Idle, Handler
  <1>9. CASE "I2C_STOP" \in i.sta
    <2>1. s.b.stop /\ u.tx = << >> /\ d.txCnt = d.txTot
      BY <1>2, <1>9 DEF StopFor
    <2>2. n = 0 /\ o.u.tx = << >>
      BY <1>4, <2>1
    <2>3. o.d.txBuf = << >>
      <3>1. Len(o.d.txBuf) = 0 /\ o.d.txBuf \in Seq(Nat)
        BY <1>2, <1>3, <1>4, <1>6, <2>1, <2>2 DEF IicDriver
      <3> QED
        BY <3>1
    <2>4. s.h.out = Bytes(d.txTot)
      <3> DEFINE sent == Bytes(d.txTot)
      <3>1. Chain(<< >>, s.h.out, << >>, << >>, sent)
        BY <1>4, <2>2, <2>3
      <3>2. s.h.out \in Seq(Nat) /\ << >> \in Seq(Nat)
        BY <1>1 DEF IicHistory
      <3>3. sent \in Seq(Nat)
        BY <1>3 DEF Bytes
      <3> HIDE DEF sent
      <3>4. Chain(<< >> \o s.h.out, << >>, << >>, << >>, sent)
        BY <3>1, <3>2, <3>3, ChainRead
      <3>5. << >> \o s.h.out = s.h.out
        BY <3>2, ConcatEmptySeq
      <3>6. Chain(s.h.out, << >>, << >>, << >>, sent)
        BY <3>4, <3>5
      <3>7. s.h.out = sent
        BY <3>2, <3>3, <3>6, ChainStored
      <3> QED
        BY <3>7 DEF sent
    <2> DEFINE f == [o.d EXCEPT !.status = "sent"]
               x == [o EXCEPT !.d = f]
    <2>5. f \in IicDriver /\ f.status = "sent" /\ f.open /\ f.txTot = d.txTot
      BY <1>6, <1>7 DEF IicDriver
    <2> HIDE DEF f
    <2>6. x \in IicStates /\ x.d = f /\ x.u = o.u /\ x.h = s.h
      BY <1>4, <2>5, Replaced
    <2>7. t \in Signal(Off(x), "done")
      BY <1>5, <1>9 DEF f
    <2> HIDE DEF x
    <2>8. Fine(t, Idle)
      BY <1>4, <1>8, <2>4, <2>5, <2>6, <2>7, EndGood
    <2>9. t \in IicStates
      BY <2>8 DEF Fine
    <2>10. r = [t EXCEPT !.d = [t.d EXCEPT !.txCnt = @ + 0]]
      BY <1>5, <2>2
    <2> QED
      BY <2>8, <2>9, <2>10, StopPassGood
  <1>10. CASE "I2C_STOP" \notin i.sta
    <2> DEFINE e == [o.d EXCEPT !.txCnt = @ + n]
               w == ClearIrq(o.u, i.sta)
               y == [o EXCEPT !.d = e]
               z == [y EXCEPT !.u = w]
    <2>1. /\ e \in IicDriver /\ e.status = "send" /\ e.armed /\ e.open /\ e.txTot = d.txTot
          /\ e.txCnt = d.txCnt + n /\ e.txBuf = o.d.txBuf
      <3>1. o.d.txCnt + n \in Nat
        BY <1>3, <1>4, <1>7
      <3> QED
        BY <1>6, <1>7, <3>1 DEF IicDriver
    <2>2. e.txCnt <= e.txTot /\ Len(e.txBuf) = e.txTot - e.txCnt
      BY <1>2, <1>3, <1>4, <2>1
    <2>3. y \in IicStates /\ y.d = e /\ y.u = o.u /\ y.b = o.b /\ y.h = s.h
      BY <1>4, <2>1, Replaced
    <2>4. [r EXCEPT !.u = ClearIrq(@, i.sta)] = z
      <3>1. r = y
        BY <1>5, <1>10
      <3> HIDE DEF y, e
      <3> QED
        BY <2>3, <3>1 DEF IicStates
    <2> HIDE DEF e
    <2>5. Access(w, o.u, o.u.en, o.u.ie, o.u.tx, o.u.rx, o.u.ip \ i.sta)
      BY <1>6, ClearIrqIs
    <2> HIDE DEF w, y
    <2>6. /\ w \in Ports /\ w.mode = "i2c" /\ w.mask = u.mask /\ w.en = EnBit /\ w.tx = o.u.tx
          /\ w.ie = o.u.ie /\ w.ip \subseteq w.ie /\ "I2C_NACK" \in w.ie
          /\ "I2C_STOP" \in w.ip => "I2C_STOP" \in o.u.ip
          /\ "I2C_NACK" \in o.u.ip => "I2C_NACK" \in w.ip
          /\ "TX_EMPTY" \in w.ip => w.tx = << >> \/ ("TX_EMPTY" \in o.u.ip /\ "TX_EMPTY" \notin i.sta)
      <3>1. {"usi", "tx"} \subseteq EnBit
        BY DEF EnBit
      <3> QED
        BY <1>4, <2>5, <3>1 DEF Access
    <2>7. z \in IicStates /\ z.d = e /\ z.u = w /\ z.b = o.b /\ z.h = s.h
      BY <2>3, <2>6, Replaced
    <2> HIDE DEF z
    <2>8. IicTypes(e, w, o.b, s.h, Idle)
      BY <1>1, <1>6, <1>8, <2>1, <2>6 DEF IicTypes
    <2>9. IicOpen(e, w, Idle)
      <3>1. w.en # {}
        BY <2>6 DEF EnBit
      <3> QED
        BY <1>4, <1>8, <2>1, <2>6, <3>1 DEF IicOpen
    <2>10. StopFor(w.ip) => StopFor(u.ip)
      BY <1>4, <2>6 DEF StopFor
    <2>11. SendCounts(e, w, Idle)
      BY <1>2, <1>4, <1>8, <2>1, <2>2, <2>6, <2>10 DEF SendCounts
    <2>12. "TX_EMPTY" \in w.ip => w.tx = << >>
      BY <1>4, <2>6
    <2>13. o.b.stop => e.txCnt = e.txTot /\ "TX_EMPTY" \notin w.ie
      BY <1>3, <1>4, <2>1, <2>6
    <2>14. StopFor(w.ip) => o.b.stop /\ w.tx = << >>
      BY <1>2, <1>4, <2>6, <2>10
    <2>15. Chain(<< >>, s.h.out, w.tx, e.txBuf, Bytes(e.txTot))
      BY <1>4, <2>1, <2>6
    <2>16. Sends(e, w, o.b, s.h, Idle)
      BY <1>2, <1>4, <1>8, <2>1, <2>2, <2>6, <2>11, <2>12, <2>13, <2>14, <2>15 DEF Sends
    <2>17. Fine(z, Idle)
      BY <2>7, <2>8, <2>9, <2>16 DEF Fine, IicGood, IicPhase
    <2> QED
      BY <2>4, <2>17
  <1> QED
    BY <1>9, <1>10

\* The handler's pass over a send.
LEMMA TxEmptyGood ==
  ASSUME NEW s \in IicStates, NEW i \in Handler, i.on, "I2C_NACK" \notin i.sta,
         IicGood(s.d, s.u, s.b, s.h, i), s.d.status = "send", NEW r \in IicTxEmpty(s, i.sta)
  PROVE  Fine([r EXCEPT !.u = ClearIrq(@, i.sta)], Idle)
PROOF
  <1>1. SendLost(s.d, s.u, s.b, i) \/ Sends(s.d, s.u, s.b, s.h, i)
    BY DEF IicGood, IicPhase, Over, ReceiveLost, Receives
  <1> QED
    BY <1>1, TxLostGood, TxRunsGood

-----------------------------------------------------------------------------
(* The handler's part of a receive.                                        *)

\* A pass asks for what is left to ask for, and for what has room.
LEMMA AskIs ==
  ASSUME NEW clk \in Nat, NEW room \in Nat
  PROVE  AskFor(clk, room) \in Nat /\ AskFor(clk, room) <= clk /\ AskFor(clk, room) <= room
PROOF BY DEF AskFor

\* Requests at the end of a FIFO with room for them.
LEMMA RequestsAdded ==
  ASSUME NEW f \in Seq(Nat), NEW n \in Nat, Len(f) + n <= Fifo
  PROVE  LET ws == [k \in 1..n |-> Request]
             g == Newest(f \o ws)
         IN  /\ ws \in Seq(Nat) /\ g \in Seq(Nat) /\ Len(g) = Len(f) + n
             /\ (\A k \in 1..Len(f) : f[k] = Request) => \A k \in 1..Len(g) : g[k] = Request
PROOF
  <1> DEFINE ws == [k \in 1..n |-> Request]
             c == f \o ws
             g == Newest(c)
  <1>1. ws \in Seq(Nat) /\ Len(ws) = n /\ \A k \in 1..n : ws[k] = Request
    BY DEF Request
  <1> HIDE DEF ws
  <1>2. c \in Seq(Nat) /\ Len(c) = Len(f) + n
    BY <1>1, ConcatProperties
  <1>3. \A k \in 1..(Len(f) + n) : c[k] = IF k <= Len(f) THEN f[k] ELSE ws[k - Len(f)]
    BY <1>1, ConcatProperties
  <1> HIDE DEF c
  <1>4. g = c
    BY <1>2, NewestIs
  <1>5. ASSUME \A k \in 1..Len(f) : f[k] = Request, NEW k \in 1..Len(c) PROVE c[k] = Request
    <2>1. CASE k <= Len(f)
      <3>1. k \in 1..Len(f)
        BY <1>2, <2>1
      <3> QED
        BY <1>2, <1>3, <1>5, <2>1, <3>1
    <2>2. CASE ~(k <= Len(f))
      <3>1. k - Len(f) \in 1..n
        BY <1>2, <2>2
      <3> QED
        BY <1>1, <1>2, <1>3, <2>2, <3>1
    <2> QED
      BY <2>1, <2>2
  <1> QED
    BY <1>1, <1>2, <1>4, <1>5 DEF c, ws

\* The port after a pass that read everything and asked for n more words: the
\* threshold it leaves is not beyond them.
ReadPort(u, n) ==
  SetRxThold(WriteTx(TakeRx(ClearIrq(u, {"RX_THOLD"}), Len(u.rx)), [k \in 1..n |-> Request]), n)

\* What reading everything and asking for n words does to the port: the FIFOs, the causes, the threshold.
LEMMA ReadPortIs ==
  ASSUME NEW u \in Ports, NEW n \in Nat, Len(u.tx) + n <= Fifo,
         u.en = EnBit \/ (u.en = {} /\ u.tx = << >> /\ u.rx = << >>)
  PROVE  LET v == ReadPort(u, n)
         IN  /\ v \in Ports /\ v.mode = u.mode /\ v.mask = u.mask /\ v.irq = u.irq
             /\ v.en = u.en /\ v.ie = u.ie /\ v.ip \subseteq v.ie
             /\ "I2C_STOP" \in v.ip => "I2C_STOP" \in u.ip
             /\ v.rx = << >> /\ Len(v.tx) <= Fifo /\ (u.en = {} => v.tx = << >>)
             /\ u.en = EnBit => Len(v.tx) = Len(u.tx) + n
             /\ (\A k \in 1..Len(u.tx) : u.tx[k] = Request) => \A k \in 1..Len(v.tx) : v.tx[k] = Request
             /\ v.th.edge => (Fifo \div 4) * v.th.quarter <= n
PROOF
  <1> DEFINE ws == [k \in 1..n |-> Request]
             m == Len(u.rx)
             a == ClearIrq(u, {"RX_THOLD"})
             b == TakeRx(a, m)
             f == Newest(u.tx \o ws)
             c == WriteTx(b, ws)
             v == SetRxThold(c, n)
  <1>1. u.tx \in Seq(Nat) /\ u.rx \in Seq(Nat) /\ m \in Nat /\ u.ip \in SUBSET Intr
    BY DEF Ports, Port
  <1>2. /\ ws \in Seq(Nat) /\ f \in Seq(Nat) /\ Len(f) = Len(u.tx) + n
        /\ (\A k \in 1..Len(u.tx) : u.tx[k] = Request) => \A k \in 1..Len(f) : f[k] = Request
    BY <1>1, RequestsAdded
  <1> HIDE DEF ws, f
  <1>3. /\ u.en = EnBit => {"usi", "tx"} \subseteq u.en /\ {"usi", "rx"} \subseteq u.en
        /\ u.en = {} => ~({"usi", "tx"} \subseteq u.en) /\ ~({"usi", "rx"} \subseteq u.en)
    BY DEF EnBit
  <1>4. /\ a \in Ports /\ a.mode = u.mode /\ a.mask = u.mask /\ a.irq = u.irq /\ a.en = u.en
        /\ a.ie = u.ie /\ a.tx = u.tx /\ a.rx = u.rx /\ ("I2C_STOP" \in a.ip => "I2C_STOP" \in u.ip)
    <2>1. Access(a, u, u.en, u.ie, u.tx, u.rx, u.ip \ {"RX_THOLD"})
      BY ClearIrqIs
    <2> HIDE DEF a
    <2> QED
      BY <1>3, <2>1 DEF Access
  <1> HIDE DEF a
  <1>5. /\ b \in Ports /\ b.mode = u.mode /\ b.mask = u.mask /\ b.irq = u.irq /\ b.en = u.en
        /\ b.ie = u.ie /\ b.tx = u.tx /\ b.rx = << >> /\ ("I2C_STOP" \in b.ip => "I2C_STOP" \in u.ip)
    <2>1. m \in 0..Len(a.rx)
      BY <1>1, <1>4
    <2>2. Access(b, a, a.en, a.ie, a.tx, SubSeq(a.rx, m + 1, Len(a.rx)), a.ip)
      BY <1>4, <2>1, TakeRxIs
    <2>3. SubSeq(a.rx, m + 1, Len(a.rx)) = << >>
      <3>1. Len(a.rx) = m /\ a.rx \in Seq(Nat)
        BY <1>1, <1>4
      <3> HIDE DEF m
      <3>2. /\ SubSeq(a.rx, m + 1, Len(a.rx)) \in Seq(Nat)
            /\ Len(SubSeq(a.rx, m + 1, Len(a.rx))) = Len(a.rx) - m
        <4>1. m \in 0..Len(a.rx)
          BY <2>1
        <4> QED
          BY <3>1, <4>1, OfSplit
      <3>3. Len(SubSeq(a.rx, m + 1, Len(a.rx))) = 0
        BY <3>1, <3>2
      <3> QED
        BY <3>2, <3>3
    <2> HIDE DEF b, m
    <2> QED
      BY <1>3, <1>4, <2>2, <2>3 DEF Access
  <1> HIDE DEF b
  <1>6. /\ c \in Ports /\ c.mode = u.mode /\ c.mask = u.mask /\ c.irq = u.irq /\ c.en = u.en
        /\ c.ie = u.ie /\ c.rx = << >> /\ ("I2C_STOP" \in c.ip => "I2C_STOP" \in u.ip)
        /\ c.tx = IF u.en = EnBit THEN f ELSE << >>
    <2>1. Newest(b.tx \o ws) = f
      BY <1>5 DEF f
    <2>2. Access(c, b, b.en, b.ie, Newest(b.tx \o ws), b.rx, b.ip)
      BY <1>2, <1>5, WriteTxIs
    <2>3. Access(c, b, b.en, b.ie, f, b.rx, b.ip)
      BY <2>1, <2>2
    <2> HIDE DEF c
    <2> QED
      BY <1>3, <1>5, <2>3 DEF Access
  <1> HIDE DEF c
  <1>7. /\ v \in Ports /\ v.mode = u.mode /\ v.mask = u.mask /\ v.irq = u.irq /\ v.en = u.en
        /\ v.ie = u.ie /\ v.rx = << >> /\ v.ip \subseteq v.ie /\ ("I2C_STOP" \in v.ip => "I2C_STOP" \in u.ip)
        /\ v.tx = c.tx
        /\ v.th.edge = (n >= Fifo \div 4)
        /\ v.th.quarter = IF n >= Fifo THEN 3 ELSE IF n >= Fifo - (Fifo \div 4) THEN 2 ELSE 1
    <2>1. /\ v \in Ports /\ v.mode = c.mode /\ v.irq = c.irq /\ v.mask = c.mask
          /\ v.en = c.en /\ v.ie = c.ie
          /\ v.tx = IF {"usi", "tx"} \subseteq c.en THEN c.tx ELSE << >>
          /\ v.rx = IF {"usi", "rx"} \subseteq c.en THEN c.rx ELSE << >>
          /\ v.ip \subseteq c.ie
          /\ "I2C_STOP" \in v.ip <=> "I2C_STOP" \in c.ie /\ "I2C_STOP" \in c.ip
          /\ v.th.edge = (n >= Fifo \div 4)
          /\ v.th.quarter = IF n >= Fifo THEN 3 ELSE IF n >= Fifo - (Fifo \div 4) THEN 2 ELSE 1
      BY <1>6, SetRxTholdIs
    <2> HIDE DEF v
    <2> QED
      BY <1>3, <1>6, <2>1
  <1> HIDE DEF v
  <1>8. Len(v.tx) <= Fifo /\ (u.en = {} => v.tx = << >>)
        /\ (u.en = EnBit => Len(v.tx) = Len(u.tx) + n)
    <2>1. Len(<< >>) = 0 /\ 0 <= Fifo /\ EnBit # {}
      BY FifoAssumption DEF EnBit
    <2> QED
      BY <1>2, <1>6, <1>7, <2>1
  <1>9. (\A k \in 1..Len(u.tx) : u.tx[k] = Request) => \A k \in 1..Len(v.tx) : v.tx[k] = Request
    <2>1. Len(<< >>) = 0 /\ 1..0 = {}
      OBVIOUS
    <2>2. CASE u.en = EnBit
      BY <1>2, <1>6, <1>7, <2>2
    <2>3. CASE u.en # EnBit
      <3>1. v.tx = << >>
        BY <1>6, <1>7, <2>3
      <3> QED
        BY <2>1, <3>1
    <2> QED
      BY <2>2, <2>3
  <1>10. ASSUME v.th.edge PROVE (Fifo \div 4) * v.th.quarter <= n
    <2> DEFINE q == Fifo \div 4
    <2>1. q \in Nat /\ Fifo = 4 * q
      BY FifoAssumption
    <2>2. n >= q
      BY <1>7, <1>10
    <2>3. v.th.quarter = IF n >= Fifo THEN 3 ELSE IF n >= Fifo - q THEN 2 ELSE 1
      BY <1>7
    <2> HIDE DEF q
    <2>4. CASE n >= Fifo
      <3>1. v.th.quarter = 3 /\ q * 3 = 3 * q /\ 3 * q <= n
        BY <2>1, <2>3, <2>4
      <3> QED
        BY <3>1 DEF q
    <2>5. CASE ~(n >= Fifo) /\ n >= Fifo - q
      <3>1. v.th.quarter = 2 /\ q * 2 = 2 * q /\ 2 * q <= n
        BY <2>1, <2>3, <2>5
      <3> QED
        BY <3>1 DEF q
    <2>6. CASE ~(n >= Fifo) /\ ~(n >= Fifo - q)
      <3>1. v.th.quarter = 1 /\ q * 1 = q /\ q <= n
        BY <2>1, <2>2, <2>3, <2>6
      <3> QED
        BY <3>1 DEF q
    <2> QED
      BY <2>4, <2>5, <2>6
  <1>11. v = ReadPort(u, n)
    BY DEF ReadPort, v, c, b, a, m, ws
  <1> QED
    BY <1>7, <1>8, <1>9, <1>10, <1>11

\* The state after a pass that served RX_THOLD, if it was told to.
Asked(s, sta) ==
  LET d == s.d
      n == Len(s.u.rx)
      ask == AskFor(d.rxClk, Fifo - Len(s.u.tx))
      read == [s EXCEPT !.u = ReadPort(@, ask),
                        !.d = [d EXCEPT !.rxCnt = @ + n, !.rxClk = @ - ask],
                        !.h = [s.h EXCEPT !.got = @ + (IF d.armed THEN n ELSE 0)]]
  IN  IF "RX_THOLD" \notin sta THEN s
      ELSE IF ask = 0 THEN [read EXCEPT !.u = IrqOn(@, {"I2C_STOP"})] ELSE read

\* The state after the stop was ordered, if all has been read.
StopAsked(a) ==
  IF ~AllRead(a.d) THEN a
  ELSE [a EXCEPT !.b = [a.b EXCEPT !.stop = TRUE], !.u = IrqOff(@, {"RX_THOLD"})]

\* The pass over a receive in two parts: what is stored and asked for, and the stop.
LEMMA RxPass ==
  ASSUME NEW s, NEW sta
  PROVE  LET o == StopAsked(Asked(s, sta))
         IN  IicRxFull(s, sta) =
               IF "I2C_STOP" \in sta
               THEN Signal(Off([o EXCEPT !.u = ClearIrq(@, {"I2C_STOP"}),
                                         !.d = [o.d EXCEPT !.status = "received"]]), "done")
               ELSE {o}
PROOF BY DEF IicRxFull, Asked, StopAsked, ReadPort

\* What has arrived is stored and new words are asked for: they still add up.
LEMMA AskedIs ==
  ASSUME NEW s \in IicStates, Len(s.u.tx) <= Fifo, s.u.ip \subseteq s.u.ie,
         s.u.en = EnBit \/ (s.u.en = {} /\ s.u.tx = << >> /\ s.u.rx = << >>), NEW sta
  PROVE  LET a == Asked(s, sta)
         IN  /\ a \in IicStates /\ a.b = s.b
             /\ a.d.status = s.d.status /\ a.d.armed = s.d.armed /\ a.d.open = s.d.open
             /\ a.d.cb = s.d.cb /\ a.d.rxTot = s.d.rxTot
             /\ a.u.mode = s.u.mode /\ a.u.en = s.u.en /\ a.u.ip \subseteq a.u.ie
             /\ "I2C_STOP" \in a.u.ip => "I2C_STOP" \in s.u.ip
             /\ Len(a.u.tx) <= Fifo /\ (s.u.en = {} => a.u.tx = << >> /\ a.u.rx = << >>)
             /\ (s.d.armed /\ s.u.en = EnBit /\ Adds(s.d, s.u, s.h)) =>
                  Adds(a.d, a.u, a.h) /\ (s.d.rxCnt = s.d.rxTot => a.d.rxCnt = s.d.rxTot)
PROOF
  <1> DEFINE d == s.d
             u == s.u
             h == s.h
             n == Len(u.rx)
             ask == AskFor(d.rxClk, Fifo - Len(u.tx))
             v == ReadPort(u, ask)
             e == [d EXCEPT !.rxCnt = @ + n, !.rxClk = @ - ask]
             g == [h EXCEPT !.got = @ + (IF d.armed THEN n ELSE 0)]
             read == [s EXCEPT !.u = v, !.d = e, !.h = g]
             w == IF ask = 0 THEN IrqOn(v, {"I2C_STOP"}) ELSE v
             a == Asked(s, sta)
  <1>1. d \in IicDriver /\ u \in Ports /\ s.b \in IicBus /\ h \in IicHistory
    BY DEF IicStates
  <1>2. /\ d.rxCnt \in Nat /\ d.rxClk \in Nat /\ d.rxTot \in Nat /\ h.got \in Nat
        /\ n \in Nat /\ Len(u.tx) \in Nat /\ Fifo \in Nat
    <2>1. u.rx \in Seq(Nat) /\ u.tx \in Seq(Nat)
      BY <1>1 DEF Ports, Port
    <2>2. n \in Nat /\ Len(u.tx) \in Nat
      BY <2>1
    <2> HIDE DEF n
    <2> QED
      BY <1>1, <2>2, FifoAssumption DEF IicDriver, IicHistory
  <1>3. CASE "RX_THOLD" \notin sta
    <2>1. a = s
      BY <1>3 DEF Asked
    <2>2. EnBit # {}
      BY DEF EnBit
    <2> HIDE DEF a
    <2> QED
      BY <1>1, <2>1, <2>2 DEF a
  <1>4. CASE "RX_THOLD" \in sta
    <2>1. ask \in Nat /\ ask <= d.rxClk /\ Len(u.tx) + ask <= Fifo
      <3>1. Fifo - Len(u.tx) \in Nat
        BY <1>2
      <3>2. ask \in Nat /\ ask <= d.rxClk /\ ask <= Fifo - Len(u.tx)
        BY <1>2, <3>1, AskIs
      <3> QED
        BY <1>2, <3>2
    <2> HIDE DEF ask
    <2>2. /\ v \in Ports /\ v.mode = u.mode /\ v.en = u.en /\ v.ie = u.ie /\ v.ip \subseteq v.ie
          /\ "I2C_STOP" \in v.ip => "I2C_STOP" \in u.ip
          /\ v.rx = << >> /\ Len(v.tx) <= Fifo /\ (u.en = {} => v.tx = << >>)
          /\ u.en = EnBit => Len(v.tx) = Len(u.tx) + ask
          /\ (\A k \in 1..Len(u.tx) : u.tx[k] = Request) => \A k \in 1..Len(v.tx) : v.tx[k] = Request
          /\ v.th.edge => (Fifo \div 4) * v.th.quarter <= ask
      BY <1>1, <2>1, ReadPortIs
    <2> HIDE DEF v
    <2>3. /\ w \in Ports /\ w.mode = u.mode /\ w.en = u.en /\ w.ip \subseteq w.ie /\ w.th = v.th
          /\ "I2C_STOP" \in w.ip => "I2C_STOP" \in u.ip
          /\ w.rx = << >> /\ (w.tx = v.tx \/ w.tx = << >>)
          /\ u.en = EnBit => w.tx = v.tx
      <3>1. CASE ask = 0
        <4>1. w = IrqOn(v, {"I2C_STOP"}) /\ {"I2C_STOP"} \in SUBSET Intr
          BY <3>1 DEF Intr
        <4>2. Access(w, v, v.en, v.ie \cup {"I2C_STOP"}, v.tx, v.rx, v.ip)
          BY <2>2, <4>1, IrqOnIs
        <4>3. {"usi", "tx"} \subseteq EnBit
          BY DEF EnBit
        <4> HIDE DEF w
        <4> QED
          BY <2>2, <4>2, <4>3 DEF Access
      <3>2. CASE ask # 0
        BY <2>2, <3>2
      <3> QED
        BY <3>1, <3>2
    <2>4. /\ e \in IicDriver /\ e.status = d.status /\ e.armed = d.armed /\ e.open = d.open
          /\ e.cb = d.cb /\ e.rxTot = d.rxTot /\ e.rxCnt = d.rxCnt + n /\ e.rxClk = d.rxClk - ask
      <3> DEFINE x == d.rxCnt + n
                 y == d.rxClk - ask
                 e1 == [d EXCEPT !.rxCnt = x]
                 e2 == [e1 EXCEPT !.rxClk = y]
      <3>1. x \in Nat /\ y \in Nat
        <4> DEFINE p == d.rxCnt
                   c == d.rxClk
        <4>1. p \in Nat /\ c \in Nat /\ n \in Nat /\ ask \in Nat /\ ask <= c
          BY <1>2, <2>1
        <4> HIDE DEF p, c, n
        <4>2. p + n \in Nat /\ c - ask \in Nat
          BY <4>1
        <4> QED
          BY <4>2 DEF p, c
      <3>2. e = e2
        BY <1>1 DEF IicDriver
      <3> HIDE DEF x, y, e
      <3>3. /\ e1 \in IicDriver /\ e1.status = d.status /\ e1.armed = d.armed /\ e1.open = d.open
            /\ e1.cb = d.cb /\ e1.rxTot = d.rxTot /\ e1.rxCnt = x
        BY <1>1, <3>1 DEF IicDriver
      <3> HIDE DEF e1
      <3>4. /\ e2 \in IicDriver /\ e2.status = d.status /\ e2.armed = d.armed /\ e2.open = d.open
            /\ e2.cb = d.cb /\ e2.rxTot = d.rxTot /\ e2.rxCnt = x /\ e2.rxClk = y
        BY <3>1, <3>3 DEF IicDriver
      <3> QED
        BY <3>2, <3>4 DEF x, y
    <2>5. g \in IicHistory /\ (d.armed => g.got = h.got + n)
      <3> DEFINE x == h.got + (IF d.armed THEN n ELSE 0)
      <3>1. x \in Nat /\ (d.armed => x = h.got + n)
        BY <1>2
      <3> HIDE DEF x
      <3>2. [h EXCEPT !.got = x] \in IicHistory /\ [h EXCEPT !.got = x].got = x
        BY <1>1, <3>1 DEF IicHistory
      <3> QED
        BY <3>1, <3>2 DEF x
    <2> HIDE DEF e, g
    <2>6. a \in IicStates /\ a.b = s.b /\ a.d = e /\ a.h = g /\ a.u = w
      <3> DEFINE r1 == [s EXCEPT !.u = v]
                 r2 == [r1 EXCEPT !.d = e]
                 r3 == [r2 EXCEPT !.h = g]
      <3>1. a = IF ask = 0 THEN [read EXCEPT !.u = IrqOn(@, {"I2C_STOP"})] ELSE read
        BY <1>4 DEF Asked, ask, v, e, g, a
      <3> HIDE DEF a
      <3>2. read = r3
        BY DEF IicStates
      <3>3. r1 \in IicStates /\ r1.d = s.d /\ r1.u = v /\ r1.b = s.b /\ r1.h = s.h
        BY <2>2, Replaced
      <3> HIDE DEF r1
      <3>4. r2 \in IicStates /\ r2.d = e /\ r2.u = v /\ r2.b = s.b /\ r2.h = s.h
        BY <2>4, <3>3, Replaced
      <3> HIDE DEF r2, read
      <3>5. r3 \in IicStates /\ r3.d = e /\ r3.u = v /\ r3.b = s.b /\ r3.h = g
        BY <2>5, <3>4, Replaced
      <3> HIDE DEF r3
      <3>6. CASE ask = 0
        <4>1. a = [r3 EXCEPT !.u = w]
          BY <3>1, <3>2, <3>5, <3>6
        <4> HIDE DEF w
        <4> QED
          BY <2>3, <3>5, <4>1, Replaced
      <3>7. CASE ask # 0
        BY <3>1, <3>2, <3>5, <3>7
      <3> QED
        BY <3>6, <3>7
    <2> HIDE DEF a, w
    <2>7. Len(a.u.tx) <= Fifo /\ (u.en = {} => a.u.tx = << >> /\ a.u.rx = << >>)
      <3>1. Len(<< >>) = 0
        OBVIOUS
      <3> QED
        BY <1>2, <2>2, <2>3, <2>6, <3>1
    <2>8. ASSUME d.armed, u.en = EnBit, Adds(d, u, h)
          PROVE  Adds(a.d, a.u, a.h) /\ (d.rxCnt = d.rxTot => a.d.rxCnt = d.rxTot)
      <3>1. /\ h.got = d.rxCnt /\ h.got + n + Len(u.tx) + d.rxClk = d.rxTot
            /\ \A k \in 1..Len(u.tx) : u.tx[k] = Request
        BY <2>8 DEF Adds
      <3> HIDE DEF n
      <3>2. w.tx = v.tx /\ w.rx = << >> /\ Len(w.rx) = 0 /\ Len(w.tx) = Len(u.tx) + ask
        BY <2>2, <2>3, <2>8
      <3>3. g.got = e.rxCnt
        BY <2>4, <2>5, <2>8, <3>1
      <3>4. g.got + Len(w.rx) + Len(w.tx) + e.rxClk = e.rxTot
        <4>1. (h.got + n) + 0 + (Len(u.tx) + ask) + (d.rxClk - ask) = d.rxTot
          <5> DEFINE x == Len(u.tx)
                     c == d.rxClk
                     y == h.got
          <5>1. x \in Nat /\ c \in Nat /\ y \in Nat /\ n \in Nat /\ ask \in Nat /\ y + n + x + c = d.rxTot
            BY <1>2, <2>1, <3>1
          <5> HIDE DEF x, c, y
          <5>2. (y + n) + 0 + (x + ask) + (c - ask) = y + n + x + c
            BY <5>1
          <5> QED
            BY <5>1, <5>2 DEF x, c, y
        <4>2. g.got = h.got + n /\ e.rxClk = d.rxClk - ask /\ e.rxTot = d.rxTot
          BY <2>4, <2>5, <2>8
        <4> QED
          BY <3>2, <4>1, <4>2
      <3>5. Len(w.rx) + Len(w.tx) <= Fifo
        BY <1>2, <2>1, <3>2
      <3>6. \A k \in 1..Len(w.tx) : w.tx[k] = Request
        BY <2>2, <3>1, <3>2
      <3>7. w.th.edge => (Fifo \div 4) * w.th.quarter <= Len(w.rx) + Len(w.tx)
        <4> DEFINE q == (Fifo \div 4) * w.th.quarter
        <4>1. q \in Nat
          <5>1. w.th.quarter \in Nat /\ Fifo \div 4 \in Nat
            BY <2>3, FifoAssumption DEF Ports, Port
          <5> QED
            BY <5>1
        <4>2. w.th.edge => q <= ask
          BY <2>2, <2>3
        <4> HIDE DEF q
        <4>3. w.th.edge => q <= Len(w.rx) + Len(w.tx)
          <5> DEFINE x == Len(w.rx)
                     y == Len(w.tx)
                     z == Len(u.tx)
          <5>1. x = 0 /\ y = z + ask /\ z \in Nat /\ ask \in Nat
            BY <1>2, <2>1, <3>2
          <5> HIDE DEF x, y, z
          <5>2. w.th.edge => q <= x + y
            BY <4>1, <4>2, <5>1
          <5> QED
            BY <5>2 DEF x, y
        <4> QED
          BY <4>3 DEF q
      <3>8. d.rxCnt = d.rxTot => e.rxCnt = d.rxTot
        <4> DEFINE p == d.rxCnt
                   x == Len(u.tx)
                   c == d.rxClk
                   q == d.rxTot
        <4>1. p \in Nat /\ x \in Nat /\ c \in Nat /\ n \in Nat /\ p + n + x + c = q /\ e.rxCnt = p + n
          BY <1>2, <2>4, <3>1 DEF n
        <4> HIDE DEF p, x, c, q
        <4>2. p = q => e.rxCnt = q
          BY <4>1
        <4> QED
          BY <4>2 DEF p, q
      <3> QED
        BY <2>6, <3>3, <3>4, <3>5, <3>6, <3>7, <3>8 DEF Adds
    <2> QED
      BY <2>3, <2>4, <2>6, <2>7, <2>8 DEF a
  <1> QED
    BY <1>3, <1>4

\* Ordering the stop switches RX_THOLD off and changes nothing else in the port.
LEMMA StopAskedIs ==
  ASSUME NEW a \in IicStates, a.u.ip \subseteq a.u.ie,
         a.u.en = EnBit \/ (a.u.en = {} /\ a.u.tx = << >> /\ a.u.rx = << >>)
  PROVE  LET o == StopAsked(a)
         IN  /\ o \in IicStates /\ o.d = a.d /\ o.h = a.h
             /\ o.b.st = a.b.st /\ o.b.present = a.b.present
             /\ o.b.stop <=> a.b.stop \/ a.d.rxCnt = a.d.rxTot
             /\ o.u.mode = a.u.mode /\ o.u.en = a.u.en /\ o.u.th = a.u.th /\ o.u.ip \subseteq o.u.ie
             /\ o.u.tx = a.u.tx /\ o.u.rx = a.u.rx
             /\ "I2C_STOP" \in o.u.ip => "I2C_STOP" \in a.u.ip
PROOF
  <1> DEFINE b == [a.b EXCEPT !.stop = TRUE]
             u == IrqOff(a.u, {"RX_THOLD"})
             r == [a EXCEPT !.b = b]
             t == [r EXCEPT !.u = u]
             o == StopAsked(a)
  <1>1. CASE a.d.rxCnt # a.d.rxTot
    <2>1. o = a
      BY <1>1 DEF StopAsked, AllRead
    <2> HIDE DEF o
    <2> QED
      BY <1>1, <2>1 DEF o
  <1>2. CASE a.d.rxCnt = a.d.rxTot
    <2>1. o = t
      BY <1>2 DEF StopAsked, AllRead, IicStates
    <2>2. a.b \in IicBus /\ a.u \in Ports /\ {"RX_THOLD"} \in SUBSET Intr
      BY DEF IicStates, Intr
    <2>3. b \in IicBus /\ b.st = a.b.st /\ b.present = a.b.present /\ b.stop = TRUE
      BY <2>2 DEF IicBus
    <2>4. /\ u \in Ports /\ u.mode = a.u.mode /\ u.en = a.u.en /\ u.th = a.u.th /\ u.ip \subseteq u.ie
          /\ u.tx = a.u.tx /\ u.rx = a.u.rx
          /\ "I2C_STOP" \in u.ip => "I2C_STOP" \in a.u.ip
      <3>1. Access(u, a.u, a.u.en, a.u.ie \ {"RX_THOLD"}, a.u.tx, a.u.rx, a.u.ip)
        BY <2>2, IrqOffIs
      <3>2. {"usi", "tx"} \subseteq EnBit /\ {"usi", "rx"} \subseteq EnBit
        BY DEF EnBit
      <3> HIDE DEF u
      <3> QED
        BY <3>1, <3>2 DEF Access
    <2> HIDE DEF b, u
    <2>5. r \in IicStates /\ r.d = a.d /\ r.u = a.u /\ r.b = b /\ r.h = a.h
      BY <2>3, Replaced
    <2> HIDE DEF r
    <2>6. t \in IicStates /\ t.d = a.d /\ t.u = u /\ t.b = b /\ t.h = a.h
      BY <2>4, <2>5, Replaced
    <2> HIDE DEF t, o
    <2> QED
      BY <1>2, <2>1, <2>3, <2>4, <2>6 DEF o
  <1> QED
    BY <1>1, <1>2

\* The handler's pass over a receive: the words still add up, or it ends with all
\* of them stored.
LEMMA RxFullGood ==
  ASSUME NEW s \in IicStates, NEW i \in Handler, i.on,
         IicGood(s.d, s.u, s.b, s.h, i), s.d.status = "receive", NEW r \in IicRxFull(s, i.sta)
  PROVE  Fine(r, Idle)
PROOF
  <1> DEFINE d == s.d
             u == s.u
             a == Asked(s, i.sta)
             o == StopAsked(a)
  <1>1. /\ d \in IicDriver /\ u \in Ports /\ s.b \in IicBus /\ s.h \in IicHistory /\ u.mode = "i2c"
        /\ Len(u.tx) <= Fifo /\ u.ip \subseteq u.ie /\ (u.en = {} => u.tx = << >> /\ u.rx = << >>)
        /\ d.open
    BY DEF IicGood, IicTypes, IicOpen
  <1>2. ReceiveLost(d, u, s.b) \/ Receives(d, u, s.b, s.h, i)
    BY DEF IicGood, IicPhase, Over, SendLost, Sends
  <1>3. u.en = EnBit \/ (u.en = {} /\ u.tx = << >> /\ u.rx = << >>)
    BY <1>1, <1>2 DEF ReceiveLost, Receives
  <1>4. /\ a \in IicStates /\ a.b = s.b
        /\ a.d.status = d.status /\ a.d.armed = d.armed /\ a.d.open = d.open
        /\ a.d.cb = d.cb /\ a.d.rxTot = d.rxTot
        /\ a.u.mode = u.mode /\ a.u.en = u.en /\ a.u.ip \subseteq a.u.ie
        /\ "I2C_STOP" \in a.u.ip => "I2C_STOP" \in u.ip
        /\ Len(a.u.tx) <= Fifo /\ (u.en = {} => a.u.tx = << >> /\ a.u.rx = << >>)
        /\ (d.armed /\ u.en = EnBit /\ Adds(d, u, s.h)) =>
             Adds(a.d, a.u, a.h) /\ (d.rxCnt = d.rxTot => a.d.rxCnt = d.rxTot)
    BY <1>1, <1>3, AskedIs
  <1> HIDE DEF a
  <1>5. /\ o \in IicStates /\ o.d = a.d /\ o.h = a.h
        /\ o.b.st = a.b.st /\ o.b.present = a.b.present
        /\ o.b.stop <=> a.b.stop \/ a.d.rxCnt = a.d.rxTot
        /\ o.u.mode = a.u.mode /\ o.u.en = a.u.en /\ o.u.th = a.u.th /\ o.u.ip \subseteq o.u.ie
        /\ o.u.tx = a.u.tx /\ o.u.rx = a.u.rx
        /\ "I2C_STOP" \in o.u.ip => "I2C_STOP" \in a.u.ip
    <2>1. a.u.en = EnBit \/ (a.u.en = {} /\ a.u.tx = << >> /\ a.u.rx = << >>)
      BY <1>3, <1>4
    <2> QED
      BY <1>4, <2>1, StopAskedIs
  <1>6. IF "I2C_STOP" \in i.sta
        THEN r \in Signal(Off([o EXCEPT !.u = ClearIrq(@, {"I2C_STOP"}),
                                        !.d = [o.d EXCEPT !.status = "received"]]), "done")
        ELSE r = o
    BY RxPass DEF o, a
  <1> HIDE DEF o
  <1>7. Idle \in Handler /\ ~Idle.on
    BY DEF Idle, Handler
  <1>8. o.d \in IicDriver /\ o.u \in Ports /\ o.b \in IicBus /\ o.h \in IicHistory
    BY <1>5 DEF IicStates
  <1>9. CASE "I2C_STOP" \in i.sta
    <2> DEFINE v == ClearIrq(o.u, {"I2C_STOP"})
               f == [o.d EXCEPT !.status = "received"]
               y == [o EXCEPT !.u = v]
               x == [y EXCEPT !.d = f]
    <2>1. v \in Ports /\ v.mode = "i2c"
      <3>1. Access(v, o.u, o.u.en, o.u.ie, o.u.tx, o.u.rx, o.u.ip \ {"I2C_STOP"})
        BY <1>8, ClearIrqIs
      <3> HIDE DEF v
      <3> QED
        BY <1>1, <1>4, <1>5, <3>1 DEF Access
    <2>2. /\ f \in IicDriver /\ f.status = "received" /\ f.open /\ f.armed = d.armed
          /\ f.rxTot = d.rxTot
      BY <1>1, <1>4, <1>5, <1>8 DEF IicDriver
    <2>3. r \in Signal(Off(x), "done")
      <3>1. x = [o EXCEPT !.u = ClearIrq(@, {"I2C_STOP"}), !.d = [o.d EXCEPT !.status = "received"]]
        BY <1>5 DEF IicStates
      <3> HIDE DEF x
      <3> QED
        BY <1>6, <1>9, <3>1
    <2> HIDE DEF v, f
    <2>4. y \in IicStates /\ y.b = o.b /\ y.u = v /\ y.h = o.h
      BY <1>5, <2>1, Replaced
    <2> HIDE DEF y
    <2>5. x \in IicStates /\ x.d = f /\ x.u = v /\ x.b = o.b /\ x.h = o.h
      BY <2>2, <2>4, Replaced
    <2> HIDE DEF x
    <2>6. ASSUME d.armed, o.b.present PROVE o.h.got = d.rxTot
      <3>1. Receives(d, u, s.b, s.h, i)
        BY <1>2, <2>6 DEF ReceiveLost
      <3>2. s.b.stop
        BY <1>4, <1>5, <1>9, <2>6, <3>1 DEF Receives
      <3>3. d.rxCnt = d.rxTot /\ Adds(d, u, s.h) /\ u.en = EnBit
        BY <3>1, <3>2 DEF Receives
      <3>4. Adds(a.d, a.u, a.h) /\ a.d.rxCnt = d.rxTot
        BY <1>4, <2>6, <3>3
      <3> QED
        BY <1>5, <3>4 DEF Adds
    <2> QED
      BY <1>7, <2>1, <2>2, <2>3, <2>5, <2>6, EndGood
  <1>10. CASE "I2C_STOP" \notin i.sta
    <2>1. r = o
      BY <1>6, <1>10
    <2>2. IicTypes(o.d, o.u, o.b, o.h, Idle)
      BY <1>1, <1>4, <1>5, <1>7, <1>8 DEF IicTypes
    <2>3. IicOpen(o.d, o.u, Idle)
      BY <1>1, <1>4, <1>5, <1>7 DEF IicOpen
    <2>4. CASE ReceiveLost(d, u, s.b)
      <3>1. ReceiveLost(o.d, o.u, o.b)
        BY <1>4, <1>5, <2>4 DEF ReceiveLost
      <3> QED
        BY <1>5, <2>1, <2>2, <2>3, <3>1 DEF Fine, IicGood, IicPhase
    <2>5. CASE Receives(d, u, s.b, s.h, i)
      <3>1. /\ d.armed /\ u.en = EnBit /\ s.b.st # "write" /\ Adds(d, u, s.h)
            /\ s.b.stop => d.rxCnt = d.rxTot
            /\ "I2C_STOP" \in u.ip => s.b.stop \/ ~s.b.present
        BY <2>5 DEF Receives
      <3>2. Adds(a.d, a.u, a.h) /\ (d.rxCnt = d.rxTot => a.d.rxCnt = d.rxTot)
        BY <1>4, <3>1
      <3>3. Adds(o.d, o.u, o.h)
        BY <1>5, <3>2 DEF Adds
      <3>4. o.b.stop => o.d.rxCnt = o.d.rxTot
        BY <1>4, <1>5, <3>1, <3>2
      <3>5. "I2C_STOP" \in o.u.ip => o.b.stop \/ ~o.b.present
        BY <1>4, <1>5, <3>1
      <3>6. o.d.status = "receive" /\ o.d.armed /\ o.u.en = EnBit /\ o.b.st # "write"
        BY <1>4, <1>5, <3>1
      <3>7. Receives(o.d, o.u, o.b, o.h, Idle)
        BY <1>7, <3>3, <3>4, <3>5, <3>6 DEF Receives
      <3> QED
        BY <1>5, <2>1, <2>2, <2>3, <3>7 DEF Fine, IicGood, IicPhase
    <2> QED
      BY <1>2, <2>4, <2>5
  <1> QED
    BY <1>9, <1>10

-----------------------------------------------------------------------------
(* The steps of the handler.                                               *)

\* What the invariant says of the variables, and of the state passed on.
LEMMA IicFacts ==
  ASSUME IicInv
  PROVE  /\ id \in IicDriver /\ usi \in Ports /\ ibus \in IicBus /\ irec \in IicHistory /\ isr \in Handler
         /\ usi.mode = "i2c"
         /\ IicState \in IicStates
         /\ IicState.d = id /\ IicState.u = usi /\ IicState.b = ibus /\ IicState.h = irec
         /\ IicGood(IicState.d, IicState.u, IicState.b, IicState.h, isr)
PROOF
  <1>1. id \in IicDriver /\ usi \in Ports /\ ibus \in IicBus /\ irec \in IicHistory /\ isr \in Handler
        /\ usi.mode = "i2c"
    BY DEF IicInv, IicGood, IicTypes
  <1>2. /\ IicState \in IicStates
        /\ IicState.d = id /\ IicState.u = usi /\ IicState.b = ibus /\ IicState.h = irec
    BY <1>1, PutTogether DEF IicState
  <1> QED
    BY <1>1, <1>2 DEF IicInv

\* The handler goes on with a state the invariant allows.
LEMMA BecomesGood ==
  ASSUME NEW t, Fine(t, isr'), IicBecomes(t)
  PROVE  IicInv'
PROOF BY DEF Fine, IicBecomes, IicInv

\* The handler starts with the pending causes of the port.
LEMMA IicEnterStep == IicInv /\ IicEnter => IicInv'
PROOF
  <1> SUFFICES ASSUME IicInv, IicEnter PROVE IicInv'
    OBVIOUS
  <1> DEFINE i == isr'
  <1>1. usi \in Ports /\ usi.ip \subseteq usi.ie /\ ~isr.on /\ UNCHANGED <<id, usi, ibus, irec>>
    BY DEF IicInv, IicGood, IicTypes, IicOpen, IicEnter, Serve
  <1>2. i = [sta |-> Pending(usi), left |-> Pending(usi) \cap {}, on |-> TRUE]
    BY DEF IicEnter, Serve
  <1>3. Pending(usi) \in SUBSET Intr /\ Pending(usi) \subseteq usi.ip /\ Pending(usi) = usi.ip \cap usi.mask
    BY <1>1 DEF Pending, Ports, Port
  <1>4. i \in Handler /\ i.on /\ i.sta \subseteq usi.ip /\ i.sta = usi.ip \cap usi.mask
    BY <1>2, <1>3 DEF Handler
  <1> HIDE DEF i
  <1>5. IicTypes(id, usi, ibus, irec, i)
    BY <1>4 DEF IicInv, IicGood, IicTypes
  <1>6. IicOpen(id, usi, i)
    BY <1>1, <1>4 DEF IicInv, IicGood, IicOpen
  <1>7. ASSUME SendCounts(id, usi, isr) PROVE SendCounts(id, usi, i) /\ (StopFor(i.sta) => StopFor(usi.ip))
    <2>1. usi.mask = IicSendBits /\ "I2C_NACK" \in IicSendBits
      BY <1>7 DEF SendCounts, IicSendBits
    <2>2. StopFor(i.sta) => StopFor(usi.ip)
      BY <1>4, <2>1 DEF StopFor
    <2> QED
      BY <1>7, <2>2 DEF SendCounts
  <1>8. IicPhase(id, usi, ibus, irec, i)
    <2>1. ASSUME SendLost(id, usi, ibus, isr) PROVE SendLost(id, usi, ibus, i)
      BY <1>7, <2>1 DEF SendLost
    <2>2. ASSUME Sends(id, usi, ibus, irec, isr) PROVE Sends(id, usi, ibus, irec, i)
      BY <1>4, <1>7, <2>2 DEF Sends
    <2>3. ASSUME Receives(id, usi, ibus, irec, isr) PROVE Receives(id, usi, ibus, irec, i)
      BY <1>4, <2>3 DEF Receives
    <2> QED
      BY <2>1, <2>2, <2>3 DEF IicInv, IicGood, IicPhase
  <1>9. IicGood(id, usi, ibus, irec, i)
    BY <1>5, <1>6, <1>8 DEF IicGood
  <1> QED
    BY <1>1, <1>9 DEF IicInv, i

\* One cause is served: the callback sees the whole effect (wj_iic_irqhandler).
LEMMA IicServeStep == IicInv /\ IicServe => IicInv'
PROOF
  <1> SUFFICES ASSUME IicInv, IicServe PROVE IicInv'
    OBVIOUS
  <1> DEFINE s == IicState
             sta == isr.sta
             clear(t) == [t EXCEPT !.u = ClearIrq(@, sta)]
             e == [id EXCEPT !.status = "done"]
             x == [s EXCEPT !.d = e]
  <1>1. /\ id \in IicDriver /\ usi \in Ports /\ isr \in Handler /\ usi.mode = "i2c"
        /\ s \in IicStates /\ s.d = id /\ s.u = usi /\ s.b = ibus /\ s.h = irec
        /\ IicGood(s.d, s.u, s.b, s.h, isr)
    BY IicFacts
  <1>2. isr.on /\ isr' = Idle
    BY DEF IicServe
  <1>3. ~id.open => ~id.cb
    BY DEF IicInv, IicGood, IicOpen
  <1>4. \E t \in CASE "I2C_NACK" \in sta -> Signal(AllOff(x), "bus_error")
                   [] "I2C_NACK" \notin sta /\ id.status = "send"    -> {clear(t) : t \in IicTxEmpty(s, sta)}
                   [] "I2C_NACK" \notin sta /\ id.status = "receive" -> IicRxFull(s, sta)
                   [] OTHER -> Signal(AllOff(clear(s)), "arbitration_lost") :
          IicBecomes(t)
    BY DEF IicServe
  <1>5. Idle \in Handler /\ ~Idle.on
    BY DEF Idle, Handler
  <1> HIDE DEF s
  <1>6. CASE "I2C_NACK" \in sta
    <2>1. e \in IicDriver /\ e.status = "done" /\ (~e.open => ~e.cb)
      BY <1>1, <1>3 DEF IicDriver
    <2> HIDE DEF e
    <2>2. x \in IicStates /\ x.d = e /\ x.u = usi
      BY <1>1, <2>1, Replaced
    <2> HIDE DEF x
    <2>3. PICK t \in Signal(AllOff(x), "bus_error") : IicBecomes(t)
      BY <1>4, <1>6
    <2>4. Fine(t, Idle)
      BY <1>1, <1>5, <2>1, <2>2, AllOffGood
    <2> QED
      BY <1>2, <2>3, <2>4, BecomesGood
  <1>7. CASE "I2C_NACK" \notin sta /\ id.status = "send"
    <2>1. PICK t \in IicTxEmpty(s, sta) : IicBecomes(clear(t))
      BY <1>4, <1>7
    <2>2. Fine(clear(t), Idle)
      BY <1>1, <1>2, <1>7, TxEmptyGood
    <2> HIDE DEF clear
    <2> QED
      BY <1>2, <2>1, <2>2, BecomesGood
  <1>8. CASE "I2C_NACK" \notin sta /\ id.status = "receive"
    <2>1. PICK t \in IicRxFull(s, sta) : IicBecomes(t)
      BY <1>4, <1>8
    <2>2. Fine(t, Idle)
      BY <1>1, <1>2, <1>8, RxFullGood
    <2> QED
      BY <1>2, <2>1, <2>2, BecomesGood
  <1>9. CASE "I2C_NACK" \notin sta /\ id.status \notin {"send", "receive"}
    <2> DEFINE y == clear(s)
    <2>1. y \in IicStates /\ y.d = id /\ y.u.mode = "i2c"
      <3> DEFINE v == ClearIrq(usi, sta)
      <3>1. Access(v, usi, usi.en, usi.ie, usi.tx, usi.rx, usi.ip \ sta)
        BY <1>1, ClearIrqIs
      <3> HIDE DEF v
      <3>2. v \in Ports /\ v.mode = "i2c"
        BY <1>1, <3>1 DEF Access
      <3>3. y = [s EXCEPT !.u = v]
        BY <1>1 DEF v
      <3> HIDE DEF y
      <3> QED
        BY <1>1, <3>2, <3>3, Replaced
    <2> HIDE DEF y
    <2>2. PICK t \in Signal(AllOff(y), "arbitration_lost") : IicBecomes(t)
      BY <1>4, <1>9 DEF y
    <2>3. Fine(t, Idle)
      BY <1>3, <1>5, <1>9, <2>1, AllOffGood
    <2> QED
      BY <1>2, <2>2, <2>3, BecomesGood
  <1> QED
    BY <1>6, <1>7, <1>8, <1>9

-----------------------------------------------------------------------------
(* The steps of the bus.                                                   *)

\* A stop on the bus, with a refusal or without.
Stops(u, bits) == Raise(u, bits \cup {"I2C_STOP"})

\* What a stop does to the port: its causes, if enabled, and with an empty FIFO TX_EMPTY.
LEMMA StopsIs ==
  ASSUME NEW u \in Ports, u.en = EnBit, u.ip \subseteq u.ie, NEW bits \in {{}, {"I2C_NACK"}}
  PROVE  LET v == Stops(u, bits)
         IN  /\ v \in Ports /\ v.mode = u.mode /\ v.mask = u.mask /\ v.en = EnBit /\ v.ie = u.ie
             /\ v.th = u.th /\ v.tx = u.tx /\ v.rx = u.rx /\ v.ip \subseteq v.ie
             /\ "TX_EMPTY" \in v.ip => "TX_EMPTY" \in u.ip \/ u.tx = << >>
             /\ "I2C_NACK" \in u.ip => "I2C_NACK" \in v.ip
             /\ bits = {"I2C_NACK"} /\ "I2C_NACK" \in u.ie => "I2C_NACK" \in v.ip
PROOF
  <1> DEFINE v == Stops(u, bits)
  <1>1. bits \cup {"I2C_STOP"} \in SUBSET Intr
    BY DEF Intr
  <1>2. Access(v, u, u.en, u.ie, u.tx, u.rx, u.ip \cup (bits \cup {"I2C_STOP"}))
    BY <1>1, RaiseIs DEF Stops
  <1>3. {"usi", "tx"} \subseteq EnBit /\ {"usi", "rx"} \subseteq EnBit
    BY DEF EnBit
  <1> HIDE DEF v
  <1>4. /\ v \in Ports /\ v.mode = u.mode /\ v.mask = u.mask /\ v.en = EnBit /\ v.ie = u.ie
        /\ v.th = u.th /\ v.tx = u.tx /\ v.rx = u.rx /\ v.ip \subseteq v.ie
    BY <1>2, <1>3 DEF Access
  <1>5. "TX_EMPTY" \in v.ip => "TX_EMPTY" \in u.ip \/ u.tx = << >>
    BY <1>2, <1>4 DEF Access
  <1>6. /\ "I2C_NACK" \in u.ip => "I2C_NACK" \in v.ip
        /\ bits = {"I2C_NACK"} /\ "I2C_NACK" \in u.ie => "I2C_NACK" \in v.ip
    BY <1>2, <1>4 DEF Access
  <1> QED
    BY <1>4, <1>5, <1>6 DEF v

\* A send may be stopped by a refusal, or when it is told to with nothing left.
LEMMA SendStopped ==
  ASSUME NEW d, NEW u, NEW b, NEW h, NEW i, IicGood(d, u, b, h, i), Sends(d, u, b, h, i),
         NEW bits \in {{}, {"I2C_NACK"}}, bits = {} => b.stop /\ u.tx = << >>
  PROVE  IicGood(d, Stops(u, bits), [b EXCEPT !.st = "idle"], h, i)
PROOF
  <1> DEFINE v == Stops(u, bits)
             c == [b EXCEPT !.st = "idle"]
  <1>1. u \in Ports /\ u.mode = "i2c" /\ u.en = EnBit /\ u.ip \subseteq u.ie /\ b \in IicBus
    BY DEF IicGood, IicTypes, IicOpen, Sends
  <1>2. /\ v \in Ports /\ v.mode = u.mode /\ v.mask = u.mask /\ v.en = EnBit /\ v.ie = u.ie
        /\ v.th = u.th /\ v.tx = u.tx /\ v.rx = u.rx /\ v.ip \subseteq v.ie
        /\ "TX_EMPTY" \in v.ip => "TX_EMPTY" \in u.ip \/ u.tx = << >>
        /\ "I2C_NACK" \in u.ip => "I2C_NACK" \in v.ip
        /\ bits = {"I2C_NACK"} /\ "I2C_NACK" \in u.ie => "I2C_NACK" \in v.ip
    BY <1>1, StopsIs
  <1> HIDE DEF v
  <1>3. c \in IicBus /\ c.st = "idle" /\ c.stop = b.stop /\ c.present = b.present
    BY <1>1 DEF IicBus
  <1> HIDE DEF c
  <1>4. IicTypes(d, v, c, h, i)
    BY <1>1, <1>2, <1>3 DEF IicGood, IicTypes
  <1>5. IicOpen(d, v, i)
    <2>1. EnBit # {}
      BY DEF EnBit
    <2> QED
      BY <1>2, <2>1 DEF IicGood, IicOpen
  <1>6. StopFor(v.ip) => b.stop /\ u.tx = << >>
    <2>1. ASSUME bits = {"I2C_NACK"} PROVE ~StopFor(v.ip)
      BY <1>2, <2>1 DEF Sends, SendCounts, StopFor
    <2> QED
      BY <2>1
  <1>7. SendCounts(d, v, i)
    BY <1>2, <1>6 DEF Sends, SendCounts
  <1>8. Sends(d, v, c, h, i)
    BY <1>2, <1>3, <1>6, <1>7 DEF Sends
  <1>9. IicGood(d, v, c, h, i)
    BY <1>4, <1>5, <1>8 DEF IicGood, IicPhase
  <1> QED
    BY <1>9 DEF v, c

\* A receive may be stopped when it is told to, or by a slave that is not there.
LEMMA ReceiveStopped ==
  ASSUME NEW d, NEW u, NEW b, NEW h, NEW i, IicGood(d, u, b, h, i), Receives(d, u, b, h, i),
         b.stop \/ ~b.present
  PROVE  IicGood(d, Stops(u, {}), [b EXCEPT !.st = "idle"], h, i)
PROOF
  <1> DEFINE v == Stops(u, {})
             c == [b EXCEPT !.st = "idle"]
  <1>1. u \in Ports /\ u.mode = "i2c" /\ u.en = EnBit /\ u.ip \subseteq u.ie /\ b \in IicBus
    BY DEF IicGood, IicTypes, IicOpen, Receives
  <1>2. /\ v \in Ports /\ v.mode = u.mode /\ v.mask = u.mask /\ v.en = EnBit /\ v.ie = u.ie
        /\ v.th = u.th /\ v.tx = u.tx /\ v.rx = u.rx /\ v.ip \subseteq v.ie
    BY <1>1, StopsIs
  <1> HIDE DEF v
  <1>3. c \in IicBus /\ c.st = "idle" /\ c.stop = b.stop /\ c.present = b.present
    BY <1>1 DEF IicBus
  <1> HIDE DEF c
  <1>4. IicTypes(d, v, c, h, i)
    BY <1>1, <1>2, <1>3 DEF IicGood, IicTypes
  <1>5. IicOpen(d, v, i)
    <2>1. EnBit # {}
      BY DEF EnBit
    <2> QED
      BY <1>2, <2>1 DEF IicGood, IicOpen
  <1>6. Adds(d, v, h)
    BY <1>2 DEF Receives, Adds
  <1>7. Receives(d, v, c, h, i)
    BY <1>2, <1>3, <1>6 DEF Receives
  <1>8. IicGood(d, v, c, h, i)
    BY <1>4, <1>5, <1>7 DEF IicGood, IicPhase
  <1> QED
    BY <1>8 DEF v, c

\* The bus works for a transfer that runs.
LEMMA WorksForOne ==
  ASSUME IicInv, usi.en # {} \/ ibus.st # "idle"
  PROVE  Sends(id, usi, ibus, irec, isr) \/ Receives(id, usi, ibus, irec, isr)
PROOF BY DEF IicInv, IicGood, IicPhase, Over, SendLost, ReceiveLost

\* The next byte of a send is not a request.
LEMMA NextIsData ==
  ASSUME NEW d, NEW u, NEW b, NEW h, NEW i, IicGood(d, u, b, h, i), Sends(d, u, b, h, i), u.tx # << >>
  PROVE  Head(u.tx) # Request
PROOF
  <1> DEFINE sent == Bytes(d.txTot)
             o == Len(h.out)
             t == Len(u.tx)
             k == Len(d.txBuf)
  <1>1. u.tx \in Seq(Nat) /\ h.out \in Seq(Nat) /\ d.txBuf \in Seq(Nat) /\ d.txTot \in Nat
    BY DEF IicGood, IicTypes, IicDriver, IicHistory, Ports, Port
  <1>2. Len(sent) = d.txTot /\ \A j \in 1..d.txTot : sent[j] = j
    BY <1>1 DEF Bytes
  <1>3. o \in Nat /\ t \in Nat /\ k \in Nat /\ t >= 1 /\ Len(<< >>) = 0
    BY <1>1
  <1> HIDE DEF sent
  <1>4. /\ 0 + o + t + k = Len(sent)
        /\ \A j \in 1..t : u.tx[j] = sent[0 + o + j]
    BY <1>3 DEF Sends, Chain, sent
  <1> HIDE DEF o, t, k
  <1>5. o + 1 \in 1..d.txTot /\ 0 + o + 1 = o + 1 /\ 1 \in 1..t
    BY <1>2, <1>3, <1>4
  <1>6. u.tx[1] = o + 1
    BY <1>2, <1>4, <1>5
  <1>7. Head(u.tx) = u.tx[1]
    BY <1>1
  <1> QED
    BY <1>3, <1>6, <1>7 DEF Request

\* The address goes out, and is acknowledged or refused.
LEMMA IicAddressStep == IicInv /\ IicAddress => IicInv'
PROOF
  <1> SUFFICES ASSUME IicInv, IicAddress PROVE IicInv'
    OBVIOUS
  <1> DEFINE c == [ibus EXCEPT !.st = IF Head(usi.tx) = Request THEN "read" ELSE "write"]
             bits == IF Head(usi.tx) = Request THEN {} ELSE {"I2C_NACK"}
  <1>1. usi.en # {} /\ ibus.st = "idle" /\ usi.tx # << >> /\ UNCHANGED <<isr, id, irec>>
    BY DEF IicAddress, Working
  <1>2. IicGood(id, usi, ibus, irec, isr) /\ ibus \in IicBus
    BY DEF IicInv, IicGood, IicTypes
  <1>3. CASE ibus.present
    <2>1. ibus' = c /\ usi' = usi
      BY <1>3 DEF IicAddress
    <2>2. /\ c \in IicBus /\ c.stop = ibus.stop /\ c.present = ibus.present
          /\ c.st = IF Head(usi.tx) = Request THEN "read" ELSE "write"
      BY <1>2 DEF IicBus
    <2> HIDE DEF c
    <2>3. IicTypes(id, usi, c, irec, isr) /\ IicOpen(id, usi, isr)
      BY <1>2, <2>2 DEF IicGood, IicTypes
    <2>4. CASE Sends(id, usi, ibus, irec, isr)
      <3>1. c.st # "read"
        BY <1>1, <1>2, <2>2, <2>4, NextIsData
      <3>2. Sends(id, usi, c, irec, isr)
        BY <2>2, <2>4, <3>1 DEF Sends
      <3> QED
        BY <1>1, <2>1, <2>3, <3>2 DEF IicInv, IicGood, IicPhase
    <2>5. CASE Receives(id, usi, ibus, irec, isr)
      <3>1. Head(usi.tx) = Request
        <4>1. usi.tx \in Seq(Nat)
          BY <1>2 DEF IicGood, IicTypes, Ports, Port
        <4>2. 1 \in 1..Len(usi.tx) /\ Head(usi.tx) = usi.tx[1]
          BY <1>1, <4>1
        <4> QED
          BY <2>5, <4>2 DEF Receives, Adds
      <3>2. c.st # "write"
        BY <2>2, <3>1
      <3>3. Receives(id, usi, c, irec, isr)
        BY <2>2, <2>5, <3>2 DEF Receives
      <3> QED
        BY <1>1, <2>1, <2>3, <3>3 DEF IicInv, IicGood, IicPhase
    <2> QED
      BY <1>1, <2>4, <2>5, WorksForOne
  <1>4. CASE ~ibus.present
    <2>1. ibus' = [ibus EXCEPT !.st = "idle"] /\ usi' = Stops(usi, bits)
      BY <1>4 DEF IicAddress, BusStops, Stops
    <2>2. CASE Sends(id, usi, ibus, irec, isr)
      <3>1. bits = {"I2C_NACK"}
        BY <1>1, <1>2, <2>2, NextIsData
      <3> HIDE DEF bits
      <3>2. IicGood(id, Stops(usi, bits), [ibus EXCEPT !.st = "idle"], irec, isr)
        BY <1>2, <2>2, <3>1, SendStopped
      <3> QED
        BY <1>1, <2>1, <3>2 DEF IicInv
    <2>3. CASE Receives(id, usi, ibus, irec, isr)
      <3>1. Head(usi.tx) = Request
        <4>1. usi.tx \in Seq(Nat)
          BY <1>2 DEF IicGood, IicTypes, Ports, Port
        <4>2. 1 \in 1..Len(usi.tx) /\ Head(usi.tx) = usi.tx[1]
          BY <1>1, <4>1
        <4> QED
          BY <2>3, <4>2 DEF Receives, Adds
      <3>2. bits = {}
        BY <3>1
      <3> HIDE DEF bits
      <3>3. IicGood(id, Stops(usi, {}), [ibus EXCEPT !.st = "idle"], irec, isr)
        BY <1>2, <1>4, <2>3, ReceiveStopped
      <3> QED
        BY <1>1, <2>1, <3>2, <3>3 DEF IicInv
    <2> QED
      BY <1>1, <2>2, <2>3, WorksForOne
  <1> QED
    BY <1>3, <1>4

\* A byte of a send leaves the FIFO for the bus.
LEMMA IicWriteByteStep == IicInv /\ IicWriteByte => IicInv'
PROOF
  <1> SUFFICES ASSUME IicInv, IicWriteByte PROVE IicInv'
    OBVIOUS
  <1> DEFINE d == id
             u == usi
             v == Shifted(u)
             x == Head(u.tx)
             h == [irec EXCEPT !.out = Append(@, x)]
             sent == Bytes(d.txTot)
  <1>1. ibus.st = "write" /\ u.tx # << >> /\ irec' = h /\ UNCHANGED <<isr, id>>
    BY DEF IicWriteByte
  <1>2. /\ d \in IicDriver /\ u \in Ports /\ ibus \in IicBus /\ irec \in IicHistory /\ isr \in Handler
        /\ u.mode = "i2c" /\ IicTypes(d, u, ibus, irec, isr) /\ IicOpen(d, u, isr)
    BY DEF IicInv, IicGood, IicTypes
  <1>3. Sends(d, u, ibus, irec, isr)
    BY <1>1, WorksForOne DEF Receives
  <1>4. /\ d.status = "send" /\ d.armed /\ u.en = EnBit /\ SendCounts(d, u, isr)
        /\ Chain(<< >>, irec.out, u.tx, d.txBuf, sent)
        /\ ~("TX_EMPTY" \in u.ip \/ (isr.on /\ "TX_EMPTY" \in isr.sta))
        /\ ~(StopFor(u.ip) \/ (isr.on /\ StopFor(isr.sta)))
    BY <1>1, <1>3 DEF Sends
  <1>5. u.tx \in Seq(Nat) /\ irec.out \in Seq(Nat) /\ d.txBuf \in Seq(Nat) /\ d.txTot \in Nat /\ u.ip \subseteq u.ie
    BY <1>2 DEF IicDriver, IicHistory, Ports, Port, IicOpen
  <1>6. Access(v, u, EnBit, u.ie, Tail(u.tx), u.rx, u.ip)
    BY <1>1, <1>2, <1>4, ShiftedIs
  <1> HIDE DEF v
  <1>7. /\ v \in Ports /\ v.mode = "i2c" /\ v.mask = u.mask /\ v.en = EnBit /\ v.ie = u.ie
        /\ v.ip \subseteq v.ie /\ v.tx = Tail(u.tx)
        /\ "TX_EMPTY" \in v.ip => v.tx = << >>
        /\ "I2C_STOP" \in v.ip => "I2C_STOP" \in u.ip
        /\ "I2C_NACK" \in u.ip => "I2C_NACK" \in v.ip
    <2>1. {"usi", "tx"} \subseteq EnBit
      BY DEF EnBit
    <2> QED
      BY <1>2, <1>4, <1>5, <1>6, <2>1 DEF Access
  <1>8. Len(v.tx) <= Fifo
    <2>1. Len(Tail(u.tx)) = Len(u.tx) - 1 /\ Len(u.tx) \in Nat
      BY <1>1, <1>5
    <2>2. Len(u.tx) <= Fifo /\ Fifo \in Nat
      BY <1>2, FifoAssumption DEF IicOpen
    <2> QED
      BY <1>7, <2>1, <2>2
  <1>9. h \in IicHistory /\ h.out = Append(irec.out, x)
    <2>1. x \in Nat
      BY <1>1, <1>5
    <2>2. Append(irec.out, x) \in Seq(Nat)
      BY <1>5, <2>1
    <2> QED
      BY <1>2, <2>2 DEF IicHistory
  <1> HIDE DEF h
  <1>10. Chain(<< >>, h.out, v.tx, d.txBuf, sent)
    <2>1. sent \in Seq(Nat) /\ << >> \in Seq(Nat)
      BY <1>5 DEF Bytes
    <2> HIDE DEF sent
    <2>2. Chain(<< >>, Append(irec.out, Head(u.tx)), Tail(u.tx), d.txBuf, sent)
      BY <1>1, <1>4, <1>5, <2>1, ChainShift
    <2> QED
      BY <1>7, <1>9, <2>2
  <1>11. ~StopFor(v.ip)
    BY <1>4, <1>7 DEF StopFor
  <1>12. SendCounts(d, v, isr)
    BY <1>4, <1>7, <1>11 DEF SendCounts
  <1>13. IicTypes(d, v, ibus, h, isr)
    BY <1>2, <1>7, <1>9 DEF IicTypes
  <1>14. IicOpen(d, v, isr)
    <2>1. EnBit # {}
      BY DEF EnBit
    <2> QED
      BY <1>2, <1>7, <1>8, <2>1 DEF IicOpen
  <1>15. Sends(d, v, ibus, h, isr)
    BY <1>3, <1>4, <1>7, <1>10, <1>11, <1>12 DEF Sends
  <1>16. IicGood(d, v, ibus, h, isr)
    BY <1>13, <1>14, <1>15 DEF IicGood, IicPhase
  <1>17. CASE usi' = v /\ ibus' = ibus
    BY <1>1, <1>16, <1>17 DEF IicInv
  <1>18. CASE usi' = Stops(v, {"I2C_NACK"}) /\ ibus' = [ibus EXCEPT !.st = "idle"]
    <2> DEFINE bits == {"I2C_NACK"}
    <2>1. bits \in {{}, {"I2C_NACK"}} /\ bits # {}
      OBVIOUS
    <2> HIDE DEF bits
    <2>2. IicGood(d, Stops(v, bits), [ibus EXCEPT !.st = "idle"], h, isr)
      BY <1>15, <1>16, <2>1, SendStopped
    <2> QED
      BY <1>1, <1>18, <2>2 DEF IicInv, bits
  <1> QED
    BY <1>17, <1>18 DEF IicWriteByte, BusStops, Stops, v

\* A request of a receive is turned into a byte.
LEMMA IicReadByteStep == IicInv /\ IicReadByte => IicInv'
PROOF
  <1> SUFFICES ASSUME IicInv, IicReadByte PROVE IicInv'
    OBVIOUS
  <1> DEFINE d == id
             u == usi
             a == Shifted(u)
             v == Arrived(a, Request)
  <1>1. ibus.st = "read" /\ u.tx # << >> /\ usi' = v /\ UNCHANGED <<isr, id, ibus, irec>>
    BY DEF IicReadByte
  <1>2. /\ d \in IicDriver /\ u \in Ports /\ irec \in IicHistory
        /\ u.mode = "i2c" /\ IicTypes(d, u, ibus, irec, isr) /\ IicOpen(d, u, isr)
    BY DEF IicInv, IicGood, IicTypes
  <1>3. Receives(d, u, ibus, irec, isr)
    BY <1>1, WorksForOne DEF Sends
  <1>4. u.en = EnBit /\ Adds(d, u, irec) /\ u.ip \subseteq u.ie
    BY <1>2, <1>3 DEF Receives, IicOpen
  <1>5. /\ u.tx \in Seq(Nat) /\ u.rx \in Seq(Nat) /\ Fifo \in Nat
        /\ Len(u.tx) >= 1 /\ Len(u.tx) \in Nat /\ Len(u.rx) \in Nat
    <2>1. u.tx \in Seq(Nat) /\ u.rx \in Seq(Nat)
      BY <1>2 DEF Ports, Port
    <2> QED
      BY <1>1, <2>1, FifoAssumption
  <1>6. /\ Tail(u.tx) \in Seq(Nat) /\ Len(Tail(u.tx)) = Len(u.tx) - 1
        /\ \A k \in 1..(Len(u.tx) - 1) : Tail(u.tx)[k] = u.tx[k + 1]
    BY <1>1, <1>5
  <1>7. /\ a \in Ports /\ a.mode = "i2c" /\ a.en = EnBit /\ a.ie = u.ie /\ a.th = u.th
        /\ a.tx = Tail(u.tx) /\ a.rx = u.rx /\ a.ip \subseteq a.ie
        /\ "I2C_STOP" \in a.ip => "I2C_STOP" \in u.ip
    <2>1. Access(a, u, EnBit, u.ie, Tail(u.tx), u.rx, u.ip)
      BY <1>1, <1>2, <1>4, ShiftedIs
    <2>2. {"usi", "tx"} \subseteq EnBit /\ {"usi", "rx"} \subseteq EnBit
      BY DEF EnBit
    <2> HIDE DEF a
    <2> QED
      BY <1>2, <1>4, <2>1, <2>2 DEF Access
  <1> HIDE DEF a
  <1>8. Newest(Append(u.rx, Request)) = Append(u.rx, Request) /\ Len(Append(u.rx, Request)) = Len(u.rx) + 1
    <2> DEFINE r == Append(u.rx, Request)
    <2>1. r \in Seq(Nat) /\ Len(r) = Len(u.rx) + 1
      BY <1>5 DEF Request
    <2>2. Len(u.rx) + Len(u.tx) <= Fifo
      BY <1>4 DEF Adds
    <2>3. Len(r) <= Fifo
      <3> DEFINE m == Len(u.rx)
                 t == Len(u.tx)
      <3>1. m \in Nat /\ t \in Nat /\ t >= 1 /\ m + t <= Fifo /\ Fifo \in Nat /\ Len(r) = m + 1
        BY <1>5, <2>1, <2>2
      <3> HIDE DEF m, t, r
      <3> QED
        BY <3>1
    <2> HIDE DEF r
    <2>4. Newest(r) = r
      BY <2>1, <2>3, NewestIs
    <2> QED
      BY <2>1, <2>4 DEF r
  <1>9. /\ v \in Ports /\ v.mode = "i2c" /\ v.en = EnBit /\ v.ie = u.ie /\ v.th = u.th
        /\ v.tx = Tail(u.tx) /\ Len(v.rx) = Len(u.rx) + 1 /\ v.ip \subseteq v.ie
        /\ "I2C_STOP" \in v.ip => "I2C_STOP" \in u.ip
    <2>1. Request \in Nat
      BY DEF Request
    <2>2. Access(v, a, a.en, a.ie, a.tx, Newest(Append(a.rx, Request)), a.ip)
      BY <1>7, <2>1, ArrivedIs
    <2>3. {"usi", "tx"} \subseteq EnBit /\ {"usi", "rx"} \subseteq EnBit
      BY DEF EnBit
    <2>4. Newest(Append(a.rx, Request)) = Append(u.rx, Request)
      BY <1>7, <1>8
    <2> HIDE DEF v
    <2>5. v.rx = Append(u.rx, Request)
      BY <1>7, <2>2, <2>3, <2>4 DEF Access
    <2> QED
      BY <1>7, <1>8, <2>2, <2>3, <2>5 DEF Access
  <1> HIDE DEF v
  <1>10. Len(v.tx) = Len(u.tx) - 1 /\ Len(v.rx) + Len(v.tx) = Len(u.rx) + Len(u.tx)
    <2> DEFINE m == Len(u.rx)
               t == Len(u.tx)
               n == Len(v.rx)
               o == Len(v.tx)
    <2>1. m \in Nat /\ t \in Nat /\ o = t - 1 /\ n = m + 1
      BY <1>5, <1>6, <1>9
    <2> HIDE DEF m, t, n, o
    <2>2. o = t - 1 /\ n + o = m + t
      BY <2>1
    <2> QED
      BY <2>2 DEF m, t, n, o
  <1>11. Adds(d, v, irec)
    <2>1. irec.got + Len(v.rx) + Len(v.tx) + d.rxClk = d.rxTot
      <3>1. irec.got \in Nat /\ d.rxClk \in Nat /\ irec.got + Len(u.rx) + Len(u.tx) + d.rxClk = d.rxTot
        BY <1>2, <1>4 DEF Adds, IicDriver, IicHistory
      <3> DEFINE m == Len(u.rx)
                 t == Len(u.tx)
                 n == Len(v.rx)
                 o == Len(v.tx)
                 g == irec.got
                 c == d.rxClk
      <3>2. /\ m \in Nat /\ t \in Nat /\ o = t - 1 /\ n = m + 1
            /\ g \in Nat /\ c \in Nat /\ g + m + t + c = d.rxTot
        BY <1>5, <1>9, <1>10, <3>1
      <3> HIDE DEF m, t, n, o, g, c
      <3>3. g + n + o + c = g + m + t + c
        BY <3>2
      <3> QED
        BY <3>2, <3>3 DEF n, o, g, c
    <2>2. \A k \in 1..Len(v.tx) : v.tx[k] = Request
      <3> SUFFICES ASSUME NEW k \in 1..Len(v.tx) PROVE v.tx[k] = Request
        OBVIOUS
      <3>1. k \in 1..(Len(u.tx) - 1) /\ k + 1 \in 1..Len(u.tx)
        BY <1>5, <1>10
      <3>2. u.tx[k + 1] = Request
        BY <1>4, <3>1 DEF Adds
      <3> QED
        BY <1>6, <1>9, <3>1, <3>2
    <2>3. v.th.edge => (Fifo \div 4) * v.th.quarter <= Len(v.rx) + Len(v.tx)
      BY <1>4, <1>9, <1>10 DEF Adds
    <2>4. Len(v.rx) + Len(v.tx) <= Fifo /\ irec.got = d.rxCnt
      BY <1>4, <1>10 DEF Adds
    <2> QED
      BY <2>1, <2>2, <2>3, <2>4 DEF Adds
  <1>12. Receives(d, v, ibus, irec, isr)
    BY <1>3, <1>9, <1>11 DEF Receives
  <1>13. IicTypes(d, v, ibus, irec, isr)
    BY <1>2, <1>9 DEF IicTypes
  <1>14. IicOpen(d, v, isr)
    <2>1. EnBit # {}
      BY DEF EnBit
    <2>2. Len(v.tx) <= Fifo
      <3>1. Len(u.tx) <= Fifo
        BY <1>2 DEF IicOpen
      <3> QED
        BY <1>5, <1>10, <3>1
    <2> QED
      BY <1>2, <1>9, <2>1, <2>2 DEF IicOpen
  <1>15. IicGood(d, v, ibus, irec, isr)
    BY <1>12, <1>13, <1>14 DEF IicGood, IicPhase
  <1> QED
    BY <1>1, <1>15 DEF IicInv

\* The stop condition ends what is on the bus.
LEMMA IicStopStep == IicInv /\ IicStop => IicInv'
PROOF
  <1> SUFFICES ASSUME IicInv, IicStop PROVE IicInv'
    OBVIOUS
  <1>1. /\ ibus.st # "idle" /\ usi.tx = << >> /\ ibus.stop /\ UNCHANGED <<isr, id, irec>>
        /\ ibus' = [ibus EXCEPT !.st = "idle"] /\ usi' = Stops(usi, {})
    BY DEF IicStop, BusStops, Stops
  <1>2. IicGood(id, usi, ibus, irec, isr)
    BY DEF IicInv
  <1>3. CASE Sends(id, usi, ibus, irec, isr)
    <2> DEFINE bits == {}
    <2>1. bits \in {{}, {"I2C_NACK"}}
      OBVIOUS
    <2> HIDE DEF bits
    <2>2. IicGood(id, Stops(usi, bits), [ibus EXCEPT !.st = "idle"], irec, isr)
      BY <1>1, <1>2, <1>3, <2>1, SendStopped
    <2> QED
      BY <1>1, <2>2 DEF IicInv, bits
  <1>4. CASE Receives(id, usi, ibus, irec, isr)
    <2>1. IicGood(id, Stops(usi, {}), [ibus EXCEPT !.st = "idle"], irec, isr)
      BY <1>1, <1>2, <1>4, ReceiveStopped
    <2> QED
      BY <1>1, <2>1 DEF IicInv
  <1> QED
    BY <1>1, <1>3, <1>4, WorksForOne

-----------------------------------------------------------------------------
(* The calls of main.                                                      *)

\* Initializing (csi_iic_initialize).
LEMMA IicInitializeStep == IicInv /\ IicInitialize => IicInv'
PROOF
  <1> SUFFICES ASSUME IicInv, IicInitialize PROVE IicInv'
    OBVIOUS
  <1> DEFINE e(cb) == [IicClosed EXCEPT !.open = TRUE, !.cb = cb]
             v == [usi EXCEPT !.irq = TRUE]
  <1>1. PICK cb \in BOOLEAN : id' = e(cb)
    BY DEF IicInitialize
  <1>2. ~id.open /\ usi' = v /\ UNCHANGED <<isr, ibus, irec>>
    BY DEF IicInitialize
  <1>3. /\ usi \in Ports /\ usi.mode = "i2c" /\ IicOpen(id, usi, isr)
        /\ IicTypes(id, usi, ibus, irec, isr)
    BY DEF IicInv, IicGood, IicTypes
  <1>4. Over(id, usi, ibus, irec)
    BY <1>2, <1>3 DEF IicInv, IicGood, IicOpen, IicPhase, SendLost, Sends, ReceiveLost, Receives
  <1>5. /\ v \in Ports /\ v.mode = "i2c" /\ v.en = usi.en /\ v.ie = usi.ie /\ v.ip = usi.ip
        /\ v.tx = usi.tx /\ v.rx = usi.rx
    BY <1>3 DEF Ports, Port
  <1> HIDE DEF v
  <1>6. << >> \in Seq(Nat)
    OBVIOUS
  <1>7. e(cb) \in IicDriver /\ e(cb).open /\ e(cb).status = "none"
    BY <1>6 DEF IicClosed, IicDriver
  <1> HIDE DEF e
  <1>8. IicTypes(e(cb), v, ibus, irec, isr)
    BY <1>3, <1>5, <1>7 DEF IicTypes
  <1>9. IicOpen(e(cb), v, isr)
    BY <1>3, <1>5, <1>7 DEF IicOpen
  <1>10. Over(e(cb), v, ibus, irec)
    BY <1>4, <1>5, <1>7 DEF Over, Done
  <1>11. IicGood(e(cb), v, ibus, irec, isr)
    BY <1>8, <1>9, <1>10 DEF IicGood, IicPhase
  <1> QED
    BY <1>1, <1>2, <1>11 DEF IicInv

\* Closing the driver switches the port off and empties it (csi_iic_uninitialize).
LEMMA IicUninitializeStep == IicInv /\ IicUninitialize => IicInv'
PROOF
  <1> SUFFICES ASSUME IicInv, IicUninitialize PROVE IicInv'
    OBVIOUS
  <1> DEFINE a == SetIe(usi, {})
             x == [IicState EXCEPT !.u = a]
             s == Off(x)
             v == [s.u EXCEPT !.irq = FALSE]
             h == [irec EXCEPT !.calls = @ + 1, !.event = "none"]
  <1>1. ~isr.on /\ isr' = isr
    BY DEF IicUninitialize, IicFree, MainRuns
  <1>a. IicState.u = usi
    BY DEF IicState
  <1>b. [IicState EXCEPT !.u = SetIe(@, {})] = x
    BY <1>a
  <1>2. IicBecomes([s EXCEPT !.d = IicClosed, !.u = [s.u EXCEPT !.irq = FALSE],
                             !.h = [irec EXCEPT !.calls = @ + 1, !.event = "none"]])
    <2> DEFINE w == [IicState EXCEPT !.u = SetIe(@, {})]
               o == Off(w)
    <2>1. IicBecomes([o EXCEPT !.d = IicClosed, !.u = [o.u EXCEPT !.irq = FALSE],
                               !.h = [irec EXCEPT !.calls = @ + 1, !.event = "none"]])
      BY DEF IicUninitialize
    <2>2. w = x
      BY <1>b
    <2> HIDE DEF w, x
    <2>3. o = s
      BY <2>2
    <2> HIDE DEF o, s
    <2> QED
      BY <2>1, <2>3
  <1>3. /\ usi \in Ports /\ usi.mode = "i2c" /\ irec \in IicHistory /\ isr \in Handler
        /\ IicState \in IicStates
    BY IicFacts
  <1>4. a \in Ports /\ a.mode = "i2c"
    <2>1. {} \in SUBSET Intr
      OBVIOUS
    <2>2. Access(a, usi, usi.en, {}, usi.tx, usi.rx, usi.ip)
      BY <1>3, <2>1, SetIeIs
    <2> HIDE DEF a
    <2> QED
      BY <1>3, <2>2 DEF Access
  <1> HIDE DEF a
  <1>5. x \in IicStates /\ x.u = a
    BY <1>3, <1>4, Replaced
  <1> HIDE DEF x
  <1>6. /\ s \in IicStates /\ s.b.st = "idle"
        /\ s.u \in Ports /\ s.u.mode = "i2c" /\ s.u.en = {}
        /\ s.u.tx = << >> /\ s.u.rx = << >> /\ s.u.ip \subseteq s.u.ie
    BY <1>4, <1>5, OffIs
  <1> HIDE DEF s
  <1>7. /\ v \in Ports /\ v.mode = "i2c" /\ v.en = {} /\ v.tx = << >> /\ v.rx = << >>
        /\ v.ip \subseteq v.ie
    BY <1>6 DEF Ports, Port
  <1>8. h \in IicHistory /\ h.event = "none"
    <2> DEFINE g == [irec EXCEPT !.calls = irec.calls + 1]
    <2>1. irec.calls + 1 \in Nat
      BY <1>3 DEF IicHistory
    <2>2. g \in IicHistory
      BY <1>3, <2>1 DEF IicHistory
    <2>3. h = [g EXCEPT !.event = "none"]
      BY <1>3 DEF IicHistory
    <2> HIDE DEF g, h
    <2> QED
      BY <2>2, <2>3 DEF IicHistory
  <1>9. id' = IicClosed /\ usi' = v /\ ibus' = s.b /\ irec' = h
    BY <1>2, <1>6 DEF IicBecomes, IicStates
  <1> HIDE DEF v, h
  <1>10. << >> \in Seq(Nat)
    OBVIOUS
  <1>11. IicClosed \in IicDriver /\ ~IicClosed.open /\ ~IicClosed.cb /\ IicClosed.status = "none"
    BY <1>10 DEF IicClosed, IicDriver
  <1>12. IicTypes(IicClosed, v, s.b, h, isr)
    BY <1>3, <1>6, <1>7, <1>8, <1>11 DEF IicTypes, IicStates
  <1>13. IicOpen(IicClosed, v, isr)
    <2>1. Len(<< >>) <= Fifo
      BY FifoAssumption
    <2> QED
      BY <1>1, <1>7, <1>11, <2>1 DEF IicOpen
  <1>14. Over(IicClosed, v, s.b, h)
    BY <1>6, <1>7, <1>8, <1>11 DEF Over, Done
  <1>15. IicGood(IicClosed, v, s.b, h, isr)
    BY <1>12, <1>13, <1>14 DEF IicGood, IicPhase
  <1> QED
    BY <1>1, <1>9, <1>15 DEF IicInv

\* Setting the address mode touches the stop bit alone (csi_iic_config).
LEMMA IicConfigStep == IicInv /\ IicConfig => IicInv'
PROOF
  <1> SUFFICES ASSUME IicInv, IicConfig PROVE IicInv'
    OBVIOUS
  <1> DEFINE c == [ibus EXCEPT !.stop = TRUE]
  <1>1. ibus' = c /\ UNCHANGED <<usi, isr, id, irec>> /\ id.status \notin {"send", "receive"}
    BY DEF IicConfig, IicQuiet
  <1>2. IicTypes(id, usi, ibus, irec, isr) /\ IicOpen(id, usi, isr) /\ Over(id, usi, ibus, irec)
    BY <1>1 DEF IicInv, IicGood, IicPhase, SendLost, Sends, ReceiveLost, Receives
  <1>3. c \in IicBus /\ c.st = ibus.st /\ c.present = ibus.present
    BY <1>2 DEF IicTypes, IicBus
  <1> HIDE DEF c
  <1>4. IicTypes(id, usi, c, irec, isr) /\ Over(id, usi, c, irec)
    BY <1>2, <1>3 DEF IicTypes, Over, Done
  <1> QED
    BY <1>1, <1>2, <1>4 DEF IicInv, IicGood, IicPhase

\* A send of the program (csi_iic_master_send).
LEMMA IicMasterSendStep == IicInv /\ IicMasterSend => IicInv'
PROOF
  <1> SUFFICES ASSUME IicInv, IicMasterSend PROVE IicInv'
    OBVIOUS
  <1>1. PICK n \in IicLens, p \in BOOLEAN : IicBecomes(IicSendStart(IicState, n, p))
    BY DEF IicMasterSend
  <1>2. ~isr.on /\ id.open /\ isr' = isr
    BY DEF IicMasterSend, IicFree, MainRuns
  <1>3. Fine(IicSendStart(IicState, n, p), isr)
    BY <1>2, IicFacts, SendStarts
  <1> QED
    BY <1>1, <1>2, <1>3, BecomesGood

\* A receive of the program (csi_iic_master_receive).
LEMMA IicMasterReceiveStep == IicInv /\ IicMasterReceive => IicInv'
PROOF
  <1> SUFFICES ASSUME IicInv, IicMasterReceive PROVE IicInv'
    OBVIOUS
  <1>1. PICK n \in IicLens, p \in BOOLEAN : IicBecomes(IicReceiveStart(IicState, n, p))
    BY DEF IicMasterReceive
  <1>2. ~isr.on /\ id.open /\ isr' = isr
    BY DEF IicMasterReceive, IicFree, MainRuns
  <1>3. Fine(IicReceiveStart(IicState, n, p), isr)
    BY <1>2, IicFacts, ReceiveStarts
  <1> QED
    BY <1>1, <1>2, <1>3, BecomesGood

\* An abort empties the port and leaves the history (csi_iic_abort_transfer).
LEMMA IicAbortStep == IicInv /\ IicAbort => IicInv'
PROOF
  <1> SUFFICES ASSUME IicInv, IicAbort PROVE IicInv'
    OBVIOUS
  <1> DEFINE e == [id EXCEPT !.rxCnt = 0, !.txCnt = 0, !.armed = FALSE, !.txBuf = << >>]
             h == [irec EXCEPT !.calls = @ + 1]
             y == [IicState EXCEPT !.d = e]
             x == [y EXCEPT !.h = h]
             s == Off(x)
  <1>1. ~isr.on /\ isr' = isr /\ id.open /\ id.status \in {"send", "receive"}
    BY IicFacts DEF IicAbort, IicFree, MainRuns, IicQuiet
  <1>2. /\ id \in IicDriver /\ usi \in Ports /\ usi.mode = "i2c" /\ irec \in IicHistory /\ isr \in Handler
        /\ IicState \in IicStates
        /\ IicState.d = id /\ IicState.u = usi /\ IicState.b = ibus /\ IicState.h = irec
    BY IicFacts
  <1>3. IicBecomes(s)
    <2>1. x = [IicState EXCEPT !.d = e, !.h = h]
      BY <1>2 DEF IicStates
    <2> HIDE DEF x
    <2> QED
      BY <2>1 DEF IicAbort
  <1>4. << >> \in Seq(Nat)
    OBVIOUS
  <1>5. /\ e \in IicDriver /\ e.status = id.status /\ e.open /\ ~e.armed /\ e.txTot = id.txTot /\ e.txCnt = 0
    BY <1>1, <1>2, <1>4 DEF IicDriver
  <1>6. h \in IicHistory
    <2>1. irec.calls + 1 \in Nat
      BY <1>2 DEF IicHistory
    <2> QED
      BY <1>2, <2>1 DEF IicHistory
  <1> HIDE DEF e, h
  <1>7. y \in IicStates /\ y.d = e /\ y.u = usi /\ y.b = ibus
    BY <1>2, <1>5, Replaced
  <1> HIDE DEF y
  <1>8. x \in IicStates /\ x.d = e /\ x.u = usi /\ x.b = ibus /\ x.h = h
    BY <1>6, <1>7, Replaced
  <1> HIDE DEF x
  <1>9. /\ s \in IicStates /\ s.d = e /\ s.h = h /\ s.b.st = "idle"
        /\ s.u \in Ports /\ s.u.mode = "i2c" /\ s.u.mask = usi.mask /\ s.u.en = {}
        /\ s.u.tx = << >> /\ s.u.rx = << >> /\ s.u.ie = usi.ie /\ s.u.ip \subseteq s.u.ie
        /\ Access(s.u, usi, {}, usi.ie, usi.tx, usi.rx, usi.ip)
    BY <1>2, <1>8, OffIs
  <1> HIDE DEF s
  <1>10. IicTypes(s.d, s.u, s.b, s.h, isr)
    BY <1>2, <1>9 DEF IicTypes, IicStates
  <1>11. IicOpen(s.d, s.u, isr)
    <2>1. Len(<< >>) <= Fifo
      BY FifoAssumption
    <2> QED
      BY <1>1, <1>5, <1>9, <2>1 DEF IicOpen
  <1>12. IicPhase(s.d, s.u, s.b, s.h, isr)
    <2>1. CASE id.status = "receive"
      BY <1>5, <1>9, <2>1 DEF IicPhase, ReceiveLost
    <2>2. CASE id.status = "send"
      <3>1. SendCounts(id, usi, isr)
        BY <2>2 DEF IicInv, IicGood, IicPhase, Over, SendLost, Sends, ReceiveLost, Receives
      <3>2. StopFor(s.u.ip) => StopFor(usi.ip)
        BY <1>9, <3>1 DEF Access, StopFor, SendCounts
      <3>3. e.txCnt <= e.txTot
        BY <1>2, <1>5 DEF IicDriver
      <3>4. SendCounts(s.d, s.u, isr)
        BY <1>1, <1>5, <1>9, <3>1, <3>2, <3>3 DEF SendCounts
      <3> QED
        BY <1>5, <1>9, <2>2, <3>4 DEF IicPhase, SendLost
    <2> QED
      BY <1>1, <2>1, <2>2
  <1>13. Fine(s, isr)
    BY <1>9, <1>10, <1>11, <1>12 DEF Fine, IicGood
  <1> QED
    BY <1>1, <1>3, <1>13, BecomesGood

-----------------------------------------------------------------------------
(* The theorems.                                                           *)

\* A port given to the driver at reset satisfies the invariant.
LEMMA IicBegins ==
  ASSUME usi = [ResetPort EXCEPT !.mode = "i2c"], isr = Idle, IicInit
  PROVE  IicInv
PROOF
  <1>1. << >> \in Seq(Nat) /\ Len(<< >>) = 0
    OBVIOUS
  <1>2. /\ usi \in Ports /\ usi.mode = "i2c" /\ usi.en = {} /\ usi.ie = {} /\ usi.ip = {}
        /\ usi.tx = << >> /\ usi.rx = << >>
    <2>1. [edge |-> FALSE, quarter |-> 1] \in [edge : BOOLEAN, quarter : 1..3]
      OBVIOUS
    <2>2. ResetPort \in Ports
      BY <1>1, <2>1 DEF ResetPort, Ports, Port, Modes
    <2>3. /\ ResetPort.en = {} /\ ResetPort.ie = {} /\ ResetPort.ip = {}
          /\ ResetPort.tx = << >> /\ ResetPort.rx = << >>
      BY DEF ResetPort
    <2> QED
      BY <2>2, <2>3 DEF Ports, Port, Modes
  <1>3. Idle \in Handler /\ ~Idle.on
    BY DEF Idle, Handler
  <1>4. id \in IicDriver /\ ~id.open /\ ~id.cb /\ id.status = "none"
    BY <1>1 DEF IicInit, IicClosed, IicDriver
  <1>5. ibus \in IicBus /\ ibus.st = "idle"
    BY DEF IicInit, IicBus
  <1>6. irec \in IicHistory /\ irec.event = "none"
    BY <1>1 DEF IicInit, IicHistory
  <1>7. IicTypes(id, usi, ibus, irec, isr)
    BY <1>2, <1>3, <1>4, <1>5, <1>6 DEF IicTypes
  <1>8. IicOpen(id, usi, isr)
    BY <1>1, <1>2, <1>3, <1>4, FifoAssumption DEF IicOpen
  <1>9. Over(id, usi, ibus, irec)
    BY <1>2, <1>4, <1>5, <1>6 DEF Over, Done
  <1> QED
    BY <1>7, <1>8, <1>9 DEF IicInv, IicGood, IicPhase

\* Every step of the driver, its handler and the bus keeps the invariant.
LEMMA IicKeeps == IicInv /\ [IicNext]_ivars => IicInv'
PROOF
  <1> SUFFICES ASSUME IicInv, [IicNext]_ivars PROVE IicInv'
    OBVIOUS
  <1>1. CASE UNCHANGED ivars
    BY <1>1 DEF ivars, IicInv
  <1>2. CASE IicNext
    BY <1>2, IicEnterStep, IicServeStep, IicAddressStep, IicWriteByteStep, IicReadByteStep,
       IicStopStep, IicInitializeStep, IicUninitializeStep, IicConfigStep, IicMasterSendStep,
       IicMasterReceiveStep, IicAbortStep DEF IicNext
  <1> QED
    BY <1>1, <1>2

\* The driver, the port and the bus are always in one of the states of IicInv.
THEOREM IicIsGood == IicSpec => []IicInv
PROOF
  <1>1. usi = [ResetPort EXCEPT !.mode = "i2c"] /\ isr = Idle /\ IicInit => IicInv
    BY IicBegins
  <1> QED
    BY <1>1, IicKeeps, PTL DEF IicSpec

\* The I2C part of the state is well formed.
THEOREM IicTyped == IicSpec => []IicTypeOK
PROOF
  <1>1. IicInv => IicTypeOK
    BY DEF IicInv, IicGood, IicTypes, IicTypeOK, Ports
  <1> QED
    BY <1>1, IicIsGood, PTL

\* A FIFO that holds only requests holds as many as it has words.
LEMMA RequestsAre ==
  ASSUME NEW f \in Seq(Nat), \A k \in 1..Len(f) : f[k] = Request
  PROVE  Requests(f) = Len(f)
PROOF
  <1>1. {k \in DOMAIN f : f[k] = Request} = 1..Len(f)
    OBVIOUS
  <1>2. Len(f) \in Nat
    OBVIOUS
  <1>3. Cardinality(1..Len(f)) = Len(f)
    <2> DEFINE n == Len(f)
    <2> HIDE DEF n
    <2>1. n \in Nat
      BY <1>2 DEF n
    <2>2. Cardinality(1..n) = IF 1 > n THEN 0 ELSE n - 1 + 1
      BY <2>1, FS_Interval
    <2>3. Cardinality(1..n) = n
      BY <2>1, <2>2
    <2> QED
      BY <2>3 DEF n
  <1> QED
    BY <1>1, <1>3 DEF Requests

\* A receive neither loses a request nor makes one twice (wj_iic_intr_rx_full).
THEOREM IicRequestsAddUp == IicSpec => []RequestsAddUp
PROOF
  <1>1. IicInv => RequestsAddUp
    <2> SUFFICES ASSUME IicInv, id.status = "receive", id.armed
                 PROVE  irec.got + Len(usi.rx) + Requests(usi.tx) + id.rxClk = id.rxTot
      BY DEF RequestsAddUp
    <2>1. Adds(id, usi, irec) /\ usi.tx \in Seq(Nat)
      BY DEF IicInv, IicGood, IicTypes, Ports, Port, IicPhase, Over, SendLost, Sends, ReceiveLost, Receives
    <2>2. Requests(usi.tx) = Len(usi.tx)
      BY <2>1, RequestsAre DEF Adds
    <2> QED
      BY <2>1, <2>2 DEF Adds
  <1> QED
    BY <1>1, IicIsGood, PTL

\* A receive never waits for more words than it has asked for.
THEOREM IicThresholdInReach == IicSpec => []ThresholdInReach
PROOF
  <1>1. IicInv => ThresholdInReach
    <2> SUFFICES ASSUME IicInv, id.status = "receive", id.armed, usi.th.edge
                 PROVE  (Fifo \div 4) * usi.th.quarter <= Len(usi.rx) + Requests(usi.tx)
      BY DEF ThresholdInReach
    <2>1. Adds(id, usi, irec) /\ usi.tx \in Seq(Nat)
      BY DEF IicInv, IicGood, IicTypes, Ports, Port, IicPhase, Over, SendLost, Sends, ReceiveLost, Receives
    <2>2. Requests(usi.tx) = Len(usi.tx)
      BY <2>1, RequestsAre DEF Adds
    <2> QED
      BY <2>1, <2>2 DEF Adds
  <1> QED
    BY <1>1, IicIsGood, PTL

\* A transfer whose end was signalled is complete: every byte of a send is on the
\* bus, in order, and every byte of a receive is in its buffer.
THEOREM IicDoneIsComplete == IicSpec => []DoneIsComplete
PROOF
  <1>1. IicInv => DoneIsComplete
    BY DEF IicInv, IicGood, IicPhase, Over, SendLost, Sends, ReceiveLost, Receives, Done,
           DoneIsComplete, Bytes
  <1> QED
    BY <1>1, IicIsGood, PTL

-----------------------------------------------------------------------------
(* What an access latches.                                                 *)

\* The causes whose level holds are latched if they are enabled.
LevelsLatched(u) == Level(u) \cap u.ie \subseteq u.ip

\* An access latches the levels, and keeps of ip what is enabled.
Keeps(v, ip) == LevelsLatched(v) /\ ip \cap v.ie \subseteq v.ip

\* Settling latches and keeps.
LEMMA SettleKeeps ==
  ASSUME NEW u \in Ports
  PROVE  Keeps(Settle(u), u.ip)
PROOF
  <1> DEFINE t == IF TxOn(u) THEN u.tx ELSE << >>
             r == IF RxOn(u) THEN u.rx ELSE << >>
             v == [[u EXCEPT !.tx = t] EXCEPT !.rx = r]
             q == (v.ip \cup Level(v)) \cap v.ie
             w == [v EXCEPT !.ip = q]
  <1>1. Settle(u) = w
    BY DEF Settle, TxOn, RxOn, Ports, Port
  <1>2. t \in Seq(Nat) /\ r \in Seq(Nat)
    BY DEF Ports, Port
  <1> HIDE DEF t, r
  <1>3. v \in Ports /\ v.ie = u.ie /\ v.ip = u.ip
    BY <1>2 DEF Ports, Port
  <1> HIDE DEF v
  <1>4. w.ip = q /\ w.ie = v.ie /\ w.tx = v.tx /\ w.rx = v.rx /\ w.th = v.th
    <2> HIDE DEF q
    <2> QED
      BY <1>3 DEF Ports, Port
  <1> HIDE DEF w
  <1>5. Level(w) = Level(v)
    BY <1>4 DEF Level
  <1> QED
    BY <1>1, <1>3, <1>4, <1>5 DEF Keeps, LevelsLatched

\* So does every access: switching the FIFOs on or off,
LEMMA EnKeeps ==
  ASSUME NEW u \in Ports, NEW e \in SUBSET EnBit
  PROVE  Keeps(SetEn(u, e), u.ip)
PROOF
  <1> DEFINE w == [u EXCEPT !.en = e]
  <1>1. w \in Ports /\ w.ip = u.ip
    BY DEF Ports, Port
  <1> HIDE DEF w
  <1>2. Keeps(Settle(w), u.ip)
    BY <1>1, SettleKeeps
  <1> QED
    BY <1>2 DEF SetEn, w

\* the enables,
LEMMA IeKeeps ==
  ASSUME NEW u \in Ports, NEW s \in SUBSET Intr
  PROVE  Keeps(SetIe(u, s), u.ip)
PROOF
  <1> DEFINE w == [u EXCEPT !.ie = s]
  <1>1. w \in Ports /\ w.ip = u.ip
    BY DEF Ports, Port
  <1> HIDE DEF w
  <1>2. Keeps(Settle(w), u.ip)
    BY <1>1, SettleKeeps
  <1> QED
    BY <1>2 DEF SetIe, w

\* the clearing of causes,
LEMMA ClearKeeps ==
  ASSUME NEW u \in Ports, NEW s
  PROVE  Keeps(ClearIrq(u, s), u.ip \ s)
PROOF
  <1> DEFINE w == [u EXCEPT !.ip = @ \ s]
  <1>1. w \in Ports /\ w.ip = u.ip \ s
    BY DEF Ports, Port
  <1> HIDE DEF w
  <1>2. Keeps(Settle(w), u.ip \ s)
    BY <1>1, SettleKeeps
  <1> QED
    BY <1>2 DEF ClearIrq, w

\* the raising of causes,
LEMMA RaiseKeeps ==
  ASSUME NEW u \in Ports, NEW s \in SUBSET Intr
  PROVE  Keeps(Raise(u, s), u.ip \cup s)
PROOF
  <1> DEFINE w == [u EXCEPT !.ip = @ \cup s]
  <1>1. w \in Ports /\ w.ip = u.ip \cup s
    BY DEF Ports, Port
  <1> HIDE DEF w
  <1>2. Keeps(Settle(w), u.ip \cup s)
    BY <1>1, SettleKeeps
  <1> QED
    BY <1>2 DEF Raise, w

\* a write to the FIFO,
LEMMA WriteKeeps ==
  ASSUME NEW u \in Ports, NEW ws \in Seq(Nat)
  PROVE  Keeps(WriteTx(u, ws), u.ip)
PROOF
  <1> DEFINE n == Newest(u.tx \o ws)
             w == [u EXCEPT !.tx = n]
  <1>1. n \in Seq(Nat)
    <2>1. u.tx \o ws \in Seq(Nat)
      BY ConcatProperties DEF Ports, Port
    <2> QED
      BY <2>1, NewestIs
  <1>2. WriteTx(u, ws) = Settle(w)
    BY DEF WriteTx
  <1> HIDE DEF n
  <1>3. w \in Ports /\ w.ip = u.ip
    BY <1>1 DEF Ports, Port
  <1> HIDE DEF w
  <1> QED
    BY <1>2, <1>3, SettleKeeps

\* a read from it,
LEMMA TakeKeeps ==
  ASSUME NEW u \in Ports, NEW n \in 0..Len(u.rx)
  PROVE  Keeps(TakeRx(u, n), u.ip)
PROOF
  <1> DEFINE r == SubSeq(u.rx, n + 1, Len(u.rx))
             w == [u EXCEPT !.rx = r]
  <1>1. r \in Seq(Nat)
    <2>1. u.rx \in Seq(Nat) /\ n + 1 \in 1..Len(u.rx) + 1 /\ Len(u.rx) \in 0..Len(u.rx)
      BY DEF Ports, Port
    <2> QED
      BY <2>1
  <1>2. TakeRx(u, n) = Settle(w)
    BY DEF TakeRx
  <1> HIDE DEF r
  <1>3. w \in Ports /\ w.ip = u.ip
    BY <1>1 DEF Ports, Port
  <1> HIDE DEF w
  <1> QED
    BY <1>2, <1>3, SettleKeeps

\* a threshold,
LEMMA TholdKeeps ==
  ASSUME NEW u \in Ports, NEW n \in Nat
  PROVE  Keeps(SetRxThold(u, n), u.ip)
PROOF
  <1> DEFINE h == [edge    |-> n >= Fifo \div 4,
                   quarter |-> IF n >= Fifo THEN 3
                               ELSE IF n >= Fifo - (Fifo \div 4) THEN 2 ELSE 1]
             w == [u EXCEPT !.th = h]
  <1>1. h \in [edge : BOOLEAN, quarter : 1..3]
    OBVIOUS
  <1>2. SetRxThold(u, n) = Settle(w)
    BY DEF SetRxThold
  <1> HIDE DEF h
  <1>3. w \in Ports /\ w.ip = u.ip
    BY <1>1 DEF Ports, Port
  <1> HIDE DEF w
  <1> QED
    BY <1>2, <1>3, SettleKeeps

\* a word that leaves
LEMMA ShiftKeeps ==
  ASSUME NEW u \in Ports, u.tx # << >>
  PROVE  Keeps(Shifted(u), u.ip)
PROOF
  <1> DEFINE t == Tail(u.tx)
             w == [u EXCEPT !.tx = t]
  <1>1. t \in Seq(Nat)
    BY DEF Ports, Port
  <1>2. Shifted(u) = Settle(w)
    BY DEF Shifted
  <1> HIDE DEF t
  <1>3. w \in Ports /\ w.ip = u.ip
    BY <1>1 DEF Ports, Port
  <1> HIDE DEF w
  <1> QED
    BY <1>2, <1>3, SettleKeeps

\* and one that arrives.
LEMMA ArriveKeeps ==
  ASSUME NEW u \in Ports, NEW x \in Nat
  PROVE  Keeps(Arrived(u, x), u.ip)
PROOF
  <1> DEFINE r == Newest(Append(u.rx, x))
             w == [u EXCEPT !.rx = r]
  <1>1. r \in Seq(Nat)
    <2>1. Append(u.rx, x) \in Seq(Nat)
      BY DEF Ports, Port
    <2> QED
      BY <2>1, NewestIs
  <1>2. Arrived(u, x) = Settle(w)
    BY DEF Arrived
  <1> HIDE DEF r
  <1>3. w \in Ports /\ w.ip = u.ip
    BY <1>1 DEF Ports, Port
  <1> HIDE DEF w
  <1> QED
    BY <1>2, <1>3, SettleKeeps

\* What is latched for a quiet line, for an empty FIFO that reports from below,
\* and for words enough.
LEMMA LatchedIs ==
  ASSUME NEW u \in Ports, LevelsLatched(u)
  PROVE  /\ u.tx = << >> /\ "TX_EMPTY" \in u.ie => "TX_EMPTY" \in u.ip
         /\ u.rx = << >> /\ ~u.th.edge /\ "RX_THOLD" \in u.ie => "RX_THOLD" \in u.ip
         /\ (Fifo \div 4) * u.th.quarter <= Len(u.rx) /\ u.th.edge /\ "RX_THOLD" \in u.ie
              => "RX_THOLD" \in u.ip
PROOF
  <1> DEFINE n == (Fifo \div 4) * u.th.quarter
  <1>1. n \in Nat /\ Len(u.rx) \in Nat
    <2>1. u.th.quarter \in 1..3 /\ Fifo \div 4 \in Nat /\ u.rx \in Seq(Nat)
      BY FifoAssumption DEF Ports, Port
    <2> QED
      BY <2>1
  <1>2. Level(u) = (IF u.tx = << >> THEN {"TX_EMPTY"} ELSE {}) \cup
                   (IF (IF u.th.edge THEN Len(u.rx) >= n ELSE Len(u.rx) <= n) THEN {"RX_THOLD"} ELSE {}) \cup
                   (IF Len(u.rx) = Fifo THEN {"RX_FULL"} ELSE {})
    BY DEF Level
  <1> HIDE DEF n
  <1>3. u.tx = << >> => "TX_EMPTY" \in Level(u)
    BY <1>2
  <1>4. ~u.th.edge /\ u.rx = << >> => "RX_THOLD" \in Level(u)
    <2>1. u.rx = << >> => Len(u.rx) <= n
      BY <1>1
    <2> QED
      BY <1>2, <2>1
  <1>5. u.th.edge /\ n <= Len(u.rx) => "RX_THOLD" \in Level(u)
    BY <1>1, <1>2
  <1> QED
    BY <1>3, <1>4, <1>5 DEF LevelsLatched, n

-----------------------------------------------------------------------------
(* A transfer that runs can go on: the second invariant.                   *)

\* The levels are latched, and an open driver's line is enabled.
Wired(d, u) == LevelsLatched(u) /\ (d.open => u.irq)

\* A send asks for more or has ordered its stop; when the bus has come to rest
\* with nothing to send, the handler is told.
SendAhead(u, b) ==
  /\ "I2C_STOP" \in u.ie
  /\ "TX_EMPTY" \in u.ie \/ b.stop
  /\ b.st = "idle" /\ u.tx = << >> => "I2C_STOP" \in u.ip \/ "I2C_NACK" \in u.ip

\* A receive waits for words, and told so if it reports from below, or has ordered
\* its stop.
ReceiveAhead(d, u, b) ==
  /\ u.mask = {"I2C_STOP", "RX_THOLD"}
  /\ b.stop => "I2C_STOP" \in u.ie
  /\ ~b.stop => "RX_THOLD" \in u.ie /\ (~u.th.edge => "RX_THOLD" \in u.ip)
  /\ d.rxCnt = d.rxTot => b.stop
  /\ b.st = "idle" /\ u.tx = << >> => "I2C_STOP" \in u.ip

Ahead(d, u, b) ==
  /\ Wired(d, u)
  /\ d.status = "send" /\ d.armed => SendAhead(u, b)
  /\ d.status = "receive" /\ d.armed => ReceiveAhead(d, u, b)

IicAhead == Ahead(id, usi, ibus)

\* After an event the driver rests, or its callback has just started a transfer.
Rests(t) == Wired(t.d, t.u) /\ t.d.status \notin {"send", "receive"}
Fresh(t) ==
  /\ Wired(t.d, t.u) /\ t.u.en = EnBit /\ t.u.tx # << >> /\ t.u.rx = << >>
  /\ t.d.status = "send" => {"I2C_STOP", "TX_EMPTY"} \subseteq t.u.ie
  /\ t.d.status = "receive" => /\ t.u.mask = {"I2C_STOP", "RX_THOLD"} /\ "RX_THOLD" \in t.u.ie
                               /\ ~t.b.stop /\ t.d.rxCnt # t.d.rxTot

\* Either goes on, whatever bits the pass still clears.
LEMMA FreshAhead ==
  ASSUME NEW t \in IicStates, Fresh(t) \/ Rests(t)
  PROVE  Ahead(t.d, t.u, t.b)
PROOF
  <1>1. t.u \in Ports
    BY DEF IicStates
  <1>2. CASE Rests(t)
    BY <1>2 DEF Rests, Ahead
  <1>3. CASE Fresh(t)
    <2>1. LevelsLatched(t.u)
      BY <1>3 DEF Fresh, Wired
    <2>2. ~t.u.th.edge /\ "RX_THOLD" \in t.u.ie => "RX_THOLD" \in t.u.ip
      BY <1>1, <1>3, <2>1, LatchedIs DEF Fresh
    <2> QED
      BY <1>3, <2>2 DEF Fresh, Ahead, SendAhead, ReceiveAhead
  <1> QED
    BY <1>2, <1>3

\* With a count added and bits cleared.
LEMMA ClearedAhead ==
  ASSUME NEW t \in IicStates, Fresh(t) \/ Rests(t), NEW n, NEW bits
  PROVE  LET r == [t EXCEPT !.d = [t.d EXCEPT !.txCnt = @ + n]]
             z == [r EXCEPT !.u = ClearIrq(@, bits)]
         IN  Ahead(z.d, z.u, z.b)
PROOF
  <1> DEFINE m == t.d.txCnt + n
             e == [t.d EXCEPT !.txCnt = m]
             u == t.u
             v == ClearIrq(u, bits)
             r == [t EXCEPT !.d = e]
             z == [r EXCEPT !.u = ClearIrq(@, bits)]
  <1>1. t.d \in IicDriver /\ u \in Ports
    BY DEF IicStates
  <1>2. Access(v, u, u.en, u.ie, u.tx, u.rx, u.ip \ bits) /\ Keeps(v, u.ip \ bits)
    BY <1>1, ClearIrqIs, ClearKeeps
  <1>3. z.d = e /\ z.u = v /\ z.b = t.b
    BY DEF IicStates
  <1> HIDE DEF z, r, v, m
  <1>4. /\ e.open = t.d.open /\ e.status = t.d.status /\ e.armed = t.d.armed
        /\ e.rxCnt = t.d.rxCnt /\ e.rxTot = t.d.rxTot
    BY <1>1 DEF IicDriver
  <1> HIDE DEF e
  <1>5. v \in Ports /\ v.irq = u.irq /\ v.ie = u.ie /\ v.mask = u.mask /\ LevelsLatched(v)
    BY <1>2 DEF Access, Keeps
  <1>6. Wired(t.d, u) /\ Wired(e, v)
    BY <1>4, <1>5 DEF Fresh, Rests, Wired
  <1>7. CASE Rests(t)
    BY <1>3, <1>4, <1>6, <1>7 DEF Rests, Ahead, z, r, e, m
  <1>8. CASE Fresh(t)
    <2>1. {"usi", "tx"} \subseteq EnBit /\ {"usi", "rx"} \subseteq EnBit
      BY DEF EnBit
    <2>2. v.tx # << >> /\ v.rx = << >>
      BY <1>2, <1>8, <2>1 DEF Fresh, Access
    <2>3. ~v.th.edge /\ "RX_THOLD" \in v.ie => "RX_THOLD" \in v.ip
      BY <1>5, <2>2, LatchedIs
    <2>4. Ahead(e, v, t.b)
      BY <1>4, <1>5, <1>6, <1>8, <2>2, <2>3 DEF Fresh, Ahead, SendAhead, ReceiveAhead
    <2> QED
      BY <1>3, <2>4 DEF z, r, e, m
  <1> QED
    BY <1>7, <1>8

\* A port that is given one word has its levels latched.
LEMMA GivenLatched ==
  ASSUME NEW u \in Ports, NEW x \in Nat, NEW ie \in SUBSET Intr
  PROVE  LET v == SetIe(WriteTx(Restart(SetIe(u, {}), Fifos, EnBit), <<x>>), ie)
         IN  v.irq = u.irq /\ v.mask = u.mask /\ v.en = EnBit /\ v.ie = ie /\ v.tx = <<x>> /\ v.rx = << >> /\ LevelsLatched(v)
PROOF
  <1> DEFINE a == SetIe(u, {})
             b == Restart(a, Fifos, EnBit)
             c == WriteTx(b, <<x>>)
             v == SetIe(c, ie)
  <1>1. v.irq = u.irq /\ v.mask = u.mask /\ v.en = EnBit /\ v.ie = ie /\ v.tx = <<x>> /\ v.rx = << >>
    BY GivenWord
  <1>2. a \in Ports
    <2>1. {} \in SUBSET Intr
      OBVIOUS
    <2> QED
      BY <2>1, SetIeIs DEF Access
  <1> HIDE DEF a
  <1>3. b \in Ports
    BY <1>2, RestartIs DEF Access
  <1> HIDE DEF b
  <1>4. c \in Ports
    BY <1>3, WriteTxIs, FirstWord DEF Access
  <1> HIDE DEF c
  <1>5. LevelsLatched(v)
    BY <1>4, IeKeeps DEF Keeps
  <1> HIDE DEF v
  <1>6. v.irq = u.irq /\ v.mask = u.mask /\ v.en = EnBit /\ v.ie = ie /\ v.tx = <<x>> /\ v.rx = << >> /\ LevelsLatched(v)
    BY <1>1, <1>5 DEF v, c, b, a
  <1> QED
    BY <1>6 DEF v, c, b, a

\* A start leaves a transfer that goes on.
LEMMA SendStartFresh ==
  ASSUME NEW s \in IicStates, s.u.mode = "i2c", s.d.open, s.u.irq, NEW n \in IicLens, NEW p \in BOOLEAN
  PROVE  LET t == IicSendStart(s, n, p) IN t \in IicStates /\ Fresh(t)
PROOF
  <1> DEFINE m == Unmask(s.u, IicSendBits)
             given(u) == SetIe(WriteTx(Restart(SetIe(u, {}), Fifos, EnBit), <<1>>), IicSendBits)
             t == IicSendStart(s, n, p)
  <1>1. s.d \in IicDriver /\ s.u \in Ports /\ IicSendBits \in SUBSET Intr
    BY DEF IicStates, IicSendBits, Intr
  <1>2. t.u = given(m) /\ t.d.status = "send" /\ t.d.open = s.d.open
    BY <1>1 DEF IicSendStart, IicDriver
  <1>3. t \in IicStates
    <2>1. Idle \in Handler /\ ~Idle.on
      BY DEF Idle, Handler
    <2> HIDE DEF t
    <2> QED
      BY <2>1, SendStarts DEF Fine, t
  <1>4. m \in Ports /\ m.irq = s.u.irq
    BY <1>1, UnmaskIs
  <1>5. ASSUME NEW u \in Ports
        PROVE  LET v == given(u)
               IN  v.irq = u.irq /\ v.en = EnBit /\ v.ie = IicSendBits /\ v.tx = <<1>> /\ v.rx = << >> /\ LevelsLatched(v)
    <2>1. 1 \in Nat
      OBVIOUS
    <2> QED
      BY <1>1, <2>1, GivenLatched
  <1> HIDE DEF m, given, t
  <1>6. /\ t.u.irq = s.u.irq /\ t.u.en = EnBit /\ t.u.ie = IicSendBits /\ t.u.tx = <<1>> /\ t.u.rx = << >>
        /\ LevelsLatched(t.u)
    BY <1>2, <1>4, <1>5
  <1>7. Fresh(t)
    <2>1. <<1>> # << >>
      OBVIOUS
    <2> QED
      BY <1>2, <1>6, <2>1 DEF Fresh, Wired, IicSendBits
  <1> QED
    BY <1>3, <1>7 DEF t

\* So does the start of a receive.
LEMMA ReceiveStartFresh ==
  ASSUME NEW s \in IicStates, s.u.mode = "i2c", s.d.open, s.u.irq, NEW n \in IicLens, NEW p \in BOOLEAN
  PROVE  LET t == IicReceiveStart(s, n, p) IN t \in IicStates /\ Fresh(t)
PROOF
  <1> DEFINE b == {"I2C_STOP", "RX_THOLD"}
             r == SetRxThold(s.u, 1)
             m == Unmask(r, b)
             given(u) == SetIe(WriteTx(Restart(SetIe(u, {}), Fifos, EnBit), <<Request>>), {"RX_THOLD"})
             t == IicReceiveStart(s, n, p)
  <1>1. /\ s.d \in IicDriver /\ s.u \in Ports /\ b \in SUBSET Intr
        /\ {"RX_THOLD"} \in SUBSET Intr /\ Request \in Nat /\ 1 \in Nat
    BY DEF IicStates, Intr, Request
  <1>2. /\ t.u = given(m) /\ t.d.status = "receive" /\ t.d.open = s.d.open /\ t.d.rxCnt = 0 /\ t.d.rxTot = n
        /\ t.b.stop = FALSE
    BY <1>1 DEF IicReceiveStart, IicDriver
  <1>3. t \in IicStates
    <2>1. Idle \in Handler /\ ~Idle.on
      BY DEF Idle, Handler
    <2> HIDE DEF t
    <2> QED
      BY <2>1, ReceiveStarts DEF Fine, t
  <1>4. m \in Ports /\ m.irq = s.u.irq /\ m.mask = b
    <2>1. r \in Ports /\ r.irq = s.u.irq
      BY <1>1, SetRxTholdIs
    <2> HIDE DEF r, b
    <2> QED
      BY <1>1, <2>1, UnmaskIs
  <1>5. ASSUME NEW u \in Ports
        PROVE  LET v == given(u)
               IN  /\ v.irq = u.irq /\ v.mask = u.mask /\ v.en = EnBit /\ v.ie = {"RX_THOLD"}
                   /\ v.tx = <<Request>> /\ v.rx = << >> /\ LevelsLatched(v)
    BY <1>1, GivenLatched
  <1> HIDE DEF m, given, t
  <1>6. /\ t.u.irq = s.u.irq /\ t.u.mask = b /\ t.u.en = EnBit /\ t.u.ie = {"RX_THOLD"}
        /\ t.u.tx = <<Request>> /\ t.u.rx = << >> /\ LevelsLatched(t.u)
    BY <1>2, <1>4, <1>5
  <1>7. n # 0 /\ <<Request>> # << >>
    BY IicAssumption
  <1>8. Fresh(t)
    BY <1>2, <1>6, <1>7 DEF Fresh, Wired
  <1> QED
    BY <1>3, <1>8 DEF t

\* After an event.
LEMMA SignalAhead ==
  ASSUME NEW s \in IicStates, s.u.mode = "i2c", s.d.cb => s.d.open, Rests(s),
         NEW event \in {"none", "done", "bus_error", "arbitration_lost"}, NEW t \in Signal(s, event)
  PROVE  t \in IicStates /\ (Fresh(t) \/ Rests(t))
PROOF
  <1> DEFINE h == [s.h EXCEPT !.event = event]
             r == [s EXCEPT !.h = h]
  <1>1. h \in IicHistory
    BY DEF IicStates, IicHistory
  <1> HIDE DEF h
  <1>2. r \in IicStates /\ r.d = s.d /\ r.u = s.u
    BY <1>1, Replaced
  <1>3. t = r \/ (s.d.cb /\ t \in IicStarts(r))
    BY DEF Signal, h
  <1> HIDE DEF r
  <1>4. CASE t = r
    BY <1>2, <1>4 DEF Rests
  <1>5. CASE s.d.cb /\ t \in IicStarts(r)
    <2>1. r.u.mode = "i2c" /\ r.d.open /\ r.u.irq
      BY <1>2, <1>5 DEF Rests, Wired
    <2>2. \E n \in IicLens, p \in BOOLEAN : t = IicSendStart(r, n, p) \/ t = IicReceiveStart(r, n, p)
      BY <1>5 DEF IicStarts
    <2> QED
      BY <1>2, <2>1, <2>2, SendStartFresh, ReceiveStartFresh
  <1> QED
    BY <1>3, <1>4, <1>5

\* After the event of a driver that is switched off.
LEMMA EndAhead ==
  ASSUME NEW s \in IicStates, s.u.mode = "i2c", s.d.cb => s.d.open, s.d.open => s.u.irq,
         s.d.status \notin {"send", "receive"},
         NEW event \in {"none", "done", "bus_error", "arbitration_lost"}, NEW t \in Signal(Off(s), event)
  PROVE  t \in IicStates /\ (Fresh(t) \/ Rests(t))
PROOF
  <1> DEFINE o == Off(s)
  <1>1. /\ o \in IicStates /\ o.d = s.d /\ o.u.mode = "i2c"
        /\ Access(o.u, s.u, {}, s.u.ie, s.u.tx, s.u.rx, s.u.ip)
    BY OffIs
  <1>2. LevelsLatched(o.u)
    <2>1. o.u = SetEn(s.u, {}) /\ s.u \in Ports /\ {} \in SUBSET EnBit
      BY DEF Off, IicStates
    <2> HIDE DEF o
    <2> QED
      BY <2>1, EnKeeps DEF Keeps
  <1> HIDE DEF o
  <1>3. Rests(o)
    BY <1>1, <1>2 DEF Rests, Wired, Access
  <1> QED
    BY <1>1, <1>3, SignalAhead DEF o

\* After the event of a driver whose interrupts are all off.
LEMMA AllOffAhead ==
  ASSUME NEW s \in IicStates, s.u.mode = "i2c", s.d.cb => s.d.open, s.d.open => s.u.irq,
         s.d.status \notin {"send", "receive"},
         NEW event \in {"bus_error", "arbitration_lost"}, NEW t \in Signal(AllOff(s), event)
  PROVE  t \in IicStates /\ (Fresh(t) \/ Rests(t))
PROOF
  <1> DEFINE m == Unmask(s.u, {})
             v == SetIe(m, {})
             x == [s EXCEPT !.u = v]
  <1>1. s.u \in Ports /\ {} \in SUBSET Intr
    BY DEF IicStates
  <1>2. m \in Ports /\ m.mode = "i2c" /\ m.irq = s.u.irq
    BY <1>1, UnmaskIs
  <1>3. AllOff(s) = Off(x)
    BY DEF AllOff, IicStates
  <1> HIDE DEF m
  <1>4. v \in Ports /\ v.mode = "i2c" /\ v.irq = s.u.irq
    <2>1. Access(v, m, m.en, {}, m.tx, m.rx, m.ip)
      BY <1>1, <1>2, SetIeIs
    <2> QED
      BY <1>2, <2>1 DEF Access
  <1> HIDE DEF v
  <1>5. x \in IicStates /\ x.d = s.d /\ x.u = v
    BY <1>4, Replaced
  <1> HIDE DEF x
  <1>6. t \in Signal(Off(x), event)
    BY <1>3
  <1> QED
    BY <1>4, <1>5, <1>6, EndAhead

-----------------------------------------------------------------------------
(* The handler's passes.                                                   *)

\* The FIFO is not emptied by a write.
LEMMA WriteNotEmpty ==
  ASSUME NEW u \in Ports, u.en = EnBit, u.tx # << >>, NEW ws \in Seq(Nat)
  PROVE  WriteTx(u, ws).tx # << >>
PROOF
  <1> DEFINE c == u.tx \o ws
  <1>1. u.tx \in Seq(Nat) /\ Len(u.tx) \in Nat /\ Len(ws) \in Nat /\ Len(u.tx) # 0
    BY DEF Ports, Port
  <1>2. c \in Seq(Nat) /\ Len(c) = Len(u.tx) + Len(ws)
    BY <1>1, ConcatProperties
  <1>3. WriteTx(u, ws).tx = Newest(c)
    <2>1. Access(WriteTx(u, ws), u, u.en, u.ie, Newest(c), u.rx, u.ip)
      BY WriteTxIs
    <2>2. {"usi", "tx"} \subseteq EnBit
      BY DEF EnBit
    <2> HIDE DEF c
    <2> QED
      BY <2>1, <2>2 DEF Access
  <1> HIDE DEF c
  <1>4. Len(c) # 0
    BY <1>1, <1>2
  <1>5. Len(Newest(c)) # 0
    BY <1>2, <1>4, NewestIs, FifoAssumption, SMTT(60)
  <1>6. Len(<< >>) = 0
    OBVIOUS
  <1> QED
    BY <1>3, <1>5, <1>6

\* v is a later port than u, with the same line: what is still enabled is still told.
Later(v, u) ==
  /\ v \in Ports /\ v.mode = u.mode /\ v.irq = u.irq /\ v.mask = u.mask /\ v.en = u.en /\ LevelsLatched(v)
  /\ "I2C_STOP" \in u.ip /\ "I2C_STOP" \in v.ie => "I2C_STOP" \in v.ip
  /\ "I2C_NACK" \in u.ip /\ "I2C_NACK" \in v.ie => "I2C_NACK" \in v.ip

\* Later than a later port,
LEMMA LaterIs ==
  ASSUME NEW u \in Ports, NEW v \in Ports, NEW w \in Ports, Later(v, u), Later(w, v), w.ie \subseteq v.ie
  PROVE  Later(w, u)
PROOF BY DEF Later

\* and later by an access.
LEMMA AccessLater ==
  ASSUME NEW u \in Ports, NEW v, NEW ie, NEW tx, NEW rx, Access(v, u, u.en, ie, tx, rx, u.ip), LevelsLatched(v)
  PROVE  Later(v, u)
PROOF BY DEF Access, Later

\* The port of a running send that is fed, and of one whose stop is ordered.
LEMMA FedLater ==
  ASSUME NEW u \in Ports, u.en = EnBit, NEW ws \in Seq(Nat)
  PROVE  LET v == WriteTx(u, ws)
             w == IrqOff(v, {"TX_EMPTY"})
         IN  /\ Later(v, u) /\ v.ie = u.ie /\ (v.tx = << >> => u.tx = << >>)
             /\ Later(w, u) /\ w.ie = u.ie \ {"TX_EMPTY"} /\ (w.tx = << >> => u.tx = << >>)
PROOF
  <1> DEFINE v == WriteTx(u, ws)
             w == IrqOff(v, {"TX_EMPTY"})
  <1>1. Access(v, u, u.en, u.ie, Newest(u.tx \o ws), u.rx, u.ip) /\ LevelsLatched(v)
    BY WriteTxIs, WriteKeeps DEF Keeps
  <1>2. v.tx = << >> => u.tx = << >>
    BY WriteNotEmpty
  <1> HIDE DEF v
  <1>3. Later(v, u) /\ v \in Ports /\ v.en = u.en /\ v.ie = u.ie
    BY <1>1, AccessLater DEF Access
  <1>4. Access(w, v, v.en, v.ie \ {"TX_EMPTY"}, v.tx, v.rx, v.ip) /\ LevelsLatched(w)
    <2>1. {"TX_EMPTY"} \in SUBSET Intr /\ v.ie \ {"TX_EMPTY"} \in SUBSET Intr
      BY <1>3 DEF Ports, Port, Intr
    <2>2. w = SetIe(v, v.ie \ {"TX_EMPTY"})
      BY DEF IrqOff
    <2> HIDE DEF w
    <2> QED
      BY <1>3, <2>1, <2>2, SetIeIs, IeKeeps DEF Keeps
  <1> HIDE DEF w
  <1>5. Later(w, v) /\ w \in Ports /\ w.ie = v.ie \ {"TX_EMPTY"}
    BY <1>3, <1>4, AccessLater DEF Access
  <1>6. w.tx = v.tx
    <2>1. {"usi", "tx"} \subseteq EnBit
      BY DEF EnBit
    <2> QED
      BY <1>3, <1>4, <2>1 DEF Access
  <1>7. Later(w, u)
    BY <1>3, <1>5, LaterIs
  <1> QED
    BY <1>2, <1>3, <1>5, <1>6, <1>7 DEF v, w

\* What a pass over a send leaves, before it tells of the stop.
LEMMA OrderedIs ==
  ASSUME NEW s \in IicStates, s.d.armed => s.u.en = EnBit, LevelsLatched(s.u), NEW n \in Nat,
         s.d.armed => n \in 0..Len(s.d.txBuf)
  PROVE  LET o == Ordered(s, Filled(s, n))
         IN  /\ o \in IicStates /\ Later(o.u, s.u)
             /\ o.d.status = s.d.status /\ o.d.armed = s.d.armed /\ o.d.open = s.d.open /\ o.d.cb = s.d.cb
             /\ o.b.st = s.b.st /\ (s.b.stop => o.b.stop)
             /\ "I2C_STOP" \in s.u.ie => "I2C_STOP" \in o.u.ie
             /\ "I2C_NACK" \in s.u.ie => "I2C_NACK" \in o.u.ie
             /\ "TX_EMPTY" \in s.u.ie => "TX_EMPTY" \in o.u.ie \/ o.b.stop
             /\ s.d.armed /\ o.u.tx = << >> => s.u.tx = << >>
PROOF
  <1> DEFINE d == s.d
             u == s.u
             p == SubSeq(d.txBuf, 1, n)
             q == SubSeq(d.txBuf, n + 1, Len(d.txBuf))
             f == Filled(s, n)
             b == [s.b EXCEPT !.stop = TRUE]
             o == Ordered(s, f)
  <1>1. d \in IicDriver /\ u \in Ports /\ s.b \in IicBus
    BY DEF IicStates
  <1>2. /\ f \in IicStates /\ Later(f.u, u) /\ f.u.ie = u.ie /\ f.b = s.b
        /\ f.d.status = d.status /\ f.d.armed = d.armed /\ f.d.open = d.open /\ f.d.cb = d.cb
        /\ d.armed /\ f.u.tx = << >> => u.tx = << >>
    <2>1. CASE ~d.armed
      <3>1. f = s
        BY <2>1 DEF Filled
      <3>2. Later(u, u)
        BY <1>1 DEF Later
      <3> HIDE DEF f
      <3> QED
        BY <2>1, <3>1, <3>2
    <2>2. CASE d.armed
      <3> DEFINE v == WriteTx(u, p)
                 e == [d EXCEPT !.txBuf = q]
                 r == [s EXCEPT !.u = v]
                 t == [r EXCEPT !.d = e]
      <3>1. p \in Seq(Nat) /\ q \in Seq(Nat)
        <4>1. d.txBuf \in Seq(Nat) /\ n \in 0..Len(d.txBuf)
          BY <1>1, <2>2 DEF IicDriver
        <4> QED
          BY <4>1, OfSplit
      <3>2. f = t
        BY <2>2 DEF Filled, IicStates
      <3> HIDE DEF p, q, f
      <3>3. Later(v, u) /\ v.ie = u.ie /\ (v.tx = << >> => u.tx = << >>)
        BY <1>1, <2>2, <3>1, FedLater
      <3>4. e \in IicDriver /\ e.status = d.status /\ e.armed = d.armed /\ e.open = d.open /\ e.cb = d.cb
        BY <1>1, <3>1 DEF IicDriver
      <3> HIDE DEF v, e
      <3>5. r \in IicStates /\ r.u = v /\ r.b = s.b
        BY <3>3, Replaced DEF Later
      <3> HIDE DEF r
      <3>6. t \in IicStates /\ t.d = e /\ t.u = v /\ t.b = s.b
        BY <3>4, <3>5, Replaced
      <3> HIDE DEF t
      <3> QED
        BY <3>2, <3>3, <3>4, <3>6
    <2> QED
      BY <2>1, <2>2
  <1> HIDE DEF f
  <1>3. CASE d.txCnt # d.txTot
    <2>1. o = f
      BY <1>3 DEF Ordered
    <2> HIDE DEF o
    <2> QED
      BY <1>2, <2>1 DEF o, f
  <1>4. CASE d.txCnt = d.txTot
    <2> DEFINE w == IrqOff(f.u, {"TX_EMPTY"})
               r == [f EXCEPT !.b = b]
               t == [r EXCEPT !.u = w]
    <2>1. o = t
      BY <1>2, <1>4 DEF Ordered, IicStates
    <2>2. f.u \in Ports
      BY <1>2 DEF IicStates
    <2>3. Access(w, f.u, f.u.en, f.u.ie \ {"TX_EMPTY"}, f.u.tx, f.u.rx, f.u.ip) /\ LevelsLatched(w)
      <3>1. {"TX_EMPTY"} \in SUBSET Intr /\ f.u.ie \ {"TX_EMPTY"} \in SUBSET Intr
        BY <2>2 DEF Ports, Port, Intr
      <3>2. w = SetIe(f.u, f.u.ie \ {"TX_EMPTY"})
        BY DEF IrqOff
      <3> HIDE DEF w
      <3> QED
        BY <2>2, <3>1, <3>2, SetIeIs, IeKeeps DEF Keeps
    <2> HIDE DEF w
    <2>4. w \in Ports /\ Later(w, f.u) /\ w.ie = f.u.ie \ {"TX_EMPTY"}
      BY <2>2, <2>3, AccessLater DEF Access
    <2>5. d.armed => w.tx = f.u.tx
      <3>1. {"usi", "tx"} \subseteq EnBit
        BY DEF EnBit
      <3> QED
        BY <1>2, <2>3, <3>1 DEF Access, Later
    <2>6. Later(w, u)
      BY <1>1, <1>2, <2>2, <2>4, LaterIs
    <2>7. b \in IicBus /\ b.st = s.b.st /\ b.stop
      BY <1>1 DEF IicBus
    <2> HIDE DEF b
    <2>8. r \in IicStates /\ r.d = f.d /\ r.b = b
      BY <1>2, <2>7, Replaced
    <2> HIDE DEF r
    <2>9. t \in IicStates /\ t.d = f.d /\ t.u = w /\ t.b = b
      BY <2>4, <2>8, Replaced
    <2> HIDE DEF t, o
    <2>10. /\ o \in IicStates /\ o.d = f.d /\ o.u = w /\ o.b = b
      BY <2>1, <2>9
    <2>11. "I2C_STOP" \in w.ie <=> "I2C_STOP" \in u.ie
      BY <1>2, <2>4
    <2>12. "I2C_NACK" \in w.ie <=> "I2C_NACK" \in u.ie
      BY <1>2, <2>4
    <2> QED
      BY <1>2, <2>5, <2>6, <2>7, <2>10, <2>11, <2>12 DEF o, f
  <1> QED
    BY <1>3, <1>4

\* A pass over a send leaves one that goes on, or tells of its stop.
LEMMA SendPassAhead ==
  ASSUME NEW s \in IicStates, NEW i \in Handler, i.on, "I2C_NACK" \notin i.sta,
         IicGood(s.d, s.u, s.b, s.h, i), Ahead(s.d, s.u, s.b), s.d.status = "send",
         NEW r \in IicTxEmpty(s, i.sta)
  PROVE  LET z == [r EXCEPT !.u = ClearIrq(@, i.sta)] IN Ahead(z.d, z.u, z.b)
PROOF
  <1> DEFINE d == s.d
             u == s.u
             n == Batch(s, i.sta)
             o == Ordered(s, Filled(s, n))
  <1>1. /\ d \in IicDriver /\ u \in Ports /\ u.mode = "i2c" /\ d.open /\ LevelsLatched(u) /\ u.irq
        /\ Len(u.tx) <= Fifo /\ u.ip \subseteq u.ie
    BY DEF IicGood, IicTypes, IicOpen, Ahead, Wired
  <1>2. SendLost(d, u, s.b, i) \/ Sends(d, u, s.b, s.h, i)
    BY DEF IicGood, IicPhase, Over, ReceiveLost, Receives
  <1>3. /\ d.txCnt <= d.txTot /\ "I2C_NACK" \in u.ie
        /\ d.armed => u.en = EnBit /\ Len(d.txBuf) = d.txTot - d.txCnt
    BY <1>2 DEF SendLost, Sends, SendCounts
  <1>4. n \in Nat /\ n <= d.txTot - d.txCnt
    BY <1>1, <1>3, BatchIs
  <1> HIDE DEF n
  <1>5. d.armed => n \in 0..Len(d.txBuf)
    <2>1. d.txTot \in Nat /\ d.txCnt \in Nat
      BY <1>1 DEF IicDriver
    <2> QED
      BY <1>3, <1>4, <2>1
  <1>6. /\ o \in IicStates /\ Later(o.u, u)
        /\ o.d.status = d.status /\ o.d.armed = d.armed /\ o.d.open = d.open /\ o.d.cb = d.cb
        /\ o.b.st = s.b.st /\ (s.b.stop => o.b.stop)
        /\ "I2C_STOP" \in u.ie => "I2C_STOP" \in o.u.ie
        /\ "I2C_NACK" \in u.ie => "I2C_NACK" \in o.u.ie
        /\ "TX_EMPTY" \in u.ie => "TX_EMPTY" \in o.u.ie \/ o.b.stop
        /\ d.armed /\ o.u.tx = << >> => u.tx = << >>
    BY <1>1, <1>3, <1>4, <1>5, OrderedIs
  <1>7. PICK t : /\ r = [t EXCEPT !.d = [t.d EXCEPT !.txCnt = @ + n]]
                 /\ "I2C_STOP" \notin i.sta => t = o
                 /\ "I2C_STOP" \in i.sta =>
                      t \in Signal(Off([o EXCEPT !.d = [o.d EXCEPT !.status = "sent"]]), "done")
    BY TxPass DEF n, o
  <1> HIDE DEF o
  <1>8. o.d \in IicDriver /\ o.u \in Ports
    BY <1>6 DEF IicStates
  <1>9. CASE "I2C_STOP" \in i.sta
    <2> DEFINE f == [o.d EXCEPT !.status = "sent"]
               x == [o EXCEPT !.d = f]
    <2>1. f \in IicDriver /\ f.status = "sent" /\ f.open
      BY <1>1, <1>6, <1>8 DEF IicDriver
    <2> HIDE DEF f
    <2>2. x \in IicStates /\ x.d = f /\ x.u = o.u
      BY <1>6, <2>1, Replaced
    <2>3. t \in Signal(Off(x), "done")
      BY <1>7, <1>9 DEF f
    <2> HIDE DEF x
    <2>4. o.u.mode = "i2c" /\ o.u.irq
      BY <1>1, <1>6 DEF Later
    <2>5. t \in IicStates /\ (Fresh(t) \/ Rests(t))
      BY <2>1, <2>2, <2>3, <2>4, EndAhead
    <2> QED
      BY <1>7, <2>5, ClearedAhead
  <1>10. CASE "I2C_STOP" \notin i.sta
    <2> DEFINE e == [o.d EXCEPT !.txCnt = @ + n]
               w == ClearIrq(o.u, i.sta)
               y == [o EXCEPT !.d = e]
               z == [y EXCEPT !.u = w]
    <2>1. e \in IicDriver /\ e.status = "send" /\ e.armed = d.armed /\ e.open
      <3>1. o.d.txCnt + n \in Nat
        BY <1>4, <1>8 DEF IicDriver
      <3> QED
        BY <1>1, <1>6, <1>8, <3>1 DEF IicDriver
    <2>2. r = y
      BY <1>7, <1>10
    <2> HIDE DEF e
    <2>3. y \in IicStates /\ y.d = e /\ y.u = o.u /\ y.b = o.b
      BY <1>6, <2>1, Replaced
    <2> HIDE DEF y
    <2>4. [r EXCEPT !.u = ClearIrq(@, i.sta)] = z
      BY <2>2, <2>3 DEF IicStates
    <2>5. Access(w, o.u, o.u.en, o.u.ie, o.u.tx, o.u.rx, o.u.ip \ i.sta) /\ LevelsLatched(w)
      BY <1>8, ClearIrqIs, ClearKeeps DEF Keeps
    <2> HIDE DEF w
    <2>6. w \in Ports /\ z.d = e /\ z.u = w /\ z.b = o.b
      BY <2>3, <2>5, Replaced DEF Access
    <2> HIDE DEF z
    <2>7. w.irq /\ w.ie = o.u.ie
      BY <1>1, <1>6, <2>5 DEF Access, Later
    <2>8. ASSUME d.armed PROVE SendAhead(w, o.b)
      <3>1. SendAhead(u, s.b)
        BY <2>8 DEF Ahead
      <3>2. "I2C_STOP" \in w.ie /\ ("TX_EMPTY" \in w.ie \/ o.b.stop)
        BY <1>6, <2>7, <3>1 DEF SendAhead
      <3>3. ASSUME o.b.st = "idle", w.tx = << >>
            PROVE  "I2C_STOP" \in w.ip \/ "I2C_NACK" \in w.ip
        <4>1. o.u.en = EnBit /\ {"usi", "tx"} \subseteq EnBit
          BY <1>3, <1>6, <2>8 DEF Later, EnBit
        <4>2. u.tx = << >> /\ s.b.st = "idle"
          BY <1>6, <2>5, <2>8, <3>3, <4>1 DEF Access
        <4>3. "I2C_STOP" \in u.ip \/ "I2C_NACK" \in u.ip
          BY <3>1, <4>2 DEF SendAhead
        <4>4. "I2C_STOP" \in o.u.ip \/ "I2C_NACK" \in o.u.ip
          BY <1>3, <1>6, <2>7, <3>2, <4>3 DEF Later
        <4>5. "I2C_STOP" \in o.u.ie /\ "I2C_NACK" \in o.u.ie
          BY <1>3, <1>6, <2>7, <3>2
        <4> QED
          BY <1>10, <2>5, <4>4, <4>5 DEF Access
      <3> QED
        BY <3>2, <3>3 DEF SendAhead
    <2>9. Ahead(e, w, o.b)
      BY <2>1, <2>5, <2>7, <2>8 DEF Ahead, Wired
    <2> QED
      BY <2>4, <2>6, <2>9
  <1> QED
    BY <1>9, <1>10

\* Each access keeps what is enabled.
LEMMA KeepsLater ==
  ASSUME NEW u \in Ports, NEW v \in Ports, v.mode = u.mode, v.irq = u.irq, v.mask = u.mask, v.en = u.en,
         NEW ip, Keeps(v, ip), u.ip \cap {"I2C_STOP", "I2C_NACK"} \subseteq ip
  PROVE  Later(v, u)
PROOF BY DEF Later, Keeps

\* So does the reading of everything that has arrived, with n words asked for.
LEMMA ReadPortLater ==
  ASSUME NEW u \in Ports, NEW n \in Nat, Len(u.tx) + n <= Fifo,
         u.en = EnBit \/ (u.en = {} /\ u.tx = << >> /\ u.rx = << >>)
  PROVE  LET v == ReadPort(u, n)
         IN  Later(v, u) /\ v.ie = u.ie /\ v.rx = << >> /\ (v.tx = << >> => u.tx = << >>)
PROOF
  <1> DEFINE ws == [k \in 1..n |-> Request]
             m == Len(u.rx)
             a == ClearIrq(u, {"RX_THOLD"})
             b == TakeRx(a, m)
             c == WriteTx(b, ws)
             v == SetRxThold(c, n)
  <1>1. /\ v \in Ports /\ v.mode = u.mode /\ v.mask = u.mask /\ v.irq = u.irq
        /\ v.en = u.en /\ v.ie = u.ie /\ v.rx = << >>
        /\ u.en = EnBit => Len(v.tx) = Len(u.tx) + n
    <2>1. v = ReadPort(u, n)
      BY DEF ReadPort
    <2> HIDE DEF v
    <2> QED
      BY <2>1, ReadPortIs
  <1>2. u.tx \in Seq(Nat) /\ u.rx \in Seq(Nat) /\ m \in Nat /\ ws \in Seq(Nat)
    BY DEF Ports, Port, Request
  <1> HIDE DEF ws
  <1>3. Access(a, u, u.en, u.ie, u.tx, u.rx, u.ip \ {"RX_THOLD"}) /\ Keeps(a, u.ip \ {"RX_THOLD"})
    BY ClearIrqIs, ClearKeeps
  <1> HIDE DEF a
  <1>4. a \in Ports /\ m \in 0..Len(a.rx)
    <2>1. a \in Ports /\ a.rx = u.rx
      <3>1. u.en = EnBit => {"usi", "rx"} \subseteq u.en
        BY DEF EnBit
      <3> QED
        BY <1>3, <3>1 DEF Access
    <2> QED
      BY <1>2, <2>1
  <1> HIDE DEF m
  <1>5. b \in Ports /\ b.ie = a.ie /\ Keeps(b, a.ip)
    BY <1>4, TakeRxIs, TakeKeeps DEF Access
  <1> HIDE DEF b
  <1>6. c \in Ports /\ c.ie = b.ie /\ Keeps(c, b.ip)
    BY <1>2, <1>5, WriteTxIs, WriteKeeps DEF Access
  <1> HIDE DEF c
  <1>7. v.ie = c.ie /\ Keeps(v, c.ip)
    BY <1>6, SetRxTholdIs, TholdKeeps
  <1> HIDE DEF v
  <1>8. a.ie = u.ie
    BY <1>3 DEF Access
  <1>9. Keeps(v, u.ip \ {"RX_THOLD"})
    BY <1>1, <1>3, <1>5, <1>6, <1>7, <1>8 DEF Keeps
  <1>10. Later(v, u)
    BY <1>1, <1>9, KeepsLater
  <1>11. v.tx = << >> => u.tx = << >>
    <2>1. CASE u.en = EnBit
      <3>1. Len(v.tx) = Len(u.tx) + n /\ Len(u.tx) \in Nat /\ Len(<< >>) = 0
        BY <1>1, <1>2, <2>1
      <3>2. v.tx = << >> => Len(u.tx) = 0
        BY <3>1
      <3> QED
        BY <1>2, <3>2
    <2> QED
      BY <2>1
  <1>12. v = ReadPort(u, n)
    BY DEF ReadPort, v, c, b, a, m, ws
  <1> QED
    BY <1>1, <1>10, <1>11, <1>12

\* The port of a receive after it served RX_THOLD.
AskedPort(u, ask) == IF ask = 0 THEN IrqOn(ReadPort(u, ask), {"I2C_STOP"}) ELSE ReadPort(u, ask)

\* It is later, and the stop is enabled when nothing is left to ask for.
LEMMA AskedPortIs ==
  ASSUME NEW u \in Ports, NEW n \in Nat, Len(u.tx) + n <= Fifo, u.ip \subseteq u.ie,
         u.en = EnBit \/ (u.en = {} /\ u.tx = << >> /\ u.rx = << >>)
  PROVE  LET w == AskedPort(u, n)
         IN  /\ Later(w, u) /\ u.ie \subseteq w.ie /\ w.rx = << >> /\ (w.tx = << >> => u.tx = << >>)
             /\ n = 0 => "I2C_STOP" \in w.ie
PROOF
  <1> DEFINE v == ReadPort(u, n)
             x == IrqOn(v, {"I2C_STOP"})
             w == AskedPort(u, n)
  <1>1. Later(v, u) /\ v.ie = u.ie /\ v.rx = << >> /\ (v.tx = << >> => u.tx = << >>)
    BY ReadPortLater
  <1> HIDE DEF v
  <1>2. v \in Ports
    BY <1>1 DEF Later
  <1>3. CASE n # 0
    <2>1. w = v
      BY <1>3 DEF AskedPort, v
    <2> HIDE DEF w
    <2> QED
      BY <1>1, <1>3, <2>1 DEF w
  <1>4. CASE n = 0
    <2>1. w = x
      BY <1>4 DEF AskedPort, v
    <2>2. {"I2C_STOP"} \in SUBSET Intr /\ v.ie \cup {"I2C_STOP"} \in SUBSET Intr
      BY <1>2 DEF Ports, Port, Intr
    <2>3. x = SetIe(v, v.ie \cup {"I2C_STOP"})
      BY DEF IrqOn
    <2> HIDE DEF x, w
    <2>4. Access(x, v, v.en, v.ie \cup {"I2C_STOP"}, v.tx, v.rx, v.ip) /\ LevelsLatched(x)
      BY <1>2, <2>2, <2>3, SetIeIs, IeKeeps DEF Keeps
    <2>5. /\ x \in Ports /\ x.mode = u.mode /\ x.irq = u.irq /\ x.mask = u.mask /\ x.en = u.en
          /\ u.ie \subseteq x.ie /\ "I2C_STOP" \in x.ie
      BY <1>1, <2>4 DEF Access, Later
    <2>6. x.rx = << >> /\ (x.tx = << >> => u.tx = << >>)
      <3>1. {"usi", "tx"} \subseteq EnBit
        BY DEF EnBit
      <3>2. u.en = EnBit => x.tx = v.tx
        BY <1>1, <2>4, <3>1 DEF Access, Later
      <3> QED
        BY <1>1, <2>4, <3>2 DEF Access
    <2>7. "I2C_STOP" \in u.ip => "I2C_STOP" \in x.ip
      BY <1>1, <2>4 DEF Access, Later
    <2>8. "I2C_NACK" \in u.ip => "I2C_NACK" \in x.ip
      BY <1>1, <2>4 DEF Access, Later
    <2>9. Later(x, u)
      BY <2>4, <2>5, <2>7, <2>8 DEF Later
    <2> QED
      BY <2>1, <2>5, <2>6, <2>9 DEF w
  <1> QED
    BY <1>3, <1>4

\* What a pass over a receive leaves, before it tells of the stop.
LEMMA AskedAhead ==
  ASSUME NEW s \in IicStates, Len(s.u.tx) <= Fifo, s.u.ip \subseteq s.u.ie, LevelsLatched(s.u),
         s.u.en = EnBit \/ (s.u.en = {} /\ s.u.tx = << >> /\ s.u.rx = << >>), NEW sta
  PROVE  LET a == Asked(s, sta)
         IN  /\ Later(a.u, s.u) /\ s.u.ie \subseteq a.u.ie /\ (a.u.tx = << >> => s.u.tx = << >>)
             /\ "RX_THOLD" \notin sta => a = s
             /\ "RX_THOLD" \in sta => a.u.rx = << >>
             /\ (/\ "RX_THOLD" \in sta /\ s.d.armed /\ s.u.en = EnBit /\ Adds(s.d, s.u, s.h)
                 /\ a.d.rxCnt = a.d.rxTot) => "I2C_STOP" \in a.u.ie
PROOF
  <1> DEFINE d == s.d
             u == s.u
             n == Len(u.rx)
             ask == AskFor(d.rxClk, Fifo - Len(u.tx))
             a == Asked(s, sta)
  <1>1. d \in IicDriver /\ u \in Ports /\ s.h \in IicHistory
    BY DEF IicStates
  <1>2. CASE "RX_THOLD" \notin sta
    <2>1. a = s
      BY <1>2 DEF Asked
    <2>2. Later(u, u)
      BY <1>1 DEF Later
    <2> HIDE DEF a
    <2> QED
      BY <1>2, <2>1, <2>2 DEF a
  <1>3. CASE "RX_THOLD" \in sta
    <2>1. a.u = AskedPort(u, ask) /\ a.d = [d EXCEPT !.rxCnt = @ + n, !.rxClk = @ - ask]
      <3> DEFINE g == [s.h EXCEPT !.got = @ + (IF d.armed THEN n ELSE 0)]
                 e == [d EXCEPT !.rxCnt = @ + n, !.rxClk = @ - ask]
                 read == [s EXCEPT !.u = ReadPort(@, ask), !.d = e, !.h = g]
                 b == IF ask = 0 THEN [read EXCEPT !.u = IrqOn(@, {"I2C_STOP"})] ELSE read
      <3>1. a = b
        BY <1>3 DEF Asked
      <3> HIDE DEF a, e, g, ask
      <3>2. read.u = ReadPort(u, ask) /\ read.d = e /\ DOMAIN read = {"d", "u", "b", "h"}
        BY DEF IicStates
      <3> HIDE DEF read
      <3>3. b.u = AskedPort(u, ask) /\ b.d = e
        BY <3>2 DEF AskedPort
      <3> QED
        BY <3>1, <3>3 DEF e
    <2> HIDE DEF a
    <2>2. /\ u.tx \in Seq(Nat) /\ Len(u.tx) \in Nat /\ n \in Nat /\ d.rxClk \in Nat /\ d.rxCnt \in Nat
          /\ d.rxTot \in Nat /\ Fifo \in Nat
      BY <1>1, FifoAssumption, SMTT(60) DEF IicDriver, Ports, Port
    <2>3. ask \in Nat /\ Len(u.tx) + ask <= Fifo
      <3>1. Fifo - Len(u.tx) \in Nat
        BY <2>2
      <3>2. ask \in Nat /\ ask <= Fifo - Len(u.tx)
        BY <2>2, <3>1, AskIs
      <3> HIDE DEF ask
      <3> QED
        BY <2>2, <3>2
    <2>4. d.rxClk = 0 => ask = 0
      BY DEF AskFor
    <2> HIDE DEF ask
    <2>5. /\ Later(a.u, u) /\ u.ie \subseteq a.u.ie /\ a.u.rx = << >> /\ (a.u.tx = << >> => u.tx = << >>)
          /\ ask = 0 => "I2C_STOP" \in a.u.ie
      BY <1>1, <2>1, <2>3, AskedPortIs
    <2>6. ASSUME Adds(d, u, s.h), a.d.rxCnt = a.d.rxTot PROVE "I2C_STOP" \in a.u.ie
      <3>1. a.d.rxCnt = d.rxCnt + n /\ a.d.rxTot = d.rxTot
        <4> HIDE DEF n
        <4> QED
          BY <1>1, <2>1 DEF IicDriver
      <3> DEFINE p == d.rxCnt
                 x == Len(u.tx)
                 c == d.rxClk
                 q == d.rxTot
      <3>2. p \in Nat /\ x \in Nat /\ c \in Nat /\ q \in Nat /\ p + n + x + c = q /\ p + n = q
        BY <2>2, <2>6, <3>1 DEF Adds
      <3> HIDE DEF p, x, c, q, n
      <3>3. n \in Nat
        BY <2>2 DEF n
      <3>4. c = 0
        BY <3>2, <3>3
      <3> QED
        BY <2>4, <2>5, <3>4 DEF c
    <2> QED
      BY <1>3, <2>5, <2>6 DEF a
  <1> QED
    BY <1>2, <1>3

\* The stop is ordered when everything has been read.
LEMMA StopAskedAhead ==
  ASSUME NEW a \in IicStates, LevelsLatched(a.u), a.u.en = EnBit \/ (a.u.en = {} /\ a.u.tx = << >>)
  PROVE  LET o == StopAsked(a)
         IN  /\ Later(o.u, a.u) /\ o.u.tx = a.u.tx
             /\ a.d.rxCnt # a.d.rxTot => o = a
             /\ "I2C_STOP" \in a.u.ie => "I2C_STOP" \in o.u.ie
PROOF
  <1> DEFINE b == [a.b EXCEPT !.stop = TRUE]
             u == IrqOff(a.u, {"RX_THOLD"})
             r == [a EXCEPT !.b = b]
             t == [r EXCEPT !.u = u]
             o == StopAsked(a)
  <1>1. a.u \in Ports /\ a.b \in IicBus
    BY DEF IicStates
  <1>2. CASE a.d.rxCnt # a.d.rxTot
    <2>1. o = a
      BY <1>2 DEF StopAsked, AllRead
    <2>2. Later(a.u, a.u)
      BY <1>1 DEF Later
    <2> HIDE DEF o
    <2> QED
      BY <2>1, <2>2 DEF o
  <1>3. CASE a.d.rxCnt = a.d.rxTot
    <2>1. o = t
      BY <1>3 DEF StopAsked, AllRead, IicStates
    <2>2. Access(u, a.u, a.u.en, a.u.ie \ {"RX_THOLD"}, a.u.tx, a.u.rx, a.u.ip) /\ LevelsLatched(u)
      <3>1. {"RX_THOLD"} \in SUBSET Intr /\ a.u.ie \ {"RX_THOLD"} \in SUBSET Intr
        BY <1>1 DEF Ports, Port, Intr
      <3>2. u = SetIe(a.u, a.u.ie \ {"RX_THOLD"})
        BY DEF IrqOff
      <3> HIDE DEF u
      <3> QED
        BY <1>1, <3>1, <3>2, SetIeIs, IeKeeps DEF Keeps
    <2> HIDE DEF u
    <2>3. u \in Ports /\ Later(u, a.u) /\ u.ie = a.u.ie \ {"RX_THOLD"}
      BY <1>1, <2>2, AccessLater DEF Access
    <2>4. u.tx = a.u.tx
      <3>1. {"usi", "tx"} \subseteq EnBit
        BY DEF EnBit
      <3> QED
        BY <2>2, <3>1 DEF Access
    <2>5. b \in IicBus
      BY <1>1 DEF IicBus
    <2> HIDE DEF b
    <2>6. r \in IicStates
      BY <2>5, Replaced
    <2> HIDE DEF r
    <2>7. t.u = u
      BY <2>3, <2>6, Replaced
    <2> HIDE DEF t, o
    <2>8. "I2C_STOP" \in a.u.ie => "I2C_STOP" \in u.ie
      BY <2>3
    <2> QED
      BY <1>3, <2>1, <2>3, <2>4, <2>7, <2>8 DEF o
  <1> QED
    BY <1>2, <1>3

\* Later, with more enabled on the way.
LEMMA LaterOn ==
  ASSUME NEW u \in Ports, NEW v \in Ports, NEW w \in Ports, Later(v, u), Later(w, v),
         u.ip \subseteq u.ie, u.ie \subseteq v.ie
  PROVE  Later(w, u)
PROOF BY DEF Later

\* A pass over a receive leaves one that goes on, or tells of its stop.
LEMMA ReceivePassAhead ==
  ASSUME NEW s \in IicStates, NEW i \in Handler, i.on, IicGood(s.d, s.u, s.b, s.h, i),
         Ahead(s.d, s.u, s.b), s.d.status = "receive", NEW r \in IicRxFull(s, i.sta)
  PROVE  Ahead(r.d, r.u, r.b)
PROOF
  <1> DEFINE d == s.d
             u == s.u
             a == Asked(s, i.sta)
             o == StopAsked(a)
  <1>1. /\ d \in IicDriver /\ u \in Ports /\ u.mode = "i2c" /\ d.open /\ LevelsLatched(u) /\ u.irq
        /\ Len(u.tx) <= Fifo /\ u.ip \subseteq u.ie /\ (u.en = {} => u.tx = << >> /\ u.rx = << >>)
    BY DEF IicGood, IicTypes, IicOpen, Ahead, Wired
  <1>2. ReceiveLost(d, u, s.b) \/ Receives(d, u, s.b, s.h, i)
    BY DEF IicGood, IicPhase, Over, SendLost, Sends
  <1>3. u.en = EnBit \/ (u.en = {} /\ u.tx = << >> /\ u.rx = << >>)
    BY <1>1, <1>2 DEF ReceiveLost, Receives
  <1>4. /\ a \in IicStates /\ a.b = s.b
        /\ a.d.status = d.status /\ a.d.armed = d.armed /\ a.d.open = d.open /\ a.d.rxTot = d.rxTot
        /\ a.u.ip \subseteq a.u.ie /\ (u.en = {} => a.u.tx = << >> /\ a.u.rx = << >>)
    BY <1>1, <1>3, AskedIs
  <1>5. /\ Later(a.u, u) /\ u.ie \subseteq a.u.ie /\ (a.u.tx = << >> => u.tx = << >>)
        /\ "RX_THOLD" \notin i.sta => a = s
        /\ "RX_THOLD" \in i.sta => a.u.rx = << >>
        /\ (/\ "RX_THOLD" \in i.sta /\ d.armed /\ u.en = EnBit /\ Adds(d, u, s.h)
            /\ a.d.rxCnt = a.d.rxTot) => "I2C_STOP" \in a.u.ie
    BY <1>1, <1>3, AskedAhead
  <1> HIDE DEF a
  <1>6. a.u \in Ports /\ LevelsLatched(a.u) /\ (a.u.en = EnBit \/ (a.u.en = {} /\ a.u.tx = << >> /\ a.u.rx = << >>))
    BY <1>3, <1>4, <1>5 DEF Later
  <1>7. /\ o \in IicStates /\ o.d = a.d /\ o.b.st = a.b.st
        /\ o.b.stop <=> a.b.stop \/ a.d.rxCnt = a.d.rxTot
    BY <1>4, <1>6, StopAskedIs
  <1>8. /\ Later(o.u, a.u) /\ o.u.tx = a.u.tx
        /\ a.d.rxCnt # a.d.rxTot => o = a
        /\ "I2C_STOP" \in a.u.ie => "I2C_STOP" \in o.u.ie
    BY <1>4, <1>6, StopAskedAhead
  <1>9. IF "I2C_STOP" \in i.sta
        THEN r \in Signal(Off([o EXCEPT !.u = ClearIrq(@, {"I2C_STOP"}),
                                        !.d = [o.d EXCEPT !.status = "received"]]), "done")
        ELSE r = o
    BY RxPass DEF o, a
  <1> HIDE DEF o
  <1>10. o.u \in Ports /\ o.d \in IicDriver
    BY <1>7 DEF IicStates
  <1>11. Later(o.u, u)
    BY <1>1, <1>5, <1>6, <1>8, <1>10, LaterOn
  <1>12. CASE "I2C_STOP" \in i.sta
    <2> DEFINE v == ClearIrq(o.u, {"I2C_STOP"})
               f == [o.d EXCEPT !.status = "received"]
               y == [o EXCEPT !.u = v]
               x == [y EXCEPT !.d = f]
    <2>1. v \in Ports /\ v.mode = "i2c" /\ v.irq
      <3>1. Access(v, o.u, o.u.en, o.u.ie, o.u.tx, o.u.rx, o.u.ip \ {"I2C_STOP"})
        BY <1>10, ClearIrqIs
      <3> HIDE DEF v
      <3> QED
        BY <1>1, <1>11, <3>1 DEF Access, Later
    <2>2. f \in IicDriver /\ f.status = "received" /\ f.open
      BY <1>1, <1>4, <1>7, <1>10 DEF IicDriver
    <2>3. r \in Signal(Off(x), "done")
      <3>1. x = [o EXCEPT !.u = ClearIrq(@, {"I2C_STOP"}), !.d = [o.d EXCEPT !.status = "received"]]
        BY <1>7 DEF IicStates
      <3> HIDE DEF x
      <3> QED
        BY <1>9, <1>12, <3>1
    <2> HIDE DEF v, f
    <2>4. y \in IicStates /\ y.u = v
      BY <1>7, <2>1, Replaced
    <2> HIDE DEF y
    <2>5. x \in IicStates /\ x.d = f /\ x.u = v
      BY <2>2, <2>4, Replaced
    <2> HIDE DEF x
    <2>6. r \in IicStates /\ (Fresh(r) \/ Rests(r))
      BY <2>1, <2>2, <2>3, <2>5, EndAhead
    <2> QED
      BY <2>6, FreshAhead
  <1>13. CASE "I2C_STOP" \notin i.sta
    <2>1. r = o
      BY <1>9, <1>13
    <2>2. Wired(o.d, o.u)
      BY <1>1, <1>11 DEF Wired, Later
    <2>3. ASSUME d.armed PROVE ReceiveAhead(o.d, o.u, o.b)
      <3>1. ReceiveAhead(d, u, s.b) /\ Receives(d, u, s.b, s.h, i)
        BY <1>2, <2>3 DEF Ahead, ReceiveLost
      <3>2. u.en = EnBit /\ Adds(d, u, s.h)
        BY <3>1 DEF Receives
      <3>3. o.u.mask = {"I2C_STOP", "RX_THOLD"}
        BY <1>11, <3>1 DEF ReceiveAhead, Later
      <3>4. ASSUME o.b.stop PROVE "I2C_STOP" \in o.u.ie
        <4>1. CASE s.b.stop
          BY <1>5, <1>8, <3>1, <4>1 DEF ReceiveAhead
        <4>2. CASE a.d.rxCnt = a.d.rxTot /\ "RX_THOLD" \in i.sta
          BY <1>5, <1>8, <2>3, <3>2, <4>2
        <4>3. CASE a.d.rxCnt = a.d.rxTot /\ "RX_THOLD" \notin i.sta
          BY <1>5, <1>8, <3>1, <4>3 DEF ReceiveAhead
        <4> QED
          BY <1>4, <1>7, <3>4, <4>1, <4>2, <4>3
      <3>5. ASSUME ~o.b.stop PROVE "RX_THOLD" \in o.u.ie /\ (~o.u.th.edge => "RX_THOLD" \in o.u.ip)
        <4>1. o = a /\ ~s.b.stop
          BY <1>4, <1>7, <1>8, <3>5
        <4>2. "RX_THOLD" \in a.u.ie
          BY <1>5, <3>1, <4>1 DEF ReceiveAhead
        <4>3. ~a.u.th.edge => "RX_THOLD" \in a.u.ip
          <5>1. CASE "RX_THOLD" \notin i.sta
            BY <1>5, <3>1, <4>1, <5>1 DEF ReceiveAhead
          <5>2. CASE "RX_THOLD" \in i.sta
            BY <1>5, <1>6, <4>2, <5>2, LatchedIs
          <5> QED
            BY <5>1, <5>2
        <4> QED
          BY <4>1, <4>2, <4>3
      <3>6. o.d.rxCnt = o.d.rxTot => o.b.stop
        BY <1>7
      <3>7. ASSUME o.b.st = "idle", o.u.tx = << >> PROVE "I2C_STOP" \in o.u.ip
        <4>1. s.b.st = "idle" /\ u.tx = << >>
          BY <1>4, <1>5, <1>7, <1>8, <3>7
        <4>2. "I2C_STOP" \in u.ip
          BY <3>1, <4>1 DEF ReceiveAhead
        <4>3. "I2C_STOP" \in o.u.ie
          BY <1>1, <1>5, <1>8, <4>2
        <4> QED
          BY <1>11, <4>2, <4>3 DEF Later
      <3> QED
        BY <3>3, <3>4, <3>5, <3>6, <3>7 DEF ReceiveAhead
    <2>4. o.d.status = "receive" /\ o.d.armed = d.armed
      BY <1>4, <1>7
    <2> QED
      BY <2>1, <2>2, <2>3, <2>4 DEF Ahead
  <1> QED
    BY <1>12, <1>13

-----------------------------------------------------------------------------
(* The steps.                                                              *)

\* The handler leaves a transfer that goes on.
LEMMA BecomesAhead ==
  ASSUME NEW t, Ahead(t.d, t.u, t.b), IicBecomes(t)
  PROVE  IicAhead'
PROOF BY DEF IicBecomes, IicAhead

\* The pass of the handler.
LEMMA IicServeAhead == IicInv /\ IicAhead /\ IicServe => IicAhead'
PROOF
  <1> SUFFICES ASSUME IicInv, IicAhead, IicServe PROVE IicAhead'
    OBVIOUS
  <1> DEFINE s == IicState
             sta == isr.sta
             clear(t) == [t EXCEPT !.u = ClearIrq(@, sta)]
             e == [id EXCEPT !.status = "done"]
             x == [s EXCEPT !.d = e]
  <1>1. /\ id \in IicDriver /\ usi \in Ports /\ isr \in Handler /\ usi.mode = "i2c"
        /\ s \in IicStates /\ s.d = id /\ s.u = usi /\ s.b = ibus /\ s.h = irec
        /\ IicGood(s.d, s.u, s.b, s.h, isr)
    BY IicFacts
  <1>2. isr.on /\ Ahead(s.d, s.u, s.b)
    BY <1>1 DEF IicServe, IicAhead
  <1>3. (id.cb => id.open) /\ (id.open => usi.irq)
    BY DEF IicInv, IicGood, IicOpen, IicAhead, Ahead, Wired
  <1>4. \E t \in CASE "I2C_NACK" \in sta -> Signal(AllOff(x), "bus_error")
                   [] "I2C_NACK" \notin sta /\ id.status = "send"    -> {clear(t) : t \in IicTxEmpty(s, sta)}
                   [] "I2C_NACK" \notin sta /\ id.status = "receive" -> IicRxFull(s, sta)
                   [] OTHER -> Signal(AllOff(clear(s)), "arbitration_lost") :
          IicBecomes(t)
    BY DEF IicServe
  <1> HIDE DEF s
  <1>5. CASE "I2C_NACK" \in sta
    <2>1. e \in IicDriver /\ e.status = "done" /\ (e.cb => e.open) /\ (e.open => usi.irq)
      BY <1>1, <1>3 DEF IicDriver
    <2> HIDE DEF e
    <2>2. x \in IicStates /\ x.d = e /\ x.u = usi
      BY <1>1, <2>1, Replaced
    <2> HIDE DEF x
    <2>3. PICK t \in Signal(AllOff(x), "bus_error") : IicBecomes(t)
      BY <1>4, <1>5
    <2>4. t \in IicStates /\ (Fresh(t) \/ Rests(t))
      BY <1>1, <2>1, <2>2, AllOffAhead
    <2> QED
      BY <2>3, <2>4, FreshAhead, BecomesAhead
  <1>6. CASE "I2C_NACK" \notin sta /\ id.status = "send"
    <2>1. PICK t \in IicTxEmpty(s, sta) : IicBecomes(clear(t))
      BY <1>4, <1>6
    <2>2. Ahead(clear(t).d, clear(t).u, clear(t).b)
      BY <1>1, <1>2, <1>6, SendPassAhead
    <2> HIDE DEF clear
    <2> QED
      BY <2>1, <2>2, BecomesAhead
  <1>7. CASE "I2C_NACK" \notin sta /\ id.status = "receive"
    <2>1. PICK t \in IicRxFull(s, sta) : IicBecomes(t)
      BY <1>4, <1>7
    <2>2. Ahead(t.d, t.u, t.b)
      BY <1>1, <1>2, <1>7, ReceivePassAhead
    <2> QED
      BY <2>1, <2>2, BecomesAhead
  <1>8. CASE "I2C_NACK" \notin sta /\ id.status \notin {"send", "receive"}
    <2> DEFINE y == clear(s)
    <2>1. y \in IicStates /\ y.d = id /\ y.u.mode = "i2c" /\ y.u.irq = usi.irq
      <3> DEFINE v == ClearIrq(usi, sta)
      <3>1. Access(v, usi, usi.en, usi.ie, usi.tx, usi.rx, usi.ip \ sta)
        BY <1>1, ClearIrqIs
      <3> HIDE DEF v
      <3>2. v \in Ports /\ v.mode = "i2c" /\ v.irq = usi.irq
        BY <1>1, <3>1 DEF Access
      <3>3. y = [s EXCEPT !.u = v]
        BY <1>1 DEF v
      <3> HIDE DEF y
      <3> QED
        BY <1>1, <3>2, <3>3, Replaced
    <2> HIDE DEF y
    <2>2. PICK t \in Signal(AllOff(y), "arbitration_lost") : IicBecomes(t)
      BY <1>4, <1>8 DEF y
    <2>3. t \in IicStates /\ (Fresh(t) \/ Rests(t))
      BY <1>3, <1>8, <2>1, AllOffAhead
    <2> QED
      BY <2>2, <2>3, FreshAhead, BecomesAhead
  <1> QED
    BY <1>5, <1>6, <1>7, <1>8

\* What the bus does to the port and to its own state leaves a transfer that goes on,
\* if it tells of every stop.
LEMMA LineAhead ==
  ASSUME NEW d, NEW u \in Ports, NEW b, Ahead(d, u, b), u.ip \subseteq u.ie,
         NEW v \in Ports, v.irq = u.irq, v.mask = u.mask, v.th = u.th, v.ie = u.ie,
         NEW ip, Keeps(v, ip), u.ip \subseteq ip,
         NEW c, c.stop = b.stop, c.st = "idle" /\ v.tx = << >> => "I2C_STOP" \in v.ip
  PROVE  Ahead(d, v, c)
PROOF
  <1>1. Wired(d, v)
    BY DEF Ahead, Wired, Keeps
  <1>2. ASSUME SendAhead(u, b) PROVE SendAhead(v, c)
    BY <1>2 DEF SendAhead
  <1>3. ASSUME ReceiveAhead(d, u, b) PROVE ReceiveAhead(d, v, c)
    <2>1. "RX_THOLD" \in u.ip => "RX_THOLD" \in v.ip
      BY DEF Keeps
    <2> QED
      BY <1>3, <2>1 DEF ReceiveAhead
  <1> QED
    BY <1>1, <1>2, <1>3 DEF Ahead

\* A stop is told if it is enabled.
LEMMA StopAhead ==
  ASSUME NEW d, NEW u \in Ports, NEW b \in IicBus, Ahead(d, u, b), u.en = EnBit, u.ip \subseteq u.ie,
         NEW bits \in {{}, {"I2C_NACK"}}, u.tx # << >> \/ "I2C_STOP" \in u.ie
  PROVE  Ahead(d, Stops(u, bits), [b EXCEPT !.st = "idle"])
PROOF
  <1> DEFINE v == Stops(u, bits)
             c == [b EXCEPT !.st = "idle"]
             s == bits \cup {"I2C_STOP"}
  <1>1. s \in SUBSET Intr /\ "I2C_STOP" \in s
    BY DEF Intr
  <1> HIDE DEF s
  <1>2. Access(v, u, u.en, u.ie, u.tx, u.rx, u.ip \cup s) /\ Keeps(v, u.ip \cup s)
    BY <1>1, RaiseIs, RaiseKeeps DEF Stops, s
  <1> HIDE DEF v
  <1>3. v.tx = u.tx
    <2>1. {"usi", "tx"} \subseteq EnBit
      BY DEF EnBit
    <2> QED
      BY <1>2, <2>1 DEF Access
  <1>4. v \in Ports /\ v.irq = u.irq /\ v.mask = u.mask /\ v.th = u.th /\ v.ie = u.ie
    BY <1>2 DEF Access
  <1>5. v.tx = << >> => "I2C_STOP" \in v.ip
    BY <1>1, <1>2, <1>3 DEF Access
  <1>6. c.stop = b.stop
    BY DEF IicBus
  <1> HIDE DEF c
  <1>7. Ahead(d, v, c)
    BY <1>2, <1>4, <1>5, <1>6, LineAhead
  <1> QED
    BY <1>7 DEF v, c

\* The address.
LEMMA IicAddressAhead == IicInv /\ IicAhead /\ IicAddress => IicAhead'
PROOF
  <1> SUFFICES ASSUME IicInv, IicAhead, IicAddress PROVE IicAhead'
    OBVIOUS
  <1>1. usi.en # {} /\ usi.tx # << >> /\ UNCHANGED <<isr, id, irec>>
    BY DEF IicAddress, Working
  <1>2. usi \in Ports /\ ibus \in IicBus /\ usi.ip \subseteq usi.ie /\ Ahead(id, usi, ibus)
    BY DEF IicInv, IicGood, IicTypes, IicOpen, IicAhead
  <1>3. usi.en = EnBit
    BY <1>1, WorksForOne DEF Sends, Receives
  <1>4. CASE ibus.present
    <2> DEFINE c == [ibus EXCEPT !.st = IF Head(usi.tx) = Request THEN "read" ELSE "write"]
    <2>1. ibus' = c /\ usi' = usi
      BY <1>4 DEF IicAddress
    <2>2. c.stop = ibus.stop /\ c.st # "idle"
      BY <1>2 DEF IicBus
    <2> HIDE DEF c
    <2>3. Ahead(id, usi, c)
      BY <1>2, <2>2 DEF Ahead, SendAhead, ReceiveAhead
    <2> QED
      BY <1>1, <2>1, <2>3 DEF IicAhead
  <1>5. CASE ~ibus.present
    <2> DEFINE bits == IF Head(usi.tx) = Request THEN {} ELSE {"I2C_NACK"}
    <2>1. ibus' = [ibus EXCEPT !.st = "idle"] /\ usi' = Stops(usi, bits)
      BY <1>5 DEF IicAddress, BusStops, Stops
    <2>2. bits \in {{}, {"I2C_NACK"}}
      OBVIOUS
    <2> HIDE DEF bits
    <2>3. Ahead(id, Stops(usi, bits), [ibus EXCEPT !.st = "idle"])
      BY <1>1, <1>2, <1>3, <2>2, StopAhead
    <2> QED
      BY <1>1, <2>1, <2>3 DEF IicAhead
  <1> QED
    BY <1>4, <1>5

\* A byte of a send.
LEMMA IicWriteByteAhead == IicInv /\ IicAhead /\ IicWriteByte => IicAhead'
PROOF
  <1> SUFFICES ASSUME IicInv, IicAhead, IicWriteByte PROVE IicAhead'
    OBVIOUS
  <1> DEFINE v == Shifted(usi)
  <1>1. ibus.st = "write" /\ usi.tx # << >> /\ UNCHANGED <<isr, id>>
    BY DEF IicWriteByte
  <1>2. usi \in Ports /\ ibus \in IicBus /\ usi.ip \subseteq usi.ie /\ Ahead(id, usi, ibus)
    BY DEF IicInv, IicGood, IicTypes, IicOpen, IicAhead
  <1>3. Sends(id, usi, ibus, irec, isr)
    BY <1>1, WorksForOne DEF Receives
  <1>4. usi.en = EnBit /\ "I2C_STOP" \in usi.ie
    BY <1>2, <1>3 DEF Sends, Ahead, SendAhead
  <1>5. Access(v, usi, usi.en, usi.ie, Tail(usi.tx), usi.rx, usi.ip) /\ Keeps(v, usi.ip)
    BY <1>1, <1>2, ShiftedIs, ShiftKeeps
  <1> HIDE DEF v
  <1>6. /\ v \in Ports /\ v.irq = usi.irq /\ v.mask = usi.mask /\ v.th = usi.th /\ v.ie = usi.ie
        /\ v.en = EnBit /\ v.ip \subseteq v.ie
    BY <1>4, <1>5 DEF Access
  <1>7. Ahead(id, v, ibus)
    BY <1>1, <1>2, <1>5, <1>6, LineAhead
  <1>8. CASE usi' = v /\ ibus' = ibus
    BY <1>1, <1>7, <1>8 DEF IicAhead
  <1>9. CASE usi' = Stops(v, {"I2C_NACK"}) /\ ibus' = [ibus EXCEPT !.st = "idle"]
    <2> DEFINE bits == {"I2C_NACK"}
    <2>1. bits \in {{}, {"I2C_NACK"}}
      OBVIOUS
    <2> HIDE DEF bits
    <2>2. Ahead(id, Stops(v, bits), [ibus EXCEPT !.st = "idle"])
      BY <1>2, <1>4, <1>6, <1>7, <2>1, StopAhead
    <2> QED
      BY <1>1, <1>9, <2>2 DEF IicAhead, bits
  <1> QED
    BY <1>8, <1>9 DEF IicWriteByte, BusStops, Stops, v

\* A byte of a receive.
LEMMA IicReadByteAhead == IicInv /\ IicAhead /\ IicReadByte => IicAhead'
PROOF
  <1> SUFFICES ASSUME IicInv, IicAhead, IicReadByte PROVE IicAhead'
    OBVIOUS
  <1> DEFINE a == Shifted(usi)
             v == Arrived(a, Request)
  <1>1. ibus.st = "read" /\ usi.tx # << >> /\ usi' = v /\ UNCHANGED <<isr, id, ibus>>
    BY DEF IicReadByte
  <1>2. usi \in Ports /\ usi.ip \subseteq usi.ie /\ Ahead(id, usi, ibus)
    BY DEF IicInv, IicGood, IicTypes, IicOpen, IicAhead
  <1>3. Access(a, usi, usi.en, usi.ie, Tail(usi.tx), usi.rx, usi.ip) /\ Keeps(a, usi.ip)
    BY <1>1, <1>2, ShiftedIs, ShiftKeeps
  <1> HIDE DEF a
  <1>4. /\ a \in Ports /\ a.irq = usi.irq /\ a.mask = usi.mask /\ a.th = usi.th /\ a.ie = usi.ie
        /\ a.ip \subseteq a.ie
    BY <1>3 DEF Access
  <1>5. Ahead(id, a, ibus)
    BY <1>1, <1>2, <1>3, <1>4, LineAhead
  <1>6. Access(v, a, a.en, a.ie, a.tx, Newest(Append(a.rx, Request)), a.ip) /\ Keeps(v, a.ip)
    <2>1. Request \in Nat
      BY DEF Request
    <2> QED
      BY <1>4, <2>1, ArrivedIs, ArriveKeeps
  <1> HIDE DEF v
  <1>7. v \in Ports /\ v.irq = a.irq /\ v.mask = a.mask /\ v.th = a.th /\ v.ie = a.ie
    BY <1>6 DEF Access
  <1>8. Ahead(id, v, ibus)
    BY <1>1, <1>4, <1>5, <1>6, <1>7, LineAhead
  <1> QED
    BY <1>1, <1>8 DEF IicAhead

\* The stop.
LEMMA IicStopAhead == IicInv /\ IicAhead /\ IicStop => IicAhead'
PROOF
  <1> SUFFICES ASSUME IicInv, IicAhead, IicStop PROVE IicAhead'
    OBVIOUS
  <1> DEFINE bits == {}
  <1>1. ibus.st # "idle" /\ ibus.stop /\ UNCHANGED <<isr, id, irec>>
    BY DEF IicStop
  <1>2. usi \in Ports /\ ibus \in IicBus /\ usi.ip \subseteq usi.ie /\ Ahead(id, usi, ibus)
    BY DEF IicInv, IicGood, IicTypes, IicOpen, IicAhead
  <1>3. usi.en = EnBit /\ "I2C_STOP" \in usi.ie
    BY <1>1, <1>2, WorksForOne DEF Sends, Receives, Ahead, SendAhead, ReceiveAhead
  <1>4. usi' = Stops(usi, bits) /\ ibus' = [ibus EXCEPT !.st = "idle"]
    BY DEF IicStop, BusStops, Stops
  <1>5. bits \in {{}, {"I2C_NACK"}}
    OBVIOUS
  <1> HIDE DEF bits
  <1>6. Ahead(id, Stops(usi, bits), [ibus EXCEPT !.st = "idle"])
    BY <1>2, <1>3, <1>5, StopAhead
  <1> QED
    BY <1>1, <1>4, <1>6 DEF IicAhead

\* The levels do not depend on the line.
LEMMA LineOnly ==
  ASSUME NEW u \in Ports, NEW on \in BOOLEAN, LevelsLatched(u)
  PROVE  LET v == [u EXCEPT !.irq = on] IN v.irq = on /\ LevelsLatched(v)
PROOF
  <1> DEFINE v == [u EXCEPT !.irq = on]
  <1>1. v.irq = on /\ v.ie = u.ie /\ v.ip = u.ip /\ v.tx = u.tx /\ v.rx = u.rx /\ v.th = u.th
    BY DEF Ports, Port
  <1> HIDE DEF v
  <1>2. Level(v) = Level(u)
    BY <1>1 DEF Level
  <1>3. LevelsLatched(v)
    BY <1>1, <1>2 DEF LevelsLatched
  <1> QED
    BY <1>1, <1>3 DEF v

\* The driver enables its line,
LEMMA IicInitializeAhead == IicInv /\ IicAhead /\ IicInitialize => IicAhead'
PROOF
  <1> SUFFICES ASSUME IicInv, IicAhead, IicInitialize PROVE IicAhead'
    OBVIOUS
  <1> DEFINE e(cb) == [IicClosed EXCEPT !.open = TRUE, !.cb = cb]
             v == [usi EXCEPT !.irq = TRUE]
  <1>1. PICK cb \in BOOLEAN : id' = e(cb)
    BY DEF IicInitialize
  <1>2. usi' = v
    BY DEF IicInitialize
  <1>3. v.irq = TRUE /\ LevelsLatched(v)
    BY LineOnly DEF IicInv, IicGood, IicTypes, IicAhead, Ahead, Wired
  <1>4. e(cb).status = "none"
    BY DEF IicClosed
  <1> HIDE DEF v, e
  <1>5. Ahead(e(cb), v, ibus')
    BY <1>3, <1>4 DEF Ahead, Wired
  <1> QED
    BY <1>1, <1>2, <1>5 DEF IicAhead

\* and gives it up.
LEMMA IicUninitializeAhead == IicInv /\ IicAhead /\ IicUninitialize => IicAhead'
PROOF
  <1> SUFFICES ASSUME IicInv, IicAhead, IicUninitialize PROVE IicAhead'
    OBVIOUS
  <1> DEFINE a == SetIe(usi, {})
             x == [IicState EXCEPT !.u = SetIe(@, {})]
             s == Off(x)
             v == [s.u EXCEPT !.irq = FALSE]
             h == [irec EXCEPT !.calls = @ + 1, !.event = "none"]
  <1>1. usi \in Ports /\ IicState \in IicStates /\ IicState.u = usi
    BY IicFacts
  <1>2. a \in Ports
    <2>1. {} \in SUBSET Intr
      OBVIOUS
    <2> QED
      BY <1>1, <2>1, SetIeIs DEF Access
  <1>3. x \in IicStates /\ x.u = a
    <2>1. x = [IicState EXCEPT !.u = a]
      BY <1>1
    <2> HIDE DEF a, x
    <2> QED
      BY <1>1, <1>2, <2>1, Replaced
  <1>4. IicBecomes([s EXCEPT !.d = IicClosed, !.u = v, !.h = h])
    BY DEF IicUninitialize
  <1> HIDE DEF a, x
  <1>5. s \in IicStates /\ s.u \in Ports
    BY <1>3, OffIs
  <1>6. LevelsLatched(s.u)
    <2>1. s.u = SetEn(a, {}) /\ {} \in SUBSET EnBit
      BY <1>3 DEF Off, IicStates
    <2> HIDE DEF s
    <2> QED
      BY <1>2, <2>1, EnKeeps DEF Keeps
  <1> HIDE DEF s
  <1>7. v.irq = FALSE /\ LevelsLatched(v)
    BY <1>5, <1>6, LineOnly
  <1> HIDE DEF v, h
  <1>8. id' = IicClosed /\ usi' = v
    BY <1>4, <1>5 DEF IicBecomes, IicStates
  <1>9. IicClosed.status = "none" /\ ~IicClosed.open
    BY DEF IicClosed
  <1> QED
    BY <1>7, <1>8, <1>9 DEF IicAhead, Ahead, Wired

\* The address mode, which only a driver at rest sets.
LEMMA IicConfigAhead == IicInv /\ IicAhead /\ IicConfig => IicAhead'
PROOF BY DEF IicAhead, Ahead, IicConfig, IicQuiet

\* A send of the program,
LEMMA IicMasterSendAhead == IicInv /\ IicAhead /\ IicMasterSend => IicAhead'
PROOF
  <1> SUFFICES ASSUME IicInv, IicAhead, IicMasterSend PROVE IicAhead'
    OBVIOUS
  <1>1. PICK n \in IicLens, p \in BOOLEAN : IicBecomes(IicSendStart(IicState, n, p))
    BY DEF IicMasterSend
  <1>2. id.open /\ usi.irq
    BY DEF IicMasterSend, IicFree, IicAhead, Ahead, Wired
  <1>3. IicSendStart(IicState, n, p) \in IicStates /\ Fresh(IicSendStart(IicState, n, p))
    BY <1>2, IicFacts, SendStartFresh
  <1> QED
    BY <1>1, <1>3, FreshAhead, BecomesAhead

\* a receive,
LEMMA IicMasterReceiveAhead == IicInv /\ IicAhead /\ IicMasterReceive => IicAhead'
PROOF
  <1> SUFFICES ASSUME IicInv, IicAhead, IicMasterReceive PROVE IicAhead'
    OBVIOUS
  <1>1. PICK n \in IicLens, p \in BOOLEAN : IicBecomes(IicReceiveStart(IicState, n, p))
    BY DEF IicMasterReceive
  <1>2. id.open /\ usi.irq
    BY DEF IicMasterReceive, IicFree, IicAhead, Ahead, Wired
  <1>3. IicReceiveStart(IicState, n, p) \in IicStates /\ Fresh(IicReceiveStart(IicState, n, p))
    BY <1>2, IicFacts, ReceiveStartFresh
  <1> QED
    BY <1>1, <1>3, FreshAhead, BecomesAhead

\* and an abort, after which nothing runs.
LEMMA IicAbortAhead == IicInv /\ IicAhead /\ IicAbort => IicAhead'
PROOF
  <1> SUFFICES ASSUME IicInv, IicAhead, IicAbort PROVE IicAhead'
    OBVIOUS
  <1> DEFINE e == [id EXCEPT !.rxCnt = 0, !.txCnt = 0, !.armed = FALSE, !.txBuf = << >>]
             h == [irec EXCEPT !.calls = @ + 1]
             x == [IicState EXCEPT !.d = e, !.h = h]
             s == Off(x)
  <1>1. id \in IicDriver /\ usi \in Ports /\ IicState \in IicStates /\ IicState.u = usi /\ irec \in IicHistory
    BY IicFacts
  <1>2. IicBecomes(s)
    BY DEF IicAbort
  <1>3. e \in IicDriver /\ ~e.armed
    <2>1. << >> \in Seq(Nat)
      OBVIOUS
    <2> QED
      BY <1>1, <2>1 DEF IicDriver
  <1>4. h \in IicHistory
    <2>1. irec.calls + 1 \in Nat
      BY <1>1 DEF IicHistory
    <2> QED
      BY <1>1, <2>1 DEF IicHistory
  <1> HIDE DEF e, h
  <1>5. x \in IicStates /\ x.d = e /\ x.u = usi
    BY <1>1, <1>3, <1>4 DEF IicStates
  <1> HIDE DEF x
  <1>6. s.d = e /\ Access(s.u, usi, {}, usi.ie, usi.tx, usi.rx, usi.ip)
    BY <1>5, OffIs
  <1>7. LevelsLatched(s.u)
    <2>1. s.u = SetEn(usi, {}) /\ {} \in SUBSET EnBit
      BY <1>5 DEF Off, IicStates
    <2> HIDE DEF s
    <2> QED
      BY <1>1, <2>1, EnKeeps DEF Keeps
  <1> HIDE DEF s
  <1>8. s.u.irq
    BY <1>6 DEF Access, IicAbort, IicFree, IicAhead, Ahead, Wired
  <1>9. Ahead(s.d, s.u, s.b)
    BY <1>3, <1>6, <1>7, <1>8 DEF Ahead, Wired
  <1> QED
    BY <1>2, <1>9, BecomesAhead

\* Every step leaves a transfer that goes on.
LEMMA IicAheadStep == IicInv /\ IicAhead /\ [IicNext]_ivars => IicAhead'
PROOF
  <1> SUFFICES ASSUME IicInv, IicAhead, [IicNext]_ivars PROVE IicAhead'
    OBVIOUS
  <1>1. CASE UNCHANGED ivars
    BY <1>1 DEF ivars, IicAhead
  <1>2. CASE IicEnter
    BY <1>2 DEF IicEnter, Serve, IicAhead
  <1>3. CASE IicNext
    BY <1>2, <1>3, IicServeAhead, IicAddressAhead, IicWriteByteAhead, IicReadByteAhead, IicStopAhead,
       IicInitializeAhead, IicUninitializeAhead, IicConfigAhead, IicMasterSendAhead,
       IicMasterReceiveAhead, IicAbortAhead DEF IicNext
  <1> QED
    BY <1>1, <1>3

\* A port at reset has nothing enabled.
LEMMA IicAheadBegins ==
  ASSUME usi = [ResetPort EXCEPT !.mode = "i2c"], IicInit
  PROVE  IicAhead
PROOF
  <1>1. usi.ie = {}
    BY DEF ResetPort
  <1>2. LevelsLatched(usi)
    BY <1>1 DEF LevelsLatched
  <1> QED
    BY <1>2 DEF IicAhead, Ahead, Wired, IicInit, IicClosed

\* With both invariants, the handler or the bus has something to do.
LEMMA AheadGoesOn == IicInv /\ IicAhead => IicGoesOn
PROOF
  <1> SUFFICES ASSUME IicInv, IicAhead, id.open, ~IicQuiet, id.armed, ~isr.on, ~BusMoves
               PROVE  usi.irq /\ Pending(usi) # {}
    BY DEF IicGoesOn
  <1>1. usi \in Ports /\ id.status \in {"send", "receive"} /\ usi.irq /\ LevelsLatched(usi)
    BY IicFacts DEF IicQuiet, IicAhead, Ahead, Wired
  <1>2. usi.tx = << >> /\ (ibus.st = "idle" \/ ~ibus.stop)
    <2>1. usi.en = EnBit
      BY <1>1 DEF IicInv, IicGood, IicPhase, Over, SendLost, Sends, ReceiveLost, Receives
    <2>2. Working(usi)
      BY <2>1 DEF Working, EnBit
    <2> QED
      BY <2>2 DEF BusMoves
  <1>3. CASE id.status = "send"
    <2>1. SendAhead(usi, ibus) /\ usi.mask = IicSendBits
      BY <1>3 DEF IicAhead, Ahead, IicInv, IicGood, IicPhase, Over, SendLost, Sends, SendCounts, ReceiveLost,
                  Receives
    <2>2. "I2C_STOP" \in usi.ip \/ "I2C_NACK" \in usi.ip \/ "TX_EMPTY" \in usi.ip
      BY <1>1, <1>2, <2>1, LatchedIs DEF SendAhead
    <2> QED
      BY <1>1, <2>1, <2>2 DEF Pending, IicSendBits
  <1>4. CASE id.status = "receive"
    <2>1. ReceiveAhead(id, usi, ibus) /\ Adds(id, usi, irec)
      BY <1>4 DEF IicAhead, Ahead, IicInv, IicGood, IicPhase, Over, SendLost, Sends, ReceiveLost, Receives
    <2>2. CASE ibus.st = "idle"
      BY <1>1, <1>2, <2>1, <2>2 DEF ReceiveAhead, Pending
    <2>3. CASE ~ibus.stop
      <3>1. "RX_THOLD" \in usi.ie /\ (~usi.th.edge => "RX_THOLD" \in usi.ip)
        BY <2>1, <2>3 DEF ReceiveAhead
      <3>2. ASSUME usi.th.edge PROVE "RX_THOLD" \in usi.ip
        <4> DEFINE q == (Fifo \div 4) * usi.th.quarter
        <4>1. q <= Len(usi.rx) + Len(usi.tx)
          BY <2>1, <3>2 DEF Adds
        <4> HIDE DEF q
        <4>2. usi.rx \in Seq(Nat) /\ Len(usi.rx) \in Nat /\ Len(usi.tx) = 0
          BY <1>1, <1>2 DEF Ports, Port
        <4>3. Len(usi.rx) + Len(usi.tx) = Len(usi.rx)
          BY <4>2
        <4>4. q <= Len(usi.rx)
          BY <4>1, <4>3
        <4> QED
          BY <1>1, <3>1, <3>2, <4>4, LatchedIs DEF q
      <3> QED
        BY <1>1, <2>1, <3>1, <3>2 DEF ReceiveAhead, Pending
    <2> QED
      BY <1>2, <2>2, <2>3
  <1> QED
    BY <1>1, <1>3, <1>4

\* A transfer that runs can always go on: driver, handler and bus never wait for each
\* other (wj_usi_i2c_irqhandler, wj_iic_intr_tx_empty, wj_iic_intr_rx_full).
THEOREM IicCanGoOn == IicSpec => []IicGoesOn
PROOF
  <1>1. usi = [ResetPort EXCEPT !.mode = "i2c"] /\ isr = Idle /\ IicInit => IicInv /\ IicAhead
    BY IicBegins, IicAheadBegins
  <1>2. IicInv /\ IicAhead /\ [IicNext]_ivars => (IicInv /\ IicAhead)'
    BY IicKeeps, IicAheadStep
  <1> QED
    BY <1>1, <1>2, AheadGoesOn, PTL DEF IicSpec
===============================================================================
