------------------------------ MODULE SpiProofs ------------------------------
(***************************************************************************)
(* The SPI master driver: an invariant of the driver, the port, the select *)
(* line, the handler and the calls of main that poll, for every FIFO depth *)
(* and set of lengths, and a lemma for each action that preserves it.      *)
(* UsiProofs draws the theorems from it.                                   *)
(***************************************************************************)
EXTENDS Spi, UsiLemmas

-----------------------------------------------------------------------------
(* The SPI driver: the invariant, over its state d, the port u, the line l, *)
(* the history h, the call main is in, m, and the handler i.               *)

SpiTypes(d, u, l, h, m, i) ==
  /\ d \in SpiDriver /\ u \in Ports /\ u.mode = "spi" /\ l \in BOOLEAN
  /\ h \in SpiHistory /\ m \in SpiPoll /\ i \in Handler

\* A transfer or a handler runs only on an initialized driver, and no handler
\* while main polls; the port latches only what is enabled.
SpiOpen(d, u, m, i) ==
  /\ u.ip \subseteq u.ie
  /\ d.state = "none" => ~i.on /\ ~d.busy /\ u.ie = {}
  /\ m.call # "free" => ~i.on
  /\ i.left # {} => i.on

\* The words that are still to be written.
Rest(d, m) == IF m.call = "free" THEN d.sendBuf ELSE m.left

SpiWords(d, u, h, m) ==
  /\ InParts(h.out, u.tx, Rest(d, m))
  /\ ((Els(h.out) \cup Els(u.tx) \cup Els(Rest(d, m))) \ {0}) \cup h.drop = 1..h.given
  /\ 0 \notin Els(d.sendBuf) /\ (m.call = "free" => 0 \notin Els(u.tx))

SpiLine(d, l) == d.busy /\ d.hwSs => l

\* The driver is in one of these states: no transfer runs;
Quiet(d, u, m, i) ==
  /\ m = SpiNoPoll /\ u.ie = {} /\ u.tx = << >> /\ i.left = {}
  /\ ~d.busy /\ d.sendBuf = << >> /\ d.clkNum = 0

\* one by interrupt, counted by the words still to write;
Counted(d, u, m, i) ==
  /\ m = SpiNoPoll /\ u.ie = {"TX_EMPTY"} /\ i.left \subseteq {"TX_EMPTY"} /\ d.state # "none"
  /\ Len(d.sendBuf) = d.clkNum /\ d.sendNum = d.clkNum

\* the rest of one that was aborted, on a port that is off;
Aborted(d, u, h, m, i) ==
  /\ Counted(d, u, m, i)
  /\ ~d.busy /\ ~d.recvBuf /\ u.en = {} /\ u.tx = << >> /\ Els(d.sendBuf) \subseteq h.drop

\* one that runs, in rounds: TX_EMPTY means that the round has left and, in a
\* transfer, been answered;
Runs(d, u, h, m, i) ==
  /\ Counted(d, u, m, i)
  /\ d.busy /\ u.en = EnBit /\ d.trNum <= Fifo /\ Len(u.tx) <= d.trNum
  /\ "TX_EMPTY" \in u.ip \/ i.left # {} => u.tx = << >>
  /\ d.mode = "txrx" =>
       /\ d.recvBuf /\ Len(u.tx) + Len(u.rx) = d.trNum
       /\ Chain(h.got, u.rx, u.tx, d.sendBuf, h.sent)

\* or a call of main that polls, in rounds of m.once words.
Polls(d, u, m, i) ==
  /\ u.ie = {} /\ i.left = {} /\ d.busy /\ d.state # "none" /\ d.sendBuf = << >> /\ d.clkNum = 0
  /\ m.once <= Fifo /\ Len(u.tx) <= m.once

Sends(d, u, m, i) ==
  /\ Polls(d, u, m, i) /\ m.call = "send"
  /\ d.mode = "tx" /\ u.en = EnBit /\ d.sendNum = m.once + Len(m.left)

Transfers(d, u, h, m, i) ==
  /\ Polls(d, u, m, i) /\ m.call = "transfer"
  /\ d.mode = "txrx" /\ u.en = EnBit /\ d.tot = m.once + Len(m.left)
  /\ Len(u.tx) + Len(u.rx) = m.once /\ Chain(h.got, u.rx, u.tx, m.left, h.sent)

Receives(d, u, h, m, i) ==
  /\ Polls(d, u, m, i) /\ m.call = "receive"
  /\ d.recvNum = m.once + Len(m.left)
  /\ m.once = 0 => Chain(h.got, << >>, << >>, m.left, h.sent)
  /\ m.once # 0 => /\ d.mode = "txrx" /\ u.en = EnBit
                   /\ Len(u.tx) + Len(u.rx) = m.once /\ Chain(h.got, u.rx, u.tx, m.left, h.sent)

SpiPhase(d, u, h, m, i) ==
  \/ Quiet(d, u, m, i) \/ Aborted(d, u, h, m, i) \/ Runs(d, u, h, m, i)
  \/ Sends(d, u, m, i) \/ Transfers(d, u, h, m, i) \/ Receives(d, u, h, m, i)

SpiGood(d, u, l, h, m, i) ==
  /\ SpiTypes(d, u, l, h, m, i) /\ SpiOpen(d, u, m, i) /\ SpiWords(d, u, h, m)
  /\ SpiLine(d, l) /\ Stored(h.got, h.sent) /\ SpiPhase(d, u, h, m, i)

SpiInv == SpiGood(sd, usi, sline, srec, smain, isr)

\* Bits are cleared, at the end of a part of the handler.
LEMMA SpiCleared ==
  ASSUME NEW d, NEW u, NEW l, NEW h, NEW m, NEW i, SpiGood(d, u, l, h, m, i), NEW s \in SUBSET Intr,
         NEW j \in Handler, j.left \subseteq i.left, j.left # {} => j.on, j.on => i.on
  PROVE  SpiGood(d, ClearIrq(u, s), l, h, m, j)
PROOF
  <1> DEFINE v == ClearIrq(u, s)
  <1>1. u \in Ports /\ u.tx \in Seq(Nat) /\ m \in SpiPoll
    BY DEF SpiGood, SpiTypes, Ports, Port
  <1>2. Access(v, u, u.en, u.ie, u.tx, u.rx, u.ip \ s)
    BY <1>1, ClearIrqIs
  <1> HIDE DEF v
  <1>3. /\ v \in Ports /\ v.mode = u.mode /\ v.en = u.en /\ v.ie = u.ie /\ v.ip \subseteq v.ie
        /\ u.en = EnBit => v.tx = u.tx /\ v.rx = u.rx
        /\ u.tx = << >> => v.tx = << >>
        /\ "TX_EMPTY" \in v.ip => "TX_EMPTY" \in u.ip \/ v.tx = << >>
    BY <1>2 DEF Access, EnBit
  <1>4. ASSUME Polls(d, u, m, i), m.once = 0 PROVE u.tx = << >>
    <2>1. Len(u.tx) <= 0
      BY <1>4 DEF Polls
    <2> QED
      BY <1>1, <2>1
  <1>5. v.tx = u.tx
    BY <1>3, <1>4 DEF SpiGood, SpiPhase, Quiet, Aborted, Runs, Sends, Transfers, Receives
  <1>6. SpiTypes(d, v, l, h, m, j)
    BY <1>3 DEF SpiGood, SpiTypes
  <1>7. SpiOpen(d, v, m, j)
    BY <1>3 DEF SpiGood, SpiOpen
  <1>8. SpiWords(d, v, h, m)
    BY <1>5 DEF SpiGood, SpiWords
  <1>15. SpiPhase(d, v, h, m, j)
    <2>1. CASE Quiet(d, u, m, i)
      BY <1>3, <2>1 DEF SpiPhase, Quiet
    <2>2. CASE Aborted(d, u, h, m, i)
      BY <1>3, <2>2 DEF SpiPhase, Aborted, Counted
    <2>3. CASE Runs(d, u, h, m, i)
      BY <1>3, <1>5, <2>3 DEF SpiPhase, Runs, Counted
    <2>4. CASE Sends(d, u, m, i)
      BY <1>3, <1>5, <2>4 DEF SpiPhase, Sends, Polls
    <2>5. CASE Transfers(d, u, h, m, i)
      BY <1>3, <1>5, <2>5 DEF SpiPhase, Transfers, Polls
    <2>6. CASE Receives(d, u, h, m, i)
      BY <1>3, <1>5, <2>6 DEF SpiPhase, Receives, Polls
    <2> QED
      BY <2>1, <2>2, <2>3, <2>4, <2>5, <2>6 DEF SpiGood, SpiPhase
  <1>16. SpiLine(d, l) /\ Stored(h.got, h.sent)
    BY DEF SpiGood
  <1>17. SpiGood(d, v, l, h, m, j)
    BY <1>6, <1>7, <1>8, <1>15, <1>16 DEF SpiGood
  <1> QED
    BY <1>17 DEF v

-----------------------------------------------------------------------------
(* The start of a transfer by interrupt.                                   *)

SpiStates == [d : SpiDriver, u : Ports, l : BOOLEAN, h : SpiHistory]

\* The select line follows the driver in the output mode only.
LEMMA SsIs ==
  ASSUME NEW s \in SpiStates, NEW b \in BOOLEAN
  PROVE  LET t == SsControl(s, b)
         IN  /\ t \in SpiStates /\ t.d = s.d /\ t.u = s.u /\ t.h = s.h
             /\ s.d.hwSs => t.l = b
             /\ ~s.d.hwSs => t.l = s.l
PROOF BY DEF SsControl, SpiStates

\* The words of a new call are greater than all words given before.
LEMMA GivenIs ==
  ASSUME NEW s \in SpiStates, NEW n \in Nat
  PROVE  LET t == Given(s, n)
             ws == NewWords(s, n)
         IN  /\ t \in SpiStates /\ t.d = s.d /\ t.u = s.u /\ t.l = s.l
             /\ t.h.given = s.h.given + n /\ t.h.sent = ws /\ t.h.got = << >>
             /\ t.h.out = s.h.out /\ t.h.drop = s.h.drop
             /\ ws \in Seq(Nat) /\ Len(ws) = n /\ Els(ws) = (s.h.given + 1)..(s.h.given + n)
             /\ Rising(ws) /\ \A S \in SUBSET (0..s.h.given) : Under(S, Els(ws))
PROOF
  <1> DEFINE ws == NewWords(s, n)
             k == s.h.given + n
  <1>1. s.h \in SpiHistory /\ s.h.given \in Nat
    BY DEF SpiStates, SpiHistory
  <1>2. /\ ws \in Seq(Nat) /\ Len(ws) = n /\ Els(ws) = (s.h.given + 1)..(s.h.given + n)
        /\ Rising(ws) /\ \A S \in SUBSET (0..s.h.given) : Under(S, Els(ws))
    BY <1>1, OfNew DEF NewWords
  <1>3. k \in Nat
    BY <1>1
  <1> DEFINE h1 == [s.h EXCEPT !.given = k]
             h2 == [h1 EXCEPT !.sent = ws]
             h == [h2 EXCEPT !.got = << >>]
  <1> HIDE DEF ws, k
  <1>4. /\ h1 \in SpiHistory /\ h1.out = s.h.out /\ h1.drop = s.h.drop /\ h1.given = k
    BY <1>1, <1>2, <1>3, EmptySeq DEF SpiHistory
  <1> HIDE DEF h1
  <1>5. /\ h2 \in SpiHistory /\ h2.out = s.h.out /\ h2.drop = s.h.drop /\ h2.given = k
        /\ h2.sent = ws
    BY <1>1, <1>2, <1>3, EmptySeq, <1>4 DEF SpiHistory
  <1> HIDE DEF h2
  <1>6. /\ h \in SpiHistory /\ h.out = s.h.out /\ h.drop = s.h.drop /\ h.given = k /\ h.sent = ws
        /\ h.got = << >>
    BY <1>1, <1>2, <1>3, EmptySeq, <1>5 DEF SpiHistory
  <1>7. Given(s, n) = [s EXCEPT !.h = h]
    BY <1>1 DEF Given, SpiHistory, h1, h2, ws, k
  <1> HIDE DEF h
  <1>8. /\ Given(s, n) \in SpiStates /\ Given(s, n).d = s.d /\ Given(s, n).u = s.u /\ Given(s, n).l = s.l
        /\ Given(s, n).h = h
    BY <1>6, <1>7 DEF SpiStates
  <1> QED
    BY <1>2, <1>6, <1>8 DEF ws, k

\* The port as both starts leave it.
LEMMA StartPort ==
  ASSUME NEW u \in Ports, u.ie = {}
  PROVE  /\ SpiIrqBits \in SUBSET Intr
         /\ \A v \in {Unmask(SetIe(Restart(u, Fifos, EnBit), SpiIrqBits), SpiIrqBits),
                      IrqOn(Unmask(Restart(u, Fifos, EnBit), u.mask \cup SpiIrqBits), SpiIrqBits)} :
              /\ v \in Ports /\ v.mode = u.mode /\ v.en = EnBit /\ v.ie = {"TX_EMPTY"} /\ v.ip \subseteq v.ie
              /\ v.tx = << >> /\ v.rx = << >>
PROOF
  <1> DEFINE a == Restart(u, Fifos, EnBit)
             b == SetIe(a, SpiIrqBits)
             c == Unmask(b, SpiIrqBits)
             e == Unmask(a, u.mask \cup SpiIrqBits)
             f == IrqOn(e, SpiIrqBits)
  <1>1. /\ SpiIrqBits \in SUBSET Intr /\ EnBit \in SUBSET EnBit /\ "tx" \in Fifos /\ "rx" \in Fifos
        /\ SpiIrqBits = {"TX_EMPTY"}
    BY DEF SpiIrqBits, Intr, Fifos
  <1>2. u.mask \cup SpiIrqBits \in SUBSET Intr
    BY <1>1 DEF Ports, Port
  <1>3. Access(a, u, EnBit, u.ie, << >>, << >>, u.ip)
    BY <1>1, RestartIs
  <1> HIDE DEF a
  <1>4. a \in Ports /\ a.mode = u.mode /\ a.en = EnBit /\ a.ie = {} /\ a.tx = << >> /\ a.rx = << >>
    BY <1>3 DEF Access
  <1>5. Access(b, a, EnBit, SpiIrqBits, << >>, << >>, a.ip)
    BY <1>1, <1>4, SetIeIs
  <1> HIDE DEF b
  <1>6. /\ b \in Ports /\ b.mode = u.mode /\ b.en = EnBit /\ b.ie = {"TX_EMPTY"} /\ b.ip \subseteq b.ie
        /\ b.tx = << >> /\ b.rx = << >>
    BY <1>1, <1>4, <1>5 DEF Access
  <1>7. /\ c \in Ports /\ c.mode = u.mode /\ c.en = EnBit /\ c.ie = {"TX_EMPTY"} /\ c.ip \subseteq c.ie
        /\ c.tx = << >> /\ c.rx = << >>
    BY <1>1, <1>6, UnmaskIs
  <1> HIDE DEF c
  <1>8. e \in Ports /\ e.mode = u.mode /\ e.en = EnBit /\ e.ie = {} /\ e.tx = << >> /\ e.rx = << >>
    BY <1>2, <1>4, UnmaskIs
  <1> HIDE DEF e
  <1>9. Access(f, e, EnBit, e.ie \cup SpiIrqBits, << >>, << >>, e.ip)
    BY <1>1, <1>8, IrqOnIs
  <1> HIDE DEF f
  <1>10. /\ f \in Ports /\ f.mode = u.mode /\ f.en = EnBit /\ f.ie = {"TX_EMPTY"} /\ f.ip \subseteq f.ie
         /\ f.tx = << >> /\ f.rx = << >>
    BY <1>1, <1>8, <1>9 DEF Access
  <1> QED
    BY <1>1, <1>7, <1>10 DEF a, b, c, e, f

\* A start: the words given, the driver, the port, the line and the history.
GivenNext(h, ws) ==
  /\ ws \in Seq(Nat) /\ Els(ws) = (h.given + 1)..(h.given + Len(ws)) /\ Rising(ws)
  /\ \A S \in SUBSET (0..h.given) : Under(S, Els(ws))

DriverOn(d, e, ws) ==
  /\ e \in SpiDriver /\ e.state = d.state /\ e.hwSs = d.hwSs /\ e.busy = TRUE
  /\ e.clkNum = Len(ws) /\ e.sendNum = Len(ws) /\ e.trNum = 0 /\ e.sendBuf = ws
  /\ e.mode = "txrx" => e.recvBuf

PortOn(u, v) ==
  /\ v \in Ports /\ v.mode = u.mode /\ v.en = EnBit /\ v.ie = {"TX_EMPTY"} /\ v.ip \subseteq v.ie
  /\ v.tx = << >> /\ v.rx = << >>

HistoryOn(h, k, ws) ==
  /\ k \in SpiHistory /\ k.given = h.given + Len(ws) /\ k.sent = ws /\ k.got = << >>
  /\ k.out = h.out /\ k.drop = h.drop

\* A start on a quiet driver gives one that runs in rounds.
LEMMA StartsRunning ==
  ASSUME NEW d, NEW u, NEW l, NEW h, NEW m, NEW i, SpiGood(d, u, l, h, m, i), Quiet(d, u, m, i),
         d.state # "none",
         NEW d2, NEW v, NEW l2 \in BOOLEAN, NEW h2, NEW ws, GivenNext(h, ws),
         DriverOn(d, d2, ws), PortOn(u, v), d.hwSs => l2, HistoryOn(h, h2, ws)
  PROVE  SpiGood(d2, v, l2, h2, m, i)
PROOF
  <1>1. SpiTypes(d2, v, l2, h2, m, i)
    BY DEF SpiGood, SpiTypes, DriverOn, PortOn, HistoryOn
  <1>2. SpiOpen(d2, v, m, i)
    BY DEF SpiGood, SpiOpen, DriverOn, PortOn, Quiet, SpiNoPoll
  <1>3. m.call = "free" /\ m = SpiNoPoll /\ i.left = {} /\ Rest(d, m) = << >> /\ u.tx = << >>
    BY DEF Quiet, SpiNoPoll, Rest
  <1>4. h.given \in Nat /\ Len(<< >>) = 0
    BY DEF SpiGood, SpiTypes, SpiHistory
  <1>9. ws \in Seq(Nat) /\ Len(ws) \in Nat
    BY DEF GivenNext
  <1>5. SpiWords(d2, v, h2, m)
    <2>1. /\ InParts(h.out, << >>, << >>)
          /\ (Els(h.out) \ {0}) \cup h.drop = 1..h.given
      BY <1>3, OfNothing DEF SpiGood, SpiWords
    <2>2. Els(h.out) \in SUBSET (0..h.given)
      BY <1>4, <2>1
    <2>3. InParts(h.out, << >>, ws)
      BY <2>1, <2>2, OfNothing DEF InParts, Under, GivenNext
    <2>4. ((Els(h.out) \cup Els(<< >>) \cup Els(ws)) \ {0}) \cup h.drop = 1..(h.given + Len(ws))
      BY <1>4, <1>9, <2>1, OfNothing DEF GivenNext
    <2>5. Rest(d2, m) = ws
      BY <1>3 DEF Rest, DriverOn
    <2>6. 0 \notin Els(d2.sendBuf) /\ 0 \notin Els(v.tx)
      BY <1>4, <1>9, OfNothing DEF DriverOn, PortOn, GivenNext
    <2> QED
      BY <2>3, <2>4, <2>5, <2>6 DEF SpiWords, PortOn, HistoryOn
  <1>6. SpiLine(d2, l2)
    BY DEF SpiLine, DriverOn
  <1>7. Stored(h2.got, h2.sent)
    BY <1>4 DEF Stored, HistoryOn
  <1>8. Runs(d2, v, h2, m, i)
    <2>1. Chain(h2.got, v.rx, v.tx, d2.sendBuf, h2.sent)
      BY <1>9, ChainNew DEF DriverOn, PortOn, HistoryOn
    <2> QED
      BY <1>3, <1>4, <1>9, <2>1, FifoAssumption DEF Runs, Counted, DriverOn, PortOn, HistoryOn
  <1> QED
    BY <1>1, <1>2, <1>5, <1>6, <1>7, <1>8 DEF SpiGood, SpiPhase

\* drv_usi_spi_send starts such a driver ...
LEMMA SendStarts ==
  ASSUME NEW s \in SpiStates, NEW m, NEW i, SpiGood(s.d, s.u, s.l, s.h, m, i), Quiet(s.d, s.u, m, i),
         s.d.state # "none", NEW n \in SpiLens
  PROVE  LET r == SpiSendStart(s, n)
         IN  r \in SpiStates /\ SpiGood(r.d, r.u, r.l, r.h, m, i) /\ r.d.busy = TRUE
PROOF
  <1> DEFINE g == Given(s, n)
             t == SsControl(g, TRUE)
             ws == NewWords(s, n)
             d == t.d
             v == Unmask(SetIe(Restart(t.u, Fifos, EnBit), SpiIrqBits), SpiIrqBits)
             r == SpiSendStart(s, n)
  <1>1. n \in Nat
    BY SpiAssumption
  <1>2. /\ g \in SpiStates /\ g.d = s.d /\ g.u = s.u /\ g.l = s.l
        /\ g.h.given = s.h.given + n /\ g.h.sent = ws /\ g.h.got = << >>
        /\ g.h.out = s.h.out /\ g.h.drop = s.h.drop
        /\ ws \in Seq(Nat) /\ Len(ws) = n /\ Els(ws) = (s.h.given + 1)..(s.h.given + n)
        /\ Rising(ws) /\ \A S \in SUBSET (0..s.h.given) : Under(S, Els(ws))
    BY <1>1, GivenIs
  <1> HIDE DEF g
  <1>3. /\ t \in SpiStates /\ t.d = s.d /\ t.u = s.u /\ t.h = g.h /\ (s.d.hwSs => t.l)
    BY <1>2, SsIs
  <1>4. s.u \in Ports /\ s.u.ie = {}
    BY DEF SpiStates, Quiet
  <1>5. v \in {Unmask(SetIe(Restart(s.u, Fifos, EnBit), SpiIrqBits), SpiIrqBits),
               IrqOn(Unmask(Restart(s.u, Fifos, EnBit), s.u.mask \cup SpiIrqBits), SpiIrqBits)}
    BY <1>3
  <1> HIDE DEF v
  <1>6. /\ v \in Ports /\ v.mode = s.u.mode /\ v.en = EnBit /\ v.ie = {"TX_EMPTY"} /\ v.ip \subseteq v.ie
        /\ v.tx = << >> /\ v.rx = << >>
    BY <1>4, <1>5, StartPort
  <1>7. /\ d \in SpiDriver /\ d = s.d
    BY <1>3 DEF SpiStates
  <1> DEFINE e1 == [d EXCEPT !.busy = TRUE]
             e2 == [e1 EXCEPT !.tot = n]
             e3 == [e2 EXCEPT !.stat = "send"]
             e4 == [e3 EXCEPT !.mode = "tx"]
             e5 == [e4 EXCEPT !.sendNum = n]
             e6 == [e5 EXCEPT !.clkNum = n]
             e7 == [e6 EXCEPT !.sendBuf = ws]
             e == [e7 EXCEPT !.trNum = 0]
  <1> HIDE DEF t, ws, d
  <1>8. /\ e1 \in SpiDriver /\ e1.state = d.state /\ e1.hwSs = d.hwSs /\ e1.recvBuf = d.recvBuf
        /\ e1.busy = TRUE
    BY <1>1, <1>2, <1>7 DEF SpiDriver
  <1> HIDE DEF e1
  <1>9. /\ e2 \in SpiDriver /\ e2.state = d.state /\ e2.hwSs = d.hwSs /\ e2.recvBuf = d.recvBuf
        /\ e2.busy = TRUE /\ e2.tot = n
    BY <1>1, <1>2, <1>7, <1>8 DEF SpiDriver
  <1> HIDE DEF e2
  <1>10. /\ e3 \in SpiDriver /\ e3.state = d.state /\ e3.hwSs = d.hwSs /\ e3.recvBuf = d.recvBuf
         /\ e3.busy = TRUE /\ e3.tot = n /\ e3.stat = "send"
    BY <1>1, <1>2, <1>7, <1>9 DEF SpiDriver
  <1> HIDE DEF e3
  <1>11. /\ e4 \in SpiDriver /\ e4.state = d.state /\ e4.hwSs = d.hwSs /\ e4.recvBuf = d.recvBuf
         /\ e4.busy = TRUE /\ e4.tot = n /\ e4.stat = "send" /\ e4.mode = "tx"
    BY <1>1, <1>2, <1>7, <1>10 DEF SpiDriver
  <1> HIDE DEF e4
  <1>12. /\ e5 \in SpiDriver /\ e5.state = d.state /\ e5.hwSs = d.hwSs /\ e5.recvBuf = d.recvBuf
         /\ e5.busy = TRUE /\ e5.tot = n /\ e5.stat = "send" /\ e5.mode = "tx" /\ e5.sendNum = n
    BY <1>1, <1>2, <1>7, <1>11 DEF SpiDriver
  <1> HIDE DEF e5
  <1>13. /\ e6 \in SpiDriver /\ e6.state = d.state /\ e6.hwSs = d.hwSs /\ e6.recvBuf = d.recvBuf
         /\ e6.busy = TRUE /\ e6.tot = n /\ e6.stat = "send" /\ e6.mode = "tx" /\ e6.sendNum = n
         /\ e6.clkNum = n
    BY <1>1, <1>2, <1>7, <1>12 DEF SpiDriver
  <1> HIDE DEF e6
  <1>14. /\ e7 \in SpiDriver /\ e7.state = d.state /\ e7.hwSs = d.hwSs /\ e7.recvBuf = d.recvBuf
         /\ e7.busy = TRUE /\ e7.tot = n /\ e7.stat = "send" /\ e7.mode = "tx" /\ e7.sendNum = n
         /\ e7.clkNum = n /\ e7.sendBuf = ws
    BY <1>1, <1>2, <1>7, <1>13 DEF SpiDriver
  <1> HIDE DEF e7
  <1>15. /\ e \in SpiDriver /\ e.state = d.state /\ e.hwSs = d.hwSs /\ e.recvBuf = d.recvBuf
         /\ e.busy = TRUE /\ e.tot = n /\ e.stat = "send" /\ e.mode = "tx" /\ e.sendNum = n
         /\ e.clkNum = n /\ e.sendBuf = ws /\ e.trNum = 0
    BY <1>1, <1>2, <1>7, <1>14 DEF SpiDriver
  <1>16. r = [t EXCEPT !.d = e, !.u = v]
    BY DEF SpiSendStart, e1, e2, e3, e4, e5, e6, e7, v, t, g, d, ws
  <1> HIDE DEF e, r
  <1>17. r \in SpiStates /\ r.d = e /\ r.u = v /\ r.l = t.l /\ r.h = g.h
    BY <1>3, <1>6, <1>15, <1>16 DEF SpiStates
  <1>18. t.l \in BOOLEAN /\ g.h \in SpiHistory
    BY <1>2, <1>3 DEF SpiStates
  <1>19. SpiGood(e, v, t.l, g.h, m, i)
    <2>1. DriverOn(s.d, e, ws)
      BY <1>2, <1>7, <1>15 DEF DriverOn
    <2>2. PortOn(s.u, v)
      BY <1>6 DEF PortOn
    <2>3. HistoryOn(s.h, g.h, ws)
      BY <1>2, <1>18 DEF HistoryOn
    <2>4. GivenNext(s.h, ws)
      BY <1>2 DEF GivenNext
    <2>5. t.l \in BOOLEAN /\ (s.d.hwSs => t.l)
      BY <1>3, <1>18
    <2> QED
      BY <2>1, <2>2, <2>3, <2>4, <2>5, StartsRunning
  <1>20. r \in SpiStates /\ SpiGood(r.d, r.u, r.l, r.h, m, i) /\ r.d.busy = TRUE
    BY <1>15, <1>17, <1>19
  <1> QED
    BY <1>20 DEF r

\* ... and so does drv_usi_spi_transfer.
LEMMA TransferStarts ==
  ASSUME NEW s \in SpiStates, NEW m, NEW i, SpiGood(s.d, s.u, s.l, s.h, m, i), Quiet(s.d, s.u, m, i),
         s.d.state # "none", NEW n \in SpiLens
  PROVE  LET r == SpiTransferStart(s, n)
         IN  r \in SpiStates /\ SpiGood(r.d, r.u, r.l, r.h, m, i) /\ r.d.busy = TRUE
PROOF
  <1> DEFINE g == Given(s, n)
             t == SsControl(g, TRUE)
             ws == NewWords(s, n)
             d == t.d
             v == IrqOn(Unmask(Restart(t.u, Fifos, EnBit), t.u.mask \cup SpiIrqBits), SpiIrqBits)
             r == SpiTransferStart(s, n)
  <1>1. n \in Nat
    BY SpiAssumption
  <1>2. /\ g \in SpiStates /\ g.d = s.d /\ g.u = s.u /\ g.l = s.l
        /\ g.h.given = s.h.given + n /\ g.h.sent = ws /\ g.h.got = << >>
        /\ g.h.out = s.h.out /\ g.h.drop = s.h.drop
        /\ ws \in Seq(Nat) /\ Len(ws) = n /\ Els(ws) = (s.h.given + 1)..(s.h.given + n)
        /\ Rising(ws) /\ \A S \in SUBSET (0..s.h.given) : Under(S, Els(ws))
    BY <1>1, GivenIs
  <1> HIDE DEF g
  <1>3. /\ t \in SpiStates /\ t.d = s.d /\ t.u = s.u /\ t.h = g.h /\ (s.d.hwSs => t.l)
    BY <1>2, SsIs
  <1>4. s.u \in Ports /\ s.u.ie = {}
    BY DEF SpiStates, Quiet
  <1>5. v \in {Unmask(SetIe(Restart(s.u, Fifos, EnBit), SpiIrqBits), SpiIrqBits),
               IrqOn(Unmask(Restart(s.u, Fifos, EnBit), s.u.mask \cup SpiIrqBits), SpiIrqBits)}
    BY <1>3
  <1> HIDE DEF v
  <1>6. /\ v \in Ports /\ v.mode = s.u.mode /\ v.en = EnBit /\ v.ie = {"TX_EMPTY"} /\ v.ip \subseteq v.ie
        /\ v.tx = << >> /\ v.rx = << >>
    BY <1>4, <1>5, StartPort
  <1>7. /\ d \in SpiDriver /\ d = s.d
    BY <1>3 DEF SpiStates
  <1> DEFINE e1 == [d EXCEPT !.busy = TRUE]
             e2 == [e1 EXCEPT !.tot = n]
             e3 == [e2 EXCEPT !.stat = "tran"]
             e4 == [e3 EXCEPT !.mode = "txrx"]
             e5 == [e4 EXCEPT !.sendNum = n]
             e6 == [e5 EXCEPT !.recvNum = n]
             e7 == [e6 EXCEPT !.clkNum = n]
             e8 == [e7 EXCEPT !.trNum = 0]
             e9 == [e8 EXCEPT !.sendBuf = ws]
             e == [e9 EXCEPT !.recvBuf = TRUE]
  <1> HIDE DEF t, ws, d
  <1>8. /\ e1 \in SpiDriver /\ e1.state = d.state /\ e1.hwSs = d.hwSs /\ e1.recvBuf = d.recvBuf
        /\ e1.busy = TRUE
    BY <1>1, <1>2, <1>7 DEF SpiDriver
  <1> HIDE DEF e1
  <1>9. /\ e2 \in SpiDriver /\ e2.state = d.state /\ e2.hwSs = d.hwSs /\ e2.recvBuf = d.recvBuf
        /\ e2.busy = TRUE /\ e2.tot = n
    BY <1>1, <1>2, <1>7, <1>8 DEF SpiDriver
  <1> HIDE DEF e2
  <1>10. /\ e3 \in SpiDriver /\ e3.state = d.state /\ e3.hwSs = d.hwSs /\ e3.recvBuf = d.recvBuf
         /\ e3.busy = TRUE /\ e3.tot = n /\ e3.stat = "tran"
    BY <1>1, <1>2, <1>7, <1>9 DEF SpiDriver
  <1> HIDE DEF e3
  <1>11. /\ e4 \in SpiDriver /\ e4.state = d.state /\ e4.hwSs = d.hwSs /\ e4.recvBuf = d.recvBuf
         /\ e4.busy = TRUE /\ e4.tot = n /\ e4.stat = "tran" /\ e4.mode = "txrx"
    BY <1>1, <1>2, <1>7, <1>10 DEF SpiDriver
  <1> HIDE DEF e4
  <1>12. /\ e5 \in SpiDriver /\ e5.state = d.state /\ e5.hwSs = d.hwSs /\ e5.recvBuf = d.recvBuf
         /\ e5.busy = TRUE /\ e5.tot = n /\ e5.stat = "tran" /\ e5.mode = "txrx" /\ e5.sendNum = n
    BY <1>1, <1>2, <1>7, <1>11 DEF SpiDriver
  <1> HIDE DEF e5
  <1>13. /\ e6 \in SpiDriver /\ e6.state = d.state /\ e6.hwSs = d.hwSs /\ e6.recvBuf = d.recvBuf
         /\ e6.busy = TRUE /\ e6.tot = n /\ e6.stat = "tran" /\ e6.mode = "txrx" /\ e6.sendNum = n
         /\ e6.recvNum = n
    BY <1>1, <1>2, <1>7, <1>12 DEF SpiDriver
  <1> HIDE DEF e6
  <1>14. /\ e7 \in SpiDriver /\ e7.state = d.state /\ e7.hwSs = d.hwSs /\ e7.recvBuf = d.recvBuf
         /\ e7.busy = TRUE /\ e7.tot = n /\ e7.stat = "tran" /\ e7.mode = "txrx" /\ e7.sendNum = n
         /\ e7.recvNum = n /\ e7.clkNum = n
    BY <1>1, <1>2, <1>7, <1>13 DEF SpiDriver
  <1> HIDE DEF e7
  <1>15. /\ e8 \in SpiDriver /\ e8.state = d.state /\ e8.hwSs = d.hwSs /\ e8.recvBuf = d.recvBuf
         /\ e8.busy = TRUE /\ e8.tot = n /\ e8.stat = "tran" /\ e8.mode = "txrx" /\ e8.sendNum = n
         /\ e8.recvNum = n /\ e8.clkNum = n /\ e8.trNum = 0
    BY <1>1, <1>2, <1>7, <1>14 DEF SpiDriver
  <1> HIDE DEF e8
  <1>16. /\ e9 \in SpiDriver /\ e9.state = d.state /\ e9.hwSs = d.hwSs /\ e9.recvBuf = d.recvBuf
         /\ e9.busy = TRUE /\ e9.tot = n /\ e9.stat = "tran" /\ e9.mode = "txrx" /\ e9.sendNum = n
         /\ e9.recvNum = n /\ e9.clkNum = n /\ e9.trNum = 0 /\ e9.sendBuf = ws
    BY <1>1, <1>2, <1>7, <1>15 DEF SpiDriver
  <1> HIDE DEF e9
  <1>17. /\ e \in SpiDriver /\ e.state = d.state /\ e.hwSs = d.hwSs /\ e.busy = TRUE /\ e.tot = n
         /\ e.stat = "tran" /\ e.mode = "txrx" /\ e.sendNum = n /\ e.recvNum = n /\ e.clkNum = n
         /\ e.trNum = 0 /\ e.sendBuf = ws /\ e.recvBuf = TRUE
    BY <1>1, <1>2, <1>7, <1>16 DEF SpiDriver
  <1>18. r = [t EXCEPT !.d = e, !.u = v]
    BY DEF SpiTransferStart, e1, e2, e3, e4, e5, e6, e7, e8, e9, v, t, g, d, ws
  <1> HIDE DEF e, r
  <1>19. r \in SpiStates /\ r.d = e /\ r.u = v /\ r.l = t.l /\ r.h = g.h
    BY <1>3, <1>6, <1>17, <1>18 DEF SpiStates
  <1>20. t.l \in BOOLEAN /\ g.h \in SpiHistory
    BY <1>2, <1>3 DEF SpiStates
  <1>21. SpiGood(e, v, t.l, g.h, m, i)
    <2>1. DriverOn(s.d, e, ws)
      BY <1>2, <1>7, <1>17 DEF DriverOn
    <2>2. PortOn(s.u, v)
      BY <1>6 DEF PortOn
    <2>3. HistoryOn(s.h, g.h, ws)
      BY <1>2, <1>20 DEF HistoryOn
    <2>4. GivenNext(s.h, ws)
      BY <1>2 DEF GivenNext
    <2>5. t.l \in BOOLEAN /\ (s.d.hwSs => t.l)
      BY <1>3, <1>20
    <2> QED
      BY <2>1, <2>2, <2>3, <2>4, <2>5, StartsRunning
  <1>22. r \in SpiStates /\ SpiGood(r.d, r.u, r.l, r.h, m, i) /\ r.d.busy = TRUE
    BY <1>17, <1>19, <1>21
  <1> QED
    BY <1>22 DEF r

\* Whatever a callback or main starts keeps the invariant.
LEMMA StartGood ==
  ASSUME NEW s \in SpiStates, NEW m, NEW i, SpiGood(s.d, s.u, s.l, s.h, m, i), Quiet(s.d, s.u, m, i),
         s.d.state # "none", NEW r \in SpiStarts(s)
  PROVE  r \in SpiStates /\ SpiGood(r.d, r.u, r.l, r.h, m, i) /\ r.d.busy = TRUE
PROOF BY SendStarts, TransferStarts DEF SpiStarts

\* The end of a transfer: the answers stored are the words sent.
LEMMA ChainOver ==
  ASSUME NEW got \in Seq(Nat), NEW sent \in Seq(Nat), Chain(got, << >>, << >>, << >>, sent)
  PROVE  Stored(got, sent) /\ got = sent
PROOF
  <1>1. Len(<< >>) = 0 /\ Len(got) \in Nat /\ Len(sent) \in Nat
    OBVIOUS
  <1>2. Len(got) = Len(sent) /\ \A i \in 1..Len(got) : got[i] = sent[i]
    BY <1>1 DEF Chain
  <1>3. got = sent
    BY <1>2, SeqEqual
  <1> QED
    BY <1>1, <1>2, <1>3 DEF Stored

\* Reading a round stores all that has arrived of a transfer.
LEMMA ReadRoundIs ==
  ASSUME NEW s \in SpiStates
  PROVE  LET t == SpiReadRound(s)
         IN  /\ t \in SpiStates /\ t.d = s.d /\ t.l = s.l
             /\ t.u.mode = s.u.mode /\ t.u.en = s.u.en /\ t.u.ie = s.u.ie /\ t.u.ip \subseteq t.u.ie \cup s.u.ip
             /\ s.u.tx = << >> => t.u.tx = << >>
             /\ t.h.given = s.h.given /\ t.h.out = s.h.out /\ t.h.drop = s.h.drop /\ t.h.sent = s.h.sent
             /\ s.d.mode = "tx" \/ ~s.d.recvBuf => t.h = s.h
             /\ s.d.mode = "txrx" /\ s.d.recvBuf /\ Len(s.u.rx) = s.d.trNum =>
                  t.h.got = s.h.got \o s.u.rx /\ t.u.rx = << >>
PROOF
  <1> DEFINE r == s.u.rx
             n == IF s.d.trNum <= Len(r) THEN s.d.trNum ELSE Len(r)
             v == TakeRx(s.u, n)
             a == SubSeq(r, 1, n)
             b == SubSeq(r, n + 1, Len(r))
             c == s.h.got \o a
             k == [s.h EXCEPT !.got = c]
             h == IF s.d.recvBuf THEN k ELSE s.h
             w == [s EXCEPT !.u = v]
             t == SpiReadRound(s)
  <1>1. /\ s.d \in SpiDriver /\ s.d.trNum \in Nat /\ s.d.mode \in {"tx", "txrx"} /\ s.d.recvBuf \in BOOLEAN
        /\ s.u \in Ports /\ r \in Seq(Nat) /\ s.h \in SpiHistory /\ s.h.got \in Seq(Nat) /\ s.l \in BOOLEAN
    BY DEF SpiStates, SpiDriver, Ports, Port, SpiHistory
  <1>2. CASE s.d.mode = "tx"
    BY <1>1, <1>2 DEF SpiReadRound
  <1>3. CASE s.d.mode = "txrx"
    <2>1. n \in 0..Len(r) /\ Len(r) \in Nat
      BY <1>1
    <2>2. Access(v, s.u, s.u.en, s.u.ie, s.u.tx, b, s.u.ip)
      BY <1>1, <2>1, TakeRxIs
    <2>3. a \in Seq(Nat) /\ (Len(r) = s.d.trNum => a = r /\ b = << >>)
      <3>1. a \in Seq(Nat)
        BY <1>1, <2>1
      <3>2. ASSUME Len(r) = s.d.trNum PROVE n = Len(r)
        BY <1>1, <3>2
      <3>3. ASSUME n = Len(r) PROVE a = r
        BY <1>1, <3>3, SubSeqFull
      <3>4. ASSUME n = Len(r) PROVE b = << >>
        <4>1. n + 1 \in Int /\ Len(r) \in Int /\ Len(r) < n + 1
          BY <2>1, <3>4
        <4> QED
          BY <4>1, SubSeqEmpty
      <3> QED
        BY <3>1, <3>2, <3>3, <3>4
    <2> HIDE DEF n, v, a, b
    <2>4. c \in Seq(Nat)
      BY <1>1, <2>3, ConcatProperties
    <2> HIDE DEF c
    <2>5. /\ k \in SpiHistory /\ k.given = s.h.given /\ k.out = s.h.out /\ k.drop = s.h.drop
          /\ k.sent = s.h.sent /\ k.got = c
      BY <1>1, <2>4 DEF SpiHistory
    <2>6. t = [w EXCEPT !.h = h]
      <3>1. w.h = s.h
        BY DEF SpiStates
      <3> QED
        BY <1>3, <3>1 DEF SpiReadRound, n, v, a, c
    <2> HIDE DEF k, r
    <2>7. /\ h \in SpiHistory /\ h.given = s.h.given /\ h.out = s.h.out /\ h.drop = s.h.drop
          /\ h.sent = s.h.sent /\ (s.d.recvBuf => h.got = c) /\ (~s.d.recvBuf => h = s.h)
      BY <1>1, <2>5
    <2> HIDE DEF h
    <2>8. v \in Ports
      BY <2>2 DEF Access
    <2>9. w \in SpiStates /\ w.d = s.d /\ w.u = v /\ w.l = s.l
      BY <2>8 DEF SpiStates
    <2> HIDE DEF w, t
    <2>10. t \in SpiStates /\ t.d = s.d /\ t.u = v /\ t.l = s.l /\ t.h = h
      BY <2>6, <2>7, <2>9 DEF SpiStates
    <2>11. /\ v.mode = s.u.mode /\ v.en = s.u.en /\ v.ie = s.u.ie /\ v.ip \subseteq v.ie
           /\ (s.u.tx = << >> => v.tx = << >>) /\ (b = << >> => v.rx = << >>)
      BY <2>2 DEF Access
    <2>12. s.d.mode = "txrx" /\ s.d.recvBuf /\ Len(r) = s.d.trNum => t.h.got = s.h.got \o r /\ t.u.rx = << >>
      BY <2>3, <2>7, <2>10, <2>11 DEF c
    <2>13. ~(s.d.mode = "tx")
      BY <1>3
    <2> QED
      BY <2>7, <2>10, <2>11, <2>12, <2>13 DEF t, r
  <1> QED
    BY <1>1, <1>2, <1>3

\* Writing a round takes its words from the caller's buffer.
LEMMA WriteRoundIs ==
  ASSUME NEW s \in SpiStates, Len(s.d.sendBuf) = s.d.clkNum, s.d.sendNum = s.d.clkNum, s.u.tx = << >>
  PROVE  LET t == SpiWriteRound(s)
             n == Round(s.d.clkNum)
             p == SubSeq(s.d.sendBuf, 1, n)
             q == SubSeq(s.d.sendBuf, n + 1, Len(s.d.sendBuf))
         IN  /\ t \in SpiStates /\ t.l = s.l /\ t.h = s.h
             /\ n \in 0..Len(s.d.sendBuf) /\ n <= Fifo /\ (s.d.clkNum # 0 => n # 0)
             /\ t.d.state = s.d.state /\ t.d.busy = s.d.busy /\ t.d.hwSs = s.d.hwSs /\ t.d.cb = s.d.cb
             /\ t.d.mode = s.d.mode /\ t.d.recvBuf = s.d.recvBuf /\ t.d.clkNum = s.d.clkNum
             /\ t.d.trNum = n /\ t.d.sendNum = s.d.clkNum - n /\ t.d.sendBuf = q
             /\ t.u.mode = s.u.mode /\ t.u.en = s.u.en /\ t.u.ie = s.u.ie
             /\ t.u.tx = IF {"usi", "tx"} \subseteq s.u.en THEN p ELSE << >>
             /\ t.u.rx = IF {"usi", "rx"} \subseteq s.u.en THEN s.u.rx ELSE << >>
PROOF
  <1> DEFINE f == s.d.sendBuf
             n == Round(s.d.clkNum)
             p == SubSeq(f, 1, n)
             q == SubSeq(f, n + 1, Len(f))
             x == s.d.clkNum - n
             v == WriteTx(s.u, p)
             d == s.d
             t == SpiWriteRound(s)
  <1>1. /\ d \in SpiDriver /\ f \in Seq(Nat) /\ s.d.clkNum \in Nat /\ s.u \in Ports /\ s.u.tx \in Seq(Nat)
        /\ Len(f) = s.d.clkNum
    BY DEF SpiStates, SpiDriver, Ports, Port
  <1>2. n \in 0..Len(f) /\ n \in Nat /\ n <= Fifo /\ (s.d.clkNum # 0 => n # 0)
    BY <1>1, FifoAssumption DEF Round
  <1>3. p \in Seq(Nat) /\ Len(p) = n /\ q \in Seq(Nat)
    BY <1>1, <1>2, OfSplit
  <1>4. x \in Nat
    BY <1>1, <1>2
  <1>5. Access(v, s.u, s.u.en, s.u.ie, Newest(s.u.tx \o p), s.u.rx, s.u.ip)
    BY <1>1, <1>3, WriteTxIs
  <1> HIDE DEF v, p, q
  <1>6. Newest(s.u.tx \o p) = p
    <2>1. s.u.tx \o p = p
      BY <1>3, ConcatEmptySeq
    <2> QED
      BY <1>2, <1>3, <2>1, NewestIs
  <1>7. /\ v \in Ports /\ v.mode = s.u.mode /\ v.en = s.u.en /\ v.ie = s.u.ie
        /\ v.tx = IF {"usi", "tx"} \subseteq s.u.en THEN p ELSE << >>
        /\ v.rx = IF {"usi", "rx"} \subseteq s.u.en THEN s.u.rx ELSE << >>
    BY <1>5, <1>6 DEF Access
  <1> DEFINE e1 == [d EXCEPT !.trNum = n]
             e2 == [e1 EXCEPT !.sendNum = x]
             e == [e2 EXCEPT !.sendBuf = q]
  <1> HIDE DEF x, n, d
  <1>8. /\ e1 \in SpiDriver /\ e1.state = d.state /\ e1.busy = d.busy /\ e1.hwSs = d.hwSs
        /\ e1.cb = d.cb /\ e1.mode = d.mode /\ e1.recvBuf = d.recvBuf /\ e1.clkNum = d.clkNum
        /\ e1.trNum = n
    BY <1>1, <1>2, <1>3, <1>4 DEF SpiDriver
  <1> HIDE DEF e1
  <1>9. /\ e2 \in SpiDriver /\ e2.state = d.state /\ e2.busy = d.busy /\ e2.hwSs = d.hwSs
        /\ e2.cb = d.cb /\ e2.mode = d.mode /\ e2.recvBuf = d.recvBuf /\ e2.clkNum = d.clkNum
        /\ e2.trNum = n /\ e2.sendNum = x
    BY <1>1, <1>2, <1>3, <1>4, <1>8 DEF SpiDriver
  <1> HIDE DEF e2
  <1>10. /\ e \in SpiDriver /\ e.state = d.state /\ e.busy = d.busy /\ e.hwSs = d.hwSs
         /\ e.cb = d.cb /\ e.mode = d.mode /\ e.recvBuf = d.recvBuf /\ e.clkNum = d.clkNum
         /\ e.trNum = n /\ e.sendNum = x /\ e.sendBuf = q
    BY <1>1, <1>2, <1>3, <1>4, <1>9 DEF SpiDriver
  <1>11. t = [[s EXCEPT !.u = v] EXCEPT !.d = e]
    <2>1. [s EXCEPT !.u = v].d = d
      BY DEF SpiStates, d
    <2>2. d.sendNum - n = x /\ f = d.sendBuf
      BY DEF d, x
    <2>3. e = [d EXCEPT !.trNum = n, !.sendNum = @ - n, !.sendBuf = SubSeq(@, n + 1, Len(@))]
      BY <1>1, <2>2 DEF e1, e2, e, q, SpiDriver
    <2>4. t = [[s EXCEPT !.u = v] EXCEPT !.d = [d EXCEPT !.trNum = n, !.sendNum = @ - n, !.sendBuf = SubSeq(@, n + 1, Len(@))]]
      BY DEF SpiWriteRound, v, p, d, n
    <2> QED
      BY <2>3, <2>4
  <1> HIDE DEF e, t
  <1>12. t \in SpiStates /\ t.d = e /\ t.u = v /\ t.l = s.l /\ t.h = s.h
    BY <1>7, <1>10, <1>11 DEF SpiStates
  <1> QED
    BY <1>2, <1>7, <1>10, <1>12 DEF t, p, q, d, n, x

\* What a handler that has TX_EMPTY to serve finds, and the round it reads and writes.
LEMMA RoundIs ==
  ASSUME NEW s \in SpiStates, NEW m, NEW i, SpiGood(s.d, s.u, s.l, s.h, m, i), i.left # {}
  PROVE  LET a == SpiReadRound(s)
             t == SpiWriteRound(a)
             n == Round(s.d.clkNum)
             p == SubSeq(s.d.sendBuf, 1, n)
             q == SubSeq(s.d.sendBuf, n + 1, Len(s.d.sendBuf))
         IN  /\ Aborted(s.d, s.u, s.h, m, i) \/ Runs(s.d, s.u, s.h, m, i)
             /\ Counted(s.d, s.u, m, i) /\ s.u.tx = << >>
             /\ t \in SpiStates /\ t.l = s.l
             /\ n \in 0..Len(s.d.sendBuf) /\ n <= Fifo /\ (s.d.clkNum # 0 => n # 0)
             /\ t.d.state = s.d.state /\ t.d.busy = s.d.busy /\ t.d.hwSs = s.d.hwSs /\ t.d.cb = s.d.cb
             /\ t.d.mode = s.d.mode /\ t.d.recvBuf = s.d.recvBuf /\ t.d.clkNum = s.d.clkNum
             /\ t.d.trNum = n /\ t.d.sendNum = s.d.clkNum - n /\ t.d.sendBuf = q
             /\ t.u.mode = s.u.mode /\ t.u.en = s.u.en /\ t.u.ie = s.u.ie
             /\ t.u.tx = IF {"usi", "tx"} \subseteq s.u.en THEN p ELSE << >>
             /\ t.h.given = s.h.given /\ t.h.out = s.h.out /\ t.h.drop = s.h.drop /\ t.h.sent = s.h.sent
             /\ Aborted(s.d, s.u, s.h, m, i) => t.h = s.h
             /\ Runs(s.d, s.u, s.h, m, i) /\ s.d.mode = "tx" => t.h = s.h
             /\ Runs(s.d, s.u, s.h, m, i) /\ s.d.mode = "txrx" =>
                  t.u.rx = << >> /\ Chain(t.h.got, << >>, << >>, s.d.sendBuf, s.h.sent)
PROOF
  <1> DEFINE a == SpiReadRound(s)
             t == SpiWriteRound(a)
             n == Round(s.d.clkNum)
             p == SubSeq(s.d.sendBuf, 1, n)
             q == SubSeq(s.d.sendBuf, n + 1, Len(s.d.sendBuf))
  <1>1. Aborted(s.d, s.u, s.h, m, i) \/ Runs(s.d, s.u, s.h, m, i)
    BY DEF SpiGood, SpiPhase, Quiet, Sends, Transfers, Receives, Polls
  <1>2. Counted(s.d, s.u, m, i) /\ s.u.tx = << >>
    BY <1>1 DEF Aborted, Runs
  <1>3. Len(s.d.sendBuf) = s.d.clkNum /\ s.d.sendNum = s.d.clkNum
    BY <1>2 DEF Counted
  <1>4. /\ a \in SpiStates /\ a.d = s.d /\ a.l = s.l
        /\ a.u.mode = s.u.mode /\ a.u.en = s.u.en /\ a.u.ie = s.u.ie
        /\ a.u.tx = << >>
        /\ a.h.given = s.h.given /\ a.h.out = s.h.out /\ a.h.drop = s.h.drop /\ a.h.sent = s.h.sent
        /\ s.d.mode = "tx" \/ ~s.d.recvBuf => a.h = s.h
        /\ s.d.mode = "txrx" /\ s.d.recvBuf /\ Len(s.u.rx) = s.d.trNum =>
             a.h.got = s.h.got \o s.u.rx /\ a.u.rx = << >>
    BY <1>2, ReadRoundIs
  <1> HIDE DEF a
  <1>5. /\ t \in SpiStates /\ t.l = a.l /\ t.h = a.h
        /\ n \in 0..Len(s.d.sendBuf) /\ n <= Fifo /\ (s.d.clkNum # 0 => n # 0)
        /\ t.d.state = s.d.state /\ t.d.busy = s.d.busy /\ t.d.hwSs = s.d.hwSs /\ t.d.cb = s.d.cb
        /\ t.d.mode = s.d.mode /\ t.d.recvBuf = s.d.recvBuf /\ t.d.clkNum = s.d.clkNum
        /\ t.d.trNum = n /\ t.d.sendNum = s.d.clkNum - n /\ t.d.sendBuf = q
        /\ t.u.mode = a.u.mode /\ t.u.en = a.u.en /\ t.u.ie = a.u.ie
        /\ t.u.tx = IF {"usi", "tx"} \subseteq a.u.en THEN p ELSE << >>
        /\ t.u.rx = IF {"usi", "rx"} \subseteq a.u.en THEN a.u.rx ELSE << >>
    <2>1. Len(a.d.sendBuf) = a.d.clkNum /\ a.d.sendNum = a.d.clkNum /\ a.u.tx = << >>
      BY <1>3, <1>4
    <2> DEFINE f == a.d.sendBuf
               k == Round(a.d.clkNum)
               x == SubSeq(f, 1, k)
               y == SubSeq(f, k + 1, Len(f))
    <2>2. /\ t \in SpiStates /\ t.l = a.l /\ t.h = a.h
          /\ k \in 0..Len(f) /\ k <= Fifo /\ (a.d.clkNum # 0 => k # 0)
          /\ t.d.state = a.d.state /\ t.d.busy = a.d.busy /\ t.d.hwSs = a.d.hwSs /\ t.d.cb = a.d.cb
          /\ t.d.mode = a.d.mode /\ t.d.recvBuf = a.d.recvBuf /\ t.d.clkNum = a.d.clkNum
          /\ t.d.trNum = k /\ t.d.sendNum = a.d.clkNum - k /\ t.d.sendBuf = y
          /\ t.u.mode = a.u.mode /\ t.u.en = a.u.en /\ t.u.ie = a.u.ie
          /\ t.u.tx = IF {"usi", "tx"} \subseteq a.u.en THEN x ELSE << >>
          /\ t.u.rx = IF {"usi", "rx"} \subseteq a.u.en THEN a.u.rx ELSE << >>
      BY <1>4, <2>1, WriteRoundIs
    <2>3. f = s.d.sendBuf /\ k = n /\ x = p /\ y = q
      BY <1>4
    <2> HIDE DEF t, n, p, q, f, k, x, y
    <2> QED
      BY <1>4, <2>2, <2>3
  <1> HIDE DEF t, p, q, n
  <1>6. ASSUME Runs(s.d, s.u, s.h, m, i), s.d.mode = "txrx"
        PROVE  t.u.rx = << >> /\ Chain(t.h.got, << >>, << >>, s.d.sendBuf, s.h.sent)
    <2>1. /\ s.d.sendBuf \in Seq(Nat) /\ s.u.rx \in Seq(Nat) /\ s.h.got \in Seq(Nat) /\ s.h.sent \in Seq(Nat)
          /\ << >> \in Seq(Nat) /\ Len(<< >>) = 0 /\ Len(s.u.rx) \in Nat
      BY EmptySeq, SMTT(20) DEF SpiStates, SpiDriver, Ports, Port, SpiHistory
    <2>2. s.d.recvBuf /\ Chain(s.h.got, s.u.rx, << >>, s.d.sendBuf, s.h.sent)
      BY <1>2, <1>6 DEF Runs
    <2>3. Len(s.u.rx) = s.d.trNum
      BY <1>2, <1>6, <2>1 DEF Runs
    <2>4. Chain(s.h.got \o s.u.rx, << >>, << >>, s.d.sendBuf, s.h.sent)
      BY <2>1, <2>2, ChainRead
    <2> QED
      BY <1>4, <1>5, <1>6, <2>2, <2>3, <2>4
  <1>7. Aborted(s.d, s.u, s.h, m, i) => t.h = s.h
    BY <1>4, <1>5 DEF Aborted
  <1>8. s.d.mode = "tx" => t.h = s.h
    BY <1>4, <1>5
  <1> QED
    BY <1>1, <1>2, <1>4, <1>5, <1>6, <1>7, <1>8 DEF a, t, p, q, n

\* A round that is not the last: TX_EMPTY is cleared at the end of the part.
LEMMA NextRound ==
  ASSUME NEW s \in SpiStates, NEW m, NEW i, SpiGood(s.d, s.u, s.l, s.h, m, i), i.left # {},
         ~RoundsOver(s.d), NEW j \in Handler, j.left = {}, j.on = i.on
  PROVE  LET t == SpiWriteRound(SpiReadRound(s))
             r == [t EXCEPT !.d = [t.d EXCEPT !.clkNum = @ - t.d.trNum]]
         IN  /\ r \in SpiStates /\ r.d.busy = s.d.busy
             /\ SpiGood(r.d, ClearIrq(r.u, {"TX_EMPTY"}), r.l, r.h, m, j)
PROOF
  <1> DEFINE b == s.d.sendBuf
             t == SpiWriteRound(SpiReadRound(s))
             n == Round(s.d.clkNum)
             p == SubSeq(b, 1, n)
             q == SubSeq(b, n + 1, Len(b))
             c == s.d.clkNum - n
             e == [t.d EXCEPT !.clkNum = @ - t.d.trNum]
             r == [t EXCEPT !.d = e]
             v == ClearIrq(t.u, {"TX_EMPTY"})
             A == Aborted(s.d, s.u, s.h, m, i)
             R == Runs(s.d, s.u, s.h, m, i)
  <1>1. /\ A \/ R
        /\ Counted(s.d, s.u, m, i) /\ s.u.tx = << >>
        /\ t \in SpiStates /\ t.l = s.l
        /\ n \in 0..Len(b) /\ n <= Fifo /\ (s.d.clkNum # 0 => n # 0)
        /\ t.d.state = s.d.state /\ t.d.busy = s.d.busy /\ t.d.hwSs = s.d.hwSs /\ t.d.cb = s.d.cb
        /\ t.d.mode = s.d.mode /\ t.d.recvBuf = s.d.recvBuf /\ t.d.clkNum = s.d.clkNum
        /\ t.d.trNum = n /\ t.d.sendNum = c /\ t.d.sendBuf = q
        /\ t.u.mode = s.u.mode /\ t.u.en = s.u.en /\ t.u.ie = s.u.ie
        /\ t.u.tx = IF {"usi", "tx"} \subseteq s.u.en THEN p ELSE << >>
        /\ t.h.given = s.h.given /\ t.h.out = s.h.out /\ t.h.drop = s.h.drop /\ t.h.sent = s.h.sent
        /\ A => t.h = s.h
        /\ R /\ s.d.mode = "tx" => t.h = s.h
        /\ R /\ s.d.mode = "txrx" => t.u.rx = << >> /\ Chain(t.h.got, << >>, << >>, b, s.h.sent)
    BY RoundIs
  <1> HIDE DEF t
  <1>2. /\ b \in Seq(Nat) /\ s.d.clkNum \in Nat /\ Len(b) = s.d.clkNum /\ s.h.out \in Seq(Nat)
        /\ s.h.drop \subseteq Nat /\ m = SpiNoPoll /\ m.call = "free" /\ s.d.mode \in {"tx", "txrx"}
    BY <1>1 DEF SpiStates, SpiDriver, SpiHistory, Counted, SpiNoPoll
  <1>3. /\ p \in Seq(Nat) /\ Len(p) = n /\ q \in Seq(Nat) /\ Len(q) = Len(b) - n
        /\ Els(b) = Els(p) \cup Els(q)
    BY <1>1, <1>2, OfSplit
  <1>4. n \in Nat /\ c \in Nat /\ Len(q) = c /\ n # 0
    BY <1>1, <1>2, <1>3, SMTT(20) DEF RoundsOver
  <1>5. /\ 0 \notin Els(b)
        /\ InParts(s.h.out, << >>, b) /\ ((Els(s.h.out) \cup Els(b)) \ {0}) \cup s.h.drop = 1..s.h.given
    BY <1>1, <1>2, OfNothing DEF SpiGood, SpiWords, Rest
  <1>6. InParts(s.h.out, p, q) /\ InParts(s.h.out, << >>, q)
    <2>1. InParts(s.h.out, p, q)
      BY <1>1, <1>2, <1>5, PartsWrite
    <2> QED
      BY <2>1, PartsLess
  <1> HIDE DEF p, q, n, c, b
  <1>7. /\ e \in SpiDriver /\ e.state = s.d.state /\ e.busy = s.d.busy /\ e.hwSs = s.d.hwSs
        /\ e.mode = s.d.mode /\ e.recvBuf = s.d.recvBuf /\ e.trNum = n /\ e.sendNum = c
        /\ e.sendBuf = q /\ e.clkNum = c
    <2> DEFINE g == t.d
    <2>1. /\ g \in SpiDriver /\ g.state = s.d.state /\ g.busy = s.d.busy /\ g.hwSs = s.d.hwSs
          /\ g.mode = s.d.mode /\ g.recvBuf = s.d.recvBuf /\ g.trNum = n /\ g.sendNum = c
          /\ g.sendBuf = q
      BY <1>1 DEF SpiStates
    <2>2. t.d.clkNum - t.d.trNum = c
      BY <1>1 DEF c
    <2>3. e = [g EXCEPT !.clkNum = c]
      BY <2>1, <2>2 DEF SpiDriver
    <2> HIDE DEF g, e
    <2> QED
      BY <1>4, <2>1, <2>3 DEF SpiDriver
  <1> HIDE DEF e
  <1>8. r \in SpiStates /\ r.d = e /\ r.u = t.u /\ r.l = s.l /\ r.h = t.h
    BY <1>1, <1>7 DEF SpiStates
  <1> HIDE DEF r
  <1>9. Access(v, t.u, t.u.en, t.u.ie, t.u.tx, t.u.rx, t.u.ip \ {"TX_EMPTY"})
    <2>1. t.u \in Ports
      BY <1>1 DEF SpiStates
    <2> QED
      BY <2>1, ClearIrqIs
  <1> HIDE DEF v
  <1>10. /\ v \in Ports /\ v.mode = s.u.mode /\ v.en = s.u.en /\ v.ie = s.u.ie /\ v.ip \subseteq v.ie
         /\ v.tx = (IF {"usi", "tx"} \subseteq s.u.en THEN p ELSE << >>)
         /\ ("TX_EMPTY" \in v.ip => v.tx = << >>)
         /\ (t.u.rx = << >> => v.rx = << >>)
    BY <1>1, <1>9 DEF Access
  <1>11. SpiTypes(e, v, r.l, r.h, m, j)
    BY <1>7, <1>8, <1>10 DEF SpiGood, SpiTypes, SpiStates
  <1>12. SpiOpen(e, v, m, j)
    BY <1>7, <1>10 DEF SpiGood, SpiOpen
  <1>13. SpiLine(e, r.l)
    BY <1>7, <1>8 DEF SpiGood, SpiLine
  <1>14. Rest(e, m) = q
    BY <1>2, <1>7 DEF Rest
  <1>15. Counted(e, v, m, j)
    BY <1>1, <1>4, <1>7, <1>10 DEF Counted
  <1>16. CASE A
    <2>1. v.tx = << >> /\ v.en = {} /\ r.h = s.h /\ Els(b) \subseteq s.h.drop
      BY <1>1, <1>8, <1>10, <1>16 DEF Aborted, b
    <2>2. SpiWords(e, v, r.h, m)
      <3>1. ((Els(s.h.out) \cup Els(<< >>) \cup Els(q)) \ {0}) \cup s.h.drop = 1..s.h.given
        BY <1>3, <1>5, <2>1, OfNothing
      <3> QED
        BY <1>3, <1>5, <1>6, <1>7, <1>14, <2>1, <3>1, OfNothing DEF SpiWords
    <2>3. Stored(r.h.got, r.h.sent)
      BY <2>1 DEF SpiGood
    <2>4. Aborted(e, v, r.h, m, j)
      BY <1>3, <1>7, <1>15, <1>16, <2>1 DEF Aborted
    <2>5. SpiGood(e, v, r.l, r.h, m, j)
      BY <1>11, <1>12, <1>13, <2>2, <2>3, <2>4 DEF SpiGood, SpiPhase
    <2> QED
      BY <1>7, <1>8, <2>5 DEF r, e, t, v
  <1>17. CASE R
    <2>1. v.tx = p /\ v.en = EnBit /\ e.busy
      BY <1>7, <1>10, <1>17 DEF Runs, EnBit
    <2>2. SpiWords(e, v, r.h, m)
      <3>1. ((Els(s.h.out) \cup Els(p) \cup Els(q)) \ {0}) \cup s.h.drop = 1..s.h.given
        BY <1>3, <1>5
      <3> QED
        BY <1>1, <1>3, <1>5, <1>6, <1>7, <1>8, <1>14, <2>1, <3>1 DEF SpiWords
    <2>3. p # << >>
      BY <1>3, <1>4
    <2>4. CASE s.d.mode = "txrx"
      <3>1. v.rx = << >> /\ Chain(r.h.got, << >>, << >>, b, r.h.sent) /\ e.recvBuf
        BY <1>1, <1>7, <1>8, <1>10, <1>17, <2>4 DEF Runs
      <3>2. /\ r.h.got \in Seq(Nat) /\ r.h.sent \in Seq(Nat) /\ << >> \in Seq(Nat) /\ Len(<< >>) = 0
            /\ n \in 0..Len(b)
        BY <1>1, <1>8, EmptySeq DEF SpiStates, SpiHistory
      <3>3. Chain(r.h.got, << >>, p, q, r.h.sent)
        <4> DEFINE x == r.h.got
                   y == r.h.sent
        <4>1. /\ x \in Seq(Nat) /\ y \in Seq(Nat) /\ << >> \in Seq(Nat) /\ b \in Seq(Nat)
              /\ n \in 0..Len(b) /\ Chain(x, << >>, << >>, b, y)
          BY <1>2, <3>1, <3>2
        <4> HIDE DEF x, y
        <4>2. Chain(x, << >>, SubSeq(b, 1, n), SubSeq(b, n + 1, Len(b)), y)
          BY <4>1, ChainWrite
        <4> QED
          BY <4>2 DEF x, y, p, q
      <3>4. Stored(r.h.got, r.h.sent)
        <4> DEFINE x == r.h.got
                   y == r.h.sent
        <4>1. /\ x \in Seq(Nat) /\ y \in Seq(Nat) /\ << >> \in Seq(Nat) /\ p \in Seq(Nat)
              /\ q \in Seq(Nat) /\ Chain(x, << >>, p, q, y)
          BY <1>3, <3>2, <3>3
        <4> HIDE DEF x, y
        <4>2. Stored(x, y)
          BY <4>1, ChainStored
        <4> QED
          BY <4>2 DEF x, y
      <3>5. Len(v.tx) + Len(v.rx) = e.trNum /\ Len(v.tx) <= e.trNum
        BY <1>3, <1>4, <1>7, <2>1, <3>1, <3>2
      <3>6. Runs(e, v, r.h, m, j)
        BY <1>1, <1>7, <1>10, <1>15, <2>1, <2>3, <3>1, <3>3, <3>5 DEF Runs
      <3>7. SpiGood(e, v, r.l, r.h, m, j)
        BY <1>11, <1>12, <1>13, <2>2, <3>4, <3>6 DEF SpiGood, SpiPhase
      <3> QED
        BY <1>7, <1>8, <3>7 DEF r, e, t, v
    <2>5. CASE s.d.mode = "tx"
      <3>1. r.h = s.h /\ ~(e.mode = "txrx")
        BY <1>1, <1>7, <1>8, <1>17, <2>5
      <3>2. Stored(r.h.got, r.h.sent)
        BY <3>1 DEF SpiGood
      <3>3. Len(v.tx) <= e.trNum
        BY <1>3, <1>4, <1>7, <2>1
      <3>4. Runs(e, v, r.h, m, j)
        BY <1>1, <1>7, <1>10, <1>15, <2>1, <2>3, <3>1, <3>3 DEF Runs
      <3>5. SpiGood(e, v, r.l, r.h, m, j)
        BY <1>11, <1>12, <1>13, <2>2, <3>2, <3>4 DEF SpiGood, SpiPhase
      <3> QED
        BY <1>7, <1>8, <3>5 DEF r, e, t, v
    <2> QED
      BY <1>2, <2>4, <2>5
  <1> QED
    BY <1>1, <1>16, <1>17

\* The port after the last round.
LEMMA FinishPort ==
  ASSUME NEW u \in Ports, u.ie \subseteq {"TX_EMPTY"}
  PROVE  LET v == Restart(IrqOff(u, SpiIrqBits), Fifos, EnBit)
         IN  v \in Ports /\ v.mode = u.mode /\ v.ie = {} /\ v.tx = << >> /\ v.ip \subseteq v.ie
PROOF
  <1> DEFINE a == IrqOff(u, SpiIrqBits)
             v == Restart(a, Fifos, EnBit)
  <1>1. /\ SpiIrqBits \in SUBSET Intr /\ EnBit \in SUBSET EnBit /\ "tx" \in Fifos /\ "rx" \in Fifos
        /\ u.ie \ SpiIrqBits = {}
    BY DEF SpiIrqBits, Intr, Fifos
  <1>2. Access(a, u, u.en, u.ie \ SpiIrqBits, u.tx, u.rx, u.ip)
    BY <1>1, IrqOffIs
  <1> HIDE DEF a
  <1>3. a \in Ports /\ a.mode = u.mode /\ a.ie = {}
    BY <1>1, <1>2 DEF Access
  <1>4. Access(v, a, EnBit, a.ie, << >>, << >>, a.ip)
    BY <1>1, <1>3, RestartIs
  <1> HIDE DEF v
  <1>5. v \in Ports /\ v.mode = u.mode /\ v.ie = {} /\ v.tx = << >> /\ v.ip \subseteq v.ie
    BY <1>3, <1>4 DEF Access
  <1> QED
    BY <1>5 DEF v, a

\* The last round ends the transfer: all its answers are stored, and the
\* callback may start the next.
LEMMA LastRound ==
  ASSUME NEW s \in SpiStates, NEW m, NEW i, SpiGood(s.d, s.u, s.l, s.h, m, i), i.left # {},
         RoundsOver(s.d), NEW j \in Handler, j.left = {}, j.on = i.on,
         NEW r \in SpiFinish(SpiWriteRound(SpiReadRound(s)))
  PROVE  /\ r \in SpiStates /\ SpiGood(r.d, r.u, r.l, r.h, m, j)
         /\ s.d.busy /\ ~r.d.busy /\ s.d.mode = "txrx" => r.h.got = s.h.sent
PROOF
  <1> DEFINE b == s.d.sendBuf
             t == SpiWriteRound(SpiReadRound(s))
             n == Round(s.d.clkNum)
             p == SubSeq(b, 1, n)
             q == SubSeq(b, n + 1, Len(b))
             g == t.d
             d1 == [g EXCEPT !.busy = FALSE]
             e == [d1 EXCEPT !.sendNum = 0]
             v == Restart(IrqOff(t.u, SpiIrqBits), Fifos, EnBit)
             x == [t EXCEPT !.d = e, !.u = v]
             f == SsControl(x, FALSE)
             A == Aborted(s.d, s.u, s.h, m, i)
             R == Runs(s.d, s.u, s.h, m, i)
  <1>1. /\ A \/ R
        /\ Counted(s.d, s.u, m, i) /\ s.u.tx = << >>
        /\ t \in SpiStates /\ t.l = s.l
        /\ n \in 0..Len(b)
        /\ t.d.state = s.d.state /\ t.d.clkNum = s.d.clkNum /\ t.d.sendBuf = q
        /\ t.u.mode = s.u.mode /\ t.u.ie = s.u.ie
        /\ t.h.given = s.h.given /\ t.h.out = s.h.out /\ t.h.drop = s.h.drop /\ t.h.sent = s.h.sent
        /\ A => t.h = s.h
        /\ R /\ s.d.mode = "tx" => t.h = s.h
        /\ R /\ s.d.mode = "txrx" => t.u.rx = << >> /\ Chain(t.h.got, << >>, << >>, b, s.h.sent)
    BY RoundIs
  <1>2. r \in {f} \cup SpiStarts(f)
    <2>1. x = [t EXCEPT !.d = [t.d EXCEPT !.busy = FALSE, !.sendNum = 0],
                        !.u = Restart(IrqOff(@, SpiIrqBits), Fifos, EnBit)]
      <3>1. e = [t.d EXCEPT !.busy = FALSE, !.sendNum = 0]
        OBVIOUS
      <3>2. v = Restart(IrqOff([t EXCEPT !.d = e].u, SpiIrqBits), Fifos, EnBit)
        BY <1>1 DEF SpiStates
      <3> HIDE DEF e, v, t
      <3> QED
        BY <1>1, <3>1, <3>2 DEF SpiStates
    <2>2. SpiFinish(t) = {SsControl(x, FALSE)} \cup (IF t.d.cb THEN SpiStarts(SsControl(x, FALSE)) ELSE {})
      BY <2>1 DEF SpiFinish
    <2> HIDE DEF x, t
    <2> QED
      BY <2>2 DEF t
  <1> HIDE DEF t, f, v, g
  <1>3. /\ b \in Seq(Nat) /\ s.d.clkNum = 0 /\ Len(b) = 0 /\ b = << >> /\ s.u.ie = {"TX_EMPTY"}
        /\ m = SpiNoPoll /\ m.call = "free" /\ s.d.mode \in {"tx", "txrx"} /\ s.d.state # "none"
    BY <1>1 DEF SpiStates, SpiDriver, Counted, SpiNoPoll, RoundsOver
  <1>4. q = << >>
    <2>1. q \in Seq(Nat) /\ Len(q) = 0
      BY <1>1, <1>3, OfSplit
    <2> QED
      BY <2>1
  <1> HIDE DEF b, q
  <1>5. g \in SpiDriver /\ g.state = s.d.state /\ g.clkNum = 0 /\ g.sendBuf = << >>
    BY <1>1, <1>3, <1>4 DEF SpiStates, g
  <1>6. d1 \in SpiDriver /\ d1.state = s.d.state /\ d1.clkNum = 0 /\ d1.sendBuf = << >> /\ d1.busy = FALSE
    BY <1>5 DEF SpiDriver
  <1> HIDE DEF d1
  <1>7. /\ e \in SpiDriver /\ e.state = s.d.state /\ e.clkNum = 0 /\ e.sendBuf = << >> /\ e.busy = FALSE
    BY <1>6 DEF SpiDriver
  <1> HIDE DEF e
  <1>8. v \in Ports /\ v.mode = s.u.mode /\ v.ie = {} /\ v.tx = << >> /\ v.ip \subseteq v.ie
    <2>1. t.u \in Ports /\ t.u.ie \subseteq {"TX_EMPTY"} /\ t.u.mode = s.u.mode
      BY <1>1, <1>3 DEF SpiStates
    <2> DEFINE u == t.u
    <2> HIDE DEF u
    <2>2. u \in Ports /\ u.ie \subseteq {"TX_EMPTY"} /\ u.mode = s.u.mode
      BY <2>1 DEF u
    <2>3. LET w == Restart(IrqOff(u, SpiIrqBits), Fifos, EnBit)
          IN  w \in Ports /\ w.mode = u.mode /\ w.ie = {} /\ w.tx = << >> /\ w.ip \subseteq w.ie
      BY <2>2, FinishPort
    <2> QED
      BY <2>2, <2>3 DEF u, v
  <1>9. x \in SpiStates /\ x.d = e /\ x.u = v /\ x.h = t.h
    BY <1>1, <1>7, <1>8 DEF SpiStates
  <1> HIDE DEF x
  <1>10. f \in SpiStates /\ f.d = e /\ f.u = v /\ f.h = t.h
    BY <1>9, SsIs DEF f
  <1>11. Stored(t.h.got, t.h.sent) /\ (s.d.busy /\ s.d.mode = "txrx" => t.h.got = s.h.sent)
    <2>1. CASE A
      BY <1>1, <2>1 DEF SpiGood, Aborted
    <2>2. CASE R /\ s.d.mode = "tx"
      BY <1>1, <2>2 DEF SpiGood
    <2>3. CASE R /\ s.d.mode = "txrx"
      <3> DEFINE y == t.h.got
                 z == t.h.sent
      <3>1. y \in Seq(Nat) /\ z \in Seq(Nat) /\ Chain(y, << >>, << >>, << >>, z) /\ z = s.h.sent
        BY <1>1, <1>3, <2>3 DEF SpiStates, SpiHistory
      <3> HIDE DEF y, z
      <3>2. Stored(y, z) /\ y = z
        BY <3>1, ChainOver
      <3> QED
        BY <3>1, <3>2 DEF y, z
    <2> QED
      BY <1>1, <1>3, <2>1, <2>2, <2>3
  <1>12. SpiGood(f.d, f.u, f.l, f.h, m, j)
    <2>1. SpiTypes(e, v, f.l, f.h, m, j)
      BY <1>7, <1>8, <1>10 DEF SpiGood, SpiTypes, SpiStates
    <2>2. SpiOpen(e, v, m, j)
      BY <1>3, <1>7, <1>8 DEF SpiOpen
    <2>3. SpiWords(e, v, f.h, m)
      <3>1. Rest(s.d, m) = << >> /\ Rest(e, m) = << >>
        BY <1>3, <1>7 DEF Rest, b
      <3> QED
        BY <1>1, <1>7, <1>8, <1>10, <3>1, OfNothing DEF SpiGood, SpiWords
    <2>4. SpiLine(e, f.l)
      BY <1>7 DEF SpiLine
    <2>5. Quiet(e, v, m, j)
      BY <1>3, <1>7, <1>8 DEF Quiet
    <2> QED
      BY <1>10, <1>11, <2>1, <2>2, <2>3, <2>4, <2>5 DEF SpiGood, SpiPhase
  <1>13. Quiet(f.d, f.u, m, j) /\ f.d.state # "none"
    BY <1>3, <1>7, <1>8, <1>10 DEF Quiet
  <1>14. CASE r = f
    BY <1>10, <1>11, <1>12, <1>14
  <1>15. CASE r \in SpiStarts(f)
    <2>1. r \in SpiStates /\ SpiGood(r.d, r.u, r.l, r.h, m, j) /\ r.d.busy = TRUE
      BY <1>10, <1>12, <1>13, <1>15, StartGood
    <2> QED
      BY <2>1
  <1> QED
    BY <1>2, <1>14, <1>15

\* The part of the handler that serves TX_EMPTY.
LEMMA SpiServeTxStep ==
  ASSUME SpiInv, SpiServeTx
  PROVE  /\ SpiInv'
         /\ sd.busy /\ ~sd'.busy /\ sd.mode = "txrx" => srec'.got = srec.sent
PROOF
  <1> DEFINE s == SpiState
  <1>1. /\ s \in SpiStates /\ s.d = sd /\ s.u = usi /\ s.l = sline /\ s.h = srec
        /\ SpiGood(s.d, s.u, s.l, s.h, smain, isr)
    BY DEF SpiState, SpiStates, SpiInv, SpiGood, SpiTypes
  <1>2. /\ "TX_EMPTY" \in isr.left /\ isr \in Handler /\ isr.on /\ smain' = smain
        /\ isr' = [isr EXCEPT !.left = @ \ {"TX_EMPTY"}]
    BY <1>1 DEF SpiServeTx, Serving, Served, SpiGood, SpiTypes
  <1>3. PICK r \in SpiTxEmpty(s) : SpiBecomes([r EXCEPT !.u = ClearIrq(@, {"TX_EMPTY"})])
    BY DEF SpiServeTx
  <1> HIDE DEF s
  <1>4. isr.left # {} /\ isr.left \subseteq {"TX_EMPTY"}
    BY <1>1, <1>2 DEF SpiGood, SpiPhase, Quiet, Aborted, Runs, Counted, Sends, Transfers, Receives, Polls
  <1>5. isr' \in Handler /\ isr'.left = {} /\ isr'.on = isr.on
    BY <1>2, <1>4 DEF Handler
  <1> DEFINE t == SpiWriteRound(SpiReadRound(s))
             v == ClearIrq(r.u, {"TX_EMPTY"})
  <1>6. /\ r \in SpiStates
        /\ SpiGood(r.d, v, r.l, r.h, smain, isr')
        /\ s.d.busy /\ ~r.d.busy /\ s.d.mode = "txrx" => r.h.got = s.h.sent
    <2>1. CASE RoundsOver(s.d)
      <3>1. r \in SpiFinish(t)
        BY <1>3, <2>1 DEF SpiTxEmpty
      <3>2. /\ r \in SpiStates /\ SpiGood(r.d, r.u, r.l, r.h, smain, isr')
            /\ s.d.busy /\ ~r.d.busy /\ s.d.mode = "txrx" => r.h.got = s.h.sent
        BY <1>1, <1>4, <1>5, <2>1, <3>1, LastRound
      <3>3. {"TX_EMPTY"} \in SUBSET Intr
        BY DEF Intr
      <3>4. SpiGood(r.d, v, r.l, r.h, smain, isr')
        BY <1>5, <3>2, <3>3, SpiCleared
      <3> QED
        BY <3>2, <3>4
    <2>2. CASE ~RoundsOver(s.d)
      <3>1. r = [t EXCEPT !.d = [t.d EXCEPT !.clkNum = @ - t.d.trNum]]
        BY <1>3, <2>2 DEF SpiTxEmpty
      <3>2. /\ r \in SpiStates /\ r.d.busy = s.d.busy /\ SpiGood(r.d, v, r.l, r.h, smain, isr')
        BY <1>1, <1>4, <1>5, <2>2, <3>1, NextRound
      <3> QED
        BY <3>2
    <2> QED
      BY <2>1, <2>2
  <1>7. sd' = r.d /\ usi' = v /\ sline' = r.l /\ srec' = r.h
    BY <1>3, <1>6 DEF SpiBecomes, SpiStates
  <1> HIDE DEF v
  <1> QED
    BY <1>1, <1>2, <1>6, <1>7 DEF SpiInv

\* The handler begins: only a transfer by interrupt, or the rest of one, has TX_EMPTY enabled.
LEMMA SpiEnterStep ==
  ASSUME SpiInv, SpiEnter
  PROVE  SpiInv' /\ sd' = sd
PROOF
  <1>1. /\ usi' = usi /\ sd' = sd /\ sline' = sline /\ smain' = smain /\ srec' = srec
        /\ ~isr.on /\ Pending(usi) # {}
        /\ isr' = [sta |-> Pending(usi), left |-> Pending(usi) \cap {"TX_EMPTY"}, on |-> TRUE]
    BY DEF SpiEnter, Serve
  <1>2. Pending(usi) \subseteq usi.ie /\ Pending(usi) \in SUBSET Intr /\ Pending(usi) \subseteq usi.ip
    BY DEF Pending, SpiInv, SpiGood, SpiOpen, SpiTypes, Ports, Port
  <1>3. isr' \in Handler /\ isr'.on /\ isr'.left \subseteq {"TX_EMPTY"} /\ isr'.left \subseteq usi.ip
    BY <1>1, <1>2 DEF Handler
  <1> DEFINE j == isr'
  <1>4. j \in Handler /\ j.on /\ j.left \subseteq {"TX_EMPTY"} /\ j.left \subseteq usi.ip
    BY <1>3
  <1>5. usi.ie # {}
    BY <1>1, <1>2
  <1> HIDE DEF j
  <1>6. SpiTypes(sd, usi, sline, srec, smain, j)
    BY <1>4 DEF SpiInv, SpiGood, SpiTypes
  <1>7. SpiPhase(sd, usi, srec, smain, j) /\ smain = SpiNoPoll
    <2>1. CASE Aborted(sd, usi, srec, smain, isr)
      BY <1>4, <2>1 DEF Aborted, Counted, SpiPhase
    <2>2. CASE Runs(sd, usi, srec, smain, isr)
      BY <1>4, <2>2 DEF Runs, Counted, SpiPhase
    <2> QED
      BY <1>5, <2>1, <2>2 DEF SpiInv, SpiGood, SpiPhase, Quiet, Sends, Transfers, Receives, Polls
  <1>8. SpiOpen(sd, usi, smain, j)
    BY <1>4, <1>5, <1>7 DEF SpiInv, SpiGood, SpiOpen, SpiNoPoll
  <1>9. SpiGood(sd, usi, sline, srec, smain, j)
    BY <1>6, <1>7, <1>8 DEF SpiInv, SpiGood
  <1> QED
    BY <1>1, <1>9 DEF SpiInv, j

\* ... and ends.
LEMMA SpiLeaveStep ==
  ASSUME SpiInv, SpiLeave
  PROVE  SpiInv' /\ sd' = sd
PROOF
  <1>1. /\ usi' = ClearIrq(usi, isr.sta) /\ isr' = Idle
        /\ sd' = sd /\ sline' = sline /\ smain' = smain /\ srec' = srec
    BY DEF SpiLeave
  <1>2. SpiGood(sd, usi, sline, srec, smain, isr) /\ isr.sta \in SUBSET Intr
    BY DEF SpiInv, SpiGood, SpiTypes, Handler
  <1>3. Idle \in Handler /\ Idle.left \subseteq isr.left /\ Idle.left = {} /\ ~Idle.on
    BY DEF Idle, Handler
  <1>4. SpiGood(sd, ClearIrq(usi, isr.sta), sline, srec, smain, Idle)
    BY <1>2, <1>3, SpiCleared
  <1> QED
    BY <1>1, <1>4 DEF SpiInv

\* A word has left: a word that is none of the caller's is not kept.
LEMMA PartsPass ==
  ASSUME NEW out \in Seq(Nat), NEW fifo \in Seq(Nat), NEW buf \in Seq(Nat),
         InParts(out, fifo, buf), fifo # << >>
  PROVE  LET x == Head(fifo)
             a == Append(out, x)
             t == Tail(fifo)
         IN  /\ a \in Seq(Nat) /\ InParts(out, t, buf) /\ InParts(a, t, buf)
             /\ Els(a) = Els(out) \cup {x} /\ Els(fifo) = {x} \cup Els(t)
PROOF
  <1> DEFINE x == Head(fifo)
             t == Tail(fifo)
             a == Append(out, x)
  <1>1. /\ x \in Nat /\ t \in Seq(Nat) /\ Els(fifo) = {x} \cup Els(t) /\ Rising(t)
    BY OfTail DEF InParts
  <1>2. a \in Seq(Nat) /\ Els(a) = Els(out) \cup {x}
    <2> HIDE DEF x
    <2> QED
      BY <1>1, OfAppend
  <1>3. InParts(a, t, buf)
    BY PartsShift
  <1> HIDE DEF x, t, a
  <1>5. InParts(out, t, buf)
    BY <1>1 DEF InParts, Under
  <1> QED
    BY <1>1, <1>2, <1>3, <1>5 DEF x, t, a

\* The port when a word has left and its answer has arrived.
LEMMA ShiftPort ==
  ASSUME NEW u \in Ports, u.en = EnBit, u.tx # << >>
  PROVE  LET v == Arrived(Shifted(u), Head(u.tx))
         IN  /\ v \in Ports /\ v.mode = u.mode /\ v.en = u.en /\ v.ie = u.ie /\ v.ip \subseteq v.ie
             /\ v.tx = Tail(u.tx)
             /\ Len(u.rx) < Fifo => v.rx = Append(u.rx, Head(u.tx))
             /\ "TX_EMPTY" \in v.ip => "TX_EMPTY" \in u.ip \/ v.tx = << >>
PROOF
  <1> DEFINE x == Head(u.tx)
             a == Shifted(u)
             v == Arrived(a, x)
  <1>1. Access(a, u, u.en, u.ie, Tail(u.tx), u.rx, u.ip)
    BY ShiftedIs
  <1> HIDE DEF a
  <1>2. /\ a \in Ports /\ a.mode = u.mode /\ a.en = u.en /\ a.ie = u.ie /\ a.tx = Tail(u.tx) /\ a.rx = u.rx
        /\ ("TX_EMPTY" \in a.ip => "TX_EMPTY" \in u.ip \/ a.tx = << >>)
    BY <1>1 DEF Access, EnBit
  <1>3. x \in Nat /\ u.rx \in Seq(Nat)
    BY OfTail DEF Ports, Port
  <1> HIDE DEF x
  <1>4. Access(v, a, a.en, a.ie, a.tx, Newest(Append(a.rx, x)), a.ip)
    BY <1>2, <1>3, ArrivedIs
  <1> HIDE DEF v
  <1>5. /\ v \in Ports /\ v.mode = a.mode /\ v.en = a.en /\ v.ie = a.ie /\ v.tx = a.tx /\ v.ip \subseteq v.ie
        /\ v.rx = Newest(Append(a.rx, x))
        /\ ("TX_EMPTY" \in v.ip => "TX_EMPTY" \in a.ip \/ v.tx = << >>)
    BY <1>2, <1>4 DEF Access, EnBit
  <1>6. ASSUME Len(u.rx) < Fifo PROVE v.rx = Append(u.rx, x)
    <2>1. Append(u.rx, x) \in Seq(Nat) /\ Len(Append(u.rx, x)) = Len(u.rx) + 1 /\ Len(u.rx) \in Nat
      BY <1>3
    <2>2. Len(Append(u.rx, x)) <= Fifo
      BY <1>6, <2>1, FifoAssumption
    <2> QED
      BY <1>2, <1>5, <2>1, <2>2, NewestIs
  <1> QED
    BY <1>2, <1>5, <1>6 DEF v, a, x

\* A word leaves and its answer arrives.
LEMMA SpiShiftStep ==
  ASSUME SpiInv, SpiShift
  PROVE  SpiInv' /\ sd' = sd
PROOF
  <1> DEFINE u == usi
             f == u.tx
             r == u.rx
             x == Head(f)
             t == Tail(f)
             a == Append(r, x)
             h == srec
             o == IF x = 0 THEN h.out ELSE Append(h.out, x)
             k == [h EXCEPT !.out = o]
             v == usi'
             b == Rest(sd, smain)
  <1>1. /\ sd' = sd /\ sline' = sline /\ smain' = smain /\ isr' = isr /\ f # << >>
        /\ sd.mode = "txrx" => Len(r) < Fifo
        /\ v = Arrived(Shifted(u), x)
    BY DEF SpiShift
  <1>2. /\ SpiTypes(sd, u, sline, h, smain, isr) /\ SpiOpen(sd, u, smain, isr) /\ SpiWords(sd, u, h, smain)
        /\ SpiLine(sd, sline) /\ Stored(h.got, h.sent) /\ SpiPhase(sd, u, h, smain, isr)
    BY DEF SpiInv, SpiGood
  <1>3. srec' = k
    BY <1>2 DEF SpiShift, SpiTypes, SpiHistory
  <1>4. /\ u \in Ports /\ f \in Seq(Nat) /\ r \in Seq(Nat) /\ h \in SpiHistory /\ h.out \in Seq(Nat)
        /\ h.got \in Seq(Nat) /\ h.sent \in Seq(Nat) /\ sd \in SpiDriver /\ smain \in SpiPoll /\ b \in Seq(Nat)
        /\ sd.sendBuf \in Seq(Nat) /\ smain.left \in Seq(Nat) /\ Len(r) \in Nat /\ Len(f) \in Nat /\ Len(f) > 0
        /\ smain.once \in Nat
    <2>1. u \in Ports /\ f \in Seq(Nat) /\ r \in Seq(Nat)
      BY <1>2 DEF SpiTypes, Ports, Port
    <2>2. /\ h \in SpiHistory /\ h.out \in Seq(Nat) /\ h.got \in Seq(Nat) /\ h.sent \in Seq(Nat)
      BY <1>2 DEF SpiTypes, SpiHistory
    <2>3. /\ sd \in SpiDriver /\ smain \in SpiPoll /\ smain.once \in Nat /\ sd.sendBuf \in Seq(Nat)
          /\ smain.left \in Seq(Nat) /\ b \in Seq(Nat)
      BY <1>2 DEF SpiTypes, SpiDriver, SpiPoll, Rest
    <2>4. Len(r) \in Nat /\ Len(f) \in Nat /\ Len(f) > 0
      BY <1>1, <2>1
    <2> QED
      BY <2>1, <2>2, <2>3, <2>4
  <1>6. u.en = EnBit
    <2>1. ASSUME Receives(sd, u, h, smain, isr) PROVE smain.once # 0
      BY <1>4, <2>1 DEF Receives, Polls
    <2> HIDE DEF u, h
    <2> QED
      BY <1>1, <1>2, <2>1 DEF u, SpiPhase, Quiet, Aborted, Runs, Sends, Transfers, Receives
  <1>7. /\ v \in Ports /\ v.mode = u.mode /\ v.en = u.en /\ v.ie = u.ie /\ v.ip \subseteq v.ie
        /\ v.tx = t
        /\ (sd.mode = "txrx" => v.rx = a)
        /\ "TX_EMPTY" \in v.ip => "TX_EMPTY" \in u.ip \/ v.tx = << >>
    BY <1>1, <1>4, <1>6, ShiftPort
  <1>8. /\ o \in Seq(Nat) /\ InParts(o, t, b)
        /\ (Els(o) \cup Els(t)) \ {0} = (Els(h.out) \cup Els(f)) \ {0}
        /\ Els(t) \subseteq Els(f)
    <2>1. InParts(h.out, f, b) /\ h.out \in Seq(Nat) /\ f \in Seq(Nat) /\ b \in Seq(Nat) /\ f # << >>
      BY <1>1, <1>2, <1>4 DEF SpiWords
    <2> DEFINE g == h.out
               c == Append(g, x)
    <2>2. /\ c \in Seq(Nat) /\ InParts(g, t, b) /\ InParts(c, t, b)
          /\ Els(c) = Els(g) \cup {x} /\ Els(f) = {x} \cup Els(t)
      <3> HIDE DEF b, f, g
      <3> QED
        BY <2>1, PartsPass DEF g
    <2>3. (o = g /\ x = 0) \/ (o = c /\ x # 0)
      OBVIOUS
    <2>4. g \in Seq(Nat)
      BY <2>1
    <2> HIDE DEF b, f, g, o, x, t, c
    <2>5. o \in Seq(Nat) /\ InParts(o, t, b)
      BY <2>2, <2>3, <2>4
    <2>6. (Els(o) \cup Els(t)) \ {0} = (Els(g) \cup Els(f)) \ {0} /\ Els(t) \subseteq Els(f)
      BY <2>2, <2>3
    <2> QED
      BY <2>5, <2>6 DEF g
  <1>9. t \in Seq(Nat) /\ Len(t) = Len(f) - 1 /\ a \in Seq(Nat) /\ Len(a) = Len(r) + 1
    BY <1>1, <1>4, OfTail, SMTT(20)
  <1>10. ASSUME NEW rest \in Seq(Nat), Chain(h.got, r, f, rest, h.sent)
         PROVE  Chain(h.got, a, t, rest, h.sent)
    BY <1>1, <1>4, <1>10, ChainShift
  <1> HIDE DEF u, f, r, x, t, a, h, o, v, b
  <1>11. /\ k \in SpiHistory /\ k.out = o /\ k.given = h.given /\ k.drop = h.drop
         /\ k.got = h.got /\ k.sent = h.sent
    BY <1>4, <1>8 DEF SpiHistory
  <1> HIDE DEF k
  <1>12. SpiTypes(sd, v, sline, k, smain, isr)
    BY <1>2, <1>7, <1>11 DEF SpiTypes
  <1>13. SpiOpen(sd, v, smain, isr)
    BY <1>2, <1>7 DEF SpiOpen
  <1>14. SpiWords(sd, v, k, smain)
    <2>1. /\ ((Els(h.out) \cup Els(f) \cup Els(b)) \ {0}) \cup h.drop = 1..h.given
          /\ 0 \notin Els(sd.sendBuf) /\ (smain.call = "free" => 0 \notin Els(f))
      BY <1>2 DEF SpiWords, b, f
    <2>2. ((Els(o) \cup Els(t) \cup Els(b)) \ {0}) \cup k.drop = 1..k.given
      BY <1>8, <1>11, <2>1
    <2>3. smain.call = "free" => 0 \notin Els(t)
      BY <1>8, <2>1
    <2> QED
      BY <1>7, <1>8, <1>11, <2>1, <2>2, <2>3 DEF SpiWords, b
  <1>15. Len(f) + Len(r) = Len(t) + Len(a) /\ Len(t) < Len(f) /\ f # << >>
    <2>1. f # << >>
      BY <1>1 DEF f
    <2> QED
      BY <1>4, <1>9, <2>1
  <1>16. SpiPhase(sd, v, k, smain, isr)
    <2>1. CASE Quiet(sd, u, smain, isr) \/ Aborted(sd, u, h, smain, isr)
      BY <1>15, <2>1 DEF Quiet, Aborted, f
    <2>2. CASE Runs(sd, u, h, smain, isr)
      <3>1. Counted(sd, v, smain, isr)
        BY <1>7, <2>2 DEF Runs, Counted
      <3>2. "TX_EMPTY" \notin u.ip /\ isr.left = {}
        BY <1>15, <2>2 DEF Runs, f
      <3>3. Len(v.tx) <= sd.trNum
        BY <1>4, <1>7, <1>9, <2>2, SMTT(20) DEF Runs, f, SpiDriver
      <3>4. ASSUME sd.mode = "txrx"
            PROVE  /\ sd.recvBuf /\ Len(v.tx) + Len(v.rx) = sd.trNum
                   /\ Chain(k.got, v.rx, v.tx, sd.sendBuf, k.sent)
        BY <1>4, <1>7, <1>10, <1>11, <1>15, <2>2, <3>4 DEF Runs, f, r
      <3> QED
        BY <1>7, <2>2, <3>1, <3>2, <3>3, <3>4 DEF SpiPhase, Runs
    <2>3. CASE Sends(sd, u, smain, isr)
      BY <1>4, <1>7, <1>9, <2>3 DEF SpiPhase, Sends, Polls, f
    <2>4. CASE Transfers(sd, u, h, smain, isr)
      <3>1. Polls(sd, v, smain, isr)
        BY <1>4, <1>7, <1>9, <2>4, SMTT(20) DEF Transfers, Polls, f
      <3>2. Chain(k.got, v.rx, v.tx, smain.left, k.sent) /\ Len(v.tx) + Len(v.rx) = smain.once
        BY <1>4, <1>7, <1>10, <1>11, <1>15, <2>4 DEF Transfers, f, r
      <3> QED
        BY <1>7, <2>4, <3>1, <3>2 DEF SpiPhase, Transfers
    <2>5. CASE Receives(sd, u, h, smain, isr)
      <3>1. smain.once # 0
        BY <1>4, <2>5 DEF Receives, Polls, f
      <3>2. Polls(sd, v, smain, isr)
        BY <1>4, <1>7, <1>9, <2>5, SMTT(20) DEF Receives, Polls, f
      <3>3. Chain(k.got, v.rx, v.tx, smain.left, k.sent) /\ Len(v.tx) + Len(v.rx) = smain.once
        BY <1>4, <1>7, <1>10, <1>11, <1>15, <2>5, <3>1 DEF Receives, f, r
      <3> QED
        BY <1>7, <2>5, <3>1, <3>2, <3>3 DEF SpiPhase, Receives
    <2> QED
      BY <1>2, <2>1, <2>2, <2>3, <2>4, <2>5 DEF SpiPhase
  <1>17. SpiGood(sd, v, sline, k, smain, isr)
    BY <1>2, <1>11, <1>12, <1>13, <1>14, <1>16 DEF SpiGood
  <1> QED
    BY <1>1, <1>3, <1>17 DEF SpiInv, v

\* What a call of main finds: no handler runs.
LEMMA SpiMainFinds ==
  ASSUME SpiInv, MainRuns
  PROVE  /\ SpiGood(sd, usi, sline, srec, smain, isr)
         /\ ~isr.on /\ isr.left = {} /\ isr \in Handler
         /\ sd \in SpiDriver /\ usi \in Ports /\ usi.mode = "spi" /\ sline \in BOOLEAN
         /\ srec \in SpiHistory /\ smain \in SpiPoll
PROOF BY DEF SpiInv, MainRuns, SpiGood, SpiTypes, SpiOpen

\* While no call of main runs and neither a transfer nor the rest of one, all is quiet.
LEMMA SpiIsQuiet ==
  ASSUME SpiInv, smain.call = "free", ~sd.busy, "TX_EMPTY" \notin usi.ie
  PROVE  Quiet(sd, usi, smain, isr)
PROOF BY DEF SpiInv, SpiGood, SpiPhase, Aborted, Counted, Runs, Sends, Transfers, Receives

\* An uninitialized driver is quiet and no handler runs.
LEMMA NoneIsQuiet ==
  ASSUME SpiInv, sd.state = "none"
  PROVE  Quiet(sd, usi, smain, isr) /\ ~isr.on
PROOF BY DEF SpiInv, SpiGood, SpiOpen, SpiPhase, Aborted, Counted, Runs, Sends, Transfers, Receives, Polls

\* The words are those of before.
SameHistory(h, k) ==
  /\ k \in SpiHistory /\ k.given = h.given /\ k.out = h.out /\ k.drop = h.drop
  /\ k.sent = h.sent /\ k.got = h.got

\* Counting a call leaves the words of the history.
LEMMA CallCounted ==
  ASSUME NEW h \in SpiHistory
  PROVE  SameHistory(h, [h EXCEPT !.calls = @ + 1])
PROOF
  <1> DEFINE c == h.calls + 1
             k == [h EXCEPT !.calls = c]
  <1>1. c \in Nat
    BY DEF SpiHistory
  <1> HIDE DEF c
  <1>2. SameHistory(h, k)
    BY <1>1 DEF SameHistory, SpiHistory
  <1> QED
    BY <1>2 DEF c

QuietDriver(e) == e \in SpiDriver /\ ~e.busy /\ e.sendBuf = << >> /\ e.clkNum = 0
QuietPort(u, v) == v \in Ports /\ v.mode = u.mode /\ v.ie = {} /\ v.ip = {} /\ v.tx = << >>

\* A quiet driver stays quiet when it is configured or switched off.
LEMMA StaysQuiet ==
  ASSUME NEW d, NEW u, NEW l, NEW h, NEW m, NEW i, SpiGood(d, u, l, h, m, i), Quiet(d, u, m, i),
         NEW e, NEW v, NEW l2 \in BOOLEAN, NEW k, QuietDriver(e), QuietPort(u, v), SameHistory(h, k), ~i.on
  PROVE  SpiGood(e, v, l2, k, m, i)
PROOF
  <1>1. SpiTypes(e, v, l2, k, m, i)
    BY DEF SpiGood, SpiTypes, QuietDriver, QuietPort, SameHistory
  <1>2. SpiOpen(e, v, m, i)
    BY DEF SpiGood, SpiOpen, QuietDriver, QuietPort
  <1>3. SpiWords(e, v, k, m)
    BY OfNothing DEF SpiGood, SpiWords, Rest, Quiet, SpiNoPoll, QuietDriver, QuietPort, SameHistory
  <1>4. SpiLine(e, l2)
    BY DEF SpiLine, QuietDriver
  <1>5. Stored(k.got, k.sent)
    BY DEF SpiGood, SameHistory
  <1>6. Quiet(e, v, m, i)
    BY DEF Quiet, QuietDriver, QuietPort
  <1> QED
    BY <1>1, <1>2, <1>3, <1>4, <1>5, <1>6 DEF SpiGood, SpiPhase

\* Initialisation, of a driver that is quiet.
LEMMA SpiInitializeStep ==
  ASSUME SpiInv, SpiInitialize
  PROVE  SpiInv' /\ ~sd.busy
PROOF
  <1>1. PICK cb \in BOOLEAN : sd' = [sd EXCEPT !.state = "init", !.cb = cb, !.busy = FALSE]
    BY DEF SpiInitialize
  <1>2. /\ isr' = isr /\ sline' = sline /\ smain' = smain /\ srec' = srec
        /\ usi' = [usi EXCEPT !.irq = TRUE] /\ sd.state = "none" /\ MainRuns
    BY DEF SpiInitialize, SpiFree
  <1>3. /\ SpiGood(sd, usi, sline, srec, smain, isr) /\ ~isr.on
        /\ sd \in SpiDriver /\ usi \in Ports /\ sline \in BOOLEAN /\ srec \in SpiHistory
    BY <1>2, SpiMainFinds
  <1>4. Quiet(sd, usi, smain, isr)
    BY <1>2, NoneIsQuiet
  <1> DEFINE d1 == [sd EXCEPT !.state = "init"]
             d2 == [d1 EXCEPT !.cb = cb]
             e == [d2 EXCEPT !.busy = FALSE]
             v == [usi EXCEPT !.irq = TRUE]
  <1>5. d1 \in SpiDriver /\ d1.sendBuf = sd.sendBuf /\ d1.clkNum = sd.clkNum
    BY <1>3 DEF SpiDriver
  <1> HIDE DEF d1
  <1>6. d2 \in SpiDriver /\ d2.sendBuf = sd.sendBuf /\ d2.clkNum = sd.clkNum
    BY <1>5 DEF SpiDriver
  <1> HIDE DEF d2
  <1>7. e \in SpiDriver /\ e.sendBuf = sd.sendBuf /\ e.clkNum = sd.clkNum /\ e.busy = FALSE
    BY <1>6 DEF SpiDriver
  <1>8. sd' = e
    BY <1>1 DEF d1, d2
  <1> HIDE DEF e
  <1>9. QuietDriver(e)
    BY <1>4, <1>7 DEF QuietDriver, Quiet
  <1>10. v \in Ports /\ v.mode = usi.mode /\ v.ie = usi.ie /\ v.ip = usi.ip /\ v.tx = usi.tx
    BY <1>3 DEF Ports, Port
  <1> HIDE DEF v
  <1>11. QuietPort(usi, v)
    BY <1>3, <1>4, <1>10 DEF QuietPort, Quiet, SpiGood, SpiOpen
  <1>12. SameHistory(srec, srec)
    BY <1>3 DEF SameHistory
  <1>13. SpiGood(e, v, sline, srec, smain, isr)
    BY <1>3, <1>4, <1>9, <1>11, <1>12, StaysQuiet
  <1> QED
    BY <1>2, <1>4, <1>8, <1>13 DEF SpiInv, v, Quiet

\* The port with other switches, when all is quiet.
LEMMA QuietSetEn ==
  ASSUME NEW u \in Ports, NEW w \in Ports, QuietPort(u, w), NEW en \in SUBSET EnBit
  PROVE  QuietPort(u, SetEn(w, en)) /\ SetEn(w, en) \in Ports
PROOF
  <1> DEFINE v == SetEn(w, en)
  <1>1. Access(v, w, en, w.ie, w.tx, w.rx, w.ip)
    BY SetEnIs
  <1> HIDE DEF v
  <1>2. QuietPort(u, v)
    BY <1>1 DEF Access, QuietPort
  <1> QED
    BY <1>2 DEF v, QuietPort

\* A quiet driver that keeps its port and its history is quiet.
LEMMA QuietItself ==
  ASSUME SpiInv, Quiet(sd, usi, smain, isr)
  PROVE  QuietPort(usi, usi) /\ QuietDriver(sd) /\ SameHistory(srec, srec)
PROOF BY DEF SpiInv, SpiGood, SpiTypes, SpiOpen, Quiet, QuietPort, QuietDriver, SameHistory

\* Uninitialisation, with no transfer running.
LEMMA SpiUninitializeStep ==
  ASSUME SpiInv, SpiUninitialize
  PROVE  SpiInv' /\ ~sd.busy
PROOF
  <1>1. /\ isr' = isr /\ sline' = sline /\ smain' = smain /\ srec' = srec /\ MainRuns
        /\ smain.call = "free" /\ ~sd.busy /\ "TX_EMPTY" \notin usi.ie
        /\ sd' = [sd EXCEPT !.state = "none", !.cb = FALSE, !.busy = FALSE]
        /\ usi' = [SetEn(usi, {}) EXCEPT !.irq = FALSE]
    BY DEF SpiUninitialize, SpiFree
  <1>2. /\ SpiGood(sd, usi, sline, srec, smain, isr) /\ ~isr.on
        /\ sd \in SpiDriver /\ usi \in Ports /\ sline \in BOOLEAN /\ srec \in SpiHistory
    BY <1>1, SpiMainFinds
  <1>3. Quiet(sd, usi, smain, isr)
    BY <1>1, SpiIsQuiet
  <1>4. QuietPort(usi, usi) /\ QuietDriver(sd) /\ SameHistory(srec, srec)
    BY <1>3, QuietItself
  <1> DEFINE d1 == [sd EXCEPT !.state = "none"]
             d2 == [d1 EXCEPT !.cb = FALSE]
             e == [d2 EXCEPT !.busy = FALSE]
             w == SetEn(usi, {})
             v == [w EXCEPT !.irq = FALSE]
  <1>5. d1 \in SpiDriver /\ d1.sendBuf = sd.sendBuf /\ d1.clkNum = sd.clkNum
    BY <1>2 DEF SpiDriver
  <1> HIDE DEF d1
  <1>6. d2 \in SpiDriver /\ d2.sendBuf = sd.sendBuf /\ d2.clkNum = sd.clkNum
    BY <1>5 DEF SpiDriver
  <1> HIDE DEF d2
  <1>7. e \in SpiDriver /\ e.sendBuf = sd.sendBuf /\ e.clkNum = sd.clkNum /\ e.busy = FALSE
    BY <1>6 DEF SpiDriver
  <1>8. sd' = e
    BY <1>1 DEF d1, d2
  <1> HIDE DEF e
  <1>9. QuietDriver(e)
    BY <1>4, <1>7 DEF QuietDriver
  <1>10. QuietPort(usi, w) /\ w \in Ports
    <2>1. {} \in SUBSET EnBit
      OBVIOUS
    <2> QED
      BY <1>2, <1>4, <2>1, QuietSetEn
  <1> HIDE DEF w
  <1>11. v \in Ports /\ v.mode = w.mode /\ v.ie = w.ie /\ v.ip = w.ip /\ v.tx = w.tx
    BY <1>10 DEF Ports, Port
  <1>12. usi' = v
    BY <1>1 DEF w
  <1> HIDE DEF v
  <1>13. QuietPort(usi, v)
    BY <1>10, <1>11 DEF QuietPort
  <1>14. SpiGood(e, v, sline, srec, smain, isr)
    BY <1>2, <1>3, <1>4, <1>9, <1>13, StaysQuiet
  <1> QED
    BY <1>1, <1>8, <1>12, <1>14 DEF SpiInv

\* What configuration changes: the port's enables, the slave select, the count.
LEMMA ConfigIs ==
  ASSUME SpiConfig, sd \in SpiDriver, sline \in BOOLEAN
  PROVE  \E e \in SpiDriver, l \in BOOLEAN,
            u \in {SetEn(usi, {}), SetEn(SetEn(usi, {}), {"usi", "fm"})} :
           /\ sd' = e /\ usi' = u /\ sline' = l /\ srec' = [srec EXCEPT !.calls = @ + 1]
           /\ e.busy = sd.busy /\ e.sendBuf = sd.sendBuf /\ e.clkNum = sd.clkNum
PROOF
  <1>1. PICK known \in BOOLEAN, first \in BOOLEAN, last \in BOOLEAN, ss \in {"keep", "sw", "hw"} :
          LET s == [SpiState EXCEPT !.d = SpiSetting(@, known), !.u = SetEn(@, {}),
                                    !.h = [srec EXCEPT !.calls = @ + 1]]
              t == SpiSetSs(s, ss)
          IN  SpiBecomes(IF ~first THEN s ELSE IF ~last THEN t
                         ELSE [t EXCEPT !.d = SpiSetting(@, TRUE), !.u = SetEn(@, {"usi", "fm"})])
    BY DEF SpiConfig
  <1> DEFINE Same(e) == e \in SpiDriver /\ e.busy = sd.busy /\ e.sendBuf = sd.sendBuf /\ e.clkNum = sd.clkNum
             d == SpiSetting(sd, known)
             w == SetEn(usi, {})
             h == [srec EXCEPT !.calls = @ + 1]
             s == [SpiState EXCEPT !.d = SpiSetting(@, known), !.u = SetEn(@, {}),
                                   !.h = [srec EXCEPT !.calls = @ + 1]]
             t == SpiSetSs(s, ss)
             b == ss = "hw"
             c == [d EXCEPT !.hwSs = b, !.state = "conf"]
             e == IF ss = "keep" THEN d ELSE c
             l == IF ss = "hw" THEN FALSE ELSE sline
             f == SpiSetting(e, TRUE)
             v == SetEn(w, {"usi", "fm"})
  <1>2. s = [d |-> d, u |-> w, l |-> sline, h |-> h]
    <2> DEFINE z == SpiState
               z1 == [z EXCEPT !.d = d]
               z2 == [z1 EXCEPT !.u = w]
    <2>1. z = [d |-> sd, u |-> usi, l |-> sline, h |-> srec]
      BY DEF SpiState
    <2>2. s = [z2 EXCEPT !.h = h]
      <3>1. z.d = sd /\ z1.u = usi
        BY <2>1
      <3> HIDE DEF z, h
      <3> QED
        BY <3>1 DEF z, h
    <2> HIDE DEF z, d, w, h, s
    <2>3. z1 = [d |-> d, u |-> usi, l |-> sline, h |-> srec]
      BY <2>1
    <2> HIDE DEF z1
    <2>4. z2 = [d |-> d, u |-> w, l |-> sline, h |-> srec]
      BY <2>3
    <2> HIDE DEF z2
    <2> QED
      BY <2>2, <2>4
  <1>3. Same(d)
    BY DEF SpiSetting, SpiDriver
  <1>4. Same(c)
    <2> DEFINE c1 == [d EXCEPT !.hwSs = b]
    <2>1. b \in BOOLEAN /\ c = [c1 EXCEPT !.state = "conf"]
      OBVIOUS
    <2> HIDE DEF b, d, c
    <2>2. Same(c1)
      BY <1>3, <2>1 DEF SpiDriver
    <2> HIDE DEF c1
    <2> QED
      BY <2>1, <2>2 DEF SpiDriver
  <1> HIDE DEF c
  <1>5. Same(e)
    BY <1>3, <1>4
  <1> HIDE DEF d
  <1>6. t = [d |-> e, u |-> w, l |-> l, h |-> h]
    <2>1. CASE ss = "keep"
      <3>1. t = s /\ e = d /\ l = sline
        BY <2>1 DEF SpiSetSs
      <3> HIDE DEF t, s, e, l, w, h
      <3> QED
        BY <1>2, <3>1
    <2>2. CASE ss # "keep"
      <3>1. s.d = d /\ s.l = sline
        <4> HIDE DEF s
        <4> QED
          BY <1>2
      <3>2. t = [[s EXCEPT !.d = c] EXCEPT !.l = l]
        <4> HIDE DEF s
        <4> QED
          BY <2>2, <3>1 DEF SpiSetSs, c
      <3>3. e = c
        BY <2>2
      <3> HIDE DEF t, s, e, l, w, h
      <3> QED
        BY <1>2, <3>2, <3>3
    <2> QED
      BY <2>1, <2>2
  <1> HIDE DEF e
  <1>7. Same(f)
    BY <1>5 DEF SpiSetting, SpiDriver
  <1>8. l \in BOOLEAN
    OBVIOUS
  <1>9. SpiBecomes(IF ~first THEN s ELSE IF ~last THEN t
                   ELSE [t EXCEPT !.d = SpiSetting(@, TRUE), !.u = SetEn(@, {"usi", "fm"})])
    BY <1>1
  <1>10. [t EXCEPT !.d = SpiSetting(@, TRUE), !.u = SetEn(@, {"usi", "fm"})]
           = [d |-> f, u |-> v, l |-> l, h |-> h]
    <2> DEFINE t1 == [t EXCEPT !.d = f]
    <2>1. t.d = e /\ t.u = w
      <3> HIDE DEF t
      <3> QED
        BY <1>6
    <2>2. t1.u = w
      <3> HIDE DEF t
      <3> QED
        BY <1>6
    <2>3. [t EXCEPT !.d = SpiSetting(@, TRUE), !.u = SetEn(@, {"usi", "fm"})] = [t1 EXCEPT !.u = v]
      BY <2>1, <2>2
    <2> HIDE DEF t, f, v, l, h, w
    <2>4. t1 = [d |-> f, u |-> w, l |-> l, h |-> h]
      BY <1>6
    <2>5. [t1 EXCEPT !.u = v] = [d |-> f, u |-> v, l |-> l, h |-> h]
      <3> HIDE DEF t1
      <3> QED
        BY <2>4
    <2> QED
      BY <2>3, <2>5
  <1> HIDE DEF s, t, l, f, v, w, h
  <1>11. CASE ~first
    <2>1. sd' = d /\ usi' = w /\ sline' = sline /\ srec' = h
      BY <1>2, <1>9, <1>11 DEF SpiBecomes
    <2> QED
      BY <1>3, <2>1 DEF w, h
  <1>12. CASE first /\ ~last
    <2>1. sd' = e /\ usi' = w /\ sline' = l /\ srec' = h
      BY <1>6, <1>9, <1>12 DEF SpiBecomes
    <2> QED
      BY <1>5, <1>8, <2>1 DEF w, h
  <1>13. CASE first /\ last
    <2>1. sd' = f /\ usi' = v /\ sline' = l /\ srec' = h
      BY <1>9, <1>10, <1>13 DEF SpiBecomes
    <2> QED
      BY <1>7, <1>8, <2>1 DEF v, w, h
  <1> QED
    BY <1>11, <1>12, <1>13

\* Configuration, with no transfer running; an error leaves the port off.
LEMMA SpiConfigStep ==
  ASSUME SpiInv, SpiConfig
  PROVE  SpiInv' /\ ~sd.busy
PROOF
  <1>1. /\ isr' = isr /\ smain' = smain /\ MainRuns
        /\ smain.call = "free" /\ ~sd.busy /\ "TX_EMPTY" \notin usi.ie
    BY DEF SpiConfig, SpiFree
  <1>2. /\ SpiGood(sd, usi, sline, srec, smain, isr) /\ ~isr.on
        /\ sd \in SpiDriver /\ usi \in Ports /\ sline \in BOOLEAN /\ srec \in SpiHistory
    BY <1>1, SpiMainFinds
  <1>3. Quiet(sd, usi, smain, isr)
    BY <1>1, SpiIsQuiet
  <1>4. QuietPort(usi, usi) /\ QuietDriver(sd) /\ SameHistory(srec, srec)
    BY <1>3, QuietItself
  <1> DEFINE h == [srec EXCEPT !.calls = @ + 1]
             w == SetEn(usi, {})
             v == SetEn(w, {"usi", "fm"})
  <1>5. PICK e \in SpiDriver, l \in BOOLEAN, u \in {w, v} :
           /\ sd' = e /\ usi' = u /\ sline' = l /\ srec' = h
           /\ e.busy = sd.busy /\ e.sendBuf = sd.sendBuf /\ e.clkNum = sd.clkNum
    BY <1>2, ConfigIs
  <1>6. SameHistory(srec, h)
    BY <1>2, CallCounted
  <1>7. QuietPort(usi, w) /\ w \in Ports /\ QuietPort(usi, v)
    <2>1. {} \in SUBSET EnBit /\ {"usi", "fm"} \in SUBSET EnBit
      BY DEF EnBit
    <2>2. QuietPort(usi, w) /\ w \in Ports
      BY <1>2, <1>4, <2>1, QuietSetEn
    <2> HIDE DEF w
    <2> QED
      BY <1>2, <2>1, <2>2, QuietSetEn
  <1> HIDE DEF h, w, v
  <1>8. QuietDriver(e) /\ QuietPort(usi, u)
    BY <1>4, <1>5, <1>7 DEF QuietDriver
  <1>9. SpiGood(e, u, l, h, smain, isr)
    BY <1>2, <1>3, <1>6, <1>8, StaysQuiet
  <1> QED
    BY <1>1, <1>5, <1>9 DEF SpiInv

\* Changes that the transfer does not see.
LEMMA SpiSame ==
  ASSUME NEW d, NEW u, NEW l, NEW h, NEW m, NEW i, SpiGood(d, u, l, h, m, i),
         NEW e \in SpiDriver, NEW l2 \in BOOLEAN, NEW k, SameHistory(h, k), l2 = l \/ ~d.busy,
         e.state = d.state, e.busy = d.busy, e.mode = d.mode, e.hwSs = d.hwSs, e.tot = d.tot,
         e.sendNum = d.sendNum, e.recvNum = d.recvNum, e.clkNum = d.clkNum, e.trNum = d.trNum,
         e.sendBuf = d.sendBuf, e.recvBuf = d.recvBuf
  PROVE  SpiGood(e, u, l2, k, m, i)
PROOF
  <1>1. SpiTypes(e, u, l2, k, m, i)
    BY DEF SpiGood, SpiTypes, SameHistory
  <1>2. SpiOpen(e, u, m, i)
    BY DEF SpiGood, SpiOpen
  <1>3. SpiWords(e, u, k, m)
    BY DEF SpiGood, SpiWords, Rest, SameHistory
  <1>4. SpiLine(e, l2)
    BY DEF SpiGood, SpiLine
  <1>5. Stored(k.got, k.sent)
    BY DEF SpiGood, SameHistory
  <1>6. SpiPhase(e, u, k, m, i)
    <2>1. Quiet(d, u, m, i) => Quiet(e, u, m, i)
      BY DEF Quiet
    <2>2. Aborted(d, u, h, m, i) => Aborted(e, u, k, m, i)
      BY DEF Aborted, Counted, SameHistory
    <2>3. Runs(d, u, h, m, i) => Runs(e, u, k, m, i)
      BY DEF Runs, Counted, SameHistory
    <2>4. Sends(d, u, m, i) => Sends(e, u, m, i)
      BY DEF Sends, Polls
    <2>5. Transfers(d, u, h, m, i) => Transfers(e, u, k, m, i)
      BY DEF Transfers, Polls, SameHistory
    <2>6. Receives(d, u, h, m, i) => Receives(e, u, k, m, i)
      BY DEF Receives, Polls, SameHistory
    <2> QED
      BY <2>1, <2>2, <2>3, <2>4, <2>5, <2>6 DEF SpiGood, SpiPhase
  <1> QED
    BY <1>1, <1>2, <1>3, <1>4, <1>5, <1>6 DEF SpiGood

\* The next call will poll, or not; a transfer may run.
LEMMA SpiBlockModeStep ==
  ASSUME SpiInv, SpiBlockMode
  PROVE  SpiInv' /\ sd'.busy = sd.busy
PROOF
  <1>1. /\ usi' = usi /\ isr' = isr /\ sline' = sline /\ smain' = smain /\ MainRuns
        /\ sd' = [sd EXCEPT !.block = ~@] /\ srec' = [srec EXCEPT !.calls = @ + 1]
    BY DEF SpiBlockMode, SpiFree
  <1>2. /\ SpiGood(sd, usi, sline, srec, smain, isr)
        /\ sd \in SpiDriver /\ sline \in BOOLEAN /\ srec \in SpiHistory
    BY <1>1, SpiMainFinds
  <1> DEFINE e == [sd EXCEPT !.block = ~@]
             k == [srec EXCEPT !.calls = @ + 1]
  <1>3. /\ e \in SpiDriver
        /\ e.state = sd.state /\ e.busy = sd.busy /\ e.mode = sd.mode /\ e.hwSs = sd.hwSs /\ e.tot = sd.tot
        /\ e.sendNum = sd.sendNum /\ e.recvNum = sd.recvNum /\ e.clkNum = sd.clkNum
        /\ e.trNum = sd.trNum /\ e.sendBuf = sd.sendBuf /\ e.recvBuf = sd.recvBuf
    BY <1>2 DEF SpiDriver
  <1>4. SameHistory(srec, k)
    BY <1>2, CallCounted
  <1> HIDE DEF e, k
  <1>5. SpiGood(e, usi, sline, k, smain, isr)
    BY <1>2, <1>3, <1>4, SpiSame
  <1> QED
    BY <1>1, <1>3, <1>5 DEF SpiInv, e, k

\* Main drives the select line itself, with no transfer running.
LEMMA SpiSsControlStep ==
  ASSUME SpiInv, SpiSsControl
  PROVE  SpiInv' /\ sd' = sd
PROOF
  <1>1. isr' = isr /\ smain' = smain /\ MainRuns /\ ~sd.busy
    BY DEF SpiSsControl, SpiFree
  <1>2. PICK active \in BOOLEAN : SpiBecomes(SsControl(SpiState, active))
    BY DEF SpiSsControl
  <1>3. /\ SpiGood(sd, usi, sline, srec, smain, isr)
        /\ sd \in SpiDriver /\ sline \in BOOLEAN /\ srec \in SpiHistory /\ usi \in Ports
    BY <1>1, SpiMainFinds
  <1> DEFINE s == SpiState
             t == SsControl(s, active)
  <1>4. s \in SpiStates /\ s.d = sd /\ s.u = usi /\ s.h = srec
    BY <1>3 DEF SpiState, SpiStates
  <1>5. SpiBecomes(t)
    BY <1>2
  <1> HIDE DEF s
  <1>6. t \in SpiStates /\ t.d = s.d /\ t.u = s.u /\ t.h = s.h
    BY <1>4, SsIs
  <1> HIDE DEF t
  <1>7. t.l \in BOOLEAN
    BY <1>6 DEF SpiStates
  <1>8. sd' = sd /\ usi' = usi /\ srec' = srec /\ sline' = t.l
    BY <1>4, <1>5, <1>6 DEF SpiBecomes
  <1>9. SameHistory(srec, srec)
    BY <1>3 DEF SameHistory
  <1>10. SpiGood(sd, usi, t.l, srec, smain, isr)
    BY <1>1, <1>3, <1>7, <1>9, SpiSame
  <1> QED
    BY <1>1, <1>8, <1>10 DEF SpiInv

\* Main starts a send or transfer by interrupt.
LEMMA SpiStartStep ==
  ASSUME SpiInv, SpiStart
  PROVE  SpiInv' /\ sd'.busy
PROOF
  <1>1. /\ isr' = isr /\ smain' = smain /\ MainRuns /\ smain.call = "free" /\ ~sd.busy
        /\ "TX_EMPTY" \notin usi.ie /\ sd.state = "conf"
    BY DEF SpiStart, SpiReady, SpiFree
  <1>2. /\ SpiGood(sd, usi, sline, srec, smain, isr)
        /\ sd \in SpiDriver /\ sline \in BOOLEAN /\ srec \in SpiHistory /\ usi \in Ports
    BY <1>1, SpiMainFinds
  <1>3. Quiet(sd, usi, smain, isr)
    BY <1>1, SpiIsQuiet
  <1> DEFINE s == SpiState
  <1>4. s \in SpiStates /\ s.d = sd /\ s.u = usi /\ s.h = srec /\ s.l = sline
    BY <1>2 DEF SpiState, SpiStates
  <1>5. PICK r \in SpiStarts(s) : SpiBecomes(r)
    BY DEF SpiStart
  <1> HIDE DEF s
  <1>6. SpiGood(s.d, s.u, s.l, s.h, smain, isr) /\ Quiet(s.d, s.u, smain, isr) /\ s.d.state # "none"
    BY <1>1, <1>2, <1>3, <1>4
  <1>7. r \in SpiStates /\ SpiGood(r.d, r.u, r.l, r.h, smain, isr) /\ r.d.busy = TRUE
    BY <1>4, <1>6, StartGood
  <1> QED
    BY <1>1, <1>5, <1>7 DEF SpiInv, SpiBecomes

\* An abort, at any time of a transfer, or with none running.
LEMMA SpiAbortStep ==
  ASSUME SpiInv, SpiAbort
  PROVE  SpiInv' /\ usi'.en = {}
PROOF
  <1> DEFINE u == usi
             f == u.tx
             b == sd.sendBuf
             d1 == [sd EXCEPT !.busy = FALSE]
             d2 == [d1 EXCEPT !.recvBuf = FALSE]
             e == [d2 EXCEPT !.recvNum = 0]
             v == SetEn(u, {})
             z == (srec.drop \cup Els(f)) \cup Els(b)
             c == srec.calls + 1
             k1 == [srec EXCEPT !.calls = c]
             k == [k1 EXCEPT !.drop = z]
  <1>1. isr' = isr /\ smain' = smain /\ MainRuns /\ smain.call = "free" /\ sd.state # "none"
    BY DEF SpiAbort, SpiFree
  <1>2. /\ SpiGood(sd, u, sline, srec, smain, isr) /\ ~isr.on /\ isr.left = {} /\ isr \in Handler
        /\ sd \in SpiDriver /\ sline \in BOOLEAN /\ srec \in SpiHistory /\ u \in Ports /\ u.mode = "spi"
        /\ smain \in SpiPoll
    BY <1>1, SpiMainFinds
  <1>3. sd' = e /\ usi' = v /\ sline' = sline /\ srec' = k
    <2>1. k = [srec EXCEPT !.calls = @ + 1,
                           !.drop = @ \cup {usi.tx[j] : j \in DOMAIN usi.tx}
                                      \cup {sd.sendBuf[j] : j \in DOMAIN sd.sendBuf}]
      BY <1>2 DEF SpiHistory, Els
    <2>2. e = [sd EXCEPT !.busy = FALSE, !.recvBuf = FALSE, !.recvNum = 0]
      OBVIOUS
    <2> HIDE DEF k, e
    <2> QED
      BY <2>1, <2>2 DEF SpiAbort, SpiBecomes, SpiState
  <1>4. f \in Seq(Nat) /\ b \in Seq(Nat) /\ srec.out \in Seq(Nat)
    BY <1>2 DEF Ports, Port, SpiDriver, SpiHistory
  <1>5. /\ InParts(srec.out, f, b) /\ ((Els(srec.out) \cup Els(f) \cup Els(b)) \ {0}) \cup srec.drop = 1..srec.given
        /\ 0 \notin Els(b) /\ 0 \notin Els(f)
    BY <1>1, <1>2 DEF SpiGood, SpiWords, Rest
  <1>6. z \in SUBSET Nat /\ c \in Nat
    <2>1. srec.drop \in SUBSET Nat /\ srec.calls \in Nat
      BY <1>2 DEF SpiHistory
    <2>2. Els(f) \in SUBSET Nat /\ Els(b) \in SUBSET Nat
      BY <1>4 DEF Els
    <2> QED
      BY <2>1, <2>2
  <1> HIDE DEF z, c
  <1>7. /\ k1 \in SpiHistory /\ k1.out = srec.out /\ k1.given = srec.given /\ k1.sent = srec.sent
        /\ k1.got = srec.got
    BY <1>2, <1>6 DEF SpiHistory
  <1> HIDE DEF k1
  <1>8. /\ k \in SpiHistory /\ k.out = srec.out /\ k.given = srec.given /\ k.sent = srec.sent
        /\ k.got = srec.got /\ k.drop = z
    BY <1>6, <1>7 DEF SpiHistory
  <1> HIDE DEF k
  <1>9. /\ d1 \in SpiDriver /\ d1.busy = FALSE /\ d1.state = sd.state /\ d1.sendBuf = b
        /\ d1.clkNum = sd.clkNum /\ d1.sendNum = sd.sendNum
    BY <1>2 DEF SpiDriver
  <1> HIDE DEF d1
  <1>10. /\ d2 \in SpiDriver /\ d2.busy = FALSE /\ d2.state = sd.state /\ d2.sendBuf = b
         /\ d2.clkNum = sd.clkNum /\ d2.sendNum = sd.sendNum /\ d2.recvBuf = FALSE
    BY <1>9 DEF SpiDriver
  <1> HIDE DEF d2
  <1>11. /\ e \in SpiDriver /\ e.busy = FALSE /\ e.state = sd.state /\ e.sendBuf = b
         /\ e.clkNum = sd.clkNum /\ e.sendNum = sd.sendNum /\ e.recvBuf = FALSE
    BY <1>10 DEF SpiDriver
  <1> HIDE DEF e
  <1>12. Access(v, u, {}, u.ie, f, u.rx, u.ip)
    <2>1. {} \in SUBSET EnBit
      OBVIOUS
    <2> QED
      BY <1>2, <2>1, SetEnIs
  <1> HIDE DEF v
  <1>13. v \in Ports /\ v.mode = u.mode /\ v.en = {} /\ v.ie = u.ie /\ v.tx = << >> /\ v.ip \subseteq v.ie
    BY <1>12 DEF Access
  <1>14. SpiTypes(e, v, sline, k, smain, isr)
    BY <1>2, <1>8, <1>11, <1>13 DEF SpiTypes
  <1>15. SpiOpen(e, v, smain, isr)
    BY <1>1, <1>2, <1>11, <1>13 DEF SpiOpen
  <1>16. SpiWords(e, v, k, smain)
    <2>1. InParts(srec.out, << >>, b)
      BY <1>5, PartsLess
    <2>2. ((Els(srec.out) \cup Els(<< >>) \cup Els(b)) \ {0}) \cup z = 1..srec.given
      BY <1>5, OfNothing DEF z
    <2>3. Rest(e, smain) = b
      BY <1>1, <1>11 DEF Rest
    <2> QED
      BY <1>5, <1>8, <1>11, <1>13, <2>1, <2>2, <2>3, OfNothing DEF SpiWords
  <1>17. SpiLine(e, sline) /\ Stored(k.got, k.sent)
    BY <1>2, <1>8, <1>11 DEF SpiLine, SpiGood
  <1>18. SpiPhase(e, v, k, smain, isr)
    <2>1. CASE Quiet(sd, u, smain, isr)
      BY <1>11, <1>13, <2>1 DEF Quiet, SpiPhase
    <2>2. CASE Counted(sd, u, smain, isr)
      <3>1. Counted(e, v, smain, isr)
        BY <1>11, <1>13, <2>2 DEF Counted
      <3>2. Els(e.sendBuf) \subseteq k.drop
        BY <1>8, <1>11 DEF z
      <3> QED
        BY <1>11, <1>13, <3>1, <3>2 DEF SpiPhase, Aborted
    <2> QED
      BY <1>1, <1>2, <2>1, <2>2 DEF SpiGood, SpiPhase, Aborted, Runs, Sends, Transfers, Receives
  <1>19. SpiGood(e, v, sline, k, smain, isr)
    BY <1>14, <1>15, <1>16, <1>17, <1>18 DEF SpiGood
  <1> QED
    BY <1>1, <1>3, <1>13, <1>19 DEF SpiInv

-----------------------------------------------------------------------------
(* The calls of main that poll.                                            *)

PollDriver(d, e) ==
  e \in SpiDriver /\ e.state = d.state /\ e.hwSs = d.hwSs /\ e.busy = TRUE /\ e.sendBuf = << >> /\ e.clkNum = 0

PollPort(u, v) ==
  v \in Ports /\ v.mode = u.mode /\ v.en = EnBit /\ v.ie = {} /\ v.ip = {} /\ v.tx = << >>

\* The start of a polling send or transfer on a quiet driver.
LEMMA StartsPolling ==
  ASSUME NEW d, NEW u, NEW l, NEW h, NEW m, NEW i, SpiGood(d, u, l, h, m, i), Quiet(d, u, m, i),
         d.state # "none", ~i.on,
         NEW e, NEW v, NEW l2 \in BOOLEAN, NEW k, NEW q, NEW ws, GivenNext(h, ws),
         PollDriver(d, e), PollPort(u, v), d.hwSs => l2, HistoryOn(h, k, ws),
         q \in SpiPoll, q.left = ws, q.once = 0,
         \/ q.call = "send" /\ e.mode = "tx" /\ e.sendNum = Len(ws)
         \/ q.call = "transfer" /\ e.mode = "txrx" /\ e.tot = Len(ws) /\ v.rx = << >>
  PROVE  SpiGood(e, v, l2, k, q, i)
PROOF
  <1>1. SpiTypes(e, v, l2, k, q, i)
    BY DEF SpiGood, SpiTypes, PollDriver, PollPort, HistoryOn
  <1>2. SpiOpen(e, v, q, i)
    BY DEF SpiGood, SpiOpen, PollDriver, PollPort
  <1>3. m.call = "free" /\ i.left = {} /\ Rest(d, m) = << >> /\ u.tx = << >>
    BY DEF Quiet, SpiNoPoll, Rest
  <1>4. h.given \in Nat /\ Len(<< >>) = 0 /\ ws \in Seq(Nat) /\ Len(ws) \in Nat
    BY DEF SpiGood, SpiTypes, SpiHistory, GivenNext
  <1>5. SpiWords(e, v, k, q)
    <2>1. /\ InParts(h.out, << >>, << >>)
          /\ (Els(h.out) \ {0}) \cup h.drop = 1..h.given
      BY <1>3, OfNothing DEF SpiGood, SpiWords
    <2>2. Els(h.out) \in SUBSET (0..h.given)
      BY <1>4, <2>1
    <2>3. InParts(h.out, << >>, ws)
      BY <2>1, <2>2, OfNothing DEF InParts, Under, GivenNext
    <2>4. ((Els(h.out) \cup Els(<< >>) \cup Els(ws)) \ {0}) \cup h.drop = 1..(h.given + Len(ws))
      BY <1>4, <2>1, OfNothing DEF GivenNext
    <2>5. Rest(e, q) = ws
      BY DEF Rest
    <2> QED
      BY <2>3, <2>4, <2>5, OfNothing DEF SpiWords, PollDriver, PollPort, HistoryOn
  <1>6. SpiLine(e, l2)
    BY DEF SpiLine, PollDriver
  <1>7. Stored(k.got, k.sent)
    BY <1>4 DEF Stored, HistoryOn
  <1>8. Polls(e, v, q, i)
    BY <1>3, <1>4, FifoAssumption DEF Polls, PollDriver, PollPort
  <1>9. SpiPhase(e, v, k, q, i)
    <2>1. CASE q.call = "send" /\ e.mode = "tx" /\ e.sendNum = Len(ws)
      BY <1>4, <1>8, <2>1 DEF SpiPhase, Sends, PollPort
    <2>2. CASE q.call = "transfer" /\ e.mode = "txrx" /\ e.tot = Len(ws) /\ v.rx = << >>
      <3>1. Chain(k.got, v.rx, v.tx, q.left, k.sent)
        BY <1>4, <2>2, ChainNew DEF PollPort, HistoryOn
      <3> QED
        BY <1>4, <1>8, <2>2, <3>1 DEF SpiPhase, Transfers, PollPort
    <2> QED
      BY <2>1, <2>2
  <1> QED
    BY <1>1, <1>2, <1>5, <1>6, <1>7, <1>9 DEF SpiGood

\* What main finds when it may start a transfer.
LEMMA SpiReadyFinds ==
  ASSUME SpiInv, SpiReady
  PROVE  /\ SpiGood(sd, usi, sline, srec, smain, isr) /\ Quiet(sd, usi, smain, isr)
         /\ ~isr.on /\ sd.state # "none" /\ ~sd.busy
         /\ sd \in SpiDriver /\ usi \in Ports /\ srec \in SpiHistory
         /\ SpiState \in SpiStates /\ SpiState.d = sd /\ SpiState.u = usi /\ SpiState.h = srec
         /\ SpiState.l = sline
PROOF
  <1>1. MainRuns /\ smain.call = "free" /\ ~sd.busy /\ "TX_EMPTY" \notin usi.ie /\ sd.state = "conf"
    BY DEF SpiReady, SpiFree
  <1>2. /\ SpiGood(sd, usi, sline, srec, smain, isr) /\ ~isr.on
        /\ sd \in SpiDriver /\ sline \in BOOLEAN /\ srec \in SpiHistory /\ usi \in Ports
    BY <1>1, SpiMainFinds
  <1>3. Quiet(sd, usi, smain, isr)
    BY <1>1, SpiIsQuiet
  <1>4. /\ SpiState \in SpiStates /\ SpiState.d = sd /\ SpiState.u = usi /\ SpiState.h = srec
        /\ SpiState.l = sline
    BY <1>2 DEF SpiState, SpiStates
  <1> QED
    BY <1>1, <1>2, <1>3, <1>4

\* The same as a call of main.
LEMMA PollStarts ==
  ASSUME SpiInv, NEW n \in SpiLens, NEW e, NEW call, SpiPollStart(call, e, n),
         PollDriver(sd, e),
         \/ call = "send" /\ e.mode = "tx" /\ e.sendNum = n
         \/ call = "transfer" /\ e.mode = "txrx" /\ e.tot = n
  PROVE  SpiInv' /\ sd' = e
PROOF
  <1> DEFINE s == SpiState
             g == Given(s, n)
             v == IF call = "send" THEN SetEn(usi, EnBit) ELSE Restart(usi, Fifos, EnBit)
             x == [g EXCEPT !.d = e, !.u = v]
             t == SsControl(x, TRUE)
             ws == NewWords(s, n)
             q == [call |-> call, left |-> ws, once |-> 0]
  <1>1. n \in Nat /\ SpiReady /\ isr' = isr /\ smain' = q
    BY SpiAssumption DEF SpiPollStart
  <1>2. /\ SpiGood(sd, usi, sline, srec, smain, isr) /\ Quiet(sd, usi, smain, isr)
        /\ ~isr.on /\ sd.state # "none"
        /\ sd \in SpiDriver /\ usi \in Ports /\ srec \in SpiHistory
        /\ s \in SpiStates /\ s.d = sd /\ s.u = usi /\ s.h = srec
    BY <1>1, SpiReadyFinds
  <1> HIDE DEF s
  <1>3. /\ g \in SpiStates /\ g.u = s.u
        /\ g.h.given = s.h.given + n /\ g.h.sent = ws /\ g.h.got = << >>
        /\ g.h.out = s.h.out /\ g.h.drop = s.h.drop
        /\ ws \in Seq(Nat) /\ Len(ws) = n /\ Els(ws) = (s.h.given + 1)..(s.h.given + n)
        /\ Rising(ws) /\ \A S \in SUBSET (0..s.h.given) : Under(S, Els(ws))
    BY <1>1, <1>2, GivenIs
  <1>4. SpiBecomes(t)
    <2>1. x = [g EXCEPT !.d = e, !.u = IF call = "send" THEN SetEn(@, EnBit) ELSE Restart(@, Fifos, EnBit)]
      <3> DEFINE y == [g EXCEPT !.d = e]
      <3>1. y.u = usi
        BY <1>2, <1>3 DEF SpiStates
      <3> HIDE DEF g
      <3>2. x = [y EXCEPT !.u = v]
        OBVIOUS
      <3>3. [g EXCEPT !.d = e, !.u = IF call = "send" THEN SetEn(@, EnBit) ELSE Restart(@, Fifos, EnBit)]
              = [y EXCEPT !.u = IF call = "send" THEN SetEn(y.u, EnBit) ELSE Restart(y.u, Fifos, EnBit)]
        OBVIOUS
      <3> HIDE DEF y
      <3> QED
        BY <3>1, <3>2, <3>3
    <2> HIDE DEF x
    <2> QED
      BY <2>1 DEF SpiPollStart, s
  <1> HIDE DEF g, ws
  <1>5. GivenNext(srec, ws) /\ HistoryOn(srec, g.h, ws)
    <2>1. g.h \in SpiHistory
      BY <1>3 DEF SpiStates
    <2> QED
      BY <1>1, <1>2, <1>3, <2>1 DEF GivenNext, HistoryOn
  <1>6. PollPort(usi, v) /\ (call = "transfer" => v.rx = << >>)
    <2>1. usi.ie = {} /\ usi.tx = << >> /\ EnBit \in SUBSET EnBit /\ "tx" \in Fifos /\ "rx" \in Fifos
      BY <1>2 DEF Quiet, Fifos
    <2>2. CASE call = "send"
      <3>1. Access(v, usi, EnBit, usi.ie, usi.tx, usi.rx, usi.ip)
        BY <1>2, <2>1, <2>2, SetEnIs
      <3> HIDE DEF v
      <3> QED
        BY <2>1, <2>2, <3>1 DEF Access, PollPort
    <2>3. CASE call # "send"
      <3>1. Access(v, usi, EnBit, usi.ie, << >>, << >>, usi.ip)
        BY <1>2, <2>1, <2>3, RestartIs
      <3> HIDE DEF v
      <3> QED
        BY <2>1, <3>1 DEF Access, PollPort
    <2> QED
      BY <2>2, <2>3
  <1> HIDE DEF v
  <1>7. x \in SpiStates /\ x.d = e /\ x.u = v /\ x.h = g.h
    BY <1>3, <1>6 DEF SpiStates, PollDriver, PollPort
  <1> HIDE DEF x
  <1>8. t \in SpiStates /\ t.d = e /\ t.u = v /\ t.h = g.h /\ (e.hwSs => t.l)
    BY <1>7, SsIs
  <1> HIDE DEF t
  <1>9. t.l \in BOOLEAN /\ (sd.hwSs => t.l)
    BY <1>8 DEF SpiStates, PollDriver
  <1>10. q \in SpiPoll /\ q.left = ws /\ q.once = 0 /\ q.call = call
    BY <1>3 DEF SpiPoll
  <1> HIDE DEF q
  <1>11. \/ q.call = "send" /\ e.mode = "tx" /\ e.sendNum = Len(ws)
         \/ q.call = "transfer" /\ e.mode = "txrx" /\ e.tot = Len(ws) /\ v.rx = << >>
    BY <1>3, <1>6, <1>10
  <1>12. SpiGood(e, v, t.l, g.h, q, isr)
    <2> DEFINE l == t.l
               k == g.h
               m == smain
    <2>1. SpiGood(sd, usi, sline, srec, m, isr) /\ Quiet(sd, usi, m, isr) /\ ~isr.on /\ sd.state # "none"
      BY <1>2
    <2>2. l \in BOOLEAN /\ (sd.hwSs => l)
      BY <1>9
    <2>3. GivenNext(srec, ws) /\ HistoryOn(srec, k, ws)
      BY <1>5
    <2>4. PollDriver(sd, e) /\ PollPort(usi, v)
      BY <1>6
    <2>5. q \in SpiPoll /\ q.left = ws /\ q.once = 0
      BY <1>10
    <2> HIDE DEF l, k, m
    <2>6. SpiGood(e, v, l, k, q, isr)
      BY <1>11, <2>1, <2>2, <2>3, <2>4, <2>5, StartsPolling
    <2> QED
      BY <2>6 DEF l, k
  <1> QED
    BY <1>1, <1>4, <1>8, <1>12 DEF SpiInv, SpiBecomes

\* Main starts a polling send.
LEMMA SpiPollSendStep ==
  ASSUME SpiInv, SpiPollSend
  PROVE  SpiInv' /\ sd'.busy
PROOF
  <1>1. PICK n \in SpiLens :
          SpiPollStart("send", [sd EXCEPT !.busy = TRUE, !.tot = n, !.stat = "send", !.mode = "tx",
                                          !.sendNum = n], n)
    BY DEF SpiPollSend
  <1>2. n \in Nat /\ SpiReady
    BY <1>1, SpiAssumption DEF SpiPollStart
  <1>3. sd \in SpiDriver /\ sd.sendBuf = << >> /\ sd.clkNum = 0
    BY <1>2, SpiReadyFinds DEF Quiet
  <1> DEFINE e1 == [sd EXCEPT !.busy = TRUE]
             e2 == [e1 EXCEPT !.tot = n]
             e3 == [e2 EXCEPT !.stat = "send"]
             e4 == [e3 EXCEPT !.mode = "tx"]
             e == [e4 EXCEPT !.sendNum = n]
  <1>4. SpiPollStart("send", e, n)
    BY <1>1
  <1> HIDE DEF e
  <1>5. PollDriver(sd, e1)
    BY <1>3 DEF PollDriver, SpiDriver
  <1> HIDE DEF e1
  <1>6. PollDriver(sd, e2)
    BY <1>2, <1>5 DEF PollDriver, SpiDriver
  <1> HIDE DEF e2
  <1>7. PollDriver(sd, e3)
    BY <1>6 DEF PollDriver, SpiDriver
  <1> HIDE DEF e3
  <1>8. PollDriver(sd, e4) /\ e4.mode = "tx"
    BY <1>7 DEF PollDriver, SpiDriver
  <1> HIDE DEF e4
  <1>9. PollDriver(sd, e) /\ e.mode = "tx" /\ e.sendNum = n
    BY <1>2, <1>8 DEF PollDriver, SpiDriver, e
  <1>10. SpiInv' /\ sd' = e
    BY <1>4, <1>9, PollStarts
  <1> QED
    BY <1>9, <1>10 DEF PollDriver

\* Main starts a polling transfer.
LEMMA SpiPollTransferStep ==
  ASSUME SpiInv, SpiPollTransfer
  PROVE  SpiInv' /\ sd'.busy
PROOF
  <1>1. PICK n \in SpiLens :
          SpiPollStart("transfer", [sd EXCEPT !.busy = TRUE, !.tot = n, !.stat = "tran", !.mode = "txrx"], n)
    BY DEF SpiPollTransfer
  <1>2. n \in Nat /\ SpiReady
    BY <1>1, SpiAssumption DEF SpiPollStart
  <1>3. sd \in SpiDriver /\ sd.sendBuf = << >> /\ sd.clkNum = 0
    BY <1>2, SpiReadyFinds DEF Quiet
  <1> DEFINE e1 == [sd EXCEPT !.busy = TRUE]
             e2 == [e1 EXCEPT !.tot = n]
             e3 == [e2 EXCEPT !.stat = "tran"]
             e == [e3 EXCEPT !.mode = "txrx"]
  <1>4. SpiPollStart("transfer", e, n)
    BY <1>1
  <1> HIDE DEF e
  <1>5. PollDriver(sd, e1)
    BY <1>3 DEF PollDriver, SpiDriver
  <1> HIDE DEF e1
  <1>6. PollDriver(sd, e2) /\ e2.tot = n
    BY <1>2, <1>5 DEF PollDriver, SpiDriver
  <1> HIDE DEF e2
  <1>7. PollDriver(sd, e3) /\ e3.tot = n
    BY <1>6 DEF PollDriver, SpiDriver
  <1> HIDE DEF e3
  <1>8. PollDriver(sd, e) /\ e.mode = "txrx" /\ e.tot = n
    BY <1>7 DEF PollDriver, SpiDriver, e
  <1>9. SpiInv' /\ sd' = e
    BY <1>4, <1>8, PollStarts
  <1> QED
    BY <1>8, <1>9 DEF PollDriver

\* The dummies of a receive are no words.
LEMMA Dummies ==
  ASSUME NEW n \in Nat \ {0}
  PROVE  LET ws == [i \in 1..n |-> 0]
         IN  ws \in Seq(Nat) /\ Len(ws) = n /\ Els(ws) = {0} /\ Rising(ws)
PROOF
  <1> DEFINE ws == [i \in 1..n |-> 0]
  <1>1. ws \in Seq(Nat) /\ Len(ws) = n /\ DOMAIN ws = 1..n /\ \A i \in 1..n : ws[i] = 0
    OBVIOUS
  <1> HIDE DEF ws
  <1>2. 1 \in 1..n
    OBVIOUS
  <1>3. Els(ws) = {0}
    BY <1>1, <1>2 DEF Els
  <1>4. Rising(ws)
    BY <1>1 DEF Rising
  <1> QED
    BY <1>1, <1>3, <1>4 DEF ws

\* Main starts a receive: one dummy for each word.
LEMMA SpiPollReceiveStep ==
  ASSUME SpiInv, SpiPollReceive
  PROVE  SpiInv' /\ sd'.busy
PROOF
  <1>1. PICK n \in SpiLens :
       /\ SpiBecomes(SsControl([SpiState EXCEPT
            !.d = [sd EXCEPT !.busy = TRUE, !.tot = n, !.stat = "rcv", !.recvNum = n, !.recvBuf = TRUE],
            !.h = [srec EXCEPT !.sent = [i \in 1..n |-> 0], !.got = << >>]], TRUE))
       /\ smain' = [call |-> "receive", left |-> [i \in 1..n |-> 0], once |-> 0]
    BY DEF SpiPollReceive
  <1>2. n \in Nat \ {0} /\ SpiReady /\ isr' = isr
    BY SpiAssumption DEF SpiPollReceive
  <1> DEFINE s == SpiState
             ws == [i \in 1..n |-> 0]
             e1 == [sd EXCEPT !.busy = TRUE]
             e2 == [e1 EXCEPT !.tot = n]
             e3 == [e2 EXCEPT !.stat = "rcv"]
             e4 == [e3 EXCEPT !.recvNum = n]
             e == [e4 EXCEPT !.recvBuf = TRUE]
             k1 == [srec EXCEPT !.sent = ws]
             k == [k1 EXCEPT !.got = << >>]
             x == [s EXCEPT !.d = e, !.h = k]
             t == SsControl(x, TRUE)
             q == [call |-> "receive", left |-> ws, once |-> 0]
  <1>3. /\ SpiGood(sd, usi, sline, srec, smain, isr) /\ Quiet(sd, usi, smain, isr)
        /\ ~isr.on /\ sd.state # "none"
        /\ sd \in SpiDriver /\ usi \in Ports /\ srec \in SpiHistory
        /\ s \in SpiStates /\ s.d = sd /\ s.u = usi /\ s.h = srec
    BY <1>2, SpiReadyFinds
  <1>4. SpiBecomes(t) /\ smain' = q
    BY <1>1
  <1>5. ws \in Seq(Nat) /\ Len(ws) = n /\ Els(ws) = {0} /\ Rising(ws)
    BY <1>2, Dummies
  <1> HIDE DEF ws, s
  <1>6. sd.sendBuf = << >> /\ sd.clkNum = 0 /\ n \in Nat
    BY <1>2, <1>3 DEF Quiet
  <1>7. PollDriver(sd, e1)
    BY <1>3, <1>6 DEF PollDriver, SpiDriver
  <1> HIDE DEF e1
  <1>8. PollDriver(sd, e2)
    BY <1>6, <1>7 DEF PollDriver, SpiDriver
  <1> HIDE DEF e2
  <1>9. PollDriver(sd, e3)
    BY <1>8 DEF PollDriver, SpiDriver
  <1> HIDE DEF e3
  <1>10. PollDriver(sd, e4) /\ e4.recvNum = n
    BY <1>6, <1>9 DEF PollDriver, SpiDriver
  <1> HIDE DEF e4
  <1>11. PollDriver(sd, e) /\ e.recvNum = n
    BY <1>10 DEF PollDriver, SpiDriver
  <1> HIDE DEF e
  <1>12. /\ k1 \in SpiHistory /\ k1.given = srec.given /\ k1.out = srec.out /\ k1.drop = srec.drop
         /\ k1.sent = ws
    BY <1>3, <1>5 DEF SpiHistory
  <1> HIDE DEF k1
  <1>13. /\ k \in SpiHistory /\ k.given = srec.given /\ k.out = srec.out /\ k.drop = srec.drop
         /\ k.sent = ws /\ k.got = << >>
    BY <1>12, EmptySeq DEF SpiHistory
  <1> HIDE DEF k
  <1>14. x \in SpiStates /\ x.d = e /\ x.u = usi /\ x.h = k
    BY <1>3, <1>11, <1>13 DEF SpiStates, PollDriver
  <1> HIDE DEF x
  <1>15. t \in SpiStates /\ t.d = e /\ t.u = usi /\ t.h = k /\ (e.hwSs => t.l)
    BY <1>14, SsIs
  <1> HIDE DEF t
  <1>16. q \in SpiPoll /\ q.left = ws /\ q.once = 0 /\ q.call = "receive"
    BY <1>5 DEF SpiPoll
  <1> HIDE DEF q
  <1> DEFINE l == t.l
  <1>17. SpiTypes(e, usi, l, k, q, isr)
    BY <1>3, <1>11, <1>13, <1>15, <1>16 DEF SpiGood, SpiTypes, PollDriver, SpiStates
  <1> HIDE DEF l
  <1>18. SpiOpen(e, usi, q, isr)
    BY <1>3, <1>11 DEF SpiGood, SpiOpen, PollDriver
  <1>19. SpiWords(e, usi, k, q)
    <2>1. /\ InParts(srec.out, << >>, << >>)
          /\ (Els(srec.out) \ {0}) \cup srec.drop = 1..srec.given
      BY <1>3, OfNothing DEF SpiGood, SpiWords, Quiet, SpiNoPoll, Rest
    <2>2. InParts(srec.out, << >>, ws)
      BY <1>5, <2>1, OfNothing DEF InParts, Under
    <2>3. ((Els(srec.out) \cup Els(<< >>) \cup Els(ws)) \ {0}) \cup srec.drop = 1..srec.given
      BY <1>5, <2>1, OfNothing
    <2>4. Rest(e, q) = ws /\ usi.tx = << >>
      BY <1>3, <1>16 DEF Rest, Quiet
    <2> QED
      BY <1>11, <1>13, <2>2, <2>3, <2>4, OfNothing DEF SpiWords, PollDriver
  <1>20. SpiLine(e, l)
    BY <1>15 DEF SpiLine, l
  <1>21. Len(<< >>) = 0
    OBVIOUS
  <1>22. Stored(k.got, k.sent)
    BY <1>13, <1>21 DEF Stored
  <1>23. Receives(e, usi, k, q, isr)
    <2>1. Polls(e, usi, q, isr)
      BY <1>3, <1>11, <1>16, <1>21, FifoAssumption DEF Polls, PollDriver, Quiet
    <2>2. Chain(k.got, << >>, << >>, q.left, k.sent)
      BY <1>5, <1>13, <1>16, ChainNew
    <2> QED
      BY <1>5, <1>6, <1>11, <1>16, <2>1, <2>2 DEF Receives
  <1>24. SpiGood(e, usi, l, k, q, isr)
    BY <1>17, <1>18, <1>19, <1>20, <1>22, <1>23 DEF SpiGood, SpiPhase
  <1> QED
    BY <1>2, <1>4, <1>11, <1>15, <1>24 DEF SpiInv, SpiBecomes, PollDriver, l

\* What a polling call finds between its rounds.
LEMMA SpiPollFinds ==
  ASSUME SpiInv, smain.call # "free"
  PROVE  /\ Sends(sd, usi, smain, isr) \/ Transfers(sd, usi, srec, smain, isr)
              \/ Receives(sd, usi, srec, smain, isr)
         /\ Polls(sd, usi, smain, isr) /\ ~isr.on
         /\ sd \in SpiDriver /\ usi \in Ports /\ usi.mode = "spi" /\ sline \in BOOLEAN
         /\ srec \in SpiHistory /\ smain \in SpiPoll /\ isr \in Handler
         /\ smain.left \in Seq(Nat) /\ smain.once \in Nat /\ usi.tx \in Seq(Nat) /\ usi.rx \in Seq(Nat)
         /\ srec.got \in Seq(Nat) /\ srec.sent \in Seq(Nat) /\ srec.out \in Seq(Nat)
         /\ SpiTypes(sd, usi, sline, srec, smain, isr) /\ SpiOpen(sd, usi, smain, isr)
         /\ SpiWords(sd, usi, srec, smain)
         /\ SpiLine(sd, sline) /\ Stored(srec.got, srec.sent)
PROOF
  <1>1. /\ SpiTypes(sd, usi, sline, srec, smain, isr) /\ SpiOpen(sd, usi, smain, isr)
        /\ SpiWords(sd, usi, srec, smain)
        /\ SpiLine(sd, sline) /\ Stored(srec.got, srec.sent) /\ SpiPhase(sd, usi, srec, smain, isr)
    BY DEF SpiInv, SpiGood
  <1>2. /\ Sends(sd, usi, smain, isr) \/ Transfers(sd, usi, srec, smain, isr)
              \/ Receives(sd, usi, srec, smain, isr)
    <2>1. SpiNoPoll.call = "free"
      BY DEF SpiNoPoll
    <2>2. ~Counted(sd, usi, smain, isr)
      BY <2>1 DEF Counted
    <2>3. /\ ~Quiet(sd, usi, smain, isr) /\ ~Aborted(sd, usi, srec, smain, isr)
          /\ ~Runs(sd, usi, srec, smain, isr)
      BY <2>1, <2>2 DEF Quiet, Aborted, Runs
    <2> QED
      BY <1>1, <2>3 DEF SpiPhase
  <1>3. Polls(sd, usi, smain, isr) /\ ~isr.on
    BY <1>1, <1>2 DEF Sends, Transfers, Receives, SpiOpen
  <1>4. /\ sd \in SpiDriver /\ usi \in Ports /\ usi.mode = "spi" /\ sline \in BOOLEAN
        /\ srec \in SpiHistory /\ smain \in SpiPoll /\ isr \in Handler
    BY <1>1 DEF SpiTypes
  <1>5. smain.left \in Seq(Nat) /\ smain.once \in Nat
    BY <1>4 DEF SpiPoll
  <1>6. usi.tx \in Seq(Nat) /\ usi.rx \in Seq(Nat)
    BY <1>4 DEF Ports, Port
  <1>7. srec.got \in Seq(Nat) /\ srec.sent \in Seq(Nat) /\ srec.out \in Seq(Nat)
    BY <1>4 DEF SpiHistory
  <1> QED
    BY <1>1, <1>2, <1>3, <1>4, <1>5, <1>6, <1>7

\* A polling call writes a round; a receive restarts the port before it.
LEMMA SpiPollWriteStep ==
  ASSUME SpiInv, SpiPollWrite
  PROVE  SpiInv' /\ sd'.busy = sd.busy
PROOF
  <1> DEFINE f == smain.left
             n == Round(Len(f))
             p == SubSeq(f, 1, n)
             q == SubSeq(f, n + 1, Len(f))
             u == IF smain.call = "receive" THEN Restart(usi, Fifos, EnBit) ELSE usi
             v == WriteTx(u, p)
             m1 == [smain EXCEPT !.left = q]
             m == [m1 EXCEPT !.once = n]
             e == IF smain.call = "receive" THEN [sd EXCEPT !.mode = "txrx"] ELSE sd
  <1>1. /\ isr' = isr /\ sline' = sline /\ srec' = srec /\ smain.call # "free" /\ smain.once = 0
        /\ f # << >> /\ usi' = v /\ sd' = e
    BY DEF SpiPollWrite
  <1>2. smain' = m
    BY DEF SpiPollWrite
  <1>3. /\ Sends(sd, usi, smain, isr) \/ Transfers(sd, usi, srec, smain, isr)
             \/ Receives(sd, usi, srec, smain, isr)
        /\ Polls(sd, usi, smain, isr) /\ ~isr.on
        /\ sd \in SpiDriver /\ usi \in Ports /\ usi.mode = "spi"
        /\ srec \in SpiHistory /\ smain \in SpiPoll
        /\ f \in Seq(Nat) /\ usi.tx \in Seq(Nat) /\ usi.rx \in Seq(Nat)
        /\ srec.got \in Seq(Nat) /\ srec.sent \in Seq(Nat) /\ srec.out \in Seq(Nat)
        /\ SpiTypes(sd, usi, sline, srec, smain, isr) /\ SpiOpen(sd, usi, smain, isr)
        /\ SpiWords(sd, usi, srec, smain)
        /\ SpiLine(sd, sline) /\ Stored(srec.got, srec.sent)
    BY <1>1, SpiPollFinds
  <1>4. Len(f) \in Nat /\ Len(f) # 0 /\ n \in 0..Len(f) /\ n \in Nat /\ n # 0 /\ n <= Fifo
    <2>1. Len(f) \in Nat /\ Len(f) # 0
      BY <1>1, <1>3
    <2> QED
      BY <2>1, FifoAssumption DEF Round
  <1>5. p \in Seq(Nat) /\ Len(p) = n /\ q \in Seq(Nat) /\ Len(q) = Len(f) - n /\ Els(f) = Els(p) \cup Els(q)
    BY <1>3, <1>4, OfSplit
  <1>6. usi.tx = << >>
    <2>1. Len(usi.tx) <= 0
      BY <1>1, <1>3 DEF Polls
    <2> QED
      BY <1>3, <2>1
  <1>7. /\ u \in Ports /\ u.mode = "spi" /\ u.ie = {} /\ u.tx = << >> /\ u.en = EnBit
        /\ (smain.call = "receive" => u.rx = << >>)
        /\ (smain.call # "receive" => u.rx = usi.rx)
    <2>1. usi.ie = {} /\ EnBit \in SUBSET EnBit /\ "tx" \in Fifos /\ "rx" \in Fifos
      BY <1>3 DEF Polls, Fifos
    <2>2. CASE smain.call = "receive"
      <3>1. Access(u, usi, EnBit, usi.ie, << >>, << >>, usi.ip)
        BY <1>3, <2>1, <2>2, RestartIs
      <3> HIDE DEF u
      <3> QED
        BY <1>3, <2>1, <2>2, <3>1 DEF Access
    <2>3. CASE smain.call # "receive"
      BY <1>3, <1>6, <2>1, <2>3 DEF Sends, Transfers, Receives
    <2> QED
      BY <2>2, <2>3
  <1> HIDE DEF u, p, q, n
  <1>8. Access(v, u, u.en, u.ie, Newest(u.tx \o p), u.rx, u.ip)
    BY <1>5, <1>7, WriteTxIs
  <1> HIDE DEF v
  <1>9. Newest(u.tx \o p) = p
    <2>1. u.tx \o p = p
      BY <1>5, <1>7, ConcatEmptySeq
    <2> QED
      BY <1>4, <1>5, <2>1, NewestIs
  <1>10. v \in Ports /\ v.mode = "spi" /\ v.ie = {} /\ v.ip \subseteq {} /\ v.en = EnBit /\ v.tx = p /\ v.rx = u.rx
    BY <1>7, <1>8, <1>9 DEF Access, EnBit
  <1>11. m1 \in SpiPoll /\ m1.left = q /\ m1.call = smain.call
    BY <1>3, <1>5 DEF SpiPoll
  <1> HIDE DEF m1
  <1>12. m \in SpiPoll /\ m.left = q /\ m.call = smain.call /\ m.once = n
    BY <1>4, <1>11 DEF SpiPoll
  <1> HIDE DEF m
  <1>13. /\ e \in SpiDriver /\ e.state = sd.state /\ e.busy = sd.busy /\ e.hwSs = sd.hwSs
         /\ e.sendBuf = sd.sendBuf /\ e.clkNum = sd.clkNum /\ e.sendNum = sd.sendNum
         /\ e.recvNum = sd.recvNum /\ e.tot = sd.tot
         /\ (smain.call = "receive" => e.mode = "txrx") /\ (smain.call # "receive" => e = sd)
    BY <1>3, ZenonT(20) DEF SpiDriver
  <1> HIDE DEF e
  <1>14. SpiTypes(e, v, sline, srec, m, isr)
    BY <1>3, <1>10, <1>12, <1>13 DEF SpiTypes
  <1>15. SpiOpen(e, v, m, isr)
    BY <1>3, <1>10, <1>12, <1>13 DEF SpiOpen, Polls
  <1>16. SpiWords(e, v, srec, m)
    <2>1. /\ InParts(srec.out, << >>, f) /\ ((Els(srec.out) \cup Els(f)) \ {0}) \cup srec.drop = 1..srec.given
      BY <1>1, <1>3, <1>6, OfNothing DEF SpiWords, Rest
    <2>2. InParts(srec.out, p, q)
      BY <1>3, <1>4, <2>1, PartsWrite DEF p, q
    <2>3. ((Els(srec.out) \cup Els(p) \cup Els(q)) \ {0}) \cup srec.drop = 1..srec.given
      BY <1>5, <2>1
    <2>4. Rest(e, m) = q /\ 0 \notin Els(e.sendBuf)
      BY <1>1, <1>3, <1>12, <1>13, OfNothing DEF Rest, Polls
    <2> QED
      BY <1>1, <1>10, <1>12, <2>2, <2>3, <2>4 DEF SpiWords
  <1>17. SpiLine(e, sline)
    BY <1>3, <1>13 DEF SpiLine
  <1>18. Polls(e, v, m, isr)
    BY <1>3, <1>4, <1>5, <1>10, <1>12, <1>13 DEF Polls
  <1>19. m.once + Len(m.left) = smain.once + Len(f)
    BY <1>1, <1>4, <1>5, <1>12
  <1>20. ASSUME u.rx = << >>, Chain(srec.got, << >>, << >>, f, srec.sent)
         PROVE  /\ Len(v.tx) + Len(v.rx) = m.once
                /\ Chain(srec.got, v.rx, v.tx, m.left, srec.sent)
    <2> DEFINE a == srec.got
               c == srec.sent
    <2>1. /\ a \in Seq(Nat) /\ c \in Seq(Nat) /\ << >> \in Seq(Nat) /\ f \in Seq(Nat) /\ n \in 0..Len(f)
          /\ Chain(a, << >>, << >>, f, c) /\ Len(<< >>) = 0
      BY <1>3, <1>4, <1>20, EmptySeq
    <2> HIDE DEF a, c, f
    <2>2. Chain(a, << >>, SubSeq(f, 1, n), SubSeq(f, n + 1, Len(f)), c)
      BY <2>1, ChainWrite
    <2> QED
      BY <1>4, <1>5, <1>10, <1>12, <1>20, <2>1, <2>2 DEF a, c, p, q
  <1>21. SpiPhase(e, v, srec, m, isr)
    <2>1. CASE Sends(sd, usi, smain, isr)
      <3>1. smain.call = "send"
        BY <2>1 DEF Sends
      <3> QED
        BY <1>10, <1>12, <1>13, <1>18, <1>19, <2>1, <3>1 DEF Sends, SpiPhase
    <2>2. CASE Transfers(sd, usi, srec, smain, isr)
      <3>1. smain.call = "transfer" /\ u.rx = << >>
        <4>1. Len(usi.tx) = 0
          BY <1>6
        <4>2. Len(usi.rx) = 0
          BY <1>1, <1>3, <2>2, <4>1 DEF Transfers
        <4>3. usi.rx = << >>
          BY <1>3, <4>2
        <4> QED
          BY <1>7, <2>2, <4>3 DEF Transfers
      <3>2. Chain(srec.got, << >>, << >>, f, srec.sent)
        BY <1>6, <1>7, <2>2, <3>1 DEF Transfers
      <3>3. Len(v.tx) + Len(v.rx) = m.once /\ Chain(srec.got, v.rx, v.tx, m.left, srec.sent)
        BY <1>20, <3>1, <3>2
      <3> QED
        BY <1>10, <1>12, <1>13, <1>18, <1>19, <2>2, <3>1, <3>3 DEF Transfers, SpiPhase
    <2>3. CASE Receives(sd, usi, srec, smain, isr)
      <3>1. smain.call = "receive" /\ u.rx = << >> /\ Chain(srec.got, << >>, << >>, f, srec.sent)
        BY <1>1, <1>7, <2>3 DEF Receives
      <3>2. Len(v.tx) + Len(v.rx) = m.once /\ Chain(srec.got, v.rx, v.tx, m.left, srec.sent)
        BY <1>20, <3>1
      <3>3. m.once # 0
        BY <1>4, <1>12
      <3> QED
        BY <1>10, <1>12, <1>13, <1>18, <1>19, <2>3, <3>1, <3>2, <3>3 DEF Receives, SpiPhase
    <2> QED
      BY <1>3, <2>1, <2>2, <2>3
  <1>22. SpiGood(e, v, sline, srec, m, isr)
    BY <1>3, <1>14, <1>15, <1>16, <1>17, <1>21 DEF SpiGood
  <1> QED
    BY <1>1, <1>2, <1>13, <1>22 DEF SpiInv

\* A polling call reads the answers of its round, all of them.
LEMMA SpiPollReadStep ==
  ASSUME SpiInv, SpiPollRead
  PROVE  SpiInv' /\ sd'.busy = sd.busy
PROOF
  <1> DEFINE n == smain.once
             m == [smain EXCEPT !.once = 0]
             f == smain.left
             r == usi.rx
  <1>1. /\ isr' = isr /\ sline' = sline /\ n > 0 /\ usi.tx = << >> /\ smain' = m
    BY DEF SpiPollRead
  <1>2. smain.call # "free"
    BY <1>1 DEF SpiInv, SpiGood, SpiPhase, Quiet, Aborted, Counted, Runs, Sends, Transfers, Receives, SpiNoPoll
  <1>3. /\ Sends(sd, usi, smain, isr) \/ Transfers(sd, usi, srec, smain, isr)
             \/ Receives(sd, usi, srec, smain, isr)
        /\ Polls(sd, usi, smain, isr) /\ ~isr.on
        /\ sd \in SpiDriver /\ usi \in Ports /\ usi.mode = "spi"
        /\ srec \in SpiHistory /\ smain \in SpiPoll /\ n \in Nat
        /\ f \in Seq(Nat) /\ r \in Seq(Nat)
        /\ srec.got \in Seq(Nat) /\ srec.sent \in Seq(Nat)
        /\ SpiTypes(sd, usi, sline, srec, smain, isr) /\ SpiOpen(sd, usi, smain, isr)
        /\ SpiWords(sd, usi, srec, smain)
        /\ SpiLine(sd, sline) /\ Stored(srec.got, srec.sent)
    BY <1>2, SpiPollFinds
  <1>4. m \in SpiPoll /\ m.left = f /\ m.call = smain.call /\ m.once = 0
    BY <1>3 DEF SpiPoll
  <1>5. Len(f) \in Nat /\ Len(r) \in Nat /\ Len(<< >>) = 0
    BY <1>3
  <1> HIDE DEF m
  <1>6. CASE Sends(sd, usi, smain, isr)
    <2> DEFINE x == sd.sendNum - n
               e == [sd EXCEPT !.sendNum = x]
    <2>1. smain.call = "send" /\ x = Len(f)
      BY <1>3, <1>5, <1>6 DEF Sends
    <2>2. usi' = usi /\ srec' = srec /\ sd' = e
      BY <2>1 DEF SpiPollRead
    <2> HIDE DEF x
    <2>3. /\ e \in SpiDriver /\ e.state = sd.state /\ e.busy = sd.busy /\ e.hwSs = sd.hwSs
          /\ e.sendBuf = sd.sendBuf /\ e.clkNum = sd.clkNum /\ e.mode = sd.mode /\ e.sendNum = x
      BY <1>3, <1>5, <2>1 DEF SpiDriver
    <2> HIDE DEF e
    <2>4. SpiTypes(e, usi, sline, srec, m, isr) /\ SpiOpen(e, usi, m, isr) /\ SpiLine(e, sline)
      BY <1>3, <1>4, <2>3 DEF SpiTypes, SpiOpen, SpiLine
    <2>5. SpiWords(e, usi, srec, m)
      BY <1>3, <1>4, <2>3 DEF SpiWords, Rest
    <2>6. Polls(e, usi, m, isr)
      BY <1>1, <1>3, <1>4, <1>5, <2>3, FifoAssumption DEF Polls
    <2>7. Sends(e, usi, m, isr)
      BY <1>4, <1>5, <1>6, <2>1, <2>3, <2>6 DEF Sends
    <2>8. SpiGood(e, usi, sline, srec, m, isr)
      BY <1>3, <2>4, <2>5, <2>7 DEF SpiGood, SpiPhase
    <2> QED
      BY <1>1, <2>2, <2>3, <2>8 DEF SpiInv
  <1>7. CASE ~Sends(sd, usi, smain, isr)
    <2> DEFINE v == TakeRx(usi, n)
               b == SubSeq(r, 1, n)
               c == srec.got \o b
               k == [srec EXCEPT !.got = c]
               e == sd'
               a == SubSeq(r, n + 1, Len(r))
    <2>1. /\ usi.en = EnBit /\ sd.mode = "txrx" /\ Chain(srec.got, r, << >>, f, srec.sent)
          /\ Len(r) = n
      BY <1>1, <1>3, <1>5, <1>7 DEF Transfers, Receives
    <2>2. smain.call # "send"
      BY <1>3, <1>7 DEF Transfers, Receives
    <2>3. usi' = v /\ srec' = k
      BY <2>2 DEF SpiPollRead
    <2>4. b = r /\ a = << >>
      <3>1. b = r
        BY <1>3, <2>1, SubSeqFull
      <3>2. n + 1 \in Int /\ Len(r) \in Int /\ Len(r) < n + 1
        BY <1>3, <1>5, <2>1
      <3> QED
        BY <3>1, <3>2, SubSeqEmpty
    <2>5. Access(v, usi, usi.en, usi.ie, usi.tx, a, usi.ip)
      <3>1. n \in 0..Len(r)
        BY <1>3, <2>1
      <3> QED
        BY <1>3, <3>1, TakeRxIs
    <2> HIDE DEF v, a
    <2>6. /\ v \in Ports /\ v.mode = "spi" /\ v.ie = {} /\ v.ip \subseteq {} /\ v.en = EnBit
          /\ v.tx = << >> /\ v.rx = << >>
      BY <1>1, <1>3, <2>1, <2>4, <2>5 DEF Access, Polls
    <2>7. c = srec.got \o r /\ c \in Seq(Nat)
      BY <1>3, <2>4, ConcatProperties
    <2>8. Chain(c, << >>, << >>, f, srec.sent)
      <3> DEFINE g == srec.got
                 z == srec.sent
      <3>1. /\ g \in Seq(Nat) /\ z \in Seq(Nat) /\ << >> \in Seq(Nat) /\ f \in Seq(Nat) /\ r \in Seq(Nat)
            /\ Chain(g, r, << >>, f, z) /\ c = g \o r
        BY <1>3, <2>1, <2>7, EmptySeq
      <3> HIDE DEF g, z, f, r, c
      <3>2. Chain(g \o r, << >>, << >>, f, z)
        BY <3>1, ChainRead
      <3> QED
        BY <3>1, <3>2 DEF z
    <2> HIDE DEF b, c
    <2>9. /\ k \in SpiHistory /\ k.given = srec.given /\ k.out = srec.out /\ k.drop = srec.drop
          /\ k.sent = srec.sent /\ k.got = c
      BY <1>3, <2>7 DEF SpiHistory
    <2> HIDE DEF k
    <2>10. Stored(k.got, k.sent)
      <3> DEFINE z == srec.sent
      <3>1. z \in Seq(Nat) /\ << >> \in Seq(Nat) /\ f \in Seq(Nat) /\ Chain(c, << >>, << >>, f, z)
        BY <1>3, <2>8, EmptySeq
      <3> HIDE DEF z, f
      <3>2. Stored(c, z)
        BY <2>7, <3>1, ChainStored
      <3> QED
        BY <2>9, <3>2 DEF z
    <2>11. /\ e \in SpiDriver /\ e.state = sd.state /\ e.busy = sd.busy /\ e.hwSs = sd.hwSs
           /\ e.sendBuf = sd.sendBuf /\ e.clkNum = sd.clkNum /\ e.mode = sd.mode
           /\ (smain.call = "transfer" => e.tot = Len(f))
           /\ (smain.call = "receive" => e.recvNum = Len(f))
      <3>1. CASE Transfers(sd, usi, srec, smain, isr)
        <4> DEFINE x == sd.tot - n
                   d == [sd EXCEPT !.tot = x]
        <4>1. smain.call = "transfer" /\ x = Len(f)
          BY <1>3, <1>5, <3>1 DEF Transfers
        <4>2. e = d
          BY <4>1 DEF SpiPollRead
        <4> HIDE DEF x, e
        <4>3. /\ d \in SpiDriver /\ d.state = sd.state /\ d.busy = sd.busy /\ d.hwSs = sd.hwSs
              /\ d.sendBuf = sd.sendBuf /\ d.clkNum = sd.clkNum /\ d.mode = sd.mode /\ d.tot = x
          BY <1>3, <1>5, <4>1 DEF SpiDriver
        <4> QED
          BY <4>1, <4>2, <4>3
      <3>2. CASE Receives(sd, usi, srec, smain, isr)
        <4> DEFINE x == sd.recvNum - n
                   d == [sd EXCEPT !.recvNum = x]
        <4>1. smain.call = "receive" /\ x = Len(f)
          BY <1>3, <1>5, <3>2 DEF Receives
        <4>2. e = d
          BY <4>1 DEF SpiPollRead
        <4> HIDE DEF x, e
        <4>3. /\ d \in SpiDriver /\ d.state = sd.state /\ d.busy = sd.busy /\ d.hwSs = sd.hwSs
              /\ d.sendBuf = sd.sendBuf /\ d.clkNum = sd.clkNum /\ d.mode = sd.mode /\ d.recvNum = x
          BY <1>3, <1>5, <4>1 DEF SpiDriver
        <4> QED
          BY <4>1, <4>2, <4>3
      <3> QED
        BY <1>3, <1>7, <3>1, <3>2
    <2> HIDE DEF e
    <2>12. SpiTypes(e, v, sline, k, m, isr) /\ SpiOpen(e, v, m, isr) /\ SpiLine(e, sline)
      BY <1>3, <1>4, <2>6, <2>9, <2>11 DEF SpiTypes, SpiOpen, SpiLine, Polls
    <2>13. SpiWords(e, v, k, m)
      BY <1>1, <1>3, <1>4, <2>6, <2>9, <2>11 DEF SpiWords, Rest
    <2>14. Polls(e, v, m, isr)
      BY <1>3, <1>4, <1>5, <2>6, <2>11, FifoAssumption DEF Polls
    <2>15. Chain(k.got, v.rx, v.tx, m.left, k.sent) /\ Len(v.tx) + Len(v.rx) = m.once
      BY <1>4, <1>5, <2>6, <2>8, <2>9
    <2>16. m.once + Len(m.left) = Len(f)
      BY <1>4, <1>5
    <2>17. SpiPhase(e, v, k, m, isr)
      <3>1. CASE Transfers(sd, usi, srec, smain, isr)
        <4>1. m.call = "transfer"
          BY <1>4, <3>1 DEF Transfers
        <4> QED
          BY <1>4, <2>1, <2>6, <2>11, <2>14, <2>15, <2>16, <4>1 DEF Transfers, SpiPhase
      <3>2. CASE Receives(sd, usi, srec, smain, isr)
        <4>1. m.call = "receive"
          BY <1>4, <3>2 DEF Receives
        <4>2. Chain(k.got, << >>, << >>, m.left, k.sent)
          BY <1>4, <2>8, <2>9
        <4> QED
          BY <1>4, <2>11, <2>14, <2>16, <4>1, <4>2 DEF Receives, SpiPhase
      <3> QED
        BY <1>3, <1>7, <3>1, <3>2
    <2>18. SpiGood(e, v, sline, k, m, isr)
      BY <2>10, <2>12, <2>13, <2>17 DEF SpiGood
    <2> QED
      BY <1>1, <2>3, <2>11, <2>18 DEF SpiInv, e
  <1> QED
    BY <1>6, <1>7

\* A polling call ends, with all the answers if it stores them.
LEMMA SpiPollEndStep ==
  ASSUME SpiInv, SpiPollEnd
  PROVE  /\ SpiInv'
         /\ sd.mode = "txrx" /\ usi'.en # {} => srec'.got = srec.sent
PROOF
  <1> DEFINE s == SpiState
             e == [sd EXCEPT !.busy = FALSE]
             en == IF smain.call = "send" THEN {} ELSE {"usi", "fm"}
             v == SetEn(usi, en)
             x == [s EXCEPT !.d = e, !.u = v]
             t == SsControl(x, FALSE)
  <1>1. /\ isr' = isr /\ smain.call # "free" /\ smain.once = 0 /\ smain.left = << >> /\ smain' = SpiNoPoll
    BY DEF SpiPollEnd
  <1>2. /\ Sends(sd, usi, smain, isr) \/ Transfers(sd, usi, srec, smain, isr)
             \/ Receives(sd, usi, srec, smain, isr)
        /\ Polls(sd, usi, smain, isr) /\ ~isr.on
        /\ sd \in SpiDriver /\ usi \in Ports /\ usi.mode = "spi" /\ sline \in BOOLEAN
        /\ srec \in SpiHistory /\ isr \in Handler
        /\ usi.tx \in Seq(Nat) /\ usi.rx \in Seq(Nat)
        /\ srec.got \in Seq(Nat) /\ srec.sent \in Seq(Nat)
        /\ SpiTypes(sd, usi, sline, srec, smain, isr) /\ SpiOpen(sd, usi, smain, isr)
        /\ SpiWords(sd, usi, srec, smain) /\ Stored(srec.got, srec.sent)
    BY <1>1, SpiPollFinds
  <1>3. s \in SpiStates /\ s.d = sd /\ s.u = usi /\ s.h = srec
    BY <1>2 DEF SpiState, SpiStates
  <1>4. SpiBecomes(t)
    <2>1. x = [s EXCEPT !.d = [sd EXCEPT !.busy = FALSE],
                        !.u = SetEn(@, IF smain.call = "send" THEN {} ELSE {"usi", "fm"})]
      <3> DEFINE y == [s EXCEPT !.d = e]
      <3>1. y.u = usi
        BY <1>3 DEF SpiStates
      <3>2. x = [y EXCEPT !.u = v]
        OBVIOUS
      <3>3. [s EXCEPT !.d = [sd EXCEPT !.busy = FALSE],
                      !.u = SetEn(@, IF smain.call = "send" THEN {} ELSE {"usi", "fm"})]
              = [y EXCEPT !.u = SetEn(y.u, en)]
        OBVIOUS
      <3> HIDE DEF y
      <3> QED
        BY <3>1, <3>2, <3>3
    <2> HIDE DEF x
    <2> QED
      BY <2>1 DEF SpiPollEnd
  <1>5. en \in SUBSET EnBit
    BY DEF EnBit
  <1>6. Access(v, usi, en, usi.ie, usi.tx, usi.rx, usi.ip)
    BY <1>2, <1>5, SetEnIs
  <1> HIDE DEF s, v
  <1>7. usi.tx = << >> /\ usi.ie = {}
    <2>1. Len(usi.tx) <= 0 /\ usi.ie = {}
      BY <1>1, <1>2 DEF Polls
    <2> QED
      BY <1>2, <2>1
  <1>8. v \in Ports /\ v.mode = "spi" /\ v.ie = {} /\ v.ip \subseteq {} /\ v.tx = << >> /\ v.en = en
    BY <1>2, <1>6, <1>7 DEF Access
  <1>9. e \in SpiDriver /\ e.state = sd.state /\ e.busy = FALSE /\ e.sendBuf = << >> /\ e.clkNum = 0
    BY <1>2 DEF SpiDriver, Polls
  <1> HIDE DEF e
  <1>10. x \in SpiStates /\ x.d = e /\ x.u = v /\ x.h = srec
    BY <1>3, <1>8, <1>9 DEF SpiStates
  <1> HIDE DEF x
  <1>11. t \in SpiStates /\ t.d = e /\ t.u = v /\ t.h = srec
    BY <1>10, SsIs
  <1> HIDE DEF t
  <1> DEFINE l == t.l
  <1>12. l \in BOOLEAN
    BY <1>11 DEF SpiStates
  <1>13. sd' = e /\ usi' = v /\ sline' = l /\ srec' = srec
    BY <1>4, <1>11 DEF SpiBecomes
  <1> HIDE DEF l
  <1>14. SpiTypes(e, v, l, srec, SpiNoPoll, isr)
    <2>1. SpiNoPoll \in SpiPoll
      BY EmptySeq DEF SpiNoPoll, SpiPoll
    <2> QED
      BY <1>2, <1>8, <1>9, <1>12, <2>1 DEF SpiTypes
  <1>15. SpiOpen(e, v, SpiNoPoll, isr)
    BY <1>2, <1>8, <1>9 DEF SpiOpen
  <1>16. SpiWords(e, v, srec, SpiNoPoll)
    <2>1. Rest(e, SpiNoPoll) = << >> /\ Rest(sd, smain) = << >>
      BY <1>1, <1>9 DEF Rest, SpiNoPoll
    <2> QED
      BY <1>2, <1>7, <1>8, <1>9, <2>1, OfNothing DEF SpiWords
  <1>17. SpiLine(e, l)
    BY <1>9 DEF SpiLine
  <1>18. Quiet(e, v, SpiNoPoll, isr)
    BY <1>2, <1>8, <1>9 DEF Quiet, Polls
  <1>19. SpiGood(e, v, l, srec, SpiNoPoll, isr)
    BY <1>2, <1>14, <1>15, <1>16, <1>17, <1>18 DEF SpiGood, SpiPhase
  <1>20. ASSUME sd.mode = "txrx", en # {} PROVE srec.got = srec.sent
    <2>1. Chain(srec.got, << >>, << >>, << >>, srec.sent)
      <3>1. CASE Transfers(sd, usi, srec, smain, isr)
        <4>1. Len(usi.rx) = 0
          <5>1. Len(usi.tx) = 0 /\ Len(usi.rx) \in Nat
            BY <1>2, <1>7
          <5> QED
            BY <1>1, <3>1, <5>1 DEF Transfers
        <4>2. usi.rx = << >>
          BY <1>2, <4>1
        <4> QED
          BY <1>1, <1>7, <3>1, <4>2 DEF Transfers
      <3>2. CASE Receives(sd, usi, srec, smain, isr)
        BY <1>1, <3>2 DEF Receives
      <3> QED
        BY <1>2, <1>20, <3>1, <3>2 DEF Sends
    <2> DEFINE g == srec.got
               z == srec.sent
    <2>2. g \in Seq(Nat) /\ z \in Seq(Nat) /\ Chain(g, << >>, << >>, << >>, z)
      BY <1>2, <2>1
    <2> HIDE DEF g, z
    <2>3. g = z
      BY <2>2, ChainOver
    <2> QED
      BY <2>3 DEF g, z
  <1> QED
    BY <1>1, <1>8, <1>13, <1>19, <1>20 DEF SpiInv

-----------------------------------------------------------------------------
(* A transfer that runs can go on: what the port tells.                    *)

\* An empty FIFO is heard of: TX_EMPTY, where it is enabled, is unmasked and latched.
Heard(u) == "TX_EMPTY" \in u.ie => "TX_EMPTY" \in u.mask /\ (u.tx = << >> => "TX_EMPTY" \in u.ip)

SpiWired(d, u) == Heard(u) /\ (d.state # "none" => u.irq)

SpiAhead == SpiWired(sd, usi)

\* v comes of u by accesses that leave the interrupt line as it is.
HeardOn(v, u) == v \in Ports /\ v.irq = u.irq /\ (Heard(u) => Heard(v))

\* One after another.
LEMMA HeardTwice ==
  ASSUME NEW u, NEW v, NEW w, HeardOn(v, u), HeardOn(w, v)
  PROVE  HeardOn(w, u)
PROOF BY DEF HeardOn

\* An access that enables nothing new ...
LEMMA AccessHeard ==
  ASSUME NEW v, NEW u, NEW en, NEW ie, NEW tx, NEW rx, NEW ip, Access(v, u, en, ie, tx, rx, ip),
         ie \subseteq u.ie
  PROVE  HeardOn(v, u)
PROOF BY DEF Access, HeardOn, Heard

\* ... and each such access of this driver.
LEMMA AccessesHeard ==
  ASSUME NEW u \in Ports
  PROVE  /\ \A e \in SUBSET EnBit : HeardOn(SetEn(u, e), u)
         /\ \A s : HeardOn(ClearIrq(u, s), u)
         /\ \A ws \in Seq(Nat) : HeardOn(WriteTx(u, ws), u)
         /\ \A n \in 0..Len(u.rx) : HeardOn(TakeRx(u, n), u)
         /\ \A f : \A e \in SUBSET EnBit : HeardOn(Restart(u, f, e), u)
         /\ \A s \in SUBSET Intr : HeardOn(IrqOff(u, s), u)
         /\ u.tx # << >> => HeardOn(Shifted(u), u)
         /\ \A x \in Nat : HeardOn(Arrived(u, x), u)
PROOF
  <1>1. \A e \in SUBSET EnBit : HeardOn(SetEn(u, e), u)
    BY SetEnIs, AccessHeard
  <1>2. \A s : HeardOn(ClearIrq(u, s), u)
    BY ClearIrqIs, AccessHeard
  <1>3. \A ws \in Seq(Nat) : HeardOn(WriteTx(u, ws), u)
    BY WriteTxIs, AccessHeard
  <1>4. \A n \in 0..Len(u.rx) : HeardOn(TakeRx(u, n), u)
    BY TakeRxIs, AccessHeard
  <1>5. \A f : \A e \in SUBSET EnBit : HeardOn(Restart(u, f, e), u)
    <2> TAKE f
    <2> TAKE e \in SUBSET EnBit
    <2> DEFINE v == Restart(u, f, e)
               t == IF "tx" \in f THEN << >> ELSE u.tx
               r == IF "rx" \in f THEN << >> ELSE u.rx
    <2>1. Access(v, u, e, u.ie, t, r, u.ip)
      BY RestartIs
    <2> HIDE DEF v, t, r
    <2>2. HeardOn(v, u)
      BY <2>1, AccessHeard
    <2> QED
      BY <2>2 DEF v
  <1>6. \A s \in SUBSET Intr : HeardOn(IrqOff(u, s), u)
    <2> TAKE s \in SUBSET Intr
    <2>1. Access(IrqOff(u, s), u, u.en, u.ie \ s, u.tx, u.rx, u.ip)
      BY IrqOffIs
    <2>2. u.ie \ s \subseteq u.ie
      OBVIOUS
    <2> QED
      BY <2>1, <2>2, AccessHeard
  <1>7. u.tx # << >> => HeardOn(Shifted(u), u)
    BY ShiftedIs, AccessHeard
  <1>8. \A x \in Nat : HeardOn(Arrived(u, x), u)
    BY ArrivedIs, AccessHeard
  <1> QED
    BY <1>1, <1>2, <1>3, <1>4, <1>5, <1>6, <1>7, <1>8

\* Both starts enable TX_EMPTY, unmask it, and leave the FIFO empty.
LEMMA StartsHeard ==
  ASSUME NEW u \in Ports
  PROVE  /\ HeardOn(Unmask(SetIe(Restart(u, Fifos, EnBit), SpiIrqBits), SpiIrqBits), u)
         /\ HeardOn(IrqOn(Unmask(Restart(u, Fifos, EnBit), u.mask \cup SpiIrqBits), SpiIrqBits), u)
PROOF
  <1> DEFINE a == Restart(u, Fifos, EnBit)
             b == SetIe(a, SpiIrqBits)
             c == Unmask(b, SpiIrqBits)
             e == Unmask(a, u.mask \cup SpiIrqBits)
             f == IrqOn(e, SpiIrqBits)
  <1>1. /\ SpiIrqBits \in SUBSET Intr /\ EnBit \in SUBSET EnBit /\ SpiIrqBits = {"TX_EMPTY"}
    BY DEF SpiIrqBits, Intr
  <1>2. u.mask \cup SpiIrqBits \in SUBSET Intr
    BY <1>1 DEF Ports, Port
  <1>3. a \in Ports /\ a.irq = u.irq
    BY <1>1, AccessesHeard DEF HeardOn
  <1> HIDE DEF a
  <1>4. Access(b, a, a.en, SpiIrqBits, a.tx, a.rx, a.ip)
    BY <1>1, <1>3, SetIeIs
  <1> HIDE DEF b
  <1>5. b \in Ports /\ b.irq = u.irq /\ (b.tx = << >> => "TX_EMPTY" \in b.ip)
    BY <1>1, <1>3, <1>4 DEF Access
  <1>6. /\ c \in Ports /\ c.irq = u.irq /\ "TX_EMPTY" \in c.mask
        /\ (c.tx = << >> => "TX_EMPTY" \in c.ip)
    BY <1>1, <1>5, UnmaskIs
  <1> HIDE DEF c
  <1>7. e \in Ports /\ e.irq = u.irq /\ "TX_EMPTY" \in e.mask
    BY <1>1, <1>2, <1>3, UnmaskIs
  <1> HIDE DEF e
  <1>8. Access(f, e, e.en, e.ie \cup SpiIrqBits, e.tx, e.rx, e.ip)
    BY <1>1, <1>7, IrqOnIs
  <1> HIDE DEF f
  <1>9. /\ f \in Ports /\ f.irq = u.irq /\ "TX_EMPTY" \in f.mask
        /\ (f.tx = << >> => "TX_EMPTY" \in f.ip)
    BY <1>1, <1>7, <1>8 DEF Access
  <1> QED
    BY <1>6, <1>9 DEF a, b, c, e, f, HeardOn, Heard

\* Whatever a callback or main starts.
LEMMA StartHeard ==
  ASSUME NEW s \in SpiStates, NEW r \in SpiStarts(s)
  PROVE  HeardOn(r.u, s.u)
PROOF
  <1>1. s.u \in Ports
    BY DEF SpiStates
  <1>2. PICK n \in SpiLens : r = SpiSendStart(s, n) \/ r = SpiTransferStart(s, n)
    BY DEF SpiStarts
  <1> DEFINE t == SsControl(Given(s, n), TRUE)
             v == Unmask(SetIe(Restart(t.u, Fifos, EnBit), SpiIrqBits), SpiIrqBits)
             w == IrqOn(Unmask(Restart(t.u, Fifos, EnBit), t.u.mask \cup SpiIrqBits), SpiIrqBits)
  <1>3. t \in SpiStates /\ t.u = s.u
    <2> DEFINE g == Given(s, n)
    <2>1. n \in Nat
      BY SpiAssumption
    <2>2. g \in SpiStates /\ g.u = s.u
      BY <2>1, GivenIs
    <2> HIDE DEF g
    <2>3. SsControl(g, TRUE) \in SpiStates /\ SsControl(g, TRUE).u = g.u
      BY <2>2, SsIs
    <2> QED
      BY <2>2, <2>3 DEF g
  <1>4. HeardOn(v, s.u) /\ HeardOn(w, s.u)
    BY <1>1, <1>3, StartsHeard
  <1>5. CASE r = SpiSendStart(s, n)
    <2> DEFINE e == [t.d EXCEPT !.busy = TRUE, !.tot = n, !.stat = "send", !.mode = "tx", !.sendNum = n,
                          !.clkNum = n, !.sendBuf = NewWords(s, n), !.trNum = 0]
    <2>1. r = [t EXCEPT !.d = e, !.u = v]
      BY <1>5 DEF SpiSendStart
    <2> HIDE DEF e, v, w, t
    <2>2. r.u = v
      BY <1>3, <2>1 DEF SpiStates
    <2> QED
      BY <1>4, <2>2
  <1>6. CASE r = SpiTransferStart(s, n)
    <2> DEFINE e == [t.d EXCEPT !.busy = TRUE, !.tot = n, !.stat = "tran", !.mode = "txrx", !.sendNum = n,
                          !.recvNum = n, !.clkNum = n, !.trNum = 0,
                          !.sendBuf = NewWords(s, n), !.recvBuf = TRUE]
    <2>1. r = [t EXCEPT !.d = e, !.u = w]
      BY <1>6 DEF SpiTransferStart
    <2> HIDE DEF e, v, w, t
    <2>2. r.u = w
      BY <1>3, <2>1 DEF SpiStates
    <2> QED
      BY <1>4, <2>2
  <1> QED
    BY <1>2, <1>5, <1>6

\* The round that the handler reads and writes ...
LEMMA RoundHeard ==
  ASSUME NEW s \in SpiStates, NEW m, NEW i, SpiGood(s.d, s.u, s.l, s.h, m, i), i.left # {}
  PROVE  LET t == SpiWriteRound(SpiReadRound(s))
         IN  t \in SpiStates /\ HeardOn(t.u, s.u)
PROOF
  <1> DEFINE a == SpiReadRound(s)
             t == SpiWriteRound(a)
             n == IF s.d.trNum <= Len(s.u.rx) THEN s.d.trNum ELSE Len(s.u.rx)
             k == Round(s.d.clkNum)
             p == SubSeq(s.d.sendBuf, 1, k)
             q == SubSeq(s.d.sendBuf, k + 1, Len(s.d.sendBuf))
  <1>1. /\ s.u \in Ports /\ s.d.trNum \in Nat /\ Len(s.u.rx) \in Nat /\ s.d.sendBuf \in Seq(Nat)
        /\ s.u.rx \in Seq(Nat)
    BY DEF SpiStates, SpiDriver, Ports, Port
  <1>2. a \in SpiStates /\ a.d = s.d
    BY ReadRoundIs
  <1>3. t \in SpiStates /\ k \in 0..Len(s.d.sendBuf)
    BY RoundIs
  <1>4. p \in Seq(Nat)
    BY <1>1, <1>3, OfSplit
  <1>5. HeardOn(a.u, s.u)
    <2>1. CASE s.d.mode = "tx"
      <3>1. a = s
        BY <2>1 DEF SpiReadRound
      <3> QED
        BY <1>1, <3>1 DEF HeardOn
    <2>2. CASE s.d.mode # "tx"
      <3>1. n \in 0..Len(s.u.rx)
        BY <1>1
      <3>2. HeardOn(TakeRx(s.u, n), s.u)
        BY <1>1, <3>1, AccessesHeard
      <3> DEFINE v == TakeRx(s.u, n)
                 w == [s EXCEPT !.u = v]
                 h == IF s.d.recvBuf THEN [s.h EXCEPT !.got = @ \o SubSeq(s.u.rx, 1, n)] ELSE s.h
      <3>3. w.h = s.h
        BY DEF SpiStates
      <3>4. a = [w EXCEPT !.h = h]
        BY <2>2, <3>3 DEF SpiReadRound
      <3> HIDE DEF v, h, n, a
      <3>5. a.u = v
        BY <3>4 DEF SpiStates
      <3> QED
        BY <3>2, <3>5 DEF v
    <2> QED
      BY <2>1, <2>2
  <1> HIDE DEF a
  <1>6. a.u \in Ports
    BY <1>2 DEF SpiStates
  <1>7. HeardOn(WriteTx(a.u, p), a.u)
    BY <1>4, <1>6, AccessesHeard
  <1>8. t.u = WriteTx(a.u, p)
    <2> DEFINE x == WriteTx(a.u, p)
               e == [a.d EXCEPT !.trNum = k, !.sendNum = @ - k, !.sendBuf = SubSeq(@, k + 1, Len(@))]
    <2>1. t = [a EXCEPT !.u = x, !.d = e]
      BY <1>2 DEF SpiWriteRound
    <2> HIDE DEF x, e, t
    <2>2. t.u = x
      BY <1>2, <2>1 DEF SpiStates
    <2> QED
      BY <2>2 DEF x
  <1>9. HeardOn(t.u, s.u)
    BY <1>5, <1>7, <1>8, HeardTwice
  <1> QED
    BY <1>3, <1>9 DEF a

\* ... and the end of a transfer, from which the callback may start the next.
LEMMA FinishHeard ==
  ASSUME NEW t \in SpiStates, NEW r \in SpiFinish(t)
  PROVE  HeardOn(r.u, t.u)
PROOF
  <1> DEFINE e == [t.d EXCEPT !.busy = FALSE, !.sendNum = 0]
             b == IrqOff(t.u, SpiIrqBits)
             v == Restart(b, Fifos, EnBit)
             x == [t EXCEPT !.d = e, !.u = v]
             f == SsControl(x, FALSE)
  <1>1. t.u \in Ports /\ SpiIrqBits \in SUBSET Intr /\ EnBit \in SUBSET EnBit /\ t.d \in SpiDriver
    BY DEF SpiStates, SpiIrqBits, Intr
  <1>2. r \in {f} \cup SpiStarts(f)
    <2>1. x = [t EXCEPT !.d = [t.d EXCEPT !.busy = FALSE, !.sendNum = 0],
                        !.u = Restart(IrqOff(@, SpiIrqBits), Fifos, EnBit)]
      <3>1. v = Restart(IrqOff([t EXCEPT !.d = e].u, SpiIrqBits), Fifos, EnBit)
        BY DEF SpiStates
      <3> HIDE DEF v
      <3> QED
        BY <3>1 DEF SpiStates
    <2>2. SpiFinish(t) = {f} \cup (IF t.d.cb THEN SpiStarts(f) ELSE {})
      BY <2>1 DEF SpiFinish
    <2> HIDE DEF f
    <2> QED
      BY <2>2
  <1>3. HeardOn(b, t.u)
    BY <1>1, AccessesHeard
  <1> HIDE DEF b
  <1>4. HeardOn(v, t.u)
    <2>1. b \in Ports
      BY <1>3 DEF HeardOn
    <2>2. HeardOn(v, b)
      BY <1>1, <2>1, AccessesHeard
    <2> QED
      BY <1>3, <2>2, HeardTwice
  <1> HIDE DEF v
  <1>5. e \in SpiDriver
    <2> DEFINE d1 == [t.d EXCEPT !.busy = FALSE]
    <2>1. d1 \in SpiDriver
      BY <1>1 DEF SpiDriver
    <2> HIDE DEF d1
    <2>2. [d1 EXCEPT !.sendNum = 0] \in SpiDriver
      BY <2>1 DEF SpiDriver
    <2> QED
      BY <2>2 DEF d1
  <1> HIDE DEF e
  <1>6. x \in SpiStates /\ x.u = v
    BY <1>4, <1>5 DEF SpiStates, HeardOn
  <1> HIDE DEF x
  <1>7. f \in SpiStates /\ f.u = v
    BY <1>6, SsIs
  <1> HIDE DEF f
  <1>8. CASE r = f
    BY <1>4, <1>7, <1>8
  <1>9. CASE r \in SpiStarts(f)
    <2>1. HeardOn(r.u, f.u)
      BY <1>7, <1>9, StartHeard
    <2> QED
      BY <1>4, <1>7, <2>1, HeardTwice
  <1> QED
    BY <1>2, <1>8, <1>9

-----------------------------------------------------------------------------
(* The steps.                                                              *)

\* A step on an initialized driver, or of the port alone.
LEMMA StepAhead ==
  ASSUME SpiAhead, HeardOn(usi', usi), sd.state # "none" \/ sd' = sd
  PROVE  SpiAhead'
PROOF BY DEF SpiAhead, SpiWired, HeardOn

\* What the invariant says of the port and of the state as one record.
LEMMA PortOfInv ==
  ASSUME SpiInv
  PROVE  /\ usi \in Ports /\ sd \in SpiDriver /\ HeardOn(usi, usi)
         /\ SpiState \in SpiStates /\ SpiState.d = sd /\ SpiState.u = usi /\ SpiState.l = sline
         /\ SpiState.h = srec
PROOF BY DEF SpiInv, SpiGood, SpiTypes, HeardOn, SpiState, SpiStates

\* The handler begins ...
LEMMA SpiEnterAhead == SpiInv /\ SpiAhead /\ SpiEnter => SpiAhead'
PROOF BY PortOfInv, StepAhead DEF SpiEnter, Serve

\* ... serves a round ...
LEMMA SpiServeTxAhead == SpiInv /\ SpiAhead /\ SpiServeTx => SpiAhead'
PROOF
  <1> SUFFICES ASSUME SpiInv, SpiAhead, SpiServeTx PROVE SpiAhead'
    OBVIOUS
  <1> DEFINE s == SpiState
  <1>1. /\ s \in SpiStates /\ s.d = sd /\ s.u = usi /\ s.l = sline /\ s.h = srec
        /\ SpiGood(s.d, s.u, s.l, s.h, smain, isr)
    BY PortOfInv DEF SpiInv
  <1>2. isr.left # {}
    BY DEF SpiServeTx, Serving
  <1>3. PICK r \in SpiTxEmpty(s) : SpiBecomes([r EXCEPT !.u = ClearIrq(@, {"TX_EMPTY"})])
    BY DEF SpiServeTx
  <1> HIDE DEF s
  <1> DEFINE t == SpiWriteRound(SpiReadRound(s))
             v == ClearIrq(r.u, {"TX_EMPTY"})
  <1>4. t \in SpiStates /\ HeardOn(t.u, s.u)
    BY <1>1, <1>2, RoundHeard
  <1>5. sd.state # "none"
    BY <1>1, <1>2, RoundIs DEF Counted
  <1>6. r \in SpiStates /\ HeardOn(r.u, s.u)
    <2>1. CASE RoundsOver(s.d)
      <3>1. r \in SpiFinish(t)
        BY <1>3, <2>1 DEF SpiTxEmpty
      <3>2. HeardOn(r.u, t.u)
        BY <1>4, <3>1, FinishHeard
      <3>3. [isr EXCEPT !.left = {}] \in Handler /\ [isr EXCEPT !.left = {}].left = {}
            /\ [isr EXCEPT !.left = {}].on = isr.on
        BY <1>1 DEF SpiGood, SpiTypes, Handler
      <3>4. r \in SpiStates
        BY <1>1, <1>2, <2>1, <3>1, <3>3, LastRound
      <3> QED
        BY <1>4, <3>2, <3>4, HeardTwice
    <2>2. CASE ~RoundsOver(s.d)
      <3> DEFINE e == [t.d EXCEPT !.clkNum = @ - t.d.trNum]
      <3>1. r = [t EXCEPT !.d = e]
        BY <1>3, <2>2 DEF SpiTxEmpty
      <3>3. [isr EXCEPT !.left = {}] \in Handler /\ [isr EXCEPT !.left = {}].left = {}
            /\ [isr EXCEPT !.left = {}].on = isr.on
        BY <1>1 DEF SpiGood, SpiTypes, Handler
      <3>4. r \in SpiStates
        BY <1>1, <1>2, <2>2, <3>1, <3>3, NextRound
      <3> HIDE DEF e, t
      <3>5. r.u = t.u
        BY <1>4, <3>1 DEF SpiStates
      <3> QED
        BY <1>4, <3>4, <3>5
    <2> QED
      BY <2>1, <2>2
  <1>7. HeardOn(v, s.u)
    <2>1. r.u \in Ports
      BY <1>6 DEF SpiStates
    <2>2. HeardOn(v, r.u)
      BY <2>1, AccessesHeard
    <2> QED
      BY <1>6, <2>2, HeardTwice
  <1>8. usi' = v
    BY <1>3, <1>6 DEF SpiBecomes, SpiStates
  <1> QED
    BY <1>1, <1>5, <1>7, <1>8, StepAhead

\* ... and ends.
LEMMA SpiLeaveAhead == SpiInv /\ SpiAhead /\ SpiLeave => SpiAhead'
PROOF BY PortOfInv, AccessesHeard, StepAhead DEF SpiLeave

\* A word leaves.
LEMMA SpiShiftAhead == SpiInv /\ SpiAhead /\ SpiShift => SpiAhead'
PROOF
  <1> SUFFICES ASSUME SpiInv, SpiAhead, SpiShift PROVE SpiAhead'
    OBVIOUS
  <1>1. usi \in Ports /\ usi.tx # << >> /\ sd' = sd /\ usi' = Arrived(Shifted(usi), Head(usi.tx))
    BY PortOfInv DEF SpiShift
  <1>2. Head(usi.tx) \in Nat
    <2>1. usi.tx \in Seq(Nat)
      BY <1>1 DEF Ports, Port
    <2> QED
      BY <1>1, <2>1
  <1> DEFINE x == Head(usi.tx)
             a == Shifted(usi)
  <1>3. HeardOn(a, usi)
    BY <1>1, AccessesHeard
  <1> HIDE DEF a, x
  <1>4. a \in Ports /\ x \in Nat
    BY <1>2, <1>3 DEF HeardOn, x
  <1>5. HeardOn(Arrived(a, x), a)
    BY <1>4, AccessesHeard
  <1>6. HeardOn(usi', usi)
    BY <1>1, <1>3, <1>5, HeardTwice DEF a, x
  <1> QED
    BY <1>1, <1>6, StepAhead

\* The driver is opened with the line ...
LEMMA SpiInitializeAhead == SpiInv /\ SpiAhead /\ SpiInitialize => SpiAhead'
PROOF
  <1> SUFFICES ASSUME SpiInv, SpiAhead, SpiInitialize PROVE SpiAhead'
    OBVIOUS
  <1>1. usi \in Ports /\ usi' = [usi EXCEPT !.irq = TRUE]
    BY PortOfInv DEF SpiInitialize
  <1>2. usi'.irq = TRUE /\ usi'.ie = usi.ie /\ usi'.mask = usi.mask /\ usi'.tx = usi.tx /\ usi'.ip = usi.ip
    BY <1>1 DEF Ports, Port
  <1> QED
    BY <1>2 DEF SpiAhead, SpiWired, Heard

\* ... and closed with it.
LEMMA SpiUninitializeAhead == SpiInv /\ SpiAhead /\ SpiUninitialize => SpiAhead'
PROOF
  <1> SUFFICES ASSUME SpiInv, SpiAhead, SpiUninitialize PROVE SpiAhead'
    OBVIOUS
  <1> DEFINE w == SetEn(usi, {})
  <1>1. /\ usi \in Ports /\ sd \in SpiDriver /\ usi' = [w EXCEPT !.irq = FALSE]
        /\ sd' = [sd EXCEPT !.state = "none", !.cb = FALSE, !.busy = FALSE]
    BY PortOfInv DEF SpiUninitialize
  <1>2. HeardOn(w, usi)
    <2>1. {} \in SUBSET EnBit
      OBVIOUS
    <2> QED
      BY <1>1, <2>1, AccessesHeard
  <1> HIDE DEF w
  <1>3. usi'.ie = w.ie /\ usi'.mask = w.mask /\ usi'.tx = w.tx /\ usi'.ip = w.ip
    BY <1>1, <1>2 DEF HeardOn, Ports, Port
  <1>4. sd'.state = "none"
    <2> DEFINE d1 == [sd EXCEPT !.state = "none"]
               d2 == [d1 EXCEPT !.cb = FALSE]
    <2>1. sd' = [d2 EXCEPT !.busy = FALSE]
      BY <1>1
    <2>2. d1 \in SpiDriver /\ d1.state = "none"
      BY <1>1 DEF SpiDriver
    <2> HIDE DEF d1
    <2>3. d2 \in SpiDriver /\ d2.state = "none"
      BY <2>2 DEF SpiDriver
    <2> HIDE DEF d2
    <2> QED
      BY <2>1, <2>3 DEF SpiDriver
  <1>5. Heard(w)
    BY <1>2 DEF SpiAhead, SpiWired, HeardOn
  <1> QED
    BY <1>3, <1>4, <1>5 DEF SpiAhead, SpiWired, Heard

\* Configuration switches the port only.
LEMMA SpiConfigAhead == SpiInv /\ SpiAhead /\ SpiConfig => SpiAhead'
PROOF
  <1> SUFFICES ASSUME SpiInv, SpiAhead, SpiConfig PROVE SpiAhead'
    OBVIOUS
  <1> DEFINE w == SetEn(usi, {})
             v == SetEn(w, {"usi", "fm"})
  <1>1. sd \in SpiDriver /\ sline \in BOOLEAN
    BY SpiMainFinds DEF SpiConfig, SpiFree
  <1>2. usi' \in {w, v}
    BY <1>1, ConfigIs
  <1>3. HeardOn(w, usi) /\ HeardOn(v, usi)
    <2>1. {} \in SUBSET EnBit /\ {"usi", "fm"} \in SUBSET EnBit
      BY DEF EnBit
    <2>2. HeardOn(w, usi)
      BY <2>1, PortOfInv, AccessesHeard
    <2> HIDE DEF w
    <2>3. w \in Ports
      BY <2>2 DEF HeardOn
    <2>4. HeardOn(v, w)
      BY <2>1, <2>3, AccessesHeard
    <2> QED
      BY <2>2, <2>4, HeardTwice
  <1>4. sd.state # "none"
    BY DEF SpiConfig
  <1> HIDE DEF w, v
  <1> QED
    BY <1>2, <1>3, <1>4, StepAhead

\* The choice of polling is the driver's.
LEMMA SpiBlockModeAhead == SpiInv /\ SpiAhead /\ SpiBlockMode => SpiAhead'
PROOF BY PortOfInv, StepAhead DEF SpiBlockMode

\* Main starts a transfer by interrupt.
LEMMA SpiStartAhead == SpiInv /\ SpiAhead /\ SpiStart => SpiAhead'
PROOF
  <1> SUFFICES ASSUME SpiInv, SpiAhead, SpiStart PROVE SpiAhead'
    OBVIOUS
  <1>1. PICK r \in SpiStarts(SpiState) : SpiBecomes(r)
    BY DEF SpiStart
  <1>2. HeardOn(r.u, usi)
    BY <1>1, PortOfInv, StartHeard
  <1>3. usi' = r.u /\ sd.state # "none"
    BY <1>1 DEF SpiBecomes, SpiStart, SpiReady
  <1> QED
    BY <1>2, <1>3, StepAhead

\* Main stops a transfer.
LEMMA SpiAbortAhead == SpiInv /\ SpiAhead /\ SpiAbort => SpiAhead'
PROOF
  <1> SUFFICES ASSUME SpiInv, SpiAhead, SpiAbort PROVE SpiAhead'
    OBVIOUS
  <1>1. usi \in Ports /\ sd.state # "none" /\ SpiState \in SpiStates /\ SpiState.u = usi
    BY PortOfInv DEF SpiAbort
  <1> DEFINE z == SpiState
             e == [sd EXCEPT !.busy = FALSE, !.recvBuf = FALSE, !.recvNum = 0]
             h == [srec EXCEPT !.calls = @ + 1,
                          !.drop = @ \cup {usi.tx[i] : i \in DOMAIN usi.tx}
                                     \cup {sd.sendBuf[i] : i \in DOMAIN sd.sendBuf}]
             w == SetEn(usi, {})
             z1 == [z EXCEPT !.d = e]
             z2 == [z1 EXCEPT !.u = w]
  <1>2. SpiBecomes([z EXCEPT !.d = e, !.u = SetEn(@, {}), !.h = h])
    BY DEF SpiAbort
  <1>3. z1.u = usi
    BY <1>1 DEF SpiStates
  <1>4. SpiBecomes([z2 EXCEPT !.h = h])
    <2> HIDE DEF z, e, h
    <2>1. [z EXCEPT !.d = e, !.u = SetEn(@, {}), !.h = h] = [[z1 EXCEPT !.u = SetEn(z1.u, {})] EXCEPT !.h = h]
      OBVIOUS
    <2> HIDE DEF z1
    <2> QED
      BY <1>2, <1>3, <2>1
  <1>5. HeardOn(w, usi)
    <2>1. {} \in SUBSET EnBit
      OBVIOUS
    <2> QED
      BY <1>1, <2>1, AccessesHeard
  <1> HIDE DEF e, h, w
  <1>6. [z2 EXCEPT !.h = h].u = w
    BY <1>1 DEF SpiStates
  <1> HIDE DEF z2
  <1>7. usi' = w
    BY <1>4, <1>6 DEF SpiBecomes
  <1> QED
    BY <1>1, <1>5, <1>7, StepAhead

\* A change of the select line alone.
LEMMA SsPort ==
  ASSUME NEW s, NEW b \in BOOLEAN, NEW d, NEW u, NEW l, NEW h, s = [d |-> d, u |-> u, l |-> l, h |-> h]
  PROVE  SsControl(s, b).u = u
PROOF BY DEF SsControl

\* Main sets the select line.
LEMMA SpiSsControlAhead == SpiInv /\ SpiAhead /\ SpiSsControl => SpiAhead'
PROOF
  <1> SUFFICES ASSUME SpiInv, SpiAhead, SpiSsControl PROVE SpiAhead'
    OBVIOUS
  <1>1. PICK b \in BOOLEAN : SpiBecomes(SsControl(SpiState, b))
    BY DEF SpiSsControl
  <1>2. SpiState = [d |-> sd, u |-> usi, l |-> sline, h |-> srec]
    BY DEF SpiState
  <1>3. SsControl(SpiState, b).u = usi
    BY <1>1, <1>2, SsPort
  <1>4. usi' = usi /\ sd.state # "none"
    BY <1>1, <1>3 DEF SpiBecomes, SpiSsControl
  <1> QED
    BY <1>4, PortOfInv, StepAhead

\* Main starts a call that polls:
LEMMA PollStartAhead ==
  ASSUME SpiInv, SpiAhead, NEW n \in SpiLens, NEW e, NEW call, SpiPollStart(call, e, n)
  PROVE  SpiAhead'
PROOF
  <1> DEFINE s == SpiState
             g == Given(s, n)
             v == IF call = "send" THEN SetEn(usi, EnBit) ELSE Restart(usi, Fifos, EnBit)
             x == [g EXCEPT !.d = e, !.u = v]
  <1>1. n \in Nat /\ usi \in Ports /\ s \in SpiStates /\ s.u = usi /\ sd.state # "none"
    BY PortOfInv, SpiAssumption DEF SpiPollStart, SpiReady
  <1> HIDE DEF s
  <1>2. g \in SpiStates /\ g.u = usi
    BY <1>1, GivenIs
  <1>3. SpiBecomes(SsControl(x, TRUE))
    <2>1. x = [g EXCEPT !.d = e, !.u = IF call = "send" THEN SetEn(@, EnBit) ELSE Restart(@, Fifos, EnBit)]
      <3> DEFINE y == [g EXCEPT !.d = e]
      <3>1. y.u = usi
        BY <1>2 DEF SpiStates
      <3> HIDE DEF g
      <3>2. x = [y EXCEPT !.u = v]
        OBVIOUS
      <3>3. [g EXCEPT !.d = e, !.u = IF call = "send" THEN SetEn(@, EnBit) ELSE Restart(@, Fifos, EnBit)]
              = [y EXCEPT !.u = IF call = "send" THEN SetEn(y.u, EnBit) ELSE Restart(y.u, Fifos, EnBit)]
        OBVIOUS
      <3> HIDE DEF y
      <3> QED
        BY <3>1, <3>2, <3>3
    <2> HIDE DEF x
    <2> QED
      BY <2>1 DEF SpiPollStart, s
  <1> HIDE DEF g
  <1>4. HeardOn(v, usi)
    <2>1. HeardOn(SetEn(usi, EnBit), usi) /\ HeardOn(Restart(usi, Fifos, EnBit), usi)
      BY <1>1, AccessesHeard
    <2> QED
      BY <2>1
  <1> HIDE DEF v
  <1>5. SsControl(x, TRUE).u = v
    <2> DEFINE y == [g EXCEPT !.d = e]
    <2>1. g = [d |-> g.d, u |-> g.u, l |-> g.l, h |-> g.h]
      BY <1>2 DEF SpiStates
    <2>2. y = [d |-> e, u |-> g.u, l |-> g.l, h |-> g.h]
      BY <2>1
    <2>3. x = [y EXCEPT !.u = v]
      OBVIOUS
    <2> HIDE DEF x, y
    <2>4. x = [d |-> e, u |-> v, l |-> g.l, h |-> g.h]
      BY <2>2, <2>3
    <2> QED
      BY <2>4 DEF SsControl
  <1> HIDE DEF x
  <1>6. usi' = v
    BY <1>3, <1>5 DEF SpiBecomes
  <1> QED
    BY <1>1, <1>4, <1>6, StepAhead

\* ... to send,
LEMMA SpiPollSendAhead == SpiInv /\ SpiAhead /\ SpiPollSend => SpiAhead'
PROOF BY PollStartAhead DEF SpiPollSend

\* to transfer,
LEMMA SpiPollTransferAhead == SpiInv /\ SpiAhead /\ SpiPollTransfer => SpiAhead'
PROOF BY PollStartAhead DEF SpiPollTransfer

\* or to receive, which leaves the port to the first round.
LEMMA SpiPollReceiveAhead == SpiInv /\ SpiAhead /\ SpiPollReceive => SpiAhead'
PROOF
  <1> SUFFICES ASSUME SpiInv, SpiAhead, SpiPollReceive PROVE SpiAhead'
    OBVIOUS
  <1>1. PICK n \in SpiLens :
          SpiBecomes(SsControl([SpiState EXCEPT
            !.d = [sd EXCEPT !.busy = TRUE, !.tot = n, !.stat = "rcv", !.recvNum = n, !.recvBuf = TRUE],
            !.h = [srec EXCEPT !.sent = [i \in 1..n |-> 0], !.got = << >>]], TRUE))
    BY DEF SpiPollReceive
  <1> DEFINE e == [sd EXCEPT !.busy = TRUE, !.tot = n, !.stat = "rcv", !.recvNum = n, !.recvBuf = TRUE]
             h == [srec EXCEPT !.sent = [i \in 1..n |-> 0], !.got = << >>]
             x == [SpiState EXCEPT !.d = e, !.h = h]
  <1>2. SpiBecomes(SsControl(x, TRUE))
    BY <1>1
  <1> HIDE DEF e, h
  <1>3. x = [d |-> e, u |-> usi, l |-> sline, h |-> h]
    <2> DEFINE y == [SpiState EXCEPT !.d = e]
    <2>1. y = [d |-> e, u |-> usi, l |-> sline, h |-> srec]
      BY DEF SpiState
    <2>2. x = [y EXCEPT !.h = h]
      OBVIOUS
    <2> HIDE DEF x, y
    <2> QED
      BY <2>1, <2>2
  <1> HIDE DEF x
  <1>4. SsControl(x, TRUE).u = usi
    BY <1>3 DEF SsControl
  <1>5. usi' = usi /\ sd.state # "none"
    BY <1>2, <1>4 DEF SpiBecomes, SpiPollReceive, SpiReady
  <1> QED
    BY <1>5, PortOfInv, StepAhead

\* A polling call writes a round ...
LEMMA SpiPollWriteAhead == SpiInv /\ SpiAhead /\ SpiPollWrite => SpiAhead'
PROOF
  <1> SUFFICES ASSUME SpiInv, SpiAhead, SpiPollWrite PROVE SpiAhead'
    OBVIOUS
  <1> DEFINE f == smain.left
             n == Round(Len(f))
             p == SubSeq(f, 1, n)
             u == IF smain.call = "receive" THEN Restart(usi, Fifos, EnBit) ELSE usi
             v == WriteTx(u, p)
  <1>1. smain.call # "free" /\ usi' = v
    BY DEF SpiPollWrite
  <1>2. usi \in Ports /\ f \in Seq(Nat) /\ sd.state # "none"
    BY <1>1, SpiPollFinds DEF Polls
  <1>3. p \in Seq(Nat)
    <2>1. Len(f) \in Nat
      BY <1>2
    <2>2. n \in 0..Len(f)
      BY <2>1, FifoAssumption DEF Round
    <2> QED
      BY <1>2, <2>2, OfSplit
  <1>4. HeardOn(u, usi)
    <2>1. HeardOn(Restart(usi, Fifos, EnBit), usi) /\ HeardOn(usi, usi)
      BY <1>2, AccessesHeard DEF HeardOn
    <2> QED
      BY <2>1
  <1> HIDE DEF u, p
  <1>5. HeardOn(v, u)
    <2>1. u \in Ports
      BY <1>4 DEF HeardOn
    <2> QED
      BY <1>3, <2>1, AccessesHeard
  <1> QED
    BY <1>1, <1>2, <1>4, <1>5, HeardTwice, StepAhead

\* ... reads it when the line is quiet ...
LEMMA SpiPollReadAhead == SpiInv /\ SpiAhead /\ SpiPollRead => SpiAhead'
PROOF
  <1> SUFFICES ASSUME SpiInv, SpiAhead, SpiPollRead PROVE SpiAhead'
    OBVIOUS
  <1>1. /\ smain.once > 0 /\ usi.tx = << >>
        /\ smain.call # "send" => usi' = TakeRx(usi, smain.once)
        /\ smain.call = "send" => usi' = usi
    BY DEF SpiPollRead
  <1>2. smain.call # "free"
    <2>1. SpiNoPoll.once = 0
      BY DEF SpiNoPoll
    <2> QED
      BY <1>1, <2>1 DEF SpiInv, SpiGood, SpiPhase, Quiet, Aborted, Runs, Counted, Sends, Transfers, Receives
  <1>3. /\ Sends(sd, usi, smain, isr) \/ Transfers(sd, usi, srec, smain, isr)
              \/ Receives(sd, usi, srec, smain, isr)
        /\ sd.state # "none" /\ usi \in Ports /\ smain.once \in Nat /\ usi.rx \in Seq(Nat)
    BY <1>2, SpiPollFinds DEF Polls
  <1>4. CASE smain.call = "send"
    BY <1>1, <1>3, <1>4, PortOfInv, StepAhead
  <1>5. CASE smain.call # "send"
    <2>1. Len(usi.tx) + Len(usi.rx) = smain.once
      BY <1>1, <1>3, <1>5 DEF Sends, Transfers, Receives
    <2>2. smain.once \in 0..Len(usi.rx)
      BY <1>1, <1>3, <2>1
    <2>3. HeardOn(usi', usi)
      BY <1>1, <1>3, <1>5, <2>2, AccessesHeard
    <2> QED
      BY <1>3, <2>3, StepAhead
  <1> QED
    BY <1>4, <1>5

\* ... and ends.
LEMMA SpiPollEndAhead == SpiInv /\ SpiAhead /\ SpiPollEnd => SpiAhead'
PROOF
  <1> SUFFICES ASSUME SpiInv, SpiAhead, SpiPollEnd PROVE SpiAhead'
    OBVIOUS
  <1> DEFINE z == SpiState
             e == [sd EXCEPT !.busy = FALSE]
             b == IF smain.call = "send" THEN {} ELSE {"usi", "fm"}
             w == SetEn(usi, b)
             x == [z EXCEPT !.d = e, !.u = SetEn(@, b)]
  <1>1. smain.call # "free" /\ SpiBecomes(SsControl(x, FALSE))
    BY DEF SpiPollEnd
  <1>2. usi \in Ports /\ sd.state # "none"
    BY <1>1, SpiPollFinds DEF Polls
  <1>3. HeardOn(w, usi)
    <2>1. b \in SUBSET EnBit
      BY DEF EnBit
    <2> QED
      BY <1>2, <2>1, AccessesHeard
  <1> HIDE DEF b, e
  <1>4. x = [d |-> e, u |-> w, l |-> sline, h |-> srec]
    <2>1. z = [d |-> sd, u |-> usi, l |-> sline, h |-> srec]
      BY DEF SpiState
    <2> HIDE DEF z
    <2> DEFINE y == [z EXCEPT !.d = e]
    <2>2. y = [d |-> e, u |-> usi, l |-> sline, h |-> srec]
      BY <2>1
    <2>3. x = [y EXCEPT !.u = SetEn(y.u, b)]
      OBVIOUS
    <2> HIDE DEF y, x
    <2>4. y.u = usi
      BY <2>2
    <2>5. x = [y EXCEPT !.u = w]
      BY <2>3, <2>4
    <2> HIDE DEF w
    <2> QED
      BY <2>2, <2>5
  <1> HIDE DEF x, w
  <1>5. SsControl(x, FALSE).u = w
    BY <1>4 DEF SsControl
  <1>6. usi' = w
    BY <1>1, <1>5 DEF SpiBecomes
  <1> QED
    BY <1>2, <1>3, <1>6, StepAhead

\* Every step keeps both invariants.
LEMMA SpiAheadStep == SpiInv /\ SpiAhead /\ SpiNext => SpiAhead'
PROOF
  <1> SUFFICES ASSUME SpiInv, SpiAhead, SpiNext PROVE SpiAhead'
    OBVIOUS
  <1>1. CASE SpiEnter \/ SpiServeTx \/ SpiLeave \/ SpiShift
    BY <1>1, SpiEnterAhead, SpiServeTxAhead, SpiLeaveAhead, SpiShiftAhead
  <1>2. CASE SpiInitialize \/ SpiUninitialize \/ SpiConfig \/ SpiBlockMode \/ SpiStart
    BY <1>2, SpiInitializeAhead, SpiUninitializeAhead, SpiConfigAhead, SpiBlockModeAhead, SpiStartAhead
  <1>3. CASE SpiPollSend \/ SpiPollTransfer \/ SpiPollReceive
    BY <1>3, SpiPollSendAhead, SpiPollTransferAhead, SpiPollReceiveAhead
  <1>4. CASE SpiPollWrite \/ SpiPollRead \/ SpiPollEnd
    BY <1>4, SpiPollWriteAhead, SpiPollReadAhead, SpiPollEndAhead
  <1>5. CASE SpiAbort \/ SpiSsControl
    BY <1>5, SpiAbortAhead, SpiSsControlAhead
  <1> QED
    BY <1>1, <1>2, <1>3, <1>4, <1>5 DEF SpiNext

\* A transfer by interrupt waits for its words or for TX_EMPTY, which is latched; a
\* call that polls for its words or for itself.  The answers of a round fit.
LEMMA SpiAheadGoesOn == SpiInv /\ SpiAhead => SpiGoesOn
PROOF
  <1> SUFFICES ASSUME SpiInv, SpiAhead, sd.busy, ~isr.on
               PROVE  (usi.irq /\ Pending(usi) # {}) \/ LineMoves \/ PollMoves
    BY DEF SpiGoesOn
  <1>1. SpiPhase(sd, usi, srec, smain, isr) /\ usi \in Ports /\ sd \in SpiDriver /\ smain \in SpiPoll
    BY DEF SpiInv, SpiGood, SpiTypes
  <1>2. /\ usi.tx \in Seq(Nat) /\ usi.rx \in Seq(Nat) /\ sd.trNum \in Nat /\ smain.once \in Nat
        /\ Len(usi.tx) \in Nat /\ Len(usi.rx) \in Nat
    <2>1. usi.tx \in Seq(Nat) /\ usi.rx \in Seq(Nat)
      BY <1>1 DEF Ports, Port
    <2>2. sd.trNum \in Nat /\ smain.once \in Nat
      BY <1>1 DEF SpiDriver, SpiPoll
    <2> QED
      BY <2>1, <2>2
  <1>3. usi.tx # << >> => Len(usi.tx) > 0
    BY <1>2
  <1>4. ASSUME usi.en = EnBit PROVE Working(usi)
    BY <1>4 DEF Working, EnBit
  <1>5. ASSUME NEW k \in Nat, k <= Fifo, Len(usi.tx) + Len(usi.rx) = k, usi.tx # << >>
        PROVE  Len(usi.rx) < Fifo
    <2>1. Len(usi.tx) > 0 /\ Fifo \in Nat
      BY <1>3, <1>5, FifoAssumption
    <2> DEFINE a == Len(usi.tx)
               b == Len(usi.rx)
    <2>2. a \in Nat /\ b \in Nat /\ a > 0 /\ a + b = k /\ k <= Fifo
      BY <1>2, <1>5, <2>1
    <2> HIDE DEF a, b
    <2>3. b < Fifo
      BY <2>1, <2>2
    <2> QED
      BY <2>3 DEF b
  <1>6. CASE Runs(sd, usi, srec, smain, isr)
    <2>1. usi.en = EnBit /\ "TX_EMPTY" \in usi.ie /\ sd.state # "none" /\ sd.trNum <= Fifo
      BY <1>6 DEF Runs, Counted
    <2>2. CASE usi.tx = << >>
      BY <2>1, <2>2 DEF SpiAhead, SpiWired, Heard, Pending
    <2>3. CASE usi.tx # << >>
      <3>1. sd.mode = "txrx" => Len(usi.tx) + Len(usi.rx) = sd.trNum
        BY <1>6 DEF Runs
      <3>2. sd.mode = "txrx" => Len(usi.rx) < Fifo
        BY <1>2, <1>5, <2>1, <2>3, <3>1
      <3> QED
        BY <1>4, <2>1, <2>3, <3>2 DEF LineMoves
    <2> QED
      BY <2>2, <2>3
  <1>7. CASE Polls(sd, usi, smain, isr) /\ smain.call # "free"
             /\ (smain.once # 0 => usi.en = EnBit)
             /\ (smain.once # 0 /\ sd.mode = "txrx" => Len(usi.tx) + Len(usi.rx) = smain.once)
    <2>1. CASE smain.once = 0 \/ usi.tx = << >>
      BY <1>7, <2>1 DEF PollMoves
    <2>2. CASE smain.once # 0 /\ usi.tx # << >>
      <3>1. smain.once <= Fifo
        BY <1>7 DEF Polls
      <3>2. sd.mode = "txrx" => Len(usi.rx) < Fifo
        BY <1>2, <1>5, <1>7, <2>2, <3>1
      <3> QED
        BY <1>4, <1>7, <2>2, <3>2 DEF LineMoves
    <2> QED
      BY <2>1, <2>2
  <1>8. CASE Sends(sd, usi, smain, isr)
    BY <1>7, <1>8 DEF Sends
  <1>9. CASE Transfers(sd, usi, srec, smain, isr)
    BY <1>7, <1>9 DEF Transfers
  <1>10. CASE Receives(sd, usi, srec, smain, isr)
    BY <1>7, <1>10 DEF Receives
  <1> QED
    BY <1>1, <1>6, <1>8, <1>9, <1>10 DEF SpiPhase, Quiet, Aborted
===============================================================================
