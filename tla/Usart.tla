-------------------------------- MODULE Usart ---------------------------------
(***************************************************************************)
(* The UART driver (wj_usi_usart.c): interrupt-driven send and receive,    *)
(* the query calls getchar and putchar, abort, flush, configuration.  Main *)
(* calls it between handlers, a callback calls it from inside one; bytes   *)
(* leave and arrive at any time, also between two steps of the handler.    *)
(* A byte is its position in the stream it belongs to.                     *)
(***************************************************************************)
EXTENDS Usi

CONSTANTS
  UsartLens,    \* the lengths main sends and receives
  UsartIntr,    \* what main may switch with set_interrupt
  MaxTx, MaxRx, \* bounds: bytes sent, bytes that arrive
  MaxRecv,      \* bound: receives started
  MaxCalls      \* bound: calls that are not a send or a receive

ASSUME UsartAssumption ==
  /\ UsartLens \subseteq Nat \ {0} /\ UsartIntr \subseteq {"TX_EMPTY", "RX_THOLD"}
  /\ MaxTx \in Nat /\ MaxRx \in Nat /\ MaxRecv \in Nat /\ MaxCalls \in Nat

VARIABLES
  ud,     \* wj_usi_usart_priv_t
  umain,  \* main is free, or polls in getchar or putchar
  urec    \* history: what was given, left the port, arrived and was stored

uvars == <<usi, isr, ud, umain, urec>>

UsartDriver ==
  [open : BOOLEAN, cb : BOOLEAN,
   txBuf : Seq(Nat), txTot : Nat, txCnt : Nat, txBusy : BOOLEAN,  \* txBuf: still to write
   rxBuf : BOOLEAN, rxTot : Nat, rxCnt : Nat, rxBusy : BOOLEAN,   \* rxBuf: not NULL
   lastTx : Nat, lastRx : Nat]

UsartHistory == [given : Nat, out : Seq(Nat), drop : SUBSET Nat, in : Nat,
                 want : Nat, put : Seq(Nat), recvs : Nat, calls : Nat]

\* WJ_UART_INT_ENABLE_DEFAUL: the bits that are enabled and not masked.  RX_FULL
\* is not served; RX_THOLD is never unmasked in this mode, so that the handler's
\* part for it is never entered.
UartDefaults == {"UART_PERR", "UART_STOP", "RX_FULL"}
UartServed   == {"TX_EMPTY", "UART_STOP", "UART_PERR"}

UsartIdle == [open |-> FALSE, cb |-> FALSE,
              txBuf |-> << >>, txTot |-> 0, txCnt |-> 0, txBusy |-> FALSE,
              rxBuf |-> FALSE, rxTot |-> 0, rxCnt |-> 0, rxBusy |-> FALSE,
              lastTx |-> 0, lastRx |-> 0]

UsartInit == /\ ud = UsartIdle /\ umain = "free"
             /\ urec = [given |-> 0, out |-> << >>, drop |-> {}, in |-> 0,
                        want |-> 0, put |-> << >>, recvs |-> 0, calls |-> 0]

UsartFree == MainRuns /\ umain = "free" /\ ud.open /\ usi.mode = "uart"

-----------------------------------------------------------------------------
(* The driver's private functions, on its state d, the port u, history h.  *)

\* A state of all three, so that a callback can go on from what its caller left.
UsartState == [d |-> ud, u |-> usi, h |-> urec]
UsartBecomes(s) == ud' = s.d /\ usi' = s.u /\ urec' = s.h

\* drv_usi_usart_send; the stop interrupt is off until the send completes.
SendEffect(s, n) ==
  LET ws == [i \in 1..n |-> s.h.given + i]
  IN  [d |-> [s.d EXCEPT !.txBuf = ws, !.txTot = n, !.txCnt = 0, !.txBusy = TRUE, !.lastTx = 0],
       u |-> SetEn(IrqOff(IrqOn(Unmask(s.u, s.u.mask \cup {"TX_EMPTY"}), {"TX_EMPTY"}),
                          {"UART_STOP"}), EnBit),
       h |-> [s.h EXCEPT !.given = @ + n]]

\* drv_usi_usart_receive: only the buffer is noted.
ReceiveEffect(s, n) ==
  [s EXCEPT !.d = [s.d EXCEPT !.rxBuf = TRUE, !.rxTot = n, !.rxCnt = 0, !.rxBusy = TRUE, !.lastRx = 0],
            !.h = [s.h EXCEPT !.want = n, !.put = << >>, !.recvs = @ + 1]]

\* What a callback may do: nothing, or start the next transfer of its kind.
SendAgain(s) ==
  {s} \cup (IF s.d.cb THEN {SendEffect(s, n) : n \in {m \in UsartLens : s.h.given + m <= MaxTx}}
                      ELSE {})
ReceiveAgain(s) ==
  {s} \cup (IF s.d.cb /\ s.h.recvs < MaxRecv THEN {ReceiveEffect(s, n) : n \in UsartLens} ELSE {})

Least(a, b) == IF a < b THEN a ELSE b

\* What the handler takes for its next batch, and when it has written all.
MutBatch(d)         == Least(d.txTot - d.txCnt, Fifo)
Batch(d)            == Least(d.txTot - d.txCnt, Fifo - 1)
MutWrittenSoon(d)   == d.txCnt + Fifo - 1 >= d.txTot
MutWrittenNever(d)  == d.txCnt > d.txTot
AllWritten(d)       == d.txCnt >= d.txTot

\* ck_usart_intr_threshold_empty: the next bytes, or the end of the send.
TxEmpty(s) ==
  LET d == s.d
      n == Batch(d)
  IN  IF d.txTot = 0 THEN {s}
      ELSE IF AllWritten(d)
           THEN SendAgain([s EXCEPT !.u = IrqOn(IrqOff(@, {"TX_EMPTY"}), {"UART_STOP"}),
                                    !.d = [d EXCEPT !.lastTx = d.txTot, !.txCnt = 0, !.txBusy = FALSE,
                                                    !.txBuf = << >>, !.txTot = 0]])
           ELSE {[s EXCEPT !.u = ClearIrq(WriteTx(@, SubSeq(d.txBuf, 1, n)), {"TX_EMPTY"}),
                           !.d = [d EXCEPT !.txBuf = SubSeq(@, n + 1, Len(@)), !.txCnt = @ + n]]}

\* ck_usart_intr_recv_data: the count it reads has four bits, so that a full
\* FIFO counts as an empty one, and the batch is compared with the whole length.
Arrivals(s) == Least(Len(s.u.rx) % Fifo, s.d.rxTot)
RecvData(s) ==
  LET d == s.d
      n == Arrivals(s)
      t == [s EXCEPT !.u = TakeRx(@, n), !.h = [s.h EXCEPT !.put = @ \o SubSeq(s.u.rx, 1, n)]]
  IN  IF d.rxTot = 0 \/ ~d.rxBuf THEN ReceiveAgain(s)
      ELSE IF d.rxCnt + n >= d.rxTot
           THEN ReceiveAgain([t EXCEPT !.d = [d EXCEPT !.lastRx = d.rxTot, !.rxCnt = 0, !.rxBuf = FALSE,
                                                       !.rxBusy = FALSE, !.rxTot = 0]])
           ELSE {[t EXCEPT !.d = [d EXCEPT !.rxCnt = @ + n]]}

\* ck_usart_intr_char_timeout: without a receive and a callback the bytes go.
CharTimeout(s) ==
  IF s.d.rxTot # 0 /\ s.d.rxBuf THEN RecvData(s)
  ELSE IF s.d.cb THEN ReceiveAgain(s) ELSE {[s EXCEPT !.u = Flush(@, {"rx"})]}

\* ck_usart_intr_recv_line.
RecvLine(s) == ReceiveAgain([s EXCEPT !.u = Flush(@, {"rx"})])

-----------------------------------------------------------------------------
(* wj_usi_usart_irqhandler, one step a bit, and the clearing at its end.   *)

UsartEnter == Serve("uart", UartServed) /\ UNCHANGED <<ud, umain, urec>>

UsartServe(bit, earlier, effect, clears) ==
  /\ usi.mode = "uart" /\ Serving(bit, earlier)
  /\ \E s \in effect : UsartBecomes([s EXCEPT !.u = ClearIrq(@, clears)])
  /\ isr' = Served(bit)
  /\ UNCHANGED umain

UsartServeTx     == UsartServe("TX_EMPTY", {}, TxEmpty(UsartState), {"TX_EMPTY"})
UsartServeStop   == UsartServe("UART_STOP", {"TX_EMPTY"},
                               IF usi.rx # << >> THEN CharTimeout(UsartState) ELSE {UsartState},
                               {"RX_THOLD"})
UsartServeParity == UsartServe("UART_PERR", {"TX_EMPTY", "UART_STOP"}, RecvLine(UsartState), {"RX_THOLD"})

\* Every bit that was set on entry is cleared, whatever arrived since.
UsartLeave ==
  /\ usi.mode = "uart" /\ AllServed
  /\ usi' = ClearIrq(usi, isr.sta) /\ isr' = Idle
  /\ UNCHANGED <<ud, umain, urec>>

UsartHandler == UsartServeTx \/ UsartServeStop \/ UsartServeParity \/ UsartLeave
-----------------------------------------------------------------------------
(* The line: the oldest byte leaves, the next one of the peer arrives, both *)
(* raise UART_STOP (the transmitter with its last byte).                    *)

UsartShift ==
  /\ usi.mode = "uart" /\ Working(usi) /\ usi.tx # << >>
  /\ usi' = LET u == Shifted(usi) IN IF u.tx = << >> THEN Raise(u, {"UART_STOP"}) ELSE u
  /\ urec' = [urec EXCEPT !.out = Append(@, Head(usi.tx))]
  /\ UNCHANGED <<isr, ud, umain>>

UsartArrive ==
  /\ usi.mode = "uart" /\ Working(usi) /\ RxOn(usi) /\ urec.in < MaxRx
  /\ \E err \in {{}, {"UART_PERR"}} :
        usi' = Raise(Arrived(usi, urec.in + 1), {"UART_STOP"} \cup err)
  /\ urec' = [urec EXCEPT !.in = @ + 1]
  /\ UNCHANGED <<isr, ud, umain>>

-----------------------------------------------------------------------------
(* The calls of main.                                                      *)

\* A call leaves the driver state d and the port u; it may discard bytes.
UsartDoes(d, u, drop) == /\ urec.calls < MaxCalls
                         /\ ud' = d /\ usi' = u
                         /\ urec' = [urec EXCEPT !.drop = @ \cup drop, !.calls = @ + 1]
                         /\ UNCHANGED <<isr, umain>>

InFifo == {usi.tx[i] : i \in DOMAIN usi.tx}
InBuf  == {ud.txBuf[i] : i \in DOMAIN ud.txBuf}

\* Initialisation does not touch what an earlier session left in ud.
UsartInitialize ==
  /\ MainRuns /\ ~ud.open
  /\ \E cb \in BOOLEAN :
       /\ ud' = [ud EXCEPT !.open = TRUE, !.cb = cb]
       /\ usi' = [SetRxThold(SetIe(Unmask(SetEn(usi, {}), UartDefaults), UartDefaults), Fifo)
                    EXCEPT !.mode = "uart", !.irq = TRUE]
  /\ UNCHANGED <<isr, umain, urec>>

UsartUninitialize ==
  /\ UsartFree
  /\ UsartDoes([ud EXCEPT !.open = FALSE, !.cb = FALSE], [SetEn(usi, {}) EXCEPT !.irq = FALSE], InFifo)

\* A parity, stop bit or data length it does not know leaves the port off.
UsartSet(u, known) == Restart(u, Fifos, IF known THEN EnBit ELSE {})
\* An unknown mode is an error too, and leaves it on.
UsartSetMode(u) == Restart(u, Fifos, EnBit)

\* The baud rate, parity, mode, stop bits and data length in this order.
UsartConfig ==
  /\ UsartFree /\ ~ud.txBusy
  /\ \E parity, length \in BOOLEAN :
       UsartDoes(ud, IF ~parity THEN UsartSet(usi, FALSE)
                     ELSE UsartSet(UsartSetMode(UsartSet(usi, TRUE)), length), InFifo)

\* Main starts a send when none is in progress; the driver does not check.
UsartSend ==
  /\ UsartFree /\ ~ud.txBusy
  /\ \E n \in UsartLens : urec.given + n <= MaxTx /\ UsartBecomes(SendEffect(UsartState, n))
  /\ UNCHANGED <<isr, umain>>

\* The stop interrupt stays off.
UsartAbortSend ==
  /\ UsartFree
  /\ UsartDoes([ud EXCEPT !.txCnt = 0, !.txBusy = FALSE, !.txBuf = << >>, !.txTot = 0],
               IrqOff(usi, {"TX_EMPTY"}), InBuf)

UsartReceive ==
  /\ UsartFree /\ urec.recvs < MaxRecv
  /\ \E n \in UsartLens : UsartBecomes(ReceiveEffect(UsartState, n))
  /\ UNCHANGED <<isr, umain>>

\* The receive is not over: the count alone says so, the next batch ends it.
UsartAbortReceive == UsartFree /\ UsartDoes([ud EXCEPT !.rxCnt = ud.rxTot], usi, {})

\* Reads up to n bytes of the FIFO (at least one, if there is one).
UsartReceiveQuery ==
  /\ UsartFree /\ usi.rx # << >>
  /\ \E n \in UsartLens : UsartDoes(ud, TakeRx(usi, Least(n, Len(usi.rx))), {})

UsartFlush ==
  /\ UsartFree
  /\ \/ UsartDoes(ud, Flush(usi, {"tx"}), InFifo)
     \/ UsartDoes(ud, Flush(usi, {"rx"}), {})

UsartSetInterrupt ==
  /\ UsartFree
  /\ \E bit \in UsartIntr : \/ UsartDoes(ud, IrqOff(usi, {bit}), {})
                            \/ UsartDoes(ud, IrqOn(usi, {bit}), {})

\* putchar writes one byte and waits until the FIFO is empty.
UsartPutchar ==
  /\ UsartFree /\ ~ud.txBusy /\ TxOn(usi) /\ urec.given < MaxTx
  /\ usi' = WriteTx(usi, <<urec.given + 1>>) /\ umain' = "putchar"
  /\ urec' = [urec EXCEPT !.given = @ + 1]
  /\ UNCHANGED <<isr, ud>>

UsartPutcharEnd ==
  /\ MainRuns /\ umain = "putchar" /\ usi.tx = << >>
  /\ umain' = "free" /\ UNCHANGED <<usi, isr, ud, urec>>

\* getchar drops what has arrived and waits for the next byte.
UsartGetchar ==
  /\ UsartFree /\ urec.calls < MaxCalls
  /\ usi' = Restart(usi, {"rx"}, EnBit) /\ umain' = "getchar"
  /\ urec' = [urec EXCEPT !.calls = @ + 1]
  /\ UNCHANGED <<isr, ud>>

UsartGetcharEnd ==
  /\ MainRuns /\ umain = "getchar" /\ usi.rx # << >>
  /\ usi' = TakeRx(usi, 1) /\ umain' = "free"
  /\ UNCHANGED <<isr, ud, urec>>

\* get_tx_count and get_rx_count.
TxCount == IF ud.txBusy THEN ud.txCnt ELSE ud.lastTx
RxCount == IF ud.rxBusy THEN ud.rxCnt ELSE ud.lastRx

UsartCalls ==
  \/ UsartInitialize \/ UsartUninitialize \/ UsartConfig \/ UsartSend \/ UsartAbortSend
  \/ UsartReceive \/ UsartAbortReceive \/ UsartReceiveQuery \/ UsartFlush \/ UsartSetInterrupt
  \/ UsartPutchar \/ UsartPutcharEnd \/ UsartGetchar \/ UsartGetcharEnd

UsartNext == UsartEnter \/ UsartHandler \/ UsartShift \/ UsartArrive \/ UsartCalls

\* A pending interrupt is taken, a handler runs to its end, a byte leaves.
UsartFair == WF_uvars(UsartEnter) /\ WF_isr(HandlerSteps) /\ WF_uvars(UsartShift)

-----------------------------------------------------------------------------
(* What must hold.                                                         *)

\* The state of the port, the handler, the driver and the history is well formed.
UsartTypeOK ==
  /\ usi \in Port(Nat, Nat) /\ isr \in Handler
  /\ ud \in UsartDriver /\ umain \in {"free", "putchar", "getchar"} /\ urec \in UsartHistory

\* What has left the port, waits in its FIFO and in the caller's buffer, in this order.
Stream == urec.out \o usi.tx \o ud.txBuf

\* Every byte given to send or putchar leaves once and in order, unless a call
\* discarded it: no batch of the handler overruns the FIFO, whatever aborted
\* sends and putchar have left there.
SentInOrder ==
  usi.mode = "uart" =>
  /\ \A i, j \in DOMAIN Stream : i < j => Stream[i] < Stream[j]
  /\ {Stream[i] : i \in DOMAIN Stream} \cup urec.drop = 1..urec.given

\* A send that completes has left the port to its last byte: the line is quiet
\* when the callback is told SEND_COMPLETE.
CompleteWhenQuiet ==
  [][isr.on /\ ud.txBusy /\ ~ud'.txBusy => ud.txBuf = << >> /\ usi.tx = << >>]_uvars

\* A receive stores at most the bytes it was asked for (drv_usi_usart_receive:
\* "num Number of data items to receive"); the buffer of its caller has no more.
ReceiveInBuffer == Len(urec.put) <= urec.want

\* A send ends as long as its interrupt stays enabled: the handler is always
\* called again, for the next batch and for the end.
SendArmed == ud.txBusy /\ usi.irq /\ "TX_EMPTY" \in usi.ie \cap usi.mask
SendEnds  == SendArmed ~> ~SendArmed

\* Such a send can go on: the handler is at work or called, or the line has a byte
\* to shift.  What the handler clears and main switches never hides an empty FIFO.
SendGoesOn == SendArmed => isr.on \/ Pending(usi) # {} \/ (Working(usi) /\ usi.tx # << >>)
=============================================================================
