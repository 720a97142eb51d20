--------------------------------- MODULE Iic ----------------------------------
(***************************************************************************)
(* The I2C master driver (wj_usi_iic.c), both directions by interrupt.  A  *)
(* word in the transmit FIFO is a data byte to write, its position in its  *)
(* transfer, or a request to read one.  The block addresses the slave when *)
(* it is idle and the FIFO is not, holds the bus when the FIFO runs empty, *)
(* and stops when it is told to (bit 1 of I2CM_CTRL).                      *)
(***************************************************************************)
EXTENDS Usi

CONSTANTS
  IicLens,    \* the lengths main transfers
  IicCalls    \* bound: transfers, aborts and ends of a session

ASSUME IicAssumption == IicLens \subseteq Nat \ {0} /\ IicCalls \in Nat

VARIABLES
  id,     \* wj_usi_iic_priv_t
  ibus,   \* the bus: what the master does, the stop bit, whether the slave is there
  irec    \* history of the transfer: bytes left and stored, and its event

ivars == <<usi, isr, id, ibus, irec>>

IicDriver ==
  [open : BOOLEAN, cb : BOOLEAN, status : {"none", "send", "receive", "sent", "received", "done"},
   txBuf : Seq(Nat), txTot : Nat, txCnt : Nat, armed : BOOLEAN,  \* armed: buffers not NULL
   rxTot : Nat, rxCnt : Nat, rxClk : Nat]
IicBus == [st : {"idle", "write", "read"}, stop : BOOLEAN, present : BOOLEAN]
IicHistory == [out : Seq(Nat), got : Nat, calls : Nat,
               event : {"none", "done", "bus_error", "arbitration_lost"}]

Request == 0
Requests(f) == Cardinality({i \in DOMAIN f : f[i] = Request})

IicClosed == [open |-> FALSE, cb |-> FALSE, status |-> "none", armed |-> FALSE,
              txBuf |-> << >>, txTot |-> 0, txCnt |-> 0, rxTot |-> 0, rxCnt |-> 0, rxClk |-> 0]

IicInit == /\ id = IicClosed
           /\ ibus = [st |-> "idle", stop |-> FALSE, present |-> TRUE]
           /\ irec = [out |-> << >>, got |-> 0, calls |-> 0, event |-> "none"]

IicState == [d |-> id, u |-> usi, b |-> ibus, h |-> irec]
IicBecomes(s) == id' = s.d /\ usi' = s.u /\ ibus' = s.b /\ irec' = s.h

\* USI_EN = 0 resets the bus machine and empties the FIFOs.
Off(s) == [s EXCEPT !.u = SetEn(@, {}), !.b = [s.b EXCEPT !.st = "idle"]]

-----------------------------------------------------------------------------
(* The start of a transfer; the slave is there or is not.                  *)

IicSendBits == {"I2C_STOP", "TX_EMPTY", "I2C_NACK"}

\* drv_usi_iic_master_send: the first byte goes out at once.
IicSendStart(s, n, present) ==
  LET u == Restart(SetIe(Unmask(s.u, IicSendBits), {}), Fifos, EnBit)
  IN  [d |-> [s.d EXCEPT !.txBuf = [i \in 1..(n - 1) |-> 1 + i], !.txTot = n, !.txCnt = 1,
                         !.status = "send", !.armed = TRUE],
       u |-> SetIe(WriteTx(u, <<1>>), IicSendBits),
       b |-> [st |-> "idle", stop |-> FALSE, present |-> present],
       h |-> [s.h EXCEPT !.out = << >>, !.got = 0, !.calls = @ + 1, !.event = "none"]]

\* drv_usi_iic_master_receive: one request at once, the rest by the handler.
IicReceiveStart(s, n, present) ==
  LET u == Restart(SetIe(Unmask(SetRxThold(s.u, 1), {"I2C_STOP", "RX_THOLD"}), {}), Fifos, EnBit)
  IN  [d |-> [s.d EXCEPT !.rxTot = n, !.rxCnt = 0, !.rxClk = n - 1, !.status = "receive", !.armed = TRUE],
       u |-> SetIe(WriteTx(u, <<Request>>), {"RX_THOLD"}),
       b |-> [st |-> "idle", stop |-> FALSE, present |-> present],
       h |-> [s.h EXCEPT !.out = << >>, !.got = 0, !.calls = @ + 1, !.event = "none"]]

IicStarts(s) ==
  IF s.h.calls = IicCalls THEN {}
  ELSE {IicSendStart(s, n, p) : n \in IicLens, p \in BOOLEAN} \cup
       {IicReceiveStart(s, n, p) : n \in IicLens, p \in BOOLEAN}

\* The callback is told the event, and may start the next transfer.
Signal(s, event) ==
  LET t == [s EXCEPT !.h = [s.h EXCEPT !.event = event]]
  IN  {t} \cup (IF s.d.cb THEN IicStarts(t) ELSE {})

-----------------------------------------------------------------------------
(* wj_usi_i2c_irqhandler: one pass over the bits it read.                  *)

IicEnter == Serve("i2c", {}) /\ UNCHANGED <<id, ibus, irec>>

\* wj_iic_intr_tx_empty: fill the FIFO; the count is compared before it is
\* raised, so that the stop is ordered in the pass after the last byte's.
IicTxEmpty(s, sta) ==
  LET d == s.d
      free == Fifo - Len(s.u.tx)
      n == IF "TX_EMPTY" \notin sta THEN 0 ELSE IF d.txTot - d.txCnt > free THEN free ELSE d.txTot - d.txCnt
      fed == IF ~d.armed THEN s    \* what it reads at NULL the port, off, drops
             ELSE [s EXCEPT !.u = WriteTx(@, SubSeq(d.txBuf, 1, n)),
                            !.d = [d EXCEPT !.txBuf = SubSeq(@, n + 1, Len(@))]]
      ordered == IF d.txCnt # d.txTot THEN fed
                 ELSE [fed EXCEPT !.b = [fed.b EXCEPT !.stop = TRUE], !.u = IrqOff(@, {"TX_EMPTY"})]
  IN  {[t EXCEPT !.d = [t.d EXCEPT !.txCnt = @ + n]] :
         t \in IF "I2C_STOP" \in sta
               THEN Signal(Off([ordered EXCEPT !.d = [ordered.d EXCEPT !.status = "sent"]]), "done")
               ELSE {ordered}}

\* How many bytes a pass asks for, of clk still to ask for with room in the
\* FIFO, and when it orders the stop.
MutAskFor(clk, room) == IF clk = 0 THEN 0 ELSE IF clk > room THEN room + 1 ELSE 1
AskFor(clk, room)    == IF clk = 0 THEN 0 ELSE IF clk > room THEN room ELSE 1
MutReadSoon(d)  == d.rxClk = 0
MutReadNever(d) == d.rxCnt > d.rxTot
AllRead(d)      == d.rxCnt = d.rxTot

\* wj_iic_intr_rx_full: take what is there, ask for more, set the threshold.
IicRxFull(s, sta) ==
  LET d == s.d
      n == Len(s.u.rx)
      room == Fifo - Len(s.u.tx)
      ask == AskFor(d.rxClk, room)
      read == [s EXCEPT !.u = SetRxThold(WriteTx(TakeRx(ClearIrq(@, {"RX_THOLD"}), n),
                                                 [i \in 1..ask |-> Request]), ask),
                        !.d = [d EXCEPT !.rxCnt = @ + n, !.rxClk = @ - ask],
                        !.h = [s.h EXCEPT !.got = @ + (IF d.armed THEN n ELSE 0)]]
      asked == IF "RX_THOLD" \notin sta THEN s
               ELSE IF ask = 0 THEN [read EXCEPT !.u = IrqOn(@, {"I2C_STOP"})] ELSE read
      ordered == IF ~AllRead(asked.d) THEN asked
                 ELSE [asked EXCEPT !.b = [asked.b EXCEPT !.stop = TRUE], !.u = IrqOff(@, {"RX_THOLD"})]
  IN  IF "I2C_STOP" \in sta
      THEN Signal(Off([ordered EXCEPT !.u = ClearIrq(@, {"I2C_STOP"}),
                                      !.d = [ordered.d EXCEPT !.status = "received"]]), "done")
      ELSE {ordered}

AllOff(s) == Off([s EXCEPT !.u = SetIe(Unmask(@, {}), {})])

IicServe ==
  /\ usi.mode = "i2c" /\ isr.on
  /\ LET s == IicState
         sta == isr.sta
         clear(t) == [t EXCEPT !.u = ClearIrq(@, sta)]
     IN  \E t \in CASE "I2C_NACK" \in sta ->
                         Signal(AllOff([s EXCEPT !.d = [id EXCEPT !.status = "done"]]), "bus_error")
                    [] "I2C_NACK" \notin sta /\ id.status = "send"    -> {clear(t) : t \in IicTxEmpty(s, sta)}
                    [] "I2C_NACK" \notin sta /\ id.status = "receive" -> IicRxFull(s, sta)
                    [] OTHER -> Signal(AllOff(clear(s)), "arbitration_lost") :
           IicBecomes(t)
  /\ isr' = Idle

-----------------------------------------------------------------------------
(* The bus.                                                                *)

\* A stop by the master: its interrupt, and idle.
BusStops(u, bits) == ibus' = [ibus EXCEPT !.st = "idle"] /\ usi' = Raise(u, bits \cup {"I2C_STOP"})

\* Start and address.  Only a write that is not answered raises NACK: a read
\* is given up with a stop and begun again, as its request is still there.
IicAddress ==
  /\ usi.mode = "i2c" /\ Working(usi) /\ ibus.st = "idle" /\ usi.tx # << >>
  /\ IF ibus.present
     THEN /\ ibus' = [ibus EXCEPT !.st = IF Head(usi.tx) = Request THEN "read" ELSE "write"]
          /\ UNCHANGED usi
     ELSE BusStops(usi, IF Head(usi.tx) = Request THEN {} ELSE {"I2C_NACK"})
  /\ UNCHANGED <<isr, id, irec>>

\* A byte goes to the slave, which may refuse it.
IicWriteByte ==
  /\ ibus.st = "write" /\ usi.tx # << >>
  /\ irec' = [irec EXCEPT !.out = Append(@, Head(usi.tx))]
  /\ \/ usi' = Shifted(usi) /\ UNCHANGED ibus
     \/ BusStops(Shifted(usi), {"I2C_NACK"})
  /\ UNCHANGED <<isr, id>>

\* A byte comes from the slave for a request.
IicReadByte ==
  /\ ibus.st = "read" /\ usi.tx # << >>
  /\ usi' = Arrived(Shifted(usi), Request)
  /\ UNCHANGED <<isr, id, ibus, irec>>

\* With nothing left to do and the stop bit set the master stops.
IicStop ==
  /\ ibus.st # "idle" /\ usi.tx = << >> /\ ibus.stop
  /\ BusStops(usi, {})
  /\ UNCHANGED <<isr, id, irec>>

-----------------------------------------------------------------------------
(* The calls of main.                                                      *)

IicFree == MainRuns /\ usi.mode = "i2c" /\ id.open
\* Main starts a transfer when the last one is over; the driver does not check.
IicQuiet == id.status \notin {"send", "receive"}

IicInitialize ==
  /\ MainRuns /\ usi.mode = "i2c" /\ ~id.open
  /\ \E cb \in BOOLEAN : id' = [IicClosed EXCEPT !.open = TRUE, !.cb = cb]
  /\ usi' = [usi EXCEPT !.irq = TRUE]
  /\ UNCHANGED <<isr, ibus, irec>>

IicUninitialize ==
  /\ IicFree /\ irec.calls < IicCalls
  /\ LET s == Off([IicState EXCEPT !.u = SetIe(@, {})])
     IN  IicBecomes([s EXCEPT !.d = IicClosed, !.u = [s.u EXCEPT !.irq = FALSE],
                              !.h = [irec EXCEPT !.calls = @ + 1, !.event = "none"]])
  /\ UNCHANGED isr

\* Setting the address mode sets the stop bit.
IicConfig ==
  /\ IicFree /\ IicQuiet
  /\ ibus' = [ibus EXCEPT !.stop = TRUE]
  /\ UNCHANGED <<usi, isr, id, irec>>

IicMasterSend ==
  /\ IicFree /\ IicQuiet /\ irec.calls < IicCalls
  /\ \E n \in IicLens, p \in BOOLEAN : IicBecomes(IicSendStart(IicState, n, p))
  /\ UNCHANGED isr

IicMasterReceive ==
  /\ IicFree /\ IicQuiet /\ irec.calls < IicCalls
  /\ \E n \in IicLens, p \in BOOLEAN : IicBecomes(IicReceiveStart(IicState, n, p))
  /\ UNCHANGED isr

\* The status and the interrupts stay as they were.
IicAbort ==
  /\ IicFree /\ ~IicQuiet /\ irec.calls < IicCalls
  /\ IicBecomes(Off([IicState EXCEPT !.d = [id EXCEPT !.rxCnt = 0, !.txCnt = 0, !.armed = FALSE, !.txBuf = << >>],
                                     !.h = [irec EXCEPT !.calls = @ + 1]]))
  /\ UNCHANGED isr

\* drv_usi_iic_get_data_count.
IicDataCount == CASE id.status \in {"receive", "received"} -> id.rxCnt
                  [] id.status \in {"send", "sent"} -> id.txCnt
                  [] OTHER -> 0

IicNext ==
  \/ IicEnter \/ IicServe \/ IicAddress \/ IicWriteByte \/ IicReadByte \/ IicStop
  \/ IicInitialize \/ IicUninitialize \/ IicConfig \/ IicMasterSend \/ IicMasterReceive \/ IicAbort

IicFair == /\ WF_ivars(IicEnter) /\ WF_isr(isr.on /\ isr' = Idle)
           /\ WF_ivars(IicAddress) /\ WF_ivars(IicWriteByte) /\ WF_ivars(IicReadByte) /\ WF_ivars(IicStop)

-----------------------------------------------------------------------------
(* What must hold.                                                         *)

\* The port, the handler, the driver, the bus and the history are well formed.
IicTypeOK == /\ usi \in Port(Nat, Nat) /\ isr \in Handler
             /\ id \in IicDriver /\ ibus \in IicBus /\ irec \in IicHistory

\* While a receive runs, what it stored, what has arrived, what is asked for
\* and what is still to ask for add up to its length: no request is lost or
\* made twice, and the buffer is never overrun.
RequestsAddUp ==
  id.status = "receive" /\ id.armed =>
    irec.got + Len(usi.rx) + Requests(usi.tx) + id.rxClk = id.rxTot

\* The threshold the handler leaves can be reached with what it has asked for:
\* a receive never waits for an interrupt that cannot come.
ThresholdInReach ==
  id.status = "receive" /\ id.armed /\ usi.th.edge =>
    (Fifo \div 4) * usi.th.quarter <= Len(usi.rx) + Requests(usi.tx)

\* TRANSFER_DONE means done: a send has put each of its bytes on the bus, in
\* order; a receive from a slave that is there has stored all it asked for.
DoneIsComplete ==
  irec.event = "done" =>
    /\ id.status = "sent" /\ id.armed =>
         irec.out = [i \in 1..id.txTot |-> i]
    /\ id.status = "received" /\ id.armed /\ ibus.present => irec.got = id.rxTot

\* A transfer that runs can go on: the handler is called or at work, or the bus
\* has a byte to move or a stop to make.  Driver and bus never wait for each other.
BusMoves  == Working(usi) /\ (usi.tx # << >> \/ (ibus.st # "idle" /\ ibus.stop))
IicGoesOn == id.open /\ ~IicQuiet /\ id.armed => isr.on \/ (usi.irq /\ Pending(usi) # {}) \/ BusMoves

\* A transfer that is not aborted ends with an event, from a slave that is there.
IicRunning == id.open /\ ~IicQuiet /\ id.armed /\ ibus.present
IicEnds == IicRunning ~> ~IicRunning
=============================================================================
