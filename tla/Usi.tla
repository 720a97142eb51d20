--------------------------------- MODULE Usi ----------------------------------
(***************************************************************************)
(* One USI port: the serial block that is a UART, an I2C master or an SPI  *)
(* master (src/rtl/usi0.v), and the part of its driver that the three      *)
(* modes share (wj_usi.c).  A byte leaves the transmit FIFO when it has    *)
(* been shifted out, so an empty FIFO means a quiet line.  Interrupt bits  *)
(* are latched; TX_EMPTY, RX_THOLD and RX_FULL are latched again as long   *)
(* as their level holds.  Usart, Spi and Iic are the drivers of the modes. *)
(***************************************************************************)
EXTENDS Integers, Sequences, FiniteSets

CONSTANT
  Fifo   \* the depth of each FIFO (USI_TX_MAX_FIFO, USI_RX_MAX_FIFO)

\* The thresholds are quarters of the FIFO (4, 8 and 12 of 16 words).
ASSUME FifoAssumption == Fifo \in Nat \ {0} /\ Fifo % 4 = 0

VARIABLES
  usi,   \* the registers and FIFOs of the port
  isr    \* the handler: idle, or the status it read and the bits it has still to serve

Modes == {"uart", "i2c", "spi"}
Intr  == {"TX_EMPTY", "RX_THOLD", "RX_FULL", "UART_STOP", "UART_PERR", "I2C_STOP", "I2C_NACK"}
EnBit == {"usi", "fm", "tx", "rx"}

Port(Tx, Rx) ==
  [mode : Modes, en : SUBSET EnBit,
   ie : SUBSET Intr, mask : SUBSET Intr, ip : SUBSET Intr,  \* INTR_EN, UNMASK, STA
   th : [edge : BOOLEAN, quarter : 1..3],                   \* INTR_CTRL
   tx : Seq(Tx), rx : Seq(Rx),
   irq : BOOLEAN]                                           \* the line is enabled

Idle == [sta |-> {}, left |-> {}, on |-> FALSE]
Handler == [sta : SUBSET Intr, left : SUBSET Intr, on : BOOLEAN]

ResetPort == [mode |-> "uart", en |-> {}, ie |-> {}, mask |-> {}, ip |-> {},
              th |-> [edge |-> FALSE, quarter |-> 1], tx |-> << >>, rx |-> << >>, irq |-> FALSE]

-----------------------------------------------------------------------------
(* The port seen from its registers: each operator is one write access.    *)

\* Writing a full FIFO drops its oldest word.
Newest(f) == IF Len(f) > Fifo THEN SubSeq(f, Len(f) - Fifo + 1, Len(f)) ELSE f

TxOn(u) == {"usi", "tx"} \subseteq u.en
RxOn(u) == {"usi", "rx"} \subseteq u.en

Level(u) == LET n == (Fifo \div 4) * u.th.quarter
            IN  (IF u.tx = << >> THEN {"TX_EMPTY"} ELSE {}) \cup
                (IF (IF u.th.edge THEN Len(u.rx) >= n ELSE Len(u.rx) <= n) THEN {"RX_THOLD"} ELSE {}) \cup
                (IF Len(u.rx) = Fifo THEN {"RX_FULL"} ELSE {})

\* A FIFO that is switched off is empty; a bit whose enable is off is clear.
Settle(u) == LET v == [u EXCEPT !.tx = IF TxOn(u) THEN @ ELSE << >>,
                                !.rx = IF RxOn(u) THEN @ ELSE << >>]
             IN  [v EXCEPT !.ip = (@ \cup Level(v)) \cap v.ie]

SetEn(u, e)    == Settle([u EXCEPT !.en = e])
SetIe(u, s)    == Settle([u EXCEPT !.ie = s])
IrqOn(u, s)    == SetIe(u, u.ie \cup s)
IrqOff(u, s)   == SetIe(u, u.ie \ s)
Unmask(u, s)   == [u EXCEPT !.mask = s]
ClearIrq(u, s) == Settle([u EXCEPT !.ip = @ \ s])
Raise(u, s)    == Settle([u EXCEPT !.ip = @ \cup s])
WriteTx(u, ws) == Settle([u EXCEPT !.tx = Newest(@ \o ws)])
TakeRx(u, n)   == Settle([u EXCEPT !.rx = SubSeq(@, n + 1, Len(@))])
Pending(u)     == u.ip \cap u.mask

\* Enables off, then e: the FIFOs of f start empty.
MutRestart(u, f, e) == Settle([u EXCEPT !.en = e])
Restart(u, f, e) == Settle([u EXCEPT !.tx = IF "tx" \in f THEN << >> ELSE @,
                                     !.rx = IF "rx" \in f THEN << >> ELSE @, !.en = e])
Flush(u, f)      == Restart(u, f, u.en \cup f)
Fifos            == {"tx", "rx"}

\* Mutants: the quarter is the length's, which may be none or all of them; the
\* threshold is never one from below.
MutSetRxThold(u, len)  == Settle([u EXCEPT !.th = [edge |-> len >= Fifo \div 4, quarter |-> len \div (Fifo \div 4)]])
MutRisingThold(u, len) == Settle([u EXCEPT !.th = [edge |-> TRUE, quarter |-> 1]])

\* wj_usi_set_rxfifo_th: an interrupt from n words on, or up to n.
SetRxThold(u, len) ==
  LET q == Fifo \div 4
  IN  Settle([u EXCEPT !.th = [edge    |-> len >= q,
                               quarter |-> IF len >= Fifo THEN 3
                                           ELSE IF len >= Fifo - q THEN 2 ELSE 1]])

-----------------------------------------------------------------------------
(* The line: one word leaves, one word arrives.                            *)

Working(u) == {"usi", "fm"} \subseteq u.en

Shifted(u)     == Settle([u EXCEPT !.tx = Tail(@)])
Arrived(u, w)  == Settle([u EXCEPT !.rx = Newest(Append(@, w))])

-----------------------------------------------------------------------------
(* Entry to the handler: wj_usi_irqhandler picks the driver of MODE_SEL,   *)
(* which reads INTR_STA once and then serves the bits it knows in order.   *)

Serve(mode, bits) ==
  /\ ~isr.on /\ usi.irq /\ usi.mode = mode /\ Pending(usi) # {}
  /\ isr' = [sta |-> Pending(usi), left |-> Pending(usi) \cap bits, on |-> TRUE]
  /\ UNCHANGED usi

\* A bit is served after those the driver tests earlier.
Serving(bit, earlier) == isr.on /\ bit \in isr.left /\ isr.left \cap earlier = {}
Served(bit)           == [isr EXCEPT !.left = @ \ {bit}]
AllServed             == isr.on /\ isr.left = {}

\* A handler that has begun takes its next step: what its fairness is about.
HandlerSteps == isr.on /\ isr' \in {Idle} \cup {Served(bit) : bit \in isr.left}

\* Main runs while no handler does.
MainRuns == ~isr.on
=============================================================================
