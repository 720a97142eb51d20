------------------------------- MODULE Mailbox -------------------------------
(***************************************************************************)
(* The two-channel mailbox between the TEE and the REE core, clock cycle   *)
(* by clock cycle: rtl/mbx_top.sv, rtl/mbx_channel.sv and rtl/mbx.svh.     *)
(*                                                                         *)
(* Channel 0 carries words from the TEE to the REE, channel 1 from the REE *)
(* to the TEE.  Each channel is one AHB slave port: a read or a write is   *)
(* presented on the bus in one cycle (address phase) and a write takes     *)
(* effect at the end of the next one (data phase).                         *)
(***************************************************************************)
EXTENDS Integers, Sequences

CONSTANTS
  Word,        \* values of the DATA register
  Sizes,       \* values of HSIZE the masters use (0 byte, 1 half word, 2 word)
  CtrlVal,     \* values of the CTRL register
  Ctrl0,       \* CTRL after reset
  Dout0,       \* the FIFO's output before the first word is read
  Depth,       \* words the FIFO holds
  SyncLat,     \* cycles before the read side of the FIFO sees a written word
  RingGap,     \* cycles the masters leave between a DATA and a STATUS write
  BusOf        \* BusOf[c]: the accesses the masters may put on port c

Chan == {0, 1}
Peer(c) == 1 - c

\* A data write of fewer than 32 bits keeps the low bits of HWDATA.
Narrow(size, w) == CASE size = 0 -> w % (2^8)
                     [] size = 1 -> w % (2^16)
                     [] size = 2 -> w
                     [] OTHER    -> 0

NoAccess == [op |-> "none"]
Status   == [int : BOOLEAN, sts : BOOLEAN]
Access   == {NoAccess}
            \cup [op : {"read"}, reg : {"CTRL", "DATA", "STATUS", "ACISR"}]
            \cup [op : {"write"}, reg : {"CTRL"}, data : CtrlVal]
            \cup [op : {"write"}, reg : {"DATA"}, size : Sizes, data : Word]
            \cup [op : {"write"}, reg : {"STATUS"}, data : Status]

Reads(acc, reg)  == acc.op = "read" /\ acc.reg = reg
Writes(acc, reg) == acc.op = "write" /\ acc.reg = reg

ASSUME SizesAssumption == Sizes \subseteq Nat
ASSUME WordAssumption  == \A s \in Sizes, w \in Word : Narrow(s, w) \in Word
ASSUME Ctrl0Assumption == Ctrl0 \in CtrlVal
ASSUME FifoAssumption  == Depth \in Nat \ {0} /\ SyncLat \in Nat \ {0}
ASSUME GapAssumption   == RingGap \in Nat
ASSUME BusAssumption   == BusOf \in [Chan -> SUBSET Access] /\ \A c \in Chan : NoAccess \in BusOf[c]

VARIABLES
  req,      \* req[c]: the access in its data phase (the *_delay registers)
  ctrl,     \* ctrl[c]: ctrl_reg
  status,   \* status[c]: status_reg
  fifo,     \* fifo[c]: data_fifo0, oldest word first, with the age of each
  dout,     \* dout[c]: the FIFO's output register, data_reg
  cstate,   \* cstate[c]: the channel's FSM
  acisr,    \* acisr[c]: the interrupt lines, registered for polling
  gap,      \* history: gap[c], cycles since DATA was last on the bus (<= RingGap)
  rung      \* history: rung[c], the words in the FIFO have been announced

vars == <<req, ctrl, status, fifo, dout, cstate, acisr, gap, rung>>

Entry == [word : Word, age : 0..SyncLat]
States == {"IDLE", "WRITE", "WAIT_READ", "READ_END"}

\* The type of every register; the FIFO never holds more than Depth words.
TypeOK ==
  /\ req \in [Chan -> Access]
  /\ ctrl \in [Chan -> CtrlVal]
  /\ status \in [Chan -> Status]
  /\ fifo \in [Chan -> Seq(Entry)]
  /\ \A c \in Chan : Len(fifo[c]) <= Depth
  /\ dout \in [Chan -> Word \cup {Dout0}]
  /\ cstate \in [Chan -> States]
  /\ acisr \in [Chan -> BOOLEAN]
  /\ gap \in [Chan -> 0..RingGap]
  /\ rung \in [Chan -> BOOLEAN]
-----------------------------------------------------------------------------
\* The read side sees a word SyncLat cycles after it was written.
Empty(c)   == fifo[c] = << >> \/ Head(fifo[c]).age < SyncLat
IntFlag(c) == status[c].int /\ status[c].sts

\* Mutant: a locked channel also waits for the other one's lock.
MutLocking(c) == \/ cstate[c] = "WRITE" /\ IntFlag(c)
                 \/ cstate[c] = "WAIT_READ" /\ (~Empty(Peer(c)) \/ cstate[Peer(c)] = "WAIT_READ")

\* The FSM will be in CH_WAIT_READ in the next cycle.
Locking(c) == \/ cstate[c] = "WRITE" /\ IntFlag(c)
              \/ cstate[c] = "WAIT_READ" /\ ~Empty(Peer(c))

\* Mutant: the lock does not hold writes back.
MutAccepts(c, reg) == Writes(req[c], reg)

\* wen: the write in its data phase is let through.
Accepts(c, reg) == Writes(req[c], reg) /\ ~Locking(c)

NState(c) ==
  CASE cstate[c] = "IDLE"      -> IF Accepts(c, "DATA") THEN "WRITE" ELSE "IDLE"
    [] cstate[c] = "WRITE"     -> IF Locking(c) THEN "WAIT_READ" ELSE "WRITE"
    [] cstate[c] = "WAIT_READ" -> IF Locking(c) THEN "WAIT_READ" ELSE "READ_END"
    [] OTHER                   -> "IDLE"

\* Mutant: int_bit is not gated by the FIFO's empty flag.
MutNStatusUngated(c) == [int |-> IF Accepts(c, "STATUS") THEN req[c].data.int ELSE status[c].int,
                         sts |-> IF Accepts(c, "STATUS") THEN req[c].data.sts ELSE status[c].sts]
\* Mutant: the first read of DATA clears int_bit.
MutNStatusCleared(c) == [int |-> /\ ~Empty(c) /\ ~Reads(req[c], "DATA")
                                 /\ IF Accepts(c, "STATUS") THEN req[c].data.int ELSE status[c].int,
                         sts |-> IF Accepts(c, "STATUS") THEN req[c].data.sts ELSE status[c].sts]

NStatus(c) == [int |-> ~Empty(c) /\ IF Accepts(c, "STATUS") THEN req[c].data.int ELSE status[c].int,
               sts |-> IF Accepts(c, "STATUS") THEN req[c].data.sts ELSE status[c].sts]

\* The FIFO over one cycle: every word ages, rd_en takes the oldest visible
\* word, wr_en adds one unless the FIFO is full.
Aged(q) == [i \in 1..Len(q) |-> [q[i] EXCEPT !.age = IF @ < SyncLat THEN @ + 1 ELSE @]]
Pops(c, acc) == Reads(acc, "DATA") /\ ~Empty(c)
\* Mutant: the FIFO takes a word although it is full.
MutPushes(c) == Accepts(c, "DATA")
Pushes(c) == Accepts(c, "DATA") /\ Len(fifo[c]) < Depth
NFifo(c, acc) ==
  LET kept == Aged(IF Pops(c, acc) THEN Tail(fifo[c]) ELSE fifo[c])
  IN  IF Pushes(c) THEN Append(kept, [word |-> Narrow(req[c].size, req[c].data), age |-> 0])
                   ELSE kept

\* What the master reads in the data phase of a read.
RData(c) == CASE Reads(req[c], "CTRL")   -> ctrl[c]
              [] Reads(req[c], "DATA")   -> dout[c]
              [] Reads(req[c], "STATUS") -> status[c]
              [] Reads(req[c], "ACISR")  -> acisr
              [] OTHER                   -> 0
-----------------------------------------------------------------------------
Init ==
  /\ req = [c \in Chan |-> NoAccess]
  /\ ctrl = [c \in Chan |-> Ctrl0]
  /\ status = [c \in Chan |-> [int |-> FALSE, sts |-> FALSE]]
  /\ fifo = [c \in Chan |-> << >>]
  /\ dout = [c \in Chan |-> Dout0]
  /\ cstate = [c \in Chan |-> "IDLE"]
  /\ acisr = [c \in Chan |-> FALSE]
  /\ gap = [c \in Chan |-> RingGap]
  /\ rung = [c \in Chan |-> FALSE]

\* The FIFO has no reset: it is clocked alike in Tick and in Reset.
ClockFifo(bus) ==
  /\ fifo' = [c \in Chan |-> NFifo(c, bus[c])]
  /\ dout' = [c \in Chan |-> IF Pops(c, bus[c]) THEN Head(fifo[c]).word ELSE dout[c]]
  /\ gap' = [c \in Chan |-> IF Writes(bus[c], "DATA") THEN 0
                            ELSE IF gap[c] < RingGap THEN gap[c] + 1 ELSE gap[c]]

\* The words of a channel are announced by a STATUS write that sets both
\* bits, until a further word, another STATUS write or the last read.
NRung(c) == /\ fifo'[c] # << >>
            /\ ~Pushes(c)
            /\ IF Accepts(c, "STATUS") THEN req[c].data.int /\ req[c].data.sts ELSE rung[c]

\* One rising clock edge, with bus[c] in its address phase on port c.
Tick(bus) ==
  /\ req' = bus
  /\ ctrl' = [c \in Chan |-> IF Accepts(c, "CTRL") THEN req[c].data ELSE ctrl[c]]
  /\ status' = [c \in Chan |-> NStatus(c)]
  /\ cstate' = [c \in Chan |-> NState(c)]
  /\ acisr' = [c \in Chan |-> IntFlag(c)]
  /\ ClockFifo(bus)
  /\ rung' = [c \in Chan |-> NRung(c)]

\* A rising edge with hrst_b low.  The masters are in reset too and the bus
\* is idle, but a data phase under way still reaches the FIFO.
Reset ==
  /\ req' = [c \in Chan |-> NoAccess]
  /\ ctrl' = [c \in Chan |-> Ctrl0]
  /\ status' = [c \in Chan |-> [int |-> FALSE, sts |-> FALSE]]
  /\ cstate' = [c \in Chan |-> "IDLE"]
  /\ acisr' = [c \in Chan |-> FALSE]
  /\ ClockFifo([c \in Chan |-> NoAccess])
  /\ rung' = [c \in Chan |-> FALSE]

\* Masters leave RingGap cycles between the last DATA and the STATUS write.
Disciplined(bus) == \A c \in Chan : Writes(bus[c], "STATUS") => gap[c] >= RingGap

Cycle == \E b0 \in BusOf[0], b1 \in BusOf[1] :
           LET bus == [c \in Chan |-> IF c = 0 THEN b0 ELSE b1]
           IN  Disciplined(bus) /\ Tick(bus)

Next == Cycle \/ Reset
Spec == Init /\ [][Next]_vars
-----------------------------------------------------------------------------
(* Properties *)

\* Words announced after the discipline's gap keep the interrupt up until the
\* last of them is read: the int bit is not lost to the FIFO's empty flag,
\* which lags behind a write (mbx_channel.sv, WriteRegs).
RungIsSignalled == \A c \in Chan : rung[c] => IntFlag(c)

\* An interrupt without a readable word lasts one cycle and only follows a
\* read of DATA: an ISR entered with no read under way finds a word.
IrqHasWord == \A c \in Chan : IntFlag(c) => ~Empty(c) \/ Reads(req[c], "DATA")

\* mbx.svh calls the flag the FSM waits for in CH_WAIT_READ "read by
\* destination core": the lock of a channel should end only when the words of
\* that channel have been read.
LockHeldUntilRead ==
  [][\A c \in Chan : cstate[c] = "WAIT_READ" /\ cstate'[c] = "READ_END" => Empty(c)]_vars

\* The promise of MailboxAbs, with the ages of the words forgotten.
Words(c) == [i \in 1..Len(fifo[c]) |-> fifo[c][i].word]
Abs == INSTANCE MailboxAbs WITH
         queue <- [c \in Chan |-> Words(c)], out <- dout,
         irq <- [c \in Chan |-> IntFlag(c)], locked <- [c \in Chan |-> Locking(c)]
ImplementsAbs == Abs!Spec
=============================================================================
