----------------------------- MODULE MbxDrivers ------------------------------
(***************************************************************************)
(* The two cores' programs on top of the mailbox hardware: the main        *)
(* programs, the mailbox drivers (my_mbx_ch0.c, my_mbx_ch1.c) with their   *)
(* interrupt handlers, and the handler that reports an IOPMP exception to  *)
(* the TEE (my_iopmp.c).  Every load and store of a mailbox register is    *)
(* one access of Mailbox; a core may let any number of cycles pass between *)
(* two of them.  Handlers do not nest (all interrupts have one level) and  *)
(* are entered between two accesses of main.                               *)
(***************************************************************************)
EXTENDS Mailbox, SequencesExt

CONSTANTS
  Programs,   \* pairs of main programs that run together
  CtrlFor(_), \* the CTRL value that announces n words
  LenOf(_)    \* the length a handler extracts from a CTRL value

CPU == {"tee", "ree"}
Out(p)   == IF p = "tee" THEN 0 ELSE 1     \* the channel p writes
In(p)    == Peer(Out(p))                   \* the channel p reads
Other(p) == IF p = "tee" THEN "ree" ELSE "tee"

ReadOf(reg)    == [op |-> "read", reg |-> reg]
ConfigWrite(n) == [op |-> "write", reg |-> "CTRL", data |-> CtrlFor(n)]
SendWrite(w)   == [op |-> "write", reg |-> "DATA", size |-> 2, data |-> w]
PutIntr        == [op |-> "write", reg |-> "STATUS", data |-> [int |-> TRUE, sts |-> TRUE]]

\* main: mbx_chX_config, one mbx_chX_send a word, mbx_chX_putintr.
Message(ws) == IF ws = << >> THEN << >>
               ELSE <<ConfigWrite(Len(ws))>> \o [i \in DOMAIN ws |-> SendWrite(ws[i])] \o <<PutIntr>>

\* sent[p]: the words main of p passes to mbx_chX_send, in order; faults: the
\* addresses main of the REE reads without permission, in order.
ASSUME ProgramsAssumption ==
  \A prog \in Programs : prog.sent \in [CPU -> Seq(Word)] /\ prog.faults \in Seq(Word)

\* The length of a message, and that of the report of an exception, survives
\* the way through its field of CTRL.
ASSUME LengthAssumption ==
  /\ \A v \in CtrlVal : LenOf(v) \in Nat
  /\ \A n \in ({1} \cup {Len(prog.sent[p]) : prog \in Programs, p \in CPU}) \ {0} :
       CtrlFor(n) \in CtrlVal /\ LenOf(CtrlFor(n)) = n
ASSUME DataSizeAssumption == 2 \in Sizes

VARIABLES
  sent,     \* what the main programs send
  core,     \* core[p]: the state of p's program
  faults,   \* the faulting reads main of the REE has still to make
  excPend,  \* the IOPMP's interrupt line to the REE is up
  excAddr,  \* ahb_exp_addr: the address of the last faulting read
  outbox    \* history: outbox[p], the messages p has written, in order

dvars == <<req, ctrl, status, fifo, dout, cstate, acisr, gap, rung, sent, core, faults, excPend, excAddr, outbox>>

Points == {"main", "readCtrl", "gotCtrl", "readData", "gotData", "exit",
           "excCtrl", "excData", "excRing"}

Core == [todo  : Seq(Access),          \* the accesses main has still to make
         irqOn : BOOLEAN,              \* mbx_chX_initialize has run
         at    : Points,               \* in main, or where in a handler
         left  : Nat,                  \* words the mailbox handler has to read
         got   : Seq(Word \cup {Dout0}),         \* words it has read
         inbox : Seq(Seq(Word \cup {Dout0}))]    \* history: messages handed over

\* The access p makes next, from main or from a handler.
NextAccess(p) ==
  CASE core[p].at = "main" /\ core[p].irqOn /\ core[p].todo # << >> -> Head(core[p].todo)
    [] core[p].at = "readCtrl" -> ReadOf("CTRL")
    [] core[p].at = "readData" -> ReadOf("DATA")
    [] core[p].at = "excCtrl"  -> ConfigWrite(1)
    [] core[p].at = "excData"  -> SendWrite(excAddr)
    [] core[p].at = "excRing"  -> PutIntr
    [] OTHER -> NoAccess
Port(p) == IF NextAccess(p).op = "read" THEN In(p) ELSE Out(p)

\* Mutant: iopmp_irqhandler rings before it writes the address.
MutIssued(s) ==
  CASE s.at = "main"     -> [s EXCEPT !.todo = Tail(@)]
    [] s.at = "readCtrl" -> [s EXCEPT !.at = "gotCtrl"]
    [] s.at = "readData" -> [s EXCEPT !.at = "gotData"]
    [] s.at = "excCtrl"  -> [s EXCEPT !.at = "excRing"]
    [] s.at = "excRing"  -> [s EXCEPT !.at = "excData"]
    [] s.at = "excData"  -> [s EXCEPT !.at = "main"]

\* The core after its access has been put on the bus.
Issued(s) ==
  CASE s.at = "main"     -> [s EXCEPT !.todo = Tail(@)]
    [] s.at = "readCtrl" -> [s EXCEPT !.at = "gotCtrl"]
    [] s.at = "readData" -> [s EXCEPT !.at = "gotData"]
    [] s.at = "excCtrl"  -> [s EXCEPT !.at = "excData"]
    [] s.at = "excData"  -> [s EXCEPT !.at = "excRing"]
    [] s.at = "excRing"  -> [s EXCEPT !.at = "main"]

\* mbx_chX_irqhandler: the length is read once, then that many words, whether
\* or not the FIFO holds them.
ReadNext(s) == [s EXCEPT !.at = IF s.left = 0 THEN "exit" ELSE "readData"]
GotCtrl(s, v) == ReadNext([s EXCEPT !.left = LenOf(v)])
\* Mutant: the loop counts each word twice.
MutGotData(s, w) == ReadNext([s EXCEPT !.left = @ - 2, !.got = Append(@, w)])
GotData(s, w) == ReadNext([s EXCEPT !.left = @ - 1, !.got = Append(@, w)])
Leave(s)      == [s EXCEPT !.at = "main", !.inbox = Append(@, s.got)]
\* Mutant: the receive buffer of the last message is not restarted.
MutEnterMbx(s) == [s EXCEPT !.at = "readCtrl"]
EnterMbx(s)   == [s EXCEPT !.at = "readCtrl", !.got = << >>]
EnterExc(s)   == [s EXCEPT !.at = "excCtrl"]

\* What p does in a cycle in which it puts nothing on the bus.
Local(p, enter) ==
  LET s == core[p] IN
  CASE s.at = "gotCtrl" -> GotCtrl(s, RData(In(p)))
    [] s.at = "gotData" -> GotData(s, RData(In(p)))
    [] s.at = "exit"    -> Leave(s)
    [] s.at = "main" /\ enter = "init" -> [s EXCEPT !.irqOn = TRUE]
    [] s.at = "main" /\ enter = "mbx" /\ s.irqOn /\ IntFlag(In(p)) -> EnterMbx(s)
    [] s.at = "main" /\ enter = "exc" /\ s.irqOn /\ p = "ree" /\ excPend -> EnterExc(s)
    [] OTHER -> s

\* The last word of a message has been written: what the message says.
Written(p) == CASE core[p].at = "excData" -> <<excAddr>>
                [] core[p].at = "main" /\ Len(core[p].todo) = 2 -> sent[p]
                [] OTHER -> << >>

\* Main of the REE makes a read the IOPMP denies: the read does not reach a
\* slave, its address is kept, and the interrupt is raised.
Faulting == faults # << >> /\ core["ree"].at = "main" /\ core["ree"].irqOn
-----------------------------------------------------------------------------
DInit ==
  /\ Init
  /\ \E prog \in Programs : sent = prog.sent /\ faults = prog.faults
  /\ core = [p \in CPU |-> [todo |-> Message(sent[p]), irqOn |-> FALSE, at |-> "main",
                            left |-> 0, got |-> << >>, inbox |-> << >>]]
  /\ excPend = FALSE
  /\ excAddr = Dout0
  /\ outbox = [p \in CPU |-> << >>]

\* One clock cycle.  go: the cores whose access the bus matrix grants; the
\* others wait, or do what they do without the bus.
DNext ==
  \E go \in SUBSET {p \in CPU : NextAccess(p) # NoAccess},
     enter \in [CPU -> {"none", "init", "mbx", "exc"}],
     fault \in {FALSE, Faulting}, still \in {FALSE, excPend} :
    LET bus == [c \in Chan |-> IF \E p \in go : Port(p) = c
                               THEN NextAccess(CHOOSE p \in go : Port(p) = c) ELSE NoAccess]
    IN
    /\ \A p, q \in go : Port(p) = Port(q) => p = q
    /\ Disciplined(bus)
    /\ Tick(bus)
    /\ UNCHANGED sent
    /\ core' = [p \in CPU |-> IF p \in go THEN Issued(core[p]) ELSE Local(p, enter[p])]
    /\ fault => "ree" \notin go /\ core'["ree"] = core["ree"]
    /\ faults' = IF fault THEN Tail(faults) ELSE faults
    /\ excAddr' = IF fault THEN Head(faults) ELSE excAddr
       \* The line is up for the cycles of the denied access, at the latest until the
       \* core takes it; the controller keeps no line that has fallen.
    /\ excPend' = (fault \/ (still /\ core'["ree"].at # "excCtrl"))
    /\ outbox' = [p \in CPU |-> IF p \in go /\ Written(p) # << >>
                                 THEN Append(outbox[p], Written(p)) ELSE outbox[p]]

\* The clock runs, and a core that can go on does.
DSpec == DInit /\ [][DNext]_dvars
Fairness == WF_dvars(DNext) /\ \A p \in CPU : WF_(core[p])(DNext)
FairSpec == DSpec /\ Fairness
-----------------------------------------------------------------------------
(* Properties *)

\* The type of the cores' state, the histories and the hardware.
DTypeOK ==
  /\ TypeOK
  /\ sent \in [CPU -> Seq(Word)]
  /\ core \in [CPU -> Core]
  /\ faults \in Seq(Word)
  /\ excPend \in BOOLEAN
  /\ excAddr \in Word \cup {Dout0}
  /\ outbox \in [CPU -> Seq(Seq(Word))]

\* Each time a mailbox handler runs it hands over exactly one message the
\* other core has written, whole, in order, and none twice.
MessagesIntact == \A p \in CPU : IsPrefix(core[p].inbox, outbox[Other(p)])

\* p has still to write, or its last write is in its data phase; what p has
\* written raises the other core's interrupt, or its handler is at work.
Receiving == {"readCtrl", "gotCtrl", "readData", "gotData", "exit"}
Reporting == {"excCtrl", "excData", "excRing"}
Sending(p)   == core[p].todo # << >> \/ core[p].at \in Reporting \/ req[Out(p)].op = "write"
Signalled(p) == IntFlag(Out(p)) \/ core[Other(p)].at \in Receiving

\* A message that has been written and not been handed over is announced to its
\* reader until it is: no doorbell is lost, whatever the reader does meanwhile.
NoneForgotten == \A p \in CPU :
  Len(core[Other(p)].inbox) < Len(outbox[p]) => Sending(p) \/ Signalled(p)

\* A lock that lasts waits for words that somebody is called to read, or whose
\* sender goes on and is not locked itself: the two locks never wait for each other.
LockLetsGo == \A p \in CPU :
  cstate[In(p)] = "WAIT_READ" /\ Locking(In(p)) => Signalled(p) \/ (Sending(p) /\ ~Locking(Out(p)))

\* Nothing in the mailbox waits for what cannot come.
DriversGoOn == NoneForgotten /\ LockLetsGo

\* Every message written is handed over.
MessagesArrive == <>[](\A p \in CPU : core[p].todo = << >> /\ core[p].inbox = outbox[Other(p)])

\* A lock waits for the other channel to be read: it ends all the same,
\* even when both channels are locked at once.
LocksEnd == \A c \in Chan : cstate[c] = "WAIT_READ" ~> cstate[c] = "IDLE"
=============================================================================
