--------------------------------- MODULE Spi ----------------------------------
(***************************************************************************)
(* The SPI master driver (wj_usi_spi.c): send and transfer by interrupt or *)
(* by polling, receive by polling, with a GPIO as slave select.  Words go  *)
(* in rounds of one FIFO; each word that leaves brings one back.  A word   *)
(* is its position among all words given, 0 the dummy of a receive, and    *)
(* the slave answers a word with itself.                                   *)
(***************************************************************************)
EXTENDS Usi

CONSTANTS
  SpiLens,             \* the lengths main transfers
  SpiMaxTx, SpiCalls   \* bounds: words given; configurations and aborts

ASSUME SpiAssumption == SpiLens \subseteq Nat \ {0} /\ SpiMaxTx \in Nat /\ SpiCalls \in Nat

VARIABLES
  sd,     \* wj_usi_spi_priv_t
  sline,  \* the slave select line is active (low)
  smain,  \* the polling call main is in
  srec    \* history: words given, left, discarded, stored

svars == <<usi, isr, sd, sline, smain, srec>>

SpiDriver ==
  [state : {"none", "init", "conf"}, cb : BOOLEAN, busy : BOOLEAN, block : BOOLEAN,
   mode : {"tx", "txrx"}, hwSs : BOOLEAN, stat : {"idle", "send", "rcv", "tran"},
   tot : Nat, sendNum : Nat, recvNum : Nat, clkNum : Nat, trNum : Nat,
   sendBuf : Seq(Nat), recvBuf : BOOLEAN]      \* words still to write; not NULL

\* words still to write, the round's length, whether the answers are stored
SpiPoll == [call : {"free", "send", "receive", "transfer"}, left : Seq(Nat), once : Nat]
SpiHistory == [given : Nat, out : Seq(Nat), drop : SUBSET Nat,
               sent : Seq(Nat), got : Seq(Nat), calls : Nat]

SpiIdle == [state |-> "none", cb |-> FALSE, busy |-> FALSE, block |-> FALSE,
            mode |-> "txrx", hwSs |-> FALSE, stat |-> "idle",
            tot |-> 0, sendNum |-> 0, recvNum |-> 0, clkNum |-> 0, trNum |-> 0,
            sendBuf |-> << >>, recvBuf |-> FALSE]

SpiNoPoll == [call |-> "free", left |-> << >>, once |-> 0]

SpiInit == /\ sd = SpiIdle /\ sline = FALSE /\ smain = SpiNoPoll
           /\ srec = [given |-> 0, out |-> << >>, drop |-> {}, sent |-> << >>, got |-> << >>, calls |-> 0]

\* The driver, the port, the line and the history, as one state.
SpiState == [d |-> sd, u |-> usi, l |-> sline, h |-> srec]
SpiBecomes(s) == sd' = s.d /\ usi' = s.u /\ sline' = s.l /\ srec' = s.h

\* wj_spi_ss_control: the line is the driver's in the output mode only.
SsControl(s, active) == IF s.d.hwSs THEN [s EXCEPT !.l = active] ELSE s

MutRound(n) == n
Round(n) == IF n >= Fifo THEN Fifo ELSE n

NewWords(s, n) == [i \in 1..n |-> s.h.given + i]
Given(s, n)    == [s EXCEPT !.h = [s.h EXCEPT !.given = @ + n, !.sent = NewWords(s, n), !.got = << >>]]

-----------------------------------------------------------------------------
(* The start of a transfer by interrupt.                                   *)

SpiIrqBits == {"TX_EMPTY"}

\* drv_usi_spi_send.
SpiSendStart(s, n) ==
  LET t == SsControl(Given(s, n), TRUE)
  IN  [t EXCEPT
        !.d = [t.d EXCEPT !.busy = TRUE, !.tot = n, !.stat = "send", !.mode = "tx", !.sendNum = n,
                          !.clkNum = n, !.sendBuf = NewWords(s, n), !.trNum = 0],
        !.u = Unmask(SetIe(Restart(@, Fifos, EnBit), SpiIrqBits), SpiIrqBits)]

\* drv_usi_spi_transfer, the two lengths equal.
SpiTransferStart(s, n) ==
  LET t == SsControl(Given(s, n), TRUE)
  IN  [t EXCEPT
        !.d = [t.d EXCEPT !.busy = TRUE, !.tot = n, !.stat = "tran", !.mode = "txrx", !.sendNum = n,
                          !.recvNum = n, !.clkNum = n, !.trNum = 0,
                          !.sendBuf = NewWords(s, n), !.recvBuf = TRUE],
        !.u = IrqOn(Unmask(Restart(@, Fifos, EnBit), @.mask \cup SpiIrqBits), SpiIrqBits)]

SpiStarts(s) ==
  {SpiSendStart(s, n) : n \in {m \in SpiLens : s.h.given + m <= SpiMaxTx}} \cup
  {SpiTransferStart(s, n) : n \in {m \in SpiLens : s.h.given + m <= SpiMaxTx}}

-----------------------------------------------------------------------------
(* wj_usi_spi_irqhandler.  SPI_STOP is never enabled: a receive polls.     *)

SpiEnter == Serve("spi", {"TX_EMPTY"}) /\ UNCHANGED <<sd, sline, smain, srec>>

\* Read the answers of the last round.  After an abort the pointer is NULL and
\* they are stored from address 0 on, in memory that is not part of the model.
SpiReadRound(s) ==
  IF s.d.mode = "tx" THEN s
  ELSE LET n == IF s.d.trNum <= Len(s.u.rx) THEN s.d.trNum ELSE Len(s.u.rx)
       IN  [s EXCEPT !.u = TakeRx(@, n),
                     !.h = IF s.d.recvBuf THEN [s.h EXCEPT !.got = @ \o SubSeq(s.u.rx, 1, n)] ELSE @]

SpiWriteRound(s) ==
  LET n == Round(s.d.clkNum)
  IN  [s EXCEPT !.u = WriteTx(@, SubSeq(s.d.sendBuf, 1, n)),
                !.d = [s.d EXCEPT !.trNum = n, !.sendNum = @ - n,
                                  !.sendBuf = SubSeq(@, n + 1, Len(@))]]

\* Mutant: the slave is let go when the callback has returned.
MutSpiFinish(s) ==
  LET t == [s EXCEPT !.d = [s.d EXCEPT !.busy = FALSE, !.sendNum = 0],
                     !.u = Restart(IrqOff(@, SpiIrqBits), Fifos, EnBit)]
  IN  {SsControl(r, FALSE) : r \in {t} \cup (IF s.d.cb THEN SpiStarts(t) ELSE {})}

\* The transfer is over; the callback may start the next one.
SpiFinish(s) ==
  LET t == SsControl([s EXCEPT !.d = [s.d EXCEPT !.busy = FALSE, !.sendNum = 0],
                               !.u = Restart(IrqOff(@, SpiIrqBits), Fifos, EnBit)], FALSE)
  IN  {t} \cup (IF s.d.cb THEN SpiStarts(t) ELSE {})

\* All rounds are counted down.
MutOverSoon(d)  == d.clkNum <= Fifo
MutOverNever(d) == d.clkNum < 0
RoundsOver(d)   == d.clkNum = 0

\* wj_spi_intr_tx_empty.
SpiTxEmpty(s) ==
  LET t == SpiWriteRound(SpiReadRound(s))
  IN  IF RoundsOver(s.d) THEN SpiFinish(t)
      ELSE {[t EXCEPT !.d = [t.d EXCEPT !.clkNum = @ - t.d.trNum]]}

SpiServeTx ==
  /\ usi.mode = "spi" /\ Serving("TX_EMPTY", {})
  /\ \E s \in SpiTxEmpty(SpiState) : SpiBecomes([s EXCEPT !.u = ClearIrq(@, {"TX_EMPTY"})])
  /\ isr' = Served("TX_EMPTY") /\ UNCHANGED smain

SpiLeave ==
  /\ usi.mode = "spi" /\ AllServed
  /\ usi' = ClearIrq(usi, isr.sta) /\ isr' = Idle
  /\ UNCHANGED <<sd, sline, smain, srec>>

-----------------------------------------------------------------------------
(* The line: a word leaves and its answer arrives; with the receiver on a  *)
(* full receive FIFO holds the line.                                       *)

SpiShift ==
  /\ usi.mode = "spi" /\ Working(usi) /\ usi.tx # << >>
  /\ sd.mode = "txrx" => Len(usi.rx) < Fifo
  /\ usi' = Arrived(Shifted(usi), Head(usi.tx))
  /\ srec' = [srec EXCEPT !.out = IF Head(usi.tx) = 0 THEN @ ELSE Append(@, Head(usi.tx))]
  /\ UNCHANGED <<isr, sd, sline, smain>>

-----------------------------------------------------------------------------
(* The calls of main.  After an abort main waits for the handler, which    *)
(* runs on until it has counted the aborted transfer down.                 *)

SpiFree == MainRuns /\ smain.call = "free" /\ usi.mode = "spi"
SpiReady == SpiFree /\ sd.state = "conf" /\ ~sd.busy /\ "TX_EMPTY" \notin usi.ie

SpiInitialize ==
  /\ SpiFree /\ sd.state = "none"
  /\ \E cb \in BOOLEAN : sd' = [sd EXCEPT !.state = "init", !.cb = cb, !.busy = FALSE]
  /\ usi' = [usi EXCEPT !.irq = TRUE]
  /\ UNCHANGED <<isr, sline, smain, srec>>

\* Main uninitializes when no transfer runs; the driver does not check.
SpiUninitialize ==
  /\ SpiFree /\ sd.state # "none" /\ ~sd.busy /\ "TX_EMPTY" \notin usi.ie
  /\ sd' = [sd EXCEPT !.state = "none", !.cb = FALSE, !.busy = FALSE]
  /\ usi' = [SetEn(usi, {}) EXCEPT !.irq = FALSE]
  /\ UNCHANGED <<isr, sline, smain, srec>>

\* A width, rate, format or bit order it knows makes the driver configured.
SpiSetting(d, known) == IF known THEN [d EXCEPT !.state = "conf"] ELSE d

\* drv_usi_spi_config_ss_mode: to drive the line is to begin with it inactive.
SpiSetSs(s, ss) ==
  IF ss = "keep" THEN s
  ELSE [s EXCEPT !.d = [s.d EXCEPT !.hwSs = ss = "hw", !.state = "conf"],
                 !.l = IF ss = "hw" THEN FALSE ELSE @]

\* drv_usi_spi_config: an error on the way leaves the port off, and one in the
\* width, the last setting, leaves it with the slave select changed.
SpiConfig ==
  /\ SpiFree /\ sd.state # "none" /\ ~sd.busy /\ "TX_EMPTY" \notin usi.ie /\ srec.calls < SpiCalls
  /\ \E known, first, last \in BOOLEAN, ss \in {"keep", "sw", "hw"} :
       LET s == [SpiState EXCEPT !.d = SpiSetting(@, known), !.u = SetEn(@, {}),
                                 !.h = [srec EXCEPT !.calls = @ + 1]]
           t == SpiSetSs(s, ss)
       IN  SpiBecomes(IF ~first THEN s ELSE IF ~last THEN t
                      ELSE [t EXCEPT !.d = SpiSetting(@, TRUE), !.u = SetEn(@, {"usi", "fm"})])
  /\ UNCHANGED <<isr, smain>>

SpiBlockMode ==
  /\ SpiFree /\ sd.state # "none" /\ srec.calls < SpiCalls
  /\ sd' = [sd EXCEPT !.block = ~@] /\ srec' = [srec EXCEPT !.calls = @ + 1]
  /\ UNCHANGED <<usi, isr, sline, smain>>

SpiStart ==
  /\ SpiReady /\ ~sd.block
  /\ \E s \in SpiStarts(SpiState) : SpiBecomes(s)
  /\ UNCHANGED <<isr, smain>>

\* The polling send and transfer; the lengths of main are equal.
SpiPollStart(call, d, n) ==
  /\ SpiReady /\ srec.given + n <= SpiMaxTx
  /\ SpiBecomes(SsControl([Given(SpiState, n) EXCEPT
       !.d = d, !.u = IF call = "send" THEN SetEn(@, EnBit) ELSE Restart(@, Fifos, EnBit)], TRUE))
  /\ smain' = [call |-> call, left |-> NewWords(SpiState, n), once |-> 0]
  /\ UNCHANGED isr

SpiPollSend == sd.block /\ \E n \in SpiLens :
  SpiPollStart("send", [sd EXCEPT !.busy = TRUE, !.tot = n, !.stat = "send", !.mode = "tx",
                                  !.sendNum = n], n)
SpiPollTransfer == sd.block /\ \E n \in SpiLens :
  SpiPollStart("transfer", [sd EXCEPT !.busy = TRUE, !.tot = n, !.stat = "tran", !.mode = "txrx"], n)

\* drv_usi_spi_receive always polls, one dummy for each word it wants.
SpiPollReceive ==
  /\ SpiReady
  /\ \E n \in SpiLens :
       /\ SpiBecomes(SsControl([SpiState EXCEPT
            !.d = [sd EXCEPT !.busy = TRUE, !.tot = n, !.stat = "rcv", !.recvNum = n, !.recvBuf = TRUE],
            !.h = [srec EXCEPT !.sent = [i \in 1..n |-> 0], !.got = << >>]], TRUE))
       /\ smain' = [call |-> "receive", left |-> [i \in 1..n |-> 0], once |-> 0]
  /\ UNCHANGED isr

\* One round of the call: the FIFO is filled ...
SpiPollWrite ==
  /\ MainRuns /\ smain.call # "free" /\ smain.once = 0 /\ smain.left # << >>
  /\ LET n == Round(Len(smain.left))
         u == IF smain.call = "receive" THEN Restart(usi, Fifos, EnBit) ELSE usi
     IN  /\ usi' = WriteTx(u, SubSeq(smain.left, 1, n))
         /\ smain' = [smain EXCEPT !.left = SubSeq(@, n + 1, Len(@)), !.once = n]
  /\ sd' = IF smain.call = "receive" THEN [sd EXCEPT !.mode = "txrx"] ELSE sd
  /\ UNCHANGED <<isr, sline, srec>>

\* ... and read once the line is quiet; each call keeps count in its own field.
SpiPollRead ==
  /\ MainRuns /\ smain.once > 0 /\ usi.tx = << >>
  /\ LET n == smain.once
         back == SubSeq(usi.rx, 1, n)
     IN  /\ IF smain.call = "send" THEN UNCHANGED <<usi, srec>>
            ELSE usi' = TakeRx(usi, n) /\ srec' = [srec EXCEPT !.got = @ \o back]
         /\ sd' = CASE smain.call = "send"     -> [sd EXCEPT !.sendNum = @ - n]
                    [] smain.call = "receive"  -> [sd EXCEPT !.recvNum = @ - n]
                    [] smain.call = "transfer" -> [sd EXCEPT !.tot = @ - n]
  /\ smain' = [smain EXCEPT !.once = 0]
  /\ UNCHANGED <<isr, sline>>

\* The callback of a receive is the last thing the call does: what it starts is
\* one of the calls main may make next.
SpiPollEnd ==
  /\ MainRuns /\ smain.call # "free" /\ smain.once = 0 /\ smain.left = << >>
  /\ SpiBecomes(SsControl([SpiState EXCEPT
       !.d = [sd EXCEPT !.busy = FALSE],
       !.u = SetEn(@, IF smain.call = "send" THEN {} ELSE {"usi", "fm"})], FALSE))
  /\ smain' = SpiNoPoll
  /\ UNCHANGED isr

\* drv_usi_spi_abort_transfer: the interrupt stays on, what was not sent is lost.
SpiAbort ==
  /\ SpiFree /\ sd.state # "none" /\ srec.calls < SpiCalls
  /\ SpiBecomes([SpiState EXCEPT
       !.d = [sd EXCEPT !.busy = FALSE, !.recvBuf = FALSE, !.recvNum = 0],
       !.u = SetEn(@, {}),
       !.h = [srec EXCEPT !.calls = @ + 1,
                          !.drop = @ \cup {usi.tx[i] : i \in DOMAIN usi.tx}
                                     \cup {sd.sendBuf[i] : i \in DOMAIN sd.sendBuf}]])
  /\ UNCHANGED <<isr, smain>>

SpiSsControl ==
  /\ SpiFree /\ ~sd.busy /\ sd.state # "none" /\ \E active \in BOOLEAN : SpiBecomes(SsControl(SpiState, active))
  /\ UNCHANGED <<isr, smain>>

\* drv_usi_spi_get_data_count, for the calls that leave tot as it was.
SpiDataCount == CASE sd.stat = "idle" -> 0
                  [] sd.stat = "send" -> sd.tot - sd.sendNum
                  [] sd.stat = "rcv"  -> sd.tot - sd.recvNum
                  [] sd.stat = "tran" -> sd.tot - (IF sd.recvNum > sd.sendNum THEN sd.recvNum ELSE sd.sendNum)

SpiNext ==
  \/ SpiEnter \/ SpiServeTx \/ SpiLeave \/ SpiShift
  \/ SpiInitialize \/ SpiUninitialize \/ SpiConfig \/ SpiBlockMode \/ SpiStart
  \/ SpiPollSend \/ SpiPollTransfer \/ SpiPollReceive \/ SpiPollWrite \/ SpiPollRead \/ SpiPollEnd
  \/ SpiAbort \/ SpiSsControl

SpiFair == WF_svars(SpiEnter) /\ WF_isr(HandlerSteps) /\ WF_svars(SpiShift)
           /\ WF_svars(SpiPollWrite) /\ WF_svars(SpiPollRead) /\ WF_svars(SpiPollEnd)

-----------------------------------------------------------------------------
(* What must hold.                                                         *)

\* The port, the handler, the driver, main's call and the history are well formed.
SpiTypeOK ==
  /\ usi \in Port(Nat, Nat) /\ isr \in Handler /\ sline \in BOOLEAN
  /\ sd \in SpiDriver /\ smain \in SpiPoll /\ srec \in SpiHistory

\* The words that have left, wait in the FIFO and wait in the caller's buffer.
SpiStream == srec.out \o usi.tx \o (IF smain.call = "free" THEN sd.sendBuf ELSE smain.left)
SpiKept(w) == w # 0 /\ w \notin srec.drop

\* Every word of a send or transfer leaves once and in order, unless an abort
\* discarded it: the rounds of the handler and of the polling calls meet.
SpiInOrder ==
  usi.mode = "spi" =>
  /\ \A i, j \in DOMAIN SpiStream :
       i < j /\ SpiKept(SpiStream[i]) /\ SpiKept(SpiStream[j]) => SpiStream[i] < SpiStream[j]
  /\ ({SpiStream[i] : i \in DOMAIN SpiStream} \ {0}) \cup srec.drop = 1..srec.given

\* The words stored by a receive or transfer are the answers to its own words,
\* one by one: no answer is left over from an earlier call, none is skipped.
SpiAnswersMatch ==
  \A i \in DOMAIN srec.got : i \in DOMAIN srec.sent /\ srec.got[i] = srec.sent[i]

\* A word is on the line only while the slave is selected: the select line is
\* released after the last word has left and not before.
SpiSelected == sd.hwSs /\ Working(usi) /\ usi.tx # << >> => sline

\* A transfer that ends, by interrupt or by polling, has stored all its answers.
SpiEndsComplete ==
  [][sd.busy /\ ~sd'.busy /\ sd.mode = "txrx" /\ usi'.en # {} => srec'.got = srec.sent]_svars

\* A transfer that runs can go on: the handler is called or at work, the line can
\* shift a word, or the polling call has its next step.  A full receive FIFO never
\* holds the line while the driver waits for the transmit FIFO to run empty.
LineMoves == Working(usi) /\ usi.tx # << >> /\ (sd.mode = "txrx" => Len(usi.rx) < Fifo)
PollMoves == smain.call # "free" /\ (smain.once = 0 \/ usi.tx = << >>)
SpiGoesOn == sd.busy => isr.on \/ (usi.irq /\ Pending(usi) # {}) \/ LineMoves \/ PollMoves

\* A transfer that runs ends: with its completion, or with an abort.
SpiEnds == sd.busy ~> ~sd.busy
=============================================================================
