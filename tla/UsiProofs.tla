------------------------------ MODULE UsiProofs ------------------------------
(***************************************************************************)
(* A port in one of its two modes, as MCUsi composes them: the invariants  *)
(* of the two drivers give the properties of a UART and of an SPI master.  *)
(***************************************************************************)
EXTENDS MCUsi, UsartProofs, SpiProofs

-----------------------------------------------------------------------------
(* A port and its two drivers: one of them runs, the other is as it was.   *)

UsartAtRest ==
  /\ ud = UsartIdle /\ umain = "free"
  /\ urec = [given |-> 0, out |-> << >>, drop |-> {}, in |-> 0,
             want |-> 0, put |-> << >>, recvs |-> 0, calls |-> 0]

SpiAtRest ==
  /\ sd = SpiIdle /\ sline = FALSE /\ smain = SpiNoPoll
  /\ srec = [given |-> 0, out |-> << >>, drop |-> {}, sent |-> << >>, got |-> << >>, calls |-> 0]

UsiInv == \/ usi.mode = "uart" /\ UartInv /\ SpiAtRest
          \/ usi.mode = "spi" /\ SpiInv /\ UsartAtRest

\* After reset the port is idle and nothing was given to a driver.
LEMMA UsiStarts == Init => UsiInv
PROOF
  <1> SUFFICES ASSUME Init PROVE UsiInv
    OBVIOUS
  <1> DEFINE u(m) == [ResetPort EXCEPT !.mode = m]
             hu == [given |-> 0, out |-> << >>, drop |-> {}, in |-> 0,
                    want |-> 0, put |-> << >>, recvs |-> 0, calls |-> 0]
             hs == [given |-> 0, out |-> << >>, drop |-> {}, sent |-> << >>, got |-> << >>, calls |-> 0]
  <1>1. /\ isr = Idle /\ ud = UsartIdle /\ umain = "free" /\ urec = hu
        /\ sd = SpiIdle /\ sline = FALSE /\ smain = SpiNoPoll /\ srec = hs
        /\ usi = u("uart") \/ usi = u("spi")
    BY DEF Init, UsartInit, SpiInit
  <1>2. << >> \in Seq(Nat) /\ Len(<< >>) = 0 /\ DOMAIN << >> = {}
    OBVIOUS
  <1>3. ASSUME NEW m \in {"uart", "spi"}
        PROVE  /\ u(m) \in Ports /\ u(m).mode = m /\ u(m).en = {} /\ u(m).ie = {} /\ u(m).ip = {}
               /\ u(m).mask = {} /\ u(m).tx = << >> /\ u(m).rx = << >> /\ ~u(m).irq
    <2>1. /\ ResetPort.mode = "uart" /\ ResetPort.en = {} /\ ResetPort.ie = {} /\ ResetPort.ip = {}
          /\ ResetPort.mask = {} /\ ResetPort.tx = << >> /\ ResetPort.rx = << >> /\ ~ResetPort.irq
      BY DEF ResetPort
    <2>2. [edge |-> FALSE, quarter |-> 1] \in [edge : BOOLEAN, quarter : 1..3]
      OBVIOUS
    <2>3. ResetPort \in Ports
      BY <1>2, <2>2 DEF ResetPort, Ports, Port, Modes
    <2> QED
      BY <2>1, <2>3 DEF Ports, Port, Modes
  <1>4. /\ Idle \in Handler /\ ~Idle.on /\ Idle.left = {}
    BY DEF Idle, Handler
  <1>5. InParts(<< >>, << >>, << >>) /\ Els(<< >>) = {}
    BY OfNothing DEF InParts, Under
  <1>6. {} = 1..0 /\ 0 \notin {}
    OBVIOUS
  <1>7. ASSUME usi = u("uart") PROVE usi.mode = "uart" /\ UartInv
    <2> HIDE DEF u
    <2>1. hu \in UsartHistory
      BY <1>2 DEF UsartHistory
    <2>2. UsartIdle \in UsartDriver
      BY <1>2 DEF UsartIdle, UsartDriver
    <2>3. /\ usi \in Ports /\ usi.mode = "uart" /\ usi.en = {} /\ usi.ip = {} /\ usi.mask = {}
          /\ usi.tx = << >> /\ ~usi.irq
      BY <1>3, <1>7
    <2>4. UartTypes(ud, usi, urec, umain, isr)
      BY <1>1, <1>4, <2>1, <2>2, <2>3 DEF UartTypes
    <2>5. UartCounts(ud)
      BY <1>1, <1>2 DEF UartCounts, UsartIdle
    <2>6. UartOpen(ud, usi, isr)
      BY <1>1, <1>4, <2>3 DEF UartOpen
    <2>7. UartRoom(ud, usi, umain, isr)
      BY <1>1, <1>2, <1>4, <2>3, FifoAssumption DEF UartRoom
    <2>8. UartDriven(ud, usi, isr)
      BY <1>1, <1>4, <2>3 DEF UartDriven
    <2>9. UartWords(ud, usi, urec)
      BY <1>1, <1>5, <1>6, <2>3 DEF UartWords, UsartIdle
    <2>10. UartRecv(ud, urec)
      BY <1>1, <1>2 DEF UartRecv, UsartIdle
    <2> QED
      BY <2>3, <2>4, <2>5, <2>6, <2>7, <2>8, <2>9, <2>10 DEF UartInv, UartGood
  <1>8. ASSUME usi = u("spi") PROVE usi.mode = "spi" /\ SpiInv
    <2> HIDE DEF u
    <2>1. hs \in SpiHistory
      BY <1>2 DEF SpiHistory
    <2>2. SpiIdle \in SpiDriver /\ SpiNoPoll \in SpiPoll
      BY <1>2 DEF SpiIdle, SpiDriver, SpiNoPoll, SpiPoll
    <2>3. /\ usi \in Ports /\ usi.mode = "spi" /\ usi.en = {} /\ usi.ie = {} /\ usi.ip = {}
          /\ usi.tx = << >>
      BY <1>3, <1>8
    <2>4. SpiTypes(sd, usi, sline, srec, smain, isr)
      BY <1>1, <1>4, <2>1, <2>2, <2>3 DEF SpiTypes
    <2>5. SpiOpen(sd, usi, smain, isr)
      BY <1>1, <1>4, <2>3 DEF SpiOpen, SpiIdle, SpiNoPoll
    <2>6. sd.sendBuf = << >> /\ ~sd.busy /\ sd.clkNum = 0 /\ smain.call = "free"
      BY <1>1 DEF SpiIdle, SpiNoPoll
    <2>7. SpiWords(sd, usi, srec, smain)
      BY <1>1, <1>5, <1>6, <2>3, <2>6 DEF SpiWords, Rest
    <2>8. SpiLine(sd, sline)
      BY <2>6 DEF SpiLine
    <2>9. Stored(srec.got, srec.sent)
      BY <1>1, <1>2 DEF Stored
    <2>10. SpiPhase(sd, usi, srec, smain, isr)
      BY <1>1, <1>4, <2>3, <2>6 DEF SpiPhase, Quiet
    <2> QED
      BY <2>3, <2>4, <2>5, <2>7, <2>8, <2>9, <2>10 DEF SpiInv, SpiGood
  <1>9. UsartAtRest /\ SpiAtRest
    BY <1>1 DEF UsartAtRest, SpiAtRest
  <1> QED
    BY <1>1, <1>7, <1>8, <1>9 DEF UsiInv

\* A step of the UART: a send ends in the handler's part for TX_EMPTY only, and
\* with the line quiet.
LEMMA UartStep ==
  ASSUME UartInv, UsartNext
  PROVE  /\ UartInv'
         /\ isr.on /\ ud.txBusy /\ ~ud'.txBusy => ud.txBuf = << >> /\ usi.tx = << >>
PROOF
  <1>1. CASE UsartEnter
    BY <1>1, UartEnterStep DEF UsartEnter
  <1>2. CASE UsartServeTx
    BY <1>2, UartServeTxStep
  <1>3. CASE UsartServeStop
    BY <1>3, UartServeStopStep
  <1>4. CASE UsartServeParity
    BY <1>4, UartServeParityStep
  <1>5. CASE UsartLeave
    BY <1>5, UartLeaveStep
  <1>6. CASE UsartShift
    BY <1>6, UartShiftStep
  <1>7. CASE UsartArrive
    BY <1>7, UartArriveStep
  <1>8. CASE UsartCalls
    <2>1. ~isr.on
      BY <1>8 DEF UsartCalls, UsartFree, MainRuns, UsartInitialize, UsartUninitialize, UsartConfig, UsartSend, UsartAbortSend, UsartReceive, UsartAbortReceive, UsartReceiveQuery, UsartFlush, UsartSetInterrupt, UsartPutchar, UsartPutcharEnd, UsartGetchar, UsartGetcharEnd
    <2>2. UartInv'
      BY <1>8, UartInitializeStep, UartUninitializeStep, UartConfigStep, UartSendStep, UartAbortSendStep, UartReceiveStep, UartAbortReceiveStep, UartReceiveQueryStep, UartFlushStep, UartSetInterruptStep, UartPutcharStep, UartPutcharEndStep, UartGetcharStep, UartGetcharEndStep DEF UsartCalls
    <2> QED
      BY <2>1, <2>2
  <1> QED
    BY <1>1, <1>2, <1>3, <1>4, <1>5, <1>6, <1>7, <1>8 DEF UsartNext, UsartHandler

\* A step of the SPI master: a transfer that ends has its answers.
LEMMA SpiStep ==
  ASSUME SpiInv, SpiNext
  PROVE  /\ SpiInv'
         /\ sd.busy /\ ~sd'.busy /\ sd.mode = "txrx" /\ usi'.en # {} => srec'.got = srec.sent
PROOF
  <1>1. CASE SpiEnter
    BY <1>1, SpiEnterStep
  <1>2. CASE SpiServeTx
    BY <1>2, SpiServeTxStep
  <1>3. CASE SpiLeave
    BY <1>3, SpiLeaveStep
  <1>4. CASE SpiShift
    BY <1>4, SpiShiftStep
  <1>5. CASE SpiInitialize
    BY <1>5, SpiInitializeStep
  <1>6. CASE SpiUninitialize
    BY <1>6, SpiUninitializeStep
  <1>7. CASE SpiConfig
    BY <1>7, SpiConfigStep
  <1>8. CASE SpiBlockMode
    BY <1>8, SpiBlockModeStep
  <1>9. CASE SpiStart
    BY <1>9, SpiStartStep
  <1>10. CASE SpiPollSend
    BY <1>10, SpiPollSendStep
  <1>11. CASE SpiPollTransfer
    BY <1>11, SpiPollTransferStep
  <1>12. CASE SpiPollReceive
    BY <1>12, SpiPollReceiveStep
  <1>13. CASE SpiPollWrite
    BY <1>13, SpiPollWriteStep
  <1>14. CASE SpiPollRead
    BY <1>14, SpiPollReadStep
  <1>15. CASE SpiPollEnd
    BY <1>15, SpiPollEndStep
  <1>16. CASE SpiAbort
    BY <1>16, SpiAbortStep
  <1>17. CASE SpiSsControl
    BY <1>17, SpiSsControlStep
  <1> QED
    BY <1>1, <1>2, <1>3, <1>4, <1>5, <1>6, <1>7, <1>8, <1>9, <1>10, <1>11, <1>12, <1>13, <1>14, <1>15, <1>16, <1>17 DEF SpiNext

\* A step of the driver in use keeps the invariant; the other driver does not move.
LEMMA UsiStep ==
  ASSUME UsiInv, Next
  PROVE  UsiInv'
PROOF
  <1>1. CASE usi.mode = "uart" /\ UsartNext /\ UNCHANGED <<sd, sline, smain, srec>>
    <2>1. UartInv /\ SpiAtRest
      BY <1>1 DEF UsiInv
    <2>2. UartInv'
      BY <1>1, <2>1, UartStep
    <2>3. usi'.mode = "uart"
      BY <2>2 DEF UartInv, UartGood, UartTypes
    <2>4. SpiAtRest'
      BY <1>1, <2>1 DEF SpiAtRest
    <2> QED
      BY <2>2, <2>3, <2>4 DEF UsiInv
  <1>2. CASE usi.mode = "spi" /\ SpiNext /\ UNCHANGED <<ud, umain, urec>>
    <2>1. SpiInv /\ UsartAtRest
      BY <1>2 DEF UsiInv
    <2>2. SpiInv'
      BY <1>2, <2>1, SpiStep
    <2>3. usi'.mode = "spi"
      BY <2>2 DEF SpiInv, SpiGood, SpiTypes
    <2>4. UsartAtRest'
      BY <1>2, <2>1 DEF UsartAtRest
    <2> QED
      BY <2>2, <2>3, <2>4 DEF UsiInv
  <1> QED
    BY <1>1, <1>2 DEF Next

\* So does a step of something else.
LEMMA UsiStutter ==
  ASSUME UsiInv, UNCHANGED vars
  PROVE  UsiInv'
PROOF
  <1>1. /\ usi' = usi /\ isr' = isr /\ ud' = ud /\ umain' = umain /\ urec' = urec
        /\ sd' = sd /\ sline' = sline /\ smain' = smain /\ srec' = srec
    BY DEF vars, uvars, svars
  <1>2. UartInv => UartInv'
    BY <1>1 DEF UartInv
  <1>3. SpiInv => SpiInv'
    BY <1>1 DEF SpiInv
  <1> QED
    BY <1>1, <1>2, <1>3 DEF UsiInv, UsartAtRest, SpiAtRest

\* The inductive invariant: in either mode the driver, the port, the handler and the
\* call of main agree, for every FIFO depth, set of lengths and bound.
THEOREM PortsAreGood == Spec => []UsiInv
PROOF
  <1>1. Init => UsiInv
    BY UsiStarts
  <1>2. UsiInv /\ [Next]_vars => UsiInv'
    BY UsiStep, UsiStutter
  <1> QED
    BY <1>1, <1>2, PTL DEF Spec

-----------------------------------------------------------------------------
(* What the invariant says of the properties.                              *)

\* The types are part of the invariant, and those of the other driver are at rest.
LEMMA PortTypes == UsiInv => PortTypeOK
PROOF
  <1> SUFFICES ASSUME UsiInv PROVE PortTypeOK
    OBVIOUS
  <1>1. << >> \in Seq(Nat)
    OBVIOUS
  <1>2. SpiAtRest => sline \in BOOLEAN /\ sd \in SpiDriver /\ smain \in SpiPoll /\ srec \in SpiHistory
    <2>1. SpiIdle \in SpiDriver
      BY <1>1 DEF SpiIdle, SpiDriver
    <2>2. SpiNoPoll \in SpiPoll
      BY <1>1 DEF SpiNoPoll, SpiPoll
    <2>3. [given |-> 0, out |-> << >>, drop |-> {}, sent |-> << >>, got |-> << >>, calls |-> 0]
            \in SpiHistory
      BY <1>1 DEF SpiHistory
    <2> QED
      BY <2>1, <2>2, <2>3 DEF SpiAtRest
  <1>3. UsartAtRest => ud \in UsartDriver /\ umain \in {"free", "putchar", "getchar"} /\ urec \in UsartHistory
    BY <1>1 DEF UsartAtRest, UsartIdle, UsartDriver, UsartHistory
  <1>4. CASE UartInv /\ SpiAtRest
    BY <1>2, <1>4 DEF UartInv, UartGood, UartTypes, PortTypeOK, UsartTypeOK, SpiTypeOK, Ports
  <1>5. CASE SpiInv /\ UsartAtRest
    BY <1>3, <1>5 DEF SpiInv, SpiGood, SpiTypes, PortTypeOK, UsartTypeOK, SpiTypeOK, Ports
  <1> QED
    BY <1>4, <1>5 DEF UsiInv

\* The three parts of the UART's stream in order make the stream in order.
LEMMA BytesInOrder == UsiInv => SentInOrder
PROOF
  <1> SUFFICES ASSUME UsiInv, usi.mode = "uart" PROVE
        /\ \A i, j \in DOMAIN Stream : i < j => Stream[i] < Stream[j]
        /\ {Stream[i] : i \in DOMAIN Stream} \cup urec.drop = 1..urec.given
    BY DEF SentInOrder
  <1>1. UartInv
    BY DEF UsiInv
  <1>2. /\ urec \in UsartHistory /\ usi \in Ports /\ ud \in UsartDriver
        /\ InParts(urec.out, usi.tx, ud.txBuf)
        /\ Els(urec.out) \cup Els(usi.tx) \cup Els(ud.txBuf) \cup urec.drop = 1..urec.given
    BY <1>1 DEF UartInv, UartGood, UartTypes, UartWords
  <1>3. urec.out \in Seq(Nat) /\ usi.tx \in Seq(Nat) /\ ud.txBuf \in Seq(Nat) /\ urec.given \in Nat
    BY <1>2 DEF UsartHistory, Ports, Port, UsartDriver
  <1>4. /\ Stream \in Seq(Nat) /\ Rising(Stream)
        /\ Els(Stream) = Els(urec.out) \cup Els(usi.tx) \cup Els(ud.txBuf)
    BY <1>2, <1>3, OfStream DEF Stream
  <1>5. Els(Stream) \cup urec.drop = 1..urec.given
    BY <1>2, <1>4
  <1>6. 0 \notin Els(Stream)
    BY <1>3, <1>5
  <1>7. \A i \in DOMAIN Stream : Stream[i] # 0
    BY <1>6, AnElement
  <1> QED
    BY <1>4, <1>5, <1>7 DEF Rising, Els

\* The three parts of the SPI master's stream make the stream.
LEMMA WordsInOrder == UsiInv => SpiInOrder
PROOF
  <1> SUFFICES ASSUME UsiInv, usi.mode = "spi" PROVE
        /\ \A i, j \in DOMAIN SpiStream :
             i < j /\ SpiKept(SpiStream[i]) /\ SpiKept(SpiStream[j]) => SpiStream[i] < SpiStream[j]
        /\ ({SpiStream[i] : i \in DOMAIN SpiStream} \ {0}) \cup srec.drop = 1..srec.given
    BY DEF SpiInOrder
  <1>1. SpiInv
    BY DEF UsiInv
  <1> DEFINE r == Rest(sd, smain)
  <1>2. /\ srec \in SpiHistory /\ usi \in Ports /\ sd \in SpiDriver /\ smain \in SpiPoll
        /\ InParts(srec.out, usi.tx, r)
        /\ ((Els(srec.out) \cup Els(usi.tx) \cup Els(r)) \ {0}) \cup srec.drop = 1..srec.given
    BY <1>1 DEF SpiInv, SpiGood, SpiTypes, SpiWords
  <1>3. srec.out \in Seq(Nat) /\ usi.tx \in Seq(Nat) /\ r \in Seq(Nat)
    BY <1>2 DEF SpiHistory, Ports, Port, SpiDriver, SpiPoll, Rest
  <1>4. SpiStream = srec.out \o usi.tx \o r
    BY DEF SpiStream, Rest
  <1> HIDE DEF r
  <1>5. /\ SpiStream \in Seq(Nat) /\ Rising(SpiStream)
        /\ Els(SpiStream) = Els(srec.out) \cup Els(usi.tx) \cup Els(r)
    BY <1>2, <1>3, <1>4, OfStream
  <1>6. (Els(SpiStream) \ {0}) \cup srec.drop = 1..srec.given
    BY <1>2, <1>5
  <1> QED
    BY <1>5, <1>6 DEF Rising, Els, SpiKept

\* The answers stored are the start of the words sent.
LEMMA AnswersMatch == UsiInv => SpiAnswersMatch
PROOF
  <1>1. << >> \in Seq(Nat) /\ DOMAIN << >> = {}
    OBVIOUS
  <1>2. SpiAtRest => SpiAnswersMatch
    BY <1>1 DEF SpiAtRest, SpiAnswersMatch
  <1>3. ASSUME SpiInv PROVE SpiAnswersMatch
    <2>1. srec \in SpiHistory /\ Stored(srec.got, srec.sent)
      BY <1>3 DEF SpiInv, SpiGood, SpiTypes
    <2>2. /\ srec.got \in Seq(Nat) /\ srec.sent \in Seq(Nat)
          /\ DOMAIN srec.got = 1..Len(srec.got) /\ DOMAIN srec.sent = 1..Len(srec.sent)
      BY <2>1 DEF SpiHistory
    <2> QED
      BY <2>1, <2>2 DEF Stored, SpiAnswersMatch
  <1> QED
    BY <1>2, <1>3 DEF UsiInv

\* A word in the FIFO means that a transfer runs, and a transfer selects the slave.
LEMMA LineIsSelected == UsiInv => SpiSelected
PROOF
  <1>1. SpiAtRest => SpiSelected
    BY DEF SpiAtRest, SpiIdle, SpiSelected
  <1>2. ASSUME SpiInv, usi.tx # << >> PROVE sd.busy
    <2>1. SpiPhase(sd, usi, srec, smain, isr)
      BY <1>2 DEF SpiInv, SpiGood
    <2>2. /\ ~Quiet(sd, usi, smain, isr) /\ ~Aborted(sd, usi, srec, smain, isr)
      BY <1>2 DEF Quiet, Aborted
    <2> QED
      BY <2>1, <2>2 DEF SpiPhase, Runs, Sends, Transfers, Receives, Polls
  <1>3. SpiInv => SpiLine(sd, sline)
    BY DEF SpiInv, SpiGood
  <1> QED
    BY <1>1, <1>2, <1>3 DEF UsiInv, SpiLine, SpiSelected

-----------------------------------------------------------------------------
(* The theorems.                                                           *)

\* The port and both its drivers are well formed.
THEOREM PortTypeInv == Spec => []PortTypeOK
PROOF BY PortsAreGood, PortTypes, PTL

\* Every byte given to the UART leaves once and in order, unless a call discarded it.
THEOREM BytesLeaveInOrder == Spec => []SentInOrder
PROOF BY PortsAreGood, BytesInOrder, PTL

\* Every word given to the SPI master leaves once and in order, unless an abort
\* discarded it.
THEOREM WordsLeaveInOrder == Spec => []SpiInOrder
PROOF BY PortsAreGood, WordsInOrder, PTL

\* The words a transfer or receive has stored are the answers to its own words.
THEOREM AnswersAreTheirOwn == Spec => []SpiAnswersMatch
PROOF BY PortsAreGood, AnswersMatch, PTL

\* A word is on the SPI line only while the slave is selected.
THEOREM SelectedWhileShifting == Spec => []SpiSelected
PROOF BY PortsAreGood, LineIsSelected, PTL

\* SEND_COMPLETE is told with the last byte out of the port.
THEOREM CompletionIsQuiet == Spec => CompleteWhenQuiet
PROOF
  <1>1. UsiInv /\ [Next]_vars =>
          [isr.on /\ ud.txBusy /\ ~ud'.txBusy => ud.txBuf = << >> /\ usi.tx = << >>]_uvars
    <2> SUFFICES ASSUME UsiInv, [Next]_vars
                 PROVE  isr.on /\ ud.txBusy /\ ~ud'.txBusy => ud.txBuf = << >> /\ usi.tx = << >>
      OBVIOUS
    <2>1. CASE usi.mode = "uart" /\ UsartNext
      BY <2>1, UartStep DEF UsiInv
    <2>2. CASE ud' = ud
      BY <2>2
    <2> QED
      BY <2>1, <2>2 DEF Next, vars, uvars
  <1> QED
    BY <1>1, PortsAreGood, PTL DEF Spec, CompleteWhenQuiet

\* A transfer of the SPI master that ends has stored all its answers.
THEOREM EndIsComplete == Spec => SpiEndsComplete
PROOF
  <1>1. UsiInv /\ [Next]_vars =>
          [sd.busy /\ ~sd'.busy /\ sd.mode = "txrx" /\ usi'.en # {} => srec'.got = srec.sent]_svars
    <2> SUFFICES ASSUME UsiInv, [Next]_vars
                 PROVE  sd.busy /\ ~sd'.busy /\ sd.mode = "txrx" /\ usi'.en # {}
                          => srec'.got = srec.sent
      OBVIOUS
    <2>1. CASE usi.mode = "spi" /\ SpiNext
      BY <2>1, SpiStep DEF UsiInv
    <2>2. CASE sd' = sd
      BY <2>2
    <2> QED
      BY <2>1, <2>2 DEF Next, vars, svars
  <1> QED
    BY <1>1, PortsAreGood, PTL DEF Spec, SpiEndsComplete

-----------------------------------------------------------------------------
(* A transfer that runs can go on: the second invariant.                   *)

UsiAhead == /\ usi.mode = "uart" => UartAhead
            /\ usi.mode = "spi" => SpiAhead

\* After reset no interrupt is enabled and no driver open.
LEMMA UsiAheadBegins == Init => UsiAhead
PROOF
  <1> SUFFICES ASSUME Init PROVE UartAhead /\ SpiAhead
    BY DEF UsiAhead
  <1>1. sd.state = "none"
    BY DEF Init, SpiInit, SpiIdle
  <1>2. PICK mode \in {"uart", "spi"} : usi = [ResetPort EXCEPT !.mode = mode]
    BY DEF Init
  <1>3. usi.ie = {} /\ usi.en = {}
    BY <1>2 DEF ResetPort
  <1> QED
    BY <1>1, <1>3 DEF UartAhead, Telling, SpiAhead, SpiWired, Heard

\* A port stays in its mode, and each step of its driver keeps its part.
LEMMA UsiAheadStep == UsiInv /\ UsiAhead /\ [Next]_vars => UsiAhead'
PROOF
  <1> SUFFICES ASSUME UsiInv, UsiAhead, [Next]_vars PROVE UsiAhead'
    OBVIOUS
  <1>1. CASE usi.mode = "uart" /\ UsartNext
    <2>1. UartInv' /\ UartAhead'
      BY <1>1, UartStep, UartAheadStep DEF UsiInv, UsiAhead
    <2>2. usi'.mode = "uart"
      BY <2>1 DEF UartInv, UartGood, UartTypes
    <2> QED
      BY <2>1, <2>2 DEF UsiAhead
  <1>2. CASE usi.mode = "spi" /\ SpiNext
    <2>1. SpiInv' /\ SpiAhead'
      BY <1>2, SpiStep, SpiAheadStep DEF UsiInv, UsiAhead
    <2>2. usi'.mode = "spi"
      BY <2>1 DEF SpiInv, SpiGood, SpiTypes
    <2> QED
      BY <2>1, <2>2 DEF UsiAhead
  <1>3. CASE UNCHANGED vars
    BY <1>3 DEF vars, uvars, svars, UsiAhead, UartAhead, SpiAhead
  <1> QED
    BY <1>1, <1>2, <1>3 DEF Next

\* A driver at rest has no transfer.
LEMMA UsiAheadGoesOn == UsiInv /\ UsiAhead => SendGoesOn /\ SpiGoesOn
PROOF
  <1>1. SpiAtRest => SpiGoesOn
    BY DEF SpiAtRest, SpiIdle, SpiGoesOn
  <1>2. UsartAtRest => SendGoesOn
    BY DEF UsartAtRest, UsartIdle, SendGoesOn, SendArmed
  <1>3. (SpiInv => usi.mode = "spi") /\ (UartInv => usi.mode = "uart")
    BY DEF SpiInv, SpiGood, SpiTypes, UartInv, UartGood, UartTypes
  <1> QED
    BY <1>1, <1>2, <1>3, SpiAheadGoesOn, UartAheadGoesOn DEF UsiInv, UsiAhead

\* In either mode the second invariant holds beside the first.
LEMMA PortsAreAhead == Spec => [](SendGoesOn /\ SpiGoesOn)
PROOF
  <1>1. Init => UsiAhead
    BY UsiAheadBegins
  <1>2. UsiInv /\ UsiAhead /\ [Next]_vars => UsiAhead'
    BY UsiAheadStep
  <1>3. UsiInv /\ UsiAhead => SendGoesOn /\ SpiGoesOn
    BY UsiAheadGoesOn
  <1> QED
    BY <1>1, <1>2, <1>3, PortsAreGood, PTL DEF Spec

\* A send whose interrupt is enabled always has a next step: the handler is at work
\* or called, or a byte can be shifted.
THEOREM SendCanGoOn == Spec => []SendGoesOn
PROOF BY PortsAreAhead, PTL

\* A transfer of the SPI master that runs, by interrupt or by polling, always has a
\* next step: the handler, the line or the call itself.
THEOREM SpiCanGoOn == Spec => []SpiGoesOn
PROOF BY PortsAreAhead, PTL

\* Driver and line never wait for each other, in either mode.
THEOREM PortCanGoOn == Spec => []PortGoesOn
PROOF
  <1>1. SendGoesOn /\ SpiGoesOn => PortGoesOn
    BY DEF PortGoesOn
  <1> QED
    BY <1>1, PortsAreAhead, PTL
===============================================================================
