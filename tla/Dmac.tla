--------------------------------- MODULE Dmac ---------------------------------
(***************************************************************************)
(* The DMA driver (wj_dmac_v2.c) on channel 0 of dmac.v, the only one the  *)
(* device table has an entry for.  Main starts a channel that is at rest   *)
(* and gives back one that is; the bus answers every access.               *)
(***************************************************************************)
EXTENDS Integers

CONSTANTS DmaCalls      \* bound: calls of main

ASSUME DmacAssumption == DmaCalls \in Nat

VARIABLES
  dch,      \* CHEN, CHCTRLB.INT_EN, CHINTM, CHINTS.TFR, a request, the line
  dpriv,    \* wj_dma_priv_t
  dmain,    \* main: where it is in csi_dma_start
  drec      \* history: a transfer was started and not told, calls

dmavars == <<dch, dpriv, dmain, drec>>

DmaStates == {"free", "ready", "busy", "done"}
DmaChannel == [en : BOOLEAN, inte : BOOLEAN, mask : BOOLEAN, tfr : BOOLEAN,
               req : BOOLEAN, irq : BOOLEAN]
DmaPriv == [opened : BOOLEAN, cb : BOOLEAN, soft : BOOLEAN, status : DmaStates]

DmacInit ==
  /\ dch = [en |-> FALSE, inte |-> FALSE, mask |-> FALSE, tfr |-> FALSE, req |-> FALSE, irq |-> FALSE]
  /\ dpriv = [opened |-> FALSE, cb |-> FALSE, soft |-> FALSE, status |-> "free"]
  /\ dmain = "free"
  /\ drec = [owed |-> FALSE, calls |-> 0]

\* A device asks for a transfer; the transfer asked for ends, which switches
\* the channel off and sets TFR whether or not that interrupts.
DmaRequest ==
  /\ dch.en /\ ~dpriv.soft /\ ~dch.req
  /\ dch' = [dch EXCEPT !.req = TRUE]
  /\ UNCHANGED <<dpriv, dmain, drec>>
DmaEnd ==
  /\ dch.en /\ dch.req
  /\ dch' = [dch EXCEPT !.en = FALSE, !.req = FALSE, !.tfr = TRUE]
  /\ UNCHANGED <<dpriv, dmain, drec>>

\* wj_dma_irqhandler: read, clear, the state, the callback.
DmaInterrupt ==
  /\ dch.irq /\ dch.tfr /\ dch.mask /\ dch.inte
  /\ dch' = [dch EXCEPT !.tfr = FALSE]
  /\ dpriv' = [dpriv EXCEPT !.status = "done"]
  /\ drec' = [drec EXCEPT !.owed = FALSE]
  /\ UNCHANGED dmain

-----------------------------------------------------------------------------
(* The calls of main.                                                      *)

DmaCall == dmain = "free" /\ drec.calls < DmaCalls
DmaCounted == drec' = [drec EXCEPT !.calls = @ + 1]
\* No transfer goes on, and none has an interrupt to come.
AtRest == ~dch.en /\ ~(dch.tfr /\ dch.inte)

\* csi_dma_alloc_channel_ex of channel 0: a channel that is taken is refused; the
\* events of its last owner are cleared and the line is switched on.
MutTaken(ch) == [ch EXCEPT !.tfr = FALSE, !.irq = TRUE]
Taken(ch) == [ch EXCEPT !.mask = TRUE, !.tfr = FALSE, !.irq = TRUE]
DmaAlloc ==
  /\ DmaCall /\ DmaCounted /\ UNCHANGED dmain
  /\ IF dpriv.opened THEN UNCHANGED <<dch, dpriv>>
     ELSE dpriv' = [dpriv EXCEPT !.opened = TRUE, !.status = "ready"] /\ dch' = Taken(dch)

\* csi_dma_release_channel writes zero to CHINTC, which clears nothing, and
\* leaves the callback where it is.
DmaRelease ==
  /\ DmaCall /\ DmaCounted /\ AtRest
  /\ dpriv' = [dpriv EXCEPT !.status = "free", !.opened = FALSE]
  /\ dch' = [dch EXCEPT !.mask = FALSE, !.irq = FALSE]
  /\ UNCHANGED dmain

\* csi_dma_config_channel; a parameter it refuses is found when the callback
\* has been replaced already.
DmaConfig ==
  /\ DmaCall /\ DmaCounted /\ AtRest
  /\ UNCHANGED <<dch, dmain>>
  /\ IF ~dpriv.opened THEN UNCHANGED dpriv
     ELSE \E cb, soft, refused \in BOOLEAN :
            dpriv' = [dpriv EXCEPT !.cb = cb, !.soft = soft,
                                   !.status = IF refused THEN @ ELSE "ready"]

\* csi_dma_start: enable; ask, in software mode; note that it is busy.  The
\* transfer may have ended before the last of these.
Enabled(ch) == [ch EXCEPT !.inte = TRUE, !.en = TRUE]
DmaStart ==
  /\ DmaCall /\ AtRest /\ dpriv.opened
  /\ dch' = Enabled(dch)
  /\ drec' = [owed |-> TRUE, calls |-> drec.calls + 1]
  /\ dmain' = IF dpriv.soft THEN "ask" ELSE "note"
  /\ UNCHANGED dpriv
DmaAsk ==
  /\ dmain = "ask" /\ dmain' = "note"
  /\ dch' = [dch EXCEPT !.req = dch.en]
  /\ UNCHANGED <<dpriv, drec>>
DmaNote ==
  /\ dmain = "note" /\ dmain' = "free"
  /\ dpriv' = [dpriv EXCEPT !.status = "busy"]
  /\ UNCHANGED <<dch, drec>>

\* csi_dma_stop.  Its write to the interrupt enable is ignored while the channel is
\* on; after the end of a transfer it is not, so that TFR stays for the interrupt of
\* the next one.  A channel that is off has no request, whatever is asked by CHSREQ.
DmaStop ==
  /\ DmaCall
  /\ dch' = [dch EXCEPT !.inte = dch.en /\ @, !.en = FALSE, !.req = FALSE]
  /\ dpriv' = [dpriv EXCEPT !.status = "done"]
  /\ drec' = [owed |-> FALSE, calls |-> drec.calls + 1]
  /\ UNCHANGED dmain

\* csi_dma_get_status believes the hardware when that says busy.
DmaGetStatus ==
  /\ DmaCall /\ DmaCounted
  /\ dpriv' = [dpriv EXCEPT !.status = IF dch.en /\ dch.req THEN "busy" ELSE @]
  /\ UNCHANGED <<dch, dmain>>

DmacNext ==
  \/ DmaRequest \/ DmaEnd \/ DmaInterrupt
  \/ DmaAlloc \/ DmaRelease \/ DmaConfig \/ DmaStart \/ DmaAsk \/ DmaNote \/ DmaStop \/ DmaGetStatus

DmacFair ==
  /\ WF_dmavars(DmaRequest) /\ WF_dmavars(DmaEnd) /\ WF_dmavars(DmaInterrupt)
  /\ WF_dmavars(DmaAsk) /\ WF_dmavars(DmaNote)

-----------------------------------------------------------------------------
(* What must hold.                                                         *)

\* The channel, its driver's state and main are well formed.
DmacTypeOK == dch \in DmaChannel /\ dpriv \in DmaPriv /\ dmain \in {"free", "ask", "note"}

\* A transfer that was started is on its way, or its interrupt can be taken: its
\* owner never waits for a request that was lost or an event that is masked.
OwedIsComing ==
  drec.owed => \/ dch.en /\ (dpriv.soft => dch.req \/ dmain = "ask")
               \/ dch.tfr /\ dch.irq /\ dch.mask /\ dch.inte

\* A transfer that was started ends in its interrupt, or is stopped, whoever
\* owned the channel before.
TransfersTold == drec.owed ~> ~drec.owed
================================================================================
