--------------------------------- MODULE Gpio ----------------------------------
(***************************************************************************)
(* The GPIO driver (wj_oip_gpio.c) on the port of gpio0.v: direction and   *)
(* output, and interrupts on edges or levels.  The handler reads the       *)
(* status once and calls back the pins it found, lowest first.  The        *)
(* interrupt enable register is read, changed and written back by main and *)
(* by a callback that switches its pin off.                                *)
(***************************************************************************)
EXTENDS Integers, FiniteSets

CONSTANTS
  GpioPins,              \* how many pins the port has
  GpioEdges, GpioCalls   \* bounds: changes of the inputs, calls

ASSUME GpioAssumption == GpioPins \in Nat /\ GpioEdges \in Nat /\ GpioCalls \in Nat

VARIABLES
  gport,  \* the registers and the inputs
  gpin,   \* gpio_pin_handle: the pins with a callback
  gmain,  \* main between reading and writing INTEN
  gisr,   \* the handler: the pins of the status it has still to serve
  grec    \* history: edges latched and told for each pin, changes, calls

gvars == <<gport, gpin, gmain, gisr, grec>>

Pins == 0..(GpioPins - 1)

GpioPort == [inten : SUBSET Pins, edge : SUBSET Pins, high : SUBSET Pins,  \* INTEN, INTTYPE_LEVEL, INT_POLARITY
             latch : SUBSET Pins, out : SUBSET Pins, dr : SUBSET Pins,     \* edges, SWPORT_DDR, SWPORT_DR
             level : SUBSET Pins, irq : BOOLEAN]                           \* the inputs, the line enabled

GpioInit ==
  /\ gport = [inten |-> {}, edge |-> {}, high |-> {}, latch |-> {}, out |-> {}, dr |-> {},
              level |-> {}, irq |-> FALSE]
  /\ gpin = {} /\ gmain = [pc |-> "free", val |-> {}] /\ gisr = [on |-> FALSE, left |-> {}]
  /\ grec = [latched |-> [p \in Pins |-> 0], told |-> [p \in Pins |-> 0], changes |-> 0, calls |-> 0]

-----------------------------------------------------------------------------
(* The port.                                                               *)

Active(g, p) == (p \in g.level) = (p \in g.high)

\* INTSTATUS: a latched edge or an active level of an enabled pin.
Status(g) == {p \in g.inten : IF p \in g.edge THEN p \in g.latch ELSE p \notin g.out /\ Active(g, p)}

\* A pin that is not enabled has no latched edge.
WriteInten(g, s) == [g EXCEPT !.inten = s, !.latch = @ \cap s]

\* The end-of-interrupt write: gpio_int_clr is decoded at the address of LS_SYNC,
\* so that a write to PORTA_EOI changes nothing.
WriteEoi(g, p) == g

Latched(p) == [grec EXCEPT !.latched[p] = @ + 1]

\* An input changes; a change to the active level of an enabled input is an edge.
GpioChange ==
  /\ grec.changes < GpioEdges
  /\ \E p \in Pins :
       LET g == [gport EXCEPT !.level = IF p \in @ THEN @ \ {p} ELSE @ \cup {p}]
           edge == p \in g.inten \ g.out /\ Active(g, p)
       IN  /\ gport' = IF edge THEN [g EXCEPT !.latch = @ \cup {p}] ELSE g
           /\ grec' = [IF edge THEN Latched(p) ELSE grec EXCEPT !.changes = @ + 1]
  /\ UNCHANGED <<gpin, gmain, gisr>>

-----------------------------------------------------------------------------
(* wj_oip_gpio_irqhandler.                                                 *)

GpioEnter ==
  /\ gport.irq /\ ~gisr.on /\ Status(gport) # {}
  /\ gisr' = [on |-> TRUE, left |-> Status(gport)]
  /\ UNCHANGED <<gport, gpin, gmain, grec>>

Lowest(s) == CHOOSE p \in s : \A q \in s : p <= q

MutStillToServe(p) == {}
\* What is left after pin p: the loop goes on to the last pin.
StillToServe(p) == gisr.left \ {p}

\* The edge is ended, then the pin is called back, if it still has a callback,
\* which may switch the pin off.  Edges told are counted up to a bound.
GpioServe ==
  /\ gisr.on /\ gisr.left # {}
  /\ LET p == Lowest(gisr.left)
         g == WriteEoi(gport, p)
     IN  /\ gport' \in {g} \cup (IF p \in gpin THEN {WriteInten(g, g.inten \ {p})} ELSE {})
         /\ grec' = IF p \in gpin \cap gport.edge /\ grec.told[p] <= GpioEdges + GpioCalls
                    THEN [grec EXCEPT !.told[p] = @ + 1] ELSE grec
         /\ gisr' = [gisr EXCEPT !.left = StillToServe(p)]
  /\ UNCHANGED <<gpin, gmain>>

GpioLeave ==
  /\ gisr.on /\ gisr.left = {}
  /\ gisr' = [on |-> FALSE, left |-> {}]
  /\ UNCHANGED <<gport, gpin, gmain, grec>>

-----------------------------------------------------------------------------
(* The calls of main.                                                      *)

GpioCall == /\ ~gisr.on /\ gmain.pc = "free" /\ grec.calls < GpioCalls
            /\ UNCHANGED gisr
Counted == grec' = [grec EXCEPT !.calls = @ + 1]

\* Initialising a pin initialises its port, which switches the line on.
GpioPinInitialize ==
  /\ GpioCall /\ Counted
  /\ \E p \in Pins, cb \in BOOLEAN : gpin' = IF cb THEN gpin \cup {p} ELSE gpin \ {p}
  /\ gport' = [gport EXCEPT !.irq = TRUE]
  /\ UNCHANGED gmain

GpioPortUninitialize ==
  /\ GpioCall /\ Counted /\ gport' = [gport EXCEPT !.irq = FALSE]
  /\ UNCHANGED <<gpin, gmain>>

\* gpio_irq_enable and gpio_irq_disable read INTEN here and write it later.
GpioPinUninitialize ==
  /\ GpioCall /\ Counted
  /\ \E p \in Pins : gpin' = gpin \ {p} /\ gmain' = [pc |-> "write", val |-> gport.inten \ {p}]
  /\ UNCHANGED gport

\* Edge or level, rising or high: a double edge is refused.
IrqMode(g, p, edge, high) ==
  [g EXCEPT !.edge = IF edge THEN @ \cup {p} ELSE @ \ {p},
            !.high = IF high THEN @ \cup {p} ELSE @ \ {p}]

\* A change of the polarity of an enabled pin may look like an edge.
GpioSetIrq ==
  /\ GpioCall
  /\ \E p \in Pins :
       \/ \E edge, high \in BOOLEAN :
            LET g == IrqMode(gport, p, edge, high)
                turned == p \in g.inten \ g.out /\ Active(g, p) /\ ~Active(gport, p)
            IN  /\ gport' = IF turned THEN [g EXCEPT !.latch = @ \cup {p}] ELSE g
                /\ grec' = [IF turned THEN Latched(p) ELSE grec EXCEPT !.calls = @ + 1]
                /\ gmain' = [pc |-> "write", val |-> gport.inten \cup {p}]
       \/ gmain' = [pc |-> "write", val |-> gport.inten \ {p}] /\ Counted /\ UNCHANGED gport
  /\ UNCHANGED gpin

\* The level an edge is found against is that of the cycle before, whichever pins are
\* enabled: aou_top.v:569 gives the port a clock for it that never stops.
GpioWriteInten ==
  /\ ~gisr.on /\ gmain.pc = "write"
  /\ gport' = WriteInten(gport, gmain.val)
  /\ gmain' = [pc |-> "free", val |-> {}]
  /\ UNCHANGED <<gpin, gisr, grec>>

\* csi_gpio_pin_config_direction and csi_gpio_pin_config.
GpioDirection ==
  /\ GpioCall /\ Counted
  /\ \E p \in Pins : gport' \in {[gport EXCEPT !.out = @ \cup {p}], [gport EXCEPT !.out = @ \ {p}]}
  /\ UNCHANGED <<gpin, gmain>>

GpioWrite ==
  /\ GpioCall /\ Counted
  /\ \E p \in Pins : gport' \in {[gport EXCEPT !.dr = @ \cup {p}], [gport EXCEPT !.dr = @ \ {p}]}
  /\ UNCHANGED <<gpin, gmain>>

\* gpio_read returns the inputs, csi_gpio_pin_read one of them.
GpioRead(p) == p \in gport.level

GpioNext ==
  \/ GpioChange \/ GpioEnter \/ GpioServe \/ GpioLeave
  \/ GpioPinInitialize \/ GpioPortUninitialize \/ GpioPinUninitialize
  \/ GpioSetIrq \/ GpioWriteInten \/ GpioDirection \/ GpioWrite

\* A pending interrupt is taken and its handler runs to its end.
GpioFair == WF_gvars(GpioEnter) /\ WF_gvars(GpioServe) /\ WF_gvars(GpioLeave)

-----------------------------------------------------------------------------
(* What must hold.                                                         *)

\* The port, the handler and main are well formed.
GpioTypeOK ==
  /\ gport \in GpioPort /\ gpin \subseteq Pins
  /\ gmain \in [pc : {"free", "write"}, val : SUBSET Pins] /\ gisr \in [on : BOOLEAN, left : SUBSET Pins]

\* An enabled pin whose edge is latched is served, though lower pins keep the
\* interrupt raised (their edges are never cleared): no pin starves.
PinWaits(p)  == gport.irq /\ p \in Status(gport) /\ p \in gport.edge
PinServed(p) == gisr.left # {} /\ Lowest(gisr.left) = p
PinsServed == \A p \in Pins : PinWaits(p) ~> PinServed(p) \/ ~PinWaits(p)

\* An edge is told once: gpio_irq_clear ends the interrupt of the pin.
EdgeToldOnce == \A p \in Pins : grec.told[p] <= grec.latched[p]
================================================================================
