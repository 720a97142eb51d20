----------------------------- MODULE MailboxAbs ------------------------------
(***************************************************************************)
(* What a mailbox promises the two cores, without cycles, registers or     *)
(* bus: a bounded queue of words per channel, an interrupt line and a      *)
(* lock.                                                                   *)
(***************************************************************************)
EXTENDS Integers, Sequences

CONSTANTS Word, Depth, Dout0

VARIABLES
  queue,    \* queue[c]: the words sent on channel c and not read yet
  out,      \* out[c]: the word most recently read
  irq,      \* irq[c]: the reader of channel c is interrupted
  locked    \* locked[c]: channel c accepts no word

vars == <<queue, out, irq, locked>>

Chan == {0, 1}

Init ==
  /\ queue = [c \in Chan |-> << >>]
  /\ out = [c \in Chan |-> Dout0]
  /\ irq = [c \in Chan |-> FALSE]
  /\ locked = [c \in Chan |-> FALSE]

Get(c, q) == /\ queue[c] # << >>
             /\ q = Tail(queue[c])
             /\ out'[c] = Head(queue[c])
NoGet(c, q) == q = queue[c] /\ out'[c] = out[c]

Put(c, q) == /\ ~locked[c]
             /\ Len(queue[c]) < Depth
             /\ \E w \in Word : queue'[c] = Append(q, w)
NoPut(c, q) == queue'[c] = q

\* The queue is read at its head and written at its tail, possibly both at
\* once, and no word is lost, repeated or made up in between.
Transfer(c) == \E q \in {queue[c], IF queue[c] = << >> THEN << >> ELSE Tail(queue[c])} :
                 (Get(c, q) \/ NoGet(c, q)) /\ (Put(c, q) \/ NoPut(c, q))

\* The interrupt goes up only for a word that was there to be read, and
\* a channel locks only while its interrupt is up.
Signal(c) == /\ irq'[c] /\ ~irq[c] => queue[c] # << >>
             /\ locked'[c] /\ ~locked[c] => irq'[c]

Next == \A c \in Chan : Transfer(c) /\ Signal(c)

Spec == Init /\ [][Next]_vars
=============================================================================
