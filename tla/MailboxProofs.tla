---------------------------- MODULE MailboxProofs ----------------------------
(***************************************************************************)
(* Theorems about Mailbox, for every set of words, FIFO depth, latency and *)
(* every use the masters make of the two ports, and about MbxDrivers, for  *)
(* every set of programs on top of it.                                     *)
(***************************************************************************)
EXTENDS MbxDrivers, SequenceTheorems, TLAPS

\* A FIFO is a sequence of entries; Tail and Append of entries are entries.
LEMMA AgedEntries ==
  ASSUME NEW q \in Seq(Entry)
  PROVE  /\ Aged(q) \in Seq(Entry)
         /\ Len(Aged(q)) = Len(q)
         /\ \A i \in 1..Len(q) :
              /\ Aged(q)[i].word = q[i].word
              /\ Aged(q)[i].age = IF q[i].age < SyncLat THEN q[i].age + 1 ELSE q[i].age
PROOF
  <1>1. \A i \in 1..Len(q) : q[i] \in Entry
    OBVIOUS
  <1>2. \A i \in 1..Len(q) :
          [q[i] EXCEPT !.age = IF @ < SyncLat THEN @ + 1 ELSE @] \in Entry
    BY <1>1, FifoAssumption, SMTT(20) DEF Entry
  <1>3. Aged(q) \in [1..Len(q) -> Entry]
    BY <1>2 DEF Aged
  <1>4. Aged(q) \in Seq(Entry) /\ Len(Aged(q)) = Len(q)
    BY <1>3
  <1>5. \A i \in 1..Len(q) :
          Aged(q)[i] = [q[i] EXCEPT !.age = IF @ < SyncLat THEN @ + 1 ELSE @]
    BY DEF Aged
  <1> QED
    BY <1>1, <1>4, <1>5 DEF Entry

\* A read takes a word only from a FIFO that has one.
LEMMA PopsHead ==
  ASSUME NEW c \in Chan, NEW acc, Pops(c, acc)
  PROVE  fifo[c] # << >>
PROOF BY DEF Pops, Empty

\* The age of a word in a FIFO is a number of cycles.
LEMMA AgeOfEntry ==
  ASSUME TypeOK, NEW c \in Chan, NEW i \in 1..Len(fifo[c])
  PROVE  fifo[c][i].age \in Int
PROOF
  <1>1. fifo[c] \in Seq(Entry)
    BY DEF TypeOK
  <1>2. fifo[c][i] \in Entry
    BY <1>1
  <1> QED
    BY <1>2, FifoAssumption DEF Entry

\* What a channel's FIFO holds before the new word is added.
Kept(c, acc) == Aged(IF Pops(c, acc) THEN Tail(fifo[c]) ELSE fifo[c])

\* What is left of a FIFO after a read are entries of it.
LEMMA KeptEntries ==
  ASSUME TypeOK, NEW c \in Chan, NEW acc
  PROVE  /\ Kept(c, acc) \in Seq(Entry)
         /\ Len(Kept(c, acc)) = IF Pops(c, acc) THEN Len(fifo[c]) - 1 ELSE Len(fifo[c])
         /\ \A i \in 1..Len(Kept(c, acc)) :
              LET j == IF Pops(c, acc) THEN i + 1 ELSE i
              IN  /\ j \in 1..Len(fifo[c])
                  /\ Kept(c, acc)[i].word = fifo[c][j].word
                  /\ Kept(c, acc)[i].age =
                       IF fifo[c][j].age < SyncLat THEN fifo[c][j].age + 1 ELSE fifo[c][j].age
PROOF
  <1> DEFINE q == IF Pops(c, acc) THEN Tail(fifo[c]) ELSE fifo[c]
  <1>1. fifo[c] \in Seq(Entry)
    BY DEF TypeOK
  <1>2. /\ q \in Seq(Entry)
        /\ Len(q) = IF Pops(c, acc) THEN Len(fifo[c]) - 1 ELSE Len(fifo[c])
        /\ \A i \in 1..Len(q) : LET j == IF Pops(c, acc) THEN i + 1 ELSE i
                                IN  j \in 1..Len(fifo[c]) /\ q[i] = fifo[c][j]
    <2>1. CASE Pops(c, acc)
      BY <1>1, <2>1, PopsHead
    <2>2. CASE ~Pops(c, acc)
      BY <1>1, <2>2
    <2> QED
      BY <2>1, <2>2
  <1>3. Kept(c, acc) = Aged(q)
    BY DEF Kept
  <1> HIDE DEF q
  <1> QED
    BY <1>2, <1>3, AgedEntries

\* The FIFO after a cycle: typed, within its depth, and one word longer than
\* what was kept exactly if a word was let in.
LEMMA NFifoEntries ==
  ASSUME TypeOK, NEW c \in Chan, NEW acc
  PROVE  /\ NFifo(c, acc) \in Seq(Entry)
         /\ Len(NFifo(c, acc)) <= Depth
         /\ ~Pushes(c) => NFifo(c, acc) = Kept(c, acc)
         /\ Pushes(c) => /\ Len(NFifo(c, acc)) = Len(Kept(c, acc)) + 1
                         /\ NFifo(c, acc)[Len(Kept(c, acc)) + 1].age = 0
                         /\ NFifo(c, acc)[Len(Kept(c, acc)) + 1].word = Narrow(req[c].size, req[c].data)
                         /\ Narrow(req[c].size, req[c].data) \in Word
                         /\ \A i \in 1..Len(Kept(c, acc)) : NFifo(c, acc)[i] = Kept(c, acc)[i]
PROOF
  <1> DEFINE new == [word |-> Narrow(req[c].size, req[c].data), age |-> 0]
  <1>1. NFifo(c, acc) = IF Pushes(c) THEN Append(Kept(c, acc), new) ELSE Kept(c, acc)
    BY DEF NFifo, Kept
  <1>2. Kept(c, acc) \in Seq(Entry) /\ Len(Kept(c, acc)) <= Len(fifo[c])
    BY KeptEntries DEF TypeOK
  <1>3. ASSUME Pushes(c) PROVE new \in Entry /\ new.word \in Word
    <2>1. req[c] \in Access /\ Writes(req[c], "DATA")
      BY <1>3 DEF TypeOK, Pushes, Accepts
    <2>2. req[c].size \in Sizes /\ req[c].data \in Word
      BY <2>1 DEF Access, NoAccess, Writes
    <2> QED
      BY <2>2, WordAssumption, FifoAssumption DEF Entry
  <1>4. Len(fifo[c]) \in Nat /\ Len(fifo[c]) <= Depth /\ (Pushes(c) => Len(fifo[c]) < Depth)
    BY DEF TypeOK, Pushes
  <1>5. CASE Pushes(c)
    <2> HIDE DEF new
    <2>1. NFifo(c, acc) = Append(Kept(c, acc), new) /\ new \in Entry
      BY <1>1, <1>3, <1>5
    <2>2. Len(Kept(c, acc)) \in Nat
      BY <1>2
    <2>3. /\ Append(Kept(c, acc), new) \in Seq(Entry)
          /\ Len(Append(Kept(c, acc), new)) = Len(Kept(c, acc)) + 1
          /\ Append(Kept(c, acc), new)[Len(Kept(c, acc)) + 1] = new
          /\ \A i \in 1..Len(Kept(c, acc)) : Append(Kept(c, acc), new)[i] = Kept(c, acc)[i]
      BY <1>2, <2>1
    <2>4. new.age = 0 /\ new.word = Narrow(req[c].size, req[c].data)
      BY DEF new
    <2>5. Narrow(req[c].size, req[c].data) \in Word
      BY <1>3, <1>5, <2>4
    <2> QED
      BY <1>2, <1>4, <1>5, <2>1, <2>2, <2>3, <2>4, <2>5, FifoAssumption
  <1>6. CASE ~Pushes(c)
    BY <1>1, <1>2, <1>4, <1>6, FifoAssumption
  <1> QED
    BY <1>5, <1>6
-----------------------------------------------------------------------------
(* Type correctness *)

\* What a clock edge does to the FIFO side, in Tick as in Reset.
LEMMA ClockFifoType ==
  ASSUME TypeOK, NEW bus \in [Chan -> Access], ClockFifo(bus)
  PROVE  /\ fifo' \in [Chan -> Seq(Entry)]
         /\ \A c \in Chan : Len(fifo'[c]) <= Depth
         /\ dout' \in [Chan -> Word \cup {Dout0}]
         /\ gap' \in [Chan -> 0..RingGap]
PROOF
  <1>1. fifo' \in [Chan -> Seq(Entry)] /\ \A c \in Chan : Len(fifo'[c]) <= Depth
    BY NFifoEntries DEF ClockFifo
  <1>2. dout' \in [Chan -> Word \cup {Dout0}]
    <2>1. \A c \in Chan : Pops(c, bus[c]) => Head(fifo[c]) \in Entry
      BY PopsHead DEF TypeOK
    <2> QED
      BY <2>1 DEF ClockFifo, TypeOK, Entry
  <1>3. gap' \in [Chan -> 0..RingGap]
    BY GapAssumption DEF ClockFifo, TypeOK
  <1> QED
    BY <1>1, <1>2, <1>3

\* A bus of a cycle carries accesses.
LEMMA CycleBus ==
  ASSUME Cycle
  PROVE  \E bus \in [Chan -> Access] : Disciplined(bus) /\ Tick(bus)
PROOF
  <1>1. PICK b0 \in BusOf[0], b1 \in BusOf[1] :
          LET bus == [c \in Chan |-> IF c = 0 THEN b0 ELSE b1]
          IN  Disciplined(bus) /\ Tick(bus)
    BY DEF Cycle
  <1>2. [c \in Chan |-> IF c = 0 THEN b0 ELSE b1] \in [Chan -> Access]
    BY BusAssumption DEF Chan
  <1> QED
    BY <1>1, <1>2

\* The registers written over the bus, for a write let through.
LEMMA WriteData ==
  ASSUME TypeOK, NEW c \in Chan
  PROVE  /\ Accepts(c, "CTRL") => req[c].data \in CtrlVal
         /\ Accepts(c, "STATUS") => req[c].data \in Status
PROOF
  <1>1. req[c] \in Access
    BY DEF TypeOK
  <1>2. Writes(req[c], "CTRL") => req[c] \in [op : {"write"}, reg : {"CTRL"}, data : CtrlVal]
    BY <1>1 DEF Access, NoAccess, Writes
  <1>3. Writes(req[c], "STATUS") => req[c] \in [op : {"write"}, reg : {"STATUS"}, data : Status]
    BY <1>1 DEF Access, NoAccess, Writes
  <1>4. Accepts(c, "CTRL") => req[c].data \in CtrlVal
    BY <1>2 DEF Accepts
  <1>5. Accepts(c, "STATUS") => req[c].data \in Status
    BY <1>3 DEF Accepts
  <1> QED
    BY <1>4, <1>5

\* A clock edge keeps the types.
LEMMA TickType ==
  ASSUME TypeOK, NEW bus \in [Chan -> Access], Tick(bus)
  PROVE  TypeOK'
PROOF
  <1>1. req' \in [Chan -> Access]
    BY DEF Tick
  <1>2. ctrl' \in [Chan -> CtrlVal]
    BY WriteData DEF Tick, TypeOK
  <1>3. status' \in [Chan -> Status]
    <2>1. \A c \in Chan : NStatus(c) \in Status
      <3> TAKE c \in Chan
      <3>1. Accepts(c, "STATUS") => req[c].data.int \in BOOLEAN /\ req[c].data.sts \in BOOLEAN
        BY WriteData DEF Status
      <3>2. status[c].int \in BOOLEAN /\ status[c].sts \in BOOLEAN
        BY DEF TypeOK, Status
      <3>3. Empty(c) \in BOOLEAN
        BY DEF Empty
      <3> QED
        BY <3>1, <3>2, <3>3 DEF NStatus, Status
    <2> QED
      BY <2>1 DEF Tick
  <1>4. cstate' \in [Chan -> States]
    BY DEF Tick, NState, States
  <1>5. acisr' \in [Chan -> BOOLEAN]
    BY DEF Tick, IntFlag, TypeOK, Status
  <1>6. /\ fifo' \in [Chan -> Seq(Entry)]
        /\ \A c \in Chan : Len(fifo'[c]) <= Depth
        /\ dout' \in [Chan -> Word \cup {Dout0}]
        /\ gap' \in [Chan -> 0..RingGap]
    BY ClockFifoType DEF Tick
  <1>7. rung' \in [Chan -> BOOLEAN]
    BY DEF Tick, NRung
  <1> QED
    BY <1>1, <1>2, <1>3, <1>4, <1>5, <1>6, <1>7 DEF TypeOK

\* So does a reset.
LEMMA ResetType ==
  ASSUME TypeOK, Reset
  PROVE  TypeOK'
PROOF
  <1>1. [c \in Chan |-> NoAccess] \in [Chan -> Access]
    BY DEF Access
  <1>2. /\ fifo' \in [Chan -> Seq(Entry)]
        /\ \A c \in Chan : Len(fifo'[c]) <= Depth
        /\ dout' \in [Chan -> Word \cup {Dout0}]
        /\ gap' \in [Chan -> 0..RingGap]
    BY <1>1, ClockFifoType DEF Reset
  <1> QED
    BY <1>1, <1>2, Ctrl0Assumption DEF Reset, TypeOK, Status, States

\* The first state has them.
LEMMA InitType == ASSUME Init PROVE TypeOK
PROOF
  <1>1. << >> \in Seq(Entry) /\ Len(<< >>) = 0
    OBVIOUS
  <1>2. NoAccess \in Access
    BY DEF Access
  <1> QED
    BY <1>1, <1>2, Ctrl0Assumption, FifoAssumption, GapAssumption DEF Init, TypeOK, Status, States

\* The registers keep their types; the FIFO never holds more than Depth words.
THEOREM TypeCorrect == Spec => []TypeOK
PROOF
  <1>1. Init => TypeOK
    BY InitType
  <1>2. TypeOK /\ [Next]_vars => TypeOK'
    <2> SUFFICES ASSUME TypeOK, [Next]_vars
                 PROVE  TypeOK'
      OBVIOUS
    <2>1. CASE Cycle
      BY <2>1, CycleBus, TickType
    <2>2. CASE Reset
      BY <2>2, ResetType
    <2>3. CASE UNCHANGED vars
      BY <2>3 DEF vars, TypeOK
    <2> QED
      BY <2>1, <2>2, <2>3 DEF Next
  <1> QED
    BY <1>1, <1>2, PTL DEF Spec
-----------------------------------------------------------------------------
(* The interrupt announces a word *)

\* A cycle leaves a readable word in the FIFO, or DATA was being read.
LEMMA WordStays ==
  ASSUME TypeOK, NEW bus \in [Chan -> Access], ClockFifo(bus), NEW c \in Chan, ~Empty(c)
  PROVE  Reads(bus[c], "DATA") \/ ~Empty(c)'
PROOF
  <1>1. CASE Pops(c, bus[c])
    BY <1>1 DEF Pops
  <1>2. CASE ~Pops(c, bus[c])
    <2> DEFINE k == Kept(c, bus[c])
               n == NFifo(c, bus[c])
    <2>1. fifo[c] # << >> /\ ~(Head(fifo[c]).age < SyncLat)
      BY DEF Empty
    <2>2. 1 \in 1..Len(fifo[c]) /\ Head(fifo[c]) = fifo[c][1] /\ fifo[c][1].age \in Int
      BY <2>1, AgeOfEntry DEF TypeOK
    <2>3. Len(k) = Len(fifo[c]) /\ k \in Seq(Entry)
      BY <1>2, KeptEntries
    <2>4. k[1].age = IF fifo[c][1].age < SyncLat THEN fifo[c][1].age + 1 ELSE fifo[c][1].age
      BY <1>2, <2>2, <2>3, KeptEntries
    <2>5. k[1].age >= SyncLat /\ k[1].age \in Int
      BY <2>1, <2>2, <2>4, FifoAssumption
    <2> HIDE DEF k, n
    <2>6. n \in Seq(Entry) /\ Len(n) >= 1 /\ n[1].age = k[1].age
      <3>1. CASE Pushes(c)
        BY <2>2, <2>3, <3>1, NFifoEntries DEF k, n
      <3>2. CASE ~Pushes(c)
        BY <2>2, <2>3, <3>2, NFifoEntries DEF k, n
      <3> QED
        BY <3>1, <3>2
    <2>7. fifo'[c] = n
      BY DEF ClockFifo, n
    <2>8. ~(n[1].age < SyncLat)
      BY <2>5, <2>6, FifoAssumption
    <2> QED
      BY <2>6, <2>7, <2>8 DEF Empty
  <1> QED
    BY <1>1, <1>2

\* The interrupt is up after a cycle only if a word could be read in it.
LEMMA HasWordTick ==
  ASSUME TypeOK, NEW bus \in [Chan -> Access], Tick(bus), NEW c \in Chan, IntFlag(c)'
  PROVE  ~Empty(c)' \/ Reads(req[c], "DATA")'
PROOF
  <1>1. ~Empty(c)
    BY DEF Tick, NStatus, IntFlag
  <1>2. Reads(bus[c], "DATA") \/ ~Empty(c)'
    BY <1>1, WordStays DEF Tick
  <1> QED
    BY <1>2 DEF Tick, Reads

\* IrqHasWord is inductive: int_bit can only be set while a word is readable,
\* and the cycle that sets it takes that word only for a read of DATA.
THEOREM InterruptHasWord == Spec => []IrqHasWord
PROOF
  <1>1. Init => IrqHasWord
    BY DEF Init, IrqHasWord, IntFlag
  <1>2. TypeOK /\ IrqHasWord /\ [Next]_vars => IrqHasWord'
    <2> SUFFICES ASSUME TypeOK, IrqHasWord, [Next]_vars
                 PROVE  IrqHasWord'
      OBVIOUS
    <2>1. CASE Cycle
      <3>1. PICK bus \in [Chan -> Access] : Tick(bus)
        BY <2>1, CycleBus
      <3> QED
        BY <3>1, HasWordTick DEF IrqHasWord
    <2>2. CASE Reset
      BY <2>2 DEF Reset, IrqHasWord, IntFlag
    <2>3. CASE UNCHANGED vars
      BY <2>3 DEF vars, IrqHasWord, IntFlag, Empty, Reads
    <2> QED
      BY <2>1, <2>2, <2>3 DEF Next
  <1> QED
    BY <1>1, <1>2, TypeCorrect, PTL DEF Spec
-----------------------------------------------------------------------------
(* An announced message keeps the interrupt up *)

\* The words of c are all visible to the reader.
AllVisible(c) == \A i \in 1..Len(fifo[c]) : fifo[c][i].age >= SyncLat

\* Words grow visible while the gap after the last DATA write grows.
AgesFollowGap(c) == \A i \in 1..Len(fifo[c]) :
                      fifo[c][i].age >= SyncLat \/ fifo[c][i].age >= gap[c] - 1

Announced(c) ==
  /\ AgesFollowGap(c)
  /\ Writes(req[c], "DATA") => gap[c] = 0
  /\ Writes(req[c], "STATUS") => AllVisible(c)
  /\ rung[c] => fifo[c] # << >> /\ AllVisible(c) /\ IntFlag(c)

\* The inductive invariant behind RungIsSignalled.
AnnouncedInv == \A c \in Chan : Announced(c)

\* A word in the FIFO after a cycle is the one pushed, or one that was there
\* and is a cycle older.
LEMMA WordAfter ==
  ASSUME TypeOK, NEW bus \in [Chan -> Access], ClockFifo(bus), NEW c \in Chan,
         NEW i \in 1..Len(fifo'[c])
  PROVE  \/ Pushes(c) /\ fifo'[c][i].age = 0
         \/ \E j \in 1..Len(fifo[c]) :
              fifo'[c][i].age = IF fifo[c][j].age < SyncLat THEN fifo[c][j].age + 1 ELSE fifo[c][j].age
PROOF
  <1> DEFINE k == Kept(c, bus[c])
             n == NFifo(c, bus[c])
  <1>1. fifo'[c] = n
    BY DEF ClockFifo
  <1>2. Len(k) \in Nat
    BY KeptEntries
  <1>3. \A h \in 1..Len(k) : \E j \in 1..Len(fifo[c]) :
          k[h].age = IF fifo[c][j].age < SyncLat THEN fifo[c][j].age + 1 ELSE fifo[c][j].age
    BY KeptEntries
  <1>4. CASE ~Pushes(c)
    <2>1. n = k
      BY <1>4, NFifoEntries
    <2> QED
      BY <1>1, <1>3, <2>1
  <1>5. CASE Pushes(c)
    <2>1. /\ Len(n) = Len(k) + 1
          /\ n[Len(k) + 1].age = 0
          /\ \A h \in 1..Len(k) : n[h] = k[h]
      BY <1>5, NFifoEntries
    <2> HIDE DEF k, n
    <2>2. i \in 1..Len(k) \/ i = Len(k) + 1
      BY <1>1, <1>2, <2>1
    <2> QED
      BY <1>1, <1>3, <1>5, <2>1, <2>2
  <1> QED
    BY <1>4, <1>5

\* Visible words stay visible while none is added.
LEMMA VisibleStays ==
  ASSUME TypeOK, NEW bus \in [Chan -> Access], ClockFifo(bus), NEW c \in Chan,
         AllVisible(c), ~Pushes(c)
  PROVE  AllVisible(c)'
PROOF
  <1> SUFFICES ASSUME NEW i \in 1..Len(fifo'[c])
               PROVE  fifo'[c][i].age >= SyncLat
    BY DEF AllVisible
  <1>1. PICK j \in 1..Len(fifo[c]) :
          fifo'[c][i].age = IF fifo[c][j].age < SyncLat THEN fifo[c][j].age + 1 ELSE fifo[c][j].age
    BY WordAfter
  <1>2. fifo[c][j].age >= SyncLat /\ fifo[c][j].age \in Int
    BY AgeOfEntry DEF AllVisible
  <1> QED
    BY <1>1, <1>2, FifoAssumption

\* The gap counter and the ages advance together.
LEMMA AgesStay ==
  ASSUME TypeOK, NEW bus \in [Chan -> Access], ClockFifo(bus), NEW c \in Chan,
         AgesFollowGap(c), Writes(req[c], "DATA") => gap[c] = 0
  PROVE  AgesFollowGap(c)'
PROOF
  <1>1. gap[c] \in Nat /\ gap'[c] \in Nat /\ gap'[c] <= gap[c] + 1
    BY GapAssumption DEF TypeOK, ClockFifo
  <1> SUFFICES ASSUME NEW i \in 1..Len(fifo'[c])
               PROVE  fifo'[c][i].age >= SyncLat \/ fifo'[c][i].age >= gap'[c] - 1
    BY DEF AgesFollowGap
  <1>2. CASE Pushes(c) /\ fifo'[c][i].age = 0
    <2>1. gap[c] = 0
      BY <1>2 DEF Pushes, Accepts
    <2> QED
      BY <1>1, <1>2, <2>1
  <1>3. ASSUME NEW j \in 1..Len(fifo[c]),
               fifo'[c][i].age = IF fifo[c][j].age < SyncLat THEN fifo[c][j].age + 1 ELSE fifo[c][j].age
        PROVE  fifo'[c][i].age >= SyncLat \/ fifo'[c][i].age >= gap'[c] - 1
    <2>1. fifo[c][j].age \in Int
      BY AgeOfEntry
    <2>2. fifo[c][j].age >= SyncLat \/ fifo[c][j].age >= gap[c] - 1
      BY DEF AgesFollowGap
    <2>3. CASE fifo[c][j].age < SyncLat
      <3>1. fifo'[c][i].age = fifo[c][j].age + 1
        BY <1>3, <2>3
      <3>2. fifo[c][j].age + 1 >= gap[c]
        BY <1>1, <2>1, <2>2, <2>3, FifoAssumption
      <3>3. fifo[c][j].age + 1 >= gap'[c] - 1
        BY <1>1, <2>1, <3>2
      <3> QED
        BY <3>1, <3>3
    <2>4. CASE ~(fifo[c][j].age < SyncLat)
      BY <1>3, <2>1, <2>4, FifoAssumption
    <2> QED
      BY <2>3, <2>4
  <1> QED
    BY <1>2, <1>3, WordAfter

\* A STATUS write that keeps the discipline is issued when every word is
\* visible in the next cycle, in which its data phase falls.
LEMMA VisibleWhenRung ==
  ASSUME TypeOK, RingGap >= SyncLat, NEW bus \in [Chan -> Access], ClockFifo(bus),
         Disciplined(bus), NEW c \in Chan, Announced(c), Writes(bus[c], "STATUS")
  PROVE  AllVisible(c)'
PROOF
  <1>1. gap[c] \in Nat /\ gap[c] >= SyncLat
    BY GapAssumption, FifoAssumption DEF Disciplined, TypeOK
  <1>2. ~Pushes(c)
    BY <1>1, FifoAssumption DEF Announced, Pushes, Accepts
  <1> SUFFICES ASSUME NEW i \in 1..Len(fifo'[c])
               PROVE  fifo'[c][i].age >= SyncLat
    BY DEF AllVisible
  <1>3. PICK j \in 1..Len(fifo[c]) :
          fifo'[c][i].age = IF fifo[c][j].age < SyncLat THEN fifo[c][j].age + 1 ELSE fifo[c][j].age
    BY <1>2, WordAfter
  <1>4. fifo[c][j].age \in Int
    BY AgeOfEntry
  <1>5. fifo[c][j].age >= SyncLat \/ fifo[c][j].age >= gap[c] - 1
    BY DEF Announced, AgesFollowGap
  <1> QED
    BY <1>1, <1>3, <1>4, <1>5, FifoAssumption

\* A FIFO that is not empty and holds only visible words can be read.
LEMMA VisibleNotEmpty ==
  ASSUME TypeOK, NEW c \in Chan, AllVisible(c), fifo[c] # << >>
  PROVE  ~Empty(c)
PROOF
  <1>1. 1 \in 1..Len(fifo[c]) /\ Head(fifo[c]) = fifo[c][1]
    BY DEF TypeOK
  <1>2. fifo[c][1].age >= SyncLat /\ fifo[c][1].age \in Int
    BY <1>1, AgeOfEntry DEF AllVisible
  <1> QED
    BY <1>1, <1>2, FifoAssumption DEF Empty

\* Words that are announced stay so across a clock edge ...
LEMMA AnnouncedTick ==
  ASSUME TypeOK, RingGap >= SyncLat, NEW bus \in [Chan -> Access], Disciplined(bus), Tick(bus),
         NEW c \in Chan, Announced(c)
  PROVE  Announced(c)'
PROOF
  <1>1. ClockFifo(bus) /\ req' = bus
    BY DEF Tick
  <1>2. AgesFollowGap(c)'
    BY <1>1, AgesStay DEF Announced
  <1>3. Writes(req'[c], "DATA") => gap'[c] = 0
    BY <1>1 DEF ClockFifo
  <1>4. Writes(req'[c], "STATUS") => AllVisible(c)'
    BY <1>1, VisibleWhenRung
  <1>5. ASSUME rung'[c]
        PROVE  fifo'[c] # << >> /\ AllVisible(c)' /\ IntFlag(c)'
    <2>1. /\ fifo'[c] # << >>
          /\ ~Pushes(c)
          /\ IF Accepts(c, "STATUS") THEN req[c].data.int /\ req[c].data.sts ELSE rung[c]
      BY <1>5 DEF Tick, NRung
    <2>2. AllVisible(c)
      BY <2>1 DEF Announced, Accepts
    <2>3. AllVisible(c)'
      BY <1>1, <2>1, <2>2, VisibleStays
    <2>4. fifo[c] # << >>
      <3>1. fifo'[c] = Kept(c, bus[c]) /\ Kept(c, bus[c]) \in Seq(Entry)
        BY <1>1, <2>1, NFifoEntries, KeptEntries DEF ClockFifo
      <3>2. Len(Kept(c, bus[c])) <= Len(fifo[c]) /\ Len(fifo[c]) \in Nat
        BY KeptEntries DEF TypeOK
      <3>3. Len(Kept(c, bus[c])) # 0
        BY <2>1, <3>1
      <3>4. Len(fifo[c]) # 0
        BY <3>1, <3>2, <3>3
      <3> QED
        BY <3>4
    <2>5. ~Empty(c)
      BY <2>2, <2>4, VisibleNotEmpty
    <2>6. IntFlag(c)'
      BY <2>1, <2>5 DEF Tick, NStatus, IntFlag, Announced
    <2> QED
      BY <2>1, <2>3, <2>6
  <1> QED
    BY <1>2, <1>3, <1>4, <1>5 DEF Announced

\* ... and across a reset, which does not clear the FIFO.
LEMMA AnnouncedReset ==
  ASSUME TypeOK, Reset, NEW c \in Chan, Announced(c)
  PROVE  Announced(c)'
PROOF
  <1> DEFINE bus == [d \in Chan |-> NoAccess]
  <1>1. bus \in [Chan -> Access] /\ ClockFifo(bus)
    BY DEF Access, Reset
  <1>2. AgesFollowGap(c)'
    BY <1>1, AgesStay DEF Announced
  <1>3. req'[c] = NoAccess /\ ~rung'[c]
    BY DEF Reset
  <1> QED
    BY <1>2, <1>3 DEF Announced, Writes, NoAccess

\* With as many cycles between the last DATA and the STATUS write as the FIFO
\* needs to show a word, a message stays announced until its last word is
\* read: status_reg.int_bit is never lost to the FIFO's late empty flag.
THEOREM RungSignalled ==
  ASSUME RingGap >= SyncLat
  PROVE  Spec => []RungIsSignalled
PROOF
  <1>1. Init => AnnouncedInv
    <2> SUFFICES ASSUME Init, NEW c \in Chan
                 PROVE  Announced(c)
      BY DEF AnnouncedInv
    <2>1. fifo[c] = << >> /\ req[c] = NoAccess /\ ~rung[c]
      BY DEF Init
    <2> QED
      BY <2>1 DEF Announced, AgesFollowGap, Writes, NoAccess
  <1>2. TypeOK /\ AnnouncedInv /\ [Next]_vars => AnnouncedInv'
    <2> SUFFICES ASSUME TypeOK, AnnouncedInv, [Next]_vars, NEW c \in Chan
                 PROVE  Announced(c)'
      BY DEF AnnouncedInv
    <2>1. CASE Cycle
      BY <2>1, CycleBus, AnnouncedTick DEF AnnouncedInv
    <2>2. CASE Reset
      BY <2>2, AnnouncedReset DEF AnnouncedInv
    <2>3. CASE UNCHANGED vars
      BY <2>3 DEF vars, AnnouncedInv, Announced, AgesFollowGap, AllVisible, IntFlag
    <2> QED
      BY <2>1, <2>2, <2>3 DEF Next
  <1>3. AnnouncedInv => RungIsSignalled
    BY DEF AnnouncedInv, Announced, RungIsSignalled
  <1> QED
    BY <1>1, <1>2, <1>3, TypeCorrect, PTL DEF Spec
-----------------------------------------------------------------------------
(* The channels implement the abstract mailbox *)

\* The words of a sequence of entries, the ages forgotten.
WordsOf(q) == [i \in 1..Len(q) |-> q[i].word]

\* The words of a FIFO without their ages.
LEMMA WordsOfEntries ==
  ASSUME NEW q \in Seq(Entry)
  PROVE  /\ WordsOf(q) \in Seq(Word)
         /\ Len(WordsOf(q)) = Len(q)
         /\ \A i \in 1..Len(q) : WordsOf(q)[i] = q[i].word
PROOF
  <1>1. \A i \in 1..Len(q) : q[i] \in Entry
    OBVIOUS
  <1>2. \A i \in 1..Len(q) : q[i].word \in Word
    BY <1>1 DEF Entry
  <1>3. WordsOf(q) \in [1..Len(q) -> Word] /\ Len(q) \in Nat
    BY <1>2 DEF WordsOf
  <1>4. WordsOf(q) \in Seq(Word) /\ Len(WordsOf(q)) = Len(q)
    BY <1>3
  <1> QED
    BY <1>4 DEF WordsOf

\* What is left of the words of a channel when acc has taken its one.
WordsKept(c, acc) == IF Pops(c, acc) THEN Tail(WordsOf(fifo[c])) ELSE WordsOf(fifo[c])

\* The words left after a read.
LEMMA WordsKeptOf ==
  ASSUME TypeOK, NEW c \in Chan, NEW acc
  PROVE  /\ WordsKept(c, acc) \in Seq(Word)
         /\ WordsKept(c, acc) = WordsOf(Kept(c, acc))
PROOF
  <1> DEFINE k == Kept(c, acc)
             w == WordsOf(fifo[c])
             r == WordsKept(c, acc)
  <1>1. fifo[c] \in Seq(Entry) /\ k \in Seq(Entry)
    BY KeptEntries DEF TypeOK
  <1>2. w \in Seq(Word) /\ Len(w) = Len(fifo[c]) /\ \A i \in 1..Len(fifo[c]) : w[i] = fifo[c][i].word
    BY <1>1, WordsOfEntries
  <1>3. Pops(c, acc) => w # << >>
    BY <1>1, <1>2, PopsHead
  <1>4. /\ r \in Seq(Word)
        /\ Len(r) = IF Pops(c, acc) THEN Len(fifo[c]) - 1 ELSE Len(fifo[c])
        /\ \A i \in 1..Len(r) : r[i] = IF Pops(c, acc) THEN w[i + 1] ELSE w[i]
    <2> HIDE DEF w
    <2>1. CASE Pops(c, acc)
      BY <1>2, <1>3, <2>1 DEF WordsKept, w
    <2>2. CASE ~Pops(c, acc)
      BY <1>2, <2>2 DEF WordsKept, w
    <2> QED
      BY <2>1, <2>2
  <1>5. Len(k) = Len(r)
    BY <1>4, KeptEntries
  <1>6. ASSUME NEW i \in 1..Len(r) PROVE k[i].word = r[i]
    <2> DEFINE j == IF Pops(c, acc) THEN i + 1 ELSE i
    <2>1. j \in 1..Len(fifo[c]) /\ k[i].word = fifo[c][j].word
      BY <1>5, KeptEntries
    <2>2. r[i] = w[j]
      BY <1>4
    <2> HIDE DEF j, k, r, w
    <2> QED
      BY <1>2, <2>1, <2>2
  <1>7. WordsOf(k) \in Seq(Word) /\ Len(WordsOf(k)) = Len(k) /\ \A i \in 1..Len(k) : WordsOf(k)[i] = k[i].word
    BY <1>1, WordsOfEntries
  <1> HIDE DEF k, r
  <1>8. r = WordsOf(k)
    BY <1>4, <1>5, <1>6, <1>7, SeqEqual
  <1> QED
    BY <1>4, <1>8 DEF k, r

\* The words after a cycle: those that were kept, in their order, and the one
\* pushed behind them.
LEMMA WordsAfter ==
  ASSUME TypeOK, NEW c \in Chan, NEW acc
  PROVE  /\ ~Pushes(c) => WordsOf(NFifo(c, acc)) = WordsKept(c, acc)
         /\ Pushes(c) => \E w \in Word : WordsOf(NFifo(c, acc)) = Append(WordsKept(c, acc), w)
PROOF
  <1> DEFINE k == Kept(c, acc)
             n == NFifo(c, acc)
             r == WordsKept(c, acc)
             x == Narrow(req[c].size, req[c].data)
  <1>1. k \in Seq(Entry) /\ n \in Seq(Entry)
    BY KeptEntries, NFifoEntries
  <1>2. r \in Seq(Word) /\ r = WordsOf(k)
    BY WordsKeptOf
  <1>3. CASE ~Pushes(c)
    BY <1>2, <1>3, NFifoEntries
  <1>4. CASE Pushes(c)
    <2>1. /\ x \in Word
          /\ Len(n) = Len(k) + 1
          /\ n[Len(k) + 1].word = x
          /\ \A i \in 1..Len(k) : n[i] = k[i]
      BY <1>4, NFifoEntries
    <2> HIDE DEF k, n, r, x
    <2>2. /\ Len(r) = Len(k) /\ Len(k) \in Nat
          /\ \A i \in 1..Len(k) : r[i] = k[i].word
      BY <1>1, <1>2, WordsOfEntries
    <2>3. /\ WordsOf(n) \in Seq(Word)
          /\ Len(WordsOf(n)) = Len(n)
          /\ \A i \in 1..Len(n) : WordsOf(n)[i] = n[i].word
      BY <1>1, WordsOfEntries
    <2>4. /\ Append(r, x) \in Seq(Word)
          /\ Len(Append(r, x)) = Len(r) + 1
          /\ Append(r, x)[Len(r) + 1] = x
          /\ \A i \in 1..Len(r) : Append(r, x)[i] = r[i]
      BY <1>2, <2>1
    <2>5. \A i \in 1..Len(n) : i \in 1..Len(k) \/ i = Len(k) + 1
      BY <2>1, <2>2
    <2>6. \A i \in 1..Len(n) : WordsOf(n)[i] = Append(r, x)[i]
      BY <2>1, <2>2, <2>3, <2>4, <2>5
    <2>7. WordsOf(n) = Append(r, x)
      BY <2>1, <2>2, <2>3, <2>4, <2>6, SeqEqual
    <2> QED
      BY <1>4, <2>1, <2>7 DEF n, r
  <1> QED
    BY <1>3, <1>4

\* One clock edge of the FIFO is a read at the head, a write at the tail, both
\* or neither of the abstract queue.
LEMMA AbsTransfer ==
  ASSUME TypeOK, NEW bus \in [Chan -> Access], ClockFifo(bus), NEW c \in Chan
  PROVE  Abs!Transfer(c)
PROOF
  <1> DEFINE w == WordsOf(fifo[c])
             r == WordsKept(c, bus[c])
  <1>1. /\ [d \in Chan |-> Words(d)][c] = w
        /\ [d \in Chan |-> Words(d)]'[c] = WordsOf(NFifo(c, bus[c]))
        /\ [d \in Chan |-> Locking(d)][c] = Locking(c)
    BY DEF Words, WordsOf, ClockFifo
  <1>2. fifo[c] \in Seq(Entry) /\ Len(w) = Len(fifo[c]) /\ w \in Seq(Word)
    BY WordsOfEntries DEF TypeOK
  <1>3. /\ ~Pushes(c) => WordsOf(NFifo(c, bus[c])) = r
        /\ Pushes(c) => \E x \in Word : WordsOf(NFifo(c, bus[c])) = Append(r, x)
    BY WordsAfter
  <1>4. Pushes(c) => ~Locking(c) /\ Len(w) < Depth
    BY <1>2 DEF Pushes, Accepts
  <1>5. Abs!Put(c, r) \/ Abs!NoPut(c, r)
    <2> HIDE DEF w, r
    <2> QED
      BY <1>1, <1>3, <1>4 DEF Abs!Put, Abs!NoPut
  <1>6. CASE Pops(c, bus[c])
    <2>1. fifo[c] # << >> /\ w # << >>
      BY <1>2, <1>6, PopsHead
    <2>2. Head(w) = Head(fifo[c]).word
      BY <1>2, <2>1, WordsOfEntries
    <2>3. r = Tail(w)
      BY <1>6 DEF WordsKept
    <2>4. dout'[c] = Head(w)
      BY <1>6, <2>2 DEF ClockFifo
    <2> HIDE DEF w, r
    <2>5. Abs!Get(c, r)
      BY <1>1, <2>1, <2>3, <2>4 DEF Abs!Get
    <2>6. r \in {[d \in Chan |-> Words(d)][c],
                 IF [d \in Chan |-> Words(d)][c] = << >> THEN << >>
                 ELSE Tail([d \in Chan |-> Words(d)][c])}
      BY <1>1, <2>1, <2>3
    <2> QED
      BY <1>5, <2>5, <2>6 DEF Abs!Transfer
  <1>7. CASE ~Pops(c, bus[c])
    <2>1. r = w
      BY <1>7 DEF WordsKept
    <2>2. dout'[c] = dout[c]
      BY <1>7 DEF ClockFifo
    <2> HIDE DEF w, r
    <2>3. Abs!NoGet(c, r)
      BY <1>1, <2>1, <2>2 DEF Abs!NoGet
    <2>4. r \in {[d \in Chan |-> Words(d)][c],
                 IF [d \in Chan |-> Words(d)][c] = << >> THEN << >>
                 ELSE Tail([d \in Chan |-> Words(d)][c])}
      BY <1>1, <2>1
    <2> QED
      BY <1>5, <2>3, <2>4 DEF Abs!Transfer
  <1> QED
    BY <1>6, <1>7

\* The interrupt rises over a word, and the lock closes under an interrupt.
LEMMA AbsSignalTick ==
  ASSUME TypeOK, NEW bus \in [Chan -> Access], Tick(bus), NEW c \in Chan
  PROVE  Abs!Signal(c)
PROOF
  <1>1. fifo[c] \in Seq(Entry) /\ Len(WordsOf(fifo[c])) = Len(fifo[c])
    BY WordsOfEntries DEF TypeOK
  <1>2. IntFlag(c)' => fifo[c] # << >>
    BY DEF Tick, NStatus, IntFlag, Empty
  <1>3. fifo[c] # << >> => WordsOf(fifo[c]) # << >>
    BY <1>1
  <1>4. [d \in Chan |-> Words(d)][c] = WordsOf(fifo[c])
    BY DEF Words, WordsOf
  <1>5. Locking(c)' /\ ~Locking(c) => IntFlag(c)'
    <2>1. cstate'[c] = NState(c)
      BY DEF Tick
    <2>2. NState(c) = "WAIT_READ" => Locking(c)
      BY DEF NState
    <2> QED
      BY <2>1, <2>2 DEF Locking
  <1> QED
    BY <1>2, <1>3, <1>4, <1>5 DEF Abs!Signal

\* A reset takes interrupts and locks away.
LEMMA AbsSignalReset ==
  ASSUME Reset, NEW c \in Chan
  PROVE  Abs!Signal(c)
PROOF
  <1>1. ~IntFlag(c)' /\ ~Locking(c)'
    BY DEF Reset, IntFlag, Locking
  <1> QED
    BY <1>1 DEF Abs!Signal

\* Each channel is a bounded queue that loses, repeats and makes up no word,
\* takes none while it is locked, and interrupts its reader only for a word
\* that is there: every clock edge of both channels, a reset included, is a
\* step of MailboxAbs.
THEOREM ImplementsMailboxAbs == Spec => ImplementsAbs
PROOF
  <1>1. Init => Abs!Init
    <2> SUFFICES ASSUME Init PROVE Abs!Init
      OBVIOUS
    <2>1. \A c \in Chan : Words(c) = << >> /\ ~IntFlag(c) /\ ~Locking(c)
      BY DEF Init, Words, IntFlag, Locking
    <2>2. [c \in Chan |-> Words(c)] = [c \in Abs!Chan |-> << >>]
      BY <2>1 DEF Chan, Abs!Chan
    <2>3. dout = [c \in Abs!Chan |-> Dout0]
      BY DEF Init, Chan, Abs!Chan
    <2>4. [c \in Chan |-> IntFlag(c)] = [c \in Abs!Chan |-> FALSE]
      BY <2>1 DEF IntFlag, Chan, Abs!Chan
    <2>5. [c \in Chan |-> Locking(c)] = [c \in Abs!Chan |-> FALSE]
      BY <2>1 DEF Locking, Chan, Abs!Chan
    <2> QED
      BY <2>2, <2>3, <2>4, <2>5 DEF Abs!Init
  <1>2. TypeOK /\ [Next]_vars => [Abs!Next]_Abs!vars
    <2> SUFFICES ASSUME TypeOK, [Next]_vars
                 PROVE  Abs!Next \/ UNCHANGED Abs!vars
      OBVIOUS
    <2>1. CASE Cycle
      <3>1. PICK bus \in [Chan -> Access] : Tick(bus)
        BY <2>1, CycleBus
      <3>2. ASSUME NEW c \in Chan PROVE Abs!Transfer(c) /\ Abs!Signal(c)
        BY <3>1, AbsTransfer, AbsSignalTick DEF Tick
      <3> QED
        BY <3>2 DEF Abs!Next, Chan, Abs!Chan
    <2>2. CASE Reset
      <3>1. /\ [c \in Chan |-> NoAccess] \in [Chan -> Access]
            /\ ClockFifo([c \in Chan |-> NoAccess])
        BY <2>2 DEF Access, Reset
      <3>2. ASSUME NEW c \in Chan PROVE Abs!Transfer(c) /\ Abs!Signal(c)
        BY <2>2, <3>1, AbsTransfer, AbsSignalReset
      <3> QED
        BY <3>2 DEF Abs!Next, Chan, Abs!Chan
    <2>3. CASE UNCHANGED vars
      BY <2>3 DEF vars, Abs!vars, Words, IntFlag, Locking, Empty
    <2> QED
      BY <2>1, <2>2, <2>3 DEF Next
  <1> QED
    BY <1>1, <1>2, TypeCorrect, PTL DEF Spec, ImplementsAbs, Abs!Spec
-----------------------------------------------------------------------------
(* The drivers: type correctness *)

\* A core that has read a register finds its own read in the data phase.
ReadsOwn(p) ==
  /\ core[p].at = "gotCtrl" => req[In(p)] = ReadOf("CTRL")
  /\ core[p].at = "gotData" => req[In(p)] = ReadOf("DATA")
  /\ core[p].at \in {"readData", "gotData"} => core[p].left # 0
  /\ core[p].at \in Reporting => p = "ree" /\ excAddr \in Word

\* The inductive invariant behind DTypeOK.
DriversTyped ==
  /\ DTypeOK
  /\ \A p \in CPU : ReadsOwn(p)
  /\ excPend => excAddr \in Word
  /\ \E prog \in Programs : sent = prog.sent

\* What the bus carries in a cycle in which the cores of go are granted theirs.
BusOfCores(go) == [c \in Chan |-> IF \E p \in go : Port(p) = c
                                  THEN NextAccess(CHOOSE p \in go : Port(p) = c) ELSE NoAccess]

\* A cycle of DNext with its choices made.
DStep(go, enter, fault, still) ==
  /\ \A p, q \in go : Port(p) = Port(q) => p = q
  /\ Disciplined(BusOfCores(go))
  /\ Tick(BusOfCores(go))
  /\ UNCHANGED sent
  /\ core' = [p \in CPU |-> IF p \in go THEN Issued(core[p]) ELSE Local(p, enter[p])]
  /\ fault => "ree" \notin go /\ core'["ree"] = core["ree"]
  /\ faults' = IF fault THEN Tail(faults) ELSE faults
  /\ excAddr' = IF fault THEN Head(faults) ELSE excAddr
  /\ excPend' = (fault \/ (still /\ core'["ree"].at # "excCtrl"))
  /\ outbox' = [p \in CPU |-> IF p \in go /\ Written(p) # << >>
                               THEN Append(outbox[p], Written(p)) ELSE outbox[p]]

\* Cores with an access to make, and what a core may do without one.
Movers == {p \in CPU : NextAccess(p) # NoAccess}
Enters == {"none", "init", "mbx", "exc"}

\* The state of a core, field by field.
LEMMA CoreFields ==
  ASSUME DTypeOK, NEW p \in CPU
  PROVE  /\ core[p].todo \in Seq(Access) /\ core[p].irqOn \in BOOLEAN /\ core[p].at \in Points
         /\ core[p].left \in Nat /\ core[p].got \in Seq(Word \cup {Dout0})
         /\ core[p].inbox \in Seq(Seq(Word \cup {Dout0}))
         /\ core[p] \in Core
PROOF BY DEF DTypeOK, Core

\* DNext is a cycle with some choice; an exception is only raised by a fault.
LEMMA DNextSteps ==
  ASSUME DNext, DTypeOK
  PROVE  \E go \in SUBSET Movers, enter \in [CPU -> Enters], fault \in BOOLEAN, still \in BOOLEAN :
            DStep(go, enter, fault, still) /\ (fault => Faulting) /\ (still => excPend)
PROOF
  <1>1. PICK go \in SUBSET Movers, enter \in [CPU -> Enters],
             fault \in {FALSE, Faulting}, still \in {FALSE, excPend} : DStep(go, enter, fault, still)
    BY Zenon DEF DNext, DStep, BusOfCores, Movers, Enters
  <1>2. Faulting \in BOOLEAN
    BY CoreFields, Zenon DEF Faulting, CPU
  <1>3. fault \in BOOLEAN /\ (fault => Faulting)
    <2>1. CASE fault = FALSE
      BY <2>1
    <2>2. CASE fault = Faulting
      BY <1>2, <2>2
    <2> QED
      BY <2>1, <2>2
  <1>4. still \in BOOLEAN /\ (still => excPend)
    <2>1. CASE still = FALSE
      BY <2>1
    <2>2. CASE still = excPend
      BY <2>2 DEF DTypeOK
    <2> QED
      BY <2>1, <2>2
  <1> QED
    BY <1>1, <1>3, <1>4

\* The channels of a core and of its peer.
LEMMA Channels ==
  ASSUME NEW p \in CPU
  PROVE  /\ Other(p) \in CPU /\ Other(p) # p /\ Other(Other(p)) = p
         /\ \A q \in CPU : q = p \/ q = Other(p)
         /\ Out(p) \in Chan /\ In(p) \in Chan /\ In(p) # Out(p)
         /\ In(Other(p)) = Out(p) /\ Out(Other(p)) = In(p)
PROOF BY DEF CPU, Other, Out, In, Peer, Chan

\* The accesses a core makes are accesses of Mailbox.
LEMMA AccessesTyped ==
  /\ NoAccess \in Access /\ PutIntr \in Access
  /\ ReadOf("CTRL") \in Access /\ ReadOf("DATA") \in Access
  /\ \A w \in Word : SendWrite(w) \in Access
  /\ CtrlFor(1) \in CtrlVal /\ ConfigWrite(1) \in Access
PROOF
  <1>1. CtrlFor(1) \in CtrlVal
    BY LengthAssumption
  <1>2. ConfigWrite(1) \in [op : {"write"}, reg : {"CTRL"}, data : CtrlVal]
    BY <1>1 DEF ConfigWrite
  <1>3. \A w \in Word : SendWrite(w) \in [op : {"write"}, reg : {"DATA"}, size : Sizes, data : Word]
    BY DataSizeAssumption DEF SendWrite
  <1>4. PutIntr \in [op : {"write"}, reg : {"STATUS"}, data : Status]
    BY DEF PutIntr, Status
  <1>5. ReadOf("CTRL") \in [op : {"read"}, reg : {"CTRL", "DATA", "STATUS", "ACISR"}]
    BY DEF ReadOf
  <1>6. ReadOf("DATA") \in [op : {"read"}, reg : {"CTRL", "DATA", "STATUS", "ACISR"}]
    BY DEF ReadOf
  <1> QED
    BY <1>1, <1>2, <1>3, <1>4, <1>5, <1>6 DEF Access

\* What a core does next: an access by its point, typed, and no two alike.
LEMMA NextIs ==
  ASSUME DriversTyped, NEW p \in CPU
  PROVE  /\ NextAccess(p) \in Access
         /\ core[p].at = "readCtrl" => NextAccess(p) = ReadOf("CTRL")
         /\ core[p].at = "readData" => NextAccess(p) = ReadOf("DATA")
         /\ core[p].at = "excCtrl" => NextAccess(p) = ConfigWrite(1)
         /\ core[p].at = "excData" => NextAccess(p) = SendWrite(excAddr)
         /\ core[p].at = "excRing" => NextAccess(p) = PutIntr
         /\ core[p].at \in {"gotCtrl", "gotData", "exit"} => NextAccess(p) = NoAccess
         /\ core[p].at = "main" =>
              NextAccess(p) = IF core[p].irqOn /\ core[p].todo # << >> THEN Head(core[p].todo) ELSE NoAccess
PROOF
  <1>1. DTypeOK /\ ReadsOwn(p)
    BY DEF DriversTyped
  <1>2. core[p].at \in Points /\ core[p].todo \in Seq(Access)
    BY <1>1, CoreFields
  <1>3. core[p].todo # << >> => Head(core[p].todo) \in Access
    BY <1>2
  <1>4. core[p].at \in Reporting => excAddr \in Word
    BY <1>1 DEF ReadsOwn
  <1>5. CASE core[p].at = "main"
    BY <1>3, <1>5, AccessesTyped DEF NextAccess
  <1>6. CASE core[p].at \in Receiving
    BY <1>6, AccessesTyped DEF NextAccess, Receiving
  <1>7. CASE core[p].at \in Reporting
    BY <1>4, <1>7, AccessesTyped DEF NextAccess, Reporting
  <1> QED
    BY <1>2, <1>5, <1>6, <1>7 DEF Points, Receiving, Reporting

\* The bus carries the access of each core that is granted, and nothing else.
LEMMA BusCarries ==
  ASSUME DriversTyped, NEW go \in SUBSET Movers, \A p, q \in go : Port(p) = Port(q) => p = q
  PROVE  /\ BusOfCores(go) \in [Chan -> Access]
         /\ \A p \in go : BusOfCores(go)[Port(p)] = NextAccess(p)
         /\ \A c \in Chan : (\A p \in go : Port(p) # c) => BusOfCores(go)[c] = NoAccess
         /\ \A p \in CPU : Port(p) = IF NextAccess(p).op = "read" THEN In(p) ELSE Out(p)
PROOF
  <1>1. \A p \in go : p \in CPU /\ NextAccess(p) \in Access
    BY NextIs DEF Movers
  <1>2. \A p \in CPU : Port(p) = IF NextAccess(p).op = "read" THEN In(p) ELSE Out(p)
    BY DEF Port
  <1>3. \A p \in CPU : Port(p) \in Chan
    BY <1>2, Channels
  <1>4. ASSUME NEW p \in go PROVE BusOfCores(go)[Port(p)] = NextAccess(p)
    <2>1. (CHOOSE q \in go : Port(q) = Port(p)) = p
      OBVIOUS
    <2> QED
      BY <1>1, <1>3, <2>1 DEF BusOfCores
  <1>5. ASSUME NEW c \in Chan PROVE BusOfCores(go)[c] \in Access
    <2>1. CASE \E p \in go : Port(p) = c
      BY <1>1, <1>4, <2>1
    <2>2. CASE ~ \E p \in go : Port(p) = c
      BY <2>2, AccessesTyped DEF BusOfCores
    <2> QED
      BY <2>1, <2>2
  <1>6. BusOfCores(go) \in [Chan -> Access]
    BY <1>5 DEF BusOfCores
  <1>7. \A c \in Chan : (\A p \in go : Port(p) # c) => BusOfCores(go)[c] = NoAccess
    BY DEF BusOfCores
  <1> QED
    BY <1>2, <1>4, <1>6, <1>7

\* What a core that is granted its access becomes.
LEMMA IssuedIs ==
  ASSUME DriversTyped, NEW p \in CPU, NextAccess(p) # NoAccess
  PROVE  LET s == core[p]
             t == Issued(s)
         IN  /\ s.at \in {"main", "readCtrl", "readData"} \cup Reporting
             /\ t \in Core
             /\ s.at = "main" => s.todo # << >> /\ t = [s EXCEPT !.todo = Tail(@)]
             /\ s.at = "readCtrl" => t = [s EXCEPT !.at = "gotCtrl"]
             /\ s.at = "readData" => t = [s EXCEPT !.at = "gotData"]
             /\ s.at = "excCtrl" => t = [s EXCEPT !.at = "excData"]
             /\ s.at = "excData" => t = [s EXCEPT !.at = "excRing"]
             /\ s.at = "excRing" => t = [s EXCEPT !.at = "main"]
PROOF
  <1> DEFINE s == core[p]
             t == Issued(s)
  <1>1. s \in Core /\ s.at \in Points
    BY CoreFields DEF DriversTyped
  <1>2. s.at \in {"main", "readCtrl", "readData"} \cup Reporting
    BY <1>1, NextIs DEF Points, Reporting
  <1>3. s.at = "main" => s.todo # << >>
    BY NextIs
  <1>4. /\ s.at = "main" => t = [s EXCEPT !.todo = Tail(@)]
        /\ s.at = "readCtrl" => t = [s EXCEPT !.at = "gotCtrl"]
        /\ s.at = "readData" => t = [s EXCEPT !.at = "gotData"]
        /\ s.at = "excCtrl" => t = [s EXCEPT !.at = "excData"]
        /\ s.at = "excData" => t = [s EXCEPT !.at = "excRing"]
        /\ s.at = "excRing" => t = [s EXCEPT !.at = "main"]
    BY DEF Issued
  <1> HIDE DEF s, t
  <1>5. s.at = "main" => Tail(s.todo) \in Seq(Access)
    BY <1>1, <1>3 DEF Core
  <1>6. t \in Core
    BY <1>1, <1>2, <1>4, <1>5 DEF Core, Points, Reporting
  <1> QED
    BY <1>2, <1>3, <1>4, <1>6 DEF s, t

\* What a core that does without the bus becomes.
LEMMA LocalIs ==
  ASSUME DriversTyped, NEW p \in CPU, NEW e
  PROVE  LET s == core[p]
             t == Local(p, e)
         IN  /\ t \in Core
             /\ s.at = "gotCtrl" =>
                  /\ ctrl[In(p)] \in CtrlVal
                  /\ t = ReadNext([s EXCEPT !.left = LenOf(ctrl[In(p)])])
             /\ s.at = "gotData" =>
                  /\ s.left # 0
                  /\ t = ReadNext([s EXCEPT !.left = @ - 1, !.got = Append(@, dout[In(p)])])
             /\ s.at = "exit" => t = Leave(s)
             /\ s.at \notin {"gotCtrl", "gotData", "exit", "main"} => t = s
             /\ s.at = "main" =>
                  \/ t \in {s, [s EXCEPT !.irqOn = TRUE]}
                  \/ t = EnterMbx(s) /\ IntFlag(In(p))
                  \/ t = EnterExc(s) /\ p = "ree" /\ excPend
PROOF
  <1> DEFINE s == core[p]
             t == Local(p, e)
  <1>1. s \in Core /\ s.at \in Points /\ In(p) \in Chan
    BY CoreFields, Channels DEF DriversTyped
  <1>2. ReadsOwn(p) /\ ctrl[In(p)] \in CtrlVal /\ dout[In(p)] \in Word \cup {Dout0}
    BY <1>1 DEF DriversTyped, DTypeOK, TypeOK
  <1>3. CASE s.at = "gotCtrl"
    <2>1. RData(In(p)) = ctrl[In(p)]
      BY <1>2, <1>3 DEF ReadsOwn, RData, Reads, ReadOf
    <2>2. t = ReadNext([s EXCEPT !.left = LenOf(ctrl[In(p)])])
      BY <1>3, <2>1 DEF Local, GotCtrl
    <2>3. LenOf(ctrl[In(p)]) \in Nat
      BY <1>2, LengthAssumption
    <2> HIDE DEF s, t
    <2>4. [s EXCEPT !.left = LenOf(ctrl[In(p)])] \in Core
      BY <1>1, <2>3 DEF Core
    <2>5. t \in Core
      BY <2>2, <2>4 DEF ReadNext, Core, Points
    <2> QED
      BY <1>2, <1>3, <2>2, <2>5 DEF s, t
  <1>4. CASE s.at = "gotData"
    <2>1. RData(In(p)) = dout[In(p)] /\ s.left # 0
      BY <1>2, <1>4 DEF ReadsOwn, RData, Reads, ReadOf
    <2>2. t = ReadNext([s EXCEPT !.left = @ - 1, !.got = Append(@, dout[In(p)])])
      BY <1>4, <2>1 DEF Local, GotData
    <2> HIDE DEF s, t
    <2>3. s.left - 1 \in Nat /\ Append(s.got, dout[In(p)]) \in Seq(Word \cup {Dout0})
      BY <1>1, <1>2, <2>1 DEF Core
    <2>4. [s EXCEPT !.left = @ - 1, !.got = Append(@, dout[In(p)])] \in Core
      BY <1>1, <2>3 DEF Core
    <2>5. t \in Core
      BY <2>2, <2>4 DEF ReadNext, Core, Points
    <2> QED
      BY <1>4, <2>1, <2>2, <2>5 DEF s, t
  <1>5. CASE s.at = "exit"
    <2>1. t = Leave(s)
      BY <1>5 DEF Local
    <2> HIDE DEF s, t
    <2>2. Append(s.inbox, s.got) \in Seq(Seq(Word \cup {Dout0}))
      BY <1>1 DEF Core
    <2>3. t \in Core
      BY <1>1, <2>1, <2>2 DEF Leave, Core, Points
    <2> QED
      BY <1>5, <2>1, <2>3 DEF s, t
  <1>6. CASE s.at = "main"
    <2>1. \/ t \in {s, [s EXCEPT !.irqOn = TRUE]}
          \/ t = EnterMbx(s) /\ IntFlag(In(p))
          \/ t = EnterExc(s) /\ p = "ree" /\ excPend
      BY <1>6 DEF Local
    <2> HIDE DEF s, t
    <2>2. << >> \in Seq(Word \cup {Dout0})
      OBVIOUS
    <2>3. t \in Core
      BY <1>1, <2>1, <2>2 DEF EnterMbx, EnterExc, Core, Points
    <2> QED
      BY <1>6, <2>1, <2>3 DEF s, t
  <1>7. CASE s.at \notin {"gotCtrl", "gotData", "exit", "main"}
    <2>1. t = s
      BY <1>7 DEF Local
    <2> QED
      BY <1>1, <1>7, <2>1
  <1> QED
    BY <1>3, <1>4, <1>5, <1>6, <1>7

\* How a core comes to the points ReadsOwn speaks of.
LEMMA PointAfter ==
  ASSUME DriversTyped, NEW go \in SUBSET Movers, NEW enter, NEW fault, NEW still,
         DStep(go, enter, fault, still), NEW p \in CPU
  PROVE  LET s == core[p]
             t == core'[p]
         IN  /\ t \in Core
             /\ t = IF p \in go THEN Issued(s) ELSE Local(p, enter[p])
             /\ t.at = "gotCtrl" => p \in go /\ s.at = "readCtrl"
             /\ t.at = "gotData" => p \in go /\ s.at = "readData" /\ t.left = s.left
             /\ t.at = "readData" => t.left # 0
             /\ t.at \in Reporting => s.at \in Reporting \/ (p = "ree" /\ excPend)
PROOF
  <1> DEFINE s == core[p]
             t == core'[p]
  <1>1. t = IF p \in go THEN Issued(s) ELSE Local(p, enter[p])
    BY DEF DStep
  <1>2. s \in Core /\ s.at \in Points /\ ReadsOwn(p)
    BY CoreFields DEF DriversTyped
  <1>3. CASE p \in go
    <2>1. t = Issued(s) /\ NextAccess(p) # NoAccess
      BY <1>1, <1>3 DEF Movers
    <2>2. /\ s.at \in {"main", "readCtrl", "readData"} \cup Reporting
          /\ t \in Core
          /\ s.at = "main" => t = [s EXCEPT !.todo = Tail(@)]
          /\ s.at = "readCtrl" => t = [s EXCEPT !.at = "gotCtrl"]
          /\ s.at = "readData" => t = [s EXCEPT !.at = "gotData"]
          /\ s.at = "excCtrl" => t = [s EXCEPT !.at = "excData"]
          /\ s.at = "excData" => t = [s EXCEPT !.at = "excRing"]
          /\ s.at = "excRing" => t = [s EXCEPT !.at = "main"]
      BY <2>1, IssuedIs
    <2> HIDE DEF s, t
    <2>3. /\ t.at = "gotCtrl" => s.at = "readCtrl"
          /\ t.at = "gotData" => s.at = "readData" /\ t.left = s.left
          /\ t.at # "readData"
          /\ t.at \in Reporting => s.at \in Reporting
      BY <1>2, <2>2 DEF Core, Reporting
    <2> QED
      BY <1>1, <1>3, <2>2, <2>3 DEF s, t
  <1>4. CASE p \notin go
    <2>1. t = Local(p, enter[p])
      BY <1>1, <1>4
    <2>2. /\ t \in Core
          /\ s.at = "gotCtrl" => t = ReadNext([s EXCEPT !.left = LenOf(ctrl[In(p)])])
          /\ s.at = "gotData" => t = ReadNext([s EXCEPT !.left = @ - 1, !.got = Append(@, dout[In(p)])])
          /\ s.at = "exit" => t = Leave(s)
          /\ s.at \notin {"gotCtrl", "gotData", "exit", "main"} => t = s
          /\ s.at = "main" =>
               \/ t \in {s, [s EXCEPT !.irqOn = TRUE]}
               \/ t = EnterMbx(s)
               \/ t = EnterExc(s) /\ p = "ree" /\ excPend
      BY <2>1, LocalIs
    <2>3. s.at = "readData" => s.left # 0
      BY <1>2 DEF ReadsOwn
    <2> HIDE DEF s, t
    <2>4. /\ t.at # "gotCtrl" /\ t.at # "gotData"
          /\ t.at = "readData" => t.left # 0
          /\ t.at \in Reporting => s.at \in Reporting \/ (p = "ree" /\ excPend)
      <3>1. CASE s.at \in {"gotCtrl", "gotData"}
        BY <1>2, <2>2, <3>1 DEF ReadNext, Core, Reporting
      <3>2. CASE s.at = "exit"
        BY <1>2, <2>2, <3>2 DEF Leave, Core, Reporting
      <3>3. CASE s.at = "main"
        BY <1>2, <2>2, <3>3 DEF EnterMbx, EnterExc, Core, Reporting
      <3>4. CASE s.at \notin {"gotCtrl", "gotData", "exit", "main"}
        BY <2>2, <2>3, <3>4
      <3> QED
        BY <3>1, <3>2, <3>3, <3>4
    <2> QED
      BY <1>1, <1>4, <2>2, <2>4 DEF s, t
  <1> QED
    BY <1>3, <1>4

\* What has been written is a message, or nothing.
LEMMA WrittenTyped ==
  ASSUME DriversTyped, NEW p \in CPU
  PROVE  Written(p) \in Seq(Word)
PROOF
  <1>1. core[p].at = "excData" => excAddr \in Word
    BY DEF DriversTyped, ReadsOwn, Reporting
  <1>2. sent[p] \in Seq(Word)
    BY DEF DriversTyped, DTypeOK
  <1> QED
    BY <1>1, <1>2 DEF Written

\* A cycle keeps the types.
LEMMA DStepTyped ==
  ASSUME DriversTyped, NEW go \in SUBSET Movers, NEW enter, NEW fault \in BOOLEAN,
         NEW still \in BOOLEAN, DStep(go, enter, fault, still), fault => Faulting, still => excPend
  PROVE  DriversTyped'
PROOF
  <1> DEFINE bus == BusOfCores(go)
  <1>1. /\ bus \in [Chan -> Access]
        /\ \A p \in go : bus[Port(p)] = NextAccess(p)
        /\ \A p \in CPU : Port(p) = IF NextAccess(p).op = "read" THEN In(p) ELSE Out(p)
    BY BusCarries DEF DStep
  <1>2. Tick(bus) /\ req' = bus
    BY DEF DStep, Tick
  <1>3. TypeOK'
    BY <1>1, <1>2, TickType DEF DriversTyped, DTypeOK
  <1>4. core' \in [CPU -> Core]
    <2>1. \A p \in CPU : core'[p] \in Core
      BY PointAfter
    <2> QED
      BY <2>1 DEF DStep
  <1>5. /\ faults' \in Seq(Word) /\ excAddr' \in Word \cup {Dout0}
        /\ fault => excAddr' \in Word
    <2>1. faults \in Seq(Word) /\ excAddr \in Word \cup {Dout0}
      BY DEF DriversTyped, DTypeOK
    <2>2. CASE fault
      <3>1. faults # << >> /\ faults' = Tail(faults) /\ excAddr' = Head(faults)
        BY <2>2 DEF Faulting, DStep
      <3> QED
        BY <2>1, <3>1
    <2>3. CASE ~fault
      BY <2>1, <2>3 DEF DStep
    <2> QED
      BY <2>2, <2>3
  <1>6. excPend' \in BOOLEAN /\ (excPend' => excAddr' \in Word)
    <2>1. excPend' = (fault \/ (still /\ core'["ree"].at # "excCtrl"))
      BY DEF DStep
    <2>2. excPend' \in BOOLEAN
      BY <2>1
    <2>3. ~fault /\ still => excAddr' \in Word
      BY DEF DStep, DriversTyped
    <2> QED
      BY <1>5, <2>1, <2>2, <2>3
  <1>7. outbox' \in [CPU -> Seq(Seq(Word))]
    <2>1. \A p \in CPU : outbox[p] \in Seq(Seq(Word)) /\ Written(p) \in Seq(Word)
      BY WrittenTyped DEF DriversTyped, DTypeOK
    <2>2. \A p \in CPU : Append(outbox[p], Written(p)) \in Seq(Seq(Word))
      BY <2>1
    <2> QED
      BY <2>1, <2>2 DEF DStep
  <1>8. ASSUME NEW p \in CPU PROVE ReadsOwn(p)'
    <2>1. core'[p].at = "gotCtrl" => req'[In(p)] = ReadOf("CTRL")
      <3> SUFFICES ASSUME core'[p].at = "gotCtrl"
                   PROVE  req'[In(p)] = ReadOf("CTRL")
        OBVIOUS
      <3>1. p \in go /\ core[p].at = "readCtrl"
        BY PointAfter
      <3>2. NextAccess(p) = ReadOf("CTRL")
        BY <3>1, NextIs
      <3> QED
        BY <1>1, <1>2, <3>1, <3>2 DEF ReadOf
    <2>2. core'[p].at = "gotData" => req'[In(p)] = ReadOf("DATA") /\ core'[p].left # 0
      <3> SUFFICES ASSUME core'[p].at = "gotData"
                   PROVE  req'[In(p)] = ReadOf("DATA") /\ core'[p].left # 0
        OBVIOUS
      <3>1. p \in go /\ core[p].at = "readData" /\ core'[p].left = core[p].left
        BY PointAfter
      <3>2. NextAccess(p) = ReadOf("DATA") /\ core[p].left # 0
        BY <3>1, NextIs DEF DriversTyped, ReadsOwn
      <3> QED
        BY <1>1, <1>2, <3>1, <3>2 DEF ReadOf
    <2>3. core'[p].at = "readData" => core'[p].left # 0
      BY PointAfter
    <2>4. core'[p].at \in Reporting => p = "ree" /\ excAddr' \in Word
      <3> SUFFICES ASSUME core'[p].at \in Reporting
                   PROVE  p = "ree" /\ excAddr' \in Word
        OBVIOUS
      <3>1. core[p].at \in Reporting \/ (p = "ree" /\ excPend)
        BY PointAfter
      <3>2. p = "ree" /\ excAddr \in Word
        BY <3>1 DEF DriversTyped, ReadsOwn
      <3>3. excAddr' \in Word
        BY <1>5, <3>2 DEF DStep
      <3> QED
        BY <3>2, <3>3
    <2> QED
      BY <2>1, <2>2, <2>3, <2>4 DEF ReadsOwn
  <1>9. sent' = sent
    BY DEF DStep
  <1> QED
    BY <1>3, <1>4, <1>5, <1>6, <1>7, <1>8, <1>9 DEF DriversTyped, DTypeOK

\* The accesses of a message, one by one.
LEMMA MessageIs ==
  ASSUME NEW ws \in Seq(Word), CtrlFor(Len(ws)) \in CtrlVal, ws # << >>
  PROVE  /\ Message(ws) \in Seq(Access) /\ Len(Message(ws)) = Len(ws) + 2
         /\ \A i \in 1..(Len(ws) + 2) :
              Message(ws)[i] = CASE i = 1 -> ConfigWrite(Len(ws))
                                 [] i = Len(ws) + 2 -> PutIntr
                                 [] OTHER -> SendWrite(ws[i - 1])
PROOF
  <1> DEFINE sends == [i \in DOMAIN ws |-> SendWrite(ws[i])]
             conf  == ConfigWrite(Len(ws))
  <1>1. conf \in Access
    <2>1. conf \in [op : {"write"}, reg : {"CTRL"}, data : CtrlVal]
      BY DEF ConfigWrite
    <2> QED
      BY <2>1 DEF Access
  <1>2. Len(ws) \in Nat /\ DOMAIN ws = 1..Len(ws) /\ \A i \in 1..Len(ws) : ws[i] \in Word
    OBVIOUS
  <1>3. /\ sends \in Seq(Access) /\ Len(sends) = Len(ws)
        /\ \A i \in 1..Len(ws) : sends[i] = SendWrite(ws[i])
    <2>1. sends \in [1..Len(ws) -> Access]
      BY <1>2, AccessesTyped
    <2> QED
      BY <1>2, <2>1
  <1>4. Message(ws) = <<conf>> \o sends \o <<PutIntr>>
    BY DEF Message
  <1> HIDE DEF sends, conf
  <1>5. /\ <<conf>> \o sends \in Seq(Access) /\ Len(<<conf>> \o sends) = Len(ws) + 1
        /\ (<<conf>> \o sends)[1] = conf
        /\ \A i \in 2..(Len(ws) + 1) : (<<conf>> \o sends)[i] = sends[i - 1]
    BY <1>1, <1>2, <1>3
  <1>6. PutIntr \in Access
    BY AccessesTyped
  <1> DEFINE front == <<conf>> \o sends
  <1> HIDE DEF front
  <1>7. /\ front \o <<PutIntr>> \in Seq(Access) /\ Len(front \o <<PutIntr>>) = Len(ws) + 2
        /\ (front \o <<PutIntr>>)[Len(ws) + 2] = PutIntr
        /\ \A i \in 1..(Len(ws) + 1) : (front \o <<PutIntr>>)[i] = front[i]
    BY <1>2, <1>5, <1>6 DEF front
  <1>8. Message(ws) = front \o <<PutIntr>>
    BY <1>4 DEF front
  <1>9. ASSUME NEW i \in 1..(Len(ws) + 2)
        PROVE  Message(ws)[i] = CASE i = 1 -> conf
                                  [] i = Len(ws) + 2 -> PutIntr
                                  [] OTHER -> SendWrite(ws[i - 1])
    <2>1. CASE i = 1
      BY <1>2, <1>5, <1>7, <1>8, <2>1 DEF front
    <2>2. CASE i = Len(ws) + 2
      BY <1>2, <1>7, <1>8, <2>2
    <2>3. CASE i # 1 /\ i # Len(ws) + 2
      <3>1. i \in 2..(Len(ws) + 1) /\ i - 1 \in 1..Len(ws) /\ i \in 1..(Len(ws) + 1)
        BY <1>2, <2>3
      <3>2. Message(ws)[i] = front[i] /\ front[i] = sends[i - 1]
        BY <1>5, <1>7, <1>8, <3>1 DEF front
      <3> QED
        BY <1>3, <2>3, <3>1, <3>2
    <2> QED
      BY <2>1, <2>2, <2>3
  <1> QED
    BY <1>7, <1>8, <1>9 DEF conf

\* Every message main sends has a length that CTRL can announce.
LEMMA ProgramsFit ==
  ASSUME NEW prog \in Programs, NEW p \in CPU
  PROVE  /\ prog.sent[p] \in Seq(Word) /\ prog.faults \in Seq(Word)
         /\ prog.sent[p] # << >> => LET n == Len(prog.sent[p])
                                    IN  CtrlFor(n) \in CtrlVal /\ LenOf(CtrlFor(n)) = n
PROOF
  <1>1. prog.sent[p] \in Seq(Word) /\ prog.faults \in Seq(Word)
    BY ProgramsAssumption
  <1>2. Len(prog.sent[p]) \in {Len(q.sent[r]) : q \in Programs, r \in CPU}
    OBVIOUS
  <1>3. prog.sent[p] # << >> => Len(prog.sent[p]) # 0
    BY <1>1
  <1> QED
    BY <1>1, <1>2, <1>3, LengthAssumption

\* Every state is typed from the first one on.
LEMMA DInitTyped == ASSUME DInit PROVE DriversTyped
PROOF
  <1>1. PICK prog \in Programs : sent = prog.sent /\ faults = prog.faults
    BY DEF DInit
  <1>2. /\ core = [p \in CPU |-> [todo |-> Message(sent[p]), irqOn |-> FALSE, at |-> "main",
                                  left |-> 0, got |-> << >>, inbox |-> << >>]]
        /\ excPend = FALSE /\ excAddr = Dout0 /\ outbox = [p \in CPU |-> << >>]
    BY DEF DInit
  <1>3. sent \in [CPU -> Seq(Word)] /\ faults \in Seq(Word)
    BY <1>1, ProgramsAssumption
  <1>4. \A p \in CPU : Message(sent[p]) \in Seq(Access)
    <2> TAKE p \in CPU
    <2>1. CASE sent[p] = << >>
      BY <2>1 DEF Message
    <2>2. CASE sent[p] # << >>
      BY <1>1, <1>3, <2>2, ProgramsFit, MessageIs
    <2> QED
      BY <2>1, <2>2
  <1>5. core \in [CPU -> Core]
    <2>1. << >> \in Seq(Word \cup {Dout0}) /\ << >> \in Seq(Seq(Word \cup {Dout0}))
      OBVIOUS
    <2> QED
      BY <1>2, <1>4, <2>1 DEF Core, Points
  <1>6. TypeOK
    BY InitType DEF DInit
  <1>7. outbox \in [CPU -> Seq(Seq(Word))]
    BY <1>2
  <1>8. \A p \in CPU : ReadsOwn(p)
    BY <1>2 DEF ReadsOwn, Reporting
  <1> QED
    BY <1>1, <1>2, <1>3, <1>5, <1>6, <1>7, <1>8 DEF DriversTyped, DTypeOK

\* The inductive invariant of the types.
LEMMA DriversStayTyped == DSpec => []DriversTyped
PROOF
  <1>1. DInit => DriversTyped
    BY DInitTyped
  <1>2. DriversTyped /\ [DNext]_dvars => DriversTyped'
    <2> SUFFICES ASSUME DriversTyped, [DNext]_dvars
                 PROVE  DriversTyped'
      OBVIOUS
    <2>1. CASE DNext
      <3>1. DTypeOK
        BY DEF DriversTyped
      <3>2. PICK go \in SUBSET Movers, enter \in [CPU -> Enters], fault \in BOOLEAN, still \in BOOLEAN :
              DStep(go, enter, fault, still) /\ (fault => Faulting) /\ (still => excPend)
        BY <2>1, <3>1, DNextSteps
      <3> QED
        BY <3>2, DStepTyped
    <2>2. CASE UNCHANGED dvars
      BY <2>2 DEF dvars, DriversTyped, DTypeOK, TypeOK, ReadsOwn
    <2> QED
      BY <2>1, <2>2
  <1> QED
    BY <1>1, <1>2, PTL DEF DSpec

\* The cores' state, the histories and the registers keep their types: what a
\* handler reads as a length is one, and it never counts below zero.
THEOREM DriverTypes == DSpec => []DTypeOK
PROOF
  <1>1. DriversTyped => DTypeOK
    BY DEF DriversTyped
  <1> QED
    BY <1>1, DriversStayTyped, PTL
-----------------------------------------------------------------------------
(* The drivers: messages arrive whole and once *)

\* Each core has at most one message to send, which the FIFO can hold: main's,
\* or the report of one exception.
OneMessageEach ==
  /\ \A p \in CPU : Len(sent[p]) <= Depth
  /\ faults # << >> => Len(faults) = 1 /\ sent["ree"] = << >>

\* The message of p, its accesses in order, and how many of them p has made.
Text(p) == IF sent[p] # << >> THEN sent[p] ELSE <<excAddr>>
AccessOf(w, j) == CASE j = 1 -> ConfigWrite(Len(w))
                    [] j = Len(w) + 2 -> PutIntr
                    [] OTHER -> SendWrite(w[j - 1])
Done(p) == IF sent[p] # << >> THEN Len(sent[p]) + 2 - Len(core[p].todo)
           ELSE CASE core[p].at = "excData" -> 1
                  [] core[p].at = "excRing" -> 2
                  [] core[p].at \notin Reporting /\ outbox[p] # << >> -> 3
                  [] OTHER -> 0

\* What p has still to send, and what it has written.
SenderInv(p) ==
  /\ Len(sent[p]) <= Depth
  /\ sent[p] = << >> => core[p].todo = << >> /\ (p = "tee" => outbox[p] = << >>)
  /\ sent[p] # << >> =>
       /\ Len(core[p].todo) <= Len(sent[p]) + 2
       /\ \A i \in 1..Len(core[p].todo) : core[p].todo[i] = AccessOf(sent[p], Done(p) + i)
  /\ outbox[p] = IF Done(p) > Len(Text(p)) THEN <<Text(p)>> ELSE << >>

\* There is one exception at most: still to come, on the line or in its handler.
OneReport ==
  /\ faults # << >> => Len(faults) = 1 /\ ~excPend
  /\ faults # << >> \/ excPend => core["ree"].at \notin Reporting /\ outbox["ree"] = << >>
  /\ faults # << >> \/ excPend \/ core["ree"].at \in Reporting => sent["ree"] = << >>
  /\ core["ree"].at \in Reporting => faults = << >> /\ ~excPend

\* The words of p's message that have passed the data phase.
Stored(p) == IF Done(p) <= 1 THEN 0
             ELSE IF Done(p) = Len(Text(p)) + 2 THEN Len(Text(p))
             ELSE IF Writes(req[Out(p)], "DATA") THEN Done(p) - 2 ELSE Done(p) - 1

\* The FIFO of c holds the words of w from the one after the first k.
Holds(c, w, k) == /\ Len(fifo[c]) = Len(w) - k
                  /\ \A i \in 1..Len(fifo[c]) : fifo[c][i].word = w[k + i]

\* The message of p is not announced yet: the other core knows nothing of it.
Unannounced(p) ==
  LET c == Out(p)
      r == core[Other(p)]
  IN /\ ~status[c].int /\ cstate[c] \in {"IDLE", "WRITE"}
     /\ r.at \notin Receiving /\ r.inbox = << >>
     /\ Len(fifo[c]) = Stored(p)
     /\ \A i \in 1..Len(fifo[c]) : fifo[c][i].word = Text(p)[i]
     /\ req[c].op = "write" => Done(p) >= 1 /\ req[c] = AccessOf(Text(p), Done(p))
     /\ Done(p) = Len(Text(p)) + 2 => req[c].op = "write"
     /\ Done(p) >= 1 => \/ ctrl[c] = CtrlFor(Len(Text(p)))
                        \/ Done(p) = 1 /\ req[c].op = "write"

\* It is announced and not read yet, or being read, or handed over.
Unread(c, w, r) ==
  /\ r.at \notin {"readData", "gotData", "exit"} /\ r.inbox = << >>
  /\ r.at \in {"readCtrl", "gotCtrl"} => r.got = << >>
  /\ Holds(c, w, 0)
BeingRead(c, w, r) ==
  /\ r.at \in {"readData", "gotData"} /\ r.inbox = << >>
  /\ Len(r.got) < Len(w) /\ r.left = Len(w) - Len(r.got)
  /\ \A i \in 1..Len(r.got) : r.got[i] = w[i]
  /\ IF r.at = "readData" THEN Holds(c, w, Len(r.got))
     ELSE Holds(c, w, Len(r.got) + 1) /\ dout[c] = w[Len(r.got) + 1]
HandedOver(c, w, r) ==
  /\ r.at \notin Receiving \ {"exit"}
  /\ IF r.at = "exit" THEN r.got = w /\ r.inbox = << >> ELSE r.inbox = <<w>>
  /\ Holds(c, w, Len(w)) /\ ~status[c].int
Delivering(p) ==
  LET c == Out(p)
      r == core[Other(p)]
  IN /\ Done(p) = Len(Text(p)) + 2 /\ req[c].op # "write"
     /\ ctrl[c] = CtrlFor(Len(Text(p))) /\ AllVisible(c)
     /\ \/ Unread(c, Text(p), r)
        \/ BeingRead(c, Text(p), r)
        \/ HandedOver(c, Text(p), r)

\* The inductive invariant behind MessagesIntact.
DriversInv ==
  /\ \A p \in CPU : SenderInv(p)
  /\ OneReport
  /\ \A p \in CPU : Unannounced(p) \/ Delivering(p)

\* What a core becomes in a cycle: its point, what it has to send and what it
\* has received.
LEMMA CoreStep ==
  ASSUME DriversTyped, NEW go \in SUBSET Movers, NEW enter, NEW fault, NEW still,
         DStep(go, enter, fault, still), NEW p \in CPU
  PROVE  LET s == core[p]
             t == core'[p]
         IN  /\ p \in go => s.at \in {"main", "readCtrl", "readData"} \cup Reporting
             /\ t.todo = IF p \in go /\ s.at = "main" THEN Tail(s.todo) ELSE s.todo
             /\ p \in go /\ s.at = "main" => s.todo # << >> /\ t.at = "main"
             /\ s.at = "main" =>
                  /\ t.inbox = s.inbox
                  /\ \/ t.at = "main"
                     \/ t.at = "excCtrl" /\ p = "ree" /\ excPend
                     \/ t.at = "readCtrl" /\ t.got = << >> /\ IntFlag(In(p))
             /\ s.at \in Reporting =>
                  /\ t.inbox = s.inbox
                  /\ p \notin go => t.at = s.at
                  /\ p \in go /\ s.at = "excCtrl" => t.at = "excData"
                  /\ p \in go /\ s.at = "excData" => t.at = "excRing"
                  /\ p \in go /\ s.at = "excRing" => t.at = "main"
             /\ s.at \in {"readCtrl", "readData"} =>
                  /\ t.left = s.left /\ t.got = s.got /\ t.inbox = s.inbox
                  /\ t.at = IF p \notin go THEN s.at
                            ELSE IF s.at = "readCtrl" THEN "gotCtrl" ELSE "gotData"
             /\ s.at = "gotCtrl" =>
                  /\ t.left = LenOf(ctrl[In(p)]) /\ t.got = s.got /\ t.inbox = s.inbox
                  /\ t.at = IF t.left = 0 THEN "exit" ELSE "readData"
             /\ s.at = "gotData" =>
                  /\ t.left = s.left - 1 /\ t.got = Append(s.got, dout[In(p)]) /\ t.inbox = s.inbox
                  /\ t.at = IF t.left = 0 THEN "exit" ELSE "readData"
             /\ s.at = "exit" => t.at = "main" /\ t.inbox = Append(s.inbox, s.got)
PROOF
  <1> DEFINE s == core[p]
             t == core'[p]
  <1>1. t = IF p \in go THEN Issued(s) ELSE Local(p, enter[p])
    BY DEF DStep
  <1>2. s \in Core /\ s.at \in Points
    BY CoreFields DEF DriversTyped
  <1>3. CASE p \in go
    <2>1. t = Issued(s) /\ NextAccess(p) # NoAccess
      BY <1>1, <1>3 DEF Movers
    <2>2. /\ s.at \in {"main", "readCtrl", "readData"} \cup Reporting
          /\ s.at = "main" => s.todo # << >> /\ t = [s EXCEPT !.todo = Tail(@)]
          /\ s.at = "readCtrl" => t = [s EXCEPT !.at = "gotCtrl"]
          /\ s.at = "readData" => t = [s EXCEPT !.at = "gotData"]
          /\ s.at = "excCtrl" => t = [s EXCEPT !.at = "excData"]
          /\ s.at = "excData" => t = [s EXCEPT !.at = "excRing"]
          /\ s.at = "excRing" => t = [s EXCEPT !.at = "main"]
      BY <2>1, IssuedIs
    <2> HIDE DEF s, t
    <2>3. CASE s.at = "main"
      BY <1>2, <1>3, <2>2, <2>3 DEF Core, Reporting, s, t
    <2>4. CASE s.at \in {"readCtrl", "readData"}
      BY <1>2, <1>3, <2>2, <2>4 DEF Core, Reporting, s, t
    <2>5. CASE s.at \in Reporting
      BY <1>2, <1>3, <2>2, <2>5 DEF Core, Reporting, s, t
    <2> QED
      BY <2>2, <2>3, <2>4, <2>5
  <1>4. CASE p \notin go
    <2>1. t = Local(p, enter[p])
      BY <1>1, <1>4
    <2>2. /\ s.at = "gotCtrl" =>
               ctrl[In(p)] \in CtrlVal /\ t = ReadNext([s EXCEPT !.left = LenOf(ctrl[In(p)])])
          /\ s.at = "gotData" => t = ReadNext([s EXCEPT !.left = @ - 1, !.got = Append(@, dout[In(p)])])
          /\ s.at = "exit" => t = Leave(s)
          /\ s.at \notin {"gotCtrl", "gotData", "exit", "main"} => t = s
          /\ s.at = "main" =>
               \/ t \in {s, [s EXCEPT !.irqOn = TRUE]}
               \/ t = EnterMbx(s) /\ IntFlag(In(p))
               \/ t = EnterExc(s) /\ p = "ree" /\ excPend
      BY <2>1, LocalIs
    <2> HIDE DEF s, t
    <2>3. CASE s.at = "gotCtrl"
      BY <1>2, <1>4, <2>2, <2>3 DEF ReadNext, Core, Reporting, s, t
    <2>4. CASE s.at = "gotData"
      BY <1>2, <1>4, <2>2, <2>4 DEF ReadNext, Core, Reporting, s, t
    <2>5. CASE s.at = "exit"
      BY <1>2, <1>4, <2>2, <2>5 DEF Leave, Core, Reporting, s, t
    <2>6. CASE s.at = "main"
      BY <1>2, <1>4, <2>2, <2>6 DEF EnterMbx, EnterExc, Core, Reporting, s, t
    <2>7. CASE s.at \notin {"gotCtrl", "gotData", "exit", "main"}
      BY <1>2, <1>4, <2>2, <2>7 DEF s, t
    <2> QED
      BY <2>3, <2>4, <2>5, <2>6, <2>7, SMTT(60)
  <1> QED
    BY <1>3, <1>4

\* The message of a core that has begun to send: short enough for the FIFO,
\* and of a length that the other core reads as it is.
LEMMA TextIs ==
  ASSUME DriversTyped, NEW p \in CPU, SenderInv(p)
  PROVE  /\ Len(Text(p)) \in 1..Depth
         /\ CtrlFor(Len(Text(p))) \in CtrlVal /\ LenOf(CtrlFor(Len(Text(p)))) = Len(Text(p))
         /\ Done(p) \in 0..(Len(Text(p)) + 2)
         /\ Done(p) >= 1 => Text(p) \in Seq(Word)
PROOF
  <1>1. /\ sent[p] \in Seq(Word) /\ core[p].todo \in Seq(Access)
        /\ outbox[p] \in Seq(Seq(Word)) /\ ReadsOwn(p)
    BY CoreFields DEF DriversTyped, DTypeOK
  <1>2. Depth \in Nat \ {0}
    BY FifoAssumption
  <1>3. CASE sent[p] # << >>
    <2>1. Text(p) = sent[p] /\ Done(p) = Len(sent[p]) + 2 - Len(core[p].todo)
      BY <1>3 DEF Text, Done
    <2>2. Len(sent[p]) <= Depth /\ Len(core[p].todo) <= Len(sent[p]) + 2
      BY <1>3 DEF SenderInv
    <2>3. Len(sent[p]) \in Nat \ {0} /\ Len(core[p].todo) \in Nat
      BY <1>1, <1>3
    <2>4. CtrlFor(Len(sent[p])) \in CtrlVal /\ LenOf(CtrlFor(Len(sent[p]))) = Len(sent[p])
      BY <1>3, ProgramsFit DEF DriversTyped
    <2>5. Len(sent[p]) \in 1..Depth
      BY <1>2, <2>2, <2>3
    <2>6. Done(p) \in 0..(Len(sent[p]) + 2)
      <3>1. \A n, k \in Nat : k <= n + 2 => n + 2 - k \in 0..(n + 2)
        OBVIOUS
      <3> QED
        BY <2>1, <2>2, <2>3, <3>1
    <2> QED
      BY <1>1, <2>1, <2>4, <2>5, <2>6
  <1>4. CASE sent[p] = << >>
    <2>1. Text(p) = <<excAddr>> /\ Len(Text(p)) = 1
      BY <1>4 DEF Text
    <2>2. Done(p) \in 0..3
      BY <1>4 DEF Done
    <2>3. ASSUME Done(p) >= 1 PROVE excAddr \in Word
      <3>1. CASE core[p].at \in Reporting
        BY <1>1, <3>1 DEF ReadsOwn
      <3>2. CASE core[p].at \notin Reporting
        <4>1. Done(p) = 3
          BY <1>4, <2>3, <3>2 DEF Done, Reporting
        <4>2. outbox[p] = <<(<<excAddr>>)>>
          BY <2>1, <4>1 DEF SenderInv
        <4>3. outbox[p][1] \in Seq(Word) /\ outbox[p][1] = <<excAddr>>
          BY <1>1, <4>2
        <4>4. <<excAddr>> \in Seq(Word)
          BY <4>3
        <4> QED
          BY <4>4
      <3> QED
        BY <3>1, <3>2
    <2>4. CtrlFor(1) \in CtrlVal /\ LenOf(CtrlFor(1)) = 1
      BY LengthAssumption
    <2> QED
      BY <1>2, <2>1, <2>2, <2>3, <2>4
  <1> QED
    BY <1>3, <1>4

\* There is still one report at most.
LEMMA OneReportStays ==
  ASSUME DriversTyped, NEW go \in SUBSET Movers, NEW enter, NEW fault \in BOOLEAN,
         NEW still \in BOOLEAN, DStep(go, enter, fault, still), fault => Faulting, still => excPend,
         OneReport
  PROVE  OneReport'
PROOF
  <1> DEFINE s == core["ree"]
             t == core'["ree"]
  <1>1. "ree" \in CPU /\ s.at \in Points /\ faults \in Seq(Word)
    BY CoreFields DEF CPU, DriversTyped, DTypeOK
  <1>2. /\ s.at \notin Reporting /\ t.at \in Reporting => t.at = "excCtrl" /\ excPend
        /\ fault => t = s
    <2>1. fault => t = s
      BY DEF DStep
    <2>2. s.at \notin Reporting /\ t.at \in Reporting => t.at = "excCtrl" /\ excPend
      BY <1>1, CoreStep DEF Points, Reporting
    <2> QED
      BY <2>1, <2>2
  <1>3. /\ sent' = sent
        /\ faults' = IF fault THEN Tail(faults) ELSE faults
        /\ excPend' = (fault \/ (still /\ t.at # "excCtrl"))
    BY DEF DStep
  <1>4. s.at \notin Reporting /\ sent["ree"] = << >> => outbox'["ree"] = outbox["ree"]
    BY <1>1 DEF DStep, Written, Reporting
  <1>5. fault => faults # << >> /\ s.at = "main"
    BY DEF Faulting
  <1> HIDE DEF s, t
  <1>6. /\ faults # << >> => Len(faults) = 1 /\ ~excPend
        /\ faults # << >> \/ excPend => s.at \notin Reporting /\ outbox["ree"] = << >>
        /\ faults # << >> \/ excPend \/ s.at \in Reporting => sent["ree"] = << >>
        /\ s.at \in Reporting => faults = << >> /\ ~excPend
    BY DEF OneReport, s
  <1>7. CASE fault
    <2>1. faults' = << >> /\ t.at \notin Reporting
      BY <1>1, <1>2, <1>3, <1>5, <1>6, <1>7
    <2> QED
      BY <1>3, <1>4, <1>5, <1>6, <1>7, <2>1 DEF OneReport, t
  <1>8. CASE ~fault
    <2>1. faults' = faults /\ (excPend' => excPend /\ t.at # "excCtrl")
      BY <1>3, <1>8
    <2>2. CASE faults # << >>
      <3>1. ~excPend' /\ t.at \notin Reporting
        BY <1>2, <1>6, <2>1, <2>2
      <3> QED
        BY <1>3, <1>4, <1>6, <2>1, <2>2, <3>1 DEF OneReport, t
    <2>3. CASE faults = << >>
      <3>1. excPend' => t.at \notin Reporting /\ outbox'["ree"] = << >>
        BY <1>2, <1>4, <1>6, <2>1
      <3>2. t.at \in Reporting => ~excPend' /\ sent["ree"] = << >>
        BY <1>2, <1>6, <2>1
      <3> QED
        BY <1>3, <1>6, <2>1, <2>3, <3>1, <3>2 DEF OneReport, t
    <2> QED
      BY <2>2, <2>3
  <1> QED
    BY <1>7, <1>8

\* A core that sends its main program's message makes the next of its accesses,
\* or none.
LEMMA MainSends ==
  ASSUME DriversTyped, NEW go \in SUBSET Movers, NEW enter, NEW fault \in BOOLEAN,
         NEW still \in BOOLEAN, DStep(go, enter, fault, still), fault => Faulting, still => excPend,
         OneReport, NEW p \in CPU, SenderInv(p), sent[p] # << >>
  PROVE  /\ SenderInv(p)' /\ Text(p)' = Text(p)
         /\ IF p \in go /\ NextAccess(p).op = "write"
            THEN /\ Done(p)' = Done(p) + 1 /\ Done(p) <= Len(Text(p)) + 1
                 /\ NextAccess(p) = AccessOf(Text(p), Done(p) + 1)
            ELSE Done(p)' = Done(p)
PROOF
  <1> DEFINE s == core[p]
             t == core'[p]
             n == Len(sent[p])
  <1>1. /\ sent[p] \in Seq(Word) /\ s.todo \in Seq(Access) /\ n \in Nat \ {0}
        /\ outbox[p] \in Seq(Seq(Word)) /\ s.at \in Points
    BY CoreFields DEF DriversTyped, DTypeOK
  <1>2. /\ sent' = sent /\ Text(p) = sent[p] /\ Text(p)' = sent[p]
        /\ Done(p) = n + 2 - Len(s.todo) /\ Done(p)' = n + 2 - Len(t.todo)
    BY DEF DStep, Text, Done
  <1>3. /\ n <= Depth /\ Len(s.todo) <= n + 2
        /\ \A i \in 1..Len(s.todo) : s.todo[i] = AccessOf(sent[p], Done(p) + i)
        /\ outbox[p] = IF Done(p) > n THEN <<sent[p]>> ELSE << >>
    BY <1>2 DEF SenderInv
  <1>4. s.at \notin Reporting
    BY DEF OneReport, DriversTyped, ReadsOwn
  <1>5. outbox'[p] = IF p \in go /\ Written(p) # << >> THEN Append(outbox[p], Written(p)) ELSE outbox[p]
    BY DEF DStep
  <1>6. CASE p \in go /\ s.at = "main"
    <2>1. s.todo # << >> /\ t.todo = Tail(s.todo)
      BY <1>6, CoreStep
    <2>2. NextAccess(p) = Head(s.todo)
      BY <1>6, <2>1, NextIs DEF Movers
    <2>3. Len(s.todo) \in Nat \ {0} /\ Head(s.todo) = s.todo[1]
      BY <1>1, <2>1
    <2>4. NextAccess(p) = AccessOf(sent[p], Done(p) + 1)
      BY <1>3, <2>2, <2>3
    <2>5. NextAccess(p).op = "write"
      BY <2>4 DEF AccessOf, ConfigWrite, SendWrite, PutIntr
    <2>6. /\ Tail(s.todo) \in Seq(Access) /\ Len(Tail(s.todo)) = Len(s.todo) - 1
          /\ \A i \in 1..(Len(s.todo) - 1) : Tail(s.todo)[i] = s.todo[i + 1]
      BY <1>1, <2>1
    <2> HIDE DEF s, t, n
    <2>7. /\ Done(p)' = Done(p) + 1 /\ Done(p) \in Nat /\ Done(p) <= n + 1
          /\ Len(s.todo) = 2 <=> Done(p) = n
      <3>1. \A k \in Nat \ {0} : k <= n + 2 =>
              /\ n + 2 - (k - 1) = (n + 2 - k) + 1 /\ n + 2 - k \in Nat
              /\ n + 2 - k <= n + 1 /\ (k = 2 <=> n + 2 - k = n)
        BY <1>1
      <3>2. Len(t.todo) = Len(s.todo) - 1
        BY <2>1, <2>6
      <3> QED
        BY <1>2, <1>3, <2>3, <3>1, <3>2
    <2>8. \A i \in 1..Len(t.todo) : t.todo[i] = AccessOf(sent[p], Done(p)' + i)
      <3> TAKE i \in 1..Len(t.todo)
      <3>1. t.todo[i] = s.todo[i + 1] /\ i + 1 \in 1..Len(s.todo)
        BY <2>1, <2>3, <2>6
      <3>2. Done(p)' + i = Done(p) + (i + 1)
        BY <2>7
      <3> QED
        BY <1>3, <3>1, <3>2
    <2>9. Len(t.todo) <= n + 2
      BY <1>1, <1>3, <2>1, <2>3, <2>6
    <2>10. outbox'[p] = IF Done(p)' > n THEN <<sent[p]>> ELSE << >>
      <3>1. Written(p) = IF Len(s.todo) = 2 THEN sent[p] ELSE << >>
        BY <1>6 DEF Written, s
      <3>2. Len(s.todo) = 2 <=> Done(p) = n
        BY <2>7
      <3>3. CASE Done(p) = n
        <4>1. outbox[p] = << >> /\ Written(p) = sent[p]
          BY <1>1, <1>3, <3>1, <3>2, <3>3
        <4> QED
          BY <1>1, <1>5, <1>6, <2>7, <3>3, <4>1
      <3>4. CASE Done(p) # n
        <4>1. outbox'[p] = outbox[p]
          BY <1>5, <3>1, <3>2, <3>4
        <4> QED
          BY <1>1, <1>3, <2>7, <3>4, <4>1
      <3> QED
        BY <3>3, <3>4
    <2>11. SenderInv(p)'
      BY <1>2, <1>3, <2>8, <2>9, <2>10 DEF SenderInv, t, n
    <2> QED
      BY <1>2, <1>6, <2>4, <2>5, <2>7, <2>11 DEF n
  <1>7. CASE ~(p \in go /\ s.at = "main")
    <2>1. t.todo = s.todo
      BY <1>7, CoreStep
    <2>2. p \in go => NextAccess(p).op = "read"
      <3>1. p \in go => s.at \in {"readCtrl", "readData"}
        BY <1>4, <1>7, CoreStep
      <3> QED
        BY <3>1, NextIs DEF ReadOf
    <2>3. p \in go => Written(p) = << >>
      <3>1. p \in go => s.at \in {"readCtrl", "readData"}
        BY <1>4, <1>7, CoreStep
      <3> QED
        BY <3>1 DEF Written
    <2>4. outbox'[p] = outbox[p] /\ Done(p)' = Done(p)
      BY <1>2, <1>5, <2>1, <2>3
    <2> HIDE DEF s, t, n
    <2>5. SenderInv(p)'
      BY <1>2, <1>3, <2>1, <2>4 DEF SenderInv, t, n
    <2> QED
      BY <1>2, <2>2, <2>4, <2>5
  <1> QED
    BY <1>6, <1>7

\* So does the handler that reports an exception.
LEMMA HandlerSends ==
  ASSUME DriversTyped, NEW go \in SUBSET Movers, NEW enter, NEW fault \in BOOLEAN,
         NEW still \in BOOLEAN, DStep(go, enter, fault, still), fault => Faulting, still => excPend,
         OneReport, NEW p \in CPU, SenderInv(p), sent[p] = << >>
  PROVE  /\ SenderInv(p)'
         /\ Done(p) >= 1 => Text(p)' = Text(p)
         /\ IF p \in go /\ NextAccess(p).op = "write"
            THEN /\ Done(p)' = Done(p) + 1 /\ Done(p) <= Len(Text(p)) + 1 /\ Text(p)' = Text(p)
                 /\ NextAccess(p) = AccessOf(Text(p), Done(p) + 1)
            ELSE Done(p)' = Done(p)
PROOF
  <1> DEFINE s == core[p]
             t == core'[p]
  <1>1. /\ outbox[p] \in Seq(Seq(Word)) /\ s.at \in Points /\ s.todo = << >> /\ ReadsOwn(p)
        /\ p = "tee" => outbox[p] = << >>
    BY CoreFields DEF DriversTyped, DTypeOK, SenderInv
  <1>2. /\ sent' = sent /\ Text(p) = <<excAddr>> /\ Text(p)' = <<excAddr>>'
        /\ Len(Text(p)) = 1 /\ Len(Text(p)') = 1
    BY DEF DStep, Text
  <1>3. /\ Done(p) = CASE s.at = "excData" -> 1 [] s.at = "excRing" -> 2
                       [] s.at \notin Reporting /\ outbox[p] # << >> -> 3 [] OTHER -> 0
        /\ Done(p)' = CASE t.at = "excData" -> 1 [] t.at = "excRing" -> 2
                        [] t.at \notin Reporting /\ outbox'[p] # << >> -> 3 [] OTHER -> 0
    BY <1>2 DEF Done
  <1>4. /\ outbox[p] = IF Done(p) > 1 THEN <<(<<excAddr>>)>> ELSE << >>
        /\ Len(sent[p]) <= Depth
    BY <1>2 DEF SenderInv
  <1>5. outbox'[p] = IF p \in go /\ Written(p) # << >> THEN Append(outbox[p], Written(p)) ELSE outbox[p]
    BY DEF DStep
  <1>6. Written(p) = IF s.at = "excData" THEN <<excAddr>> ELSE << >>
    BY DEF Written
  <1>7. t.todo = << >>
    BY <1>1, CoreStep
  <1>8. (p = "ree" /\ fault) => outbox[p] = << >> /\ s.at \notin Reporting /\ p \notin go
    BY DEF Faulting, OneReport, DStep
  <1>9. s.at \in Reporting => p = "ree"
    BY <1>1 DEF ReadsOwn
  <1>10. Done(p) >= 1 => excAddr' = excAddr
    <2>1. excAddr' = IF fault THEN Head(faults) ELSE excAddr
      BY DEF DStep
    <2>2. Done(p) >= 1 => ~fault
      BY <1>1, <1>3, <1>8, <1>9 DEF CPU, Reporting
    <2> QED
      BY <2>1, <2>2
  <1>11. SenderInv(p)' <=> /\ p = "tee" => outbox'[p] = << >>
                           /\ outbox'[p] = IF Done(p)' > 1 THEN <<(<<excAddr'>>)>> ELSE << >>
    BY <1>2, <1>4, <1>7 DEF SenderInv
  <1> HIDE DEF s, t
  <1>12. CASE p \in go /\ s.at \in Reporting
    <2>1. /\ s.at = "excCtrl" => t.at = "excData" /\ NextAccess(p) = ConfigWrite(1)
          /\ s.at = "excData" => t.at = "excRing" /\ NextAccess(p) = SendWrite(excAddr)
          /\ s.at = "excRing" => t.at = "main" /\ NextAccess(p) = PutIntr
      BY <1>12, CoreStep, NextIs DEF s, t
    <2>2. p = "ree" /\ excAddr' = excAddr
      BY <1>8, <1>9, <1>12 DEF DStep
    <2>3. Text(p)' = Text(p)
      BY <1>2, <2>2
    <2>4. CASE s.at = "excCtrl"
      <3>1. Done(p) = 0 /\ Done(p)' = 1 /\ outbox'[p] = << >>
        BY <1>3, <1>4, <1>5, <1>6, <2>1, <2>4 DEF Reporting
      <3>2. NextAccess(p) = AccessOf(Text(p), 1) /\ NextAccess(p).op = "write"
        BY <1>2, <2>1, <2>4 DEF AccessOf, ConfigWrite
      <3> QED
        BY <1>2, <1>11, <1>12, <2>2, <2>3, <3>1, <3>2
    <2>5. CASE s.at = "excData"
      <3>4. Done(p) = 1 /\ Done(p)' = 2
        BY <1>3, <2>1, <2>5 DEF Reporting
      <3>1. Done(p) = 1 /\ Done(p)' = 2 /\ outbox[p] = << >>
        BY <1>4, <3>4
      <3>2. outbox'[p] = <<(<<excAddr>>)>>
        BY <1>5, <1>6, <1>12, <2>5, <3>1
      <3>3. NextAccess(p) = AccessOf(Text(p), 2) /\ NextAccess(p).op = "write"
        BY <1>2, <2>1, <2>5 DEF AccessOf, SendWrite
      <3> QED
        BY <1>2, <1>11, <1>12, <2>2, <2>3, <3>1, <3>2, <3>3
    <2>6. CASE s.at = "excRing"
      <3>4. Done(p) = 2
        BY <1>3, <2>6 DEF Reporting
      <3>5. outbox'[p] = outbox[p]
        BY <1>5, <1>6, <2>6
      <3>1. outbox[p] = <<(<<excAddr>>)>> /\ outbox'[p] = outbox[p]
        BY <1>4, <3>4, <3>5
      <3>2. Done(p)' = 3
        BY <1>3, <2>1, <2>6, <3>1 DEF Reporting
      <3>3. NextAccess(p) = AccessOf(Text(p), 3) /\ NextAccess(p).op = "write"
        BY <1>2, <2>1, <2>6 DEF AccessOf, PutIntr
      <3> QED
        BY <1>2, <1>11, <1>12, <2>2, <2>3, <3>1, <3>2, <3>3, <3>4
    <2> QED
      BY <1>12, <2>4, <2>5, <2>6 DEF Reporting
  <1>13. CASE ~(p \in go /\ s.at \in Reporting)
    <2>1. p \in go => s.at \in {"readCtrl", "readData"}
      BY <1>1, <1>13, CoreStep DEF s
    <2>2. p \in go => NextAccess(p).op = "read"
      BY <2>1, NextIs DEF s, ReadOf
    <2>3. outbox'[p] = outbox[p]
      BY <1>5, <1>6, <2>1
    <2>4. \/ s.at \in Reporting /\ t.at = s.at
          \/ s.at \notin Reporting /\ t.at \notin Reporting
          \/ s.at \notin Reporting /\ t.at = "excCtrl" /\ p = "ree" /\ excPend
      BY <1>1, <1>13, CoreStep DEF s, t, Points, Reporting
    <2>5. p = "ree" /\ excPend => outbox[p] = << >>
      BY DEF OneReport
    <2>6. Done(p)' = Done(p)
      BY <1>3, <2>3, <2>4, <2>5 DEF Reporting
    <2>7. outbox'[p] = IF Done(p)' > 1 THEN <<(<<excAddr'>>)>> ELSE << >>
      <3>1. CASE Done(p) >= 1
        BY <1>4, <1>10, <2>3, <2>6, <3>1
      <3>2. CASE ~(Done(p) >= 1)
        <4>1. ~(Done(p) > 1)
          BY <1>3, <3>2
        <4> QED
          BY <1>4, <2>3, <2>6, <4>1
      <3> QED
        BY <3>1, <3>2
    <2> QED
      BY <1>1, <1>2, <1>10, <1>11, <2>2, <2>3, <2>6, <2>7
  <1> QED
    BY <1>12, <1>13

\* Each core makes the next access of its message, or none of them.
LEMMA SenderStep ==
  ASSUME DriversTyped, NEW go \in SUBSET Movers, NEW enter, NEW fault \in BOOLEAN,
         NEW still \in BOOLEAN, DStep(go, enter, fault, still), fault => Faulting, still => excPend,
         OneReport, NEW p \in CPU, SenderInv(p)
  PROVE  /\ SenderInv(p)'
         /\ Done(p) >= 1 => Text(p)' = Text(p)
         /\ IF p \in go /\ NextAccess(p).op = "write"
            THEN /\ Done(p)' = Done(p) + 1 /\ Done(p) <= Len(Text(p)) + 1 /\ Text(p)' = Text(p)
                 /\ NextAccess(p) = AccessOf(Text(p), Done(p) + 1)
            ELSE Done(p)' = Done(p)
PROOF
  <1>1. CASE sent[p] # << >>
    BY <1>1, MainSends
  <1>2. CASE sent[p] = << >>
    BY <1>2, HandlerSends
  <1> QED
    BY <1>1, <1>2

\* An access is a read, a write or none.
LEMMA AccessOps ==
  ASSUME NEW acc \in Access
  PROVE  acc.op \in {"none", "read", "write"} /\ (acc.op = "none" => acc = NoAccess)
PROOF BY DEF Access, NoAccess

\* A channel carries the writes of the core that sends over it and the reads of
\* the one that receives.
LEMMA ChannelCarries ==
  ASSUME DriversTyped, NEW go \in SUBSET Movers, NEW enter, NEW fault, NEW still,
         DStep(go, enter, fault, still), NEW p \in CPU
  PROVE  LET c == Out(p)
             q == Other(p)
             bus == BusOfCores(go)
         IN  /\ bus \in [Chan -> Access] /\ Tick(bus) /\ req'[c] = bus[c]
             /\ p \in go /\ NextAccess(p).op = "write" => bus[c] = NextAccess(p)
             /\ ~(p \in go /\ NextAccess(p).op = "write") => bus[c].op # "write"
             /\ q \in go /\ NextAccess(q).op = "read" => bus[c] = NextAccess(q)
             /\ ~(q \in go /\ NextAccess(q).op = "read") => bus[c].op # "read"
PROOF
  <1> DEFINE c == Out(p)
             q == Other(p)
             bus == BusOfCores(go)
  <1>1. /\ bus \in [Chan -> Access]
        /\ \A r \in go : bus[Port(r)] = NextAccess(r)
        /\ (\A r \in go : Port(r) # c) => bus[c] = NoAccess
        /\ \A r \in CPU : Port(r) = IF NextAccess(r).op = "read" THEN In(r) ELSE Out(r)
    BY BusCarries, Channels DEF DStep
  <1>2. /\ q \in CPU /\ q # p /\ In(q) = c /\ Out(q) # c /\ In(p) # c
        /\ \A r \in CPU : r = p \/ r = q
    BY Channels
  <1>3. Tick(bus) /\ req' = bus
    BY DEF DStep, Tick
  <1>4. \A r \in go : r \in CPU /\ NextAccess(r).op \in {"read", "write"}
    BY NextIs, AccessOps DEF Movers
  <1>5. p \in go /\ NextAccess(p).op = "write" => bus[c] = NextAccess(p)
    BY <1>1
  <1>6. q \in go /\ NextAccess(q).op = "read" => bus[c] = NextAccess(q)
    BY <1>1, <1>2
  <1>7. ~(p \in go /\ NextAccess(p).op = "write") /\ ~(q \in go /\ NextAccess(q).op = "read")
          => bus[c] = NoAccess
    BY <1>1, <1>2, <1>4
  <1>8. NoAccess.op = "none"
    BY DEF NoAccess
  <1> HIDE DEF bus, c, q
  <1>9. ~(p \in go /\ NextAccess(p).op = "write") => bus[c].op # "write"
    BY <1>6, <1>7, <1>8
  <1>10. ~(q \in go /\ NextAccess(q).op = "read") => bus[c].op # "read"
    BY <1>5, <1>7, <1>8
  <1> QED
    BY <1>1, <1>3, <1>5, <1>6, <1>9, <1>10 DEF bus, c, q

\* The words in a FIFO after a cycle.
LEMMA FifoAfter ==
  ASSUME TypeOK, NEW bus \in [Chan -> Access], ClockFifo(bus), NEW c \in Chan
  PROVE  LET k == IF Pops(c, bus[c]) THEN 1 ELSE 0
         IN  /\ Len(fifo[c]) \in Nat /\ k <= Len(fifo[c])
             /\ Len(fifo'[c]) = Len(fifo[c]) - k + IF Pushes(c) THEN 1 ELSE 0
             /\ \A i \in 1..(Len(fifo[c]) - k) : fifo'[c][i].word = fifo[c][i + k].word
             /\ Pushes(c) => fifo'[c][Len(fifo'[c])].word = Narrow(req[c].size, req[c].data)
             /\ dout'[c] = IF Pops(c, bus[c]) THEN fifo[c][1].word ELSE dout[c]
PROOF
  <1> DEFINE k == IF Pops(c, bus[c]) THEN 1 ELSE 0
             m == Len(fifo[c])
             kept == Kept(c, bus[c])
             new == NFifo(c, bus[c])
  <1>1. fifo[c] \in Seq(Entry) /\ m \in Nat /\ (Pops(c, bus[c]) => m >= 1 /\ Head(fifo[c]) = fifo[c][1])
    <2>1. fifo[c] \in Seq(Entry)
      BY DEF TypeOK
    <2>2. Pops(c, bus[c]) => fifo[c] # << >>
      BY PopsHead
    <2> QED
      BY <2>1, <2>2
  <1>2. fifo'[c] = new /\ dout'[c] = IF Pops(c, bus[c]) THEN Head(fifo[c]).word ELSE dout[c]
    BY DEF ClockFifo
  <1>3. /\ Len(kept) = m - k
        /\ \A i \in 1..Len(kept) : kept[i].word = fifo[c][i + k].word
    <2>1. /\ Len(kept) = IF Pops(c, bus[c]) THEN m - 1 ELSE m
          /\ \A i \in 1..Len(kept) :
               kept[i].word = fifo[c][IF Pops(c, bus[c]) THEN i + 1 ELSE i].word
      BY KeptEntries
    <2> HIDE DEF kept
    <2>2. CASE Pops(c, bus[c])
      BY <1>1, <2>1, <2>2
    <2>3. CASE ~Pops(c, bus[c])
      BY <1>1, <2>1, <2>3
    <2> QED
      BY <2>2, <2>3
  <1>4. /\ ~Pushes(c) => new = kept
        /\ Pushes(c) => /\ Len(new) = Len(kept) + 1
                        /\ new[Len(kept) + 1].word = Narrow(req[c].size, req[c].data)
                        /\ \A i \in 1..Len(kept) : new[i] = kept[i]
    BY NFifoEntries
  <1>5. k \in {0, 1} /\ k <= m
    BY <1>1
  <1> HIDE DEF k, m, kept, new
  <1>6. CASE Pushes(c)
    BY <1>1, <1>2, <1>3, <1>4, <1>5, <1>6 DEF k, m
  <1>7. CASE ~Pushes(c)
    BY <1>1, <1>2, <1>3, <1>4, <1>5, <1>7 DEF k, m
  <1> QED
    BY <1>6, <1>7

\* The words of p's message whose writes have been on the bus.
Offered(p) == IF Done(p) <= 1 THEN 0
              ELSE IF Done(p) = Len(Text(p)) + 2 THEN Len(Text(p)) ELSE Done(p) - 1

\* Before the doorbell the channel lets every write through: the next word
\* finds room, and the length is in CTRL.
LEMMA LetsThrough ==
  ASSUME DriversTyped, NEW p \in CPU, SenderInv(p), Unannounced(p)
  PROVE  LET c == Out(p)
             w == Text(p)
             j == Done(p)
         IN  /\ ~Locking(c) /\ ~IntFlag(c)
             /\ Writes(req[c], "DATA") =>
                  /\ j \in 2..(Len(w) + 1) /\ w[j - 1] \in Word
                  /\ Pushes(c) /\ Narrow(req[c].size, req[c].data) = w[j - 1]
             /\ ~Writes(req[c], "DATA") => ~Pushes(c)
             /\ Writes(req[c], "CTRL") => j = 1 /\ req[c].data = CtrlFor(Len(w))
             /\ Done(p) = 1 /\ req[c].op = "write" => Writes(req[c], "CTRL")
             /\ Writes(req[c], "STATUS") => j = Len(w) + 2
             /\ j = Len(w) + 2 => req[c] = PutIntr
             /\ Len(fifo[c]) = Offered(p) - IF Writes(req[c], "DATA") THEN 1 ELSE 0
PROOF
  <1> DEFINE c == Out(p)
             w == Text(p)
             n == Len(Text(p))
             j == Done(p)
  <1>1. /\ n \in 1..Depth /\ j \in 0..(n + 2) /\ Depth \in Nat
        /\ j >= 1 => w \in Seq(Word)
    BY TextIs, FifoAssumption
  <1>2. /\ ~status[c].int /\ cstate[c] \in {"IDLE", "WRITE"}
        /\ Len(fifo[c]) = Stored(p)
        /\ req[c].op = "write" => j >= 1 /\ req[c] = AccessOf(w, j)
        /\ j = n + 2 => req[c].op = "write"
    BY DEF Unannounced
  <1>3. ~Locking(c) /\ ~IntFlag(c)
    BY <1>2 DEF Locking, IntFlag
  <1>4. /\ AccessOf(w, 1) = ConfigWrite(n)
        /\ AccessOf(w, n + 2) = PutIntr
        /\ j # 1 /\ j # n + 2 => AccessOf(w, j) = SendWrite(w[j - 1])
    BY <1>1 DEF AccessOf
  <1>5. Stored(p) = IF j <= 1 THEN 0 ELSE IF j = n + 2 THEN n
                    ELSE IF Writes(req[c], "DATA") THEN j - 2 ELSE j - 1
    BY DEF Stored
  <1>6. Offered(p) = IF j <= 1 THEN 0 ELSE IF j = n + 2 THEN n ELSE j - 1
    BY DEF Offered
  <1> HIDE DEF w, n, j, c
  <1>7. Writes(req[c], "DATA") => j \in 2..(n + 1) /\ req[c] = SendWrite(w[j - 1])
    <2> SUFFICES ASSUME Writes(req[c], "DATA")
                 PROVE  j \in 2..(n + 1) /\ req[c] = SendWrite(w[j - 1])
      OBVIOUS
    <2>1. j >= 1 /\ req[c] = AccessOf(w, j)
      BY <1>2 DEF Writes
    <2>2. j # 1 /\ j # n + 2
      BY <1>4, <2>1 DEF Writes, ConfigWrite, PutIntr
    <2>3. j \in 2..(n + 1)
      BY <1>1, <2>1, <2>2
    <2> QED
      BY <1>4, <2>1, <2>2, <2>3
  <1>8. Writes(req[c], "CTRL") => j = 1 /\ req[c].data = CtrlFor(n)
    <2> SUFFICES ASSUME Writes(req[c], "CTRL")
                 PROVE  j = 1 /\ req[c].data = CtrlFor(n)
      OBVIOUS
    <2>1. j >= 1 /\ req[c] = AccessOf(w, j)
      BY <1>2 DEF Writes
    <2>2. j = 1
      BY <1>4, <2>1 DEF Writes, SendWrite, PutIntr
    <2> QED
      BY <1>4, <2>1, <2>2 DEF ConfigWrite
  <1>9. Writes(req[c], "STATUS") => j = n + 2
    <2> SUFFICES ASSUME Writes(req[c], "STATUS")
                 PROVE  j = n + 2
      OBVIOUS
    <2>1. j >= 1 /\ req[c] = AccessOf(w, j)
      BY <1>2 DEF Writes
    <2> QED
      BY <1>4, <2>1 DEF Writes, SendWrite, ConfigWrite
  <1>10. j = n + 2 => req[c] = PutIntr
    BY <1>1, <1>2, <1>4
  <1>11. j = 1 /\ req[c].op = "write" => Writes(req[c], "CTRL")
    BY <1>2, <1>4 DEF Writes, ConfigWrite
  <1>12. Len(fifo[c]) = Offered(p) - IF Writes(req[c], "DATA") THEN 1 ELSE 0
    <2>1. CASE Writes(req[c], "DATA")
      <3>1. Stored(p) = j - 2 /\ Offered(p) = j - 1
        BY <1>1, <1>5, <1>6, <1>7, <2>1
      <3> QED
        BY <1>1, <1>2, <2>1, <3>1
    <2>2. CASE ~Writes(req[c], "DATA")
      <3>1. Stored(p) = Offered(p) /\ Offered(p) \in Nat
        BY <1>1, <1>5, <1>6, <2>2
      <3> QED
        BY <1>2, <2>2, <3>1
    <2> QED
      BY <2>1, <2>2
  <1>13. Writes(req[c], "DATA") =>
           w[j - 1] \in Word /\ Pushes(c) /\ Narrow(req[c].size, req[c].data) = w[j - 1]
    <2> SUFFICES ASSUME Writes(req[c], "DATA")
                 PROVE  w[j - 1] \in Word /\ Pushes(c) /\ Narrow(req[c].size, req[c].data) = w[j - 1]
      OBVIOUS
    <2>1. j - 1 \in 1..n /\ w \in Seq(Word) /\ n = Len(w)
      BY <1>1, <1>7 DEF n, w
    <2>2. req[c].size = 2 /\ req[c].data = w[j - 1]
      BY <1>7 DEF SendWrite
    <2>3. Len(fifo[c]) < Depth
      BY <1>1, <1>2, <1>5, <1>7
    <2> QED
      BY <1>3, <2>1, <2>2, <2>3 DEF Narrow, Pushes, Accepts
  <1>14. ~Writes(req[c], "DATA") => ~Pushes(c)
    BY DEF Pushes, Accepts
  <1> QED
    BY <1>3, <1>7, <1>8, <1>9, <1>10, <1>11, <1>12, <1>13, <1>14 DEF c, w, n, j

\* Only a receiving core reads.
LEMMA ReadsWhere ==
  ASSUME DriversTyped, NEW q \in CPU, SenderInv(q), NextAccess(q).op = "read"
  PROVE  core[q].at \in {"readCtrl", "readData"}
PROOF
  <1>1. core[q].at \in Points /\ core[q].todo \in Seq(Access)
    BY CoreFields DEF DriversTyped
  <1>2. CASE core[q].at = "main"
    <2>1. NextAccess(q) = Head(core[q].todo) /\ core[q].todo # << >>
      BY <1>2, NextIs DEF NoAccess
    <2>2. 1 \in 1..Len(core[q].todo) /\ Head(core[q].todo) = core[q].todo[1]
      BY <1>1, <2>1
    <2>3. core[q].todo[1] = AccessOf(sent[q], Done(q) + 1)
      BY <2>1, <2>2 DEF SenderInv
    <2>4. AccessOf(sent[q], Done(q) + 1).op = "write"
      BY DEF AccessOf, ConfigWrite, SendWrite, PutIntr
    <2> QED
      BY <2>1, <2>2, <2>3, <2>4
  <1>3. CASE core[q].at \in Reporting
    BY <1>3, NextIs DEF Reporting, ConfigWrite, SendWrite, PutIntr
  <1>4. CASE core[q].at \in {"gotCtrl", "gotData", "exit"}
    BY <1>4, NextIs DEF NoAccess
  <1> QED
    BY <1>1, <1>2, <1>3, <1>4 DEF Points, Reporting

\* Before the doorbell the other core is not in its handler, and stays out of
\* it; nothing is taken from the FIFO.
LEMMA NotReceiving ==
  ASSUME DriversTyped, NEW go \in SUBSET Movers, NEW enter, NEW fault, NEW still,
         DStep(go, enter, fault, still), NEW p \in CPU, SenderInv(p), SenderInv(Other(p)),
         Unannounced(p)
  PROVE  LET r == core[Other(p)]
         IN  /\ core'[Other(p)].at \notin Receiving /\ core'[Other(p)].inbox = << >>
             /\ BusOfCores(go)[Out(p)].op # "read"
PROOF
  <1> DEFINE q == Other(p)
             r == core[q]
             t == core'[q]
  <1>1. q \in CPU /\ In(q) = Out(p) /\ r.at \in Points
    BY Channels, CoreFields DEF DriversTyped
  <1>2. r.at \notin Receiving /\ r.inbox = << >>
    BY DEF Unannounced
  <1>3. ~IntFlag(Out(p))
    BY LetsThrough
  <1>4. t.at \notin Receiving /\ t.inbox = << >>
    <2>1. CASE r.at = "main"
      <3>2. /\ t.inbox = r.inbox
            /\ t.at \in {"main", "excCtrl"} \/ IntFlag(In(q))
        BY <1>1, <2>1, CoreStep
      <3>1. t.inbox = r.inbox /\ t.at \in {"main", "excCtrl"}
        BY <1>1, <1>3, <3>2
      <3> QED
        BY <1>2, <3>1 DEF Receiving
    <2>2. CASE r.at \in Reporting
      <3>1. t.inbox = r.inbox /\ t.at \in Reporting \cup {"main"}
        BY <1>1, <2>2, CoreStep DEF Reporting
      <3> QED
        BY <1>2, <3>1 DEF Receiving, Reporting
    <2> QED
      BY <1>1, <1>2, <2>1, <2>2 DEF Points, Receiving, Reporting
  <1>5. NextAccess(q).op # "read"
    BY <1>1, <1>2, ReadsWhere DEF Receiving
  <1> QED
    BY <1>1, <1>4, <1>5, ChannelCarries

\* The doorbell is let through: the message is announced, and all its words can
\* be read.
LEMMA DoorbellRings ==
  ASSUME DriversTyped, NEW go \in SUBSET Movers, NEW enter, NEW fault \in BOOLEAN,
         NEW still \in BOOLEAN, DStep(go, enter, fault, still), fault => Faulting, still => excPend,
         OneReport, NEW p \in CPU, SenderInv(p), SenderInv(Other(p)),
         Unannounced(p), Announced(Out(p)), Done(p) = Len(Text(p)) + 2
  PROVE  Delivering(p)'
PROOF
  <1> DEFINE c == Out(p)
             w == Text(p)
             bus == BusOfCores(go)
             r == core[Other(p)]
             t == core'[Other(p)]
  <1>1. /\ c \in Chan /\ TypeOK /\ Len(w) \in Nat \ {0} /\ w \in Seq(Word)
    BY Channels, TextIs DEF DriversTyped, DTypeOK
  <1>2. bus \in [Chan -> Access] /\ Tick(bus) /\ ClockFifo(bus) /\ req'[c] = bus[c]
    BY ChannelCarries DEF Tick
  <1>3. ~(p \in go /\ NextAccess(p).op = "write") /\ Done(p)' = Done(p) /\ Text(p)' = w
    <2>1. /\ Done(p) >= 1 => Text(p)' = Text(p)
          /\ IF p \in go /\ NextAccess(p).op = "write"
             THEN Done(p) <= Len(Text(p)) + 1 ELSE Done(p)' = Done(p)
      BY SenderStep
    <2>2. Done(p) >= 1 /\ ~(Done(p) <= Len(Text(p)) + 1)
      BY <1>1
    <2> QED
      BY <2>1, <2>2
  <1>4. req'[c].op # "write"
    BY <1>2, <1>3, ChannelCarries
  <1>5. /\ req[c] = PutIntr /\ ~Locking(c) /\ ~Pushes(c)
        /\ ~Writes(req[c], "DATA") /\ ~Writes(req[c], "CTRL") /\ Writes(req[c], "STATUS")
    BY LetsThrough DEF PutIntr, Writes
  <1>6. t.at \notin Receiving /\ t.inbox = << >> /\ bus[c].op # "read"
    BY NotReceiving
  <1>7. ctrl'[c] = CtrlFor(Len(w))
    <2>1. ctrl'[c] = ctrl[c]
      BY <1>1, <1>2, <1>5 DEF Tick, Accepts
    <2>2. ctrl[c] = CtrlFor(Len(w))
      BY <1>1 DEF Unannounced
    <2> QED
      BY <2>1, <2>2
  <1>8. AllVisible(c)'
    <2>1. AllVisible(c)
      BY <1>5 DEF Announced
    <2> QED
      BY <1>1, <1>2, <1>5, <2>1, VisibleStays
  <1>9. /\ Len(fifo'[c]) = Len(w)
        /\ \A i \in 1..Len(w) : fifo'[c][i].word = w[i]
    <2>1. ~Pops(c, bus[c])
      BY <1>6 DEF Pops, Reads
    <2>2. Len(fifo[c]) = Len(w)
      BY <1>1, <1>5, LetsThrough DEF Offered
    <2>3. \A i \in 1..Len(fifo[c]) : fifo[c][i].word = w[i]
      BY DEF Unannounced
    <2>4. Len(fifo'[c]) = Len(fifo[c]) /\ \A i \in 1..Len(fifo[c]) : fifo'[c][i].word = fifo[c][i].word
      <3>1. /\ Len(fifo[c]) \in Nat /\ Len(fifo'[c]) = Len(fifo[c]) - 0 + 0
            /\ \A i \in 1..(Len(fifo[c]) - 0) : fifo'[c][i].word = fifo[c][i + 0].word
        BY <1>1, <1>2, <1>5, <2>1, FifoAfter
      <3> QED
        BY <3>1
    <2> QED
      BY <2>2, <2>3, <2>4
  <1>10. Unread(c, w, r)'
    <2>1. Holds(c, w, 0)'
      BY <1>1, <1>3, <1>9 DEF Holds
    <2> QED
      BY <1>6, <2>1 DEF Unread, Receiving
  <1>11. Done(p)' = Len(Text(p)') + 2 /\ ctrl'[c] = CtrlFor(Len(Text(p)'))
    BY <1>3, <1>7
  <1> QED
    BY <1>4, <1>8, <1>10, <1>11 DEF Delivering

\* Until then the channel takes word after word, and stays unannounced.
LEMMA WordsAreTaken ==
  ASSUME DriversTyped, NEW go \in SUBSET Movers, NEW enter, NEW fault \in BOOLEAN,
         NEW still \in BOOLEAN, DStep(go, enter, fault, still), fault => Faulting, still => excPend,
         OneReport, NEW p \in CPU, SenderInv(p), SenderInv(Other(p)),
         Unannounced(p), Done(p) # Len(Text(p)) + 2
  PROVE  Unannounced(p)'
PROOF
  <1> DEFINE c == Out(p)
             w == Text(p)
             n == Len(Text(p))
             j == Done(p)
             bus == BusOfCores(go)
             moves == p \in go /\ NextAccess(p).op = "write"
  <1>1. /\ c \in Chan /\ TypeOK /\ n \in Nat \ {0} /\ j \in 0..(n + 1)
        /\ j >= 1 => w \in Seq(Word)
    BY Channels, TextIs DEF DriversTyped, DTypeOK
  <1>2. bus \in [Chan -> Access] /\ Tick(bus) /\ ClockFifo(bus) /\ req'[c] = bus[c]
    BY ChannelCarries DEF Tick
  <1>3. /\ j >= 1 => Text(p)' = w
        /\ moves => /\ Done(p)' = j + 1 /\ Text(p)' = w /\ NextAccess(p) = AccessOf(w, j + 1)
        /\ ~moves => Done(p)' = j
    BY SenderStep
  <1>4. /\ moves => req'[c] = NextAccess(p)
        /\ ~moves => req'[c].op # "write"
    BY <1>2, ChannelCarries
  <1>5. /\ ~Locking(c) /\ ~IntFlag(c)
        /\ Writes(req[c], "DATA") =>
             j \in 2..(n + 1) /\ Pushes(c) /\ Narrow(req[c].size, req[c].data) = w[j - 1]
        /\ ~Writes(req[c], "DATA") => ~Pushes(c)
        /\ Writes(req[c], "CTRL") => j = 1 /\ req[c].data = CtrlFor(n)
        /\ j = 1 /\ req[c].op = "write" => Writes(req[c], "CTRL")
        /\ ~Writes(req[c], "STATUS")
        /\ Len(fifo[c]) = Offered(p) - IF Writes(req[c], "DATA") THEN 1 ELSE 0
    BY LetsThrough
  <1>6. core'[Other(p)].at \notin Receiving /\ core'[Other(p)].inbox = << >> /\ bus[c].op # "read"
    BY NotReceiving
  <1>7. ~status'[c].int /\ cstate'[c] \in {"IDLE", "WRITE"}
    <2>1. ~status[c].int /\ cstate[c] \in {"IDLE", "WRITE"}
      BY DEF Unannounced
    <2>2. ~status'[c].int
      BY <1>1, <1>2, <1>5, <2>1 DEF Tick, NStatus, Accepts
    <2>3. cstate'[c] \in {"IDLE", "WRITE"}
      BY <1>1, <1>2, <1>5, <2>1 DEF Tick, NState
    <2> QED
      BY <2>2, <2>3
  <1>8. Offered(p) = (IF j <= 1 THEN 0 ELSE j - 1) /\ Len(fifo'[c]) = Offered(p)
    <2>1. Offered(p) = (IF j <= 1 THEN 0 ELSE j - 1)
      BY DEF Offered
    <2>2. ~Pops(c, bus[c])
      BY <1>6 DEF Pops, Reads
    <2>3. Len(fifo'[c]) = Len(fifo[c]) - 0 + IF Pushes(c) THEN 1 ELSE 0
      BY <1>1, <1>2, <2>2, FifoAfter
    <2>4. Offered(p) \in Nat /\ Len(fifo[c]) \in Nat
      BY <1>1, <1>2, <2>1, FifoAfter
    <2> QED
      BY <1>5, <2>1, <2>3, <2>4
  <1>9. \A i \in 1..Len(fifo'[c]) : fifo'[c][i].word = w[i]
    <2>1. ~Pops(c, bus[c])
      BY <1>6 DEF Pops, Reads
    <2>2. /\ Len(fifo[c]) \in Nat
          /\ \A i \in 1..(Len(fifo[c]) - 0) : fifo'[c][i].word = fifo[c][i + 0].word
          /\ Pushes(c) => fifo'[c][Len(fifo'[c])].word = Narrow(req[c].size, req[c].data)
      BY <1>1, <1>2, <2>1, FifoAfter
    <2>3. \A i \in 1..Len(fifo[c]) : fifo'[c][i].word = w[i]
      BY <2>2 DEF Unannounced
    <2> HIDE DEF w, j, n, c
    <2>4. CASE Writes(req[c], "DATA")
      <3>1. /\ j \in 2..(n + 1) /\ Len(fifo'[c]) = j - 1 /\ Len(fifo[c]) = j - 2
            /\ fifo'[c][j - 1].word = w[j - 1]
        BY <1>5, <1>8, <2>2, <2>4
      <3> QED
        BY <1>1, <2>3, <3>1
    <2>5. CASE ~Writes(req[c], "DATA")
      <3>1. Len(fifo'[c]) = Len(fifo[c])
        BY <1>1, <1>5, <1>8, <2>5
      <3> QED
        BY <2>3, <3>1
    <2> QED
      BY <2>4, <2>5
  <1>10. \A i \in 1..Len(fifo'[c]) : fifo'[c][i].word = Text(p)'[i]
    <2>1. CASE j >= 1
      BY <1>3, <1>9, <2>1
    <2>2. CASE ~(j >= 1)
      <3>1. Len(fifo'[c]) = 0
        BY <1>1, <1>8, <2>2
      <3> QED
        BY <3>1
    <2> QED
      BY <2>1, <2>2
  <1>11. moves => (Writes(req'[c], "DATA") <=> j + 1 \in 2..(n + 1)) /\ req'[c].op = "write"
    <2> SUFFICES ASSUME moves
                 PROVE  (Writes(req'[c], "DATA") <=> j + 1 \in 2..(n + 1)) /\ req'[c].op = "write"
      OBVIOUS
    <2>1. req'[c] = AccessOf(w, j + 1)
      BY <1>3, <1>4
    <2> HIDE DEF j, n, moves, c
    <2>2. CASE j + 1 = 1
      BY <1>1, <2>1, <2>2 DEF AccessOf, ConfigWrite, Writes
    <2>3. CASE j + 1 = n + 2
      BY <1>1, <2>1, <2>3 DEF AccessOf, PutIntr, Writes, n
    <2>4. CASE j + 1 \in 2..(n + 1)
      BY <1>1, <2>1, <2>4 DEF AccessOf, SendWrite, Writes, n
    <2> QED
      BY <1>1, <2>2, <2>3, <2>4
  <1>12. Len(fifo'[c]) = Stored(p)'
    <2>1. Stored(p)' = IF Done(p)' <= 1 THEN 0
                       ELSE IF Done(p)' = Len(Text(p)') + 2 THEN Len(Text(p)')
                       ELSE IF Writes(req'[c], "DATA") THEN Done(p)' - 2 ELSE Done(p)' - 1
      BY DEF Stored
    <2>2. CASE moves
      <3>1. Done(p)' = j + 1 /\ Len(Text(p)') = n
        BY <1>3, <2>2
      <3>2. Writes(req'[c], "DATA") <=> j + 1 \in 2..(n + 1)
        BY <1>11, <2>2
      <3> HIDE DEF j, n, moves, c, w
      <3>3. CASE j = 0
        BY <1>1, <1>8, <2>1, <3>1, <3>3
      <3>4. CASE j \in 1..n
        <4>1. Writes(req'[c], "DATA") /\ ~(j + 1 <= 1) /\ j + 1 # n + 2
          BY <1>1, <3>2, <3>4
        <4>2. Stored(p)' = (j + 1) - 2
          BY <2>1, <3>1, <4>1
        <4> QED
          BY <1>1, <1>8, <3>4, <4>2
      <3>5. CASE j = n + 1
        <4>1. Stored(p)' = n
          BY <1>1, <2>1, <3>1, <3>5
        <4> QED
          BY <1>1, <1>8, <3>5, <4>1
      <3> QED
        BY <1>1, <3>3, <3>4, <3>5
    <2>3. CASE ~moves
      <3>1. Done(p)' = j /\ (j >= 1 => Len(Text(p)') = n) /\ ~Writes(req'[c], "DATA")
        BY <1>3, <1>4, <2>3 DEF Writes
      <3> HIDE DEF j, n, moves, c, w
      <3> QED
        BY <1>1, <1>8, <2>1, <3>1
    <2> QED
      BY <2>2, <2>3
  <1>13. req'[c].op = "write" => Done(p)' >= 1 /\ req'[c] = AccessOf(Text(p)', Done(p)')
    BY <1>1, <1>3, <1>4
  <1>14. Done(p)' = Len(Text(p)') + 2 => req'[c].op = "write"
    <2>1. CASE moves
      BY <1>11, <2>1
    <2>2. CASE ~moves /\ j >= 1
      BY <1>3, <2>2
    <2>3. CASE ~moves /\ ~(j >= 1)
      <3>1. Done(p)' = 0
        BY <1>1, <1>3, <2>3
      <3>2. Len(Text(p)') = 0 \/ Len(Text(p)') > 0
        BY DEF Text
      <3> QED
        BY <3>1, <3>2
    <2> QED
      BY <2>1, <2>2, <2>3
  <1>15. Done(p)' >= 1 => \/ ctrl'[c] = CtrlFor(Len(Text(p)'))
                          \/ Done(p)' = 1 /\ req'[c].op = "write"
    <2>1. CASE j = 0
      BY <1>3, <1>11, <2>1
    <2>2. CASE j >= 1
      <3>1. ctrl'[c] = IF Writes(req[c], "CTRL") THEN req[c].data ELSE ctrl[c]
        BY <1>1, <1>2, <1>5 DEF Tick, Accepts
      <3>2. ctrl[c] = CtrlFor(n) \/ (j = 1 /\ req[c].op = "write")
        BY <2>2 DEF Unannounced
      <3>3. ctrl'[c] = CtrlFor(n)
        BY <1>5, <3>1, <3>2
      <3> QED
        BY <1>3, <2>2, <3>3
    <2> QED
      BY <1>1, <2>1, <2>2
  <1> QED
    BY <1>6, <1>7, <1>10, <1>12, <1>13, <1>14, <1>15 DEF Unannounced

\* Words are read by a handler at its loop, and by nobody else.
LEMMA ReadByHandler ==
  ASSUME DriversTyped, NEW go \in SUBSET Movers, NEW enter, NEW fault, NEW still,
         DStep(go, enter, fault, still), NEW p \in CPU, SenderInv(Other(p))
  PROVE  Reads(BusOfCores(go)[Out(p)], "DATA") <=> Other(p) \in go /\ core[Other(p)].at = "readData"
PROOF
  <1> DEFINE q == Other(p)
             b == BusOfCores(go)[Out(p)]
  <1>1. q \in CPU
    BY Channels
  <1>2. /\ q \in go /\ NextAccess(q).op = "read" => b = NextAccess(q)
        /\ ~(q \in go /\ NextAccess(q).op = "read") => b.op # "read"
    BY ChannelCarries
  <1>3. /\ core[q].at = "readData" => NextAccess(q) = ReadOf("DATA")
        /\ core[q].at = "readCtrl" => NextAccess(q) = ReadOf("CTRL")
    BY <1>1, NextIs
  <1>4. NextAccess(q).op = "read" => core[q].at \in {"readCtrl", "readData"}
    BY <1>1, ReadsWhere
  <1> HIDE DEF q, b
  <1>5. Reads(b, "DATA") <=> q \in go /\ core[q].at = "readData"
    BY <1>2, <1>3, <1>4 DEF Reads, ReadOf
  <1> QED
    BY <1>5 DEF q, b

\* An announced message is left alone by its sender.
LEMMA SenderLeavesAlone ==
  ASSUME DriversTyped, NEW go \in SUBSET Movers, NEW enter, NEW fault \in BOOLEAN,
         NEW still \in BOOLEAN, DStep(go, enter, fault, still), fault => Faulting, still => excPend,
         OneReport, NEW p \in CPU, SenderInv(p), SenderInv(Other(p)), Delivering(p)
  PROVE  LET c == Out(p)
             w == Text(p)
         IN  /\ w \in Seq(Word) /\ Len(w) \in Nat \ {0} /\ LenOf(ctrl[c]) = Len(w)
             /\ Done(p)' = Len(w) + 2 /\ Text(p)' = w
             /\ req'[c].op # "write" /\ ctrl'[c] = CtrlFor(Len(w)) /\ AllVisible(c)'
             /\ ~Pushes(c) /\ ~Accepts(c, "STATUS")
PROOF
  <1> DEFINE c == Out(p)
             w == Text(p)
             bus == BusOfCores(go)
  <1>1. /\ c \in Chan /\ TypeOK /\ Len(w) \in Nat \ {0}
        /\ CtrlFor(Len(w)) \in CtrlVal /\ LenOf(CtrlFor(Len(w))) = Len(w)
        /\ Done(p) >= 1 => w \in Seq(Word)
    BY Channels, TextIs DEF DriversTyped, DTypeOK
  <1>2. /\ Done(p) = Len(w) + 2 /\ req[c].op # "write"
        /\ ctrl[c] = CtrlFor(Len(w)) /\ AllVisible(c)
    BY DEF Delivering
  <1>3. bus \in [Chan -> Access] /\ Tick(bus) /\ ClockFifo(bus) /\ req'[c] = bus[c]
    BY ChannelCarries DEF Tick
  <1>4. /\ ~Accepts(c, "DATA") /\ ~Accepts(c, "CTRL") /\ ~Accepts(c, "STATUS") /\ ~Pushes(c)
    BY <1>2 DEF Accepts, Writes, Pushes
  <1>5. ~(p \in go /\ NextAccess(p).op = "write") /\ Done(p)' = Done(p) /\ Text(p)' = w
    <2>1. /\ Done(p) >= 1 => Text(p)' = Text(p)
          /\ IF p \in go /\ NextAccess(p).op = "write"
             THEN Done(p) <= Len(Text(p)) + 1 ELSE Done(p)' = Done(p)
      BY SenderStep
    <2>2. Done(p) >= 1 /\ ~(Done(p) <= Len(Text(p)) + 1)
      BY <1>1, <1>2
    <2> QED
      BY <2>1, <2>2
  <1>6. req'[c].op # "write"
    BY <1>3, <1>5, ChannelCarries
  <1>7. ctrl'[c] = ctrl[c]
    BY <1>1, <1>3, <1>4 DEF Tick
  <1>8. AllVisible(c)'
    BY <1>1, <1>2, <1>3, <1>4, VisibleStays
  <1>9. w \in Seq(Word)
    BY <1>1, <1>2
  <1> QED
    BY <1>1, <1>2, <1>4, <1>5, <1>6, <1>7, <1>8, <1>9

\* What a FIFO holds stays as it is while nothing goes in or out.
LEMMA HoldsOn ==
  ASSUME TypeOK, NEW bus \in [Chan -> Access], Tick(bus), NEW c \in Chan, ~Pushes(c),
         ~Reads(bus[c], "DATA") \/ fifo[c] = << >>
  PROVE  /\ Len(fifo'[c]) = Len(fifo[c]) /\ dout'[c] = dout[c]
         /\ \A i \in 1..Len(fifo[c]) : fifo'[c][i].word = fifo[c][i].word
PROOF
  <1>1. ClockFifo(bus) /\ ~Pops(c, bus[c])
    BY DEF Tick, Pops, Empty
  <1>2. /\ Len(fifo[c]) \in Nat /\ Len(fifo'[c]) = Len(fifo[c]) - 0 + 0
        /\ \A i \in 1..(Len(fifo[c]) - 0) : fifo'[c][i].word = fifo[c][i + 0].word
        /\ dout'[c] = dout[c]
    BY <1>1, FifoAfter
  <1> QED
    BY <1>2

\* A message that has been announced waits for the handler, which reads its
\* length first.
LEMMA UnreadGoesOn ==
  ASSUME DriversTyped, NEW go \in SUBSET Movers, NEW enter, NEW fault \in BOOLEAN,
         NEW still \in BOOLEAN, DStep(go, enter, fault, still), fault => Faulting, still => excPend,
         OneReport, NEW p \in CPU, SenderInv(p), SenderInv(Other(p)), Delivering(p),
         Unread(Out(p), Text(p), core[Other(p)])
  PROVE  Delivering(p)'
PROOF
  <1> DEFINE c == Out(p)
             w == Text(p)
             q == Other(p)
             r == core[q]
             t == core'[q]
             bus == BusOfCores(go)
  <1>1. /\ c \in Chan /\ TypeOK /\ q \in CPU /\ In(q) = c /\ r.at \in Points
    BY Channels, CoreFields DEF DriversTyped, DTypeOK
  <1>2. /\ w \in Seq(Word) /\ Len(w) \in Nat \ {0} /\ LenOf(ctrl[c]) = Len(w)
        /\ Done(p)' = Len(w) + 2 /\ Text(p)' = w
        /\ req'[c].op # "write" /\ ctrl'[c] = CtrlFor(Len(w)) /\ AllVisible(c)'
        /\ ~Pushes(c)
    BY SenderLeavesAlone
  <1>3. bus \in [Chan -> Access] /\ Tick(bus)
    BY ChannelCarries
  <1>4. /\ r.at \notin {"readData", "gotData", "exit"} /\ r.inbox = << >>
        /\ r.at \in {"readCtrl", "gotCtrl"} => r.got = << >>
        /\ Len(fifo[c]) = Len(w) - 0
        /\ \A i \in 1..Len(fifo[c]) : fifo[c][i].word = w[0 + i]
    BY DEF Unread, Holds
  <1>5. ~Reads(bus[c], "DATA")
    BY <1>4, ReadByHandler
  <1>6. Len(fifo'[c]) = Len(w) /\ \A i \in 1..Len(w) : fifo'[c][i].word = w[i]
    <2>1. /\ Len(fifo'[c]) = Len(fifo[c])
          /\ \A i \in 1..Len(fifo[c]) : fifo'[c][i].word = fifo[c][i].word
      BY <1>1, <1>2, <1>3, <1>5, HoldsOn
    <2> QED
      BY <1>2, <1>4, <2>1
  <1>7. Holds(c, w, 0)'
    BY <1>2, <1>6 DEF Holds
  <1>8. CASE r.at = "gotCtrl"
    <2>1. t.left = Len(w) /\ t.got = << >> /\ t.inbox = << >> /\ t.at = "readData"
      BY <1>1, <1>2, <1>4, <1>8, CoreStep
    <2>2. BeingRead(c, w, r)'
      <3>1. Len(t.got) = 0 /\ t.left = Len(w) - Len(t.got)
        BY <1>2, <2>1
      <3> QED
        BY <1>2, <1>7, <2>1, <3>1 DEF BeingRead
    <2> QED
      BY <1>2, <2>2 DEF Delivering
  <1>9. CASE r.at # "gotCtrl"
    <2>1. /\ t.at \notin {"readData", "gotData", "exit"} /\ t.inbox = << >>
          /\ t.at \in {"readCtrl", "gotCtrl"} => t.got = << >>
      <3>1. CASE r.at = "main"
        BY <1>1, <1>4, <3>1, CoreStep
      <3>2. CASE r.at \in Reporting
        BY <1>1, <1>4, <3>2, CoreStep DEF Reporting
      <3>3. CASE r.at = "readCtrl"
        BY <1>1, <1>4, <3>3, CoreStep
      <3> QED
        BY <1>1, <1>4, <1>9, <3>1, <3>2, <3>3 DEF Points, Reporting
    <2>2. Unread(c, w, r)'
      BY <1>7, <2>1 DEF Unread
    <2> QED
      BY <1>2, <2>2 DEF Delivering
  <1> QED
    BY <1>8, <1>9

\* The handler takes word by word: none is missing when it reads, and it stops
\* after the last.
LEMMA BeingReadGoesOn ==
  ASSUME DriversTyped, NEW go \in SUBSET Movers, NEW enter, NEW fault \in BOOLEAN,
         NEW still \in BOOLEAN, DStep(go, enter, fault, still), fault => Faulting, still => excPend,
         OneReport, NEW p \in CPU, SenderInv(p), SenderInv(Other(p)), Delivering(p),
         BeingRead(Out(p), Text(p), core[Other(p)])
  PROVE  Delivering(p)'
PROOF
  <1> DEFINE c == Out(p)
             w == Text(p)
             q == Other(p)
             r == core[q]
             t == core'[q]
             k == Len(core[q].got)
             bus == BusOfCores(go)
  <1>1. /\ c \in Chan /\ TypeOK /\ q \in CPU /\ In(q) = c /\ k \in Nat
        /\ r.got \in Seq(Word \cup {Dout0})
    BY Channels, CoreFields DEF DriversTyped, DTypeOK
  <1>2. /\ w \in Seq(Word) /\ Len(w) \in Nat \ {0}
        /\ Done(p)' = Len(w) + 2 /\ Text(p)' = w
        /\ req'[c].op # "write" /\ ctrl'[c] = CtrlFor(Len(w)) /\ AllVisible(c)'
        /\ ~Pushes(c) /\ ~Accepts(c, "STATUS")
    BY SenderLeavesAlone
  <1>3. bus \in [Chan -> Access] /\ Tick(bus) /\ ClockFifo(bus)
    BY ChannelCarries DEF Tick
  <1>4. /\ r.at \in {"readData", "gotData"} /\ r.inbox = << >>
        /\ k < Len(w) /\ r.left = Len(w) - k
        /\ \A i \in 1..k : r.got[i] = w[i]
    BY DEF BeingRead
  <1>5. Reads(bus[c], "DATA") <=> q \in go /\ r.at = "readData"
    BY ReadByHandler
  <1>6. k = Len(r.got)
    OBVIOUS
  <1> HIDE DEF k
  <1>7. CASE r.at = "readData"
    <2>1. Len(fifo[c]) = Len(w) - k /\ \A i \in 1..Len(fifo[c]) : fifo[c][i].word = w[k + i]
      BY <1>6, <1>7 DEF BeingRead, Holds
    <2>2. t.left = Len(w) - k /\ t.got = r.got /\ t.inbox = << >>
      BY <1>1, <1>4, <1>7, CoreStep
    <2>3. Len(w) - k \in Nat \ {0}
      BY <1>1, <1>2, <1>4
    <2>4. CASE q \in go
      <3>1. t.at = "gotData"
        BY <1>1, <1>7, <2>4, CoreStep
      <3>2. Pops(c, bus[c])
        <4>1. fifo[c] # << >>
          BY <2>1, <2>3
        <4>2. ~Empty(c)
          BY <1>1, <4>1, VisibleNotEmpty DEF Delivering
        <4> QED
          BY <1>5, <1>7, <2>4, <4>2 DEF Pops
      <3>3. /\ Len(fifo'[c]) = Len(fifo[c]) - 1 + 0
            /\ \A i \in 1..(Len(fifo[c]) - 1) : fifo'[c][i].word = fifo[c][i + 1].word
            /\ dout'[c] = fifo[c][1].word
        BY <1>1, <1>2, <1>3, <3>2, FifoAfter
      <3>4. Len(fifo'[c]) = Len(w) - (k + 1) /\ dout'[c] = w[k + 1]
        BY <1>1, <1>2, <2>1, <2>3, <3>3
      <3>5. \A i \in 1..Len(fifo'[c]) : fifo'[c][i].word = w[(k + 1) + i]
        <4> TAKE i \in 1..Len(fifo'[c])
        <4>1. i \in 1..(Len(fifo[c]) - 1) /\ i + 1 \in 1..Len(fifo[c]) /\ k + (i + 1) = (k + 1) + i
          BY <1>1, <1>2, <1>4, <2>1, <3>4
        <4> QED
          BY <2>1, <3>3, <4>1
      <3>6. BeingRead(c, w, r)'
        <4>1. Len(t.got) = k
          BY <1>6, <2>2
        <4> QED
          BY <1>2, <1>4, <2>2, <3>1, <3>4, <3>5, <4>1 DEF BeingRead, Holds
      <3> QED
        BY <1>2, <3>6 DEF Delivering
    <2>5. CASE q \notin go
      <3>1. t.at = "readData"
        BY <1>1, <1>7, <2>5, CoreStep
      <3>2. Len(fifo'[c]) = Len(fifo[c]) /\ \A i \in 1..Len(fifo[c]) : fifo'[c][i].word = fifo[c][i].word
        BY <1>1, <1>2, <1>3, <1>5, <2>5, HoldsOn
      <3>3. BeingRead(c, w, r)'
        <4>1. Len(t.got) = k
          BY <1>6, <2>2
        <4> QED
          BY <1>2, <1>4, <2>1, <2>2, <3>1, <3>2, <4>1 DEF BeingRead, Holds
      <3> QED
        BY <1>2, <3>3 DEF Delivering
    <2> QED
      BY <2>4, <2>5
  <1>8. CASE r.at = "gotData"
    <2>1. /\ Len(fifo[c]) = Len(w) - (k + 1) /\ dout[c] = w[k + 1]
          /\ \A i \in 1..Len(fifo[c]) : fifo[c][i].word = w[(k + 1) + i]
      BY <1>6, <1>8 DEF BeingRead, Holds
    <2>2. /\ t.left = (Len(w) - k) - 1 /\ t.got = Append(r.got, dout[c]) /\ t.inbox = << >>
          /\ t.at = IF t.left = 0 THEN "exit" ELSE "readData"
      <3>1. /\ t.left = r.left - 1 /\ t.got = Append(r.got, dout[In(q)]) /\ t.inbox = r.inbox
            /\ t.at = IF t.left = 0 THEN "exit" ELSE "readData"
        BY <1>1, <1>8, CoreStep
      <3> QED
        BY <1>1, <1>4, <3>1
    <2>3. /\ Len(t.got) = k + 1
          /\ \A i \in 1..(k + 1) : t.got[i] = w[i]
      <3>1. dout[c] \in Word \cup {Dout0}
        BY <1>1 DEF TypeOK
      <3>2. /\ Len(t.got) = k + 1 /\ t.got[k + 1] = dout[c]
            /\ \A i \in 1..k : t.got[i] = r.got[i]
        BY <1>1, <1>6, <2>2, <3>1
      <3> QED
        BY <1>1, <1>4, <2>1, <3>2
    <2>4. Len(fifo'[c]) = Len(fifo[c]) /\ \A i \in 1..Len(fifo[c]) : fifo'[c][i].word = fifo[c][i].word
      BY <1>1, <1>2, <1>3, <1>5, <1>8, HoldsOn
    <2>5. t.left \in Nat /\ t.left = Len(w) - (k + 1)
      BY <1>1, <1>2, <1>4, <2>2
    <2>6. CASE t.left # 0
      <3>1. t.at = "readData" /\ k + 1 < Len(w)
        BY <1>1, <1>2, <2>2, <2>5, <2>6
      <3>2. BeingRead(c, w, r)'
        BY <1>2, <2>1, <2>2, <2>3, <2>4, <2>5, <3>1 DEF BeingRead, Holds
      <3> QED
        BY <1>2, <3>2 DEF Delivering
    <2>7. CASE t.left = 0
      <3>1. t.at = "exit" /\ Len(w) = k + 1
        BY <1>1, <1>2, <2>2, <2>5, <2>7
      <3>2. t.got = w
        <4>1. t.got \in Seq(Word \cup {Dout0})
          BY <1>1, <2>2 DEF TypeOK
        <4> QED
          BY <1>2, <2>3, <3>1, <4>1
      <3>3. fifo[c] = << >>
        <4>1. Len(fifo[c]) = 0 /\ fifo[c] \in Seq(Entry)
          BY <1>1, <2>1, <3>1 DEF TypeOK
        <4> QED
          BY <4>1
      <3>4. ~status'[c].int
        BY <1>1, <1>3, <3>3 DEF Tick, NStatus, Empty
      <3>5. HandedOver(c, w, r)'
        <4>1. Len(fifo'[c]) = Len(w) - Len(w)
          BY <1>1, <2>1, <2>4, <3>1
        <4> QED
          BY <1>2, <2>2, <3>1, <3>2, <3>4, <4>1 DEF HandedOver, Holds, Receiving
      <3> QED
        BY <1>2, <3>5 DEF Delivering
    <2> QED
      BY <2>6, <2>7
  <1> QED
    BY <1>4, <1>7, <1>8

\* A message that has been handed over is not handed over again.
LEMMA HandedOverStays ==
  ASSUME DriversTyped, NEW go \in SUBSET Movers, NEW enter, NEW fault \in BOOLEAN,
         NEW still \in BOOLEAN, DStep(go, enter, fault, still), fault => Faulting, still => excPend,
         OneReport, NEW p \in CPU, SenderInv(p), SenderInv(Other(p)), Delivering(p),
         HandedOver(Out(p), Text(p), core[Other(p)])
  PROVE  Delivering(p)'
PROOF
  <1> DEFINE c == Out(p)
             w == Text(p)
             q == Other(p)
             r == core[q]
             t == core'[q]
             bus == BusOfCores(go)
  <1>1. /\ c \in Chan /\ TypeOK /\ q \in CPU /\ In(q) = c /\ r.at \in Points
    BY Channels, CoreFields DEF DriversTyped, DTypeOK
  <1>2. /\ w \in Seq(Word) /\ Len(w) \in Nat \ {0}
        /\ Done(p)' = Len(w) + 2 /\ Text(p)' = w
        /\ req'[c].op # "write" /\ ctrl'[c] = CtrlFor(Len(w)) /\ AllVisible(c)'
        /\ ~Pushes(c) /\ ~Accepts(c, "STATUS")
    BY SenderLeavesAlone
  <1>3. bus \in [Chan -> Access] /\ Tick(bus)
    BY ChannelCarries
  <1>4. /\ r.at \notin Receiving \ {"exit"}
        /\ IF r.at = "exit" THEN r.got = w /\ r.inbox = << >> ELSE r.inbox = <<w>>
        /\ Len(fifo[c]) = Len(w) - Len(w) /\ ~status[c].int
    BY DEF HandedOver, Holds
  <1>5. fifo[c] = << >>
    <2>1. fifo[c] \in Seq(Entry) /\ Len(fifo[c]) = 0
      BY <1>1, <1>2, <1>4 DEF TypeOK
    <2> QED
      BY <2>1
  <1>6. Len(fifo'[c]) = Len(w) - Len(w)
    BY <1>1, <1>2, <1>3, <1>4, <1>5, HoldsOn
  <1>7. ~status'[c].int
    BY <1>1, <1>3, <1>5 DEF Tick, NStatus, Empty
  <1>8. t.at \notin Receiving /\ t.inbox = <<w>>
    <2>1. CASE r.at = "exit"
      <3>1. t.at = "main" /\ t.inbox = Append(r.inbox, r.got)
        BY <1>1, <2>1, CoreStep
      <3>2. r.got = w /\ r.inbox = << >>
        BY <1>4, <2>1
      <3>3. t.inbox = Append(<< >>, w)
        BY <3>1, <3>2
      <3>4. Append(<< >>, w) = <<w>>
        OBVIOUS
      <3> QED
        BY <3>1, <3>3, <3>4 DEF Receiving
    <2>2. CASE r.at = "main"
      <3>1. /\ t.inbox = r.inbox
            /\ t.at \in {"main", "excCtrl"} \/ IntFlag(In(q))
        BY <1>1, <2>2, CoreStep
      <3>2. ~IntFlag(In(q))
        BY <1>1, <1>4 DEF IntFlag
      <3> QED
        BY <1>4, <2>2, <3>1, <3>2 DEF Receiving
    <2>3. CASE r.at \in Reporting
      <3>1. t.inbox = r.inbox /\ t.at \in Reporting \cup {"main"}
        BY <1>1, <2>3, CoreStep DEF Reporting
      <3> QED
        BY <1>4, <2>3, <3>1 DEF Receiving, Reporting
    <2> QED
      BY <1>1, <1>4, <2>1, <2>2, <2>3 DEF Points, Receiving, Reporting
  <1>9. HandedOver(c, w, r)'
    <2>1. \A i \in 1..Len(fifo'[c]) : FALSE
      BY <1>2, <1>6
    <2> QED
      BY <1>2, <1>6, <1>7, <1>8, <2>1 DEF HandedOver, Holds, Receiving
  <1> QED
    BY <1>2, <1>9 DEF Delivering


\* One step of the channel of p: its message stays unannounced, is announced,
\* or goes on being delivered.
LEMMA ChannelStep ==
  ASSUME DriversTyped, NEW go \in SUBSET Movers, NEW enter, NEW fault \in BOOLEAN,
         NEW still \in BOOLEAN, DStep(go, enter, fault, still), fault => Faulting, still => excPend,
         DriversInv, AnnouncedInv, NEW p \in CPU
  PROVE  Unannounced(p)' \/ Delivering(p)'
PROOF
  <1>1. SenderInv(p) /\ SenderInv(Other(p)) /\ OneReport /\ (Unannounced(p) \/ Delivering(p))
    BY Channels DEF DriversInv
  <1>2. Announced(Out(p))
    BY Channels DEF AnnouncedInv
  <1>3. CASE Unannounced(p) /\ Done(p) = Len(Text(p)) + 2
    BY <1>1, <1>2, <1>3, DoorbellRings
  <1>4. CASE Unannounced(p) /\ Done(p) # Len(Text(p)) + 2
    BY <1>1, <1>4, WordsAreTaken
  <1>5. CASE Delivering(p)
    <2>1. \/ Unread(Out(p), Text(p), core[Other(p)])
          \/ BeingRead(Out(p), Text(p), core[Other(p)])
          \/ HandedOver(Out(p), Text(p), core[Other(p)])
      BY <1>5 DEF Delivering
    <2>2. CASE Unread(Out(p), Text(p), core[Other(p)])
      BY <1>1, <1>5, <2>2, UnreadGoesOn
    <2>3. CASE BeingRead(Out(p), Text(p), core[Other(p)])
      BY <1>1, <1>5, <2>3, BeingReadGoesOn
    <2>4. CASE HandedOver(Out(p), Text(p), core[Other(p)])
      BY <1>1, <1>5, <2>4, HandedOverStays
    <2> QED
      BY <2>1, <2>2, <2>3, <2>4
  <1> QED
    BY <1>1, <1>3, <1>4, <1>5

\* The inductive invariant is kept by every step of the drivers.
LEMMA DriversInvStays ==
  ASSUME RingGap >= SyncLat, DriversTyped, DriversInv, AnnouncedInv, [DNext]_dvars
  PROVE  DriversInv' /\ AnnouncedInv'
PROOF
  <1>1. CASE DNext
    <2>1. PICK go \in SUBSET Movers, enter \in [CPU -> Enters], fault \in BOOLEAN, still \in BOOLEAN :
            DStep(go, enter, fault, still) /\ (fault => Faulting) /\ (still => excPend)
      BY <1>1, DNextSteps DEF DriversTyped
    <2>2. \A p \in CPU : Unannounced(p)' \/ Delivering(p)'
      BY <2>1, ChannelStep
    <2>3. OneReport /\ \A p \in CPU : SenderInv(p)
      BY DEF DriversInv
    <2>4. OneReport'
      BY <2>1, <2>3, OneReportStays
    <2>5. \A p \in CPU : SenderInv(p)'
      BY <2>1, <2>3, SenderStep
    <2>6. AnnouncedInv'
      <3> SUFFICES ASSUME NEW c \in Chan
                   PROVE  Announced(c)'
        BY DEF AnnouncedInv
      <3>1. BusOfCores(go) \in [Chan -> Access]
        BY <2>1, BusCarries DEF DStep
      <3>2. Tick(BusOfCores(go)) /\ Disciplined(BusOfCores(go))
        BY <2>1 DEF DStep
      <3>3. TypeOK
        BY DEF DriversTyped, DTypeOK
      <3> QED
        BY <3>1, <3>2, <3>3, AnnouncedTick DEF AnnouncedInv
    <2> QED
      BY <2>2, <2>4, <2>5, <2>6 DEF DriversInv
  <1>2. CASE UNCHANGED dvars
    <2> USE <1>2 DEF dvars
    <2>1. AnnouncedInv'
      BY DEF AnnouncedInv, Announced, AgesFollowGap, AllVisible, IntFlag
    <2>2. \A p \in CPU : Text(p)' = Text(p) /\ Done(p)' = Done(p)
      BY DEF Text, Done
    <2>3. OneReport'
      BY DEF DriversInv, OneReport
    <2>4. \A p \in CPU : SenderInv(p)'
      BY <2>2 DEF DriversInv, SenderInv
    <2>5. ASSUME NEW p \in CPU
          PROVE  Unannounced(p)' \/ Delivering(p)'
      <3>1. CASE Unannounced(p)
        BY <2>2, <3>1 DEF Unannounced, Stored
      <3>2. CASE Delivering(p)
        <4>1. /\ Unread(Out(p), Text(p), core[Other(p)]) => Unread(Out(p), Text(p), core[Other(p)])'
              /\ BeingRead(Out(p), Text(p), core[Other(p)]) => BeingRead(Out(p), Text(p), core[Other(p)])'
              /\ HandedOver(Out(p), Text(p), core[Other(p)]) => HandedOver(Out(p), Text(p), core[Other(p)])'
          BY <2>2 DEF Unread, BeingRead, HandedOver, Holds
        <4> QED
          BY <2>2, <3>2, <4>1 DEF Delivering, AllVisible
      <3> QED
        BY <3>1, <3>2 DEF DriversInv
    <2> QED
      BY <2>1, <2>3, <2>4, <2>5 DEF DriversInv
  <1> QED
    BY <1>1, <1>2

\* It holds before the cores start.
LEMMA DriversInvStart ==
  ASSUME DInit, OneMessageEach, DriversTyped
  PROVE  DriversInv /\ AnnouncedInv
PROOF
  <1>1. \A c \in Chan : /\ fifo[c] = << >> /\ req[c] = NoAccess /\ ~rung[c]
                        /\ ~status[c].int /\ cstate[c] = "IDLE"
    BY DEF DInit, Init
  <1>2. \A p \in CPU : /\ core[p].todo = Message(sent[p]) /\ core[p].at = "main"
                       /\ core[p].inbox = << >> /\ outbox[p] = << >>
    BY DEF DInit
  <1>3. AnnouncedInv
    BY <1>1 DEF AnnouncedInv, Announced, AgesFollowGap, Writes, NoAccess
  <1>4. OneReport
    BY <1>2 DEF OneReport, OneMessageEach, DInit, CPU, Reporting
  <1>5. ASSUME NEW p \in CPU
        PROVE  SenderInv(p) /\ (Unannounced(p) \/ Delivering(p))
    <2>1. sent[p] \in Seq(Word) /\ Len(sent[p]) <= Depth
      BY DEF OneMessageEach, DriversTyped, DTypeOK
    <2>2. Done(p) = 0 /\ SenderInv(p)
      <3>1. CASE sent[p] = << >>
        <4>1. Done(p) = 0
          BY <1>2, <3>1 DEF Done, Reporting
        <4>2. Message(sent[p]) = << >> /\ Len(Text(p)) = 1
          BY <3>1 DEF Message, Text
        <4> QED
          BY <1>2, <2>1, <3>1, <4>1, <4>2 DEF SenderInv
      <3>2. CASE sent[p] # << >>
        <4>1. /\ Len(core[p].todo) = Len(sent[p]) + 2
              /\ \A i \in 1..Len(core[p].todo) : core[p].todo[i] = AccessOf(sent[p], i)
          BY <1>2, <2>1, <3>2, ProgramsFit, MessageIs DEF AccessOf, DriversTyped
        <4>2. Done(p) = 0 /\ Len(sent[p]) \in Nat \ {0} /\ Text(p) = sent[p]
          BY <2>1, <3>2, <4>1 DEF Done, Text
        <4>3. \A i \in 1..Len(core[p].todo) : Done(p) + i = i
          BY <4>2
        <4> QED
          BY <1>2, <2>1, <3>2, <4>1, <4>2, <4>3 DEF SenderInv
      <3> QED
        BY <3>1, <3>2
    <2>3. Unannounced(p)
      <3>1. Out(p) \in Chan /\ Other(p) \in CPU
        BY Channels
      <3>2. Len(Text(p)) # -2
        BY <2>2, TextIs
      <3>3. Stored(p) = 0
        BY <2>2 DEF Stored
      <3> QED
        BY <1>1, <1>2, <2>2, <3>1, <3>2, <3>3, TextIs DEF Unannounced, Receiving, NoAccess
    <2> QED
      BY <2>2, <2>3
  <1> QED
    BY <1>3, <1>4, <1>5 DEF DriversInv

\* What the inductive invariant says of the messages.
LEMMA IntactWhenInv ==
  ASSUME DriversTyped, DriversInv
  PROVE  MessagesIntact
PROOF
  <1> SUFFICES ASSUME NEW p \in CPU
               PROVE  IsPrefix(core[Other(p)].inbox, outbox[p])
    BY Channels DEF MessagesIntact
  <1> DEFINE r == core[Other(p)]
             w == Text(p)
  <1>1. outbox[p] \in Seq(Seq(Word))
    BY DEF DriversTyped, DTypeOK
  <1>2. SenderInv(p) /\ (Unannounced(p) \/ Delivering(p))
    BY DEF DriversInv
  <1>3. CASE r.inbox = << >>
    <2>1. Len(r.inbox) = 0 /\ SubSeq(r.inbox, 1, Len(r.inbox)) = << >>
          /\ SubSeq(outbox[p], 1, Len(r.inbox)) = << >>
      BY <1>1, <1>3
    <2> QED
      BY <1>1, <2>1 DEF IsPrefix
  <1>4. CASE r.inbox # << >>
    <2>1. r.inbox = <<w>> /\ Done(p) = Len(w) + 2
      BY <1>2, <1>4 DEF Unannounced, Delivering, Unread, BeingRead, HandedOver
    <2>2. Len(w) \in Nat
      BY <1>2, TextIs
    <2>3. outbox[p] = <<w>>
      <3>1. Done(p) > Len(w)
        BY <2>1, <2>2
      <3> QED
        BY <1>2, <3>1 DEF SenderInv
    <2> QED
      BY <1>1, <2>1, <2>3 DEF IsPrefix
  <1> QED
    BY <1>3, <1>4

\* However the two cores interleave, the message of each arrives whole, with its
\* own words and once, or has not arrived yet: when the doorbell of the second
\* core is not lost to the lag of the FIFO (RingGap), and each core has one
\* message at most, main's or the report of an exception.
THEOREM MessagesAreIntact ==
  ASSUME RingGap >= SyncLat
  PROVE  DSpec /\ OneMessageEach => []MessagesIntact
PROOF
  <1>1. DSpec => []DriversTyped
    BY DriversStayTyped
  <1>2. DInit /\ OneMessageEach /\ DriversTyped => DriversInv /\ AnnouncedInv
    BY DriversInvStart
  <1>3. DriversTyped /\ DriversInv /\ AnnouncedInv /\ [DNext]_dvars => DriversInv' /\ AnnouncedInv'
    BY DriversInvStays
  <1>4. DriversTyped /\ DriversInv => MessagesIntact
    BY IntactWhenInv
  <1> QED
    BY <1>1, <1>2, <1>3, <1>4, PTL DEF DSpec
-----------------------------------------------------------------------------
(* The drivers: exceptions are reported in order *)

\* The main programs send nothing: only exceptions are reported, no more of them
\* than the FIFO can hold.
ReportsOnly == sent = [p \in CPU |-> << >>] /\ Len(faults) <= Depth

\* Nothing moves on the channel to the REE.
NothingElse ==
  /\ \A p \in CPU : sent[p] = << >> /\ core[p].todo = << >>
  /\ core["tee"].at \notin Reporting /\ outbox["tee"] = << >>
  /\ core["ree"].at \notin Receiving /\ core["ree"].inbox = << >>
  /\ req[0].op # "write" /\ fifo[0] = << >> /\ ~status[0].int

\* Each report finds room: made, under way, on the line or still to come, there
\* are no more of them than the FIFO holds.
OneIf(b) == IF b THEN 1 ELSE 0
RoomForAll ==
  Len(outbox["ree"]) + OneIf(core["ree"].at \in {"excCtrl", "excData"}) + OneIf(excPend) + Len(faults)
    <= Depth

\* The lock never meets a word or a length of the handler, and CTRL says one
\* word.
ReportInv ==
  LET s == core["ree"]
      n == Len(outbox["ree"])
  IN /\ \A i \in 1..n : outbox["ree"][i] = <<outbox["ree"][i][1]>>
     /\ Writes(req[1], "DATA") => /\ s.at = "excRing" /\ n >= 1
                                  /\ req[1] = SendWrite(outbox["ree"][n][1])
     /\ Writes(req[1], "CTRL") => s.at = "excData" /\ req[1].data = CtrlFor(1)
     /\ Writes(req[1], "STATUS") => s.at = "main"
     /\ Locking(1) => ~Writes(req[1], "DATA") /\ ~Writes(req[1], "CTRL")
     /\ s.at = "excData" \/ n >= 1 => ctrl[1] = CtrlFor(1) \/ Writes(req[1], "CTRL")

\* The TEE's handler has a word to read, and reads it once.
ReaderInv ==
  LET r == core["tee"]
  IN /\ Reads(req[1], "DATA") => r.at = "gotData"
     /\ IntFlag(1) => ~Empty(1) \/ Reads(req[1], "DATA")
     /\ r.at \in {"readCtrl", "gotCtrl", "readData"} => ~Empty(1)
     /\ r.at \in {"readCtrl", "gotCtrl", "readData", "gotData"} => r.got = << >>
     /\ r.at \in {"readData", "gotData"} => r.left = 1

\* The reports in order: handed over, in the handler, in the FIFO, on the bus.
ReportsChain ==
  LET r == core["tee"]
      out == outbox["ree"]
      k == Len(core["tee"].inbox)
      h == OneIf(core["tee"].at \in {"gotData", "exit"})
      d == OneIf(Writes(req[1], "DATA"))
  IN /\ Len(out) = k + h + Len(fifo[1]) + d
     /\ \A i \in 1..k : r.inbox[i] = out[i]
     /\ r.at = "gotData" => dout[1] = out[k + 1][1]
     /\ r.at = "exit" => r.got = out[k + 1]
     /\ \A i \in 1..Len(fifo[1]) : fifo[1][i].word = out[k + h + i][1]

\* The inductive invariant behind ReportsAreIntact.
ReportsInv == NothingElse /\ RoomForAll /\ ReportInv /\ ReaderInv /\ ReportsChain

\* A cycle seen from the REE: its handler makes its next access, and nothing
\* else is written.
LEMMA ReportStep ==
  ASSUME DriversTyped, NEW go \in SUBSET Movers, NEW enter, NEW fault \in BOOLEAN,
         NEW still \in BOOLEAN, DStep(go, enter, fault, still), fault => Faulting, still => excPend,
         NothingElse
  PROVE  LET s == core["ree"]
             t == core'["ree"]
             bus == BusOfCores(go)
             out == outbox["ree"]
         IN  /\ bus \in [Chan -> Access] /\ Tick(bus) /\ req' = bus
             /\ bus[0].op # "write"
             /\ Reads(bus[1], "DATA") <=> "tee" \in go /\ core["tee"].at = "readData"
             /\ \/ "ree" \in go /\ s.at = "excCtrl" /\ t.at = "excData" /\ bus[1] = ConfigWrite(1)
                \/ "ree" \in go /\ s.at = "excData" /\ t.at = "excRing" /\ bus[1] = SendWrite(excAddr)
                \/ "ree" \in go /\ s.at = "excRing" /\ t.at = "main" /\ bus[1] = PutIntr
                \/ "ree" \notin go /\ bus[1].op # "write" /\ t.at = s.at
                \/ "ree" \notin go /\ bus[1].op # "write" /\ s.at = "main" /\ t.at = "excCtrl" /\ excPend
             /\ s.at \in Reporting \cup {"main"} /\ t.inbox = s.inbox
             /\ out' = IF "ree" \in go /\ s.at = "excData" THEN Append(out, <<excAddr>>) ELSE out
             /\ outbox'["tee"] = outbox["tee"]
PROOF
  <1> DEFINE s == core["ree"]
             t == core'["ree"]
             r == core["tee"]
             bus == BusOfCores(go)
  <1>1. /\ "ree" \in CPU /\ "tee" \in CPU /\ Other("ree") = "tee" /\ Other("tee") = "ree"
        /\ Out("ree") = 1 /\ Out("tee") = 0 /\ In("ree") = 0 /\ In("tee") = 1
    BY DEF CPU, Other, Out, In, Peer
  <1>2. s.at \in Points /\ r.at \in Points
    BY <1>1, CoreFields DEF DriversTyped
  <1>3. /\ s.todo = << >> /\ r.todo = << >> /\ r.at \notin Reporting /\ s.at \notin Receiving
        /\ s.inbox = << >> /\ ~status[0].int /\ outbox["tee"] = << >>
    BY <1>1 DEF NothingElse
  <1>4. "ree" \in go => s.at \in Reporting
    BY <1>1, <1>2, <1>3, CoreStep DEF Receiving, Points
  <1>5. "tee" \in go => r.at \in {"readCtrl", "readData"}
    BY <1>1, <1>2, <1>3, CoreStep
  <1>6. "ree" \in go => NextAccess("ree") = CASE s.at = "excCtrl" -> ConfigWrite(1)
                                              [] s.at = "excData" -> SendWrite(excAddr)
                                              [] s.at = "excRing" -> PutIntr
    BY <1>1, <1>4, NextIs DEF Reporting
  <1>7. "tee" \in go => NextAccess("tee") = IF r.at = "readCtrl" THEN ReadOf("CTRL") ELSE ReadOf("DATA")
    BY <1>1, <1>5, NextIs
  <1>8. "ree" \in go => NextAccess("ree").op = "write"
    BY <1>4, <1>6 DEF ConfigWrite, SendWrite, PutIntr, Reporting
  <1>9. "tee" \in go => NextAccess("tee").op = "read"
    BY <1>7 DEF ReadOf
  <1>10. /\ bus \in [Chan -> Access] /\ Tick(bus)
         /\ "ree" \in go /\ NextAccess("ree").op = "write" => bus[1] = NextAccess("ree")
         /\ ~("ree" \in go /\ NextAccess("ree").op = "write") => bus[1].op # "write"
         /\ "tee" \in go /\ NextAccess("tee").op = "read" => bus[1] = NextAccess("tee")
         /\ ~("tee" \in go /\ NextAccess("tee").op = "read") => bus[1].op # "read"
         /\ ~("tee" \in go /\ NextAccess("tee").op = "write") => bus[0].op # "write"
    <2>1. LET c == Out("ree")
              q == Other("ree")
          IN  /\ bus \in [Chan -> Access] /\ Tick(bus)
              /\ "ree" \in go /\ NextAccess("ree").op = "write" => bus[c] = NextAccess("ree")
              /\ ~("ree" \in go /\ NextAccess("ree").op = "write") => bus[c].op # "write"
              /\ q \in go /\ NextAccess(q).op = "read" => bus[c] = NextAccess(q)
              /\ ~(q \in go /\ NextAccess(q).op = "read") => bus[c].op # "read"
      BY <1>1, ChannelCarries
    <2>2. ~("tee" \in go /\ NextAccess("tee").op = "write") => bus[Out("tee")].op # "write"
      BY <1>1, ChannelCarries
    <2> QED
      BY <1>1, <2>1, <2>2
  <1>11. Written("tee") = << >>
    <2>1. Len(r.todo) # 2
      BY <1>3
    <2> QED
      BY <1>3, <2>1 DEF Written, Reporting
  <1>12. Written("ree") = IF s.at = "excData" THEN <<excAddr>> ELSE << >>
    <2>1. Len(s.todo) # 2
      BY <1>3
    <2> QED
      BY <2>1 DEF Written
  <1>13. /\ outbox'["ree"] = IF "ree" \in go /\ s.at = "excData" THEN Append(outbox["ree"], <<excAddr>>)
                             ELSE outbox["ree"]
         /\ outbox'["tee"] = outbox["tee"]
    <2>1. outbox' = [p \in CPU |-> IF p \in go /\ Written(p) # << >>
                                   THEN Append(outbox[p], Written(p)) ELSE outbox[p]]
      BY DEF DStep
    <2> HIDE DEF s, t, r, bus
    <2>2. /\ outbox'["ree"] = IF "ree" \in go /\ Written("ree") # << >>
                              THEN Append(outbox["ree"], Written("ree")) ELSE outbox["ree"]
          /\ outbox'["tee"] = IF "tee" \in go /\ Written("tee") # << >>
                              THEN Append(outbox["tee"], Written("tee")) ELSE outbox["tee"]
      BY <1>1, <2>1
    <2>3. <<excAddr>> # << >>
      OBVIOUS
    <2> QED
      BY <1>11, <1>12, <2>2, <2>3
  <1>14. req' = bus
    BY <1>10 DEF Tick
  <1>15. ~IntFlag(In("ree"))
    BY <1>1, <1>3 DEF IntFlag
  <1>16. Reads(bus[1], "DATA") <=> "tee" \in go /\ r.at = "readData"
    BY <1>5, <1>7, <1>9, <1>10 DEF Reads, ReadOf
  <1>17. s.at \in Reporting \cup {"main"} /\ t.inbox = s.inbox
    <2>1. s.at \in Reporting \cup {"main"}
      BY <1>2, <1>3 DEF Points, Reporting, Receiving
    <2> QED
      BY <1>1, <2>1, CoreStep
  <1>18. \/ "ree" \in go /\ s.at = "excCtrl" /\ t.at = "excData" /\ bus[1] = ConfigWrite(1)
         \/ "ree" \in go /\ s.at = "excData" /\ t.at = "excRing" /\ bus[1] = SendWrite(excAddr)
         \/ "ree" \in go /\ s.at = "excRing" /\ t.at = "main" /\ bus[1] = PutIntr
         \/ "ree" \notin go /\ bus[1].op # "write" /\ t.at = s.at
         \/ "ree" \notin go /\ bus[1].op # "write" /\ s.at = "main" /\ t.at = "excCtrl" /\ excPend
    <2>1. CASE "ree" \in go
      <3>1. /\ s.at = "excCtrl" => t.at = "excData"
            /\ s.at = "excData" => t.at = "excRing"
            /\ s.at = "excRing" => t.at = "main"
        <4>1. "ree" \in CPU /\ s.at \in Reporting
          BY <1>1, <1>4, <2>1
        <4>2. /\ "ree" \in go /\ s.at = "excCtrl" => t.at = "excData"
              /\ "ree" \in go /\ s.at = "excData" => t.at = "excRing"
              /\ "ree" \in go /\ s.at = "excRing" => t.at = "main"
          BY <4>1, CoreStep
        <4> QED
          BY <2>1, <4>2
      <3> HIDE DEF s, t, r, bus
      <3> QED
        BY <1>4, <1>6, <1>8, <1>10, <2>1, <3>1 DEF Reporting
    <2>2. CASE "ree" \notin go
      <3>1. bus[1].op # "write"
        BY <1>10, <2>2
      <3>2. CASE s.at = "main"
        <4>1. t.at = "main" \/ (t.at = "excCtrl" /\ excPend) \/ IntFlag(In("ree"))
          BY <1>1, <3>2, CoreStep
        <4> QED
          BY <1>15, <2>2, <3>1, <3>2, <4>1
      <3>3. CASE s.at \in Reporting
        <4>1. t.at = s.at
          BY <1>1, <2>2, <3>3, CoreStep
        <4> QED
          BY <2>2, <3>1, <4>1
      <3> QED
        BY <1>17, <3>2, <3>3
    <2> QED
      BY <2>1, <2>2
  <1> QED
    BY <1>9, <1>10, <1>13, <1>14, <1>16, <1>17, <1>18

\* The channel to the REE stays quiet.
LEMMA NothingElseStays ==
  ASSUME DriversTyped, NEW go \in SUBSET Movers, NEW enter, NEW fault \in BOOLEAN,
         NEW still \in BOOLEAN, DStep(go, enter, fault, still), fault => Faulting, still => excPend,
         NothingElse
  PROVE  NothingElse'
PROOF
  <1> DEFINE bus == BusOfCores(go)
  <1>1. /\ "ree" \in CPU /\ "tee" \in CPU /\ 0 \in Chan /\ TypeOK
        /\ core["tee"].at \in Points
    BY CoreFields DEF CPU, Chan, DriversTyped, DTypeOK
  <1>2. /\ bus \in [Chan -> Access] /\ Tick(bus) /\ ClockFifo(bus) /\ req' = bus /\ bus[0].op # "write"
    <2>1. bus \in [Chan -> Access] /\ Tick(bus) /\ req' = bus /\ bus[0].op # "write"
      BY ReportStep
    <2> QED
      BY <2>1 DEF Tick
  <1>3. req[0].op # "write" /\ fifo[0] = << >>
    BY DEF NothingElse
  <1>4. ~Pushes(0)
    BY <1>3 DEF Pushes, Accepts, Writes
  <1>5. fifo'[0] = << >>
    <2>1. fifo'[0] = NFifo(0, bus[0]) /\ ~Pops(0, bus[0])
      BY <1>1, <1>2, <1>3 DEF ClockFifo, Pops, Empty
    <2>2. Len(fifo'[0]) = Len(fifo[0])
      BY <1>1, <1>2, <1>3, <1>4, HoldsOn
    <2>3. TypeOK'
      BY <1>1, <1>2, TickType
    <2>4. fifo'[0] \in Seq(Entry)
      BY <1>1, <2>3 DEF TypeOK
    <2> QED
      BY <1>3, <2>2, <2>4
  <1>6. ~status'[0].int
    BY <1>1, <1>2, <1>3 DEF Tick, NStatus, Empty
  <1>7. \A p \in CPU : sent'[p] = << >> /\ core'[p].todo = << >>
    <2>1. \A p \in CPU : sent[p] = << >> /\ core[p].todo = << >> /\ sent' = sent
      BY DEF NothingElse, DStep
    <2>2. ASSUME NEW p \in CPU
          PROVE  core'[p].todo = << >>
      <3>1. /\ core'[p].todo = IF p \in go /\ core[p].at = "main" THEN Tail(core[p].todo) ELSE core[p].todo
            /\ p \in go /\ core[p].at = "main" => core[p].todo # << >>
        BY CoreStep
      <3> QED
        BY <2>1, <3>1
    <2> QED
      BY <2>1, <2>2
  <1>8. core'["tee"].at \notin Reporting
    <2>1. core["tee"].at \notin Reporting
      BY DEF NothingElse
    <2>2. CASE core["tee"].at = "main"
      BY <1>1, <2>2, CoreStep DEF Reporting
    <2>3. CASE core["tee"].at \in {"readCtrl", "readData"}
      BY <1>1, <2>3, CoreStep DEF Reporting
    <2>4. CASE core["tee"].at \in {"gotCtrl", "gotData", "exit"}
      BY <1>1, <2>4, CoreStep DEF Reporting
    <2> QED
      BY <1>1, <2>1, <2>2, <2>3, <2>4 DEF Points, Reporting
  <1>9. /\ core'["ree"].at \notin Receiving /\ core'["ree"].inbox = << >>
        /\ outbox'["tee"] = << >>
    BY ReportStep DEF NothingElse, Receiving, Reporting
  <1> QED
    BY <1>2, <1>5, <1>6, <1>7, <1>8, <1>9 DEF NothingElse

\* No report too many: a fault becomes a raised line, a taken line a report, and
\* a report a message.
LEMMA RoomStays ==
  ASSUME DriversTyped, NEW go \in SUBSET Movers, NEW enter, NEW fault \in BOOLEAN,
         NEW still \in BOOLEAN, DStep(go, enter, fault, still), fault => Faulting, still => excPend,
         NothingElse, RoomForAll
  PROVE  RoomForAll'
PROOF
  <1> DEFINE s == core["ree"]
             t == core'["ree"]
             n == Len(outbox["ree"])
             m == Len(outbox'["ree"])
             f == Len(faults)
             g == Len(faults')
             b == OneIf(s.at \in {"excCtrl", "excData"})
             d == OneIf(t.at \in {"excCtrl", "excData"})
             e == OneIf(excPend)
             h == OneIf(excPend')
  <1>1. faults \in Seq(Word) /\ outbox["ree"] \in Seq(Seq(Word)) /\ Depth \in Nat
        /\ excAddr \in Word \cup {Dout0}
    BY FifoAssumption DEF DriversTyped, DTypeOK, CPU
  <1>2. /\ n \in Nat /\ f \in Nat /\ b \in {0, 1} /\ d \in {0, 1} /\ e \in {0, 1} /\ h \in {0, 1}
        /\ n + b + e + f <= Depth
    <2>1. n \in Nat /\ f \in Nat
      BY <1>1
    <2>2. n + b + e + f <= Depth
      BY DEF RoomForAll
    <2> HIDE DEF n, f
    <2> QED
      BY <2>1, <2>2 DEF OneIf
  <1>3. /\ fault => "ree" \notin go /\ t.at = s.at /\ s.at = "main" /\ faults # << >>
        /\ faults' = IF fault THEN Tail(faults) ELSE faults
        /\ excPend' = (fault \/ (still /\ t.at # "excCtrl"))
    BY DEF DStep, Faulting
  <1>4. /\ \/ "ree" \in go /\ s.at = "excCtrl" /\ t.at = "excData"
           \/ "ree" \in go /\ s.at = "excData" /\ t.at = "excRing"
           \/ "ree" \in go /\ s.at = "excRing" /\ t.at = "main"
           \/ "ree" \notin go /\ t.at = s.at
           \/ "ree" \notin go /\ s.at = "main" /\ t.at = "excCtrl" /\ excPend
        /\ outbox'["ree"] = IF "ree" \in go /\ s.at = "excData" THEN Append(outbox["ree"], <<excAddr>>)
                            ELSE outbox["ree"]
    BY ReportStep
  <1>5. g = IF fault THEN f - 1 ELSE f
    BY <1>1, <1>3
  <1>6. m = IF "ree" \in go /\ s.at = "excData" THEN n + 1 ELSE n
    BY <1>1, <1>4
  <1>7. /\ h = IF fault \/ (still /\ t.at # "excCtrl") THEN 1 ELSE 0
        /\ e = IF excPend THEN 1 ELSE 0
        /\ b = IF s.at \in {"excCtrl", "excData"} THEN 1 ELSE 0
        /\ d = IF t.at \in {"excCtrl", "excData"} THEN 1 ELSE 0
    BY <1>3 DEF OneIf
  <1>8. RoomForAll' <=> m + d + h + g <= Depth
    BY DEF RoomForAll
  <1> HIDE DEF s, t, n, m, f, g, b, d, e, h
  <1>9. CASE fault
    <2>1. m = n /\ g = f - 1 /\ d = b /\ h = 1 /\ b = 0
      BY <1>3, <1>5, <1>6, <1>7, <1>9
    <2> QED
      BY <1>1, <1>2, <1>8, <2>1
  <1>10. CASE ~fault
    <2>1. g = f /\ (h = 1 => e = 1 /\ t.at # "excCtrl")
      BY <1>2, <1>5, <1>7, <1>10
    <2>2. m + d + h <= n + b + e
      BY <1>2, <1>4, <1>6, <1>7, <2>1
    <2>3. m \in Nat
      BY <1>2, <1>6
    <2> QED
      BY <1>1, <1>2, <1>8, <2>1, <2>2, <2>3
  <1> QED
    BY <1>9, <1>10

\* No word and no length that the handler writes is dropped: they come at least
\* two cycles after the doorbell before them, and its lock is over by then.
LEMMA ReportStays ==
  ASSUME DriversTyped, NEW go \in SUBSET Movers, NEW enter, NEW fault \in BOOLEAN,
         NEW still \in BOOLEAN, DStep(go, enter, fault, still), fault => Faulting, still => excPend,
         NothingElse, ReportInv
  PROVE  ReportInv'
PROOF
  <1> DEFINE s == core["ree"]
             t == core'["ree"]
             out == outbox["ree"]
             new == outbox'["ree"]
             n == Len(out)
             m == Len(new)
             bus == BusOfCores(go)
  <1>1. /\ 1 \in Chan /\ 0 \in Chan /\ TypeOK /\ out \in Seq(Seq(Word)) /\ n \in Nat
    BY DEF Chan, CPU, DriversTyped, DTypeOK
  <1>2. /\ bus \in [Chan -> Access] /\ Tick(bus) /\ req' = bus
        /\ \/ "ree" \in go /\ s.at = "excCtrl" /\ t.at = "excData" /\ bus[1] = ConfigWrite(1)
           \/ "ree" \in go /\ s.at = "excData" /\ t.at = "excRing" /\ bus[1] = SendWrite(excAddr)
           \/ "ree" \in go /\ s.at = "excRing" /\ t.at = "main" /\ bus[1] = PutIntr
           \/ "ree" \notin go /\ bus[1].op # "write" /\ t.at = s.at
           \/ "ree" \notin go /\ bus[1].op # "write" /\ s.at = "main" /\ t.at = "excCtrl"
        /\ new = IF "ree" \in go /\ s.at = "excData" THEN Append(out, <<excAddr>>) ELSE out
    BY ReportStep
  <1>4. /\ \A i \in 1..n : out[i] = <<out[i][1]>>
        /\ Writes(req[1], "DATA") => s.at = "excRing"
        /\ Writes(req[1], "CTRL") => s.at = "excData" /\ req[1].data = CtrlFor(1)
        /\ Writes(req[1], "STATUS") => s.at = "main"
        /\ Locking(1) => ~Writes(req[1], "CTRL")
        /\ s.at = "excData" \/ n >= 1 => ctrl[1] = CtrlFor(1) \/ Writes(req[1], "CTRL")
    BY DEF ReportInv
  <1>6. ctrl'[1] = IF Writes(req[1], "CTRL") THEN CtrlFor(1) ELSE ctrl[1]
    <2>1. ctrl'[1] = IF Accepts(1, "CTRL") THEN req[1].data ELSE ctrl[1]
      BY <1>1, <1>2 DEF Tick
    <2>2. Accepts(1, "CTRL") <=> Writes(req[1], "CTRL")
      BY <1>4 DEF Accepts, Writes
    <2> QED
      BY <1>4, <2>1, <2>2
  <1> HIDE DEF s, t, out, new, n, m, bus
  <1>7. /\ Writes(bus[1], "DATA") <=> "ree" \in go /\ s.at = "excData"
        /\ Writes(bus[1], "CTRL") => t.at = "excData" /\ bus[1].data = CtrlFor(1)
        /\ Writes(bus[1], "STATUS") => s.at = "excRing" /\ t.at = "main"
        /\ "ree" \in go /\ s.at = "excCtrl" => Writes(bus[1], "CTRL")
        /\ "ree" \in go /\ s.at = "excData" => bus[1] = SendWrite(excAddr) /\ t.at = "excRing"
    BY <1>2 DEF Writes, ConfigWrite, SendWrite, PutIntr
  <1>8. Locking(1)' => ~Writes(bus[1], "DATA") /\ ~Writes(bus[1], "CTRL")
    <2> SUFFICES ASSUME Writes(bus[1], "DATA") \/ Writes(bus[1], "CTRL")
                 PROVE  ~Locking(1)'
      OBVIOUS
    <2>1. s.at \in {"excCtrl", "excData"}
      BY <1>2 DEF Writes, PutIntr
    <2>2. ~Writes(req[1], "DATA") /\ ~Writes(req[1], "STATUS")
      BY <1>4, <2>1
    <2>3. IntFlag(1)' => IntFlag(1)
      BY <1>1, <1>2, <2>2 DEF Tick, NStatus, Accepts, IntFlag
    <2>4. cstate'[1] = "WRITE" => ~IntFlag(1)
      BY <1>1, <1>2, <2>2 DEF Tick, NState, Accepts, Locking
    <2>5. Empty(Peer(1))'
      BY NothingElseStays DEF NothingElse, Empty, Peer
    <2> QED
      BY <2>3, <2>4, <2>5 DEF Locking
  <1>9. /\ m \in Nat /\ n <= m
        /\ \A i \in 1..m : new[i] = <<new[i][1]>>
        /\ "ree" \in go /\ s.at = "excData" => m >= 1 /\ new[m] = <<excAddr>>
        /\ m >= 1 => n >= 1 \/ s.at = "excData"
    <2>1. CASE "ree" \in go /\ s.at = "excData"
      <3>0. excAddr \in Word
        <4>1. ReadsOwn("ree")
          BY DEF DriversTyped, CPU
        <4> QED
          BY <2>1, <4>1 DEF ReadsOwn, Reporting, s
      <3>1. <<excAddr>> \in Seq(Word)
        BY <2>1, <3>0
      <3>2. /\ m = n + 1 /\ new[n + 1] = <<excAddr>>
            /\ \A i \in 1..n : new[i] = out[i]
        BY <1>1, <1>2, <2>1, <3>1 DEF m, n
      <3>3. \A i \in 1..m : i \in 1..n \/ i = n + 1
        BY <1>1, <3>2
      <3>4. <<excAddr>> = <<(<<excAddr>>[1])>>
        OBVIOUS
      <3>5. new[n + 1] = <<new[n + 1][1]>>
        BY <3>2, <3>4
      <3>6. \A i \in 1..m : new[i] = <<new[i][1]>>
        BY <1>4, <3>2, <3>3, <3>5
      <3>7. m \in Nat /\ n <= m /\ m >= 1
        BY <1>1, <3>2
      <3> QED
        BY <2>1, <3>2, <3>6, <3>7
    <2>2. CASE ~("ree" \in go /\ s.at = "excData")
      <3>1. new = out /\ m = n
        BY <1>2, <2>2 DEF m, n
      <3> QED
        BY <1>1, <1>4, <2>2, <3>1
    <2> QED
      BY <2>1, <2>2
  <1>10. t.at = "excData" \/ m >= 1 => ctrl'[1] = CtrlFor(1) \/ Writes(bus[1], "CTRL")
    <2>1. s.at = "excData" \/ n >= 1 => ctrl'[1] = CtrlFor(1)
      BY <1>4, <1>6
    <2>2. t.at = "excData" => s.at = "excData" \/ Writes(bus[1], "CTRL")
      BY <1>2, <1>7
    <2> QED
      BY <1>9, <2>1, <2>2
  <1>11. Writes(bus[1], "DATA") => /\ t.at = "excRing" /\ m >= 1
                                   /\ bus[1] = SendWrite(new[m][1])
    <2>1. <<excAddr>>[1] = excAddr
      OBVIOUS
    <2> QED
      BY <1>7, <1>9, <2>1
  <1> QED
    BY <1>2, <1>7, <1>8, <1>9, <1>10, <1>11 DEF ReportInv, s, t, new, n, m, bus

\* A cycle seen from the TEE: its handler is entered for a word it can read,
\* reads that word, and hands it over.
LEMMA ReaderStep ==
  ASSUME DriversTyped, NEW go \in SUBSET Movers, NEW enter, NEW fault \in BOOLEAN,
         NEW still \in BOOLEAN, DStep(go, enter, fault, still), fault => Faulting, still => excPend,
         ReportsInv
  PROVE  LET r == core["tee"]
             u == core'["tee"]
             reads == Reads(BusOfCores(go)[1], "DATA")
         IN  /\ r.at # "exit" => u.inbox = r.inbox
             /\ reads <=> r.at = "readData" /\ u.at = "gotData"
             /\ \/ r.at = "main" /\ u.at = "main"
                \/ r.at = "main" /\ u.at = "readCtrl" /\ u.got = << >> /\ ~Empty(1)
                \/ r.at = "readCtrl" /\ u.at \in {"readCtrl", "gotCtrl"} /\ u.got = << >>
                \/ r.at = "gotCtrl" /\ u.at = "readData" /\ u.got = << >> /\ u.left = 1
                \/ r.at = "readData" /\ u.at \in {"readData", "gotData"} /\ u.got = << >> /\ u.left = 1
                \/ r.at = "gotData" /\ u.at = "exit" /\ u.got = <<dout[1]>>
                \/ r.at = "exit" /\ u.at = "main" /\ u.inbox = Append(r.inbox, r.got)
PROOF
  <1> DEFINE r == core["tee"]
             u == core'["tee"]
             reads == Reads(BusOfCores(go)[1], "DATA")
  <1>1. "tee" \in CPU /\ In("tee") = 1 /\ r.at \in Points /\ 1 \in Chan
    <2>1. "tee" \in CPU
      BY DEF CPU
    <2> QED
      BY <2>1, CoreFields DEF DriversTyped, In, Out, Peer, Chan
  <1>2. /\ r.at \notin Reporting
        /\ Reads(req[1], "DATA") => r.at = "gotData"
        /\ IntFlag(1) => ~Empty(1) \/ Reads(req[1], "DATA")
        /\ r.at \in {"readCtrl", "gotCtrl", "readData"} => ~Empty(1)
        /\ r.at \in {"readCtrl", "gotCtrl", "readData", "gotData"} => r.got = << >>
        /\ r.at \in {"readData", "gotData"} => r.left = 1
    BY DEF ReportsInv, NothingElse, ReaderInv
  <1>3. reads <=> "tee" \in go /\ r.at = "readData"
    BY ReportStep DEF ReportsInv
  <1>4. CASE r.at = "main"
    <2>1. /\ u.inbox = r.inbox
          /\ u.at = "main" \/ (u.at = "readCtrl" /\ u.got = << >> /\ IntFlag(In("tee")))
      BY <1>1, <1>4, CoreStep
    <2> QED
      BY <1>1, <1>2, <1>3, <1>4, <2>1
  <1>5. CASE r.at = "readCtrl"
    <2>1. /\ u.left = r.left /\ u.got = r.got /\ u.inbox = r.inbox
          /\ u.at = IF "tee" \notin go THEN r.at
                    ELSE IF r.at = "readCtrl" THEN "gotCtrl" ELSE "gotData"
      <3>1. "tee" \in CPU /\ r.at \in {"readCtrl", "readData"}
        BY <1>1, <1>5
      <3> QED
        BY <3>1, CoreStep
    <2> QED
      BY <1>2, <1>3, <1>5, <2>1
  <1>6. CASE r.at = "readData"
    <2>1. /\ u.left = r.left /\ u.got = r.got /\ u.inbox = r.inbox
          /\ u.at = IF "tee" \notin go THEN r.at
                    ELSE IF r.at = "readCtrl" THEN "gotCtrl" ELSE "gotData"
      <3>1. "tee" \in CPU /\ r.at \in {"readCtrl", "readData"}
        BY <1>1, <1>6
      <3> QED
        BY <3>1, CoreStep
    <2>2. u.left = 1 /\ u.got = << >> /\ u.inbox = r.inbox
      BY <1>2, <1>6, <2>1
    <2>3. u.at \in {"readData", "gotData"} /\ (u.at = "gotData" <=> "tee" \in go)
      BY <1>6, <2>1
    <2>4. Reads(BusOfCores(go)[1], "DATA") <=> u.at = "gotData"
      BY <1>3, <1>6, <2>3
    <2> QED
      BY <1>6, <2>2, <2>3, <2>4
  <1>7. CASE r.at = "gotCtrl"
    <2>1. /\ u.left = LenOf(ctrl[In("tee")]) /\ u.got = r.got /\ u.inbox = r.inbox
          /\ u.at = IF u.left = 0 THEN "exit" ELSE "readData"
      BY <1>1, <1>7, CoreStep
    <2>2. LenOf(ctrl[1]) = 1
      <3>1. req[In("tee")] = ReadOf("CTRL")
        BY <1>1, <1>7 DEF DriversTyped, ReadsOwn
      <3>2. ~Writes(req[1], "CTRL") /\ ~Writes(req[1], "DATA")
        BY <1>1, <3>1 DEF ReadOf, Writes
      <3>3. Len(outbox["ree"]) >= 1
        <4>1. fifo[1] # << >> /\ fifo[1] \in Seq(Entry) /\ r.inbox \in Seq(Seq(Word \cup {Dout0}))
          BY <1>1, <1>2, <1>7, CoreFields DEF Empty, DriversTyped, DTypeOK, TypeOK
        <4>2. Len(fifo[1]) \in Nat \ {0} /\ Len(r.inbox) \in Nat
          BY <4>1
        <4>3. Len(outbox["ree"]) = Len(r.inbox) + 0 + Len(fifo[1]) + 0
          BY <1>7, <3>2 DEF ReportsInv, ReportsChain, OneIf
        <4>4. \A a \in Nat, b \in Nat \ {0} : a + 0 + b + 0 >= 1
          OBVIOUS
        <4> QED
          BY <4>2, <4>3, <4>4
      <3>4. ctrl[1] = CtrlFor(1)
        BY <3>2, <3>3 DEF ReportsInv, ReportInv
      <3> QED
        BY <3>4, LengthAssumption
    <2> QED
      BY <1>1, <1>2, <1>3, <1>7, <2>1, <2>2
  <1>8. CASE r.at = "gotData"
    <2>1. /\ u.left = r.left - 1 /\ u.got = Append(r.got, dout[In("tee")]) /\ u.inbox = r.inbox
          /\ u.at = IF u.left = 0 THEN "exit" ELSE "readData"
      BY <1>1, <1>8, CoreStep
    <2>4. r.left = 1 /\ r.got = << >>
      BY <1>2, <1>8
    <2>5. u.left = 0
      BY <2>1, <2>4
    <2>2. u.left = 0 /\ u.got = Append(<< >>, dout[1])
      BY <1>1, <2>1, <2>4, <2>5
    <2>3. Append(<< >>, dout[1]) = <<dout[1]>>
      OBVIOUS
    <2> QED
      BY <1>3, <1>8, <2>1, <2>2, <2>3
  <1>9. CASE r.at = "exit"
    <2>1. u.at = "main" /\ u.inbox = Append(r.inbox, r.got)
      BY <1>1, <1>9, CoreStep
    <2> QED
      BY <1>3, <1>9, <2>1
  <1> QED
    BY <1>1, <1>2, <1>4, <1>5, <1>6, <1>7, <1>8, <1>9 DEF Points, Reporting

\* The handler of the TEE still has a word to read whenever it reads.
LEMMA ReaderStays ==
  ASSUME DriversTyped, NEW go \in SUBSET Movers, NEW enter, NEW fault \in BOOLEAN,
         NEW still \in BOOLEAN, DStep(go, enter, fault, still), fault => Faulting, still => excPend,
         ReportsInv
  PROVE  ReaderInv'
PROOF
  <1> DEFINE r == core["tee"]
             u == core'["tee"]
             bus == BusOfCores(go)
  <1>1. 1 \in Chan /\ TypeOK
    BY DEF Chan, DriversTyped, DTypeOK
  <1>2. bus \in [Chan -> Access] /\ Tick(bus) /\ req' = bus
    BY ReportStep DEF ReportsInv
  <1>3. ClockFifo(bus)
    BY <1>2 DEF Tick
  <1>4. /\ Reads(bus[1], "DATA") <=> r.at = "readData" /\ u.at = "gotData"
        /\ \/ r.at = "main" /\ u.at = "main"
           \/ r.at = "main" /\ u.at = "readCtrl" /\ u.got = << >> /\ ~Empty(1)
           \/ r.at = "readCtrl" /\ u.at \in {"readCtrl", "gotCtrl"} /\ u.got = << >>
           \/ r.at = "gotCtrl" /\ u.at = "readData" /\ u.got = << >> /\ u.left = 1
           \/ r.at = "readData" /\ u.at \in {"readData", "gotData"} /\ u.got = << >> /\ u.left = 1
           \/ r.at = "gotData" /\ u.at = "exit" /\ u.got = <<dout[1]>>
           \/ r.at = "exit" /\ u.at = "main" /\ u.inbox = Append(r.inbox, r.got)
    BY ReaderStep
  <1>5. r.at \in {"readCtrl", "gotCtrl", "readData"} => ~Empty(1)
    BY DEF ReportsInv, ReaderInv
  <1>6. IntFlag(1)' => ~Empty(1)' \/ Reads(req[1], "DATA")'
    BY <1>1, <1>2, HasWordTick
  <1>7. ~Empty(1) => Reads(bus[1], "DATA") \/ ~Empty(1)'
    BY <1>1, <1>2, <1>3, WordStays
  <1>8. Reads(req[1], "DATA")' <=> Reads(bus[1], "DATA")
    BY <1>2
  <1> HIDE DEF r, u, bus
  <1>9. u.at \in {"readCtrl", "gotCtrl", "readData"} => ~Empty(1)'
    BY <1>4, <1>5, <1>7
  <1>10. /\ u.at \in {"readCtrl", "gotCtrl", "readData", "gotData"} => u.got = << >>
         /\ u.at \in {"readData", "gotData"} => u.left = 1
    BY <1>4
  <1>11. Reads(req[1], "DATA")' => u.at = "gotData"
    BY <1>4, <1>8
  <1> QED
    BY <1>6, <1>9, <1>10, <1>11 DEF ReaderInv, u

\* The reports stay in order, and none is lost on the way.
LEMMA ChainStays ==
  ASSUME DriversTyped, NEW go \in SUBSET Movers, NEW enter, NEW fault \in BOOLEAN,
         NEW still \in BOOLEAN, DStep(go, enter, fault, still), fault => Faulting, still => excPend,
         ReportsInv
  PROVE  ReportsChain'
PROOF
  <1> DEFINE s == core["ree"]
             r == core["tee"]
             u == core'["tee"]
             out == outbox["ree"]
             new == outbox'["ree"]
             n == Len(out)
             m == Len(new)
             k == Len(r.inbox)
             l == Len(u.inbox)
             h == OneIf(r.at \in {"gotData", "exit"})
             g == OneIf(u.at \in {"gotData", "exit"})
             d == OneIf(Writes(req[1], "DATA"))
             e == OneIf(Writes(req'[1], "DATA"))
             f == Len(fifo[1])
             y == Len(fifo'[1])
             bus == BusOfCores(go)
             z == OneIf(Reads(bus[1], "DATA"))
  <1>1. /\ 1 \in Chan /\ TypeOK /\ out \in Seq(Seq(Word)) /\ n \in Nat
        /\ r.inbox \in Seq(Seq(Word \cup {Dout0})) /\ k \in Nat
        /\ Depth \in Nat
    <2>1. 1 \in Chan /\ TypeOK /\ "tee" \in CPU /\ "ree" \in CPU
      BY DEF Chan, CPU, DriversTyped, DTypeOK
    <2>2. out \in Seq(Seq(Word)) /\ r.inbox \in Seq(Seq(Word \cup {Dout0}))
      BY <2>1, CoreFields DEF DriversTyped, DTypeOK
    <2> QED
      BY <2>1, <2>2, FifoAssumption
  <1>2. /\ bus \in [Chan -> Access] /\ Tick(bus) /\ req' = bus
        /\ \/ "ree" \in go /\ s.at = "excCtrl" /\ bus[1] = ConfigWrite(1)
           \/ "ree" \in go /\ s.at = "excData" /\ bus[1] = SendWrite(excAddr)
           \/ "ree" \in go /\ s.at = "excRing" /\ bus[1] = PutIntr
           \/ "ree" \notin go /\ bus[1].op # "write"
        /\ new = IF "ree" \in go /\ s.at = "excData" THEN Append(out, <<excAddr>>) ELSE out
    BY ReportStep DEF ReportsInv
  <1>3. ClockFifo(bus)
    BY <1>2 DEF Tick
  <1>4. /\ r.at # "exit" => u.inbox = r.inbox
        /\ Reads(bus[1], "DATA") <=> r.at = "readData" /\ u.at = "gotData"
        /\ \/ r.at = "main" /\ u.at = "main"
           \/ r.at = "main" /\ u.at = "readCtrl" /\ u.got = << >> /\ ~Empty(1)
           \/ r.at = "readCtrl" /\ u.at \in {"readCtrl", "gotCtrl"} /\ u.got = << >>
           \/ r.at = "gotCtrl" /\ u.at = "readData" /\ u.got = << >> /\ u.left = 1
           \/ r.at = "readData" /\ u.at \in {"readData", "gotData"} /\ u.got = << >> /\ u.left = 1
           \/ r.at = "gotData" /\ u.at = "exit" /\ u.got = <<dout[1]>>
           \/ r.at = "exit" /\ u.at = "main" /\ u.inbox = Append(r.inbox, r.got)
    BY ReaderStep
  <1>5. /\ n = k + h + f + d
        /\ \A i \in 1..k : r.inbox[i] = out[i]
        /\ r.at = "gotData" => dout[1] = out[k + 1][1]
        /\ r.at = "exit" => r.got = out[k + 1]
        /\ \A i \in 1..f : fifo[1][i].word = out[k + h + i][1]
    BY DEF ReportsInv, ReportsChain
  <1>6. /\ \A i \in 1..n : out[i] = <<out[i][1]>>
        /\ Writes(req[1], "DATA") => n >= 1 /\ req[1] = SendWrite(out[n][1])
        /\ Locking(1) => ~Writes(req[1], "DATA")
    BY DEF ReportsInv, ReportInv
  <1>7. d \in {0, 1} /\ e \in {0, 1} /\ h \in {0, 1} /\ g \in {0, 1} /\ z \in {0, 1} /\ f \in Nat
    <2>1. fifo[1] \in Seq(Entry)
      BY <1>1 DEF TypeOK
    <2> QED
      BY <2>1 DEF OneIf
  <1>8. n <= Depth
    <2>1. n + OneIf(s.at \in {"excCtrl", "excData"}) + OneIf(excPend) + Len(faults) <= Depth
      BY DEF ReportsInv, RoomForAll
    <2>2. faults \in Seq(Word) /\ Len(faults) \in Nat
      BY DEF DriversTyped, DTypeOK
    <2>3. OneIf(s.at \in {"excCtrl", "excData"}) \in {0, 1} /\ OneIf(excPend) \in {0, 1}
      BY DEF OneIf
    <2> HIDE DEF n
    <2> QED
      BY <1>1, <2>1, <2>2, <2>3
  \* The word on the bus is taken, and read words go one by one.
  <1>9. /\ Writes(req[1], "DATA") => Pushes(1) /\ Narrow(req[1].size, req[1].data) = out[n][1]
        /\ ~Writes(req[1], "DATA") => ~Pushes(1)
    <2>1. Writes(req[1], "DATA") => Accepts(1, "DATA")
      BY <1>6 DEF Accepts, Writes
    <2>2. Writes(req[1], "DATA") => f < Depth
      <3>1. Writes(req[1], "DATA") => d = 1
        BY DEF OneIf
      <3> HIDE DEF n, k, h, d, f
      <3> QED
        BY <1>1, <1>5, <1>7, <1>8, <3>1
    <2>3. Writes(req[1], "DATA") => req[1].size = 2 /\ req[1].data = out[n][1]
      BY <1>6 DEF SendWrite
    <2> QED
      BY <2>1, <2>2, <2>3 DEF Pushes, Accepts, Narrow
  <1>10. Pops(1, bus[1]) <=> Reads(bus[1], "DATA")
    <2>1. r.at = "readData" => ~Empty(1)
      BY DEF ReportsInv, ReaderInv
    <2> QED
      BY <1>4, <2>1 DEF Pops
  <1>11. /\ z <= f /\ y = f - z + d
         /\ \A i \in 1..(f - z) : fifo'[1][i].word = fifo[1][i + z].word
         /\ d = 1 => fifo'[1][y].word = out[n][1]
         /\ z = 1 => dout'[1] = fifo[1][1].word
    <2>1. LET x == IF Pops(1, bus[1]) THEN 1 ELSE 0
          IN  /\ f \in Nat /\ x <= f
              /\ y = f - x + IF Pushes(1) THEN 1 ELSE 0
              /\ \A i \in 1..(f - x) : fifo'[1][i].word = fifo[1][i + x].word
              /\ Pushes(1) => fifo'[1][y].word = Narrow(req[1].size, req[1].data)
              /\ dout'[1] = IF Pops(1, bus[1]) THEN fifo[1][1].word ELSE dout[1]
      BY <1>1, <1>2, <1>3, FifoAfter
    <2>2. z = IF Pops(1, bus[1]) THEN 1 ELSE 0
      BY <1>10 DEF OneIf
    <2>3. d = IF Pushes(1) THEN 1 ELSE 0
      BY <1>9 DEF OneIf
    <2>4. d = 1 => Writes(req[1], "DATA")
      BY DEF OneIf
    <2> HIDE DEF n, y, f, z, d, bus, out
    <2> QED
      BY <1>9, <2>1, <2>2, <2>3, <2>4
  <1>12. /\ m = n + e
         /\ \A i \in 1..n : new[i] = out[i]
    <2>1. e = IF "ree" \in go /\ s.at = "excData" THEN 1 ELSE 0
      <3>1. Writes(bus[1], "DATA") <=> "ree" \in go /\ s.at = "excData"
        BY <1>2 DEF Writes, ConfigWrite, SendWrite, PutIntr
      <3> QED
        BY <1>2, <3>1 DEF OneIf
    <2>2. CASE "ree" \in go /\ s.at = "excData"
      <3>1. ReadsOwn("ree")
        BY DEF DriversTyped, CPU
      <3>2. excAddr \in Word
        BY <2>2, <3>1 DEF ReadsOwn, Reporting
      <3>3. <<excAddr>> \in Seq(Word)
        BY <3>2
      <3> QED
        BY <1>1, <1>2, <2>1, <2>2, <3>3
    <2>3. CASE ~("ree" \in go /\ s.at = "excData")
      BY <1>1, <1>2, <2>1, <2>3
    <2> QED
      BY <2>2, <2>3
  <1>13. l \in Nat /\ l + g = k + h + z /\ (z = 1 => l = k /\ h = 0)
    <2>1. CASE r.at = "exit"
      <3>1. l = k + 1 /\ h = 1 /\ g = 0 /\ z = 0
        <4>1. u.at = "main" /\ u.inbox = Append(r.inbox, r.got) /\ ~Reads(bus[1], "DATA")
          BY <1>4, <2>1
        <4>2. h = 1 /\ g = 0 /\ z = 0
          BY <2>1, <4>1 DEF OneIf
        <4>3. Len(Append(r.inbox, r.got)) = Len(r.inbox) + 1
          BY <1>1
        <4> QED
          BY <4>1, <4>2, <4>3
      <3> HIDE DEF l, k, h, g, z
      <3> QED
        BY <1>1, <3>1
    <2>2. CASE r.at # "exit"
      <3>1. l = k
        BY <1>4, <2>2
      <3>2. g = h + z /\ (z = 1 => h = 0)
        <4>1. h = IF r.at = "gotData" THEN 1 ELSE 0
          BY <2>2 DEF OneIf
        <4>2. z = IF r.at = "readData" /\ u.at = "gotData" THEN 1 ELSE 0
          BY <1>4 DEF OneIf
        <4>3. g = IF u.at \in {"gotData", "exit"} THEN 1 ELSE 0
          BY DEF OneIf
        <4>4. u.at \in {"gotData", "exit"} <=> r.at = "gotData" \/ (r.at = "readData" /\ u.at = "gotData")
          BY <1>4, <2>2
        <4> QED
          BY <4>1, <4>2, <4>3, <4>4
      <3> HIDE DEF l, k, h, g, z
      <3> QED
        BY <1>1, <1>7, <3>1, <3>2
    <2> QED
      BY <2>1, <2>2
  <1> HIDE DEF s, r, u, out, new, n, m, k, l, h, g, d, e, f, y, z, bus
  <1>14. m = l + g + y + e
    BY <1>1, <1>5, <1>7, <1>11, <1>12, <1>13
  <1>15. \A i \in 1..l : u.inbox[i] = new[i]
    <2>1. CASE r.at = "exit"
      <3>1. u.inbox = Append(r.inbox, r.got) /\ r.got = out[k + 1] /\ h = 1
        BY <1>4, <1>5, <2>1 DEF h, OneIf
      <3>2. /\ l = k + 1 /\ u.inbox[k + 1] = r.got
            /\ \A i \in 1..k : u.inbox[i] = r.inbox[i]
        BY <1>1, <3>1 DEF k, l
      <3>4. k + 1 <= n
        BY <1>1, <1>5, <1>7, <3>1
      <3>3. \A i \in 1..l : i \in 1..n /\ (i \in 1..k \/ i = k + 1)
        BY <1>1, <3>2, <3>4
      <3> QED
        BY <1>5, <1>12, <3>1, <3>2, <3>3
    <2>2. CASE r.at # "exit"
      <3>1. u.inbox = r.inbox /\ l = k
        BY <1>4, <2>2 DEF k, l
      <3>2. \A i \in 1..k : i \in 1..n
        BY <1>1, <1>5, <1>7
      <3> QED
        BY <1>5, <1>12, <3>1, <3>2
    <2> QED
      BY <2>1, <2>2
  <1>16. u.at = "gotData" => dout'[1] = new[l + 1][1]
    <2> SUFFICES ASSUME u.at = "gotData"
                 PROVE  dout'[1] = new[l + 1][1]
      OBVIOUS
    <2>1. z = 1
      BY <1>4 DEF z, OneIf
    <2>2. l = k /\ h = 0 /\ 1 \in 1..f /\ k + h + 1 = k + 1 /\ k + 1 \in 1..n
      BY <1>1, <1>5, <1>7, <1>11, <1>13, <2>1
    <2>3. fifo[1][1].word = out[k + h + 1][1]
      BY <1>5, <2>2
    <2> QED
      BY <1>11, <1>12, <2>1, <2>2, <2>3
  <1>17. u.at = "exit" => u.got = new[l + 1]
    <2> SUFFICES ASSUME u.at = "exit"
                 PROVE  u.got = new[l + 1]
      OBVIOUS
    <2>1. r.at = "gotData" /\ u.got = <<dout[1]>> /\ h = 1 /\ l = k
      BY <1>4 DEF h, k, l, OneIf
    <2>2. dout[1] = out[k + 1][1] /\ k + 1 \in 1..n
      BY <1>1, <1>5, <1>7, <2>1
    <2> QED
      BY <1>6, <1>12, <2>1, <2>2
  <1>18. \A i \in 1..y : fifo'[1][i].word = new[l + g + i][1]
    <2> SUFFICES ASSUME NEW i \in 1..y
                 PROVE  fifo'[1][i].word = new[l + g + i][1]
      OBVIOUS
    <2>0. y \in Nat /\ f - z \in Nat
      BY <1>7, <1>11
    <2>1. CASE i \in 1..(f - z)
      <3>1. fifo'[1][i].word = fifo[1][i + z].word /\ i + z \in 1..f
        BY <1>7, <1>11, <2>1
      <3>2. fifo[1][i + z].word = out[k + h + (i + z)][1]
        BY <1>5, <3>1
      <3>3. k + h + (i + z) = l + g + i /\ l + g + i \in 1..n
        BY <1>1, <1>5, <1>7, <1>13, <2>1, <3>1
      <3> QED
        BY <1>12, <3>1, <3>2, <3>3
    <2>2. CASE i \notin 1..(f - z)
      <3>1. d = 1 /\ i = y
        BY <1>7, <1>11, <2>0, <2>2
      <3>2. l + g + i = n /\ n \in 1..n
        BY <1>1, <1>5, <1>7, <1>11, <1>13, <2>0, <3>1
      <3> QED
        BY <1>11, <1>12, <3>1, <3>2
    <2> QED
      BY <2>1, <2>2
  <1> QED
    BY <1>14, <1>15, <1>16, <1>17, <1>18 DEF ReportsChain, u, new, m, l, g, e, y

\* The reports' invariant is kept by every step of the drivers.
LEMMA ReportsInvStays ==
  ASSUME DriversTyped, ReportsInv, [DNext]_dvars
  PROVE  ReportsInv'
PROOF
  <1>1. CASE DNext
    <2>1. PICK go \in SUBSET Movers, enter \in [CPU -> Enters], fault \in BOOLEAN, still \in BOOLEAN :
            DStep(go, enter, fault, still) /\ (fault => Faulting) /\ (still => excPend)
      BY <1>1, DNextSteps DEF DriversTyped
    <2>2. NothingElse /\ RoomForAll /\ ReportInv
      BY DEF ReportsInv
    <2>3. NothingElse'
      BY <2>1, <2>2, NothingElseStays
    <2>4. RoomForAll'
      BY <2>1, <2>2, RoomStays
    <2>5. ReportInv'
      BY <2>1, <2>2, ReportStays
    <2>6. ReaderInv'
      BY <2>1, ReaderStays
    <2>7. ReportsChain'
      BY <2>1, ChainStays
    <2> QED
      BY <2>3, <2>4, <2>5, <2>6, <2>7 DEF ReportsInv
  <1>2. CASE UNCHANGED dvars
    <2> USE <1>2 DEF dvars
    <2>1. NothingElse' /\ RoomForAll'
      BY DEF ReportsInv, NothingElse, RoomForAll
    <2>2. ReportInv'
      BY DEF ReportsInv, ReportInv, Locking, IntFlag, Empty
    <2>3. ReaderInv'
      BY DEF ReportsInv, ReaderInv, IntFlag, Empty
    <2>4. ReportsChain'
      BY DEF ReportsInv, ReportsChain
    <2> QED
      BY <2>1, <2>2, <2>3, <2>4 DEF ReportsInv
  <1> QED
    BY <1>1, <1>2

\* It holds before the cores start.
LEMMA ReportsInvStart ==
  ASSUME DInit, ReportsOnly
  PROVE  ReportsInv
PROOF
  <1>1. \A c \in Chan : /\ fifo[c] = << >> /\ req[c] = NoAccess
                        /\ ~status[c].int /\ cstate[c] = "IDLE"
    BY DEF DInit, Init
  <1>2. \A p \in CPU : /\ core[p].todo = Message(sent[p]) /\ core[p].at = "main"
                       /\ core[p].inbox = << >> /\ outbox[p] = << >>
    BY DEF DInit
  <1>3. \A p \in CPU : sent[p] = << >> /\ core[p].todo = << >>
    BY <1>2 DEF ReportsOnly, Message
  <1>4. /\ 0 \in Chan /\ 1 \in Chan /\ "tee" \in CPU /\ "ree" \in CPU
        /\ NoAccess.op = "none" /\ excPend = FALSE
    BY DEF Chan, CPU, NoAccess, DInit
  <1>5. NothingElse
    BY <1>1, <1>2, <1>3, <1>4 DEF NothingElse, Reporting, Receiving
  <1>6. RoomForAll
    <2>1. Len(faults) \in Nat /\ Len(faults) <= Depth
      <3>1. faults \in Seq(Word)
        BY ProgramsAssumption DEF DInit
      <3> QED
        BY <3>1 DEF ReportsOnly
    <2>2. Len(outbox["ree"]) = 0 /\ core["ree"].at = "main"
      BY <1>2, <1>4
    <2> QED
      BY <1>4, <2>1, <2>2 DEF RoomForAll, OneIf
  <1>7. ReportInv
    <2>1. Len(outbox["ree"]) = 0 /\ core["ree"].at = "main"
      BY <1>2, <1>4
    <2>2. ~Locking(1)
      BY <1>1, <1>4 DEF Locking
    <2> QED
      BY <1>1, <1>4, <2>1, <2>2 DEF ReportInv, Writes
  <1>8. ReaderInv
    BY <1>1, <1>2, <1>4 DEF ReaderInv, Reads, IntFlag
  <1>9. ReportsChain
    <2>1. /\ outbox["ree"] = << >> /\ core["tee"].inbox = << >> /\ fifo[1] = << >>
          /\ core["tee"].at = "main" /\ ~Writes(req[1], "DATA")
      BY <1>1, <1>2, <1>4 DEF Writes
    <2>2. Len(outbox["ree"]) = 0 /\ Len(core["tee"].inbox) = 0 /\ Len(fifo[1]) = 0
      BY <2>1
    <2> QED
      BY <2>1, <2>2 DEF ReportsChain, OneIf
  <1> QED
    BY <1>5, <1>6, <1>7, <1>8, <1>9 DEF ReportsInv

\* What the reports' invariant says of the messages.
LEMMA IntactWhenReports ==
  ASSUME DriversTyped, ReportsInv
  PROVE  MessagesIntact
PROOF
  <1> DEFINE in == core["tee"].inbox
             out == outbox["ree"]
             k == Len(in)
  <1>1. "tee" \in CPU /\ "ree" \in CPU /\ Other("tee") = "ree" /\ Other("ree") = "tee"
        /\ \A p \in CPU : p = "tee" \/ p = "ree"
    BY DEF CPU, Other
  <1>2. in \in Seq(Seq(Word \cup {Dout0})) /\ out \in Seq(Seq(Word)) /\ fifo[1] \in Seq(Entry)
    BY <1>1, CoreFields DEF DriversTyped, DTypeOK, TypeOK, Chan
  <1>3. /\ k <= Len(out)
        /\ \A i \in 1..k : in[i] = out[i]
    <2>1. Len(out) = k + OneIf(core["tee"].at \in {"gotData", "exit"}) + Len(fifo[1])
                       + OneIf(Writes(req[1], "DATA"))
      BY DEF ReportsInv, ReportsChain
    <2>2. /\ OneIf(core["tee"].at \in {"gotData", "exit"}) \in Nat
          /\ OneIf(Writes(req[1], "DATA")) \in Nat
      BY DEF OneIf
    <2>3. k \in Nat /\ Len(fifo[1]) \in Nat
      BY <1>2
    <2>4. \A i \in 1..k : in[i] = out[i]
      BY DEF ReportsInv, ReportsChain
    <2> HIDE DEF k, in, out
    <2>5. k <= Len(out)
      BY <2>1, <2>2, <2>3
    <2> QED
      BY <2>4, <2>5
  <1>4. IsPrefix(in, out)
    <2>1. /\ SubSeq(in, 1, k) \in Seq(Seq(Word \cup {Dout0})) /\ Len(SubSeq(in, 1, k)) = k
          /\ \A i \in 1..k : SubSeq(in, 1, k)[i] = in[i]
      BY <1>2
    <2>2. /\ SubSeq(out, 1, k) \in Seq(Seq(Word)) /\ Len(SubSeq(out, 1, k)) = k
          /\ \A i \in 1..k : SubSeq(out, 1, k)[i] = out[i]
      BY <1>2, <1>3
    <2>3. SubSeq(in, 1, k) = SubSeq(out, 1, k)
      BY <1>3, <2>1, <2>2
    <2> QED
      BY <1>3, <2>3 DEF IsPrefix
  <1>5. IsPrefix(core["ree"].inbox, outbox["tee"])
    <2>1. core["ree"].inbox = << >> /\ outbox["tee"] = << >>
      BY DEF ReportsInv, NothingElse
    <2> QED
      BY <2>1 DEF IsPrefix
  <1> QED
    BY <1>1, <1>4, <1>5 DEF MessagesIntact

\* When only exceptions are reported, each report that is made arrives whole, in
\* order and once, however fast they follow each other and however late the TEE
\* reads: the lock that a doorbell starts swallows no word of the next report.
THEOREM ReportsAreIntact == DSpec /\ ReportsOnly => []MessagesIntact
PROOF
  <1>1. DSpec => []DriversTyped
    BY DriversStayTyped
  <1>2. DInit /\ ReportsOnly => ReportsInv
    BY ReportsInvStart
  <1>3. DriversTyped /\ ReportsInv /\ [DNext]_dvars => ReportsInv'
    BY ReportsInvStays
  <1>4. DriversTyped /\ ReportsInv => MessagesIntact
    BY IntactWhenReports
  <1> QED
    BY <1>1, <1>2, <1>3, <1>4, PTL DEF DSpec
-----------------------------------------------------------------------------
(* The drivers: no message is forgotten, and no lock lasts for ever *)

\* The words of a message that is being delivered have been announced.
RungInv == \A p \in CPU : Delivering(p) /\ fifo[Out(p)] # << >> => rung[Out(p)]

\* The doorbell announces the words, and nothing takes that back while some of
\* them are left.
LEMMA RungStep ==
  ASSUME DriversTyped, NEW go \in SUBSET Movers, NEW enter, NEW fault \in BOOLEAN,
         NEW still \in BOOLEAN, DStep(go, enter, fault, still), fault => Faulting, still => excPend,
         DriversInv, RungInv, NEW p \in CPU
  PROVE  (Delivering(p) /\ fifo[Out(p)] # << >> => rung[Out(p)])'
PROOF
  <1> DEFINE c == Out(p)
             bus == BusOfCores(go)
  <1>1. c \in Chan /\ TypeOK
    BY Channels DEF DriversTyped, DTypeOK
  <1>2. bus \in [Chan -> Access] /\ Tick(bus) /\ ClockFifo(bus)
    BY ChannelCarries DEF Tick
  <1>3. rung'[c] = NRung(c)
    BY <1>1, <1>2 DEF Tick
  <1>4. SenderInv(p) /\ SenderInv(Other(p)) /\ OneReport /\ (Unannounced(p) \/ Delivering(p))
    BY Channels DEF DriversInv
  <1>5. CASE Unannounced(p) /\ Done(p) = Len(Text(p)) + 2
    <2>1. req[c] = PutIntr /\ ~Locking(c) /\ ~Pushes(c)
      BY <1>4, <1>5, LetsThrough DEF PutIntr, Writes
    <2>2. Accepts(c, "STATUS") /\ req[c].data.int /\ req[c].data.sts
      BY <2>1 DEF Accepts, Writes, PutIntr
    <2> QED
      BY <1>3, <2>1, <2>2 DEF NRung
  <1>6. CASE Unannounced(p) /\ Done(p) # Len(Text(p)) + 2
    <2>1. Unannounced(p)'
      BY <1>4, <1>6, WordsAreTaken
    <2> QED
      BY <2>1 DEF Unannounced, Delivering
  <1>7. CASE Delivering(p)
    <2>1. ~Pushes(c) /\ ~Accepts(c, "STATUS")
      BY <1>4, <1>7, SenderLeavesAlone
    <2>2. fifo'[c] # << >> => fifo[c] # << >>
      <3>1. \E k \in {0, 1} : Len(fifo[c]) \in Nat /\ Len(fifo'[c]) = Len(fifo[c]) - k + 0 /\ k <= Len(fifo[c])
        BY <1>1, <1>2, <2>1, FifoAfter
      <3>2. fifo[c] = << >> => Len(fifo'[c]) = 0
        BY <3>1
      <3>3. fifo'[c] \in Seq(Entry)
        BY <1>1, <1>2, ClockFifoType
      <3> QED
        BY <3>2, <3>3
    <2> QED
      BY <1>3, <1>7, <2>1, <2>2 DEF NRung, RungInv
  <1> QED
    BY <1>4, <1>5, <1>6, <1>7

LEMMA RungInvStays ==
  ASSUME DriversTyped, DriversInv, RungInv, [DNext]_dvars
  PROVE  RungInv'
PROOF
  <1>1. CASE DNext
    <2>1. PICK go \in SUBSET Movers, enter \in [CPU -> Enters], fault \in BOOLEAN, still \in BOOLEAN :
            DStep(go, enter, fault, still) /\ (fault => Faulting) /\ (still => excPend)
      BY <1>1, DNextSteps DEF DriversTyped
    <2> QED
      BY <2>1, RungStep DEF RungInv
  <1>2. CASE UNCHANGED dvars
    <2> USE <1>2 DEF dvars
    <2>1. ASSUME NEW p \in CPU, Delivering(p)'
          PROVE  Delivering(p)
      <3>1. Text(p)' = Text(p) /\ Done(p)' = Done(p)
        BY DEF Text, Done
      <3>2. /\ Unread(Out(p), Text(p), core[Other(p)])' => Unread(Out(p), Text(p), core[Other(p)])
            /\ BeingRead(Out(p), Text(p), core[Other(p)])' => BeingRead(Out(p), Text(p), core[Other(p)])
            /\ HandedOver(Out(p), Text(p), core[Other(p)])' => HandedOver(Out(p), Text(p), core[Other(p)])
        BY <3>1 DEF Unread, BeingRead, HandedOver, Holds
      <3> QED
        BY <2>1, <3>1, <3>2 DEF Delivering, AllVisible
    <2> QED
      BY <2>1 DEF RungInv
  <1> QED
    BY <1>1, <1>2

\* A sender that has nothing left to do has made all its accesses.
LEMMA AllMade ==
  ASSUME DriversTyped, NEW p \in CPU, SenderInv(p), core[p].todo = << >>, core[p].at \notin Reporting
  PROVE  Done(p) \in {0, Len(Text(p)) + 2}
PROOF
  <1>1. CASE sent[p] # << >>
    <2>1. Done(p) = Len(sent[p]) + 2 - 0 /\ Text(p) = sent[p] /\ Len(sent[p]) \in Nat
      BY <1>1 DEF Done, Text, DriversTyped, DTypeOK
    <2> QED
      BY <2>1
  <1>2. CASE sent[p] = << >>
    BY <1>2 DEF Done, Text, Reporting
  <1> QED
    BY <1>1, <1>2

\* The words of a message that is being delivered raise the interrupt.
LEMMA DeliveredIsSignalled ==
  ASSUME NEW p \in CPU, Delivering(p), fifo[Out(p)] # << >>, RungInv, AnnouncedInv
  PROVE  Signalled(p)
PROOF
  <1>1. rung[Out(p)]
    BY DEF RungInv
  <1> QED
    BY <1>1, Channels DEF AnnouncedInv, Announced, Signalled

\* What the invariants say of a message that is not handed over yet ...
LEMMA RememberedWhenInv ==
  ASSUME DriversTyped, DriversInv, AnnouncedInv, RungInv
  PROVE  NoneForgotten
PROOF
  <1> SUFFICES ASSUME NEW p \in CPU, Len(core[Other(p)].inbox) < Len(outbox[p]), ~Sending(p)
               PROVE  Signalled(p)
    BY DEF NoneForgotten
  <1> DEFINE r == core[Other(p)]
             w == Text(p)
  <1>1. /\ SenderInv(p) /\ (Unannounced(p) \/ Delivering(p))
        /\ outbox[p] \in Seq(Seq(Word)) /\ Len(r.inbox) \in Nat
    BY Channels, CoreFields DEF DriversInv, DriversTyped, DTypeOK
  <1>2. core[p].todo = << >> /\ core[p].at \notin Reporting /\ req[Out(p)].op # "write"
    BY DEF Sending
  <1>3. Len(w) \in Nat \ {0}
    BY <1>1, TextIs
  <1>4. Done(p) > Len(w) /\ outbox[p] = <<w>>
    BY <1>1 DEF SenderInv
  <1>5. Done(p) = Len(w) + 2
    BY <1>1, <1>2, <1>3, <1>4, AllMade
  <1>6. Delivering(p)
    BY <1>1, <1>2, <1>5 DEF Unannounced
  <1>7. CASE Unread(Out(p), w, r)
    <2>1. Len(fifo[Out(p)]) = Len(w) - 0
      BY <1>7 DEF Unread, Holds
    <2>2. fifo[Out(p)] # << >>
      BY <1>3, <2>1
    <2> QED
      BY <1>6, <2>2, DeliveredIsSignalled
  <1>8. CASE BeingRead(Out(p), w, r)
    BY <1>8 DEF BeingRead, Signalled, Receiving
  <1>9. CASE HandedOver(Out(p), w, r)
    <2>1. r.inbox # <<w>>
      <3>1. r.inbox # outbox[p]
        BY <1>1
      <3> QED
        BY <1>4, <3>1
    <2> QED
      BY <1>9, <2>1 DEF HandedOver, Signalled, Receiving
  <1> QED
    BY <1>6, <1>7, <1>8, <1>9 DEF Delivering

\* ... and of a lock that lasts.
LEMMA LetGoWhenInv ==
  ASSUME DriversTyped, DriversInv, AnnouncedInv, RungInv
  PROVE  LockLetsGo
PROOF
  <1> SUFFICES ASSUME NEW p \in CPU, cstate[In(p)] = "WAIT_READ", Locking(In(p))
               PROVE  Signalled(p) \/ (Sending(p) /\ ~Locking(Out(p)))
    BY DEF LockLetsGo
  <1> DEFINE c == Out(p)
             n == Len(Text(p))
  <1>1. SenderInv(p) /\ (Unannounced(p) \/ Delivering(p))
    BY DEF DriversInv
  <1>2. fifo[c] # << >> /\ fifo[c] \in Seq(Entry)
    <2>1. ~Empty(c)
      BY DEF Locking, In, Peer, Out
    <2> QED
      BY <2>1, Channels DEF Empty, DriversTyped, DTypeOK, TypeOK
  <1>3. CASE Unannounced(p)
    <2>1. ~Locking(c)
      BY <1>1, <1>3, LetsThrough
    <2>2. Done(p) >= 2 /\ Done(p) <= n + 2 /\ n \in Nat
      <3>1. Len(fifo[c]) = Stored(p) /\ Len(fifo[c]) # 0
        BY <1>2, <1>3 DEF Unannounced
      <3>2. Done(p) \in 0..(n + 2) /\ n \in Nat
        BY <1>1, TextIs
      <3> QED
        BY <3>1, <3>2 DEF Stored
    <2>3. ASSUME req[c].op # "write", core[p].at \notin Reporting, core[p].todo = << >>
          PROVE  FALSE
      <3>1. Done(p) # n + 2
        BY <1>3, <2>3 DEF Unannounced
      <3> QED
        BY <1>1, <2>2, <2>3, <3>1, AllMade
    <2> QED
      BY <2>1, <2>3 DEF Sending
  <1>4. CASE Delivering(p)
    BY <1>2, <1>4, DeliveredIsSignalled
  <1> QED
    BY <1>1, <1>3, <1>4

\* The invariants hold together.
LEMMA MessagesRung ==
  ASSUME RingGap >= SyncLat
  PROVE  DSpec /\ OneMessageEach => [](DriversTyped /\ DriversInv /\ AnnouncedInv /\ RungInv)
PROOF
  <1>1. DSpec => []DriversTyped
    BY DriversStayTyped
  <1>2. DInit /\ OneMessageEach /\ DriversTyped => DriversInv /\ AnnouncedInv
    BY DriversInvStart
  <1>3. DInit => RungInv
    <2>1. DInit => \A c \in Chan : fifo[c] = << >>
      BY DEF DInit, Init
    <2> QED
      BY <2>1, Channels DEF RungInv
  <1>4. DriversTyped /\ DriversInv /\ AnnouncedInv /\ [DNext]_dvars => DriversInv' /\ AnnouncedInv'
    BY DriversInvStays
  <1>5. DriversTyped /\ DriversInv /\ RungInv /\ [DNext]_dvars => RungInv'
    BY RungInvStays
  <1> QED
    BY <1>1, <1>2, <1>3, <1>4, <1>5, PTL DEF DSpec

\* When only exceptions are reported: the doorbell of each is let through, and
\* words that are not announced have their doorbell still to come.
ReportsRung ==
  /\ cstate[0] = "IDLE"
  /\ Writes(req[1], "STATUS") => req[1] = PutIntr /\ ~(cstate[1] = "WRITE" /\ IntFlag(1))
  /\ fifo[1] # << >> => \/ rung[1] \/ core["ree"].at = "excRing"
                        \/ Writes(req[1], "STATUS")

LEMMA ReportsRungStep ==
  ASSUME RingGap >= SyncLat, DriversTyped, NEW go \in SUBSET Movers, NEW enter,
         NEW fault \in BOOLEAN, NEW still \in BOOLEAN, DStep(go, enter, fault, still),
         fault => Faulting, still => excPend, ReportsInv, AnnouncedInv, ReportsRung
  PROVE  ReportsRung'
PROOF
  <1> DEFINE s == core["ree"]
             t == core'["ree"]
             bus == BusOfCores(go)
  <1>1. 0 \in Chan /\ 1 \in Chan /\ TypeOK /\ NothingElse /\ ReportInv
    BY DEF Chan, DriversTyped, DTypeOK, ReportsInv
  <1>2. /\ bus \in [Chan -> Access] /\ Tick(bus) /\ ClockFifo(bus) /\ req' = bus /\ Disciplined(bus)
    BY <1>1, ReportStep DEF Tick, DStep
  <1>3. \/ s.at = "excCtrl" /\ t.at = "excData" /\ bus[1] = ConfigWrite(1)
        \/ s.at = "excData" /\ t.at = "excRing" /\ bus[1] = SendWrite(excAddr)
        \/ s.at = "excRing" /\ t.at = "main" /\ bus[1] = PutIntr
        \/ bus[1].op # "write" /\ t.at = s.at
        \/ bus[1].op # "write" /\ s.at = "main" /\ t.at = "excCtrl"
    BY <1>1, ReportStep
  <1>4. Writes(bus[1], "STATUS") => bus[1] = PutIntr /\ s.at = "excRing"
    BY <1>3 DEF Writes, ConfigWrite, SendWrite
  <1>5. cstate'[0] = "IDLE"
    <2>1. ~Accepts(0, "DATA") /\ cstate[0] = "IDLE"
      BY <1>1 DEF NothingElse, Accepts, Writes, ReportsRung
    <2> QED
      BY <1>1, <1>2, <2>1 DEF Tick, NState
  <1>6. ASSUME Writes(bus[1], "STATUS"), cstate'[1] = "WRITE", IntFlag(1)'
        PROVE  FALSE
    <2>1. cstate'[1] = NState(1) /\ status'[1] = NStatus(1)
      BY <1>1, <1>2 DEF Tick
    <2>2. ~Writes(req[1], "DATA")
      <3>1. Writes(req[1], "DATA") => gap[1] = 0
        BY <1>1 DEF AnnouncedInv, Announced
      <3>2. gap[1] >= RingGap /\ RingGap \in Nat \ {0}
        BY <1>1, <1>2, <1>6, GapAssumption, FifoAssumption DEF Disciplined
      <3> QED
        BY <3>1, <3>2
    <2>3. cstate[1] = "WRITE" /\ ~IntFlag(1)
      BY <1>1, <1>6, <2>1, <2>2 DEF NState, Accepts, Locking, TypeOK, States
    <2>4. ~Writes(req[1], "STATUS")
      BY <1>1, <1>4, <1>6 DEF ReportInv
    <2>5. IntFlag(1)' => IntFlag(1)
      <3>1. ~Accepts(1, "STATUS")
        BY <2>4 DEF Accepts
      <3>2. NStatus(1).int => status[1].int
        BY <3>1 DEF NStatus
      <3>3. NStatus(1).sts => status[1].sts
        BY <3>1 DEF NStatus
      <3> QED
        BY <2>1, <3>2, <3>3 DEF IntFlag
    <2> QED
      BY <1>6, <2>3, <2>5
  <1>7. ASSUME fifo'[1] # << >>
        PROVE  rung'[1] \/ t.at = "excRing" \/ Writes(bus[1], "STATUS")
    <2>1. rung'[1] = NRung(1)
      BY <1>1, <1>2 DEF Tick
    <2>2. s.at = "excRing" => t.at = "excRing" \/ Writes(bus[1], "STATUS")
      BY <1>3 DEF Writes, PutIntr
    <2>3. CASE Pushes(1)
      BY <1>1, <2>2, <2>3 DEF Pushes, Accepts, ReportInv
    <2>4. CASE ~Pushes(1)
      <3>1. fifo[1] # << >>
        <4>1. \E k \in {0, 1} : /\ Len(fifo[1]) \in Nat /\ k <= Len(fifo[1])
                                /\ Len(fifo'[1]) = Len(fifo[1]) - k + 0
          BY <1>1, <1>2, <2>4, FifoAfter
        <4>2. fifo[1] = << >> => Len(fifo'[1]) = 0
          BY <4>1
        <4>3. fifo'[1] \in Seq(Entry)
          BY <1>1, <1>2, ClockFifoType
        <4> QED
          BY <1>7, <4>2, <4>3
      <3>2. CASE Writes(req[1], "STATUS")
        <4>1. ~Locking(1)
          <5>1. ~(cstate[1] = "WRITE" /\ IntFlag(1))
            BY <3>2 DEF ReportsRung
          <5>2. Empty(Peer(1))
            BY <1>1 DEF NothingElse, Empty, Peer
          <5> QED
            BY <5>1, <5>2 DEF Locking
        <4>2. Accepts(1, "STATUS") /\ req[1].data.int /\ req[1].data.sts
          BY <3>2, <4>1 DEF Accepts, ReportsRung, PutIntr
        <4> QED
          BY <1>7, <2>1, <2>4, <4>2 DEF NRung
      <3>3. CASE ~Writes(req[1], "STATUS")
        <4>1. rung[1] \/ s.at = "excRing"
          BY <3>1, <3>3 DEF ReportsRung
        <4> QED
          BY <1>7, <2>1, <2>2, <2>4, <3>3, <4>1 DEF NRung, Accepts
      <3> QED
        BY <3>2, <3>3
    <2> QED
      BY <2>3, <2>4
  <1> QED
    BY <1>2, <1>4, <1>5, <1>6, <1>7 DEF ReportsRung

LEMMA ReportsRungStays ==
  ASSUME RingGap >= SyncLat, DriversTyped, ReportsInv, AnnouncedInv, ReportsRung, [DNext]_dvars
  PROVE  ReportsRung' /\ AnnouncedInv'
PROOF
  <1>1. CASE DNext
    <2>1. PICK go \in SUBSET Movers, enter \in [CPU -> Enters], fault \in BOOLEAN, still \in BOOLEAN :
            DStep(go, enter, fault, still) /\ (fault => Faulting) /\ (still => excPend)
      BY <1>1, DNextSteps DEF DriversTyped
    <2>2. ReportsRung'
      BY <2>1, ReportsRungStep
    <2>3. BusOfCores(go) \in [Chan -> Access]
      BY <2>1, BusCarries DEF DStep
    <2>4. Tick(BusOfCores(go)) /\ Disciplined(BusOfCores(go)) /\ TypeOK
      BY <2>1 DEF DStep, DriversTyped, DTypeOK
    <2>5. AnnouncedInv'
      BY <2>3, <2>4, AnnouncedTick DEF AnnouncedInv
    <2> QED
      BY <2>2, <2>5
  <1>2. CASE UNCHANGED dvars
    <2> USE <1>2 DEF dvars
    <2>1. AnnouncedInv'
      BY DEF AnnouncedInv, Announced, AgesFollowGap, AllVisible, IntFlag
    <2>2. ReportsRung'
      BY DEF ReportsRung, IntFlag
    <2> QED
      BY <2>1, <2>2
  <1> QED
    BY <1>1, <1>2

\* What the reports' invariants say of a report that is not handed over yet.
LEMMA RememberedWhenReports ==
  ASSUME DriversTyped, ReportsInv, AnnouncedInv, ReportsRung
  PROVE  NoneForgotten
PROOF
  <1>1. /\ "tee" \in CPU /\ "ree" \in CPU /\ Other("tee") = "ree" /\ Other("ree") = "tee"
        /\ Out("ree") = 1 /\ 1 \in Chan /\ \A p \in CPU : p = "tee" \/ p = "ree"
    BY DEF CPU, Other, Out, Chan
  <1>2. ~(Len(core["ree"].inbox) < Len(outbox["tee"]))
    BY DEF ReportsInv, NothingElse
  <1>3. ASSUME Len(core["tee"].inbox) < Len(outbox["ree"]), ~Sending("ree")
        PROVE  Signalled("ree")
    <2> DEFINE h == OneIf(core["tee"].at \in {"gotData", "exit"})
    <2>1. req[1].op # "write" /\ core["ree"].at \notin Reporting
      BY <1>1, <1>3 DEF Sending
    <2>2. OneIf(Writes(req[1], "DATA")) = 0
      BY <2>1 DEF OneIf, Writes
    <2>3. Len(outbox["ree"]) = Len(core["tee"].inbox) + h + Len(fifo[1]) + 0
      BY <2>2 DEF ReportsInv, ReportsChain
    <2>4. Len(core["tee"].inbox) \in Nat /\ fifo[1] \in Seq(Entry) /\ h \in {0, 1}
      <3>1. core["tee"].inbox \in Seq(Seq(Word \cup {Dout0}))
        BY <1>1, CoreFields DEF DriversTyped
      <3>2. fifo[1] \in Seq(Entry) /\ h \in {0, 1}
        BY <1>1 DEF DriversTyped, DTypeOK, TypeOK, OneIf
      <3> QED
        BY <3>1, <3>2
    <2>5. CASE h = 1
      BY <1>1, <2>5 DEF OneIf, Signalled, Receiving
    <2>6. CASE h = 0
      <3>1. fifo[1] # << >>
        <4>1. Len(fifo[1]) # 0
          BY <1>3, <2>3, <2>4, <2>6
        <4> QED
          BY <4>1
      <3>2. rung[1]
        BY <2>1, <3>1 DEF ReportsRung, Writes, Reporting
      <3> QED
        BY <1>1, <3>2 DEF AnnouncedInv, Announced, Signalled
    <2> QED
      BY <2>4, <2>5, <2>6
  <1> QED
    BY <1>1, <1>2, <1>3 DEF NoneForgotten

\* No lock lasts at all then: nothing comes the other way.
LEMMA LetGoWhenReports ==
  ASSUME ReportsInv, ReportsRung
  PROVE  LockLetsGo
PROOF
  <1>1. fifo[0] = << >> /\ cstate[0] = "IDLE"
    BY DEF ReportsInv, NothingElse, ReportsRung
  <1>2. ~(cstate[1] = "WAIT_READ" /\ Locking(1))
    BY <1>1 DEF Locking, Empty, Peer
  <1> QED
    BY <1>1, <1>2 DEF LockLetsGo, CPU, In, Out, Peer

\* The invariants of the reports hold together.
LEMMA ReportsAreRung ==
  ASSUME RingGap >= SyncLat
  PROVE  DSpec /\ ReportsOnly => [](DriversTyped /\ ReportsInv /\ AnnouncedInv /\ ReportsRung)
PROOF
  <1>1. DSpec => []DriversTyped
    BY DriversStayTyped
  <1>2. DInit /\ ReportsOnly => ReportsInv
    BY ReportsInvStart
  <1>3. DInit => AnnouncedInv /\ ReportsRung
    <2>1. DInit => /\ 0 \in Chan /\ 1 \in Chan
                   /\ \A c \in Chan : /\ fifo[c] = << >> /\ req[c] = NoAccess /\ ~rung[c]
                                      /\ cstate[c] = "IDLE"
      BY DEF DInit, Init, Chan
    <2> QED
      BY <2>1 DEF AnnouncedInv, Announced, AgesFollowGap, ReportsRung, Writes, NoAccess
  <1>4. DriversTyped /\ ReportsInv /\ [DNext]_dvars => ReportsInv'
    BY ReportsInvStays
  <1>5. DriversTyped /\ ReportsInv /\ AnnouncedInv /\ ReportsRung /\ [DNext]_dvars
          => ReportsRung' /\ AnnouncedInv'
    BY ReportsRungStays
  <1> QED
    BY <1>1, <1>2, <1>3, <1>4, <1>5, PTL DEF DSpec

\* However the two cores interleave, a message that has been written and not been
\* handed over is on its way: its sender has its doorbell still to ring, its
\* reader's interrupt is up, or its reader is at it.  The doorbells keep their gap
\* (RingGap), and each core has one message, or the exceptions of the REE are all
\* there is to report.
THEOREM NoMessageForgotten ==
  ASSUME RingGap >= SyncLat
  PROVE  DSpec /\ (OneMessageEach \/ ReportsOnly) => []NoneForgotten
PROOF
  <1>1. DSpec /\ OneMessageEach => [](DriversTyped /\ DriversInv /\ AnnouncedInv /\ RungInv)
    BY MessagesRung
  <1>2. DriversTyped /\ DriversInv /\ AnnouncedInv /\ RungInv => NoneForgotten
    BY RememberedWhenInv
  <1>3. DSpec /\ ReportsOnly => [](DriversTyped /\ ReportsInv /\ AnnouncedInv /\ ReportsRung)
    BY ReportsAreRung
  <1>4. DriversTyped /\ ReportsInv /\ AnnouncedInv /\ ReportsRung => NoneForgotten
    BY RememberedWhenReports
  <1> QED
    BY <1>1, <1>2, <1>3, <1>4, PTL

\* The two locks never wait for each other: a lock that lasts waits for words
\* whose reader is called, or whose sender is not locked and goes on.
THEOREM LocksLetGo ==
  ASSUME RingGap >= SyncLat
  PROVE  DSpec /\ (OneMessageEach \/ ReportsOnly) => []LockLetsGo
PROOF
  <1>1. DSpec /\ OneMessageEach => [](DriversTyped /\ DriversInv /\ AnnouncedInv /\ RungInv)
    BY MessagesRung
  <1>2. DriversTyped /\ DriversInv /\ AnnouncedInv /\ RungInv => LockLetsGo
    BY LetGoWhenInv
  <1>3. DSpec /\ ReportsOnly => [](DriversTyped /\ ReportsInv /\ AnnouncedInv /\ ReportsRung)
    BY ReportsAreRung
  <1>4. ReportsInv /\ ReportsRung => LockLetsGo
    BY LetGoWhenReports
  <1> QED
    BY <1>1, <1>2, <1>3, <1>4, PTL

\* Together: no message is forgotten and no lock lasts for nothing, so that nothing in
\* the mailbox and its drivers ever waits for what cannot come.
THEOREM DriversCanGoOn ==
  ASSUME RingGap >= SyncLat
  PROVE  DSpec /\ (OneMessageEach \/ ReportsOnly) => []DriversGoOn
PROOF
  <1>1. NoneForgotten /\ LockLetsGo => DriversGoOn
    BY DEF DriversGoOn
  <1> QED
    BY <1>1, NoMessageForgotten, LocksLetGo, PTL
==============================================================================
