------------------------------ MODULE MCMailbox ------------------------------
(***************************************************************************)
(* Instances of Mailbox for TLC.                                           *)
(***************************************************************************)
EXTENDS Mailbox

MCRead(reg)       == [op |-> "read", reg |-> reg]
MCData(size, w)   == [op |-> "write", reg |-> "DATA", size |-> size, data |-> w]
MCCtrl(v)         == [op |-> "write", reg |-> "CTRL", data |-> v]
MCStatus(i, s)    == [op |-> "write", reg |-> "STATUS", data |-> [int |-> i, sts |-> s]]

\* What the drivers put on a channel: the words, one STATUS value, reads of DATA.
MCDriver(words) == {NoAccess, MCRead("DATA"), MCStatus(TRUE, TRUE)}
                   \cup {MCData(2, w) : w \in words}

\* Every access a master can make, of word and half-word size.
MCAll == Access

\* One channel with every access, the other one idle.
MCOneChannel == [c \in Chan |-> IF c = 0 THEN MCAll ELSE {NoAccess}]
\* Both channels, as the drivers use them.
MCTwoChannels == [c \in Chan |-> MCDriver({1})]
=============================================================================
