------------------------------- MODULE Mailbox -------------------------------
(***************************************************************************)
(* What a MsgTask (gps/utils/MsgTask.h) promises its users: the messages   *)
(* it accepts are handed to one handler at a time in the order they were   *)
(* accepted, until it is closed; then at most one more is handed out and   *)
(* the others are dropped.                                                 *)
(***************************************************************************)
EXTENDS Naturals, Sequences

CONSTANT Message

VARIABLES
  pending,    \* accepted and not handed out
  delivered,  \* handed to the handler, in order
  closed,     \* refuses messages
  last        \* has a message been handed out since it was closed

Init == pending = << >> /\ delivered = << >> /\ closed = FALSE /\ last = FALSE

Accept(m) ==
  /\ ~closed
  /\ pending' = Append(pending, m)
  /\ UNCHANGED <<delivered, closed, last>>

Deliver ==
  /\ pending # << >> /\ ~last
  /\ delivered' = Append(delivered, Head(pending))
  /\ pending' = Tail(pending)
  /\ last' = closed
  /\ UNCHANGED closed

Close ==
  /\ ~closed /\ closed' = TRUE
  /\ UNCHANGED <<pending, delivered, last>>

Drop ==
  /\ closed /\ pending' = << >>
  /\ UNCHANGED <<delivered, closed, last>>

Next == Deliver \/ Close \/ Drop \/ \E m \in Message : Accept(m)

Spec == Init /\ [][Next]_<<pending, delivered, closed, last>>
=============================================================================
