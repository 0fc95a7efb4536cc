------------------------------ MODULE GpsProofs ------------------------------
(***************************************************************************)
(* Proofs about two parts of the location stack that share nothing.        *)
(*                                                                         *)
(* MsgTask, for every set of messages and whether or not a send may be     *)
(* under way when the task is deleted.  What ties its parts together is     *)
(* who holds the runnable: the worker until it ended, the destructor while *)
(* it interrupts it; and that a worker ends only after the queue was       *)
(* unblocked.                                                              *)
(*                                                                         *)
(* GnssTracking, for any clients, sessions, options, commands, refusals and *)
(* restarts.  Its handlers are operators on a pair of adapter and ledger;   *)
(* the lemmas say of each what it makes of the answers due and of the       *)
(* interval that the calls under way will leave on the modem.              *)
(***************************************************************************)
EXTENDS MsgTask, GnssTracking, Integers, SequenceTheorems, FiniteSetTheorems,
        FunctionTheorems, WellFoundedInduction, TLAPS

Ownership ==
  /\ "worker" \in owners <=> worker # "ended"
  /\ "stopper" \in owners <=> stopper \in {"interrupt", "release"}
  /\ freed <=> owners = {}
  /\ freed => list = << >>

(* Where the stopper is tells whether the queue is unblocked, and that is  *)
(* what a worker that leaves has seen.                                     *)
Closing ==
  /\ unblocked <=> stopper \in {"release", "done"}
  /\ worker \in {"exit", "ended"} => unblocked
  /\ last => unblocked
  /\ worker \in {"wait", "woken"} => ~last
  /\ stopper = "idle" \/ Late \/ calling = {}

IInv == TypeOK /\ Ownership /\ Closing

-----------------------------------------------------------------------------
(* Taking the oldest message of a list that has one.                       *)
LEMMA HeadTail ==
  ASSUME NEW S, NEW s \in Seq(S), s # << >>
  PROVE  Head(s) \in S /\ Tail(s) \in Seq(S)
BY HeadTailProperties

(* The task starts with its worker holding the runnable and all else empty.*)
LEMMA InitIInv == Init => IInv
<1>. SUFFICES ASSUME Init PROVE IInv
  OBVIOUS
<1>1. << >> \in Seq(Message)
  OBVIOUS
<1>2. TypeOK
  BY <1>1 DEF Init, TypeOK, Owner
<1>3. Ownership /\ Closing
  BY DEF Init, Ownership, Closing
<1>. QED
  BY <1>2, <1>3 DEF IInv

(* No step leaves the types.                                               *)
LEMMA TypeStep ==
  ASSUME TypeOK, [Next]_vars
  PROVE  TypeOK'
<1> USE DEF TypeOK
<1>1. ASSUME NEW m \in Message, SendMsg(m) PROVE TypeOK'
  BY <1>1 DEF SendMsg
<1>2. ASSUME NEW m \in Message, MsgQSnd(m) PROVE TypeOK'
  <2>1. Append(list, m) \in Seq(Message)
    BY AppendProperties
  <2>. QED
    BY <1>2, <2>1 DEF MsgQSnd, Signal
<1>3. CASE MsgQRcv
  <2>1. CASE list = << >>
    BY <1>3, <2>1 DEF MsgQRcv, RemoveOldest
  <2>2. CASE list # << >>
    <3>1. Head(list) \in Message /\ Tail(list) \in Seq(Message)
      BY <2>2, HeadTail
    <3>2. <<Head(list)>> \in Seq(Message) /\ <<Head(list)>> # << >>
      BY <3>1
    <3>. QED
      BY <1>3, <2>2, <3>1, <3>2 DEF MsgQRcv, RemoveOldest
  <2>. QED
    BY <2>1, <2>2
<1>4. CASE MsgQRcvWake
  <2>1. CASE list = << >>
    BY <1>4, <2>1 DEF MsgQRcvWake, RemoveOldest
  <2>2. CASE list # << >>
    <3>1. Head(list) \in Message /\ Tail(list) \in Seq(Message)
      BY <2>2, HeadTail
    <3>2. <<Head(list)>> \in Seq(Message) /\ <<Head(list)>> # << >>
      BY <3>1
    <3>. QED
      BY <1>4, <2>2, <3>1, <3>2 DEF MsgQRcvWake, RemoveOldest
  <2>. QED
    BY <2>1, <2>2
<1>5. CASE Proc
  <2>1. processed' \in Seq(Message) /\ Elements(cur) \subseteq Message
    BY <1>5, ConcatProperties DEF Proc, Elements
  <2>. QED
    BY <1>5, <2>1 DEF Proc
<1>6. CASE ThreadEnds
  <2>1. Elements(list) \subseteq Message
    BY DEF Elements
  <2>. QED
    BY <1>6, <2>1 DEF ThreadEnds, LetGo, Owner
<1>7. CASE SpuriousWake
  BY <1>7 DEF SpuriousWake
<1>8. CASE StopLock
  BY <1>8 DEF StopLock, Owner
<1>9. CASE StopInterrupt
  BY <1>9 DEF StopInterrupt, Signal
<1>10. CASE StopRelease
  <2>1. Elements(list) \subseteq Message
    BY DEF Elements
  <2>. QED
    <3>1. CASE owners \subseteq {"stopper"}
      BY <1>10, <2>1, <3>1 DEF StopRelease, LetGo, Owner
    <3>2. CASE ~(owners \subseteq {"stopper"})
      BY <1>10, <3>2 DEF StopRelease, LetGo, Owner
    <3>. QED
      BY <3>1, <3>2
<1>11. CASE UNCHANGED vars
  BY <1>11 DEF vars
<1>. QED
  BY <1>1, <1>2, <1>3, <1>4, <1>5, <1>6, <1>7, <1>8, <1>9, <1>10, <1>11 DEF Next, Worker, Stopper

(* No step changes who holds the runnable but in the order it is let go.   *)
LEMMA OwnershipStep ==
  ASSUME TypeOK, Ownership, Closing, [Next]_vars
  PROVE  Ownership'
<1> USE DEF TypeOK, Ownership, Closing, Owner
<1>1. ASSUME NEW m \in Message, SendMsg(m) PROVE Ownership'
  BY <1>1 DEF SendMsg
<1>2. ASSUME NEW m \in Message, MsgQSnd(m) PROVE Ownership'
  BY <1>2 DEF MsgQSnd, Signal
<1>3. CASE MsgQRcv
  BY <1>3 DEF MsgQRcv, RemoveOldest
<1>4. CASE MsgQRcvWake
  BY <1>4 DEF MsgQRcvWake, RemoveOldest
<1>5. CASE Proc
  BY <1>5 DEF Proc
<1>6. CASE ThreadEnds
  BY <1>6 DEF ThreadEnds, LetGo
<1>7. CASE SpuriousWake
  BY <1>7 DEF SpuriousWake
<1>8. CASE StopLock
  BY <1>8 DEF StopLock
<1>9. CASE StopInterrupt
  BY <1>9 DEF StopInterrupt, Signal
<1>10. CASE StopRelease
  BY <1>10 DEF StopRelease, LetGo
<1>11. CASE UNCHANGED vars
  BY <1>11 DEF vars
<1>. QED
  BY <1>1, <1>2, <1>3, <1>4, <1>5, <1>6, <1>7, <1>8, <1>9, <1>10, <1>11 DEF Next, Worker, Stopper

(* No step makes the worker leave before the queue is unblocked.           *)
LEMMA ClosingStep ==
  ASSUME TypeOK, Ownership, Closing, [Next]_vars
  PROVE  Closing'
<1> USE DEF TypeOK, Ownership, Closing
<1>1. ASSUME NEW m \in Message, SendMsg(m) PROVE Closing'
  BY <1>1 DEF SendMsg
<1>2. ASSUME NEW m \in Message, MsgQSnd(m) PROVE Closing'
  BY <1>2 DEF MsgQSnd, Signal
<1>3. CASE MsgQRcv
  BY <1>3 DEF MsgQRcv, RemoveOldest
<1>4. CASE MsgQRcvWake
  BY <1>4 DEF MsgQRcvWake, RemoveOldest
<1>5. CASE Proc
  BY <1>5 DEF Proc
<1>6. CASE ThreadEnds
  BY <1>6 DEF ThreadEnds, LetGo
<1>7. CASE SpuriousWake
  BY <1>7 DEF SpuriousWake
<1>8. CASE StopLock
  BY <1>8 DEF StopLock
<1>9. CASE StopInterrupt
  BY <1>9 DEF StopInterrupt, Signal
<1>10. CASE StopRelease
  BY <1>10 DEF StopRelease, LetGo
<1>11. CASE UNCHANGED vars
  BY <1>11 DEF vars
<1>. QED
  BY <1>1, <1>2, <1>3, <1>4, <1>5, <1>6, <1>7, <1>8, <1>9, <1>10, <1>11 DEF Next, Worker, Stopper

-----------------------------------------------------------------------------
(* Every variable keeps its type; the worker has a message in hand exactly *)
(* while it processes one.                                                 *)
THEOREM TypeCorrect == Spec => []TypeOK
<1>1. TypeOK /\ [Next]_vars => TypeOK'
  BY TypeStep
<1>. QED
  BY <1>1, InitIInv, PTL DEF Spec, IInv

(* The inductive invariant holds throughout.                               *)
THEOREM Invariant == Spec => []IInv
<1>1. IInv /\ [Next]_vars => IInv'
  BY TypeStep, OwnershipStep, ClosingStep DEF IInv
<1>. QED
  BY <1>1, InitIInv, PTL DEF Spec

(* The queue is freed after the worker and the destructor are done with    *)
(* it, and after every send when none may overlap the deletion.            *)
THEOREM QueueSafe == Spec => []QueueOutlivesUsers
<1>1. IInv => QueueOutlivesUsers
  BY DEF IInv, TypeOK, Ownership, Closing, QueueOutlivesUsers
<1>. QED
  BY <1>1, Invariant, PTL

-----------------------------------------------------------------------------
(* What the mailbox sees: the worker took the oldest message, or what it   *)
(* had in hand is now counted as processed, which is no step of it.        *)
mailbox == <<list, processed \o cur, unblocked, last>>

(* Receiving is the mailbox's Deliver.                                     *)
LEMMA RemoveDelivers ==
  ASSUME TypeOK, worker # "proc", ~last, list # << >>, RemoveOldest,
         UNCHANGED <<unblocked, processed>>
  PROVE  M!Deliver
<1>1. cur = << >> /\ processed \o cur = processed
  BY ConcatEmptySeq DEF TypeOK
<1>2. Head(list) \in Message
  BY HeadTail DEF TypeOK
<1>3. processed \o <<Head(list)>> = Append(processed, Head(list))
  BY <1>2, AppendIsConcat DEF TypeOK
<1>. QED
  BY <1>1, <1>3 DEF RemoveOldest, M!Deliver

(* Processing only moves the message in hand to the processed ones.        *)
LEMMA ProcStutters ==
  ASSUME TypeOK, Proc
  PROVE  UNCHANGED mailbox
<1>1. processed \o cur \in Seq(Message)
  BY ConcatProperties DEF TypeOK
<1>2. (processed \o cur) \o << >> = processed \o cur
  BY <1>1, ConcatEmptySeq
<1>. QED
  BY <1>2 DEF Proc, mailbox

(* Every step of the task is a step of the mailbox or changes nothing of   *)
(* it.                                                                     *)
LEMMA StepRefines ==
  ASSUME IInv, [Next]_vars
  PROVE  [M!Next]_mailbox
<1> USE DEF IInv
<1>1. ASSUME NEW m \in Message, SendMsg(m) PROVE UNCHANGED mailbox
  BY <1>1 DEF SendMsg, mailbox
<1>2. ASSUME NEW m \in Message, MsgQSnd(m) PROVE M!Accept(m) \/ UNCHANGED mailbox
  BY <1>2 DEF MsgQSnd, mailbox, M!Accept
<1>3. CASE MsgQRcv
  <2>1. CASE ~unblocked /\ list # << >>
    <3>1. ~last
      BY <2>1 DEF Closing
    <3>. QED
      BY <1>3, <2>1, <3>1, RemoveDelivers DEF MsgQRcv, M!Next
  <2>2. CASE unblocked \/ list = << >>
    BY <1>3, <2>2 DEF MsgQRcv, mailbox
  <2>. QED
    BY <2>1, <2>2
<1>4. CASE MsgQRcvWake
  <2>1. CASE list # << >>
    <3>1. ~last
      BY <1>4 DEF Closing, MsgQRcvWake
    <3>. QED
      BY <1>4, <2>1, <3>1, RemoveDelivers DEF MsgQRcvWake, M!Next
  <2>2. CASE list = << >>
    BY <1>4, <2>2 DEF MsgQRcvWake, RemoveOldest, mailbox
  <2>. QED
    BY <2>1, <2>2
<1>5. CASE Proc
  BY <1>5, ProcStutters
<1>6. CASE SpuriousWake \/ StopLock
  BY <1>6 DEF SpuriousWake, StopLock, mailbox
<1>7. CASE ThreadEnds
  <2>1. unblocked
    BY <1>7 DEF ThreadEnds, Closing
  <2>. QED
    BY <1>7, <2>1 DEF ThreadEnds, LetGo, mailbox, M!Next, M!Drop
<1>8. CASE StopInterrupt
  <2>1. ~unblocked
    BY <1>8 DEF StopInterrupt, Closing
  <2>. QED
    BY <1>8, <2>1 DEF StopInterrupt, Signal, M!Next, M!Close
<1>9. CASE StopRelease
  <2>1. unblocked
    BY <1>9 DEF StopRelease, Closing
  <2>. QED
    BY <1>9, <2>1 DEF StopRelease, LetGo, mailbox, M!Next, M!Drop
<1>10. CASE UNCHANGED vars
  BY <1>10 DEF vars, mailbox
<1>. QED
  BY <1>1, <1>2, <1>3, <1>4, <1>5, <1>6, <1>7, <1>8, <1>9, <1>10
     DEF Next, Worker, Stopper, M!Next

(* A message task is a FIFO mailbox that closes: it hands out what it      *)
(* accepted, once each and in order, and at most one message more after    *)
(* it was closed.                                                          *)
THEOREM Refinement == Spec => ImplementsMailbox
<1>1. Init => M!Init
  BY ConcatEmptySeq DEF Init, M!Init
<1>2. IInv /\ [Next]_vars => [M!Next]_mailbox
  BY StepRefines
<1>. QED
  BY <1>1, <1>2, Invariant, PTL DEF Spec, ImplementsMailbox, M!Spec, mailbox

-----------------------------------------------------------------------------
(* The calls that come back to a command of the session: others were made   *)
(* for nobody, or for a client that left.                                   *)
Owes(c) == c.then \notin {"none", "leave"}

(* The calls that set how often the modem fixes. *)
IsTime(c) == c.op \in {"startTime", "stopFix"}

(* A call carries what the handler of its answer will need. *)
WellMade ==
  {c \in CallType :
     /\ c.op = "stopFix" => c.options.interval = 0
     /\ c.then # "none" => c.id \in Session
     /\ c.op \in {"startDist", "stopDist"} => c.id \in Session
     /\ c.then \in {"toTime", "restart", "resave"} => c.options \in Options
     /\ c.then \in {"restart", "resave"} => c.options.distance
     /\ c.then = "toTime" => ~c.options.distance
     /\ c.then = "update" => c.old \in Options}

(* What the adapter and the ledger hold, the calls all well made.           *)
AdapterType ==
  [clients : SUBSET Client, time : Sessions, dist : Sessions, calls : Seq(WellMade)]

LedgerType ==
  [asked : [Session -> Nat], answered : [Session -> Nat], stopped : SUBSET Session]

Pair == [adapter : AdapterType, ledger : LedgerType]

(* How many answers to session s the outstanding calls stand for, and how   *)
(* many the messages that wait for the engine.                              *)
Owed(calls, s) ==
  Cardinality({i \in 1..Len(calls) : calls[i].id = s /\ Owes(calls[i])})

Waiting(pending, s) == Cardinality({i \in 1..Len(pending) : pending[i].id = s})

Due(g, s) == g.ledger.answered[s] + Owed(g.adapter.calls, s)

(* Of a client that is there, each command was answered, waits for the      *)
(* engine or for one call, unless a call failed: the answer of a restart    *)
(* that failed is lost.                                                     *)
LedgerOf(g, pending, failed) ==
  \A s \in Session :
    /\ g.ledger.answered[s] <= g.ledger.asked[s]
    /\ OwnerOf[s] \in g.adapter.clients =>
         LET all == Due(g, s) + Waiting(pending, s)
         IN  /\ all <= g.ledger.asked[s]
             /\ ~failed => all = g.ledger.asked[s]

LedgerInv == LedgerOf(State, engine.pending, budget.failed)

(* The modem, which fixes every v now, will fix every n at least once all   *)
(* the calls are carried out: the last that sets the interval decides.      *)
Bound(calls, v, n) ==
  \A i \in 0..Len(calls) :
    /\ i > 0 => IsTime(calls[i])
    /\ \A j \in i+1..Len(calls) : ~IsTime(calls[j])
    => (IF i = 0 THEN v ELSE calls[i].options.interval) \in 1..n

(* The bound for every time based session.                                  *)
Fast(a, v) == \A s \in DOMAIN a.time : Bound(a.calls, v, a.time[s].interval)

FastInv == modem.up /\ budget.intact => Fast(adapter, modem.interval)

(* The messages that wait for the engine, and the types of the rest.        *)
PendingType == [id : Session, options : Options, update : BOOLEAN]

OthersTyped ==
  /\ engine \in [known : BOOLEAN, pending : Seq(PendingType)]
  /\ modem \in [up : BOOLEAN, interval : Nat, power : 0..5, dist : SUBSET Session]
  /\ budget \in [commands : 0..MaxCommands, fails : 0..MaxFails,
                 resets : 0..MaxResets, failed : BOOLEAN, intact : BOOLEAN]

GnssIInv == State \in Pair /\ OthersTyped /\ LedgerInv /\ FastInv

-----------------------------------------------------------------------------
(* A nonempty set of numbers has its minimum as an element.                 *)
LEMMA LeastIn ==
  ASSUME NEW Q, Q \in SUBSET Nat, Q # {}
  PROVE  \E m \in Q : \A n \in Q : m <= n
<1>1. \E R : IsWellFoundedOn(R, Nat) /\ \A x, y \in Nat : x < y => <<x, y>> \in R
  <2> DEFINE R == OpToRel(<, Nat)
  <2>1. IsWellFoundedOn(R, Nat)
    BY NatLessThanWellFounded
  <2>2. \A x, y \in Nat : x < y => <<x, y>> \in R
    BY DEF OpToRel
  <2> HIDE DEF R
  <2> QED BY <2>1, <2>2
<1>2. PICK R : IsWellFoundedOn(R, Nat) /\ \A x, y \in Nat : x < y => <<x, y>> \in R
  BY <1>1
<1>3. \E m \in Q : \A n \in Q : ~ (<<n, m>> \in R)
  <2>1. IsWellFoundedOn(R, Nat) BY <1>2
  <2>2. Q \subseteq Nat /\ Q # {} OBVIOUS
  <2> QED BY <2>1, <2>2, WFMin
<1>4. PICK m \in Q : \A n \in Q : ~ (<<n, m>> \in R)
  BY <1>3
<1>5. \A n \in Q : ~ (n < m)
  BY <1>2, <1>4
<1> QED BY <1>4, <1>5

(* So the operator that chooses it finds it.                                *)
LEMMA MinIn ==
  ASSUME NEW Q, Q \in SUBSET Nat, Q # {}
  PROVE  Min(Q) \in Q
<1>1. PICK m \in Q : \A n \in Q : m <= n
  BY LeastIn
<1> QED BY <1>1 DEF Min

(* Of every finite set of numbers there is one that any number of others,   *)
(* less than them all, are smaller than.                                    *)
LEMMA RankIn ==
  ASSUME NEW Q, Q \in SUBSET Nat, IsFiniteSet(Q)
  PROVE  \A k \in 0..Cardinality(Q) - 1 :
           \E s \in Q : Cardinality({t \in Q : t < s}) = k
<1> DEFINE Below(s) == {t \in Q : t < s}
           Ranked(k) == \E s \in Q : Cardinality(Below(s)) = k
           Odd == {k \in 0..Cardinality(Q) - 1 : ~Ranked(k)}
<1>1. Cardinality(Q) \in Nat
  BY FS_CardinalityType
<1>2. SUFFICES ASSUME Odd # {} PROVE FALSE
  OBVIOUS
<1>3. PICK k \in Odd : \A n \in Odd : k <= n
  <2>1. Odd \in SUBSET Nat BY <1>1
  <2> QED BY <1>2, <2>1, LeastIn
<1>0. \A x \in Q : x \in Nat
  OBVIOUS
<1>4. k \in Nat /\ k < Cardinality(Q) /\ ~Ranked(k)
  BY <1>1, <1>3
<1>5. CASE k = 0
  <2>1. Q # {} BY <1>1, <1>4, FS_EmptySet
  <2>2. PICK s \in Q : \A t \in Q : s <= t BY <2>1, LeastIn
  <2>3. Below(s) = {}
    <3>1. \A t \in Q : ~(t < s) BY <1>0, <2>2
    <3> QED BY <3>1
  <2>4. Cardinality(Below(s)) = 0 BY <2>3, FS_EmptySet
  <2> QED BY <1>4, <1>5, <2>4
<1>6. CASE k # 0
  <2>1. k - 1 \in 0..Cardinality(Q) - 1 /\ k - 1 \notin Odd
    BY <1>1, <1>3, <1>4, <1>6
  <2>2. PICK s \in Q : Cardinality(Below(s)) = k - 1 BY <2>1
  <2>3. IsFiniteSet(Below(s))
    <3>1. Below(s) \in SUBSET Q OBVIOUS
    <3> QED BY <3>1, FS_Subset
  <2>4. IsFiniteSet(Below(s) \cup {s}) /\ Cardinality(Below(s) \cup {s}) = k
    <3>1. s \notin Below(s) OBVIOUS
    <3> HIDE DEF Below
    <3>2. /\ IsFiniteSet(Below(s) \cup {s})
          /\ Cardinality(Below(s) \cup {s}) = Cardinality(Below(s)) + 1
      BY <2>3, <3>1, FS_AddElement
    <3>3. k - 1 + 1 = k BY <1>4
    <3> QED BY <2>2, <3>2, <3>3
  <2>5. PICK u \in Q : u \notin Below(s) \cup {s}
    <3>1. CASE Q \subseteq Below(s) \cup {s}
      <4>1. Q = Below(s) \cup {s} BY <3>1
      <4>2. k < k BY <1>4, <2>4, <4>1
      <4> QED BY <1>4, <4>2
    <3> QED BY <3>1
  <2>6. PICK v \in Q \ (Below(s) \cup {s}) :
          \A t \in Q \ (Below(s) \cup {s}) : v <= t
    <3>1. Q \ (Below(s) \cup {s}) # {} /\ Q \ (Below(s) \cup {s}) \in SUBSET Nat
      BY <2>5
    <3> QED BY <3>1, LeastIn
  <2>7. Below(v) = Below(s) \cup {s}
    <3>1. \A t \in Q : t < v => t \in Below(s) \cup {s}
      <4>1. \A t \in Q \ (Below(s) \cup {s}) : ~(t < v) BY <1>0, <2>6
      <4> QED BY <4>1
    <3>2. \A t \in Below(s) \cup {s} : t < v
      <4>1. ~(v < s) /\ v # s BY <2>6
      <4>2. s < v BY <1>0, <2>6, <4>1
      <4>3. \A t \in Below(s) : t < v BY <1>0, <2>6, <4>2
      <4> QED BY <4>2, <4>3
    <3> QED BY <3>1, <3>2
  <2>8. Cardinality(Below(v)) = k BY <2>4, <2>7
  <2> QED BY <1>4, <2>6, <2>8
<1> QED BY <1>5, <1>6

(* InOrder lists elements of the set.                                       *)
LEMMA InOrderIn ==
  ASSUME NEW Q, Q \in SUBSET Nat, IsFiniteSet(Q)
  PROVE  /\ InOrder(Q) \in Seq(Q)
         /\ DOMAIN InOrder(Q) = 1..Len(InOrder(Q))
         /\ Len(InOrder(Q)) = Cardinality(Q)
         /\ \A i \in DOMAIN InOrder(Q) : InOrder(Q)[i] \in Q
<1> DEFINE n == Cardinality(Q)
           el(i) == CHOOSE s \in Q : Cardinality({t \in Q : t < s}) = i - 1
<1>1. n \in Nat
  BY FS_CardinalityType
<1>2. \A i \in 1..n : el(i) \in Q
  <2>1. SUFFICES ASSUME NEW i \in 1..n PROVE el(i) \in Q
    OBVIOUS
  <2>2. i - 1 \in 0..Cardinality(Q) - 1 BY <1>1
  <2>3. \E s \in Q : Cardinality({t \in Q : t < s}) = i - 1
    BY <2>2, RankIn
  <2> QED BY <2>3
<1>3. InOrder(Q) = [i \in 1..n |-> el(i)]
  BY DEF InOrder
<1> HIDE DEF n, el
<1>4. InOrder(Q) \in [1..n -> Q]
  BY <1>2, <1>3
<1>5. InOrder(Q) \in Seq(Q) /\ Len(InOrder(Q)) = n
  BY <1>1, <1>4
<1>6. DOMAIN InOrder(Q) = 1..n
  BY <1>4
<1> QED BY <1>4, <1>5, <1>6 DEF n

-----------------------------------------------------------------------------
(* Counting the elements of a sequence that are of a kind: what one more at *)
(* its end, and one less at its head, do to the count.                      *)
LEMMA CountShift ==
  ASSUME NEW n \in Nat, NEW A, A \in SUBSET (1..n+1),
         NEW B, B \in SUBSET (1..n), \A i \in 1..n : i \in B <=> i + 1 \in A
  PROVE  Cardinality(A) = Cardinality(B) + (IF 1 \in A THEN 1 ELSE 0)
<1>1. IsFiniteSet(1..n+1) /\ IsFiniteSet(A)
  <2>1. 1 \in Int /\ n + 1 \in Int OBVIOUS
  <2>2. IsFiniteSet(1..n+1) BY <2>1, FS_Interval
  <2> QED BY <2>2, FS_Subset
<1>2. IsFiniteSet(A \ {1}) /\ Cardinality(A) \in Nat /\ Cardinality(A \ {1}) \in Nat
      /\ Cardinality(A \ {1}) = Cardinality(A) - (IF 1 \in A THEN 1 ELSE 0)
  BY <1>1, FS_RemoveElement, FS_CardinalityType
<1>3. ExistsBijection(A \ {1}, B)
  <2> DEFINE f == [x \in A \ {1} |-> x - 1]
  <2>1. f \in [A \ {1} -> B]
    BY SMT
  <2>2. \A x, y \in A \ {1} : f[x] = f[y] => x = y
    BY SMT
  <2>3. \A y \in B : \E x \in A \ {1} : f[x] = y
    <3>1. SUFFICES ASSUME NEW y \in B PROVE \E x \in A \ {1} : f[x] = y
      OBVIOUS
    <3>2. y + 1 \in A \ {1} BY SMT
    <3>3. f[y + 1] = y BY <3>2, SMT
    <3> QED BY <3>2, <3>3
  <2> HIDE DEF f
  <2>4. f \in Bijection(A \ {1}, B)
    BY <2>1, <2>2, <2>3 DEF Bijection, Injection, Surjection, IsInjective
  <2> QED BY <2>4 DEF ExistsBijection
<1>4. Cardinality(B) = Cardinality(A \ {1})
  BY <1>2, <1>3, FS_Bijection
<1> QED BY <1>2, <1>4

(* The answers that calls stand for are a number, 0 without calls.          *)
LEMMA OwedNat ==
  ASSUME NEW calls \in Seq(WellMade), NEW s \in Session
  PROVE  Owed(calls, s) \in Nat /\ (calls = << >> => Owed(calls, s) = 0)
<1> DEFINE A == {i \in 1..Len(calls) : calls[i].id = s /\ Owes(calls[i])}
<1>1. A \in SUBSET (1..Len(calls)) /\ Len(calls) \in Nat
  OBVIOUS
<1>2. IsFiniteSet(1..Len(calls))
  <2>1. 1 \in Int /\ Len(calls) \in Int BY <1>1
  <2> QED BY <2>1, FS_Interval
<1>3. IsFiniteSet(A)
  BY <1>1, <1>2, FS_Subset
<1>4. calls = << >> => A = {}
  OBVIOUS
<1> QED BY <1>3, <1>4, FS_CardinalityType, FS_EmptySet DEF Owed

(* One call more.                                                           *)
LEMMA OwedAppend ==
  ASSUME NEW calls \in Seq(WellMade), NEW c \in WellMade, NEW s \in Session
  PROVE  Owed(calls \o <<c>>, s) = Owed(calls, s) + (IF c.id = s /\ Owes(c) THEN 1 ELSE 0)
<1> DEFINE n == Len(calls)
           A == {i \in 1..n : calls[i].id = s /\ Owes(calls[i])}
           new == calls \o <<c>>
           B == {i \in 1..Len(new) : new[i].id = s /\ Owes(new[i])}
<1>1. n \in Nat /\ A \in SUBSET (1..n) /\ n + 1 \notin A
  OBVIOUS
<1>2. /\ new \in Seq(WellMade) /\ Len(new) = n + 1 /\ new[n + 1] = c
      /\ \A i \in 1..n : new[i] = calls[i]
  OBVIOUS
<1>3. B = IF c.id = s /\ Owes(c) THEN A \cup {n + 1} ELSE A
  <2> HIDE DEF new
  <2>1. \A i \in 1..n : i \in B <=> i \in A BY <1>1, <1>2
  <2>2. n + 1 \in B <=> c.id = s /\ Owes(c) BY <1>1, <1>2
  <2>3. 1..Len(new) = 1..n \cup {n + 1} BY <1>1, <1>2
  <2>4. B \subseteq 1..n \cup {n + 1} BY <2>3
  <2>5. A \subseteq 1..n OBVIOUS
  <2> QED BY <2>1, <2>2, <2>4, <2>5
<1>4. IsFiniteSet(A)
  <2>1. 1 \in Int /\ n \in Int BY <1>1
  <2>2. IsFiniteSet(1..n) BY <2>1, FS_Interval
  <2> QED BY <1>1, <2>2, FS_Subset
<1>5. Cardinality(A) \in Nat /\ Cardinality(A \cup {n + 1}) = Cardinality(A) + 1
  BY <1>1, <1>4, FS_AddElement, FS_CardinalityType
<1>6. Owed(calls, s) = Cardinality(A) /\ Owed(new, s) = Cardinality(B)
  BY DEF Owed
<1> HIDE DEF A, B, n, new
<1>7. CASE c.id = s /\ Owes(c) BY <1>3, <1>5, <1>6, <1>7 DEF new
<1>8. CASE ~(c.id = s /\ Owes(c)) BY <1>3, <1>5, <1>6, <1>8 DEF new
<1> QED BY <1>7, <1>8

(* More calls, none of which stands for an answer to s.                     *)
LEMMA OwedOthers ==
  ASSUME NEW calls \in Seq(WellMade), NEW more \in Seq(WellMade), NEW s \in Session,
         \A i \in 1..Len(more) : ~(more[i].id = s /\ Owes(more[i]))
  PROVE  Owed(calls \o more, s) = Owed(calls, s)
<1> DEFINE n == Len(calls)
           A == {i \in 1..n : calls[i].id = s /\ Owes(calls[i])}
           new == calls \o more
           B == {i \in 1..Len(new) : new[i].id = s /\ Owes(new[i])}
<1>1. n \in Nat /\ Len(more) \in Nat
  OBVIOUS
<1>2. /\ Len(new) = n + Len(more)
      /\ \A i \in 1..n : new[i] = calls[i]
      /\ \A i \in n + 1..n + Len(more) : new[i] = more[i - n]
  OBVIOUS
<1> HIDE DEF new, n
<1>3. \A i \in n + 1..n + Len(more) : i \notin B
  <2>1. SUFFICES ASSUME NEW i \in n + 1..n + Len(more) PROVE i \notin B
    OBVIOUS
  <2>2. i - n \in 1..Len(more) BY <1>1
  <2> QED BY <1>2, <2>2
<1>4. \A i \in 1..Len(new) : i \in 1..n \/ i \in n + 1..n + Len(more)
  BY <1>1, <1>2
<1>5. \A i \in 1..n : i \in 1..Len(new)
  BY <1>1, <1>2
<1>6. B = A
  BY <1>2, <1>3, <1>4, <1>5
<1> QED BY <1>6 DEF Owed, new, n

(* The first call is taken.                                                 *)
LEMMA OwedTail ==
  ASSUME NEW calls \in Seq(WellMade), calls # << >>, NEW s \in Session
  PROVE  Owed(calls, s) = Owed(Tail(calls), s) +
           (IF Head(calls).id = s /\ Owes(Head(calls)) THEN 1 ELSE 0)
<1> DEFINE n == Len(Tail(calls))
           A == {i \in 1..Len(calls) : calls[i].id = s /\ Owes(calls[i])}
           B == {i \in 1..n : Tail(calls)[i].id = s /\ Owes(Tail(calls)[i])}
<1>1. /\ n \in Nat /\ Len(calls) = n + 1
      /\ \A i \in 1..n : Tail(calls)[i] = calls[i + 1]
  <2>1. Tail(calls) \in Seq(WellMade) /\ Len(Tail(calls)) = Len(calls) - 1
        /\ \A i \in 1..Len(Tail(calls)) : Tail(calls)[i] = calls[i + 1]
    BY HeadTailProperties
  <2>2. Len(calls) \in Nat /\ Len(Tail(calls)) \in Nat BY <2>1, LenProperties
  <2> QED BY <2>1, <2>2
<1>2. Head(calls) = calls[1]
  OBVIOUS
<1>3. A \in SUBSET (1..n + 1)
  BY <1>1
<1>4. B \in SUBSET (1..n) /\ \A i \in 1..n : i \in B <=> i + 1 \in A
  <2>1. \A i \in 1..n : i + 1 \in 1..Len(calls) BY <1>1
  <2> QED BY <1>1, <2>1
<1>5. 1 \in A <=> Head(calls).id = s /\ Owes(Head(calls))
  <2>1. 1 \in 1..Len(calls) BY <1>1
  <2> QED BY <1>2, <2>1
<1>6. Cardinality(A) = Cardinality(B) + (IF 1 \in A THEN 1 ELSE 0)
  <2>1. n \in Nat BY <1>1
  <2> HIDE DEF A, B, n
  <2> QED BY <1>3, <1>4, <2>1, CountShift
<1> QED BY <1>5, <1>6 DEF Owed

(* The same of the messages that wait for the engine.                       *)
LEMMA WaitingNat ==
  ASSUME NEW pending, pending \in Seq(PendingType),
         NEW s \in Session
  PROVE  Waiting(pending, s) \in Nat /\ (pending = << >> => Waiting(pending, s) = 0)
<1> DEFINE A == {i \in 1..Len(pending) : pending[i].id = s}
<1>1. A \in SUBSET (1..Len(pending)) /\ Len(pending) \in Nat
  OBVIOUS
<1>2. IsFiniteSet(1..Len(pending))
  <2>1. 1 \in Int /\ Len(pending) \in Int BY <1>1
  <2> QED BY <2>1, FS_Interval
<1>3. IsFiniteSet(A)
  BY <1>1, <1>2, FS_Subset
<1>4. pending = << >> => A = {}
  OBVIOUS
<1> QED BY <1>3, <1>4, FS_CardinalityType, FS_EmptySet DEF Waiting

(* One message more.                                                        *)
LEMMA WaitingAppend ==
  ASSUME NEW pending, pending \in Seq(PendingType),
         NEW m \in PendingType,
         NEW s \in Session
  PROVE  Waiting(Append(pending, m), s) = Waiting(pending, s) + (IF m.id = s THEN 1 ELSE 0)
<1> DEFINE n == Len(pending)
           A == {i \in 1..n : pending[i].id = s}
           new == Append(pending, m)
           B == {i \in 1..Len(new) : new[i].id = s}
<1>1. n \in Nat /\ A \in SUBSET (1..n) /\ n + 1 \notin A
  OBVIOUS
<1>2. /\ Len(new) = n + 1 /\ new[n + 1] = m
      /\ \A i \in 1..n : new[i] = pending[i]
  OBVIOUS
<1>3. B = IF m.id = s THEN A \cup {n + 1} ELSE A
  <2> HIDE DEF new
  <2>1. \A i \in 1..n : i \in B <=> i \in A BY <1>1, <1>2
  <2>2. n + 1 \in B <=> m.id = s BY <1>1, <1>2
  <2>3. 1..Len(new) = 1..n \cup {n + 1} BY <1>1, <1>2
  <2>4. B \subseteq 1..n \cup {n + 1} BY <2>3
  <2>5. A \subseteq 1..n OBVIOUS
  <2> QED BY <2>1, <2>2, <2>4, <2>5
<1>4. IsFiniteSet(A)
  <2>1. 1 \in Int /\ n \in Int BY <1>1
  <2>2. IsFiniteSet(1..n) BY <2>1, FS_Interval
  <2> QED BY <1>1, <2>2, FS_Subset
<1>5. Cardinality(A) \in Nat /\ Cardinality(A \cup {n + 1}) = Cardinality(A) + 1
  BY <1>1, <1>4, FS_AddElement, FS_CardinalityType
<1>6. Waiting(pending, s) = Cardinality(A) /\ Waiting(new, s) = Cardinality(B)
  BY DEF Waiting
<1> HIDE DEF A, B, n, new
<1>7. CASE m.id = s BY <1>3, <1>5, <1>6, <1>7 DEF new
<1>8. CASE m.id # s BY <1>3, <1>5, <1>6, <1>8 DEF new
<1> QED BY <1>7, <1>8

(* The first message is taken.                                              *)
LEMMA WaitingTail ==
  ASSUME NEW pending, pending \in Seq(PendingType),
         pending # << >>, NEW s \in Session
  PROVE  Waiting(pending, s) =
           Waiting(Tail(pending), s) + (IF Head(pending).id = s THEN 1 ELSE 0)
<1> DEFINE n == Len(Tail(pending))
           A == {i \in 1..Len(pending) : pending[i].id = s}
           B == {i \in 1..n : Tail(pending)[i].id = s}
<1>1. /\ n \in Nat /\ Len(pending) = n + 1
      /\ \A i \in 1..n : Tail(pending)[i] = pending[i + 1]
  <2>1. Tail(pending) \in Seq(PendingType)
        /\ Len(Tail(pending)) = Len(pending) - 1
        /\ \A i \in 1..Len(Tail(pending)) : Tail(pending)[i] = pending[i + 1]
    BY HeadTailProperties
  <2>2. Len(pending) \in Nat /\ Len(Tail(pending)) \in Nat BY <2>1, LenProperties
  <2> QED BY <2>1, <2>2
<1>2. Head(pending) = pending[1]
  OBVIOUS
<1>3. A \in SUBSET (1..n + 1)
  BY <1>1
<1>4. B \in SUBSET (1..n) /\ \A i \in 1..n : i \in B <=> i + 1 \in A
  <2>1. \A i \in 1..n : i + 1 \in 1..Len(pending) BY <1>1
  <2> QED BY <1>1, <2>1
<1>5. 1 \in A <=> Head(pending).id = s
  <2>1. 1 \in 1..Len(pending) BY <1>1
  <2> QED BY <1>2, <2>1
<1>6. Cardinality(A) = Cardinality(B) + (IF 1 \in A THEN 1 ELSE 0)
  <2>1. n \in Nat BY <1>1
  <2> HIDE DEF A, B, n
  <2> QED BY <1>3, <1>4, <2>1, CountShift
<1> QED BY <1>5, <1>6 DEF Waiting

-----------------------------------------------------------------------------
(* What the modem will fix, with more calls behind and one less in front.   *)
LEMMA BoundWeaker ==
  ASSUME NEW calls, NEW v, NEW n \in Nat, NEW m \in Nat, n <= m, Bound(calls, v, n)
  PROVE  Bound(calls, v, m)
<1>1. \A x : x \in 1..n => x \in 1..m
  OBVIOUS
<1> QED BY <1>1 DEF Bound

(* Calls that do not set the interval change nothing.                       *)
LEMMA BoundOthers ==
  ASSUME NEW calls \in Seq(WellMade), NEW more \in Seq(WellMade),
         NEW v, NEW n, Bound(calls, v, n),
         \A i \in 1..Len(more) : ~IsTime(more[i])
  PROVE  Bound(calls \o more, v, n)
<1> DEFINE l == Len(calls)
           new == calls \o more
<1>1. /\ l \in Nat /\ Len(more) \in Nat /\ Len(new) = l + Len(more)
      /\ \A i \in 1..l : new[i] = calls[i]
      /\ \A i \in l + 1..l + Len(more) : new[i] = more[i - l]
  OBVIOUS
<1> HIDE DEF new
<1>2. \A i \in l + 1..l + Len(more) : ~IsTime(new[i])
  <2>1. \A i \in l + 1..l + Len(more) : i - l \in 1..Len(more) BY <1>1
  <2> QED BY <1>1, <2>1
<1>3. SUFFICES ASSUME NEW i \in 0..Len(new), i > 0 => IsTime(new[i]),
                      \A j \in i+1..Len(new) : ~IsTime(new[j])
               PROVE  (IF i = 0 THEN v ELSE new[i].options.interval) \in 1..n
  BY DEF Bound, new
<1>4. i \in 0..l
  BY <1>1, <1>2, <1>3
<1>5. i > 0 => IsTime(calls[i]) /\ new[i] = calls[i]
  BY <1>1, <1>3, <1>4
<1>6. \A j \in i+1..l : ~IsTime(calls[j])
  <2>1. SUFFICES ASSUME NEW j \in i+1..l PROVE ~IsTime(calls[j])
    OBVIOUS
  <2>2. j \in i+1..Len(new) /\ j \in 1..l BY <1>1, <1>4
  <2> QED BY <1>1, <1>3, <2>2
<1>7. (IF i = 0 THEN v ELSE calls[i].options.interval) \in 1..n
  BY <1>4, <1>5, <1>6 DEF Bound
<1> QED BY <1>4, <1>5, <1>7

(* A later call that sets an interval that is enough decides.               *)
LEMMA BoundAfter ==
  ASSUME NEW calls \in Seq(WellMade), NEW more \in Seq(WellMade), NEW v, NEW n,
         NEW k \in 1..Len(more), IsTime(more[k]),
         \A i \in k+1..Len(more) : ~IsTime(more[i]),
         more[k].options.interval \in 1..n
  PROVE  Bound(calls \o more, v, n)
<1> DEFINE l == Len(calls)
           new == calls \o more
<1>1. /\ l \in Nat /\ Len(more) \in Nat /\ Len(new) = l + Len(more)
      /\ \A i \in l + 1..l + Len(more) : new[i] = more[i - l]
  OBVIOUS
<1> HIDE DEF new
<1>2. SUFFICES ASSUME NEW i \in 0..Len(new), i > 0 => IsTime(new[i]),
                      \A j \in i+1..Len(new) : ~IsTime(new[j])
               PROVE  (IF i = 0 THEN v ELSE new[i].options.interval) \in 1..n
  BY DEF Bound, new
<1>3. l + k \in l + 1..l + Len(more) /\ (l + k) - l = k /\ l + k \in 1..Len(new)
  BY <1>1
<1>4. IsTime(new[l + k]) /\ new[l + k] = more[k]
  BY <1>1, <1>3
<1>5. i >= l + k
  BY <1>1, <1>2, <1>3, <1>4
<1>6. ~(i > l + k)
  <2>1. SUFFICES ASSUME i > l + k PROVE FALSE
    OBVIOUS
  <2>2. i \in l + 1..l + Len(more) /\ i - l \in k+1..Len(more) BY <1>1, <1>3, <2>1
  <2> QED BY <1>1, <1>2, <2>1, <2>2
<1>7. i = l + k /\ i # 0
  <2>1. i \in Nat /\ l + k \in Nat /\ k > 0 BY <1>1, <1>3
  <2> HIDE DEF l
  <2> QED BY <1>1, <1>5, <1>6, <2>1
<1> QED BY <1>4, <1>7

(* The first call is carried out.                                           *)
LEMMA BoundTail ==
  ASSUME NEW calls \in Seq(WellMade), calls # << >>, NEW v, NEW n, Bound(calls, v, n)
  PROVE  Bound(Tail(calls),
               IF IsTime(Head(calls)) THEN Head(calls).options.interval ELSE v, n)
<1> DEFINE w == IF IsTime(Head(calls)) THEN Head(calls).options.interval ELSE v
           new == Tail(calls)
           l == Len(calls)
<1>1. /\ l \in Nat /\ l # 0 /\ Len(new) = l - 1 /\ Head(calls) = calls[1]
      /\ \A i \in 1..l - 1 : new[i] = calls[i + 1]
  <2>1. Len(new) = l - 1 /\ \A i \in 1..Len(new) : new[i] = calls[i + 1]
    BY HeadTailProperties
  <2>2. l \in Nat /\ l # 0 /\ Head(calls) = calls[1] OBVIOUS
  <2> QED BY <2>1, <2>2
<1> HIDE DEF new, w
<1>2. SUFFICES ASSUME NEW i \in 0..Len(new), i > 0 => IsTime(new[i]),
                      \A j \in i+1..Len(new) : ~IsTime(new[j])
               PROVE  (IF i = 0 THEN w ELSE new[i].options.interval) \in 1..n
  BY DEF Bound, new, w
<1>3. \A j \in i+2..l : ~IsTime(calls[j])
  <2>1. SUFFICES ASSUME NEW j \in i+2..l PROVE ~IsTime(calls[j])
    OBVIOUS
  <2>2. j - 1 \in i+1..Len(new) /\ j - 1 \in 1..l-1 /\ (j - 1) + 1 = j BY <1>1
  <2> QED BY <1>1, <1>2, <2>2
<1>4. CASE i > 0
  <2>1. i + 1 \in 0..l /\ i + 1 > 0 /\ i \in 1..l-1 BY <1>1, <1>4
  <2>2. IsTime(calls[i + 1]) BY <1>1, <1>2, <1>4, <2>1
  <2>3. \A j \in (i+1)+1..l : ~IsTime(calls[j]) BY <1>3
  <2>4. calls[i + 1].options.interval \in 1..n
    <3>1. (IF i + 1 = 0 THEN v ELSE calls[i + 1].options.interval) \in 1..n
      BY <2>1, <2>2, <2>3, Zenon DEF Bound
    <3> QED BY <2>1, <3>1
  <2> QED BY <1>1, <1>4, <2>1, <2>4
<1>5. CASE i = 0 /\ IsTime(Head(calls))
  <2>1. 1 \in 0..l /\ \A j \in 1+1..l : ~IsTime(calls[j]) BY <1>1, <1>3, <1>5
  <2>2. calls[1].options.interval \in 1..n BY <1>1, <1>5, <2>1 DEF Bound
  <2> QED BY <1>1, <1>5, <2>2 DEF w
<1>6. CASE i = 0 /\ ~IsTime(Head(calls))
  <2>1. 0 \in 0..l /\ \A j \in 0+1..l : ~IsTime(calls[j])
    <3>1. \A j \in 0+1..l : j = 1 \/ j \in i+2..l BY <1>6
    <3> QED BY <1>1, <1>3, <1>6, <3>1
  <2>2. v \in 1..n BY <1>1, <2>1 DEF Bound
  <2> QED BY <1>6, <2>2 DEF w
<1> QED BY <1>4, <1>5, <1>6

-----------------------------------------------------------------------------
(* The options of sessions and calls.                                       *)
OptionType == [interval : Nat, power : 0..5, distance : BOOLEAN]

(* Real options ask for something.                                          *)
LEMMA OptionFields ==
  /\ \A o \in Options :
       /\ o \in OptionType /\ o.interval \in Nat /\ o.interval > 0
       /\ o.power \in 1..5 /\ o.distance \in BOOLEAN
  /\ NoOptions \in OptionType /\ NoOptions.interval = 0
<1>1. \A o \in Options :
        /\ o \in OptionType /\ o.interval \in Nat /\ o.interval > 0
        /\ o.power \in 1..5 /\ o.distance \in BOOLEAN
  <2>1. SUFFICES ASSUME NEW o \in Options
                 PROVE  /\ o \in OptionType /\ o.interval \in Nat /\ o.interval > 0
                        /\ o.power \in 1..5 /\ o.distance \in BOOLEAN
    OBVIOUS
  <2>2. o \in [interval : Nat \ {0}, power : 1..5, distance : BOOLEAN]
    BY GnssAssumption
  <2> QED BY <2>2 DEF OptionType
<1> QED BY <1>1 DEF NoOptions, OptionType

(* A call has the fields it was made with.                                  *)
LEMMA CallFields ==
  ASSUME NEW op \in {"startTime", "stopFix", "startDist", "stopDist"},
         NEW s \in Session \cup {NoSession}, NEW o \in OptionType,
         NEW then \in Response
  PROVE  LET c == Call(op, s, o, then)
         IN  /\ c \in CallType /\ c.op = op /\ c.id = s /\ c.options = o
             /\ c.then = then /\ c.old = NoOptions
BY DEF Call, CallType, OptionType

(* A map of sessions has finitely many, each with options.                  *)
LEMMA SessionsFields ==
  ASSUME NEW f \in Sessions
  PROVE  /\ DOMAIN f \in SUBSET Session /\ IsFiniteSet(DOMAIN f)
         /\ DOMAIN f \in SUBSET Nat
         /\ \A s \in DOMAIN f : f[s] \in Options
         /\ f = [s \in DOMAIN f |-> f[s]]
<1>1. PICK S \in SUBSET Session : f \in [S -> Options]
  BY DEF Sessions
<1>2. DOMAIN f \in SUBSET Session
  BY <1>1
<1>3. IsFiniteSet(DOMAIN f)
  BY <1>2, FS_Subset, GnssAssumption
<1> QED BY <1>1, <1>2, <1>3, GnssAssumption

(* A map made for some sessions is one.                                     *)
LEMMA IsSessions ==
  ASSUME NEW S \in SUBSET Session, NEW f \in [S -> Options]
  PROVE  f \in Sessions
BY DEF Sessions

(* A session is added or changed.                                           *)
LEMMA WithType ==
  ASSUME NEW f \in Sessions, NEW s \in Session, NEW o \in Options
  PROVE  /\ With(f, s, o) \in Sessions
         /\ DOMAIN With(f, s, o) = DOMAIN f \cup {s}
         /\ With(f, s, o)[s] = o
         /\ \A t \in DOMAIN f \ {s} : With(f, s, o)[t] = f[t]
<1>1. DOMAIN f \in SUBSET Session /\ \A t \in DOMAIN f : f[t] \in Options
  BY SessionsFields
<1>2. With(f, s, o) \in [DOMAIN f \cup {s} -> Options]
  BY <1>1 DEF With
<1>3. DOMAIN f \cup {s} \in SUBSET Session
  BY <1>1
<1>4. With(f, s, o) \in Sessions
  BY <1>2, <1>3, IsSessions
<1> QED BY <1>4 DEF With

(* Only some sessions are kept.                                             *)
LEMMA RestrictType ==
  ASSUME NEW f \in Sessions, NEW S, S \in SUBSET DOMAIN f
  PROVE  /\ Restrict(f, S) \in Sessions /\ DOMAIN Restrict(f, S) = S
         /\ \A t \in S : Restrict(f, S)[t] = f[t]
<1>1. DOMAIN f \in SUBSET Session /\ \A t \in DOMAIN f : f[t] \in Options
  BY SessionsFields
<1>2. Restrict(f, S) \in [S -> Options] /\ S \in SUBSET Session
  BY <1>1 DEF Restrict
<1>3. Restrict(f, S) \in Sessions
  BY <1>2, IsSessions
<1> QED BY <1>3 DEF Restrict

(* A session is removed.                                                    *)
LEMMA WithoutType ==
  ASSUME NEW f \in Sessions, NEW s
  PROVE  /\ Without(f, s) \in Sessions /\ DOMAIN Without(f, s) = DOMAIN f \ {s}
         /\ \A t \in DOMAIN f \ {s} : Without(f, s)[t] = f[t]
<1>1. DOMAIN f \ {s} \in SUBSET DOMAIN f
  OBVIOUS
<1> QED BY <1>1, RestrictType DEF Without

(* The session with the smallest interval is one of them.                   *)
LEMMA SmallestIntervalIn ==
  ASSUME NEW time \in Sessions, NEW S \in SUBSET DOMAIN time, S # {}
  PROVE  /\ SmallestInterval(time, S) \in Options
         /\ \E s \in S : SmallestInterval(time, S) = time[s]
         /\ \A t \in S : SmallestInterval(time, S).interval <= time[t].interval
<1>1. /\ \A s \in S : time[s] \in Options /\ time[s].interval \in Nat /\ s \in Nat
  BY SessionsFields, OptionFields
<1> DEFINE I == {time[s].interval : s \in S}
<1>2. PICK i \in I : \A j \in I : i <= j
  <2>1. I \in SUBSET Nat /\ I # {} BY <1>1
  <2> QED BY <2>1, LeastIn
<1> DEFINE T == {s \in S : time[s].interval = i}
<1>3. PICK s \in T : \A t \in T : s <= t
  <2>1. T \in SUBSET Nat /\ T # {} BY <1>1, <1>2
  <2> QED BY <2>1, LeastIn
<1> DEFINE Best(b) == \A t \in S : \/ time[b].interval < time[t].interval
                                   \/ time[b].interval = time[t].interval /\ b <= t
<1>4. s \in S /\ Best(s)
  <2>1. s \in S /\ time[s].interval = i BY <1>3
  <2>2. SUFFICES ASSUME NEW t \in S
                 PROVE  \/ time[s].interval < time[t].interval
                        \/ time[s].interval = time[t].interval /\ s <= t
    BY <2>1
  <2>3. i <= time[t].interval BY <1>2
  <2>4. CASE time[t].interval = i
    <3>1. t \in T BY <2>4
    <3> QED BY <1>3, <2>1, <2>4, <3>1
  <2>5. CASE time[t].interval # i
    BY <1>1, <2>1, <2>3, <2>5
  <2> QED BY <2>4, <2>5
<1> DEFINE b == CHOOSE x \in S : Best(x)
<1>5. b \in S /\ Best(b)
  <2>1. \E x \in S : Best(x) BY <1>4
  <2> HIDE DEF Best
  <2> QED BY <2>1
<1>6. SmallestInterval(time, S) = time[b]
  BY DEF SmallestInterval
<1> HIDE DEF b
<1>7. \A t \in S : time[b].interval <= time[t].interval
  BY <1>1, <1>5
<1> QED BY <1>1, <1>5, <1>6, <1>7

(* The smallest power mode is a power mode.                                 *)
LEMMA SmallestPowerIn ==
  ASSUME NEW time \in Sessions, NEW S \in SUBSET DOMAIN time, S # {}
  PROVE  SmallestPower(time, S) \in 1..5
<1>1. \A s \in S : time[s].power \in 1..5
  BY SessionsFields, OptionFields
<1>2. {time[s].power : s \in S} \in SUBSET Nat /\ {time[s].power : s \in S} # {}
  BY <1>1
<1>3. SmallestPower(time, S) \in {time[s].power : s \in S}
  BY <1>2, MinIn DEF SmallestPower
<1> QED BY <1>1, <1>3

-----------------------------------------------------------------------------
(* What a handler asks of the modem, calls, when it leaves the sessions f   *)
(* of those in time: nothing, when one of time was as fast as each of f, or *)
(* an interval that is enough for all of f, in a call that stands for an    *)
(* answer to s.                                                             *)
Steers(time, calls, f, s) ==
  /\ calls = << >> => \A t \in DOMAIN f : \E u \in DOMAIN time :
                        time[u].interval <= f[t].interval
  /\ calls # << >> => \E c \in WellMade :
       /\ calls = <<c>> /\ c.id = s /\ Owes(c) /\ IsTime(c)
       /\ \A t \in DOMAIN f : c.options.interval \in 1..f[t].interval

(* The calls that set or stop the time based session are such calls.        *)
LEMMA SteeringCall ==
  ASSUME NEW op \in {"startTime", "stopFix"}, NEW s \in Session, NEW o \in OptionType,
         NEW then \in {"start", "stopFix"}, op = "stopFix" => o.interval = 0
  PROVE  LET c == Call(op, s, o, then)
         IN  /\ c \in WellMade /\ c.id = s /\ Owes(c) /\ IsTime(c) /\ c.options = o
             /\ <<c>> # << >>
<1>1. then \in Response
  BY DEF Response
<1>2. LET c == Call(op, s, o, then)
      IN  /\ c \in CallType /\ c.op = op /\ c.id = s /\ c.options = o
          /\ c.then = then /\ c.old = NoOptions
  BY <1>1, CallFields
<1> QED BY <1>2 DEF WellMade, Owes, IsTime

(* A start leaves the modem fast enough for the new session too.            *)
LEMMA StartSteers ==
  ASSUME NEW time \in Sessions, NEW s \in Session, NEW o \in Options
  PROVE  Steers(time, StartMultiplex(time, s, o), With(time, s, o), s)
<1> DEFINE f == With(time, s, o)
<1>1. /\ DOMAIN f = DOMAIN time \cup {s} /\ f[s] = o
      /\ \A t \in DOMAIN time \ {s} : f[t] = time[t]
  BY WithType
<1>2. o \in OptionType /\ o.interval \in Nat /\ o.interval > 0
  BY OptionFields
<1> HIDE DEF f
<1>3. CASE DOMAIN time = {}
  <2> DEFINE c == Call("startTime", s, o, "start")
  <2>1. c \in WellMade /\ c.id = s /\ Owes(c) /\ IsTime(c) /\ c.options = o
        /\ <<c>> # << >>
    BY <1>2, SteeringCall
  <2>2. StartMultiplex(time, s, o) = <<c>>
    BY <1>3 DEF StartMultiplex
  <2>3. \A t \in DOMAIN f : f[t] = o
    BY <1>1, <1>3
  <2> HIDE DEF c
  <2>4. \A t \in DOMAIN f : c.options.interval \in 1..f[t].interval
    BY <1>2, <2>1, <2>3
  <2> QED BY <2>1, <2>2, <2>4 DEF Steers, f
<1>4. CASE DOMAIN time # {}
  <2> DEFINE best == SmallestInterval(time, DOMAIN time)
             power == SmallestPower(time, DOMAIN time)
             faster == o.interval < best.interval
             stronger == o.power < power
             opts == [best EXCEPT !.interval = IF faster THEN o.interval ELSE @,
                                  !.power = IF stronger THEN o.power ELSE @]
             c == Call("startTime", s, opts, "start")
  <2>1. StartMultiplex(time, s, o) = IF faster \/ stronger THEN <<c>> ELSE << >>
    BY <1>4 DEF StartMultiplex
  <2>2. /\ best \in Options
        /\ \E u \in DOMAIN time : best = time[u]
        /\ \A t \in DOMAIN time : best.interval <= time[t].interval
    BY <1>4, SmallestIntervalIn
  <2>3. /\ best \in OptionType /\ best.interval \in Nat /\ best.interval > 0
        /\ \A t \in DOMAIN time : time[t].interval \in Nat
    BY <2>2, OptionFields, SessionsFields
  <2> HIDE DEF best, power
  <2>4. /\ opts \in OptionType
        /\ opts.interval = IF faster THEN o.interval ELSE best.interval
    BY <1>2, <2>3 DEF OptionType
  <2> HIDE DEF opts
  <2>5. opts.interval \in Nat /\ opts.interval > 0 /\ opts.interval <= o.interval
        /\ opts.interval <= best.interval
    BY <1>2, <2>3, <2>4
  <2>6. CASE faster \/ stronger
    <3>1. c \in WellMade /\ c.id = s /\ Owes(c) /\ IsTime(c) /\ c.options = opts
          /\ <<c>> # << >>
      BY <2>4, SteeringCall
    <3>2. StartMultiplex(time, s, o) = <<c>>
      BY <2>1, <2>6
    <3> HIDE DEF c, faster, stronger
    <3>3. \A t \in DOMAIN f : c.options.interval \in 1..f[t].interval
      BY <1>1, <1>2, <2>2, <2>3, <2>5, <3>1
    <3> QED BY <3>1, <3>2, <3>3 DEF Steers, f
  <2>7. CASE ~(faster \/ stronger)
    <3>1. StartMultiplex(time, s, o) = << >>
      BY <2>1, <2>7
    <3>2. best.interval <= o.interval
      BY <1>2, <2>3, <2>7
    <3>3. \A t \in DOMAIN f : best.interval <= f[t].interval
      BY <1>1, <2>2, <3>2
    <3>4. \A t \in DOMAIN f : \E u \in DOMAIN time : time[u].interval <= f[t].interval
      BY <2>2, <3>3
    <3> QED BY <3>1, <3>4 DEF Steers, f
  <2> QED BY <2>6, <2>7
<1> QED BY <1>3, <1>4

(* So does a change of the options of one.                                  *)
LEMMA UpdateSteers ==
  ASSUME NEW time \in Sessions, NEW s \in DOMAIN time, NEW o \in Options
  PROVE  Steers(time, UpdateMultiplex(time, s, o), With(time, s, o), s)
<1> DEFINE f == With(time, s, o)
           others == DOMAIN time \ {s}
<1>0. s \in Session
  BY SessionsFields
<1>1. /\ DOMAIN f = DOMAIN time \cup {s} /\ f[s] = o
      /\ \A t \in others : f[t] = time[t]
  BY <1>0, WithType
<1>2. /\ o \in OptionType /\ o.interval \in Nat /\ o.interval > 0
      /\ time[s] \in Options
  BY OptionFields, SessionsFields
<1> HIDE DEF f
<1> DEFINE changed == time[s].interval # o.interval \/ time[s].power # o.power
           Update(u) == [Call("startTime", s, u, "update") EXCEPT !.old = time[s]]
<1>3. ASSUME NEW u \in OptionType
      PROVE  LET c == Update(u)
             IN  /\ c \in WellMade /\ c.id = s /\ Owes(c) /\ IsTime(c) /\ c.options = u
                 /\ <<c>> # << >>
  <2> DEFINE d == Call("startTime", s, u, "update")
             c == Update(u)
  <2>1. d \in CallType /\ d.op = "startTime" /\ d.id = s /\ d.options = u
        /\ d.then = "update"
    <3>1. "update" \in Response BY DEF Response
    <3> QED BY <1>0, <3>1, CallFields
  <2>2. c = [d EXCEPT !.old = time[s]]
    OBVIOUS
  <2> HIDE DEF d, c
  <2>3. c \in CallType /\ c.op = "startTime" /\ c.id = s /\ c.options = u
        /\ c.then = "update" /\ c.old = time[s]
    BY <1>2, <2>1, <2>2 DEF CallType
  <2>4. c \in WellMade /\ Owes(c) /\ IsTime(c) /\ <<c>> # << >>
    BY <1>0, <1>2, <2>3 DEF WellMade, Owes, IsTime
  <2> QED BY <2>3, <2>4 DEF c
<1> HIDE DEF Update
<1>4. CASE ~changed
  <2>1. UpdateMultiplex(time, s, o) = << >>
    BY <1>4, Zenon DEF UpdateMultiplex
  <2>2. time[s].interval = o.interval
    BY <1>4
  <2>3. \A t \in DOMAIN time : time[t].interval \in Nat
    BY OptionFields, SessionsFields
  <2>4. \A t \in DOMAIN f : f[t].interval = time[t].interval /\ t \in DOMAIN time
    BY <1>1, <2>2
  <2>5. \A t \in DOMAIN f : \E u \in DOMAIN time : time[u].interval <= f[t].interval
    BY <2>3, <2>4
  <2> QED BY <2>1, <2>5 DEF Steers, f
<1>5. CASE changed /\ others = {}
  <2>1. UpdateMultiplex(time, s, o) = <<Update(o)>>
    BY <1>5, Zenon DEF UpdateMultiplex, Update
  <2> DEFINE c == Update(o)
  <2>2. c \in WellMade /\ c.id = s /\ Owes(c) /\ IsTime(c) /\ c.options = o
        /\ <<c>> # << >>
    BY <1>2, <1>3
  <2> HIDE DEF c
  <2>3. \A t \in DOMAIN f : f[t] = o
    BY <1>1, <1>5
  <2>4. \A t \in DOMAIN f : c.options.interval \in 1..f[t].interval
    BY <1>2, <2>2, <2>3
  <2> QED BY <2>1, <2>2, <2>4 DEF Steers, f, c
<1>6. CASE changed /\ others # {}
  <2> DEFINE best == SmallestInterval(time, others)
             power == SmallestPower(time, others)
             faster == o.interval < best.interval
             stronger == o.power < power
             opts == [best EXCEPT !.interval = IF faster THEN o.interval ELSE @,
                                  !.power = IF stronger THEN o.power ELSE @]
             c == Update(opts)
  <2>1. /\ faster \/ stronger => UpdateMultiplex(time, s, o) = <<c>>
        /\ ~(faster \/ stronger) => UpdateMultiplex(time, s, o) = << >>
    BY <1>6, Zenon DEF UpdateMultiplex, Update
  <2>2. /\ best \in Options
        /\ \E u \in others : best = time[u]
        /\ \A t \in others : best.interval <= time[t].interval
    <3>1. others \in SUBSET DOMAIN time OBVIOUS
    <3> QED BY <1>6, <3>1, SmallestIntervalIn
  <2>3. /\ best \in OptionType /\ best.interval \in Nat /\ best.interval > 0
        /\ \A t \in DOMAIN time : time[t].interval \in Nat
    BY <2>2, OptionFields, SessionsFields
  <2> HIDE DEF best, power
  <2>4. /\ opts \in OptionType
        /\ opts.interval = IF faster THEN o.interval ELSE best.interval
    BY <1>2, <2>3 DEF OptionType
  <2> HIDE DEF opts
  <2>5. opts.interval \in Nat /\ opts.interval > 0 /\ opts.interval <= o.interval
        /\ opts.interval <= best.interval
    BY <1>2, <2>3, <2>4
  <2>6. CASE faster \/ stronger
    <3>1. c \in WellMade /\ c.id = s /\ Owes(c) /\ IsTime(c) /\ c.options = opts
          /\ <<c>> # << >>
      BY <1>3, <2>4
    <3>2. UpdateMultiplex(time, s, o) = <<c>>
      BY <2>1, <2>6
    <3> HIDE DEF c, faster, stronger
    <3>3. \A t \in DOMAIN f : t = s \/ t \in others
      BY <1>1
    <3>4. \A t \in DOMAIN f : c.options.interval \in 1..f[t].interval
      BY <1>1, <1>2, <2>2, <2>3, <2>5, <3>1, <3>3
    <3> QED BY <3>1, <3>2, <3>4 DEF Steers, f
  <2>7. CASE ~(faster \/ stronger)
    <3>1. UpdateMultiplex(time, s, o) = << >>
      BY <2>1, <2>7
    <3>2. best.interval <= o.interval
      BY <1>2, <2>3, <2>7
    <3>3. \A t \in DOMAIN f : best.interval <= f[t].interval
      <4>1. \A t \in DOMAIN f : t = s \/ t \in others BY <1>1
      <4> QED BY <1>1, <2>2, <3>2, <4>1
    <3>4. \A t \in DOMAIN f : \E u \in DOMAIN time : time[u].interval <= f[t].interval
      BY <2>2, <3>3
    <3> QED BY <3>1, <3>4 DEF Steers, f
  <2> QED BY <2>6, <2>7
<1> QED BY <1>4, <1>5, <1>6

(* A stop leaves it fast enough for the others.                             *)
LEMMA StopSteers ==
  ASSUME NEW time \in Sessions, NEW s \in DOMAIN time
  PROVE  Steers(time, StopMultiplex(time, s), Without(time, s), s)
<1> DEFINE f == Without(time, s)
           others == DOMAIN time \ {s}
<1>0. s \in Session /\ IsFiniteSet(DOMAIN time)
  BY SessionsFields
<1>1. DOMAIN f = others /\ \A t \in others : f[t] = time[t]
  BY WithoutType
<1> HIDE DEF f
<1>2. CASE Cardinality(DOMAIN time) = 1
  <2> DEFINE c == Call("stopFix", s, NoOptions, "stopFix")
  <2>1. StopMultiplex(time, s) = <<c>>
    BY <1>2 DEF StopMultiplex
  <2>2. c \in WellMade /\ c.id = s /\ Owes(c) /\ IsTime(c) /\ <<c>> # << >>
    BY <1>0, OptionFields, SteeringCall
  <2> HIDE DEF c
  <2>3. others = {}
    <3>1. PICK x : DOMAIN time = {x}
      BY <1>0, <1>2, FS_Singleton
    <3> QED BY <3>1
  <2> QED BY <1>1, <2>1, <2>2, <2>3 DEF Steers, f
<1>3. CASE Cardinality(DOMAIN time) # 1
  <2> DEFINE best == SmallestInterval(time, others)
             power == SmallestPower(time, others)
             opts == [best EXCEPT !.power = power]
             less == time[s].interval < best.interval \/ time[s].power < power
             c == Call("startTime", s, opts, "start")
  <2>1. others # {}
    <3>1. SUFFICES ASSUME others = {} PROVE FALSE
      OBVIOUS
    <3>2. DOMAIN time = {s} BY <3>1
    <3> QED BY <1>3, <3>2, FS_Singleton
  <2>2. StopMultiplex(time, s) = IF less THEN <<c>> ELSE << >>
    BY <1>3 DEF StopMultiplex
  <2>3. /\ best \in Options
        /\ \E u \in others : best = time[u]
        /\ \A t \in others : best.interval <= time[t].interval
    <3>1. others \in SUBSET DOMAIN time OBVIOUS
    <3> QED BY <2>1, <3>1, SmallestIntervalIn
  <2>4. power \in 1..5
    <3>1. others \in SUBSET DOMAIN time OBVIOUS
    <3> QED BY <2>1, <3>1, SmallestPowerIn
  <2>5. /\ best \in OptionType /\ best.interval \in Nat /\ best.interval > 0
        /\ \A t \in DOMAIN time : time[t].interval \in Nat
    BY <2>3, OptionFields, SessionsFields
  <2> HIDE DEF best, power
  <2>6. opts \in OptionType /\ opts.interval = best.interval
    BY <2>4, <2>5 DEF OptionType
  <2> HIDE DEF opts
  <2>7. CASE less
    <3>1. c \in WellMade /\ c.id = s /\ Owes(c) /\ IsTime(c) /\ c.options = opts
          /\ <<c>> # << >>
      BY <1>0, <2>6, SteeringCall
    <3>2. StopMultiplex(time, s) = <<c>>
      BY <2>2, <2>7
    <3> HIDE DEF c, less
    <3>3. \A t \in DOMAIN f : c.options.interval \in 1..f[t].interval
      BY <1>1, <2>3, <2>5, <2>6, <3>1
    <3> QED BY <3>1, <3>2, <3>3 DEF Steers, f
  <2>8. CASE ~less
    <3>1. StopMultiplex(time, s) = << >>
      BY <2>2, <2>8
    <3>2. \A t \in DOMAIN f : \E u \in DOMAIN time : time[u].interval <= f[t].interval
      BY <1>1, <2>5
    <3> QED BY <3>1, <3>2 DEF Steers, f
  <2> QED BY <2>7, <2>8
<1> QED BY <1>2, <1>3

-----------------------------------------------------------------------------
(* The step from g to h gives, or makes sure of, one answer more to each    *)
(* session of N whose client is there, and to no other.                     *)
Accounts(g, h, N) ==
  /\ h \in Pair
  /\ h.adapter.clients = g.adapter.clients /\ h.ledger.asked = g.ledger.asked
  /\ \A t \in Session :
       /\ OwnerOf[t] \in g.adapter.clients =>
            Due(h, t) = Due(g, t) + (IF t \in N THEN 1 ELSE 0)
       /\ OwnerOf[t] \notin g.adapter.clients =>
            h.ledger.answered[t] = g.ledger.answered[t]

(* The modem ends up fast enough if it did.                                 *)
Keeps(g, h) == \A v \in Nat : Fast(g.adapter, v) => Fast(h.adapter, v)

(* The parts of a pair.                                                     *)
LEMMA PairFields ==
  ASSUME NEW g \in Pair
  PROVE  /\ g.adapter \in AdapterType /\ g.ledger \in LedgerType
         /\ g.adapter.clients \in SUBSET Client
         /\ g.adapter.time \in Sessions /\ g.adapter.dist \in Sessions
         /\ g.adapter.calls \in Seq(WellMade)
         /\ g.ledger.asked \in [Session -> Nat]
         /\ g.ledger.answered \in [Session -> Nat]
         /\ g.ledger.stopped \in SUBSET Session
BY DEF Pair, AdapterType, LedgerType

(* What is due to a session includes what it was given.                     *)
LEMMA DueNat ==
  ASSUME NEW g \in Pair, NEW s \in Session
  PROVE  /\ Due(g, s) \in Nat /\ g.ledger.answered[s] \in Nat
         /\ Owed(g.adapter.calls, s) \in Nat /\ g.ledger.answered[s] <= Due(g, s)
<1>1. g.ledger.answered[s] \in Nat /\ Owed(g.adapter.calls, s) \in Nat
  BY PairFields, OwedNat
<1> QED BY <1>1 DEF Due

(* Two steps after each other.                                              *)
LEMMA AccountsThen ==
  ASSUME NEW g \in Pair, NEW h, NEW k, NEW N, NEW K, N \cap K = {},
         Accounts(g, h, N), Accounts(h, k, K)
  PROVE  Accounts(g, k, N \cup K)
<1>1. h \in Pair /\ k \in Pair
  BY DEF Accounts
<1>2. /\ k.adapter.clients = g.adapter.clients /\ k.ledger.asked = g.ledger.asked
      /\ h.adapter.clients = g.adapter.clients
  BY DEF Accounts
<1>3. ASSUME NEW t \in Session, OwnerOf[t] \in g.adapter.clients
      PROVE  Due(k, t) = Due(g, t) + (IF t \in N \cup K THEN 1 ELSE 0)
  <2>1. /\ Due(h, t) = Due(g, t) + (IF t \in N THEN 1 ELSE 0)
        /\ Due(k, t) = Due(h, t) + (IF t \in K THEN 1 ELSE 0)
    BY <1>2, <1>3 DEF Accounts
  <2>2. Due(g, t) \in Nat
    BY DueNat
  <2> QED BY <2>1, <2>2
<1>4. ASSUME NEW t \in Session, OwnerOf[t] \notin g.adapter.clients
      PROVE  k.ledger.answered[t] = g.ledger.answered[t]
  BY <1>2, <1>4 DEF Accounts
<1> QED BY <1>1, <1>2, <1>3, <1>4 DEF Accounts

(* The step leaves the clients, the calls and the answers alone.            *)
LEMMA AccountsSame ==
  ASSUME NEW g \in Pair, NEW h \in Pair,
         h.adapter.clients = g.adapter.clients, h.ledger.asked = g.ledger.asked,
         h.adapter.calls = g.adapter.calls, h.ledger.answered = g.ledger.answered
  PROVE  Accounts(g, h, {})
<1>1. \A t \in Session : Due(h, t) = Due(g, t) /\ Due(g, t) \in Nat
  BY DueNat DEF Due
<1> QED BY <1>1 DEF Accounts

(* Calls are made.                                                          *)
LEMMA IssueIs ==
  ASSUME NEW g \in Pair, NEW calls \in Seq(WellMade)
  PROVE  LET h == Issue(g, calls)
         IN  /\ h \in Pair /\ h.ledger = g.ledger
             /\ h.adapter.clients = g.adapter.clients
             /\ h.adapter.time = g.adapter.time /\ h.adapter.dist = g.adapter.dist
             /\ h.adapter.calls = g.adapter.calls \o calls
<1> DEFINE a == [g.adapter EXCEPT !.calls = @ \o calls]
<1>1. g.adapter.calls \o calls \in Seq(WellMade)
  BY PairFields, ConcatProperties
<1>2. /\ a \in AdapterType /\ a.clients = g.adapter.clients /\ a.time = g.adapter.time
      /\ a.dist = g.adapter.dist /\ a.calls = g.adapter.calls \o calls
  BY <1>1, PairFields DEF AdapterType
<1>3. Issue(g, calls) = [g EXCEPT !.adapter = a]
  BY DEF Issue
<1> HIDE DEF a
<1> QED BY <1>2, <1>3, PairFields DEF Pair

(* The same of a pair that results.                                         *)
LEMMA IssueMakes ==
  ASSUME NEW g \in Pair, NEW calls \in Seq(WellMade), NEW h, h = Issue(g, calls)
  PROVE  /\ h \in Pair /\ h.ledger = g.ledger
         /\ h.adapter.clients = g.adapter.clients
         /\ h.adapter.time = g.adapter.time /\ h.adapter.dist = g.adapter.dist
         /\ h.adapter.calls = g.adapter.calls \o calls
BY IssueIs

(* One call that stands for an answer.                                      *)
LEMMA IssueOwing ==
  ASSUME NEW g \in Pair, NEW c \in WellMade, c.id \in Session, Owes(c)
  PROVE  Accounts(g, Issue(g, <<c>>), {c.id})
<1> DEFINE h == Issue(g, <<c>>)
<1>1. /\ h \in Pair /\ h.ledger = g.ledger /\ h.adapter.clients = g.adapter.clients
      /\ h.adapter.calls = g.adapter.calls \o <<c>>
  <2>1. <<c>> \in Seq(WellMade) OBVIOUS
  <2> QED BY <2>1, IssueIs
<1> HIDE DEF h
<1>2. ASSUME NEW t \in Session
      PROVE  Due(h, t) = Due(g, t) + (IF t \in {c.id} THEN 1 ELSE 0)
  <2>1. Owed(h.adapter.calls, t) =
          Owed(g.adapter.calls, t) + (IF c.id = t /\ Owes(c) THEN 1 ELSE 0)
    BY <1>1, PairFields, OwedAppend
  <2>2. Owed(g.adapter.calls, t) \in Nat /\ g.ledger.answered[t] \in Nat
    BY DueNat
  <2> QED BY <1>1, <2>1, <2>2 DEF Due
<1> QED BY <1>1, <1>2 DEF Accounts, h

(* Calls for nobody.                                                        *)
LEMMA IssueForNobody ==
  ASSUME NEW g \in Pair, NEW calls \in Seq(WellMade),
         \A i \in 1..Len(calls) : ~Owes(calls[i])
  PROVE  Accounts(g, Issue(g, calls), {})
<1> DEFINE h == Issue(g, calls)
<1>1. /\ h \in Pair /\ h.ledger = g.ledger /\ h.adapter.clients = g.adapter.clients
      /\ h.adapter.calls = g.adapter.calls \o calls
  BY IssueIs
<1> HIDE DEF h
<1>2. ASSUME NEW t \in Session
      PROVE  Due(h, t) = Due(g, t) + (IF t \in {} THEN 1 ELSE 0)
  <2>1. Owed(h.adapter.calls, t) = Owed(g.adapter.calls, t)
    BY <1>1, PairFields, OwedOthers
  <2>2. Due(g, t) \in Nat
    BY DueNat
  <2> QED BY <1>1, <2>1, <2>2 DEF Due
<1> QED BY <1>1, <1>2 DEF Accounts, h

(* A session is kept in its map; nobody is answered.                        *)
LEMMA SaveIs ==
  ASSUME NEW g \in Pair, NEW s \in Session, NEW o \in Options
  PROVE  LET h == SaveTrackingSession(g, s, o)
         IN  /\ h \in Pair /\ h.ledger = g.ledger
             /\ h.adapter.clients = g.adapter.clients
             /\ h.adapter.time =
                  IF o.distance THEN g.adapter.time ELSE With(g.adapter.time, s, o)
             /\ h.adapter.calls = g.adapter.calls
             /\ Accounts(g, h, {})
<1> DEFINE h == SaveTrackingSession(g, s, o)
<1>1. /\ With(g.adapter.time, s, o) \in Sessions /\ With(g.adapter.dist, s, o) \in Sessions
  BY PairFields, WithType
<1>2. CASE o.distance
  <2> DEFINE a == [g.adapter EXCEPT !.dist = With(@, s, o)]
  <2>1. /\ a \in AdapterType /\ a.clients = g.adapter.clients
        /\ a.time = g.adapter.time /\ a.calls = g.adapter.calls
    BY <1>1, PairFields DEF AdapterType
  <2>2. h = [g EXCEPT !.adapter = a]
    BY <1>2 DEF SaveTrackingSession
  <2> HIDE DEF a, h
  <2>3. /\ h \in Pair /\ h.ledger = g.ledger /\ h.adapter.clients = g.adapter.clients
        /\ h.adapter.time = g.adapter.time /\ h.adapter.calls = g.adapter.calls
    BY <2>1, <2>2, PairFields DEF Pair
  <2>4. Accounts(g, h, {}) BY <2>3, AccountsSame
  <2> QED BY <1>2, <2>3, <2>4 DEF h
<1>3. CASE ~o.distance
  <2> DEFINE a == [g.adapter EXCEPT !.time = With(@, s, o)]
  <2>1. /\ a \in AdapterType /\ a.clients = g.adapter.clients
        /\ a.time = With(g.adapter.time, s, o) /\ a.calls = g.adapter.calls
    BY <1>1, PairFields DEF AdapterType
  <2>2. h = [g EXCEPT !.adapter = a]
    BY <1>3 DEF SaveTrackingSession
  <2> HIDE DEF a, h
  <2>3. /\ h \in Pair /\ h.ledger = g.ledger /\ h.adapter.clients = g.adapter.clients
        /\ h.adapter.time = With(g.adapter.time, s, o) /\ h.adapter.calls = g.adapter.calls
    BY <2>1, <2>2, PairFields DEF Pair
  <2>4. Accounts(g, h, {}) BY <2>3, AccountsSame
  <2> QED BY <1>3, <2>3, <2>4 DEF h
<1> QED BY <1>2, <1>3

(* A session leaves its map; nobody is answered.                            *)
LEMMA EraseIs ==
  ASSUME NEW g \in Pair, NEW s \in Session
  PROVE  LET h == EraseTrackingSession(g, s)
         IN  /\ h \in Pair /\ h.ledger = g.ledger
             /\ h.adapter.clients = g.adapter.clients
             /\ h.adapter.time = IF s \in DOMAIN g.adapter.time
                                   THEN Without(g.adapter.time, s) ELSE g.adapter.time
             /\ h.adapter.calls = g.adapter.calls
             /\ Accounts(g, h, {})
<1> DEFINE h == EraseTrackingSession(g, s)
<1>1. /\ Without(g.adapter.time, s) \in Sessions /\ Without(g.adapter.dist, s) \in Sessions
  BY PairFields, WithoutType
<1>2. CASE s \notin DOMAIN g.adapter.time
  <2> DEFINE a == [g.adapter EXCEPT !.dist = Without(@, s)]
  <2>1. /\ a \in AdapterType /\ a.clients = g.adapter.clients
        /\ a.time = g.adapter.time /\ a.calls = g.adapter.calls
    BY <1>1, PairFields DEF AdapterType
  <2>2. h = [g EXCEPT !.adapter = a]
    BY <1>2 DEF EraseTrackingSession
  <2> HIDE DEF a, h
  <2>3. /\ h \in Pair /\ h.ledger = g.ledger /\ h.adapter.clients = g.adapter.clients
        /\ h.adapter.time = g.adapter.time /\ h.adapter.calls = g.adapter.calls
    BY <2>1, <2>2, PairFields DEF Pair
  <2>4. Accounts(g, h, {}) BY <2>3, AccountsSame
  <2> QED BY <1>2, <2>3, <2>4 DEF h
<1>3. CASE s \in DOMAIN g.adapter.time
  <2> DEFINE a == [g.adapter EXCEPT !.time = Without(@, s)]
  <2>1. /\ a \in AdapterType /\ a.clients = g.adapter.clients
        /\ a.time = Without(g.adapter.time, s) /\ a.calls = g.adapter.calls
    BY <1>1, PairFields DEF AdapterType
  <2>2. h = [g EXCEPT !.adapter = a]
    BY <1>3 DEF EraseTrackingSession
  <2> HIDE DEF a, h
  <2>3. /\ h \in Pair /\ h.ledger = g.ledger /\ h.adapter.clients = g.adapter.clients
        /\ h.adapter.time = Without(g.adapter.time, s) /\ h.adapter.calls = g.adapter.calls
    BY <2>1, <2>2, PairFields DEF Pair
  <2>4. Accounts(g, h, {}) BY <2>3, AccountsSame
  <2> QED BY <1>3, <2>3, <2>4 DEF h
<1> QED BY <1>2, <1>3

(* A session is answered.                                                   *)
LEMMA ReportIs ==
  ASSUME NEW g \in Pair, NEW s \in Session
  PROVE  LET h == ReportResponse(g, s)
         IN  h \in Pair /\ h.adapter = g.adapter /\ Accounts(g, h, {s})
<1> DEFINE h == ReportResponse(g, s)
<1>1. CASE OwnerOf[s] \in g.adapter.clients
  <2> DEFINE f == [g.ledger.answered EXCEPT ![s] = @ + 1]
             l == [g.ledger EXCEPT !.answered = f]
  <2>0. f \in [Session -> Nat]
    BY PairFields
  <2>1. /\ l \in LedgerType /\ l.asked = g.ledger.asked
        /\ l.answered = [g.ledger.answered EXCEPT ![s] = @ + 1]
    BY <2>0, PairFields DEF LedgerType
  <2>2. h = [g EXCEPT !.ledger = l]
    BY <1>1 DEF ReportResponse
  <2> HIDE DEF l, h
  <2>3. h \in Pair /\ h.adapter = g.adapter /\ h.ledger = l
    BY <2>1, <2>2, PairFields DEF Pair
  <2>4. \A t \in Session : l.answered[t] = g.ledger.answered[t] + (IF t = s THEN 1 ELSE 0)
    BY <2>1, PairFields
  <2>5. ASSUME NEW t \in Session
        PROVE  Due(h, t) = Due(g, t) + (IF t \in {s} THEN 1 ELSE 0)
    <3>1. Owed(g.adapter.calls, t) \in Nat /\ g.ledger.answered[t] \in Nat
      BY DueNat
    <3> QED BY <2>3, <2>4, <3>1 DEF Due
  <2>6. \A t \in Session \ {s} : h.ledger.answered[t] = g.ledger.answered[t]
    BY <2>3, <2>4, PairFields
  <2>7. h.ledger.asked = g.ledger.asked
    BY <2>1, <2>3
  <2>8. Accounts(g, h, {s})
    BY <1>1, <2>3, <2>5, <2>6, <2>7 DEF Accounts
  <2> QED BY <2>3, <2>8 DEF h
<1>2. CASE OwnerOf[s] \notin g.adapter.clients
  <2>1. h = g
    BY <1>2 DEF ReportResponse
  <2>2. \A t \in Session : Due(g, t) \in Nat
    BY DueNat
  <2>3. Accounts(g, g, {s})
    BY <1>2, <2>2 DEF Accounts
  <2> QED BY <2>1, <2>3
<1> QED BY <1>1, <1>2

(* What is noted of a stop is no answer.                                    *)
LEMMA NoteIs ==
  ASSUME NEW g \in Pair, NEW s \in Session
  PROVE  LET h == NoteStopped(g, s)
         IN  h \in Pair /\ h.adapter = g.adapter /\ Accounts(g, h, {})
<1> DEFINE h == NoteStopped(g, s)
<1>1. h = g \/ h = [g EXCEPT !.ledger.stopped = @ \cup {s}]
  BY DEF NoteStopped
<1>2. CASE h = [g EXCEPT !.ledger.stopped = @ \cup {s}]
  <2> DEFINE l == [g.ledger EXCEPT !.stopped = @ \cup {s}]
  <2>1. l \in LedgerType /\ l.asked = g.ledger.asked /\ l.answered = g.ledger.answered
    BY PairFields DEF LedgerType
  <2>2. h = [g EXCEPT !.ledger = l]
    BY <1>2
  <2> HIDE DEF l, h
  <2>3. h \in Pair /\ h.adapter = g.adapter /\ h.ledger = l
    BY <2>1, <2>2, PairFields DEF Pair
  <2>4. Accounts(g, h, {}) BY <2>1, <2>3, AccountsSame
  <2> QED BY <2>3, <2>4 DEF h
<1>3. CASE h = g
  <2>1. Accounts(g, g, {}) BY AccountsSame
  <2> QED BY <1>3, <2>1
<1> QED BY <1>1, <1>2, <1>3

(* A command answered at once, or by the call it makes.                     *)
LEMMA IssueOrReportIs ==
  ASSUME NEW g \in Pair, NEW s \in Session, NEW calls, NEW f,
         Steers(g.adapter.time, calls, f, s)
  PROVE  LET h == IssueOrReport(g, calls, s)
         IN  /\ h \in Pair /\ h.adapter.time = g.adapter.time
             /\ calls \in Seq(WellMade)
             /\ h.adapter.calls = g.adapter.calls \o calls
             /\ Accounts(g, h, {s})
<1> DEFINE h == IssueOrReport(g, calls, s)
<1>1. CASE calls = << >>
  <2>1. h = ReportResponse(g, s) BY <1>1 DEF IssueOrReport
  <2>2. h \in Pair /\ h.adapter = g.adapter /\ Accounts(g, h, {s})
    BY <2>1, ReportIs
  <2>3. g.adapter.calls \o << >> = g.adapter.calls BY PairFields, ConcatEmptySeq
  <2>4. << >> \in Seq(WellMade) OBVIOUS
  <2> QED BY <1>1, <2>2, <2>3, <2>4
<1>2. CASE calls # << >>
  <2>1. PICK c \in WellMade : calls = <<c>> /\ c.id = s /\ Owes(c)
    BY <1>2 DEF Steers
  <2>2. h = Issue(g, <<c>>) BY <1>2, <2>1 DEF IssueOrReport
  <2>3. <<c>> \in Seq(WellMade) OBVIOUS
  <2> HIDE DEF h
  <2>4. h \in Pair /\ h.adapter.time = g.adapter.time
        /\ h.adapter.calls = g.adapter.calls \o <<c>>
    BY <2>2, <2>3, IssueIs
  <2>5. Accounts(g, h, {s}) BY <2>1, <2>2, IssueOwing
  <2> QED BY <2>1, <2>3, <2>4, <2>5 DEF h
<1> QED BY <1>1, <1>2

(* Calls that steer the modem to the sessions that are left.                *)
LEMMA SteersKeeps ==
  ASSUME NEW g \in Pair, NEW h \in Pair, NEW s, NEW calls \in Seq(WellMade),
         Steers(g.adapter.time, calls, h.adapter.time, s),
         h.adapter.calls = g.adapter.calls \o calls
  PROVE  Keeps(g, h)
<1>1. SUFFICES ASSUME NEW v \in Nat, Fast(g.adapter, v), NEW t \in DOMAIN h.adapter.time
               PROVE  Bound(h.adapter.calls, v, h.adapter.time[t].interval)
  BY DEF Keeps, Fast
<1> DEFINE n == h.adapter.time[t].interval
<1>2. n \in Nat
  BY PairFields, SessionsFields, OptionFields
<1>3. g.adapter.calls \in Seq(WellMade)
  BY PairFields
<1>4. CASE calls = << >>
  <2>1. PICK u \in DOMAIN g.adapter.time : g.adapter.time[u].interval <= n
    BY <1>4 DEF Steers
  <2>2. g.adapter.time[u].interval \in Nat
    BY PairFields, SessionsFields, OptionFields
  <2>3. Bound(g.adapter.calls, v, g.adapter.time[u].interval)
    BY <1>1 DEF Fast
  <2>4. Bound(g.adapter.calls, v, n)
    BY <1>2, <2>1, <2>2, <2>3, BoundWeaker
  <2>5. h.adapter.calls = g.adapter.calls
    BY <1>3, <1>4, ConcatEmptySeq
  <2> QED BY <2>4, <2>5
<1>5. CASE calls # << >>
  <2>1. PICK c \in WellMade : /\ calls = <<c>> /\ IsTime(c)
                              /\ c.options.interval \in 1..n
    BY <1>5 DEF Steers
  <2>2. 1 \in 1..Len(calls) /\ calls[1] = c /\ \A i \in 1+1..Len(calls) : FALSE
    BY <2>1
  <2>3. Bound(g.adapter.calls \o calls, v, n)
    BY <1>3, <2>1, <2>2, BoundAfter
  <2> QED BY <2>3
<1> QED BY <1>4, <1>5

(* Calls that do not touch the interval, and sessions that are as they were *)
(* or gone.                                                                 *)
LEMMA FewerKeeps ==
  ASSUME NEW g \in Pair, NEW h \in Pair, NEW calls \in Seq(WellMade),
         h.adapter.calls = g.adapter.calls \o calls,
         \A i \in 1..Len(calls) : ~IsTime(calls[i]),
         \A t \in DOMAIN h.adapter.time :
           t \in DOMAIN g.adapter.time /\ h.adapter.time[t] = g.adapter.time[t]
  PROVE  Keeps(g, h)
<1>1. SUFFICES ASSUME NEW v \in Nat, Fast(g.adapter, v), NEW t \in DOMAIN h.adapter.time
               PROVE  Bound(h.adapter.calls, v, h.adapter.time[t].interval)
  BY DEF Keeps, Fast
<1>2. Bound(g.adapter.calls, v, h.adapter.time[t].interval)
  BY <1>1 DEF Fast
<1>3. g.adapter.calls \in Seq(WellMade)
  BY PairFields
<1> QED BY <1>2, <1>3, BoundOthers

(* No call at all.                                                          *)
LEMMA SameKeeps ==
  ASSUME NEW g \in Pair, NEW h \in Pair, h.adapter.calls = g.adapter.calls,
         \A t \in DOMAIN h.adapter.time :
           t \in DOMAIN g.adapter.time /\ h.adapter.time[t] = g.adapter.time[t]
  PROVE  Keeps(g, h)
BY DEF Keeps, Fast

-----------------------------------------------------------------------------
(* The handlers.  Each leaves the modem fast enough, and accounts for one   *)
(* answer to the command or the call it handles.                            *)
LEMMA StartHandled ==
  ASSUME NEW g \in Pair, NEW s \in Session, NEW o \in Options
  PROVE  LET h == MsgStartTracking(g, s, o)
         IN  Accounts(g, h, {s}) /\ Keeps(g, h)
<1> DEFINE h == MsgStartTracking(g, s, o)
<1>0. Accounts(g, g, {})
  BY AccountsSame
<1>1. CASE OwnerOf[s] \notin g.adapter.clients
  <2>1. h = g BY <1>1, Zenon DEF MsgStartTracking
  <2>2. Accounts(g, g, {s}) BY <1>0, <1>1 DEF Accounts
  <2> QED BY <2>1, <2>2 DEF Keeps
<1>2. CASE OwnerOf[s] \in g.adapter.clients /\ o.distance
  <2> DEFINE k == SaveTrackingSession(g, s, o)
             c == Call("startDist", s, o, "start")
  <2>1. h = Issue(k, <<c>>) BY <1>2, Zenon DEF MsgStartTracking
  <2>2. /\ k \in Pair /\ k.adapter.time = g.adapter.time
        /\ k.adapter.calls = g.adapter.calls /\ Accounts(g, k, {})
    BY <1>2, SaveIs
  <2>3. c \in WellMade /\ c.id = s /\ Owes(c) /\ ~IsTime(c)
    <3>1. "start" \in Response /\ o \in OptionType BY OptionFields DEF Response
    <3>2. c \in CallType /\ c.op = "startDist" /\ c.id = s /\ c.then = "start"
      BY <3>1, CallFields
    <3> QED BY <3>2 DEF WellMade, Owes, IsTime
  <2> HIDE DEF k, c, h
  <2>4. Accounts(k, h, {s}) BY <2>1, <2>2, <2>3, IssueOwing
  <2>5. Accounts(g, h, {s})
    <3>1. Accounts(g, h, {} \cup {s}) BY <2>2, <2>4, AccountsThen
    <3> QED BY <3>1
  <2>6. <<c>> \in Seq(WellMade) /\ \A i \in 1..Len(<<c>>) : ~IsTime(<<c>>[i])
    BY <2>3
  <2>7. /\ h \in Pair /\ h.adapter.time = g.adapter.time
        /\ h.adapter.calls = g.adapter.calls \o <<c>>
    <3>1. k \in Pair BY <2>2
    <3>2. /\ h \in Pair /\ h.adapter.time = k.adapter.time
          /\ h.adapter.calls = k.adapter.calls \o <<c>>
      BY <2>1, <2>6, <3>1, IssueMakes
    <3> QED BY <2>2, <3>2
  <2>8. Keeps(g, h) BY <2>6, <2>7, FewerKeeps
  <2> QED BY <2>5, <2>8 DEF h
<1>3. CASE OwnerOf[s] \in g.adapter.clients /\ ~o.distance
  <2> DEFINE calls == StartMultiplex(g.adapter.time, s, o)
             k == IssueOrReport(g, calls, s)
  <2>1. h = SaveTrackingSession(k, s, o) BY <1>3, Zenon DEF MsgStartTracking
  <2>2. Steers(g.adapter.time, calls, With(g.adapter.time, s, o), s)
    BY PairFields, StartSteers
  <2>3. /\ k \in Pair /\ k.adapter.time = g.adapter.time /\ calls \in Seq(WellMade)
        /\ k.adapter.calls = g.adapter.calls \o calls /\ Accounts(g, k, {s})
    BY <2>2, IssueOrReportIs
  <2> HIDE DEF calls, k, h
  <2>4. /\ h \in Pair /\ h.adapter.time = With(g.adapter.time, s, o)
        /\ h.adapter.calls = g.adapter.calls \o calls /\ Accounts(k, h, {})
    BY <1>3, <2>1, <2>3, SaveIs
  <2>5. Accounts(g, h, {s})
    <3>1. Accounts(g, h, {s} \cup {}) BY <2>3, <2>4, AccountsThen
    <3> QED BY <3>1
  <2>6. Keeps(g, h) BY <2>2, <2>3, <2>4, SteersKeeps
  <2> QED BY <2>5, <2>6 DEF h
<1>4. o.distance \in BOOLEAN
  BY OptionFields
<1> QED BY <1>1, <1>2, <1>3, <1>4

(* A time based session becomes one based on distance.                      *)
LEMMA ToDistanceHandled ==
  ASSUME NEW g \in Pair, NEW s \in DOMAIN g.adapter.time, NEW o \in Options,
         o.distance
  PROVE  LET h == ToDistance(g, s, o)
         IN  Accounts(g, h, {s}) /\ Keeps(g, h)
<1> DEFINE calls == StopMultiplex(g.adapter.time, s)
           k == IssueOrReport(g, calls, s)
           l == EraseTrackingSession(k, s)
           m == SaveTrackingSession(l, s, o)
           c == Call("startDist", s, o, "none")
           h == ToDistance(g, s, o)
<1>0. s \in Session
  BY PairFields, SessionsFields
<1>1. h = Issue(m, <<c>>)
  BY DEF ToDistance
<1>2. Steers(g.adapter.time, calls, Without(g.adapter.time, s), s)
  BY PairFields, StopSteers
<1>3. /\ k \in Pair /\ k.adapter.time = g.adapter.time /\ calls \in Seq(WellMade)
      /\ k.adapter.calls = g.adapter.calls \o calls /\ Accounts(g, k, {s})
  BY <1>0, <1>2, IssueOrReportIs
<1> HIDE DEF k, calls
<1>4. /\ l \in Pair /\ l.adapter.time = Without(g.adapter.time, s)
      /\ l.adapter.calls = g.adapter.calls \o calls /\ Accounts(k, l, {})
  BY <1>0, <1>3, EraseIs
<1> HIDE DEF l
<1>5. /\ m \in Pair /\ m.adapter.time = Without(g.adapter.time, s)
      /\ m.adapter.calls = g.adapter.calls \o calls /\ Accounts(l, m, {})
  BY <1>0, <1>4, SaveIs
<1>6. c \in WellMade /\ ~Owes(c) /\ ~IsTime(c)
  <2>1. "none" \in Response /\ o \in OptionType BY OptionFields DEF Response
  <2>2. c \in CallType /\ c.op = "startDist" /\ c.then = "none"
    BY <1>0, <2>1, CallFields
  <2>3. c.id = s
    BY <1>0, <2>1, CallFields
  <2> QED BY <1>0, <2>2, <2>3 DEF WellMade, Owes, IsTime
<1> HIDE DEF m, c, h
<1>7. /\ <<c>> \in Seq(WellMade) /\ \A i \in 1..Len(<<c>>) : ~IsTime(<<c>>[i])
      /\ \A i \in 1..Len(<<c>>) : ~Owes(<<c>>[i])
  BY <1>6
<1>8. /\ h \in Pair /\ h.adapter.time = m.adapter.time
      /\ h.adapter.calls = m.adapter.calls \o <<c>> /\ Accounts(m, h, {})
  BY <1>1, <1>5, <1>7, IssueIs, IssueForNobody
<1>9. Accounts(g, h, {s})
  <2>1. Accounts(g, l, {s} \cup {}) BY <1>3, <1>4, AccountsThen
  <2>2. Accounts(g, l, {s}) BY <2>1
  <2>3. Accounts(g, m, {s} \cup {}) BY <1>5, <2>2, AccountsThen
  <2>4. Accounts(g, m, {s}) BY <2>3
  <2>5. Accounts(g, h, {s} \cup {}) BY <1>8, <2>4, AccountsThen
  <2> QED BY <2>5
<1>10. Keeps(g, m)
  BY <1>2, <1>3, <1>5, SteersKeeps
<1>11. Keeps(m, h)
  BY <1>5, <1>7, <1>8, FewerKeeps
<1> QED BY <1>9, <1>10, <1>11 DEF Keeps, h

(* The options of a session change.                                         *)
LEMMA UpdateHandled ==
  ASSUME NEW g \in Pair, NEW s \in Session, NEW o \in Options
  PROVE  LET h == MsgUpdateTracking(g, s, o)
         IN  Accounts(g, h, {s}) /\ Keeps(g, h)
<1> DEFINE time == s \in DOMAIN g.adapter.time
           dist == s \in DOMAIN g.adapter.dist
           stop == Call("stopDist", s, o, IF o.distance THEN "restart" ELSE "toTime")
           h == MsgUpdateTracking(g, s, o)
<1>0. o.distance \in BOOLEAN
  BY OptionFields
<1>1. stop \in WellMade /\ stop.id = s /\ Owes(stop) /\ ~IsTime(stop)
  <2> DEFINE then == IF o.distance THEN "restart" ELSE "toTime"
  <2>1. then \in Response /\ o \in OptionType BY OptionFields DEF Response
  <2>2. /\ stop \in CallType /\ stop.op = "stopDist" /\ stop.id = s
        /\ stop.options = o /\ stop.then = then
    BY <2>1, CallFields
  <2> QED BY <2>2 DEF WellMade, Owes, IsTime
<1>2. <<stop>> \in Seq(WellMade) /\ \A i \in 1..Len(<<stop>>) : ~IsTime(<<stop>>[i])
  BY <1>1
<1>3. ASSUME NEW k \in Pair, Accounts(g, k, {}), k.adapter.calls = g.adapter.calls,
             \A t \in DOMAIN k.adapter.time :
               t \in DOMAIN g.adapter.time /\ k.adapter.time[t] = g.adapter.time[t],
             h = Issue(k, <<stop>>)
      PROVE  Accounts(g, h, {s}) /\ Keeps(g, h)
  <2> HIDE DEF h, stop
  <2>1. Accounts(k, h, {s}) BY <1>1, <1>3, IssueOwing
  <2>2. Accounts(g, h, {} \cup {s}) BY <1>3, <2>1, AccountsThen
  <2>3. /\ h \in Pair /\ h.adapter.time = k.adapter.time
        /\ h.adapter.calls = g.adapter.calls \o <<stop>>
    <3>1. k \in Pair /\ h = Issue(k, <<stop>>) BY <1>3
    <3>2. /\ h \in Pair /\ h.adapter.time = k.adapter.time
          /\ h.adapter.calls = k.adapter.calls \o <<stop>>
      BY <1>2, <3>1, IssueMakes
    <3> QED BY <1>3, <3>2
  <2>4. Keeps(g, h) BY <1>2, <1>3, <2>3, FewerKeeps
  <2> QED BY <2>2, <2>4
<1>4. CASE ~time /\ ~dist
  <2>1. h = ReportResponse(g, s) BY <1>4, Zenon DEF MsgUpdateTracking
  <2>2. h \in Pair /\ h.adapter = g.adapter /\ Accounts(g, h, {s})
    BY <2>1, ReportIs
  <2> QED BY <2>2, SameKeeps
<1>5. CASE time /\ o.distance
  <2>1. h = ToDistance(g, s, o) BY <1>5, Zenon DEF MsgUpdateTracking
  <2> QED BY <1>5, <2>1, ToDistanceHandled
<1>6. CASE dist /\ ~o.distance
  <2> DEFINE k == EraseTrackingSession(g, s)
  <2>1. h = Issue(k, <<stop>>) BY <1>6, Zenon DEF MsgUpdateTracking
  <2>2. /\ k \in Pair /\ k.adapter.calls = g.adapter.calls /\ Accounts(g, k, {})
        /\ k.adapter.time = IF time THEN Without(g.adapter.time, s) ELSE g.adapter.time
    BY EraseIs
  <2>3. \A t \in DOMAIN g.adapter.time \ {s} :
          Without(g.adapter.time, s)[t] = g.adapter.time[t]
    BY PairFields, WithoutType
  <2>4. DOMAIN Without(g.adapter.time, s) = DOMAIN g.adapter.time \ {s}
    BY PairFields, WithoutType
  <2> HIDE DEF k, h, stop
  <2>5. \A t \in DOMAIN k.adapter.time :
          t \in DOMAIN g.adapter.time /\ k.adapter.time[t] = g.adapter.time[t]
    BY <2>2, <2>3, <2>4
  <2>6. Accounts(g, h, {s}) /\ Keeps(g, h) BY <1>3, <2>1, <2>2, <2>5
  <2> QED BY <2>6 DEF h
<1>7. CASE time /\ ~dist /\ ~o.distance
  <2> DEFINE calls == UpdateMultiplex(g.adapter.time, s, o)
             k == IssueOrReport(g, calls, s)
  <2>1. h = SaveTrackingSession(k, s, o) BY <1>7, Zenon DEF MsgUpdateTracking
  <2>2. Steers(g.adapter.time, calls, With(g.adapter.time, s, o), s)
    BY <1>7, PairFields, UpdateSteers
  <2>3. /\ k \in Pair /\ k.adapter.time = g.adapter.time /\ calls \in Seq(WellMade)
        /\ k.adapter.calls = g.adapter.calls \o calls /\ Accounts(g, k, {s})
    BY <2>2, IssueOrReportIs
  <2> HIDE DEF calls, k, h
  <2>4. /\ h \in Pair /\ h.adapter.time = With(g.adapter.time, s, o)
        /\ h.adapter.calls = g.adapter.calls \o calls /\ Accounts(k, h, {})
    BY <1>7, <2>1, <2>3, SaveIs
  <2>5. Accounts(g, h, {s})
    <3>1. Accounts(g, h, {s} \cup {}) BY <2>3, <2>4, AccountsThen
    <3> QED BY <3>1
  <2>6. Keeps(g, h) BY <2>2, <2>3, <2>4, SteersKeeps
  <2> QED BY <2>5, <2>6 DEF h
<1>8. CASE ~time /\ dist /\ o.distance
  <2>1. h = Issue(g, <<stop>>) BY <1>8, Zenon DEF MsgUpdateTracking
  <2>2. Accounts(g, g, {}) BY AccountsSame
  <2> HIDE DEF h, stop
  <2>3. Accounts(g, h, {s}) /\ Keeps(g, h) BY <1>3, <2>1, <2>2
  <2> QED BY <2>3 DEF h
<1> HIDE DEF h
<1> QED BY <1>0, <1>4, <1>5, <1>6, <1>7, <1>8 DEF h

(* A session stops.                                                         *)
LEMMA StopHandled ==
  ASSUME NEW g \in Pair, NEW s \in Session
  PROVE  LET h == MsgStopTracking(g, s)
         IN  Accounts(g, h, {s}) /\ Keeps(g, h)
<1> DEFINE h == MsgStopTracking(g, s)
<1>1. CASE s \in DOMAIN g.adapter.time
  <2> DEFINE calls == StopMultiplex(g.adapter.time, s)
             k == IssueOrReport(g, calls, s)
             l == EraseTrackingSession(k, s)
  <2>1. h = IF calls = << >> THEN NoteStopped(l, s) ELSE l
    BY <1>1, Zenon DEF MsgStopTracking
  <2>2. Steers(g.adapter.time, calls, Without(g.adapter.time, s), s)
    BY <1>1, PairFields, StopSteers
  <2>3. /\ k \in Pair /\ k.adapter.time = g.adapter.time /\ calls \in Seq(WellMade)
        /\ k.adapter.calls = g.adapter.calls \o calls /\ Accounts(g, k, {s})
    BY <2>2, IssueOrReportIs
  <2> HIDE DEF calls, k, h
  <2>4. /\ l \in Pair /\ l.adapter.time = Without(g.adapter.time, s)
        /\ l.adapter.calls = g.adapter.calls \o calls /\ Accounts(k, l, {})
    BY <1>1, <2>3, EraseIs
  <2> HIDE DEF l
  <2>5. h \in Pair /\ h.adapter = l.adapter /\ Accounts(l, h, {})
    <3>1. CASE calls = << >> BY <2>1, <2>4, <3>1, NoteIs
    <3>2. CASE calls # << >>
      <4>1. Accounts(l, l, {}) BY <2>4, AccountsSame
      <4> QED BY <2>1, <2>4, <3>2, <4>1
    <3> QED BY <3>1, <3>2
  <2>6. Accounts(g, h, {s})
    <3>1. Accounts(g, l, {s} \cup {}) BY <2>3, <2>4, AccountsThen
    <3>2. Accounts(g, l, {s}) BY <3>1
    <3>3. Accounts(g, h, {s} \cup {}) BY <2>5, <3>2, AccountsThen
    <3> QED BY <3>3
  <2>7. Keeps(g, h) BY <2>2, <2>3, <2>4, <2>5, SteersKeeps
  <2> QED BY <2>6, <2>7 DEF h
<1>2. CASE s \in DOMAIN g.adapter.dist \ DOMAIN g.adapter.time
  <2> DEFINE c == Call("stopDist", s, NoOptions, "stop")
  <2>1. h = Issue(g, <<c>>) BY <1>2, Zenon DEF MsgStopTracking
  <2>2. c \in WellMade /\ c.id = s /\ Owes(c) /\ ~IsTime(c)
    <3>1. "stop" \in Response /\ NoOptions \in OptionType BY OptionFields DEF Response
    <3>2. c \in CallType /\ c.op = "stopDist" /\ c.id = s /\ c.then = "stop"
      BY <3>1, CallFields
    <3> QED BY <3>2 DEF WellMade, Owes, IsTime
  <2> HIDE DEF c, h
  <2>3. Accounts(g, h, {s}) BY <2>1, <2>2, IssueOwing
  <2>4. <<c>> \in Seq(WellMade) /\ \A i \in 1..Len(<<c>>) : ~IsTime(<<c>>[i])
    BY <2>2
  <2>5. /\ h \in Pair /\ h.adapter.time = g.adapter.time
        /\ h.adapter.calls = g.adapter.calls \o <<c>>
    BY <2>1, <2>4, IssueIs
  <2>6. Keeps(g, h) BY <2>4, <2>5, FewerKeeps
  <2> QED BY <2>3, <2>6 DEF h
<1>3. CASE s \notin DOMAIN g.adapter.dist \cup DOMAIN g.adapter.time
  <2>1. h = ReportResponse(g, s) BY <1>3, Zenon DEF MsgStopTracking
  <2>2. h \in Pair /\ h.adapter = g.adapter /\ Accounts(g, h, {s})
    BY <2>1, ReportIs
  <2> QED BY <2>2, SameKeeps
<1> QED BY <1>1, <1>2, <1>3

-----------------------------------------------------------------------------
(* What is left of the calls after the first is taken, and of the answers   *)
(* they stand for.                                                          *)
Taken(g) == [g EXCEPT !.adapter.calls = Tail(@)]

(* One answer of those due may be the one of this call.                     *)
LEMMA TakenIs ==
  ASSUME NEW g \in Pair, g.adapter.calls # << >>
  PROVE  /\ Taken(g) \in Pair /\ Taken(g).ledger = g.ledger
         /\ Taken(g).adapter.clients = g.adapter.clients
         /\ Taken(g).adapter.time = g.adapter.time
         /\ Taken(g).adapter.calls = Tail(g.adapter.calls)
         /\ Head(g.adapter.calls) \in WellMade
         /\ \A t \in Session :
              Due(g, t) = Due(Taken(g), t) +
                (IF Head(g.adapter.calls).id = t /\ Owes(Head(g.adapter.calls))
                   THEN 1 ELSE 0)
<1> DEFINE a == [g.adapter EXCEPT !.calls = Tail(@)]
           h == Taken(g)
<1>1. Tail(g.adapter.calls) \in Seq(WellMade) /\ Head(g.adapter.calls) \in WellMade
  BY PairFields, HeadTailProperties
<1>2. /\ a \in AdapterType /\ a.clients = g.adapter.clients /\ a.time = g.adapter.time
      /\ a.calls = Tail(g.adapter.calls)
  BY <1>1, PairFields DEF AdapterType
<1>3. h = [g EXCEPT !.adapter = a]
  BY DEF Taken
<1> HIDE DEF a, h
<1>4. /\ h \in Pair /\ h.ledger = g.ledger /\ h.adapter = a
  BY <1>2, <1>3, PairFields DEF Pair
<1>5. ASSUME NEW t \in Session
      PROVE  Due(g, t) = Due(h, t) +
                (IF Head(g.adapter.calls).id = t /\ Owes(Head(g.adapter.calls))
                   THEN 1 ELSE 0)
  <2>1. Owed(g.adapter.calls, t) = Owed(h.adapter.calls, t) +
          (IF Head(g.adapter.calls).id = t /\ Owes(Head(g.adapter.calls)) THEN 1 ELSE 0)
    BY <1>2, <1>4, PairFields, OwedTail
  <2>2. /\ Owed(h.adapter.calls, t) \in Nat /\ h.ledger.answered[t] \in Nat
        /\ g.ledger.answered[t] = h.ledger.answered[t]
    BY <1>4, DueNat
  <2> QED BY <2>1, <2>2 DEF Due
<1> QED BY <1>1, <1>2, <1>4, <1>5 DEF h

(* The modem's interval once the call is carried out.                       *)
LEMMA TakenKeeps ==
  ASSUME NEW g \in Pair, g.adapter.calls # << >>, NEW v, Fast(g.adapter, v)
  PROVE  Fast(Taken(g).adapter,
              IF IsTime(Head(g.adapter.calls))
                THEN Head(g.adapter.calls).options.interval ELSE v)
<1>1. /\ Taken(g).adapter.time = g.adapter.time
      /\ Taken(g).adapter.calls = Tail(g.adapter.calls)
      /\ g.adapter.calls \in Seq(WellMade)
  BY TakenIs, PairFields
<1> QED BY <1>1, BoundTail DEF Fast

(* The handler of an answer: a call that stood for one gives it, or makes   *)
(* another call that does; only a restart that failed does neither.         *)
LEMMA RespondedHandled ==
  ASSUME NEW g \in Pair, NEW c \in WellMade, NEW ok \in BOOLEAN
  PROVE  LET h == Responded(g, c, ok)
             N == IF Owes(c) /\ (ok \/ c.then # "restart") THEN {c.id} ELSE {}
         IN  Accounts(g, h, N) /\ (ok => Keeps(g, h))
<1> DEFINE s == c.id
           h == Responded(g, c, ok)
           N == IF Owes(c) /\ (ok \/ c.then # "restart") THEN {c.id} ELSE {}
           Goal == Accounts(g, h, N) /\ (ok => Keeps(g, h))
<1>1. /\ c.then \in Response /\ (c.then # "none" => s \in Session)
      /\ (c.then \in {"toTime", "restart", "resave"} => c.options \in Options)
      /\ (c.then \in {"restart", "resave"} => c.options.distance)
      /\ (c.then = "toTime" => ~c.options.distance)
      /\ (c.then = "update" => c.old \in Options)
  BY DEF WellMade, CallType
<1>2. Accounts(g, g, {}) /\ Keeps(g, g)
  BY AccountsSame DEF Keeps
<1>3. ASSUME NEW k \in Pair, Accounts(g, k, {}), s \in Session,
             ok => Keeps(g, k)
      PROVE  /\ Accounts(g, ReportResponse(k, s), {s})
             /\ ok => Keeps(g, ReportResponse(k, s))
  <2> DEFINE r == ReportResponse(k, s)
  <2>1. r \in Pair /\ r.adapter = k.adapter /\ Accounts(k, r, {s})
    BY <1>3, ReportIs
  <2> HIDE DEF r
  <2>2. Accounts(g, r, {} \cup {s}) BY <1>3, <2>1, AccountsThen
  <2>3. ok => Keeps(g, r) BY <1>3, <2>1 DEF Keeps
  <2> QED BY <2>2, <2>3 DEF r
<1>4. ASSUME NEW k \in Pair, k.adapter.calls = g.adapter.calls,
             \/ k.adapter.time = g.adapter.time
             \/ s \in DOMAIN g.adapter.time /\ k.adapter.time = Without(g.adapter.time, s)
      PROVE  Keeps(g, k)
  <2>1. /\ DOMAIN Without(g.adapter.time, s) = DOMAIN g.adapter.time \ {s}
        /\ \A t \in DOMAIN g.adapter.time \ {s} :
             Without(g.adapter.time, s)[t] = g.adapter.time[t]
    BY PairFields, WithoutType
  <2>2. \A t \in DOMAIN k.adapter.time :
          t \in DOMAIN g.adapter.time /\ k.adapter.time[t] = g.adapter.time[t]
    BY <1>4, <2>1
  <2> QED BY <1>4, <2>2, SameKeeps
<1>5. ASSUME s \in Session
      PROVE  LET k == EraseTrackingSession(g, s)
             IN  k \in Pair /\ Accounts(g, k, {}) /\ Keeps(g, k)
  <2> DEFINE k == EraseTrackingSession(g, s)
  <2>1. /\ k \in Pair /\ k.adapter.calls = g.adapter.calls /\ Accounts(g, k, {})
        /\ k.adapter.time = IF s \in DOMAIN g.adapter.time
                              THEN Without(g.adapter.time, s) ELSE g.adapter.time
    BY <1>5, EraseIs
  <2> HIDE DEF k
  <2>2. Keeps(g, k) BY <1>4, <2>1
  <2> QED BY <2>1, <2>2 DEF k
<1>6. CASE c.then = "none"
  <2>1. h = g BY <1>6, Zenon DEF Responded
  <2>2. N = {} BY <1>6 DEF Owes
  <2> QED BY <1>2, <2>1, <2>2
<1>7. CASE c.then = "start"
  <2> DEFINE k == IF ok THEN g ELSE EraseTrackingSession(g, s)
  <2>1. h = ReportResponse(k, s) BY <1>7, Zenon DEF Responded
  <2>2. N = {s} /\ s \in Session BY <1>1, <1>7 DEF Owes
  <2>3. k \in Pair /\ Accounts(g, k, {}) /\ Keeps(g, k) BY <1>2, <1>5, <2>2
  <2> HIDE DEF k
  <2> QED BY <1>3, <2>1, <2>2, <2>3
<1>8. CASE c.then = "update"
  <2> DEFINE k == IF ok THEN g ELSE SaveTrackingSession(g, s, c.old)
  <2>1. h = ReportResponse(k, s) BY <1>8, Zenon DEF Responded
  <2>2. N = {s} /\ s \in Session BY <1>1, <1>8 DEF Owes
  <2>3. k \in Pair /\ Accounts(g, k, {}) /\ (ok => Keeps(g, k))
    <3>1. CASE ok BY <1>2, <3>1
    <3>2. CASE ~ok BY <1>1, <1>8, <2>2, <3>2, SaveIs
    <3> QED BY <3>1, <3>2
  <2> HIDE DEF k
  <2> QED BY <1>3, <2>1, <2>2, <2>3
<1>9. CASE c.then = "stopFix"
  <2>1. h = ReportResponse(g, s) BY <1>9, Zenon DEF Responded
  <2>2. N = {s} /\ s \in Session BY <1>1, <1>9 DEF Owes
  <2> QED BY <1>2, <1>3, <2>1, <2>2
<1>10. CASE c.then = "stop"
  <2> DEFINE k == EraseTrackingSession(g, s)
             r == ReportResponse(k, s)
  <2>1. h = IF ok THEN NoteStopped(r, s) ELSE ReportResponse(g, s)
    BY <1>10, Zenon DEF Responded
  <2>2. N = {s} /\ s \in Session BY <1>1, <1>10 DEF Owes
  <2>3. k \in Pair /\ Accounts(g, k, {}) /\ Keeps(g, k) BY <1>5, <2>2
  <2> HIDE DEF k
  <2>4. Accounts(g, r, {s}) /\ (ok => Keeps(g, r)) BY <1>3, <2>2, <2>3
  <2>5. r \in Pair BY <2>4 DEF Accounts
  <2> HIDE DEF r
  <2>6. CASE ok
    <3>1. h \in Pair /\ h.adapter = r.adapter /\ Accounts(r, h, {})
      BY <2>1, <2>2, <2>5, <2>6, NoteIs
    <3> HIDE DEF h
    <3>2. Accounts(g, h, {s} \cup {}) BY <2>4, <2>5, <3>1, AccountsThen
    <3>3. Accounts(g, h, {s}) BY <3>2
    <3>4. Keeps(g, h) BY <2>4, <2>6, <3>1 DEF Keeps
    <3> QED BY <2>2, <3>3, <3>4 DEF h
  <2>7. CASE ~ok
    <3>1. h = ReportResponse(g, s) BY <2>1, <2>7
    <3> QED BY <1>2, <1>3, <2>2, <3>1
  <2> QED BY <2>6, <2>7
<1>11. CASE c.then = "leave"
  <2>1. h = IF ok THEN EraseTrackingSession(g, s) ELSE g
    BY <1>11, Zenon DEF Responded
  <2>2. N = {} /\ s \in Session BY <1>1, <1>11 DEF Owes
  <2> QED BY <1>2, <1>5, <2>1, <2>2
<1>12. CASE c.then = "toTime"
  <2> DEFINE o == c.options
             calls == StartMultiplex(g.adapter.time, s, o)
             k == IssueOrReport(g, calls, s)
  <2>1. h = SaveTrackingSession(k, s, o) BY <1>12, Zenon DEF Responded
  <2>2. N = {s} /\ s \in Session /\ o \in Options /\ ~o.distance
    BY <1>1, <1>12 DEF Owes
  <2>3. Steers(g.adapter.time, calls, With(g.adapter.time, s, o), s)
    BY <2>2, PairFields, StartSteers
  <2>4. /\ k \in Pair /\ k.adapter.time = g.adapter.time /\ calls \in Seq(WellMade)
        /\ k.adapter.calls = g.adapter.calls \o calls /\ Accounts(g, k, {s})
    BY <2>2, <2>3, IssueOrReportIs
  <2> HIDE DEF calls, k, h
  <2>5. /\ h \in Pair /\ h.adapter.time = With(g.adapter.time, s, o)
        /\ h.adapter.calls = g.adapter.calls \o calls /\ Accounts(k, h, {})
    BY <2>1, <2>2, <2>4, SaveIs
  <2>6. Accounts(g, h, {s})
    <3>1. Accounts(g, h, {s} \cup {}) BY <2>4, <2>5, AccountsThen
    <3> QED BY <3>1
  <2>7. Keeps(g, h) BY <2>3, <2>4, <2>5, SteersKeeps
  <2> QED BY <2>2, <2>6, <2>7 DEF h
<1>13. CASE c.then = "restart"
  <2> DEFINE d == Call("startDist", s, c.options, "resave")
  <2>1. h = IF ok THEN Issue(g, <<d>>) ELSE g BY <1>13, Zenon DEF Responded
  <2>2. CASE ok
    <3>1. N = {s} /\ s \in Session /\ c.options \in Options /\ c.options.distance
      BY <1>1, <1>13, <2>2 DEF Owes
    <3>2. d \in WellMade /\ d.id = s /\ Owes(d) /\ ~IsTime(d)
      <4>1. "resave" \in Response /\ c.options \in OptionType
        BY <3>1, OptionFields DEF Response
      <4>2. /\ d \in CallType /\ d.op = "startDist" /\ d.id = s
            /\ d.options = c.options /\ d.then = "resave"
        BY <3>1, <4>1, CallFields
      <4> QED BY <3>1, <4>2 DEF WellMade, Owes, IsTime
    <3>3. h = Issue(g, <<d>>) BY <2>1, <2>2
    <3> HIDE DEF d, h
    <3>4. Accounts(g, h, {s}) BY <3>1, <3>2, <3>3, IssueOwing
    <3>5. <<d>> \in Seq(WellMade) /\ \A i \in 1..Len(<<d>>) : ~IsTime(<<d>>[i])
      BY <3>2
    <3>6. /\ h \in Pair /\ h.adapter.time = g.adapter.time
          /\ h.adapter.calls = g.adapter.calls \o <<d>>
      BY <3>3, <3>5, IssueMakes
    <3>7. Keeps(g, h) BY <3>5, <3>6, FewerKeeps
    <3> QED BY <3>1, <3>4, <3>7 DEF h
  <2>3. CASE ~ok
    <3>1. h = g /\ N = {} BY <1>13, <2>1, <2>3
    <3> QED BY <1>2, <3>1, <2>3
  <2> QED BY <2>2, <2>3
<1>14. CASE c.then = "resave"
  <2> DEFINE k == IF ok THEN SaveTrackingSession(g, s, c.options) ELSE g
  <2>1. h = ReportResponse(k, s) BY <1>14, Zenon DEF Responded
  <2>2. N = {s} /\ s \in Session /\ c.options \in Options /\ c.options.distance
    BY <1>1, <1>14 DEF Owes
  <2>3. k \in Pair /\ Accounts(g, k, {}) /\ Keeps(g, k)
    <3>1. CASE ok
      <4>1. /\ k \in Pair /\ k.adapter.calls = g.adapter.calls
            /\ k.adapter.time = g.adapter.time /\ Accounts(g, k, {})
        BY <2>2, <3>1, SaveIs
      <4> QED BY <1>4, <4>1
    <3>2. CASE ~ok BY <1>2, <3>2
    <3> QED BY <3>1, <3>2
  <2> HIDE DEF k
  <2> QED BY <1>3, <2>1, <2>2, <2>3
<1> HIDE DEF h, N, s
<1>15. Goal
  BY <1>1, <1>6, <1>7, <1>8, <1>9, <1>10, <1>11, <1>12, <1>13, <1>14
     DEF Response, h, N, s
<1> QED BY <1>15 DEF h, N

-----------------------------------------------------------------------------
(* A sequence given element by element.                                     *)
LEMMA MadeSeq ==
  ASSUME NEW S, NEW q, NEW n \in Nat, DOMAIN q = 1..n, q = [i \in 1..n |-> q[i]],
         \A i \in 1..n : q[i] \in S
  PROVE  q \in Seq(S) /\ Len(q) = n
<1>1. q \in [1..n -> S]
  <2>1. [i \in 1..n |-> q[i]] \in [1..n -> S] OBVIOUS
  <2> QED BY <2>1, Zenon
<1> QED BY <1>1

(* The calls that start all sessions again are for nobody, and the first    *)
(* sets an interval that is enough for all of them.                         *)
LEMMA RestartIs ==
  ASSUME NEW a \in AdapterType
  PROVE  LET r == RestartSessions(a)
         IN  /\ r \in Seq(WellMade)
             /\ \A i \in 1..Len(r) : ~Owes(r[i])
             /\ DOMAIN a.time # {} =>
                  /\ 1 \in 1..Len(r) /\ IsTime(r[1])
                  /\ \A i \in 2..Len(r) : ~IsTime(r[i])
                  /\ \A t \in DOMAIN a.time :
                       r[1].options.interval \in 1..a.time[t].interval
<1> DEFINE ids == InOrder(DOMAIN a.dist)
           best == SmallestInterval(a.time, DOMAIN a.time)
           power == SmallestPower(a.time, DOMAIN a.time)
           all == [best EXCEPT !.power = power]
           start(s) == Call("startDist", s, a.dist[s], "none")
           first == Call("startTime", NoSession, all, "none")
           F == IF DOMAIN a.time = {} THEN << >> ELSE <<first>>
           D == [i \in DOMAIN ids |-> start(ids[i])]
           r == RestartSessions(a)
<1>1. r = F \o D
  BY DEF RestartSessions
<1>2. a.time \in Sessions /\ a.dist \in Sessions
  BY DEF AdapterType
<1>3. \A s \in DOMAIN a.dist :
        start(s) \in WellMade /\ ~Owes(start(s)) /\ ~IsTime(start(s))
  <2>1. SUFFICES ASSUME NEW s \in DOMAIN a.dist
                 PROVE  start(s) \in WellMade /\ ~Owes(start(s)) /\ ~IsTime(start(s))
    OBVIOUS
  <2>2. s \in Session /\ a.dist[s] \in OptionType /\ "none" \in Response
    BY <1>2, SessionsFields, OptionFields DEF Response
  <2>3. /\ start(s) \in CallType /\ start(s).op = "startDist"
        /\ start(s).then = "none" /\ start(s).id = s
    BY <2>2, CallFields
  <2> QED BY <2>2, <2>3 DEF WellMade, Owes, IsTime
<1>4. DOMAIN a.dist \in SUBSET Nat /\ IsFiniteSet(DOMAIN a.dist)
  BY <1>2, SessionsFields
<1>5. /\ DOMAIN ids = 1..Len(ids) /\ Len(ids) \in Nat
      /\ \A i \in DOMAIN ids : ids[i] \in DOMAIN a.dist
  <2>1. /\ ids \in Seq(DOMAIN a.dist) /\ DOMAIN ids = 1..Len(ids)
        /\ \A i \in DOMAIN ids : ids[i] \in DOMAIN a.dist
    BY <1>4, InOrderIn
  <2> QED BY <2>1, LenProperties
<1> HIDE DEF ids, start
<1>6. /\ D \in Seq(WellMade) /\ Len(D) = Len(ids)
      /\ \A i \in 1..Len(D) : D[i] \in WellMade /\ ~Owes(D[i]) /\ ~IsTime(D[i])
  <2>1. \A i \in 1..Len(ids) : D[i] \in WellMade /\ ~Owes(D[i]) /\ ~IsTime(D[i])
    BY <1>3, <1>5
  <2>2. DOMAIN D = 1..Len(ids) /\ D = [i \in 1..Len(ids) |-> D[i]]
    BY <1>5
  <2> HIDE DEF D
  <2>3. D \in Seq(WellMade) /\ Len(D) = Len(ids)
    BY <1>5, <2>1, <2>2, MadeSeq
  <2> QED BY <2>1, <2>3
<1> HIDE DEF D
<1>7. CASE DOMAIN a.time = {}
  <2>1. r = D
    <3>1. F = << >> BY <1>7
    <3> QED BY <1>1, <1>6, <3>1, ConcatEmptySeq
  <2> QED BY <1>6, <1>7, <2>1
<1>8. CASE DOMAIN a.time # {}
  <2>1. /\ best \in Options
        /\ \A t \in DOMAIN a.time : best.interval <= a.time[t].interval
    <3>1. DOMAIN a.time \in SUBSET DOMAIN a.time OBVIOUS
    <3> QED BY <1>2, <1>8, <3>1, SmallestIntervalIn
  <2>2. power \in 1..5
    <3>1. DOMAIN a.time \in SUBSET DOMAIN a.time OBVIOUS
    <3> QED BY <1>2, <1>8, <3>1, SmallestPowerIn
  <2>3. /\ best \in OptionType /\ best.interval \in Nat /\ best.interval > 0
        /\ \A t \in DOMAIN a.time : a.time[t].interval \in Nat
    BY <1>2, <2>1, OptionFields, SessionsFields
  <2> HIDE DEF best, power
  <2>4. all \in OptionType /\ all.interval = best.interval
    BY <2>2, <2>3 DEF OptionType
  <2> HIDE DEF all
  <2>5. first \in WellMade /\ ~Owes(first) /\ IsTime(first) /\ first.options = all
    <3>1. "none" \in Response BY DEF Response
    <3>2. /\ first \in CallType /\ first.op = "startTime" /\ first.then = "none"
          /\ first.options = all
      BY <2>4, <3>1, CallFields
    <3> QED BY <3>2 DEF WellMade, Owes, IsTime
  <2> HIDE DEF first
  <2>6. /\ F = <<first>> /\ F \in Seq(WellMade) /\ Len(F) = 1 /\ F[1] = first
    BY <1>8, <2>5
  <2> HIDE DEF F, r
  <2>7. /\ r \in Seq(WellMade) /\ Len(r) = 1 + Len(D)
        /\ \A i \in 1..1 + Len(D) : r[i] = IF i <= 1 THEN F[i] ELSE D[i - 1]
    BY <1>1, <1>6, <2>6, ConcatProperties
  <2>8. Len(D) \in Nat
    BY <1>6, LenProperties
  <2>9. 1 \in 1..Len(r) /\ r[1] = first
    BY <2>6, <2>7, <2>8
  <2>10. \A i \in 2..Len(r) : ~IsTime(r[i]) /\ ~Owes(r[i])
    <3>1. SUFFICES ASSUME NEW i \in 2..Len(r) PROVE ~IsTime(r[i]) /\ ~Owes(r[i])
      OBVIOUS
    <3>2. i \in 1..1 + Len(D) /\ ~(i <= 1) /\ i - 1 \in 1..Len(D) BY <2>7, <2>8
    <3>3. r[i] = D[i - 1] BY <2>7, <3>2
    <3> QED BY <1>6, <3>2, <3>3
  <2>11. \A i \in 1..Len(r) : ~Owes(r[i])
    <3>1. \A i \in 1..Len(r) : i = 1 \/ i \in 2..Len(r) BY <2>7, <2>8
    <3> QED BY <2>5, <2>9, <2>10, <3>1
  <2>12. \A t \in DOMAIN a.time : first.options.interval \in 1..a.time[t].interval
    BY <2>1, <2>3, <2>4, <2>5
  <2> QED BY <2>5, <2>7, <2>9, <2>10, <2>11, <2>12 DEF r
<1> HIDE DEF r
<1> QED BY <1>7, <1>8

(* After such calls, whatever was asked before, the modem ends up fast      *)
(* enough.                                                                  *)
LEMMA RestartHandled ==
  ASSUME NEW g \in Pair, NEW before \in Seq(WellMade),
         \A i \in 1..Len(before) : ~Owes(before[i]), NEW v
  PROVE  LET h == Issue(g, before \o RestartSessions(g.adapter))
         IN  Accounts(g, h, {}) /\ Fast(h.adapter, v)
<1> DEFINE r == RestartSessions(g.adapter)
           calls == before \o r
           h == Issue(g, calls)
           n == Len(before)
<1>1. /\ r \in Seq(WellMade)
      /\ \A i \in 1..Len(r) : ~Owes(r[i])
      /\ DOMAIN g.adapter.time # {} =>
           /\ 1 \in 1..Len(r) /\ IsTime(r[1])
           /\ \A i \in 2..Len(r) : ~IsTime(r[i])
           /\ \A t \in DOMAIN g.adapter.time :
                r[1].options.interval \in 1..g.adapter.time[t].interval
  BY PairFields, RestartIs
<1> HIDE DEF r
<1>2. /\ calls \in Seq(WellMade) /\ Len(calls) = n + Len(r)
      /\ \A i \in 1..n + Len(r) : calls[i] = IF i <= n THEN before[i] ELSE r[i - n]
  BY <1>1, ConcatProperties
<1>3. n \in Nat /\ Len(r) \in Nat
  BY <1>1, LenProperties
<1> HIDE DEF calls, n
<1>4. \A i \in 1..Len(calls) : ~Owes(calls[i])
  <2>1. SUFFICES ASSUME NEW i \in 1..Len(calls) PROVE ~Owes(calls[i])
    OBVIOUS
  <2>2. CASE i <= n
    <3>1. i \in 1..n /\ calls[i] = before[i] BY <1>2, <1>3, <2>2
    <3> QED BY <3>1 DEF n
  <2>3. CASE ~(i <= n)
    <3>1. i - n \in 1..Len(r) /\ calls[i] = r[i - n] BY <1>2, <1>3, <2>3
    <3> QED BY <1>1, <3>1
  <2> QED BY <2>2, <2>3
<1>5. Accounts(g, h, {})
  BY <1>2, <1>4, IssueForNobody
<1>6. /\ h.adapter.time = g.adapter.time
      /\ h.adapter.calls = g.adapter.calls \o calls
  BY <1>2, IssueIs
<1> HIDE DEF h
<1>7. ASSUME NEW t \in DOMAIN g.adapter.time
      PROVE  Bound(g.adapter.calls \o calls, v, g.adapter.time[t].interval)
  <2>1. /\ 1 \in 1..Len(r) /\ IsTime(r[1])
        /\ \A i \in 2..Len(r) : ~IsTime(r[i])
        /\ r[1].options.interval \in 1..g.adapter.time[t].interval
    BY <1>1, <1>7
  <2>2. n + 1 \in 1..Len(calls) /\ calls[n + 1] = r[1]
    <3>1. n + 1 \in 1..n + Len(r) /\ ~(n + 1 <= n) /\ (n + 1) - n = 1
      BY <1>3, <2>1
    <3> QED BY <1>2, <3>1
  <2>3. \A i \in (n + 1)+1..Len(calls) : ~IsTime(calls[i])
    <3>1. SUFFICES ASSUME NEW i \in (n + 1)+1..Len(calls) PROVE ~IsTime(calls[i])
      OBVIOUS
    <3>2. i \in 1..n + Len(r) /\ ~(i <= n) /\ i - n \in 2..Len(r) BY <1>2, <1>3
    <3>3. calls[i] = r[i - n] BY <1>2, <3>2
    <3> QED BY <2>1, <3>2, <3>3
  <2>4. g.adapter.calls \in Seq(WellMade)
    BY PairFields
  <2> QED BY <1>2, <2>1, <2>2, <2>3, <2>4, BoundAfter
<1>8. Fast(h.adapter, v)
  BY <1>6, <1>7 DEF Fast
<1> QED BY <1>5, <1>8 DEF h, calls, r

(* The calls that suspend the sessions are for nobody.                      *)
LEMMA SuspendIs ==
  ASSUME NEW a
  PROVE  LET p == SuspendSessions(a)
         IN  p \in Seq(WellMade) /\ \A i \in 1..Len(p) : ~Owes(p[i])
<1> DEFINE c == Call("stopFix", NoSession, NoOptions, "none")
<1>1. c \in WellMade /\ ~Owes(c)
  <2>1. "none" \in Response /\ NoOptions \in OptionType /\ NoOptions.interval = 0
    BY OptionFields DEF Response
  <2>2. /\ c \in CallType /\ c.op = "stopFix" /\ c.then = "none"
        /\ c.options = NoOptions
    BY <2>1, CallFields
  <2> QED BY <2>1, <2>2 DEF WellMade, Owes
<1>2. SuspendSessions(a) = << >> \/ SuspendSessions(a) = <<c>>
  BY DEF SuspendSessions
<1> HIDE DEF c
<1>3. <<c>> \in Seq(WellMade) /\ \A i \in 1..Len(<<c>>) : ~Owes(<<c>>[i])
  BY <1>1
<1>4. << >> \in Seq(WellMade) /\ \A i \in 1..Len(<< >>) : ~Owes(<< >>[i])
  OBVIOUS
<1> QED BY <1>2, <1>3, <1>4

(* The calls that stop the sessions of a client are its own, and leave the  *)
(* modem fast enough for the others'.                                       *)
LEMMA ClientStopped ==
  ASSUME NEW g \in Pair, NEW c
  PROVE  LET h == StopClientSessions(g, c)
         IN  /\ h \in Pair /\ h.ledger = g.ledger
             /\ h.adapter.clients = g.adapter.clients
             /\ \A t \in Session : OwnerOf[t] # c => Due(h, t) = Due(g, t)
             /\ Keeps(g, h)
<1> DEFINE time == g.adapter.time
           Owned(f) == {s \in DOMAIN f : OwnerOf[s] = c}
           Left(s) == Restrict(time, {t \in DOMAIN time : OwnerOf[t] = c => t >= s})
           Stop(s) == StopMultiplex(Left(s), s)
           stops == InOrder({s \in Owned(time) : Stop(s) # << >>})
           leaves == InOrder(Owned(g.adapter.dist))
           leave(s) == Call("stopDist", s, NoOptions, "leave")
           A == [i \in DOMAIN stops |-> Stop(stops[i])[1]]
           B == [i \in DOMAIN leaves |-> leave(leaves[i])]
           calls == A \o B
           rest == DOMAIN time \ Owned(time)
           k == Issue(g, calls)
           h == StopClientSessions(g, c)
<1>1. h = [k EXCEPT !.adapter.time = Restrict(time, rest)]
  BY DEF StopClientSessions
<1>2. /\ time \in Sessions /\ g.adapter.dist \in Sessions
      /\ g.adapter.calls \in Seq(WellMade)
  BY PairFields
<1>3. /\ DOMAIN time \in SUBSET Session /\ IsFiniteSet(DOMAIN time)
      /\ DOMAIN time \in SUBSET Nat
      /\ DOMAIN g.adapter.dist \in SUBSET Session /\ IsFiniteSet(DOMAIN g.adapter.dist)
      /\ DOMAIN g.adapter.dist \in SUBSET Nat
      /\ \A t \in DOMAIN time : time[t].interval \in Nat
  BY <1>2, SessionsFields, OptionFields
<1> HIDE DEF h
(* The stop of one session. *)
<1>4. ASSUME NEW s \in Owned(time), Stop(s) # << >>
      PROVE  /\ Stop(s)[1] \in WellMade /\ Stop(s)[1].id = s /\ IsTime(Stop(s)[1])
             /\ \A t \in rest : Stop(s)[1].options.interval \in 1..time[t].interval
  <2> DEFINE S == {t \in DOMAIN time : OwnerOf[t] = c => t >= s}
  <2>1. /\ Left(s) \in Sessions /\ DOMAIN Left(s) = S
        /\ \A t \in S : Left(s)[t] = time[t]
    <3>1. S \in SUBSET DOMAIN time OBVIOUS
    <3> QED BY <1>2, <3>1, RestrictType
  <2>2. s \in S /\ rest \subseteq S \ {s}
    BY <1>3
  <2> HIDE DEF S
  <2>3. Steers(Left(s), Stop(s), Without(Left(s), s), s)
    <3> HIDE DEF Left
    <3> QED BY <2>1, <2>2, StopSteers
  <2>4. /\ DOMAIN Without(Left(s), s) = S \ {s}
        /\ \A t \in S \ {s} : Without(Left(s), s)[t] = time[t]
    <3> HIDE DEF Left
    <3> QED BY <2>1, WithoutType
  <2> HIDE DEF Stop, Left
  <2>5. PICK d \in WellMade :
          /\ Stop(s) = <<d>> /\ d.id = s /\ IsTime(d)
          /\ \A t \in DOMAIN Without(Left(s), s) :
               d.options.interval \in 1..Without(Left(s), s)[t].interval
    BY <1>4, <2>3 DEF Steers
  <2>6. Stop(s)[1] = d
    BY <2>5
  <2>7. \A t \in rest : d.options.interval \in 1..time[t].interval
    BY <2>2, <2>4, <2>5
  <2> QED BY <2>5, <2>6, <2>7
<1> HIDE DEF Stop
<1>5. \A s \in Owned(g.adapter.dist) :
        leave(s) \in WellMade /\ leave(s).id = s /\ ~IsTime(leave(s))
  <2>1. SUFFICES ASSUME NEW s \in Owned(g.adapter.dist)
                 PROVE  leave(s) \in WellMade /\ leave(s).id = s /\ ~IsTime(leave(s))
    OBVIOUS
  <2>2. s \in Session /\ NoOptions \in OptionType /\ "leave" \in Response
    BY <1>3, OptionFields DEF Response
  <2>3. /\ leave(s) \in CallType /\ leave(s).op = "stopDist" /\ leave(s).id = s
        /\ leave(s).then = "leave"
    BY <2>2, CallFields
  <2> QED BY <2>2, <2>3 DEF WellMade, IsTime
<1> DEFINE T == {s \in Owned(time) : Stop(s) # << >>}
<1>6. /\ DOMAIN stops = 1..Len(stops) /\ Len(stops) \in Nat
      /\ \A i \in DOMAIN stops : stops[i] \in T
  <2>1. T \in SUBSET DOMAIN time OBVIOUS
  <2>2. T \in SUBSET Nat /\ IsFiniteSet(T) BY <1>3, <2>1, FS_Subset
  <2>3. stops \in Seq(T) /\ DOMAIN stops = 1..Len(stops)
        /\ \A i \in DOMAIN stops : stops[i] \in T
    <3> HIDE DEF T
    <3> QED BY <2>2, InOrderIn DEF T
  <2> QED BY <2>3, LenProperties
<1>7. /\ DOMAIN leaves = 1..Len(leaves) /\ Len(leaves) \in Nat
      /\ \A i \in DOMAIN leaves : leaves[i] \in Owned(g.adapter.dist)
  <2>1. Owned(g.adapter.dist) \in SUBSET DOMAIN g.adapter.dist OBVIOUS
  <2>2. Owned(g.adapter.dist) \in SUBSET Nat /\ IsFiniteSet(Owned(g.adapter.dist))
    BY <1>3, <2>1, FS_Subset
  <2>3. /\ leaves \in Seq(Owned(g.adapter.dist)) /\ DOMAIN leaves = 1..Len(leaves)
        /\ \A i \in DOMAIN leaves : leaves[i] \in Owned(g.adapter.dist)
    BY <2>2, InOrderIn
  <2> QED BY <2>3, LenProperties
<1> HIDE DEF stops, leaves, leave
<1>8. /\ A \in Seq(WellMade) /\ Len(A) = Len(stops)
      /\ \A i \in 1..Len(A) :
           /\ IsTime(A[i]) /\ OwnerOf[A[i].id] = c
           /\ \A t \in rest : A[i].options.interval \in 1..time[t].interval
  <2>1. \A i \in 1..Len(stops) :
           /\ A[i] \in WellMade /\ IsTime(A[i]) /\ OwnerOf[A[i].id] = c
           /\ \A t \in rest : A[i].options.interval \in 1..time[t].interval
    <3>1. SUFFICES ASSUME NEW i \in 1..Len(stops)
                   PROVE  /\ A[i] \in WellMade /\ IsTime(A[i]) /\ OwnerOf[A[i].id] = c
                          /\ \A t \in rest :
                               A[i].options.interval \in 1..time[t].interval
      OBVIOUS
    <3>2. stops[i] \in Owned(time) /\ Stop(stops[i]) # << >> BY <1>6
    <3>3. A[i] = Stop(stops[i])[1] BY <1>6
    <3>4. OwnerOf[stops[i]] = c BY <3>2
    <3> HIDE DEF Owned, A, rest
    <3> QED BY <1>4, <3>2, <3>3, <3>4
  <2>2. DOMAIN A = 1..Len(stops) /\ A = [i \in 1..Len(stops) |-> A[i]]
    BY <1>6
  <2> HIDE DEF A, rest
  <2>3. A \in Seq(WellMade) /\ Len(A) = Len(stops)
    BY <1>6, <2>1, <2>2, MadeSeq
  <2> QED BY <2>1, <2>3
<1>9. /\ B \in Seq(WellMade) /\ Len(B) = Len(leaves)
      /\ \A i \in 1..Len(B) : ~IsTime(B[i]) /\ OwnerOf[B[i].id] = c
  <2>1. \A i \in 1..Len(leaves) :
          B[i] \in WellMade /\ ~IsTime(B[i]) /\ OwnerOf[B[i].id] = c
    <3>1. SUFFICES ASSUME NEW i \in 1..Len(leaves)
                   PROVE  B[i] \in WellMade /\ ~IsTime(B[i]) /\ OwnerOf[B[i].id] = c
      OBVIOUS
    <3>2. leaves[i] \in Owned(g.adapter.dist) BY <1>7
    <3>3. B[i] = leave(leaves[i]) BY <1>7
    <3>4. OwnerOf[leaves[i]] = c BY <3>2
    <3> HIDE DEF Owned, B
    <3> QED BY <1>5, <3>2, <3>3, <3>4
  <2>2. DOMAIN B = 1..Len(leaves) /\ B = [i \in 1..Len(leaves) |-> B[i]]
    BY <1>7
  <2> HIDE DEF B
  <2>3. B \in Seq(WellMade) /\ Len(B) = Len(leaves)
    BY <1>7, <2>1, <2>2, MadeSeq
  <2> QED BY <2>1, <2>3
<1> DEFINE n == Len(A)
<1> HIDE DEF A, B
<1>10. n \in Nat /\ Len(B) \in Nat
  BY <1>8, <1>9, LenProperties
<1>11. /\ calls \in Seq(WellMade) /\ Len(calls) = n + Len(B)
       /\ \A i \in 1..n + Len(B) : calls[i] = IF i <= n THEN A[i] ELSE B[i - n]
  <2>1. A \in Seq(WellMade) /\ B \in Seq(WellMade) BY <1>8, <1>9
  <2>2. /\ A \o B \in Seq(WellMade) /\ Len(A \o B) = Len(A) + Len(B)
        /\ \A i \in 1..Len(A) + Len(B) :
             (A \o B)[i] = IF i <= Len(A) THEN A[i] ELSE B[i - Len(A)]
    BY <2>1, ConcatProperties
  <2> QED BY <2>2
<1> HIDE DEF calls, n
<1>12. /\ \A i \in 1..n : calls[i] = A[i]
       /\ \A i \in n+1..Len(calls) : calls[i] = B[i - n] /\ i - n \in 1..Len(B)
  <2>1. \A i \in 1..n : i \in 1..n + Len(B) /\ i <= n BY <1>10
  <2>2. \A i \in n+1..Len(calls) :
          i \in 1..n + Len(B) /\ ~(i <= n) /\ i - n \in 1..Len(B)
    BY <1>10, <1>11
  <2> QED BY <1>11, <2>1, <2>2
<1>13. \A i \in 1..Len(calls) : OwnerOf[calls[i].id] = c
  <2>1. \A i \in 1..Len(calls) : i \in 1..n \/ i \in n+1..Len(calls) BY <1>10, <1>11
  <2>2. ASSUME NEW i \in 1..n PROVE OwnerOf[calls[i].id] = c
    <3>1. calls[i] = A[i] /\ OwnerOf[A[i].id] = c BY <1>8, <1>12, <2>2 DEF n
    <3> QED BY <3>1
  <2>3. ASSUME NEW i \in n+1..Len(calls) PROVE OwnerOf[calls[i].id] = c
    <3>1. calls[i] = B[i - n] /\ i - n \in 1..Len(B) BY <1>12, <2>3
    <3>2. OwnerOf[B[i - n].id] = c BY <1>9, <3>1
    <3> QED BY <3>1, <3>2
  <2> QED BY <2>1, <2>2, <2>3
<1>14. /\ h \in Pair /\ h.ledger = g.ledger /\ h.adapter.clients = g.adapter.clients
       /\ h.adapter.time = Restrict(time, rest)
       /\ h.adapter.calls = g.adapter.calls \o calls
  <2>1. /\ k \in Pair /\ k.ledger = g.ledger /\ k.adapter.clients = g.adapter.clients
        /\ k.adapter.calls = g.adapter.calls \o calls
    BY <1>11, IssueIs
  <2> HIDE DEF k
  <2>2. Restrict(time, rest) \in Sessions
    <3>1. rest \in SUBSET DOMAIN time OBVIOUS
    <3> QED BY <1>2, <3>1, RestrictType
  <2> DEFINE R == Restrict(time, rest)
             a == [k.adapter EXCEPT !.time = R]
  <2> HIDE DEF R
  <2>3. /\ a \in AdapterType /\ a.clients = k.adapter.clients /\ a.time = R
        /\ a.calls = k.adapter.calls
    BY <2>1, <2>2, PairFields DEF AdapterType, R
  <2>4. h = [k EXCEPT !.adapter = a]
    BY <1>1 DEF R
  <2> HIDE DEF a
  <2>5. h \in Pair /\ h.ledger = k.ledger /\ h.adapter = a
    BY <2>1, <2>3, <2>4, PairFields DEF Pair
  <2> QED BY <2>1, <2>3, <2>5 DEF R
<1>15. \A t \in Session : OwnerOf[t] # c => Due(h, t) = Due(g, t)
  <2>1. SUFFICES ASSUME NEW t \in Session, OwnerOf[t] # c
                 PROVE  Due(h, t) = Due(g, t)
    OBVIOUS
  <2>2. \A i \in 1..Len(calls) : ~(calls[i].id = t /\ Owes(calls[i]))
    BY <1>13, <2>1
  <2>3. Owed(g.adapter.calls \o calls, t) = Owed(g.adapter.calls, t)
    BY <1>2, <1>11, <2>2, OwedOthers
  <2> QED BY <1>14, <2>3 DEF Due
<1>16. /\ DOMAIN h.adapter.time = rest
       /\ \A t \in rest : h.adapter.time[t] = time[t] /\ t \in DOMAIN time
  <2>1. rest \in SUBSET DOMAIN time OBVIOUS
  <2> QED BY <1>2, <1>14, <2>1, RestrictType
<1> HIDE DEF rest
<1>17. CASE n = 0
  <2>1. \A i \in 1..Len(calls) : ~IsTime(calls[i])
    <3>1. \A i \in 1..Len(calls) : i \in n+1..Len(calls) BY <1>10, <1>17
    <3> QED BY <1>9, <1>12, <3>1
  <2>2. Keeps(g, h)
    BY <1>11, <1>14, <1>16, <2>1, FewerKeeps
  <2> QED BY <1>14, <1>15, <2>2 DEF h
<1>18. CASE n # 0
  <2>1. n \in 1..Len(calls) /\ n \in 1..n
    BY <1>10, <1>11, <1>18
  <2>2. /\ IsTime(calls[n])
        /\ \A t \in rest : calls[n].options.interval \in 1..time[t].interval
    BY <1>8, <1>12, <2>1 DEF n
  <2>3. \A i \in n+1..Len(calls) : ~IsTime(calls[i])
    BY <1>9, <1>12
  <2>4. Keeps(g, h)
    <3>1. SUFFICES ASSUME NEW v \in Nat, NEW t \in DOMAIN h.adapter.time
                   PROVE  Bound(h.adapter.calls, v, h.adapter.time[t].interval)
      BY DEF Keeps, Fast
    <3>2. t \in rest /\ h.adapter.time[t] = time[t] BY <1>16
    <3>3. calls[n].options.interval \in 1..h.adapter.time[t].interval
      BY <2>2, <3>2
    <3>4. Bound(g.adapter.calls \o calls, v, h.adapter.time[t].interval)
      BY <1>2, <1>11, <2>1, <2>2, <2>3, <3>3, BoundAfter
    <3> QED BY <1>14, <3>4
  <2> QED BY <1>14, <1>15, <2>4 DEF h
<1> QED BY <1>17, <1>18

-----------------------------------------------------------------------------
(* What each kind of step does to the accounts of the sessions.             *)
AskedOf(g, s) == [g EXCEPT !.ledger.asked[s] = @ + 1]

(* A command more is asked, nothing else changes.                           *)
LEMMA AskedIs ==
  ASSUME NEW g \in Pair, NEW s \in Session
  PROVE  LET k == AskedOf(g, s)
         IN  /\ k \in Pair /\ k.adapter = g.adapter
             /\ \A t \in Session :
                  /\ Due(k, t) = Due(g, t)
                  /\ k.ledger.answered[t] = g.ledger.answered[t]
                  /\ k.ledger.asked[t] =
                       g.ledger.asked[t] + (IF t = s THEN 1 ELSE 0)
<1> DEFINE f == [g.ledger.asked EXCEPT ![s] = @ + 1]
           l == [g.ledger EXCEPT !.asked = f]
           k == [g EXCEPT !.ledger = l]
<1>1. g.ledger.asked \in [Session -> Nat] /\ g.ledger \in LedgerType
  BY PairFields
<1>2. /\ f \in [Session -> Nat]
      /\ \A t \in Session : f[t] = g.ledger.asked[t] + (IF t = s THEN 1 ELSE 0)
  BY <1>1
<1> HIDE DEF f
<1>3. l \in LedgerType /\ l.asked = f /\ l.answered = g.ledger.answered
  BY <1>1, <1>2 DEF LedgerType
<1>4. AskedOf(g, s) = k
  BY DEF AskedOf, f
<1> HIDE DEF l
<1>5. k \in Pair /\ k.adapter = g.adapter /\ k.ledger = l
  BY <1>3, PairFields DEF Pair
<1> HIDE DEF k
<1> QED BY <1>2, <1>3, <1>4, <1>5 DEF Due

(* An account of the sessions whose client is there is one of all.          *)
LEMMA LedgerFrom ==
  ASSUME NEW h \in Pair, NEW pending \in Seq(PendingType), NEW failed,
         \A t \in Session :
           IF OwnerOf[t] \in h.adapter.clients
             THEN /\ Due(h, t) + Waiting(pending, t) <= h.ledger.asked[t]
                  /\ ~failed =>
                       Due(h, t) + Waiting(pending, t) = h.ledger.asked[t]
             ELSE h.ledger.answered[t] <= h.ledger.asked[t]
  PROVE  LedgerOf(h, pending, failed)
<1>1. SUFFICES ASSUME NEW t \in Session
               PROVE  h.ledger.answered[t] <= h.ledger.asked[t]
  BY DEF LedgerOf
<1>2. /\ Due(h, t) \in Nat /\ h.ledger.answered[t] \in Nat
      /\ h.ledger.answered[t] <= Due(h, t)
  BY DueNat
<1>3. Waiting(pending, t) \in Nat
  BY WaitingNat
<1>4. h.ledger.asked[t] \in Nat
  BY PairFields
<1> QED BY <1>2, <1>3, <1>4

(* A command is handled.                                                    *)
LEMMA LedgerCommand ==
  ASSUME NEW g \in Pair, NEW s \in Session, NEW h, Accounts(AskedOf(g, s), h, {s}),
         NEW pending \in Seq(PendingType), NEW failed, LedgerOf(g, pending, failed)
  PROVE  LedgerOf(h, pending, failed)
<1> DEFINE k == AskedOf(g, s)
<1>1. /\ k \in Pair /\ k.adapter = g.adapter
      /\ \A t \in Session :
           /\ Due(k, t) = Due(g, t)
           /\ k.ledger.answered[t] = g.ledger.answered[t]
           /\ k.ledger.asked[t] = g.ledger.asked[t] + (IF t = s THEN 1 ELSE 0)
  BY AskedIs
<1>2. /\ h \in Pair /\ h.adapter.clients = k.adapter.clients
      /\ h.ledger.asked = k.ledger.asked
      /\ \A t \in Session :
           /\ OwnerOf[t] \in k.adapter.clients =>
                Due(h, t) = Due(k, t) + (IF t \in {s} THEN 1 ELSE 0)
           /\ OwnerOf[t] \notin k.adapter.clients =>
                h.ledger.answered[t] = k.ledger.answered[t]
  BY DEF Accounts
<1> HIDE DEF k
<1>3. ASSUME NEW t \in Session
      PROVE  IF OwnerOf[t] \in h.adapter.clients
               THEN /\ Due(h, t) + Waiting(pending, t) <= h.ledger.asked[t]
                    /\ ~failed =>
                         Due(h, t) + Waiting(pending, t) = h.ledger.asked[t]
               ELSE h.ledger.answered[t] <= h.ledger.asked[t]
  <2>1. /\ Due(g, t) \in Nat /\ g.ledger.answered[t] \in Nat
        /\ Waiting(pending, t) \in Nat /\ g.ledger.asked[t] \in Nat
    BY DueNat, WaitingNat, PairFields
  <2>2. /\ g.ledger.answered[t] <= g.ledger.asked[t]
        /\ OwnerOf[t] \in g.adapter.clients =>
             /\ Due(g, t) + Waiting(pending, t) <= g.ledger.asked[t]
             /\ ~failed => Due(g, t) + Waiting(pending, t) = g.ledger.asked[t]
    BY DEF LedgerOf
  <2>3. h.ledger.asked[t] = g.ledger.asked[t] + (IF t = s THEN 1 ELSE 0)
    BY <1>1, <1>2
  <2>4. CASE OwnerOf[t] \in h.adapter.clients
    <3>1. OwnerOf[t] \in g.adapter.clients /\ OwnerOf[t] \in k.adapter.clients
      BY <1>1, <1>2, <2>4
    <3>2. Due(h, t) = Due(g, t) + (IF t = s THEN 1 ELSE 0)
      BY <1>1, <1>2, <3>1
    <3> QED BY <2>1, <2>2, <2>3, <2>4, <3>1, <3>2
  <2>5. CASE OwnerOf[t] \notin h.adapter.clients
    <3>1. h.ledger.answered[t] = g.ledger.answered[t]
      BY <1>1, <1>2, <2>5
    <3> QED BY <2>1, <2>2, <2>3, <2>5, <3>1
  <2> QED BY <2>4, <2>5
<1> QED BY <1>2, <1>3, LedgerFrom

(* A command waits for the engine.                                          *)
LEMMA LedgerDefer ==
  ASSUME NEW g \in Pair, NEW pending \in Seq(PendingType), NEW failed,
         LedgerOf(g, pending, failed), NEW m \in PendingType
  PROVE  LedgerOf(AskedOf(g, m.id), Append(pending, m), failed)
<1> DEFINE s == m.id
           k == AskedOf(g, s)
           new == Append(pending, m)
<1>1. s \in Session /\ new \in Seq(PendingType)
  BY DEF PendingType
<1>2. /\ k \in Pair /\ k.adapter = g.adapter
      /\ \A t \in Session :
           /\ Due(k, t) = Due(g, t)
           /\ k.ledger.answered[t] = g.ledger.answered[t]
           /\ k.ledger.asked[t] = g.ledger.asked[t] + (IF t = s THEN 1 ELSE 0)
  BY <1>1, AskedIs
<1>3. \A t \in Session :
        Waiting(new, t) = Waiting(pending, t) + (IF s = t THEN 1 ELSE 0)
  BY WaitingAppend
<1> HIDE DEF k, new, s
<1>4. ASSUME NEW t \in Session
      PROVE  IF OwnerOf[t] \in k.adapter.clients
               THEN /\ Due(k, t) + Waiting(new, t) <= k.ledger.asked[t]
                    /\ ~failed =>
                         Due(k, t) + Waiting(new, t) = k.ledger.asked[t]
               ELSE k.ledger.answered[t] <= k.ledger.asked[t]
  <2>1. /\ Due(g, t) \in Nat /\ g.ledger.answered[t] \in Nat
        /\ Waiting(pending, t) \in Nat /\ g.ledger.asked[t] \in Nat
    BY DueNat, WaitingNat, PairFields
  <2>2. /\ g.ledger.answered[t] <= g.ledger.asked[t]
        /\ OwnerOf[t] \in g.adapter.clients =>
             /\ Due(g, t) + Waiting(pending, t) <= g.ledger.asked[t]
             /\ ~failed => Due(g, t) + Waiting(pending, t) = g.ledger.asked[t]
    BY DEF LedgerOf
  <2> QED BY <1>2, <1>3, <2>1, <2>2
<1>5. LedgerOf(k, new, failed)
  BY <1>1, <1>2, <1>4, LedgerFrom
<1> QED BY <1>5 DEF k, new, s

(* A message that waited is handled.                                        *)
LEMMA LedgerPending ==
  ASSUME NEW g \in Pair, NEW pending \in Seq(PendingType), NEW failed,
         LedgerOf(g, pending, failed), pending # << >>, NEW h,
         Accounts(g, h, {Head(pending).id})
  PROVE  LedgerOf(h, Tail(pending), failed)
<1> DEFINE s == Head(pending).id
           left == Tail(pending)
<1>1. left \in Seq(PendingType)
  BY HeadTailProperties
<1>2. \A t \in Session :
        Waiting(pending, t) = Waiting(left, t) + (IF s = t THEN 1 ELSE 0)
  BY WaitingTail
<1>3. /\ h \in Pair /\ h.adapter.clients = g.adapter.clients
      /\ h.ledger.asked = g.ledger.asked
      /\ \A t \in Session :
           /\ OwnerOf[t] \in g.adapter.clients =>
                Due(h, t) = Due(g, t) + (IF t \in {s} THEN 1 ELSE 0)
           /\ OwnerOf[t] \notin g.adapter.clients =>
                h.ledger.answered[t] = g.ledger.answered[t]
  BY DEF Accounts
<1> HIDE DEF s, left
<1>4. ASSUME NEW t \in Session
      PROVE  IF OwnerOf[t] \in h.adapter.clients
               THEN /\ Due(h, t) + Waiting(left, t) <= h.ledger.asked[t]
                    /\ ~failed =>
                         Due(h, t) + Waiting(left, t) = h.ledger.asked[t]
               ELSE h.ledger.answered[t] <= h.ledger.asked[t]
  <2>1. /\ Due(g, t) \in Nat /\ g.ledger.answered[t] \in Nat
        /\ Waiting(left, t) \in Nat /\ g.ledger.asked[t] \in Nat
    BY <1>1, DueNat, WaitingNat, PairFields
  <2>2. /\ g.ledger.answered[t] <= g.ledger.asked[t]
        /\ OwnerOf[t] \in g.adapter.clients =>
             /\ Due(g, t) + Waiting(pending, t) <= g.ledger.asked[t]
             /\ ~failed => Due(g, t) + Waiting(pending, t) = g.ledger.asked[t]
    BY DEF LedgerOf
  <2>3. CASE OwnerOf[t] \in h.adapter.clients
    <3>1. Due(h, t) = Due(g, t) + (IF t = s THEN 1 ELSE 0)
      BY <1>3, <2>3
    <3> QED BY <1>2, <1>3, <2>1, <2>2, <2>3, <3>1
  <2>4. CASE OwnerOf[t] \notin h.adapter.clients
    BY <1>3, <2>1, <2>2, <2>4
  <2> QED BY <2>3, <2>4
<1>5. LedgerOf(h, left, failed)
  BY <1>1, <1>3, <1>4, LedgerFrom
<1> QED BY <1>5 DEF left

(* Calls for nobody.                                                        *)
LEMMA LedgerNobody ==
  ASSUME NEW g \in Pair, NEW pending \in Seq(PendingType), NEW failed,
         LedgerOf(g, pending, failed), NEW h, Accounts(g, h, {})
  PROVE  LedgerOf(h, pending, failed)
<1>1. /\ h \in Pair /\ h.adapter.clients = g.adapter.clients
      /\ h.ledger.asked = g.ledger.asked
      /\ \A t \in Session :
           /\ OwnerOf[t] \in g.adapter.clients =>
                Due(h, t) = Due(g, t) + (IF t \in {} THEN 1 ELSE 0)
           /\ OwnerOf[t] \notin g.adapter.clients =>
                h.ledger.answered[t] = g.ledger.answered[t]
  BY DEF Accounts
<1>2. ASSUME NEW t \in Session
      PROVE  IF OwnerOf[t] \in h.adapter.clients
               THEN /\ Due(h, t) + Waiting(pending, t) <= h.ledger.asked[t]
                    /\ ~failed =>
                         Due(h, t) + Waiting(pending, t) = h.ledger.asked[t]
               ELSE h.ledger.answered[t] <= h.ledger.asked[t]
  <2>1. Due(g, t) \in Nat
    BY DueNat
  <2> QED BY <1>1, <2>1 DEF LedgerOf
<1> QED BY <1>1, <1>2, LedgerFrom

(* A call is answered: either somebody is, or the call was for nobody, or   *)
(* it failed.                                                               *)
LEMMA LedgerAnswer ==
  ASSUME NEW g \in Pair, NEW pending \in Seq(PendingType), NEW failed \in BOOLEAN,
         LedgerOf(g, pending, failed), g.adapter.calls # << >>,
         NEW ok \in BOOLEAN, NEW h, NEW N,
         N = (IF /\ Owes(Head(g.adapter.calls))
                 /\ ok \/ Head(g.adapter.calls).then # "restart"
                THEN {Head(g.adapter.calls).id} ELSE {}),
         Accounts(Taken(g), h, N)
  PROVE  LedgerOf(h, pending, failed \/ ~ok)
<1> DEFINE c == Head(g.adapter.calls)
           k == Taken(g)
<1>1. /\ k \in Pair /\ k.ledger = g.ledger
      /\ k.adapter.clients = g.adapter.clients
      /\ \A t \in Session :
           Due(g, t) = Due(k, t) + (IF c.id = t /\ Owes(c) THEN 1 ELSE 0)
  BY TakenIs
<1>2. /\ h \in Pair /\ h.adapter.clients = k.adapter.clients
      /\ h.ledger.asked = k.ledger.asked
      /\ \A t \in Session :
           /\ OwnerOf[t] \in k.adapter.clients =>
                Due(h, t) = Due(k, t) + (IF t \in N THEN 1 ELSE 0)
           /\ OwnerOf[t] \notin k.adapter.clients =>
                h.ledger.answered[t] = k.ledger.answered[t]
  BY DEF Accounts
<1>3. N = IF Owes(c) /\ (ok \/ c.then # "restart") THEN {c.id} ELSE {}
  OBVIOUS
<1> HIDE DEF k, c
<1>4. ASSUME NEW t \in Session
      PROVE  IF OwnerOf[t] \in h.adapter.clients
               THEN /\ Due(h, t) + Waiting(pending, t) <= h.ledger.asked[t]
                    /\ ~(failed \/ ~ok) =>
                         Due(h, t) + Waiting(pending, t) = h.ledger.asked[t]
               ELSE h.ledger.answered[t] <= h.ledger.asked[t]
  <2>1. /\ Due(g, t) \in Nat /\ Due(k, t) \in Nat /\ g.ledger.answered[t] \in Nat
        /\ Waiting(pending, t) \in Nat /\ g.ledger.asked[t] \in Nat
    BY <1>1, DueNat, WaitingNat, PairFields
  <2>2. /\ g.ledger.answered[t] <= g.ledger.asked[t]
        /\ OwnerOf[t] \in g.adapter.clients =>
             /\ Due(g, t) + Waiting(pending, t) <= g.ledger.asked[t]
             /\ ~failed => Due(g, t) + Waiting(pending, t) = g.ledger.asked[t]
    BY DEF LedgerOf
  <2>3. CASE OwnerOf[t] \in h.adapter.clients
    <3>1. Due(h, t) = Due(k, t) + (IF t \in N THEN 1 ELSE 0)
      BY <1>2, <2>3
    <3>2. Due(g, t) = Due(k, t) + (IF c.id = t /\ Owes(c) THEN 1 ELSE 0)
      BY <1>1
    <3>3. /\ t \in N => c.id = t /\ Owes(c)
          /\ ok => (t \in N <=> c.id = t /\ Owes(c))
      BY <1>3
    <3>4. Due(h, t) <= Due(g, t) /\ (ok => Due(h, t) = Due(g, t)) /\ Due(h, t) \in Nat
      BY <2>1, <3>1, <3>2, <3>3
    <3>5. OwnerOf[t] \in g.adapter.clients /\ h.ledger.asked[t] = g.ledger.asked[t]
      BY <1>1, <1>2, <2>3
    <3> QED BY <2>1, <2>2, <2>3, <3>4, <3>5
  <2>4. CASE OwnerOf[t] \notin h.adapter.clients
    <3>1. /\ h.ledger.answered[t] = g.ledger.answered[t]
          /\ h.ledger.asked[t] = g.ledger.asked[t]
      BY <1>1, <1>2, <2>4
    <3> QED BY <2>2, <2>4, <3>1
  <2> QED BY <2>3, <2>4
<1> QED BY <1>2, <1>4, LedgerFrom

(* A client leaves.                                                         *)
LEMMA LedgerRemove ==
  ASSUME NEW g \in Pair, NEW pending \in Seq(PendingType), NEW failed,
         LedgerOf(g, pending, failed), NEW c, NEW h \in Pair, h.ledger = g.ledger,
         h.adapter.clients = g.adapter.clients \ {c},
         \A t \in Session : OwnerOf[t] # c => Due(h, t) = Due(g, t)
  PROVE  LedgerOf(h, pending, failed)
<1>1. ASSUME NEW t \in Session
      PROVE  IF OwnerOf[t] \in h.adapter.clients
               THEN /\ Due(h, t) + Waiting(pending, t) <= h.ledger.asked[t]
                    /\ ~failed =>
                         Due(h, t) + Waiting(pending, t) = h.ledger.asked[t]
               ELSE h.ledger.answered[t] <= h.ledger.asked[t]
  BY DEF LedgerOf
<1> QED BY <1>1, LedgerFrom

-----------------------------------------------------------------------------
(* The steps.                                                               *)
LEMMA BecomesIs ==
  ASSUME NEW h \in Pair, Becomes(h)
  PROVE  State' = h
BY DEF Becomes, State, Pair

(* The invariant holds after a step to a pair of which its parts hold.      *)
LEMMA StepTo ==
  ASSUME NEW h \in Pair, Becomes(h), OthersTyped',
         LedgerOf(h, engine'.pending, budget'.failed),
         modem'.up /\ budget'.intact => Fast(h.adapter, modem'.interval)
  PROVE  GnssIInv'
<1>1. State' = h /\ adapter' = h.adapter
  BY BecomesIs DEF Becomes
<1>2. LedgerInv'
  BY <1>1 DEF LedgerInv
<1>3. FastInv'
  BY <1>1 DEF FastInv
<1> QED BY <1>1, <1>2, <1>3 DEF GnssIInv

(* What the invariant says of the pair it is about.                         *)
LEMMA InvFields ==
  ASSUME GnssIInv
  PROVE  /\ State \in Pair /\ State.adapter = adapter /\ State.ledger = ledger
         /\ engine.pending \in Seq(PendingType) /\ engine.known \in BOOLEAN
         /\ modem.interval \in Nat
         /\ LedgerOf(State, engine.pending, budget.failed)
         /\ modem.up /\ budget.intact => Fast(State.adapter, modem.interval)
BY DEF GnssIInv, OthersTyped, State, LedgerInv, FastInv

(* A command takes from the budget.                                         *)
LEMMA CommandTyped ==
  ASSUME OthersTyped, Command, UNCHANGED <<engine, modem>>
  PROVE  /\ OthersTyped' /\ budget'.failed = budget.failed
         /\ budget'.intact = budget.intact
<1>1. budget' = [budget EXCEPT !.commands = @ + 1] /\ budget.commands < MaxCommands
  BY DEF Command
<1>2. budget.commands \in 0..MaxCommands
  BY DEF OthersTyped
<1>3. budget.commands + 1 \in 0..MaxCommands
  BY <1>1, <1>2, GnssAssumption
<1> QED BY <1>1, <1>3 DEF OthersTyped

(* A step of a client command or of its handler.                            *)
LEMMA CommandHandled ==
  ASSUME GnssIInv, Command, UNCHANGED <<engine, modem>>, NEW s \in Session, NEW h,
         Accounts(Asked(s), h, {s}), Keeps(Asked(s), h), Becomes(h)
  PROVE  GnssIInv'
<1>1. Asked(s) = AskedOf(State, s)
  BY DEF Asked, AskedOf
<1>2. /\ State \in Pair /\ engine.pending \in Seq(PendingType)
      /\ modem.interval \in Nat
      /\ LedgerOf(State, engine.pending, budget.failed)
      /\ modem.up /\ budget.intact => Fast(State.adapter, modem.interval)
  BY InvFields
<1>3. h \in Pair
  BY DEF Accounts
<1>4. LedgerOf(h, engine.pending, budget.failed)
  BY <1>1, <1>2, LedgerCommand
<1>5. Asked(s).adapter = State.adapter
  BY <1>1, <1>2, AskedIs
<1>6. modem.up /\ budget.intact => Fast(h.adapter, modem.interval)
  BY <1>2, <1>5 DEF Keeps
<1>7. /\ OthersTyped' /\ budget'.failed = budget.failed
      /\ budget'.intact = budget.intact
  BY CommandTyped DEF GnssIInv
<1>8. LedgerOf(h, engine'.pending, budget'.failed)
  BY <1>4, <1>7
<1>9. modem'.up /\ budget'.intact => Fast(h.adapter, modem'.interval)
  BY <1>6, <1>7
<1> QED BY <1>3, <1>7, <1>8, <1>9, StepTo

(* A command waits for the engine.                                          *)
LEMMA Deferred ==
  ASSUME GnssIInv, Command, NEW s \in Session, NEW o \in Options,
         NEW update \in BOOLEAN, Defer(s, o, update), UNCHANGED modem
  PROVE  GnssIInv'
<1> DEFINE m == [id |-> s, options |-> o, update |-> update]
           h == AskedOf(State, s)
           new == Append(engine.pending, m)
<1>1. /\ engine' = [engine EXCEPT !.pending = new] /\ Becomes(h)
  BY DEF Defer, Asked, AskedOf
<1>2. /\ State \in Pair /\ engine.pending \in Seq(PendingType)
      /\ modem.interval \in Nat
      /\ LedgerOf(State, engine.pending, budget.failed)
      /\ modem.up /\ budget.intact => Fast(State.adapter, modem.interval)
  BY InvFields
<1>3. m \in PendingType /\ m.id = s
  BY DEF PendingType
<1>4. LedgerOf(h, new, budget.failed)
  <2> HIDE DEF m
  <2> QED BY <1>2, <1>3, LedgerDefer
<1>5. new \in Seq(PendingType)
  BY <1>2, <1>3
<1>6. h \in Pair /\ h.adapter = State.adapter
  BY <1>2, AskedIs
<1> HIDE DEF m, new, h
<1>7. engine' \in [known : BOOLEAN, pending : Seq(PendingType)] /\ engine'.pending = new
  BY <1>1, <1>5 DEF GnssIInv, OthersTyped
<1>8. /\ budget' \in [commands : 0..MaxCommands, fails : 0..MaxFails,
                      resets : 0..MaxResets, failed : BOOLEAN, intact : BOOLEAN]
      /\ budget'.failed = budget.failed /\ budget'.intact = budget.intact
  <2>1. /\ budget \in [commands : 0..MaxCommands, fails : 0..MaxFails,
                       resets : 0..MaxResets, failed : BOOLEAN, intact : BOOLEAN]
        /\ budget.commands \in 0..MaxCommands
    BY DEF GnssIInv, OthersTyped
  <2>2. budget' = [budget EXCEPT !.commands = @ + 1] /\ budget.commands < MaxCommands
    BY DEF Command
  <2>3. budget.commands + 1 \in 0..MaxCommands
    BY <2>1, <2>2, GnssAssumption
  <2> QED BY <2>1, <2>2, <2>3
<1>9. OthersTyped'
  BY <1>7, <1>8 DEF OthersTyped, GnssIInv
<1>10. LedgerOf(h, engine'.pending, budget'.failed)
  BY <1>4, <1>7, <1>8
<1>11. modem'.up /\ budget'.intact => Fast(h.adapter, modem'.interval)
  BY <1>2, <1>6, <1>8
<1> QED BY <1>1, <1>6, <1>9, <1>10, <1>11, StepTo

(* The pair a handler is given.                                             *)
LEMMA AskedPair ==
  ASSUME GnssIInv, NEW s \in Session
  PROVE  Asked(s) \in Pair
<1>1. Asked(s) = AskedOf(State, s)
  BY DEF Asked, AskedOf
<1> QED BY <1>1, AskedIs DEF GnssIInv

(* Each action keeps the invariant.                                         *)
LEMMA StartStep ==
  ASSUME GnssIInv, NEW s \in Session, NEW o \in Options, StartTrackingCommand(s, o)
  PROVE  GnssIInv'
<1>1. CASE Waits(o)
  <2>1. Command /\ Defer(s, o, FALSE) /\ UNCHANGED modem
    BY <1>1 DEF StartTrackingCommand
  <2> QED BY <2>1, Deferred
<1>2. CASE ~Waits(o)
  <2> DEFINE h == MsgStartTracking(Asked(s), s, o)
  <2>1. Command /\ Becomes(h) /\ UNCHANGED <<engine, modem>>
    BY <1>2 DEF StartTrackingCommand
  <2>2. Accounts(Asked(s), h, {s}) /\ Keeps(Asked(s), h)
    BY AskedPair, StartHandled
  <2> HIDE DEF h
  <2> QED BY <2>1, <2>2, CommandHandled
<1> QED BY <1>1, <1>2

(* The options of a session are changed, or wait to be.                     *)
LEMMA UpdateStep ==
  ASSUME GnssIInv, NEW s \in Session, NEW o \in Options,
         UpdateTrackingOptionsCommand(s, o)
  PROVE  GnssIInv'
<1>1. CASE Waits(o)
  <2>1. Command /\ Defer(s, o, TRUE) /\ UNCHANGED modem
    BY <1>1 DEF UpdateTrackingOptionsCommand
  <2> QED BY <2>1, Deferred
<1>2. CASE ~Waits(o)
  <2> DEFINE h == MsgUpdateTracking(Asked(s), s, o)
  <2>1. Command /\ Becomes(h) /\ UNCHANGED <<engine, modem>>
    BY <1>2 DEF UpdateTrackingOptionsCommand
  <2>2. Accounts(Asked(s), h, {s}) /\ Keeps(Asked(s), h)
    BY AskedPair, UpdateHandled
  <2> HIDE DEF h
  <2> QED BY <2>1, <2>2, CommandHandled
<1> QED BY <1>1, <1>2

(* A session is stopped.                                                    *)
LEMMA StopStep ==
  ASSUME GnssIInv, NEW s \in Session, StopTrackingCommand(s)
  PROVE  GnssIInv'
<1> DEFINE h == MsgStopTracking(Asked(s), s)
<1>1. Command /\ Becomes(h) /\ UNCHANGED <<engine, modem>>
  BY DEF StopTrackingCommand
<1>2. Accounts(Asked(s), h, {s}) /\ Keeps(Asked(s), h)
  BY AskedPair, StopHandled
<1> HIDE DEF h
<1> QED BY <1>1, <1>2, CommandHandled

(* A client is removed with its sessions.                                   *)
LEMMA RemoveStep ==
  ASSUME GnssIInv, NEW c \in Client, RemoveClientCommand(c)
  PROVE  GnssIInv'
<1> DEFINE k == StopClientSessions(State, c)
           a == [k.adapter EXCEPT !.clients = @ \ {c}]
           h == [k EXCEPT !.adapter = a]
<1>1. Command /\ Becomes(h) /\ UNCHANGED <<engine, modem>>
  BY DEF RemoveClientCommand
<1>2. /\ State \in Pair /\ engine.pending \in Seq(PendingType)
      /\ modem.interval \in Nat
      /\ LedgerOf(State, engine.pending, budget.failed)
      /\ modem.up /\ budget.intact => Fast(State.adapter, modem.interval)
  BY InvFields
<1>3. /\ k \in Pair /\ k.ledger = State.ledger
      /\ k.adapter.clients = State.adapter.clients
      /\ \A t \in Session : OwnerOf[t] # c => Due(k, t) = Due(State, t)
      /\ Keeps(State, k)
  BY <1>2, ClientStopped
<1> HIDE DEF k
<1>4. /\ a \in AdapterType /\ a.clients = k.adapter.clients \ {c}
      /\ a.time = k.adapter.time /\ a.calls = k.adapter.calls
  <2>1. k.adapter \in AdapterType /\ k.adapter.clients \ {c} \in SUBSET Client
    BY <1>3, PairFields
  <2> QED BY <2>1 DEF AdapterType
<1> HIDE DEF a
<1>5. h \in Pair /\ h.ledger = k.ledger /\ h.adapter = a
  BY <1>3, <1>4, PairFields DEF Pair
<1> HIDE DEF h
<1>6. \A t \in Session : OwnerOf[t] # c => Due(h, t) = Due(State, t)
  BY <1>3, <1>4, <1>5 DEF Due
<1>7. LedgerOf(h, engine.pending, budget.failed)
  <2>1. h.ledger = State.ledger /\ h.adapter.clients = State.adapter.clients \ {c}
    BY <1>3, <1>4, <1>5
  <2> QED BY <1>2, <1>5, <1>6, <2>1, LedgerRemove
<1>8. modem.up /\ budget.intact => Fast(h.adapter, modem.interval)
  BY <1>2, <1>3, <1>4, <1>5 DEF Keeps, Fast
<1>9. /\ OthersTyped' /\ budget'.failed = budget.failed
      /\ budget'.intact = budget.intact
  BY <1>1, CommandTyped DEF GnssIInv
<1>10. LedgerOf(h, engine'.pending, budget'.failed)
  BY <1>1, <1>7, <1>9
<1>11. modem'.up /\ budget'.intact => Fast(h.adapter, modem'.interval)
  BY <1>1, <1>8, <1>9
<1> QED BY <1>1, <1>5, <1>9, <1>10, <1>11, StepTo

(* All sessions are suspended and started again.                            *)
LEMMA ConfigStep ==
  ASSUME GnssIInv, UpdateSvConfig
  PROVE  GnssIInv'
<1> DEFINE p == SuspendSessions(adapter)
           h == Issue(State, p \o RestartSessions(adapter))
<1>1. Command /\ Becomes(h) /\ UNCHANGED <<engine, modem>>
  BY DEF UpdateSvConfig
<1>2. /\ State \in Pair /\ engine.pending \in Seq(PendingType)
      /\ modem.interval \in Nat /\ State.adapter = adapter
      /\ LedgerOf(State, engine.pending, budget.failed)
  BY InvFields
<1>3. p \in Seq(WellMade) /\ \A i \in 1..Len(p) : ~Owes(p[i])
  BY SuspendIs
<1> HIDE DEF p
<1>4. Accounts(State, h, {}) /\ Fast(h.adapter, modem.interval)
  BY <1>2, <1>3, RestartHandled
<1> HIDE DEF h
<1>5. h \in Pair
  BY <1>4 DEF Accounts
<1>6. LedgerOf(h, engine.pending, budget.failed)
  BY <1>2, <1>4, LedgerNobody
<1>7. /\ OthersTyped' /\ budget'.failed = budget.failed
      /\ budget'.intact = budget.intact
  BY <1>1, CommandTyped DEF GnssIInv
<1>8. LedgerOf(h, engine'.pending, budget'.failed)
  BY <1>1, <1>6, <1>7
<1>9. modem'.up /\ budget'.intact => Fast(h.adapter, modem'.interval)
  BY <1>1, <1>4
<1> QED BY <1>1, <1>5, <1>7, <1>8, <1>9, StepTo

(* A message that waited is handled.                                        *)
LEMMA PendingStep ==
  ASSUME GnssIInv, PendingMsg
  PROVE  GnssIInv'
<1> DEFINE m == Head(engine.pending)
           h == IF m.update THEN MsgUpdateTracking(State, m.id, m.options)
                            ELSE MsgStartTracking(State, m.id, m.options)
<1>1. /\ engine.pending # << >> /\ Becomes(h)
      /\ engine' = [engine EXCEPT !.pending = Tail(@)]
      /\ UNCHANGED <<modem, budget>>
  BY DEF PendingMsg
<1>2. /\ State \in Pair /\ engine.pending \in Seq(PendingType)
      /\ modem.interval \in Nat
      /\ LedgerOf(State, engine.pending, budget.failed)
      /\ modem.up /\ budget.intact => Fast(State.adapter, modem.interval)
  BY InvFields
<1>3. m \in PendingType /\ Tail(engine.pending) \in Seq(PendingType)
  BY <1>1, <1>2, HeadTailProperties
<1>4. m.id \in Session /\ m.options \in Options
  <2> HIDE DEF m
  <2> QED BY <1>3 DEF PendingType
<1>5. Accounts(State, h, {m.id}) /\ Keeps(State, h)
  <2>1. CASE m.update
    <3>1. h = MsgUpdateTracking(State, m.id, m.options)
      BY <2>1
    <3> QED BY <1>2, <1>4, <3>1, UpdateHandled
  <2>2. CASE ~m.update
    <3>1. h = MsgStartTracking(State, m.id, m.options)
      BY <2>2
    <3> QED BY <1>2, <1>4, <3>1, StartHandled
  <2> QED BY <2>1, <2>2
<1> HIDE DEF h
<1>6. h \in Pair
  BY <1>5 DEF Accounts
<1>7. LedgerOf(h, Tail(engine.pending), budget.failed)
  BY <1>1, <1>2, <1>5, LedgerPending
<1>8. modem.up /\ budget.intact => Fast(h.adapter, modem.interval)
  BY <1>2, <1>5 DEF Keeps
<1>9. OthersTyped' /\ engine'.pending = Tail(engine.pending)
  BY <1>1, <1>3 DEF GnssIInv, OthersTyped
<1>10. LedgerOf(h, engine'.pending, budget'.failed)
  BY <1>1, <1>7, <1>9
<1>11. modem'.up /\ budget'.intact => Fast(h.adapter, modem'.interval)
  BY <1>1, <1>8
<1> QED BY <1>1, <1>6, <1>9, <1>10, <1>11, StepTo

(* What a call does to the modem, whose interval it sets if it is to.       *)
LEMMA ExecutedIs ==
  ASSUME NEW c \in WellMade,
         NEW m \in [up : BOOLEAN, interval : Nat, power : 0..5, dist : SUBSET Session]
  PROVE  /\ Executed(m, c) \in
              [up : BOOLEAN, interval : Nat, power : 0..5, dist : SUBSET Session]
         /\ Executed(m, c).up = m.up
         /\ Executed(m, c).interval =
              IF IsTime(c) THEN c.options.interval ELSE m.interval
<1>1. /\ c.op \in {"startTime", "stopFix", "startDist", "stopDist"}
      /\ c.options.interval \in Nat /\ c.options.power \in 0..5
      /\ c.op = "stopFix" => c.options.interval = 0
      /\ c.op \in {"startDist", "stopDist"} => c.id \in Session
  BY DEF WellMade, CallType
<1>2. CASE c.op = "startTime"
  <2>1. Executed(m, c) =
          [m EXCEPT !.interval = c.options.interval, !.power = c.options.power]
    BY <1>2 DEF Executed
  <2> QED BY <1>1, <1>2, <2>1 DEF IsTime
<1>3. CASE c.op = "stopFix"
  <2>1. Executed(m, c) = [m EXCEPT !.interval = 0, !.power = 0]
    BY <1>3 DEF Executed
  <2>2. IsTime(c) /\ c.options.interval = 0
    BY <1>1, <1>3 DEF IsTime
  <2>3. 0 \in Nat /\ 0 \in 0..5
    OBVIOUS
  <2> QED BY <2>1, <2>2, <2>3
<1>4. CASE c.op = "startDist"
  <2>1. Executed(m, c) = [m EXCEPT !.dist = @ \cup {c.id}]
    BY <1>4 DEF Executed
  <2> QED BY <1>1, <1>4, <2>1 DEF IsTime
<1>5. CASE c.op = "stopDist"
  <2>1. Executed(m, c) = [m EXCEPT !.dist = @ \ {c.id}]
    BY <1>5 DEF Executed
  <2> QED BY <1>1, <1>5, <2>1 DEF IsTime
<1> QED BY <1>1, <1>2, <1>3, <1>4, <1>5

(* The modem carries out or refuses the oldest call.                        *)
LEMMA AnswerStep ==
  ASSUME GnssIInv, NEW ok \in BOOLEAN, Answer(ok)
  PROVE  GnssIInv'
<1> DEFINE c == Head(State.adapter.calls)
           h == Responded(Taken(State), c, ok)
           N == IF Owes(c) /\ (ok \/ c.then # "restart") THEN {c.id} ELSE {}
<1>1. /\ State \in Pair /\ engine.pending \in Seq(PendingType)
      /\ modem.interval \in Nat /\ State.adapter = adapter
      /\ LedgerOf(State, engine.pending, budget.failed)
      /\ modem.up /\ budget.intact => Fast(State.adapter, modem.interval)
  BY InvFields
<1>2. /\ State.adapter.calls # << >> /\ Becomes(h)
      /\ modem' = (IF ok THEN Executed(modem, c) ELSE modem)
      /\ engine' = engine
  BY <1>1 DEF Answer, Taken
<1>3. /\ ok => budget' = budget
      /\ ~ok => /\ modem.up => budget.fails < MaxFails
                /\ budget' = [budget EXCEPT
                                !.fails = IF modem.up THEN @ + 1 ELSE @,
                                !.failed = TRUE, !.intact = FALSE]
  BY DEF Answer
<1>4. Taken(State) \in Pair /\ c \in WellMade
  BY <1>1, <1>2, TakenIs
<1>5. modem \in [up : BOOLEAN, interval : Nat, power : 0..5, dist : SUBSET Session]
  BY DEF GnssIInv, OthersTyped
<1>6. Accounts(Taken(State), h, N) /\ (ok => Keeps(Taken(State), h))
  <2> HIDE DEF c
  <2> QED BY <1>4, RespondedHandled
<1> HIDE DEF h
<1>7. h \in Pair
  BY <1>6 DEF Accounts
<1>8. LedgerOf(h, engine.pending, budget.failed \/ ~ok)
  <2>1. budget.failed \in BOOLEAN
    BY DEF GnssIInv, OthersTyped
  <2> QED BY <1>1, <1>2, <1>6, <2>1, LedgerAnswer
<1> HIDE DEF c, N
<1>9. /\ budget' \in [commands : 0..MaxCommands, fails : 0..MaxFails,
                      resets : 0..MaxResets, failed : BOOLEAN, intact : BOOLEAN]
      /\ budget'.failed = (budget.failed \/ ~ok)
      /\ budget'.intact = (budget.intact /\ ok)
  <2>1. /\ budget \in [commands : 0..MaxCommands, fails : 0..MaxFails,
                       resets : 0..MaxResets, failed : BOOLEAN, intact : BOOLEAN]
        /\ budget.fails \in 0..MaxFails /\ modem.up \in BOOLEAN
        /\ budget.failed \in BOOLEAN /\ budget.intact \in BOOLEAN
    BY DEF GnssIInv, OthersTyped
  <2>2. CASE ok
    BY <1>3, <2>1, <2>2
  <2>3. CASE ~ok
    <3>1. (IF modem.up THEN budget.fails + 1 ELSE budget.fails) \in 0..MaxFails
      BY <1>3, <2>1, <2>3, GnssAssumption
    <3> QED BY <1>3, <2>1, <2>3, <3>1
  <2> QED BY <2>2, <2>3
<1>10. /\ modem' \in [up : BOOLEAN, interval : Nat, power : 0..5, dist : SUBSET Session]
       /\ modem'.up = modem.up
       /\ ok => modem'.interval =
                  IF IsTime(c) THEN c.options.interval ELSE modem.interval
  <2>1. CASE ok
    <3>1. modem' = Executed(modem, c)
      BY <1>2, <2>1
    <3> QED BY <1>4, <1>5, <3>1, ExecutedIs
  <2>2. CASE ~ok
    BY <1>2, <1>5, <2>2
  <2> QED BY <2>1, <2>2
<1>11. OthersTyped'
  BY <1>2, <1>9, <1>10 DEF OthersTyped, GnssIInv
<1>12. LedgerOf(h, engine'.pending, budget'.failed)
  BY <1>2, <1>8, <1>9
<1>13. ASSUME modem'.up, budget'.intact
       PROVE  Fast(h.adapter, modem'.interval)
  <2>1. modem.up /\ budget.intact /\ ok
    BY <1>9, <1>10, <1>13
  <2> DEFINE v == IF IsTime(c) THEN c.options.interval ELSE modem.interval
  <2>2. Fast(Taken(State).adapter, v)
    BY <1>1, <1>2, <2>1, TakenKeeps DEF c
  <2>3. v \in Nat
    BY <1>1, <1>4 DEF WellMade, CallType
  <2>4. modem'.interval = v
    BY <1>10, <2>1
  <2> HIDE DEF v
  <2> QED BY <1>6, <2>1, <2>2, <2>3, <2>4 DEF Keeps
<1> QED BY <1>2, <1>7, <1>11, <1>12, <1>13, StepTo

(* The modem goes down with all it ran.                                     *)
LEMMA DownStep ==
  ASSUME GnssIInv, EngineDown
  PROVE  GnssIInv'
<1>1. /\ budget.resets < MaxResets
      /\ modem' = [up |-> FALSE, interval |-> 0, power |-> 0, dist |-> {}]
      /\ budget' = [budget EXCEPT !.resets = @ + 1]
      /\ UNCHANGED <<adapter, engine, ledger>>
  BY DEF EngineDown
<1>2. /\ State \in Pair /\ State.adapter = adapter /\ State.ledger = ledger
      /\ LedgerOf(State, engine.pending, budget.failed)
  BY InvFields
<1>3. OthersTyped' /\ budget'.failed = budget.failed
  <2>1. budget.resets \in 0..MaxResets
    BY DEF GnssIInv, OthersTyped
  <2>2. budget.resets + 1 \in 0..MaxResets
    BY <1>1, <2>1, GnssAssumption
  <2>3. /\ budget' \in [commands : 0..MaxCommands, fails : 0..MaxFails,
                        resets : 0..MaxResets, failed : BOOLEAN, intact : BOOLEAN]
        /\ budget'.failed = budget.failed
    BY <1>1, <2>2 DEF GnssIInv, OthersTyped
  <2>4. modem' \in [up : BOOLEAN, interval : Nat, power : 0..5, dist : SUBSET Session]
    BY <1>1
  <2> QED BY <1>1, <2>3, <2>4 DEF OthersTyped, GnssIInv
<1>4. Becomes(State)
  BY <1>1, <1>2 DEF Becomes
<1>5. LedgerOf(State, engine'.pending, budget'.failed)
  BY <1>1, <1>2, <1>3
<1>6. ~modem'.up
  BY <1>1
<1> QED BY <1>2, <1>3, <1>4, <1>5, <1>6, StepTo

(* It comes up, and the sessions are started again.                         *)
LEMMA EngineUpStep ==
  ASSUME GnssIInv, HandleEngineUpEvent
  PROVE  GnssIInv'
<1> DEFINE h == Issue(State, RestartSessions(adapter))
<1>1. /\ modem' = [modem EXCEPT !.up = TRUE]
      /\ engine' = [engine EXCEPT !.known = TRUE]
      /\ Becomes(h) /\ budget' = [budget EXCEPT !.intact = TRUE]
  BY DEF HandleEngineUpEvent
<1>2. /\ State \in Pair /\ engine.pending \in Seq(PendingType)
      /\ modem.interval \in Nat /\ State.adapter = adapter
      /\ LedgerOf(State, engine.pending, budget.failed)
  BY InvFields
<1>3. Accounts(State, h, {}) /\ Fast(h.adapter, modem.interval)
  <2>1. << >> \in Seq(WellMade) /\ \A i \in 1..Len(<< >>) : ~Owes(<< >>[i])
    OBVIOUS
  <2>2. RestartSessions(adapter) \in Seq(WellMade)
    <3>1. adapter \in AdapterType BY <1>2, PairFields
    <3> QED BY <3>1, RestartIs
  <2>3. << >> \o RestartSessions(adapter) = RestartSessions(adapter)
    BY <2>2, ConcatEmptySeq
  <2> QED BY <1>2, <2>1, <2>3, RestartHandled
<1> HIDE DEF h
<1>4. h \in Pair
  BY <1>3 DEF Accounts
<1>5. LedgerOf(h, engine.pending, budget.failed)
  BY <1>2, <1>3, LedgerNobody
<1>6. /\ OthersTyped' /\ engine'.pending = engine.pending
      /\ budget'.failed = budget.failed /\ modem'.interval = modem.interval
  BY <1>1 DEF OthersTyped, GnssIInv
<1>7. LedgerOf(h, engine'.pending, budget'.failed)
  BY <1>5, <1>6
<1>8. modem'.up /\ budget'.intact => Fast(h.adapter, modem'.interval)
  BY <1>3, <1>6
<1> QED BY <1>1, <1>4, <1>6, <1>7, <1>8, StepTo

(* At the start nothing is due and the modem is down.                       *)
LEMMA GnssInitial ==
  ASSUME GnssInit
  PROVE  GnssIInv
<1>1. /\ adapter = [clients |-> Client, time |-> NoSessions, dist |-> NoSessions,
                    calls |-> << >>]
      /\ engine = [known |-> FALSE, pending |-> << >>]
      /\ modem = [up |-> FALSE, interval |-> 0, power |-> 0, dist |-> {}]
      /\ ledger = [asked |-> [s \in Session |-> 0],
                   answered |-> [s \in Session |-> 0], stopped |-> {}]
      /\ budget = [commands |-> 0, fails |-> 0, resets |-> 0, failed |-> FALSE,
                   intact |-> TRUE]
  BY DEF GnssInit
<1>2. NoSessions \in Sessions
  <2>1. NoSessions \in [{} -> Options] /\ {} \in SUBSET Session
    BY DEF NoSessions
  <2> QED BY <2>1, IsSessions
<1>3. State \in Pair
  <2>1. adapter \in AdapterType
    BY <1>1, <1>2 DEF AdapterType
  <2>2. ledger \in LedgerType
    BY <1>1 DEF LedgerType
  <2> QED BY <2>1, <2>2 DEF State, Pair
<1>4. OthersTyped
  <2>1. /\ engine \in [known : BOOLEAN, pending : Seq(PendingType)]
        /\ modem \in [up : BOOLEAN, interval : Nat, power : 0..5, dist : SUBSET Session]
    BY <1>1
  <2>2. 0 \in 0..MaxCommands /\ 0 \in 0..MaxFails /\ 0 \in 0..MaxResets
    BY GnssAssumption
  <2> QED BY <1>1, <2>1, <2>2 DEF OthersTyped
<1>5. LedgerInv
  <2>1. ASSUME NEW t \in Session
        PROVE  IF OwnerOf[t] \in State.adapter.clients
                 THEN /\ Due(State, t) + Waiting(engine.pending, t)
                           <= State.ledger.asked[t]
                      /\ ~budget.failed =>
                           Due(State, t) + Waiting(engine.pending, t)
                             = State.ledger.asked[t]
                 ELSE State.ledger.answered[t] <= State.ledger.asked[t]
    <3>1. State.ledger.asked[t] = 0 /\ State.ledger.answered[t] = 0
      BY <1>1 DEF State
    <3>2. State.adapter.calls = << >> /\ State.adapter.calls \in Seq(WellMade)
      BY <1>1, <1>3, PairFields DEF State
    <3>3. Owed(State.adapter.calls, t) = 0
      BY <3>2, OwedNat
    <3>4. engine.pending = << >> /\ engine.pending \in Seq(PendingType)
      BY <1>1
    <3>5. Waiting(engine.pending, t) = 0
      BY <3>4, WaitingNat
    <3> QED BY <3>1, <3>3, <3>5 DEF Due
  <2>2. engine.pending \in Seq(PendingType)
    BY <1>1
  <2> QED BY <1>3, <2>1, <2>2, LedgerFrom DEF LedgerInv
<1>6. FastInv
  BY <1>1 DEF FastInv
<1> QED BY <1>3, <1>4, <1>5, <1>6 DEF GnssIInv

(* Every step keeps the invariant.                                          *)
LEMMA GnssStep ==
  ASSUME GnssIInv, [GnssNext]_gnssVars
  PROVE  GnssIInv'
<1>1. ASSUME NEW s \in Session, NEW o \in Options, StartTrackingCommand(s, o)
      PROVE  GnssIInv'
  BY <1>1, StartStep
<1>2. ASSUME NEW s \in Session, NEW o \in Options, UpdateTrackingOptionsCommand(s, o)
      PROVE  GnssIInv'
  BY <1>2, UpdateStep
<1>3. ASSUME NEW s \in Session, StopTrackingCommand(s)
      PROVE  GnssIInv'
  BY <1>3, StopStep
<1>4. ASSUME NEW c \in Client, RemoveClientCommand(c)
      PROVE  GnssIInv'
  BY <1>4, RemoveStep
<1>5. CASE UpdateSvConfig
  BY <1>5, ConfigStep
<1>6. CASE PendingMsg
  BY <1>6, PendingStep
<1>7. ASSUME NEW ok \in BOOLEAN, Answer(ok)
      PROVE  GnssIInv'
  BY <1>7, AnswerStep
<1>8. CASE EngineDown
  BY <1>8, DownStep
<1>9. CASE HandleEngineUpEvent
  BY <1>9, EngineUpStep
<1>10. CASE UNCHANGED gnssVars
  <2>1. /\ State \in Pair /\ State.adapter = adapter /\ State.ledger = ledger
        /\ LedgerOf(State, engine.pending, budget.failed)
        /\ modem.up /\ budget.intact => Fast(State.adapter, modem.interval)
    BY InvFields
  <2>2. OthersTyped'
    BY <1>10 DEF gnssVars, GnssIInv, OthersTyped
  <2>3. Becomes(State)
    BY <1>10, <2>1 DEF gnssVars, Becomes
  <2>4. engine' = engine /\ budget' = budget /\ modem' = modem
    BY <1>10 DEF gnssVars
  <2>5. LedgerOf(State, engine'.pending, budget'.failed)
    BY <2>1, <2>4
  <2>6. modem'.up /\ budget'.intact => Fast(State.adapter, modem'.interval)
    BY <2>1, <2>4
  <2> QED BY <2>1, <2>2, <2>3, <2>5, <2>6, StepTo
<1> QED BY <1>1, <1>2, <1>3, <1>4, <1>5, <1>6, <1>7, <1>8, <1>9, <1>10 DEF GnssNext

(* The inductive invariant holds throughout.                                *)
LEMMA GnssInductive == GnssSpec => []GnssIInv
<1>1. GnssInit => GnssIInv
  BY GnssInitial
<1>2. GnssIInv /\ [GnssNext]_gnssVars => GnssIInv'
  BY GnssStep
<1> QED BY <1>1, <1>2, PTL DEF GnssSpec

-----------------------------------------------------------------------------
(* The maps of the sessions, the calls that wait for their answer, the      *)
(* messages that wait for the engine and the modem are what GnssAdapter.cpp *)
(* and LocApi's callbacks make of them, whatever the commands, refusals and *)
(* restarts.                                                                *)
THEOREM GnssTypeCorrect == GnssSpec => []GnssTypeOK
<1>1. GnssIInv => GnssTypeOK
  <2>1. SUFFICES ASSUME GnssIInv PROVE GnssTypeOK
    OBVIOUS
  <2>2. State \in Pair /\ State.adapter = adapter /\ State.ledger = ledger
    BY <2>1, InvFields
  <2>3. adapter \in AdapterType /\ ledger \in LedgerType
    BY <2>2, PairFields
  <2>4. adapter \in [clients : SUBSET Client, time : Sessions, dist : Sessions,
                     calls : Seq(CallType)]
    <3>1. Seq(WellMade) \subseteq Seq(CallType)
      <4>1. WellMade \subseteq CallType BY DEF WellMade
      <4> QED BY <4>1, SeqMonotonic
    <3> QED BY <2>3, <3>1 DEF AdapterType
  <2>5. ledger \in [asked : [Session -> Nat], answered : [Session -> Nat],
                    stopped : SUBSET Session]
    BY <2>3 DEF LedgerType
  <2> QED BY <2>1, <2>4, <2>5 DEF GnssIInv, OthersTyped, PendingType, GnssTypeOK
<1> QED BY <1>1, GnssInductive, PTL

(* Once every call is answered and none failed since the engine came up,    *)
(* the modem fixes as often as each time based session asks for: what the   *)
(* comparisons of GnssAdapter::startTimeBasedTrackingMultiplex,              *)
(* updateTrackingMultiplex and stopTimeBasedTrackingMultiplex decide,       *)
(* without seeing what the modem runs, is enough after any commands.        *)
THEOREM GnssFastEnough == GnssSpec => []FastEnough
<1>1. GnssIInv => FastEnough
  <2>1. SUFFICES ASSUME GnssIInv, modem.up, adapter.calls = << >>, budget.intact,
                        NEW s \in DOMAIN adapter.time
                 PROVE  modem.interval \in 1..adapter.time[s].interval
    BY DEF FastEnough
  <2>2. Bound(adapter.calls, modem.interval, adapter.time[s].interval)
    BY <2>1 DEF GnssIInv, FastInv, Fast
  <2>3. 0 \in 0..Len(adapter.calls) /\ Len(adapter.calls) = 0
    BY <2>1
  <2>4. /\ 0 > 0 => IsTime(adapter.calls[0])
        /\ \A j \in 0+1..Len(adapter.calls) : ~IsTime(adapter.calls[j])
    BY <2>3
  <2> QED BY <2>2, <2>3, <2>4 DEF Bound
<1> QED BY <1>1, GnssInductive, PTL

(* No command of a session is answered twice, and each is answered in the   *)
(* end, unless a call failed or its client left, whether its handler        *)
(* answers it (reportResponse), or one of the LocApiResponse callbacks of   *)
(* the calls it, or a handler it set up, made.                              *)
THEOREM GnssAnsweredOnce == GnssSpec => []AnsweredOnce
<1>1. GnssIInv => AnsweredOnce
  <2>1. SUFFICES ASSUME GnssIInv PROVE AnsweredOnce
    OBVIOUS
  <2>2. /\ State \in Pair /\ State.adapter = adapter /\ State.ledger = ledger
        /\ LedgerOf(State, engine.pending, budget.failed)
        /\ engine.pending \in Seq(PendingType)
    BY <2>1, InvFields
  <2>3. \A s \in Session : ledger.answered[s] <= ledger.asked[s]
    BY <2>2 DEF LedgerOf
  <2>4. ASSUME adapter.calls = << >>, engine.pending = << >>, ~budget.failed,
               NEW s \in Session, OwnerOf[s] \in adapter.clients
        PROVE  ledger.answered[s] = ledger.asked[s]
    <3>1. Due(State, s) + Waiting(engine.pending, s) = ledger.asked[s]
      BY <2>2, <2>4 DEF LedgerOf
    <3>2. Waiting(engine.pending, s) = 0
      BY <2>2, <2>4, WaitingNat
    <3>3. State.adapter.calls \in Seq(WellMade)
      BY <2>2, PairFields
    <3>4. Owed(State.adapter.calls, s) = 0
      BY <2>2, <2>4, <3>3, OwedNat
    <3>5. ledger.answered[s] \in Nat
      BY <2>2, DueNat
    <3> QED BY <2>2, <3>1, <3>2, <3>4, <3>5 DEF Due
  <2> QED BY <2>3, <2>4 DEF AnsweredOnce
<1> QED BY <1>1, GnssInductive, PTL
=============================================================================
