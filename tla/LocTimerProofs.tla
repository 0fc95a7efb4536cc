--------------------------- MODULE LocTimerProofs ---------------------------
(***************************************************************************)
(* Proofs about LocTimer, for any timers, delays and bounds.               *)
(*                                                                         *)
(* What keeps a delegate from being used after it was deleted is the order *)
(* of the messages about it: the one that deletes it is the last, because   *)
(* it is sent by whoever parts the delegate from its timer, and only one    *)
(* can.  What keeps the kernel informed is that every step which disarms    *)
(* the fd or takes it off the epoll set has an expire message to come.      *)
(***************************************************************************)
EXTENDS LocTimer, Integers, TLAPS

(* A timer runs one delegate, which knows it; stop() parts them at once.   *)
Ownership ==
  /\ \A t \in Timer : timer[t] \in 0..started
  /\ \A t \in Timer, d \in Delegate : client[d] = t <=> timer[t] = d
  /\ \A t \in Timer : timer[t] # 0 => t \in alive

(* The message that deletes a delegate is the last one about it, and it is  *)
(* there from the moment the delegate has no timer until it is deleted.     *)
Messages ==
  /\ \A i \in 1..Len(msgs) : msgs[i].op # "expire" =>
       msgs[i].timer <= started /\ msgs[i].timer \notin deleted
  /\ \A i \in 1..Len(msgs) : msgs[i].op = "remove" => client[msgs[i].timer] = None
  /\ \A i, j \in 1..Len(msgs) :
       msgs[i].op = "remove" /\ msgs[j].op # "expire" /\ msgs[j].timer = msgs[i].timer
         => j <= i
  /\ \A d \in 1..started : client[d] = None /\ d \notin deleted =>
       \E i \in 1..Len(msgs) : msgs[i].op = "remove" /\ msgs[i].timer = d

(* The heap and the expiration under way have delegates that live.          *)
Lives ==
  /\ heap \subseteq 1..started /\ heap \cap deleted = {}
  /\ deleted \subseteq 1..started
  /\ \A d \in deleted : client[d] = None
  /\ task = "expire" => cur \notin deleted
  /\ task = "stop" => who \in Timer
  /\ \A d \in 1..started : due[d] # 0

HeapOrdered ==
  /\ top = 0 <=> heap = {}
  /\ heap # {} => top \in Soonest(heap)

(* Between two messages the kernel knows the soonest timer, will be told,   *)
(* or an expire message is on its way.                                     *)
Watched ==
  /\ task = "settime" => heap # {}
  /\ task \in {"idle", "settime"} /\ heap # {} /\ poll = "wait" =>
       \/ polled /\ (task = "settime" \/ (armed # 0 /\ armed <= due[top]))
       \/ \E i \in 1..Len(msgs) : msgs[i].op = "expire"

IInv == TypeOK /\ Ownership /\ Messages /\ Lives /\ HeapOrdered /\ Watched

-----------------------------------------------------------------------------
(* What is sent and taken: sequences of messages.                          *)
LEMMA SendFacts ==
  ASSUME NEW q \in Seq(TimerMsg), NEW m \in TimerMsg
  PROVE  /\ Append(q, m) \in Seq(TimerMsg)
         /\ Len(Append(q, m)) = Len(q) + 1
         /\ \A i \in 1..Len(q) : Append(q, m)[i] = q[i]
         /\ Append(q, m)[Len(q) + 1] = m
OBVIOUS

LEMMA TakeFacts ==
  ASSUME NEW q \in Seq(TimerMsg), q # << >>
  PROVE  /\ Tail(q) \in Seq(TimerMsg)
         /\ Head(q) = q[1] /\ 1 \in 1..Len(q)
         /\ Len(Tail(q)) = Len(q) - 1
         /\ \A i \in 1..Len(Tail(q)) : i + 1 \in 1..Len(q) /\ Tail(q)[i] = q[i + 1]
OBVIOUS

LEMMA TakeShifts ==
  ASSUME NEW q \in Seq(TimerMsg), q # << >>
  PROVE  \A i \in 1..Len(q) : i # 1 => i - 1 \in 1..Len(Tail(q)) /\ Tail(q)[i - 1] = q[i]
<1> SUFFICES ASSUME NEW i \in 1..Len(q), i # 1
             PROVE  i - 1 \in 1..Len(Tail(q)) /\ Tail(q)[i - 1] = q[i]
  OBVIOUS
<1>1. i - 1 \in 1..Len(Tail(q)) /\ (i - 1) + 1 = i
  BY TakeFacts
<1> QED
  BY <1>1, TakeFacts

LEMMA MsgFacts ==
  /\ \A m \in TimerMsg : m.op \in {"push", "remove", "expire"}
                         /\ (m.op # "expire" => m.timer \in Delegate)
  /\ \A d \in Delegate : /\ [op |-> "push", timer |-> d] \in TimerMsg
                         /\ [op |-> "remove", timer |-> d] \in TimerMsg
  /\ [op |-> "expire"] \in TimerMsg
  /\ \A d \in Delegate, m \in TimerMsg :
       m.op = "remove" /\ m.timer = d <=> m = [op |-> "remove", timer |-> d]
  /\ \A d \in Delegate, m \in TimerMsg :
       m.op = "push" /\ m.timer = d <=> m = [op |-> "push", timer |-> d]
BY DEF TimerMsg

LEMMA InitIInv == Init => IInv
<1> SUFFICES ASSUME Init PROVE IInv
  OBVIOUS
<1>1. msgs \in Seq(TimerMsg) /\ Len(msgs) = 0
  BY DEF Init
<1>2. /\ now \in 1..MaxTime /\ started \in 0..MaxStarts /\ top \in 0..MaxStarts
      /\ armed \in 0..MaxTime /\ cur \in 0..MaxStarts /\ asOf \in 0..MaxTime
      /\ 0 \in 0..MaxTime /\ 0 \in 0..MaxStarts
  BY LocTimerAssumption DEF Init
<1>3. /\ timer \in [Timer -> 0..MaxStarts] /\ due \in [Delegate -> 0..MaxTime]
      /\ client \in [Delegate -> Timer \cup {None}]
  BY <1>2 DEF Init
<1>4. TypeOK
  BY <1>1, <1>2, <1>3 DEF Init, TypeOK
<1>5. Ownership
  BY <1>2, LocTimerAssumption DEF Init, Ownership, Delegate
<1>6. Lives /\ HeapOrdered /\ Watched
  BY <1>1, LocTimerAssumption DEF Init, Lives, HeapOrdered, Watched
<1>7. Messages
  BY <1>1 DEF Init, Messages
<1> QED
  BY <1>4, <1>5, <1>6, <1>7 DEF IInv

-----------------------------------------------------------------------------
(* Sequences and the heap under the operators the actions are made of.      *)

(* Parting a delegate from its timer sends the last message about it.       *)
LEMMA StopLockedKeeps ==
  ASSUME IInv, NEW t \in Timer, timer[t] # 0, StopLocked(t),
         UNCHANGED <<started, deleted>>
  PROVE  /\ timer' \in [Timer -> 0..MaxStarts]
         /\ client' \in [Delegate -> Timer \cup {None}]
         /\ msgs' \in Seq(TimerMsg)
         /\ Messages'
         /\ \A u \in Timer : timer'[u] \in 0..started
         /\ \A u \in Timer, d \in Delegate : client'[d] = u <=> timer'[u] = d
         /\ \A u \in Timer : timer'[u] # 0 => timer[u] # 0 /\ u # t
         /\ \A d \in deleted : client'[d] = None
         /\ \A i \in 1..Len(msgs) : i \in 1..Len(msgs)' /\ msgs'[i] = msgs[i]
<1> DEFINE d == timer[t]
           m == [op |-> "remove", timer |-> d]
<1>1. /\ d \in 1..started /\ d \in Delegate /\ client[d] = t /\ t # None
      /\ started \in Nat
  BY LocTimerAssumption DEF IInv, TypeOK, Ownership, Delegate
<1>2. d \notin deleted
  BY <1>1 DEF IInv, Lives
<1>3. \A i \in 1..Len(msgs) : msgs[i].op = "remove" => msgs[i].timer # d
  BY <1>1 DEF IInv, Messages
<1>4. timer' = [timer EXCEPT ![t] = 0] /\ client' = [client EXCEPT ![d] = None]
      /\ msgs' = Append(msgs, m)
  BY DEF StopLocked, Send
<1>5. m \in TimerMsg /\ m.op = "remove" /\ m.timer = d /\ msgs \in Seq(TimerMsg)
  BY <1>1, MsgFacts DEF IInv, TypeOK
<1>6. /\ msgs' \in Seq(TimerMsg) /\ Len(msgs') = Len(msgs) + 1 /\ Len(msgs) \in Nat
      /\ \A i \in 1..Len(msgs) : i \in 1..Len(msgs') /\ msgs'[i] = msgs[i]
      /\ msgs'[Len(msgs) + 1] = m
  BY <1>4, <1>5, SendFacts
<1>7. /\ timer' \in [Timer -> 0..MaxStarts]
      /\ client' \in [Delegate -> Timer \cup {None}]
  <2>1. 0 \in 0..MaxStarts
    BY LocTimerAssumption
  <2>2. timer \in [Timer -> 0..MaxStarts] /\ client \in [Delegate -> Timer \cup {None}]
    BY DEF IInv, TypeOK
  <2> QED
    BY <2>1, <2>2, <1>4
<1>8. \A u \in Timer, e \in Delegate : client'[e] = u <=> timer'[u] = e
  BY <1>1, <1>4, LocTimerAssumption DEF IInv, TypeOK, Ownership, Delegate
<1>9. /\ \A u \in Timer : timer'[u] \in 0..started
      /\ \A u \in Timer : timer'[u] # 0 => timer[u] # 0 /\ u # t
      /\ \A e \in deleted : client'[e] = None
  BY <1>1, <1>4 DEF IInv, TypeOK, Ownership, Lives
<1>10. Messages'
  <2> HIDE DEF d, m
  <2> USE DEF IInv, Messages
  <2>1. \A i \in 1..Len(msgs') : i \in 1..Len(msgs) \/ i = Len(msgs) + 1
    BY <1>6
  <2>2. \A i \in 1..Len(msgs') : msgs'[i].op # "expire" =>
          msgs'[i].timer <= started /\ msgs'[i].timer \notin deleted
    BY <2>1, <1>1, <1>2, <1>5, <1>6
  <2>3. \A i \in 1..Len(msgs') : msgs'[i].op = "remove" => client'[msgs'[i].timer] = None
    <3> SUFFICES ASSUME NEW i \in 1..Len(msgs'), msgs'[i].op = "remove"
                 PROVE  client'[msgs'[i].timer] = None
      OBVIOUS
    <3>1. CASE i = Len(msgs) + 1
      BY <3>1, <1>1, <1>4, <1>5, <1>6 DEF TypeOK
    <3>2. CASE i \in 1..Len(msgs)
      <4>1. msgs'[i] = msgs[i] /\ msgs[i] \in TimerMsg /\ msgs[i].op = "remove"
        BY <3>2, <1>5, <1>6
      <4>2. msgs[i].timer \in Delegate /\ client[msgs[i].timer] = None
        BY <3>2, <4>1, MsgFacts
      <4> QED
        BY <4>1, <4>2, <1>4 DEF TypeOK
    <3> QED
      BY <2>1, <3>1, <3>2
  <2>4. \A i, j \in 1..Len(msgs') :
          msgs'[i].op = "remove" /\ msgs'[j].op # "expire"
            /\ msgs'[j].timer = msgs'[i].timer => j <= i
    BY <2>1, <1>3, <1>5, <1>6
  <2>5. \A e \in 1..started : client'[e] = None /\ e \notin deleted =>
          \E i \in 1..Len(msgs') : msgs'[i].op = "remove" /\ msgs'[i].timer = e
    <3> SUFFICES ASSUME NEW e \in 1..started, client'[e] = None, e \notin deleted
                 PROVE  \E i \in 1..Len(msgs') : msgs'[i].op = "remove" /\ msgs'[i].timer = e
      OBVIOUS
    <3>1. CASE e = d
      <4>1. Len(msgs) + 1 \in 1..Len(msgs')
        BY <1>6
      <4> QED
        BY <3>1, <4>1, <1>5, <1>6
    <3>2. CASE e # d
      <4>1. client[e] = None
        BY <3>2, <1>4, <1>1 DEF TypeOK, Delegate
      <4> QED
        BY <4>1, <1>6
    <3> QED
      BY <3>1, <3>2
  <2> QED
    BY <2>2, <2>3, <2>4, <2>5
<1> QED
  BY <1>6, <1>7, <1>8, <1>9, <1>10

(* Taking a message that deletes nothing, and sending an expire message.    *)
LEMMA TakeKeeps ==
  ASSUME IInv, msgs # << >>, msgs' = Tail(msgs), Head(msgs).op # "remove",
         UNCHANGED <<started, client, deleted>>
  PROVE  msgs' \in Seq(TimerMsg) /\ Messages'
<1>1. msgs \in Seq(TimerMsg)
  BY DEF IInv, TypeOK
<1>2. /\ msgs' \in Seq(TimerMsg) /\ Len(msgs') = Len(msgs) - 1
      /\ Head(msgs) = msgs[1] /\ 1 \in 1..Len(msgs) /\ Len(msgs) \in Nat
      /\ \A i \in 1..Len(msgs') : i + 1 \in 1..Len(msgs) /\ msgs'[i] = msgs[i + 1]
  BY <1>1, TakeFacts
<1>3. \A i \in 1..Len(msgs) : i # 1 => i - 1 \in 1..Len(msgs') /\ msgs'[i - 1] = msgs[i]
  BY <1>1, TakeShifts
<1>4. \A i, j \in 1..Len(msgs') :
        msgs'[i].op = "remove" /\ msgs'[j].op # "expire"
          /\ msgs'[j].timer = msgs'[i].timer => j <= i
  <2> TAKE i, j \in 1..Len(msgs')
  <2>1. i + 1 \in 1..Len(msgs) /\ j + 1 \in 1..Len(msgs) /\ i \in Int /\ j \in Int
    BY <1>2
  <2> QED
    BY <2>1, <1>2 DEF IInv, Messages
<1>5. \A d \in 1..started : client[d] = None /\ d \notin deleted =>
        \E i \in 1..Len(msgs') : msgs'[i].op = "remove" /\ msgs'[i].timer = d
  <2> SUFFICES ASSUME NEW d \in 1..started, client[d] = None, d \notin deleted
               PROVE  \E i \in 1..Len(msgs') : msgs'[i].op = "remove" /\ msgs'[i].timer = d
    OBVIOUS
  <2>1. PICK i \in 1..Len(msgs) : msgs[i].op = "remove" /\ msgs[i].timer = d
    BY DEF IInv, Messages
  <2>2. i # 1
    BY <2>1, <1>2
  <2> QED
    BY <2>1, <2>2, <1>3
<1>6. \A i \in 1..Len(msgs') : \E j \in 1..Len(msgs) : msgs'[i] = msgs[j]
  BY <1>2
<1> QED
  BY <1>2, <1>4, <1>5, <1>6 DEF IInv, Messages

LEMMA ExpireSent ==
  ASSUME IInv, Send(msgs, [op |-> "expire"]), UNCHANGED <<started, client, deleted>>
  PROVE  /\ msgs' \in Seq(TimerMsg) /\ Messages'
         /\ \E i \in 1..Len(msgs') : msgs'[i].op = "expire"
<1>1. msgs \in Seq(TimerMsg) /\ Len(msgs) \in Nat
  BY DEF IInv, TypeOK
<1> DEFINE m == [op |-> "expire"]
<1>2. m \in TimerMsg /\ m.op = "expire"
  BY MsgFacts
<1> HIDE DEF m
<1>3. /\ msgs' \in Seq(TimerMsg) /\ Len(msgs') = Len(msgs) + 1
      /\ \A i \in 1..Len(msgs) : i \in 1..Len(msgs') /\ msgs'[i] = msgs[i]
      /\ msgs'[Len(msgs) + 1] = m /\ Len(msgs) + 1 \in 1..Len(msgs')
      /\ \A i \in 1..Len(msgs') : i \in 1..Len(msgs) \/ i = Len(msgs) + 1
  BY <1>1, <1>2, SendFacts DEF Send, m
<1> QED
  BY <1>2, <1>3 DEF IInv, Messages

(* Removal keeps the heap's order, whichever of the soonest comes up.       *)
LEMMA HeapRemoveKeeps ==
  ASSUME IInv, NEW d \in heap, HeapRemove(d), UNCHANGED <<due, started>>
  PROVE  /\ heap' = heap \ {d} /\ top' \in 0..MaxStarts /\ HeapOrdered'
         /\ d # top => top' = top
<1> USE DEF IInv, TypeOK, HeapOrdered, Lives, Soonest, HeapRemove, Delegate
<1>1. heap' = heap \ {d} /\ heap' \subseteq 1..MaxStarts /\ 0 \in 0..MaxStarts
  BY LocTimerAssumption
<1>2. CASE d # top
  BY <1>1, <1>2
<1>3. CASE d = top /\ heap' = {}
  BY <1>1, <1>3
<1>4. CASE d = top /\ heap' # {}
  <2>1. top' \in Soonest(heap')
    BY <1>4
  <2>2. top' \in heap' /\ top' # 0
    BY <1>1, <2>1
  <2> QED
    BY <1>1, <1>4, <2>1, <2>2
<1> QED
  BY <1>2, <1>3, <1>4

-----------------------------------------------------------------------------
(* Each action keeps the invariant: the clients.                            *)

LEMMA StartKeeps ==
  ASSUME IInv, NEW t \in Timer, Start(t)
  PROVE  IInv'
<1> DEFINE d == started + 1
           m == [op |-> "push", timer |-> d]
<1>1. PICK delay \in Delays : /\ now + delay <= MaxTime
                              /\ due' = [due EXCEPT ![d] = now + delay]
  BY DEF Start
<1>2. /\ t \in alive /\ timer[t] = 0 /\ started' = d
      /\ client' = [client EXCEPT ![d] = t] /\ timer' = [timer EXCEPT ![t] = d]
      /\ msgs' = Append(msgs, m)
      /\ UNCHANGED <<now, alive, heap, top, deleted, armed, polled, poll, task, cur, who, asOf>>
  BY DEF Start, Send, heapVars, taskVars
<1>3. /\ d \in 1..MaxStarts /\ d \in Delegate /\ d \notin 1..started /\ d # 0
      /\ started \in Nat /\ t # None /\ now + delay \in 1..MaxTime
  BY <1>1, LocTimerAssumption DEF IInv, TypeOK, Start, Delegate
<1>4. m \in TimerMsg /\ m.op = "push" /\ m.timer = d /\ msgs \in Seq(TimerMsg)
  BY <1>3, MsgFacts DEF IInv, TypeOK
<1>5. /\ msgs' \in Seq(TimerMsg) /\ Len(msgs') = Len(msgs) + 1 /\ Len(msgs) \in Nat
      /\ \A i \in 1..Len(msgs) : i \in 1..Len(msgs') /\ msgs'[i] = msgs[i]
      /\ msgs'[Len(msgs) + 1] = m
      /\ \A i \in 1..Len(msgs') : i \in 1..Len(msgs) \/ i = Len(msgs) + 1
  BY <1>2, <1>4, SendFacts
<1> HIDE DEF d, m
<1>6. /\ \A u \in Timer : timer[u] # d
      /\ \A e \in Delegate : e # d => client'[e] = client[e] /\ due'[e] = due[e]
      /\ client'[d] = t /\ due'[d] = now + delay
      /\ \A u \in Timer : u # t => timer'[u] = timer[u]
      /\ timer'[t] = d
  BY <1>1, <1>2, <1>3 DEF IInv, TypeOK, Ownership
<1>7. \A i \in 1..Len(msgs) : msgs[i].op # "expire" => /\ msgs[i].timer \in 1..started
                                                       /\ msgs[i].timer # d
                                                       /\ msgs[i].timer \in Delegate
  BY <1>3, <1>4, MsgFacts DEF IInv, Messages, Delegate
<1>8. /\ heap \subseteq 1..started /\ deleted \subseteq 1..started
      /\ 1..started \subseteq Delegate /\ 1..d = 1..started \cup {d}
      /\ d \notin heap /\ d \notin deleted
  <2>1. heap \subseteq 1..started /\ deleted \subseteq 1..started /\ started \in 0..MaxStarts
    BY DEF IInv, Lives, TypeOK
  <2>2. 1..started \subseteq Delegate /\ 1..d = 1..started \cup {d}
    BY <1>3, <2>1, LocTimerAssumption DEF d, Delegate
  <2> QED
    BY <1>3, <2>1, <2>2
<1>9. TypeOK'
  <2>1. /\ timer' \in [Timer -> 0..MaxStarts] /\ client' \in [Delegate -> Timer \cup {None}]
        /\ due' \in [Delegate -> 0..MaxTime] /\ started' \in 0..MaxStarts
    BY <1>1, <1>2, <1>3 DEF IInv, TypeOK
  <2> QED
    BY <2>1, <1>2, <1>5 DEF IInv, TypeOK
<1>10. Ownership'
  <2>1. \A u \in Timer : timer'[u] \in 0..started'
    BY <1>2, <1>3, <1>6 DEF IInv, Ownership, d
  <2>2. \A u \in Timer, e \in Delegate : client'[e] = u <=> timer'[u] = e
    <3> SUFFICES ASSUME NEW u \in Timer, NEW e \in Delegate
                 PROVE  client'[e] = u <=> timer'[u] = e
      OBVIOUS
    <3>1. CASE e = d
      BY <3>1, <1>6
    <3>2. CASE e # d
      <4>1. (client[e] = u <=> timer[u] = e) /\ client'[e] = client[e] /\ e # 0
        BY <3>2, <1>6 DEF IInv, Ownership, Delegate
      <4> QED
        BY <3>2, <4>1, <1>2, <1>6
    <3> QED
      BY <3>1, <3>2
  <2>3. \A u \in Timer : timer'[u] # 0 => u \in alive'
    BY <1>2, <1>6 DEF IInv, Ownership
  <2> QED
    BY <2>1, <2>2, <2>3 DEF Ownership
<1>11. Messages'
  <2>1. \A i \in 1..Len(msgs') : msgs'[i].op # "expire" =>
          msgs'[i].timer <= started' /\ msgs'[i].timer \notin deleted'
    <3> SUFFICES ASSUME NEW i \in 1..Len(msgs'), msgs'[i].op # "expire"
                 PROVE  msgs'[i].timer \in 1..d /\ msgs'[i].timer \notin deleted
      BY <1>2, <1>3 DEF d
    <3> QED
      BY <1>3, <1>4, <1>5, <1>7, <1>8 DEF IInv, Messages
  <2>2. \A i \in 1..Len(msgs') : msgs'[i].op = "remove" => client'[msgs'[i].timer] = None
    BY <1>4, <1>5, <1>6, <1>7 DEF IInv, Messages
  <2>3. \A i, j \in 1..Len(msgs') :
          msgs'[i].op = "remove" /\ msgs'[j].op # "expire"
            /\ msgs'[j].timer = msgs'[i].timer => j <= i
    BY <1>4, <1>5, <1>7 DEF IInv, Messages
  <2>4. \A e \in 1..started' : client'[e] = None /\ e \notin deleted' =>
          \E i \in 1..Len(msgs') : msgs'[i].op = "remove" /\ msgs'[i].timer = e
    <3> SUFFICES ASSUME NEW e \in 1..d, client'[e] = None, e \notin deleted
                 PROVE  \E i \in 1..Len(msgs') : msgs'[i].op = "remove" /\ msgs'[i].timer = e
      BY <1>2
    <3>1. e \in 1..started /\ client[e] = None
      BY <1>3, <1>6, <1>8
    <3> QED
      BY <3>1, <1>5 DEF IInv, Messages
  <2> QED
    BY <2>1, <2>2, <2>3, <2>4 DEF Messages
<1>12. Lives'
  <2>1. \A e \in deleted : client'[e] = None
    BY <1>6, <1>8 DEF IInv, Lives
  <2>2. \A e \in 1..d : due'[e] # 0
    BY <1>3, <1>6, <1>8 DEF IInv, Lives
  <2>3. heap \subseteq 1..d /\ deleted \subseteq 1..d
    BY <1>8
  <2> QED
    BY <2>1, <2>2, <2>3, <1>2 DEF IInv, Lives
<1>13. \A e \in heap : due'[e] = due[e]
  BY <1>6, <1>8
<1>14. HeapOrdered'
  BY <1>2, <1>13 DEF IInv, HeapOrdered, Soonest
<1>15. Watched'
  BY <1>2, <1>5, <1>13 DEF IInv, HeapOrdered, Soonest, Watched
<1> QED
  BY <1>9, <1>10, <1>11, <1>12, <1>14, <1>15 DEF IInv

LEMMA StopKeeps ==
  ASSUME IInv, NEW t \in Timer, Stop(t)
  PROVE  IInv'
<1>1. /\ timer[t] # 0 /\ StopLocked(t)
      /\ UNCHANGED <<now, started, alive, due, heap, top, deleted, armed, polled, poll,
                     task, cur, who, asOf>>
  BY DEF Stop, heapVars, taskVars
<1>2. TypeOK' /\ Ownership' /\ Messages' /\ Lives' /\ HeapOrdered'
  <2>1. /\ timer' \in [Timer -> 0..MaxStarts]
        /\ client' \in [Delegate -> Timer \cup {None}]
        /\ msgs' \in Seq(TimerMsg)
        /\ Messages'
        /\ \A u \in Timer : timer'[u] \in 0..started
        /\ \A u \in Timer, d \in Delegate : client'[d] = u <=> timer'[u] = d
        /\ \A u \in Timer : timer'[u] # 0 => timer[u] # 0
        /\ \A d \in deleted : client'[d] = None
    BY <1>1, StopLockedKeeps
  <2>2. TypeOK' BY <1>1, <2>1 DEF IInv, TypeOK
  <2>3. Ownership' BY <1>1, <2>1 DEF IInv, Ownership
  <2>4. Lives' BY <1>1, <2>1 DEF IInv, Lives
  <2>5. HeapOrdered' BY <1>1 DEF IInv, HeapOrdered, Soonest
  <2> QED BY <2>1, <2>2, <2>3, <2>4, <2>5
<1>3. Watched'
  BY <1>1, StopLockedKeeps DEF IInv, Watched
<1> QED
  BY <1>2, <1>3 DEF IInv

LEMMA DeleteKeeps ==
  ASSUME IInv, NEW t \in Timer, Delete(t)
  PROVE  IInv'
<1>1. /\ alive' = alive \ {t}
      /\ UNCHANGED <<now, started, due, heap, top, deleted, armed, polled, poll,
                     task, cur, who, asOf>>
  BY DEF Delete, heapVars, taskVars
<1>2. CASE timer[t] # 0
  <2>1. StopLocked(t)
    BY <1>2 DEF Delete
  <2> USE <1>1, <1>2, <2>1, StopLockedKeeps
  <2>2. TypeOK'
    BY DEF IInv, TypeOK
  <2>3. Ownership'
    <3>1. \A u \in Timer : timer'[u] # 0 => u \in alive'
      BY DEF IInv, Ownership
    <3> QED
      BY <3>1 DEF Ownership
  <2>4. Messages' /\ Lives' /\ HeapOrdered'
    BY DEF IInv, Lives, HeapOrdered, Soonest
  <2>5. Watched'
    BY DEF IInv, Watched
  <2> QED
    BY <2>2, <2>3, <2>4, <2>5 DEF IInv
<1>3. CASE timer[t] = 0
  <2>1. UNCHANGED <<timer, client, msgs>>
    BY <1>3 DEF Delete
  <2> USE <1>1, <1>3, <2>1
  <2>2. TypeOK'
    BY DEF IInv, TypeOK
  <2>3. Ownership'
    BY DEF IInv, Ownership
  <2>4. Messages' /\ Lives' /\ HeapOrdered' /\ Watched'
    BY DEF IInv, Messages, Lives, HeapOrdered, Soonest, Watched
  <2> QED
    BY <2>2, <2>3, <2>4 DEF IInv
<1> QED
  BY <1>2, <1>3

-----------------------------------------------------------------------------
(* The message thread.                                                      *)

LEMMA MsgTimerPushKeeps ==
  ASSUME IInv, MsgTimerPush
  PROVE  IInv'
<1> DEFINE d == Head(msgs).timer
<1>1. /\ task = "idle" /\ msgs # << >> /\ Head(msgs).op = "push" /\ msgs' = Tail(msgs)
      /\ heap' = heap \cup {d} /\ top' = (IF top = 0 \/ OutRanks(d, top) THEN d ELSE top)
      /\ UpdateSoonestTime(top' # top)
      /\ UNCHANGED <<now, started, timer, alive, client, due, deleted, armed, poll,
                     cur, who, asOf>>
  BY DEF MsgTimerPush, TakeMsg, HeapPush, clientVars
<1>2. msgs' \in Seq(TimerMsg) /\ Messages'
  BY <1>1, TakeKeeps
<1>3. /\ Head(msgs) = msgs[1] /\ 1 \in 1..Len(msgs) /\ msgs \in Seq(TimerMsg)
      /\ \A i \in 1..Len(msgs) : msgs[i].op = "expire" =>
           i - 1 \in 1..Len(msgs') /\ msgs'[i - 1] = msgs[i]
  <2>1. msgs \in Seq(TimerMsg)
    BY DEF IInv, TypeOK
  <2>2. Head(msgs) = msgs[1] /\ 1 \in 1..Len(msgs)
    BY <1>1, <2>1, TakeFacts
  <2> QED
    BY <1>1, <2>1, <2>2, TakeShifts
<1>4. d \in 1..started /\ d \notin deleted /\ d \in Delegate /\ due[d] # 0
  BY <1>1, <1>3, MsgFacts DEF IInv, Messages, Lives, Delegate
<1> HIDE DEF d
<1>5. TypeOK'
  <2>1. top' \in 0..MaxStarts /\ heap' \subseteq Delegate
    BY <1>1, <1>4 DEF IInv, TypeOK, Delegate
  <2> QED
    BY <1>1, <1>2, <2>1 DEF IInv, TypeOK, UpdateSoonestTime
<1>6. Ownership' /\ Lives'
  <2>1. Ownership'
    BY <1>1 DEF IInv, Ownership
  <2>2. task' \in {"idle", "settime"}
    BY <1>1 DEF UpdateSoonestTime
  <2>3. heap' \subseteq 1..started /\ heap' \cap deleted = {}
    BY <1>1, <1>4 DEF IInv, Lives
  <2> QED
    BY <1>1, <2>1, <2>2, <2>3 DEF IInv, Lives
<1>7. HeapOrdered'
  <2>1. \A e \in heap' : due[e] \in Nat /\ e \in Delegate
    BY <1>1, <1>4 DEF IInv, TypeOK
  <2>2. d # 0
    BY <1>4
  <2>3. CASE top = 0
    BY <1>1, <2>1, <2>2, <2>3 DEF IInv, HeapOrdered, Soonest
  <2>4. CASE top # 0
    <3>1. top \in heap /\ \A e \in heap : due[top] <= due[e]
      BY <2>4 DEF IInv, HeapOrdered, Soonest
    <3>2. top' \in heap' /\ top' # 0
      BY <1>1, <2>2, <2>4, <3>1
    <3>3. \A e \in heap' : due[top'] <= due[e]
      BY <1>1, <2>1, <2>4, <3>1 DEF OutRanks
    <3> QED
      BY <1>1, <3>2, <3>3 DEF HeapOrdered, Soonest
  <2> QED
    BY <2>3, <2>4
<1>8. Watched'
  <2>1. CASE top' # top
    BY <1>1, <2>1, <1>4 DEF UpdateSoonestTime, Watched
  <2>2. CASE top' = top
    <3>1. heap # {} /\ polled' = polled /\ task' = "idle"
      BY <1>1, <1>4, <2>2 DEF IInv, HeapOrdered, UpdateSoonestTime
    <3> QED
      BY <1>1, <1>3, <2>2, <3>1 DEF IInv, Watched
  <2> QED
    BY <2>1, <2>2
<1> QED
  BY <1>2, <1>5, <1>6, <1>7, <1>8 DEF IInv

(* The message it takes was the last one about the delegate it deletes.     *)
LEMMA MsgTimerRemoveKeeps ==
  ASSUME IInv, MsgTimerRemove
  PROVE  IInv'
<1> DEFINE d == Head(msgs).timer
<1>1. /\ task = "idle" /\ msgs # << >> /\ Head(msgs).op = "remove" /\ msgs' = Tail(msgs)
      /\ IF d \in heap THEN HeapRemove(d) ELSE UNCHANGED <<heap, top>>
      /\ UpdateSoonestTime(d = top /\ top' # 0)
      /\ deleted' = deleted \cup {d}
      /\ UNCHANGED <<now, started, timer, alive, client, due, armed, poll, cur, who, asOf>>
  BY DEF MsgTimerRemove, TakeMsg, clientVars, heapVars
<1>2. msgs \in Seq(TimerMsg) /\ Len(msgs) \in Nat
  BY DEF IInv, TypeOK
<1>3. /\ msgs' \in Seq(TimerMsg) /\ Len(msgs') = Len(msgs) - 1
      /\ Head(msgs) = msgs[1] /\ 1 \in 1..Len(msgs)
      /\ \A i \in 1..Len(msgs') : i + 1 \in 1..Len(msgs) /\ msgs'[i] = msgs[i + 1]
      /\ \A i \in 1..Len(msgs) : i # 1 => i - 1 \in 1..Len(msgs') /\ msgs'[i - 1] = msgs[i]
  BY <1>1, <1>2, TakeFacts, TakeShifts
<1>4. d \in 1..started /\ d \notin deleted /\ d \in Delegate /\ client[d] = None
  BY <1>1, <1>2, <1>3, MsgFacts DEF IInv, Messages, Delegate
<1>5. \A i \in 1..Len(msgs') : msgs'[i].op # "expire" => msgs'[i].timer # d
  <2> SUFFICES ASSUME NEW i \in 1..Len(msgs'), msgs'[i].op # "expire", msgs'[i].timer = d
               PROVE  FALSE
    OBVIOUS
  <2>1. i + 1 \in 1..Len(msgs) /\ msgs'[i] = msgs[i + 1] /\ i >= 1 /\ i \in Int
    BY <1>3
  <2>2. i + 1 <= 1
    BY <2>1, <1>1, <1>3 DEF IInv, Messages
  <2> QED
    BY <2>1, <2>2
<1> HIDE DEF d
<1>6. /\ heap' = heap \ {d} /\ top' \in 0..MaxStarts /\ HeapOrdered'
      /\ (d # top => top' = top)
  <2>1. CASE d \in heap
    BY <1>1, <2>1, HeapRemoveKeeps
  <2>2. CASE d \notin heap
    BY <1>1, <2>2 DEF IInv, TypeOK, HeapOrdered, Soonest
  <2> QED
    BY <2>1, <2>2
<1>7. TypeOK'
  BY <1>1, <1>3, <1>4, <1>6 DEF IInv, TypeOK, UpdateSoonestTime
<1>8. Ownership'
  BY <1>1 DEF IInv, Ownership
<1>9. Lives'
  <2>1. task' \in {"idle", "settime"}
    BY <1>1 DEF UpdateSoonestTime
  <2> QED
    BY <2>1, <1>1, <1>4, <1>6 DEF IInv, Lives
<1>10. Messages'
  <2>1. \A i \in 1..Len(msgs') : \E j \in 1..Len(msgs) : msgs'[i] = msgs[j]
    BY <1>3
  <2>2. \A i, j \in 1..Len(msgs') :
          msgs'[i].op = "remove" /\ msgs'[j].op # "expire"
            /\ msgs'[j].timer = msgs'[i].timer => j <= i
    <3> TAKE i, j \in 1..Len(msgs')
    <3>1. i + 1 \in 1..Len(msgs) /\ j + 1 \in 1..Len(msgs) /\ i \in Int /\ j \in Int
      BY <1>3
    <3> QED
      BY <3>1, <1>3 DEF IInv, Messages
  <2>3. \A e \in 1..started : client[e] = None /\ e \notin deleted' =>
          \E i \in 1..Len(msgs') : msgs'[i].op = "remove" /\ msgs'[i].timer = e
    <3> SUFFICES ASSUME NEW e \in 1..started, client[e] = None, e \notin deleted, e # d
                 PROVE  \E i \in 1..Len(msgs') : msgs'[i].op = "remove" /\ msgs'[i].timer = e
      BY <1>1
    <3>1. PICK i \in 1..Len(msgs) : msgs[i].op = "remove" /\ msgs[i].timer = e
      BY DEF IInv, Messages
    <3>2. i # 1
      BY <3>1, <1>3 DEF d
    <3> QED
      BY <3>1, <3>2, <1>3
  <2>4. \A i \in 1..Len(msgs') : msgs'[i].op # "expire" =>
          msgs'[i].timer <= started /\ msgs'[i].timer \notin deleted'
    BY <2>1, <1>1, <1>5 DEF IInv, Messages
  <2> QED
    BY <2>1, <2>2, <2>3, <2>4, <1>1 DEF IInv, Messages
<1>11. Watched'
  <2>1. CASE d = top /\ top' # 0
    BY <2>1, <1>1, <1>6 DEF HeapOrdered, UpdateSoonestTime, Watched
  <2>2. CASE d = top /\ top' = 0
    BY <2>2, <1>1, <1>6 DEF HeapOrdered, UpdateSoonestTime, Watched
  <2>3. CASE d # top
    <3>1. polled' = polled /\ task' = "idle" /\ top' = top /\ (heap' # {} => heap # {})
      BY <1>1, <1>6, <2>3 DEF UpdateSoonestTime
    <3>2. (\E i \in 1..Len(msgs) : msgs[i].op = "expire") =>
            \E i \in 1..Len(msgs') : msgs'[i].op = "expire"
      BY <1>1, <1>3
    <3> QED
      BY <1>1, <3>1, <3>2 DEF IInv, Watched
  <2> QED
    BY <2>1, <2>2, <2>3
<1> QED
  BY <1>7, <1>8, <1>9, <1>10, <1>6, <1>11 DEF IInv

LEMMA MsgTimerExpireKeeps ==
  ASSUME IInv, MsgTimerExpire
  PROVE  IInv'
<1>1. /\ task = "idle" /\ msgs # << >> /\ Head(msgs).op = "expire" /\ msgs' = Tail(msgs)
      /\ asOf' = now
      /\ IF heap = {} THEN task' = "idle" /\ UNCHANGED <<heap, top, cur>>
                      ELSE HeapRemove(top) /\ cur' = top /\ task' = "expire"
      /\ UNCHANGED <<now, started, timer, alive, client, due, deleted, armed, polled,
                     poll, who>>
  BY DEF MsgTimerExpire, TakeMsg, HeapPop, clientVars, heapVars
<1>2. msgs' \in Seq(TimerMsg) /\ Messages'
  BY <1>1, TakeKeeps
<1>3. now \in 0..MaxTime
  BY LocTimerAssumption DEF IInv, TypeOK
<1>4. Ownership'
  BY <1>1 DEF IInv, Ownership
<1>5. CASE heap = {}
  <2>1. TypeOK' /\ Lives'
    BY <1>1, <1>2, <1>3, <1>5 DEF IInv, TypeOK, Lives
  <2>2. HeapOrdered' /\ Watched'
    BY <1>1, <1>5 DEF IInv, HeapOrdered, Watched
  <2> QED
    BY <1>2, <1>4, <2>1, <2>2 DEF IInv
<1>6. CASE heap # {}
  <2>1. top \in heap /\ top # 0 /\ top \notin deleted
    BY <1>6 DEF IInv, HeapOrdered, Soonest, Lives
  <2>2. heap' = heap \ {top} /\ top' \in 0..MaxStarts /\ HeapOrdered'
    BY <1>1, <1>6, <2>1, HeapRemoveKeeps
  <2>3. TypeOK' /\ Lives'
    BY <1>1, <1>2, <1>3, <1>6, <2>1, <2>2 DEF IInv, TypeOK, Lives
  <2>4. Watched'
    BY <1>1, <1>6 DEF Watched
  <2> QED
    BY <1>2, <1>4, <2>2, <2>3, <2>4 DEF IInv
<1> QED
  BY <1>5, <1>6

LEMMA ExpireStopKeeps ==
  ASSUME IInv, ExpireStop
  PROVE  IInv'
<1>1. /\ task = "stop" /\ who \in Timer
      /\ UNCHANGED <<now, started, alive, due, heap, top, deleted, armed, polled, poll,
                     who, asOf>>
  BY DEF ExpireStop, heapVars, IInv, Lives
<1>2. CASE timer[who] # 0
  <2>1. StopLocked(who) /\ cur' = timer[who] /\ task' = "callback"
    BY <1>2 DEF ExpireStop
  <2>2. timer[who] \in 0..MaxStarts
    BY <1>1 DEF IInv, TypeOK
  <2> USE <1>1, <1>2, <2>1, <2>2, StopLockedKeeps
  <2>3. TypeOK'
    BY DEF IInv, TypeOK
  <2>4. Ownership'
    BY DEF IInv, Ownership
  <2>5. Messages' /\ Lives' /\ HeapOrdered' /\ Watched'
    BY DEF IInv, Lives, HeapOrdered, Soonest, Watched
  <2> QED
    BY <2>3, <2>4, <2>5 DEF IInv
<1>3. CASE timer[who] = 0
  <2>1. task' \in {"next", "crashed"} /\ UNCHANGED <<timer, client, msgs, cur>>
    BY <1>3 DEF ExpireStop
  <2> USE <1>1, <2>1
  <2>2. TypeOK' /\ Ownership'
    BY DEF IInv, TypeOK, Ownership
  <2>3. Messages' /\ Lives' /\ HeapOrdered' /\ Watched'
    BY DEF IInv, Messages, Lives, HeapOrdered, Soonest, Watched
  <2> QED
    BY <2>2, <2>3 DEF IInv
<1> QED
  BY <1>2, <1>3

LEMMA ExpireNextKeeps ==
  ASSUME IInv, ExpireNext
  PROVE  IInv'
<1>1. /\ task = "next"
      /\ UNCHANGED <<now, started, timer, alive, client, due, deleted, msgs, armed, poll,
                     who, asOf>>
  BY DEF ExpireNext, clientVars
<1>2. Ownership' /\ Messages'
  BY <1>1 DEF IInv, Ownership, Messages
<1>3. CASE heap # {} /\ due[top] <= asOf
  <2>1. HeapRemove(top) /\ cur' = top /\ task' = "expire" /\ polled' = polled
    BY <1>3 DEF ExpireNext, HeapPop
  <2>2. top \in heap /\ top # 0 /\ top \notin deleted
    BY <1>3 DEF IInv, HeapOrdered, Soonest, Lives
  <2>3. heap' = heap \ {top} /\ top' \in 0..MaxStarts /\ HeapOrdered'
    BY <1>1, <2>1, <2>2, HeapRemoveKeeps
  <2>4. TypeOK' /\ Lives' /\ Watched'
    BY <1>1, <2>1, <2>2, <2>3 DEF IInv, TypeOK, Lives, Watched
  <2> QED
    BY <1>2, <2>3, <2>4 DEF IInv
<1>4. CASE ~(heap # {} /\ due[top] <= asOf)
  <2>1. UpdateSoonestTime(heap # {}) /\ UNCHANGED <<heap, top, cur>>
    BY <1>4 DEF ExpireNext, heapVars
  <2>2. TypeOK' /\ Lives' /\ HeapOrdered'
    BY <1>1, <2>1 DEF IInv, TypeOK, Lives, HeapOrdered, Soonest, UpdateSoonestTime
  <2>3. Watched'
    BY <1>1, <2>1 DEF Watched, UpdateSoonestTime
  <2> QED
    BY <1>2, <2>2, <2>3 DEF IInv
<1> QED
  BY <1>3, <1>4

LEMMA MsgThreadKeeps ==
  ASSUME IInv, MsgThread
  PROVE  IInv'
<1>1. CASE SetTime
  <2>1. /\ task = "settime" /\ armed' = due[top] /\ task' = "idle"
        /\ UNCHANGED <<now, started, timer, alive, client, due, heap, top, deleted, msgs,
                       polled, poll, cur, who, asOf>>
    BY <1>1 DEF SetTime, clientVars, heapVars
  <2>2. heap # {} /\ top \in 1..started /\ top \in Delegate
    BY <2>1 DEF IInv, TypeOK, Watched, HeapOrdered, Soonest, Lives
  <2>3. due[top] \in 0..MaxTime /\ due[top] # 0 /\ due[top] <= due[top]
    BY <2>2, LocTimerAssumption DEF IInv, TypeOK, Lives
  <2>4. TypeOK' /\ Ownership' /\ Messages'
    BY <2>1, <2>3 DEF IInv, TypeOK, Ownership, Messages
  <2>5. Lives' /\ HeapOrdered' /\ Watched'
    BY <2>1, <2>2, <2>3 DEF IInv, Lives, HeapOrdered, Soonest, Watched
  <2> QED
    BY <2>4, <2>5 DEF IInv
<1>2. CASE ExpireReadClient
  <2>1. /\ task = "expire" /\ who' = client[cur]
        /\ task' = (IF client[cur] = None THEN "next" ELSE "stop")
        /\ UNCHANGED <<now, started, timer, alive, client, due, heap, top, deleted, msgs,
                       armed, polled, poll, cur, asOf>>
    BY <1>2 DEF ExpireReadClient, clientVars, heapVars
  <2>2. cur \in Delegate /\ client[cur] \in Timer \cup {None}
    BY <2>1, LocTimerAssumption DEF IInv, TypeOK, Delegate
  <2>3. TypeOK' /\ Ownership' /\ Messages'
    BY <2>1, <2>2 DEF IInv, TypeOK, Ownership, Messages
  <2>4. Lives' /\ HeapOrdered' /\ Watched'
    BY <2>1, <2>2 DEF IInv, Lives, HeapOrdered, Soonest, Watched
  <2> QED
    BY <2>3, <2>4 DEF IInv
<1>3. CASE TimeOutCallback
  <2>1. /\ task' \in {"next", "crashed"}
        /\ UNCHANGED <<now, started, timer, alive, client, due, heap, top, deleted, msgs,
                       armed, polled, poll, cur, who, asOf>>
    BY <1>3 DEF TimeOutCallback, clientVars, heapVars
  <2>2. TypeOK' /\ Ownership' /\ Messages'
    BY <2>1 DEF IInv, TypeOK, Ownership, Messages
  <2>3. Lives' /\ HeapOrdered' /\ Watched'
    BY <2>1 DEF IInv, Lives, HeapOrdered, Soonest, Watched
  <2> QED
    BY <2>2, <2>3 DEF IInv
<1> QED
  BY <1>1, <1>2, <1>3, MsgTimerPushKeeps, MsgTimerRemoveKeeps, MsgTimerExpireKeeps,
     ExpireStopKeeps, ExpireNextKeeps DEF MsgThread

-----------------------------------------------------------------------------
(* The poll thread and the clock.  Whatever it takes from the kernel it     *)
(* takes on the way to an expire message.                                   *)
LEMMA PollThreadKeeps ==
  ASSUME IInv, PollThread \/ Tick
  PROVE  IInv'
<1> USE DEF clientVars, heapVars, taskVars
<1>1. CASE PollSend
  <2>1. /\ poll' = "wait" /\ Send(msgs, [op |-> "expire"])
        /\ UNCHANGED <<now, started, timer, alive, client, due, heap, top, deleted,
                       armed, polled, task, cur, who, asOf>>
    BY <1>1 DEF PollSend
  <2>2. /\ msgs' \in Seq(TimerMsg) /\ Messages'
        /\ \E i \in 1..Len(msgs') : msgs'[i].op = "expire"
    BY <2>1, ExpireSent
  <2>3. TypeOK' /\ Ownership'
    BY <2>1, <2>2 DEF IInv, TypeOK, Ownership
  <2>4. Lives' /\ HeapOrdered' /\ Watched'
    BY <2>1, <2>2 DEF IInv, Lives, HeapOrdered, Soonest, Watched
  <2> QED
    BY <2>2, <2>3, <2>4 DEF IInv
<1>2. CASE PollWake \/ PollDisarm \/ PollRemove
  <2>1. /\ poll' \in {"disarm", "remove", "send"} /\ armed' \in {armed, 0}
        /\ polled' \in {polled, FALSE}
        /\ UNCHANGED <<now, started, timer, alive, client, due, heap, top, deleted, msgs,
                       task, cur, who, asOf>>
    BY <1>2 DEF PollWake, PollDisarm, PollRemove
  <2>2. armed' \in 0..MaxTime /\ polled' \in BOOLEAN
    <3>1. armed' \in 0..MaxTime
      BY <2>1, LocTimerAssumption DEF IInv, TypeOK
    <3>2. polled \in BOOLEAN
      BY DEF IInv, TypeOK
    <3> QED
      BY <2>1, <3>1, <3>2
  <2>3. TypeOK'
    BY <2>1, <2>2 DEF IInv, TypeOK
  <2>4. Ownership' /\ Messages'
    BY <2>1 DEF IInv, Ownership, Messages
  <2>5. Lives' /\ HeapOrdered' /\ Watched'
    BY <2>1 DEF IInv, Lives, HeapOrdered, Soonest, Watched
  <2> QED
    BY <2>3, <2>4, <2>5 DEF IInv
<1>3. CASE Tick
  <2>1. /\ now < MaxTime /\ now' = now + 1
        /\ UNCHANGED <<started, timer, alive, client, due, heap, top, deleted, msgs,
                       armed, polled, poll, task, cur, who, asOf>>
    BY <1>3 DEF Tick
  <2>2. now' \in 1..MaxTime
    BY <2>1, LocTimerAssumption DEF IInv, TypeOK
  <2>3. TypeOK'
    BY <2>1, <2>2 DEF IInv, TypeOK
  <2>4. Ownership' /\ Messages' /\ Lives' /\ HeapOrdered' /\ Watched'
    BY <2>1 DEF IInv, Ownership, Messages, Lives, HeapOrdered, Soonest, Watched
  <2> QED
    BY <2>3, <2>4 DEF IInv
<1> QED
  BY <1>1, <1>2, <1>3 DEF PollThread

LEMMA StutterKeeps ==
  ASSUME IInv, UNCHANGED vars
  PROVE  IInv'
<1>1. UNCHANGED <<now, started, timer, alive, client, due, heap, top, deleted, msgs,
                  armed, polled, poll, task, cur, who, asOf>>
  BY DEF vars, clientVars, heapVars, taskVars
<1>2. TypeOK' /\ Ownership' /\ Messages'
  BY <1>1 DEF IInv, TypeOK, Ownership, Messages
<1>3. Lives' /\ HeapOrdered' /\ Watched'
  BY <1>1 DEF IInv, Lives, HeapOrdered, Soonest, Watched
<1> QED
  BY <1>2, <1>3 DEF IInv

(* The invariant holds in every reachable state.                            *)
LEMMA Invariant == Spec => []IInv
<1>1. IInv /\ [Next]_vars => IInv'
  BY StartKeeps, StopKeeps, DeleteKeeps, MsgThreadKeeps, PollThreadKeeps, StutterKeeps
     DEF Next
<1> QED
  BY InitIInv, <1>1, PTL DEF Spec

-----------------------------------------------------------------------------
(* The state stays of the type it is declared with: the queue holds timer   *)
(* messages, and the message thread works on a delegate when it calls it.   *)
THEOREM TypeCorrect == Spec => []TypeOK
<1>1. IInv => TypeOK
  BY DEF IInv
<1> QED
  BY Invariant, <1>1, PTL

(* No timer, message or heap entry that will still be used points to a      *)
(* delegate that MsgTimerRemove has deleted.                                *)
THEOREM NoDangling == Spec => []NoDanglingDelegate
<1>1. IInv => NoDanglingDelegate
  <2> SUFFICES ASSUME IInv, NEW d \in deleted
               PROVE  /\ d \notin heap /\ ~Queued("push", d) /\ ~Queued("remove", d)
                      /\ \A t \in Timer : timer[t] # d
                      /\ task = "expire" => cur # d
    BY DEF NoDanglingDelegate
  <2>1. d \in Delegate /\ client[d] = None
    BY DEF IInv, TypeOK, Lives
  <2>2. ~Queued("push", d) /\ ~Queued("remove", d)
    BY DEF IInv, Messages, Queued
  <2>3. \A t \in Timer : timer[t] # d
    BY <2>1, LocTimerAssumption DEF IInv, Ownership
  <2> QED
    BY <2>2, <2>3 DEF IInv, Lives
<1> QED
  BY Invariant, <1>1, PTL

(* A delegate without a timer is deleted by one message only, however a     *)
(* stop by the client and its own expiration interleave.                    *)
THEOREM RemovedOnceAlways == Spec => []RemovedOnce
<1>1. IInv => RemovedOnce
  <2> SUFFICES ASSUME IInv, NEW d \in 1..started, \A t \in Timer : timer[t] # d
               PROVE  IF d \in deleted THEN ~Queued("remove", d)
                      ELSE \E i \in 1..Len(msgs) :
                             /\ msgs[i] = [op |-> "remove", timer |-> d]
                             /\ \A j \in 1..Len(msgs) : msgs[j] = msgs[i] => j = i
    BY DEF RemovedOnce
  <2>1. d \in Delegate /\ client[d] = None
    <3>1. started \in 0..MaxStarts /\ d \in Delegate
      BY LocTimerAssumption DEF IInv, TypeOK, Delegate
    <3>2. client[d] \in Timer \cup {None} /\ \A t \in Timer : client[d] # t
      BY <3>1 DEF IInv, TypeOK, Ownership
    <3> QED
      BY <3>1, <3>2
  <2>2. d \in deleted => ~Queued("remove", d)
    BY DEF IInv, Messages, Queued
  <2>3. ASSUME d \notin deleted
        PROVE  \E i \in 1..Len(msgs) :
                 /\ msgs[i] = [op |-> "remove", timer |-> d]
                 /\ \A j \in 1..Len(msgs) : msgs[j] = msgs[i] => j = i
    <3>1. PICK i \in 1..Len(msgs) : msgs[i].op = "remove" /\ msgs[i].timer = d
      BY <2>1, <2>3 DEF IInv, Messages
    <3>2. msgs[i] = [op |-> "remove", timer |-> d]
      BY <2>1, <3>1, MsgFacts DEF IInv, TypeOK
    <3>3. ASSUME NEW j \in 1..Len(msgs), msgs[j] = msgs[i] PROVE j = i
      <4>1. msgs[j].op = "remove" /\ msgs[j].timer = msgs[i].timer
        BY <3>1, <3>3
      <4>2. j <= i /\ i <= j
        BY <3>1, <4>1 DEF IInv, Messages
      <4> QED
        BY <4>2
    <3> QED
      BY <3>2, <3>3
  <2> QED
    BY <2>2, <2>3
<1> QED
  BY Invariant, <1>1, PTL

(* With both threads at rest the kernel watches a time no later than the    *)
(* soonest timer, or an expire message waits: no interleaving with the      *)
(* poll thread's disarming forgets a timer.                                 *)
THEOREM KernelKnows == Spec => []KernelKnowsSoonest
<1>1. IInv => KernelKnowsSoonest
  BY DEF IInv, Watched, KernelKnowsSoonest
<1> QED
  BY Invariant, <1>1, PTL
=============================================================================
