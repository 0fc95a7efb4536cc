----------------------------- MODULE AgpsProofs -----------------------------
(* For every set of handles and NIFs and every bound: the AGPS machines are *)
(* typed, the state of a machine always matches its subscriber list, and    *)
(* until the modem restarts the machines and the modem agree about who has  *)
(* a connection.                                                           *)
EXTENDS Agps, TLAPS

(* Only a subscriber that waits for the close becomes inactive.            *)
OnlyWaitersInactive == ~WaitForClose => \A n \in NifPresent : inactive[n] = {}

(* StateMatchesSubscribers alone is not inductive: a machine that releases *)
(* could lose its last inactive subscriber if one that does not wait could *)
(* be there.                                                               *)
IInv == TypeOK /\ StateMatchesSubscribers /\ OnlyWaitersInactive

USE DEF AgpsState, ModemState, ConnRequest

(* What Head, Tail and Append do to a sequence of a set: the message queue *)
(* and the queues of the framework only ever hold members of their types.  *)
LEMMA SeqFacts ==
  ASSUME NEW S, NEW q \in Seq(S), NEW e \in S
  PROVE  /\ Append(q, e) \in Seq(S)
         /\ q # << >> => Head(q) \in S /\ Tail(q) \in Seq(S)
OBVIOUS

(* The machines start RELEASED with empty lists.                           *)
LEMMA InitIInv == Init => IInv
<1> SUFFICES ASSUME Init PROVE IInv
  OBVIOUS
<1>1. \A S : << >> \in Seq(S)
  OBVIOUS
<1>2. msgs \in Seq(AgpsMsg) /\ lookups \in Seq(NifPresent)
  BY <1>1 DEF Init
<1>3. framework \in [NifPresent -> Seq(ConnRequest)]
  BY <1>1 DEF Init
<1>4. TypeOK
  BY <1>2, <1>3 DEF Init, TypeOK
<1>5. StateMatchesSubscribers
  BY DEF Init, StateMatchesSubscribers, Active
<1> QED BY <1>4, <1>5 DEF IInv, Init, OnlyWaitersInactive

(* The parts of the invariant that processing one event can disturb: the   *)
(* machines, and what the machines tell the modem and the framework.       *)
Machines ==
  /\ state \in [NifPresent -> AgpsState]
  /\ subscribers \in [NifPresent -> SUBSET Handle]
  /\ inactive \in [NifPresent -> SUBSET Handle]
  /\ StateMatchesSubscribers
  /\ OnlyWaitersInactive

Outside ==
  /\ msgs \in Seq(AgpsMsg)
  /\ framework \in [NifPresent -> Seq(ConnRequest)]
  /\ up \in [NifPresent -> BOOLEAN]

(* Become keeps the types and the relation when the new values for n have  *)
(* them: the other machines are not touched.                               *)
LEMMA BecomeKeeps ==
  ASSUME IInv, NEW n \in NifPresent, NEW s \in AgpsState,
         NEW subs \in SUBSET Handle, NEW inact \in SUBSET Handle,
         Become(n, s, subs, inact),
         inact \subseteq subs,
         s = "RELEASED" <=> subs = {},
         s \in {"PENDING", "ACQUIRED"} => subs \ inact # {},
         s = "RELEASING" => inact # {},
         ~WaitForClose => inact = {}
  PROVE  Machines'
BY DEF IInv, TypeOK, Become, StateMatchesSubscribers, Active, Machines, OnlyWaitersInactive

LEMMA MachinesUnchanged == ASSUME IInv, UNCHANGED smVars PROVE Machines'
BY DEF IInv, TypeOK, StateMatchesSubscribers, Active, Machines, OnlyWaitersInactive, smVars

(* Telling handles an event keeps the modem's view a view of every handle. *)
LEMMA TellKeeps ==
  ASSUME TypeOK, NEW event, NEW S, Tell(event, S)
  PROVE  modem' \in [Handle -> ModemState]
BY DEF TypeOK, Tell

(* Taking a message off the queue, with or without a request for the       *)
(* connection, leaves the queues well typed.                               *)
LEMMA NoConnKeeps == ASSUME TypeOK, msgs # << >>, NoConnRequest PROVE Outside'
<1>1. Tail(msgs) \in Seq(AgpsMsg)
  BY SeqFacts DEF TypeOK
<1> QED BY <1>1 DEF TypeOK, NoConnRequest, Outside

LEMMA ConnKeeps ==
  ASSUME TypeOK, msgs # << >>, NEW n \in NifPresent, NEW request \in ConnRequest,
         RequestOrReleaseDataConn(n, request)
  PROVE  Outside'
<1>1. Tail(msgs) \in Seq(AgpsMsg)
  BY SeqFacts DEF TypeOK
<1>2. CASE Native
  <2>1. NativeAnswer(n, request) \in AgpsMsg
    BY DEF NativeAnswer, AgpsMsg
  <2>2. msgs' \in Seq(AgpsMsg)
    BY <1>1, <1>2, <2>1 DEF RequestOrReleaseDataConn
  <2>3. up' \in [NifPresent -> BOOLEAN] /\ framework' = framework
    BY <1>2 DEF RequestOrReleaseDataConn, TypeOK
  <2> QED BY <2>2, <2>3 DEF Outside, TypeOK
<1>3. CASE ~Native
  <2>1. Append(framework[n], request) \in Seq(ConnRequest)
    BY DEF TypeOK
  <2>2. framework' \in [NifPresent -> Seq(ConnRequest)]
    BY <1>3, <2>1 DEF RequestOrReleaseDataConn, TypeOK
  <2> QED BY <1>1, <1>3, <2>2 DEF RequestOrReleaseDataConn, Outside, TypeOK
<1> QED BY <1>2, <1>3

(* One lemma per processing method of the state machine.                   *)
Kept == Machines /\ Outside /\ modem \in [Handle -> ModemState]

LEMMA SubscribeKeeps ==
  ASSUME IInv, msgs # << >>, NEW n \in NifPresent, NEW h \in Handle,
         ProcessSubscribe(n, h)
  PROVE  Kept'
<1> USE DEF IInv
<1>1. Machines'
  <2> DEFINE s == IF state[n] = "RELEASED" THEN "PENDING" ELSE state[n]
             subs == subscribers[n] \cup {h}
  <2>1. s \in AgpsState /\ subs \in SUBSET Handle /\ inactive[n] \in SUBSET Handle
    BY DEF TypeOK
  <2>2. /\ inactive[n] \subseteq subs
        /\ s # "RELEASED" /\ subs # {}
        /\ s \in {"PENDING", "ACQUIRED"} => subs \ inactive[n] # {}
        /\ s = "RELEASING" => inactive[n] # {}
        /\ ~WaitForClose => inactive[n] = {}
    BY DEF StateMatchesSubscribers, OnlyWaitersInactive, Active
  <2>3. Become(n, s, subs, inactive[n])
    BY DEF ProcessSubscribe
  <2> HIDE DEF s, subs, IInv
  <2> QED BY <2>1, <2>2, <2>3, BecomeKeeps
<1>2. Outside'
  BY ConnKeeps, NoConnKeeps DEF ProcessSubscribe
<1>3. modem' \in [Handle -> ModemState]
  BY TellKeeps DEF ProcessSubscribe, TypeOK
<1> QED BY <1>1, <1>2, <1>3 DEF Kept

LEMMA UnsubscribeKeeps ==
  ASSUME IInv, msgs # << >>, NEW n \in NifPresent, NEW h \in subscribers[n],
         ProcessUnsubscribe(n, h)
  PROVE  Kept'
<1> USE DEF IInv
<1> DEFINE subs    == IF WaitForClose THEN subscribers[n] ELSE subscribers[n] \ {h}
           inact   == IF WaitForClose THEN inactive[n] \cup {h} ELSE inactive[n] \ {h}
           stopped == subs \subseteq inact
           next    == CASE subs = {} -> "RELEASED"
                        [] subs # {} /\ stopped -> "RELEASING"
                        [] OTHER -> state[n]
<1>0. state[n] # "RELEASED"
  BY DEF StateMatchesSubscribers
<1>1. Become(n, next, subs, inact)
  BY <1>0 DEF ProcessUnsubscribe
<1>2. Machines'
  <2>1. next \in AgpsState /\ subs \in SUBSET Handle /\ inact \in SUBSET Handle
    BY DEF TypeOK
  <2>2. inact \subseteq subs /\ (~WaitForClose => inact = {})
    BY DEF StateMatchesSubscribers, OnlyWaitersInactive
  <2>3. /\ next = "RELEASED" <=> subs = {}
        /\ next \in {"PENDING", "ACQUIRED"} => subs \ inact # {}
        /\ next = "RELEASING" => inact # {}
    <3>1. CASE subs = {}
      BY <3>1
    <3>2. CASE subs # {} /\ stopped
      BY <3>2
    <3>3. CASE subs # {} /\ ~stopped
      <4>1. next = state[n]
        BY <3>3
      <4>2. state[n] = "RELEASING" => inact # {}
        BY <3>3 DEF StateMatchesSubscribers, OnlyWaitersInactive
      <4> QED BY <1>0, <3>3, <4>1, <4>2
    <3> QED BY <3>1, <3>2, <3>3
  <2> HIDE DEF next, subs, inact, IInv
  <2> QED BY <1>1, <2>1, <2>2, <2>3, BecomeKeeps
<1>3. Outside'
  BY <1>0, ConnKeeps, NoConnKeeps DEF ProcessUnsubscribe
<1>4. modem' \in [Handle -> ModemState]
  BY <1>0, TellKeeps DEF ProcessUnsubscribe, TypeOK
<1> QED BY <1>2, <1>3, <1>4 DEF Kept

LEMMA IgnoreKeeps == ASSUME IInv, msgs # << >>, IgnoreEvent PROVE Kept'
BY NoConnKeeps, MachinesUnchanged DEF IInv, IgnoreEvent, Kept, TypeOK

LEMMA GrantedKeeps ==
  ASSUME IInv, msgs # << >>, NEW n \in NifPresent, ProcessGranted(n)
  PROVE  Kept'
<1>1. CASE state[n] = "PENDING"
  <2>1. Become(n, "ACQUIRED", subscribers[n], inactive[n])
    BY <1>1 DEF ProcessGranted
  <2>2. Machines'
    <3>1. /\ inactive[n] \subseteq subscribers[n] /\ subscribers[n] \ inactive[n] # {}
          /\ subscribers[n] \in SUBSET Handle /\ inactive[n] \in SUBSET Handle
      BY <1>1 DEF IInv, TypeOK, StateMatchesSubscribers, Active
    <3>2. /\ subscribers[n] # {} /\ "ACQUIRED" \in AgpsState
          /\ ~WaitForClose => inactive[n] = {}
      BY <3>1 DEF IInv, OnlyWaitersInactive
    <3> QED BY <2>1, <3>1, <3>2, BecomeKeeps
  <2>3. Outside' /\ modem' \in [Handle -> ModemState]
    BY <1>1, NoConnKeeps, TellKeeps DEF IInv, ProcessGranted
  <2> QED BY <2>2, <2>3 DEF Kept
<1>2. CASE state[n] # "PENDING"
  BY <1>2, IgnoreKeeps DEF ProcessGranted, IgnoreEvent
<1> QED BY <1>1, <1>2

LEMMA FinishReleaseKeeps ==
  ASSUME IInv, msgs # << >>, NEW n \in NifPresent, FinishRelease(n)
  PROVE  Kept'
<1>1. Machines'
  <2> DEFINE s == IF Active(n) # {} THEN "PENDING" ELSE "RELEASED"
  <2>1. s \in AgpsState /\ Active(n) \in SUBSET Handle /\ {} \in SUBSET Handle
    BY DEF IInv, TypeOK, Active
  <2>2. /\ s = "RELEASED" <=> Active(n) = {}
        /\ s \in {"PENDING", "ACQUIRED"} => Active(n) \ {} # {}
        /\ s # "RELEASING"
    OBVIOUS
  <2>3. Become(n, s, Active(n), {})
    BY DEF FinishRelease
  <2> HIDE DEF s
  <2> QED BY <2>1, <2>2, <2>3, BecomeKeeps
<1>2. Outside' /\ modem' \in [Handle -> ModemState]
  BY ConnKeeps, NoConnKeeps, TellKeeps DEF IInv, FinishRelease
<1> QED BY <1>1, <1>2 DEF Kept

LEMMA DropAllKeeps ==
  ASSUME IInv, msgs # << >>, NEW n \in NifPresent, NEW event, DropAll(n, event)
  PROVE  Kept'
<1>1. Machines'
  <2>1. Become(n, "RELEASED", {}, {}) /\ "RELEASED" \in AgpsState /\ {} \in SUBSET Handle
    BY DEF DropAll
  <2> QED BY <2>1, BecomeKeeps
<1>2. Outside' /\ modem' \in [Handle -> ModemState]
  BY NoConnKeeps, TellKeeps DEF IInv, DropAll
<1> QED BY <1>1, <1>2 DEF Kept

LEMMA ReleasedKeeps ==
  ASSUME IInv, msgs # << >>, NEW n \in NifPresent, ProcessReleased(n)
  PROVE  Kept'
BY DropAllKeeps, FinishReleaseKeeps, IgnoreKeeps DEF ProcessReleased

LEMMA DeniedKeeps ==
  ASSUME IInv, msgs # << >>, NEW n \in NifPresent, ProcessDenied(n)
  PROVE  Kept'
BY DropAllKeeps, FinishReleaseKeeps, IgnoreKeeps DEF ProcessDenied

(* The environment's steps do not touch the machines and post messages of  *)
(* the right type.                                                         *)
LEMMA EnvironmentKeeps ==
  ASSUME IInv,
         \/ \E h \in Handle : ModemClose(h) \/ \E n \in Nif : ModemOpen(h, n)
         \/ ModemSSR \/ NetworkChange \/ WdsAnswer
         \/ \E n \in NifPresent : FrameworkAnswer(n) \/ FrameworkLost(n)
  PROVE  IInv'
<1> USE DEF IInv
<1>1. Machines'
  <2>1. UNCHANGED smVars
    BY DEF ModemClose, ModemOpen, ModemSSR, NetworkChange, WdsAnswer,
           FrameworkAnswer, FrameworkLost
  <2> QED BY <2>1, MachinesUnchanged
<1>2. ASSUME NEW h \in Handle, ModemClose(h) PROVE TypeOK'
  <2>1. [op |-> "releaseATL", handle |-> h] \in AgpsMsg
    BY DEF AgpsMsg
  <2>2. msgs' \in Seq(AgpsMsg)
    BY <1>2, <2>1, SeqFacts DEF ModemClose, Post, TypeOK
  <2> QED BY <1>1, <1>2, <2>2 DEF ModemClose, TypeOK, Machines
<1>3. ASSUME NEW h \in Handle, NEW n \in Nif, ModemOpen(h, n) PROVE TypeOK'
  <2>1. [op |-> "requestATL", handle |-> h, nif |-> n] \in AgpsMsg
    BY DEF AgpsMsg
  <2>2. msgs' \in Seq(AgpsMsg)
    BY <1>3, <2>1, SeqFacts DEF ModemOpen, Post, TypeOK
  <2> QED BY <1>1, <1>3, <2>2 DEF ModemOpen, TypeOK, Machines
<1>4. CASE ModemSSR
  <2>1. modem' \in [Handle -> ModemState] /\ ssr' \in Nat
    BY <1>4 DEF ModemSSR, TypeOK
  <2> QED BY <1>1, <1>4, <2>1 DEF ModemSSR, TypeOK, Machines
<1>9. CASE NetworkChange
  <2>1. connected' \in BOOLEAN
    BY <1>9 DEF NetworkChange, TypeOK
  <2> QED BY <1>1, <1>9, <2>1 DEF NetworkChange, TypeOK, Machines
<1>5. CASE WdsAnswer
  <2>1. Head(lookups) \in NifPresent /\ Tail(lookups) \in Seq(NifPresent)
    BY <1>5, SeqFacts DEF WdsAnswer, TypeOK
  <2>2. [op |-> "granted", nif |-> Head(lookups)] \in AgpsMsg
    BY <2>1 DEF AgpsMsg
  <2>3. msgs' \in Seq(AgpsMsg)
    BY <1>5, <2>2, SeqFacts DEF WdsAnswer, Post, TypeOK
  <2> QED BY <1>1, <1>5, <2>1, <2>3 DEF WdsAnswer, TypeOK, Machines
<1>6. ASSUME NEW n \in NifPresent, FrameworkAnswer(n) PROVE TypeOK'
  <2>1. framework[n] \in Seq(ConnRequest)
    BY DEF TypeOK
  <2>2. Tail(framework[n]) \in Seq(ConnRequest)
    BY <1>6, <2>1, SeqFacts DEF FrameworkAnswer
  <2>3. framework' \in [NifPresent -> Seq(ConnRequest)]
    BY <1>6, <2>2 DEF FrameworkAnswer, TypeOK
  <2>4. \A op \in {"opened", "denied", "released"} : [op |-> op, nif |-> n] \in AgpsMsg
    BY DEF AgpsMsg
  <2>5. PICK op \in {"opened", "denied", "released"} : Post([op |-> op, nif |-> n])
    BY <1>6 DEF FrameworkAnswer
  <2>6. msgs' \in Seq(AgpsMsg)
    BY <2>4, <2>5, SeqFacts DEF Post, TypeOK
  <2>7. up' \in [NifPresent -> BOOLEAN]
    BY <1>6 DEF FrameworkAnswer, TypeOK
  <2> QED BY <1>1, <1>6, <2>3, <2>6, <2>7 DEF FrameworkAnswer, TypeOK, Machines
<1>7. ASSUME NEW n \in NifPresent, FrameworkLost(n) PROVE TypeOK'
  <2>1. [op |-> "released", nif |-> n] \in AgpsMsg
    BY DEF AgpsMsg
  <2>2. msgs' \in Seq(AgpsMsg)
    BY <1>7, <2>1, SeqFacts DEF FrameworkLost, Post, TypeOK
  <2> QED BY <1>1, <1>7, <2>2 DEF FrameworkLost, TypeOK, Machines
<1>8. TypeOK'
  BY <1>2, <1>3, <1>4, <1>5, <1>6, <1>7, <1>9
<1> QED BY <1>1, <1>8 DEF Machines

(* The adapter thread takes the head message, of a known NIF or handle,    *)
(* and runs one processing method.                                         *)
LEMMA AdapterKeeps == ASSUME IInv, AdapterThread PROVE IInv'
<1> USE DEF TakeMsg
<1>1. msgs # << >> /\ Head(msgs) \in AgpsMsg
  BY SeqFacts DEF IInv, TypeOK, AdapterThread, RequestATL, ReleaseATL,
     AtlOpenSuccess, ReportAtlPdn, ReportAtlOpenFailed, ReportAtlClosed
<1>2. ASSUME Kept', UNCHANGED <<connected, ssr>>, lookups' \in Seq(NifPresent)
      PROVE  IInv'
  BY <1>2 DEF IInv, TypeOK, Kept, Machines, Outside
<1>3. CASE RequestATL
  <2> DEFINE h == Head(msgs).handle  n == Head(msgs).nif
  <2>1. h \in Handle
    BY <1>1, <1>3 DEF RequestATL, AgpsMsg
  <2>2. CASE n \in NifPresent
    BY <1>1, <1>3, <2>1, <2>2, SubscribeKeeps, <1>2 DEF RequestATL, IInv, TypeOK
  <2>3. CASE n \notin NifPresent
    <3>1. Kept'
      BY <1>1, <1>3, <2>3, NoConnKeeps, MachinesUnchanged, TellKeeps
         DEF RequestATL, IInv, Kept
    <3> QED BY <1>3, <3>1, <1>2 DEF RequestATL, IInv, TypeOK
  <2> QED BY <2>2, <2>3
<1>4. CASE ReleaseATL
  <2> DEFINE h == Head(msgs).handle
             found == {n \in NifPresent : h \in subscribers[n]}
             sm == IF "agnss" \in found THEN "agnss" ELSE CHOOSE n \in found : TRUE
  <2>1. CASE found = {}
    BY <1>1, <1>4, <2>1, IgnoreKeeps, <1>2 DEF ReleaseATL, IInv, TypeOK
  <2>2. CASE found # {}
    <3>1. sm \in found
      BY <2>2
    <3>2. sm \in NifPresent /\ h \in subscribers[sm]
      BY <3>1
    <3>3. ProcessUnsubscribe(sm, h)
      BY <1>4, <2>2 DEF ReleaseATL
    <3>4. Kept'
      BY <1>1, <3>2, <3>3, UnsubscribeKeeps
    <3> QED BY <1>4, <3>4, <1>2 DEF ReleaseATL, IInv, TypeOK
  <2> QED BY <2>1, <2>2
<1>5. CASE AtlOpenSuccess
  <2>1. Head(msgs).nif \in NifPresent
    BY <1>1, <1>5 DEF AtlOpenSuccess, AgpsMsg
  <2>2. CASE Wds
    <3>0. lookups' = Append(lookups, Head(msgs).nif)
      BY <1>5, <2>2 DEF AtlOpenSuccess
    <3>1. lookups' \in Seq(NifPresent)
      BY <2>1, <3>0, SeqFacts DEF IInv, TypeOK
    <3>2. Kept'
      BY <1>1, <1>5, <2>2, IgnoreKeeps DEF AtlOpenSuccess
    <3> QED BY <1>5, <3>1, <3>2, <1>2 DEF AtlOpenSuccess
  <2>3. CASE ~Wds
    BY <1>1, <1>5, <2>1, <2>3, GrantedKeeps, <1>2 DEF AtlOpenSuccess, IInv, TypeOK
  <2> QED BY <2>2, <2>3
<1>6. CASE ReportAtlPdn
  <2>1. Head(msgs).nif \in NifPresent
    BY <1>1, <1>6 DEF ReportAtlPdn, AgpsMsg
  <2> QED BY <1>1, <1>6, <2>1, GrantedKeeps, <1>2 DEF ReportAtlPdn, IInv, TypeOK
<1>7. CASE ReportAtlOpenFailed
  <2>1. Head(msgs).nif \in NifPresent
    BY <1>1, <1>7 DEF ReportAtlOpenFailed, AgpsMsg
  <2> QED BY <1>1, <1>7, <2>1, DeniedKeeps, <1>2 DEF ReportAtlOpenFailed, IInv, TypeOK
<1>8. CASE ReportAtlClosed
  <2>1. Head(msgs).nif \in NifPresent
    BY <1>1, <1>8 DEF ReportAtlClosed, AgpsMsg
  <2> QED BY <1>1, <1>8, <2>1, ReleasedKeeps, <1>2 DEF ReportAtlClosed, IInv, TypeOK
<1> QED BY <1>3, <1>4, <1>5, <1>6, <1>7, <1>8 DEF AdapterThread

LEMMA StutterKeeps == ASSUME IInv, UNCHANGED vars PROVE IInv'
BY DEF IInv, TypeOK, StateMatchesSubscribers, OnlyWaitersInactive, Active, vars, smVars

(* The invariant holds in every reachable state, whatever the modem, the   *)
(* network, WDS and the modem's restarts do.                               *)
THEOREM IInvInvariant == Spec => []IInv
<1>1. IInv /\ [Next]_vars => IInv'
  BY AdapterKeeps, EnvironmentKeeps, StutterKeeps DEF Next
<1> QED BY InitIInv, <1>1, PTL DEF Spec

(* Every variable of the AGPS model keeps its type.                        *)
THEOREM TypeCorrect == Spec => []TypeOK
<1>1. IInv => TypeOK
  BY DEF IInv
<1> QED BY IInvInvariant, <1>1, PTL

(* A machine is RELEASED exactly when nobody is subscribed; it has an      *)
(* active subscriber while it waits for or holds the connection, and one   *)
(* to tell while it releases it.                                           *)
THEOREM StateMatches == Spec => []StateMatchesSubscribers
<1>1. IInv => StateMatchesSubscribers
  BY DEF IInv
<1> QED BY IInvInvariant, <1>1, PTL

-----------------------------------------------------------------------------
(* The modem's view of its handles, up to the first restart of the modem.  *)
(* That what the machines know and what the modem knows agree is a fact     *)
(* about the messages between them.                                        *)
RequestFor(m, h) == m.op = "requestATL" /\ m.handle = h

(* A handle is asked for once, while no machine has it. *)
Asked ==
  \A i \in 1..Len(msgs) : \A h \in Handle : RequestFor(msgs[i], h) =>
    /\ modem[h] \in {"opening", "closing"}
    /\ \A n \in NifPresent : h \notin subscribers[n]
    /\ \A j \in 1..Len(msgs) : RequestFor(msgs[j], h) => j = i

(* The end of a handle that is in use again was asked for in its last use:  *)
(* the request of this use comes after it.                                 *)
Ended ==
  \A i \in 1..Len(msgs) : \A h \in Handle :
    msgs[i].op = "releaseATL" /\ msgs[i].handle = h =>
      \/ modem[h] \in {"closing", "closed"}
      \/ \E j \in 1..Len(msgs) : i < j /\ RequestFor(msgs[j], h)

OneMachine ==
  \A m, n \in NifPresent : m # n => subscribers[m] \cap subscribers[n] = {}

(* SubscribersKnownToModem and OpenIsAcquired, before a restart. *)
Known ==
  \A n \in NifPresent : \A h \in subscribers[n] :
    IF h \in inactive[n] THEN modem[h] = "closing" ELSE modem[h] # "closed"

OpenAcquired ==
  \A h \in Handle : modem[h] = "open" =>
    \E n \in NifPresent : state[n] = "ACQUIRED" /\ h \in Active(n)

Agreed ==
  Asked /\ Ended /\ OneMachine /\ Known /\ OpenAcquired

AgreedInv == IInv /\ (ssr = 0 => Agreed)

(* What the adapter thread does to the queue: it takes the first message,   *)
(* and the native handler may add an answer.                               *)
Report == {"opened", "granted", "denied", "released"}

QueueStep ==
  \/ msgs' = Tail(msgs)
  \/ \E m \in AgpsMsg : m.op \in Report /\ msgs' = Append(Tail(msgs), m)

LEMMA TakesFirst ==
  ASSUME TypeOK, msgs # << >>, QueueStep
  PROVE  /\ Len(msgs) \in Nat /\ 1 \in 1..Len(msgs) /\ Head(msgs) = msgs[1]
         /\ \A i \in 1..Len(msgs)' : msgs'[i].op \notin Report =>
              /\ i \in Nat /\ i + 1 \in 1..Len(msgs) /\ msgs'[i] = msgs[i + 1]
         /\ \A i \in 1..Len(msgs) : i # 1 =>
              i \in Nat /\ i - 1 \in 1..Len(msgs)' /\ msgs'[i - 1] = msgs[i]
<1> DEFINE q == msgs
           t == Tail(q)
<1>1. q \in Seq(AgpsMsg)
  BY DEF TypeOK
<1> HIDE DEF q
<1>2. /\ q # << >>
      /\ \/ msgs' = t
         \/ \E m \in AgpsMsg : m.op \in Report /\ msgs' = Append(t, m)
  BY DEF QueueStep, q
<1>3. /\ Len(q) \in Nat \ {0} /\ t \in Seq(AgpsMsg) /\ Len(t) = Len(q) - 1
      /\ Head(q) = q[1] /\ 1 \in 1..Len(q)
      /\ \A i \in 1..Len(t) : i \in Nat /\ i + 1 \in 1..Len(q) /\ t[i] = q[i + 1]
      /\ \A i \in 1..Len(q) : i # 1 => i \in Nat /\ i - 1 \in 1..Len(t) /\ t[i - 1] = q[i]
  BY <1>1, <1>2
<1> HIDE DEF t
<1>4. CASE msgs' = t
  BY <1>3, <1>4 DEF q
<1>5. ASSUME NEW m \in AgpsMsg, m.op \in Report, msgs' = Append(t, m)
      PROVE  /\ \A i \in 1..Len(msgs)' : msgs'[i].op \notin Report =>
                  i \in 1..Len(t) /\ msgs'[i] = t[i]
             /\ \A i \in 1..Len(t) : i \in 1..Len(msgs)' /\ msgs'[i] = t[i]
  BY <1>3, <1>5
<1> QED
  BY <1>2, <1>3, <1>4, <1>5 DEF q

(* The messages keep agreeing with the modem when the thread tells it of   *)
(* handles that are not asked for in the rest of the queue.                *)
Told ==
  \A h \in Handle : modem'[h] # modem[h] =>
    /\ modem'[h] = "closed" \/ (modem[h] = "opening" /\ modem'[h] = "open")
    /\ \A i \in 1..Len(msgs) : RequestFor(msgs[i], h) => i = 1

LEMMA MessagesAgree ==
  ASSUME TypeOK, Asked, Ended, msgs # << >>, QueueStep, Told,
         \A n \in NifPresent : \A h \in subscribers'[n] :
           h \in subscribers[n] \/ RequestFor(msgs[1], h)
  PROVE  Asked' /\ Ended'
<1> DEFINE last == Len(msgs)
<1>1. /\ last \in Nat /\ 1 \in 1..last
      /\ \A i \in 1..Len(msgs)' : msgs'[i].op \notin Report =>
           i \in Nat /\ i + 1 \in 1..last /\ msgs'[i] = msgs[i + 1]
      /\ \A i \in 1..last : i # 1 =>
           i \in Nat /\ i - 1 \in 1..Len(msgs)' /\ msgs'[i - 1] = msgs[i]
  BY TakesFirst
<1>2. "requestATL" \notin Report /\ "releaseATL" \notin Report
  BY DEF Report
<1> HIDE DEF last
<1>3. ASSUME NEW i \in 1..Len(msgs)', NEW h \in Handle, RequestFor(msgs'[i], h)
      PROVE  /\ modem'[h] \in {"opening", "closing"}
             /\ \A n \in NifPresent : h \notin subscribers'[n]
             /\ \A j \in 1..Len(msgs)' : RequestFor(msgs'[j], h) => j = i
  <2>1. /\ i \in Nat /\ i + 1 \in 1..last /\ msgs'[i] = msgs[i + 1] /\ i + 1 # 1
    <3>1. /\ i \in Nat /\ i + 1 \in 1..last /\ msgs'[i] = msgs[i + 1]
      BY <1>1, <1>2, <1>3 DEF RequestFor
    <3> QED
      BY <3>1, <1>1
  <2>2. /\ modem[h] \in {"opening", "closing"}
        /\ \A n \in NifPresent : h \notin subscribers[n]
        /\ \A j \in 1..last : RequestFor(msgs[j], h) => j = i + 1
    BY <1>3, <2>1 DEF Asked, last
  <2>3. modem'[h] = modem[h]
    BY <1>3, <2>1 DEF Told, last
  <2>4. ~RequestFor(msgs[1], h)
    BY <1>1, <2>1, <2>2
  <2>5. ASSUME NEW j \in 1..Len(msgs)', RequestFor(msgs'[j], h)
        PROVE  j = i
    <3>1. j \in Nat /\ j + 1 \in 1..last /\ msgs'[j] = msgs[j + 1]
      BY <1>1, <1>2, <2>5 DEF RequestFor
    <3>2. j + 1 = i + 1
      BY <2>2, <2>5, <3>1
    <3> QED
      BY <2>1, <3>1, <3>2
  <2> QED
    BY <2>2, <2>3, <2>4, <2>5
<1>4. ASSUME NEW i \in 1..Len(msgs)', NEW h \in Handle,
             msgs'[i].op = "releaseATL", msgs'[i].handle = h
      PROVE  \/ modem'[h] \in {"closing", "closed"}
             \/ \E j \in 1..Len(msgs)' : i < j /\ RequestFor(msgs'[j], h)
  <2>1. i \in Nat /\ i + 1 \in 1..last /\ msgs'[i] = msgs[i + 1]
    BY <1>1, <1>2, <1>4
  <2>2. \/ modem[h] \in {"closing", "closed"}
        \/ \E j \in 1..last : i + 1 < j /\ RequestFor(msgs[j], h)
    BY <1>4, <2>1 DEF Ended, last
  <2>3. CASE modem[h] \in {"closing", "closed"}
    BY <2>3 DEF Told
  <2>4. ASSUME NEW j \in 1..last, i + 1 < j, RequestFor(msgs[j], h)
        PROVE  \E k \in 1..Len(msgs)' : i < k /\ RequestFor(msgs'[k], h)
    <3>1. j # 1
      BY <2>1, <2>4
    <3>2. j \in Nat /\ j - 1 \in 1..Len(msgs)' /\ msgs'[j - 1] = msgs[j]
      BY <1>1, <3>1
    <3>3. i < j - 1
      BY <2>1, <2>4, <3>2
    <3> QED
      BY <2>4, <3>2, <3>3
  <2> QED
    BY <2>2, <2>3, <2>4
<1>5. Asked'
  BY <1>3 DEF Asked
<1>6. Ended'
  BY <1>4 DEF Ended
<1> QED
  BY <1>5, <1>6

(* What each processing method does to this agreement. *)
SubscribersKept ==
  \A n \in NifPresent : \A h \in subscribers'[n] :
    h \in subscribers[n] \/ RequestFor(msgs[1], h)

Serves ==
  /\ QueueStep /\ Told /\ SubscribersKept
  /\ OneMachine' /\ Known' /\ OpenAcquired'

LEMMA NoConnQueue == ASSUME NoConnRequest PROVE QueueStep
BY DEF NoConnRequest, QueueStep

LEMMA ConnQueue ==
  ASSUME NEW n \in NifPresent, NEW request \in ConnRequest,
         RequestOrReleaseDataConn(n, request)
  PROVE  QueueStep
<1>1. NativeAnswer(n, request) \in AgpsMsg /\ NativeAnswer(n, request).op \in Report
  BY DEF NativeAnswer, AgpsMsg, Report
<1> QED
  BY <1>1 DEF RequestOrReleaseDataConn, QueueStep

LEMMA SubscribeServes ==
  ASSUME IInv, Agreed, msgs # << >>, NEW n \in NifPresent, NEW h \in Handle,
         RequestFor(Head(msgs), h), ProcessSubscribe(n, h)
  PROVE  Serves
<1>1. QueueStep
  BY NoConnQueue, ConnQueue DEF ProcessSubscribe
<1>2. TypeOK /\ StateMatchesSubscribers /\ RequestFor(msgs[1], h) /\ 1 \in 1..Len(msgs)
  BY <1>1, TakesFirst DEF IInv
<1>3. /\ modem[h] \in {"opening", "closing"}
      /\ \A m \in NifPresent : h \notin subscribers[m]
      /\ \A j \in 1..Len(msgs) : RequestFor(msgs[j], h) => j = 1
  BY <1>2 DEF Agreed, Asked
<1>4. \A g \in Handle :
        modem'[g] = IF g = h /\ state[n] = "ACQUIRED" /\ modem[h] = "opening" THEN "open"
                    ELSE modem[g]
  BY DEF ProcessSubscribe, Tell
<1>5. /\ \A m \in NifPresent :
           /\ subscribers'[m] = IF m = n THEN subscribers[n] \cup {h} ELSE subscribers[m]
           /\ inactive'[m] = inactive[m]
      /\ \A m \in NifPresent : state[m] = "ACQUIRED" => state'[m] = "ACQUIRED"
  BY <1>2 DEF ProcessSubscribe, Become, TypeOK
<1>6. h \notin inactive[n]
  BY <1>2, <1>3 DEF StateMatchesSubscribers
<1>7. Told
  BY <1>3, <1>4 DEF Told
<1>8. SubscribersKept
  BY <1>2, <1>5 DEF SubscribersKept
<1>9. OneMachine'
  BY <1>3, <1>5 DEF Agreed, OneMachine
<1>10. Known'
  <2>1. ASSUME NEW m \in NifPresent, NEW g \in subscribers'[m]
        PROVE  IF g \in inactive'[m] THEN modem'[g] = "closing" ELSE modem'[g] # "closed"
    <3>1. CASE g = h
      <4>1. m = n
        BY <1>3, <1>5, <2>1, <3>1
      <4> QED
        BY <1>3, <1>4, <1>5, <1>6, <3>1, <4>1
    <3>2. CASE g # h
      <4>1. g \in subscribers[m] /\ g \in Handle
        BY <1>2, <1>5, <2>1, <3>2 DEF TypeOK
      <4>2. IF g \in inactive[m] THEN modem[g] = "closing" ELSE modem[g] # "closed"
        BY <4>1 DEF Agreed, Known
      <4> QED
        BY <1>4, <1>5, <3>2, <4>1, <4>2
    <3> QED
      BY <3>1, <3>2
  <2> QED
    BY <2>1 DEF Known
<1>11. OpenAcquired'
  BY <1>3, <1>4, <1>5, <1>6 DEF Agreed, OpenAcquired, Active
<1> QED
  BY <1>1, <1>7, <1>8, <1>9, <1>10, <1>11 DEF Serves

LEMMA UnsubscribeServes ==
  ASSUME IInv, Agreed, msgs # << >>, NEW n \in NifPresent, NEW h \in subscribers[n],
         Head(msgs).op = "releaseATL", Head(msgs).handle = h, ProcessUnsubscribe(n, h)
  PROVE  Serves
<1>0. TypeOK /\ StateMatchesSubscribers /\ state[n] # "RELEASED" /\ h \in Handle
  BY DEF IInv, StateMatchesSubscribers, TypeOK
<1>1. QueueStep
  BY <1>0, NoConnQueue, ConnQueue DEF ProcessUnsubscribe
<1>2. Head(msgs) = msgs[1] /\ 1 \in 1..Len(msgs)
  BY <1>0, <1>1, TakesFirst
<1>3. \A j \in 1..Len(msgs) : ~RequestFor(msgs[j], h)
  BY <1>0 DEF Agreed, Asked
<1>4. modem[h] = "closing"
  <2>1. modem[h] \in {"closing", "closed"}
    BY <1>0, <1>2, <1>3 DEF Agreed, Ended
  <2> QED
    BY <2>1 DEF Agreed, Known
<1>5. \A g \in Handle :
        modem'[g] = IF g = h /\ ~WaitForClose THEN "closed" ELSE modem[g]
  BY <1>0 DEF ProcessUnsubscribe, Tell, TypeOK
<1>6. \A m \in NifPresent \ {n} :
        subscribers'[m] = subscribers[m] /\ inactive'[m] = inactive[m] /\ state'[m] = state[m]
  BY <1>0 DEF ProcessUnsubscribe, Become, TypeOK
<1>7. /\ subscribers'[n] = IF WaitForClose THEN subscribers[n] ELSE subscribers[n] \ {h}
      /\ inactive'[n] = IF WaitForClose THEN inactive[n] \cup {h} ELSE inactive[n] \ {h}
      /\ ~(subscribers'[n] \subseteq inactive'[n]) => state'[n] = state[n]
  BY <1>0 DEF ProcessUnsubscribe, Become, TypeOK
<1>8. Told
  BY <1>3, <1>5 DEF Told
<1>9. SubscribersKept
  BY <1>6, <1>7 DEF SubscribersKept
<1>10. OneMachine'
  BY <1>6, <1>7 DEF Agreed, OneMachine
<1>11. \A m \in NifPresent \ {n} : h \notin subscribers[m]
  BY DEF Agreed, OneMachine
<1>12. Known'
  <2>1. ASSUME NEW m \in NifPresent, NEW g \in subscribers'[m]
        PROVE  IF g \in inactive'[m] THEN modem'[g] = "closing" ELSE modem'[g] # "closed"
    <3>1. g \in Handle /\ g \in subscribers[m]
      BY <1>0, <1>6, <1>7, <2>1 DEF TypeOK
    <3>2. IF g \in inactive[m] THEN modem[g] = "closing" ELSE modem[g] # "closed"
      BY <3>1 DEF Agreed, Known
    <3>3. CASE m = n /\ g = h
      BY <1>4, <1>5, <1>7, <2>1, <3>1, <3>3
    <3>4. CASE m = n /\ g # h
      BY <1>5, <1>7, <3>1, <3>2, <3>4
    <3>5. CASE m # n
      BY <1>5, <1>6, <1>11, <3>1, <3>2, <3>5
    <3> QED
      BY <3>3, <3>4, <3>5
  <2> QED
    BY <2>1 DEF Known
<1>13. OpenAcquired'
  <2>1. ASSUME NEW g \in Handle, modem'[g] = "open"
        PROVE  \E m \in NifPresent :
                 state'[m] = "ACQUIRED" /\ g \in subscribers'[m] \ inactive'[m]
    <3>1. g # h /\ modem[g] = "open"
      BY <1>4, <1>5, <2>1
    <3>2. PICK m \in NifPresent : state[m] = "ACQUIRED" /\ g \in subscribers[m] \ inactive[m]
      BY <3>1 DEF Agreed, OpenAcquired, Active
    <3>3. g \in subscribers'[m] \ inactive'[m]
      BY <1>6, <1>7, <3>1, <3>2
    <3> QED
      BY <1>6, <1>7, <3>2, <3>3
  <2> QED
    BY <2>1 DEF OpenAcquired, Active
<1> QED
  BY <1>1, <1>8, <1>9, <1>10, <1>12, <1>13 DEF Serves

(* A machine that tells its own subscribers tells no one who is asked for. *)
LEMMA OwnTold ==
  ASSUME TypeOK, Asked, NEW n \in NifPresent, NEW S \in SUBSET subscribers[n], NEW event,
         Tell(event, S)
  PROVE  /\ Told
         /\ \A g \in Handle \ S : modem'[g] = modem[g]
         /\ event # "GRANTED" => \A g \in S : modem'[g] = "closed"
         /\ event = "GRANTED" => \A g \in S :
              modem'[g] = IF modem[g] = "opening" THEN "open" ELSE modem[g]
<1>1. S \subseteq Handle
  BY DEF TypeOK
<1>2. \A g \in S : \A i \in 1..Len(msgs) : ~RequestFor(msgs[i], g)
  BY <1>1 DEF Asked
<1>3. \A g \in Handle \ S : modem'[g] = modem[g]
  BY DEF Tell
<1>4. ASSUME event # "GRANTED" PROVE \A g \in S : modem'[g] = "closed"
  BY <1>1, <1>4 DEF Tell
<1>5. ASSUME event = "GRANTED"
      PROVE  \A g \in S : modem'[g] = IF modem[g] = "opening" THEN "open" ELSE modem[g]
  BY <1>1, <1>5 DEF Tell
<1>6. Told
  BY <1>1, <1>2, <1>3, <1>4, <1>5 DEF Told
<1> QED
  BY <1>3, <1>4, <1>5, <1>6

LEMMA GrantedServes ==
  ASSUME IInv, Agreed, msgs # << >>, NEW n \in NifPresent, state[n] = "PENDING",
         ProcessGranted(n)
  PROVE  Serves
<1>1. QueueStep
  BY NoConnQueue DEF ProcessGranted
<1>2. TypeOK /\ Asked /\ Active(n) \in SUBSET subscribers[n] /\ Tell("GRANTED", Active(n))
  BY DEF IInv, Agreed, Active, ProcessGranted
<1>3. /\ subscribers' = subscribers /\ inactive' = inactive /\ state'[n] = "ACQUIRED"
      /\ \A m \in NifPresent \ {n} : state'[m] = state[m]
  BY <1>2 DEF ProcessGranted, Become, TypeOK
<1>4. /\ Told
      /\ \A g \in Handle \ Active(n) : modem'[g] = modem[g]
      /\ \A g \in Active(n) : modem'[g] = IF modem[g] = "opening" THEN "open" ELSE modem[g]
  BY <1>2, OwnTold
<1>5. SubscribersKept /\ OneMachine'
  BY <1>3 DEF SubscribersKept, Agreed, OneMachine
<1>6. Known'
  <2>1. \A m \in NifPresent : \A g \in subscribers[m] :
          /\ g \in Handle
          /\ modem'[g] = modem[g] \/ (modem[g] = "opening" /\ modem'[g] = "open")
    BY <1>2, <1>4 DEF TypeOK
  <2> QED
    BY <1>3, <2>1 DEF Agreed, Known
<1>7. OpenAcquired'
  BY <1>3, <1>4 DEF Agreed, OpenAcquired, Active
<1> QED
  BY <1>1, <1>4, <1>5, <1>6, <1>7 DEF Serves

LEMMA FinishReleaseServes ==
  ASSUME IInv, Agreed, msgs # << >>, NEW n \in NifPresent, state[n] = "RELEASING",
         FinishRelease(n)
  PROVE  Serves
<1>1. QueueStep
  BY NoConnQueue, ConnQueue DEF FinishRelease
<1> DEFINE S == subscribers[n] \cap inactive[n]
<1>2. TypeOK /\ Asked /\ S \in SUBSET subscribers[n] /\ Tell("RELEASED", S)
  BY DEF IInv, Agreed, FinishRelease
<1>3. /\ subscribers'[n] = subscribers[n] \ inactive[n] /\ inactive'[n] = {}
      /\ \A m \in NifPresent \ {n} :
           subscribers'[m] = subscribers[m] /\ inactive'[m] = inactive[m] /\ state'[m] = state[m]
  BY <1>2 DEF FinishRelease, Become, TypeOK, Active
<1>4. /\ Told
      /\ \A g \in Handle \ S : modem'[g] = modem[g]
      /\ \A g \in S : modem'[g] = "closed"
  BY <1>2, OwnTold
<1>5. SubscribersKept /\ OneMachine'
  BY <1>3 DEF SubscribersKept, Agreed, OneMachine
<1>6. Known'
  <2>1. ASSUME NEW m \in NifPresent, NEW g \in subscribers'[m]
        PROVE  IF g \in inactive'[m] THEN modem'[g] = "closing" ELSE modem'[g] # "closed"
    <3>1. g \in Handle /\ g \in subscribers[m]
      BY <1>2, <1>3 DEF TypeOK
    <3>2. IF g \in inactive[m] THEN modem[g] = "closing" ELSE modem[g] # "closed"
      BY <3>1 DEF Agreed, Known
    <3>3. g \notin S
      BY <1>3, <3>1 DEF Agreed, OneMachine
    <3> QED
      BY <1>3, <1>4, <3>1, <3>2, <3>3
  <2> QED
    BY <2>1 DEF Known
<1>7. OpenAcquired'
  <2>1. ASSUME NEW g \in Handle, modem'[g] = "open"
        PROVE  \E m \in NifPresent :
                 state'[m] = "ACQUIRED" /\ g \in subscribers'[m] \ inactive'[m]
    <3>1. modem[g] = "open"
      BY <1>4, <2>1
    <3>2. PICK m \in NifPresent : state[m] = "ACQUIRED" /\ g \in subscribers[m] \ inactive[m]
      BY <3>1 DEF Agreed, OpenAcquired, Active
    <3> QED
      BY <1>3, <3>2
  <2> QED
    BY <2>1 DEF OpenAcquired, Active
<1> QED
  BY <1>1, <1>4, <1>5, <1>6, <1>7 DEF Serves

LEMMA DropAllServes ==
  ASSUME IInv, Agreed, msgs # << >>, NEW n \in NifPresent,
         NEW event \in {"RELEASED", "DENIED"}, DropAll(n, event)
  PROVE  Serves
<1>1. QueueStep
  BY NoConnQueue DEF DropAll
<1>2. TypeOK /\ Asked /\ subscribers[n] \in SUBSET subscribers[n] /\ Tell(event, subscribers[n])
  BY DEF IInv, Agreed, DropAll
<1>3. /\ subscribers'[n] = {}
      /\ \A m \in NifPresent \ {n} :
           subscribers'[m] = subscribers[m] /\ inactive'[m] = inactive[m] /\ state'[m] = state[m]
  BY <1>2 DEF DropAll, Become, TypeOK
<1>4. /\ Told
      /\ \A g \in Handle \ subscribers[n] : modem'[g] = modem[g]
      /\ \A g \in subscribers[n] : modem'[g] = "closed"
  BY <1>2, OwnTold
<1>5. SubscribersKept /\ OneMachine'
  BY <1>3 DEF SubscribersKept, Agreed, OneMachine
<1>6. Known'
  <2>1. ASSUME NEW m \in NifPresent, NEW g \in subscribers'[m]
        PROVE  m # n /\ g \in Handle \ subscribers[n] /\ g \in subscribers[m]
    BY <1>2, <1>3 DEF Agreed, OneMachine, TypeOK
  <2> QED
    BY <1>3, <1>4, <2>1 DEF Agreed, Known
<1>7. OpenAcquired'
  <2>1. ASSUME NEW g \in Handle, modem'[g] = "open"
        PROVE  \E m \in NifPresent :
                 state'[m] = "ACQUIRED" /\ g \in subscribers'[m] \ inactive'[m]
    <3>1. g \notin subscribers[n] /\ modem[g] = "open"
      BY <1>4, <2>1
    <3>2. PICK m \in NifPresent : state[m] = "ACQUIRED" /\ g \in subscribers[m] \ inactive[m]
      BY <3>1 DEF Agreed, OpenAcquired, Active
    <3> QED
      BY <1>3, <3>1, <3>2
  <2> QED
    BY <2>1 DEF OpenAcquired, Active
<1> QED
  BY <1>1, <1>4, <1>5, <1>6, <1>7 DEF Serves

(* No machine changes, and only handles no machine knows of are told.      *)
LEMMA IgnoreServes ==
  ASSUME IInv, Agreed, msgs # << >>, NoConnRequest, UNCHANGED smVars, Told,
         \A h \in Handle : modem'[h] # modem[h] =>
           modem'[h] # "open" /\ \A n \in NifPresent : h \notin subscribers[n]
  PROVE  Serves
<1>1. QueueStep
  BY NoConnQueue
<1>2. TypeOK
  BY DEF IInv
<1>3. SubscribersKept /\ OneMachine'
  BY DEF SubscribersKept, Agreed, OneMachine, smVars
<1>4. Known'
  BY <1>2 DEF Agreed, Known, smVars, TypeOK
<1>5. OpenAcquired'
  BY DEF Agreed, OpenAcquired, smVars, Active
<1> QED
  BY <1>1, <1>3, <1>4, <1>5 DEF Serves

LEMMA ReleasedServes ==
  ASSUME IInv, Agreed, msgs # << >>, NEW n \in NifPresent, ProcessReleased(n)
  PROVE  Serves
<1>1. CASE state[n] = "ACQUIRED"
  BY <1>1, DropAllServes DEF ProcessReleased
<1>2. CASE state[n] = "RELEASING"
  BY <1>2, FinishReleaseServes DEF ProcessReleased
<1>3. CASE state[n] \notin {"ACQUIRED", "RELEASING"}
  BY <1>3, IgnoreServes DEF ProcessReleased, IgnoreEvent, Told
<1> QED
  BY <1>1, <1>2, <1>3

LEMMA DeniedServes ==
  ASSUME IInv, Agreed, msgs # << >>, NEW n \in NifPresent, ProcessDenied(n)
  PROVE  Serves
<1>1. CASE state[n] = "PENDING"
  BY <1>1, DropAllServes DEF ProcessDenied
<1>2. CASE state[n] = "RELEASING"
  BY <1>2, FinishReleaseServes DEF ProcessDenied
<1>3. CASE state[n] \notin {"PENDING", "RELEASING"}
  BY <1>3, IgnoreServes DEF ProcessDenied, IgnoreEvent, Told
<1> QED
  BY <1>1, <1>2, <1>3

LEMMA GrantServes ==
  ASSUME IInv, Agreed, msgs # << >>, NEW n \in NifPresent, ProcessGranted(n)
  PROVE  Serves
<1>1. CASE state[n] # "PENDING"
  BY <1>1, IgnoreServes DEF ProcessGranted, Told
<1> QED
  BY <1>1, GrantedServes

(* A request that names a NIF without a machine is denied. *)
LEMMA NoMachineServes ==
  ASSUME IInv, Agreed, msgs # << >>, NEW h \in Handle, RequestFor(Head(msgs), h),
         Tell("DENIED", {h}), NoConnRequest, UNCHANGED smVars
  PROVE  Serves
<1>1. QueueStep /\ TypeOK
  BY NoConnQueue DEF IInv
<1>2. RequestFor(msgs[1], h) /\ 1 \in 1..Len(msgs)
  BY <1>1, TakesFirst
<1>3. /\ \A n \in NifPresent : h \notin subscribers[n]
      /\ \A j \in 1..Len(msgs) : RequestFor(msgs[j], h) => j = 1
  BY <1>2 DEF Agreed, Asked
<1>4. \A g \in Handle : modem'[g] = IF g = h THEN "closed" ELSE modem[g]
  BY DEF Tell
<1>5. Told
  BY <1>3, <1>4 DEF Told
<1> QED
  BY <1>3, <1>4, <1>5, IgnoreServes

LEMMA AdapterAgrees == ASSUME IInv, Agreed, AdapterThread PROVE Agreed'
<1> USE DEF TakeMsg
<1>1. msgs # << >> /\ Head(msgs) \in AgpsMsg
  BY SeqFacts DEF IInv, TypeOK, AdapterThread, RequestATL, ReleaseATL,
     AtlOpenSuccess, ReportAtlPdn, ReportAtlOpenFailed, ReportAtlClosed
<1>2. ASSUME Serves PROVE Agreed'
  <2>1. Head(msgs) = msgs[1] /\ TypeOK
    BY <1>1, <1>2, TakesFirst DEF Serves, IInv
  <2>2. Asked' /\ Ended'
    BY <1>1, <1>2, <2>1, MessagesAgree DEF Serves, SubscribersKept, Agreed
  <2> QED
    BY <1>2, <2>2 DEF Serves, Agreed
<1>3. CASE RequestATL
  <2> DEFINE h == Head(msgs).handle  n == Head(msgs).nif
  <2>1. h \in Handle /\ RequestFor(Head(msgs), h)
    BY <1>1, <1>3 DEF RequestATL, AgpsMsg, RequestFor
  <2>2. CASE n \in NifPresent
    BY <1>1, <1>2, <1>3, <2>1, <2>2, SubscribeServes DEF RequestATL
  <2>3. CASE n \notin NifPresent
    BY <1>1, <1>2, <1>3, <2>1, <2>3, NoMachineServes DEF RequestATL
  <2> QED
    BY <2>2, <2>3
<1>4. CASE ReleaseATL
  <2> DEFINE h == Head(msgs).handle
             found == {n \in NifPresent : h \in subscribers[n]}
             sm == IF "agnss" \in found THEN "agnss" ELSE CHOOSE n \in found : TRUE
  <2>1. CASE found = {}
    BY <1>1, <1>2, <1>4, <2>1, IgnoreServes DEF ReleaseATL, IgnoreEvent, Told
  <2>2. CASE found # {}
    <3>1. sm \in found
      BY <2>2
    <3>2. sm \in NifPresent /\ h \in subscribers[sm]
      BY <3>1
    <3>3. ProcessUnsubscribe(sm, h) /\ Head(msgs).op = "releaseATL"
      BY <1>4, <2>2 DEF ReleaseATL
    <3> HIDE DEF sm
    <3>4. Serves
      BY <1>1, <3>2, <3>3, UnsubscribeServes
    <3> QED
      BY <1>2, <3>4
  <2> QED
    BY <2>1, <2>2
<1>5. CASE AtlOpenSuccess
  <2>1. Head(msgs).nif \in NifPresent
    BY <1>1, <1>5 DEF AtlOpenSuccess, AgpsMsg
  <2>2. CASE Wds
    BY <1>1, <1>2, <1>5, <2>2, IgnoreServes DEF AtlOpenSuccess, IgnoreEvent, Told
  <2>3. CASE ~Wds
    BY <1>1, <1>2, <1>5, <2>1, <2>3, GrantServes DEF AtlOpenSuccess
  <2> QED
    BY <2>2, <2>3
<1>6. CASE ReportAtlPdn
  <2>1. Head(msgs).nif \in NifPresent
    BY <1>1, <1>6 DEF ReportAtlPdn, AgpsMsg
  <2> QED
    BY <1>1, <1>2, <1>6, <2>1, GrantServes DEF ReportAtlPdn
<1>7. CASE ReportAtlOpenFailed
  <2>1. Head(msgs).nif \in NifPresent
    BY <1>1, <1>7 DEF ReportAtlOpenFailed, AgpsMsg
  <2> QED
    BY <1>1, <1>2, <1>7, <2>1, DeniedServes DEF ReportAtlOpenFailed
<1>8. CASE ReportAtlClosed
  <2>1. Head(msgs).nif \in NifPresent
    BY <1>1, <1>8 DEF ReportAtlClosed, AgpsMsg
  <2> QED
    BY <1>1, <1>2, <1>8, <2>1, ReleasedServes DEF ReportAtlClosed
<1> QED
  BY <1>3, <1>4, <1>5, <1>6, <1>7, <1>8 DEF AdapterThread

(* What a message at the end of the queue changes for those before it.     *)
LEMMA Posted ==
  ASSUME TypeOK, NEW m \in AgpsMsg, Post(m)
  PROVE  /\ Len(msgs) \in Nat /\ Len(msgs)' = Len(msgs) + 1
         /\ msgs'[Len(msgs) + 1] = m
         /\ \A i \in 1..Len(msgs) : i \in Nat /\ i \in 1..Len(msgs)' /\ msgs'[i] = msgs[i]
         /\ \A i \in 1..Len(msgs)' : i \in 1..Len(msgs) \/ i = Len(msgs) + 1
BY DEF TypeOK, Post

LEMMA ReportAgrees ==
  ASSUME IInv, Agreed, NEW m \in AgpsMsg, m.op \in Report, Post(m), UNCHANGED <<smVars, modem>>
  PROVE  Agreed'
<1> DEFINE last == Len(msgs)
<1>1. /\ last \in Nat /\ msgs'[last + 1] = m
      /\ \A i \in 1..last : i \in 1..Len(msgs)' /\ msgs'[i] = msgs[i]
      /\ \A i \in 1..Len(msgs)' : i \in 1..last \/ i = last + 1
  BY Posted DEF IInv
<1>2. \A i \in 1..Len(msgs)' : msgs'[i].op \in {"requestATL", "releaseATL"} =>
        i \in 1..last /\ msgs'[i] = msgs[i]
  BY <1>1 DEF Report
<1>3. Asked'
  BY <1>2 DEF Agreed, Asked, RequestFor, smVars
<1>4. Ended'
  <2>1. ASSUME NEW i \in 1..Len(msgs)', NEW h \in Handle,
               msgs'[i].op = "releaseATL", msgs'[i].handle = h
        PROVE  \/ modem'[h] \in {"closing", "closed"}
               \/ \E j \in 1..Len(msgs)' : i < j /\ RequestFor(msgs'[j], h)
    <3>1. \/ modem[h] \in {"closing", "closed"}
          \/ \E j \in 1..last : i < j /\ RequestFor(msgs[j], h)
      BY <1>2, <2>1 DEF Agreed, Ended
    <3> HIDE DEF last
    <3> QED
      BY <1>1, <3>1
  <2> QED
    BY <2>1 DEF Ended
<1>5. OneMachine' /\ Known' /\ OpenAcquired'
  BY DEF Agreed, OneMachine, Known, OpenAcquired, Active, smVars
<1> QED
  BY <1>3, <1>4, <1>5 DEF Agreed

LEMMA OpenAgrees ==
  ASSUME IInv, Agreed, NEW h \in Handle, NEW n \in Nif, ModemOpen(h, n)
  PROVE  Agreed'
<1> DEFINE last == Len(msgs)
           m == [op |-> "requestATL", handle |-> h, nif |-> n]
<1>1. m \in AgpsMsg /\ RequestFor(m, h) /\ m.op # "releaseATL"
      /\ \A g \in Handle : RequestFor(m, g) => g = h
  BY DEF AgpsMsg, RequestFor
<1>2. Post(m) /\ TypeOK
  BY DEF ModemOpen, IInv
<1> HIDE DEF m
<1>3. /\ last \in Nat /\ Len(msgs)' = last + 1 /\ msgs'[last + 1] = m
      /\ \A i \in 1..last : i \in Nat /\ i \in 1..Len(msgs)' /\ msgs'[i] = msgs[i]
      /\ \A i \in 1..Len(msgs)' : i \in 1..last \/ i = last + 1
  BY <1>1, <1>2, Posted
<1>4. /\ modem[h] = "closed"
      /\ \A g \in Handle : modem'[g] = IF g = h THEN "opening" ELSE modem[g]
      /\ UNCHANGED smVars
  BY <1>2 DEF ModemOpen, TypeOK
<1>5. \A k \in NifPresent : h \notin subscribers[k]
  BY <1>4 DEF Agreed, Known, IInv, StateMatchesSubscribers
<1> HIDE DEF last
<1>6. \A i \in 1..last : ~RequestFor(msgs[i], h)
  BY <1>4 DEF Agreed, Asked, last
<1>7. Asked'
  <2>1. ASSUME NEW i \in 1..Len(msgs)', NEW g \in Handle, RequestFor(msgs'[i], g)
        PROVE  /\ modem'[g] \in {"opening", "closing"}
               /\ \A k \in NifPresent : g \notin subscribers'[k]
               /\ \A j \in 1..Len(msgs)' : RequestFor(msgs'[j], g) => j = i
    <3>1. CASE g = h
      <4>1. \A j \in 1..Len(msgs)' : RequestFor(msgs'[j], h) => j = last + 1
        BY <1>3, <1>6
      <4> QED
        BY <1>4, <1>5, <2>1, <3>1, <4>1 DEF smVars
    <3>2. CASE g # h
      <4>1. \A j \in 1..Len(msgs)' : RequestFor(msgs'[j], g) =>
              j \in 1..last /\ RequestFor(msgs[j], g)
        BY <1>1, <1>3, <3>2
      <4> QED
        BY <1>4, <2>1, <3>2, <4>1 DEF Agreed, Asked, last, smVars
    <3> QED
      BY <3>1, <3>2
  <2> QED
    BY <2>1 DEF Asked
<1>8. Ended'
  <2>1. ASSUME NEW i \in 1..Len(msgs)', NEW g \in Handle,
               msgs'[i].op = "releaseATL", msgs'[i].handle = g
        PROVE  \/ modem'[g] \in {"closing", "closed"}
               \/ \E j \in 1..Len(msgs)' : i < j /\ RequestFor(msgs'[j], g)
    <3>1. i \in 1..last /\ i \in Nat /\ msgs'[i] = msgs[i]
      BY <1>1, <1>3, <2>1
    <3>2. CASE g = h
      <4>1. last + 1 \in 1..Len(msgs)' /\ i < last + 1
        BY <1>3, <3>1
      <4> QED
        BY <1>1, <1>3, <3>2, <4>1
    <3>3. CASE g # h
      <4>1. \/ modem[g] \in {"closing", "closed"}
            \/ \E j \in 1..last : i < j /\ RequestFor(msgs[j], g)
        BY <2>1, <3>1 DEF Agreed, Ended, last
      <4> QED
        BY <1>3, <1>4, <3>3, <4>1
    <3> QED
      BY <3>2, <3>3
  <2> QED
    BY <2>1 DEF Ended
<1>9. OneMachine'
  BY <1>4 DEF Agreed, OneMachine, smVars
<1>10. Known'
  BY <1>2, <1>4, <1>5 DEF Agreed, Known, smVars, TypeOK
<1>11. OpenAcquired'
  BY <1>4 DEF Agreed, OpenAcquired, Active, smVars
<1> QED
  BY <1>7, <1>8, <1>9, <1>10, <1>11 DEF Agreed

LEMMA CloseAgrees ==
  ASSUME IInv, Agreed, NEW h \in Handle, ModemClose(h)
  PROVE  Agreed'
<1> DEFINE last == Len(msgs)
           m == [op |-> "releaseATL", handle |-> h]
<1>1. m \in AgpsMsg /\ m.handle = h /\ \A g \in Handle : ~RequestFor(m, g)
  BY DEF AgpsMsg, RequestFor
<1>2. Post(m) /\ TypeOK
  BY DEF ModemClose, IInv
<1> HIDE DEF m
<1>3. /\ last \in Nat /\ Len(msgs)' = last + 1 /\ msgs'[last + 1] = m
      /\ \A i \in 1..last : i \in Nat /\ i \in 1..Len(msgs)' /\ msgs'[i] = msgs[i]
      /\ \A i \in 1..Len(msgs)' : i \in 1..last \/ i = last + 1
  BY <1>1, <1>2, Posted
<1>4. /\ modem[h] \in {"opening", "open"}
      /\ \A g \in Handle : modem'[g] = IF g = h THEN "closing" ELSE modem[g]
      /\ UNCHANGED smVars
  BY <1>2 DEF ModemClose, TypeOK
<1> HIDE DEF last
<1>5. \A i \in 1..Len(msgs)' : \A g \in Handle : RequestFor(msgs'[i], g) =>
        i \in 1..last /\ RequestFor(msgs[i], g)
  BY <1>1, <1>3
<1>6. Asked'
  BY <1>4, <1>5 DEF Agreed, Asked, last, smVars
<1>7. Ended'
  <2>1. ASSUME NEW i \in 1..Len(msgs)', NEW g \in Handle, g # h,
               msgs'[i].op = "releaseATL", msgs'[i].handle = g
        PROVE  \/ modem'[g] \in {"closing", "closed"}
               \/ \E j \in 1..Len(msgs)' : i < j /\ RequestFor(msgs'[j], g)
    <3>1. i \in 1..last /\ msgs'[i] = msgs[i]
      BY <1>1, <1>3, <2>1
    <3>2. \/ modem[g] \in {"closing", "closed"}
          \/ \E j \in 1..last : i < j /\ RequestFor(msgs[j], g)
      BY <2>1, <3>1 DEF Agreed, Ended, last
    <3> QED
      BY <1>3, <1>4, <2>1, <3>2
  <2> QED
    BY <1>4, <2>1 DEF Ended
<1>8. OneMachine'
  BY <1>4 DEF Agreed, OneMachine, smVars
<1>9. Known'
  <2>1. ASSUME NEW k \in NifPresent, NEW g \in subscribers[k]
        PROVE  IF g \in inactive[k] THEN modem'[g] = "closing" ELSE modem'[g] # "closed"
    <3>1. g \in Handle
      BY <1>2 DEF TypeOK
    <3>2. IF g \in inactive[k] THEN modem[g] = "closing" ELSE modem[g] # "closed"
      BY DEF Agreed, Known
    <3> QED
      BY <1>4, <3>1, <3>2
  <2> QED
    BY <1>4, <2>1 DEF Known, smVars
<1>10. OpenAcquired'
  BY <1>4 DEF Agreed, OpenAcquired, Active, smVars
<1> QED
  BY <1>6, <1>7, <1>8, <1>9, <1>10 DEF Agreed

(* The framework and WDS post reports, and tell the modem nothing.         *)
LEMMA ReportsAgree ==
  ASSUME IInv, Agreed,
         WdsAnswer \/ \E n \in NifPresent : FrameworkAnswer(n) \/ FrameworkLost(n)
  PROVE  Agreed'
<1>1. CASE WdsAnswer
  <2>1. Head(lookups) \in NifPresent
    BY <1>1, SeqFacts DEF WdsAnswer, IInv, TypeOK
  <2> DEFINE m == [op |-> "granted", nif |-> Head(lookups)]
  <2>2. m \in AgpsMsg /\ m.op \in Report
    BY <2>1 DEF AgpsMsg, Report
  <2>3. Post(m) /\ UNCHANGED <<smVars, modem>>
    BY <1>1 DEF WdsAnswer
  <2> HIDE DEF m
  <2> QED
    BY <2>2, <2>3, ReportAgrees
<1>2. ASSUME NEW n \in NifPresent, FrameworkAnswer(n) PROVE Agreed'
  <2>1. \A op \in Report : [op |-> op, nif |-> n] \in AgpsMsg /\ [op |-> op, nif |-> n].op \in Report
    BY DEF AgpsMsg, Report
  <2>2. PICK op \in {"opened", "denied", "released"} : Post([op |-> op, nif |-> n])
    BY <1>2 DEF FrameworkAnswer
  <2>3. UNCHANGED <<smVars, modem>>
    BY <1>2 DEF FrameworkAnswer
  <2>4. op \in Report
    BY DEF Report
  <2> DEFINE m == [op |-> op, nif |-> n]
  <2>5. m \in AgpsMsg /\ m.op \in Report /\ Post(m)
    BY <2>1, <2>2, <2>4
  <2> HIDE DEF m
  <2> QED
    BY <2>3, <2>5, ReportAgrees
<1>3. ASSUME NEW n \in NifPresent, FrameworkLost(n) PROVE Agreed'
  <2> DEFINE m == [op |-> "released", nif |-> n]
  <2>1. m \in AgpsMsg /\ m.op \in Report
    BY DEF AgpsMsg, Report
  <2>2. Post(m) /\ UNCHANGED <<smVars, modem>>
    BY <1>3 DEF FrameworkLost
  <2> HIDE DEF m
  <2> QED
    BY <2>1, <2>2, ReportAgrees
<1> QED
  BY <1>1, <1>2, <1>3

(* Until the modem restarts, the machines and the modem agree about every   *)
(* handle.                                                                 *)
THEOREM AgreedInvariant == Spec => []AgreedInv
<1>1. Init => AgreedInv
  <2>1. ASSUME Init PROVE Agreed
    BY <2>1 DEF Init, Agreed, Asked, Ended, OneMachine, Known, OpenAcquired
  <2> QED
    BY <2>1, InitIInv DEF AgreedInv
<1>2. ASSUME AgreedInv, [Next]_vars PROVE AgreedInv'
  <2>1. IInv'
    BY <1>2, AdapterKeeps, EnvironmentKeeps, StutterKeeps DEF Next, AgreedInv
  <2>2. ASSUME ssr' = 0 PROVE Agreed'
    <3>1. ssr \in Nat
      BY <1>2 DEF AgreedInv, IInv, TypeOK
    <3>2. ~ModemSSR
      BY <2>2, <3>1 DEF ModemSSR
    <3>3. ssr' = ssr
      BY <1>2, <3>2 DEF Next, AdapterThread, RequestATL, ReleaseATL, AtlOpenSuccess, ReportAtlPdn,
         ReportAtlOpenFailed, ReportAtlClosed, WdsAnswer, ModemClose, ModemOpen, NetworkChange,
         FrameworkAnswer, FrameworkLost, vars
    <3>4. IInv /\ Agreed
      BY <1>2, <2>2, <3>3 DEF AgreedInv
    <3>5. CASE UNCHANGED <<smVars, msgs, modem>>
      BY <3>4, <3>5 DEF Agreed, Asked, Ended, OneMachine, Known,
         OpenAcquired, Active, smVars
    <3>6. CASE NetworkChange
      BY <3>5, <3>6 DEF NetworkChange
    <3>7. CASE UNCHANGED vars
      BY <3>5, <3>7 DEF vars, smVars
    <3> QED
      BY <1>2, <3>2, <3>4, <3>6, <3>7, AdapterAgrees, OpenAgrees, CloseAgrees, ReportsAgree DEF Next
  <2> QED
    BY <2>1, <2>2 DEF AgreedInv
<1> QED
  BY <1>1, <1>2, PTL DEF Spec

(* Over the native handler or the library, and whatever the network does:   *)
(* until the modem restarts, an ATL it was told is open belongs to an       *)
(* active subscriber of a machine that holds the connection.                *)
THEOREM OpenAlwaysAcquired == Spec => []OpenIsAcquired
<1>1. AgreedInv => OpenIsAcquired
  BY DEF AgreedInv, Agreed, OpenAcquired, OpenIsAcquired
<1> QED
  BY <1>1, AgreedInvariant, PTL

(* Until the modem restarts every subscriber stands for a request the modem *)
(* still has, whose end it asked for if the subscriber is inactive.         *)
THEOREM SubscribersAlwaysKnown == Spec => []SubscribersKnownToModem
<1>1. AgreedInv => SubscribersKnownToModem
  BY DEF AgreedInv, Agreed, Known, SubscribersKnownToModem
<1> QED
  BY <1>1, AgreedInvariant, PTL
=============================================================================
