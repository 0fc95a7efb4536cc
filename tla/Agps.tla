-------------------------------- MODULE Agps --------------------------------
(***************************************************************************)
(* The assisted-GPS data connection: gps/gnss/Agps.cpp with the messages   *)
(* of gps/gnss/GnssAdapter.cpp that drive it and the default framework     *)
(* side of gps/gnss/NativeAgpsHandler.cpp.                                 *)
(*                                                                         *)
(* The modem asks for an ATL (a data connection) on a handle; the QMI      *)
(* thread posts the request to the adapter's message queue; the adapter    *)
(* thread runs AgpsManager, whose state machine (one per NIF) asks the     *)
(* framework for one shared connection and tells each subscribed handle    *)
(* what became of its request.  Everything AgpsManager does happens in     *)
(* the message thread, so each message is one action.                      *)
(***************************************************************************)
EXTENDS Naturals, Sequences

CONSTANTS
  Handle,       \* ATL connection handles of the modem
  Nif,          \* the network interfaces a request may name
  NifPresent,   \* those createAgpsStateMachines made a state machine for
  WaitForClose, \* mWaitForCloseComplete of the subscribers: requestATL passes true
  Native,       \* NativeAgpsHandler answers, or else libloc_net_iface does
  Wds,          \* libloc_api_wds is there to look the PDN type up
  MaxMsgs,      \* the modem and the network act while less than this is under way
  MaxSSR        \* how many modem restarts a behaviour may contain

ASSUME AgpsAssumption ==
  /\ NifPresent \subseteq Nif
  /\ WaitForClose \in BOOLEAN /\ Native \in BOOLEAN /\ Wds \in BOOLEAN
  /\ MaxMsgs \in Nat /\ MaxSSR \in Nat

VARIABLES
  state,       \* mState of each state machine
  subscribers, \* mSubscriberList, as the set of its handles (equals() compares handles)
  inactive,    \* the handles whose subscriber has mIsInactive
  msgs,        \* the adapter's message queue
  connected,   \* NativeAgpsHandler::mConnected
  framework,   \* requests libloc_net_iface has not answered yet, per NIF
  lookups,     \* opened connections whose PDN type WDS has not told yet
  up,          \* the framework's view: is the data connection of the NIF open
  modem,       \* the modem's view of each handle
  ssr          \* modem restarts so far

smVars == <<state, subscribers, inactive>>
vars == <<state, subscribers, inactive, msgs, connected, framework, lookups, up, modem, ssr>>

AgpsState == {"RELEASED", "PENDING", "ACQUIRED", "RELEASING"}
ModemState == {"closed", "opening", "open", "closing"}
ConnRequest == {"request", "release"}

AgpsMsg == [op : {"requestATL"}, handle : Handle, nif : Nif]
             \cup [op : {"releaseATL"}, handle : Handle]
             \cup [op : {"opened", "granted", "denied", "released"}, nif : NifPresent]

TypeOK ==
  /\ state \in [NifPresent -> AgpsState]
  /\ subscribers \in [NifPresent -> SUBSET Handle]
  /\ inactive \in [NifPresent -> SUBSET Handle]
  /\ msgs \in Seq(AgpsMsg)
  /\ connected \in BOOLEAN
  /\ framework \in [NifPresent -> Seq(ConnRequest)]
  /\ lookups \in Seq(NifPresent)
  /\ up \in [NifPresent -> BOOLEAN]
  /\ modem \in [Handle -> ModemState]
  /\ ssr \in Nat

Init ==
  /\ state = [n \in NifPresent |-> "RELEASED"]
  /\ subscribers = [n \in NifPresent |-> {}]
  /\ inactive = [n \in NifPresent |-> {}]
  /\ msgs = << >>
  /\ connected = FALSE
  /\ framework = [n \in NifPresent |-> << >>]
  /\ lookups = << >>
  /\ up = [n \in NifPresent |-> FALSE]
  /\ modem = [h \in Handle |-> "closed"]
  /\ ssr = 0

-----------------------------------------------------------------------------
(* The state machine of one NIF.  Each operator below is one processing    *)
(* method; it fixes the next state, list and flags of NIF n.               *)

Active(n) == subscribers[n] \ inactive[n]

Become(n, s, subs, inact) ==
  /\ state' = [state EXCEPT ![n] = s]
  /\ subscribers' = [subscribers EXCEPT ![n] = subs]
  /\ inactive' = [inactive EXCEPT ![n] = inact]

(* notifyEventToSubscriber: the ATL open or close status, as the modem     *)
(* takes it (a handle it is already closing stays so when granted).        *)
Tell(event, S) ==
  modem' = [h \in Handle |->
              CASE h \notin S -> modem[h]
                [] h \in S /\ event = "GRANTED" ->
                     IF modem[h] = "opening" THEN "open" ELSE modem[h]
                [] OTHER -> "closed"]

(* requestOrReleaseDataConn through mFrameworkStatusV4Cb.  The native      *)
(* handler answers by posting to the message queue in the same call; the   *)
(* external library keeps the request and answers later.                   *)
NativeAnswer(n, request) ==
  [op |-> IF request = "release" THEN "released"
          ELSE IF connected THEN "opened" ELSE "denied",
   nif |-> n]

RequestOrReleaseDataConn(n, request) ==
  IF Native
    THEN /\ msgs' = Append(Tail(msgs), NativeAnswer(n, request))
         /\ up' = [up EXCEPT ![n] = request = "request" /\ connected]
         /\ UNCHANGED framework
    ELSE /\ framework' = [framework EXCEPT ![n] = Append(@, request)]
         /\ msgs' = Tail(msgs)
         /\ UNCHANGED up

NoConnRequest == msgs' = Tail(msgs) /\ UNCHANGED <<framework, up>>

ProcessSubscribe_GrantsWhileReleasing(n, h) ==
  /\ Become(n, IF state[n] = "RELEASED" THEN "PENDING" ELSE state[n],
            subscribers[n] \cup {h}, inactive[n])
  /\ IF state[n] = "RELEASED" THEN RequestOrReleaseDataConn(n, "request")
                              ELSE NoConnRequest
  /\ IF state[n] \in {"ACQUIRED", "RELEASING"} THEN Tell("GRANTED", {h})
                                               ELSE UNCHANGED modem

ProcessSubscribe(n, h) ==
  /\ Become(n, IF state[n] = "RELEASED" THEN "PENDING" ELSE state[n],
            subscribers[n] \cup {h}, inactive[n])
  /\ IF state[n] = "RELEASED" THEN RequestOrReleaseDataConn(n, "request")
                              ELSE NoConnRequest
  /\ IF state[n] = "ACQUIRED" THEN Tell("GRANTED", {h}) ELSE UNCHANGED modem

ProcessUnsubscribe(n, h) ==
  LET subs    == IF WaitForClose THEN subscribers[n] ELSE subscribers[n] \ {h}
      inact   == IF WaitForClose THEN inactive[n] \cup {h} ELSE inactive[n] \ {h}
      stopped == subs \subseteq inact
      next    == CASE subs = {} -> "RELEASED"
                   [] subs # {} /\ stopped -> "RELEASING"
                   [] OTHER -> state[n]
  IN IF state[n] = "RELEASED"
       THEN Tell("UNSUBSCRIBE", {h}) /\ UNCHANGED smVars /\ NoConnRequest
       ELSE /\ Become(n, next, subs, inact)
            /\ IF WaitForClose THEN UNCHANGED modem ELSE Tell("UNSUBSCRIBE", {h})
            /\ IF stopped /\ state[n] \in {"PENDING", "ACQUIRED"}
                 THEN RequestOrReleaseDataConn(n, "release")
                 ELSE NoConnRequest

ProcessGranted(n) ==
  /\ NoConnRequest
  /\ IF state[n] = "PENDING"
       THEN /\ Become(n, "ACQUIRED", subscribers[n], inactive[n])
            /\ Tell("GRANTED", Active(n))
       ELSE UNCHANGED <<smVars, modem>>

FinishRelease_ForgetsActive(n) ==
  /\ Tell("RELEASED", subscribers[n] \cap inactive[n])
  /\ Become(n, "RELEASED", Active(n), {})
  /\ NoConnRequest

FinishRelease_TellsAll(n) ==
  /\ Tell("RELEASED", subscribers[n])
  /\ Become(n, IF Active(n) # {} THEN "PENDING" ELSE "RELEASED", Active(n), {})
  /\ IF Active(n) # {} THEN RequestOrReleaseDataConn(n, "request")
                       ELSE NoConnRequest

(* The connection is gone while RELEASING: inactive subscribers are told   *)
(* and dropped, and those that subscribed meanwhile get a new request.     *)
FinishRelease(n) ==
  /\ Tell("RELEASED", subscribers[n] \cap inactive[n])
  /\ Become(n, IF Active(n) # {} THEN "PENDING" ELSE "RELEASED", Active(n), {})
  /\ IF Active(n) # {} THEN RequestOrReleaseDataConn(n, "request")
                       ELSE NoConnRequest

DropAll_Silent(n, event) ==
  Become(n, "RELEASED", {}, {}) /\ UNCHANGED modem /\ NoConnRequest

DropAll(n, event) ==
  Tell(event, subscribers[n]) /\ Become(n, "RELEASED", {}, {}) /\ NoConnRequest

IgnoreEvent == NoConnRequest /\ UNCHANGED <<smVars, modem>>

ProcessReleased(n) ==
  CASE state[n] = "ACQUIRED"  -> DropAll(n, "RELEASED")
    [] state[n] = "RELEASING" -> FinishRelease(n)
    [] OTHER                  -> IgnoreEvent

ProcessDenied_IgnoredWhileReleasing(n) ==
  IF state[n] = "PENDING" THEN DropAll(n, "DENIED") ELSE IgnoreEvent

ProcessDenied(n) ==
  CASE state[n] = "PENDING"   -> DropAll(n, "DENIED")
    [] state[n] = "RELEASING" -> FinishRelease(n)
    [] OTHER                  -> IgnoreEvent

-----------------------------------------------------------------------------
(* AgpsManager: one action per message the adapter thread takes.           *)

TakeMsg(op) == msgs # << >> /\ Head(msgs).op = op

RequestATL ==
  /\ TakeMsg("requestATL")
  /\ LET h == Head(msgs).handle
         n == Head(msgs).nif
     IN IF n \in NifPresent
          THEN ProcessSubscribe(n, h)
          ELSE Tell("DENIED", {h}) /\ UNCHANGED smVars /\ NoConnRequest
  /\ UNCHANGED <<connected, lookups, ssr>>

(* releaseATL looks in the AGNSS machine first, then in the internet one.  *)
ReleaseATL ==
  /\ TakeMsg("releaseATL")
  /\ LET h == Head(msgs).handle
         found == {n \in NifPresent : h \in subscribers[n]}
         sm == IF "agnss" \in found THEN "agnss" ELSE CHOOSE n \in found : TRUE
     IN IF found = {} THEN IgnoreEvent ELSE ProcessUnsubscribe(sm, h)
  /\ UNCHANGED <<connected, lookups, ssr>>

(* AgpsMsgAtlOpenSuccess asks WDS for the PDN type when the library is     *)
(* there, and reports the success only with its answer.                    *)
AtlOpenSuccess ==
  /\ TakeMsg("opened")
  /\ LET n == Head(msgs).nif IN
     IF Wds THEN lookups' = Append(lookups, n) /\ IgnoreEvent
            ELSE ProcessGranted(n) /\ UNCHANGED lookups
  /\ UNCHANGED <<connected, ssr>>

ReportAtlPdn ==
  /\ TakeMsg("granted") /\ ProcessGranted(Head(msgs).nif)
  /\ UNCHANGED <<connected, lookups, ssr>>

ReportAtlOpenFailed ==
  /\ TakeMsg("denied") /\ ProcessDenied(Head(msgs).nif)
  /\ UNCHANGED <<connected, lookups, ssr>>

ReportAtlClosed ==
  /\ TakeMsg("released") /\ ProcessReleased(Head(msgs).nif)
  /\ UNCHANGED <<connected, lookups, ssr>>

AdapterThread ==
  \/ RequestATL \/ ReleaseATL
  \/ AtlOpenSuccess \/ ReportAtlPdn \/ ReportAtlOpenFailed \/ ReportAtlClosed

-----------------------------------------------------------------------------
(* The environment: the modem behind the QMI thread, the telephony data    *)
(* item, and libloc_net_iface.                                             *)

Post(m) == msgs' = Append(msgs, m)

(* The bound of the model on what is under way.                            *)
Room ==
  /\ Len(msgs) + Len(lookups) < MaxMsgs
  /\ \A n \in NifPresent : Len(msgs) + Len(lookups) + Len(framework[n]) < MaxMsgs

ModemOpen(h, n) ==
  /\ modem[h] = "closed" /\ Room
  /\ modem' = [modem EXCEPT ![h] = "opening"]
  /\ Post([op |-> "requestATL", handle |-> h, nif |-> n])
  /\ UNCHANGED <<smVars, connected, framework, lookups, up, ssr>>

ModemClose(h) ==
  /\ modem[h] \in {"opening", "open"} /\ Room
  /\ modem' = [modem EXCEPT ![h] = "closing"]
  /\ Post([op |-> "releaseATL", handle |-> h])
  /\ UNCHANGED <<smVars, connected, framework, lookups, up, ssr>>

(* A modem restart forgets every handle.  handleEngineUpEvent and          *)
(* handleEngineDownEvent do not reach AgpsManager: handleModemSSR has no   *)
(* caller.                                                                 *)
ModemSSR ==
  /\ ssr < MaxSSR
  /\ ssr' = ssr + 1
  /\ modem' = [h \in Handle |-> "closed"]
  /\ UNCHANGED <<smVars, msgs, connected, framework, lookups, up>>

(* NativeAgpsHandler::notify with a NETWORKINFO data item.                 *)
NetworkChange ==
  /\ Native
  /\ connected' = ~connected
  /\ UNCHANGED <<smVars, msgs, framework, lookups, up, modem, ssr>>

(* libloc_net_iface answers in order: agpsOpenResultCb or agpsCloseResultCb*)
(* posts the outcome.                                                      *)
FrameworkAnswer(n) ==
  /\ framework[n] # << >>
  /\ framework' = [framework EXCEPT ![n] = Tail(@)]
  /\ \E isSuccess \in BOOLEAN :
       LET request == Head(framework[n]) IN
       /\ up' = [up EXCEPT ![n] = IF isSuccess THEN request = "request" ELSE @]
       /\ Post([op |-> CASE ~isSuccess -> "denied"
                         [] request = "request" -> "opened"
                         [] OTHER -> "released",
                nif |-> n])
  /\ UNCHANGED <<smVars, connected, lookups, modem, ssr>>

(* The network drops an open connection by itself.                         *)
FrameworkLost(n) ==
  /\ ~Native /\ up[n] /\ Room
  /\ up' = [up EXCEPT ![n] = FALSE]
  /\ Post([op |-> "released", nif |-> n])
  /\ UNCHANGED <<smVars, connected, framework, lookups, modem, ssr>>

(* reportPdnTypeFromWds posts the answer from the WDS client's thread.      *)
WdsAnswer ==
  /\ lookups # << >>
  /\ lookups' = Tail(lookups)
  /\ Post([op |-> "granted", nif |-> Head(lookups)])
  /\ UNCHANGED <<smVars, connected, framework, up, modem, ssr>>

Next ==
  \/ AdapterThread
  \/ WdsAnswer
  \/ \E h \in Handle : ModemClose(h) \/ \E n \in Nif : ModemOpen(h, n)
  \/ ModemSSR
  \/ NetworkChange
  \/ \E n \in NifPresent : FrameworkAnswer(n) \/ FrameworkLost(n)

Spec == Init /\ [][Next]_vars

(* The message thread keeps running, and libloc_net_iface and WDS answer.  *)
Fairness ==
  /\ WF_vars(AdapterThread)
  /\ WF_vars(WdsAnswer)
  /\ \A n \in NifPresent : WF_vars(FrameworkAnswer(n))

FairSpec == Spec /\ Fairness

-----------------------------------------------------------------------------
(* What the component promises.                                            *)

(* The state of a machine tells what its list may hold: RELEASED has no    *)
(* subscribers left, a machine that waits for or holds the connection has  *)
(* one that still wants it, and one that is closing has someone to tell    *)
(* about it.  "Subscriber list should be empty if we are in released       *)
(* state" (Agps.cpp:201), although subscribers come and go in every state. *)
StateMatchesSubscribers ==
  \A n \in NifPresent :
    /\ inactive[n] \subseteq subscribers[n]
    /\ state[n] = "RELEASED" <=> subscribers[n] = {}
    /\ state[n] \in {"PENDING", "ACQUIRED"} => Active(n) # {}
    /\ state[n] = "RELEASING" => inactive[n] # {}

(* Until the modem restarts, an ATL it was told is open belongs to an       *)
(* active subscriber of a machine that holds the connection: no path        *)
(* forgets to tell a handle that its connection is gone                     *)
(* (notifyAllSubscribers erases what it told).                             *)
OpenIsAcquired ==
  ssr = 0 =>
    \A h \in Handle : modem[h] = "open" =>
      \E n \in NifPresent : state[n] = "ACQUIRED" /\ h \in Active(n)

(* Until then every subscriber also stands for a request the modem still    *)
(* has: it opened the handle and was not told its end ("Once a subscriber   *)
(* is notified for ATL open/close status, it is deleted", Agps.h).  After a *)
(* restart this is not so: nothing calls handleModemSSR, which would "Drop  *)
(* all subscribers, in case of Modem SSR".                                 *)
SubscribersKnownToModem ==
  ssr = 0 =>
    \A n \in NifPresent : \A h \in subscribers[n] :
      IF h \in inactive[n] THEN modem[h] = "closing" ELSE modem[h] # "closed"

(* The modem uses an ATL only over a connection the framework has up, or   *)
(* one whose loss is already in the message queue.                         *)
OpenOnlyWhenUp ==
  \A h \in Handle : modem[h] = "open" =>
    \E n \in NifPresent :
      /\ h \in subscribers[n]
      /\ up[n] \/ \E i \in 1..Len(msgs) : msgs[i] = [op |-> "released", nif |-> n]

(* An open request of the modem is answered, and so is a close once the    *)
(* machine is releasing: RELEASING is left on any answer.                  *)
RequestAnswered == \A h \in Handle : modem[h] = "opening" ~> modem[h] # "opening"
ReleaseCompletes == \A n \in NifPresent : state[n] = "RELEASING" ~> state[n] # "RELEASING"
=============================================================================
