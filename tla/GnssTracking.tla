---------------------------- MODULE GnssTracking ----------------------------
(***************************************************************************)
(* The tracking sessions of GnssAdapter (gps/gnss/GnssAdapter.cpp).         *)
(*                                                                         *)
(* The modem runs one time based session, so the adapter multiplexes those  *)
(* of its clients onto it: it asks for the smallest interval.  Sessions     *)
(* based on distance are the modem's own.  All handlers, those of client    *)
(* commands, of the modem's answers and of its restart, run on one message *)
(* task and are one step each; between them the calls to LocApi wait for   *)
(* their answers, in the order they were made.  The modem does what a call *)
(* asks at the moment its answer is handled: no handler sees it earlier.    *)
(*                                                                         *)
(* Distance based tracking is supported by the modem, the power mode of a  *)
(* session is one of M1 to M5 and mNHzNeeded is off.                        *)
(***************************************************************************)
EXTENDS Naturals, Sequences, FiniteSets, FiniteSetsExt, Functions

CONSTANTS
  Client,
  Session,      \* session ids, in the order of the maps' keys
  OwnerOf,        \* the client of each session
  Options,      \* the TrackingOptions explored: interval, power, distance
  MaxCommands,  \* commands of a behaviour
  MaxFails,     \* calls a running modem refuses
  MaxResets     \* restarts of the modem after the first start

ASSUME GnssAssumption ==
  /\ Session \subseteq Nat /\ IsFiniteSet(Session)
  /\ OwnerOf \in [Session -> Client]
  /\ Options \subseteq [interval : Nat \ {0}, power : 1..5, distance : BOOLEAN]
  /\ MaxCommands \in Nat /\ MaxFails \in Nat /\ MaxResets \in Nat

VARIABLES
  adapter,  \* the clients, the sessions of both kinds (mTimeBased- and
            \* mDistanceBasedTrackingSessions) and the calls not answered
  engine,   \* isEngineCapabilitiesKnown and mPendingMsgs
  modem,    \* what runs on the modem
  ledger,   \* commands of each session, answers to them, stops answered SUCCESS
  budget    \* commands, refusals and resets so far; has a call ever failed,
            \* has none since the last start of the engine

gnssVars == <<adapter, engine, modem, ledger, budget>>

(* What becomes of an answer. *)
Response == {"none", "start", "update", "stopFix", "stop", "leave", "toTime",
             "restart", "resave"}

NoOptions == [interval |-> 0, power |-> 0, distance |-> FALSE]

Call(op, s, o, then) ==
  [op |-> op, id |-> s, options |-> o, then |-> then, old |-> NoOptions]

NoSession == 0

NoSessions == [s \in {} |-> NoOptions]

CallType ==
  [op : {"startTime", "stopFix", "startDist", "stopDist"},
   id : Session \cup {NoSession},
   options : [interval : Nat, power : 0..5, distance : BOOLEAN],
   then : Response, old : Options \cup {NoOptions}]

(* The maps from sessions to their options. *)
Sessions == UNION {[S -> Options] : S \in SUBSET Session}

GnssTypeOK ==
  /\ adapter \in [clients : SUBSET Client, time : Sessions, dist : Sessions,
                  calls : Seq(CallType)]
  /\ engine \in [known : BOOLEAN, pending :
                   Seq([id : Session, options : Options, update : BOOLEAN])]
  /\ modem \in [up : BOOLEAN, interval : Nat, power : 0..5, dist : SUBSET Session]
  /\ ledger \in [asked : [Session -> Nat], answered : [Session -> Nat],
                 stopped : SUBSET Session]
  /\ budget \in [commands : 0..MaxCommands, fails : 0..MaxFails,
                 resets : 0..MaxResets, failed : BOOLEAN, intact : BOOLEAN]

GnssInit ==
  /\ adapter = [clients |-> Client, time |-> NoSessions, dist |-> NoSessions,
                calls |-> << >>]
  /\ engine = [known |-> FALSE, pending |-> << >>]
  /\ modem = [up |-> FALSE, interval |-> 0, power |-> 0, dist |-> {}]
  /\ ledger = [asked |-> [s \in Session |-> 0],
               answered |-> [s \in Session |-> 0], stopped |-> {}]
  /\ budget = [commands |-> 0, fails |-> 0, resets |-> 0, failed |-> FALSE,
               intact |-> TRUE]

-----------------------------------------------------------------------------
(* The elements of a finite set of numbers, the smallest first. *)
InOrder(S) ==
  [i \in 1..Cardinality(S) |->
     CHOOSE s \in S : Cardinality({t \in S : t < s}) = i - 1]

(* Handlers are built from operators on a pair of adapter and ledger. *)
Issue(g, calls) == [g EXCEPT !.adapter.calls = @ \o calls]

With(f, s, o) == [t \in DOMAIN f \cup {s} |-> IF t = s THEN o ELSE f[t]]

Without(f, s) == Restrict(f, DOMAIN f \ {s})

SaveTrackingSession(g, s, o) ==
  IF o.distance THEN [g EXCEPT !.adapter.dist = With(@, s, o)]
                ELSE [g EXCEPT !.adapter.time = With(@, s, o)]

EraseTrackingSession(g, s) ==
  IF s \in DOMAIN g.adapter.time
    THEN [g EXCEPT !.adapter.time = Without(@, s)]
    ELSE [g EXCEPT !.adapter.dist = Without(@, s)]

(* An answer reaches only a client that is still there. *)
ReportResponse(g, s) ==
  IF OwnerOf[s] \in g.adapter.clients
    THEN [g EXCEPT !.ledger.answered[s] = @ + 1]
    ELSE g

(* A command that made no call is answered at once. *)
IssueOrReport(g, calls, s) ==
  IF calls = << >> THEN ReportResponse(g, s) ELSE Issue(g, calls)

NoteStopped(g, s) ==
  IF OwnerOf[s] \in g.adapter.clients
    THEN [g EXCEPT !.ledger.stopped = @ \cup {s}] ELSE g

(* The options of the first session with the smallest interval, and the    *)
(* smallest power mode, among the sessions S.                              *)
SmallestInterval(time, S) ==
  time[CHOOSE s \in S :
         \A t \in S : \/ time[s].interval < time[t].interval
                      \/ time[s].interval = time[t].interval /\ s <= t]

SmallestPower(time, S) == Min({time[s].power : s \in S})

StartMultiplex(time, s, o) ==
  IF DOMAIN time = {} THEN <<Call("startTime", s, o, "start")>>
  ELSE LET best == SmallestInterval(time, DOMAIN time)
           faster == o.interval < best.interval
           stronger == o.power < SmallestPower(time, DOMAIN time)
           opts == [best EXCEPT !.interval = IF faster THEN o.interval ELSE @,
                                !.power = IF stronger THEN o.power ELSE @]
       IN  IF faster \/ stronger THEN <<Call("startTime", s, opts, "start")>>
                                 ELSE << >>

UpdateMultiplex(time, s, o) ==
  LET others == DOMAIN time \ {s}
      best == SmallestInterval(time, others)
      faster == o.interval < best.interval
      stronger == o.power < SmallestPower(time, others)
      opts == [best EXCEPT !.interval = IF faster THEN o.interval ELSE @,
                           !.power = IF stronger THEN o.power ELSE @]
      Update(u) == <<[Call("startTime", s, u, "update") EXCEPT !.old = time[s]]>>
      changed == time[s].interval # o.interval \/ time[s].power # o.power
  IN  CASE changed /\ others = {} -> Update(o)
        [] changed /\ others # {} /\ (faster \/ stronger) -> Update(opts)
        [] OTHER -> << >>

StopMultiplex_AnyInterval(time, s) ==
  IF Cardinality(DOMAIN time) = 1
    THEN <<Call("stopFix", s, NoOptions, "stopFix")>>
    ELSE LET others == DOMAIN time \ {s}
             power == SmallestPower(time, others)
         IN  IF \/ time[s].interval < SmallestInterval(time, others).interval
                \/ time[s].power < power
               THEN <<Call("startTime", s, [time[s] EXCEPT !.power = power],
                           "start")>>
               ELSE << >>

StopMultiplex(time, s) ==
  IF Cardinality(DOMAIN time) = 1
    THEN <<Call("stopFix", s, NoOptions, "stopFix")>>
    ELSE LET others == DOMAIN time \ {s}
             best == SmallestInterval(time, others)
             power == SmallestPower(time, others)
         IN  IF time[s].interval < best.interval \/ time[s].power < power
               THEN <<Call("startTime", s, [best EXCEPT !.power = power],
                           "start")>>
               ELSE << >>

-----------------------------------------------------------------------------
(* The handlers of the commands, once the engine is known or the options   *)
(* do not need it.  A start for a client that is gone is not answered.      *)
MsgStartTracking(g, s, o) ==
  CASE OwnerOf[s] \notin g.adapter.clients -> g
    [] OwnerOf[s] \in g.adapter.clients /\ o.distance ->
         Issue(SaveTrackingSession(g, s, o),
               <<Call("startDist", s, o, "start")>>)
    [] OTHER ->
         SaveTrackingSession(
           IssueOrReport(g, StartMultiplex(g.adapter.time, s, o), s), s, o)

ToDistance_ReportsTwice(g, s, o) ==
  LET left == EraseTrackingSession(
                Issue(g, StopMultiplex(g.adapter.time, s)), s)
  IN  Issue(SaveTrackingSession(ReportResponse(left, s), s, o),
            <<Call("startDist", s, o, "none")>>)

ToDistance(g, s, o) ==
  LET left == EraseTrackingSession(
                IssueOrReport(g, StopMultiplex(g.adapter.time, s), s), s)
  IN  Issue(SaveTrackingSession(left, s, o),
            <<Call("startDist", s, o, "none")>>)

MsgUpdateTracking(g, s, o) ==
  LET time == s \in DOMAIN g.adapter.time
      dist == s \in DOMAIN g.adapter.dist
      stop == Call("stopDist", s, o, IF o.distance THEN "restart" ELSE "toTime")
  IN  CASE ~time /\ ~dist -> ReportResponse(g, s)
        [] time /\ o.distance -> ToDistance(g, s, o)
        [] dist /\ ~o.distance -> Issue(EraseTrackingSession(g, s), <<stop>>)
        [] time /\ ~dist /\ ~o.distance ->
             SaveTrackingSession(
               IssueOrReport(g, UpdateMultiplex(g.adapter.time, s, o), s), s, o)
        [] OTHER -> Issue(g, <<stop>>)

MsgStopTracking(g, s) ==
  CASE s \in DOMAIN g.adapter.time ->
         LET calls == StopMultiplex(g.adapter.time, s)
             left == EraseTrackingSession(IssueOrReport(g, calls, s), s)
         IN  IF calls = << >> THEN NoteStopped(left, s) ELSE left
    [] s \in DOMAIN g.adapter.dist \ DOMAIN g.adapter.time ->
         Issue(g, <<Call("stopDist", s, NoOptions, "stop")>>)
    [] OTHER -> ReportResponse(g, s)

(* stopClientSessions: no answer of these calls is for the client, which   *)
(* eraseClient removes in the same step.  A time based session is stopped   *)
(* when those of the client before it are gone.                             *)
StopClientSessions(g, c) ==
  LET time == g.adapter.time
      Owned(f) == {s \in DOMAIN f : OwnerOf[s] = c}
      Left(s) ==
        Restrict(time, {t \in DOMAIN time : OwnerOf[t] = c => t >= s})
      Stop(s) == StopMultiplex(Left(s), s)
      stops == InOrder({s \in Owned(time) : Stop(s) # << >>})
      leaves == InOrder(Owned(g.adapter.dist))
      calls == [i \in DOMAIN stops |-> Stop(stops[i])[1]]
               \o [i \in DOMAIN leaves |->
                     Call("stopDist", leaves[i], NoOptions, "leave")]
  IN  [Issue(g, calls) EXCEPT
         !.adapter.time = Restrict(time, DOMAIN time \ Owned(time))]

(* The calls that put all sessions on the modem again, their answers        *)
(* ignored.                                                                *)
RestartSessions(a) ==
  LET ids == InOrder(DOMAIN a.dist)
      all == [SmallestInterval(a.time, DOMAIN a.time) EXCEPT
                !.power = SmallestPower(a.time, DOMAIN a.time)]
      start(s) == Call("startDist", s, a.dist[s], "none")
  IN  (IF DOMAIN a.time = {} THEN << >>
                         ELSE <<Call("startTime", NoSession, all, "none")>>)
      \o [i \in DOMAIN ids |-> start(ids[i])]

SuspendSessions(a) ==
  IF DOMAIN a.time = {} THEN << >>
                    ELSE <<Call("stopFix", NoSession, NoOptions, "none")>>

(* The handler of the answer to a call. *)
Responded(g, c, ok) ==
  LET s == c.id IN
  CASE c.then = "none" -> g
    [] c.then = "start" ->
         ReportResponse(IF ok THEN g ELSE EraseTrackingSession(g, s), s)
    [] c.then = "update" ->
         ReportResponse(IF ok THEN g ELSE SaveTrackingSession(g, s, c.old), s)
    [] c.then = "stopFix" -> ReportResponse(g, s)
    [] c.then = "stop" ->
         IF ok THEN NoteStopped(ReportResponse(EraseTrackingSession(g, s), s), s)
               ELSE ReportResponse(g, s)
    [] c.then = "leave" -> IF ok THEN EraseTrackingSession(g, s) ELSE g
    [] c.then = "toTime" ->
         SaveTrackingSession(
           IssueOrReport(g, StartMultiplex(g.adapter.time, s, c.options), s),
           s, c.options)
    [] c.then = "restart" ->
         IF ok THEN Issue(g, <<Call("startDist", s, c.options, "resave")>>)
               ELSE g
    [] c.then = "resave" ->
         ReportResponse(IF ok THEN SaveTrackingSession(g, s, c.options) ELSE g,
                        s)

-----------------------------------------------------------------------------
State == [adapter |-> adapter, ledger |-> ledger]

Becomes(g) == adapter' = g.adapter /\ ledger' = g.ledger

Asked(s) == [State EXCEPT !.ledger.asked[s] = @ + 1]

Command ==
  /\ budget.commands < MaxCommands
  /\ budget' = [budget EXCEPT !.commands = @ + 1]

(* Distance based tracking waits until the capabilities are known. *)
Waits(o) == ~engine.known /\ o.distance

Defer(s, o, update) ==
  /\ engine' = [engine EXCEPT !.pending =
                  Append(@, [id |-> s, options |-> o, update |-> update])]
  /\ Becomes(Asked(s))

StartTrackingCommand(s, o) ==
  /\ Command /\ OwnerOf[s] \in adapter.clients /\ ledger.asked[s] = 0
  /\ IF Waits(o) THEN Defer(s, o, FALSE)
     ELSE Becomes(MsgStartTracking(Asked(s), s, o)) /\ UNCHANGED engine
  /\ UNCHANGED modem

UpdateTrackingOptionsCommand(s, o) ==
  /\ Command /\ OwnerOf[s] \in adapter.clients /\ ledger.asked[s] > 0
  /\ IF Waits(o) THEN Defer(s, o, TRUE)
     ELSE Becomes(MsgUpdateTracking(Asked(s), s, o)) /\ UNCHANGED engine
  /\ UNCHANGED modem

StopTrackingCommand(s) ==
  /\ Command /\ OwnerOf[s] \in adapter.clients /\ ledger.asked[s] > 0
  /\ Becomes(MsgStopTracking(Asked(s), s))
  /\ UNCHANGED <<engine, modem>>

RemoveClientCommand(c) ==
  /\ Command /\ c \in adapter.clients
  /\ Becomes([StopClientSessions(State, c) EXCEPT !.adapter.clients = @ \ {c}])
  /\ UNCHANGED <<engine, modem>>

(* A change of the configuration suspends and restarts all sessions. *)
UpdateSvConfig ==
  /\ Command /\ engine.known
  /\ Becomes(Issue(State, SuspendSessions(adapter) \o RestartSessions(adapter)))
  /\ UNCHANGED <<engine, modem>>

(* A message that waited for the engine is sent again, and handled. *)
PendingMsg ==
  /\ engine.known /\ engine.pending # << >>
  /\ LET m == Head(engine.pending) IN
     Becomes(IF m.update THEN MsgUpdateTracking(State, m.id, m.options)
                         ELSE MsgStartTracking(State, m.id, m.options))
  /\ engine' = [engine EXCEPT !.pending = Tail(@)]
  /\ UNCHANGED <<modem, budget>>

(* The modem does what a call asks. *)
Executed(m, c) ==
  CASE c.op = "startTime" ->
         [m EXCEPT !.interval = c.options.interval, !.power = c.options.power]
    [] c.op = "stopFix" -> [m EXCEPT !.interval = 0, !.power = 0]
    [] c.op = "startDist" -> [m EXCEPT !.dist = @ \cup {c.id}]
    [] c.op = "stopDist" -> [m EXCEPT !.dist = @ \ {c.id}]

Answer(ok) ==
  /\ adapter.calls # << >>
  /\ LET c == Head(adapter.calls) IN
     /\ Becomes(Responded([State EXCEPT !.adapter.calls = Tail(@)], c, ok))
     /\ modem' = IF ok THEN Executed(modem, c) ELSE modem
  /\ IF ok THEN modem.up /\ UNCHANGED budget
     ELSE /\ modem.up => budget.fails < MaxFails
          /\ budget' = [budget EXCEPT !.fails = IF modem.up THEN @ + 1 ELSE @,
                                      !.failed = TRUE, !.intact = FALSE]
  /\ UNCHANGED engine

EngineDown ==
  /\ modem.up /\ budget.resets < MaxResets
  /\ modem' = [up |-> FALSE, interval |-> 0, power |-> 0, dist |-> {}]
  /\ budget' = [budget EXCEPT !.resets = @ + 1]
  /\ UNCHANGED <<adapter, engine, ledger>>

HandleEngineUpEvent ==
  /\ ~modem.up
  /\ modem' = [modem EXCEPT !.up = TRUE]
  /\ engine' = [engine EXCEPT !.known = TRUE]
  /\ Becomes(Issue(State, RestartSessions(adapter)))
  /\ budget' = [budget EXCEPT !.intact = TRUE]

GnssNext ==
  \/ \E s \in Session, o \in Options : StartTrackingCommand(s, o)
  \/ \E s \in Session, o \in Options : UpdateTrackingOptionsCommand(s, o)
  \/ \E s \in Session : StopTrackingCommand(s)
  \/ \E c \in Client : RemoveClientCommand(c)
  \/ UpdateSvConfig
  \/ PendingMsg
  \/ \E ok \in BOOLEAN : Answer(ok)
  \/ EngineDown
  \/ HandleEngineUpEvent

GnssSpec == GnssInit /\ [][GnssNext]_gnssVars

-----------------------------------------------------------------------------
(* Whenever no call is outstanding and none failed since the engine came    *)
(* up, the modem fixes as often as each time based session asks for,        *)
(* whatever was started, changed, stopped, suspended or removed in between: *)
(* each command only compares its session with the others (start-, update- *)
(* and stopTimeBasedTrackingMultiplex) and never sees what the modem runs.  *)
FastEnough ==
  modem.up /\ adapter.calls = << >> /\ budget.intact =>
    \A s \in DOMAIN adapter.time :
      modem.interval \in 1..adapter.time[s].interval

(* A command is never answered twice, and once nothing is outstanding each  *)
(* was answered, unless a call failed or the client is gone: the answer     *)
(* comes from the handler or from one of the calls it, or a handler it set  *)
(* up, made (reportToClientWithNoWait and the LocApiResponse callbacks).    *)
AnsweredOnce ==
  /\ \A s \in Session : ledger.answered[s] <= ledger.asked[s]
  /\ adapter.calls = << >> /\ engine.pending = << >> /\ ~budget.failed =>
       \A s \in Session : OwnerOf[s] \in adapter.clients =>
         ledger.answered[s] = ledger.asked[s]

(* A session whose stop was answered with SUCCESS is not tracked any more:  *)
(* "stopTracking stops a tracking session associated with id parameter"    *)
(* (gps/location/LocationAPI.h:75).                                        *)
StoppedStaysStopped ==
  modem.up /\ adapter.calls = << >> /\ ~budget.failed =>
    ledger.stopped \cap (modem.dist \cup DOMAIN adapter.time
                                     \cup DOMAIN adapter.dist) = {}
=============================================================================
