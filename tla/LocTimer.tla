------------------------------ MODULE LocTimer ------------------------------
(***************************************************************************)
(* The timer service of gps/utils/LocTimer.cpp, one container of it.       *)
(*                                                                         *)
(* Clients start and stop LocTimer objects from any thread.  Each start    *)
(* creates a delegate, which is put in a heap ordered by expiration time;  *)
(* the heap is used in the message thread only, so start and stop send it  *)
(* messages.  The soonest expiration is written to a timerfd, on which a   *)
(* poll thread waits; when it fires, the poll thread disarms it, takes it  *)
(* off the epoll set and sends an expire message, and the message thread   *)
(* pops the heap and runs the callbacks.                                   *)
(***************************************************************************)
EXTENDS Naturals, Sequences

CONSTANTS
  Timer,      \* the clients' LocTimer objects
  None,       \* the null pointer
  Delays,     \* the time outs clients ask for
  MaxStarts,  \* how many delegates a behaviour may create
  MaxTime,    \* the clock stops there, and no timer is due later
  Stops,      \* do clients stop timers
  Deletes     \* do clients delete timers, expired or not

ASSUME LocTimerAssumption ==
  /\ None \notin Timer /\ Delays \subseteq Nat
  /\ MaxStarts \in Nat /\ MaxTime \in Nat \ {0}
  /\ Stops \in BOOLEAN /\ Deletes \in BOOLEAN

VARIABLES
  now,      \* CLOCK_BOOTTIME
  started,  \* delegates created so far: they are 1..started
  timer,    \* LocTimer::mTimer, 0 for NULL
  alive,    \* the LocTimer objects not deleted
  client,   \* LocTimerDelegate::mClient
  due,      \* LocTimerDelegate::mFutureTime
  heap,     \* the delegates in the container
  top,      \* the one peek() returns, 0 for NULL
  deleted,  \* the delegates MsgTimerRemove has deleted
  msgs,     \* the queue of the message thread
  armed,    \* the time in the timerfd, 0 when disarmed
  polled,   \* is the timerfd in the epoll set
  poll,     \* where the poll thread is
  task,     \* where the message thread is
  cur,      \* the delegate MsgTimerExpire works on
  who,      \* expire()'s copy of its mClient
  asOf      \* MsgTimerExpire's reading of the clock

clientVars == <<started, timer, alive, client, due>>
heapVars == <<heap, top>>
taskVars == <<task, cur, who, asOf>>
vars == <<now, clientVars, heapVars, deleted, msgs, armed, polled, poll, taskVars>>

Delegate == 1..MaxStarts

TimerMsg == [op : {"push", "remove"}, timer : Delegate] \cup [op : {"expire"}]

TypeOK ==
  /\ now \in 1..MaxTime
  /\ started \in 0..MaxStarts
  /\ timer \in [Timer -> 0..MaxStarts]
  /\ alive \subseteq Timer
  /\ client \in [Delegate -> Timer \cup {None}]
  /\ due \in [Delegate -> 0..MaxTime]
  /\ heap \subseteq Delegate /\ top \in 0..MaxStarts
  /\ deleted \subseteq Delegate
  /\ msgs \in Seq(TimerMsg)
  /\ armed \in 0..MaxTime /\ polled \in BOOLEAN
  /\ poll \in {"wait", "disarm", "remove", "send"}
  /\ task \in {"idle", "expire", "stop", "callback", "next", "settime", "crashed"}
  /\ cur \in 0..MaxStarts /\ who \in Timer \cup {None} /\ asOf \in 0..MaxTime
  /\ task \in {"expire", "callback"} => cur # 0

Init ==
  /\ now = 1 /\ started = 0
  /\ timer = [t \in Timer |-> 0]
  /\ alive = Timer
  /\ client = [d \in Delegate |-> None]
  /\ due = [d \in Delegate |-> 0]
  /\ heap = {} /\ top = 0 /\ deleted = {}
  /\ msgs = << >>
  /\ armed = 0 /\ polled = FALSE /\ poll = "wait"
  /\ task = "idle" /\ cur = 0 /\ who = None /\ asOf = 0

Send(q, m) == msgs' = Append(q, m)

-----------------------------------------------------------------------------
(* Clients, in any thread; the lock a timer shares with its delegate makes *)
(* each call one step.                                                     *)

Start(t) ==
  /\ t \in alive /\ timer[t] = 0 /\ started < MaxStarts
  /\ \E delay \in Delays :
       /\ now + delay <= MaxTime
       /\ due' = [due EXCEPT ![started + 1] = now + delay]
  /\ started' = started + 1
  /\ client' = [client EXCEPT ![started + 1] = t]
  /\ timer' = [timer EXCEPT ![t] = started + 1]
  /\ Send(msgs, [op |-> "push", timer |-> started + 1])
  /\ UNCHANGED <<now, alive, heapVars, deleted, armed, polled, poll, taskVars>>

(* LocTimer::stop with destroyLocked of the delegate it finds.             *)
StopLocked(t) ==
  /\ timer' = [timer EXCEPT ![t] = 0]
  /\ client' = [client EXCEPT ![timer[t]] = None]
  /\ Send(msgs, [op |-> "remove", timer |-> timer[t]])

Stop(t) ==
  /\ Stops /\ t \in alive /\ timer[t] # 0
  /\ StopLocked(t)
  /\ UNCHANGED <<now, started, alive, due, heapVars, deleted, armed, polled, poll, taskVars>>

(* ~LocTimer stops the timer first, when it still runs.                    *)
Delete(t) ==
  /\ Deletes /\ t \in alive
  /\ alive' = alive \ {t}
  /\ IF timer[t] # 0 THEN StopLocked(t) ELSE UNCHANGED <<timer, client, msgs>>
  /\ UNCHANGED <<now, started, due, heapVars, deleted, armed, polled, poll, taskVars>>

-----------------------------------------------------------------------------
(* The heap, to what the container sees of it: any of the soonest members  *)
(* may be on top, and a new one gets there only when it is sooner.         *)

Soonest(S) == {d \in S : \A e \in S : due[d] <= due[e]}

(* outRanks: a later time ranks lower.                                     *)
OutRanks(d, e) == due[d] < due[e]

HeapPush(d) ==
  /\ heap' = heap \cup {d}
  /\ top' = IF top = 0 \/ OutRanks(d, top) THEN d ELSE top

HeapRemove(d) ==
  /\ heap' = heap \ {d}
  /\ IF d # top THEN UNCHANGED top
     ELSE IF heap' = {} THEN top' = 0 ELSE top' \in Soonest(heap')

HeapPop == HeapRemove(top)

(* updateSoonestTime: the fd is put in the epoll set before the time is    *)
(* set.  update says whether the soonest time has changed for the kernel.  *)
UpdateSoonestTime(update) ==
  IF update THEN polled' = TRUE /\ task' = "settime"
            ELSE UNCHANGED polled /\ task' = "idle"

-----------------------------------------------------------------------------
(* The message thread.                                                     *)

TakeMsg(op) == task = "idle" /\ msgs # << >> /\ Head(msgs).op = op /\ msgs' = Tail(msgs)

MsgTimerPush_ArmsFirstOnly ==
  /\ TakeMsg("push")
  /\ HeapPush(Head(msgs).timer)
  /\ UpdateSoonestTime(top = 0)
  /\ UNCHANGED <<now, clientVars, deleted, armed, poll, cur, who, asOf>>

MsgTimerPush ==
  /\ TakeMsg("push")
  /\ HeapPush(Head(msgs).timer)
  /\ UpdateSoonestTime(top' # top)
  /\ UNCHANGED <<now, clientVars, deleted, armed, poll, cur, who, asOf>>

MsgTimerRemove_TopOnly ==
  /\ TakeMsg("remove")
  /\ LET d == Head(msgs).timer IN
       /\ IF d = top THEN HeapRemove(d) ELSE UNCHANGED heapVars
       /\ UpdateSoonestTime(d = top /\ top' # 0)
       /\ deleted' = deleted \cup {d}
  /\ UNCHANGED <<now, clientVars, armed, poll, cur, who, asOf>>

(* The kernel is told when the soonest timer was removed and another one   *)
(* is there; an emptied heap leaves the fd armed.                          *)
MsgTimerRemove ==
  /\ TakeMsg("remove")
  /\ LET d == Head(msgs).timer IN
       /\ IF d \in heap THEN HeapRemove(d) ELSE UNCHANGED heapVars
       /\ UpdateSoonestTime(d = top /\ top' # 0)
       /\ deleted' = deleted \cup {d}
  /\ UNCHANGED <<now, clientVars, armed, poll, cur, who, asOf>>

SetTime ==
  /\ task = "settime"
  /\ armed' = due[top]
  /\ task' = "idle"
  /\ UNCHANGED <<now, clientVars, heapVars, deleted, msgs, polled, poll, cur, who, asOf>>

(* MsgTimerExpire pops the first delegate whatever its time is.            *)
MsgTimerExpire ==
  /\ TakeMsg("expire")
  /\ asOf' = now
  /\ IF heap = {} THEN task' = "idle" /\ UNCHANGED <<heapVars, cur>>
                  ELSE HeapPop /\ cur' = top /\ task' = "expire"
  /\ UNCHANGED <<now, clientVars, deleted, armed, polled, poll, who>>

(* LocTimerDelegate::expire copies mClient without the lock...             *)
ExpireReadClient ==
  /\ task = "expire"
  /\ who' = client[cur]
  /\ task' = IF client[cur] = None THEN "next" ELSE "stop"
  /\ UNCHANGED <<now, clientVars, heapVars, deleted, msgs, armed, polled, poll, cur, asOf>>

ExpireStop_RemovesAnyway ==
  /\ task = "stop"
  /\ IF timer[who] # 0
       THEN StopLocked(who) /\ cur' = timer[who] /\ task' = "callback"
       ELSE /\ Send(msgs, [op |-> "remove", timer |-> cur])
            /\ task' = "next" /\ UNCHANGED <<timer, client, cur>>
  /\ UNCHANGED <<now, started, alive, due, heapVars, deleted, armed, polled, poll, who, asOf>>

(* ...and stops that client, whatever delegate it has by now.  cur becomes *)
(* the delegate whose callback is due.  A client deleted since is freed    *)
(* memory: its mTimer is read as the NULL left there, or the thread ends.  *)
ExpireStop ==
  /\ task = "stop"
  /\ IF timer[who] # 0
       THEN StopLocked(who) /\ cur' = timer[who] /\ task' = "callback"
       ELSE /\ task' = "next" \/ (who \notin alive /\ task' = "crashed")
            /\ UNCHANGED <<timer, client, msgs, cur>>
  /\ UNCHANGED <<now, started, alive, due, heapVars, deleted, armed, polled, poll, who, asOf>>

TimeOutCallback ==
  /\ task = "callback"
  /\ task' = "next" \/ (who \notin alive /\ task' = "crashed")
  /\ UNCHANGED <<now, clientVars, heapVars, deleted, msgs, armed, polled, poll, cur, who, asOf>>

ExpireNext_NoUpdate ==
  /\ task = "next"
  /\ IF heap # {} /\ due[top] <= asOf
       THEN HeapPop /\ cur' = top /\ task' = "expire" /\ UNCHANGED polled
       ELSE UpdateSoonestTime(FALSE) /\ UNCHANGED <<heapVars, cur>>
  /\ UNCHANGED <<now, clientVars, deleted, msgs, armed, poll, who, asOf>>

(* popIfOutRanks for the rest: only those whose time is not after asOf.    *)
ExpireNext ==
  /\ task = "next"
  /\ IF heap # {} /\ due[top] <= asOf
       THEN HeapPop /\ cur' = top /\ task' = "expire" /\ UNCHANGED polled
       ELSE UpdateSoonestTime(heap # {}) /\ UNCHANGED <<heapVars, cur>>
  /\ UNCHANGED <<now, clientVars, deleted, msgs, armed, poll, who, asOf>>

MsgThread ==
  \/ MsgTimerPush \/ MsgTimerRemove \/ SetTime
  \/ MsgTimerExpire \/ ExpireReadClient \/ ExpireStop \/ TimeOutCallback \/ ExpireNext

-----------------------------------------------------------------------------
(* The poll thread: LocTimerContainer::expire is its disarm, removePoll    *)
(* and send.                                                               *)

PollWake ==
  /\ poll = "wait" /\ polled /\ armed # 0 /\ armed <= now
  /\ poll' = "disarm"
  /\ UNCHANGED <<now, clientVars, heapVars, deleted, msgs, armed, polled, taskVars>>

PollDisarm ==
  /\ poll = "disarm"
  /\ armed' = 0 /\ poll' = "remove"
  /\ UNCHANGED <<now, clientVars, heapVars, deleted, msgs, polled, taskVars>>

PollRemove ==
  /\ poll = "remove"
  /\ polled' = FALSE /\ poll' = "send"
  /\ UNCHANGED <<now, clientVars, heapVars, deleted, msgs, armed, taskVars>>

PollSend ==
  /\ poll = "send"
  /\ Send(msgs, [op |-> "expire"])
  /\ poll' = "wait"
  /\ UNCHANGED <<now, clientVars, heapVars, deleted, armed, polled, taskVars>>

PollThread == PollWake \/ PollDisarm \/ PollRemove \/ PollSend

Tick ==
  /\ now < MaxTime
  /\ now' = now + 1
  /\ UNCHANGED <<clientVars, heapVars, deleted, msgs, armed, polled, poll, taskVars>>

Next ==
  \/ \E t \in Timer : Start(t) \/ Stop(t) \/ Delete(t)
  \/ MsgThread
  \/ PollThread
  \/ Tick

Spec == Init /\ [][Next]_vars

(* Both threads keep running and the clock goes on; clients need not act.  *)
FairSpec == Spec /\ WF_vars(MsgThread) /\ WF_vars(PollThread) /\ WF_vars(Tick)

-----------------------------------------------------------------------------
Queued(op, d) == \E i \in 1..Len(msgs) : msgs[i] = [op |-> op, timer |-> d]

(* A delegate lives until the message thread has removed it, and nothing   *)
(* that will still be used points to a deleted one: no timer, no message,  *)
(* not the heap and not the expiration under way ("all timers are deleted  *)
(* here, and only here").                                                  *)
NoDanglingDelegate ==
  \A d \in deleted :
    /\ d \notin heap /\ ~Queued("push", d) /\ ~Queued("remove", d)
    /\ \A t \in Timer : timer[t] # d
    /\ task = "expire" => cur # d

(* A delegate that its timer no longer runs is on its way to be deleted,   *)
(* by one message only: a timer stopped by its client and by its own       *)
(* expiration at once is not deleted twice.                                *)
RemovedOnce ==
  \A d \in 1..started :
    (\A t \in Timer : timer[t] # d) =>
      IF d \in deleted THEN ~Queued("remove", d)
      ELSE \E i \in 1..Len(msgs) :
             /\ msgs[i] = [op |-> "remove", timer |-> d]
             /\ \A j \in 1..Len(msgs) : msgs[j] = msgs[i] => j = i

(* When both threads are at rest the kernel watches the soonest timer of   *)
(* the heap, or an earlier time that is stale: no interleaving of          *)
(* updateSoonestTime with the poll thread's disarming forgets a timer.     *)
KernelKnowsSoonest ==
  task = "idle" /\ poll = "wait" /\ heap # {} =>
    \/ polled /\ armed # 0 /\ armed <= due[top]
    \/ \E i \in 1..Len(msgs) : msgs[i].op = "expire"

(* expire() does not call a client that was deleted ("Nulling this handle  *)
(* so that expire() won't call the callback on the dead handle any more"). *)
NoDeadClient == task \in {"stop", "callback"} => who \in alive

(* A started timer ends: it expires or is stopped, unless the thread that  *)
(* runs the callbacks died of a client that was deleted under it.          *)
TimerEnds ==
  \A t \in Timer : \A d \in Delegate : timer[t] = d ~> timer[t] # d \/ task = "crashed"
=============================================================================
