------------------------------- MODULE MsgTask -------------------------------
(***************************************************************************)
(* A message task of gps/utils: MsgTask.cpp over the queue of msg_q.c and  *)
(* the detached thread of LocThread.cpp.                                   *)
(*                                                                         *)
(* Any thread sends; the queue's mutex makes each msg_q call one step, and *)
(* the wait inside msg_q_rcv splits it.  The worker's thread and, for a    *)
(* moment, the destructor of LocThreadDelegate share the MTRunnable: the   *)
(* last of them to let go of it flushes and destroys the queue.            *)
(***************************************************************************)
EXTENDS Naturals, Sequences, FiniteSets

CONSTANTS
  Message,    \* the LocMsg objects; each is sent at most once
  Late        \* may a send be under way when the task is deleted

ASSUME MsgTaskAssumption == Late \in BOOLEAN

VARIABLES
  calling,    \* messages whose sender has read mQ and not yet got the mutex
  list,       \* msg_list, the oldest first
  unblocked,  \* msg_q::unblocked
  owners,     \* who holds a shared_ptr to the MTRunnable
  freed,      \* has msg_q_destroy freed the queue
  worker,     \* where the thread is
  cur,        \* the message being processed, a sequence of at most one
  stopper,    \* where the destructor of the LocThreadDelegate is
  processed,  \* the messages proc() was called for, in order
  deleted,    \* the messages that were deleted
  refused,    \* the messages msg_q_snd turned away
  last        \* was a message received after unblocked was set

vars == <<calling, list, unblocked, owners, freed, worker, cur, stopper, processed,
          deleted, refused, last>>

Owner == {"worker", "stopper"}

Elements(s) == {s[i] : i \in DOMAIN s}

TypeOK ==
  /\ calling \subseteq Message
  /\ list \in Seq(Message)
  /\ unblocked \in BOOLEAN
  /\ owners \subseteq Owner
  /\ freed \in BOOLEAN
  /\ worker \in {"rcv", "wait", "woken", "proc", "exit", "ended"}
  /\ cur \in Seq(Message) /\ (worker = "proc" <=> cur # << >>)
  /\ stopper \in {"idle", "interrupt", "release", "done"}
  /\ processed \in Seq(Message)
  /\ deleted \subseteq Message /\ refused \subseteq Message
  /\ last \in BOOLEAN

Init ==
  /\ calling = {} /\ list = << >> /\ unblocked = FALSE
  /\ owners = {"worker"} /\ freed = FALSE
  /\ worker = "rcv" /\ cur = << >> /\ stopper = "idle"
  /\ processed = << >> /\ deleted = {} /\ refused = {} /\ last = FALSE

Sent == calling \cup Elements(list) \cup Elements(cur) \cup Elements(processed)
        \cup deleted \cup refused

(* A condition signalled with the mutex held: the waiter will compete for  *)
(* the mutex.                                                              *)
Signal == worker' = IF worker = "wait" THEN "woken" ELSE worker

-----------------------------------------------------------------------------
(* Senders.  A send starts while the task is there.                        *)

SendMsg(m) ==
  /\ stopper = "idle" /\ m \notin Sent
  /\ calling' = calling \cup {m}
  /\ UNCHANGED <<list, unblocked, owners, freed, worker, cur, stopper, processed,
                 deleted, refused, last>>

MsgQSnd_NoSignal(m) ==
  /\ m \in calling /\ ~freed
  /\ calling' = calling \ {m}
  /\ IF unblocked THEN refused' = refused \cup {m} /\ UNCHANGED list
                  ELSE list' = Append(list, m) /\ UNCHANGED refused
  /\ UNCHANGED <<unblocked, owners, freed, worker, cur, stopper, processed, deleted, last>>

(* The caller ignores the result, so a refused message is never deleted.   *)
MsgQSnd(m) ==
  /\ m \in calling /\ ~freed
  /\ calling' = calling \ {m}
  /\ IF unblocked THEN refused' = refused \cup {m} /\ UNCHANGED <<list, worker>>
                  ELSE list' = Append(list, m) /\ Signal /\ UNCHANGED refused
  /\ UNCHANGED <<unblocked, owners, freed, cur, stopper, processed, deleted, last>>

-----------------------------------------------------------------------------
(* The thread: while (runnable->run()).                                    *)

(* linked_list_remove: the oldest message, or UNAVAILABLE_RESOURCE, with   *)
(* which run() returns false.                                              *)
RemoveOldest ==
  IF list = << >> THEN worker' = "exit" /\ UNCHANGED <<list, cur, last>>
  ELSE /\ cur' = <<Head(list)>> /\ list' = Tail(list)
       /\ worker' = "proc" /\ last' = unblocked

MsgQRcv_ChecksListOnly ==
  /\ worker = "rcv"
  /\ IF list = << >>
       THEN worker' = (IF unblocked THEN "exit" ELSE "wait") /\ UNCHANGED <<list, cur, last>>
       ELSE RemoveOldest
  /\ UNCHANGED <<calling, unblocked, owners, freed, stopper, processed, deleted, refused>>

MsgQRcv ==
  /\ worker = "rcv"
  /\ IF unblocked THEN worker' = "exit" /\ UNCHANGED <<list, cur, last>>
     ELSE IF list = << >> THEN worker' = "wait" /\ UNCHANGED <<list, cur, last>>
     ELSE RemoveOldest
  /\ UNCHANGED <<calling, unblocked, owners, freed, stopper, processed, deleted, refused>>

(* The wait returns with the mutex; it may also return for nothing.        *)
MsgQRcvWake ==
  /\ worker = "woken"
  /\ IF list = << >> /\ ~unblocked
       THEN worker' = "wait" /\ UNCHANGED <<list, cur, last>>
       ELSE RemoveOldest
  /\ UNCHANGED <<calling, unblocked, owners, freed, stopper, processed, deleted, refused>>

SpuriousWake ==
  /\ worker = "wait" /\ worker' = "woken"
  /\ UNCHANGED <<calling, list, unblocked, owners, freed, cur, stopper, processed,
                 deleted, refused, last>>

Proc ==
  /\ worker = "proc"
  /\ processed' = processed \o cur /\ deleted' = deleted \cup Elements(cur)
  /\ cur' = << >> /\ worker' = "rcv"
  /\ UNCHANGED <<calling, list, unblocked, owners, freed, stopper, refused, last>>

LetGo_Always(o) ==
  /\ owners' = owners \ {o}
  /\ freed' = TRUE
  /\ deleted' = deleted \cup Elements(list) /\ list' = << >>

(* The last shared_ptr goes: ~MTRunnable flushes and destroys the queue.   *)
LetGo(o) ==
  /\ owners' = owners \ {o}
  /\ IF owners \subseteq {o}
       THEN freed' = TRUE /\ deleted' = deleted \cup Elements(list) /\ list' = << >>
       ELSE UNCHANGED <<list, freed, deleted>>

ThreadEnds ==
  /\ worker = "exit" /\ worker' = "ended"
  /\ LetGo("worker")
  /\ UNCHANGED <<calling, unblocked, cur, stopper, processed, refused, last>>

Worker == MsgQRcv \/ MsgQRcvWake \/ Proc \/ ThreadEnds

-----------------------------------------------------------------------------
(* ~MsgTask, by any thread, the task's own included (LocApiBase's          *)
(* LocKillMsg).                                                            *)

StopLock ==
  /\ stopper = "idle" /\ (Late \/ calling = {})
  /\ IF owners = {} THEN stopper' = "done" /\ UNCHANGED owners
                    ELSE stopper' = "interrupt" /\ owners' = owners \cup {"stopper"}
  /\ UNCHANGED <<calling, list, unblocked, freed, worker, cur, processed, deleted,
                 refused, last>>

StopInterrupt ==
  /\ stopper = "interrupt" /\ stopper' = "release"
  /\ unblocked' = TRUE /\ Signal
  /\ UNCHANGED <<calling, list, owners, freed, cur, processed, deleted, refused, last>>

StopRelease ==
  /\ stopper = "release" /\ stopper' = "done"
  /\ LetGo("stopper")
  /\ UNCHANGED <<calling, unblocked, worker, cur, processed, refused, last>>

Stopper == StopLock \/ StopInterrupt \/ StopRelease

Next ==
  \/ \E m \in Message : SendMsg(m) \/ MsgQSnd(m)
  \/ Worker \/ SpuriousWake
  \/ Stopper

Spec == Init /\ [][Next]_vars

(* Threads run and a message's proc() returns.  Nobody need send or stop,  *)
(* and nothing relies on spurious wake-ups.                                *)
FairSpec ==
  /\ Spec
  /\ WF_vars(Worker)
  /\ WF_vars(StopInterrupt \/ StopRelease)
  /\ \A m \in Message : WF_vars(MsgQSnd(m))

-----------------------------------------------------------------------------
(* Accepted messages are processed one at a time in the order of           *)
(* acceptance, and after the queue was unblocked at most one more is.      *)
M == INSTANCE Mailbox WITH
       pending <- list, delivered <- processed \o cur, closed <- unblocked

ImplementsMailbox == M!Spec

(* The queue outlives its users: the worker, the destructor that wakes it, *)
(* and every send, unless one may be under way when the task is deleted.   *)
QueueOutlivesUsers ==
  freed => /\ worker = "ended" /\ stopper = "done" /\ list = << >>
           /\ Late \/ calling = {}

(* Every accepted message is deleted in the end, processed or not, and a   *)
(* stopped task's thread and queue go: no send and no unblock is lost      *)
(* between the worker's look at the list and its wait.                     *)
TaskEnds ==
  /\ \A m \in Message : (m \in Elements(list)) ~> (m \in deleted)
  /\ stopper = "interrupt" ~> freed /\ worker = "ended"
=============================================================================
