------------------------------ MODULE JpegJobs ------------------------------
(***************************************************************************)
(* The jobs of mm-jpeg-interface (mm_jpeg.c): the queue of jobs, the thread *)
(* of the job manager that hands them to the OMX component of their         *)
(* session, one at a time, and the component's callbacks.                   *)
(*                                                                         *)
(* Clients create sessions, start jobs, abort jobs and destroy sessions;    *)
(* g_intf_lock lets one call run at a time.  job_lock keeps the manager at  *)
(* its job away from a call that configures, aborts or destroys.  The lock  *)
(* of a session is held by its component's callback, which answers the job, *)
(* takes it from the ongoing ones, gives the session back and wakes the     *)
(* manager.  One component is configured at a time: a job of another        *)
(* session takes the one in progress down first.                            *)
(*                                                                         *)
(* MM_JPEG_CONCURRENT_SESSIONS_COUNT is 1 (Android.bp), so a session has    *)
(* one OMX session.  A job names its output buffer.  What the component     *)
(* does is external: README, "Bounds" and "Not modelled".                   *)
(***************************************************************************)
EXTENDS Naturals, Sequences, FiniteSetsExt

CONSTANTS
  JpegSession,   \* the places of sessions, used again and again
  NoSession,
  MaxJobs,       \* jobs of a behaviour
  MaxCreates,    \* sessions of a behaviour
  MaxOmxErrors   \* errors of components, and calls they refuse

ASSUME JpegAssumption ==
  /\ NoSession \notin JpegSession
  /\ MaxJobs \in Nat /\ MaxCreates \in Nat /\ MaxOmxErrors \in Nat

VARIABLES
  jobs,        \* the session of each job
  job_queue,   \* its jobs: they wait in the order of their numbers
  ongoing_job_q, job_sem,
  p_session_inprogress,
  manager,     \* where mm_jpeg_jobmgr_thread is, and its job
  call,        \* the call under g_intf_lock, its session and job
  change,      \* the states a component is taken through under job_lock
  session_j,   \* the sessions
  omx,         \* their components
  answered,    \* how often jpeg_cb was called for each job
  withdrawn,   \* jobs whose abort or whose session's destruction returned
  spent        \* sessions created, errors used

jpegVars == <<jobs, job_queue, ongoing_job_q, job_sem, p_session_inprogress,
              manager, call, change, session_j, omx, answered, withdrawn, spent>>

JpegJob == 1..MaxJobs

NewSession ==
  [active |-> FALSE, usable |-> FALSE, config |-> FALSE, encoding |-> FALSE,
   error |-> FALSE, pending |-> FALSE, abort |-> "none", jobId |-> 0,
   handles |-> 0, woken |-> FALSE, cb |-> "idle"]

OmxState == {"none", "Loaded", "Idle", "Executing"}

(* input is the job whose input buffer the component has, work the job it   *)
(* has both buffers of.                                                    *)
NoComponent == [state |-> "none", cmds |-> << >>, input |-> 0, work |-> 0]

NoChange == [on |-> NoSession, way |-> "up", rest |-> << >>, at |-> "next"]

JpegTypeOK ==
  /\ jobs \in Seq(JpegSession) /\ Len(jobs) <= MaxJobs
  /\ job_queue \subseteq JpegJob /\ ongoing_job_q \subseteq JpegJob
  /\ job_sem \in Nat
  /\ p_session_inprogress \in JpegSession \cup {NoSession}
  /\ manager \in [at : {"wait", "check", "lock", "encode", "clearing",
                        "configuring", "params", "submit", "fill", "fail"},
                  job : {0} \cup JpegJob]
  /\ call \in [at : {"none", "post", "create", "configuring", "abort", "destroy",
                     "halt", "halting", "down"},
               sess : JpegSession \cup {NoSession}, job : {0} \cup JpegJob]
  /\ change \in [on : JpegSession \cup {NoSession}, way : {"up", "down"},
                 rest : Seq(OmxState), at : {"next", "sent", "wait", "failed"}]
  /\ session_j \in [JpegSession ->
       [active : BOOLEAN, usable : BOOLEAN, config : BOOLEAN, encoding : BOOLEAN,
        error : BOOLEAN, pending : BOOLEAN, abort : {"none", "init", "done"},
        jobId : {0} \cup JpegJob, handles : Nat, woken : BOOLEAN,
        cb : {"idle", "remove", "handle", "post"}]]
  /\ omx \in [JpegSession -> [state : OmxState, cmds : Seq(OmxState),
                              input : {0} \cup JpegJob, work : {0} \cup JpegJob]]
  /\ answered \in [JpegJob -> Nat] /\ withdrawn \subseteq JpegJob
  /\ spent \in [creates : Nat, errors : Nat]

JpegInit ==
  /\ jobs = << >> /\ job_queue = {} /\ ongoing_job_q = {} /\ job_sem = 0
  /\ p_session_inprogress = NoSession
  /\ manager = [at |-> "wait", job |-> 0]
  /\ call = [at |-> "none", sess |-> NoSession, job |-> 0]
  /\ change = NoChange
  /\ session_j = [s \in JpegSession |-> NewSession]
  /\ omx = [s \in JpegSession |-> NoComponent]
  /\ answered = [j \in JpegJob |-> 0] /\ withdrawn = {}
  /\ spent = [creates |-> 0, errors |-> 0]

-----------------------------------------------------------------------------
(* The callback keeps the lock of its session until it returns. *)
Unlocked(s) == session_j[s].cb = "idle"

CallHasJobLock ==
  call.at \in {"configuring", "halt", "halting", "down"}

ManagerHasJobLock == manager.at \notin {"wait", "check", "lock"}

OmxMayFail == spent.errors < MaxOmxErrors

OmxFails == spent' = [spent EXCEPT !.errors = @ + 1]

JobsOf(s) == {j \in DOMAIN jobs : jobs[j] = s}

Manager(at) == manager' = [manager EXCEPT !.at = at]

Call(at) == call' = [call EXCEPT !.at = at]

CallReturns == call' = [at |-> "none", sess |-> NoSession, job |-> 0]

(* mm_jpeg_session_change_state for one state after the other, under        *)
(* job_lock.  On the way up it returns at once in the state it is asked     *)
(* for; on the way down its callers look at the state first.                *)
ChangeStates(s, way, states) ==
  change' = [on |-> s, way |-> way, rest |-> states, at |-> "next"]

Configuring(s) == ChangeStates(s, "up", <<"Idle", "Executing">>)

TakingDown(s) == ChangeStates(s, "down", <<"Idle", "Loaded">>)

Changed == change.at = "next" /\ change.rest = << >>

NextState ==
  change' = [change EXCEPT !.rest = Tail(@), !.at = "next"]

ToDo(s, state) ==
  CASE change.way = "up" -> omx[s].state # state
    [] change.way = "down" /\ state = "Idle" -> omx[s].state = "Executing"
    [] OTHER -> omx[s].state = "Idle"

SendCommand ==
  /\ change.at = "next" /\ change.rest # << >>
  /\ LET s == change.on
         state == Head(change.rest) IN
       IF ToDo(s, state)
         THEN /\ Unlocked(s)
              /\ session_j' = [session_j EXCEPT ![s].pending = TRUE]
              /\ omx' = [omx EXCEPT ![s].cmds = Append(@, state)]
              /\ change' = [change EXCEPT !.at = "sent"]
         ELSE NextState /\ UNCHANGED <<session_j, omx>>
  /\ UNCHANGED <<jobs, job_queue, ongoing_job_q, job_sem, p_session_inprogress,
                 manager, call, answered, withdrawn, spent>>

(* An error seen here ends the change; the destruction goes on all the same. *)
CheckChange ==
  /\ change.at = "sent" /\ Unlocked(change.on)
  /\ LET s == change.on IN
       /\ CASE session_j[s].error /\ call.at = "down" -> NextState
            [] session_j[s].error /\ call.at # "down" ->
                 change' = [change EXCEPT !.at = "failed"]
            [] OTHER -> IF session_j[s].pending
                          THEN change' = [change EXCEPT !.at = "wait"]
                          ELSE NextState
       /\ session_j' = [session_j EXCEPT ![s].woken = FALSE]
  /\ UNCHANGED <<jobs, job_queue, ongoing_job_q, job_sem, p_session_inprogress,
                 manager, call, omx, answered, withdrawn, spent>>

(* It waits once, and an error that wakes it up is not looked at. *)
WakeChange ==
  /\ change.at = "wait" /\ session_j[change.on].woken /\ Unlocked(change.on)
  /\ NextState
  /\ UNCHANGED <<jobs, job_queue, ongoing_job_q, job_sem, p_session_inprogress,
                 manager, call, session_j, omx, answered, withdrawn, spent>>

-----------------------------------------------------------------------------
(* mm_jpeg_jobmgr_thread *)

SemWait ==
  /\ manager.at = "wait" /\ job_sem > 0
  /\ job_sem' = job_sem - 1 /\ Manager("check")
  /\ UNCHANGED <<jobs, job_queue, ongoing_job_q, p_session_inprogress, call,
                 change, session_j, omx, answered, withdrawn, spent>>

CheckOngoing ==
  /\ manager.at = "check"
  /\ Manager(IF ongoing_job_q = {} THEN "lock" ELSE "wait")
  /\ UNCHANGED <<jobs, job_queue, ongoing_job_q, job_sem, p_session_inprogress,
                 call, change, session_j, omx, answered, withdrawn, spent>>

(* A job whose session is not available goes back to the head of the queue. *)
TakeJob ==
  /\ manager.at = "lock" /\ ~CallHasJobLock
  /\ IF job_queue = {} \/ session_j[jobs[Min(job_queue)]].handles = 0
       THEN /\ Manager("wait")
            /\ UNCHANGED <<job_queue, ongoing_job_q, session_j>>
       ELSE LET j == Min(job_queue) IN
            /\ manager' = [at |-> "encode", job |-> j]
            /\ job_queue' = job_queue \ {j}
            /\ ongoing_job_q' = ongoing_job_q \cup {j}
            /\ session_j' = [session_j EXCEPT ![jobs[j]].handles = @ - 1,
                                              ![jobs[j]].jobId = j]
  /\ UNCHANGED <<jobs, job_sem, p_session_inprogress, call, change, omx, answered,
                 withdrawn, spent>>

(* mm_jpeg_session_encode: a session that is not configured takes the one   *)
(* in progress down first.                                                  *)
EncodeSession ==
  /\ manager.at = "encode"
  /\ LET s == jobs[manager.job] IN
       /\ Unlocked(s)
       /\ session_j' = [session_j EXCEPT ![s].abort = "none", ![s].encoding = FALSE]
       /\ CASE session_j[s].config -> Manager("params") /\ UNCHANGED change
            [] ~session_j[s].config /\ p_session_inprogress # NoSession ->
                 Manager("clearing") /\ TakingDown(p_session_inprogress)
            [] OTHER -> Manager("configuring") /\ Configuring(s)
  /\ UNCHANGED <<jobs, job_queue, ongoing_job_q, job_sem, p_session_inprogress,
                 call, omx, answered, withdrawn, spent>>

ClearInProgress_KeepsConfig ==
  /\ manager.at = "clearing"
  /\ \/ /\ Changed
        /\ p_session_inprogress' = NoSession
        /\ Manager("configuring") /\ Configuring(jobs[manager.job])
     \/ /\ change.at = "failed"
        /\ change' = NoChange /\ Manager("fail")
        /\ UNCHANGED p_session_inprogress
  /\ UNCHANGED <<jobs, job_queue, ongoing_job_q, job_sem, call, session_j, omx,
                 answered, withdrawn, spent>>

ClearInProgress ==
  /\ manager.at = "clearing"
  /\ \/ /\ Changed
        /\ session_j' = [session_j EXCEPT ![p_session_inprogress].config = FALSE]
        /\ p_session_inprogress' = NoSession
        /\ Manager("configuring") /\ Configuring(jobs[manager.job])
     \/ /\ change.at = "failed"
        /\ change' = NoChange /\ Manager("fail")
        /\ UNCHANGED <<session_j, p_session_inprogress>>
  /\ UNCHANGED <<jobs, job_queue, ongoing_job_q, job_sem, call, omx, answered,
                 withdrawn, spent>>

Configured(s) ==
  /\ Changed /\ change' = NoChange
  /\ session_j' = [session_j EXCEPT ![s].config = TRUE]
  /\ p_session_inprogress' = s

ConfigureForJob ==
  /\ manager.at = "configuring"
  /\ \/ Configured(jobs[manager.job]) /\ Manager("params")
     \/ /\ change.at = "failed"
        /\ change' = NoChange /\ Manager("fail")
        /\ UNCHANGED <<session_j, p_session_inprogress>>
  /\ UNCHANGED <<jobs, job_queue, ongoing_job_q, job_sem, call, omx, answered,
                 withdrawn, spent>>

ConfigureJobParams ==
  /\ manager.at = "params"
  /\ LET s == jobs[manager.job] IN
       \/ /\ Unlocked(s) /\ Manager("submit")
          /\ session_j' = [session_j EXCEPT ![s].encoding = TRUE]
          /\ UNCHANGED spent
       \/ OmxMayFail /\ OmxFails /\ Manager("fail") /\ UNCHANGED session_j
  /\ UNCHANGED <<jobs, job_queue, ongoing_job_q, job_sem, p_session_inprogress,
                 call, change, omx, answered, withdrawn>>

(* A component takes buffers only while it executes.  It encodes when it    *)
(* has got both, unless it has dropped the first by then.                  *)
EmptyBuffer ==
  /\ manager.at = "submit"
  /\ LET s == jobs[manager.job] IN
       \/ /\ omx[s].state = "Executing"
          /\ omx' = [omx EXCEPT ![s].input = manager.job]
          /\ Manager("fill") /\ UNCHANGED spent
       \/ /\ omx[s].state # "Executing"
          /\ Manager("fail") /\ UNCHANGED <<omx, spent>>
       \/ OmxMayFail /\ OmxFails /\ Manager("fail") /\ UNCHANGED omx
  /\ UNCHANGED <<jobs, job_queue, ongoing_job_q, job_sem, p_session_inprogress,
                 call, change, session_j, answered, withdrawn>>

FillBuffer ==
  /\ manager.at = "fill"
  /\ LET s == jobs[manager.job] IN
       \/ /\ omx[s].state = "Executing"
          /\ omx' = [omx EXCEPT ![s].work = omx[s].input]
          /\ manager' = [at |-> "wait", job |-> 0] /\ UNCHANGED spent
       \/ /\ omx[s].state # "Executing"
          /\ Manager("fail") /\ UNCHANGED <<omx, spent>>
       \/ OmxMayFail /\ OmxFails /\ Manager("fail") /\ UNCHANGED omx
  /\ UNCHANGED <<jobs, job_queue, ongoing_job_q, job_sem, p_session_inprogress,
                 call, change, session_j, answered, withdrawn>>

(* The manager answers a job that did not start, and does its job_done. *)
FailJob ==
  /\ manager.at = "fail" /\ manager' = [at |-> "wait", job |-> 0]
  /\ LET s == jobs[manager.job] IN
       session_j' = [session_j EXCEPT ![s].encoding = FALSE, ![s].handles = @ + 1]
  /\ answered' = [answered EXCEPT ![manager.job] = @ + 1]
  /\ ongoing_job_q' = ongoing_job_q \ {manager.job}
  /\ job_sem' = job_sem + 1
  /\ UNCHANGED <<jobs, job_queue, p_session_inprogress, call, change, omx,
                 withdrawn, spent>>

-----------------------------------------------------------------------------
(* The component of a session, and its callbacks *)

(* mm_jpeg_event_handler wakes whoever waits.  While a job is aborted any   *)
(* event will do.                                                           *)
Aborting(s) == session_j[s].abort = "init"

Aborted(s) ==
  session_j' = [session_j EXCEPT ![s].abort = "done", ![s].woken = TRUE]

(* A component that is told to be idle gives its buffers back. *)
CommandDone(s) ==
  /\ omx[s].cmds # << >> /\ Unlocked(s)
  /\ LET state == Head(omx[s].cmds) IN
       omx' = [omx EXCEPT ![s].state = state, ![s].cmds = Tail(@),
                          ![s].input = IF state = "Idle" THEN 0 ELSE @,
                          ![s].work = IF state = "Idle" THEN 0 ELSE @]
  /\ CASE Aborting(s) -> Aborted(s)
       [] ~Aborting(s) /\ session_j[s].pending ->
            session_j' = [session_j EXCEPT ![s].pending = FALSE, ![s].woken = TRUE]
       [] OTHER -> UNCHANGED session_j
  /\ UNCHANGED <<jobs, job_queue, ongoing_job_q, job_sem, p_session_inprogress,
                 manager, call, change, answered, withdrawn, spent>>

(* An error on the way up, or of the job it encodes, whose buffers it drops. *)
OmxError(s) ==
  /\ OmxMayFail /\ OmxFails /\ Unlocked(s)
  /\ \/ /\ change.on = s /\ change.way = "up" /\ omx[s].cmds # << >>
        /\ omx' = [omx EXCEPT ![s].cmds = Tail(@)]
     \/ /\ omx[s].input # 0
        /\ omx' = [omx EXCEPT ![s].input = 0, ![s].work = 0]
  /\ CASE Aborting(s) -> Aborted(s) /\ UNCHANGED answered
       [] ~Aborting(s) /\ session_j[s].encoding ->
            /\ session_j' = [session_j EXCEPT ![s].error = TRUE, ![s].woken = TRUE,
                                              ![s].cb = "remove"]
            /\ answered' = [answered EXCEPT ![session_j[s].jobId] = @ + 1]
       [] OTHER ->
            /\ session_j' = [session_j EXCEPT ![s].error = TRUE, ![s].woken = TRUE]
            /\ UNCHANGED answered
  /\ UNCHANGED <<jobs, job_queue, ongoing_job_q, job_sem, p_session_inprogress,
                 manager, call, change, withdrawn>>

(* mm_jpeg_fbd: the image is there, or the buffer comes back unused. *)
FillBufferDone(s) ==
  /\ omx[s].work # 0 /\ Unlocked(s)
  /\ omx' = [omx EXCEPT ![s].input = 0, ![s].work = 0]
  /\ IF session_j[s].abort # "none" THEN UNCHANGED <<session_j, answered>>
     ELSE /\ answered' = [answered EXCEPT ![session_j[s].jobId] = @ + 1]
          /\ session_j' = [session_j EXCEPT ![s].cb = "remove"]
  /\ UNCHANGED <<jobs, job_queue, ongoing_job_q, job_sem, p_session_inprogress,
                 manager, call, change, withdrawn, spent>>

(* The manager is woken before the session is back. *)
JobDone_WakesFirst(s) ==
  /\ CASE session_j[s].cb = "remove" ->
            /\ ongoing_job_q' = ongoing_job_q \ {session_j[s].jobId}
            /\ session_j' = [session_j EXCEPT ![s].cb = "post",
                                              ![s].encoding = FALSE]
            /\ UNCHANGED job_sem
       [] session_j[s].cb = "post" ->
            /\ session_j' = [session_j EXCEPT ![s].cb = "handle"]
            /\ job_sem' = job_sem + 1 /\ UNCHANGED ongoing_job_q
       [] session_j[s].cb = "handle" ->
            /\ session_j' = [session_j EXCEPT ![s].cb = "idle", ![s].handles = @ + 1]
            /\ UNCHANGED <<ongoing_job_q, job_sem>>
       [] OTHER -> FALSE
  /\ UNCHANGED <<jobs, job_queue, p_session_inprogress, manager, call, change, omx,
                 answered, withdrawn, spent>>

(* mm_jpegenc_job_done, in the callback *)
JobDone(s) ==
  /\ CASE session_j[s].cb = "remove" ->
            /\ ongoing_job_q' = ongoing_job_q \ {session_j[s].jobId}
            /\ session_j' = [session_j EXCEPT ![s].cb = "handle",
                                              ![s].encoding = FALSE]
            /\ UNCHANGED job_sem
       [] session_j[s].cb = "handle" ->
            /\ session_j' = [session_j EXCEPT ![s].cb = "post", ![s].handles = @ + 1]
            /\ UNCHANGED <<ongoing_job_q, job_sem>>
       [] session_j[s].cb = "post" ->
            /\ session_j' = [session_j EXCEPT ![s].cb = "idle"]
            /\ job_sem' = job_sem + 1 /\ UNCHANGED ongoing_job_q
       [] OTHER -> FALSE
  /\ UNCHANGED <<jobs, job_queue, p_session_inprogress, manager, call, change, omx,
                 answered, withdrawn, spent>>

-----------------------------------------------------------------------------
(* The calls of the clients *)

CreateSession(s) ==
  /\ call.at = "none" /\ ~session_j[s].active /\ spent.creates < MaxCreates
  /\ spent' = [spent EXCEPT !.creates = @ + 1]
  /\ call' = [at |-> "create", sess |-> s, job |-> 0]
  /\ session_j' = [session_j EXCEPT ![s] =
       [NewSession EXCEPT !.active = TRUE, !.handles = 1]]
  /\ omx' = [omx EXCEPT ![s] = [NoComponent EXCEPT !.state = "Loaded"]]
  /\ UNCHANGED <<jobs, job_queue, ongoing_job_q, job_sem, p_session_inprogress,
                 manager, change, answered, withdrawn>>

(* A new session is configured at once if no other one is.  A client does   *)
(* not use a session whose creation failed.                                 *)
ConfigureNew ==
  /\ call.at = "create" /\ ~ManagerHasJobLock
  /\ IF p_session_inprogress = NoSession
       THEN /\ Call("configuring") /\ Configuring(call.sess)
            /\ UNCHANGED session_j
       ELSE /\ CallReturns /\ UNCHANGED change
            /\ session_j' = [session_j EXCEPT ![call.sess].usable = TRUE]
  /\ UNCHANGED <<jobs, job_queue, ongoing_job_q, job_sem, p_session_inprogress,
                 manager, omx, answered, withdrawn, spent>>

SessionCreated ==
  /\ call.at = "configuring" /\ CallReturns
  /\ \/ /\ Changed /\ change' = NoChange
        /\ session_j' = [session_j EXCEPT ![call.sess].config = TRUE,
                                          ![call.sess].usable = TRUE]
        /\ p_session_inprogress' = call.sess
     \/ /\ change.at = "failed" /\ change' = NoChange
        /\ UNCHANGED <<session_j, p_session_inprogress>>
  /\ UNCHANGED <<jobs, job_queue, ongoing_job_q, job_sem, manager, omx, answered,
                 withdrawn, spent>>

StartJob(s) ==
  /\ call.at = "none" /\ session_j[s].usable /\ Len(jobs) < MaxJobs
  /\ jobs' = Append(jobs, s)
  /\ job_queue' = job_queue \cup {Len(jobs')}
  /\ call' = [at |-> "post", sess |-> s, job |-> 0]
  /\ UNCHANGED <<ongoing_job_q, job_sem, p_session_inprogress, manager, change,
                 session_j, omx, answered, withdrawn, spent>>

SemPost ==
  /\ call.at = "post" /\ CallReturns /\ job_sem' = job_sem + 1
  /\ UNCHANGED <<jobs, job_queue, ongoing_job_q, p_session_inprogress, manager,
                 change, session_j, omx, answered, withdrawn, spent>>

(* A client that aborts a job does not use the session again: it destroys   *)
(* it before the next job or when it stops.                                 *)
AbortOrDestroy(s) ==
  /\ call.at = "none" /\ session_j[s].active
  /\ \/ call' = [at |-> "destroy", sess |-> s, job |-> 0]
     \/ \E j \in JobsOf(s) : /\ j \notin withdrawn /\ answered[j] = 0
                             /\ call' = [at |-> "abort", sess |-> s, job |-> j]
  /\ session_j' = [session_j EXCEPT ![s].usable = FALSE]
  /\ UNCHANGED <<jobs, job_queue, ongoing_job_q, job_sem, p_session_inprogress,
                 manager, change, omx, answered, withdrawn, spent>>

(* Only a job under way is looked for; one that waits stays in the queue. *)
AbortJpegJob_OngoingOnly ==
  /\ call.at = "abort" /\ ~ManagerHasJobLock
  /\ IF call.job \in ongoing_job_q
       THEN /\ Call("halt") /\ UNCHANGED withdrawn
            /\ ongoing_job_q' = ongoing_job_q \ {call.job}
       ELSE /\ CallReturns /\ withdrawn' = withdrawn \cup {call.job}
            /\ UNCHANGED ongoing_job_q
  /\ UNCHANGED <<jobs, job_queue, job_sem, p_session_inprogress, manager, change,
                 session_j, omx, answered, spent>>

(* mm_jpeg_abort_job: it does not wake the manager. *)
AbortJpegJob ==
  /\ call.at = "abort" /\ ~ManagerHasJobLock
  /\ job_queue' = job_queue \ {call.job}
  /\ IF call.job \notin job_queue /\ call.job \in ongoing_job_q
       THEN /\ Call("halt") /\ UNCHANGED withdrawn
            /\ ongoing_job_q' = ongoing_job_q \ {call.job}
       ELSE /\ CallReturns /\ withdrawn' = withdrawn \cup {call.job}
            /\ UNCHANGED ongoing_job_q
  /\ UNCHANGED <<jobs, job_sem, p_session_inprogress, manager, change, session_j,
                 omx, answered, spent>>

DestroyJpegSession ==
  /\ call.at = "destroy" /\ ~ManagerHasJobLock /\ Call("halt")
  /\ job_queue' = job_queue \ JobsOf(call.sess)
  /\ ongoing_job_q' = ongoing_job_q \ JobsOf(call.sess)
  /\ UNCHANGED <<jobs, job_sem, p_session_inprogress, manager, change, session_j,
                 omx, answered, withdrawn, spent>>

(* The abort of a job ends the call, a destruction goes on. *)
Halted ==
  IF call.job # 0
    THEN CallReturns /\ withdrawn' = withdrawn \cup {call.job} /\ UNCHANGED change
    ELSE Call("down") /\ TakingDown(call.sess) /\ UNCHANGED withdrawn

(* mm_jpeg_session_abort *)
SessionAbort ==
  LET s == call.sess IN
    /\ call.at = "halt" /\ Unlocked(s)
    /\ CASE session_j[s].abort # "none" -> Halted /\ UNCHANGED <<session_j, omx>>
         [] session_j[s].abort = "none" /\ session_j[s].encoding ->
              /\ session_j' = [session_j EXCEPT ![s].abort = "init",
                                                ![s].pending = TRUE]
              /\ omx' = [omx EXCEPT ![s].cmds = Append(@, "Idle")]
              /\ Call("halting") /\ UNCHANGED <<change, withdrawn>>
         [] OTHER ->
              /\ session_j' = [session_j EXCEPT ![s].abort = "done"]
              /\ Halted /\ UNCHANGED omx
    /\ UNCHANGED <<jobs, job_queue, ongoing_job_q, job_sem, p_session_inprogress,
                   manager, answered, spent>>

SessionAborted ==
  /\ call.at = "halting" /\ session_j[call.sess].abort = "done"
  /\ Unlocked(call.sess) /\ Halted
  /\ UNCHANGED <<jobs, job_queue, ongoing_job_q, job_sem, p_session_inprogress,
                 manager, session_j, omx, answered, spent>>

(* mm_jpeg_session_destroy, and the rest of mm_jpeg_destroy_session, which  *)
(* wakes the manager for the jobs of others.                                *)
FreeSession ==
  LET s == call.sess IN
    /\ call.at = "down" /\ Changed /\ Unlocked(s) /\ Call("post")
    /\ change' = NoChange
    /\ p_session_inprogress' =
         IF p_session_inprogress = s THEN NoSession ELSE p_session_inprogress
    /\ session_j' = [session_j EXCEPT ![s] = NewSession]
    /\ omx' = [omx EXCEPT ![s] = NoComponent]
    /\ withdrawn' = withdrawn \cup JobsOf(s)
    /\ UNCHANGED <<jobs, job_queue, ongoing_job_q, job_sem, manager, answered, spent>>

-----------------------------------------------------------------------------
JpegWork ==
  \/ SendCommand \/ CheckChange \/ WakeChange
  \/ SemWait \/ CheckOngoing \/ TakeJob \/ EncodeSession \/ ClearInProgress
  \/ ConfigureForJob \/ ConfigureJobParams \/ EmptyBuffer \/ FillBuffer
  \/ FailJob
  \/ \E s \in JpegSession :
       CommandDone(s) \/ OmxError(s) \/ FillBufferDone(s) \/ JobDone(s)
  \/ ConfigureNew \/ SessionCreated \/ SemPost
  \/ AbortJpegJob \/ DestroyJpegSession \/ SessionAbort \/ SessionAborted
  \/ FreeSession

JpegNext ==
  \/ JpegWork
  \/ \E s \in JpegSession : CreateSession(s) \/ StartJob(s) \/ AbortOrDestroy(s)

JpegSpec == JpegInit /\ [][JpegNext]_jpegVars

-----------------------------------------------------------------------------
(* jpeg_cb is called once at most for a job, whether the component answers, *)
(* fails or is refused the job, and not at all once the abort of the job or *)
(* the destruction of its session has returned: the client has freed it.    *)
(* One error may happen; with two it fails (README, "Not modelled").        *)
JobAnsweredOnce ==
  [][\A j \in JpegJob : answered'[j] # answered[j] =>
       answered[j] = 0 /\ j \notin withdrawn]_jpegVars

(* When the manager, the callbacks and the calls have all come to rest, no  *)
(* thread is in the middle of a call and every job is answered or withdrawn *)
(* -- unless a session with an aborted job is still to be destroyed, which  *)
(* is when the manager is woken.                                            *)
NoJobStranded ==
  \/ /\ call.at = "none" /\ manager.at = "wait"
     /\ \/ \E s \in JpegSession : session_j[s].abort = "done"
        \/ \A j \in DOMAIN jobs : answered[j] = 1 \/ j \in withdrawn
  \/ ENABLED JpegWork

(* A job's buffers go to a component that executes, and is the only one     *)
(* that is configured -- but for one that reported an error, or whose abort *)
(* an error ended before the component was idle.                            *)
OneConfigured ==
  manager.at = "submit" => \A s \in JpegSession :
    \/ s = jobs[manager.job] /\ omx[s].state = "Executing"
    \/ s # jobs[manager.job] /\ omx[s].state \in {"none", "Loaded"}
    \/ spent.errors > 0 /\ (session_j[s].error \/ session_j[s].abort = "done")
=============================================================================
