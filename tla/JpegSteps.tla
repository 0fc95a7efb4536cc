----------------------------- MODULE JpegSteps -----------------------------
(***************************************************************************)
(* The inductive invariant JInv of JpegJobs, the elementary steps its      *)
(* actions come down to, and the groups of the invariant on which that     *)
(* rests; JpegProofs has the other groups and the theorems.                *)
(*                                                                         *)
(* JInv has one group of conjuncts for each thing the steps rely on.       *)
(* Places: which thread is where, and who holds job_lock.  Sessions: what  *)
(* an inactive session has, and that p_session_inprogress is the session   *)
(* whose component is configured.  Change: whose component is being        *)
(* brought up or down, and what is left of it.  Drained: what a call to    *)
(* create, abort or destroy has already taken out of the queues.  Aborts,  *)
(* Handles, ManagerInv: the states of abort, of the session handles in the *)
(* session_handle_q and of the job the manager serves.  Components: the    *)
(* state of every component, except those an error left as they were.      *)
(* Ongoing, Clean, Numbers, OnceInv: the jobs in ongoing_job_q, the        *)
(* buffers a component holds, the job numbers, and how often a job was     *)
(* answered.                                                               *)
(*                                                                         *)
(* An action of JpegJobs updates records of records under several guards.  *)
(* Each is first shown to be one of the elementary steps below, which say  *)
(* what happens to every field (lemmas ...Steps, gathered in Elementary),  *)
(* and to keep the types (lemmas ...Types, gathered in TypeKept); each     *)
(* group of the invariant is then shown to be preserved by every           *)
(* elementary step (lemmas ...Kept): the first four here.                  *)
(***************************************************************************)
EXTENDS JpegJobs, SequenceTheorems, WellFoundedInduction, TLAPS

(* The commands of the changes: the component goes up through Idle to       *)
(* Executing, or down through Idle to Loaded.                               *)
Idle1 == <<"Idle">>
Exec1 == <<"Executing">>
Loaded1 == <<"Loaded">>
Up2 == <<"Idle", "Executing">>
Down2 == <<"Idle", "Loaded">>

(* The manager serves a job, of session Sess.                               *)
Held == manager.job # 0
Sess == jobs[manager.job]
Holds(t) == Held /\ Sess = t

(* An error is pending on session t, or ended its abort before the          *)
(* component reported that it was idle.                                     *)
Bad(t) ==
  \/ session_j[t].error
  \/ spent.errors > 0 /\ session_j[t].abort = "done" /\ session_j[t].encoding

(* The session's counts are exact: those of a session in error are, only    *)
(* when there is no second error.                                           *)
Exact(t) == MaxOmxErrors <= 1 \/ ~session_j[t].error

(* Which threads hold a job and job_lock, and that what they serve is       *)
(* there.                                                                   *)
Places ==
  /\ ManagerHasJobLock <=> Held
  /\ Held => /\ manager.job \in DOMAIN jobs
             /\ Sess \in JpegSession /\ session_j[Sess].active
  /\ ~(CallHasJobLock /\ Held)
  /\ call.at \notin {"none", "post"} =>
       call.sess \in JpegSession /\ session_j[call.sess].active
  /\ call.at = "abort" => call.job # 0
  /\ call.at \in {"none", "create", "configuring", "destroy", "down", "post"}
       => call.job = 0
  /\ call.job # 0 => call.job \in JobsOf(call.sess)
  /\ job_queue \subseteq DOMAIN jobs

(* An inactive session has nothing, and p_session_inprogress is the session *)
(* whose component is configured.                                           *)
Sessions ==
  /\ \A t \in JpegSession :
       /\ ~session_j[t].active =>
            /\ ~session_j[t].usable /\ ~session_j[t].config /\ ~session_j[t].encoding
            /\ ~session_j[t].error /\ session_j[t].abort = "none"
            /\ session_j[t].jobId = 0 /\ session_j[t].handles = 0
            /\ session_j[t].cb = "idle"
            /\ omx[t].state = "none" /\ omx[t].cmds = << >>
            /\ omx[t].input = 0 /\ omx[t].work = 0
       /\ session_j[t].config <=> p_session_inprogress = t
       /\ session_j[t].error => spent.errors > 0
  /\ p_session_inprogress \in JpegSession \cup {NoSession}
  /\ spent.errors \in Nat /\ spent.errors <= MaxOmxErrors

(* The component being brought up or down is that of the session which the  *)
(* manager or the caller is at, and the commands left are the rest of that  *)
(* way.                                                                     *)
Change ==
  /\ change.on = NoSession => change.rest = << >> /\ change.at = "next"
  /\ change.on # NoSession <=> manager.at \in {"clearing", "configuring"} \/
                               call.at \in {"configuring", "down"}
  /\ manager.at = "clearing" => change.on = p_session_inprogress /\ change.way = "down"
        /\ change.on # Sess
  /\ manager.at = "configuring" => change.on = Sess /\ change.way = "up"
        /\ p_session_inprogress = NoSession
  /\ call.at = "configuring" => change.on = call.sess /\ change.way = "up"
        /\ p_session_inprogress = NoSession
  /\ call.at = "down" => change.on = call.sess /\ change.way = "down"
  /\ change.way = "up" => change.rest \in {Up2, Exec1, << >>}
  /\ change.way = "down" => change.rest \in {Down2, Loaded1, << >>}
  /\ change.at \in {"sent", "wait"} => change.rest # << >>
  /\ change.at = "failed" => session_j[change.on].error
  /\ change.on # NoSession => change.on \in JpegSession /\ session_j[change.on].active

(* The queues hold jobs of active sessions only, and none of those that a   *)
(* call has taken out.                                                      *)
Drained ==
  /\ \A j \in job_queue : jobs[j] \in JpegSession /\ session_j[jobs[j]].active
  /\ \/ call.at \in {"create", "configuring", "down"}
     \/ call.at \in {"halt", "halting"} /\ call.job = 0
     => \A j \in job_queue : jobs[j] # call.sess
  /\ call.at \in {"halt", "halting"} /\ call.job # 0 => call.job \notin job_queue
  /\ call.at \in {"create", "configuring"} =>
       /\ ~session_j[call.sess].encoding /\ session_j[call.sess].abort = "none"
       /\ session_j[call.sess].cb = "idle" /\ ~Holds(call.sess)
       /\ omx[call.sess].input = 0 /\ omx[call.sess].work = 0

(* The session's handle is out of its queue: the job it serves is being     *)
(* encoded, answered or prepared.                                           *)
Out(t) ==
  \/ session_j[t].encoding \/ session_j[t].cb \in {"remove", "handle"}
  \/ Holds(t) /\ manager.at # "fill"

(* A session is being aborted while the caller waits for it and its job is  *)
(* being encoded, and the manager's own session never is.                   *)
Aborts ==
  \A t \in JpegSession :
    /\ session_j[t].abort = "init" => /\ call.at = "halting" /\ call.sess = t
                                      /\ session_j[t].encoding
                                      /\ session_j[t].cb = "idle"
    /\ session_j[t].cb \in {"handle", "post"} => ~session_j[t].encoding
    /\ Exact(t) /\ session_j[t].abort # "none" /\ session_j[t].encoding
         => session_j[t].cb = "idle"
    /\ Holds(t) /\ manager.at # "encode" => session_j[t].abort = "none"

(* The one handle of a session is in its queue or out.                      *)
Handles ==
  \A t \in JpegSession : session_j[t].active /\ Exact(t) =>
    session_j[t].handles = IF Out(t) THEN 0 ELSE 1

(* The session of the manager's job, at each place of the manager.          *)
Under(t) ==
  Exact(t) /\ Holds(t) =>
    /\ manager.at \in {"encode", "clearing", "configuring", "params"} =>
         ~session_j[t].encoding /\ session_j[t].cb \in {"idle", "post"}
    /\ manager.at \in {"clearing", "configuring", "params", "submit", "fail"}
         => session_j[t].cb = "idle"
    /\ manager.at = "submit" => session_j[t].encoding
    /\ manager.at = "fill" /\ ~(session_j[t].encoding /\ session_j[t].cb = "idle") =>
         /\ session_j[t].error /\ spent.errors >= MaxOmxErrors
         /\ omx[t].state = "Executing" /\ omx[t].cmds = << >> /\ omx[t].input = 0

(* What the manager relies on, and where buffers are being encoded.         *)
ManagerInv ==
  /\ \A t \in JpegSession : Under(t)
  /\ manager.at \in {"params", "submit", "fill"} => session_j[Sess].config
  /\ manager.at = "fail" => spent.errors > 0
  /\ \A t \in JpegSession :
       Exact(t) /\ omx[t].work # 0 => session_j[t].encoding /\ ~Holds(t)
         /\ session_j[t].cb = "idle"

(* The component has one command to do.                                     *)
Single(t, state) ==
  omx[t].cmds # << >> /\ Head(omx[t].cmds) = state /\ Tail(omx[t].cmds) = << >>

(* A component nobody changes: it is configured, or Idle after an abort, or *)
(* Loaded.                                                                  *)
Steady(t) ==
  /\ IF session_j[t].abort = "init" THEN Single(t, "Idle") ELSE omx[t].cmds = << >>
  /\ omx[t].state = IF ~session_j[t].active THEN "none"
                    ELSE IF ~session_j[t].config THEN "Loaded"
                    ELSE IF session_j[t].abort = "done"
                      /\ session_j[t].encoding THEN "Idle"
                    ELSE "Executing"

(* The state of a component before the commands left.                       *)
Before(t) ==
  /\ change.rest = Up2 => omx[t].state = "Loaded"
  /\ change.rest = Exec1 => omx[t].state = "Idle"
  /\ change.rest = Down2 => omx[t].state \in {"Loaded", "Idle", "Executing"}
  /\ change.rest = Loaded1 => omx[t].state \in {"Loaded", "Idle"}
  /\ change.rest = << >> =>
       omx[t].state = IF change.way = "up" THEN "Executing" ELSE "Loaded"

(* The component was sent the next command and has not done it.             *)
Told(t) == Single(t, Head(change.rest)) /\ session_j[t].pending /\ Before(t)

(* The component has done the command it was sent.                          *)
Over(t) ==
  /\ omx[t].cmds = << >> /\ omx[t].state = Head(change.rest) /\ ~session_j[t].pending

(* The component being changed.                                             *)
Changing(t) ==
  /\ change.at = "next" => omx[t].cmds = << >> /\ Before(t)
  /\ change.at = "sent" => Told(t) \/ Over(t)
  /\ change.at = "wait" => (Told(t) /\ ~session_j[t].woken) \/ Over(t)
  /\ session_j[t].abort # "init"

Component(t) == ~Bad(t) => IF change.on = t THEN Changing(t) ELSE Steady(t)

(* Every component but the bad ones is steady or changing.                  *)
Components == \A t \in JpegSession : Component(t)

(* The job in service or being encoded is in ongoing_job_q.                 *)
Ongoing ==
  /\ manager.at = "lock" => ongoing_job_q = {}
  /\ manager.at \in {"encode", "clearing", "configuring"} =>
       ongoing_job_q \subseteq {manager.job}
  /\ \A t \in JpegSession : ~session_j[t].error =>
       /\ Holds(t) => manager.job \in ongoing_job_q
       /\ session_j[t].encoding /\ session_j[t].abort = "none" =>
            session_j[t].jobId \in ongoing_job_q \/ (call.at = "halt" /\ call.sess = t)
       /\ session_j[t].encoding /\ session_j[t].abort # "done" => session_j[t].config

(* The groups that JpegOneConfigured needs.                                 *)
ConfInv == Ongoing /\ Places /\ Sessions /\ Change /\ Drained /\ Aborts /\ Handles
  /\ ManagerInv /\ Components

(* Before any error, a component holds the buffers of a job being encoded.  *)
Clean ==
  spent.errors = 0 => \A t \in JpegSession :
    omx[t].input # 0 =>
      /\ session_j[t].encoding /\ session_j[t].cb = "idle"
           /\ session_j[t].abort # "done"
      /\ Holds(t) => manager.at = "fill"

(* A job number is of one job, in one queue.                                *)
Numbers ==
  /\ ongoing_job_q \subseteq DOMAIN jobs /\ job_queue \cap ongoing_job_q = {}
  /\ Held => manager.job \notin job_queue
  /\ \A t \in JpegSession : session_j[t].jobId # 0 =>
       session_j[t].jobId \in JobsOf(t) \ job_queue
  /\ \A j \in JpegJob \ DOMAIN jobs : answered[j] = 0 /\ j \notin withdrawn
  /\ \A t \in JpegSession : Holds(t) => session_j[t].jobId = manager.job
  /\ \A t \in JpegSession : session_j[t].encoding => session_j[t].jobId # 0

(* Job j was neither answered nor withdrawn.                                *)
Fresh(j) == answered[j] = 0 /\ j \notin withdrawn

(* With one error at most: a job in the queue, in service or in a component *)
(* was not answered.                                                        *)
OnceInv ==
  MaxOmxErrors <= 1 =>
    /\ \A j \in job_queue : Fresh(j)
    /\ \A t \in JpegSession : Holds(t) =>
         /\ manager.job \in ongoing_job_q \/ (manager.at = "fill"
              /\ ~session_j[t].encoding)
         /\ manager.job \notin withdrawn
         /\ manager.at # "fill" \/ (session_j[t].encoding
              /\ session_j[t].cb = "idle") => answered[manager.job] = 0
    /\ \A t \in JpegSession : omx[t].input # 0 /\ session_j[t].encoding
         /\ session_j[t].abort = "none"
          /\ session_j[t].cb = "idle" =>
           /\ Fresh(session_j[t].jobId)
           /\ session_j[t].jobId \in ongoing_job_q \/ (call.at = "halt"
                /\ call.sess = t)
    /\ \A t \in JpegSession : omx[t].work # 0 => omx[t].input # 0
    /\ manager.at = "lock" => ongoing_job_q = {}
    /\ call.at = "halt" => call.sess \in JpegSession

(* The inductive invariant.                                                 *)
JInv == JpegTypeOK /\ ConfInv /\ Clean /\ Numbers /\ OnceInv

(* The fields of a session, and steps which change only fields F of session *)
(* s (of its component).                                                    *)
SessionField == {"active", "usable", "config", "encoding", "error", "pending",
                 "abort", "jobId", "handles", "woken", "cb"}

Touches(s, F) ==
  /\ \A t \in JpegSession \ {s} : session_j'[t] = session_j[t]
  /\ \A f \in SessionField \ F : session_j'[s][f] = session_j[s][f]

Feeds(s, F) ==
  /\ \A t \in JpegSession \ {s} : omx'[t] = omx[t]
  /\ \A f \in {"state", "cmds", "input", "work"} \ F : omx'[s][f] = omx[s][f]

(* Where a step leaves the manager, the caller and the change.              *)
ManagerIs(at, j) == manager'.at = at /\ manager'.job = j

CallIs(at, s, j) == call'.at = at /\ call'.sess = s /\ call'.job = j

CallEnds == CallIs("none", NoSession, 0)

ChangeIs(s, way, rest, at) ==
  /\ change'.on = s /\ change'.way = way
  /\ change'.rest = rest /\ change'.at = at

ChangeEnds == ChangeIs(NoSession, "up", << >>, "next")

GoesOn == ChangeIs(change.on, change.way, Tail(change.rest), "next")

Answers(j) == answered' = [answered EXCEPT ![j] = @ + 1]

IsNew(r) ==
  /\ ~r.usable /\ ~r.config /\ ~r.encoding /\ ~r.error /\ ~r.pending
  /\ r.abort = "none" /\ r.jobId = 0 /\ ~r.woken /\ r.cb = "idle"

(* SendCommand *)
Sends(s) ==
  /\ change.on = s /\ change.at = "next" /\ change.rest # << >>
  /\ ToDo(s, Head(change.rest)) /\ Unlocked(s)
  /\ Touches(s, {"pending"}) /\ session_j'[s].pending = TRUE
  /\ Feeds(s, {"cmds"}) /\ omx'[s].cmds = Append(omx[s].cmds, Head(change.rest))
  /\ change'.at = "sent" /\ change'.on = s /\ change'.way = change.way
       /\ change'.rest = change.rest
  /\ UNCHANGED <<jobs, job_queue, ongoing_job_q, p_session_inprogress,
                 manager, call, answered, withdrawn, spent>>

(* SendCommand *)
Skips(s) ==
  /\ change.on = s /\ change.at = "next" /\ change.rest # << >>
  /\ ~ToDo(s, Head(change.rest)) /\ GoesOn
  /\ UNCHANGED <<jobs, job_queue, ongoing_job_q, p_session_inprogress,
                 manager, call, session_j, omx, answered, withdrawn, spent>>

(* CheckChange *)
Overcome(s) ==
  /\ change.on = s /\ change.at = "sent" /\ Unlocked(s)
  /\ session_j[s].error => call.at = "down"
  /\ session_j[s].error \/ ~session_j[s].pending
  /\ Touches(s, {"woken"}) /\ session_j'[s].woken = FALSE /\ GoesOn
  /\ UNCHANGED <<jobs, job_queue, ongoing_job_q, p_session_inprogress,
                 manager, call, omx, answered, withdrawn, spent>>

(* CheckChange *)
Breaks(s) ==
  /\ change.on = s /\ change.at = "sent" /\ Unlocked(s)
  /\ session_j[s].error /\ call.at # "down"
  /\ Touches(s, {"woken"}) /\ session_j'[s].woken = FALSE
  /\ ChangeIs(s, change.way, change.rest, "failed")
  /\ UNCHANGED <<jobs, job_queue, ongoing_job_q, p_session_inprogress,
                 manager, call, omx, answered, withdrawn, spent>>

(* CheckChange *)
Awaits(s) ==
  /\ change.on = s /\ change.at = "sent" /\ Unlocked(s)
  /\ ~session_j[s].error /\ session_j[s].pending
  /\ Touches(s, {"woken"}) /\ session_j'[s].woken = FALSE
  /\ ChangeIs(s, change.way, change.rest, "wait")
  /\ UNCHANGED <<jobs, job_queue, ongoing_job_q, p_session_inprogress,
                 manager, call, omx, answered, withdrawn, spent>>

(* WakeChange *)
Wakes(s) ==
  /\ change.on = s /\ change.at = "wait" /\ session_j[s].woken /\ Unlocked(s) /\ GoesOn
  /\ UNCHANGED <<jobs, job_queue, ongoing_job_q, p_session_inprogress,
                 manager, call, session_j, omx, answered, withdrawn, spent>>

(* SemWait/CheckOngoing/TakeJob *)
Moves ==
  /\ manager.at \in {"wait", "check", "lock"} /\ manager'.job = manager.job
  /\ manager'.at \in {"wait", "check", "lock"}
  /\ manager'.at = "lock" => ongoing_job_q = {}
  /\ UNCHANGED <<jobs, job_queue, ongoing_job_q, p_session_inprogress,
                 call, change, session_j, omx, answered, withdrawn, spent>>

(* TakeJob *)
Takes(s, j) ==
  /\ manager.at = "lock" /\ ~CallHasJobLock
  /\ j \in job_queue /\ jobs[j] = s /\ session_j[s].handles # 0
  /\ ManagerIs("encode", j)
  /\ job_queue' = job_queue \ {j} /\ ongoing_job_q' = ongoing_job_q \cup {j}
  /\ Touches(s, {"handles", "jobId"})
  /\ session_j'[s].handles = session_j[s].handles - 1 /\ session_j'[s].jobId = j
  /\ UNCHANGED <<jobs, p_session_inprogress, call, change, omx, answered,
                 withdrawn, spent>>

(* EncodeSession *)
FindsConfigured(s) ==
  /\ manager.at = "encode" /\ jobs[manager.job] = s /\ Unlocked(s)
  /\ session_j[s].config
  /\ Touches(s, {"abort", "encoding"})
  /\ session_j'[s].abort = "none" /\ session_j'[s].encoding = FALSE
  /\ ManagerIs("params", manager.job)
  /\ UNCHANGED <<jobs, job_queue, ongoing_job_q, p_session_inprogress,
                 call, change, omx, answered, withdrawn, spent>>

(* EncodeSession *)
FindsOther(s) ==
  /\ manager.at = "encode" /\ jobs[manager.job] = s /\ Unlocked(s)
  /\ ~session_j[s].config /\ p_session_inprogress # NoSession
  /\ Touches(s, {"abort", "encoding"})
  /\ session_j'[s].abort = "none" /\ session_j'[s].encoding = FALSE
  /\ ManagerIs("clearing", manager.job)
  /\ ChangeIs(p_session_inprogress, "down", Down2, "next")
  /\ UNCHANGED <<jobs, job_queue, ongoing_job_q, p_session_inprogress,
                 call, omx, answered, withdrawn, spent>>

(* EncodeSession *)
FindsNone(s) ==
  /\ manager.at = "encode" /\ jobs[manager.job] = s /\ Unlocked(s)
  /\ ~session_j[s].config /\ p_session_inprogress = NoSession
  /\ Touches(s, {"abort", "encoding"})
  /\ session_j'[s].abort = "none" /\ session_j'[s].encoding = FALSE
  /\ ManagerIs("configuring", manager.job) /\ ChangeIs(s, "up", Up2, "next")
  /\ UNCHANGED <<jobs, job_queue, ongoing_job_q, p_session_inprogress,
                 call, omx, answered, withdrawn, spent>>

(* ClearInProgress *)
Cleared(s) ==
  /\ manager.at = "clearing" /\ Changed /\ p_session_inprogress = s
  /\ Touches(s, {"config"}) /\ session_j'[s].config = FALSE
  /\ p_session_inprogress' = NoSession
  /\ ManagerIs("configuring", manager.job)
       /\ ChangeIs(jobs[manager.job], "up", Up2, "next")
  /\ UNCHANGED <<jobs, job_queue, ongoing_job_q, call, omx, answered,
                 withdrawn, spent>>

(* ClearInProgress/ConfigureForJob *)
CannotConfigure ==
  /\ manager.at \in {"clearing", "configuring"} /\ change.at = "failed"
  /\ ManagerIs("fail", manager.job) /\ ChangeEnds
  /\ UNCHANGED <<jobs, job_queue, ongoing_job_q, p_session_inprogress,
                 call, session_j, omx, answered, withdrawn, spent>>

(* ConfigureForJob *)
ConfiguredForJob(s) ==
  /\ manager.at = "configuring" /\ Changed /\ jobs[manager.job] = s
  /\ Touches(s, {"config"}) /\ session_j'[s].config = TRUE
  /\ p_session_inprogress' = s
  /\ ManagerIs("params", manager.job) /\ ChangeEnds
  /\ UNCHANGED <<jobs, job_queue, ongoing_job_q, call, omx, answered,
                 withdrawn, spent>>

(* ConfigureJobParams *)
Starts(s) ==
  /\ manager.at = "params" /\ jobs[manager.job] = s /\ Unlocked(s)
  /\ Touches(s, {"encoding"}) /\ session_j'[s].encoding = TRUE
  /\ ManagerIs("submit", manager.job)
  /\ UNCHANGED <<jobs, job_queue, ongoing_job_q, p_session_inprogress,
                 call, change, omx, answered, withdrawn, spent>>

(* ConfigureJobParams/EmptyBuffer/FillBuffer *)
Refused ==
  /\ manager.at \in {"params", "submit", "fill"} /\ OmxMayFail
  /\ spent'.errors = spent.errors + 1 /\ ManagerIs("fail", manager.job)
  /\ UNCHANGED <<jobs, job_queue, ongoing_job_q, p_session_inprogress,
                 call, change, session_j, omx, answered, withdrawn>>

(* EmptyBuffer/FillBuffer *)
NotReady(s) ==
  /\ manager.at \in {"submit", "fill"} /\ jobs[manager.job] = s
       /\ omx[s].state # "Executing"
  /\ ManagerIs("fail", manager.job)
  /\ UNCHANGED <<jobs, job_queue, ongoing_job_q, p_session_inprogress,
                 call, change, session_j, omx, answered, withdrawn, spent>>

(* EmptyBuffer *)
GetsInput(s) ==
  /\ manager.at = "submit" /\ jobs[manager.job] = s /\ omx[s].state = "Executing"
  /\ Feeds(s, {"input"}) /\ omx'[s].input = manager.job
  /\ ManagerIs("fill", manager.job)
  /\ UNCHANGED <<jobs, job_queue, ongoing_job_q, p_session_inprogress,
                 call, change, session_j, answered, withdrawn, spent>>

(* FillBuffer *)
GetsOutput(s) ==
  /\ manager.at = "fill" /\ jobs[manager.job] = s /\ omx[s].state = "Executing"
  /\ Feeds(s, {"work"}) /\ omx'[s].work = omx[s].input
  /\ ManagerIs("wait", 0)
  /\ UNCHANGED <<jobs, job_queue, ongoing_job_q, p_session_inprogress,
                 call, change, session_j, answered, withdrawn, spent>>

(* FailJob *)
Fails(s) ==
  /\ manager.at = "fail" /\ jobs[manager.job] = s /\ ManagerIs("wait", 0)
  /\ Touches(s, {"encoding", "handles"})
  /\ session_j'[s].encoding = FALSE /\ session_j'[s].handles = session_j[s].handles + 1
  /\ Answers(manager.job)
  /\ ongoing_job_q' = ongoing_job_q \ {manager.job}
  /\ UNCHANGED <<jobs, job_queue, p_session_inprogress, call, change, omx,
                 withdrawn, spent>>

(* CommandDone *)
DoneAborting(s) ==
  /\ omx[s].cmds # << >> /\ Unlocked(s)
  /\ Feeds(s, {"state", "cmds", "input", "work"})
  /\ omx'[s].state = Head(omx[s].cmds) /\ omx'[s].cmds = Tail(omx[s].cmds)
  /\ omx'[s].input = IF Head(omx[s].cmds) = "Idle" THEN 0 ELSE omx[s].input
  /\ omx'[s].work = IF Head(omx[s].cmds) = "Idle" THEN 0 ELSE omx[s].work
  /\ session_j[s].abort = "init"
  /\ Touches(s, {"abort", "woken"})
  /\ session_j'[s].abort = "done" /\ session_j'[s].woken = TRUE
  /\ UNCHANGED <<jobs, job_queue, ongoing_job_q, p_session_inprogress,
                 manager, call, change, answered, withdrawn, spent>>

(* CommandDone *)
DoneAwaited(s) ==
  /\ omx[s].cmds # << >> /\ Unlocked(s)
  /\ Feeds(s, {"state", "cmds", "input", "work"})
  /\ omx'[s].state = Head(omx[s].cmds) /\ omx'[s].cmds = Tail(omx[s].cmds)
  /\ omx'[s].input = IF Head(omx[s].cmds) = "Idle" THEN 0 ELSE omx[s].input
  /\ omx'[s].work = IF Head(omx[s].cmds) = "Idle" THEN 0 ELSE omx[s].work
  /\ session_j[s].abort # "init" /\ session_j[s].pending
  /\ Touches(s, {"pending", "woken"})
  /\ session_j'[s].pending = FALSE /\ session_j'[s].woken = TRUE
  /\ UNCHANGED <<jobs, job_queue, ongoing_job_q, p_session_inprogress,
                 manager, call, change, answered, withdrawn, spent>>

(* CommandDone *)
DoneAlone(s) ==
  /\ omx[s].cmds # << >> /\ Unlocked(s)
  /\ Feeds(s, {"state", "cmds", "input", "work"})
  /\ omx'[s].state = Head(omx[s].cmds) /\ omx'[s].cmds = Tail(omx[s].cmds)
  /\ omx'[s].input = IF Head(omx[s].cmds) = "Idle" THEN 0 ELSE omx[s].input
  /\ omx'[s].work = IF Head(omx[s].cmds) = "Idle" THEN 0 ELSE omx[s].work
  /\ session_j[s].abort # "init" /\ ~session_j[s].pending
  /\ UNCHANGED <<jobs, job_queue, ongoing_job_q, p_session_inprogress,
                 manager, call, change, session_j, answered, withdrawn,
                 spent>>

(* OmxError *)
ErrorAbortingWay(s) ==
  /\ OmxMayFail /\ spent'.errors = spent.errors + 1 /\ Unlocked(s)
  /\ change.on = s /\ change.way = "up" /\ omx[s].cmds # << >>
  /\ Feeds(s, {"cmds"}) /\ omx'[s].cmds = Tail(omx[s].cmds)
  /\ session_j[s].abort = "init"
  /\ Touches(s, {"abort", "woken"})
  /\ session_j'[s].abort = "done" /\ session_j'[s].woken = TRUE
  /\ UNCHANGED <<jobs, job_queue, ongoing_job_q, p_session_inprogress,
                 manager, call, change, answered, withdrawn>>

(* OmxError *)
ErrorEncodingWay(s) ==
  /\ OmxMayFail /\ spent'.errors = spent.errors + 1 /\ Unlocked(s)
  /\ change.on = s /\ change.way = "up" /\ omx[s].cmds # << >>
  /\ Feeds(s, {"cmds"}) /\ omx'[s].cmds = Tail(omx[s].cmds)
  /\ session_j[s].abort # "init" /\ session_j[s].encoding
  /\ Touches(s, {"error", "woken", "cb"})
  /\ session_j'[s].error = TRUE /\ session_j'[s].woken = TRUE
       /\ session_j'[s].cb = "remove"
  /\ Answers(session_j[s].jobId)
  /\ UNCHANGED <<jobs, job_queue, ongoing_job_q, p_session_inprogress,
                 manager, call, change, withdrawn>>

(* OmxError *)
ErrorElseWay(s) ==
  /\ OmxMayFail /\ spent'.errors = spent.errors + 1 /\ Unlocked(s)
  /\ change.on = s /\ change.way = "up" /\ omx[s].cmds # << >>
  /\ Feeds(s, {"cmds"}) /\ omx'[s].cmds = Tail(omx[s].cmds)
  /\ session_j[s].abort # "init" /\ ~session_j[s].encoding
  /\ Touches(s, {"error", "woken"})
  /\ session_j'[s].error = TRUE /\ session_j'[s].woken = TRUE
  /\ UNCHANGED <<jobs, job_queue, ongoing_job_q, p_session_inprogress,
                 manager, call, change, answered, withdrawn>>

(* OmxError *)
ErrorAbortingWork(s) ==
  /\ OmxMayFail /\ spent'.errors = spent.errors + 1 /\ Unlocked(s)
  /\ omx[s].input # 0
  /\ Feeds(s, {"input", "work"}) /\ omx'[s].input = 0 /\ omx'[s].work = 0
  /\ session_j[s].abort = "init"
  /\ Touches(s, {"abort", "woken"})
  /\ session_j'[s].abort = "done" /\ session_j'[s].woken = TRUE
  /\ UNCHANGED <<jobs, job_queue, ongoing_job_q, p_session_inprogress,
                 manager, call, change, answered, withdrawn>>

(* OmxError *)
ErrorEncodingWork(s) ==
  /\ OmxMayFail /\ spent'.errors = spent.errors + 1 /\ Unlocked(s)
  /\ omx[s].input # 0
  /\ Feeds(s, {"input", "work"}) /\ omx'[s].input = 0 /\ omx'[s].work = 0
  /\ session_j[s].abort # "init" /\ session_j[s].encoding
  /\ Touches(s, {"error", "woken", "cb"})
  /\ session_j'[s].error = TRUE /\ session_j'[s].woken = TRUE
       /\ session_j'[s].cb = "remove"
  /\ Answers(session_j[s].jobId)
  /\ UNCHANGED <<jobs, job_queue, ongoing_job_q, p_session_inprogress,
                 manager, call, change, withdrawn>>

(* OmxError *)
ErrorElseWork(s) ==
  /\ OmxMayFail /\ spent'.errors = spent.errors + 1 /\ Unlocked(s)
  /\ omx[s].input # 0
  /\ Feeds(s, {"input", "work"}) /\ omx'[s].input = 0 /\ omx'[s].work = 0
  /\ session_j[s].abort # "init" /\ ~session_j[s].encoding
  /\ Touches(s, {"error", "woken"})
  /\ session_j'[s].error = TRUE /\ session_j'[s].woken = TRUE
  /\ UNCHANGED <<jobs, job_queue, ongoing_job_q, p_session_inprogress,
                 manager, call, change, answered, withdrawn>>

(* FillBufferDone *)
BufferBack(s) ==
  /\ omx[s].work # 0 /\ Unlocked(s)
  /\ Feeds(s, {"input", "work"}) /\ omx'[s].input = 0 /\ omx'[s].work = 0
  /\ session_j[s].abort # "none"
  /\ UNCHANGED <<jobs, job_queue, ongoing_job_q, p_session_inprogress,
                 manager, call, change, session_j, answered, withdrawn,
                 spent>>

(* FillBufferDone *)
Encoded(s) ==
  /\ omx[s].work # 0 /\ Unlocked(s)
  /\ Feeds(s, {"input", "work"}) /\ omx'[s].input = 0 /\ omx'[s].work = 0
  /\ session_j[s].abort = "none"
  /\ Touches(s, {"cb"}) /\ session_j'[s].cb = "remove"
  /\ Answers(session_j[s].jobId)
  /\ UNCHANGED <<jobs, job_queue, ongoing_job_q, p_session_inprogress,
                 manager, call, change, withdrawn, spent>>

(* JobDone *)
Removes(s) ==
  /\ session_j[s].cb = "remove" /\ ongoing_job_q' = ongoing_job_q \ {session_j[s].jobId}
  /\ Touches(s, {"cb", "encoding"})
  /\ session_j'[s].cb = "handle" /\ session_j'[s].encoding = FALSE
  /\ UNCHANGED <<jobs, job_queue, p_session_inprogress, manager, call,
                 change, omx, answered, withdrawn, spent>>

(* JobDone *)
GivesBack(s) ==
  /\ session_j[s].cb = "handle"
  /\ Touches(s, {"cb", "handles"})
  /\ session_j'[s].cb = "post" /\ session_j'[s].handles = session_j[s].handles + 1
  /\ UNCHANGED <<jobs, job_queue, ongoing_job_q, p_session_inprogress,
                 manager, call, change, omx, answered, withdrawn, spent>>

(* JobDone *)
Posts(s) ==
  /\ session_j[s].cb = "post"
  /\ Touches(s, {"cb"}) /\ session_j'[s].cb = "idle"
  /\ UNCHANGED <<jobs, job_queue, ongoing_job_q, p_session_inprogress,
                 manager, call, change, omx, answered, withdrawn, spent>>

(* CreateSession *)
Creates(s) ==
  /\ call.at = "none" /\ ~session_j[s].active /\ spent'.errors = spent.errors
  /\ CallIs("create", s, 0)
  /\ Touches(s, SessionField) /\ IsNew(session_j'[s])
  /\ session_j'[s].active = TRUE /\ session_j'[s].handles = 1
  /\ Feeds(s, {"state", "cmds", "input", "work"}) /\ omx'[s].state = "Loaded"
  /\ omx'[s].cmds = << >> /\ omx'[s].input = 0 /\ omx'[s].work = 0
  /\ UNCHANGED <<jobs, job_queue, ongoing_job_q, p_session_inprogress,
                 manager, change, answered, withdrawn>>

(* ConfigureNew *)
ConfiguresNew(s) ==
  /\ call.at = "create" /\ ~ManagerHasJobLock /\ call.sess = s
  /\ p_session_inprogress = NoSession
  /\ CallIs("configuring", s, call.job) /\ ChangeIs(s, "up", Up2, "next")
  /\ UNCHANGED <<jobs, job_queue, ongoing_job_q, p_session_inprogress,
                 manager, session_j, omx, answered, withdrawn, spent>>

(* ConfigureNew *)
Usable(s) ==
  /\ call.at = "create" /\ ~ManagerHasJobLock /\ call.sess = s /\ CallEnds
  /\ Touches(s, {"usable"})
  /\ UNCHANGED <<jobs, job_queue, ongoing_job_q, p_session_inprogress,
                 manager, change, omx, answered, withdrawn, spent>>

(* SessionCreated *)
Created(s) ==
  /\ call.at = "configuring" /\ call.sess = s /\ CallEnds
  /\ Changed /\ ChangeEnds
  /\ Touches(s, {"config", "usable"}) /\ session_j'[s].config = TRUE
  /\ p_session_inprogress' = s
  /\ UNCHANGED <<jobs, job_queue, ongoing_job_q, manager, omx, answered,
                 withdrawn, spent>>

(* SessionCreated *)
NotCreated ==
  /\ call.at = "configuring" /\ CallEnds
  /\ change.at = "failed" /\ ChangeEnds
  /\ UNCHANGED <<jobs, job_queue, ongoing_job_q, p_session_inprogress,
                 manager, session_j, omx, answered, withdrawn, spent>>

(* StartJob *)
Enqueues(s) ==
  /\ call.at = "none" /\ session_j[s].usable /\ Len(jobs) < MaxJobs
  /\ jobs' = Append(jobs, s) /\ job_queue' = job_queue \cup {Len(jobs) + 1}
  /\ CallIs("post", s, 0)
  /\ UNCHANGED <<ongoing_job_q, p_session_inprogress, manager, change,
                 session_j, omx, answered, withdrawn, spent>>

(* SemPost *)
PostEnds ==
  /\ call.at = "post" /\ CallEnds
  /\ UNCHANGED <<jobs, job_queue, ongoing_job_q, p_session_inprogress,
                 manager, change, session_j, omx, answered, withdrawn,
                 spent>>

(* AbortOrDestroy *)
AsksDestroy(s) ==
  /\ call.at = "none" /\ session_j[s].active
  /\ CallIs("destroy", s, 0)
  /\ Touches(s, {"usable"}) /\ session_j'[s].usable = FALSE
  /\ UNCHANGED <<jobs, job_queue, ongoing_job_q, p_session_inprogress,
                 manager, change, omx, answered, withdrawn, spent>>

(* AbortOrDestroy *)
AsksAbort(s, j) ==
  /\ call.at = "none" /\ session_j[s].active
  /\ j \in JobsOf(s) /\ CallIs("abort", s, j)
  /\ Touches(s, {"usable"}) /\ session_j'[s].usable = FALSE
  /\ UNCHANGED <<jobs, job_queue, ongoing_job_q, p_session_inprogress,
                 manager, change, omx, answered, withdrawn, spent>>

(* AbortJpegJob *)
TakesOff(s) ==
  /\ call.at = "abort" /\ ~ManagerHasJobLock /\ call.sess = s
  /\ call.job \notin job_queue /\ call.job \in ongoing_job_q
  /\ CallIs("halt", s, call.job)
  /\ ongoing_job_q' = ongoing_job_q \ {call.job}
  /\ UNCHANGED <<jobs, job_queue, p_session_inprogress, manager, change,
                 session_j, omx, answered, withdrawn, spent>>

(* AbortJpegJob *)
Withdraws(s) ==
  /\ call.at = "abort" /\ ~ManagerHasJobLock /\ call.sess = s
  /\ call.job \in job_queue \/ call.job \notin ongoing_job_q
  /\ CallEnds
  /\ job_queue' = job_queue \ {call.job} /\ withdrawn' = withdrawn \cup {call.job}
  /\ UNCHANGED <<jobs, ongoing_job_q, p_session_inprogress, manager,
                 change, session_j, omx, answered, spent>>

(* DestroyJpegSession *)
Forgets(s) ==
  /\ call.at = "destroy" /\ ~ManagerHasJobLock /\ call.sess = s
  /\ CallIs("halt", s, call.job)
  /\ job_queue' = job_queue \ JobsOf(s) /\ ongoing_job_q' = ongoing_job_q \ JobsOf(s)
  /\ UNCHANGED <<jobs, p_session_inprogress, manager, change, session_j,
                 omx, answered, withdrawn, spent>>

(* SessionAbort/SessionAborted *)
HaltsJob(s) ==
  /\ call.at \in {"halt", "halting"} /\ call.sess = s /\ Unlocked(s)
  /\ session_j[s].abort # "none"
  /\ call.at = "halting" => session_j[s].abort = "done"
  /\ call.job # 0 /\ CallEnds
  /\ withdrawn' = withdrawn \cup {call.job}
  /\ UNCHANGED <<jobs, job_queue, ongoing_job_q, p_session_inprogress,
                 manager, change, session_j, omx, answered, spent>>

(* SessionAbort *)
MarksJob(s) ==
  /\ call.at = "halt" /\ call.sess = s /\ Unlocked(s)
  /\ session_j[s].abort = "none" /\ ~session_j[s].encoding
  /\ Touches(s, {"abort"}) /\ session_j'[s].abort = "done"
  /\ call.job # 0 /\ CallEnds
  /\ withdrawn' = withdrawn \cup {call.job}
  /\ UNCHANGED <<jobs, job_queue, ongoing_job_q, p_session_inprogress,
                 manager, change, omx, answered, spent>>

(* SessionAbort/SessionAborted *)
HaltsSession(s) ==
  /\ call.at \in {"halt", "halting"} /\ call.sess = s /\ Unlocked(s)
  /\ session_j[s].abort # "none"
  /\ call.at = "halting" => session_j[s].abort = "done"
  /\ call.job = 0 /\ CallIs("down", s, 0) /\ ChangeIs(s, "down", Down2, "next")
  /\ UNCHANGED <<jobs, job_queue, ongoing_job_q, p_session_inprogress,
                 manager, session_j, omx, answered, withdrawn, spent>>

(* SessionAbort *)
MarksSession(s) ==
  /\ call.at = "halt" /\ call.sess = s /\ Unlocked(s)
  /\ session_j[s].abort = "none" /\ ~session_j[s].encoding
  /\ Touches(s, {"abort"}) /\ session_j'[s].abort = "done"
  /\ call.job = 0 /\ CallIs("down", s, 0) /\ ChangeIs(s, "down", Down2, "next")
  /\ UNCHANGED <<jobs, job_queue, ongoing_job_q, p_session_inprogress,
                 manager, omx, answered, withdrawn, spent>>

(* SessionAbort *)
SendsIdle(s) ==
  /\ call.at = "halt" /\ call.sess = s /\ Unlocked(s)
  /\ session_j[s].abort = "none" /\ session_j[s].encoding
  /\ Touches(s, {"abort", "pending"})
  /\ session_j'[s].abort = "init" /\ session_j'[s].pending = TRUE
  /\ Feeds(s, {"cmds"}) /\ omx'[s].cmds = Append(omx[s].cmds, "Idle")
  /\ CallIs("halting", s, call.job)
  /\ UNCHANGED <<jobs, job_queue, ongoing_job_q, p_session_inprogress,
                 manager, change, answered, withdrawn, spent>>

(* FreeSession *)
Frees(s) ==
  /\ call.at = "down" /\ Changed /\ Unlocked(s) /\ call.sess = s
  /\ CallIs("post", s, call.job) /\ ChangeEnds
  /\ p_session_inprogress' =
       IF p_session_inprogress = s THEN NoSession ELSE p_session_inprogress
  /\ Touches(s, SessionField) /\ IsNew(session_j'[s])
  /\ session_j'[s].active = FALSE /\ session_j'[s].handles = 0
  /\ Feeds(s, {"state", "cmds", "input", "work"}) /\ omx'[s].state = "none"
  /\ omx'[s].cmds = << >> /\ omx'[s].input = 0 /\ omx'[s].work = 0
  /\ withdrawn' = withdrawn \cup JobsOf(s)
  /\ UNCHANGED <<jobs, job_queue, ongoing_job_q, manager, answered, spent>>

(* The elementary steps; each is commented with the action it is a part of. *)
JpegStep ==
  \/ Moves \/ CannotConfigure \/ Refused \/ NotCreated \/ PostEnds
  \/ \E s \in JpegSession :
       \/ Sends(s)
       \/ Skips(s)
       \/ Overcome(s)
       \/ Breaks(s)
       \/ Awaits(s)
       \/ Wakes(s)
       \/ FindsConfigured(s)
       \/ FindsOther(s)
       \/ FindsNone(s)
       \/ Cleared(s)
       \/ ConfiguredForJob(s)
       \/ Starts(s)
       \/ NotReady(s)
       \/ GetsInput(s)
       \/ GetsOutput(s)
       \/ Fails(s)
       \/ DoneAborting(s)
       \/ DoneAwaited(s)
       \/ DoneAlone(s)
       \/ ErrorAbortingWay(s)
       \/ ErrorEncodingWay(s)
       \/ ErrorElseWay(s)
       \/ ErrorAbortingWork(s)
       \/ ErrorEncodingWork(s)
       \/ ErrorElseWork(s)
       \/ BufferBack(s)
       \/ Encoded(s)
       \/ Removes(s)
       \/ GivesBack(s)
       \/ Posts(s)
       \/ Creates(s)
       \/ ConfiguresNew(s)
       \/ Usable(s)
       \/ Created(s)
       \/ Enqueues(s)
       \/ AsksDestroy(s)
       \/ TakesOff(s)
       \/ Withdraws(s)
       \/ Forgets(s)
       \/ HaltsJob(s)
       \/ MarksJob(s)
       \/ HaltsSession(s)
       \/ MarksSession(s)
       \/ SendsIdle(s)
       \/ Frees(s)
       \/ \E j \in JpegJob : Takes(s, j)
       \/ \E j \in JpegJob : AsksAbort(s, j)

(* The commands as sequences.                                               *)
LEMMA Sequences ==
  /\ Head(Up2) = "Idle" /\ Tail(Up2) = Exec1
  /\ Head(Down2) = "Idle" /\ Tail(Down2) = Loaded1
  /\ Head(Exec1) = "Executing" /\ Tail(Exec1) = << >>
  /\ Head(Loaded1) = "Loaded" /\ Tail(Loaded1) = << >>
  /\ Head(Idle1) = "Idle" /\ Tail(Idle1) = << >>
  /\ Up2 # Exec1 /\ Up2 # Down2 /\ Up2 # Loaded1 /\ Up2 # << >>
  /\ Exec1 # Down2 /\ Exec1 # Loaded1 /\ Exec1 # << >> /\ Exec1 # Idle1
  /\ Down2 # Loaded1 /\ Down2 # << >> /\ Loaded1 # << >> /\ Idle1 # << >>
  /\ \A x \in OmxState : Append(<< >>, x) = <<x>> /\ Head(<<x>>) = x
       /\ Tail(<<x>>) = << >>
       /\ <<x>> # << >>
  /\ Append(<< >>, "Idle") = Idle1 /\ Append(<< >>, "Executing") = Exec1
  /\ Append(<< >>, "Loaded") = Loaded1
  /\ {Up2, Down2, Exec1, Loaded1, Idle1, << >>} \subseteq Seq(OmxState)
<1> USE DEF Up2, Down2, Exec1, Loaded1, Idle1, OmxState
<1>1. Up2 # Exec1 /\ Up2 # Loaded1 /\ Down2 # Exec1 /\ Down2 # Loaded1
  <2>1. Len(Up2) = 2 /\ Len(Down2) = 2 /\ Len(Exec1) = 1 /\ Len(Loaded1) = 1 OBVIOUS
  <2> QED BY <2>1
<1>2. Up2 # Down2
  <2>1. Up2[2] = "Executing" /\ Down2[2] = "Loaded" OBVIOUS
  <2> QED BY <2>1
<1>3. Exec1 # Loaded1 /\ Exec1 # Idle1
  <2>1. Exec1[1] = "Executing" /\ Loaded1[1] = "Loaded" /\ Idle1[1] = "Idle" OBVIOUS
  <2> QED BY <2>1
<1>4. {Up2, Down2, Exec1, Loaded1, Idle1, << >>} \subseteq Seq(OmxState)
  OBVIOUS
<1>5. Head(Up2) = "Idle" /\ Tail(Up2) = Exec1
  OBVIOUS
<1>6. Head(Down2) = "Idle" /\ Tail(Down2) = Loaded1
  OBVIOUS
<1>7.  /\ Head(Exec1) = "Executing" /\ Tail(Exec1) = << >>
  /\ Head(Loaded1) = "Loaded" /\ Tail(Loaded1) = << >>
  /\ Head(Idle1) = "Idle" /\ Tail(Idle1) = << >>
  OBVIOUS
<1>8. \A x \in OmxState : Append(<< >>, x) = <<x>> /\ Head(<<x>>) = x
        /\ Tail(<<x>>) = << >>
       /\ <<x>> # << >>
  OBVIOUS
<1>9.  Up2 # << >> /\ Exec1 # << >> /\ Down2 # << >> /\ Loaded1 # << >> /\ Idle1 # << >>
  OBVIOUS
<1>10. Append(<< >>, "Idle") = Idle1 /\ Append(<< >>, "Executing") = Exec1
  /\ Append(<< >>, "Loaded") = Loaded1
  OBVIOUS
<1> QED BY <1>1, <1>2, <1>3, <1>4, <1>5, <1>6, <1>7, <1>8, <1>9, <1>10

(* The places of the threads, from the type invariant.                      *)
LEMMA Positions ==
  ASSUME JpegTypeOK
  PROVE  /\ manager.at \in {"wait", "check", "lock", "encode", "clearing",
                           "configuring", "params", "submit", "fill", "fail"}
         /\ manager.job \in {0} \cup JpegJob
         /\ call.at \in {"none", "post", "create", "configuring", "abort",
                        "destroy", "halt", "halting", "down"}
         /\ call.job \in {0} \cup JpegJob
         /\ change.way \in {"up", "down"}
         /\ change.at \in {"next", "sent", "wait", "failed"}
         /\ change.rest \in Seq(OmxState)
BY DEF JpegTypeOK

(* The fields of sessions and components, from the type invariant.          *)
LEMMA SessionTypes ==
  ASSUME JpegTypeOK
  PROVE  /\ \A t \in JpegSession :
              /\ session_j[t].abort \in {"none", "init", "done"}
              /\ session_j[t].cb \in {"idle", "remove", "handle", "post"}
              /\ session_j[t].handles \in Nat /\ session_j[t].jobId \in {0} \cup JpegJob
              /\ session_j[t].encoding \in BOOLEAN /\ session_j[t].error \in BOOLEAN
              /\ session_j[t].active \in BOOLEAN /\ session_j[t].config \in BOOLEAN
         /\ \A t \in JpegSession :
              /\ omx[t].state \in OmxState /\ omx[t].cmds \in Seq(OmxState)
              /\ omx[t].input \in {0} \cup JpegJob /\ omx[t].work \in {0} \cup JpegJob
BY DEF JpegTypeOK

(* The commands left of each way.                                           *)
LEMMA Rests ==
  /\ Head(Up2) = "Idle" /\ Tail(Up2) = Exec1
  /\ Head(Down2) = "Idle" /\ Tail(Down2) = Loaded1
  /\ Head(Exec1) = "Executing" /\ Tail(Exec1) = << >>
  /\ Head(Loaded1) = "Loaded" /\ Tail(Loaded1) = << >>
  /\ Up2 # Exec1 /\ Up2 # Down2 /\ Up2 # Loaded1 /\ Up2 # << >>
  /\ Exec1 # Down2 /\ Exec1 # Loaded1 /\ Exec1 # << >>
  /\ Down2 # Loaded1 /\ Down2 # << >> /\ Loaded1 # << >>
BY Sequences

(* A command sent to a component that has none.                             *)
LEMMA AppendOne ==
  ASSUME NEW x \in OmxState
  PROVE  LET q == Append(<< >>, x) IN q # << >> /\ Head(q) = x /\ Tail(q) = << >>
BY Sequences DEF OmxState

LEMMA HeadIn ==
  ASSUME NEW q \in Seq(OmxState), q # << >>
  PROVE  Head(q) \in OmxState
BY HeadTailProperties

(* A step that leaves these fields of a component alone leaves it as it     *)
(* was.                                                                     *)
LEMMA ComponentKept ==
  ASSUME NEW t \in JpegSession, Component(t),
         spent.errors > 0 => spent'.errors > 0,
         \A f \in {"active", "config", "encoding", "error", "abort", "pending",
            "woken"} :
           session_j'[t][f] = session_j[t][f],
         omx'[t].state = omx[t].state, omx'[t].cmds = omx[t].cmds,
         \/ /\ change'.on = change.on /\ change'.way = change.way
            /\ change'.rest = change.rest /\ change'.at = change.at
         \/ change.on # t /\ change'.on # t
  PROVE  Component(t)'
<1>1. /\ session_j'[t].active = session_j[t].active
      /\ session_j'[t].config = session_j[t].config
      /\ session_j'[t].encoding = session_j[t].encoding
      /\ session_j'[t].error = session_j[t].error
      /\ session_j'[t].abort = session_j[t].abort
      /\ session_j'[t].pending = session_j[t].pending
      /\ session_j'[t].woken = session_j[t].woken
  OBVIOUS
<1>2. ~Bad(t)' => ~Bad(t)
  BY <1>1 DEF Bad
<1>3. Steady(t) => Steady(t)'
  BY <1>1 DEF Steady, Single
<1>4. CASE change.on # t /\ change'.on # t
  BY <1>2, <1>3, <1>4 DEF Component
<1>5. CASE /\ change'.on = change.on /\ change'.way = change.way
           /\ change'.rest = change.rest /\ change'.at = change.at
  <2>1. Before(t)' = Before(t)
    BY <1>5 DEF Before
  <2>2. Told(t)' = Told(t) /\ Over(t)' = Over(t)
    BY <1>1, <1>5, <2>1 DEF Told, Over, Single
  <2>3. Changing(t)' = Changing(t)
    BY <1>1, <1>5, <2>1, <2>2 DEF Changing
  <2> QED BY <1>2, <1>3, <1>5, <2>3 DEF Component
<1> QED BY <1>4, <1>5

(* The record of a session.                                                 *)
SessionRecord ==
  [active : BOOLEAN, usable : BOOLEAN, config : BOOLEAN, encoding : BOOLEAN,
   error : BOOLEAN, pending : BOOLEAN, abort : {"none", "init", "done"},
   jobId : {0} \cup JpegJob, handles : Nat, woken : BOOLEAN,
   cb : {"idle", "remove", "handle", "post"}]

(* A nonempty set of numbers has its minimum as an element.                 *)
LEMMA MinIn ==
  ASSUME NEW Q, Q \in SUBSET Nat, Q # {}
  PROVE  Min(Q) \in Q
<1>1. \E m \in Q : \A n \in Q : m <= n
  <2>1. \E R : IsWellFoundedOn(R, Nat) /\ \A x, y \in Nat : x < y => <<x, y>> \in R
    <3> DEFINE R == OpToRel(<, Nat)
    <3>1. IsWellFoundedOn(R, Nat)
      BY NatLessThanWellFounded
    <3>2. \A x, y \in Nat : x < y => <<x, y>> \in R
      BY DEF OpToRel
    <3> HIDE DEF R
    <3> QED BY <3>1, <3>2
  <2>2. PICK R : IsWellFoundedOn(R, Nat) /\ \A x, y \in Nat : x < y => <<x, y>> \in R
    BY <2>1
  <2>3. \E m \in Q : \A n \in Q : ~ (<<n, m>> \in R)
    <3>1. IsWellFoundedOn(R, Nat) BY <2>2
    <3>2. Q \subseteq Nat /\ Q # {} OBVIOUS
    <3> QED BY <3>1, <3>2, WFMin
  <2>4. PICK m \in Q : \A n \in Q : ~ (<<n, m>> \in R)
    BY <2>3
  <2>5. \A n \in Q : ~ (n < m)
    BY <2>2, <2>4
  <2> QED BY <2>4, <2>5
<1> QED BY <1>1 DEF Min

-----------------------------------------------------------------------------
(* The fields of a session's record.                                        *)
LEMMA FieldsOfSession ==
  ASSUME JpegTypeOK, NEW s \in JpegSession
  PROVE  DOMAIN session_j[s] = SessionField /\ s \in DOMAIN session_j
BY DEF JpegTypeOK, SessionField

(* The handle goes back to its queue as another field changes.              *)
LEMMA CountUp ==
  ASSUME JpegTypeOK, NEW s \in JpegSession, NEW f, NEW v,
         f \in SessionField, f # "handles",
         session_j' = [session_j EXCEPT ![s][f] = v, ![s].handles = @ + 1]
  PROVE  /\ Touches(s, {f, "handles"})
         /\ session_j'[s][f] = v /\ session_j'[s].handles = session_j[s].handles + 1
<1>1. s \in DOMAIN session_j BY FieldsOfSession
<1>2. DOMAIN session_j[s] = SessionField BY FieldsOfSession
<1>3. "handles" \in SessionField BY DEF SessionField
<1>4. session_j'[s][f] = v /\ session_j'[s].handles = session_j[s].handles + 1
  BY <1>1, <1>2, <1>3, Zenon
<1>5. \A t \in JpegSession \ {s} : session_j'[t] = session_j[t]
  BY <1>1, Zenon DEF JpegTypeOK
<1>6. ASSUME NEW g \in SessionField \ {f,
                "handles"} PROVE session_j'[s][g] = session_j[s][g]
  BY <1>1, <1>2, <1>3, Zenon
<1> QED BY <1>4, <1>5, <1>6 DEF Touches

(* What SendCommand does to each field, as elementary steps.                *)
LEMMA SendCommandSteps ==
  ASSUME JpegTypeOK, Places, Sessions, Change, SendCommand
  PROVE  \E s \in JpegSession : Sends(s) \/ Skips(s)
<1>1. change.on \in JpegSession
  BY DEF SendCommand, JpegTypeOK, Change
<1>2. CASE ToDo(change.on, Head(change.rest))
  <2>1. /\ session_j' = [session_j EXCEPT ![change.on].pending = TRUE]
        /\ omx' = [omx EXCEPT ![change.on].cmds = Append(@, Head(change.rest))]
        /\ change' = [change EXCEPT !.at = "sent"]
        /\ change.at = "next" /\ change.rest # << >> /\ Unlocked(change.on)
    BY <1>2 DEF SendCommand
  <2>2. Touches(change.on, {"pending"}) /\ session_j'[change.on].pending = TRUE
    BY <1>1, <2>1 DEF Touches, SessionField, JpegTypeOK
  <2>3. /\ Feeds(change.on, {"cmds"})
        /\ omx'[change.on].cmds = Append(omx[change.on].cmds, Head(change.rest))
    BY <1>1, <2>1 DEF Feeds, JpegTypeOK
  <2>4. /\ change'.at = "sent" /\ change'.on = change.on
        /\ change'.way = change.way /\ change'.rest = change.rest
    BY <2>1 DEF JpegTypeOK
  <2>5. Sends(change.on)
    BY <1>2, <2>1, <2>2, <2>3, <2>4 DEF SendCommand, Sends
  <2> QED BY <1>1, <2>5
<1>3. CASE ~ToDo(change.on, Head(change.rest))
  <2>1. Skips(change.on)
    BY <1>1, <1>3 DEF SendCommand, Skips, NextState, GoesOn, ChangeIs, JpegTypeOK
  <2> QED BY <1>1, <2>1
<1> QED BY <1>2, <1>3

(* What CheckChange does to each field, as elementary steps.                *)
LEMMA CheckChangeSteps ==
  ASSUME JpegTypeOK, Places, Sessions, Change, CheckChange
  PROVE  \E s \in JpegSession : Overcome(s) \/ Breaks(s) \/ Awaits(s)
<1> DEFINE s == change.on
<1>1. s \in JpegSession
  BY DEF CheckChange, JpegTypeOK, Change
<1>t. Touches(s, {"woken"}) /\ session_j'[s].woken = FALSE
  BY <1>1 DEF CheckChange, Touches, SessionField, JpegTypeOK
<1>2. CASE session_j[s].error /\ call.at # "down"
  <2>1. Breaks(s)
    BY <1>1, <1>t, <1>2, JpegAssumption DEF CheckChange, Breaks, ChangeIs, JpegTypeOK
  <2> QED BY <1>1, <2>1
<1>3. CASE ~session_j[s].error /\ session_j[s].pending
  <2>1. Awaits(s)
    BY <1>1, <1>t, <1>3, JpegAssumption DEF CheckChange, Awaits, ChangeIs, JpegTypeOK
  <2> QED BY <1>1, <2>1
<1>4. CASE IF session_j[s].error THEN call.at = "down" ELSE ~session_j[s].pending
  <2>1. Overcome(s)
    BY <1>1, <1>t, <1>4, JpegAssumption DEF CheckChange, Overcome, NextState, GoesOn,
         ChangeIs, JpegTypeOK
  <2> QED BY <1>1, <2>1
<1> QED BY <1>2, <1>3, <1>4

(* What WakeChange does to each field, as elementary steps.                 *)
LEMMA WakeChangeSteps ==
  ASSUME JpegTypeOK, Places, Sessions, Change, WakeChange
  PROVE  \E s \in JpegSession : Wakes(s)
<1>1. change.on \in JpegSession
  BY DEF WakeChange, JpegTypeOK, Change
<1>2. Wakes(change.on)
  BY DEF WakeChange, Wakes, NextState, GoesOn, ChangeIs, JpegTypeOK
<1> QED BY <1>1, <1>2

(* What Moves does to each field, as elementary steps.                      *)
LEMMA MovesSteps ==
  ASSUME JpegTypeOK, SemWait \/ CheckOngoing
  PROVE  Moves
BY DEF SemWait, CheckOngoing, Moves, Manager, JpegTypeOK

(* What TakeJob does to each field, as elementary steps.                    *)
LEMMA TakeJobSteps ==
  ASSUME JpegTypeOK, Places, TakeJob
  PROVE  Moves \/ \E s \in JpegSession, j \in JpegJob : Takes(s, j)
<1> DEFINE j == Min(job_queue)
           s == jobs[j]
<1>1. CASE job_queue = {} \/ session_j[s].handles = 0
  BY <1>1 DEF TakeJob, Moves, Manager, JpegTypeOK
<1>2. CASE ~(job_queue = {} \/ session_j[s].handles = 0)
  <2>1. j \in job_queue
    <3>1. job_queue \in SUBSET Nat /\ job_queue # {}
      <4>1. job_queue \subseteq JpegJob BY DEF JpegTypeOK
      <4>2. JpegJob \subseteq Nat BY JpegAssumption DEF JpegJob
      <4> QED BY <1>2, <4>1, <4>2
    <3>2. Min(job_queue) \in job_queue
      BY <3>1, MinIn
    <3> QED BY <3>2
  <2>2. j \in JpegJob /\ s \in JpegSession
    BY <2>1, ElementOfSeq DEF JpegTypeOK, Places
  <2> HIDE DEF j
  <2>3. /\ manager.at = "lock" /\ ~CallHasJobLock /\ ManagerIs("encode", j)
        /\ job_queue' = job_queue \ {j} /\ ongoing_job_q' = ongoing_job_q \cup {j}
    BY <1>2 DEF TakeJob, ManagerIs, j
  <2>4. session_j' = [session_j EXCEPT ![s].handles = @ - 1, ![s].jobId = j]
    BY <1>2 DEF TakeJob, j
  <2>5. /\ Touches(s, {"handles", "jobId"})
        /\ session_j'[s].handles = session_j[s].handles - 1 /\ session_j'[s].jobId = j
    <3>1. s \in DOMAIN session_j /\ DOMAIN session_j[s] = SessionField
      BY <2>2, FieldsOfSession
    <3>2. "handles" \in SessionField /\ "jobId" \in SessionField
      BY DEF SessionField
    <3>3. session_j'[s].handles = session_j[s].handles - 1 /\ session_j'[s].jobId = j
      BY <2>4, <3>1, <3>2, Zenon
    <3>4. Touches(s, {"handles", "jobId"})
      BY <2>2, <2>4 DEF Touches, SessionField, JpegTypeOK
    <3> QED BY <3>3, <3>4
  <2>6. /\ session_j[s].handles # 0
        /\ UNCHANGED <<jobs, job_sem, p_session_inprogress, call, change, omx, answered,
                 withdrawn, spent>>
    BY <1>2 DEF TakeJob, j
  <2>7. Takes(s, j)
    BY <2>1, <2>3, <2>5, <2>6 DEF Takes
  <2> QED BY <2>2, <2>7
<1> QED BY <1>1, <1>2

(* What EncodeSession does to each field, as elementary steps.              *)
LEMMA EncodeSessionSteps ==
  ASSUME JpegTypeOK, Places, EncodeSession
  PROVE  \E s \in JpegSession : FindsConfigured(s) \/ FindsOther(s) \/ FindsNone(s)
<1> DEFINE s == jobs[manager.job]
<1>1. s \in JpegSession
  BY ElementOfSeq DEF JpegTypeOK, Places, EncodeSession, Held, ManagerHasJobLock
<1>2. /\ Touches(s, {"abort", "encoding"})
      /\ session_j'[s].abort = "none" /\ session_j'[s].encoding = FALSE
  <2>1. session_j' = [session_j EXCEPT ![s].abort = "none", ![s].encoding = FALSE]
    BY DEF EncodeSession
  <2> HIDE DEF s
  <2>2. s \in DOMAIN session_j /\ DOMAIN session_j[s] = SessionField
    BY <1>1, FieldsOfSession
  <2>3. "abort" \in SessionField /\ "encoding" \in SessionField
    BY DEF SessionField
  <2>4. session_j'[s].abort = "none" /\ session_j'[s].encoding = FALSE
    BY <2>1, <2>2, <2>3, Zenon
  <2>5. Touches(s, {"abort", "encoding"})
    BY <1>1, <2>1 DEF Touches, SessionField, JpegTypeOK
  <2> QED BY <2>4, <2>5
<1>3. CASE session_j[s].config
  <2>1. FindsConfigured(s)
    BY <1>1, <1>2, <1>3 DEF EncodeSession, FindsConfigured, Manager, ManagerIs,
         JpegTypeOK
  <2> QED BY <1>1, <2>1
<1>4. CASE ~session_j[s].config /\ p_session_inprogress # NoSession
  <2>1. FindsOther(s)
    BY <1>1, <1>2, <1>4 DEF EncodeSession, FindsOther, Manager, ManagerIs, JpegTypeOK,
                       TakingDown, ChangeStates, ChangeIs, Down2
  <2> QED BY <1>1, <2>1
<1>5. CASE ~session_j[s].config /\ p_session_inprogress = NoSession
  <2>1. FindsNone(s)
    BY <1>1, <1>2, <1>5 DEF EncodeSession, FindsNone, Manager, ManagerIs, JpegTypeOK,
                       Configuring, ChangeStates, ChangeIs, Up2
  <2> QED BY <1>1, <2>1
<1> QED BY <1>3, <1>4, <1>5

(* What ClearInProgress does to each field, as elementary steps.            *)
LEMMA ClearInProgressSteps ==
  ASSUME JpegTypeOK, Places, Change, ClearInProgress
  PROVE  CannotConfigure \/ \E s \in JpegSession : Cleared(s)
<1>1. CASE Changed
  <2>1. p_session_inprogress \in JpegSession
    BY DEF ClearInProgress, JpegTypeOK, Change
  <2>2. /\ Touches(p_session_inprogress, {"config"})
        /\ session_j'[p_session_inprogress].config = FALSE
    BY <1>1, <2>1 DEF ClearInProgress, Changed, Touches, SessionField, JpegTypeOK
  <2>3. ManagerIs("configuring", manager.job)
    BY <1>1 DEF ClearInProgress, Changed, Manager, ManagerIs, JpegTypeOK
  <2>4. ChangeIs(jobs[manager.job], "up", Up2, "next")
    BY <1>1 DEF ClearInProgress, Changed, Configuring, ChangeStates, ChangeIs, Up2
  <2>5. p_session_inprogress' = NoSession
    BY <1>1 DEF ClearInProgress, Changed
  <2>6. Cleared(p_session_inprogress)
    BY <1>1, <2>2, <2>3, <2>4, <2>5 DEF ClearInProgress, Cleared
  <2> QED BY <2>1, <2>6
<1>2. CASE ~Changed
  BY <1>2 DEF ClearInProgress, CannotConfigure, Manager, ManagerIs, JpegTypeOK,
       ChangeEnds, ChangeIs, NoChange
<1> QED BY <1>1, <1>2

(* What ConfigureForJob does to each field, as elementary steps.            *)
LEMMA ConfigureForJobSteps ==
  ASSUME JpegTypeOK, Places, Change, ConfigureForJob
  PROVE  CannotConfigure \/ \E s \in JpegSession : ConfiguredForJob(s)
<1> DEFINE s == jobs[manager.job]
<1>1. s \in JpegSession
  BY ElementOfSeq DEF JpegTypeOK, Places, ConfigureForJob, Held, ManagerHasJobLock
<1>2. CASE Changed
  <2>2. /\ Touches(s, {"config"}) /\ session_j'[s].config = TRUE
    <3>1. session_j' = [session_j EXCEPT ![s].config = TRUE]
      BY <1>2 DEF ConfigureForJob, Changed, Configured
    <3> HIDE DEF s
    <3> QED BY <1>1, <3>1 DEF Touches, SessionField, JpegTypeOK
  <2>3. ConfiguredForJob(s)
    BY <1>2, <2>2 DEF ConfigureForJob, ConfiguredForJob, Changed, Configured, Manager,
         ManagerIs, JpegTypeOK,
                       ChangeEnds, ChangeIs, NoChange
  <2> QED BY <1>1, <2>3
<1>3. CASE ~Changed
  BY <1>3 DEF ConfigureForJob, CannotConfigure, Configured, Manager, ManagerIs,
       JpegTypeOK, ChangeEnds, ChangeIs, NoChange
<1> QED BY <1>2, <1>3

(* What ConfigureJobParams does to each field, as elementary steps.         *)
LEMMA ConfigureJobParamsSteps ==
  ASSUME JpegTypeOK, Places, ConfigureJobParams
  PROVE  Refused \/ \E s \in JpegSession : Starts(s)
<1> DEFINE s == jobs[manager.job]
<1>1. s \in JpegSession
  BY ElementOfSeq DEF JpegTypeOK, Places, ConfigureJobParams, Held, ManagerHasJobLock
<1>2. CASE session_j' = [session_j EXCEPT ![s].encoding = TRUE] /\ Unlocked(s)
             /\ Manager("submit") /\ UNCHANGED spent
  <2>2. /\ Touches(s, {"encoding"}) /\ session_j'[s].encoding = TRUE
    BY <1>1, <1>2 DEF Touches, SessionField, JpegTypeOK
  <2>3. Starts(s)
    BY <1>2, <2>2 DEF ConfigureJobParams, Starts, Manager, ManagerIs, JpegTypeOK
  <2> QED BY <1>1, <2>3
<1>3. CASE OmxMayFail /\ OmxFails /\ Manager("fail") /\ UNCHANGED session_j
  BY <1>3 DEF ConfigureJobParams, Refused, OmxFails, Manager, ManagerIs, JpegTypeOK
<1> QED BY <1>2, <1>3 DEF ConfigureJobParams

(* What EmptyBuffer does to each field, as elementary steps.                *)
LEMMA EmptyBufferSteps ==
  ASSUME JpegTypeOK, Places, EmptyBuffer
  PROVE  Refused \/ \E s \in JpegSession : GetsInput(s) \/ NotReady(s)
<1> DEFINE s == jobs[manager.job]
<1>1. s \in JpegSession
  BY ElementOfSeq DEF JpegTypeOK, Places, EmptyBuffer, Held, ManagerHasJobLock
<1>2. CASE omx[s].state = "Executing"
             /\ omx' = [omx EXCEPT ![s].input = manager.job] /\ Manager("fill")
             /\ UNCHANGED spent
  <2>2. /\ Feeds(s, {"input"}) /\ omx'[s].input = manager.job
    BY <1>1, <1>2 DEF Feeds, JpegTypeOK
  <2>3. GetsInput(s)
    BY <1>2, <2>2 DEF EmptyBuffer, GetsInput, Manager, ManagerIs, JpegTypeOK
  <2>4. manager'.at = "fill"
    BY <1>2 DEF Manager, JpegTypeOK
  <2> QED BY <1>1, <2>3, <2>4
<1>4. CASE omx[s].state # "Executing" /\ Manager("fail") /\ UNCHANGED <<omx, spent>>
  <2>1. NotReady(s)
    BY <1>4 DEF EmptyBuffer, NotReady, Manager, ManagerIs, JpegTypeOK
  <2> QED BY <1>1, <2>1
<1>3. CASE OmxMayFail /\ OmxFails /\ Manager("fail") /\ UNCHANGED omx
  BY <1>3 DEF EmptyBuffer, Refused, OmxFails, Manager, ManagerIs, JpegTypeOK
<1> QED BY <1>2, <1>3, <1>4 DEF EmptyBuffer

(* What FillBuffer does to each field, as elementary steps.                 *)
LEMMA FillBufferSteps ==
  ASSUME JpegTypeOK, Places, FillBuffer
  PROVE  Refused \/ \E s \in JpegSession : GetsOutput(s) \/ NotReady(s)
<1> DEFINE s == jobs[manager.job]
<1>1. s \in JpegSession
  BY ElementOfSeq DEF JpegTypeOK, Places, FillBuffer, Held, ManagerHasJobLock
<1>2. CASE omx[s].state = "Executing"
             /\ omx' = [omx EXCEPT ![s].work = omx[s].input]
             /\ manager' = [at |-> "wait", job |-> 0] /\ UNCHANGED spent
  <2>2. /\ Feeds(s, {"work"}) /\ omx'[s].work = omx[s].input
    BY <1>1, <1>2 DEF Feeds, JpegTypeOK
  <2>3. GetsOutput(s)
    BY <1>2, <2>2 DEF FillBuffer, GetsOutput, ManagerIs
  <2> QED BY <1>1, <2>3
<1>4. CASE omx[s].state # "Executing" /\ Manager("fail") /\ UNCHANGED <<omx, spent>>
  <2>1. NotReady(s)
    BY <1>4 DEF FillBuffer, NotReady, Manager, ManagerIs, JpegTypeOK
  <2> QED BY <1>1, <2>1
<1>3. CASE OmxMayFail /\ OmxFails /\ Manager("fail") /\ UNCHANGED omx
  BY <1>3 DEF FillBuffer, Refused, OmxFails, Manager, ManagerIs, JpegTypeOK
<1> QED BY <1>2, <1>3, <1>4 DEF FillBuffer

(* What FailJob does to each field, as elementary steps.                    *)
LEMMA FailJobSteps ==
  ASSUME JpegTypeOK, Places, FailJob
  PROVE  \E s \in JpegSession : Fails(s)
<1> DEFINE s == jobs[manager.job]
<1>1. s \in JpegSession
  BY ElementOfSeq DEF JpegTypeOK, Places, FailJob, Held, ManagerHasJobLock
<1>2. /\ Touches(s, {"encoding", "handles"})
      /\ session_j'[s].encoding = FALSE
           /\ session_j'[s].handles = session_j[s].handles + 1
  <2>1. session_j' = [session_j EXCEPT ![s].encoding = FALSE, ![s].handles = @ + 1]
    BY DEF FailJob
  <2>2. "encoding" \in SessionField /\ "encoding" # "handles"
    BY DEF SessionField
  <2> HIDE DEF s
  <2> QED BY <1>1, <2>1, <2>2, CountUp
<1>3. Fails(s)
  BY <1>2 DEF FailJob, Fails, ManagerIs, Answers
<1> QED BY <1>1, <1>3

(* What CommandDone does to each field, as elementary steps.                *)
LEMMA CommandDoneSteps ==
  ASSUME JpegTypeOK, NEW s \in JpegSession, CommandDone(s)
  PROVE  DoneAborting(s) \/ DoneAwaited(s) \/ DoneAlone(s)
<1> DEFINE state == Head(omx[s].cmds)
           i == IF state = "Idle" THEN 0 ELSE omx[s].input
           w == IF state = "Idle" THEN 0 ELSE omx[s].work
<1>1. omx' = [omx EXCEPT ![s].state = state, ![s].cmds = Tail(@),
                         ![s].input = IF state = "Idle" THEN 0 ELSE @,
                         ![s].work = IF state = "Idle" THEN 0 ELSE @]
  BY DEF CommandDone
<1>2. s \in DOMAIN omx /\ DOMAIN omx[s] = {"state", "cmds", "input", "work"}
  BY DEF JpegTypeOK
<1>3. /\ omx'[s].state = state /\ omx'[s].cmds = Tail(omx[s].cmds)
      /\ omx'[s].input = i /\ omx'[s].work = w
  BY <1>1, <1>2 DEF JpegTypeOK
<1>4. \A t \in JpegSession \ {s} : omx'[t] = omx[t]
  BY <1>1, <1>2, Zenon DEF JpegTypeOK
<1>5. Feeds(s, {"state", "cmds", "input", "work"})
  BY <1>4 DEF Feeds
<1> HIDE DEF state, i, w
<1>6. CASE Aborting(s)
  <2>1. session_j' = [session_j EXCEPT ![s].abort = "done", ![s].woken = TRUE]
    BY <1>6 DEF CommandDone, Aborted
  <2>2. Touches(s, {"abort", "woken"}) /\ session_j'[s].abort = "done"
          /\ session_j'[s].woken = TRUE
    <3>1. s \in DOMAIN session_j /\ DOMAIN session_j[s] = SessionField
      BY FieldsOfSession
    <3>2. "abort" \in SessionField /\ "woken" \in SessionField
      BY DEF SessionField
    <3>3. session_j'[s].abort = "done" /\ session_j'[s].woken = TRUE
      BY <2>1, <3>1, <3>2, Zenon
    <3>4. Touches(s, {"abort", "woken"})
      BY <2>1 DEF Touches, SessionField, JpegTypeOK
    <3> QED BY <3>3, <3>4
  <2> QED BY <1>3, <1>5, <1>6, <2>2 DEF CommandDone, DoneAborting, Aborting, state, i, w
<1>7. CASE ~Aborting(s) /\ session_j[s].pending
  <2>1. session_j' = [session_j EXCEPT ![s].pending = FALSE, ![s].woken = TRUE]
    BY <1>7 DEF CommandDone
  <2>2. Touches(s, {"pending", "woken"}) /\ session_j'[s].pending = FALSE
          /\ session_j'[s].woken = TRUE
    <3>1. s \in DOMAIN session_j /\ DOMAIN session_j[s] = SessionField
      BY FieldsOfSession
    <3>2. "pending" \in SessionField /\ "woken" \in SessionField
      BY DEF SessionField
    <3>3. session_j'[s].pending = FALSE /\ session_j'[s].woken = TRUE
      BY <2>1, <3>1, <3>2, Zenon
    <3>4. Touches(s, {"pending", "woken"})
      BY <2>1 DEF Touches, SessionField, JpegTypeOK
    <3> QED BY <3>3, <3>4
  <2> QED BY <1>3, <1>5, <1>7, <2>2 DEF CommandDone, DoneAwaited, Aborting, state, i, w
<1>8. CASE ~Aborting(s) /\ ~session_j[s].pending
  BY <1>3, <1>5, <1>8 DEF CommandDone, DoneAlone, Aborting, state, i, w
<1> QED BY <1>6, <1>7, <1>8

(* What OmxError does to each field, as elementary steps.                   *)
LEMMA OmxErrorSteps ==
  ASSUME JpegTypeOK, NEW s \in JpegSession, OmxError(s)
  PROVE  \/ ErrorAbortingWay(s) \/ ErrorEncodingWay(s) \/ ErrorElseWay(s)
         \/ ErrorAbortingWork(s) \/ ErrorEncodingWork(s) \/ ErrorElseWork(s)
<1>1. /\ OmxMayFail /\ Unlocked(s) /\ spent'.errors = spent.errors + 1
      /\ UNCHANGED <<jobs, job_queue, ongoing_job_q, p_session_inprogress,
                 manager, call, change, withdrawn>>
  BY DEF OmxError, OmxFails, JpegTypeOK
<1> DEFINE Way == /\ change.on = s /\ change.way = "up" /\ omx[s].cmds # << >>
                  /\ Feeds(s, {"cmds"}) /\ omx'[s].cmds = Tail(omx[s].cmds)
           Work == /\ omx[s].input # 0
                   /\ Feeds(s, {"input", "work"}) /\ omx'[s].input = 0
                        /\ omx'[s].work = 0
           Ab == /\ session_j[s].abort = "init"
                 /\ Touches(s, {"abort", "woken"})
                 /\ session_j'[s].abort = "done" /\ session_j'[s].woken = TRUE
                 /\ UNCHANGED answered
           En == /\ session_j[s].abort # "init" /\ session_j[s].encoding
                 /\ Touches(s, {"error", "woken", "cb"})
                 /\ session_j'[s].error = TRUE /\ session_j'[s].woken = TRUE
                 /\ session_j'[s].cb = "remove" /\ Answers(session_j[s].jobId)
           El == /\ session_j[s].abort # "init" /\ ~session_j[s].encoding
                 /\ Touches(s, {"error", "woken"})
                 /\ session_j'[s].error = TRUE /\ session_j'[s].woken = TRUE
                 /\ UNCHANGED answered
<1>2. Way \/ Work
  <2>1. CASE /\ change.on = s /\ change.way = "up" /\ omx[s].cmds # << >>
             /\ omx' = [omx EXCEPT ![s].cmds = Tail(@)]
    <3>1. Feeds(s, {"cmds"}) /\ omx'[s].cmds = Tail(omx[s].cmds)
      BY <2>1 DEF Feeds, JpegTypeOK
    <3> QED BY <2>1, <3>1
  <2>2. CASE /\ omx[s].input # 0
             /\ omx' = [omx EXCEPT ![s].input = 0, ![s].work = 0]
    <3>1. omx'[s].input = 0 /\ omx'[s].work = 0
      BY <2>2 DEF JpegTypeOK
    <3>2. Feeds(s, {"input", "work"})
      BY <2>2 DEF Feeds, JpegTypeOK
    <3> QED BY <2>2, <3>1, <3>2
  <2> QED BY <2>1, <2>2 DEF OmxError
<1>3. Ab \/ En \/ El
  <2>1. CASE Aborting(s)
    <3>1. session_j' = [session_j EXCEPT ![s].abort = "done", ![s].woken = TRUE]
            /\ UNCHANGED answered
      BY <2>1 DEF OmxError, Aborted
    <3>2. Touches(s, {"abort", "woken"}) /\ session_j'[s].abort = "done"
            /\ session_j'[s].woken = TRUE
      <4>1. s \in DOMAIN session_j /\ DOMAIN session_j[s] = SessionField
        BY FieldsOfSession
      <4>2. "abort" \in SessionField /\ "woken" \in SessionField
        BY DEF SessionField
      <4>3. session_j'[s].abort = "done" /\ session_j'[s].woken = TRUE
        BY <3>1, <4>1, <4>2, Zenon
      <4>4. Touches(s, {"abort", "woken"})
        BY <3>1 DEF Touches, SessionField, JpegTypeOK
      <4> QED BY <4>3, <4>4
    <3> QED BY <2>1, <3>1, <3>2 DEF Aborting
  <2>2. CASE ~Aborting(s) /\ session_j[s].encoding
    <3>1. session_j' = [session_j EXCEPT ![s].error = TRUE, ![s].woken = TRUE,
                                              ![s].cb = "remove"]
          /\ Answers(session_j[s].jobId)
      BY <2>2 DEF OmxError, Answers
    <3>2. Touches(s, {"error", "woken", "cb"}) /\ session_j'[s].error = TRUE
            /\ session_j'[s].woken = TRUE
          /\ session_j'[s].cb = "remove"
      <4>1. s \in DOMAIN session_j /\ DOMAIN session_j[s] = SessionField
        BY FieldsOfSession
      <4>2. "error" \in SessionField /\ "woken" \in SessionField
              /\ "cb" \in SessionField
        BY DEF SessionField
      <4>3. session_j'[s].error = TRUE /\ session_j'[s].woken = TRUE
              /\ session_j'[s].cb = "remove"
        BY <3>1, <4>1, <4>2, Zenon
      <4>4. Touches(s, {"error", "woken", "cb"})
        BY <3>1 DEF Touches, SessionField, JpegTypeOK
      <4> QED BY <4>3, <4>4
    <3> QED BY <2>2, <3>1, <3>2 DEF Aborting
  <2>3. CASE ~Aborting(s) /\ ~session_j[s].encoding
    <3>1. session_j' = [session_j EXCEPT ![s].error = TRUE, ![s].woken = TRUE]
            /\ UNCHANGED answered
      BY <2>3 DEF OmxError
    <3>2. Touches(s, {"error", "woken"}) /\ session_j'[s].error = TRUE
            /\ session_j'[s].woken = TRUE
      <4>1. s \in DOMAIN session_j /\ DOMAIN session_j[s] = SessionField
        BY FieldsOfSession
      <4>2. "error" \in SessionField /\ "woken" \in SessionField
        BY DEF SessionField
      <4>3. session_j'[s].error = TRUE /\ session_j'[s].woken = TRUE
        BY <3>1, <4>1, <4>2, Zenon
      <4>4. Touches(s, {"error", "woken"})
        BY <3>1 DEF Touches, SessionField, JpegTypeOK
      <4> QED BY <4>3, <4>4
    <3> QED BY <2>3, <3>1, <3>2 DEF Aborting
  <2> QED BY <2>1, <2>2, <2>3
<1>4. CASE Way
  BY <1>1, <1>3, <1>4 DEF ErrorAbortingWay, ErrorEncodingWay, ErrorElseWay
<1>5. CASE Work
  BY <1>1, <1>3, <1>5 DEF ErrorAbortingWork, ErrorEncodingWork, ErrorElseWork
<1> QED BY <1>2, <1>4, <1>5

(* What FillBufferDone does to each field, as elementary steps.             *)
LEMMA FillBufferDoneSteps ==
  ASSUME JpegTypeOK, NEW s \in JpegSession, FillBufferDone(s)
  PROVE  BufferBack(s) \/ Encoded(s)
<1>1. Feeds(s, {"input", "work"}) /\ omx'[s].input = 0 /\ omx'[s].work = 0
  BY DEF FillBufferDone, Feeds, JpegTypeOK
<1>2. CASE session_j[s].abort # "none"
  BY <1>1, <1>2 DEF FillBufferDone, BufferBack
<1>3. CASE session_j[s].abort = "none"
  <2>1. session_j' = [session_j EXCEPT ![s].cb = "remove"]
    BY <1>3 DEF FillBufferDone
  <2>2. Touches(s, {"cb"}) /\ session_j'[s].cb = "remove"
    BY <2>1 DEF Touches, SessionField, JpegTypeOK
  <2> QED BY <1>1, <1>3, <2>2 DEF FillBufferDone, Encoded, Answers
<1> QED BY <1>2, <1>3

(* What JobDone does to each field, as elementary steps.                    *)
LEMMA JobDoneSteps ==
  ASSUME JpegTypeOK, NEW s \in JpegSession, JobDone(s)
  PROVE  Removes(s) \/ GivesBack(s) \/ Posts(s)
<1>1. CASE session_j[s].cb = "remove"
  <2>1. session_j' = [session_j EXCEPT ![s].cb = "handle", ![s].encoding = FALSE]
    BY <1>1 DEF JobDone
  <2>2. Touches(s, {"cb", "encoding"}) /\ session_j'[s].cb = "handle"
          /\ session_j'[s].encoding = FALSE
    <3>1. s \in DOMAIN session_j /\ DOMAIN session_j[s] = SessionField
      BY FieldsOfSession
    <3>2. "cb" \in SessionField /\ "encoding" \in SessionField
      BY DEF SessionField
    <3>3. session_j'[s].cb = "handle" /\ session_j'[s].encoding = FALSE
      BY <2>1, <3>1, <3>2, Zenon
    <3>4. Touches(s, {"cb", "encoding"})
      BY <2>1 DEF Touches, SessionField, JpegTypeOK
    <3> QED BY <3>3, <3>4
  <2> QED BY <1>1, <2>2 DEF JobDone, Removes
<1>2. CASE session_j[s].cb = "handle"
  <2>1. session_j' = [session_j EXCEPT ![s].cb = "post", ![s].handles = @ + 1]
    BY <1>2 DEF JobDone
  <2>2. Touches(s, {"cb", "handles"}) /\ session_j'[s].cb = "post"
          /\ session_j'[s].handles = session_j[s].handles + 1
    <3>1. "cb" \in SessionField /\ "cb" # "handles"
      BY DEF SessionField
    <3> QED BY <2>1, <3>1, CountUp
  <2> QED BY <1>2, <2>2 DEF JobDone, GivesBack
<1>3. CASE session_j[s].cb = "post"
  <2>1. session_j' = [session_j EXCEPT ![s].cb = "idle"]
    BY <1>3 DEF JobDone
  <2>2. Touches(s, {"cb"}) /\ session_j'[s].cb = "idle"
    BY <2>1 DEF Touches, SessionField, JpegTypeOK
  <2> QED BY <1>3, <2>2 DEF JobDone, Posts
<1> QED BY <1>1, <1>2, <1>3 DEF JobDone

(* What CreateSession does to each field, as elementary steps.              *)
LEMMA CreateSessionSteps ==
  ASSUME JpegTypeOK, NEW s \in JpegSession, CreateSession(s)
  PROVE  Creates(s)
<1>1. /\ \A t \in JpegSession \ {s} : session_j'[t] = session_j[t] /\ omx'[t] = omx[t]
      /\ session_j'[s] = [NewSession EXCEPT !.active = TRUE, !.handles = 1]
      /\ omx'[s] = [NoComponent EXCEPT !.state = "Loaded"]
  BY DEF CreateSession, JpegTypeOK
<1>2. IsNew(session_j'[s]) /\ session_j'[s].active = TRUE /\ session_j'[s].handles = 1
  BY <1>1 DEF NewSession, IsNew
<1>3. /\ omx'[s].state = "Loaded" /\ omx'[s].cmds = << >>
      /\ omx'[s].input = 0 /\ omx'[s].work = 0
  BY <1>1 DEF NoComponent
<1>4. Touches(s, SessionField) /\ Feeds(s, {"state", "cmds", "input", "work"})
  BY <1>1 DEF Touches, Feeds
<1>5. spent'.errors = spent.errors /\ CallIs("create", s, 0)
  BY DEF CreateSession, CallIs, JpegTypeOK
<1> QED BY <1>2, <1>3, <1>4, <1>5 DEF CreateSession, Creates

(* What ConfigureNew does to each field, as elementary steps.               *)
LEMMA ConfigureNewSteps ==
  ASSUME JpegTypeOK, Places, ConfigureNew
  PROVE  \E s \in JpegSession : ConfiguresNew(s) \/ Usable(s)
<1> DEFINE s == call.sess
<1>1. s \in JpegSession
  BY DEF ConfigureNew, Places
<1>2. CASE p_session_inprogress = NoSession
  <2>1. CallIs("configuring", s, call.job) /\ ChangeIs(s, "up", Up2, "next")
    BY <1>2 DEF ConfigureNew, Call, CallIs, Configuring, ChangeStates, ChangeIs, Up2,
         JpegTypeOK
  <2>2. ConfiguresNew(s)
    BY <1>2, <2>1 DEF ConfigureNew, ConfiguresNew
  <2> QED BY <1>1, <2>2
<1>3. CASE p_session_inprogress # NoSession
  <2>1. Touches(s, {"usable"})
    BY <1>1, <1>3 DEF ConfigureNew, Touches, SessionField, JpegTypeOK
  <2>2. Usable(s)
    BY <1>3, <2>1 DEF ConfigureNew, Usable, CallEnds, CallReturns, CallIs
  <2> QED BY <1>1, <2>2
<1> QED BY <1>2, <1>3

(* What SessionCreated does to each field, as elementary steps.             *)
LEMMA SessionCreatedSteps ==
  ASSUME JpegTypeOK, Places, SessionCreated
  PROVE  NotCreated \/ \E s \in JpegSession : Created(s)
<1> DEFINE s == call.sess
<1>1. s \in JpegSession
  BY DEF SessionCreated, Places
<1>c. CallEnds /\ ChangeEnds
  BY DEF SessionCreated, CallEnds, CallReturns, CallIs, NoChange, ChangeEnds, ChangeIs
<1>2. CASE Changed
  <2>1. session_j' = [session_j EXCEPT ![s].config = TRUE, ![s].usable = TRUE]
    BY <1>2 DEF SessionCreated, Changed
  <2>2. Touches(s, {"config", "usable"}) /\ session_j'[s].config = TRUE
    <3>1. s \in DOMAIN session_j /\ DOMAIN session_j[s] = SessionField
      BY <1>1, FieldsOfSession
    <3>2. "config" \in SessionField /\ "usable" \in SessionField
      BY DEF SessionField
    <3>3. session_j'[s].config = TRUE
      BY <2>1, <3>1, <3>2, Zenon
    <3>4. Touches(s, {"config", "usable"})
      BY <1>1, <2>1 DEF Touches, SessionField, JpegTypeOK
    <3> QED BY <3>3, <3>4
  <2>3. Created(s)
    BY <1>2, <1>c, <2>2 DEF SessionCreated, Created, Changed
  <2> QED BY <1>1, <2>3
<1>3. CASE ~Changed
  BY <1>c, <1>3 DEF SessionCreated, NotCreated
<1> QED BY <1>2, <1>3

(* What StartJob does to each field, as elementary steps.                   *)
LEMMA StartJobSteps ==
  ASSUME JpegTypeOK, NEW s \in JpegSession, StartJob(s)
  PROVE  Enqueues(s)
<1>1. Len(jobs') = Len(jobs) + 1
  BY DEF StartJob, JpegTypeOK
<1> QED BY <1>1 DEF StartJob, Enqueues, CallIs

(* What SemPost does to each field, as elementary steps.                    *)
LEMMA SemPostSteps ==
  ASSUME SemPost
  PROVE  PostEnds
BY DEF SemPost, PostEnds, CallEnds, CallReturns, CallIs

(* What AbortOrDestroy does to each field, as elementary steps.             *)
LEMMA AbortOrDestroySteps ==
  ASSUME JpegTypeOK, NEW s \in JpegSession, AbortOrDestroy(s)
  PROVE  AsksDestroy(s) \/ \E j \in JpegJob : AsksAbort(s, j)
<1>1. Touches(s, {"usable"}) /\ session_j'[s].usable = FALSE
  BY DEF AbortOrDestroy, Touches, SessionField, JpegTypeOK
<1>2. CASE call' = [at |-> "destroy", sess |-> s, job |-> 0]
  BY <1>1, <1>2 DEF AbortOrDestroy, AsksDestroy, CallIs
<1>3. ASSUME NEW j \in JobsOf(s), call' = [at |-> "abort", sess |-> s, job |-> j]
      PROVE  \E k \in JpegJob : AsksAbort(s, k)
  <2>1. j \in JpegJob
    <3>1. DOMAIN jobs = 1..Len(jobs) /\ Len(jobs) \in Nat /\ MaxJobs \in Nat
      BY LenProperties, JpegAssumption DEF JpegTypeOK
    <3>2. j \in 1..Len(jobs)
      BY <3>1 DEF JobsOf
    <3> QED BY <3>1, <3>2 DEF JpegTypeOK, JpegJob
  <2>2. AsksAbort(s, j)
    BY <1>1, <1>3 DEF AbortOrDestroy, AsksAbort, CallIs
  <2> QED BY <2>1, <2>2
<1> QED BY <1>2, <1>3 DEF AbortOrDestroy

(* What AbortJpegJob does to each field, as elementary steps.               *)
LEMMA AbortJpegJobSteps ==
  ASSUME JpegTypeOK, Places, AbortJpegJob
  PROVE  \E s \in JpegSession : TakesOff(s) \/ Withdraws(s)
<1> DEFINE s == call.sess
<1>1. s \in JpegSession
  BY DEF AbortJpegJob, Places
<1>2. CASE call.job \notin job_queue /\ call.job \in ongoing_job_q
  <2>1. job_queue' = job_queue
    BY <1>2 DEF AbortJpegJob
  <2>2. TakesOff(s)
    BY <1>2, <2>1 DEF AbortJpegJob, TakesOff, Call, CallIs, JpegTypeOK
  <2> QED BY <1>1, <2>2
<1>3. CASE ~(call.job \notin job_queue /\ call.job \in ongoing_job_q)
  <2>1. Withdraws(s)
    BY <1>3 DEF AbortJpegJob, Withdraws, CallReturns, CallEnds, CallIs
  <2> QED BY <1>1, <2>1
<1> QED BY <1>2, <1>3

(* What DestroyJpegSession does to each field, as elementary steps.         *)
LEMMA DestroyJpegSessionSteps ==
  ASSUME JpegTypeOK, Places, DestroyJpegSession
  PROVE  \E s \in JpegSession : Forgets(s)
<1>1. call.sess \in JpegSession
  BY DEF DestroyJpegSession, Places
<1>2. Forgets(call.sess)
  BY DEF DestroyJpegSession, Forgets, Call, CallIs, JpegTypeOK
<1> QED BY <1>1, <1>2

(* What Halted does to each field, as elementary steps.                     *)
LEMMA HaltedSteps ==
  ASSUME JpegTypeOK, Halted
  PROVE  \/ /\ call.job # 0 /\ CallEnds
            /\ withdrawn' = withdrawn \cup {call.job} /\ UNCHANGED change
         \/ /\ call.job = 0 /\ CallIs("down", call.sess, 0) /\ UNCHANGED withdrawn
            /\ ChangeIs(call.sess, "down", Down2, "next")
BY DEF Halted, Call, CallReturns, CallEnds, CallIs, TakingDown, ChangeStates, ChangeIs,
     Down2,
       JpegTypeOK

(* What SessionAbort does to each field, as elementary steps.               *)
LEMMA SessionAbortSteps ==
  ASSUME JpegTypeOK, Places, SessionAbort
  PROVE  \E s \in JpegSession : \/ HaltsJob(s) \/ HaltsSession(s) \/ MarksJob(s)
                                \/ MarksSession(s) \/ SendsIdle(s)
<1> DEFINE s == call.sess
<1>1. s \in JpegSession /\ call.at = "halt" /\ Unlocked(s)
  BY DEF SessionAbort, Places
<1>2. CASE session_j[s].abort # "none"
  <2>1. Halted /\ UNCHANGED <<session_j, omx>>
    BY <1>2 DEF SessionAbort
  <2>2. HaltsJob(s) \/ HaltsSession(s)
    BY <1>1, <1>2, <2>1, HaltedSteps DEF SessionAbort, HaltsJob, HaltsSession
  <2> QED BY <1>1, <2>2
<1>3. CASE session_j[s].abort = "none" /\ session_j[s].encoding
  <2>1. /\ session_j' = [session_j EXCEPT ![s].abort = "init", ![s].pending = TRUE]
        /\ omx' = [omx EXCEPT ![s].cmds = Append(@, "Idle")]
        /\ Call("halting") /\ UNCHANGED <<change, withdrawn>>
    BY <1>3 DEF SessionAbort
  <2>2. Touches(s, {"abort", "pending"}) /\ session_j'[s].abort = "init"
          /\ session_j'[s].pending = TRUE
    <3>1. s \in DOMAIN session_j /\ DOMAIN session_j[s] = SessionField
      BY <1>1, FieldsOfSession
    <3>2. "abort" \in SessionField /\ "pending" \in SessionField
      BY DEF SessionField
    <3>3. session_j'[s].abort = "init" /\ session_j'[s].pending = TRUE
      BY <2>1, <3>1, <3>2, Zenon
    <3>4. Touches(s, {"abort", "pending"})
      BY <1>1, <2>1 DEF Touches, SessionField, JpegTypeOK
    <3> QED BY <3>3, <3>4
  <2>3. Feeds(s, {"cmds"}) /\ omx'[s].cmds = Append(omx[s].cmds, "Idle")
    BY <1>1, <2>1 DEF Feeds, JpegTypeOK
  <2>4. CallIs("halting", s, call.job)
    BY <2>1 DEF Call, CallIs, JpegTypeOK
  <2>5. SendsIdle(s)
    BY <1>1, <1>3, <2>1, <2>2, <2>3, <2>4 DEF SessionAbort, SendsIdle
  <2> QED BY <1>1, <2>5
<1>4. CASE session_j[s].abort = "none" /\ ~session_j[s].encoding
  <2>1. session_j' = [session_j EXCEPT ![s].abort = "done"] /\ Halted /\ UNCHANGED omx
    BY <1>4 DEF SessionAbort
  <2>2. Touches(s, {"abort"}) /\ session_j'[s].abort = "done"
    BY <1>1, <2>1 DEF Touches, SessionField, JpegTypeOK
  <2>3. MarksJob(s) \/ MarksSession(s)
    BY <1>1, <1>4, <2>1, <2>2, HaltedSteps DEF SessionAbort, MarksJob, MarksSession
  <2> QED BY <1>1, <2>3
<1> QED BY <1>2, <1>3, <1>4

(* What SessionAborted does to each field, as elementary steps.             *)
LEMMA SessionAbortedSteps ==
  ASSUME JpegTypeOK, Places, SessionAborted
  PROVE  \E s \in JpegSession : HaltsJob(s) \/ HaltsSession(s)
<1> DEFINE s == call.sess
<1>1. s \in JpegSession
  BY DEF SessionAborted, Places
<1>2. HaltsJob(s) \/ HaltsSession(s)
  BY HaltedSteps DEF SessionAborted, HaltsJob, HaltsSession
<1> QED BY <1>1, <1>2

(* What FreeSession does to each field, as elementary steps.                *)
LEMMA FreeSessionSteps ==
  ASSUME JpegTypeOK, Places, FreeSession
  PROVE  \E s \in JpegSession : Frees(s)
<1> DEFINE s == call.sess
<1>0. s \in JpegSession
  BY DEF FreeSession, Places
<1>1. /\ \A t \in JpegSession \ {s} : session_j'[t] = session_j[t] /\ omx'[t] = omx[t]
      /\ session_j'[s] = NewSession /\ omx'[s] = NoComponent
  BY <1>0 DEF FreeSession, JpegTypeOK
<1>2. IsNew(session_j'[s]) /\ session_j'[s].active = FALSE /\ session_j'[s].handles = 0
  BY <1>1 DEF NewSession, IsNew
<1>3. /\ omx'[s].state = "none" /\ omx'[s].cmds = << >>
      /\ omx'[s].input = 0 /\ omx'[s].work = 0
  BY <1>1 DEF NoComponent
<1>4. Touches(s, SessionField) /\ Feeds(s, {"state", "cmds", "input", "work"})
  BY <1>1 DEF Touches, Feeds
<1>5. CallIs("post", s, call.job) /\ ChangeEnds
  BY DEF FreeSession, Call, CallIs, NoChange, ChangeEnds, ChangeIs, JpegTypeOK
<1>6. Frees(s)
  BY <1>2, <1>3, <1>4, <1>5 DEF FreeSession, Frees
<1> QED BY <1>0, <1>6
-----------------------------------------------------------------------------
(* The type invariant, one operator for each variable.                      *)
ComponentRecord ==
  [state : OmxState, cmds : Seq(OmxState), input : {0} \cup JpegJob,
   work : {0} \cup JpegJob]
JobsOK == jobs \in Seq(JpegSession) /\ Len(jobs) <= MaxJobs
QueuesOK ==
  /\ job_queue \subseteq JpegJob /\ ongoing_job_q \subseteq JpegJob
  /\ job_sem \in Nat /\ withdrawn \subseteq JpegJob
InProgressOK == p_session_inprogress \in JpegSession \cup {NoSession}
ManagerOK ==
   manager \in [at : {"wait", "check", "lock", "encode", "clearing",
                        "configuring", "params", "submit", "fill", "fail"},
                  job : {0} \cup JpegJob]
CallOK ==
   call \in [at : {"none", "post", "create", "configuring", "abort", "destroy",
                     "halt", "halting", "down"},
               sess : JpegSession \cup {NoSession}, job : {0} \cup JpegJob]
ChangeOK ==
   change \in [on : JpegSession \cup {NoSession}, way : {"up", "down"},
                 rest : Seq(OmxState), at : {"next", "sent", "wait", "failed"}]
SessionsOK == session_j \in [JpegSession -> SessionRecord]
OmxOK == omx \in [JpegSession -> ComponentRecord]
AnsweredOK == answered \in [JpegJob -> Nat]
SpentOK == spent \in [creates : Nat, errors : Nat]

TypeParts ==
  /\ JobsOK /\ QueuesOK /\ InProgressOK /\ ManagerOK /\ CallOK /\ ChangeOK
  /\ SessionsOK /\ OmxOK /\ AnsweredOK /\ SpentOK

(* The type invariant is those of the variables.                            *)
LEMMA PartsOfType == JpegTypeOK <=> TypeParts
<1>1. SessionsOK <=> session_j \in [JpegSession ->
       [active : BOOLEAN, usable : BOOLEAN, config : BOOLEAN, encoding : BOOLEAN,
        error : BOOLEAN, pending : BOOLEAN, abort : {"none", "init", "done"},
        jobId : {0} \cup JpegJob, handles : Nat, woken : BOOLEAN,
        cb : {"idle", "remove", "handle", "post"}]]
  BY DEF SessionsOK, SessionRecord
<1>2. OmxOK <=> omx \in [JpegSession -> [state : OmxState, cmds : Seq(OmxState),
                              input : {0} \cup JpegJob, work : {0} \cup JpegJob]]
  BY DEF OmxOK, ComponentRecord
<1> QED BY <1>1, <1>2, Zenon DEF JpegTypeOK, TypeParts, JobsOK, QueuesOK, InProgressOK,
     ManagerOK, CallOK,
     ChangeOK, AnsweredOK, SpentOK

(* The sessions and the job the threads serve are there.                    *)
LEMMA Actors ==
  ASSUME JpegTypeOK, Places, Sessions, Change
  PROVE  /\ manager.at \in {"encode", "clearing", "configuring", "params", "submit",
               "fill", "fail"} =>
              manager.job \in JpegJob /\ jobs[manager.job] \in JpegSession
         /\ call.at \notin {"none", "post"} => call.sess \in JpegSession
         /\ change.rest # << >> \/ change.at \in {"sent", "wait"}
              => change.on \in JpegSession
<1>1. manager.at \in {"encode", "clearing", "configuring", "params", "submit", "fill",
         "fail"} =>
              manager.job \in JpegJob /\ jobs[manager.job] \in JpegSession
  BY Positions DEF Places, ManagerHasJobLock, Held, Sess
<1> QED BY <1>1 DEF Places, Change

(* The head of job_queue is a job.                                          *)
LEMMA MinJob ==
  ASSUME QueuesOK, job_queue # {}
  PROVE  Min(job_queue) \in job_queue /\ Min(job_queue) \in JpegJob
<1>1. job_queue \in SUBSET Nat
  BY DEF QueuesOK, JpegJob
<1>2. Min(job_queue) \in job_queue
  BY <1>1, MinIn
<1> QED BY <1>2 DEF QueuesOK

(* A field set to a value of its type leaves the record its type.           *)
LEMMA FieldTypes ==
  ASSUME NEW r \in SessionRecord
  PROVE  /\ \A x \in BOOLEAN : [r EXCEPT !.usable = x] \in SessionRecord
         /\ \A x \in BOOLEAN : [r EXCEPT !.config = x] \in SessionRecord
         /\ \A x \in BOOLEAN : [r EXCEPT !.encoding = x] \in SessionRecord
         /\ \A x \in BOOLEAN : [r EXCEPT !.error = x] \in SessionRecord
         /\ \A x \in BOOLEAN : [r EXCEPT !.pending = x] \in SessionRecord
         /\ \A x \in BOOLEAN : [r EXCEPT !.woken = x] \in SessionRecord
         /\ \A x \in {"none", "init", "done"} : [r EXCEPT !.abort = x] \in SessionRecord
         /\ \A x \in {"idle", "remove", "handle",
               "post"} : [r EXCEPT !.cb = x] \in SessionRecord
         /\ \A x \in Nat : [r EXCEPT !.handles = x] \in SessionRecord
         /\ \A x \in {0} \cup JpegJob : [r EXCEPT !.jobId = x] \in SessionRecord
BY DEF SessionRecord

LEMMA ComponentTypes ==
  ASSUME NEW r \in ComponentRecord
  PROVE  /\ \A x \in OmxState : [r EXCEPT !.state = x] \in ComponentRecord
         /\ \A x \in Seq(OmxState) : [r EXCEPT !.cmds = x] \in ComponentRecord
         /\ \A x \in {0} \cup JpegJob : [r EXCEPT !.input = x] \in ComponentRecord
         /\ \A x \in {0} \cup JpegJob : [r EXCEPT !.work = x] \in ComponentRecord
BY DEF ComponentRecord

(* The records of a new session and of a new component.                     *)
LEMMA New ==
  /\ [NewSession EXCEPT !.active = TRUE, !.handles = 1] \in SessionRecord
  /\ NewSession \in SessionRecord
  /\ NoComponent \in ComponentRecord
  /\ [NoComponent EXCEPT !.state = "Loaded"] \in ComponentRecord
<1>1. << >> \in Seq(OmxState)
  OBVIOUS
<1> QED BY <1>1 DEF NewSession, NoComponent, SessionRecord, ComponentRecord, OmxState

ChangeRecord ==
  [on : JpegSession \cup {NoSession}, way : {"up", "down"},
   rest : Seq(OmxState), at : {"next", "sent", "wait", "failed"}]

(* The records of a change.                                                 *)
LEMMA ChangeTypes ==
  /\ ChangeOK => /\ \A x \in {"next", "sent", "wait", "failed"} :
                      [change EXCEPT !.at = x] \in ChangeRecord
                 /\ change.rest # << >> =>
                     [change EXCEPT !.rest = Tail(@), !.at = "next"] \in ChangeRecord
  /\ NoChange \in ChangeRecord
  /\ \A s \in JpegSession :
       /\ [on |-> s, way |-> "up", rest |-> <<"Idle", "Executing">>,
             at |-> "next"] \in ChangeRecord
       /\ [on |-> s, way |-> "down", rest |-> <<"Idle", "Loaded">>,
             at |-> "next"] \in ChangeRecord
  /\ ChangeRecord = [on : JpegSession \cup {NoSession}, way : {"up", "down"},
                     rest : Seq(OmxState), at : {"next", "sent", "wait", "failed"}]
<1>1. ASSUME ChangeOK, change.rest # << >>
      PROVE [change EXCEPT !.rest = Tail(@), !.at = "next"] \in ChangeRecord
  <2>1. Tail(change.rest) \in Seq(OmxState)
    BY <1>1, HeadTailProperties DEF ChangeOK
  <2> QED BY <1>1, <2>1 DEF ChangeOK, ChangeRecord
<1>2. ASSUME ChangeOK, NEW x \in {"next", "sent", "wait", "failed"}
      PROVE [change EXCEPT !.at = x] \in ChangeRecord
  BY <1>2 DEF ChangeOK, ChangeRecord
<1>3. {<<"Idle", "Executing">>, <<"Idle", "Loaded">>, << >>} \subseteq Seq(OmxState)
  BY DEF OmxState
<1>4. NoChange \in ChangeRecord
  BY <1>3 DEF NoChange, ChangeRecord
<1>5. ASSUME NEW s \in JpegSession
      PROVE /\ [on |-> s, way |-> "up", rest |-> <<"Idle", "Executing">>,
                  at |-> "next"] \in ChangeRecord
            /\ [on |-> s, way |-> "down", rest |-> <<"Idle", "Loaded">>,
                  at |-> "next"] \in ChangeRecord
  BY <1>3 DEF ChangeRecord
<1> QED BY <1>1, <1>2, <1>4, <1>5 DEF ChangeRecord

LEMMA PartsGiveType == TypeParts' => JpegTypeOK'
<1>1. SessionsOK' <=> session_j' \in [JpegSession ->
       [active : BOOLEAN, usable : BOOLEAN, config : BOOLEAN, encoding : BOOLEAN,
        error : BOOLEAN, pending : BOOLEAN, abort : {"none", "init", "done"},
        jobId : {0} \cup JpegJob, handles : Nat, woken : BOOLEAN,
        cb : {"idle", "remove", "handle", "post"}]]
  BY DEF SessionsOK, SessionRecord
<1>2. OmxOK' <=> omx' \in [JpegSession -> [state : OmxState, cmds : Seq(OmxState),
                              input : {0} \cup JpegJob, work : {0} \cup JpegJob]]
  BY DEF OmxOK, ComponentRecord
<1> QED BY <1>1, <1>2, Zenon DEF JpegTypeOK, TypeParts, JobsOK, QueuesOK, InProgressOK,
     ManagerOK, CallOK,
     ChangeOK, AnsweredOK, SpentOK

(* The numbers of the jobs there are.                                       *)
LEMMA JobNumbers ==
  ASSUME JpegTypeOK
  PROVE  /\ Len(jobs) \in Nat /\ DOMAIN jobs = 1..Len(jobs)
              /\ DOMAIN jobs \subseteq JpegJob
         /\ \A s : JobsOf(s) \subseteq JpegJob
<1>1. Len(jobs) \in Nat /\ DOMAIN jobs = 1..Len(jobs) /\ Len(jobs) <= MaxJobs
  BY LenProperties DEF JpegTypeOK
<1> QED BY <1>1, JpegAssumption DEF JpegJob, JobsOf

(* SendCommand leaves every variable its type.                              *)
LEMMA SendCommandTypes ==
  ASSUME JpegTypeOK, Places, Sessions, Change, SendCommand
  PROVE  JpegTypeOK'
<1>1. TypeParts
  BY PartsOfType
<1>2. JobsOK' /\ QueuesOK' /\ InProgressOK' /\ ManagerOK' /\ CallOK' /\ AnsweredOK'
        /\ SpentOK'
  BY <1>1 DEF TypeParts, SendCommand, JobsOK, QueuesOK, InProgressOK, ManagerOK,
       CallOK, AnsweredOK, SpentOK
<1>3. change.on \in JpegSession /\ Head(change.rest) \in OmxState /\ change.rest # << >>
  BY Actors, Positions, SessionTypes, HeadTailProperties,
       JpegAssumption DEF SendCommand, Sessions, Change
<1>4. ChangeOK'
  <2>1. [change EXCEPT !.at = "sent"]
        \in ChangeRecord
    BY <1>1, <1>3, ChangeTypes, JpegAssumption DEF TypeParts, ChangeOK
  <2>2. [change EXCEPT !.rest = Tail(@), !.at = "next"]
        \in ChangeRecord
    BY <1>1, <1>3, ChangeTypes, JpegAssumption DEF TypeParts, ChangeOK
  <2>3. \/ change' = change
        \/ change' = [change EXCEPT !.at = "sent"]
        \/ change' = [change EXCEPT !.rest = Tail(@), !.at = "next"]
    BY JpegAssumption, Positions DEF SendCommand, NextState
  <2> QED BY <1>1, <2>1, <2>2, <2>3 DEF TypeParts, ChangeOK, ChangeRecord
<1>5. SessionsOK'
  <2>1. [session_j EXCEPT ![change.on].pending = TRUE]
        \in [JpegSession -> SessionRecord]
    BY <1>1, <1>3, FieldTypes, SessionTypes, New DEF TypeParts, SessionsOK
  <2>2. \/ session_j' = session_j
        \/ session_j' = [session_j EXCEPT ![change.on].pending = TRUE]
    BY JpegAssumption, Positions DEF SendCommand, NextState
  <2> QED BY <1>1, <2>1, <2>2 DEF TypeParts, SessionsOK
<1>6. OmxOK'
  <2>1. [omx EXCEPT ![change.on].cmds = Append(@, Head(change.rest))]
        \in [JpegSession -> ComponentRecord]
    BY <1>1, <1>3, ComponentTypes, SessionTypes, New, AppendProperties DEF TypeParts,
         OmxOK, OmxState
  <2>2. \/ omx' = omx
        \/ omx' = [omx EXCEPT ![change.on].cmds = Append(@, Head(change.rest))]
    BY JpegAssumption, Positions DEF SendCommand, NextState
  <2> QED BY <1>1, <2>1, <2>2 DEF TypeParts, OmxOK
<1> HIDE DEF TypeParts
<1>7. TypeParts'
  BY <1>2, <1>3, <1>4, <1>5, <1>6 DEF TypeParts
<1> QED BY <1>7, PartsGiveType

(* CheckChange leaves every variable its type.                              *)
LEMMA CheckChangeTypes ==
  ASSUME JpegTypeOK, Places, Sessions, Change, CheckChange
  PROVE  JpegTypeOK'
<1>1. TypeParts
  BY PartsOfType
<1>2. JobsOK' /\ QueuesOK' /\ InProgressOK' /\ ManagerOK' /\ CallOK' /\ OmxOK'
        /\ AnsweredOK' /\ SpentOK'
  BY <1>1 DEF TypeParts, CheckChange, JobsOK, QueuesOK, InProgressOK, ManagerOK,
       CallOK, OmxOK, AnsweredOK, SpentOK
<1>3. change.on \in JpegSession /\ change.rest # << >>
  BY Actors, Positions, SessionTypes, HeadTailProperties,
       JpegAssumption DEF CheckChange, Sessions, Change
<1>4. ChangeOK'
  <2>1. [change EXCEPT !.at = "failed"]
        \in ChangeRecord
    BY <1>1, <1>3, ChangeTypes, JpegAssumption DEF TypeParts, ChangeOK
  <2>2. [change EXCEPT !.at = "wait"]
        \in ChangeRecord
    BY <1>1, <1>3, ChangeTypes, JpegAssumption DEF TypeParts, ChangeOK
  <2>3. [change EXCEPT !.rest = Tail(@), !.at = "next"]
        \in ChangeRecord
    BY <1>1, <1>3, ChangeTypes, JpegAssumption DEF TypeParts, ChangeOK
  <2>4. \/ change' = change
        \/ change' = [change EXCEPT !.at = "failed"]
        \/ change' = [change EXCEPT !.at = "wait"]
        \/ change' = [change EXCEPT !.rest = Tail(@), !.at = "next"]
    BY JpegAssumption, Positions DEF CheckChange, NextState
  <2> QED BY <1>1, <2>1, <2>2, <2>3, <2>4 DEF TypeParts, ChangeOK, ChangeRecord
<1>5. SessionsOK'
  <2>1. [session_j EXCEPT ![change.on].woken = FALSE]
        \in [JpegSession -> SessionRecord]
    BY <1>1, <1>3, FieldTypes, SessionTypes, New DEF TypeParts, SessionsOK
  <2>2. \/ session_j' = session_j
        \/ session_j' = [session_j EXCEPT ![change.on].woken = FALSE]
    BY JpegAssumption, Positions DEF CheckChange, NextState
  <2> QED BY <1>1, <2>1, <2>2 DEF TypeParts, SessionsOK
<1> HIDE DEF TypeParts
<1>6. TypeParts'
  BY <1>2, <1>3, <1>4, <1>5 DEF TypeParts
<1> QED BY <1>6, PartsGiveType

(* WakeChange leaves every variable its type.                               *)
LEMMA WakeChangeTypes ==
  ASSUME JpegTypeOK, Places, Sessions, Change, WakeChange
  PROVE  JpegTypeOK'
<1>1. TypeParts
  BY PartsOfType
<1>2. JobsOK' /\ QueuesOK' /\ InProgressOK' /\ ManagerOK' /\ CallOK' /\ SessionsOK'
        /\ OmxOK' /\ AnsweredOK' /\ SpentOK'
  BY <1>1 DEF TypeParts, WakeChange, JobsOK, QueuesOK, InProgressOK, ManagerOK, CallOK,
       SessionsOK, OmxOK, AnsweredOK, SpentOK
<1>3. change.rest # << >>
  BY Actors, Positions, SessionTypes, HeadTailProperties,
       JpegAssumption DEF WakeChange, Sessions, Change
<1>4. ChangeOK'
  <2>1. [change EXCEPT !.rest = Tail(@), !.at = "next"]
        \in ChangeRecord
    BY <1>1, <1>3, ChangeTypes, JpegAssumption DEF TypeParts, ChangeOK
  <2>2. \/ change' = change
        \/ change' = [change EXCEPT !.rest = Tail(@), !.at = "next"]
    BY JpegAssumption, Positions DEF WakeChange, NextState
  <2> QED BY <1>1, <2>1, <2>2 DEF TypeParts, ChangeOK, ChangeRecord
<1> HIDE DEF TypeParts
<1>5. TypeParts'
  BY <1>2, <1>3, <1>4 DEF TypeParts
<1> QED BY <1>5, PartsGiveType

(* SemWait leaves every variable its type.                                  *)
LEMMA SemWaitTypes ==
  ASSUME JpegTypeOK, Places, Sessions, Change, SemWait
  PROVE  JpegTypeOK'
<1>1. TypeParts
  BY PartsOfType
<1>2. JobsOK' /\ InProgressOK' /\ CallOK' /\ ChangeOK' /\ SessionsOK' /\ OmxOK'
        /\ AnsweredOK' /\ SpentOK'
  BY <1>1 DEF TypeParts, SemWait, JobsOK, InProgressOK, CallOK, ChangeOK, SessionsOK,
       OmxOK, AnsweredOK, SpentOK
<1>3. QueuesOK'
  BY <1>1, Actors, JpegAssumption, Positions, SessionTypes, JobNumbers,
       AppendProperties, SMTT(20) DEF TypeParts, SemWait, QueuesOK, JpegJob, Manager
<1>4. ManagerOK'
  BY <1>1, Actors, JpegAssumption, SMTT(20) DEF TypeParts, SemWait, ManagerOK, JpegJob,
       Manager
<1> HIDE DEF TypeParts
<1>5. TypeParts'
  BY <1>2, <1>3, <1>4 DEF TypeParts
<1> QED BY <1>5, PartsGiveType

(* CheckOngoing leaves every variable its type.                             *)
LEMMA CheckOngoingTypes ==
  ASSUME JpegTypeOK, Places, Sessions, Change, CheckOngoing
  PROVE  JpegTypeOK'
<1>1. TypeParts
  BY PartsOfType
<1>2. JobsOK' /\ QueuesOK' /\ InProgressOK' /\ CallOK' /\ ChangeOK' /\ SessionsOK'
        /\ OmxOK' /\ AnsweredOK' /\ SpentOK'
  BY <1>1 DEF TypeParts, CheckOngoing, JobsOK, QueuesOK, InProgressOK, CallOK,
       ChangeOK, SessionsOK, OmxOK, AnsweredOK, SpentOK
<1>3. ManagerOK'
  BY <1>1, Actors, JpegAssumption, SMTT(20) DEF TypeParts, CheckOngoing, ManagerOK,
       JpegJob, Manager
<1> HIDE DEF TypeParts
<1>4. TypeParts'
  BY <1>2, <1>3 DEF TypeParts
<1> QED BY <1>4, PartsGiveType

(* TakeJob leaves every variable its type.                                  *)
LEMMA TakeJobTypes ==
  ASSUME JpegTypeOK, Places, Sessions, Change, TakeJob
  PROVE  JpegTypeOK'
<1>1. TypeParts
  BY PartsOfType
<1>2. JobsOK' /\ InProgressOK' /\ CallOK' /\ ChangeOK' /\ OmxOK' /\ AnsweredOK'
        /\ SpentOK'
  BY <1>1 DEF TypeParts, TakeJob, JobsOK, InProgressOK, CallOK, ChangeOK, OmxOK,
       AnsweredOK, SpentOK
<1>3. job_queue # {} => Min(job_queue) \in job_queue /\ Min(job_queue) \in JpegJob
  BY <1>1, MinJob DEF TypeParts
<1>4. job_queue # {} => jobs[Min(job_queue)] \in JpegSession
  <2>1. job_queue \subseteq DOMAIN jobs
    BY DEF Places
  <2> QED BY <1>1, <1>3, <2>1, ElementOfSeq DEF TypeParts, JobsOK
<1>5. QueuesOK'
  BY <1>1, <1>3, <1>4, Actors, JpegAssumption, Positions, SessionTypes, JobNumbers,
       AppendProperties, SMTT(20) DEF TypeParts, TakeJob, QueuesOK, JpegJob, Manager
<1>6. ManagerOK'
  BY <1>1, <1>3, <1>4, Actors, JpegAssumption, SMTT(20) DEF TypeParts, TakeJob,
       ManagerOK, JpegJob, Manager
<1>7. SessionsOK'
  <2>1. CASE session_j' = session_j
    BY <1>1, <2>1 DEF TypeParts, SessionsOK
  <2>2. CASE job_queue # {} /\ session_j[jobs[Min(job_queue)]].handles # 0
    <3>1. session_j[jobs[Min(job_queue)]].handles - 1 \in Nat
      BY <1>3, <1>4, <2>2, SessionTypes
    <3>2. [session_j EXCEPT ![jobs[Min(job_queue)]].handles = @ - 1,
             ![jobs[Min(job_queue)]].jobId = Min(job_queue)]
             \in [JpegSession -> SessionRecord]
      BY <1>1, <1>3, <1>4, <2>2, <3>1, FieldTypes DEF TypeParts, SessionsOK
    <3> QED BY <2>2, <3>2 DEF TakeJob, SessionsOK
  <2> QED BY <2>1, <2>2 DEF TakeJob
<1> HIDE DEF TypeParts
<1>8. TypeParts'
  BY <1>2, <1>3, <1>4, <1>5, <1>6, <1>7 DEF TypeParts
<1> QED BY <1>8, PartsGiveType

(* EncodeSession leaves every variable its type.                            *)
LEMMA EncodeSessionTypes ==
  ASSUME JpegTypeOK, Places, Sessions, Change, EncodeSession
  PROVE  JpegTypeOK'
<1>1. TypeParts
  BY PartsOfType
<1>2. JobsOK' /\ QueuesOK' /\ InProgressOK' /\ CallOK' /\ OmxOK' /\ AnsweredOK'
        /\ SpentOK'
  BY <1>1 DEF TypeParts, EncodeSession, JobsOK, QueuesOK, InProgressOK, CallOK, OmxOK,
       AnsweredOK, SpentOK
<1>3. jobs[manager.job] \in JpegSession /\ manager.job \in JpegJob
        /\ p_session_inprogress \in JpegSession \cup {NoSession}
  BY Actors, Positions, SessionTypes, HeadTailProperties,
       JpegAssumption DEF EncodeSession, Sessions, Change
<1>4. ManagerOK'
  BY <1>1, <1>3, Actors, JpegAssumption, SMTT(20) DEF TypeParts, EncodeSession,
       ManagerOK, JpegJob, Manager, TakingDown, Configuring, ChangeStates
<1>5. ChangeOK'
  <2>1. [on |-> jobs[manager.job], way |-> "up", rest |-> <<"Idle", "Executing">>,
           at |-> "next"]
        \in ChangeRecord
    BY <1>1, <1>3, ChangeTypes, JpegAssumption DEF TypeParts, ChangeOK
  <2>2. p_session_inprogress # NoSession
          => [on |-> p_session_inprogress, way |-> "down", rest |-> <<"Idle",
          "Loaded">>, at |-> "next"]
        \in ChangeRecord
    BY <1>1, <1>3, ChangeTypes, JpegAssumption DEF TypeParts, ChangeOK
  <2>3. CASE session_j[jobs[manager.job]].config
    BY <1>1, <2>3 DEF EncodeSession, TypeParts, ChangeOK
  <2>4. CASE ~session_j[jobs[manager.job]].config /\ p_session_inprogress # NoSession
    BY <2>2, <2>4 DEF EncodeSession, TakingDown, ChangeStates, ChangeOK, ChangeRecord
  <2>5. CASE ~session_j[jobs[manager.job]].config /\ p_session_inprogress = NoSession
    BY <2>1, <2>5 DEF EncodeSession, Configuring, ChangeStates, ChangeOK, ChangeRecord
  <2> QED BY <2>3, <2>4, <2>5
<1>6. SessionsOK'
  <2>1. [session_j EXCEPT ![jobs[manager.job]].abort = "none",
           ![jobs[manager.job]].encoding = FALSE]
        \in [JpegSession -> SessionRecord]
    BY <1>1, <1>3, FieldTypes, SessionTypes, New DEF TypeParts, SessionsOK
  <2>2. \/ session_j' = session_j
        \/ session_j' = [session_j EXCEPT ![jobs[manager.job]].abort = "none",
              ![jobs[manager.job]].encoding = FALSE]
    BY JpegAssumption, Positions DEF EncodeSession, Manager, TakingDown, Configuring,
         ChangeStates
  <2> QED BY <1>1, <2>1, <2>2 DEF TypeParts, SessionsOK
<1> HIDE DEF TypeParts
<1>7. TypeParts'
  BY <1>2, <1>3, <1>4, <1>5, <1>6 DEF TypeParts
<1> QED BY <1>7, PartsGiveType

(* ClearInProgress leaves every variable its type.                          *)
LEMMA ClearInProgressTypes ==
  ASSUME JpegTypeOK, Places, Sessions, Change, ClearInProgress
  PROVE  JpegTypeOK'
<1>1. TypeParts
  BY PartsOfType
<1>2. JobsOK' /\ QueuesOK' /\ CallOK' /\ OmxOK' /\ AnsweredOK' /\ SpentOK'
  BY <1>1 DEF TypeParts, ClearInProgress, JobsOK, QueuesOK, CallOK, OmxOK, AnsweredOK,
       SpentOK
<1>3. jobs[manager.job] \in JpegSession /\ manager.job \in JpegJob
        /\ p_session_inprogress \in JpegSession
  BY Actors, Positions, SessionTypes, HeadTailProperties,
       JpegAssumption DEF ClearInProgress, Sessions, Change
<1>4. InProgressOK'
  BY <1>1, <1>3, Actors, JpegAssumption, SMTT(20) DEF TypeParts, ClearInProgress,
       InProgressOK, JpegJob, Manager, Configuring, ChangeStates
<1>5. ManagerOK'
  BY <1>1, <1>3, Actors, JpegAssumption, SMTT(20) DEF TypeParts, ClearInProgress,
       ManagerOK, JpegJob, Manager, Configuring, ChangeStates
<1>6. ChangeOK'
  <2>1. [on |-> jobs[manager.job], way |-> "up", rest |-> <<"Idle", "Executing">>,
           at |-> "next"]
        \in ChangeRecord
    BY <1>1, <1>3, ChangeTypes, JpegAssumption DEF TypeParts, ChangeOK
  <2>2. NoChange
        \in ChangeRecord
    BY <1>1, <1>3, ChangeTypes, JpegAssumption DEF TypeParts, ChangeOK
  <2>3. \/ change' = change
        \/ change' = [on |-> jobs[manager.job], way |-> "up", rest |-> <<"Idle",
              "Executing">>, at |-> "next"]
        \/ change' = NoChange
    BY JpegAssumption, Positions DEF ClearInProgress, Manager, Configuring, ChangeStates
  <2> QED BY <1>1, <2>1, <2>2, <2>3 DEF TypeParts, ChangeOK, ChangeRecord
<1>7. SessionsOK'
  <2>1. [session_j EXCEPT ![p_session_inprogress].config = FALSE]
        \in [JpegSession -> SessionRecord]
    BY <1>1, <1>3, FieldTypes, SessionTypes, New DEF TypeParts, SessionsOK
  <2>2. \/ session_j' = session_j
        \/ session_j' = [session_j EXCEPT ![p_session_inprogress].config = FALSE]
    BY JpegAssumption, Positions DEF ClearInProgress, Manager, Configuring, ChangeStates
  <2> QED BY <1>1, <2>1, <2>2 DEF TypeParts, SessionsOK
<1> HIDE DEF TypeParts
<1>8. TypeParts'
  BY <1>2, <1>3, <1>4, <1>5, <1>6, <1>7 DEF TypeParts
<1> QED BY <1>8, PartsGiveType

(* ConfigureForJob leaves every variable its type.                          *)
LEMMA ConfigureForJobTypes ==
  ASSUME JpegTypeOK, Places, Sessions, Change, ConfigureForJob
  PROVE  JpegTypeOK'
<1>1. TypeParts
  BY PartsOfType
<1>2. JobsOK' /\ QueuesOK' /\ CallOK' /\ OmxOK' /\ AnsweredOK' /\ SpentOK'
  BY <1>1 DEF TypeParts, ConfigureForJob, JobsOK, QueuesOK, CallOK, OmxOK, AnsweredOK,
       SpentOK
<1>3. jobs[manager.job] \in JpegSession /\ manager.job \in JpegJob
  BY Actors, Positions, SessionTypes, HeadTailProperties,
       JpegAssumption DEF ConfigureForJob, Sessions, Change
<1>4. InProgressOK'
  BY <1>1, <1>3, Actors, JpegAssumption, SMTT(20) DEF TypeParts, ConfigureForJob,
       InProgressOK, JpegJob, Manager, Configured
<1>5. ManagerOK'
  BY <1>1, <1>3, Actors, JpegAssumption, SMTT(20) DEF TypeParts, ConfigureForJob,
       ManagerOK, JpegJob, Manager, Configured
<1>6. ChangeOK'
  <2>1. NoChange
        \in ChangeRecord
    BY <1>1, <1>3, ChangeTypes, JpegAssumption DEF TypeParts, ChangeOK
  <2>2. \/ change' = change
        \/ change' = NoChange
    BY JpegAssumption, Positions DEF ConfigureForJob, Manager, Configured
  <2> QED BY <1>1, <2>1, <2>2 DEF TypeParts, ChangeOK, ChangeRecord
<1>7. SessionsOK'
  <2>1. [session_j EXCEPT ![jobs[manager.job]].config = TRUE]
        \in [JpegSession -> SessionRecord]
    BY <1>1, <1>3, FieldTypes, SessionTypes, New DEF TypeParts, SessionsOK
  <2>2. \/ session_j' = session_j
        \/ session_j' = [session_j EXCEPT ![jobs[manager.job]].config = TRUE]
    BY JpegAssumption, Positions DEF ConfigureForJob, Manager, Configured
  <2> QED BY <1>1, <2>1, <2>2 DEF TypeParts, SessionsOK
<1> HIDE DEF TypeParts
<1>8. TypeParts'
  BY <1>2, <1>3, <1>4, <1>5, <1>6, <1>7 DEF TypeParts
<1> QED BY <1>8, PartsGiveType

(* ConfigureJobParams leaves every variable its type.                       *)
LEMMA ConfigureJobParamsTypes ==
  ASSUME JpegTypeOK, Places, Sessions, Change, ConfigureJobParams
  PROVE  JpegTypeOK'
<1>1. TypeParts
  BY PartsOfType
<1>2. JobsOK' /\ QueuesOK' /\ InProgressOK' /\ CallOK' /\ ChangeOK' /\ OmxOK'
        /\ AnsweredOK'
  BY <1>1 DEF TypeParts, ConfigureJobParams, JobsOK, QueuesOK, InProgressOK, CallOK,
       ChangeOK, OmxOK, AnsweredOK
<1>3. jobs[manager.job] \in JpegSession /\ manager.job \in JpegJob
  BY Actors, Positions, SessionTypes, HeadTailProperties,
       JpegAssumption DEF ConfigureJobParams, Sessions, Change
<1>4. ManagerOK'
  BY <1>1, <1>3, Actors, JpegAssumption, SMTT(20) DEF TypeParts, ConfigureJobParams,
       ManagerOK, JpegJob, Manager, OmxFails
<1>5. SessionsOK'
  <2>1. [session_j EXCEPT ![jobs[manager.job]].encoding = TRUE]
        \in [JpegSession -> SessionRecord]
    BY <1>1, <1>3, FieldTypes, SessionTypes, New DEF TypeParts, SessionsOK
  <2>2. \/ session_j' = session_j
        \/ session_j' = [session_j EXCEPT ![jobs[manager.job]].encoding = TRUE]
    BY JpegAssumption, Positions DEF ConfigureJobParams, Manager, OmxFails
  <2> QED BY <1>1, <2>1, <2>2 DEF TypeParts, SessionsOK
<1>6. SpentOK'
  BY <1>1, <1>3, Actors, JpegAssumption, SMTT(20) DEF TypeParts, ConfigureJobParams,
       SpentOK, JpegJob, Manager, OmxFails
<1> HIDE DEF TypeParts
<1>7. TypeParts'
  BY <1>2, <1>3, <1>4, <1>5, <1>6 DEF TypeParts
<1> QED BY <1>7, PartsGiveType

(* EmptyBuffer leaves every variable its type.                              *)
LEMMA EmptyBufferTypes ==
  ASSUME JpegTypeOK, Places, Sessions, Change, EmptyBuffer
  PROVE  JpegTypeOK'
<1>1. TypeParts
  BY PartsOfType
<1>2. JobsOK' /\ QueuesOK' /\ InProgressOK' /\ CallOK' /\ ChangeOK' /\ SessionsOK'
        /\ AnsweredOK'
  BY <1>1 DEF TypeParts, EmptyBuffer, JobsOK, QueuesOK, InProgressOK, CallOK, ChangeOK,
       SessionsOK, AnsweredOK
<1>3. jobs[manager.job] \in JpegSession /\ manager.job \in JpegJob
  BY Actors, Positions, SessionTypes, HeadTailProperties,
       JpegAssumption DEF EmptyBuffer, Sessions, Change
<1>4. ManagerOK'
  BY <1>1, <1>3, Actors, JpegAssumption, SMTT(20) DEF TypeParts, EmptyBuffer,
       ManagerOK, JpegJob, Manager, OmxFails
<1>5. OmxOK'
  <2>1. [omx EXCEPT ![jobs[manager.job]].input = manager.job]
        \in [JpegSession -> ComponentRecord]
    BY <1>1, <1>3, ComponentTypes, SessionTypes, New, AppendProperties DEF TypeParts,
         OmxOK, OmxState
  <2>2. \/ omx' = omx
        \/ omx' = [omx EXCEPT ![jobs[manager.job]].input = manager.job]
    BY JpegAssumption, Positions DEF EmptyBuffer, Manager, OmxFails
  <2> QED BY <1>1, <2>1, <2>2 DEF TypeParts, OmxOK
<1>6. SpentOK'
  BY <1>1, <1>3, Actors, JpegAssumption, SMTT(20) DEF TypeParts, EmptyBuffer, SpentOK,
       JpegJob, Manager, OmxFails
<1> HIDE DEF TypeParts
<1>7. TypeParts'
  BY <1>2, <1>3, <1>4, <1>5, <1>6 DEF TypeParts
<1> QED BY <1>7, PartsGiveType

(* FillBuffer leaves every variable its type.                               *)
LEMMA FillBufferTypes ==
  ASSUME JpegTypeOK, Places, Sessions, Change, FillBuffer
  PROVE  JpegTypeOK'
<1>1. TypeParts
  BY PartsOfType
<1>2. JobsOK' /\ QueuesOK' /\ InProgressOK' /\ CallOK' /\ ChangeOK' /\ SessionsOK'
        /\ AnsweredOK'
  BY <1>1 DEF TypeParts, FillBuffer, JobsOK, QueuesOK, InProgressOK, CallOK, ChangeOK,
       SessionsOK, AnsweredOK
<1>3. jobs[manager.job] \in JpegSession /\ manager.job \in JpegJob
  BY Actors, Positions, SessionTypes, HeadTailProperties,
       JpegAssumption DEF FillBuffer, Sessions, Change
<1>4. ManagerOK'
  BY <1>1, <1>3, Actors, JpegAssumption, SMTT(20) DEF TypeParts, FillBuffer, ManagerOK,
       JpegJob, Manager, OmxFails
<1>5. OmxOK'
  <2>1. [omx EXCEPT ![jobs[manager.job]].work = omx[jobs[manager.job]].input]
        \in [JpegSession -> ComponentRecord]
    BY <1>1, <1>3, ComponentTypes, SessionTypes, New, AppendProperties DEF TypeParts,
         OmxOK, OmxState
  <2>2. \/ omx' = omx
        \/ omx' = [omx EXCEPT ![jobs[manager.job]].work = omx[jobs[manager.job]].input]
    BY JpegAssumption, Positions DEF FillBuffer, Manager, OmxFails
  <2> QED BY <1>1, <2>1, <2>2 DEF TypeParts, OmxOK
<1>6. SpentOK'
  BY <1>1, <1>3, Actors, JpegAssumption, SMTT(20) DEF TypeParts, FillBuffer, SpentOK,
       JpegJob, Manager, OmxFails
<1> HIDE DEF TypeParts
<1>7. TypeParts'
  BY <1>2, <1>3, <1>4, <1>5, <1>6 DEF TypeParts
<1> QED BY <1>7, PartsGiveType

(* FailJob leaves every variable its type.                                  *)
LEMMA FailJobTypes ==
  ASSUME JpegTypeOK, Places, Sessions, Change, FailJob
  PROVE  JpegTypeOK'
<1>1. TypeParts
  BY PartsOfType
<1>2. JobsOK' /\ InProgressOK' /\ CallOK' /\ ChangeOK' /\ OmxOK' /\ SpentOK'
  BY <1>1 DEF TypeParts, FailJob, JobsOK, InProgressOK, CallOK, ChangeOK, OmxOK, SpentOK
<1>3. jobs[manager.job] \in JpegSession /\ manager.job \in JpegJob
        /\ session_j[jobs[manager.job]].handles + 1 \in Nat
  BY Actors, Positions, SessionTypes, HeadTailProperties, JpegAssumption DEF FailJob,
       Sessions, Change
<1>4. QueuesOK'
  BY <1>1, <1>3, Actors, JpegAssumption, Positions, SessionTypes, JobNumbers,
       AppendProperties, SMTT(20) DEF TypeParts, FailJob, QueuesOK, JpegJob
<1>5. ManagerOK'
  BY <1>1, <1>3, Actors, JpegAssumption, SMTT(20) DEF TypeParts, FailJob, ManagerOK,
       JpegJob
<1>6. SessionsOK'
  <2>1. [session_j EXCEPT ![jobs[manager.job]].encoding = FALSE,
           ![jobs[manager.job]].handles = @ + 1]
        \in [JpegSession -> SessionRecord]
    BY <1>1, <1>3, FieldTypes, SessionTypes, New DEF TypeParts, SessionsOK
  <2>2. \/ session_j' = session_j
        \/ session_j' = [session_j EXCEPT ![jobs[manager.job]].encoding = FALSE,
              ![jobs[manager.job]].handles = @ + 1]
    BY JpegAssumption, Positions DEF FailJob
  <2> QED BY <1>1, <2>1, <2>2 DEF TypeParts, SessionsOK
<1>7. AnsweredOK'
  BY <1>1, <1>3, Actors, JpegAssumption, SessionTypes, SMTT(20) DEF TypeParts, FailJob,
       AnsweredOK, JpegJob
<1> HIDE DEF TypeParts
<1>8. TypeParts'
  BY <1>2, <1>3, <1>4, <1>5, <1>6, <1>7 DEF TypeParts
<1> QED BY <1>8, PartsGiveType

(* CommandDone leaves every variable its type.                              *)
LEMMA CommandDoneTypes ==
  ASSUME JpegTypeOK, Places, Sessions, Change, NEW s \in JpegSession, CommandDone(s)
  PROVE  JpegTypeOK'
<1>1. TypeParts
  BY PartsOfType
<1>2. JobsOK' /\ QueuesOK' /\ InProgressOK' /\ ManagerOK' /\ CallOK' /\ ChangeOK'
        /\ AnsweredOK' /\ SpentOK'
  BY <1>1 DEF TypeParts, CommandDone, JobsOK, QueuesOK, InProgressOK, ManagerOK,
       CallOK, ChangeOK, AnsweredOK, SpentOK
<1>3. Head(omx[s].cmds) \in OmxState /\ Tail(omx[s].cmds) \in Seq(OmxState)
  BY Actors, Positions, SessionTypes, HeadTailProperties,
       JpegAssumption DEF CommandDone, Sessions, Change
<1>4. SessionsOK'
  <2>1. [session_j EXCEPT ![s].abort = "done", ![s].woken = TRUE]
        \in [JpegSession -> SessionRecord]
    BY <1>1, <1>3, FieldTypes, SessionTypes, New DEF TypeParts, SessionsOK
  <2>2. [session_j EXCEPT ![s].pending = FALSE, ![s].woken = TRUE]
        \in [JpegSession -> SessionRecord]
    BY <1>1, <1>3, FieldTypes, SessionTypes, New DEF TypeParts, SessionsOK
  <2>3. \/ session_j' = session_j
        \/ session_j' = [session_j EXCEPT ![s].abort = "done", ![s].woken = TRUE]
        \/ session_j' = [session_j EXCEPT ![s].pending = FALSE, ![s].woken = TRUE]
    BY JpegAssumption, Positions DEF CommandDone, Aborted
  <2> QED BY <1>1, <2>1, <2>2, <2>3 DEF TypeParts, SessionsOK
<1>5. OmxOK'
  <2>1. [omx EXCEPT ![s].state = Head(omx[s].cmds), ![s].cmds = Tail(@),
           ![s].input = IF Head(omx[s].cmds) = "Idle" THEN 0 ELSE @,
           ![s].work = IF Head(omx[s].cmds) = "Idle" THEN 0 ELSE @]
        \in [JpegSession -> ComponentRecord]
    BY <1>1, <1>3, ComponentTypes, SessionTypes, New, AppendProperties DEF TypeParts,
         OmxOK, OmxState
  <2>2. \/ omx' = omx
        \/ omx' = [omx EXCEPT ![s].state = Head(omx[s].cmds), ![s].cmds = Tail(@),
              ![s].input = IF Head(omx[s].cmds) = "Idle" THEN 0 ELSE @,
              ![s].work = IF Head(omx[s].cmds) = "Idle" THEN 0 ELSE @]
    BY JpegAssumption, Positions DEF CommandDone, Aborted
  <2> QED BY <1>1, <2>1, <2>2 DEF TypeParts, OmxOK
<1> HIDE DEF TypeParts
<1>6. TypeParts'
  BY <1>2, <1>3, <1>4, <1>5 DEF TypeParts
<1> QED BY <1>6, PartsGiveType

(* OmxError leaves every variable its type.                                 *)
LEMMA OmxErrorTypes ==
  ASSUME JpegTypeOK, Places, Sessions, Change, NEW s \in JpegSession, OmxError(s)
  PROVE  JpegTypeOK'
<1>1. TypeParts
  BY PartsOfType
<1>2. JobsOK' /\ QueuesOK' /\ InProgressOK' /\ ManagerOK' /\ CallOK' /\ ChangeOK'
  BY <1>1 DEF TypeParts, OmxError, JobsOK, QueuesOK, InProgressOK, ManagerOK, CallOK,
       ChangeOK
<1>3. omx[s].cmds # << >> => Tail(omx[s].cmds) \in Seq(OmxState)
  BY Actors, Positions, SessionTypes, HeadTailProperties, JpegAssumption DEF OmxError,
       Sessions, Change
<1>4. SessionsOK'
  <2>1. [session_j EXCEPT ![s].abort = "done", ![s].woken = TRUE]
        \in [JpegSession -> SessionRecord]
    BY <1>1, <1>3, FieldTypes, SessionTypes, New DEF TypeParts, SessionsOK
  <2>2. [session_j EXCEPT ![s].error = TRUE, ![s].woken = TRUE, ![s].cb = "remove"]
        \in [JpegSession -> SessionRecord]
    BY <1>1, <1>3, FieldTypes, SessionTypes, New DEF TypeParts, SessionsOK
  <2>3. [session_j EXCEPT ![s].error = TRUE, ![s].woken = TRUE]
        \in [JpegSession -> SessionRecord]
    BY <1>1, <1>3, FieldTypes, SessionTypes, New DEF TypeParts, SessionsOK
  <2>4. \/ session_j' = session_j
        \/ session_j' = [session_j EXCEPT ![s].abort = "done", ![s].woken = TRUE]
        \/ session_j' = [session_j EXCEPT ![s].error = TRUE, ![s].woken = TRUE,
              ![s].cb = "remove"]
        \/ session_j' = [session_j EXCEPT ![s].error = TRUE, ![s].woken = TRUE]
    BY JpegAssumption, Positions DEF OmxError, Aborted, OmxFails
  <2> QED BY <1>1, <2>1, <2>2, <2>3, <2>4 DEF TypeParts, SessionsOK
<1>5. OmxOK'
  <2>1. omx[s].cmds # << >> => [omx EXCEPT ![s].cmds = Tail(@)]
        \in [JpegSession -> ComponentRecord]
    BY <1>1, <1>3, ComponentTypes, SessionTypes, New, AppendProperties DEF TypeParts,
         OmxOK, OmxState
  <2>2. [omx EXCEPT ![s].input = 0, ![s].work = 0]
        \in [JpegSession -> ComponentRecord]
    BY <1>1, <1>3, ComponentTypes, SessionTypes, New, AppendProperties DEF TypeParts,
         OmxOK, OmxState
  <2>3. \/ omx' = omx
        \/ omx[s].cmds # << >> /\ omx' = [omx EXCEPT ![s].cmds = Tail(@)]
        \/ omx' = [omx EXCEPT ![s].input = 0, ![s].work = 0]
    BY JpegAssumption, Positions DEF OmxError, Aborted, OmxFails
  <2> QED BY <1>1, <2>1, <2>2, <2>3 DEF TypeParts, OmxOK
<1>6. AnsweredOK'
  BY <1>1, <1>3, Actors, JpegAssumption, SessionTypes, SMTT(20) DEF TypeParts,
       OmxError, AnsweredOK, JpegJob, Aborted, OmxFails
<1>7. SpentOK'
  BY <1>1, <1>3, Actors, JpegAssumption, SMTT(20) DEF TypeParts, OmxError, SpentOK,
       JpegJob, Aborted, OmxFails
<1> HIDE DEF TypeParts
<1>8. TypeParts'
  BY <1>2, <1>3, <1>4, <1>5, <1>6, <1>7 DEF TypeParts
<1> QED BY <1>8, PartsGiveType

(* FillBufferDone leaves every variable its type.                           *)
LEMMA FillBufferDoneTypes ==
  ASSUME JpegTypeOK, Places, Sessions, Change, NEW s \in JpegSession, FillBufferDone(s)
  PROVE  JpegTypeOK'
<1>1. TypeParts
  BY PartsOfType
<1>2. JobsOK' /\ QueuesOK' /\ InProgressOK' /\ ManagerOK' /\ CallOK' /\ ChangeOK'
        /\ SpentOK'
  BY <1>1 DEF TypeParts, FillBufferDone, JobsOK, QueuesOK, InProgressOK, ManagerOK,
       CallOK, ChangeOK, SpentOK
<1>3. SessionsOK'
  <2>1. [session_j EXCEPT ![s].cb = "remove"]
        \in [JpegSession -> SessionRecord]
    BY <1>1, FieldTypes, SessionTypes, New DEF TypeParts, SessionsOK
  <2>2. \/ session_j' = session_j
        \/ session_j' = [session_j EXCEPT ![s].cb = "remove"]
    BY JpegAssumption, Positions DEF FillBufferDone
  <2> QED BY <1>1, <2>1, <2>2 DEF TypeParts, SessionsOK
<1>4. OmxOK'
  <2>1. [omx EXCEPT ![s].input = 0, ![s].work = 0]
        \in [JpegSession -> ComponentRecord]
    BY <1>1, ComponentTypes, SessionTypes, New, AppendProperties DEF TypeParts, OmxOK,
         OmxState
  <2>2. \/ omx' = omx
        \/ omx' = [omx EXCEPT ![s].input = 0, ![s].work = 0]
    BY JpegAssumption, Positions DEF FillBufferDone
  <2> QED BY <1>1, <2>1, <2>2 DEF TypeParts, OmxOK
<1>5. AnsweredOK'
  BY <1>1, Actors, JpegAssumption, SessionTypes, SMTT(20) DEF TypeParts,
       FillBufferDone, AnsweredOK, JpegJob
<1> HIDE DEF TypeParts
<1>6. TypeParts'
  BY <1>2, <1>3, <1>4, <1>5 DEF TypeParts
<1> QED BY <1>6, PartsGiveType

(* JobDone leaves every variable its type.                                  *)
LEMMA JobDoneTypes ==
  ASSUME JpegTypeOK, Places, Sessions, Change, NEW s \in JpegSession, JobDone(s)
  PROVE  JpegTypeOK'
<1>1. TypeParts
  BY PartsOfType
<1>2. JobsOK' /\ InProgressOK' /\ ManagerOK' /\ CallOK' /\ ChangeOK' /\ OmxOK'
        /\ AnsweredOK' /\ SpentOK'
  BY <1>1 DEF TypeParts, JobDone, JobsOK, InProgressOK, ManagerOK, CallOK, ChangeOK,
       OmxOK, AnsweredOK, SpentOK
<1>3. session_j[s].handles + 1 \in Nat
  BY Actors, Positions, SessionTypes, HeadTailProperties, JpegAssumption DEF JobDone,
       Sessions, Change
<1>4. QueuesOK'
  BY <1>1, <1>3, Actors, JpegAssumption, Positions, SessionTypes, JobNumbers,
       AppendProperties, SMTT(20) DEF TypeParts, JobDone, QueuesOK, JpegJob
<1>5. SessionsOK'
  <2>1. [session_j EXCEPT ![s].cb = "handle", ![s].encoding = FALSE]
        \in [JpegSession -> SessionRecord]
    BY <1>1, <1>3, FieldTypes, SessionTypes, New DEF TypeParts, SessionsOK
  <2>2. [session_j EXCEPT ![s].cb = "post", ![s].handles = @ + 1]
        \in [JpegSession -> SessionRecord]
    BY <1>1, <1>3, FieldTypes, SessionTypes, New DEF TypeParts, SessionsOK
  <2>3. [session_j EXCEPT ![s].cb = "idle"]
        \in [JpegSession -> SessionRecord]
    BY <1>1, <1>3, FieldTypes, SessionTypes, New DEF TypeParts, SessionsOK
  <2>4. \/ session_j' = session_j
        \/ session_j' = [session_j EXCEPT ![s].cb = "handle", ![s].encoding = FALSE]
        \/ session_j' = [session_j EXCEPT ![s].cb = "post", ![s].handles = @ + 1]
        \/ session_j' = [session_j EXCEPT ![s].cb = "idle"]
    BY JpegAssumption, Positions DEF JobDone
  <2> QED BY <1>1, <2>1, <2>2, <2>3, <2>4 DEF TypeParts, SessionsOK
<1> HIDE DEF TypeParts
<1>6. TypeParts'
  BY <1>2, <1>3, <1>4, <1>5 DEF TypeParts
<1> QED BY <1>6, PartsGiveType

(* ConfigureNew leaves every variable its type.                             *)
LEMMA ConfigureNewTypes ==
  ASSUME JpegTypeOK, Places, Sessions, Change, ConfigureNew
  PROVE  JpegTypeOK'
<1>1. TypeParts
  BY PartsOfType
<1>2. JobsOK' /\ QueuesOK' /\ InProgressOK' /\ ManagerOK' /\ OmxOK' /\ AnsweredOK'
        /\ SpentOK'
  BY <1>1 DEF TypeParts, ConfigureNew, JobsOK, QueuesOK, InProgressOK, ManagerOK,
       OmxOK, AnsweredOK, SpentOK
<1>3. call.sess \in JpegSession
  BY Actors, Positions, SessionTypes, HeadTailProperties,
       JpegAssumption DEF ConfigureNew, Sessions, Change
<1>4. CallOK'
  BY <1>1, <1>3, Actors, JpegAssumption, JobNumbers, SMTT(20) DEF TypeParts,
       ConfigureNew, CallOK, JpegJob, Call, CallReturns, Configuring, ChangeStates
<1>5. ChangeOK'
  <2>1. [on |-> call.sess, way |-> "up", rest |-> <<"Idle", "Executing">>,
           at |-> "next"]
        \in ChangeRecord
    BY <1>1, <1>3, ChangeTypes, JpegAssumption DEF TypeParts, ChangeOK
  <2>2. \/ change' = change
        \/ change' = [on |-> call.sess, way |-> "up", rest |-> <<"Idle", "Executing">>,
              at |-> "next"]
    BY JpegAssumption, Positions DEF ConfigureNew, Call, CallReturns, Configuring,
         ChangeStates
  <2> QED BY <1>1, <2>1, <2>2 DEF TypeParts, ChangeOK, ChangeRecord
<1>6. SessionsOK'
  <2>1. [session_j EXCEPT ![call.sess].usable = TRUE]
        \in [JpegSession -> SessionRecord]
    BY <1>1, <1>3, FieldTypes, SessionTypes, New DEF TypeParts, SessionsOK
  <2>2. \/ session_j' = session_j
        \/ session_j' = [session_j EXCEPT ![call.sess].usable = TRUE]
    BY JpegAssumption, Positions DEF ConfigureNew, Call, CallReturns, Configuring,
         ChangeStates
  <2> QED BY <1>1, <2>1, <2>2 DEF TypeParts, SessionsOK
<1> HIDE DEF TypeParts
<1>7. TypeParts'
  BY <1>2, <1>3, <1>4, <1>5, <1>6 DEF TypeParts
<1> QED BY <1>7, PartsGiveType

(* SessionCreated leaves every variable its type.                           *)
LEMMA SessionCreatedTypes ==
  ASSUME JpegTypeOK, Places, Sessions, Change, SessionCreated
  PROVE  JpegTypeOK'
<1>1. TypeParts
  BY PartsOfType
<1>2. JobsOK' /\ QueuesOK' /\ ManagerOK' /\ OmxOK' /\ AnsweredOK' /\ SpentOK'
  BY <1>1 DEF TypeParts, SessionCreated, JobsOK, QueuesOK, ManagerOK, OmxOK,
       AnsweredOK, SpentOK
<1>3. call.sess \in JpegSession
  BY Actors, Positions, SessionTypes, HeadTailProperties,
       JpegAssumption DEF SessionCreated, Sessions, Change
<1>4. InProgressOK'
  BY <1>1, <1>3, Actors, JpegAssumption, SMTT(20) DEF TypeParts, SessionCreated,
       InProgressOK, JpegJob, CallReturns
<1>5. CallOK'
  BY <1>1, <1>3, Actors, JpegAssumption, JobNumbers, SMTT(20) DEF TypeParts,
       SessionCreated, CallOK, JpegJob, CallReturns
<1>6. ChangeOK'
  <2>1. NoChange
        \in ChangeRecord
    BY <1>1, <1>3, ChangeTypes, JpegAssumption DEF TypeParts, ChangeOK
  <2>2. \/ change' = change
        \/ change' = NoChange
    BY JpegAssumption, Positions DEF SessionCreated, CallReturns
  <2> QED BY <1>1, <2>1, <2>2 DEF TypeParts, ChangeOK, ChangeRecord
<1>7. SessionsOK'
  <2>1. [session_j EXCEPT ![call.sess].config = TRUE, ![call.sess].usable = TRUE]
        \in [JpegSession -> SessionRecord]
    BY <1>1, <1>3, FieldTypes, SessionTypes, New DEF TypeParts, SessionsOK
  <2>2. \/ session_j' = session_j
        \/ session_j' = [session_j EXCEPT ![call.sess].config = TRUE,
              ![call.sess].usable = TRUE]
    BY JpegAssumption, Positions DEF SessionCreated, CallReturns
  <2> QED BY <1>1, <2>1, <2>2 DEF TypeParts, SessionsOK
<1> HIDE DEF TypeParts
<1>8. TypeParts'
  BY <1>2, <1>3, <1>4, <1>5, <1>6, <1>7 DEF TypeParts
<1> QED BY <1>8, PartsGiveType

(* SemPost leaves every variable its type.                                  *)
LEMMA SemPostTypes ==
  ASSUME JpegTypeOK, Places, Sessions, Change, SemPost
  PROVE  JpegTypeOK'
<1>1. TypeParts
  BY PartsOfType
<1>2. JobsOK' /\ InProgressOK' /\ ManagerOK' /\ ChangeOK' /\ SessionsOK' /\ OmxOK'
        /\ AnsweredOK' /\ SpentOK'
  BY <1>1 DEF TypeParts, SemPost, JobsOK, InProgressOK, ManagerOK, ChangeOK,
       SessionsOK, OmxOK, AnsweredOK, SpentOK
<1>3. QueuesOK'
  BY <1>1, Actors, JpegAssumption, Positions, SessionTypes, JobNumbers,
       AppendProperties, SMTT(20) DEF TypeParts, SemPost, QueuesOK, JpegJob, CallReturns
<1>4. CallOK'
  BY <1>1, Actors, JpegAssumption, JobNumbers, SMTT(20) DEF TypeParts, SemPost, CallOK,
       JpegJob, CallReturns
<1> HIDE DEF TypeParts
<1>5. TypeParts'
  BY <1>2, <1>3, <1>4 DEF TypeParts
<1> QED BY <1>5, PartsGiveType

(* AbortJpegJob leaves every variable its type.                             *)
LEMMA AbortJpegJobTypes ==
  ASSUME JpegTypeOK, Places, Sessions, Change, AbortJpegJob
  PROVE  JpegTypeOK'
<1>1. TypeParts
  BY PartsOfType
<1>2. JobsOK' /\ InProgressOK' /\ ManagerOK' /\ ChangeOK' /\ SessionsOK' /\ OmxOK'
        /\ AnsweredOK' /\ SpentOK'
  BY <1>1 DEF TypeParts, AbortJpegJob, JobsOK, InProgressOK, ManagerOK, ChangeOK,
       SessionsOK, OmxOK, AnsweredOK, SpentOK
<1>3. QueuesOK'
  <2>1. call.job \in JpegJob
    BY Positions DEF AbortJpegJob, Places
  <2>2. /\ job_queue' \subseteq job_queue /\ ongoing_job_q' \subseteq ongoing_job_q
        /\ job_sem' = job_sem /\ withdrawn' \subseteq withdrawn \cup {call.job}
    BY DEF AbortJpegJob
  <2> QED BY <1>1, <2>1, <2>2 DEF TypeParts, QueuesOK
<1>4. CallOK'
  BY <1>1, Actors, JpegAssumption, JobNumbers, SMTT(20) DEF TypeParts, AbortJpegJob,
       CallOK, JpegJob, Call, CallReturns
<1> HIDE DEF TypeParts
<1>5. TypeParts'
  BY <1>2, <1>3, <1>4 DEF TypeParts
<1> QED BY <1>5, PartsGiveType

(* DestroyJpegSession leaves every variable its type.                       *)
LEMMA DestroyJpegSessionTypes ==
  ASSUME JpegTypeOK, Places, Sessions, Change, DestroyJpegSession
  PROVE  JpegTypeOK'
<1>1. TypeParts
  BY PartsOfType
<1>2. JobsOK' /\ InProgressOK' /\ ManagerOK' /\ ChangeOK' /\ SessionsOK' /\ OmxOK'
        /\ AnsweredOK' /\ SpentOK'
  BY <1>1 DEF TypeParts, DestroyJpegSession, JobsOK, InProgressOK, ManagerOK, ChangeOK,
       SessionsOK, OmxOK, AnsweredOK, SpentOK
<1>3. QueuesOK'
  BY <1>1, Actors, JpegAssumption, Positions, SessionTypes, JobNumbers,
       AppendProperties, SMTT(20) DEF TypeParts, DestroyJpegSession, QueuesOK, JpegJob,
       Call, JobsOf
<1>4. CallOK'
  BY <1>1, Actors, JpegAssumption, JobNumbers, SMTT(20) DEF TypeParts,
       DestroyJpegSession, CallOK, JpegJob, Call, JobsOf
<1> HIDE DEF TypeParts
<1>5. TypeParts'
  BY <1>2, <1>3, <1>4 DEF TypeParts
<1> QED BY <1>5, PartsGiveType

(* SessionAbort leaves every variable its type.                             *)
LEMMA SessionAbortTypes ==
  ASSUME JpegTypeOK, Places, Sessions, Change, SessionAbort
  PROVE  JpegTypeOK'
<1>1. TypeParts
  BY PartsOfType
<1>2. JobsOK' /\ InProgressOK' /\ ManagerOK' /\ AnsweredOK' /\ SpentOK'
  BY <1>1 DEF TypeParts, SessionAbort, JobsOK, InProgressOK, ManagerOK, AnsweredOK,
       SpentOK
<1>3. call.sess \in JpegSession
  BY Actors, Positions, SessionTypes, HeadTailProperties,
       JpegAssumption DEF SessionAbort, Sessions, Change
<1>4. QueuesOK'
  BY <1>1, <1>3, Actors, JpegAssumption, Positions, SessionTypes, JobNumbers,
       AppendProperties, SMTT(20) DEF TypeParts, SessionAbort, QueuesOK, JpegJob,
       Halted, Call, CallReturns, TakingDown, ChangeStates
<1>5. CallOK'
  BY <1>1, <1>3, Actors, JpegAssumption, JobNumbers, SMTT(20) DEF TypeParts,
       SessionAbort, CallOK, JpegJob, Halted, Call, CallReturns, TakingDown,
       ChangeStates
<1>6. ChangeOK'
  <2>1. [on |-> call.sess, way |-> "down", rest |-> <<"Idle", "Loaded">>, at |-> "next"]
        \in ChangeRecord
    BY <1>1, <1>3, ChangeTypes, JpegAssumption DEF TypeParts, ChangeOK
  <2>2. \/ change' = change
        \/ change' = [on |-> call.sess, way |-> "down", rest |-> <<"Idle", "Loaded">>,
              at |-> "next"]
    BY JpegAssumption, Positions DEF SessionAbort, Halted, Call, CallReturns,
         TakingDown, ChangeStates
  <2> QED BY <1>1, <2>1, <2>2 DEF TypeParts, ChangeOK, ChangeRecord
<1>7. SessionsOK'
  <2>1. [session_j EXCEPT ![call.sess].abort = "init", ![call.sess].pending = TRUE]
        \in [JpegSession -> SessionRecord]
    BY <1>1, <1>3, FieldTypes, SessionTypes, New DEF TypeParts, SessionsOK
  <2>2. [session_j EXCEPT ![call.sess].abort = "done"]
        \in [JpegSession -> SessionRecord]
    BY <1>1, <1>3, FieldTypes, SessionTypes, New DEF TypeParts, SessionsOK
  <2>3. \/ session_j' = session_j
        \/ session_j' = [session_j EXCEPT ![call.sess].abort = "init",
              ![call.sess].pending = TRUE]
        \/ session_j' = [session_j EXCEPT ![call.sess].abort = "done"]
    BY JpegAssumption, Positions DEF SessionAbort, Halted, Call, CallReturns,
         TakingDown, ChangeStates
  <2> QED BY <1>1, <2>1, <2>2, <2>3 DEF TypeParts, SessionsOK
<1>8. OmxOK'
  <2>1. [omx EXCEPT ![call.sess].cmds = Append(@, "Idle")]
        \in [JpegSession -> ComponentRecord]
    BY <1>1, <1>3, ComponentTypes, SessionTypes, New, AppendProperties DEF TypeParts,
         OmxOK, OmxState
  <2>2. \/ omx' = omx
        \/ omx' = [omx EXCEPT ![call.sess].cmds = Append(@, "Idle")]
    BY JpegAssumption, Positions DEF SessionAbort, Halted, Call, CallReturns,
         TakingDown, ChangeStates
  <2> QED BY <1>1, <2>1, <2>2 DEF TypeParts, OmxOK
<1> HIDE DEF TypeParts
<1>9. TypeParts'
  BY <1>2, <1>3, <1>4, <1>5, <1>6, <1>7, <1>8 DEF TypeParts
<1> QED BY <1>9, PartsGiveType

(* SessionAborted leaves every variable its type.                           *)
LEMMA SessionAbortedTypes ==
  ASSUME JpegTypeOK, Places, Sessions, Change, SessionAborted
  PROVE  JpegTypeOK'
<1>1. TypeParts
  BY PartsOfType
<1>2. JobsOK' /\ InProgressOK' /\ ManagerOK' /\ SessionsOK' /\ OmxOK' /\ AnsweredOK'
        /\ SpentOK'
  BY <1>1 DEF TypeParts, SessionAborted, JobsOK, InProgressOK, ManagerOK, SessionsOK,
       OmxOK, AnsweredOK, SpentOK
<1>3. call.sess \in JpegSession
  BY Actors, Positions, SessionTypes, HeadTailProperties,
       JpegAssumption DEF SessionAborted, Sessions, Change
<1>4. QueuesOK'
  BY <1>1, <1>3, Actors, JpegAssumption, Positions, SessionTypes, JobNumbers,
       AppendProperties, SMTT(20) DEF TypeParts, SessionAborted, QueuesOK, JpegJob,
       Halted, Call, CallReturns, TakingDown, ChangeStates
<1>5. CallOK'
  BY <1>1, <1>3, Actors, JpegAssumption, JobNumbers, SMTT(20) DEF TypeParts,
       SessionAborted, CallOK, JpegJob, Halted, Call, CallReturns, TakingDown,
       ChangeStates
<1>6. ChangeOK'
  <2>1. [on |-> call.sess, way |-> "down", rest |-> <<"Idle", "Loaded">>, at |-> "next"]
        \in ChangeRecord
    BY <1>1, <1>3, ChangeTypes, JpegAssumption DEF TypeParts, ChangeOK
  <2>2. \/ change' = change
        \/ change' = [on |-> call.sess, way |-> "down", rest |-> <<"Idle", "Loaded">>,
              at |-> "next"]
    BY JpegAssumption, Positions DEF SessionAborted, Halted, Call, CallReturns,
         TakingDown, ChangeStates
  <2> QED BY <1>1, <2>1, <2>2 DEF TypeParts, ChangeOK, ChangeRecord
<1> HIDE DEF TypeParts
<1>7. TypeParts'
  BY <1>2, <1>3, <1>4, <1>5, <1>6 DEF TypeParts
<1> QED BY <1>7, PartsGiveType

(* FreeSession leaves every variable its type.                              *)
LEMMA FreeSessionTypes ==
  ASSUME JpegTypeOK, Places, Sessions, Change, FreeSession
  PROVE  JpegTypeOK'
<1>1. TypeParts
  BY PartsOfType
<1>2. JobsOK' /\ ManagerOK' /\ AnsweredOK' /\ SpentOK'
  BY <1>1 DEF TypeParts, FreeSession, JobsOK, ManagerOK, AnsweredOK, SpentOK
<1>3. call.sess \in JpegSession
  BY Actors, Positions, SessionTypes, HeadTailProperties,
       JpegAssumption DEF FreeSession, Sessions, Change
<1>4. QueuesOK'
  BY <1>1, <1>3, Actors, JpegAssumption, Positions, SessionTypes, JobNumbers,
       AppendProperties, SMTT(20) DEF TypeParts, FreeSession, QueuesOK, JpegJob, Call,
       JobsOf
<1>5. InProgressOK'
  BY <1>1, <1>3, Actors, JpegAssumption, SMTT(20) DEF TypeParts, FreeSession,
       InProgressOK, JpegJob, Call, JobsOf
<1>6. CallOK'
  BY <1>1, <1>3, Actors, JpegAssumption, JobNumbers, SMTT(20) DEF TypeParts,
       FreeSession, CallOK, JpegJob, Call, JobsOf
<1>7. ChangeOK'
  <2>1. NoChange
        \in ChangeRecord
    BY <1>1, <1>3, ChangeTypes, JpegAssumption DEF TypeParts, ChangeOK
  <2>2. \/ change' = change
        \/ change' = NoChange
    BY JpegAssumption, Positions DEF FreeSession, Call, JobsOf
  <2> QED BY <1>1, <2>1, <2>2 DEF TypeParts, ChangeOK, ChangeRecord
<1>8. SessionsOK'
  <2>1. [session_j EXCEPT ![call.sess] = NewSession]
        \in [JpegSession -> SessionRecord]
    BY <1>1, <1>3, FieldTypes, SessionTypes, New DEF TypeParts, SessionsOK
  <2>2. \/ session_j' = session_j
        \/ session_j' = [session_j EXCEPT ![call.sess] = NewSession]
    BY JpegAssumption, Positions DEF FreeSession, Call, JobsOf
  <2> QED BY <1>1, <2>1, <2>2 DEF TypeParts, SessionsOK
<1>9. OmxOK'
  <2>1. [omx EXCEPT ![call.sess] = NoComponent]
        \in [JpegSession -> ComponentRecord]
    BY <1>1, <1>3, ComponentTypes, SessionTypes, New, AppendProperties DEF TypeParts,
         OmxOK, OmxState
  <2>2. \/ omx' = omx
        \/ omx' = [omx EXCEPT ![call.sess] = NoComponent]
    BY JpegAssumption, Positions DEF FreeSession, Call, JobsOf
  <2> QED BY <1>1, <2>1, <2>2 DEF TypeParts, OmxOK
<1> HIDE DEF TypeParts
<1>10. TypeParts'
  BY <1>2, <1>3, <1>4, <1>5, <1>6, <1>7, <1>8, <1>9 DEF TypeParts
<1> QED BY <1>10, PartsGiveType

(* CreateSession leaves every variable its type.                            *)
LEMMA CreateSessionTypes ==
  ASSUME JpegTypeOK, Places, Sessions, Change, NEW s \in JpegSession, CreateSession(s)
  PROVE  JpegTypeOK'
<1>1. TypeParts
  BY PartsOfType
<1>2. JobsOK' /\ QueuesOK' /\ InProgressOK' /\ ManagerOK' /\ ChangeOK' /\ AnsweredOK'
  BY <1>1 DEF TypeParts, CreateSession, JobsOK, QueuesOK, InProgressOK, ManagerOK,
       ChangeOK, AnsweredOK
<1>3. CallOK'
  BY <1>1, Actors, JpegAssumption, JobNumbers, SMTT(20) DEF TypeParts, CreateSession,
       CallOK, JpegJob
<1>4. SessionsOK'
  <2>1. [session_j EXCEPT ![s] = [NewSession EXCEPT !.active = TRUE, !.handles = 1]]
        \in [JpegSession -> SessionRecord]
    BY <1>1, FieldTypes, SessionTypes, New DEF TypeParts, SessionsOK
  <2>2. \/ session_j' = session_j
        \/ session_j' = [session_j EXCEPT ![s] = [NewSession EXCEPT !.active = TRUE,
              !.handles = 1]]
    BY JpegAssumption, Positions DEF CreateSession
  <2> QED BY <1>1, <2>1, <2>2 DEF TypeParts, SessionsOK
<1>5. OmxOK'
  <2>1. [omx EXCEPT ![s] = [NoComponent EXCEPT !.state = "Loaded"]]
        \in [JpegSession -> ComponentRecord]
    BY <1>1, ComponentTypes, SessionTypes, New, AppendProperties DEF TypeParts, OmxOK,
         OmxState
  <2>2. \/ omx' = omx
        \/ omx' = [omx EXCEPT ![s] = [NoComponent EXCEPT !.state = "Loaded"]]
    BY JpegAssumption, Positions DEF CreateSession
  <2> QED BY <1>1, <2>1, <2>2 DEF TypeParts, OmxOK
<1>6. SpentOK'
  BY <1>1, Actors, JpegAssumption, SMTT(20) DEF TypeParts, CreateSession, SpentOK,
       JpegJob
<1> HIDE DEF TypeParts
<1>7. TypeParts'
  BY <1>2, <1>3, <1>4, <1>5, <1>6 DEF TypeParts
<1> QED BY <1>7, PartsGiveType

(* StartJob leaves every variable its type.                                 *)
LEMMA StartJobTypes ==
  ASSUME JpegTypeOK, Places, Sessions, Change, NEW s \in JpegSession, StartJob(s)
  PROVE  JpegTypeOK'
<1>1. TypeParts
  BY PartsOfType
<1>2. InProgressOK' /\ ManagerOK' /\ ChangeOK' /\ SessionsOK' /\ OmxOK'
        /\ AnsweredOK' /\ SpentOK'
  BY <1>1 DEF TypeParts, StartJob, InProgressOK, ManagerOK, ChangeOK, SessionsOK,
       OmxOK, AnsweredOK, SpentOK
<1>3. JobsOK'
  BY <1>1, Actors, JpegAssumption, SMTT(20) DEF TypeParts, StartJob, JobsOK, JpegJob
<1>4. QueuesOK'
  <2>1. jobs' = Append(jobs, s) /\ job_queue' = job_queue \cup {Len(jobs')}
        /\ UNCHANGED <<ongoing_job_q, job_sem, withdrawn>> /\ Len(jobs) < MaxJobs
    BY DEF StartJob
  <2>2. Len(jobs') = Len(jobs) + 1
    BY <1>1, <2>1, AppendProperties DEF TypeParts, JobsOK
  <2>3. Len(jobs') \in JpegJob
    BY <2>1, <2>2, JobNumbers, JpegAssumption DEF JpegJob
  <2> QED BY <1>1, <2>1, <2>3 DEF TypeParts, QueuesOK
<1>5. CallOK'
  BY <1>1, Actors, JpegAssumption, JobNumbers, SMTT(20) DEF TypeParts, StartJob,
       CallOK, JpegJob
<1> HIDE DEF TypeParts
<1>6. TypeParts'
  BY <1>2, <1>3, <1>4, <1>5 DEF TypeParts
<1> QED BY <1>6, PartsGiveType

(* AbortOrDestroy leaves every variable its type.                           *)
LEMMA AbortOrDestroyTypes ==
  ASSUME JpegTypeOK, Places, Sessions, Change, NEW s \in JpegSession, AbortOrDestroy(s)
  PROVE  JpegTypeOK'
<1>1. TypeParts
  BY PartsOfType
<1>2. JobsOK' /\ QueuesOK' /\ InProgressOK' /\ ManagerOK' /\ ChangeOK' /\ OmxOK'
        /\ AnsweredOK' /\ SpentOK'
  BY <1>1 DEF TypeParts, AbortOrDestroy, JobsOK, QueuesOK, InProgressOK, ManagerOK,
       ChangeOK, OmxOK, AnsweredOK, SpentOK
<1>3. CallOK'
  BY <1>1, Actors, JpegAssumption, JobNumbers, SMTT(20) DEF TypeParts, AbortOrDestroy,
       CallOK, JpegJob, JobsOf
<1>4. SessionsOK'
  <2>1. [session_j EXCEPT ![s].usable = FALSE]
        \in [JpegSession -> SessionRecord]
    BY <1>1, FieldTypes, SessionTypes, New DEF TypeParts, SessionsOK
  <2>2. \/ session_j' = session_j
        \/ session_j' = [session_j EXCEPT ![s].usable = FALSE]
    BY JpegAssumption, Positions DEF AbortOrDestroy, JobsOf
  <2> QED BY <1>1, <2>1, <2>2 DEF TypeParts, SessionsOK
<1> HIDE DEF TypeParts
<1>5. TypeParts'
  BY <1>2, <1>3, <1>4 DEF TypeParts
<1> QED BY <1>5, PartsGiveType
-----------------------------------------------------------------------------

(* Every elementary step preserves Places.                                  *)
LEMMA PlacesKept ==
  ASSUME JpegTypeOK, Places, Sessions, Change, JpegStep
  PROVE  Places'
<1>1. ASSUME NEW s \in JpegSession,
             \/ Sends(s) \/ Skips(s) \/ Overcome(s) \/ Breaks(s)
             \/ Awaits(s) \/ Wakes(s) \/ DoneAborting(s)
             \/ DoneAwaited(s) \/ DoneAlone(s) \/ ErrorAbortingWay(s)
             \/ ErrorEncodingWay(s) \/ ErrorElseWay(s)
             \/ ErrorAbortingWork(s) \/ ErrorEncodingWork(s)
             \/ ErrorElseWork(s) \/ BufferBack(s) \/ Encoded(s)
             \/ Removes(s) \/ GivesBack(s) \/ Posts(s)
      PROVE  Places'
  <2>1. UNCHANGED <<manager, jobs, call, job_queue>>
    BY <1>1 DEF Sends, Skips, Overcome, Breaks, Awaits, Wakes, DoneAborting,
         DoneAwaited,
      DoneAlone, ErrorAbortingWay, ErrorEncodingWay, ErrorElseWay,
      ErrorAbortingWork, ErrorEncodingWork, ErrorElseWork, BufferBack, Encoded,
      Removes, GivesBack, Posts
  <2>2. /\ \A t \in JpegSession, f \in {"active"} :
           session_j'[t][f] = session_j[t][f]
    BY <1>1 DEF Sends, Skips, Overcome, Breaks, Awaits, Wakes, DoneAborting,
         DoneAwaited,
      DoneAlone, ErrorAbortingWay, ErrorEncodingWay, ErrorElseWay,
      ErrorAbortingWork, ErrorEncodingWork, ErrorElseWork, BufferBack, Encoded,
      Removes, GivesBack, Posts, Touches, Feeds, SessionField
  <2> QED BY <2>1, <2>2 DEF Places, Held, Sess, ManagerHasJobLock, CallHasJobLock,
       JobsOf
<1>2. ASSUME Moves
      PROVE  Places'
  <2>1. session_j' = session_j
    BY <1>2 DEF Moves, Touches, Feeds, SessionField
  <2> QED BY <1>2, <2>1, JpegAssumption, SMTT(15)
    DEF Moves, CallHasJobLock, JobsOf, ManagerHasJobLock, JpegJob, Places,
      Sessions, Change, Held, Sess
<1>3. ASSUME NEW s \in JpegSession, NEW j \in JpegJob, Takes(s, j)
      PROVE  Places'
  <2>1. \A t \in JpegSession : session_j'[t].active = session_j[t].active
    BY <1>3 DEF Takes, Touches, Feeds, SessionField
  <2> QED BY <1>3, <2>1, JpegAssumption, SMTT(15)
    DEF Takes, CallHasJobLock, JobsOf, ManagerHasJobLock, ManagerIs, JpegJob,
      Places, Sessions, Change, Held, Sess
<1>4. ASSUME NEW s \in JpegSession, FindsConfigured(s)
      PROVE  Places'
  <2>1. \A t \in JpegSession : session_j'[t].active = session_j[t].active
    BY <1>4 DEF FindsConfigured, Touches, Feeds, SessionField
  <2> QED BY <1>4, <2>1, JpegAssumption, SMTT(15)
    DEF FindsConfigured, CallHasJobLock, JobsOf, ManagerHasJobLock, ManagerIs,
      Unlocked, JpegJob, Places, Sessions, Change, Held, Sess
<1>5. ASSUME NEW s \in JpegSession, FindsOther(s)
      PROVE  Places'
  <2>1. \A t \in JpegSession : session_j'[t].active = session_j[t].active
    BY <1>5 DEF FindsOther, Touches, Feeds, SessionField
  <2> QED BY <1>5, <2>1, JpegAssumption, SMTT(15)
    DEF FindsOther, CallHasJobLock, ChangeIs, JobsOf, ManagerHasJobLock,
      ManagerIs, Unlocked, JpegJob, Places, Sessions, Change, Held, Sess
<1>6. ASSUME NEW s \in JpegSession, FindsNone(s)
      PROVE  Places'
  <2>1. \A t \in JpegSession : session_j'[t].active = session_j[t].active
    BY <1>6 DEF FindsNone, Touches, Feeds, SessionField
  <2> QED BY <1>6, <2>1, JpegAssumption, SMTT(15)
    DEF FindsNone, CallHasJobLock, ChangeIs, JobsOf, ManagerHasJobLock,
      ManagerIs, Unlocked, JpegJob, Places, Sessions, Change, Held, Sess
<1>7. ASSUME NEW s \in JpegSession, Cleared(s)
      PROVE  Places'
  <2>1. \A t \in JpegSession : session_j'[t].active = session_j[t].active
    BY <1>7 DEF Cleared, Touches, Feeds, SessionField
  <2> QED BY <1>7, <2>1, JpegAssumption, SMTT(15)
    DEF Cleared, CallHasJobLock, ChangeIs, Changed, JobsOf, ManagerHasJobLock,
      ManagerIs, JpegJob, Places, Sessions, Change, Held, Sess
<1>8. ASSUME CannotConfigure
      PROVE  Places'
  <2>1. session_j' = session_j
    BY <1>8 DEF CannotConfigure, Touches, Feeds, SessionField
  <2> QED BY <1>8, <2>1, JpegAssumption, SMTT(15)
    DEF CannotConfigure, CallHasJobLock, ChangeEnds, ChangeIs, JobsOf,
      ManagerHasJobLock, ManagerIs, JpegJob, Places, Sessions, Change, Held,
      Sess
<1>9. ASSUME NEW s \in JpegSession, ConfiguredForJob(s)
      PROVE  Places'
  <2>1. \A t \in JpegSession : session_j'[t].active = session_j[t].active
    BY <1>9 DEF ConfiguredForJob, Touches, Feeds, SessionField
  <2> QED BY <1>9, <2>1, JpegAssumption, SMTT(15)
    DEF ConfiguredForJob, CallHasJobLock, ChangeEnds, ChangeIs, Changed, JobsOf,
      ManagerHasJobLock, ManagerIs, JpegJob, Places, Sessions, Change, Held,
      Sess
<1>10. ASSUME NEW s \in JpegSession, Starts(s)
      PROVE  Places'
  <2>1. \A t \in JpegSession : session_j'[t].active = session_j[t].active
    BY <1>10 DEF Starts, Touches, Feeds, SessionField
  <2> QED BY <1>10, <2>1, JpegAssumption, SMTT(15)
    DEF Starts, CallHasJobLock, JobsOf, ManagerHasJobLock, ManagerIs, Unlocked,
      JpegJob, Places, Sessions, Change, Held, Sess
<1>11. ASSUME Refused
      PROVE  Places'
  <2>1. session_j' = session_j
    BY <1>11 DEF Refused, Touches, Feeds, SessionField
  <2> QED BY <1>11, <2>1, JpegAssumption, SMTT(15)
    DEF Refused, CallHasJobLock, JobsOf, ManagerHasJobLock, ManagerIs,
      OmxMayFail, JpegJob, Places, Sessions, Change, Held, Sess
<1>12. ASSUME NEW s \in JpegSession, NotReady(s)
      PROVE  Places'
  <2>1. session_j' = session_j
    BY <1>12 DEF NotReady, Touches, Feeds, SessionField
  <2> QED BY <1>12, <2>1, JpegAssumption, SMTT(15)
    DEF NotReady, CallHasJobLock, JobsOf, ManagerHasJobLock, ManagerIs, JpegJob,
      Places, Sessions, Change, Held, Sess
<1>13. ASSUME NEW s \in JpegSession, GetsInput(s)
      PROVE  Places'
  <2>1. session_j' = session_j
    BY <1>13 DEF GetsInput, Touches, Feeds, SessionField
  <2> QED BY <1>13, <2>1, JpegAssumption, SMTT(15)
    DEF GetsInput, CallHasJobLock, JobsOf, ManagerHasJobLock, ManagerIs, JpegJob,
      Places, Sessions, Change, Held, Sess
<1>14. ASSUME NEW s \in JpegSession, GetsOutput(s)
      PROVE  Places'
  <2>1. session_j' = session_j
    BY <1>14 DEF GetsOutput, Touches, Feeds, SessionField
  <2> QED BY <1>14, <2>1, JpegAssumption, SMTT(15)
    DEF GetsOutput, CallHasJobLock, JobsOf, ManagerHasJobLock, ManagerIs,
      JpegJob, Places, Sessions, Change, Held, Sess
<1>15. ASSUME NEW s \in JpegSession, Fails(s)
      PROVE  Places'
  <2>1. \A t \in JpegSession : session_j'[t].active = session_j[t].active
    BY <1>15 DEF Fails, Touches, Feeds, SessionField
  <2> QED BY <1>15, <2>1, JpegAssumption, SMTT(15)
    DEF Fails, Answers, CallHasJobLock, JobsOf, ManagerHasJobLock, ManagerIs,
      JpegJob, Places, Sessions, Change, Held, Sess
<1>16. ASSUME NEW s \in JpegSession, Creates(s)
      PROVE  Places'
  <2>1. \A t \in JpegSession \ {s} : session_j'[t].active = session_j[t].active
    BY <1>16 DEF Creates, Touches, Feeds, SessionField
  <2> QED BY <1>16, <2>1, JpegAssumption, SMTT(15)
    DEF Creates, CallHasJobLock, CallIs, IsNew, JobsOf, ManagerHasJobLock,
      JpegJob, Places, Sessions, Change, Held, Sess
<1>17. ASSUME NEW s \in JpegSession, ConfiguresNew(s)
      PROVE  Places'
  <2>1. session_j' = session_j
    BY <1>17 DEF ConfiguresNew, Touches, Feeds, SessionField
  <2> QED BY <1>17, <2>1, JpegAssumption, SMTT(15)
    DEF ConfiguresNew, CallHasJobLock, CallIs, ChangeIs, JobsOf,
      ManagerHasJobLock, JpegJob, Places, Sessions, Change, Held, Sess
<1>18. ASSUME NEW s \in JpegSession, Usable(s)
      PROVE  Places'
  <2>1. \A t \in JpegSession : session_j'[t].active = session_j[t].active
    BY <1>18 DEF Usable, Touches, Feeds, SessionField
  <2> QED BY <1>18, <2>1, JpegAssumption, SMTT(15)
    DEF Usable, CallEnds, CallHasJobLock, CallIs, JobsOf, ManagerHasJobLock,
      JpegJob, Places, Sessions, Change, Held, Sess
<1>19. ASSUME NEW s \in JpegSession, Created(s)
      PROVE  Places'
  <2>1. \A t \in JpegSession : session_j'[t].active = session_j[t].active
    BY <1>19 DEF Created, Touches, Feeds, SessionField
  <2> QED BY <1>19, <2>1, JpegAssumption, SMTT(15)
    DEF Created, CallEnds, CallHasJobLock, CallIs, ChangeEnds, ChangeIs, Changed,
      JobsOf, ManagerHasJobLock, JpegJob, Places, Sessions, Change, Held, Sess
<1>20. ASSUME NotCreated
      PROVE  Places'
  <2>1. session_j' = session_j
    BY <1>20 DEF NotCreated, Touches, Feeds, SessionField
  <2> QED BY <1>20, <2>1, JpegAssumption, SMTT(15)
    DEF NotCreated, CallEnds, CallHasJobLock, CallIs, ChangeEnds, ChangeIs,
      JobsOf, ManagerHasJobLock, JpegJob, Places, Sessions, Change, Held, Sess
<1>21. ASSUME NEW s \in JpegSession, Enqueues(s)
      PROVE  Places'
  <2>1. session_j' = session_j
    BY <1>21 DEF Enqueues, Touches, Feeds, SessionField
  <2> QED BY <1>21, <2>1, JpegAssumption, SMTT(15)
    DEF Enqueues, CallHasJobLock, CallIs, JobsOf, ManagerHasJobLock, JpegJob,
      Places, Sessions, Change, Held, Sess
<1>22. ASSUME PostEnds
      PROVE  Places'
  <2>1. session_j' = session_j
    BY <1>22 DEF PostEnds, Touches, Feeds, SessionField
  <2> QED BY <1>22, <2>1, JpegAssumption, SMTT(15)
    DEF PostEnds, CallEnds, CallHasJobLock, CallIs, JobsOf, ManagerHasJobLock,
      JpegJob, Places, Sessions, Change, Held, Sess
<1>23. ASSUME NEW s \in JpegSession, AsksDestroy(s)
      PROVE  Places'
  <2>1. \A t \in JpegSession : session_j'[t].active = session_j[t].active
    BY <1>23 DEF AsksDestroy, Touches, Feeds, SessionField
  <2> QED BY <1>23, <2>1, JpegAssumption, SMTT(15)
    DEF AsksDestroy, CallHasJobLock, CallIs, JobsOf, ManagerHasJobLock, JpegJob,
      Places, Sessions, Change, Held, Sess
<1>24. ASSUME NEW s \in JpegSession, NEW j \in JpegJob, AsksAbort(s, j)
      PROVE  Places'
  <2>1. \A t \in JpegSession : session_j'[t].active = session_j[t].active
    BY <1>24 DEF AsksAbort, Touches, Feeds, SessionField
  <2> QED BY <1>24, <2>1, JpegAssumption, SMTT(15)
    DEF AsksAbort, CallHasJobLock, CallIs, JobsOf, ManagerHasJobLock, JpegJob,
      Places, Sessions, Change, Held, Sess
<1>25. ASSUME NEW s \in JpegSession, TakesOff(s)
      PROVE  Places'
  <2>1. session_j' = session_j
    BY <1>25 DEF TakesOff, Touches, Feeds, SessionField
  <2> QED BY <1>25, <2>1, JpegAssumption, SMTT(15)
    DEF TakesOff, CallHasJobLock, CallIs, JobsOf, ManagerHasJobLock, JpegJob,
      Places, Sessions, Change, Held, Sess
<1>26. ASSUME NEW s \in JpegSession, Withdraws(s)
      PROVE  Places'
  <2>1. session_j' = session_j
    BY <1>26 DEF Withdraws, Touches, Feeds, SessionField
  <2> QED BY <1>26, <2>1, JpegAssumption, SMTT(15)
    DEF Withdraws, CallEnds, CallHasJobLock, CallIs, JobsOf, ManagerHasJobLock,
      JpegJob, Places, Sessions, Change, Held, Sess
<1>27. ASSUME NEW s \in JpegSession, Forgets(s)
      PROVE  Places'
  <2>1. session_j' = session_j
    BY <1>27 DEF Forgets, Touches, Feeds, SessionField
  <2> QED BY <1>27, <2>1, JpegAssumption, SMTT(15)
    DEF Forgets, CallHasJobLock, CallIs, JobsOf, ManagerHasJobLock, JpegJob,
      Places, Sessions, Change, Held, Sess
<1>28. ASSUME NEW s \in JpegSession, HaltsJob(s)
      PROVE  Places'
  <2>1. session_j' = session_j
    BY <1>28 DEF HaltsJob, Touches, Feeds, SessionField
  <2> QED BY <1>28, <2>1, JpegAssumption, SMTT(15)
    DEF HaltsJob, CallEnds, CallHasJobLock, CallIs, JobsOf, ManagerHasJobLock,
      Unlocked, JpegJob, Places, Sessions, Change, Held, Sess
<1>29. ASSUME NEW s \in JpegSession, MarksJob(s)
      PROVE  Places'
  <2>1. \A t \in JpegSession : session_j'[t].active = session_j[t].active
    BY <1>29 DEF MarksJob, Touches, Feeds, SessionField
  <2> QED BY <1>29, <2>1, JpegAssumption, SMTT(15)
    DEF MarksJob, CallEnds, CallHasJobLock, CallIs, JobsOf, ManagerHasJobLock,
      Unlocked, JpegJob, Places, Sessions, Change, Held, Sess
<1>30. ASSUME NEW s \in JpegSession, HaltsSession(s)
      PROVE  Places'
  <2>1. session_j' = session_j
    BY <1>30 DEF HaltsSession, Touches, Feeds, SessionField
  <2> QED BY <1>30, <2>1, JpegAssumption, SMTT(15)
    DEF HaltsSession, CallHasJobLock, CallIs, ChangeIs, JobsOf,
      ManagerHasJobLock, Unlocked, JpegJob, Places, Sessions, Change, Held,
      Sess
<1>31. ASSUME NEW s \in JpegSession, MarksSession(s)
      PROVE  Places'
  <2>1. \A t \in JpegSession : session_j'[t].active = session_j[t].active
    BY <1>31 DEF MarksSession, Touches, Feeds, SessionField
  <2> QED BY <1>31, <2>1, JpegAssumption, SMTT(15)
    DEF MarksSession, CallHasJobLock, CallIs, ChangeIs, JobsOf,
      ManagerHasJobLock, Unlocked, JpegJob, Places, Sessions, Change, Held,
      Sess
<1>32. ASSUME NEW s \in JpegSession, SendsIdle(s)
      PROVE  Places'
  <2>1. \A t \in JpegSession : session_j'[t].active = session_j[t].active
    BY <1>32 DEF SendsIdle, Touches, Feeds, SessionField
  <2> QED BY <1>32, <2>1, JpegAssumption, SMTT(15)
    DEF SendsIdle, CallHasJobLock, CallIs, JobsOf, ManagerHasJobLock, Unlocked,
      JpegJob, Places, Sessions, Change, Held, Sess
<1>33. ASSUME NEW s \in JpegSession, Frees(s)
      PROVE  Places'
  <2>1. \A t \in JpegSession \ {s} : session_j'[t].active = session_j[t].active
    BY <1>33 DEF Frees, Touches, Feeds, SessionField
  <2> QED BY <1>33, <2>1, JpegAssumption, SMTT(15)
    DEF Frees, CallHasJobLock, CallIs, ChangeEnds, ChangeIs, Changed, IsNew,
      JobsOf, ManagerHasJobLock, Unlocked, JpegJob, Places, Sessions, Change,
      Held, Sess
<1> QED BY <1>1, <1>2, <1>3, <1>4, <1>5, <1>6, <1>7, <1>8, <1>9, <1>10, <1>11, <1>12,
  <1>13, <1>14, <1>15, <1>16, <1>17, <1>18, <1>19, <1>20, <1>21, <1>22, <1>23,
  <1>24, <1>25, <1>26, <1>27, <1>28, <1>29, <1>30, <1>31, <1>32, <1>33 DEF JpegStep
-----------------------------------------------------------------------------

(* Every elementary step preserves Sessions.                                *)
LEMMA SessionsKept ==
  ASSUME JpegTypeOK, Places, Sessions, Change, JpegStep
  PROVE  Sessions'
<1>1. ASSUME NEW s \in JpegSession,
             \/ Skips(s) \/ Overcome(s) \/ Breaks(s) \/ Awaits(s)
             \/ Wakes(s) \/ NotReady(s) \/ ConfiguresNew(s)
             \/ Enqueues(s) \/ TakesOff(s) \/ Withdraws(s) \/ Forgets(s)
             \/ HaltsJob(s) \/ HaltsSession(s)
      PROVE  Sessions'
  <2>1. UNCHANGED <<p_session_inprogress, spent>>
    BY <1>1 DEF Skips, Overcome, Breaks, Awaits, Wakes, NotReady, ConfiguresNew,
      Enqueues, TakesOff, Withdraws, Forgets, HaltsJob, HaltsSession
  <2>2. /\ \A t \in JpegSession, f \in {"active", "usable", "config", "encoding",
              "error", "abort", "jobId", "handles", "cb"} :
           session_j'[t][f] = session_j[t][f]
        /\ \A t \in JpegSession, f \in {"state", "cmds", "input", "work"} :
           omx'[t][f] = omx[t][f]
    BY <1>1 DEF Skips, Overcome, Breaks, Awaits, Wakes, NotReady, ConfiguresNew,
      Enqueues, TakesOff, Withdraws, Forgets, HaltsJob, HaltsSession, Touches,
      Feeds, SessionField
  <2> QED BY <2>1, <2>2 DEF Sessions
<1>2. ASSUME NEW s \in JpegSession, Sends(s)
      PROVE  Sessions'
  <2>1. /\ \A t \in JpegSession : session_j'[t].active = session_j[t].active
        /\ \A t \in JpegSession : session_j'[t].usable = session_j[t].usable
        /\ \A t \in JpegSession : session_j'[t].config = session_j[t].config
        /\ \A t \in JpegSession : session_j'[t].encoding = session_j[t].encoding
        /\ \A t \in JpegSession : session_j'[t].error = session_j[t].error
        /\ \A t \in JpegSession : session_j'[t].abort = session_j[t].abort
        /\ \A t \in JpegSession : session_j'[t].jobId = session_j[t].jobId
        /\ \A t \in JpegSession : session_j'[t].handles = session_j[t].handles
        /\ \A t \in JpegSession : session_j'[t].cb = session_j[t].cb
        /\ \A t \in JpegSession : omx'[t].state = omx[t].state
        /\ \A t \in JpegSession : omx'[t].input = omx[t].input
        /\ \A t \in JpegSession : omx'[t].work = omx[t].work
        /\ \A t \in JpegSession \ {s} : omx'[t].cmds = omx[t].cmds
    BY <1>2 DEF Sends, Touches, Feeds, SessionField
  <2> QED BY <1>2, <2>1, JpegAssumption, SMTT(15)
    DEF Sends, CallHasJobLock, JobsOf, ManagerHasJobLock, ToDo, Unlocked,
      JpegJob, Places, Sessions, Change, Held, Sess
<1>3. ASSUME Moves
      PROVE  Sessions'
  <2>1. /\ session_j' = session_j
        /\ omx' = omx
    BY <1>3 DEF Moves, Touches, Feeds, SessionField
  <2> QED BY <1>3, <2>1, JpegAssumption, SMTT(15)
    DEF Moves, CallHasJobLock, JobsOf, ManagerHasJobLock, JpegJob, Places,
      Sessions, Change, Held, Sess
<1>4. ASSUME NEW s \in JpegSession, NEW j \in JpegJob, Takes(s, j)
      PROVE  Sessions'
  <2>1. /\ \A t \in JpegSession : session_j'[t].active = session_j[t].active
        /\ \A t \in JpegSession : session_j'[t].usable = session_j[t].usable
        /\ \A t \in JpegSession : session_j'[t].config = session_j[t].config
        /\ \A t \in JpegSession : session_j'[t].encoding = session_j[t].encoding
        /\ \A t \in JpegSession : session_j'[t].error = session_j[t].error
        /\ \A t \in JpegSession : session_j'[t].abort = session_j[t].abort
        /\ \A t \in JpegSession : session_j'[t].cb = session_j[t].cb
        /\ \A t \in JpegSession \ {s} : session_j'[t].jobId = session_j[t].jobId
        /\ \A t \in JpegSession \ {s} : session_j'[t].handles = session_j[t].handles
        /\ omx' = omx
    BY <1>4 DEF Takes, Touches, Feeds, SessionField
  <2> QED BY <1>4, <2>1, JpegAssumption, SMTT(15)
    DEF Takes, CallHasJobLock, JobsOf, ManagerHasJobLock, ManagerIs, JpegJob,
      Places, Sessions, Change, Held, Sess
<1>5. ASSUME NEW s \in JpegSession, FindsConfigured(s)
      PROVE  Sessions'
  <2>1. /\ \A t \in JpegSession : session_j'[t].active = session_j[t].active
        /\ \A t \in JpegSession : session_j'[t].usable = session_j[t].usable
        /\ \A t \in JpegSession : session_j'[t].config = session_j[t].config
        /\ \A t \in JpegSession : session_j'[t].error = session_j[t].error
        /\ \A t \in JpegSession : session_j'[t].jobId = session_j[t].jobId
        /\ \A t \in JpegSession : session_j'[t].handles = session_j[t].handles
        /\ \A t \in JpegSession : session_j'[t].cb = session_j[t].cb
        /\ \A t \in JpegSession \ {s} : session_j'[t].encoding = session_j[t].encoding
        /\ \A t \in JpegSession \ {s} : session_j'[t].abort = session_j[t].abort
        /\ omx' = omx
    BY <1>5 DEF FindsConfigured, Touches, Feeds, SessionField
  <2> QED BY <1>5, <2>1, JpegAssumption, SMTT(15)
    DEF FindsConfigured, CallHasJobLock, JobsOf, ManagerHasJobLock, ManagerIs,
      Unlocked, JpegJob, Places, Sessions, Change, Held, Sess
<1>6. ASSUME NEW s \in JpegSession, FindsOther(s)
      PROVE  Sessions'
  <2>1. /\ \A t \in JpegSession : session_j'[t].active = session_j[t].active
        /\ \A t \in JpegSession : session_j'[t].usable = session_j[t].usable
        /\ \A t \in JpegSession : session_j'[t].config = session_j[t].config
        /\ \A t \in JpegSession : session_j'[t].error = session_j[t].error
        /\ \A t \in JpegSession : session_j'[t].jobId = session_j[t].jobId
        /\ \A t \in JpegSession : session_j'[t].handles = session_j[t].handles
        /\ \A t \in JpegSession : session_j'[t].cb = session_j[t].cb
        /\ \A t \in JpegSession \ {s} : session_j'[t].encoding = session_j[t].encoding
        /\ \A t \in JpegSession \ {s} : session_j'[t].abort = session_j[t].abort
        /\ omx' = omx
    BY <1>6 DEF FindsOther, Touches, Feeds, SessionField
  <2> QED BY <1>6, <2>1, JpegAssumption, SMTT(15)
    DEF FindsOther, CallHasJobLock, ChangeIs, JobsOf, ManagerHasJobLock,
      ManagerIs, Unlocked, JpegJob, Places, Sessions, Change, Held, Sess
<1>7. ASSUME NEW s \in JpegSession, FindsNone(s)
      PROVE  Sessions'
  <2>1. /\ \A t \in JpegSession : session_j'[t].active = session_j[t].active
        /\ \A t \in JpegSession : session_j'[t].usable = session_j[t].usable
        /\ \A t \in JpegSession : session_j'[t].config = session_j[t].config
        /\ \A t \in JpegSession : session_j'[t].error = session_j[t].error
        /\ \A t \in JpegSession : session_j'[t].jobId = session_j[t].jobId
        /\ \A t \in JpegSession : session_j'[t].handles = session_j[t].handles
        /\ \A t \in JpegSession : session_j'[t].cb = session_j[t].cb
        /\ \A t \in JpegSession \ {s} : session_j'[t].encoding = session_j[t].encoding
        /\ \A t \in JpegSession \ {s} : session_j'[t].abort = session_j[t].abort
        /\ omx' = omx
    BY <1>7 DEF FindsNone, Touches, Feeds, SessionField
  <2> QED BY <1>7, <2>1, JpegAssumption, SMTT(15)
    DEF FindsNone, CallHasJobLock, ChangeIs, JobsOf, ManagerHasJobLock,
      ManagerIs, Unlocked, JpegJob, Places, Sessions, Change, Held, Sess
<1>8. ASSUME NEW s \in JpegSession, Cleared(s)
      PROVE  Sessions'
  <2>1. /\ \A t \in JpegSession : session_j'[t].active = session_j[t].active
        /\ \A t \in JpegSession : session_j'[t].usable = session_j[t].usable
        /\ \A t \in JpegSession : session_j'[t].encoding = session_j[t].encoding
        /\ \A t \in JpegSession : session_j'[t].error = session_j[t].error
        /\ \A t \in JpegSession : session_j'[t].abort = session_j[t].abort
        /\ \A t \in JpegSession : session_j'[t].jobId = session_j[t].jobId
        /\ \A t \in JpegSession : session_j'[t].handles = session_j[t].handles
        /\ \A t \in JpegSession : session_j'[t].cb = session_j[t].cb
        /\ \A t \in JpegSession \ {s} : session_j'[t].config = session_j[t].config
        /\ omx' = omx
    BY <1>8 DEF Cleared, Touches, Feeds, SessionField
  <2> QED BY <1>8, <2>1, JpegAssumption, SMTT(15)
    DEF Cleared, CallHasJobLock, ChangeIs, Changed, JobsOf, ManagerHasJobLock,
      ManagerIs, JpegJob, Places, Sessions, Change, Held, Sess
<1>9. ASSUME CannotConfigure
      PROVE  Sessions'
  <2>1. /\ session_j' = session_j
        /\ omx' = omx
    BY <1>9 DEF CannotConfigure, Touches, Feeds, SessionField
  <2> QED BY <1>9, <2>1, JpegAssumption, SMTT(15)
    DEF CannotConfigure, CallHasJobLock, ChangeEnds, ChangeIs, JobsOf,
      ManagerHasJobLock, ManagerIs, JpegJob, Places, Sessions, Change, Held,
      Sess
<1>10. ASSUME NEW s \in JpegSession, ConfiguredForJob(s)
      PROVE  Sessions'
  <2>1. /\ \A t \in JpegSession : session_j'[t].active = session_j[t].active
        /\ \A t \in JpegSession : session_j'[t].usable = session_j[t].usable
        /\ \A t \in JpegSession : session_j'[t].encoding = session_j[t].encoding
        /\ \A t \in JpegSession : session_j'[t].error = session_j[t].error
        /\ \A t \in JpegSession : session_j'[t].abort = session_j[t].abort
        /\ \A t \in JpegSession : session_j'[t].jobId = session_j[t].jobId
        /\ \A t \in JpegSession : session_j'[t].handles = session_j[t].handles
        /\ \A t \in JpegSession : session_j'[t].cb = session_j[t].cb
        /\ \A t \in JpegSession \ {s} : session_j'[t].config = session_j[t].config
        /\ omx' = omx
    BY <1>10 DEF ConfiguredForJob, Touches, Feeds, SessionField
  <2> QED BY <1>10, <2>1, JpegAssumption, SMTT(15)
    DEF ConfiguredForJob, CallHasJobLock, ChangeEnds, ChangeIs, Changed, JobsOf,
      ManagerHasJobLock, ManagerIs, JpegJob, Places, Sessions, Change, Held,
      Sess
<1>11. ASSUME NEW s \in JpegSession, Starts(s)
      PROVE  Sessions'
  <2>1. /\ \A t \in JpegSession : session_j'[t].active = session_j[t].active
        /\ \A t \in JpegSession : session_j'[t].usable = session_j[t].usable
        /\ \A t \in JpegSession : session_j'[t].config = session_j[t].config
        /\ \A t \in JpegSession : session_j'[t].error = session_j[t].error
        /\ \A t \in JpegSession : session_j'[t].abort = session_j[t].abort
        /\ \A t \in JpegSession : session_j'[t].jobId = session_j[t].jobId
        /\ \A t \in JpegSession : session_j'[t].handles = session_j[t].handles
        /\ \A t \in JpegSession : session_j'[t].cb = session_j[t].cb
        /\ \A t \in JpegSession \ {s} : session_j'[t].encoding = session_j[t].encoding
        /\ omx' = omx
    BY <1>11 DEF Starts, Touches, Feeds, SessionField
  <2> QED BY <1>11, <2>1, JpegAssumption, SMTT(15)
    DEF Starts, CallHasJobLock, JobsOf, ManagerHasJobLock, ManagerIs, Unlocked,
      JpegJob, Places, Sessions, Change, Held, Sess
<1>12. ASSUME Refused
      PROVE  Sessions'
  <2>1. /\ session_j' = session_j
        /\ omx' = omx
    BY <1>12 DEF Refused, Touches, Feeds, SessionField
  <2> QED BY <1>12, <2>1, JpegAssumption, SMTT(15)
    DEF Refused, CallHasJobLock, JobsOf, ManagerHasJobLock, ManagerIs,
      OmxMayFail, JpegJob, Places, Sessions, Change, Held, Sess
<1>13. ASSUME NEW s \in JpegSession, GetsInput(s)
      PROVE  Sessions'
  <2>1. /\ session_j' = session_j
        /\ \A t \in JpegSession : omx'[t].state = omx[t].state
        /\ \A t \in JpegSession : omx'[t].cmds = omx[t].cmds
        /\ \A t \in JpegSession : omx'[t].work = omx[t].work
        /\ \A t \in JpegSession \ {s} : omx'[t].input = omx[t].input
    BY <1>13 DEF GetsInput, Touches, Feeds, SessionField
  <2> QED BY <1>13, <2>1, JpegAssumption, SMTT(15)
    DEF GetsInput, CallHasJobLock, JobsOf, ManagerHasJobLock, ManagerIs, JpegJob,
      Places, Sessions, Change, Held, Sess
<1>14. ASSUME NEW s \in JpegSession, GetsOutput(s)
      PROVE  Sessions'
  <2>1. /\ session_j' = session_j
        /\ \A t \in JpegSession : omx'[t].state = omx[t].state
        /\ \A t \in JpegSession : omx'[t].cmds = omx[t].cmds
        /\ \A t \in JpegSession : omx'[t].input = omx[t].input
        /\ \A t \in JpegSession \ {s} : omx'[t].work = omx[t].work
    BY <1>14 DEF GetsOutput, Touches, Feeds, SessionField
  <2> QED BY <1>14, <2>1, JpegAssumption, SMTT(15)
    DEF GetsOutput, CallHasJobLock, JobsOf, ManagerHasJobLock, ManagerIs,
      JpegJob, Places, Sessions, Change, Held, Sess
<1>15. ASSUME NEW s \in JpegSession, Fails(s)
      PROVE  Sessions'
  <2>1. /\ \A t \in JpegSession : session_j'[t].active = session_j[t].active
        /\ \A t \in JpegSession : session_j'[t].usable = session_j[t].usable
        /\ \A t \in JpegSession : session_j'[t].config = session_j[t].config
        /\ \A t \in JpegSession : session_j'[t].error = session_j[t].error
        /\ \A t \in JpegSession : session_j'[t].abort = session_j[t].abort
        /\ \A t \in JpegSession : session_j'[t].jobId = session_j[t].jobId
        /\ \A t \in JpegSession : session_j'[t].cb = session_j[t].cb
        /\ \A t \in JpegSession \ {s} : session_j'[t].encoding = session_j[t].encoding
        /\ \A t \in JpegSession \ {s} : session_j'[t].handles = session_j[t].handles
        /\ omx' = omx
    BY <1>15 DEF Fails, Touches, Feeds, SessionField
  <2> QED BY <1>15, <2>1, JpegAssumption, SMTT(15)
    DEF Fails, Answers, CallHasJobLock, JobsOf, ManagerHasJobLock, ManagerIs,
      JpegJob, Places, Sessions, Change, Held, Sess
<1>16. ASSUME NEW s \in JpegSession, DoneAborting(s)
      PROVE  Sessions'
  <2>1. /\ \A t \in JpegSession : session_j'[t].active = session_j[t].active
        /\ \A t \in JpegSession : session_j'[t].usable = session_j[t].usable
        /\ \A t \in JpegSession : session_j'[t].config = session_j[t].config
        /\ \A t \in JpegSession : session_j'[t].encoding = session_j[t].encoding
        /\ \A t \in JpegSession : session_j'[t].error = session_j[t].error
        /\ \A t \in JpegSession : session_j'[t].jobId = session_j[t].jobId
        /\ \A t \in JpegSession : session_j'[t].handles = session_j[t].handles
        /\ \A t \in JpegSession : session_j'[t].cb = session_j[t].cb
        /\ \A t \in JpegSession \ {s} : session_j'[t].abort = session_j[t].abort
        /\ \A t \in JpegSession \ {s} : omx'[t].state = omx[t].state
        /\ \A t \in JpegSession \ {s} : omx'[t].cmds = omx[t].cmds
        /\ \A t \in JpegSession \ {s} : omx'[t].input = omx[t].input
        /\ \A t \in JpegSession \ {s} : omx'[t].work = omx[t].work
    BY <1>16 DEF DoneAborting, Touches, Feeds, SessionField
  <2> QED BY <1>16, <2>1, JpegAssumption, SMTT(15)
    DEF DoneAborting, CallHasJobLock, JobsOf, ManagerHasJobLock, Unlocked,
      JpegJob, Places, Sessions, Change, Held, Sess
<1>17. ASSUME NEW s \in JpegSession, DoneAwaited(s)
      PROVE  Sessions'
  <2>1. /\ \A t \in JpegSession : session_j'[t].active = session_j[t].active
        /\ \A t \in JpegSession : session_j'[t].usable = session_j[t].usable
        /\ \A t \in JpegSession : session_j'[t].config = session_j[t].config
        /\ \A t \in JpegSession : session_j'[t].encoding = session_j[t].encoding
        /\ \A t \in JpegSession : session_j'[t].error = session_j[t].error
        /\ \A t \in JpegSession : session_j'[t].abort = session_j[t].abort
        /\ \A t \in JpegSession : session_j'[t].jobId = session_j[t].jobId
        /\ \A t \in JpegSession : session_j'[t].handles = session_j[t].handles
        /\ \A t \in JpegSession : session_j'[t].cb = session_j[t].cb
        /\ \A t \in JpegSession \ {s} : omx'[t].state = omx[t].state
        /\ \A t \in JpegSession \ {s} : omx'[t].cmds = omx[t].cmds
        /\ \A t \in JpegSession \ {s} : omx'[t].input = omx[t].input
        /\ \A t \in JpegSession \ {s} : omx'[t].work = omx[t].work
    BY <1>17 DEF DoneAwaited, Touches, Feeds, SessionField
  <2> QED BY <1>17, <2>1, JpegAssumption, SMTT(15)
    DEF DoneAwaited, CallHasJobLock, JobsOf, ManagerHasJobLock, Unlocked,
      JpegJob, Places, Sessions, Change, Held, Sess
<1>18. ASSUME NEW s \in JpegSession, DoneAlone(s)
      PROVE  Sessions'
  <2>1. /\ session_j' = session_j
        /\ \A t \in JpegSession \ {s} : omx'[t].state = omx[t].state
        /\ \A t \in JpegSession \ {s} : omx'[t].cmds = omx[t].cmds
        /\ \A t \in JpegSession \ {s} : omx'[t].input = omx[t].input
        /\ \A t \in JpegSession \ {s} : omx'[t].work = omx[t].work
    BY <1>18 DEF DoneAlone, Touches, Feeds, SessionField
  <2> QED BY <1>18, <2>1, JpegAssumption, SMTT(15)
    DEF DoneAlone, CallHasJobLock, JobsOf, ManagerHasJobLock, Unlocked, JpegJob,
      Places, Sessions, Change, Held, Sess
<1>19. ASSUME NEW s \in JpegSession, ErrorAbortingWay(s)
      PROVE  Sessions'
  <2>1. /\ \A t \in JpegSession : session_j'[t].active = session_j[t].active
        /\ \A t \in JpegSession : session_j'[t].usable = session_j[t].usable
        /\ \A t \in JpegSession : session_j'[t].config = session_j[t].config
        /\ \A t \in JpegSession : session_j'[t].encoding = session_j[t].encoding
        /\ \A t \in JpegSession : session_j'[t].error = session_j[t].error
        /\ \A t \in JpegSession : session_j'[t].jobId = session_j[t].jobId
        /\ \A t \in JpegSession : session_j'[t].handles = session_j[t].handles
        /\ \A t \in JpegSession : session_j'[t].cb = session_j[t].cb
        /\ \A t \in JpegSession \ {s} : session_j'[t].abort = session_j[t].abort
        /\ \A t \in JpegSession : omx'[t].state = omx[t].state
        /\ \A t \in JpegSession : omx'[t].input = omx[t].input
        /\ \A t \in JpegSession : omx'[t].work = omx[t].work
        /\ \A t \in JpegSession \ {s} : omx'[t].cmds = omx[t].cmds
    BY <1>19 DEF ErrorAbortingWay, Touches, Feeds, SessionField
  <2> QED BY <1>19, <2>1, JpegAssumption, SMTT(15)
    DEF ErrorAbortingWay, CallHasJobLock, JobsOf, ManagerHasJobLock, OmxMayFail,
      Unlocked, JpegJob, Places, Sessions, Change, Held, Sess
<1>20. ASSUME NEW s \in JpegSession, ErrorEncodingWay(s)
      PROVE  Sessions'
  <2>1. /\ \A t \in JpegSession : session_j'[t].active = session_j[t].active
        /\ \A t \in JpegSession : session_j'[t].usable = session_j[t].usable
        /\ \A t \in JpegSession : session_j'[t].config = session_j[t].config
        /\ \A t \in JpegSession : session_j'[t].encoding = session_j[t].encoding
        /\ \A t \in JpegSession : session_j'[t].abort = session_j[t].abort
        /\ \A t \in JpegSession : session_j'[t].jobId = session_j[t].jobId
        /\ \A t \in JpegSession : session_j'[t].handles = session_j[t].handles
        /\ \A t \in JpegSession \ {s} : session_j'[t].error = session_j[t].error
        /\ \A t \in JpegSession \ {s} : session_j'[t].cb = session_j[t].cb
        /\ \A t \in JpegSession : omx'[t].state = omx[t].state
        /\ \A t \in JpegSession : omx'[t].input = omx[t].input
        /\ \A t \in JpegSession : omx'[t].work = omx[t].work
        /\ \A t \in JpegSession \ {s} : omx'[t].cmds = omx[t].cmds
    BY <1>20 DEF ErrorEncodingWay, Touches, Feeds, SessionField
  <2> QED BY <1>20, <2>1, JpegAssumption, SMTT(15)
    DEF ErrorEncodingWay, Answers, CallHasJobLock, JobsOf, ManagerHasJobLock,
      OmxMayFail, Unlocked, JpegJob, Places, Sessions, Change, Held, Sess
<1>21. ASSUME NEW s \in JpegSession, ErrorElseWay(s)
      PROVE  Sessions'
  <2>1. /\ \A t \in JpegSession : session_j'[t].active = session_j[t].active
        /\ \A t \in JpegSession : session_j'[t].usable = session_j[t].usable
        /\ \A t \in JpegSession : session_j'[t].config = session_j[t].config
        /\ \A t \in JpegSession : session_j'[t].encoding = session_j[t].encoding
        /\ \A t \in JpegSession : session_j'[t].abort = session_j[t].abort
        /\ \A t \in JpegSession : session_j'[t].jobId = session_j[t].jobId
        /\ \A t \in JpegSession : session_j'[t].handles = session_j[t].handles
        /\ \A t \in JpegSession : session_j'[t].cb = session_j[t].cb
        /\ \A t \in JpegSession \ {s} : session_j'[t].error = session_j[t].error
        /\ \A t \in JpegSession : omx'[t].state = omx[t].state
        /\ \A t \in JpegSession : omx'[t].input = omx[t].input
        /\ \A t \in JpegSession : omx'[t].work = omx[t].work
        /\ \A t \in JpegSession \ {s} : omx'[t].cmds = omx[t].cmds
    BY <1>21 DEF ErrorElseWay, Touches, Feeds, SessionField
  <2> QED BY <1>21, <2>1, JpegAssumption, SMTT(15)
    DEF ErrorElseWay, CallHasJobLock, JobsOf, ManagerHasJobLock, OmxMayFail,
      Unlocked, JpegJob, Places, Sessions, Change, Held, Sess
<1>22. ASSUME NEW s \in JpegSession, ErrorAbortingWork(s)
      PROVE  Sessions'
  <2>1. /\ \A t \in JpegSession : session_j'[t].active = session_j[t].active
        /\ \A t \in JpegSession : session_j'[t].usable = session_j[t].usable
        /\ \A t \in JpegSession : session_j'[t].config = session_j[t].config
        /\ \A t \in JpegSession : session_j'[t].encoding = session_j[t].encoding
        /\ \A t \in JpegSession : session_j'[t].error = session_j[t].error
        /\ \A t \in JpegSession : session_j'[t].jobId = session_j[t].jobId
        /\ \A t \in JpegSession : session_j'[t].handles = session_j[t].handles
        /\ \A t \in JpegSession : session_j'[t].cb = session_j[t].cb
        /\ \A t \in JpegSession \ {s} : session_j'[t].abort = session_j[t].abort
        /\ \A t \in JpegSession : omx'[t].state = omx[t].state
        /\ \A t \in JpegSession : omx'[t].cmds = omx[t].cmds
        /\ \A t \in JpegSession \ {s} : omx'[t].input = omx[t].input
        /\ \A t \in JpegSession \ {s} : omx'[t].work = omx[t].work
    BY <1>22 DEF ErrorAbortingWork, Touches, Feeds, SessionField
  <2> QED BY <1>22, <2>1, JpegAssumption, SMTT(15)
    DEF ErrorAbortingWork, CallHasJobLock, JobsOf, ManagerHasJobLock, OmxMayFail,
      Unlocked, JpegJob, Places, Sessions, Change, Held, Sess
<1>23. ASSUME NEW s \in JpegSession, ErrorEncodingWork(s)
      PROVE  Sessions'
  <2>1. /\ \A t \in JpegSession : session_j'[t].active = session_j[t].active
        /\ \A t \in JpegSession : session_j'[t].usable = session_j[t].usable
        /\ \A t \in JpegSession : session_j'[t].config = session_j[t].config
        /\ \A t \in JpegSession : session_j'[t].encoding = session_j[t].encoding
        /\ \A t \in JpegSession : session_j'[t].abort = session_j[t].abort
        /\ \A t \in JpegSession : session_j'[t].jobId = session_j[t].jobId
        /\ \A t \in JpegSession : session_j'[t].handles = session_j[t].handles
        /\ \A t \in JpegSession \ {s} : session_j'[t].error = session_j[t].error
        /\ \A t \in JpegSession \ {s} : session_j'[t].cb = session_j[t].cb
        /\ \A t \in JpegSession : omx'[t].state = omx[t].state
        /\ \A t \in JpegSession : omx'[t].cmds = omx[t].cmds
        /\ \A t \in JpegSession \ {s} : omx'[t].input = omx[t].input
        /\ \A t \in JpegSession \ {s} : omx'[t].work = omx[t].work
    BY <1>23 DEF ErrorEncodingWork, Touches, Feeds, SessionField
  <2> QED BY <1>23, <2>1, JpegAssumption, SMTT(15)
    DEF ErrorEncodingWork, Answers, CallHasJobLock, JobsOf, ManagerHasJobLock,
      OmxMayFail, Unlocked, JpegJob, Places, Sessions, Change, Held, Sess
<1>24. ASSUME NEW s \in JpegSession, ErrorElseWork(s)
      PROVE  Sessions'
  <2>1. /\ \A t \in JpegSession : session_j'[t].active = session_j[t].active
        /\ \A t \in JpegSession : session_j'[t].usable = session_j[t].usable
        /\ \A t \in JpegSession : session_j'[t].config = session_j[t].config
        /\ \A t \in JpegSession : session_j'[t].encoding = session_j[t].encoding
        /\ \A t \in JpegSession : session_j'[t].abort = session_j[t].abort
        /\ \A t \in JpegSession : session_j'[t].jobId = session_j[t].jobId
        /\ \A t \in JpegSession : session_j'[t].handles = session_j[t].handles
        /\ \A t \in JpegSession : session_j'[t].cb = session_j[t].cb
        /\ \A t \in JpegSession \ {s} : session_j'[t].error = session_j[t].error
        /\ \A t \in JpegSession : omx'[t].state = omx[t].state
        /\ \A t \in JpegSession : omx'[t].cmds = omx[t].cmds
        /\ \A t \in JpegSession \ {s} : omx'[t].input = omx[t].input
        /\ \A t \in JpegSession \ {s} : omx'[t].work = omx[t].work
    BY <1>24 DEF ErrorElseWork, Touches, Feeds, SessionField
  <2> QED BY <1>24, <2>1, JpegAssumption, SMTT(15)
    DEF ErrorElseWork, CallHasJobLock, JobsOf, ManagerHasJobLock, OmxMayFail,
      Unlocked, JpegJob, Places, Sessions, Change, Held, Sess
<1>25. ASSUME NEW s \in JpegSession, BufferBack(s)
      PROVE  Sessions'
  <2>1. /\ session_j' = session_j
        /\ \A t \in JpegSession : omx'[t].state = omx[t].state
        /\ \A t \in JpegSession : omx'[t].cmds = omx[t].cmds
        /\ \A t \in JpegSession \ {s} : omx'[t].input = omx[t].input
        /\ \A t \in JpegSession \ {s} : omx'[t].work = omx[t].work
    BY <1>25 DEF BufferBack, Touches, Feeds, SessionField
  <2> QED BY <1>25, <2>1, JpegAssumption, SMTT(15)
    DEF BufferBack, CallHasJobLock, JobsOf, ManagerHasJobLock, Unlocked, JpegJob,
      Places, Sessions, Change, Held, Sess
<1>26. ASSUME NEW s \in JpegSession, Encoded(s)
      PROVE  Sessions'
  <2>1. /\ \A t \in JpegSession : session_j'[t].active = session_j[t].active
        /\ \A t \in JpegSession : session_j'[t].usable = session_j[t].usable
        /\ \A t \in JpegSession : session_j'[t].config = session_j[t].config
        /\ \A t \in JpegSession : session_j'[t].encoding = session_j[t].encoding
        /\ \A t \in JpegSession : session_j'[t].error = session_j[t].error
        /\ \A t \in JpegSession : session_j'[t].abort = session_j[t].abort
        /\ \A t \in JpegSession : session_j'[t].jobId = session_j[t].jobId
        /\ \A t \in JpegSession : session_j'[t].handles = session_j[t].handles
        /\ \A t \in JpegSession \ {s} : session_j'[t].cb = session_j[t].cb
        /\ \A t \in JpegSession : omx'[t].state = omx[t].state
        /\ \A t \in JpegSession : omx'[t].cmds = omx[t].cmds
        /\ \A t \in JpegSession \ {s} : omx'[t].input = omx[t].input
        /\ \A t \in JpegSession \ {s} : omx'[t].work = omx[t].work
    BY <1>26 DEF Encoded, Touches, Feeds, SessionField
  <2> QED BY <1>26, <2>1, JpegAssumption, SMTT(15)
    DEF Encoded, Answers, CallHasJobLock, JobsOf, ManagerHasJobLock, Unlocked,
      JpegJob, Places, Sessions, Change, Held, Sess
<1>27. ASSUME NEW s \in JpegSession, Removes(s)
      PROVE  Sessions'
  <2>1. /\ \A t \in JpegSession : session_j'[t].active = session_j[t].active
        /\ \A t \in JpegSession : session_j'[t].usable = session_j[t].usable
        /\ \A t \in JpegSession : session_j'[t].config = session_j[t].config
        /\ \A t \in JpegSession : session_j'[t].error = session_j[t].error
        /\ \A t \in JpegSession : session_j'[t].abort = session_j[t].abort
        /\ \A t \in JpegSession : session_j'[t].jobId = session_j[t].jobId
        /\ \A t \in JpegSession : session_j'[t].handles = session_j[t].handles
        /\ \A t \in JpegSession \ {s} : session_j'[t].encoding = session_j[t].encoding
        /\ \A t \in JpegSession \ {s} : session_j'[t].cb = session_j[t].cb
        /\ omx' = omx
    BY <1>27 DEF Removes, Touches, Feeds, SessionField
  <2> QED BY <1>27, <2>1, JpegAssumption, SMTT(15)
    DEF Removes, CallHasJobLock, JobsOf, ManagerHasJobLock, JpegJob, Places,
      Sessions, Change, Held, Sess
<1>28. ASSUME NEW s \in JpegSession, GivesBack(s)
      PROVE  Sessions'
  <2>1. /\ \A t \in JpegSession : session_j'[t].active = session_j[t].active
        /\ \A t \in JpegSession : session_j'[t].usable = session_j[t].usable
        /\ \A t \in JpegSession : session_j'[t].config = session_j[t].config
        /\ \A t \in JpegSession : session_j'[t].encoding = session_j[t].encoding
        /\ \A t \in JpegSession : session_j'[t].error = session_j[t].error
        /\ \A t \in JpegSession : session_j'[t].abort = session_j[t].abort
        /\ \A t \in JpegSession : session_j'[t].jobId = session_j[t].jobId
        /\ \A t \in JpegSession \ {s} : session_j'[t].handles = session_j[t].handles
        /\ \A t \in JpegSession \ {s} : session_j'[t].cb = session_j[t].cb
        /\ omx' = omx
    BY <1>28 DEF GivesBack, Touches, Feeds, SessionField
  <2> QED BY <1>28, <2>1, JpegAssumption, SMTT(15)
    DEF GivesBack, CallHasJobLock, JobsOf, ManagerHasJobLock, JpegJob, Places,
      Sessions, Change, Held, Sess
<1>29. ASSUME NEW s \in JpegSession, Posts(s)
      PROVE  Sessions'
  <2>1. /\ \A t \in JpegSession : session_j'[t].active = session_j[t].active
        /\ \A t \in JpegSession : session_j'[t].usable = session_j[t].usable
        /\ \A t \in JpegSession : session_j'[t].config = session_j[t].config
        /\ \A t \in JpegSession : session_j'[t].encoding = session_j[t].encoding
        /\ \A t \in JpegSession : session_j'[t].error = session_j[t].error
        /\ \A t \in JpegSession : session_j'[t].abort = session_j[t].abort
        /\ \A t \in JpegSession : session_j'[t].jobId = session_j[t].jobId
        /\ \A t \in JpegSession : session_j'[t].handles = session_j[t].handles
        /\ \A t \in JpegSession \ {s} : session_j'[t].cb = session_j[t].cb
        /\ omx' = omx
    BY <1>29 DEF Posts, Touches, Feeds, SessionField
  <2> QED BY <1>29, <2>1, JpegAssumption, SMTT(15)
    DEF Posts, CallHasJobLock, JobsOf, ManagerHasJobLock, JpegJob, Places,
      Sessions, Change, Held, Sess
<1>30. ASSUME NEW s \in JpegSession, Creates(s)
      PROVE  Sessions'
  <2>1. /\ \A t \in JpegSession \ {s} : session_j'[t].active = session_j[t].active
        /\ \A t \in JpegSession \ {s} : session_j'[t].usable = session_j[t].usable
        /\ \A t \in JpegSession \ {s} : session_j'[t].config = session_j[t].config
        /\ \A t \in JpegSession \ {s} : session_j'[t].encoding = session_j[t].encoding
        /\ \A t \in JpegSession \ {s} : session_j'[t].error = session_j[t].error
        /\ \A t \in JpegSession \ {s} : session_j'[t].abort = session_j[t].abort
        /\ \A t \in JpegSession \ {s} : session_j'[t].jobId = session_j[t].jobId
        /\ \A t \in JpegSession \ {s} : session_j'[t].handles = session_j[t].handles
        /\ \A t \in JpegSession \ {s} : session_j'[t].cb = session_j[t].cb
        /\ \A t \in JpegSession \ {s} : omx'[t].state = omx[t].state
        /\ \A t \in JpegSession \ {s} : omx'[t].cmds = omx[t].cmds
        /\ \A t \in JpegSession \ {s} : omx'[t].input = omx[t].input
        /\ \A t \in JpegSession \ {s} : omx'[t].work = omx[t].work
    BY <1>30 DEF Creates, Touches, Feeds, SessionField
  <2> QED BY <1>30, <2>1, JpegAssumption, SMTT(15)
    DEF Creates, CallHasJobLock, CallIs, IsNew, JobsOf, ManagerHasJobLock,
      JpegJob, Places, Sessions, Change, Held, Sess
<1>31. ASSUME NEW s \in JpegSession, Usable(s)
      PROVE  Sessions'
  <2>1. /\ \A t \in JpegSession : session_j'[t].active = session_j[t].active
        /\ \A t \in JpegSession : session_j'[t].config = session_j[t].config
        /\ \A t \in JpegSession : session_j'[t].encoding = session_j[t].encoding
        /\ \A t \in JpegSession : session_j'[t].error = session_j[t].error
        /\ \A t \in JpegSession : session_j'[t].abort = session_j[t].abort
        /\ \A t \in JpegSession : session_j'[t].jobId = session_j[t].jobId
        /\ \A t \in JpegSession : session_j'[t].handles = session_j[t].handles
        /\ \A t \in JpegSession : session_j'[t].cb = session_j[t].cb
        /\ \A t \in JpegSession \ {s} : session_j'[t].usable = session_j[t].usable
        /\ omx' = omx
    BY <1>31 DEF Usable, Touches, Feeds, SessionField
  <2> QED BY <1>31, <2>1, JpegAssumption, SMTT(15)
    DEF Usable, CallEnds, CallHasJobLock, CallIs, JobsOf, ManagerHasJobLock,
      JpegJob, Places, Sessions, Change, Held, Sess
<1>32. ASSUME NEW s \in JpegSession, Created(s)
      PROVE  Sessions'
  <2>1. /\ \A t \in JpegSession : session_j'[t].active = session_j[t].active
        /\ \A t \in JpegSession : session_j'[t].encoding = session_j[t].encoding
        /\ \A t \in JpegSession : session_j'[t].error = session_j[t].error
        /\ \A t \in JpegSession : session_j'[t].abort = session_j[t].abort
        /\ \A t \in JpegSession : session_j'[t].jobId = session_j[t].jobId
        /\ \A t \in JpegSession : session_j'[t].handles = session_j[t].handles
        /\ \A t \in JpegSession : session_j'[t].cb = session_j[t].cb
        /\ \A t \in JpegSession \ {s} : session_j'[t].usable = session_j[t].usable
        /\ \A t \in JpegSession \ {s} : session_j'[t].config = session_j[t].config
        /\ omx' = omx
    BY <1>32 DEF Created, Touches, Feeds, SessionField
  <2> QED BY <1>32, <2>1, JpegAssumption, SMTT(15)
    DEF Created, CallEnds, CallHasJobLock, CallIs, ChangeEnds, ChangeIs, Changed,
      JobsOf, ManagerHasJobLock, JpegJob, Places, Sessions, Change, Held, Sess
<1>33. ASSUME NotCreated
      PROVE  Sessions'
  <2>1. /\ session_j' = session_j
        /\ omx' = omx
    BY <1>33 DEF NotCreated, Touches, Feeds, SessionField
  <2> QED BY <1>33, <2>1, JpegAssumption, SMTT(15)
    DEF NotCreated, CallEnds, CallHasJobLock, CallIs, ChangeEnds, ChangeIs,
      JobsOf, ManagerHasJobLock, JpegJob, Places, Sessions, Change, Held, Sess
<1>34. ASSUME PostEnds
      PROVE  Sessions'
  <2>1. /\ session_j' = session_j
        /\ omx' = omx
    BY <1>34 DEF PostEnds, Touches, Feeds, SessionField
  <2> QED BY <1>34, <2>1, JpegAssumption, SMTT(15)
    DEF PostEnds, CallEnds, CallHasJobLock, CallIs, JobsOf, ManagerHasJobLock,
      JpegJob, Places, Sessions, Change, Held, Sess
<1>35. ASSUME NEW s \in JpegSession, AsksDestroy(s)
      PROVE  Sessions'
  <2>1. /\ \A t \in JpegSession : session_j'[t].active = session_j[t].active
        /\ \A t \in JpegSession : session_j'[t].config = session_j[t].config
        /\ \A t \in JpegSession : session_j'[t].encoding = session_j[t].encoding
        /\ \A t \in JpegSession : session_j'[t].error = session_j[t].error
        /\ \A t \in JpegSession : session_j'[t].abort = session_j[t].abort
        /\ \A t \in JpegSession : session_j'[t].jobId = session_j[t].jobId
        /\ \A t \in JpegSession : session_j'[t].handles = session_j[t].handles
        /\ \A t \in JpegSession : session_j'[t].cb = session_j[t].cb
        /\ \A t \in JpegSession \ {s} : session_j'[t].usable = session_j[t].usable
        /\ omx' = omx
    BY <1>35 DEF AsksDestroy, Touches, Feeds, SessionField
  <2> QED BY <1>35, <2>1, JpegAssumption, SMTT(15)
    DEF AsksDestroy, CallHasJobLock, CallIs, JobsOf, ManagerHasJobLock, JpegJob,
      Places, Sessions, Change, Held, Sess
<1>36. ASSUME NEW s \in JpegSession, NEW j \in JpegJob, AsksAbort(s, j)
      PROVE  Sessions'
  <2>1. /\ \A t \in JpegSession : session_j'[t].active = session_j[t].active
        /\ \A t \in JpegSession : session_j'[t].config = session_j[t].config
        /\ \A t \in JpegSession : session_j'[t].encoding = session_j[t].encoding
        /\ \A t \in JpegSession : session_j'[t].error = session_j[t].error
        /\ \A t \in JpegSession : session_j'[t].abort = session_j[t].abort
        /\ \A t \in JpegSession : session_j'[t].jobId = session_j[t].jobId
        /\ \A t \in JpegSession : session_j'[t].handles = session_j[t].handles
        /\ \A t \in JpegSession : session_j'[t].cb = session_j[t].cb
        /\ \A t \in JpegSession \ {s} : session_j'[t].usable = session_j[t].usable
        /\ omx' = omx
    BY <1>36 DEF AsksAbort, Touches, Feeds, SessionField
  <2> QED BY <1>36, <2>1, JpegAssumption, SMTT(15)
    DEF AsksAbort, CallHasJobLock, CallIs, JobsOf, ManagerHasJobLock, JpegJob,
      Places, Sessions, Change, Held, Sess
<1>37. ASSUME NEW s \in JpegSession, MarksJob(s)
      PROVE  Sessions'
  <2>1. /\ \A t \in JpegSession : session_j'[t].active = session_j[t].active
        /\ \A t \in JpegSession : session_j'[t].usable = session_j[t].usable
        /\ \A t \in JpegSession : session_j'[t].config = session_j[t].config
        /\ \A t \in JpegSession : session_j'[t].encoding = session_j[t].encoding
        /\ \A t \in JpegSession : session_j'[t].error = session_j[t].error
        /\ \A t \in JpegSession : session_j'[t].jobId = session_j[t].jobId
        /\ \A t \in JpegSession : session_j'[t].handles = session_j[t].handles
        /\ \A t \in JpegSession : session_j'[t].cb = session_j[t].cb
        /\ \A t \in JpegSession \ {s} : session_j'[t].abort = session_j[t].abort
        /\ omx' = omx
    BY <1>37 DEF MarksJob, Touches, Feeds, SessionField
  <2> QED BY <1>37, <2>1, JpegAssumption, SMTT(15)
    DEF MarksJob, CallEnds, CallHasJobLock, CallIs, JobsOf, ManagerHasJobLock,
      Unlocked, JpegJob, Places, Sessions, Change, Held, Sess
<1>38. ASSUME NEW s \in JpegSession, MarksSession(s)
      PROVE  Sessions'
  <2>1. /\ \A t \in JpegSession : session_j'[t].active = session_j[t].active
        /\ \A t \in JpegSession : session_j'[t].usable = session_j[t].usable
        /\ \A t \in JpegSession : session_j'[t].config = session_j[t].config
        /\ \A t \in JpegSession : session_j'[t].encoding = session_j[t].encoding
        /\ \A t \in JpegSession : session_j'[t].error = session_j[t].error
        /\ \A t \in JpegSession : session_j'[t].jobId = session_j[t].jobId
        /\ \A t \in JpegSession : session_j'[t].handles = session_j[t].handles
        /\ \A t \in JpegSession : session_j'[t].cb = session_j[t].cb
        /\ \A t \in JpegSession \ {s} : session_j'[t].abort = session_j[t].abort
        /\ omx' = omx
    BY <1>38 DEF MarksSession, Touches, Feeds, SessionField
  <2> QED BY <1>38, <2>1, JpegAssumption, SMTT(15)
    DEF MarksSession, CallHasJobLock, CallIs, ChangeIs, JobsOf,
      ManagerHasJobLock, Unlocked, JpegJob, Places, Sessions, Change, Held,
      Sess
<1>39. ASSUME NEW s \in JpegSession, SendsIdle(s)
      PROVE  Sessions'
  <2>1. /\ \A t \in JpegSession : session_j'[t].active = session_j[t].active
        /\ \A t \in JpegSession : session_j'[t].usable = session_j[t].usable
        /\ \A t \in JpegSession : session_j'[t].config = session_j[t].config
        /\ \A t \in JpegSession : session_j'[t].encoding = session_j[t].encoding
        /\ \A t \in JpegSession : session_j'[t].error = session_j[t].error
        /\ \A t \in JpegSession : session_j'[t].jobId = session_j[t].jobId
        /\ \A t \in JpegSession : session_j'[t].handles = session_j[t].handles
        /\ \A t \in JpegSession : session_j'[t].cb = session_j[t].cb
        /\ \A t \in JpegSession \ {s} : session_j'[t].abort = session_j[t].abort
        /\ \A t \in JpegSession : omx'[t].state = omx[t].state
        /\ \A t \in JpegSession : omx'[t].input = omx[t].input
        /\ \A t \in JpegSession : omx'[t].work = omx[t].work
        /\ \A t \in JpegSession \ {s} : omx'[t].cmds = omx[t].cmds
    BY <1>39 DEF SendsIdle, Touches, Feeds, SessionField
  <2> QED BY <1>39, <2>1, JpegAssumption, SMTT(15)
    DEF SendsIdle, CallHasJobLock, CallIs, JobsOf, ManagerHasJobLock, Unlocked,
      JpegJob, Places, Sessions, Change, Held, Sess
<1>40. ASSUME NEW s \in JpegSession, Frees(s)
      PROVE  Sessions'
  <2>1. /\ \A t \in JpegSession \ {s} : session_j'[t].active = session_j[t].active
        /\ \A t \in JpegSession \ {s} : session_j'[t].usable = session_j[t].usable
        /\ \A t \in JpegSession \ {s} : session_j'[t].config = session_j[t].config
        /\ \A t \in JpegSession \ {s} : session_j'[t].encoding = session_j[t].encoding
        /\ \A t \in JpegSession \ {s} : session_j'[t].error = session_j[t].error
        /\ \A t \in JpegSession \ {s} : session_j'[t].abort = session_j[t].abort
        /\ \A t \in JpegSession \ {s} : session_j'[t].jobId = session_j[t].jobId
        /\ \A t \in JpegSession \ {s} : session_j'[t].handles = session_j[t].handles
        /\ \A t \in JpegSession \ {s} : session_j'[t].cb = session_j[t].cb
        /\ \A t \in JpegSession \ {s} : omx'[t].state = omx[t].state
        /\ \A t \in JpegSession \ {s} : omx'[t].cmds = omx[t].cmds
        /\ \A t \in JpegSession \ {s} : omx'[t].input = omx[t].input
        /\ \A t \in JpegSession \ {s} : omx'[t].work = omx[t].work
    BY <1>40 DEF Frees, Touches, Feeds, SessionField
  <2> QED BY <1>40, <2>1, JpegAssumption, SMTT(15)
    DEF Frees, CallHasJobLock, CallIs, ChangeEnds, ChangeIs, Changed, IsNew,
      JobsOf, ManagerHasJobLock, Unlocked, JpegJob, Places, Sessions, Change,
      Held, Sess
<1> QED BY <1>1, <1>2, <1>3, <1>4, <1>5, <1>6, <1>7, <1>8, <1>9, <1>10, <1>11, <1>12,
  <1>13, <1>14, <1>15, <1>16, <1>17, <1>18, <1>19, <1>20, <1>21, <1>22, <1>23,
  <1>24, <1>25, <1>26, <1>27, <1>28, <1>29, <1>30, <1>31, <1>32, <1>33, <1>34,
  <1>35, <1>36, <1>37, <1>38, <1>39, <1>40 DEF JpegStep
-----------------------------------------------------------------------------

(* The step FindsOther preserves Change.                                    *)
LEMMA Change_FindsOther ==
  ASSUME JpegTypeOK, Places, Sessions, Change,
         NEW s \in JpegSession, FindsOther(s)
  PROVE  Change'
<1>1. /\ \A t \in JpegSession : session_j'[t].active = session_j[t].active
      /\ \A t \in JpegSession : session_j'[t].error = session_j[t].error
      /\ manager'.at = "clearing" /\ manager'.job = manager.job
      /\ manager.at = "encode" /\ jobs[manager.job] = s
      /\ change'.on = p_session_inprogress /\ change'.way = "down"
      /\ change'.rest = Down2 /\ change'.at = "next"
      /\ UNCHANGED <<jobs, call, p_session_inprogress>>
      /\ p_session_inprogress # NoSession /\ ~session_j[s].config
  BY DEF FindsOther, Touches, SessionField, ManagerIs, ChangeIs
<1>2. p_session_inprogress \in JpegSession
  BY <1>1 DEF Sessions
<1>3. session_j[p_session_inprogress].config
  BY <1>2 DEF Sessions
<1>4. session_j[p_session_inprogress].active
  BY <1>2, <1>3 DEF Sessions
<1>5. call.at \notin {"configuring", "down"}
  BY <1>1 DEF Places, ManagerHasJobLock, CallHasJobLock
<1> QED BY <1>1, <1>2, <1>3, <1>4, <1>5, Rests DEF Change, Sess

(* The step Skips preserves Change.                                         *)
LEMMA Change_Skips ==
  ASSUME JpegTypeOK, Places, Sessions, Change,
         NEW s \in JpegSession, Skips(s) \/ Overcome(s) \/ Wakes(s)
  PROVE  Change'
<1>1. /\ \A t \in JpegSession : session_j'[t].active = session_j[t].active
      /\ change.rest # << >>
      /\ change'.on = change.on /\ change'.way = change.way
      /\ change'.rest = Tail(change.rest) /\ change'.at = "next"
      /\ UNCHANGED <<jobs, call, p_session_inprogress, manager>>
  BY DEF Skips, Overcome, Wakes, Touches, SessionField, GoesOn, ChangeIs, Change
<1>2. change.way = "up" => change'.rest \in {Exec1, << >>}
  BY <1>1, Rests DEF Change
<1>3. change.way = "down" => change'.rest \in {Loaded1, << >>}
  BY <1>1, Rests DEF Change
<1> QED BY <1>1, <1>2, <1>3 DEF Change, Sess

(* Every elementary step preserves Change.                                  *)
LEMMA ChangeKept ==
  ASSUME JpegTypeOK, Places, Sessions, Change, JpegStep
  PROVE  Change'
<1>1. ASSUME NEW s \in JpegSession,
             \/ DoneAborting(s) \/ DoneAwaited(s) \/ DoneAlone(s)
             \/ ErrorAbortingWay(s) \/ ErrorAbortingWork(s)
             \/ BufferBack(s) \/ Encoded(s) \/ Removes(s) \/ GivesBack(s)
             \/ Posts(s)
      PROVE  Change'
  <2>1. UNCHANGED <<change, manager, call, p_session_inprogress, jobs>>
    BY <1>1 DEF DoneAborting, DoneAwaited, DoneAlone, ErrorAbortingWay,
      ErrorAbortingWork, BufferBack, Encoded, Removes, GivesBack, Posts
  <2>2. /\ \A t \in JpegSession, f \in {"active", "error"} :
           session_j'[t][f] = session_j[t][f]
    BY <1>1 DEF DoneAborting, DoneAwaited, DoneAlone, ErrorAbortingWay,
      ErrorAbortingWork, BufferBack, Encoded, Removes, GivesBack, Posts,
      Touches, Feeds, SessionField
  <2> QED BY <2>1, <2>2 DEF Change, Sess
<1>2. ASSUME NEW s \in JpegSession, Sends(s)
      PROVE  Change'
  <2>1. /\ \A t \in JpegSession : session_j'[t].active = session_j[t].active
        /\ \A t \in JpegSession : session_j'[t].error = session_j[t].error
    BY <1>2 DEF Sends, Touches, Feeds, SessionField
  <2> QED BY <1>2, <2>1, JpegAssumption, Sequences, SMTT(15)
    DEF Sends, CallHasJobLock, JobsOf, ManagerHasJobLock, ToDo, Unlocked,
      JpegJob, Places, Sessions, Change, Held, Sess
<1>3. ASSUME NEW s \in JpegSession, Skips(s)
      PROVE  Change'
  BY <1>3, Change_Skips
<1>4. ASSUME NEW s \in JpegSession, Overcome(s)
      PROVE  Change'
  BY <1>4, Change_Skips
<1>5. ASSUME NEW s \in JpegSession, Breaks(s)
      PROVE  Change'
  <2>1. /\ \A t \in JpegSession : session_j'[t].active = session_j[t].active
        /\ \A t \in JpegSession : session_j'[t].error = session_j[t].error
    BY <1>5 DEF Breaks, Touches, Feeds, SessionField
  <2> QED BY <1>5, <2>1, JpegAssumption, Sequences, SMTT(15)
    DEF Breaks, CallHasJobLock, ChangeIs, JobsOf, ManagerHasJobLock, Unlocked,
      JpegJob, Places, Sessions, Change, Held, Sess
<1>6. ASSUME NEW s \in JpegSession, Awaits(s)
      PROVE  Change'
  <2>1. /\ \A t \in JpegSession : session_j'[t].active = session_j[t].active
        /\ \A t \in JpegSession : session_j'[t].error = session_j[t].error
    BY <1>6 DEF Awaits, Touches, Feeds, SessionField
  <2> QED BY <1>6, <2>1, JpegAssumption, Sequences, SMTT(15)
    DEF Awaits, CallHasJobLock, ChangeIs, JobsOf, ManagerHasJobLock, Unlocked,
      JpegJob, Places, Sessions, Change, Held, Sess
<1>7. ASSUME NEW s \in JpegSession, Wakes(s)
      PROVE  Change'
  BY <1>7, Change_Skips
<1>8. ASSUME Moves
      PROVE  Change'
  <2>1. session_j' = session_j
    BY <1>8 DEF Moves, Touches, Feeds, SessionField
  <2> QED BY <1>8, <2>1, JpegAssumption, Sequences, SMTT(15)
    DEF Moves, CallHasJobLock, JobsOf, ManagerHasJobLock, JpegJob, Places,
      Sessions, Change, Held, Sess
<1>9. ASSUME NEW s \in JpegSession, NEW j \in JpegJob, Takes(s, j)
      PROVE  Change'
  <2>1. /\ \A t \in JpegSession : session_j'[t].active = session_j[t].active
        /\ \A t \in JpegSession : session_j'[t].error = session_j[t].error
    BY <1>9 DEF Takes, Touches, Feeds, SessionField
  <2> QED BY <1>9, <2>1, JpegAssumption, Sequences, SMTT(15)
    DEF Takes, CallHasJobLock, JobsOf, ManagerHasJobLock, ManagerIs, JpegJob,
      Places, Sessions, Change, Held, Sess
<1>10. ASSUME NEW s \in JpegSession, FindsConfigured(s)
      PROVE  Change'
  <2>1. /\ \A t \in JpegSession : session_j'[t].active = session_j[t].active
        /\ \A t \in JpegSession : session_j'[t].error = session_j[t].error
    BY <1>10 DEF FindsConfigured, Touches, Feeds, SessionField
  <2> QED BY <1>10, <2>1, JpegAssumption, Sequences, SMTT(15)
    DEF FindsConfigured, CallHasJobLock, JobsOf, ManagerHasJobLock, ManagerIs,
      Unlocked, JpegJob, Places, Sessions, Change, Held, Sess
<1>11. ASSUME NEW s \in JpegSession, FindsOther(s)
      PROVE  Change'
  BY <1>11, Change_FindsOther
<1>12. ASSUME NEW s \in JpegSession, FindsNone(s)
      PROVE  Change'
  <2>1. /\ \A t \in JpegSession : session_j'[t].active = session_j[t].active
        /\ \A t \in JpegSession : session_j'[t].error = session_j[t].error
    BY <1>12 DEF FindsNone, Touches, Feeds, SessionField
  <2> QED BY <1>12, <2>1, JpegAssumption, Sequences, SMTT(15)
    DEF FindsNone, CallHasJobLock, ChangeIs, JobsOf, ManagerHasJobLock,
      ManagerIs, Unlocked, JpegJob, Places, Sessions, Change, Held, Sess
<1>13. ASSUME NEW s \in JpegSession, Cleared(s)
      PROVE  Change'
  <2>1. /\ \A t \in JpegSession : session_j'[t].active = session_j[t].active
        /\ \A t \in JpegSession : session_j'[t].error = session_j[t].error
    BY <1>13 DEF Cleared, Touches, Feeds, SessionField
  <2> QED BY <1>13, <2>1, JpegAssumption, Sequences, SMTT(15)
    DEF Cleared, CallHasJobLock, ChangeIs, Changed, JobsOf, ManagerHasJobLock,
      ManagerIs, JpegJob, Places, Sessions, Change, Held, Sess
<1>14. ASSUME CannotConfigure
      PROVE  Change'
  <2>1. session_j' = session_j
    BY <1>14 DEF CannotConfigure, Touches, Feeds, SessionField
  <2> QED BY <1>14, <2>1, JpegAssumption, Sequences, SMTT(15)
    DEF CannotConfigure, CallHasJobLock, ChangeEnds, ChangeIs, JobsOf,
      ManagerHasJobLock, ManagerIs, JpegJob, Places, Sessions, Change, Held,
      Sess
<1>15. ASSUME NEW s \in JpegSession, ConfiguredForJob(s)
      PROVE  Change'
  <2>1. /\ \A t \in JpegSession : session_j'[t].active = session_j[t].active
        /\ \A t \in JpegSession : session_j'[t].error = session_j[t].error
    BY <1>15 DEF ConfiguredForJob, Touches, Feeds, SessionField
  <2> QED BY <1>15, <2>1, JpegAssumption, Sequences, SMTT(15)
    DEF ConfiguredForJob, CallHasJobLock, ChangeEnds, ChangeIs, Changed, JobsOf,
      ManagerHasJobLock, ManagerIs, JpegJob, Places, Sessions, Change, Held,
      Sess
<1>16. ASSUME NEW s \in JpegSession, Starts(s)
      PROVE  Change'
  <2>1. /\ \A t \in JpegSession : session_j'[t].active = session_j[t].active
        /\ \A t \in JpegSession : session_j'[t].error = session_j[t].error
    BY <1>16 DEF Starts, Touches, Feeds, SessionField
  <2> QED BY <1>16, <2>1, JpegAssumption, Sequences, SMTT(15)
    DEF Starts, CallHasJobLock, JobsOf, ManagerHasJobLock, ManagerIs, Unlocked,
      JpegJob, Places, Sessions, Change, Held, Sess
<1>17. ASSUME Refused
      PROVE  Change'
  <2>1. session_j' = session_j
    BY <1>17 DEF Refused, Touches, Feeds, SessionField
  <2> QED BY <1>17, <2>1, JpegAssumption, Sequences, SMTT(15)
    DEF Refused, CallHasJobLock, JobsOf, ManagerHasJobLock, ManagerIs,
      OmxMayFail, JpegJob, Places, Sessions, Change, Held, Sess
<1>18. ASSUME NEW s \in JpegSession, NotReady(s)
      PROVE  Change'
  <2>1. session_j' = session_j
    BY <1>18 DEF NotReady, Touches, Feeds, SessionField
  <2> QED BY <1>18, <2>1, JpegAssumption, Sequences, SMTT(15)
    DEF NotReady, CallHasJobLock, JobsOf, ManagerHasJobLock, ManagerIs, JpegJob,
      Places, Sessions, Change, Held, Sess
<1>19. ASSUME NEW s \in JpegSession, GetsInput(s)
      PROVE  Change'
  <2>1. session_j' = session_j
    BY <1>19 DEF GetsInput, Touches, Feeds, SessionField
  <2> QED BY <1>19, <2>1, JpegAssumption, Sequences, SMTT(15)
    DEF GetsInput, CallHasJobLock, JobsOf, ManagerHasJobLock, ManagerIs, JpegJob,
      Places, Sessions, Change, Held, Sess
<1>20. ASSUME NEW s \in JpegSession, GetsOutput(s)
      PROVE  Change'
  <2>1. session_j' = session_j
    BY <1>20 DEF GetsOutput, Touches, Feeds, SessionField
  <2> QED BY <1>20, <2>1, JpegAssumption, Sequences, SMTT(15)
    DEF GetsOutput, CallHasJobLock, JobsOf, ManagerHasJobLock, ManagerIs,
      JpegJob, Places, Sessions, Change, Held, Sess
<1>21. ASSUME NEW s \in JpegSession, Fails(s)
      PROVE  Change'
  <2>1. /\ \A t \in JpegSession : session_j'[t].active = session_j[t].active
        /\ \A t \in JpegSession : session_j'[t].error = session_j[t].error
    BY <1>21 DEF Fails, Touches, Feeds, SessionField
  <2> QED BY <1>21, <2>1, JpegAssumption, Sequences, SMTT(15)
    DEF Fails, Answers, CallHasJobLock, JobsOf, ManagerHasJobLock, ManagerIs,
      JpegJob, Places, Sessions, Change, Held, Sess
<1>22. ASSUME NEW s \in JpegSession, ErrorEncodingWay(s)
      PROVE  Change'
  <2>1. /\ \A t \in JpegSession : session_j'[t].active = session_j[t].active
        /\ \A t \in JpegSession \ {s} : session_j'[t].error = session_j[t].error
    BY <1>22 DEF ErrorEncodingWay, Touches, Feeds, SessionField
  <2> QED BY <1>22, <2>1, JpegAssumption, Sequences, SMTT(15)
    DEF ErrorEncodingWay, Answers, CallHasJobLock, JobsOf, ManagerHasJobLock,
      OmxMayFail, Unlocked, JpegJob, Places, Sessions, Change, Held, Sess
<1>23. ASSUME NEW s \in JpegSession, ErrorElseWay(s)
      PROVE  Change'
  <2>1. /\ \A t \in JpegSession : session_j'[t].active = session_j[t].active
        /\ \A t \in JpegSession \ {s} : session_j'[t].error = session_j[t].error
    BY <1>23 DEF ErrorElseWay, Touches, Feeds, SessionField
  <2> QED BY <1>23, <2>1, JpegAssumption, Sequences, SMTT(15)
    DEF ErrorElseWay, CallHasJobLock, JobsOf, ManagerHasJobLock, OmxMayFail,
      Unlocked, JpegJob, Places, Sessions, Change, Held, Sess
<1>24. ASSUME NEW s \in JpegSession, ErrorEncodingWork(s)
      PROVE  Change'
  <2>1. /\ \A t \in JpegSession : session_j'[t].active = session_j[t].active
        /\ \A t \in JpegSession \ {s} : session_j'[t].error = session_j[t].error
    BY <1>24 DEF ErrorEncodingWork, Touches, Feeds, SessionField
  <2> QED BY <1>24, <2>1, JpegAssumption, Sequences, SMTT(15)
    DEF ErrorEncodingWork, Answers, CallHasJobLock, JobsOf, ManagerHasJobLock,
      OmxMayFail, Unlocked, JpegJob, Places, Sessions, Change, Held, Sess
<1>25. ASSUME NEW s \in JpegSession, ErrorElseWork(s)
      PROVE  Change'
  <2>1. /\ \A t \in JpegSession : session_j'[t].active = session_j[t].active
        /\ \A t \in JpegSession \ {s} : session_j'[t].error = session_j[t].error
    BY <1>25 DEF ErrorElseWork, Touches, Feeds, SessionField
  <2> QED BY <1>25, <2>1, JpegAssumption, Sequences, SMTT(15)
    DEF ErrorElseWork, CallHasJobLock, JobsOf, ManagerHasJobLock, OmxMayFail,
      Unlocked, JpegJob, Places, Sessions, Change, Held, Sess
<1>26. ASSUME NEW s \in JpegSession, Creates(s)
      PROVE  Change'
  <2>1. /\ \A t \in JpegSession \ {s} : session_j'[t].active = session_j[t].active
        /\ \A t \in JpegSession \ {s} : session_j'[t].error = session_j[t].error
    BY <1>26 DEF Creates, Touches, Feeds, SessionField
  <2> QED BY <1>26, <2>1, JpegAssumption, Sequences, SMTT(15)
    DEF Creates, CallHasJobLock, CallIs, IsNew, JobsOf, ManagerHasJobLock,
      JpegJob, Places, Sessions, Change, Held, Sess
<1>27. ASSUME NEW s \in JpegSession, ConfiguresNew(s)
      PROVE  Change'
  <2>1. session_j' = session_j
    BY <1>27 DEF ConfiguresNew, Touches, Feeds, SessionField
  <2> QED BY <1>27, <2>1, JpegAssumption, Sequences, SMTT(15)
    DEF ConfiguresNew, CallHasJobLock, CallIs, ChangeIs, JobsOf,
      ManagerHasJobLock, JpegJob, Places, Sessions, Change, Held, Sess
<1>28. ASSUME NEW s \in JpegSession, Usable(s)
      PROVE  Change'
  <2>1. /\ \A t \in JpegSession : session_j'[t].active = session_j[t].active
        /\ \A t \in JpegSession : session_j'[t].error = session_j[t].error
    BY <1>28 DEF Usable, Touches, Feeds, SessionField
  <2> QED BY <1>28, <2>1, JpegAssumption, Sequences, SMTT(15)
    DEF Usable, CallEnds, CallHasJobLock, CallIs, JobsOf, ManagerHasJobLock,
      JpegJob, Places, Sessions, Change, Held, Sess
<1>29. ASSUME NEW s \in JpegSession, Created(s)
      PROVE  Change'
  <2>1. /\ \A t \in JpegSession : session_j'[t].active = session_j[t].active
        /\ \A t \in JpegSession : session_j'[t].error = session_j[t].error
    BY <1>29 DEF Created, Touches, Feeds, SessionField
  <2> QED BY <1>29, <2>1, JpegAssumption, Sequences, SMTT(15)
    DEF Created, CallEnds, CallHasJobLock, CallIs, ChangeEnds, ChangeIs, Changed,
      JobsOf, ManagerHasJobLock, JpegJob, Places, Sessions, Change, Held, Sess
<1>30. ASSUME NotCreated
      PROVE  Change'
  <2>1. session_j' = session_j
    BY <1>30 DEF NotCreated, Touches, Feeds, SessionField
  <2> QED BY <1>30, <2>1, JpegAssumption, Sequences, SMTT(15)
    DEF NotCreated, CallEnds, CallHasJobLock, CallIs, ChangeEnds, ChangeIs,
      JobsOf, ManagerHasJobLock, JpegJob, Places, Sessions, Change, Held, Sess
<1>31. ASSUME NEW s \in JpegSession, Enqueues(s)
      PROVE  Change'
  <2>1. session_j' = session_j
    BY <1>31 DEF Enqueues, Touches, Feeds, SessionField
  <2> QED BY <1>31, <2>1, JpegAssumption, Sequences, SMTT(15)
    DEF Enqueues, CallHasJobLock, CallIs, JobsOf, ManagerHasJobLock, JpegJob,
      Places, Sessions, Change, Held, Sess
<1>32. ASSUME PostEnds
      PROVE  Change'
  <2>1. session_j' = session_j
    BY <1>32 DEF PostEnds, Touches, Feeds, SessionField
  <2> QED BY <1>32, <2>1, JpegAssumption, Sequences, SMTT(15)
    DEF PostEnds, CallEnds, CallHasJobLock, CallIs, JobsOf, ManagerHasJobLock,
      JpegJob, Places, Sessions, Change, Held, Sess
<1>33. ASSUME NEW s \in JpegSession, AsksDestroy(s)
      PROVE  Change'
  <2>1. /\ \A t \in JpegSession : session_j'[t].active = session_j[t].active
        /\ \A t \in JpegSession : session_j'[t].error = session_j[t].error
    BY <1>33 DEF AsksDestroy, Touches, Feeds, SessionField
  <2> QED BY <1>33, <2>1, JpegAssumption, Sequences, SMTT(15)
    DEF AsksDestroy, CallHasJobLock, CallIs, JobsOf, ManagerHasJobLock, JpegJob,
      Places, Sessions, Change, Held, Sess
<1>34. ASSUME NEW s \in JpegSession, NEW j \in JpegJob, AsksAbort(s, j)
      PROVE  Change'
  <2>1. /\ \A t \in JpegSession : session_j'[t].active = session_j[t].active
        /\ \A t \in JpegSession : session_j'[t].error = session_j[t].error
    BY <1>34 DEF AsksAbort, Touches, Feeds, SessionField
  <2> QED BY <1>34, <2>1, JpegAssumption, Sequences, SMTT(15)
    DEF AsksAbort, CallHasJobLock, CallIs, JobsOf, ManagerHasJobLock, JpegJob,
      Places, Sessions, Change, Held, Sess
<1>35. ASSUME NEW s \in JpegSession, TakesOff(s)
      PROVE  Change'
  <2>1. session_j' = session_j
    BY <1>35 DEF TakesOff, Touches, Feeds, SessionField
  <2> QED BY <1>35, <2>1, JpegAssumption, Sequences, SMTT(15)
    DEF TakesOff, CallHasJobLock, CallIs, JobsOf, ManagerHasJobLock, JpegJob,
      Places, Sessions, Change, Held, Sess
<1>36. ASSUME NEW s \in JpegSession, Withdraws(s)
      PROVE  Change'
  <2>1. session_j' = session_j
    BY <1>36 DEF Withdraws, Touches, Feeds, SessionField
  <2> QED BY <1>36, <2>1, JpegAssumption, Sequences, SMTT(15)
    DEF Withdraws, CallEnds, CallHasJobLock, CallIs, JobsOf, ManagerHasJobLock,
      JpegJob, Places, Sessions, Change, Held, Sess
<1>37. ASSUME NEW s \in JpegSession, Forgets(s)
      PROVE  Change'
  <2>1. session_j' = session_j
    BY <1>37 DEF Forgets, Touches, Feeds, SessionField
  <2> QED BY <1>37, <2>1, JpegAssumption, Sequences, SMTT(15)
    DEF Forgets, CallHasJobLock, CallIs, JobsOf, ManagerHasJobLock, JpegJob,
      Places, Sessions, Change, Held, Sess
<1>38. ASSUME NEW s \in JpegSession, HaltsJob(s)
      PROVE  Change'
  <2>1. session_j' = session_j
    BY <1>38 DEF HaltsJob, Touches, Feeds, SessionField
  <2> QED BY <1>38, <2>1, JpegAssumption, Sequences, SMTT(15)
    DEF HaltsJob, CallEnds, CallHasJobLock, CallIs, JobsOf, ManagerHasJobLock,
      Unlocked, JpegJob, Places, Sessions, Change, Held, Sess
<1>39. ASSUME NEW s \in JpegSession, MarksJob(s)
      PROVE  Change'
  <2>1. /\ \A t \in JpegSession : session_j'[t].active = session_j[t].active
        /\ \A t \in JpegSession : session_j'[t].error = session_j[t].error
    BY <1>39 DEF MarksJob, Touches, Feeds, SessionField
  <2> QED BY <1>39, <2>1, JpegAssumption, Sequences, SMTT(15)
    DEF MarksJob, CallEnds, CallHasJobLock, CallIs, JobsOf, ManagerHasJobLock,
      Unlocked, JpegJob, Places, Sessions, Change, Held, Sess
<1>40. ASSUME NEW s \in JpegSession, HaltsSession(s)
      PROVE  Change'
  <2>1. session_j' = session_j
    BY <1>40 DEF HaltsSession, Touches, Feeds, SessionField
  <2> QED BY <1>40, <2>1, JpegAssumption, Sequences, SMTT(15)
    DEF HaltsSession, CallHasJobLock, CallIs, ChangeIs, JobsOf,
      ManagerHasJobLock, Unlocked, JpegJob, Places, Sessions, Change, Held,
      Sess
<1>41. ASSUME NEW s \in JpegSession, MarksSession(s)
      PROVE  Change'
  <2>1. /\ \A t \in JpegSession : session_j'[t].active = session_j[t].active
        /\ \A t \in JpegSession : session_j'[t].error = session_j[t].error
    BY <1>41 DEF MarksSession, Touches, Feeds, SessionField
  <2> QED BY <1>41, <2>1, JpegAssumption, Sequences, SMTT(15)
    DEF MarksSession, CallHasJobLock, CallIs, ChangeIs, JobsOf,
      ManagerHasJobLock, Unlocked, JpegJob, Places, Sessions, Change, Held,
      Sess
<1>42. ASSUME NEW s \in JpegSession, SendsIdle(s)
      PROVE  Change'
  <2>1. /\ \A t \in JpegSession : session_j'[t].active = session_j[t].active
        /\ \A t \in JpegSession : session_j'[t].error = session_j[t].error
    BY <1>42 DEF SendsIdle, Touches, Feeds, SessionField
  <2> QED BY <1>42, <2>1, JpegAssumption, Sequences, SMTT(15)
    DEF SendsIdle, CallHasJobLock, CallIs, JobsOf, ManagerHasJobLock, Unlocked,
      JpegJob, Places, Sessions, Change, Held, Sess
<1>43. ASSUME NEW s \in JpegSession, Frees(s)
      PROVE  Change'
  <2>1. /\ \A t \in JpegSession \ {s} : session_j'[t].active = session_j[t].active
        /\ \A t \in JpegSession \ {s} : session_j'[t].error = session_j[t].error
    BY <1>43 DEF Frees, Touches, Feeds, SessionField
  <2> QED BY <1>43, <2>1, JpegAssumption, Sequences, SMTT(15)
    DEF Frees, CallHasJobLock, CallIs, ChangeEnds, ChangeIs, Changed, IsNew,
      JobsOf, ManagerHasJobLock, Unlocked, JpegJob, Places, Sessions, Change,
      Held, Sess
<1> QED BY <1>1, <1>2, <1>3, <1>4, <1>5, <1>6, <1>7, <1>8, <1>9, <1>10, <1>11, <1>12,
  <1>13, <1>14, <1>15, <1>16, <1>17, <1>18, <1>19, <1>20, <1>21, <1>22, <1>23,
  <1>24, <1>25, <1>26, <1>27, <1>28, <1>29, <1>30, <1>31, <1>32, <1>33, <1>34,
  <1>35, <1>36, <1>37, <1>38, <1>39, <1>40, <1>41, <1>42, <1>43 DEF JpegStep
-----------------------------------------------------------------------------

(* Every elementary step preserves Drained.                                 *)
LEMMA DrainedKept ==
  ASSUME JpegTypeOK, Places, Sessions, Drained, JpegStep
  PROVE  Drained'
<1>1. ASSUME NEW s \in JpegSession,
             \/ Sends(s) \/ Skips(s) \/ Overcome(s) \/ Breaks(s)
             \/ Awaits(s) \/ Wakes(s) \/ ErrorElseWay(s)
      PROVE  Drained'
  <2>1. UNCHANGED <<job_queue, jobs, call, manager>>
    BY <1>1 DEF Sends, Skips, Overcome, Breaks, Awaits, Wakes, ErrorElseWay
  <2>2. /\ \A t \in JpegSession, f \in {"active", "encoding", "abort", "cb"} :
           session_j'[t][f] = session_j[t][f]
        /\ \A t \in JpegSession, f \in {"input", "work"} :
           omx'[t][f] = omx[t][f]
    BY <1>1 DEF Sends, Skips, Overcome, Breaks, Awaits, Wakes, ErrorElseWay, Touches,
      Feeds, SessionField
  <2> QED BY <2>1, <2>2 DEF Drained, Places, Holds, Held, Sess
<1>2. ASSUME Moves
      PROVE  Drained'
  <2>1. /\ session_j' = session_j
        /\ omx' = omx
    BY <1>2 DEF Moves, Touches, Feeds, SessionField
  <2> QED BY <1>2, <2>1, JpegAssumption, SMTT(15)
    DEF Moves, CallHasJobLock, JobsOf, ManagerHasJobLock, JpegJob, Places,
      Sessions, Drained, Held, Sess, Holds
<1>3. ASSUME NEW s \in JpegSession, NEW j \in JpegJob, Takes(s, j)
      PROVE  Drained'
  <2>1. /\ \A t \in JpegSession : session_j'[t].active = session_j[t].active
        /\ \A t \in JpegSession : session_j'[t].encoding = session_j[t].encoding
        /\ \A t \in JpegSession : session_j'[t].abort = session_j[t].abort
        /\ \A t \in JpegSession : session_j'[t].cb = session_j[t].cb
        /\ omx' = omx
    BY <1>3 DEF Takes, Touches, Feeds, SessionField
  <2> QED BY <1>3, <2>1, JpegAssumption, SMTT(15)
    DEF Takes, CallHasJobLock, JobsOf, ManagerHasJobLock, ManagerIs, JpegJob,
      Places, Sessions, Drained, Held, Sess, Holds
<1>4. ASSUME NEW s \in JpegSession, FindsConfigured(s)
      PROVE  Drained'
  <2>1. /\ \A t \in JpegSession : session_j'[t].active = session_j[t].active
        /\ \A t \in JpegSession : session_j'[t].cb = session_j[t].cb
        /\ \A t \in JpegSession \ {s} : session_j'[t].encoding = session_j[t].encoding
        /\ \A t \in JpegSession \ {s} : session_j'[t].abort = session_j[t].abort
        /\ omx' = omx
    BY <1>4 DEF FindsConfigured, Touches, Feeds, SessionField
  <2> QED BY <1>4, <2>1, JpegAssumption, SMTT(15)
    DEF FindsConfigured, CallHasJobLock, JobsOf, ManagerHasJobLock, ManagerIs,
      Unlocked, JpegJob, Places, Sessions, Drained, Held, Sess, Holds
<1>5. ASSUME NEW s \in JpegSession, FindsOther(s)
      PROVE  Drained'
  <2>1. /\ \A t \in JpegSession : session_j'[t].active = session_j[t].active
        /\ \A t \in JpegSession : session_j'[t].cb = session_j[t].cb
        /\ \A t \in JpegSession \ {s} : session_j'[t].encoding = session_j[t].encoding
        /\ \A t \in JpegSession \ {s} : session_j'[t].abort = session_j[t].abort
        /\ omx' = omx
    BY <1>5 DEF FindsOther, Touches, Feeds, SessionField
  <2> QED BY <1>5, <2>1, JpegAssumption, SMTT(15)
    DEF FindsOther, CallHasJobLock, ChangeIs, JobsOf, ManagerHasJobLock,
      ManagerIs, Unlocked, JpegJob, Places, Sessions, Drained, Held, Sess,
      Holds
<1>6. ASSUME NEW s \in JpegSession, FindsNone(s)
      PROVE  Drained'
  <2>1. /\ \A t \in JpegSession : session_j'[t].active = session_j[t].active
        /\ \A t \in JpegSession : session_j'[t].cb = session_j[t].cb
        /\ \A t \in JpegSession \ {s} : session_j'[t].encoding = session_j[t].encoding
        /\ \A t \in JpegSession \ {s} : session_j'[t].abort = session_j[t].abort
        /\ omx' = omx
    BY <1>6 DEF FindsNone, Touches, Feeds, SessionField
  <2> QED BY <1>6, <2>1, JpegAssumption, SMTT(15)
    DEF FindsNone, CallHasJobLock, ChangeIs, JobsOf, ManagerHasJobLock,
      ManagerIs, Unlocked, JpegJob, Places, Sessions, Drained, Held, Sess,
      Holds
<1>7. ASSUME NEW s \in JpegSession, Cleared(s)
      PROVE  Drained'
  <2>1. /\ \A t \in JpegSession : session_j'[t].active = session_j[t].active
        /\ \A t \in JpegSession : session_j'[t].encoding = session_j[t].encoding
        /\ \A t \in JpegSession : session_j'[t].abort = session_j[t].abort
        /\ \A t \in JpegSession : session_j'[t].cb = session_j[t].cb
        /\ omx' = omx
    BY <1>7 DEF Cleared, Touches, Feeds, SessionField
  <2> QED BY <1>7, <2>1, JpegAssumption, SMTT(15)
    DEF Cleared, CallHasJobLock, ChangeIs, Changed, JobsOf, ManagerHasJobLock,
      ManagerIs, JpegJob, Places, Sessions, Drained, Held, Sess, Holds
<1>8. ASSUME CannotConfigure
      PROVE  Drained'
  <2>1. /\ session_j' = session_j
        /\ omx' = omx
    BY <1>8 DEF CannotConfigure, Touches, Feeds, SessionField
  <2> QED BY <1>8, <2>1, JpegAssumption, SMTT(15)
    DEF CannotConfigure, CallHasJobLock, ChangeEnds, ChangeIs, JobsOf,
      ManagerHasJobLock, ManagerIs, JpegJob, Places, Sessions, Drained, Held,
      Sess, Holds
<1>9. ASSUME NEW s \in JpegSession, ConfiguredForJob(s)
      PROVE  Drained'
  <2>1. /\ \A t \in JpegSession : session_j'[t].active = session_j[t].active
        /\ \A t \in JpegSession : session_j'[t].encoding = session_j[t].encoding
        /\ \A t \in JpegSession : session_j'[t].abort = session_j[t].abort
        /\ \A t \in JpegSession : session_j'[t].cb = session_j[t].cb
        /\ omx' = omx
    BY <1>9 DEF ConfiguredForJob, Touches, Feeds, SessionField
  <2> QED BY <1>9, <2>1, JpegAssumption, SMTT(15)
    DEF ConfiguredForJob, CallHasJobLock, ChangeEnds, ChangeIs, Changed, JobsOf,
      ManagerHasJobLock, ManagerIs, JpegJob, Places, Sessions, Drained, Held,
      Sess, Holds
<1>10. ASSUME NEW s \in JpegSession, Starts(s)
      PROVE  Drained'
  <2>1. /\ \A t \in JpegSession : session_j'[t].active = session_j[t].active
        /\ \A t \in JpegSession : session_j'[t].abort = session_j[t].abort
        /\ \A t \in JpegSession : session_j'[t].cb = session_j[t].cb
        /\ \A t \in JpegSession \ {s} : session_j'[t].encoding = session_j[t].encoding
        /\ omx' = omx
    BY <1>10 DEF Starts, Touches, Feeds, SessionField
  <2> QED BY <1>10, <2>1, JpegAssumption, SMTT(15)
    DEF Starts, CallHasJobLock, JobsOf, ManagerHasJobLock, ManagerIs, Unlocked,
      JpegJob, Places, Sessions, Drained, Held, Sess, Holds
<1>11. ASSUME Refused
      PROVE  Drained'
  <2>1. /\ session_j' = session_j
        /\ omx' = omx
    BY <1>11 DEF Refused, Touches, Feeds, SessionField
  <2> QED BY <1>11, <2>1, JpegAssumption, SMTT(15)
    DEF Refused, CallHasJobLock, JobsOf, ManagerHasJobLock, ManagerIs,
      OmxMayFail, JpegJob, Places, Sessions, Drained, Held, Sess, Holds
<1>12. ASSUME NEW s \in JpegSession, NotReady(s)
      PROVE  Drained'
  <2>1. /\ session_j' = session_j
        /\ omx' = omx
    BY <1>12 DEF NotReady, Touches, Feeds, SessionField
  <2> QED BY <1>12, <2>1, JpegAssumption, SMTT(15)
    DEF NotReady, CallHasJobLock, JobsOf, ManagerHasJobLock, ManagerIs, JpegJob,
      Places, Sessions, Drained, Held, Sess, Holds
<1>13. ASSUME NEW s \in JpegSession, GetsInput(s)
      PROVE  Drained'
  <2>1. /\ session_j' = session_j
        /\ \A t \in JpegSession : omx'[t].work = omx[t].work
        /\ \A t \in JpegSession \ {s} : omx'[t].input = omx[t].input
    BY <1>13 DEF GetsInput, Touches, Feeds, SessionField
  <2> QED BY <1>13, <2>1, JpegAssumption, SMTT(15)
    DEF GetsInput, CallHasJobLock, JobsOf, ManagerHasJobLock, ManagerIs, JpegJob,
      Places, Sessions, Drained, Held, Sess, Holds
<1>14. ASSUME NEW s \in JpegSession, GetsOutput(s)
      PROVE  Drained'
  <2>1. /\ session_j' = session_j
        /\ \A t \in JpegSession : omx'[t].input = omx[t].input
        /\ \A t \in JpegSession \ {s} : omx'[t].work = omx[t].work
    BY <1>14 DEF GetsOutput, Touches, Feeds, SessionField
  <2> QED BY <1>14, <2>1, JpegAssumption, SMTT(15)
    DEF GetsOutput, CallHasJobLock, JobsOf, ManagerHasJobLock, ManagerIs,
      JpegJob, Places, Sessions, Drained, Held, Sess, Holds
<1>15. ASSUME NEW s \in JpegSession, Fails(s)
      PROVE  Drained'
  <2>1. /\ \A t \in JpegSession : session_j'[t].active = session_j[t].active
        /\ \A t \in JpegSession : session_j'[t].abort = session_j[t].abort
        /\ \A t \in JpegSession : session_j'[t].cb = session_j[t].cb
        /\ \A t \in JpegSession \ {s} : session_j'[t].encoding = session_j[t].encoding
        /\ omx' = omx
    BY <1>15 DEF Fails, Touches, Feeds, SessionField
  <2> QED BY <1>15, <2>1, JpegAssumption, SMTT(15)
    DEF Fails, Answers, CallHasJobLock, JobsOf, ManagerHasJobLock, ManagerIs,
      JpegJob, Places, Sessions, Drained, Held, Sess, Holds
<1>16. ASSUME NEW s \in JpegSession, DoneAborting(s)
      PROVE  Drained'
  <2>1. /\ \A t \in JpegSession : session_j'[t].active = session_j[t].active
        /\ \A t \in JpegSession : session_j'[t].encoding = session_j[t].encoding
        /\ \A t \in JpegSession : session_j'[t].cb = session_j[t].cb
        /\ \A t \in JpegSession \ {s} : session_j'[t].abort = session_j[t].abort
        /\ \A t \in JpegSession \ {s} : omx'[t].input = omx[t].input
        /\ \A t \in JpegSession \ {s} : omx'[t].work = omx[t].work
    BY <1>16 DEF DoneAborting, Touches, Feeds, SessionField
  <2> QED BY <1>16, <2>1, JpegAssumption, SMTT(15)
    DEF DoneAborting, CallHasJobLock, JobsOf, ManagerHasJobLock, Unlocked,
      JpegJob, Places, Sessions, Drained, Held, Sess, Holds
<1>17. ASSUME NEW s \in JpegSession, DoneAwaited(s)
      PROVE  Drained'
  <2>1. /\ \A t \in JpegSession : session_j'[t].active = session_j[t].active
        /\ \A t \in JpegSession : session_j'[t].encoding = session_j[t].encoding
        /\ \A t \in JpegSession : session_j'[t].abort = session_j[t].abort
        /\ \A t \in JpegSession : session_j'[t].cb = session_j[t].cb
        /\ \A t \in JpegSession \ {s} : omx'[t].input = omx[t].input
        /\ \A t \in JpegSession \ {s} : omx'[t].work = omx[t].work
    BY <1>17 DEF DoneAwaited, Touches, Feeds, SessionField
  <2> QED BY <1>17, <2>1, JpegAssumption, SMTT(15)
    DEF DoneAwaited, CallHasJobLock, JobsOf, ManagerHasJobLock, Unlocked,
      JpegJob, Places, Sessions, Drained, Held, Sess, Holds
<1>18. ASSUME NEW s \in JpegSession, DoneAlone(s)
      PROVE  Drained'
  <2>1. /\ session_j' = session_j
        /\ \A t \in JpegSession \ {s} : omx'[t].input = omx[t].input
        /\ \A t \in JpegSession \ {s} : omx'[t].work = omx[t].work
    BY <1>18 DEF DoneAlone, Touches, Feeds, SessionField
  <2> QED BY <1>18, <2>1, JpegAssumption, SMTT(15)
    DEF DoneAlone, CallHasJobLock, JobsOf, ManagerHasJobLock, Unlocked, JpegJob,
      Places, Sessions, Drained, Held, Sess, Holds
<1>19. ASSUME NEW s \in JpegSession, ErrorAbortingWay(s)
      PROVE  Drained'
  <2>1. /\ \A t \in JpegSession : session_j'[t].active = session_j[t].active
        /\ \A t \in JpegSession : session_j'[t].encoding = session_j[t].encoding
        /\ \A t \in JpegSession : session_j'[t].cb = session_j[t].cb
        /\ \A t \in JpegSession \ {s} : session_j'[t].abort = session_j[t].abort
        /\ \A t \in JpegSession : omx'[t].input = omx[t].input
        /\ \A t \in JpegSession : omx'[t].work = omx[t].work
    BY <1>19 DEF ErrorAbortingWay, Touches, Feeds, SessionField
  <2> QED BY <1>19, <2>1, JpegAssumption, SMTT(15)
    DEF ErrorAbortingWay, CallHasJobLock, JobsOf, ManagerHasJobLock, OmxMayFail,
      Unlocked, JpegJob, Places, Sessions, Drained, Held, Sess, Holds
<1>20. ASSUME NEW s \in JpegSession, ErrorEncodingWay(s)
      PROVE  Drained'
  <2>1. /\ \A t \in JpegSession : session_j'[t].active = session_j[t].active
        /\ \A t \in JpegSession : session_j'[t].encoding = session_j[t].encoding
        /\ \A t \in JpegSession : session_j'[t].abort = session_j[t].abort
        /\ \A t \in JpegSession \ {s} : session_j'[t].cb = session_j[t].cb
        /\ \A t \in JpegSession : omx'[t].input = omx[t].input
        /\ \A t \in JpegSession : omx'[t].work = omx[t].work
    BY <1>20 DEF ErrorEncodingWay, Touches, Feeds, SessionField
  <2> QED BY <1>20, <2>1, JpegAssumption, SMTT(15)
    DEF ErrorEncodingWay, Answers, CallHasJobLock, JobsOf, ManagerHasJobLock,
      OmxMayFail, Unlocked, JpegJob, Places, Sessions, Drained, Held, Sess,
      Holds
<1>21. ASSUME NEW s \in JpegSession, ErrorAbortingWork(s)
      PROVE  Drained'
  <2>1. /\ \A t \in JpegSession : session_j'[t].active = session_j[t].active
        /\ \A t \in JpegSession : session_j'[t].encoding = session_j[t].encoding
        /\ \A t \in JpegSession : session_j'[t].cb = session_j[t].cb
        /\ \A t \in JpegSession \ {s} : session_j'[t].abort = session_j[t].abort
        /\ \A t \in JpegSession \ {s} : omx'[t].input = omx[t].input
        /\ \A t \in JpegSession \ {s} : omx'[t].work = omx[t].work
    BY <1>21 DEF ErrorAbortingWork, Touches, Feeds, SessionField
  <2> QED BY <1>21, <2>1, JpegAssumption, SMTT(15)
    DEF ErrorAbortingWork, CallHasJobLock, JobsOf, ManagerHasJobLock, OmxMayFail,
      Unlocked, JpegJob, Places, Sessions, Drained, Held, Sess, Holds
<1>22. ASSUME NEW s \in JpegSession, ErrorEncodingWork(s)
      PROVE  Drained'
  <2>1. /\ \A t \in JpegSession : session_j'[t].active = session_j[t].active
        /\ \A t \in JpegSession : session_j'[t].encoding = session_j[t].encoding
        /\ \A t \in JpegSession : session_j'[t].abort = session_j[t].abort
        /\ \A t \in JpegSession \ {s} : session_j'[t].cb = session_j[t].cb
        /\ \A t \in JpegSession \ {s} : omx'[t].input = omx[t].input
        /\ \A t \in JpegSession \ {s} : omx'[t].work = omx[t].work
    BY <1>22 DEF ErrorEncodingWork, Touches, Feeds, SessionField
  <2> QED BY <1>22, <2>1, JpegAssumption, SMTT(15)
    DEF ErrorEncodingWork, Answers, CallHasJobLock, JobsOf, ManagerHasJobLock,
      OmxMayFail, Unlocked, JpegJob, Places, Sessions, Drained, Held, Sess,
      Holds
<1>23. ASSUME NEW s \in JpegSession, ErrorElseWork(s)
      PROVE  Drained'
  <2>1. /\ \A t \in JpegSession : session_j'[t].active = session_j[t].active
        /\ \A t \in JpegSession : session_j'[t].encoding = session_j[t].encoding
        /\ \A t \in JpegSession : session_j'[t].abort = session_j[t].abort
        /\ \A t \in JpegSession : session_j'[t].cb = session_j[t].cb
        /\ \A t \in JpegSession \ {s} : omx'[t].input = omx[t].input
        /\ \A t \in JpegSession \ {s} : omx'[t].work = omx[t].work
    BY <1>23 DEF ErrorElseWork, Touches, Feeds, SessionField
  <2> QED BY <1>23, <2>1, JpegAssumption, SMTT(15)
    DEF ErrorElseWork, CallHasJobLock, JobsOf, ManagerHasJobLock, OmxMayFail,
      Unlocked, JpegJob, Places, Sessions, Drained, Held, Sess, Holds
<1>24. ASSUME NEW s \in JpegSession, BufferBack(s)
      PROVE  Drained'
  <2>1. /\ session_j' = session_j
        /\ \A t \in JpegSession \ {s} : omx'[t].input = omx[t].input
        /\ \A t \in JpegSession \ {s} : omx'[t].work = omx[t].work
    BY <1>24 DEF BufferBack, Touches, Feeds, SessionField
  <2> QED BY <1>24, <2>1, JpegAssumption, SMTT(15)
    DEF BufferBack, CallHasJobLock, JobsOf, ManagerHasJobLock, Unlocked, JpegJob,
      Places, Sessions, Drained, Held, Sess, Holds
<1>25. ASSUME NEW s \in JpegSession, Encoded(s)
      PROVE  Drained'
  <2>1. /\ \A t \in JpegSession : session_j'[t].active = session_j[t].active
        /\ \A t \in JpegSession : session_j'[t].encoding = session_j[t].encoding
        /\ \A t \in JpegSession : session_j'[t].abort = session_j[t].abort
        /\ \A t \in JpegSession \ {s} : session_j'[t].cb = session_j[t].cb
        /\ \A t \in JpegSession \ {s} : omx'[t].input = omx[t].input
        /\ \A t \in JpegSession \ {s} : omx'[t].work = omx[t].work
    BY <1>25 DEF Encoded, Touches, Feeds, SessionField
  <2> QED BY <1>25, <2>1, JpegAssumption, SMTT(15)
    DEF Encoded, Answers, CallHasJobLock, JobsOf, ManagerHasJobLock, Unlocked,
      JpegJob, Places, Sessions, Drained, Held, Sess, Holds
<1>26. ASSUME NEW s \in JpegSession, Removes(s)
      PROVE  Drained'
  <2>1. /\ \A t \in JpegSession : session_j'[t].active = session_j[t].active
        /\ \A t \in JpegSession : session_j'[t].abort = session_j[t].abort
        /\ \A t \in JpegSession \ {s} : session_j'[t].encoding = session_j[t].encoding
        /\ \A t \in JpegSession \ {s} : session_j'[t].cb = session_j[t].cb
        /\ omx' = omx
    BY <1>26 DEF Removes, Touches, Feeds, SessionField
  <2> QED BY <1>26, <2>1, JpegAssumption, SMTT(15)
    DEF Removes, CallHasJobLock, JobsOf, ManagerHasJobLock, JpegJob, Places,
      Sessions, Drained, Held, Sess, Holds
<1>27. ASSUME NEW s \in JpegSession, GivesBack(s)
      PROVE  Drained'
  <2>1. /\ \A t \in JpegSession : session_j'[t].active = session_j[t].active
        /\ \A t \in JpegSession : session_j'[t].encoding = session_j[t].encoding
        /\ \A t \in JpegSession : session_j'[t].abort = session_j[t].abort
        /\ \A t \in JpegSession \ {s} : session_j'[t].cb = session_j[t].cb
        /\ omx' = omx
    BY <1>27 DEF GivesBack, Touches, Feeds, SessionField
  <2> QED BY <1>27, <2>1, JpegAssumption, SMTT(15)
    DEF GivesBack, CallHasJobLock, JobsOf, ManagerHasJobLock, JpegJob, Places,
      Sessions, Drained, Held, Sess, Holds
<1>28. ASSUME NEW s \in JpegSession, Posts(s)
      PROVE  Drained'
  <2>1. /\ \A t \in JpegSession : session_j'[t].active = session_j[t].active
        /\ \A t \in JpegSession : session_j'[t].encoding = session_j[t].encoding
        /\ \A t \in JpegSession : session_j'[t].abort = session_j[t].abort
        /\ \A t \in JpegSession \ {s} : session_j'[t].cb = session_j[t].cb
        /\ omx' = omx
    BY <1>28 DEF Posts, Touches, Feeds, SessionField
  <2> QED BY <1>28, <2>1, JpegAssumption, SMTT(15)
    DEF Posts, CallHasJobLock, JobsOf, ManagerHasJobLock, JpegJob, Places,
      Sessions, Drained, Held, Sess, Holds
<1>29. ASSUME NEW s \in JpegSession, Creates(s)
      PROVE  Drained'
  <2>1. /\ \A t \in JpegSession \ {s} : session_j'[t].active = session_j[t].active
        /\ \A t \in JpegSession \ {s} : session_j'[t].encoding = session_j[t].encoding
        /\ \A t \in JpegSession \ {s} : session_j'[t].abort = session_j[t].abort
        /\ \A t \in JpegSession \ {s} : session_j'[t].cb = session_j[t].cb
        /\ \A t \in JpegSession \ {s} : omx'[t].input = omx[t].input
        /\ \A t \in JpegSession \ {s} : omx'[t].work = omx[t].work
    BY <1>29 DEF Creates, Touches, Feeds, SessionField
  <2> QED BY <1>29, <2>1, JpegAssumption, SMTT(15)
    DEF Creates, CallHasJobLock, CallIs, IsNew, JobsOf, ManagerHasJobLock,
      JpegJob, Places, Sessions, Drained, Held, Sess, Holds
<1>30. ASSUME NEW s \in JpegSession, ConfiguresNew(s)
      PROVE  Drained'
  <2>1. /\ session_j' = session_j
        /\ omx' = omx
    BY <1>30 DEF ConfiguresNew, Touches, Feeds, SessionField
  <2> QED BY <1>30, <2>1, JpegAssumption, SMTT(15)
    DEF ConfiguresNew, CallHasJobLock, CallIs, ChangeIs, JobsOf,
      ManagerHasJobLock, JpegJob, Places, Sessions, Drained, Held, Sess, Holds
<1>31. ASSUME NEW s \in JpegSession, Usable(s)
      PROVE  Drained'
  <2>1. /\ \A t \in JpegSession : session_j'[t].active = session_j[t].active
        /\ \A t \in JpegSession : session_j'[t].encoding = session_j[t].encoding
        /\ \A t \in JpegSession : session_j'[t].abort = session_j[t].abort
        /\ \A t \in JpegSession : session_j'[t].cb = session_j[t].cb
        /\ omx' = omx
    BY <1>31 DEF Usable, Touches, Feeds, SessionField
  <2> QED BY <1>31, <2>1, JpegAssumption, SMTT(15)
    DEF Usable, CallEnds, CallHasJobLock, CallIs, JobsOf, ManagerHasJobLock,
      JpegJob, Places, Sessions, Drained, Held, Sess, Holds
<1>32. ASSUME NEW s \in JpegSession, Created(s)
      PROVE  Drained'
  <2>1. /\ \A t \in JpegSession : session_j'[t].active = session_j[t].active
        /\ \A t \in JpegSession : session_j'[t].encoding = session_j[t].encoding
        /\ \A t \in JpegSession : session_j'[t].abort = session_j[t].abort
        /\ \A t \in JpegSession : session_j'[t].cb = session_j[t].cb
        /\ omx' = omx
    BY <1>32 DEF Created, Touches, Feeds, SessionField
  <2> QED BY <1>32, <2>1, JpegAssumption, SMTT(15)
    DEF Created, CallEnds, CallHasJobLock, CallIs, ChangeEnds, ChangeIs, Changed,
      JobsOf, ManagerHasJobLock, JpegJob, Places, Sessions, Drained, Held,
      Sess, Holds
<1>33. ASSUME NotCreated
      PROVE  Drained'
  <2>1. /\ session_j' = session_j
        /\ omx' = omx
    BY <1>33 DEF NotCreated, Touches, Feeds, SessionField
  <2> QED BY <1>33, <2>1, JpegAssumption, SMTT(15)
    DEF NotCreated, CallEnds, CallHasJobLock, CallIs, ChangeEnds, ChangeIs,
      JobsOf, ManagerHasJobLock, JpegJob, Places, Sessions, Drained, Held,
      Sess, Holds
<1>34. ASSUME NEW s \in JpegSession, Enqueues(s)
      PROVE  Drained'
  <2>1. /\ session_j' = session_j
        /\ omx' = omx
    BY <1>34 DEF Enqueues, Touches, Feeds, SessionField
  <2> QED BY <1>34, <2>1, JpegAssumption, SMTT(15)
    DEF Enqueues, CallHasJobLock, CallIs, JobsOf, ManagerHasJobLock, JpegJob,
      Places, Sessions, Drained, Held, Sess, Holds
<1>35. ASSUME PostEnds
      PROVE  Drained'
  <2>1. /\ session_j' = session_j
        /\ omx' = omx
    BY <1>35 DEF PostEnds, Touches, Feeds, SessionField
  <2> QED BY <1>35, <2>1, JpegAssumption, SMTT(15)
    DEF PostEnds, CallEnds, CallHasJobLock, CallIs, JobsOf, ManagerHasJobLock,
      JpegJob, Places, Sessions, Drained, Held, Sess, Holds
<1>36. ASSUME NEW s \in JpegSession, AsksDestroy(s)
      PROVE  Drained'
  <2>1. /\ \A t \in JpegSession : session_j'[t].active = session_j[t].active
        /\ \A t \in JpegSession : session_j'[t].encoding = session_j[t].encoding
        /\ \A t \in JpegSession : session_j'[t].abort = session_j[t].abort
        /\ \A t \in JpegSession : session_j'[t].cb = session_j[t].cb
        /\ omx' = omx
    BY <1>36 DEF AsksDestroy, Touches, Feeds, SessionField
  <2> QED BY <1>36, <2>1, JpegAssumption, SMTT(15)
    DEF AsksDestroy, CallHasJobLock, CallIs, JobsOf, ManagerHasJobLock, JpegJob,
      Places, Sessions, Drained, Held, Sess, Holds
<1>37. ASSUME NEW s \in JpegSession, NEW j \in JpegJob, AsksAbort(s, j)
      PROVE  Drained'
  <2>1. /\ \A t \in JpegSession : session_j'[t].active = session_j[t].active
        /\ \A t \in JpegSession : session_j'[t].encoding = session_j[t].encoding
        /\ \A t \in JpegSession : session_j'[t].abort = session_j[t].abort
        /\ \A t \in JpegSession : session_j'[t].cb = session_j[t].cb
        /\ omx' = omx
    BY <1>37 DEF AsksAbort, Touches, Feeds, SessionField
  <2> QED BY <1>37, <2>1, JpegAssumption, SMTT(15)
    DEF AsksAbort, CallHasJobLock, CallIs, JobsOf, ManagerHasJobLock, JpegJob,
      Places, Sessions, Drained, Held, Sess, Holds
<1>38. ASSUME NEW s \in JpegSession, TakesOff(s)
      PROVE  Drained'
  <2>1. /\ session_j' = session_j
        /\ omx' = omx
    BY <1>38 DEF TakesOff, Touches, Feeds, SessionField
  <2> QED BY <1>38, <2>1, JpegAssumption, SMTT(15)
    DEF TakesOff, CallHasJobLock, CallIs, JobsOf, ManagerHasJobLock, JpegJob,
      Places, Sessions, Drained, Held, Sess, Holds
<1>39. ASSUME NEW s \in JpegSession, Withdraws(s)
      PROVE  Drained'
  <2>1. /\ session_j' = session_j
        /\ omx' = omx
    BY <1>39 DEF Withdraws, Touches, Feeds, SessionField
  <2> QED BY <1>39, <2>1, JpegAssumption, SMTT(15)
    DEF Withdraws, CallEnds, CallHasJobLock, CallIs, JobsOf, ManagerHasJobLock,
      JpegJob, Places, Sessions, Drained, Held, Sess, Holds
<1>40. ASSUME NEW s \in JpegSession, Forgets(s)
      PROVE  Drained'
  <2>1. /\ session_j' = session_j
        /\ omx' = omx
    BY <1>40 DEF Forgets, Touches, Feeds, SessionField
  <2> QED BY <1>40, <2>1, JpegAssumption, SMTT(15)
    DEF Forgets, CallHasJobLock, CallIs, JobsOf, ManagerHasJobLock, JpegJob,
      Places, Sessions, Drained, Held, Sess, Holds
<1>41. ASSUME NEW s \in JpegSession, HaltsJob(s)
      PROVE  Drained'
  <2>1. /\ session_j' = session_j
        /\ omx' = omx
    BY <1>41 DEF HaltsJob, Touches, Feeds, SessionField
  <2> QED BY <1>41, <2>1, JpegAssumption, SMTT(15)
    DEF HaltsJob, CallEnds, CallHasJobLock, CallIs, JobsOf, ManagerHasJobLock,
      Unlocked, JpegJob, Places, Sessions, Drained, Held, Sess, Holds
<1>42. ASSUME NEW s \in JpegSession, MarksJob(s)
      PROVE  Drained'
  <2>1. /\ \A t \in JpegSession : session_j'[t].active = session_j[t].active
        /\ \A t \in JpegSession : session_j'[t].encoding = session_j[t].encoding
        /\ \A t \in JpegSession : session_j'[t].cb = session_j[t].cb
        /\ \A t \in JpegSession \ {s} : session_j'[t].abort = session_j[t].abort
        /\ omx' = omx
    BY <1>42 DEF MarksJob, Touches, Feeds, SessionField
  <2> QED BY <1>42, <2>1, JpegAssumption, SMTT(15)
    DEF MarksJob, CallEnds, CallHasJobLock, CallIs, JobsOf, ManagerHasJobLock,
      Unlocked, JpegJob, Places, Sessions, Drained, Held, Sess, Holds
<1>43. ASSUME NEW s \in JpegSession, HaltsSession(s)
      PROVE  Drained'
  <2>1. /\ session_j' = session_j
        /\ omx' = omx
    BY <1>43 DEF HaltsSession, Touches, Feeds, SessionField
  <2> QED BY <1>43, <2>1, JpegAssumption, SMTT(15)
    DEF HaltsSession, CallHasJobLock, CallIs, ChangeIs, JobsOf,
      ManagerHasJobLock, Unlocked, JpegJob, Places, Sessions, Drained, Held,
      Sess, Holds
<1>44. ASSUME NEW s \in JpegSession, MarksSession(s)
      PROVE  Drained'
  <2>1. /\ \A t \in JpegSession : session_j'[t].active = session_j[t].active
        /\ \A t \in JpegSession : session_j'[t].encoding = session_j[t].encoding
        /\ \A t \in JpegSession : session_j'[t].cb = session_j[t].cb
        /\ \A t \in JpegSession \ {s} : session_j'[t].abort = session_j[t].abort
        /\ omx' = omx
    BY <1>44 DEF MarksSession, Touches, Feeds, SessionField
  <2> QED BY <1>44, <2>1, JpegAssumption, SMTT(15)
    DEF MarksSession, CallHasJobLock, CallIs, ChangeIs, JobsOf,
      ManagerHasJobLock, Unlocked, JpegJob, Places, Sessions, Drained, Held,
      Sess, Holds
<1>45. ASSUME NEW s \in JpegSession, SendsIdle(s)
      PROVE  Drained'
  <2>1. /\ \A t \in JpegSession : session_j'[t].active = session_j[t].active
        /\ \A t \in JpegSession : session_j'[t].encoding = session_j[t].encoding
        /\ \A t \in JpegSession : session_j'[t].cb = session_j[t].cb
        /\ \A t \in JpegSession \ {s} : session_j'[t].abort = session_j[t].abort
        /\ \A t \in JpegSession : omx'[t].input = omx[t].input
        /\ \A t \in JpegSession : omx'[t].work = omx[t].work
    BY <1>45 DEF SendsIdle, Touches, Feeds, SessionField
  <2> QED BY <1>45, <2>1, JpegAssumption, SMTT(15)
    DEF SendsIdle, CallHasJobLock, CallIs, JobsOf, ManagerHasJobLock, Unlocked,
      JpegJob, Places, Sessions, Drained, Held, Sess, Holds
<1>46. ASSUME NEW s \in JpegSession, Frees(s)
      PROVE  Drained'
  <2>1. /\ \A t \in JpegSession \ {s} : session_j'[t].active = session_j[t].active
        /\ \A t \in JpegSession \ {s} : session_j'[t].encoding = session_j[t].encoding
        /\ \A t \in JpegSession \ {s} : session_j'[t].abort = session_j[t].abort
        /\ \A t \in JpegSession \ {s} : session_j'[t].cb = session_j[t].cb
        /\ \A t \in JpegSession \ {s} : omx'[t].input = omx[t].input
        /\ \A t \in JpegSession \ {s} : omx'[t].work = omx[t].work
    BY <1>46 DEF Frees, Touches, Feeds, SessionField
  <2> QED BY <1>46, <2>1, JpegAssumption, SMTT(15)
    DEF Frees, CallHasJobLock, CallIs, ChangeEnds, ChangeIs, Changed, IsNew,
      JobsOf, ManagerHasJobLock, Unlocked, JpegJob, Places, Sessions, Drained,
      Held, Sess, Holds
<1> QED BY <1>1, <1>2, <1>3, <1>4, <1>5, <1>6, <1>7, <1>8, <1>9, <1>10, <1>11, <1>12,
  <1>13, <1>14, <1>15, <1>16, <1>17, <1>18, <1>19, <1>20, <1>21, <1>22, <1>23,
  <1>24, <1>25, <1>26, <1>27, <1>28, <1>29, <1>30, <1>31, <1>32, <1>33, <1>34,
  <1>35, <1>36, <1>37, <1>38, <1>39, <1>40, <1>41, <1>42, <1>43, <1>44, <1>45,
  <1>46 DEF JpegStep
-----------------------------------------------------------------------------
(* Every action is one of the elementary steps.                             *)
LEMMA Elementary ==
  ASSUME JpegTypeOK, Places, Sessions, Change, JpegNext
  PROVE  JpegStep
<1>1. CASE SendCommand \/ CheckChange \/ WakeChange
  BY <1>1, SendCommandSteps, CheckChangeSteps, WakeChangeSteps DEF JpegStep
<1>2. CASE SemWait \/ CheckOngoing \/ TakeJob
  BY <1>2, MovesSteps, TakeJobSteps DEF JpegStep
<1>3. CASE EncodeSession \/ ClearInProgress \/ ConfigureForJob
  BY <1>3, EncodeSessionSteps, ClearInProgressSteps, ConfigureForJobSteps DEF JpegStep
<1>4. CASE ConfigureJobParams \/ EmptyBuffer \/ FillBuffer \/ FailJob
  BY <1>4, ConfigureJobParamsSteps, EmptyBufferSteps, FillBufferSteps, FailJobSteps
     DEF JpegStep
<1>5. ASSUME NEW s \in JpegSession,
             CommandDone(s) \/ OmxError(s) \/ FillBufferDone(s) \/ JobDone(s)
      PROVE  JpegStep
  BY <1>5, CommandDoneSteps, OmxErrorSteps, FillBufferDoneSteps, JobDoneSteps
     DEF JpegStep
<1>6. CASE ConfigureNew \/ SessionCreated \/ SemPost
  BY <1>6, ConfigureNewSteps, SessionCreatedSteps, SemPostSteps DEF JpegStep
<1>7. CASE AbortJpegJob \/ DestroyJpegSession
  BY <1>7, AbortJpegJobSteps, DestroyJpegSessionSteps DEF JpegStep
<1>8. CASE SessionAbort \/ SessionAborted \/ FreeSession
  BY <1>8, SessionAbortSteps, SessionAbortedSteps, FreeSessionSteps DEF JpegStep
<1>9. ASSUME NEW s \in JpegSession,
             CreateSession(s) \/ StartJob(s) \/ AbortOrDestroy(s)
      PROVE  JpegStep
  BY <1>9, CreateSessionSteps, StartJobSteps, AbortOrDestroySteps DEF JpegStep
<1> QED
  BY <1>1, <1>2, <1>3, <1>4, <1>5, <1>6, <1>7, <1>8, <1>9 DEF JpegNext, JpegWork

(* Every action leaves the variables their types.                           *)
LEMMA TypeKept ==
  ASSUME JpegTypeOK, Places, Sessions, Change, JpegNext
  PROVE  JpegTypeOK'
<1>1. CASE JpegWork
  <2>1. ASSUME NEW s \in JpegSession,
               CommandDone(s) \/ OmxError(s) \/ FillBufferDone(s) \/ JobDone(s)
        PROVE  JpegTypeOK'
    BY <2>1, CommandDoneTypes, OmxErrorTypes, FillBufferDoneTypes, JobDoneTypes
  <2>2. CASE SendCommand \/ CheckChange \/ WakeChange \/ SemWait \/ CheckOngoing
    BY <2>2, SendCommandTypes, CheckChangeTypes, WakeChangeTypes, SemWaitTypes,
       CheckOngoingTypes
  <2>3. CASE TakeJob \/ EncodeSession \/ ClearInProgress \/ ConfigureForJob
    BY <2>3, TakeJobTypes, EncodeSessionTypes, ClearInProgressTypes,
       ConfigureForJobTypes
  <2>4. CASE ConfigureJobParams \/ EmptyBuffer \/ FillBuffer \/ FailJob
    BY <2>4, ConfigureJobParamsTypes, EmptyBufferTypes, FillBufferTypes, FailJobTypes
  <2>5. CASE ConfigureNew \/ SessionCreated \/ SemPost \/ AbortJpegJob
    BY <2>5, ConfigureNewTypes, SessionCreatedTypes, SemPostTypes, AbortJpegJobTypes
  <2>6. CASE DestroyJpegSession \/ SessionAbort \/ SessionAborted \/ FreeSession
    BY <2>6, DestroyJpegSessionTypes, SessionAbortTypes, SessionAbortedTypes,
       FreeSessionTypes
  <2> QED
    BY <1>1, <2>1, <2>2, <2>3, <2>4, <2>5, <2>6 DEF JpegWork
<1>2. ASSUME NEW s \in JpegSession,
             CreateSession(s) \/ StartJob(s) \/ AbortOrDestroy(s)
      PROVE  JpegTypeOK'
  BY <1>2, CreateSessionTypes, StartJobTypes, AbortOrDestroyTypes
<1> QED BY <1>1, <1>2 DEF JpegNext
=============================================================================
