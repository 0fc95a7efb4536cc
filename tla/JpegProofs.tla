---------------------------- MODULE JpegProofs -----------------------------
(***************************************************************************)
(* What is proved of JpegJobs for any set of sessions and any bounds: its  *)
(* type invariant, that the manager thread never submits a job to a        *)
(* component while a healthy one of another session is configured, and,    *)
(* when OMX reports one error at most, that a job is answered once at most *)
(* and never after it was withdrawn.                                       *)
(*                                                                         *)
(* JpegSteps defines the inductive invariant JInv and the elementary steps *)
(* of the model, and proves four of JInv's groups; here are those that     *)
(* rest on them.                                                           *)
(***************************************************************************)
EXTENDS JpegSteps, TLAPS

(* The step ErrorEncodingWork preserves Aborts.                             *)
LEMMA Aborts_ErrorEncodingWork ==
  ASSUME JpegTypeOK, Places, Sessions, Aborts, Clean,
         NEW s \in JpegSession, ErrorEncodingWork(s)
  PROVE  Aborts'
<1>1. /\ \A t \in JpegSession \ {s} : session_j'[t] = session_j[t]
      /\ \A f \in {"abort", "encoding"} : session_j'[s][f] = session_j[s][f]
      /\ session_j[s].abort # "init" /\ session_j[s].encoding
      /\ session_j'[s].cb = "remove" /\ session_j'[s].error = TRUE
      /\ OmxMayFail /\ UNCHANGED <<manager, jobs, call>> /\ omx[s].input # 0
  BY DEF ErrorEncodingWork, Touches, SessionField
<1>2. MaxOmxErrors <= 1 => session_j[s].abort # "done"
  <2>1. MaxOmxErrors <= 1 => spent.errors = 0
    BY <1>1, JpegAssumption DEF OmxMayFail, Sessions
  <2> QED BY <1>1, <2>1 DEF Clean
<1>3. session_j[s].abort \in {"none", "init", "done"}
  BY SessionTypes
<1> QED BY <1>1, <1>2, <1>3 DEF Aborts, Exact, Holds, Held, Sess

(* Every elementary step preserves Aborts.                                  *)
LEMMA AbortsKept ==
  ASSUME JpegTypeOK, Places, Sessions, Change, Drained, Aborts, ManagerInv,
         Clean, JpegStep
  PROVE  Aborts'
<1>1. ASSUME NEW s \in JpegSession,
             \/ Sends(s) \/ Skips(s) \/ Overcome(s) \/ Breaks(s)
             \/ Awaits(s) \/ Wakes(s) \/ DoneAwaited(s) \/ DoneAlone(s)
             \/ BufferBack(s)
      PROVE  Aborts'
  <2>1. UNCHANGED <<call, manager, jobs>>
    BY <1>1 DEF Sends, Skips, Overcome, Breaks, Awaits, Wakes, DoneAwaited, DoneAlone,
      BufferBack
  <2>2. /\ \A t \in JpegSession, f \in {"abort", "encoding", "cb", "error"} :
           session_j'[t][f] = session_j[t][f]
    BY <1>1 DEF Sends, Skips, Overcome, Breaks, Awaits, Wakes, DoneAwaited, DoneAlone,
      BufferBack, Touches, Feeds, SessionField
  <2> QED BY <2>1, <2>2 DEF Aborts, Exact, Holds, Held, Sess
<1>2. ASSUME Moves
      PROVE  Aborts'
  <2>1. session_j' = session_j
    BY <1>2 DEF Moves, Touches, Feeds, SessionField
  <2> QED BY <1>2, <2>1, JpegAssumption, SMTT(15)
    DEF Moves, CallHasJobLock, JobsOf, ManagerHasJobLock, JpegJob, Places,
      Sessions, Change, Aborts, ManagerInv, Held, Sess, Holds, Under, Exact
<1>3. ASSUME NEW s \in JpegSession, NEW j \in JpegJob, Takes(s, j)
      PROVE  Aborts'
  <2>1. /\ \A t \in JpegSession : session_j'[t].abort = session_j[t].abort
        /\ \A t \in JpegSession : session_j'[t].encoding = session_j[t].encoding
        /\ \A t \in JpegSession : session_j'[t].cb = session_j[t].cb
        /\ \A t \in JpegSession : session_j'[t].error = session_j[t].error
    BY <1>3 DEF Takes, Touches, Feeds, SessionField
  <2> QED BY <1>3, <2>1, JpegAssumption, SMTT(15)
    DEF Takes, CallHasJobLock, JobsOf, ManagerHasJobLock, ManagerIs, JpegJob,
      Places, Sessions, Change, Aborts, ManagerInv, Held, Sess, Holds, Under,
      Exact
<1>4. ASSUME NEW s \in JpegSession, FindsConfigured(s)
      PROVE  Aborts'
  <2>1. /\ \A t \in JpegSession : session_j'[t].cb = session_j[t].cb
        /\ \A t \in JpegSession : session_j'[t].error = session_j[t].error
        /\ \A t \in JpegSession \ {s} : session_j'[t].abort = session_j[t].abort
        /\ \A t \in JpegSession \ {s} : session_j'[t].encoding = session_j[t].encoding
    BY <1>4 DEF FindsConfigured, Touches, Feeds, SessionField
  <2> QED BY <1>4, <2>1, JpegAssumption, SMTT(15)
    DEF FindsConfigured, CallHasJobLock, JobsOf, ManagerHasJobLock, ManagerIs,
      Unlocked, JpegJob, Places, Sessions, Change, Aborts, ManagerInv, Held,
      Sess, Holds, Under, Exact
<1>5. ASSUME NEW s \in JpegSession, FindsOther(s)
      PROVE  Aborts'
  <2>1. /\ \A t \in JpegSession : session_j'[t].cb = session_j[t].cb
        /\ \A t \in JpegSession : session_j'[t].error = session_j[t].error
        /\ \A t \in JpegSession \ {s} : session_j'[t].abort = session_j[t].abort
        /\ \A t \in JpegSession \ {s} : session_j'[t].encoding = session_j[t].encoding
    BY <1>5 DEF FindsOther, Touches, Feeds, SessionField
  <2> QED BY <1>5, <2>1, JpegAssumption, SMTT(15)
    DEF FindsOther, CallHasJobLock, ChangeIs, JobsOf, ManagerHasJobLock,
      ManagerIs, Unlocked, JpegJob, Places, Sessions, Change, Aborts,
      ManagerInv, Held, Sess, Holds, Under, Exact
<1>6. ASSUME NEW s \in JpegSession, FindsNone(s)
      PROVE  Aborts'
  <2>1. /\ \A t \in JpegSession : session_j'[t].cb = session_j[t].cb
        /\ \A t \in JpegSession : session_j'[t].error = session_j[t].error
        /\ \A t \in JpegSession \ {s} : session_j'[t].abort = session_j[t].abort
        /\ \A t \in JpegSession \ {s} : session_j'[t].encoding = session_j[t].encoding
    BY <1>6 DEF FindsNone, Touches, Feeds, SessionField
  <2> QED BY <1>6, <2>1, JpegAssumption, SMTT(15)
    DEF FindsNone, CallHasJobLock, ChangeIs, JobsOf, ManagerHasJobLock,
      ManagerIs, Unlocked, JpegJob, Places, Sessions, Change, Aborts,
      ManagerInv, Held, Sess, Holds, Under, Exact
<1>7. ASSUME NEW s \in JpegSession, Cleared(s)
      PROVE  Aborts'
  <2>1. /\ \A t \in JpegSession : session_j'[t].abort = session_j[t].abort
        /\ \A t \in JpegSession : session_j'[t].encoding = session_j[t].encoding
        /\ \A t \in JpegSession : session_j'[t].cb = session_j[t].cb
        /\ \A t \in JpegSession : session_j'[t].error = session_j[t].error
    BY <1>7 DEF Cleared, Touches, Feeds, SessionField
  <2> QED BY <1>7, <2>1, JpegAssumption, SMTT(15)
    DEF Cleared, CallHasJobLock, ChangeIs, Changed, JobsOf, ManagerHasJobLock,
      ManagerIs, JpegJob, Places, Sessions, Change, Aborts, ManagerInv, Held,
      Sess, Holds, Under, Exact
<1>8. ASSUME CannotConfigure
      PROVE  Aborts'
  <2>1. session_j' = session_j
    BY <1>8 DEF CannotConfigure, Touches, Feeds, SessionField
  <2> QED BY <1>8, <2>1, JpegAssumption, SMTT(15)
    DEF CannotConfigure, CallHasJobLock, ChangeEnds, ChangeIs, JobsOf,
      ManagerHasJobLock, ManagerIs, JpegJob, Places, Sessions, Change, Aborts,
      ManagerInv, Held, Sess, Holds, Under, Exact
<1>9. ASSUME NEW s \in JpegSession, ConfiguredForJob(s)
      PROVE  Aborts'
  <2>1. /\ \A t \in JpegSession : session_j'[t].abort = session_j[t].abort
        /\ \A t \in JpegSession : session_j'[t].encoding = session_j[t].encoding
        /\ \A t \in JpegSession : session_j'[t].cb = session_j[t].cb
        /\ \A t \in JpegSession : session_j'[t].error = session_j[t].error
    BY <1>9 DEF ConfiguredForJob, Touches, Feeds, SessionField
  <2> QED BY <1>9, <2>1, JpegAssumption, SMTT(15)
    DEF ConfiguredForJob, CallHasJobLock, ChangeEnds, ChangeIs, Changed, JobsOf,
      ManagerHasJobLock, ManagerIs, JpegJob, Places, Sessions, Change, Aborts,
      ManagerInv, Held, Sess, Holds, Under, Exact
<1>10. ASSUME NEW s \in JpegSession, Starts(s)
      PROVE  Aborts'
  <2>1. /\ \A t \in JpegSession : session_j'[t].abort = session_j[t].abort
        /\ \A t \in JpegSession : session_j'[t].cb = session_j[t].cb
        /\ \A t \in JpegSession : session_j'[t].error = session_j[t].error
        /\ \A t \in JpegSession \ {s} : session_j'[t].encoding = session_j[t].encoding
    BY <1>10 DEF Starts, Touches, Feeds, SessionField
  <2> QED BY <1>10, <2>1, JpegAssumption, SMTT(15)
    DEF Starts, CallHasJobLock, JobsOf, ManagerHasJobLock, ManagerIs, Unlocked,
      JpegJob, Places, Sessions, Change, Aborts, ManagerInv, Held, Sess, Holds,
      Under, Exact
<1>11. ASSUME Refused
      PROVE  Aborts'
  <2>1. session_j' = session_j
    BY <1>11 DEF Refused, Touches, Feeds, SessionField
  <2> QED BY <1>11, <2>1, JpegAssumption, SMTT(15)
    DEF Refused, CallHasJobLock, JobsOf, ManagerHasJobLock, ManagerIs,
      OmxMayFail, JpegJob, Places, Sessions, Change, Aborts, ManagerInv, Held,
      Sess, Holds, Under, Exact
<1>12. ASSUME NEW s \in JpegSession, NotReady(s)
      PROVE  Aborts'
  <2>1. session_j' = session_j
    BY <1>12 DEF NotReady, Touches, Feeds, SessionField
  <2> QED BY <1>12, <2>1, JpegAssumption, SMTT(15)
    DEF NotReady, CallHasJobLock, JobsOf, ManagerHasJobLock, ManagerIs, JpegJob,
      Places, Sessions, Change, Aborts, ManagerInv, Held, Sess, Holds, Under,
      Exact
<1>13. ASSUME NEW s \in JpegSession, GetsInput(s)
      PROVE  Aborts'
  <2>1. session_j' = session_j
    BY <1>13 DEF GetsInput, Touches, Feeds, SessionField
  <2> QED BY <1>13, <2>1, JpegAssumption, SMTT(15)
    DEF GetsInput, CallHasJobLock, JobsOf, ManagerHasJobLock, ManagerIs, JpegJob,
      Places, Sessions, Change, Aborts, ManagerInv, Held, Sess, Holds, Under,
      Exact
<1>14. ASSUME NEW s \in JpegSession, GetsOutput(s)
      PROVE  Aborts'
  <2>1. session_j' = session_j
    BY <1>14 DEF GetsOutput, Touches, Feeds, SessionField
  <2> QED BY <1>14, <2>1, JpegAssumption, SMTT(15)
    DEF GetsOutput, CallHasJobLock, JobsOf, ManagerHasJobLock, ManagerIs,
      JpegJob, Places, Sessions, Change, Aborts, ManagerInv, Held, Sess, Holds,
      Under, Exact
<1>15. ASSUME NEW s \in JpegSession, Fails(s)
      PROVE  Aborts'
  <2>1. /\ \A t \in JpegSession : session_j'[t].abort = session_j[t].abort
        /\ \A t \in JpegSession : session_j'[t].cb = session_j[t].cb
        /\ \A t \in JpegSession : session_j'[t].error = session_j[t].error
        /\ \A t \in JpegSession \ {s} : session_j'[t].encoding = session_j[t].encoding
    BY <1>15 DEF Fails, Touches, Feeds, SessionField
  <2> QED BY <1>15, <2>1, JpegAssumption, SMTT(15)
    DEF Fails, Answers, CallHasJobLock, JobsOf, ManagerHasJobLock, ManagerIs,
      JpegJob, Places, Sessions, Change, Aborts, ManagerInv, Held, Sess, Holds,
      Under, Exact
<1>16. ASSUME NEW s \in JpegSession, DoneAborting(s)
      PROVE  Aborts'
  <2>1. /\ \A t \in JpegSession : session_j'[t].encoding = session_j[t].encoding
        /\ \A t \in JpegSession : session_j'[t].cb = session_j[t].cb
        /\ \A t \in JpegSession : session_j'[t].error = session_j[t].error
        /\ \A t \in JpegSession \ {s} : session_j'[t].abort = session_j[t].abort
    BY <1>16 DEF DoneAborting, Touches, Feeds, SessionField
  <2> QED BY <1>16, <2>1, JpegAssumption, SMTT(15)
    DEF DoneAborting, CallHasJobLock, JobsOf, ManagerHasJobLock, Unlocked,
      JpegJob, Places, Sessions, Change, Aborts, ManagerInv, Held, Sess, Holds,
      Under, Exact
<1>17. ASSUME NEW s \in JpegSession, ErrorAbortingWay(s)
      PROVE  Aborts'
  <2>1. /\ \A t \in JpegSession : session_j'[t].encoding = session_j[t].encoding
        /\ \A t \in JpegSession : session_j'[t].cb = session_j[t].cb
        /\ \A t \in JpegSession : session_j'[t].error = session_j[t].error
        /\ \A t \in JpegSession \ {s} : session_j'[t].abort = session_j[t].abort
    BY <1>17 DEF ErrorAbortingWay, Touches, Feeds, SessionField
  <2> QED BY <1>17, <2>1, JpegAssumption, SMTT(15)
    DEF ErrorAbortingWay, CallHasJobLock, JobsOf, ManagerHasJobLock, OmxMayFail,
      Unlocked, JpegJob, Places, Sessions, Change, Aborts, ManagerInv, Held,
      Sess, Holds, Under, Exact
<1>18. ASSUME NEW s \in JpegSession, ErrorEncodingWay(s)
      PROVE  Aborts'
  <2>1. /\ \A t \in JpegSession : session_j'[t].abort = session_j[t].abort
        /\ \A t \in JpegSession : session_j'[t].encoding = session_j[t].encoding
        /\ \A t \in JpegSession \ {s} : session_j'[t].cb = session_j[t].cb
        /\ \A t \in JpegSession \ {s} : session_j'[t].error = session_j[t].error
    BY <1>18 DEF ErrorEncodingWay, Touches, Feeds, SessionField
  <2> QED BY <1>18, <2>1, JpegAssumption, SMTT(15)
    DEF ErrorEncodingWay, Answers, CallHasJobLock, JobsOf, ManagerHasJobLock,
      OmxMayFail, Unlocked, JpegJob, Places, Sessions, Change, Drained, Aborts,
      ManagerInv, Held, Sess, Holds, Under, Exact
<1>19. ASSUME NEW s \in JpegSession, ErrorElseWay(s)
      PROVE  Aborts'
  <2>1. /\ \A t \in JpegSession : session_j'[t].abort = session_j[t].abort
        /\ \A t \in JpegSession : session_j'[t].encoding = session_j[t].encoding
        /\ \A t \in JpegSession : session_j'[t].cb = session_j[t].cb
        /\ \A t \in JpegSession \ {s} : session_j'[t].error = session_j[t].error
    BY <1>19 DEF ErrorElseWay, Touches, Feeds, SessionField
  <2> QED BY <1>19, <2>1, JpegAssumption, SMTT(15)
    DEF ErrorElseWay, CallHasJobLock, JobsOf, ManagerHasJobLock, OmxMayFail,
      Unlocked, JpegJob, Places, Sessions, Change, Aborts, ManagerInv, Held,
      Sess, Holds, Under, Exact
<1>20. ASSUME NEW s \in JpegSession, ErrorAbortingWork(s)
      PROVE  Aborts'
  <2>1. /\ \A t \in JpegSession : session_j'[t].encoding = session_j[t].encoding
        /\ \A t \in JpegSession : session_j'[t].cb = session_j[t].cb
        /\ \A t \in JpegSession : session_j'[t].error = session_j[t].error
        /\ \A t \in JpegSession \ {s} : session_j'[t].abort = session_j[t].abort
    BY <1>20 DEF ErrorAbortingWork, Touches, Feeds, SessionField
  <2> QED BY <1>20, <2>1, JpegAssumption, SMTT(15)
    DEF ErrorAbortingWork, CallHasJobLock, JobsOf, ManagerHasJobLock, OmxMayFail,
      Unlocked, JpegJob, Places, Sessions, Change, Aborts, ManagerInv, Held,
      Sess, Holds, Under, Exact
<1>21. ASSUME NEW s \in JpegSession, ErrorEncodingWork(s)
      PROVE  Aborts'
  BY <1>21, Aborts_ErrorEncodingWork
<1>22. ASSUME NEW s \in JpegSession, ErrorElseWork(s)
      PROVE  Aborts'
  <2>1. /\ \A t \in JpegSession : session_j'[t].abort = session_j[t].abort
        /\ \A t \in JpegSession : session_j'[t].encoding = session_j[t].encoding
        /\ \A t \in JpegSession : session_j'[t].cb = session_j[t].cb
        /\ \A t \in JpegSession \ {s} : session_j'[t].error = session_j[t].error
    BY <1>22 DEF ErrorElseWork, Touches, Feeds, SessionField
  <2> QED BY <1>22, <2>1, JpegAssumption, SMTT(15)
    DEF ErrorElseWork, CallHasJobLock, JobsOf, ManagerHasJobLock, OmxMayFail,
      Unlocked, JpegJob, Places, Sessions, Change, Aborts, ManagerInv, Held,
      Sess, Holds, Under, Exact
<1>23. ASSUME NEW s \in JpegSession, Encoded(s)
      PROVE  Aborts'
  <2>1. /\ \A t \in JpegSession : session_j'[t].abort = session_j[t].abort
        /\ \A t \in JpegSession : session_j'[t].encoding = session_j[t].encoding
        /\ \A t \in JpegSession : session_j'[t].error = session_j[t].error
        /\ \A t \in JpegSession \ {s} : session_j'[t].cb = session_j[t].cb
    BY <1>23 DEF Encoded, Touches, Feeds, SessionField
  <2> QED BY <1>23, <2>1, JpegAssumption, SMTT(15)
    DEF Encoded, Answers, CallHasJobLock, JobsOf, ManagerHasJobLock, Unlocked,
      JpegJob, Places, Sessions, Change, Aborts, ManagerInv, Held, Sess, Holds,
      Under, Exact
<1>24. ASSUME NEW s \in JpegSession, Removes(s)
      PROVE  Aborts'
  <2>1. /\ \A t \in JpegSession : session_j'[t].abort = session_j[t].abort
        /\ \A t \in JpegSession : session_j'[t].error = session_j[t].error
        /\ \A t \in JpegSession \ {s} : session_j'[t].encoding = session_j[t].encoding
        /\ \A t \in JpegSession \ {s} : session_j'[t].cb = session_j[t].cb
    BY <1>24 DEF Removes, Touches, Feeds, SessionField
  <2> QED BY <1>24, <2>1, JpegAssumption, SMTT(15)
    DEF Removes, CallHasJobLock, JobsOf, ManagerHasJobLock, JpegJob, Places,
      Sessions, Change, Aborts, ManagerInv, Held, Sess, Holds, Under, Exact
<1>25. ASSUME NEW s \in JpegSession, GivesBack(s)
      PROVE  Aborts'
  <2>1. /\ \A t \in JpegSession : session_j'[t].abort = session_j[t].abort
        /\ \A t \in JpegSession : session_j'[t].encoding = session_j[t].encoding
        /\ \A t \in JpegSession : session_j'[t].error = session_j[t].error
        /\ \A t \in JpegSession \ {s} : session_j'[t].cb = session_j[t].cb
    BY <1>25 DEF GivesBack, Touches, Feeds, SessionField
  <2> QED BY <1>25, <2>1, JpegAssumption, SMTT(15)
    DEF GivesBack, CallHasJobLock, JobsOf, ManagerHasJobLock, JpegJob, Places,
      Sessions, Change, Aborts, ManagerInv, Held, Sess, Holds, Under, Exact
<1>26. ASSUME NEW s \in JpegSession, Posts(s)
      PROVE  Aborts'
  <2>1. /\ \A t \in JpegSession : session_j'[t].abort = session_j[t].abort
        /\ \A t \in JpegSession : session_j'[t].encoding = session_j[t].encoding
        /\ \A t \in JpegSession : session_j'[t].error = session_j[t].error
        /\ \A t \in JpegSession \ {s} : session_j'[t].cb = session_j[t].cb
    BY <1>26 DEF Posts, Touches, Feeds, SessionField
  <2> QED BY <1>26, <2>1, JpegAssumption, SMTT(15)
    DEF Posts, CallHasJobLock, JobsOf, ManagerHasJobLock, JpegJob, Places,
      Sessions, Change, Aborts, ManagerInv, Held, Sess, Holds, Under, Exact
<1>27. ASSUME NEW s \in JpegSession, Creates(s)
      PROVE  Aborts'
  <2>1. /\ \A t \in JpegSession \ {s} : session_j'[t].abort = session_j[t].abort
        /\ \A t \in JpegSession \ {s} : session_j'[t].encoding = session_j[t].encoding
        /\ \A t \in JpegSession \ {s} : session_j'[t].cb = session_j[t].cb
        /\ \A t \in JpegSession \ {s} : session_j'[t].error = session_j[t].error
    BY <1>27 DEF Creates, Touches, Feeds, SessionField
  <2> QED BY <1>27, <2>1, JpegAssumption, SMTT(15)
    DEF Creates, CallHasJobLock, CallIs, IsNew, JobsOf, ManagerHasJobLock,
      JpegJob, Places, Sessions, Change, Aborts, ManagerInv, Held, Sess, Holds,
      Under, Exact
<1>28. ASSUME NEW s \in JpegSession, ConfiguresNew(s)
      PROVE  Aborts'
  <2>1. session_j' = session_j
    BY <1>28 DEF ConfiguresNew, Touches, Feeds, SessionField
  <2> QED BY <1>28, <2>1, JpegAssumption, SMTT(15)
    DEF ConfiguresNew, CallHasJobLock, CallIs, ChangeIs, JobsOf,
      ManagerHasJobLock, JpegJob, Places, Sessions, Change, Aborts, ManagerInv,
      Held, Sess, Holds, Under, Exact
<1>29. ASSUME NEW s \in JpegSession, Usable(s)
      PROVE  Aborts'
  <2>1. /\ \A t \in JpegSession : session_j'[t].abort = session_j[t].abort
        /\ \A t \in JpegSession : session_j'[t].encoding = session_j[t].encoding
        /\ \A t \in JpegSession : session_j'[t].cb = session_j[t].cb
        /\ \A t \in JpegSession : session_j'[t].error = session_j[t].error
    BY <1>29 DEF Usable, Touches, Feeds, SessionField
  <2> QED BY <1>29, <2>1, JpegAssumption, SMTT(15)
    DEF Usable, CallEnds, CallHasJobLock, CallIs, JobsOf, ManagerHasJobLock,
      JpegJob, Places, Sessions, Change, Aborts, ManagerInv, Held, Sess, Holds,
      Under, Exact
<1>30. ASSUME NEW s \in JpegSession, Created(s)
      PROVE  Aborts'
  <2>1. /\ \A t \in JpegSession : session_j'[t].abort = session_j[t].abort
        /\ \A t \in JpegSession : session_j'[t].encoding = session_j[t].encoding
        /\ \A t \in JpegSession : session_j'[t].cb = session_j[t].cb
        /\ \A t \in JpegSession : session_j'[t].error = session_j[t].error
    BY <1>30 DEF Created, Touches, Feeds, SessionField
  <2> QED BY <1>30, <2>1, JpegAssumption, SMTT(15)
    DEF Created, CallEnds, CallHasJobLock, CallIs, ChangeEnds, ChangeIs, Changed,
      JobsOf, ManagerHasJobLock, JpegJob, Places, Sessions, Change, Aborts,
      ManagerInv, Held, Sess, Holds, Under, Exact
<1>31. ASSUME NotCreated
      PROVE  Aborts'
  <2>1. session_j' = session_j
    BY <1>31 DEF NotCreated, Touches, Feeds, SessionField
  <2> QED BY <1>31, <2>1, JpegAssumption, SMTT(15)
    DEF NotCreated, CallEnds, CallHasJobLock, CallIs, ChangeEnds, ChangeIs,
      JobsOf, ManagerHasJobLock, JpegJob, Places, Sessions, Change, Aborts,
      ManagerInv, Held, Sess, Holds, Under, Exact
<1>32. ASSUME NEW s \in JpegSession, Enqueues(s)
      PROVE  Aborts'
  <2>1. session_j' = session_j
    BY <1>32 DEF Enqueues, Touches, Feeds, SessionField
  <2> QED BY <1>32, <2>1, JpegAssumption, SMTT(15)
    DEF Enqueues, CallHasJobLock, CallIs, JobsOf, ManagerHasJobLock, JpegJob,
      Places, Sessions, Change, Aborts, ManagerInv, Held, Sess, Holds, Under,
      Exact
<1>33. ASSUME PostEnds
      PROVE  Aborts'
  <2>1. session_j' = session_j
    BY <1>33 DEF PostEnds, Touches, Feeds, SessionField
  <2> QED BY <1>33, <2>1, JpegAssumption, SMTT(15)
    DEF PostEnds, CallEnds, CallHasJobLock, CallIs, JobsOf, ManagerHasJobLock,
      JpegJob, Places, Sessions, Change, Aborts, ManagerInv, Held, Sess, Holds,
      Under, Exact
<1>34. ASSUME NEW s \in JpegSession, AsksDestroy(s)
      PROVE  Aborts'
  <2>1. /\ \A t \in JpegSession : session_j'[t].abort = session_j[t].abort
        /\ \A t \in JpegSession : session_j'[t].encoding = session_j[t].encoding
        /\ \A t \in JpegSession : session_j'[t].cb = session_j[t].cb
        /\ \A t \in JpegSession : session_j'[t].error = session_j[t].error
    BY <1>34 DEF AsksDestroy, Touches, Feeds, SessionField
  <2> QED BY <1>34, <2>1, JpegAssumption, SMTT(15)
    DEF AsksDestroy, CallHasJobLock, CallIs, JobsOf, ManagerHasJobLock, JpegJob,
      Places, Sessions, Change, Aborts, ManagerInv, Held, Sess, Holds, Under,
      Exact
<1>35. ASSUME NEW s \in JpegSession, NEW j \in JpegJob, AsksAbort(s, j)
      PROVE  Aborts'
  <2>1. /\ \A t \in JpegSession : session_j'[t].abort = session_j[t].abort
        /\ \A t \in JpegSession : session_j'[t].encoding = session_j[t].encoding
        /\ \A t \in JpegSession : session_j'[t].cb = session_j[t].cb
        /\ \A t \in JpegSession : session_j'[t].error = session_j[t].error
    BY <1>35 DEF AsksAbort, Touches, Feeds, SessionField
  <2> QED BY <1>35, <2>1, JpegAssumption, SMTT(15)
    DEF AsksAbort, CallHasJobLock, CallIs, JobsOf, ManagerHasJobLock, JpegJob,
      Places, Sessions, Change, Aborts, ManagerInv, Held, Sess, Holds, Under,
      Exact
<1>36. ASSUME NEW s \in JpegSession, TakesOff(s)
      PROVE  Aborts'
  <2>1. session_j' = session_j
    BY <1>36 DEF TakesOff, Touches, Feeds, SessionField
  <2> QED BY <1>36, <2>1, JpegAssumption, SMTT(15)
    DEF TakesOff, CallHasJobLock, CallIs, JobsOf, ManagerHasJobLock, JpegJob,
      Places, Sessions, Change, Aborts, ManagerInv, Held, Sess, Holds, Under,
      Exact
<1>37. ASSUME NEW s \in JpegSession, Withdraws(s)
      PROVE  Aborts'
  <2>1. session_j' = session_j
    BY <1>37 DEF Withdraws, Touches, Feeds, SessionField
  <2> QED BY <1>37, <2>1, JpegAssumption, SMTT(15)
    DEF Withdraws, CallEnds, CallHasJobLock, CallIs, JobsOf, ManagerHasJobLock,
      JpegJob, Places, Sessions, Change, Aborts, ManagerInv, Held, Sess, Holds,
      Under, Exact
<1>38. ASSUME NEW s \in JpegSession, Forgets(s)
      PROVE  Aborts'
  <2>1. session_j' = session_j
    BY <1>38 DEF Forgets, Touches, Feeds, SessionField
  <2> QED BY <1>38, <2>1, JpegAssumption, SMTT(15)
    DEF Forgets, CallHasJobLock, CallIs, JobsOf, ManagerHasJobLock, JpegJob,
      Places, Sessions, Change, Aborts, ManagerInv, Held, Sess, Holds, Under,
      Exact
<1>39. ASSUME NEW s \in JpegSession, HaltsJob(s)
      PROVE  Aborts'
  <2>1. session_j' = session_j
    BY <1>39 DEF HaltsJob, Touches, Feeds, SessionField
  <2> QED BY <1>39, <2>1, JpegAssumption, SMTT(15)
    DEF HaltsJob, CallEnds, CallHasJobLock, CallIs, JobsOf, ManagerHasJobLock,
      Unlocked, JpegJob, Places, Sessions, Change, Aborts, ManagerInv, Held,
      Sess, Holds, Under, Exact
<1>40. ASSUME NEW s \in JpegSession, MarksJob(s)
      PROVE  Aborts'
  <2>1. /\ \A t \in JpegSession : session_j'[t].encoding = session_j[t].encoding
        /\ \A t \in JpegSession : session_j'[t].cb = session_j[t].cb
        /\ \A t \in JpegSession : session_j'[t].error = session_j[t].error
        /\ \A t \in JpegSession \ {s} : session_j'[t].abort = session_j[t].abort
    BY <1>40 DEF MarksJob, Touches, Feeds, SessionField
  <2> QED BY <1>40, <2>1, JpegAssumption, SMTT(15)
    DEF MarksJob, CallEnds, CallHasJobLock, CallIs, JobsOf, ManagerHasJobLock,
      Unlocked, JpegJob, Places, Sessions, Change, Aborts, ManagerInv, Held,
      Sess, Holds, Under, Exact
<1>41. ASSUME NEW s \in JpegSession, HaltsSession(s)
      PROVE  Aborts'
  <2>1. session_j' = session_j
    BY <1>41 DEF HaltsSession, Touches, Feeds, SessionField
  <2> QED BY <1>41, <2>1, JpegAssumption, SMTT(15)
    DEF HaltsSession, CallHasJobLock, CallIs, ChangeIs, JobsOf,
      ManagerHasJobLock, Unlocked, JpegJob, Places, Sessions, Change, Aborts,
      ManagerInv, Held, Sess, Holds, Under, Exact
<1>42. ASSUME NEW s \in JpegSession, MarksSession(s)
      PROVE  Aborts'
  <2>1. /\ \A t \in JpegSession : session_j'[t].encoding = session_j[t].encoding
        /\ \A t \in JpegSession : session_j'[t].cb = session_j[t].cb
        /\ \A t \in JpegSession : session_j'[t].error = session_j[t].error
        /\ \A t \in JpegSession \ {s} : session_j'[t].abort = session_j[t].abort
    BY <1>42 DEF MarksSession, Touches, Feeds, SessionField
  <2> QED BY <1>42, <2>1, JpegAssumption, SMTT(15)
    DEF MarksSession, CallHasJobLock, CallIs, ChangeIs, JobsOf,
      ManagerHasJobLock, Unlocked, JpegJob, Places, Sessions, Change, Aborts,
      ManagerInv, Held, Sess, Holds, Under, Exact
<1>43. ASSUME NEW s \in JpegSession, SendsIdle(s)
      PROVE  Aborts'
  <2>1. /\ \A t \in JpegSession : session_j'[t].encoding = session_j[t].encoding
        /\ \A t \in JpegSession : session_j'[t].cb = session_j[t].cb
        /\ \A t \in JpegSession : session_j'[t].error = session_j[t].error
        /\ \A t \in JpegSession \ {s} : session_j'[t].abort = session_j[t].abort
    BY <1>43 DEF SendsIdle, Touches, Feeds, SessionField
  <2> QED BY <1>43, <2>1, JpegAssumption, SMTT(15)
    DEF SendsIdle, CallHasJobLock, CallIs, JobsOf, ManagerHasJobLock, Unlocked,
      JpegJob, Places, Sessions, Change, Aborts, ManagerInv, Held, Sess, Holds,
      Under, Exact
<1>44. ASSUME NEW s \in JpegSession, Frees(s)
      PROVE  Aborts'
  <2>1. /\ \A t \in JpegSession \ {s} : session_j'[t].abort = session_j[t].abort
        /\ \A t \in JpegSession \ {s} : session_j'[t].encoding = session_j[t].encoding
        /\ \A t \in JpegSession \ {s} : session_j'[t].cb = session_j[t].cb
        /\ \A t \in JpegSession \ {s} : session_j'[t].error = session_j[t].error
    BY <1>44 DEF Frees, Touches, Feeds, SessionField
  <2> QED BY <1>44, <2>1, JpegAssumption, SMTT(15)
    DEF Frees, CallHasJobLock, CallIs, ChangeEnds, ChangeIs, Changed, IsNew,
      JobsOf, ManagerHasJobLock, Unlocked, JpegJob, Places, Sessions, Change,
      Aborts, ManagerInv, Held, Sess, Holds, Under, Exact
<1> QED BY <1>1, <1>2, <1>3, <1>4, <1>5, <1>6, <1>7, <1>8, <1>9, <1>10, <1>11, <1>12,
  <1>13, <1>14, <1>15, <1>16, <1>17, <1>18, <1>19, <1>20, <1>21, <1>22, <1>23,
  <1>24, <1>25, <1>26, <1>27, <1>28, <1>29, <1>30, <1>31, <1>32, <1>33, <1>34,
  <1>35, <1>36, <1>37, <1>38, <1>39, <1>40, <1>41, <1>42, <1>43, <1>44 DEF JpegStep
-----------------------------------------------------------------------------

(* The step GivesBack preserves Handles.                                    *)
LEMMA Handles_GivesBack ==
  ASSUME JpegTypeOK, Places, Sessions, Change, Aborts, Handles, ManagerInv,
         NEW s \in JpegSession, GivesBack(s)
  PROVE  Handles'
<1>1. \A t \in JpegSession \ {s} : session_j'[t] = session_j[t]
  BY DEF GivesBack, Touches
<1>2. /\ \A f \in {"active", "error", "encoding"} : session_j'[s][f] = session_j[s][f]
      /\ session_j[s].cb = "handle" /\ session_j'[s].cb = "post"
      /\ session_j'[s].handles = session_j[s].handles + 1
      /\ UNCHANGED <<manager, jobs>>
  BY DEF GivesBack, Touches, SessionField
<1>3. ASSUME NEW t \in JpegSession, session_j'[t].active, Exact(t)'
      PROVE  session_j'[t].handles = IF Out(t)' THEN 0 ELSE 1
  <2>1. CASE t # s
    BY <1>1, <1>2, <1>3, <2>1 DEF Handles, Out, Exact, Holds, Held, Sess
  <2>2. CASE t = s
    <3>1. session_j[s].active /\ Exact(s)
      BY <1>2, <1>3, <2>2 DEF Exact
    <3>2. session_j[s].handles = 0
      BY <1>2, <3>1 DEF Handles, Out
    <3>3. ~(Holds(s) /\ manager.at # "fill")
      BY <1>2, <3>1, Positions DEF ManagerInv, Under, Places, ManagerHasJobLock, Holds
    <3>4. ~session_j[s].encoding
      BY <1>2 DEF Aborts
    <3>5. ~Out(t)'
      BY <1>2, <2>2, <3>3, <3>4 DEF Out, Holds, Held, Sess
    <3> QED BY <1>2, <2>2, <3>2, <3>5
  <2> QED BY <2>1, <2>2
<1> QED BY <1>3 DEF Handles

(* Every elementary step preserves Handles.                                 *)
LEMMA HandlesKept ==
  ASSUME JpegTypeOK, Places, Sessions, Change, Aborts, Handles, ManagerInv, JpegStep
  PROVE  Handles'
<1>1. ASSUME NEW s \in JpegSession,
             \/ Sends(s) \/ Skips(s) \/ Overcome(s) \/ Breaks(s)
             \/ Awaits(s) \/ Wakes(s) \/ DoneAborting(s)
             \/ DoneAwaited(s) \/ DoneAlone(s) \/ ErrorAbortingWay(s)
             \/ ErrorAbortingWork(s) \/ BufferBack(s) \/ ConfiguresNew(s)
             \/ Usable(s) \/ Created(s) \/ AsksDestroy(s) \/ TakesOff(s)
             \/ Withdraws(s) \/ Forgets(s) \/ HaltsJob(s) \/ MarksJob(s)
             \/ HaltsSession(s) \/ MarksSession(s) \/ SendsIdle(s)
      PROVE  Handles'
  <2>1. UNCHANGED <<manager, jobs>>
    BY <1>1 DEF Sends, Skips, Overcome, Breaks, Awaits, Wakes, DoneAborting,
         DoneAwaited,
      DoneAlone, ErrorAbortingWay, ErrorAbortingWork, BufferBack,
      ConfiguresNew, Usable, Created, AsksDestroy, TakesOff, Withdraws,
      Forgets, HaltsJob, MarksJob, HaltsSession, MarksSession, SendsIdle
  <2>2. /\ \A t \in JpegSession, f \in {"active", "handles", "encoding", "cb",
              "error"} :
           session_j'[t][f] = session_j[t][f]
    BY <1>1 DEF Sends, Skips, Overcome, Breaks, Awaits, Wakes, DoneAborting,
         DoneAwaited,
      DoneAlone, ErrorAbortingWay, ErrorAbortingWork, BufferBack,
      ConfiguresNew, Usable, Created, AsksDestroy, TakesOff, Withdraws,
      Forgets, HaltsJob, MarksJob, HaltsSession, MarksSession, SendsIdle,
      Touches, Feeds, SessionField
  <2> QED BY <2>1, <2>2 DEF Handles, Exact, Out, Holds, Held, Sess
<1>2. ASSUME Moves
      PROVE  Handles'
  <2>1. session_j' = session_j
    BY <1>2 DEF Moves, Touches, Feeds, SessionField
  <2> QED BY <1>2, <2>1, JpegAssumption, SMTT(15)
    DEF Moves, CallHasJobLock, JobsOf, ManagerHasJobLock, JpegJob, Places,
      Sessions, Change, Aborts, Handles, ManagerInv, Held, Sess, Holds, Under,
      Exact, Out
<1>3. ASSUME NEW s \in JpegSession, NEW j \in JpegJob, Takes(s, j)
      PROVE  Handles'
  <2>1. /\ \A t \in JpegSession : session_j'[t].active = session_j[t].active
        /\ \A t \in JpegSession : session_j'[t].abort = session_j[t].abort
        /\ \A t \in JpegSession : session_j'[t].encoding = session_j[t].encoding
        /\ \A t \in JpegSession : session_j'[t].cb = session_j[t].cb
        /\ \A t \in JpegSession : session_j'[t].error = session_j[t].error
        /\ \A t \in JpegSession \ {s} : session_j'[t].handles = session_j[t].handles
    BY <1>3 DEF Takes, Touches, Feeds, SessionField
  <2> QED BY <1>3, <2>1, JpegAssumption, SMTT(15)
    DEF Takes, CallHasJobLock, JobsOf, ManagerHasJobLock, ManagerIs, JpegJob,
      Places, Sessions, Change, Aborts, Handles, ManagerInv, Held, Sess, Holds,
      Under, Exact, Out
<1>4. ASSUME NEW s \in JpegSession, FindsConfigured(s)
      PROVE  Handles'
  <2>1. /\ \A t \in JpegSession : session_j'[t].active = session_j[t].active
        /\ \A t \in JpegSession : session_j'[t].handles = session_j[t].handles
        /\ \A t \in JpegSession : session_j'[t].cb = session_j[t].cb
        /\ \A t \in JpegSession : session_j'[t].error = session_j[t].error
        /\ \A t \in JpegSession \ {s} : session_j'[t].abort = session_j[t].abort
        /\ \A t \in JpegSession \ {s} : session_j'[t].encoding = session_j[t].encoding
    BY <1>4 DEF FindsConfigured, Touches, Feeds, SessionField
  <2> QED BY <1>4, <2>1, JpegAssumption, SMTT(15)
    DEF FindsConfigured, CallHasJobLock, JobsOf, ManagerHasJobLock, ManagerIs,
      Unlocked, JpegJob, Places, Sessions, Change, Aborts, Handles, ManagerInv,
      Held, Sess, Holds, Under, Exact, Out
<1>5. ASSUME NEW s \in JpegSession, FindsOther(s)
      PROVE  Handles'
  <2>1. /\ \A t \in JpegSession : session_j'[t].active = session_j[t].active
        /\ \A t \in JpegSession : session_j'[t].handles = session_j[t].handles
        /\ \A t \in JpegSession : session_j'[t].cb = session_j[t].cb
        /\ \A t \in JpegSession : session_j'[t].error = session_j[t].error
        /\ \A t \in JpegSession \ {s} : session_j'[t].abort = session_j[t].abort
        /\ \A t \in JpegSession \ {s} : session_j'[t].encoding = session_j[t].encoding
    BY <1>5 DEF FindsOther, Touches, Feeds, SessionField
  <2> QED BY <1>5, <2>1, JpegAssumption, SMTT(15)
    DEF FindsOther, CallHasJobLock, ChangeIs, JobsOf, ManagerHasJobLock,
      ManagerIs, Unlocked, JpegJob, Places, Sessions, Change, Aborts, Handles,
      ManagerInv, Held, Sess, Holds, Under, Exact, Out
<1>6. ASSUME NEW s \in JpegSession, FindsNone(s)
      PROVE  Handles'
  <2>1. /\ \A t \in JpegSession : session_j'[t].active = session_j[t].active
        /\ \A t \in JpegSession : session_j'[t].handles = session_j[t].handles
        /\ \A t \in JpegSession : session_j'[t].cb = session_j[t].cb
        /\ \A t \in JpegSession : session_j'[t].error = session_j[t].error
        /\ \A t \in JpegSession \ {s} : session_j'[t].abort = session_j[t].abort
        /\ \A t \in JpegSession \ {s} : session_j'[t].encoding = session_j[t].encoding
    BY <1>6 DEF FindsNone, Touches, Feeds, SessionField
  <2> QED BY <1>6, <2>1, JpegAssumption, SMTT(15)
    DEF FindsNone, CallHasJobLock, ChangeIs, JobsOf, ManagerHasJobLock,
      ManagerIs, Unlocked, JpegJob, Places, Sessions, Change, Aborts, Handles,
      ManagerInv, Held, Sess, Holds, Under, Exact, Out
<1>7. ASSUME NEW s \in JpegSession, Cleared(s)
      PROVE  Handles'
  <2>1. /\ \A t \in JpegSession : session_j'[t].active = session_j[t].active
        /\ \A t \in JpegSession : session_j'[t].handles = session_j[t].handles
        /\ \A t \in JpegSession : session_j'[t].abort = session_j[t].abort
        /\ \A t \in JpegSession : session_j'[t].encoding = session_j[t].encoding
        /\ \A t \in JpegSession : session_j'[t].cb = session_j[t].cb
        /\ \A t \in JpegSession : session_j'[t].error = session_j[t].error
    BY <1>7 DEF Cleared, Touches, Feeds, SessionField
  <2> QED BY <1>7, <2>1, JpegAssumption, SMTT(15)
    DEF Cleared, CallHasJobLock, ChangeIs, Changed, JobsOf, ManagerHasJobLock,
      ManagerIs, JpegJob, Places, Sessions, Change, Aborts, Handles,
      ManagerInv, Held, Sess, Holds, Under, Exact, Out
<1>8. ASSUME CannotConfigure
      PROVE  Handles'
  <2>1. session_j' = session_j
    BY <1>8 DEF CannotConfigure, Touches, Feeds, SessionField
  <2> QED BY <1>8, <2>1, JpegAssumption, SMTT(15)
    DEF CannotConfigure, CallHasJobLock, ChangeEnds, ChangeIs, JobsOf,
      ManagerHasJobLock, ManagerIs, JpegJob, Places, Sessions, Change, Aborts,
      Handles, ManagerInv, Held, Sess, Holds, Under, Exact, Out
<1>9. ASSUME NEW s \in JpegSession, ConfiguredForJob(s)
      PROVE  Handles'
  <2>1. /\ \A t \in JpegSession : session_j'[t].active = session_j[t].active
        /\ \A t \in JpegSession : session_j'[t].handles = session_j[t].handles
        /\ \A t \in JpegSession : session_j'[t].abort = session_j[t].abort
        /\ \A t \in JpegSession : session_j'[t].encoding = session_j[t].encoding
        /\ \A t \in JpegSession : session_j'[t].cb = session_j[t].cb
        /\ \A t \in JpegSession : session_j'[t].error = session_j[t].error
    BY <1>9 DEF ConfiguredForJob, Touches, Feeds, SessionField
  <2> QED BY <1>9, <2>1, JpegAssumption, SMTT(15)
    DEF ConfiguredForJob, CallHasJobLock, ChangeEnds, ChangeIs, Changed, JobsOf,
      ManagerHasJobLock, ManagerIs, JpegJob, Places, Sessions, Change, Aborts,
      Handles, ManagerInv, Held, Sess, Holds, Under, Exact, Out
<1>10. ASSUME NEW s \in JpegSession, Starts(s)
      PROVE  Handles'
  <2>1. /\ \A t \in JpegSession : session_j'[t].active = session_j[t].active
        /\ \A t \in JpegSession : session_j'[t].handles = session_j[t].handles
        /\ \A t \in JpegSession : session_j'[t].abort = session_j[t].abort
        /\ \A t \in JpegSession : session_j'[t].cb = session_j[t].cb
        /\ \A t \in JpegSession : session_j'[t].error = session_j[t].error
        /\ \A t \in JpegSession \ {s} : session_j'[t].encoding = session_j[t].encoding
    BY <1>10 DEF Starts, Touches, Feeds, SessionField
  <2> QED BY <1>10, <2>1, JpegAssumption, SMTT(15)
    DEF Starts, CallHasJobLock, JobsOf, ManagerHasJobLock, ManagerIs, Unlocked,
      JpegJob, Places, Sessions, Change, Aborts, Handles, ManagerInv, Held,
      Sess, Holds, Under, Exact, Out
<1>11. ASSUME Refused
      PROVE  Handles'
  <2>1. session_j' = session_j
    BY <1>11 DEF Refused, Touches, Feeds, SessionField
  <2> QED BY <1>11, <2>1, JpegAssumption, SMTT(15)
    DEF Refused, CallHasJobLock, JobsOf, ManagerHasJobLock, ManagerIs,
      OmxMayFail, JpegJob, Places, Sessions, Change, Aborts, Handles,
      ManagerInv, Held, Sess, Holds, Under, Exact, Out
<1>12. ASSUME NEW s \in JpegSession, NotReady(s)
      PROVE  Handles'
  <2>1. session_j' = session_j
    BY <1>12 DEF NotReady, Touches, Feeds, SessionField
  <2> QED BY <1>12, <2>1, JpegAssumption, SMTT(15)
    DEF NotReady, CallHasJobLock, JobsOf, ManagerHasJobLock, ManagerIs, JpegJob,
      Places, Sessions, Change, Aborts, Handles, ManagerInv, Held, Sess, Holds,
      Under, Exact, Out
<1>13. ASSUME NEW s \in JpegSession, GetsInput(s)
      PROVE  Handles'
  <2>1. session_j' = session_j
    BY <1>13 DEF GetsInput, Touches, Feeds, SessionField
  <2> QED BY <1>13, <2>1, JpegAssumption, SMTT(15)
    DEF GetsInput, CallHasJobLock, JobsOf, ManagerHasJobLock, ManagerIs, JpegJob,
      Places, Sessions, Change, Aborts, Handles, ManagerInv, Held, Sess, Holds,
      Under, Exact, Out
<1>14. ASSUME NEW s \in JpegSession, GetsOutput(s)
      PROVE  Handles'
  <2>1. session_j' = session_j
    BY <1>14 DEF GetsOutput, Touches, Feeds, SessionField
  <2> QED BY <1>14, <2>1, JpegAssumption, SMTT(15)
    DEF GetsOutput, CallHasJobLock, JobsOf, ManagerHasJobLock, ManagerIs,
      JpegJob, Places, Sessions, Change, Aborts, Handles, ManagerInv, Held,
      Sess, Holds, Under, Exact, Out
<1>15. ASSUME NEW s \in JpegSession, Fails(s)
      PROVE  Handles'
  <2>1. /\ \A t \in JpegSession : session_j'[t].active = session_j[t].active
        /\ \A t \in JpegSession : session_j'[t].abort = session_j[t].abort
        /\ \A t \in JpegSession : session_j'[t].cb = session_j[t].cb
        /\ \A t \in JpegSession : session_j'[t].error = session_j[t].error
        /\ \A t \in JpegSession \ {s} : session_j'[t].handles = session_j[t].handles
        /\ \A t \in JpegSession \ {s} : session_j'[t].encoding = session_j[t].encoding
    BY <1>15 DEF Fails, Touches, Feeds, SessionField
  <2> QED BY <1>15, <2>1, JpegAssumption, SMTT(15)
    DEF Fails, Answers, CallHasJobLock, JobsOf, ManagerHasJobLock, ManagerIs,
      JpegJob, Places, Sessions, Change, Aborts, Handles, ManagerInv, Held,
      Sess, Holds, Under, Exact, Out
<1>16. ASSUME NEW s \in JpegSession, ErrorEncodingWay(s)
      PROVE  Handles'
  <2>1. /\ \A t \in JpegSession : session_j'[t].active = session_j[t].active
        /\ \A t \in JpegSession : session_j'[t].handles = session_j[t].handles
        /\ \A t \in JpegSession : session_j'[t].abort = session_j[t].abort
        /\ \A t \in JpegSession : session_j'[t].encoding = session_j[t].encoding
        /\ \A t \in JpegSession \ {s} : session_j'[t].cb = session_j[t].cb
        /\ \A t \in JpegSession \ {s} : session_j'[t].error = session_j[t].error
    BY <1>16 DEF ErrorEncodingWay, Touches, Feeds, SessionField
  <2> QED BY <1>16, <2>1, JpegAssumption, SMTT(15)
    DEF ErrorEncodingWay, Answers, CallHasJobLock, JobsOf, ManagerHasJobLock,
      OmxMayFail, Unlocked, JpegJob, Places, Sessions, Change, Aborts, Handles,
      ManagerInv, Held, Sess, Holds, Under, Exact, Out
<1>17. ASSUME NEW s \in JpegSession, ErrorElseWay(s)
      PROVE  Handles'
  <2>1. /\ \A t \in JpegSession : session_j'[t].active = session_j[t].active
        /\ \A t \in JpegSession : session_j'[t].handles = session_j[t].handles
        /\ \A t \in JpegSession : session_j'[t].abort = session_j[t].abort
        /\ \A t \in JpegSession : session_j'[t].encoding = session_j[t].encoding
        /\ \A t \in JpegSession : session_j'[t].cb = session_j[t].cb
        /\ \A t \in JpegSession \ {s} : session_j'[t].error = session_j[t].error
    BY <1>17 DEF ErrorElseWay, Touches, Feeds, SessionField
  <2> QED BY <1>17, <2>1, JpegAssumption, SMTT(15)
    DEF ErrorElseWay, CallHasJobLock, JobsOf, ManagerHasJobLock, OmxMayFail,
      Unlocked, JpegJob, Places, Sessions, Change, Aborts, Handles, ManagerInv,
      Held, Sess, Holds, Under, Exact, Out
<1>18. ASSUME NEW s \in JpegSession, ErrorEncodingWork(s)
      PROVE  Handles'
  <2>1. /\ \A t \in JpegSession : session_j'[t].active = session_j[t].active
        /\ \A t \in JpegSession : session_j'[t].handles = session_j[t].handles
        /\ \A t \in JpegSession : session_j'[t].abort = session_j[t].abort
        /\ \A t \in JpegSession : session_j'[t].encoding = session_j[t].encoding
        /\ \A t \in JpegSession \ {s} : session_j'[t].cb = session_j[t].cb
        /\ \A t \in JpegSession \ {s} : session_j'[t].error = session_j[t].error
    BY <1>18 DEF ErrorEncodingWork, Touches, Feeds, SessionField
  <2> QED BY <1>18, <2>1, JpegAssumption, SMTT(15)
    DEF ErrorEncodingWork, Answers, CallHasJobLock, JobsOf, ManagerHasJobLock,
      OmxMayFail, Unlocked, JpegJob, Places, Sessions, Change, Aborts, Handles,
      ManagerInv, Held, Sess, Holds, Under, Exact, Out
<1>19. ASSUME NEW s \in JpegSession, ErrorElseWork(s)
      PROVE  Handles'
  <2>1. /\ \A t \in JpegSession : session_j'[t].active = session_j[t].active
        /\ \A t \in JpegSession : session_j'[t].handles = session_j[t].handles
        /\ \A t \in JpegSession : session_j'[t].abort = session_j[t].abort
        /\ \A t \in JpegSession : session_j'[t].encoding = session_j[t].encoding
        /\ \A t \in JpegSession : session_j'[t].cb = session_j[t].cb
        /\ \A t \in JpegSession \ {s} : session_j'[t].error = session_j[t].error
    BY <1>19 DEF ErrorElseWork, Touches, Feeds, SessionField
  <2> QED BY <1>19, <2>1, JpegAssumption, SMTT(15)
    DEF ErrorElseWork, CallHasJobLock, JobsOf, ManagerHasJobLock, OmxMayFail,
      Unlocked, JpegJob, Places, Sessions, Change, Aborts, Handles, ManagerInv,
      Held, Sess, Holds, Under, Exact, Out
<1>20. ASSUME NEW s \in JpegSession, Encoded(s)
      PROVE  Handles'
  <2>1. /\ \A t \in JpegSession : session_j'[t].active = session_j[t].active
        /\ \A t \in JpegSession : session_j'[t].handles = session_j[t].handles
        /\ \A t \in JpegSession : session_j'[t].abort = session_j[t].abort
        /\ \A t \in JpegSession : session_j'[t].encoding = session_j[t].encoding
        /\ \A t \in JpegSession : session_j'[t].error = session_j[t].error
        /\ \A t \in JpegSession \ {s} : session_j'[t].cb = session_j[t].cb
    BY <1>20 DEF Encoded, Touches, Feeds, SessionField
  <2> QED BY <1>20, <2>1, JpegAssumption, SMTT(15)
    DEF Encoded, Answers, CallHasJobLock, JobsOf, ManagerHasJobLock, Unlocked,
      JpegJob, Places, Sessions, Change, Aborts, Handles, ManagerInv, Held,
      Sess, Holds, Under, Exact, Out
<1>21. ASSUME NEW s \in JpegSession, Removes(s)
      PROVE  Handles'
  <2>1. /\ \A t \in JpegSession : session_j'[t].active = session_j[t].active
        /\ \A t \in JpegSession : session_j'[t].handles = session_j[t].handles
        /\ \A t \in JpegSession : session_j'[t].abort = session_j[t].abort
        /\ \A t \in JpegSession : session_j'[t].error = session_j[t].error
        /\ \A t \in JpegSession \ {s} : session_j'[t].encoding = session_j[t].encoding
        /\ \A t \in JpegSession \ {s} : session_j'[t].cb = session_j[t].cb
    BY <1>21 DEF Removes, Touches, Feeds, SessionField
  <2> QED BY <1>21, <2>1, JpegAssumption, SMTT(15)
    DEF Removes, CallHasJobLock, JobsOf, ManagerHasJobLock, JpegJob, Places,
      Sessions, Change, Aborts, Handles, ManagerInv, Held, Sess, Holds, Under,
      Exact, Out
<1>22. ASSUME NEW s \in JpegSession, GivesBack(s)
      PROVE  Handles'
  BY <1>22, Handles_GivesBack
<1>23. ASSUME NEW s \in JpegSession, Posts(s)
      PROVE  Handles'
  <2>1. /\ \A t \in JpegSession : session_j'[t].active = session_j[t].active
        /\ \A t \in JpegSession : session_j'[t].handles = session_j[t].handles
        /\ \A t \in JpegSession : session_j'[t].abort = session_j[t].abort
        /\ \A t \in JpegSession : session_j'[t].encoding = session_j[t].encoding
        /\ \A t \in JpegSession : session_j'[t].error = session_j[t].error
        /\ \A t \in JpegSession \ {s} : session_j'[t].cb = session_j[t].cb
    BY <1>23 DEF Posts, Touches, Feeds, SessionField
  <2> QED BY <1>23, <2>1, JpegAssumption, SMTT(15)
    DEF Posts, CallHasJobLock, JobsOf, ManagerHasJobLock, JpegJob, Places,
      Sessions, Change, Aborts, Handles, ManagerInv, Held, Sess, Holds, Under,
      Exact, Out
<1>24. ASSUME NEW s \in JpegSession, Creates(s)
      PROVE  Handles'
  <2>1. /\ \A t \in JpegSession \ {s} : session_j'[t].active = session_j[t].active
        /\ \A t \in JpegSession \ {s} : session_j'[t].handles = session_j[t].handles
        /\ \A t \in JpegSession \ {s} : session_j'[t].abort = session_j[t].abort
        /\ \A t \in JpegSession \ {s} : session_j'[t].encoding = session_j[t].encoding
        /\ \A t \in JpegSession \ {s} : session_j'[t].cb = session_j[t].cb
        /\ \A t \in JpegSession \ {s} : session_j'[t].error = session_j[t].error
    BY <1>24 DEF Creates, Touches, Feeds, SessionField
  <2> QED BY <1>24, <2>1, JpegAssumption, SMTT(15)
    DEF Creates, CallHasJobLock, CallIs, IsNew, JobsOf, ManagerHasJobLock,
      JpegJob, Places, Sessions, Change, Aborts, Handles, ManagerInv, Held,
      Sess, Holds, Under, Exact, Out
<1>25. ASSUME NotCreated
      PROVE  Handles'
  <2>1. session_j' = session_j
    BY <1>25 DEF NotCreated, Touches, Feeds, SessionField
  <2> QED BY <1>25, <2>1, JpegAssumption, SMTT(15)
    DEF NotCreated, CallEnds, CallHasJobLock, CallIs, ChangeEnds, ChangeIs,
      JobsOf, ManagerHasJobLock, JpegJob, Places, Sessions, Change, Aborts,
      Handles, ManagerInv, Held, Sess, Holds, Under, Exact, Out
<1>26. ASSUME NEW s \in JpegSession, Enqueues(s)
      PROVE  Handles'
  <2>1. session_j' = session_j
    BY <1>26 DEF Enqueues, Touches, Feeds, SessionField
  <2> QED BY <1>26, <2>1, JpegAssumption, SMTT(15)
    DEF Enqueues, CallHasJobLock, CallIs, JobsOf, ManagerHasJobLock, JpegJob,
      Places, Sessions, Change, Aborts, Handles, ManagerInv, Held, Sess, Holds,
      Under, Exact, Out
<1>27. ASSUME PostEnds
      PROVE  Handles'
  <2>1. session_j' = session_j
    BY <1>27 DEF PostEnds, Touches, Feeds, SessionField
  <2> QED BY <1>27, <2>1, JpegAssumption, SMTT(15)
    DEF PostEnds, CallEnds, CallHasJobLock, CallIs, JobsOf, ManagerHasJobLock,
      JpegJob, Places, Sessions, Change, Aborts, Handles, ManagerInv, Held,
      Sess, Holds, Under, Exact, Out
<1>28. ASSUME NEW s \in JpegSession, NEW j \in JpegJob, AsksAbort(s, j)
      PROVE  Handles'
  <2>1. /\ \A t \in JpegSession : session_j'[t].active = session_j[t].active
        /\ \A t \in JpegSession : session_j'[t].handles = session_j[t].handles
        /\ \A t \in JpegSession : session_j'[t].abort = session_j[t].abort
        /\ \A t \in JpegSession : session_j'[t].encoding = session_j[t].encoding
        /\ \A t \in JpegSession : session_j'[t].cb = session_j[t].cb
        /\ \A t \in JpegSession : session_j'[t].error = session_j[t].error
    BY <1>28 DEF AsksAbort, Touches, Feeds, SessionField
  <2> QED BY <1>28, <2>1, JpegAssumption, SMTT(15)
    DEF AsksAbort, CallHasJobLock, CallIs, JobsOf, ManagerHasJobLock, JpegJob,
      Places, Sessions, Change, Aborts, Handles, ManagerInv, Held, Sess, Holds,
      Under, Exact, Out
<1>29. ASSUME NEW s \in JpegSession, Frees(s)
      PROVE  Handles'
  <2>1. /\ \A t \in JpegSession \ {s} : session_j'[t].active = session_j[t].active
        /\ \A t \in JpegSession \ {s} : session_j'[t].handles = session_j[t].handles
        /\ \A t \in JpegSession \ {s} : session_j'[t].abort = session_j[t].abort
        /\ \A t \in JpegSession \ {s} : session_j'[t].encoding = session_j[t].encoding
        /\ \A t \in JpegSession \ {s} : session_j'[t].cb = session_j[t].cb
        /\ \A t \in JpegSession \ {s} : session_j'[t].error = session_j[t].error
    BY <1>29 DEF Frees, Touches, Feeds, SessionField
  <2> QED BY <1>29, <2>1, JpegAssumption, SMTT(15)
    DEF Frees, CallHasJobLock, CallIs, ChangeEnds, ChangeIs, Changed, IsNew,
      JobsOf, ManagerHasJobLock, Unlocked, JpegJob, Places, Sessions, Change,
      Aborts, Handles, ManagerInv, Held, Sess, Holds, Under, Exact, Out
<1> QED BY <1>1, <1>2, <1>3, <1>4, <1>5, <1>6, <1>7, <1>8, <1>9, <1>10, <1>11, <1>12,
  <1>13, <1>14, <1>15, <1>16, <1>17, <1>18, <1>19, <1>20, <1>21, <1>22, <1>23,
  <1>24, <1>25, <1>26, <1>27, <1>28, <1>29 DEF JpegStep
-----------------------------------------------------------------------------

(* A component that does not execute when a buffer is handed to it has      *)
(* reported an error.                                                       *)
LEMMA NotReadyAfterError ==
  ASSUME JpegTypeOK, Places, Sessions, Change, Aborts, ManagerInv, Components,
         NEW s \in JpegSession, NotReady(s)
  PROVE  spent.errors > 0
<1>1. /\ Holds(s) /\ Sess = s /\ manager.at \in {"submit", "fill"}
      /\ omx[s].state # "Executing"
  BY DEF NotReady, Places, ManagerHasJobLock, Held, Sess, Holds
<1>2. session_j[s].active /\ session_j[s].config /\ session_j[s].abort = "none"
  BY <1>1 DEF Places, ManagerInv, Aborts, Held, Holds
<1>3. change.on # s
  BY <1>1, JpegAssumption DEF Change, Places, CallHasJobLock, Holds
<1>4. Bad(s)
  BY <1>1, <1>2, <1>3 DEF Components, Component, Steady
<1> QED BY <1>2, <1>4 DEF Bad, Sessions

(* The step Takes preserves ManagerInv.                                     *)
LEMMA ManagerInv_Takes ==
  ASSUME JpegTypeOK, Places, Sessions, Drained, Aborts, Handles, ManagerInv,
         NEW s \in JpegSession, NEW j \in JpegJob, Takes(s, j)
  PROVE  ManagerInv'
<1>1. /\ \A t \in JpegSession \ {s} : session_j'[t] = session_j[t]
      /\ \A f \in {"abort", "encoding", "error", "cb",
            "active"} : session_j'[s][f] = session_j[s][f]
      /\ manager.at = "lock" /\ j \in job_queue /\ jobs[j] = s
           /\ session_j[s].handles # 0
      /\ manager'.at = "encode" /\ manager'.job = j /\ UNCHANGED <<jobs, omx>>
  BY DEF Takes, Touches, ManagerIs, SessionField
<1>2. session_j[s].active /\ ~Held
  BY <1>1 DEF Drained, Places, ManagerHasJobLock
<1>3. Exact(s) => ~session_j[s].encoding /\ session_j[s].cb \in {"idle", "post"}
  BY <1>1, <1>2, SessionTypes DEF Handles, Out
<1>4. ASSUME NEW t \in JpegSession, Exact(t)'
      PROVE  Under(t)' /\ (omx'[t].work # 0 => session_j'[t].encoding /\ ~Holds(t)'
               /\ session_j'[t].cb = "idle")
  <2>1. Exact(t)
    BY <1>1, <1>4 DEF Exact
  <2>2. CASE t = s
    BY <1>1, <1>3, <2>1, <2>2 DEF Under, ManagerInv
  <2>3. CASE t # s
    BY <1>1, <2>1, <2>3 DEF Under, ManagerInv, Holds, Held, Sess
  <2> QED BY <2>2, <2>3
<1> QED BY <1>1, <1>4 DEF ManagerInv, Under

(* The step NotReady preserves ManagerInv.                                  *)
LEMMA ManagerInv_NotReady ==
  ASSUME JpegTypeOK, Places, Sessions, Change, Aborts, ManagerInv, Components,
         NEW s \in JpegSession, NotReady(s)
  PROVE  ManagerInv'
<1>1. /\ manager.at \in {"submit", "fill"} /\ jobs[manager.job] = s
      /\ omx[s].state # "Executing"
      /\ manager'.at = "fail" /\ manager'.job = manager.job
      /\ UNCHANGED <<session_j, omx, spent, jobs>>
  BY DEF NotReady, ManagerIs
<1>2. spent.errors > 0
  BY NotReadyAfterError
<1>3. \A t \in JpegSession : Under(t)'
  BY <1>1 DEF ManagerInv, Under, Exact, Holds, Held, Sess
<1> QED BY <1>1, <1>2, <1>3 DEF ManagerInv, Exact, Holds, Held, Sess

(* The step ErrorEncodingWork preserves ManagerInv.                         *)
LEMMA ManagerInv_ErrorEncodingWork ==
  ASSUME JpegTypeOK, Places, Sessions, Change, Drained, Aborts, Clean, Components,
            ManagerInv,
         NEW s \in JpegSession, ErrorEncodingWork(s)
  PROVE  ManagerInv'
<1>1. /\ \A t \in JpegSession \ {s} : session_j'[t] = session_j[t] /\ omx'[t] = omx[t]
      /\ session_j'[s].encoding = session_j[s].encoding /\ session_j[s].encoding
      /\ session_j'[s].abort = session_j[s].abort
      /\ session_j'[s].config = session_j[s].config
      /\ session_j[s].cb = "idle" /\ session_j'[s].cb = "remove"
           /\ session_j'[s].error = TRUE
      /\ omx[s].input # 0 /\ omx'[s].input = 0 /\ omx'[s].work = 0
      /\ omx'[s].state = omx[s].state /\ omx'[s].cmds = omx[s].cmds
      /\ spent.errors < MaxOmxErrors /\ spent'.errors = spent.errors + 1
      /\ UNCHANGED <<manager, jobs>> /\ session_j[s].abort # "init"
  BY DEF ErrorEncodingWork, Touches, Feeds, SessionField, OmxMayFail, Unlocked
<1>2. spent'.errors \in Nat /\ spent'.errors > 0 /\ spent.errors \in Nat
  BY <1>1 DEF Sessions
<1>3. ASSUME Exact(s)', Holds(s)
      PROVE  /\ manager.at = "fill" /\ spent'.errors >= MaxOmxErrors
             /\ omx[s].state = "Executing" /\ omx[s].cmds = << >>
  <2>1. spent.errors = 0 /\ spent'.errors >= MaxOmxErrors
    BY <1>1, <1>2, <1>3, JpegAssumption DEF Exact
  <2>2. manager.at = "fill"
    BY <1>1, <1>3, <2>1 DEF Clean
  <2>3. session_j[s].config /\ session_j[s].active /\ change.on # s
          /\ session_j[s].abort = "none"
    BY <1>3, <2>2, JpegAssumption DEF ManagerInv, Holds, Held, Places, Change,
         CallHasJobLock, Aborts
  <2>4. ~Bad(s)
    BY <2>1, <2>3 DEF Bad, Sessions
  <2>5. Steady(s)
    BY <2>3, <2>4 DEF Components, Component
  <2> QED BY <2>1, <2>2, <2>3, <2>5 DEF Steady
<1>4. ASSUME NEW t \in JpegSession, Exact(t)'
      PROVE  /\ Under(t)'
             /\ omx'[t].work # 0 => session_j'[t].encoding /\ ~Holds(t)'
                  /\ session_j'[t].cb = "idle"
  <2>1. CASE t = s
    <3>1. Holds(s)' <=> Holds(s)
      BY <1>1 DEF Holds, Held, Sess
    <3>2. omx'[s].work = 0
      BY <1>1
    <3>3. CASE ~Holds(s)
      BY <2>1, <3>1, <3>2, <3>3 DEF Under
    <3>4. CASE Holds(s)
      <4>1. /\ manager'.at = "fill" /\ spent'.errors >= MaxOmxErrors
            /\ omx'[s].state = "Executing" /\ omx'[s].cmds = << >>
            /\ omx'[s].input = 0 /\ session_j'[s].error
        BY <1>1, <1>3, <1>4, <2>1, <3>4
      <4> QED BY <2>1, <3>2, <4>1 DEF Under
    <3> QED BY <3>3, <3>4
  <2>2. CASE t # s
    <3>1. /\ session_j'[t] = session_j[t] /\ omx'[t] = omx[t]
          /\ Holds(t)' <=> Holds(t)
      BY <1>1, <2>2 DEF Holds, Held, Sess
    <3>2. Exact(t)
      BY <1>4, <3>1 DEF Exact
    <3>3. spent.errors >= MaxOmxErrors => spent'.errors >= MaxOmxErrors
      BY <1>1, <1>2, JpegAssumption
    <3> QED BY <1>1, <3>1, <3>2, <3>3 DEF ManagerInv, Under
  <2> QED BY <2>1, <2>2
<1>5. manager.at \in {"params", "submit", "fill"} => session_j'[Sess].config
  <2>1. \A t \in JpegSession : session_j'[t].config = session_j[t].config
    BY <1>1
  <2>2. manager.at \in {"params", "submit", "fill"} =>
          Sess \in JpegSession /\ session_j[Sess].config
    BY DEF ManagerInv, Places, ManagerHasJobLock
  <2> QED BY <2>1, <2>2
<1> QED BY <1>1, <1>2, <1>4, <1>5 DEF ManagerInv, Under, Sess

(* Every elementary step preserves ManagerInv.                              *)
LEMMA ManagerInvKept ==
  ASSUME JpegTypeOK, Places, Sessions, Change, Drained, Aborts, Handles,
         ManagerInv, Components, Clean, JpegStep
  PROVE  ManagerInv'
<1>1. ASSUME NEW s \in JpegSession,
             \/ Skips(s) \/ Overcome(s) \/ Breaks(s) \/ Awaits(s)
             \/ Wakes(s) \/ ConfiguresNew(s) \/ Usable(s)
             \/ AsksDestroy(s) \/ TakesOff(s) \/ Withdraws(s)
             \/ Forgets(s) \/ HaltsJob(s) \/ MarksJob(s)
             \/ HaltsSession(s) \/ MarksSession(s)
      PROVE  ManagerInv'
  <2>1. UNCHANGED <<manager, jobs, spent>>
    BY <1>1 DEF Skips, Overcome, Breaks, Awaits, Wakes, ConfiguresNew, Usable,
      AsksDestroy, TakesOff, Withdraws, Forgets, HaltsJob, MarksJob,
      HaltsSession, MarksSession
  <2>2. /\ \A t \in JpegSession, f \in {"config", "encoding", "error", "cb"} :
           session_j'[t][f] = session_j[t][f]
        /\ \A t \in JpegSession, f \in {"state", "cmds", "input", "work"} :
           omx'[t][f] = omx[t][f]
    BY <1>1 DEF Skips, Overcome, Breaks, Awaits, Wakes, ConfiguresNew, Usable,
      AsksDestroy, TakesOff, Withdraws, Forgets, HaltsJob, MarksJob,
      HaltsSession, MarksSession, Touches, Feeds, SessionField
  <2> QED BY <2>1, <2>2 DEF ManagerInv, Places, ManagerHasJobLock, Under, Exact, Holds,
       Held, Sess
<1>2. ASSUME NEW s \in JpegSession, Sends(s)
      PROVE  ManagerInv'
  <2>1. /\ \A t \in JpegSession : session_j'[t].active = session_j[t].active
        /\ \A t \in JpegSession : session_j'[t].config = session_j[t].config
        /\ \A t \in JpegSession : session_j'[t].encoding = session_j[t].encoding
        /\ \A t \in JpegSession : session_j'[t].error = session_j[t].error
        /\ \A t \in JpegSession : session_j'[t].abort = session_j[t].abort
        /\ \A t \in JpegSession : session_j'[t].cb = session_j[t].cb
        /\ \A t \in JpegSession : session_j'[t].handles = session_j[t].handles
        /\ \A t \in JpegSession : omx'[t].state = omx[t].state
        /\ \A t \in JpegSession : omx'[t].input = omx[t].input
        /\ \A t \in JpegSession : omx'[t].work = omx[t].work
        /\ \A t \in JpegSession \ {s} : omx'[t].cmds = omx[t].cmds
    BY <1>2 DEF Sends, Touches, Feeds, SessionField
  <2> QED BY <1>2, <2>1, JpegAssumption, SMTT(15)
    DEF Sends, CallHasJobLock, JobsOf, ManagerHasJobLock, ToDo, Unlocked,
      JpegJob, Places, Sessions, Change, Drained, Aborts, Handles, ManagerInv,
      Components, Clean, Held, Sess, Holds, Under, Exact, Out, Steady, Single,
      Bad
<1>3. ASSUME Moves
      PROVE  ManagerInv'
  <2>1. /\ session_j' = session_j
        /\ omx' = omx
    BY <1>3 DEF Moves, Touches, Feeds, SessionField
  <2> QED BY <1>3, <2>1, JpegAssumption, SMTT(15)
    DEF Moves, CallHasJobLock, JobsOf, ManagerHasJobLock, JpegJob, Places,
      Sessions, Change, Drained, Aborts, Handles, ManagerInv, Components,
      Clean, Held, Sess, Holds, Under, Exact, Out, Steady, Single, Bad
<1>4. ASSUME NEW s \in JpegSession, NEW j \in JpegJob, Takes(s, j)
      PROVE  ManagerInv'
  BY <1>4, ManagerInv_Takes
<1>5. ASSUME NEW s \in JpegSession, FindsConfigured(s)
      PROVE  ManagerInv'
  <2>1. /\ \A t \in JpegSession : session_j'[t].active = session_j[t].active
        /\ \A t \in JpegSession : session_j'[t].config = session_j[t].config
        /\ \A t \in JpegSession : session_j'[t].error = session_j[t].error
        /\ \A t \in JpegSession : session_j'[t].cb = session_j[t].cb
        /\ \A t \in JpegSession : session_j'[t].handles = session_j[t].handles
        /\ \A t \in JpegSession \ {s} : session_j'[t].encoding = session_j[t].encoding
        /\ \A t \in JpegSession \ {s} : session_j'[t].abort = session_j[t].abort
        /\ omx' = omx
    BY <1>5 DEF FindsConfigured, Touches, Feeds, SessionField
  <2> QED BY <1>5, <2>1, JpegAssumption, SMTT(15)
    DEF FindsConfigured, CallHasJobLock, JobsOf, ManagerHasJobLock, ManagerIs,
      Unlocked, JpegJob, Places, Sessions, Change, Drained, Aborts, Handles,
      ManagerInv, Components, Clean, Held, Sess, Holds, Under, Exact, Out,
      Steady, Single, Bad
<1>6. ASSUME NEW s \in JpegSession, FindsOther(s)
      PROVE  ManagerInv'
  <2>1. /\ \A t \in JpegSession : session_j'[t].active = session_j[t].active
        /\ \A t \in JpegSession : session_j'[t].config = session_j[t].config
        /\ \A t \in JpegSession : session_j'[t].error = session_j[t].error
        /\ \A t \in JpegSession : session_j'[t].cb = session_j[t].cb
        /\ \A t \in JpegSession : session_j'[t].handles = session_j[t].handles
        /\ \A t \in JpegSession \ {s} : session_j'[t].encoding = session_j[t].encoding
        /\ \A t \in JpegSession \ {s} : session_j'[t].abort = session_j[t].abort
        /\ omx' = omx
    BY <1>6 DEF FindsOther, Touches, Feeds, SessionField
  <2> QED BY <1>6, <2>1, JpegAssumption, SMTT(15)
    DEF FindsOther, CallHasJobLock, ChangeIs, JobsOf, ManagerHasJobLock,
      ManagerIs, Unlocked, JpegJob, Places, Sessions, Change, Drained, Aborts,
      Handles, ManagerInv, Components, Clean, Held, Sess, Holds, Under, Exact,
      Out, Steady, Single, Bad
<1>7. ASSUME NEW s \in JpegSession, FindsNone(s)
      PROVE  ManagerInv'
  <2>1. /\ \A t \in JpegSession : session_j'[t].active = session_j[t].active
        /\ \A t \in JpegSession : session_j'[t].config = session_j[t].config
        /\ \A t \in JpegSession : session_j'[t].error = session_j[t].error
        /\ \A t \in JpegSession : session_j'[t].cb = session_j[t].cb
        /\ \A t \in JpegSession : session_j'[t].handles = session_j[t].handles
        /\ \A t \in JpegSession \ {s} : session_j'[t].encoding = session_j[t].encoding
        /\ \A t \in JpegSession \ {s} : session_j'[t].abort = session_j[t].abort
        /\ omx' = omx
    BY <1>7 DEF FindsNone, Touches, Feeds, SessionField
  <2> QED BY <1>7, <2>1, JpegAssumption, SMTT(15)
    DEF FindsNone, CallHasJobLock, ChangeIs, JobsOf, ManagerHasJobLock,
      ManagerIs, Unlocked, JpegJob, Places, Sessions, Change, Drained, Aborts,
      Handles, ManagerInv, Components, Clean, Held, Sess, Holds, Under, Exact,
      Out, Steady, Single, Bad
<1>8. ASSUME NEW s \in JpegSession, Cleared(s)
      PROVE  ManagerInv'
  <2>1. /\ \A t \in JpegSession : session_j'[t].active = session_j[t].active
        /\ \A t \in JpegSession : session_j'[t].encoding = session_j[t].encoding
        /\ \A t \in JpegSession : session_j'[t].error = session_j[t].error
        /\ \A t \in JpegSession : session_j'[t].abort = session_j[t].abort
        /\ \A t \in JpegSession : session_j'[t].cb = session_j[t].cb
        /\ \A t \in JpegSession : session_j'[t].handles = session_j[t].handles
        /\ \A t \in JpegSession \ {s} : session_j'[t].config = session_j[t].config
        /\ omx' = omx
    BY <1>8 DEF Cleared, Touches, Feeds, SessionField
  <2> QED BY <1>8, <2>1, JpegAssumption, SMTT(15)
    DEF Cleared, CallHasJobLock, ChangeIs, Changed, JobsOf, ManagerHasJobLock,
      ManagerIs, JpegJob, Places, Sessions, Change, Drained, Aborts, Handles,
      ManagerInv, Components, Clean, Held, Sess, Holds, Under, Exact, Out,
      Steady, Single, Bad
<1>9. ASSUME CannotConfigure
      PROVE  ManagerInv'
  <2>1. /\ session_j' = session_j
        /\ omx' = omx
    BY <1>9 DEF CannotConfigure, Touches, Feeds, SessionField
  <2> QED BY <1>9, <2>1, JpegAssumption, SMTT(15)
    DEF CannotConfigure, CallHasJobLock, ChangeEnds, ChangeIs, JobsOf,
      ManagerHasJobLock, ManagerIs, JpegJob, Places, Sessions, Change, Drained,
      Aborts, Handles, ManagerInv, Components, Clean, Held, Sess, Holds, Under,
      Exact, Out, Steady, Single, Bad
<1>10. ASSUME NEW s \in JpegSession, ConfiguredForJob(s)
      PROVE  ManagerInv'
  <2>1. /\ \A t \in JpegSession : session_j'[t].active = session_j[t].active
        /\ \A t \in JpegSession : session_j'[t].encoding = session_j[t].encoding
        /\ \A t \in JpegSession : session_j'[t].error = session_j[t].error
        /\ \A t \in JpegSession : session_j'[t].abort = session_j[t].abort
        /\ \A t \in JpegSession : session_j'[t].cb = session_j[t].cb
        /\ \A t \in JpegSession : session_j'[t].handles = session_j[t].handles
        /\ \A t \in JpegSession \ {s} : session_j'[t].config = session_j[t].config
        /\ omx' = omx
    BY <1>10 DEF ConfiguredForJob, Touches, Feeds, SessionField
  <2> QED BY <1>10, <2>1, JpegAssumption, SMTT(15)
    DEF ConfiguredForJob, CallHasJobLock, ChangeEnds, ChangeIs, Changed, JobsOf,
      ManagerHasJobLock, ManagerIs, JpegJob, Places, Sessions, Change, Drained,
      Aborts, Handles, ManagerInv, Components, Clean, Held, Sess, Holds, Under,
      Exact, Out, Steady, Single, Bad
<1>11. ASSUME NEW s \in JpegSession, Starts(s)
      PROVE  ManagerInv'
  <2>1. /\ \A t \in JpegSession : session_j'[t].active = session_j[t].active
        /\ \A t \in JpegSession : session_j'[t].config = session_j[t].config
        /\ \A t \in JpegSession : session_j'[t].error = session_j[t].error
        /\ \A t \in JpegSession : session_j'[t].abort = session_j[t].abort
        /\ \A t \in JpegSession : session_j'[t].cb = session_j[t].cb
        /\ \A t \in JpegSession : session_j'[t].handles = session_j[t].handles
        /\ \A t \in JpegSession \ {s} : session_j'[t].encoding = session_j[t].encoding
        /\ omx' = omx
    BY <1>11 DEF Starts, Touches, Feeds, SessionField
  <2> QED BY <1>11, <2>1, JpegAssumption, SMTT(15)
    DEF Starts, CallHasJobLock, JobsOf, ManagerHasJobLock, ManagerIs, Unlocked,
      JpegJob, Places, Sessions, Change, Drained, Aborts, Handles, ManagerInv,
      Components, Clean, Held, Sess, Holds, Under, Exact, Out, Steady, Single,
      Bad
<1>12. ASSUME Refused
      PROVE  ManagerInv'
  <2>1. /\ session_j' = session_j
        /\ omx' = omx
    BY <1>12 DEF Refused, Touches, Feeds, SessionField
  <2> QED BY <1>12, <2>1, JpegAssumption, SMTT(15)
    DEF Refused, CallHasJobLock, JobsOf, ManagerHasJobLock, ManagerIs,
      OmxMayFail, JpegJob, Places, Sessions, Change, Drained, Aborts, Handles,
      ManagerInv, Components, Clean, Held, Sess, Holds, Under, Exact, Out,
      Steady, Single, Bad
<1>13. ASSUME NEW s \in JpegSession, NotReady(s)
      PROVE  ManagerInv'
  BY <1>13, ManagerInv_NotReady
<1>14. ASSUME NEW s \in JpegSession, GetsInput(s)
      PROVE  ManagerInv'
  <2>1. /\ session_j' = session_j
        /\ \A t \in JpegSession : omx'[t].state = omx[t].state
        /\ \A t \in JpegSession : omx'[t].cmds = omx[t].cmds
        /\ \A t \in JpegSession : omx'[t].work = omx[t].work
        /\ \A t \in JpegSession \ {s} : omx'[t].input = omx[t].input
    BY <1>14 DEF GetsInput, Touches, Feeds, SessionField
  <2> QED BY <1>14, <2>1, JpegAssumption, SMTT(15)
    DEF GetsInput, CallHasJobLock, JobsOf, ManagerHasJobLock, ManagerIs, JpegJob,
      Places, Sessions, Change, Drained, Aborts, Handles, ManagerInv,
      Components, Clean, Held, Sess, Holds, Under, Exact, Out, Steady, Single,
      Bad
<1>15. ASSUME NEW s \in JpegSession, GetsOutput(s)
      PROVE  ManagerInv'
  <2>1. /\ session_j' = session_j
        /\ \A t \in JpegSession : omx'[t].state = omx[t].state
        /\ \A t \in JpegSession : omx'[t].cmds = omx[t].cmds
        /\ \A t \in JpegSession : omx'[t].input = omx[t].input
        /\ \A t \in JpegSession \ {s} : omx'[t].work = omx[t].work
    BY <1>15 DEF GetsOutput, Touches, Feeds, SessionField
  <2> QED BY <1>15, <2>1, JpegAssumption, SMTT(15)
    DEF GetsOutput, CallHasJobLock, JobsOf, ManagerHasJobLock, ManagerIs,
      JpegJob, Places, Sessions, Change, Drained, Aborts, Handles, ManagerInv,
      Components, Clean, Held, Sess, Holds, Under, Exact, Out, Steady, Single,
      Bad
<1>16. ASSUME NEW s \in JpegSession, Fails(s)
      PROVE  ManagerInv'
  <2>1. /\ \A t \in JpegSession : session_j'[t].active = session_j[t].active
        /\ \A t \in JpegSession : session_j'[t].config = session_j[t].config
        /\ \A t \in JpegSession : session_j'[t].error = session_j[t].error
        /\ \A t \in JpegSession : session_j'[t].abort = session_j[t].abort
        /\ \A t \in JpegSession : session_j'[t].cb = session_j[t].cb
        /\ \A t \in JpegSession \ {s} : session_j'[t].encoding = session_j[t].encoding
        /\ \A t \in JpegSession \ {s} : session_j'[t].handles = session_j[t].handles
        /\ omx' = omx
    BY <1>16 DEF Fails, Touches, Feeds, SessionField
  <2> QED BY <1>16, <2>1, JpegAssumption, SMTT(15)
    DEF Fails, Answers, CallHasJobLock, JobsOf, ManagerHasJobLock, ManagerIs,
      JpegJob, Places, Sessions, Change, Drained, Aborts, Handles, ManagerInv,
      Components, Clean, Held, Sess, Holds, Under, Exact, Out, Steady, Single,
      Bad
<1>17. ASSUME NEW s \in JpegSession, DoneAborting(s)
      PROVE  ManagerInv'
  <2>1. /\ \A t \in JpegSession : session_j'[t].active = session_j[t].active
        /\ \A t \in JpegSession : session_j'[t].config = session_j[t].config
        /\ \A t \in JpegSession : session_j'[t].encoding = session_j[t].encoding
        /\ \A t \in JpegSession : session_j'[t].error = session_j[t].error
        /\ \A t \in JpegSession : session_j'[t].cb = session_j[t].cb
        /\ \A t \in JpegSession : session_j'[t].handles = session_j[t].handles
        /\ \A t \in JpegSession \ {s} : session_j'[t].abort = session_j[t].abort
        /\ \A t \in JpegSession \ {s} : omx'[t].state = omx[t].state
        /\ \A t \in JpegSession \ {s} : omx'[t].cmds = omx[t].cmds
        /\ \A t \in JpegSession \ {s} : omx'[t].input = omx[t].input
        /\ \A t \in JpegSession \ {s} : omx'[t].work = omx[t].work
    BY <1>17 DEF DoneAborting, Touches, Feeds, SessionField
  <2> QED BY <1>17, <2>1, JpegAssumption, SMTT(15)
    DEF DoneAborting, CallHasJobLock, JobsOf, ManagerHasJobLock, Unlocked,
      JpegJob, Places, Sessions, Change, Drained, Aborts, Handles, ManagerInv,
      Components, Clean, Held, Sess, Holds, Under, Exact, Out, Steady, Single,
      Bad
<1>18. ASSUME NEW s \in JpegSession, DoneAwaited(s)
      PROVE  ManagerInv'
  <2>1. /\ \A t \in JpegSession : session_j'[t].active = session_j[t].active
        /\ \A t \in JpegSession : session_j'[t].config = session_j[t].config
        /\ \A t \in JpegSession : session_j'[t].encoding = session_j[t].encoding
        /\ \A t \in JpegSession : session_j'[t].error = session_j[t].error
        /\ \A t \in JpegSession : session_j'[t].abort = session_j[t].abort
        /\ \A t \in JpegSession : session_j'[t].cb = session_j[t].cb
        /\ \A t \in JpegSession : session_j'[t].handles = session_j[t].handles
        /\ \A t \in JpegSession \ {s} : omx'[t].state = omx[t].state
        /\ \A t \in JpegSession \ {s} : omx'[t].cmds = omx[t].cmds
        /\ \A t \in JpegSession \ {s} : omx'[t].input = omx[t].input
        /\ \A t \in JpegSession \ {s} : omx'[t].work = omx[t].work
    BY <1>18 DEF DoneAwaited, Touches, Feeds, SessionField
  <2> QED BY <1>18, <2>1, JpegAssumption, SMTT(15)
    DEF DoneAwaited, CallHasJobLock, JobsOf, ManagerHasJobLock, Unlocked,
      JpegJob, Places, Sessions, Change, Drained, Aborts, Handles, ManagerInv,
      Components, Clean, Held, Sess, Holds, Under, Exact, Out, Steady, Single,
      Bad
<1>19. ASSUME NEW s \in JpegSession, DoneAlone(s)
      PROVE  ManagerInv'
  <2>1. /\ session_j' = session_j
        /\ \A t \in JpegSession \ {s} : omx'[t].state = omx[t].state
        /\ \A t \in JpegSession \ {s} : omx'[t].cmds = omx[t].cmds
        /\ \A t \in JpegSession \ {s} : omx'[t].input = omx[t].input
        /\ \A t \in JpegSession \ {s} : omx'[t].work = omx[t].work
    BY <1>19 DEF DoneAlone, Touches, Feeds, SessionField
  <2> QED BY <1>19, <2>1, JpegAssumption, SMTT(15)
    DEF DoneAlone, CallHasJobLock, JobsOf, ManagerHasJobLock, Unlocked, JpegJob,
      Places, Sessions, Change, Drained, Aborts, Handles, ManagerInv,
      Components, Clean, Held, Sess, Holds, Under, Exact, Out, Steady, Single,
      Bad
<1>20. ASSUME NEW s \in JpegSession, ErrorAbortingWay(s)
      PROVE  ManagerInv'
  <2>1. /\ \A t \in JpegSession : session_j'[t].active = session_j[t].active
        /\ \A t \in JpegSession : session_j'[t].config = session_j[t].config
        /\ \A t \in JpegSession : session_j'[t].encoding = session_j[t].encoding
        /\ \A t \in JpegSession : session_j'[t].error = session_j[t].error
        /\ \A t \in JpegSession : session_j'[t].cb = session_j[t].cb
        /\ \A t \in JpegSession : session_j'[t].handles = session_j[t].handles
        /\ \A t \in JpegSession \ {s} : session_j'[t].abort = session_j[t].abort
        /\ \A t \in JpegSession : omx'[t].state = omx[t].state
        /\ \A t \in JpegSession : omx'[t].input = omx[t].input
        /\ \A t \in JpegSession : omx'[t].work = omx[t].work
        /\ \A t \in JpegSession \ {s} : omx'[t].cmds = omx[t].cmds
    BY <1>20 DEF ErrorAbortingWay, Touches, Feeds, SessionField
  <2> QED BY <1>20, <2>1, JpegAssumption, SMTT(15)
    DEF ErrorAbortingWay, CallHasJobLock, JobsOf, ManagerHasJobLock, OmxMayFail,
      Unlocked, JpegJob, Places, Sessions, Change, Drained, Aborts, Handles,
      ManagerInv, Components, Clean, Held, Sess, Holds, Under, Exact, Out,
      Steady, Single, Bad
<1>21. ASSUME NEW s \in JpegSession, ErrorEncodingWay(s)
      PROVE  ManagerInv'
  <2>1. /\ \A t \in JpegSession : session_j'[t].active = session_j[t].active
        /\ \A t \in JpegSession : session_j'[t].config = session_j[t].config
        /\ \A t \in JpegSession : session_j'[t].encoding = session_j[t].encoding
        /\ \A t \in JpegSession : session_j'[t].abort = session_j[t].abort
        /\ \A t \in JpegSession : session_j'[t].handles = session_j[t].handles
        /\ \A t \in JpegSession \ {s} : session_j'[t].error = session_j[t].error
        /\ \A t \in JpegSession \ {s} : session_j'[t].cb = session_j[t].cb
        /\ \A t \in JpegSession : omx'[t].state = omx[t].state
        /\ \A t \in JpegSession : omx'[t].input = omx[t].input
        /\ \A t \in JpegSession : omx'[t].work = omx[t].work
        /\ \A t \in JpegSession \ {s} : omx'[t].cmds = omx[t].cmds
    BY <1>21 DEF ErrorEncodingWay, Touches, Feeds, SessionField
  <2> QED BY <1>21, <2>1, JpegAssumption, SMTT(15)
    DEF ErrorEncodingWay, Answers, CallHasJobLock, JobsOf, ManagerHasJobLock,
      OmxMayFail, Unlocked, JpegJob, Places, Sessions, Change, Drained, Aborts,
      Handles, ManagerInv, Components, Clean, Held, Sess, Holds, Under, Exact,
      Out, Steady, Single, Bad
<1>22. ASSUME NEW s \in JpegSession, ErrorElseWay(s)
      PROVE  ManagerInv'
  <2>1. /\ \A t \in JpegSession : session_j'[t].active = session_j[t].active
        /\ \A t \in JpegSession : session_j'[t].config = session_j[t].config
        /\ \A t \in JpegSession : session_j'[t].encoding = session_j[t].encoding
        /\ \A t \in JpegSession : session_j'[t].abort = session_j[t].abort
        /\ \A t \in JpegSession : session_j'[t].cb = session_j[t].cb
        /\ \A t \in JpegSession : session_j'[t].handles = session_j[t].handles
        /\ \A t \in JpegSession \ {s} : session_j'[t].error = session_j[t].error
        /\ \A t \in JpegSession : omx'[t].state = omx[t].state
        /\ \A t \in JpegSession : omx'[t].input = omx[t].input
        /\ \A t \in JpegSession : omx'[t].work = omx[t].work
        /\ \A t \in JpegSession \ {s} : omx'[t].cmds = omx[t].cmds
    BY <1>22 DEF ErrorElseWay, Touches, Feeds, SessionField
  <2> QED BY <1>22, <2>1, JpegAssumption, SMTT(15)
    DEF ErrorElseWay, CallHasJobLock, JobsOf, ManagerHasJobLock, OmxMayFail,
      Unlocked, JpegJob, Places, Sessions, Change, Drained, Aborts, Handles,
      ManagerInv, Components, Clean, Held, Sess, Holds, Under, Exact, Out,
      Steady, Single, Bad
<1>23. ASSUME NEW s \in JpegSession, ErrorAbortingWork(s)
      PROVE  ManagerInv'
  <2>1. /\ \A t \in JpegSession : session_j'[t].active = session_j[t].active
        /\ \A t \in JpegSession : session_j'[t].config = session_j[t].config
        /\ \A t \in JpegSession : session_j'[t].encoding = session_j[t].encoding
        /\ \A t \in JpegSession : session_j'[t].error = session_j[t].error
        /\ \A t \in JpegSession : session_j'[t].cb = session_j[t].cb
        /\ \A t \in JpegSession : session_j'[t].handles = session_j[t].handles
        /\ \A t \in JpegSession \ {s} : session_j'[t].abort = session_j[t].abort
        /\ \A t \in JpegSession : omx'[t].state = omx[t].state
        /\ \A t \in JpegSession : omx'[t].cmds = omx[t].cmds
        /\ \A t \in JpegSession \ {s} : omx'[t].input = omx[t].input
        /\ \A t \in JpegSession \ {s} : omx'[t].work = omx[t].work
    BY <1>23 DEF ErrorAbortingWork, Touches, Feeds, SessionField
  <2> QED BY <1>23, <2>1, JpegAssumption, SMTT(15)
    DEF ErrorAbortingWork, CallHasJobLock, JobsOf, ManagerHasJobLock, OmxMayFail,
      Unlocked, JpegJob, Places, Sessions, Change, Drained, Aborts, Handles,
      ManagerInv, Components, Clean, Held, Sess, Holds, Under, Exact, Out,
      Steady, Single, Bad
<1>24. ASSUME NEW s \in JpegSession, ErrorEncodingWork(s)
      PROVE  ManagerInv'
  BY <1>24, ManagerInv_ErrorEncodingWork
<1>25. ASSUME NEW s \in JpegSession, ErrorElseWork(s)
      PROVE  ManagerInv'
  <2>1. /\ \A t \in JpegSession : session_j'[t].active = session_j[t].active
        /\ \A t \in JpegSession : session_j'[t].config = session_j[t].config
        /\ \A t \in JpegSession : session_j'[t].encoding = session_j[t].encoding
        /\ \A t \in JpegSession : session_j'[t].abort = session_j[t].abort
        /\ \A t \in JpegSession : session_j'[t].cb = session_j[t].cb
        /\ \A t \in JpegSession : session_j'[t].handles = session_j[t].handles
        /\ \A t \in JpegSession \ {s} : session_j'[t].error = session_j[t].error
        /\ \A t \in JpegSession : omx'[t].state = omx[t].state
        /\ \A t \in JpegSession : omx'[t].cmds = omx[t].cmds
        /\ \A t \in JpegSession \ {s} : omx'[t].input = omx[t].input
        /\ \A t \in JpegSession \ {s} : omx'[t].work = omx[t].work
    BY <1>25 DEF ErrorElseWork, Touches, Feeds, SessionField
  <2> QED BY <1>25, <2>1, JpegAssumption, SMTT(15)
    DEF ErrorElseWork, CallHasJobLock, JobsOf, ManagerHasJobLock, OmxMayFail,
      Unlocked, JpegJob, Places, Sessions, Change, Drained, Aborts, Handles,
      ManagerInv, Components, Clean, Held, Sess, Holds, Under, Exact, Out,
      Steady, Single, Bad
<1>26. ASSUME NEW s \in JpegSession, BufferBack(s)
      PROVE  ManagerInv'
  <2>1. /\ session_j' = session_j
        /\ \A t \in JpegSession : omx'[t].state = omx[t].state
        /\ \A t \in JpegSession : omx'[t].cmds = omx[t].cmds
        /\ \A t \in JpegSession \ {s} : omx'[t].input = omx[t].input
        /\ \A t \in JpegSession \ {s} : omx'[t].work = omx[t].work
    BY <1>26 DEF BufferBack, Touches, Feeds, SessionField
  <2> QED BY <1>26, <2>1, JpegAssumption, SMTT(15)
    DEF BufferBack, CallHasJobLock, JobsOf, ManagerHasJobLock, Unlocked, JpegJob,
      Places, Sessions, Change, Drained, Aborts, Handles, ManagerInv,
      Components, Clean, Held, Sess, Holds, Under, Exact, Out, Steady, Single,
      Bad
<1>27. ASSUME NEW s \in JpegSession, Encoded(s)
      PROVE  ManagerInv'
  <2>1. /\ \A t \in JpegSession : session_j'[t].active = session_j[t].active
        /\ \A t \in JpegSession : session_j'[t].config = session_j[t].config
        /\ \A t \in JpegSession : session_j'[t].encoding = session_j[t].encoding
        /\ \A t \in JpegSession : session_j'[t].error = session_j[t].error
        /\ \A t \in JpegSession : session_j'[t].abort = session_j[t].abort
        /\ \A t \in JpegSession : session_j'[t].handles = session_j[t].handles
        /\ \A t \in JpegSession \ {s} : session_j'[t].cb = session_j[t].cb
        /\ \A t \in JpegSession : omx'[t].state = omx[t].state
        /\ \A t \in JpegSession : omx'[t].cmds = omx[t].cmds
        /\ \A t \in JpegSession \ {s} : omx'[t].input = omx[t].input
        /\ \A t \in JpegSession \ {s} : omx'[t].work = omx[t].work
    BY <1>27 DEF Encoded, Touches, Feeds, SessionField
  <2> QED BY <1>27, <2>1, JpegAssumption, SMTT(15)
    DEF Encoded, Answers, CallHasJobLock, JobsOf, ManagerHasJobLock, Unlocked,
      JpegJob, Places, Sessions, Change, Drained, Aborts, Handles, ManagerInv,
      Components, Clean, Held, Sess, Holds, Under, Exact, Out, Steady, Single,
      Bad
<1>28. ASSUME NEW s \in JpegSession, Removes(s)
      PROVE  ManagerInv'
  <2>1. /\ \A t \in JpegSession : session_j'[t].active = session_j[t].active
        /\ \A t \in JpegSession : session_j'[t].config = session_j[t].config
        /\ \A t \in JpegSession : session_j'[t].error = session_j[t].error
        /\ \A t \in JpegSession : session_j'[t].abort = session_j[t].abort
        /\ \A t \in JpegSession : session_j'[t].handles = session_j[t].handles
        /\ \A t \in JpegSession \ {s} : session_j'[t].encoding = session_j[t].encoding
        /\ \A t \in JpegSession \ {s} : session_j'[t].cb = session_j[t].cb
        /\ omx' = omx
    BY <1>28 DEF Removes, Touches, Feeds, SessionField
  <2> QED BY <1>28, <2>1, JpegAssumption, SMTT(15)
    DEF Removes, CallHasJobLock, JobsOf, ManagerHasJobLock, JpegJob, Places,
      Sessions, Change, Drained, Aborts, Handles, ManagerInv, Components,
      Clean, Held, Sess, Holds, Under, Exact, Out, Steady, Single, Bad
<1>29. ASSUME NEW s \in JpegSession, GivesBack(s)
      PROVE  ManagerInv'
  <2>1. /\ \A t \in JpegSession : session_j'[t].active = session_j[t].active
        /\ \A t \in JpegSession : session_j'[t].config = session_j[t].config
        /\ \A t \in JpegSession : session_j'[t].encoding = session_j[t].encoding
        /\ \A t \in JpegSession : session_j'[t].error = session_j[t].error
        /\ \A t \in JpegSession : session_j'[t].abort = session_j[t].abort
        /\ \A t \in JpegSession \ {s} : session_j'[t].cb = session_j[t].cb
        /\ \A t \in JpegSession \ {s} : session_j'[t].handles = session_j[t].handles
        /\ omx' = omx
    BY <1>29 DEF GivesBack, Touches, Feeds, SessionField
  <2> QED BY <1>29, <2>1, JpegAssumption, SMTT(15)
    DEF GivesBack, CallHasJobLock, JobsOf, ManagerHasJobLock, JpegJob, Places,
      Sessions, Change, Drained, Aborts, Handles, ManagerInv, Components,
      Clean, Held, Sess, Holds, Under, Exact, Out, Steady, Single, Bad
<1>30. ASSUME NEW s \in JpegSession, Posts(s)
      PROVE  ManagerInv'
  <2>1. /\ \A t \in JpegSession : session_j'[t].active = session_j[t].active
        /\ \A t \in JpegSession : session_j'[t].config = session_j[t].config
        /\ \A t \in JpegSession : session_j'[t].encoding = session_j[t].encoding
        /\ \A t \in JpegSession : session_j'[t].error = session_j[t].error
        /\ \A t \in JpegSession : session_j'[t].abort = session_j[t].abort
        /\ \A t \in JpegSession : session_j'[t].handles = session_j[t].handles
        /\ \A t \in JpegSession \ {s} : session_j'[t].cb = session_j[t].cb
        /\ omx' = omx
    BY <1>30 DEF Posts, Touches, Feeds, SessionField
  <2> QED BY <1>30, <2>1, JpegAssumption, SMTT(15)
    DEF Posts, CallHasJobLock, JobsOf, ManagerHasJobLock, JpegJob, Places,
      Sessions, Change, Drained, Aborts, Handles, ManagerInv, Components,
      Clean, Held, Sess, Holds, Under, Exact, Out, Steady, Single, Bad
<1>31. ASSUME NEW s \in JpegSession, Creates(s)
      PROVE  ManagerInv'
  <2>1. /\ \A t \in JpegSession \ {s} : session_j'[t].active = session_j[t].active
        /\ \A t \in JpegSession \ {s} : session_j'[t].config = session_j[t].config
        /\ \A t \in JpegSession \ {s} : session_j'[t].encoding = session_j[t].encoding
        /\ \A t \in JpegSession \ {s} : session_j'[t].error = session_j[t].error
        /\ \A t \in JpegSession \ {s} : session_j'[t].abort = session_j[t].abort
        /\ \A t \in JpegSession \ {s} : session_j'[t].cb = session_j[t].cb
        /\ \A t \in JpegSession \ {s} : session_j'[t].handles = session_j[t].handles
        /\ \A t \in JpegSession \ {s} : omx'[t].state = omx[t].state
        /\ \A t \in JpegSession \ {s} : omx'[t].cmds = omx[t].cmds
        /\ \A t \in JpegSession \ {s} : omx'[t].input = omx[t].input
        /\ \A t \in JpegSession \ {s} : omx'[t].work = omx[t].work
    BY <1>31 DEF Creates, Touches, Feeds, SessionField
  <2> QED BY <1>31, <2>1, JpegAssumption, SMTT(15)
    DEF Creates, CallHasJobLock, CallIs, IsNew, JobsOf, ManagerHasJobLock,
      JpegJob, Places, Sessions, Change, Drained, Aborts, Handles, ManagerInv,
      Components, Clean, Held, Sess, Holds, Under, Exact, Out, Steady, Single,
      Bad
<1>32. ASSUME NEW s \in JpegSession, Created(s)
      PROVE  ManagerInv'
  <2>1. /\ \A t \in JpegSession : session_j'[t].active = session_j[t].active
        /\ \A t \in JpegSession : session_j'[t].encoding = session_j[t].encoding
        /\ \A t \in JpegSession : session_j'[t].error = session_j[t].error
        /\ \A t \in JpegSession : session_j'[t].abort = session_j[t].abort
        /\ \A t \in JpegSession : session_j'[t].cb = session_j[t].cb
        /\ \A t \in JpegSession : session_j'[t].handles = session_j[t].handles
        /\ \A t \in JpegSession \ {s} : session_j'[t].config = session_j[t].config
        /\ omx' = omx
    BY <1>32 DEF Created, Touches, Feeds, SessionField
  <2> QED BY <1>32, <2>1, JpegAssumption, SMTT(15)
    DEF Created, CallEnds, CallHasJobLock, CallIs, ChangeEnds, ChangeIs, Changed,
      JobsOf, ManagerHasJobLock, JpegJob, Places, Sessions, Change, Drained,
      Aborts, Handles, ManagerInv, Components, Clean, Held, Sess, Holds, Under,
      Exact, Out, Steady, Single, Bad
<1>33. ASSUME NotCreated
      PROVE  ManagerInv'
  <2>1. /\ session_j' = session_j
        /\ omx' = omx
    BY <1>33 DEF NotCreated, Touches, Feeds, SessionField
  <2> QED BY <1>33, <2>1, JpegAssumption, SMTT(15)
    DEF NotCreated, CallEnds, CallHasJobLock, CallIs, ChangeEnds, ChangeIs,
      JobsOf, ManagerHasJobLock, JpegJob, Places, Sessions, Change, Drained,
      Aborts, Handles, ManagerInv, Components, Clean, Held, Sess, Holds, Under,
      Exact, Out, Steady, Single, Bad
<1>34. ASSUME NEW s \in JpegSession, Enqueues(s)
      PROVE  ManagerInv'
  <2>1. /\ session_j' = session_j
        /\ omx' = omx
    BY <1>34 DEF Enqueues, Touches, Feeds, SessionField
  <2> QED BY <1>34, <2>1, JpegAssumption, SMTT(15)
    DEF Enqueues, CallHasJobLock, CallIs, JobsOf, ManagerHasJobLock, JpegJob,
      Places, Sessions, Change, Drained, Aborts, Handles, ManagerInv,
      Components, Clean, Held, Sess, Holds, Under, Exact, Out, Steady, Single,
      Bad
<1>35. ASSUME PostEnds
      PROVE  ManagerInv'
  <2>1. /\ session_j' = session_j
        /\ omx' = omx
    BY <1>35 DEF PostEnds, Touches, Feeds, SessionField
  <2> QED BY <1>35, <2>1, JpegAssumption, SMTT(15)
    DEF PostEnds, CallEnds, CallHasJobLock, CallIs, JobsOf, ManagerHasJobLock,
      JpegJob, Places, Sessions, Change, Drained, Aborts, Handles, ManagerInv,
      Components, Clean, Held, Sess, Holds, Under, Exact, Out, Steady, Single,
      Bad
<1>36. ASSUME NEW s \in JpegSession, NEW j \in JpegJob, AsksAbort(s, j)
      PROVE  ManagerInv'
  <2>1. /\ \A t \in JpegSession : session_j'[t].active = session_j[t].active
        /\ \A t \in JpegSession : session_j'[t].config = session_j[t].config
        /\ \A t \in JpegSession : session_j'[t].encoding = session_j[t].encoding
        /\ \A t \in JpegSession : session_j'[t].error = session_j[t].error
        /\ \A t \in JpegSession : session_j'[t].abort = session_j[t].abort
        /\ \A t \in JpegSession : session_j'[t].cb = session_j[t].cb
        /\ \A t \in JpegSession : session_j'[t].handles = session_j[t].handles
        /\ omx' = omx
    BY <1>36 DEF AsksAbort, Touches, Feeds, SessionField
  <2> QED BY <1>36, <2>1, JpegAssumption, SMTT(15)
    DEF AsksAbort, CallHasJobLock, CallIs, JobsOf, ManagerHasJobLock, JpegJob,
      Places, Sessions, Change, Drained, Aborts, Handles, ManagerInv,
      Components, Clean, Held, Sess, Holds, Under, Exact, Out, Steady, Single,
      Bad
<1>37. ASSUME NEW s \in JpegSession, SendsIdle(s)
      PROVE  ManagerInv'
  <2>1. /\ \A t \in JpegSession : session_j'[t].active = session_j[t].active
        /\ \A t \in JpegSession : session_j'[t].config = session_j[t].config
        /\ \A t \in JpegSession : session_j'[t].encoding = session_j[t].encoding
        /\ \A t \in JpegSession : session_j'[t].error = session_j[t].error
        /\ \A t \in JpegSession : session_j'[t].cb = session_j[t].cb
        /\ \A t \in JpegSession : session_j'[t].handles = session_j[t].handles
        /\ \A t \in JpegSession \ {s} : session_j'[t].abort = session_j[t].abort
        /\ \A t \in JpegSession : omx'[t].state = omx[t].state
        /\ \A t \in JpegSession : omx'[t].input = omx[t].input
        /\ \A t \in JpegSession : omx'[t].work = omx[t].work
        /\ \A t \in JpegSession \ {s} : omx'[t].cmds = omx[t].cmds
    BY <1>37 DEF SendsIdle, Touches, Feeds, SessionField
  <2> QED BY <1>37, <2>1, JpegAssumption, SMTT(15)
    DEF SendsIdle, CallHasJobLock, CallIs, JobsOf, ManagerHasJobLock, Unlocked,
      JpegJob, Places, Sessions, Change, Drained, Aborts, Handles, ManagerInv,
      Components, Clean, Held, Sess, Holds, Under, Exact, Out, Steady, Single,
      Bad
<1>38. ASSUME NEW s \in JpegSession, Frees(s)
      PROVE  ManagerInv'
  <2>1. /\ \A t \in JpegSession \ {s} : session_j'[t].active = session_j[t].active
        /\ \A t \in JpegSession \ {s} : session_j'[t].config = session_j[t].config
        /\ \A t \in JpegSession \ {s} : session_j'[t].encoding = session_j[t].encoding
        /\ \A t \in JpegSession \ {s} : session_j'[t].error = session_j[t].error
        /\ \A t \in JpegSession \ {s} : session_j'[t].abort = session_j[t].abort
        /\ \A t \in JpegSession \ {s} : session_j'[t].cb = session_j[t].cb
        /\ \A t \in JpegSession \ {s} : session_j'[t].handles = session_j[t].handles
        /\ \A t \in JpegSession \ {s} : omx'[t].state = omx[t].state
        /\ \A t \in JpegSession \ {s} : omx'[t].cmds = omx[t].cmds
        /\ \A t \in JpegSession \ {s} : omx'[t].input = omx[t].input
        /\ \A t \in JpegSession \ {s} : omx'[t].work = omx[t].work
    BY <1>38 DEF Frees, Touches, Feeds, SessionField
  <2> QED BY <1>38, <2>1, JpegAssumption, SMTT(15)
    DEF Frees, CallHasJobLock, CallIs, ChangeEnds, ChangeIs, Changed, IsNew,
      JobsOf, ManagerHasJobLock, Unlocked, JpegJob, Places, Sessions, Change,
      Drained, Aborts, Handles, ManagerInv, Components, Clean, Held, Sess,
      Holds, Under, Exact, Out, Steady, Single, Bad
<1> QED BY <1>1, <1>2, <1>3, <1>4, <1>5, <1>6, <1>7, <1>8, <1>9, <1>10, <1>11, <1>12,
  <1>13, <1>14, <1>15, <1>16, <1>17, <1>18, <1>19, <1>20, <1>21, <1>22, <1>23,
  <1>24, <1>25, <1>26, <1>27, <1>28, <1>29, <1>30, <1>31, <1>32, <1>33, <1>34,
  <1>35, <1>36, <1>37, <1>38 DEF JpegStep
-----------------------------------------------------------------------------

(* The step Sends preserves Components.                                     *)
LEMMA Components_Sends ==
  ASSUME JpegTypeOK, Places, Sessions, Change, Drained, Aborts, ManagerInv, Ongoing,
            Components,
         NEW s \in JpegSession, Sends(s)
  PROVE  Components'
<1>1. /\ \A t \in JpegSession : session_j'[t].active = session_j[t].active
      /\ \A t \in JpegSession : session_j'[t].config = session_j[t].config
      /\ \A t \in JpegSession : session_j'[t].encoding = session_j[t].encoding
      /\ \A t \in JpegSession : session_j'[t].error = session_j[t].error
      /\ \A t \in JpegSession : session_j'[t].abort = session_j[t].abort
      /\ \A t \in JpegSession \ {s} : session_j'[t].pending = session_j[t].pending
      /\ \A t \in JpegSession : session_j'[t].woken = session_j[t].woken
      /\ \A t \in JpegSession : omx'[t].state = omx[t].state
      /\ \A t \in JpegSession \ {s} : omx'[t].cmds = omx[t].cmds
      /\ spent' = spent
  BY DEF Sends, Touches, Feeds, SessionField
<1>2. ASSUME NEW t \in JpegSession \ {s}
      PROVE  Component(t)'
  BY <1>1, ComponentKept DEF Sends, Components
<1>3. ASSUME ~Bad(s)'
      PROVE  IF change'.on = s THEN Changing(s)' ELSE Steady(s)'
  <2>1. Changing(s) /\ ~session_j[s].error
    BY <1>1, <1>3 DEF Components, Component, Sends, Bad
  <2>2. omx[s].cmds = << >> /\ Before(s) /\ session_j[s].abort # "init"
    BY <2>1 DEF Sends, Changing
  <2>3. Head(change.rest) \in OmxState
    BY Positions, HeadIn DEF Sends
  <2>4. Single(s, Head(change.rest))'
    BY <2>2, <2>3, AppendOne DEF Single, Sends
  <2>5. Told(s)'
    BY <1>1, <2>2, <2>4 DEF Told, Before, Single, Sends
  <2> QED BY <1>1, <2>2, <2>5 DEF Changing, Sends
<1> QED BY <1>2, <1>3 DEF Components, Component

(* The step Skips preserves Components.                                     *)
LEMMA Components_Skips ==
  ASSUME JpegTypeOK, Places, Sessions, Change, Drained, Aborts, ManagerInv, Ongoing,
            Components,
         NEW s \in JpegSession, Skips(s)
  PROVE  Components'
<1>1. /\ session_j' = session_j
      /\ omx' = omx
      /\ spent' = spent
  BY DEF Skips, Touches, Feeds, SessionField
<1>2. ASSUME NEW t \in JpegSession \ {s}
      PROVE  Component(t)'
  BY <1>1, ComponentKept DEF Skips, ChangeIs, GoesOn, Components
<1>3. ASSUME ~Bad(s)'
      PROVE  IF change'.on = s THEN Changing(s)' ELSE Steady(s)'
  <2>1. Changing(s)
    BY <1>1, <1>3 DEF Components, Component, Skips, Bad
  <2>2. omx[s].cmds = << >> /\ Before(s) /\ session_j[s].abort # "init"
    BY <2>1 DEF Skips, Changing
  <2>3. /\ change'.rest = Tail(change.rest) /\ change'.way = change.way
        /\ omx'[s].state = omx[s].state
    BY DEF Skips, GoesOn, ChangeIs
  <2>4. ASSUME change.way = "up"
        PROVE  Before(s)'
    <3>1. /\ change.rest \in {Up2, Exec1}
          /\ omx[s].state = Head(change.rest)
      <4>1. change.rest \in {Up2, Exec1}
        BY <2>4 DEF Skips, Change
      <4>2. omx[s].state = Head(change.rest)
        BY <2>4 DEF Skips, ToDo
      <4> QED BY <4>1, <4>2
    <3>2. CASE change.rest = Up2
      <4>1. change'.rest = Exec1 /\ omx'[s].state = "Idle"
        BY <2>3, <3>1, <3>2, Rests
      <4> QED BY <4>1, Rests DEF Before
    <3>3. CASE change.rest = Exec1
      <4>1. change'.rest = << >> /\ omx'[s].state = "Executing" /\ change'.way = "up"
        BY <2>3, <2>4, <3>1, <3>3, Rests
      <4> QED BY <4>1, Rests DEF Before
    <3> QED BY <3>1, <3>2, <3>3
  <2>5. ASSUME change.way # "up"
        PROVE  Before(s)'
    <3>1. change.rest \in {Down2, Loaded1}
      BY <2>5, Positions DEF Skips, Change
    <3>2. omx[s].state # IF Head(change.rest) = "Idle" THEN "Executing" ELSE "Idle"
      BY <2>5, Positions DEF Skips, ToDo
    <3> QED BY <2>2, <2>3, <2>5, <3>1, <3>2, Rests DEF Before
  <2> QED BY <1>1, <2>2, <2>4, <2>5 DEF Changing, Skips, GoesOn, ChangeIs
<1> QED BY <1>2, <1>3 DEF Components, Component

(* The step Overcome preserves Components.                                  *)
LEMMA Components_Overcome ==
  ASSUME JpegTypeOK, Places, Sessions, Change, Drained, Aborts, ManagerInv, Ongoing,
            Components,
         NEW s \in JpegSession, Overcome(s)
  PROVE  Components'
<1>1. /\ \A t \in JpegSession : session_j'[t].active = session_j[t].active
      /\ \A t \in JpegSession : session_j'[t].config = session_j[t].config
      /\ \A t \in JpegSession : session_j'[t].encoding = session_j[t].encoding
      /\ \A t \in JpegSession : session_j'[t].error = session_j[t].error
      /\ \A t \in JpegSession : session_j'[t].abort = session_j[t].abort
      /\ \A t \in JpegSession : session_j'[t].pending = session_j[t].pending
      /\ \A t \in JpegSession \ {s} : session_j'[t].woken = session_j[t].woken
      /\ omx' = omx
      /\ spent' = spent
  BY DEF Overcome, Touches, Feeds, SessionField
<1>2. ASSUME NEW t \in JpegSession \ {s}
      PROVE  Component(t)'
  BY <1>1, ComponentKept DEF Overcome, ChangeIs, GoesOn, Components
<1>3. ASSUME ~Bad(s)'
      PROVE  IF change'.on = s THEN Changing(s)' ELSE Steady(s)'
  <2>1. Changing(s) /\ ~session_j[s].error
    BY <1>1, <1>3 DEF Components, Component, Overcome, Bad
  <2>2. Over(s) /\ session_j[s].abort # "init"
    BY <2>1 DEF Overcome, Changing, Told
  <2>3. Before(s)'
    BY <2>2, Rests, Positions DEF Overcome, GoesOn, ChangeIs, Before, Over, Change
  <2> QED BY <1>1, <2>2, <2>3 DEF Changing, Overcome, GoesOn, ChangeIs, Over
<1> QED BY <1>2, <1>3 DEF Components, Component

(* The step Breaks preserves Components.                                    *)
LEMMA Components_Breaks ==
  ASSUME JpegTypeOK, Places, Sessions, Change, Drained, Aborts, ManagerInv, Ongoing,
            Components,
         NEW s \in JpegSession, Breaks(s)
  PROVE  Components'
<1>1. /\ \A t \in JpegSession : session_j'[t].active = session_j[t].active
      /\ \A t \in JpegSession : session_j'[t].config = session_j[t].config
      /\ \A t \in JpegSession : session_j'[t].encoding = session_j[t].encoding
      /\ \A t \in JpegSession : session_j'[t].error = session_j[t].error
      /\ \A t \in JpegSession : session_j'[t].abort = session_j[t].abort
      /\ \A t \in JpegSession : session_j'[t].pending = session_j[t].pending
      /\ \A t \in JpegSession \ {s} : session_j'[t].woken = session_j[t].woken
      /\ omx' = omx
      /\ spent' = spent
  BY DEF Breaks, Touches, Feeds, SessionField
<1>2. ASSUME NEW t \in JpegSession \ {s}
      PROVE  Component(t)'
  BY <1>1, ComponentKept DEF Breaks, ChangeIs, Components
<1>3. ASSUME ~Bad(s)'
      PROVE  IF change'.on = s THEN Changing(s)' ELSE Steady(s)'
  <2> QED BY <1>1, <1>3 DEF Bad, Breaks
<1> QED BY <1>2, <1>3 DEF Components, Component

(* The step Awaits preserves Components.                                    *)
LEMMA Components_Awaits ==
  ASSUME JpegTypeOK, Places, Sessions, Change, Drained, Aborts, ManagerInv, Ongoing,
            Components,
         NEW s \in JpegSession, Awaits(s)
  PROVE  Components'
<1>1. /\ \A t \in JpegSession : session_j'[t].active = session_j[t].active
      /\ \A t \in JpegSession : session_j'[t].config = session_j[t].config
      /\ \A t \in JpegSession : session_j'[t].encoding = session_j[t].encoding
      /\ \A t \in JpegSession : session_j'[t].error = session_j[t].error
      /\ \A t \in JpegSession : session_j'[t].abort = session_j[t].abort
      /\ \A t \in JpegSession : session_j'[t].pending = session_j[t].pending
      /\ \A t \in JpegSession \ {s} : session_j'[t].woken = session_j[t].woken
      /\ omx' = omx
      /\ spent' = spent
  BY DEF Awaits, Touches, Feeds, SessionField
<1>2. ASSUME NEW t \in JpegSession \ {s}
      PROVE  Component(t)'
  BY <1>1, ComponentKept DEF Awaits, ChangeIs, Components
<1>3. ASSUME ~Bad(s)'
      PROVE  IF change'.on = s THEN Changing(s)' ELSE Steady(s)'
  <2>1. Changing(s)
    BY <1>1, <1>3 DEF Components, Component, Awaits, Bad
  <2>2. Told(s) /\ session_j[s].abort # "init"
    BY <2>1 DEF Awaits, Changing, Over
  <2>3. Told(s)'
    BY <1>1, <2>2 DEF Told, Single, Before, Awaits, ChangeIs
  <2> QED BY <1>1, <2>2, <2>3 DEF Changing, Awaits, ChangeIs
<1> QED BY <1>2, <1>3 DEF Components, Component

(* The step Wakes preserves Components.                                     *)
LEMMA Components_Wakes ==
  ASSUME JpegTypeOK, Places, Sessions, Change, Drained, Aborts, ManagerInv, Ongoing,
            Components,
         NEW s \in JpegSession, Wakes(s)
  PROVE  Components'
<1>1. /\ session_j' = session_j
      /\ omx' = omx
      /\ spent' = spent
  BY DEF Wakes, Touches, Feeds, SessionField
<1>2. ASSUME NEW t \in JpegSession \ {s}
      PROVE  Component(t)'
  BY <1>1, ComponentKept DEF Wakes, ChangeIs, GoesOn, Components
<1>3. ASSUME ~Bad(s)'
      PROVE  IF change'.on = s THEN Changing(s)' ELSE Steady(s)'
  <2>1. Changing(s) /\ ~session_j[s].error
    BY <1>1, <1>3 DEF Components, Component, Wakes, Bad
  <2>2. Over(s) /\ session_j[s].abort # "init"
    BY <2>1 DEF Wakes, Changing, Told
  <2>3. Before(s)'
    BY <2>2, Rests, Positions DEF Wakes, GoesOn, ChangeIs, Before, Over, Change
  <2> QED BY <1>1, <2>2, <2>3 DEF Changing, Wakes, GoesOn, ChangeIs, Over
<1> QED BY <1>2, <1>3 DEF Components, Component

(* The step Moves preserves Components.                                     *)
LEMMA Components_Moves ==
  ASSUME JpegTypeOK, Places, Sessions, Change, Drained, Aborts, ManagerInv, Ongoing,
            Components,
         Moves
  PROVE  Components'
<1>1. /\ session_j' = session_j
      /\ omx' = omx
      /\ spent' = spent
  BY DEF Moves, Touches, Feeds, SessionField
<1>2. ASSUME NEW t \in JpegSession
      PROVE  Component(t)'
  BY <1>1, ComponentKept DEF Moves, Components
<1> QED BY <1>2 DEF Components

(* The step Takes preserves Components.                                     *)
LEMMA Components_Takes ==
  ASSUME JpegTypeOK, Places, Sessions, Change, Drained, Aborts, ManagerInv, Ongoing,
            Components,
         NEW s \in JpegSession, NEW j \in JpegJob, Takes(s, j)
  PROVE  Components'
<1>1. /\ \A t \in JpegSession : session_j'[t].active = session_j[t].active
      /\ \A t \in JpegSession : session_j'[t].config = session_j[t].config
      /\ \A t \in JpegSession : session_j'[t].encoding = session_j[t].encoding
      /\ \A t \in JpegSession : session_j'[t].error = session_j[t].error
      /\ \A t \in JpegSession : session_j'[t].abort = session_j[t].abort
      /\ \A t \in JpegSession : session_j'[t].pending = session_j[t].pending
      /\ \A t \in JpegSession : session_j'[t].woken = session_j[t].woken
      /\ omx' = omx
      /\ spent' = spent
  BY DEF Takes, Touches, Feeds, SessionField
<1>2. ASSUME NEW t \in JpegSession
      PROVE  Component(t)'
  BY <1>1, ComponentKept DEF Takes, Components
<1> QED BY <1>2 DEF Components

(* The step FindsConfigured preserves Components.                           *)
LEMMA Components_FindsConfigured ==
  ASSUME JpegTypeOK, Places, Sessions, Change, Drained, Aborts, ManagerInv, Ongoing,
            Components,
         NEW s \in JpegSession, FindsConfigured(s)
  PROVE  Components'
<1>1. /\ \A t \in JpegSession : session_j'[t].active = session_j[t].active
      /\ \A t \in JpegSession : session_j'[t].config = session_j[t].config
      /\ \A t \in JpegSession \ {s} : session_j'[t].encoding = session_j[t].encoding
      /\ \A t \in JpegSession : session_j'[t].error = session_j[t].error
      /\ \A t \in JpegSession \ {s} : session_j'[t].abort = session_j[t].abort
      /\ \A t \in JpegSession : session_j'[t].pending = session_j[t].pending
      /\ \A t \in JpegSession : session_j'[t].woken = session_j[t].woken
      /\ omx' = omx
      /\ spent' = spent
  BY DEF FindsConfigured, Touches, Feeds, SessionField
<1>2. ASSUME NEW t \in JpegSession \ {s}
      PROVE  Component(t)'
  BY <1>1, ComponentKept DEF FindsConfigured, Components
<1>3. ASSUME ~Bad(s)'
      PROVE  IF change'.on = s THEN Changing(s)' ELSE Steady(s)'
  <2>1. Holds(s) /\ manager.at = "encode" /\ change.on # s
    BY JpegAssumption DEF FindsConfigured, Holds, Held, Sess, Places,
         ManagerHasJobLock, CallHasJobLock, Change
  <2>2. session_j[s].active /\ session_j[s].abort # "init"
    BY <2>1 DEF Places, Holds, Held, Sess, CallHasJobLock, Aborts
  <2>3. ~session_j[s].encoding /\ ~session_j[s].error
    BY <1>1, <1>3, <2>1 DEF ManagerInv, Under, Exact, Bad
  <2>4. Steady(s)
    BY <2>1, <2>3 DEF Components, Component, Bad
  <2>5. omx[s].cmds = << >> /\ omx'[s].cmds = << >> /\ omx'[s].state = omx[s].state
    BY <1>1, <2>2, <2>4 DEF Steady
  <2> QED BY <1>1, <2>1, <2>2, <2>3, <2>4, <2>5 DEF Steady, FindsConfigured
<1> QED BY <1>2, <1>3 DEF Components, Component

(* The step FindsOther preserves Components.                                *)
LEMMA Components_FindsOther ==
  ASSUME JpegTypeOK, Places, Sessions, Change, Drained, Aborts, ManagerInv, Ongoing,
            Components,
         NEW s \in JpegSession, FindsOther(s)
  PROVE  Components'
<1>1. /\ \A t \in JpegSession : session_j'[t].active = session_j[t].active
      /\ \A t \in JpegSession : session_j'[t].config = session_j[t].config
      /\ \A t \in JpegSession \ {s} : session_j'[t].encoding = session_j[t].encoding
      /\ \A t \in JpegSession : session_j'[t].error = session_j[t].error
      /\ \A t \in JpegSession \ {s} : session_j'[t].abort = session_j[t].abort
      /\ \A t \in JpegSession : session_j'[t].pending = session_j[t].pending
      /\ \A t \in JpegSession : session_j'[t].woken = session_j[t].woken
      /\ omx' = omx
      /\ spent' = spent
  BY DEF FindsOther, Touches, Feeds, SessionField
<1>2. ASSUME NEW t \in JpegSession \ {s}
      PROVE  Component(t)'
  <2>1. CASE t = p_session_inprogress
    <3>1. session_j[t].config /\ session_j[t].active /\ change.on # t
      BY <2>1, JpegAssumption DEF Sessions, FindsOther, Change, Places,
           ManagerHasJobLock, CallHasJobLock, Held
    <3>2. session_j[t].abort # "init"
      BY DEF FindsOther, Aborts, Places, ManagerHasJobLock, CallHasJobLock, Held
    <3>3. ASSUME ~Bad(t)'
          PROVE  Changing(t)'
      <4>1. Steady(t)
        BY <1>1, <3>1, <3>3 DEF Components, Component, Bad
      <4>2. omx[t].cmds = << >> /\ omx[t].state \in {"Loaded", "Idle", "Executing"}
        BY <3>1, <3>2, <4>1 DEF Steady
      <4>3. Before(t)'
        BY <1>1, <2>1, <4>2, Rests DEF Before, FindsOther, ChangeIs
      <4> QED BY <1>1, <3>2, <4>2, <4>3 DEF Changing, FindsOther, ChangeIs
    <3> QED BY <2>1, <3>3 DEF Component, FindsOther, ChangeIs
  <2>2. CASE t # p_session_inprogress
    <3>1. change.on # t /\ change'.on # t
      BY <2>2, JpegAssumption DEF FindsOther, Change, Places, ManagerHasJobLock,
           CallHasJobLock, Held, ChangeIs
    <3> QED BY <1>1, <3>1, ComponentKept DEF FindsOther, Components
  <2> QED BY <2>1, <2>2
<1>3. ASSUME ~Bad(s)'
      PROVE  IF change'.on = s THEN Changing(s)' ELSE Steady(s)'
  <2>1. Holds(s) /\ manager.at = "encode" /\ change.on # s
    BY JpegAssumption DEF FindsOther, Holds, Held, Sess, Places, ManagerHasJobLock,
         CallHasJobLock, Change
  <2>2. session_j[s].active /\ session_j[s].abort # "init"
    BY <2>1 DEF Places, Holds, Held, Sess, CallHasJobLock, Aborts
  <2>3. ~session_j[s].encoding /\ ~session_j[s].error
    BY <1>1, <1>3, <2>1 DEF ManagerInv, Under, Exact, Bad
  <2>4. Steady(s)
    BY <2>1, <2>3 DEF Components, Component, Bad
  <2>5. omx[s].cmds = << >> /\ omx'[s].cmds = << >> /\ omx'[s].state = omx[s].state
    BY <1>1, <2>2, <2>4 DEF Steady
  <2> QED BY <1>1, <2>2, <2>4, <2>5, JpegAssumption DEF Steady, FindsOther, ChangeIs,
       Sessions
<1> QED BY <1>2, <1>3 DEF Components, Component

(* The step FindsNone preserves Components.                                 *)
LEMMA Components_FindsNone ==
  ASSUME JpegTypeOK, Places, Sessions, Change, Drained, Aborts, ManagerInv, Ongoing,
            Components,
         NEW s \in JpegSession, FindsNone(s)
  PROVE  Components'
<1>1. /\ \A t \in JpegSession : session_j'[t].active = session_j[t].active
      /\ \A t \in JpegSession : session_j'[t].config = session_j[t].config
      /\ \A t \in JpegSession \ {s} : session_j'[t].encoding = session_j[t].encoding
      /\ \A t \in JpegSession : session_j'[t].error = session_j[t].error
      /\ \A t \in JpegSession \ {s} : session_j'[t].abort = session_j[t].abort
      /\ \A t \in JpegSession : session_j'[t].pending = session_j[t].pending
      /\ \A t \in JpegSession : session_j'[t].woken = session_j[t].woken
      /\ omx' = omx
      /\ spent' = spent
  BY DEF FindsNone, Touches, Feeds, SessionField
<1>2. ASSUME NEW t \in JpegSession \ {s}
      PROVE  Component(t)'
  <2>1. change.on # t /\ change'.on # t
    BY JpegAssumption DEF FindsNone, Change, Places, ManagerHasJobLock, CallHasJobLock,
         Held, Sess, ChangeIs, ChangeEnds
  <2> QED BY <1>1, <2>1, ComponentKept DEF FindsNone, ChangeIs, Components
<1>3. ASSUME ~Bad(s)'
      PROVE  IF change'.on = s THEN Changing(s)' ELSE Steady(s)'
  <2>1. Holds(s) /\ manager.at = "encode" /\ change.on # s
    BY JpegAssumption DEF FindsNone, Holds, Held, Sess, Places, ManagerHasJobLock,
         CallHasJobLock, Change
  <2>2. session_j[s].active /\ session_j[s].abort # "init"
    BY <2>1 DEF Places, Holds, Held, Sess, CallHasJobLock, Aborts
  <2>3. ~session_j[s].encoding /\ ~session_j[s].error
    BY <1>1, <1>3, <2>1 DEF ManagerInv, Under, Exact, Bad
  <2>4. Steady(s)
    BY <2>1, <2>3 DEF Components, Component, Bad
  <2>5. omx[s].cmds = << >> /\ omx'[s].cmds = << >> /\ omx'[s].state = omx[s].state
    BY <1>1, <2>2, <2>4 DEF Steady
  <2>6. Before(s)'
    BY <1>1, <2>2, <2>4, Rests DEF Before, Steady, FindsNone, ChangeIs
  <2> QED BY <1>1, <2>2, <2>4, <2>5, <2>6 DEF Steady, FindsNone, ChangeIs, Changing
<1> QED BY <1>2, <1>3 DEF Components, Component

(* The step Cleared preserves Components.                                   *)
LEMMA Components_Cleared ==
  ASSUME JpegTypeOK, Places, Sessions, Change, Drained, Aborts, ManagerInv, Ongoing,
            Components,
         NEW s \in JpegSession, Cleared(s)
  PROVE  Components'
<1>1. /\ \A t \in JpegSession : session_j'[t].active = session_j[t].active
      /\ \A t \in JpegSession \ {s} : session_j'[t].config = session_j[t].config
      /\ \A t \in JpegSession : session_j'[t].encoding = session_j[t].encoding
      /\ \A t \in JpegSession : session_j'[t].error = session_j[t].error
      /\ \A t \in JpegSession : session_j'[t].abort = session_j[t].abort
      /\ \A t \in JpegSession : session_j'[t].pending = session_j[t].pending
      /\ \A t \in JpegSession : session_j'[t].woken = session_j[t].woken
      /\ omx' = omx
      /\ spent' = spent
  BY DEF Cleared, Touches, Feeds, SessionField
<1>2. ASSUME NEW t \in JpegSession \ {s}
      PROVE  Component(t)'
  <2>1. CASE t = Sess
    <3>1. ~session_j[t].config /\ session_j[t].active /\ change.on # t /\ Holds(t)
      BY <2>1 DEF Sessions, Cleared, Change, Places, ManagerHasJobLock, Held, Holds,
           Sess
    <3>2. session_j[t].abort = "none"
      BY <3>1 DEF Cleared, Aborts
    <3>3. ASSUME ~Bad(t)'
          PROVE  Changing(t)'
      <4>1. Steady(t)
        BY <1>1, <3>1, <3>3 DEF Components, Component, Bad
      <4>2. omx[t].cmds = << >> /\ omx[t].state = "Loaded"
        BY <3>1, <3>2, <4>1 DEF Steady
      <4>3. Before(t)'
        BY <1>1, <2>1, <4>2, Rests DEF Before, Cleared, ChangeIs
      <4> QED BY <1>1, <3>2, <4>2, <4>3 DEF Changing, Cleared, ChangeIs
    <3> QED BY <2>1, <3>3 DEF Component, Cleared, ChangeIs, Sess
  <2>2. CASE t # Sess
    <3>1. change.on # t /\ change'.on # t
      BY <2>2 DEF Cleared, Change, ChangeIs, Sess
    <3> QED BY <1>1, <3>1, ComponentKept DEF Cleared, Components
  <2> QED BY <2>1, <2>2
<1>3. ASSUME ~Bad(s)'
      PROVE  IF change'.on = s THEN Changing(s)' ELSE Steady(s)'
  <2>1. Changing(s) /\ session_j[s].active
    BY <1>1, <1>3 DEF Components, Component, Cleared, Bad, Change
  <2>2. omx[s].cmds = << >> /\ omx[s].state = "Loaded" /\ session_j[s].abort # "init"
    BY <2>1, Rests DEF Changing, Before, Cleared, Changed, Change
  <2>3. change'.on # s
    BY DEF Cleared, ChangeIs, Change, Sess
  <2> QED BY <1>1, <2>1, <2>2, <2>3 DEF Steady, Cleared
<1> QED BY <1>2, <1>3 DEF Components, Component

(* The step CannotConfigure preserves Components.                           *)
LEMMA Components_CannotConfigure ==
  ASSUME JpegTypeOK, Places, Sessions, Change, Drained, Aborts, ManagerInv, Ongoing,
            Components,
         CannotConfigure
  PROVE  Components'
<1>1. /\ session_j' = session_j
      /\ omx' = omx
      /\ spent' = spent
  BY DEF CannotConfigure, Touches, Feeds, SessionField
<1>2. ASSUME NEW t \in JpegSession
      PROVE  Component(t)'
  <2>1. CASE change.on = t
    <3>1. session_j[t].error
      BY <2>1 DEF CannotConfigure, Change
    <3> QED BY <1>1, <3>1 DEF Component, Bad
  <2>2. CASE change.on # t
    <3>1. change'.on # t
      BY JpegAssumption DEF CannotConfigure, ChangeEnds, ChangeIs
    <3> QED BY <1>1, <2>2, <3>1, ComponentKept DEF CannotConfigure, Components
  <2> QED BY <2>1, <2>2
<1> QED BY <1>2 DEF Components

(* The step ConfiguredForJob preserves Components.                          *)
LEMMA Components_ConfiguredForJob ==
  ASSUME JpegTypeOK, Places, Sessions, Change, Drained, Aborts, ManagerInv, Ongoing,
            Components,
         NEW s \in JpegSession, ConfiguredForJob(s)
  PROVE  Components'
<1>1. /\ \A t \in JpegSession : session_j'[t].active = session_j[t].active
      /\ \A t \in JpegSession \ {s} : session_j'[t].config = session_j[t].config
      /\ \A t \in JpegSession : session_j'[t].encoding = session_j[t].encoding
      /\ \A t \in JpegSession : session_j'[t].error = session_j[t].error
      /\ \A t \in JpegSession : session_j'[t].abort = session_j[t].abort
      /\ \A t \in JpegSession : session_j'[t].pending = session_j[t].pending
      /\ \A t \in JpegSession : session_j'[t].woken = session_j[t].woken
      /\ omx' = omx
      /\ spent' = spent
  BY DEF ConfiguredForJob, Touches, Feeds, SessionField
<1>2. ASSUME NEW t \in JpegSession \ {s}
      PROVE  Component(t)'
  <2>1. change.on # t /\ change'.on # t
    BY JpegAssumption DEF ConfiguredForJob, Change, Places, ManagerHasJobLock,
         CallHasJobLock, Held, Sess, ChangeIs, ChangeEnds
  <2> QED BY <1>1, <2>1, ComponentKept DEF ConfiguredForJob, ChangeEnds, ChangeIs,
       Components
<1>3. ASSUME ~Bad(s)'
      PROVE  IF change'.on = s THEN Changing(s)' ELSE Steady(s)'
  <2>1. Changing(s) /\ session_j[s].active /\ change'.on # s
    BY <1>1, <1>3, JpegAssumption DEF Components, Component, ConfiguredForJob, Bad,
         Change, Sess, ChangeEnds, ChangeIs
  <2>2. omx[s].cmds = << >> /\ omx[s].state = "Executing"
    BY <2>1, Rests DEF Changing, Before, ConfiguredForJob, Changed, Change
  <2>3. session_j[s].abort = "none"
    BY DEF Aborts, ConfiguredForJob, Holds, Held, Sess, Places, ManagerHasJobLock
  <2> QED BY <1>1, <2>1, <2>2, <2>3 DEF Steady, ConfiguredForJob
<1> QED BY <1>2, <1>3 DEF Components, Component

(* The step Starts preserves Components.                                    *)
LEMMA Components_Starts ==
  ASSUME JpegTypeOK, Places, Sessions, Change, Drained, Aborts, ManagerInv, Ongoing,
            Components,
         NEW s \in JpegSession, Starts(s)
  PROVE  Components'
<1>1. /\ \A t \in JpegSession : session_j'[t].active = session_j[t].active
      /\ \A t \in JpegSession : session_j'[t].config = session_j[t].config
      /\ \A t \in JpegSession \ {s} : session_j'[t].encoding = session_j[t].encoding
      /\ \A t \in JpegSession : session_j'[t].error = session_j[t].error
      /\ \A t \in JpegSession : session_j'[t].abort = session_j[t].abort
      /\ \A t \in JpegSession : session_j'[t].pending = session_j[t].pending
      /\ \A t \in JpegSession : session_j'[t].woken = session_j[t].woken
      /\ omx' = omx
      /\ spent' = spent
  BY DEF Starts, Touches, Feeds, SessionField
<1>2. ASSUME NEW t \in JpegSession \ {s}
      PROVE  Component(t)'
  BY <1>1, ComponentKept DEF Starts, Components
<1>3. ASSUME ~Bad(s)'
      PROVE  IF change'.on = s THEN Changing(s)' ELSE Steady(s)'
  <2>1. Holds(s) /\ change.on # s
    BY JpegAssumption DEF Starts, Holds, Held, Sess, Places, ManagerHasJobLock,
         CallHasJobLock, Change
  <2>2. session_j[s].abort = "none"
    BY <2>1 DEF Starts, Aborts
  <2>3. Steady(s)
    BY <1>1, <1>3, <2>1, <2>2 DEF Components, Component, Bad
  <2> QED BY <1>1, <2>1, <2>2, <2>3 DEF Steady, Starts
<1> QED BY <1>2, <1>3 DEF Components, Component

(* The step Refused preserves Components.                                   *)
LEMMA Components_Refused ==
  ASSUME JpegTypeOK, Places, Sessions, Change, Drained, Aborts, ManagerInv, Ongoing,
            Components,
         Refused
  PROVE  Components'
<1>1. /\ session_j' = session_j
      /\ omx' = omx
      /\ spent.errors > 0 => spent'.errors > 0
  BY DEF Refused, Touches, Feeds, SessionField, Sessions
<1>2. ASSUME NEW t \in JpegSession
      PROVE  Component(t)'
  BY <1>1, ComponentKept DEF Refused, Components
<1> QED BY <1>2 DEF Components

(* The step Fails preserves Components.                                     *)
LEMMA Components_Fails ==
  ASSUME JpegTypeOK, Places, Sessions, Change, Drained, Aborts, ManagerInv, Ongoing,
            Components,
         NEW s \in JpegSession, Fails(s)
  PROVE  Components'
<1>1. /\ \A t \in JpegSession : session_j'[t].active = session_j[t].active
      /\ \A t \in JpegSession : session_j'[t].config = session_j[t].config
      /\ \A t \in JpegSession \ {s} : session_j'[t].encoding = session_j[t].encoding
      /\ \A t \in JpegSession : session_j'[t].error = session_j[t].error
      /\ \A t \in JpegSession : session_j'[t].abort = session_j[t].abort
      /\ \A t \in JpegSession : session_j'[t].pending = session_j[t].pending
      /\ \A t \in JpegSession : session_j'[t].woken = session_j[t].woken
      /\ omx' = omx
      /\ spent' = spent
  BY DEF Fails, Touches, Feeds, SessionField
<1>2. ASSUME NEW t \in JpegSession \ {s}
      PROVE  Component(t)'
  BY <1>1, ComponentKept DEF Fails, Components
<1>3. ASSUME ~Bad(s)'
      PROVE  IF change'.on = s THEN Changing(s)' ELSE Steady(s)'
  <2>1. Holds(s) /\ change.on # s
    BY JpegAssumption DEF Fails, Holds, Held, Sess, Places, ManagerHasJobLock,
         CallHasJobLock, Change
  <2>2. session_j[s].abort = "none"
    BY <2>1 DEF Fails, Aborts
  <2>3. Steady(s)
    BY <1>1, <1>3, <2>1, <2>2 DEF Components, Component, Bad
  <2> QED BY <1>1, <2>1, <2>2, <2>3 DEF Steady, Fails
<1> QED BY <1>2, <1>3 DEF Components, Component

(* The step DoneAborting preserves Components.                              *)
LEMMA Components_DoneAborting ==
  ASSUME JpegTypeOK, Places, Sessions, Change, Drained, Aborts, ManagerInv, Ongoing,
            Components,
         NEW s \in JpegSession, DoneAborting(s)
  PROVE  Components'
<1>1. /\ \A t \in JpegSession : session_j'[t].active = session_j[t].active
      /\ \A t \in JpegSession : session_j'[t].config = session_j[t].config
      /\ \A t \in JpegSession : session_j'[t].encoding = session_j[t].encoding
      /\ \A t \in JpegSession : session_j'[t].error = session_j[t].error
      /\ \A t \in JpegSession \ {s} : session_j'[t].abort = session_j[t].abort
      /\ \A t \in JpegSession : session_j'[t].pending = session_j[t].pending
      /\ \A t \in JpegSession \ {s} : session_j'[t].woken = session_j[t].woken
      /\ \A t \in JpegSession \ {s} : omx'[t].state = omx[t].state
      /\ \A t \in JpegSession \ {s} : omx'[t].cmds = omx[t].cmds
      /\ spent' = spent
  BY DEF DoneAborting, Touches, Feeds, SessionField
<1>2. ASSUME NEW t \in JpegSession \ {s}
      PROVE  Component(t)'
  BY <1>1, ComponentKept DEF DoneAborting, Components
<1>3. ASSUME ~Bad(s)'
      PROVE  IF change'.on = s THEN Changing(s)' ELSE Steady(s)'
  <2>1. session_j[s].encoding /\ change.on # s /\ session_j[s].active
    BY JpegAssumption DEF DoneAborting, Aborts, Places, Change, CallHasJobLock,
         ManagerHasJobLock
  <2>2. ~session_j[s].error /\ ~Bad(s)
    BY <1>1, <1>3, <2>1 DEF Bad, DoneAborting
  <2>3. Steady(s) /\ session_j[s].config
    BY <2>1, <2>2 DEF Components, Component, Ongoing, DoneAborting
  <2>4. Single(s, "Idle")
    BY <2>3 DEF Steady, DoneAborting
  <2> QED BY <1>1, <2>1, <2>3, <2>4 DEF Steady, Single, DoneAborting
<1> QED BY <1>2, <1>3 DEF Components, Component

(* The step DoneAwaited preserves Components.                               *)
LEMMA Components_DoneAwaited ==
  ASSUME JpegTypeOK, Places, Sessions, Change, Drained, Aborts, ManagerInv, Ongoing,
            Components,
         NEW s \in JpegSession, DoneAwaited(s)
  PROVE  Components'
<1>1. /\ \A t \in JpegSession : session_j'[t].active = session_j[t].active
      /\ \A t \in JpegSession : session_j'[t].config = session_j[t].config
      /\ \A t \in JpegSession : session_j'[t].encoding = session_j[t].encoding
      /\ \A t \in JpegSession : session_j'[t].error = session_j[t].error
      /\ \A t \in JpegSession : session_j'[t].abort = session_j[t].abort
      /\ \A t \in JpegSession \ {s} : session_j'[t].pending = session_j[t].pending
      /\ \A t \in JpegSession \ {s} : session_j'[t].woken = session_j[t].woken
      /\ \A t \in JpegSession \ {s} : omx'[t].state = omx[t].state
      /\ \A t \in JpegSession \ {s} : omx'[t].cmds = omx[t].cmds
      /\ spent' = spent
  BY DEF DoneAwaited, Touches, Feeds, SessionField
<1>2. ASSUME NEW t \in JpegSession \ {s}
      PROVE  Component(t)'
  BY <1>1, ComponentKept DEF DoneAwaited, Components
<1>3. ASSUME ~Bad(s)'
      PROVE  IF change'.on = s THEN Changing(s)' ELSE Steady(s)'
  <2>1. change.on = s /\ Changing(s)
    BY <1>1, <1>3 DEF Components, Component, Bad, Steady, DoneAwaited
  <2>2. change.at # "failed"
    BY <1>1, <1>3, <2>1 DEF Bad, Change
  <2>3. change.at \in {"sent", "wait"} /\ Told(s) /\ session_j[s].abort # "init"
    BY <2>1, <2>2, Positions DEF Changing, Over, DoneAwaited
  <2>4. Over(s)'
    BY <1>1, <2>3 DEF Told, Single, Over, DoneAwaited
  <2> QED BY <1>1, <2>1, <2>3, <2>4 DEF Changing, DoneAwaited
<1> QED BY <1>2, <1>3 DEF Components, Component

(* The step DoneAlone preserves Components.                                 *)
LEMMA Components_DoneAlone ==
  ASSUME JpegTypeOK, Places, Sessions, Change, Drained, Aborts, ManagerInv, Ongoing,
            Components,
         NEW s \in JpegSession, DoneAlone(s)
  PROVE  Components'
<1>1. /\ session_j' = session_j
      /\ \A t \in JpegSession \ {s} : omx'[t].state = omx[t].state
      /\ \A t \in JpegSession \ {s} : omx'[t].cmds = omx[t].cmds
      /\ spent' = spent
  BY DEF DoneAlone, Touches, Feeds, SessionField
<1>2. ASSUME NEW t \in JpegSession \ {s}
      PROVE  Component(t)'
  BY <1>1, ComponentKept DEF DoneAlone, Components
<1>3. ASSUME ~Bad(s)'
      PROVE  IF change'.on = s THEN Changing(s)' ELSE Steady(s)'
  <2>1. change.on = s /\ Changing(s)
    BY <1>1, <1>3 DEF Components, Component, Bad, Steady, DoneAlone
  <2>2. change.at # "failed"
    BY <1>1, <1>3, <2>1 DEF Bad, Change
  <2> QED BY <2>1, <2>2, Positions DEF Changing, Over, Told, DoneAlone
<1> QED BY <1>2, <1>3 DEF Components, Component

(* The step ErrorAbortingWay preserves Components.                          *)
LEMMA Components_ErrorAbortingWay ==
  ASSUME JpegTypeOK, Places, Sessions, Change, Drained, Aborts, ManagerInv, Ongoing,
            Components,
         NEW s \in JpegSession, ErrorAbortingWay(s)
  PROVE  Components'
<1>1. /\ \A t \in JpegSession : session_j'[t].active = session_j[t].active
      /\ \A t \in JpegSession : session_j'[t].config = session_j[t].config
      /\ \A t \in JpegSession : session_j'[t].encoding = session_j[t].encoding
      /\ \A t \in JpegSession : session_j'[t].error = session_j[t].error
      /\ \A t \in JpegSession \ {s} : session_j'[t].abort = session_j[t].abort
      /\ \A t \in JpegSession : session_j'[t].pending = session_j[t].pending
      /\ \A t \in JpegSession \ {s} : session_j'[t].woken = session_j[t].woken
      /\ \A t \in JpegSession : omx'[t].state = omx[t].state
      /\ \A t \in JpegSession \ {s} : omx'[t].cmds = omx[t].cmds
      /\ spent.errors > 0 => spent'.errors > 0
  BY DEF ErrorAbortingWay, Touches, Feeds, SessionField, Sessions
<1>2. ASSUME NEW t \in JpegSession \ {s}
      PROVE  Component(t)'
  BY <1>1, ComponentKept DEF ErrorAbortingWay, Components
<1>3. ASSUME ~Bad(s)'
      PROVE  IF change'.on = s THEN Changing(s)' ELSE Steady(s)'
  <2> QED BY <1>1, <1>3 DEF Bad, ErrorAbortingWay, Aborts, Sessions
<1> QED BY <1>2, <1>3 DEF Components, Component

(* The step ErrorEncodingWay preserves Components.                          *)
LEMMA Components_ErrorEncodingWay ==
  ASSUME JpegTypeOK, Places, Sessions, Change, Drained, Aborts, ManagerInv, Ongoing,
            Components,
         NEW s \in JpegSession, ErrorEncodingWay(s)
  PROVE  Components'
<1>1. /\ \A t \in JpegSession : session_j'[t].active = session_j[t].active
      /\ \A t \in JpegSession : session_j'[t].config = session_j[t].config
      /\ \A t \in JpegSession : session_j'[t].encoding = session_j[t].encoding
      /\ \A t \in JpegSession \ {s} : session_j'[t].error = session_j[t].error
      /\ \A t \in JpegSession : session_j'[t].abort = session_j[t].abort
      /\ \A t \in JpegSession : session_j'[t].pending = session_j[t].pending
      /\ \A t \in JpegSession \ {s} : session_j'[t].woken = session_j[t].woken
      /\ \A t \in JpegSession : omx'[t].state = omx[t].state
      /\ \A t \in JpegSession \ {s} : omx'[t].cmds = omx[t].cmds
      /\ spent.errors > 0 => spent'.errors > 0
  BY DEF ErrorEncodingWay, Touches, Feeds, SessionField, Sessions
<1>2. ASSUME NEW t \in JpegSession \ {s}
      PROVE  Component(t)'
  BY <1>1, ComponentKept DEF ErrorEncodingWay, Components
<1>3. ASSUME ~Bad(s)'
      PROVE  IF change'.on = s THEN Changing(s)' ELSE Steady(s)'
  <2> QED BY <1>3 DEF Bad, ErrorEncodingWay
<1> QED BY <1>2, <1>3 DEF Components, Component

(* The step ErrorElseWay preserves Components.                              *)
LEMMA Components_ErrorElseWay ==
  ASSUME JpegTypeOK, Places, Sessions, Change, Drained, Aborts, ManagerInv, Ongoing,
            Components,
         NEW s \in JpegSession, ErrorElseWay(s)
  PROVE  Components'
<1>1. /\ \A t \in JpegSession : session_j'[t].active = session_j[t].active
      /\ \A t \in JpegSession : session_j'[t].config = session_j[t].config
      /\ \A t \in JpegSession : session_j'[t].encoding = session_j[t].encoding
      /\ \A t \in JpegSession \ {s} : session_j'[t].error = session_j[t].error
      /\ \A t \in JpegSession : session_j'[t].abort = session_j[t].abort
      /\ \A t \in JpegSession : session_j'[t].pending = session_j[t].pending
      /\ \A t \in JpegSession \ {s} : session_j'[t].woken = session_j[t].woken
      /\ \A t \in JpegSession : omx'[t].state = omx[t].state
      /\ \A t \in JpegSession \ {s} : omx'[t].cmds = omx[t].cmds
      /\ spent.errors > 0 => spent'.errors > 0
  BY DEF ErrorElseWay, Touches, Feeds, SessionField, Sessions
<1>2. ASSUME NEW t \in JpegSession \ {s}
      PROVE  Component(t)'
  BY <1>1, ComponentKept DEF ErrorElseWay, Components
<1>3. ASSUME ~Bad(s)'
      PROVE  IF change'.on = s THEN Changing(s)' ELSE Steady(s)'
  <2> QED BY <1>3 DEF Bad, ErrorElseWay
<1> QED BY <1>2, <1>3 DEF Components, Component

(* The step ErrorAbortingWork preserves Components.                         *)
LEMMA Components_ErrorAbortingWork ==
  ASSUME JpegTypeOK, Places, Sessions, Change, Drained, Aborts, ManagerInv, Ongoing,
            Components,
         NEW s \in JpegSession, ErrorAbortingWork(s)
  PROVE  Components'
<1>1. /\ \A t \in JpegSession : session_j'[t].active = session_j[t].active
      /\ \A t \in JpegSession : session_j'[t].config = session_j[t].config
      /\ \A t \in JpegSession : session_j'[t].encoding = session_j[t].encoding
      /\ \A t \in JpegSession : session_j'[t].error = session_j[t].error
      /\ \A t \in JpegSession \ {s} : session_j'[t].abort = session_j[t].abort
      /\ \A t \in JpegSession : session_j'[t].pending = session_j[t].pending
      /\ \A t \in JpegSession \ {s} : session_j'[t].woken = session_j[t].woken
      /\ \A t \in JpegSession : omx'[t].state = omx[t].state
      /\ \A t \in JpegSession : omx'[t].cmds = omx[t].cmds
      /\ spent.errors > 0 => spent'.errors > 0
  BY DEF ErrorAbortingWork, Touches, Feeds, SessionField, Sessions
<1>2. ASSUME NEW t \in JpegSession \ {s}
      PROVE  Component(t)'
  BY <1>1, ComponentKept DEF ErrorAbortingWork, Components
<1>3. ASSUME ~Bad(s)'
      PROVE  IF change'.on = s THEN Changing(s)' ELSE Steady(s)'
  <2> QED BY <1>1, <1>3 DEF Bad, ErrorAbortingWork, Aborts, Sessions
<1> QED BY <1>2, <1>3 DEF Components, Component

(* The step ErrorEncodingWork preserves Components.                         *)
LEMMA Components_ErrorEncodingWork ==
  ASSUME JpegTypeOK, Places, Sessions, Change, Drained, Aborts, ManagerInv, Ongoing,
            Components,
         NEW s \in JpegSession, ErrorEncodingWork(s)
  PROVE  Components'
<1>1. /\ \A t \in JpegSession : session_j'[t].active = session_j[t].active
      /\ \A t \in JpegSession : session_j'[t].config = session_j[t].config
      /\ \A t \in JpegSession : session_j'[t].encoding = session_j[t].encoding
      /\ \A t \in JpegSession \ {s} : session_j'[t].error = session_j[t].error
      /\ \A t \in JpegSession : session_j'[t].abort = session_j[t].abort
      /\ \A t \in JpegSession : session_j'[t].pending = session_j[t].pending
      /\ \A t \in JpegSession \ {s} : session_j'[t].woken = session_j[t].woken
      /\ \A t \in JpegSession : omx'[t].state = omx[t].state
      /\ \A t \in JpegSession : omx'[t].cmds = omx[t].cmds
      /\ spent.errors > 0 => spent'.errors > 0
  BY DEF ErrorEncodingWork, Touches, Feeds, SessionField, Sessions
<1>2. ASSUME NEW t \in JpegSession \ {s}
      PROVE  Component(t)'
  BY <1>1, ComponentKept DEF ErrorEncodingWork, Components
<1>3. ASSUME ~Bad(s)'
      PROVE  IF change'.on = s THEN Changing(s)' ELSE Steady(s)'
  <2> QED BY <1>3 DEF Bad, ErrorEncodingWork
<1> QED BY <1>2, <1>3 DEF Components, Component

(* The step ErrorElseWork preserves Components.                             *)
LEMMA Components_ErrorElseWork ==
  ASSUME JpegTypeOK, Places, Sessions, Change, Drained, Aborts, ManagerInv, Ongoing,
            Components,
         NEW s \in JpegSession, ErrorElseWork(s)
  PROVE  Components'
<1>1. /\ \A t \in JpegSession : session_j'[t].active = session_j[t].active
      /\ \A t \in JpegSession : session_j'[t].config = session_j[t].config
      /\ \A t \in JpegSession : session_j'[t].encoding = session_j[t].encoding
      /\ \A t \in JpegSession \ {s} : session_j'[t].error = session_j[t].error
      /\ \A t \in JpegSession : session_j'[t].abort = session_j[t].abort
      /\ \A t \in JpegSession : session_j'[t].pending = session_j[t].pending
      /\ \A t \in JpegSession \ {s} : session_j'[t].woken = session_j[t].woken
      /\ \A t \in JpegSession : omx'[t].state = omx[t].state
      /\ \A t \in JpegSession : omx'[t].cmds = omx[t].cmds
      /\ spent.errors > 0 => spent'.errors > 0
  BY DEF ErrorElseWork, Touches, Feeds, SessionField, Sessions
<1>2. ASSUME NEW t \in JpegSession \ {s}
      PROVE  Component(t)'
  BY <1>1, ComponentKept DEF ErrorElseWork, Components
<1>3. ASSUME ~Bad(s)'
      PROVE  IF change'.on = s THEN Changing(s)' ELSE Steady(s)'
  <2> QED BY <1>3 DEF Bad, ErrorElseWork
<1> QED BY <1>2, <1>3 DEF Components, Component

(* The step Removes preserves Components.                                   *)
LEMMA Components_Removes ==
  ASSUME JpegTypeOK, Places, Sessions, Change, Drained, Aborts, ManagerInv, Ongoing,
            Components,
         NEW s \in JpegSession, Removes(s)
  PROVE  Components'
<1>1. /\ \A t \in JpegSession : session_j'[t].active = session_j[t].active
      /\ \A t \in JpegSession : session_j'[t].config = session_j[t].config
      /\ \A t \in JpegSession \ {s} : session_j'[t].encoding = session_j[t].encoding
      /\ \A t \in JpegSession : session_j'[t].error = session_j[t].error
      /\ \A t \in JpegSession : session_j'[t].abort = session_j[t].abort
      /\ \A t \in JpegSession : session_j'[t].pending = session_j[t].pending
      /\ \A t \in JpegSession : session_j'[t].woken = session_j[t].woken
      /\ omx' = omx
      /\ spent' = spent
  BY DEF Removes, Touches, Feeds, SessionField
<1>2. ASSUME NEW t \in JpegSession \ {s}
      PROVE  Component(t)'
  BY <1>1, ComponentKept DEF Removes, Components
<1>3. ASSUME ~Bad(s)'
      PROVE  IF change'.on = s THEN Changing(s)' ELSE Steady(s)'
  <2>1. ~Bad(s)
    BY <1>1, <1>3 DEF Bad, Removes, Aborts, Exact
  <2>2. session_j[s].abort = "none" \/ ~session_j[s].encoding
    BY <2>1, SessionTypes DEF Aborts, Removes, Exact, Bad
  <2>3. CASE change.on = s
    <3>1. Changing(s)
      BY <2>1, <2>3 DEF Components, Component
    <3> QED BY <1>1, <2>3, <3>1 DEF Changing, Told, Over, Single, Before, Removes
  <2>4. CASE change.on # s
    <3>1. Steady(s)
      BY <2>1, <2>4 DEF Components, Component
    <3> QED BY <1>1, <2>2, <2>4, <3>1 DEF Steady, Single, Removes
  <2> QED BY <2>3, <2>4
<1> QED BY <1>2, <1>3 DEF Components, Component

(* The step Creates preserves Components.                                   *)
LEMMA Components_Creates ==
  ASSUME JpegTypeOK, Places, Sessions, Change, Drained, Aborts, ManagerInv, Ongoing,
            Components,
         NEW s \in JpegSession, Creates(s)
  PROVE  Components'
<1>1. /\ \A t \in JpegSession \ {s} : session_j'[t].active = session_j[t].active
      /\ \A t \in JpegSession \ {s} : session_j'[t].config = session_j[t].config
      /\ \A t \in JpegSession \ {s} : session_j'[t].encoding = session_j[t].encoding
      /\ \A t \in JpegSession \ {s} : session_j'[t].error = session_j[t].error
      /\ \A t \in JpegSession \ {s} : session_j'[t].abort = session_j[t].abort
      /\ \A t \in JpegSession \ {s} : session_j'[t].pending = session_j[t].pending
      /\ \A t \in JpegSession \ {s} : session_j'[t].woken = session_j[t].woken
      /\ \A t \in JpegSession \ {s} : omx'[t].state = omx[t].state
      /\ \A t \in JpegSession \ {s} : omx'[t].cmds = omx[t].cmds
      /\ spent'.errors = spent.errors
  BY DEF Creates, Touches, Feeds, SessionField
<1>2. ASSUME NEW t \in JpegSession \ {s}
      PROVE  Component(t)'
  BY <1>1, ComponentKept DEF Creates, Components
<1>3. ASSUME ~Bad(s)'
      PROVE  IF change'.on = s THEN Changing(s)' ELSE Steady(s)'
  <2>1. change.on # s /\ change'.on # s
    BY JpegAssumption DEF Creates, Change
  <2> QED BY <1>1, <2>1 DEF Steady, Creates, IsNew
<1> QED BY <1>2, <1>3 DEF Components, Component

(* The step ConfiguresNew preserves Components.                             *)
LEMMA Components_ConfiguresNew ==
  ASSUME JpegTypeOK, Places, Sessions, Change, Drained, Aborts, ManagerInv, Ongoing,
            Components,
         NEW s \in JpegSession, ConfiguresNew(s)
  PROVE  Components'
<1>1. /\ session_j' = session_j
      /\ omx' = omx
      /\ spent' = spent
  BY DEF ConfiguresNew, Touches, Feeds, SessionField
<1>2. ASSUME NEW t \in JpegSession \ {s}
      PROVE  Component(t)'
  <2>1. change.on # t /\ change'.on # t
    BY JpegAssumption DEF ConfiguresNew, Change, Places, ManagerHasJobLock,
         CallHasJobLock, Held, Sess, ChangeIs, ChangeEnds
  <2> QED BY <1>1, <2>1, ComponentKept DEF ConfiguresNew, ChangeIs, Components
<1>3. ASSUME ~Bad(s)'
      PROVE  IF change'.on = s THEN Changing(s)' ELSE Steady(s)'
  <2>1. change.on # s
    BY JpegAssumption DEF ConfiguresNew, Change, ManagerHasJobLock
  <2>2. /\ session_j[s].active /\ session_j[s].abort = "none" /\ ~session_j[s].config
    BY JpegAssumption DEF ConfiguresNew, Places, Drained, Sessions
  <2>3. Steady(s)
    BY <1>1, <1>3, <2>1 DEF Components, Component, Bad
  <2>4. omx[s].cmds = << >> /\ omx[s].state = "Loaded"
    BY <2>2, <2>3 DEF Steady
  <2>5. Before(s)'
    BY <1>1, <2>4, Rests DEF Before, ConfiguresNew, ChangeIs
  <2> QED BY <1>1, <2>2, <2>4, <2>5 DEF Changing, ConfiguresNew, ChangeIs
<1> QED BY <1>2, <1>3 DEF Components, Component

(* The step Created preserves Components.                                   *)
LEMMA Components_Created ==
  ASSUME JpegTypeOK, Places, Sessions, Change, Drained, Aborts, ManagerInv, Ongoing,
            Components,
         NEW s \in JpegSession, Created(s)
  PROVE  Components'
<1>1. /\ \A t \in JpegSession : session_j'[t].active = session_j[t].active
      /\ \A t \in JpegSession \ {s} : session_j'[t].config = session_j[t].config
      /\ \A t \in JpegSession : session_j'[t].encoding = session_j[t].encoding
      /\ \A t \in JpegSession : session_j'[t].error = session_j[t].error
      /\ \A t \in JpegSession : session_j'[t].abort = session_j[t].abort
      /\ \A t \in JpegSession : session_j'[t].pending = session_j[t].pending
      /\ \A t \in JpegSession : session_j'[t].woken = session_j[t].woken
      /\ omx' = omx
      /\ spent' = spent
  BY DEF Created, Touches, Feeds, SessionField
<1>2. ASSUME NEW t \in JpegSession \ {s}
      PROVE  Component(t)'
  <2>1. change.on # t /\ change'.on # t
    BY JpegAssumption DEF Created, Change, Places, ManagerHasJobLock, CallHasJobLock,
         Held, Sess, ChangeIs, ChangeEnds
  <2> QED BY <1>1, <2>1, ComponentKept DEF Created, ChangeEnds, ChangeIs, Components
<1>3. ASSUME ~Bad(s)'
      PROVE  IF change'.on = s THEN Changing(s)' ELSE Steady(s)'
  <2>1. change.on = s /\ change'.on # s /\ session_j[s].active
          /\ session_j[s].abort = "none"
    BY JpegAssumption DEF Created, Change, ChangeEnds, ChangeIs, Drained, Places
  <2>2. Changing(s)
    BY <1>1, <1>3, <2>1 DEF Components, Component, Bad
  <2>3. omx[s].cmds = << >> /\ omx[s].state = "Executing"
    BY <2>2, Rests DEF Changing, Before, Created, Changed, Change
  <2> QED BY <1>1, <2>1, <2>3 DEF Steady, Created
<1> QED BY <1>2, <1>3 DEF Components, Component

(* The step NotCreated preserves Components.                                *)
LEMMA Components_NotCreated ==
  ASSUME JpegTypeOK, Places, Sessions, Change, Drained, Aborts, ManagerInv, Ongoing,
            Components,
         NotCreated
  PROVE  Components'
<1>1. /\ session_j' = session_j
      /\ omx' = omx
      /\ spent' = spent
  BY DEF NotCreated, Touches, Feeds, SessionField
<1>2. ASSUME NEW t \in JpegSession
      PROVE  Component(t)'
  <2>1. CASE change.on = t
    <3>1. session_j[t].error
      BY <2>1 DEF NotCreated, Change
    <3> QED BY <1>1, <3>1 DEF Component, Bad
  <2>2. CASE change.on # t
    <3>1. change'.on # t
      BY JpegAssumption DEF NotCreated, ChangeEnds, ChangeIs
    <3> QED BY <1>1, <2>2, <3>1, ComponentKept DEF NotCreated, Components
  <2> QED BY <2>1, <2>2
<1> QED BY <1>2 DEF Components

(* The step PostEnds preserves Components.                                  *)
LEMMA Components_PostEnds ==
  ASSUME JpegTypeOK, Places, Sessions, Change, Drained, Aborts, ManagerInv, Ongoing,
            Components,
         PostEnds
  PROVE  Components'
<1>1. /\ session_j' = session_j
      /\ omx' = omx
      /\ spent' = spent
  BY DEF PostEnds, Touches, Feeds, SessionField
<1>2. ASSUME NEW t \in JpegSession
      PROVE  Component(t)'
  BY <1>1, ComponentKept DEF PostEnds, Components
<1> QED BY <1>2 DEF Components

(* The step AsksAbort preserves Components.                                 *)
LEMMA Components_AsksAbort ==
  ASSUME JpegTypeOK, Places, Sessions, Change, Drained, Aborts, ManagerInv, Ongoing,
            Components,
         NEW s \in JpegSession, NEW j \in JpegJob, AsksAbort(s, j)
  PROVE  Components'
<1>1. /\ \A t \in JpegSession : session_j'[t].active = session_j[t].active
      /\ \A t \in JpegSession : session_j'[t].config = session_j[t].config
      /\ \A t \in JpegSession : session_j'[t].encoding = session_j[t].encoding
      /\ \A t \in JpegSession : session_j'[t].error = session_j[t].error
      /\ \A t \in JpegSession : session_j'[t].abort = session_j[t].abort
      /\ \A t \in JpegSession : session_j'[t].pending = session_j[t].pending
      /\ \A t \in JpegSession : session_j'[t].woken = session_j[t].woken
      /\ omx' = omx
      /\ spent' = spent
  BY DEF AsksAbort, Touches, Feeds, SessionField
<1>2. ASSUME NEW t \in JpegSession
      PROVE  Component(t)'
  BY <1>1, ComponentKept DEF AsksAbort, Components
<1> QED BY <1>2 DEF Components

(* The step MarksJob preserves Components.                                  *)
LEMMA Components_MarksJob ==
  ASSUME JpegTypeOK, Places, Sessions, Change, Drained, Aborts, ManagerInv, Ongoing,
            Components,
         NEW s \in JpegSession, MarksJob(s)
  PROVE  Components'
<1>1. /\ \A t \in JpegSession : session_j'[t].active = session_j[t].active
      /\ \A t \in JpegSession : session_j'[t].config = session_j[t].config
      /\ \A t \in JpegSession : session_j'[t].encoding = session_j[t].encoding
      /\ \A t \in JpegSession : session_j'[t].error = session_j[t].error
      /\ \A t \in JpegSession \ {s} : session_j'[t].abort = session_j[t].abort
      /\ \A t \in JpegSession : session_j'[t].pending = session_j[t].pending
      /\ \A t \in JpegSession : session_j'[t].woken = session_j[t].woken
      /\ omx' = omx
      /\ spent' = spent
  BY DEF MarksJob, Touches, Feeds, SessionField
<1>2. ASSUME NEW t \in JpegSession \ {s}
      PROVE  Component(t)'
  BY <1>1, ComponentKept DEF MarksJob, Components
<1>3. ASSUME ~Bad(s)'
      PROVE  IF change'.on = s THEN Changing(s)' ELSE Steady(s)'
  <2>1. change.on # s
    BY JpegAssumption DEF MarksJob, Change, Places, CallHasJobLock, ManagerHasJobLock
  <2>2. Steady(s)
    BY <1>1, <1>3, <2>1 DEF Components, Component, Bad, MarksJob
  <2> QED BY <1>1, <2>1, <2>2 DEF Steady, Single, MarksJob
<1> QED BY <1>2, <1>3 DEF Components, Component

(* The step HaltsSession preserves Components.                              *)
LEMMA Components_HaltsSession ==
  ASSUME JpegTypeOK, Places, Sessions, Change, Drained, Aborts, ManagerInv, Ongoing,
            Components,
         NEW s \in JpegSession, HaltsSession(s)
  PROVE  Components'
<1>1. /\ session_j' = session_j
      /\ omx' = omx
      /\ spent' = spent
  BY DEF HaltsSession, Touches, Feeds, SessionField
<1>2. ASSUME NEW t \in JpegSession \ {s}
      PROVE  Component(t)'
  <2>1. change.on # t /\ change'.on # t
    BY JpegAssumption DEF HaltsSession, Change, Places, ManagerHasJobLock,
         CallHasJobLock, Held, Sess, ChangeIs, ChangeEnds
  <2> QED BY <1>1, <2>1, ComponentKept DEF HaltsSession, ChangeIs, Components
<1>3. ASSUME ~Bad(s)'
      PROVE  IF change'.on = s THEN Changing(s)' ELSE Steady(s)'
  <2>1. change.on # s
    BY JpegAssumption DEF HaltsSession, Change, Places, CallHasJobLock,
         ManagerHasJobLock
  <2>2. session_j[s].abort # "init" /\ session_j[s].active
    BY DEF HaltsSession, Aborts, Places
  <2>3. ~Bad(s)
    BY <1>1, <1>3 DEF Bad, HaltsSession
  <2>4. Steady(s)
    BY <2>1, <2>3 DEF Components, Component
  <2>5. omx[s].cmds = << >> /\ omx[s].state \in {"Loaded", "Idle", "Executing"}
    BY <2>2, <2>4 DEF Steady
  <2>6. Before(s)'
    BY <1>1, <2>5, Rests DEF Before, HaltsSession, ChangeIs
  <2>7. session_j'[s].abort # "init"
    BY <1>1, <2>2 DEF HaltsSession
  <2> QED BY <1>1, <2>5, <2>6, <2>7 DEF Changing, HaltsSession, ChangeIs
<1> QED BY <1>2, <1>3 DEF Components, Component

(* The step MarksSession preserves Components.                              *)
LEMMA Components_MarksSession ==
  ASSUME JpegTypeOK, Places, Sessions, Change, Drained, Aborts, ManagerInv, Ongoing,
            Components,
         NEW s \in JpegSession, MarksSession(s)
  PROVE  Components'
<1>1. /\ \A t \in JpegSession : session_j'[t].active = session_j[t].active
      /\ \A t \in JpegSession : session_j'[t].config = session_j[t].config
      /\ \A t \in JpegSession : session_j'[t].encoding = session_j[t].encoding
      /\ \A t \in JpegSession : session_j'[t].error = session_j[t].error
      /\ \A t \in JpegSession \ {s} : session_j'[t].abort = session_j[t].abort
      /\ \A t \in JpegSession : session_j'[t].pending = session_j[t].pending
      /\ \A t \in JpegSession : session_j'[t].woken = session_j[t].woken
      /\ omx' = omx
      /\ spent' = spent
  BY DEF MarksSession, Touches, Feeds, SessionField
<1>2. ASSUME NEW t \in JpegSession \ {s}
      PROVE  Component(t)'
  <2>1. change.on # t /\ change'.on # t
    BY JpegAssumption DEF MarksSession, Change, Places, ManagerHasJobLock,
         CallHasJobLock, Held, Sess, ChangeIs, ChangeEnds
  <2> QED BY <1>1, <2>1, ComponentKept DEF MarksSession, ChangeIs, Components
<1>3. ASSUME ~Bad(s)'
      PROVE  IF change'.on = s THEN Changing(s)' ELSE Steady(s)'
  <2>1. change.on # s
    BY JpegAssumption DEF MarksSession, Change, Places, CallHasJobLock,
         ManagerHasJobLock
  <2>2. session_j[s].abort # "init" /\ session_j[s].active
    BY DEF MarksSession, Aborts, Places
  <2>3. ~Bad(s)
    BY <1>1, <1>3 DEF Bad, MarksSession
  <2>4. Steady(s)
    BY <2>1, <2>3 DEF Components, Component
  <2>5. omx[s].cmds = << >> /\ omx[s].state \in {"Loaded", "Idle", "Executing"}
    BY <2>2, <2>4 DEF Steady
  <2>6. Before(s)'
    BY <1>1, <2>5, Rests DEF Before, MarksSession, ChangeIs
  <2>7. session_j'[s].abort # "init"
    BY <1>1, <2>2 DEF MarksSession
  <2> QED BY <1>1, <2>5, <2>6, <2>7 DEF Changing, MarksSession, ChangeIs
<1> QED BY <1>2, <1>3 DEF Components, Component

(* The step SendsIdle preserves Components.                                 *)
LEMMA Components_SendsIdle ==
  ASSUME JpegTypeOK, Places, Sessions, Change, Drained, Aborts, ManagerInv, Ongoing,
            Components,
         NEW s \in JpegSession, SendsIdle(s)
  PROVE  Components'
<1>1. /\ \A t \in JpegSession : session_j'[t].active = session_j[t].active
      /\ \A t \in JpegSession : session_j'[t].config = session_j[t].config
      /\ \A t \in JpegSession : session_j'[t].encoding = session_j[t].encoding
      /\ \A t \in JpegSession : session_j'[t].error = session_j[t].error
      /\ \A t \in JpegSession \ {s} : session_j'[t].abort = session_j[t].abort
      /\ \A t \in JpegSession \ {s} : session_j'[t].pending = session_j[t].pending
      /\ \A t \in JpegSession : session_j'[t].woken = session_j[t].woken
      /\ \A t \in JpegSession : omx'[t].state = omx[t].state
      /\ \A t \in JpegSession \ {s} : omx'[t].cmds = omx[t].cmds
      /\ spent' = spent
  BY DEF SendsIdle, Touches, Feeds, SessionField
<1>2. ASSUME NEW t \in JpegSession \ {s}
      PROVE  Component(t)'
  BY <1>1, ComponentKept DEF SendsIdle, Components
<1>3. ASSUME ~Bad(s)'
      PROVE  IF change'.on = s THEN Changing(s)' ELSE Steady(s)'
  <2>1. change.on # s
    BY JpegAssumption DEF SendsIdle, Change, Places, CallHasJobLock, ManagerHasJobLock
  <2>2. Steady(s)
    BY <1>1, <1>3, <2>1 DEF Components, Component, Bad, SendsIdle
  <2>3. omx[s].cmds = << >>
    BY <2>2 DEF Steady, SendsIdle
  <2>4. Single(s, "Idle")'
    BY <2>3, AppendOne DEF Single, SendsIdle, OmxState
  <2> QED BY <1>1, <2>1, <2>2, <2>4 DEF Steady, SendsIdle
<1> QED BY <1>2, <1>3 DEF Components, Component

(* The step Frees preserves Components.                                     *)
LEMMA Components_Frees ==
  ASSUME JpegTypeOK, Places, Sessions, Change, Drained, Aborts, ManagerInv, Ongoing,
            Components,
         NEW s \in JpegSession, Frees(s)
  PROVE  Components'
<1>1. /\ \A t \in JpegSession \ {s} : session_j'[t].active = session_j[t].active
      /\ \A t \in JpegSession \ {s} : session_j'[t].config = session_j[t].config
      /\ \A t \in JpegSession \ {s} : session_j'[t].encoding = session_j[t].encoding
      /\ \A t \in JpegSession \ {s} : session_j'[t].error = session_j[t].error
      /\ \A t \in JpegSession \ {s} : session_j'[t].abort = session_j[t].abort
      /\ \A t \in JpegSession \ {s} : session_j'[t].pending = session_j[t].pending
      /\ \A t \in JpegSession \ {s} : session_j'[t].woken = session_j[t].woken
      /\ \A t \in JpegSession \ {s} : omx'[t].state = omx[t].state
      /\ \A t \in JpegSession \ {s} : omx'[t].cmds = omx[t].cmds
      /\ spent' = spent
  BY DEF Frees, Touches, Feeds, SessionField
<1>2. ASSUME NEW t \in JpegSession \ {s}
      PROVE  Component(t)'
  <2>1. change.on # t /\ change'.on # t
    BY JpegAssumption DEF Frees, Change, Places, ManagerHasJobLock, CallHasJobLock,
         Held, Sess, ChangeIs, ChangeEnds
  <2> QED BY <1>1, <2>1, ComponentKept DEF Frees, ChangeEnds, ChangeIs, Components
<1>3. ASSUME ~Bad(s)'
      PROVE  IF change'.on = s THEN Changing(s)' ELSE Steady(s)'
  <2>1. change'.on # s
    BY JpegAssumption DEF Frees, ChangeEnds, ChangeIs
  <2> QED BY <1>1, <2>1 DEF Steady, Frees, IsNew
<1> QED BY <1>2, <1>3 DEF Components, Component

(* Every elementary step preserves Components.                              *)
LEMMA ComponentsKept ==
  ASSUME JpegTypeOK, Places, Sessions, Change, Drained, Aborts, ManagerInv, Ongoing,
         Components, JpegStep
  PROVE  Components'
<1>1. ASSUME NEW s \in JpegSession,
             \/ NotReady(s) \/ GetsInput(s) \/ GetsOutput(s)
             \/ BufferBack(s) \/ Encoded(s) \/ GivesBack(s) \/ Posts(s)
             \/ Usable(s) \/ Enqueues(s) \/ AsksDestroy(s) \/ TakesOff(s)
             \/ Withdraws(s) \/ Forgets(s) \/ HaltsJob(s)
      PROVE  Components'
  <2>1. UNCHANGED change /\ (spent.errors > 0 => spent'.errors > 0)
    BY <1>1 DEF NotReady, GetsInput, GetsOutput, BufferBack, Encoded, GivesBack, Posts,
      Usable, Enqueues, AsksDestroy, TakesOff, Withdraws, Forgets, HaltsJob,
      Sessions
  <2>2. /\ \A t \in JpegSession, f \in {"active", "config", "encoding", "error",
              "abort", "pending", "woken"} :
           session_j'[t][f] = session_j[t][f]
        /\ \A t \in JpegSession : omx'[t].state = omx[t].state
             /\ omx'[t].cmds = omx[t].cmds
    BY <1>1 DEF NotReady, GetsInput, GetsOutput, BufferBack, Encoded, GivesBack, Posts,
      Usable, Enqueues, AsksDestroy, TakesOff, Withdraws, Forgets, HaltsJob,
      Touches, Feeds, SessionField
  <2> QED BY <2>1, <2>2, ComponentKept DEF Components
<1>2. ASSUME NEW s \in JpegSession, Sends(s)
      PROVE  Components'
  BY <1>2, Components_Sends
<1>3. ASSUME NEW s \in JpegSession, Skips(s)
      PROVE  Components'
  BY <1>3, Components_Skips
<1>4. ASSUME NEW s \in JpegSession, Overcome(s)
      PROVE  Components'
  BY <1>4, Components_Overcome
<1>5. ASSUME NEW s \in JpegSession, Breaks(s)
      PROVE  Components'
  BY <1>5, Components_Breaks
<1>6. ASSUME NEW s \in JpegSession, Awaits(s)
      PROVE  Components'
  BY <1>6, Components_Awaits
<1>7. ASSUME NEW s \in JpegSession, Wakes(s)
      PROVE  Components'
  BY <1>7, Components_Wakes
<1>8. ASSUME Moves
      PROVE  Components'
  BY <1>8, Components_Moves
<1>9. ASSUME NEW s \in JpegSession, NEW j \in JpegJob, Takes(s, j)
      PROVE  Components'
  BY <1>9, Components_Takes
<1>10. ASSUME NEW s \in JpegSession, FindsConfigured(s)
      PROVE  Components'
  BY <1>10, Components_FindsConfigured
<1>11. ASSUME NEW s \in JpegSession, FindsOther(s)
      PROVE  Components'
  BY <1>11, Components_FindsOther
<1>12. ASSUME NEW s \in JpegSession, FindsNone(s)
      PROVE  Components'
  BY <1>12, Components_FindsNone
<1>13. ASSUME NEW s \in JpegSession, Cleared(s)
      PROVE  Components'
  BY <1>13, Components_Cleared
<1>14. ASSUME CannotConfigure
      PROVE  Components'
  BY <1>14, Components_CannotConfigure
<1>15. ASSUME NEW s \in JpegSession, ConfiguredForJob(s)
      PROVE  Components'
  BY <1>15, Components_ConfiguredForJob
<1>16. ASSUME NEW s \in JpegSession, Starts(s)
      PROVE  Components'
  BY <1>16, Components_Starts
<1>17. ASSUME Refused
      PROVE  Components'
  BY <1>17, Components_Refused
<1>18. ASSUME NEW s \in JpegSession, Fails(s)
      PROVE  Components'
  BY <1>18, Components_Fails
<1>19. ASSUME NEW s \in JpegSession, DoneAborting(s)
      PROVE  Components'
  BY <1>19, Components_DoneAborting
<1>20. ASSUME NEW s \in JpegSession, DoneAwaited(s)
      PROVE  Components'
  BY <1>20, Components_DoneAwaited
<1>21. ASSUME NEW s \in JpegSession, DoneAlone(s)
      PROVE  Components'
  BY <1>21, Components_DoneAlone
<1>22. ASSUME NEW s \in JpegSession, ErrorAbortingWay(s)
      PROVE  Components'
  BY <1>22, Components_ErrorAbortingWay
<1>23. ASSUME NEW s \in JpegSession, ErrorEncodingWay(s)
      PROVE  Components'
  BY <1>23, Components_ErrorEncodingWay
<1>24. ASSUME NEW s \in JpegSession, ErrorElseWay(s)
      PROVE  Components'
  BY <1>24, Components_ErrorElseWay
<1>25. ASSUME NEW s \in JpegSession, ErrorAbortingWork(s)
      PROVE  Components'
  BY <1>25, Components_ErrorAbortingWork
<1>26. ASSUME NEW s \in JpegSession, ErrorEncodingWork(s)
      PROVE  Components'
  BY <1>26, Components_ErrorEncodingWork
<1>27. ASSUME NEW s \in JpegSession, ErrorElseWork(s)
      PROVE  Components'
  BY <1>27, Components_ErrorElseWork
<1>28. ASSUME NEW s \in JpegSession, Removes(s)
      PROVE  Components'
  BY <1>28, Components_Removes
<1>29. ASSUME NEW s \in JpegSession, Creates(s)
      PROVE  Components'
  BY <1>29, Components_Creates
<1>30. ASSUME NEW s \in JpegSession, ConfiguresNew(s)
      PROVE  Components'
  BY <1>30, Components_ConfiguresNew
<1>31. ASSUME NEW s \in JpegSession, Created(s)
      PROVE  Components'
  BY <1>31, Components_Created
<1>32. ASSUME NotCreated
      PROVE  Components'
  BY <1>32, Components_NotCreated
<1>33. ASSUME PostEnds
      PROVE  Components'
  BY <1>33, Components_PostEnds
<1>34. ASSUME NEW s \in JpegSession, NEW j \in JpegJob, AsksAbort(s, j)
      PROVE  Components'
  BY <1>34, Components_AsksAbort
<1>35. ASSUME NEW s \in JpegSession, MarksJob(s)
      PROVE  Components'
  BY <1>35, Components_MarksJob
<1>36. ASSUME NEW s \in JpegSession, HaltsSession(s)
      PROVE  Components'
  BY <1>36, Components_HaltsSession
<1>37. ASSUME NEW s \in JpegSession, MarksSession(s)
      PROVE  Components'
  BY <1>37, Components_MarksSession
<1>38. ASSUME NEW s \in JpegSession, SendsIdle(s)
      PROVE  Components'
  BY <1>38, Components_SendsIdle
<1>39. ASSUME NEW s \in JpegSession, Frees(s)
      PROVE  Components'
  BY <1>39, Components_Frees
<1> QED BY <1>1, <1>2, <1>3, <1>4, <1>5, <1>6, <1>7, <1>8, <1>9, <1>10, <1>11, <1>12,
  <1>13, <1>14, <1>15, <1>16, <1>17, <1>18, <1>19, <1>20, <1>21, <1>22, <1>23,
  <1>24, <1>25, <1>26, <1>27, <1>28, <1>29, <1>30, <1>31, <1>32, <1>33, <1>34,
  <1>35, <1>36, <1>37, <1>38, <1>39 DEF JpegStep
-----------------------------------------------------------------------------

(* The step Cleared preserves Ongoing.                                      *)
LEMMA Ongoing_Cleared ==
  ASSUME JpegTypeOK, Places, Sessions, Change, Aborts, Numbers, Ongoing,
         NEW s \in JpegSession, Cleared(s)
  PROVE  Ongoing'
<1>1. /\ \A t \in JpegSession \ {s} : session_j'[t] = session_j[t]
      /\ \A f \in {"abort", "jobId", "error",
            "encoding"} : session_j'[s][f] = session_j[s][f]
      /\ manager.at = "clearing" /\ p_session_inprogress = s
      /\ manager'.at = "configuring" /\ manager'.job = manager.job
      /\ UNCHANGED <<jobs, call, ongoing_job_q>>
  BY DEF Cleared, Touches, SessionField, ManagerIs
<1>2. /\ Held /\ Sess # s /\ ~CallHasJobLock /\ Sess = jobs[manager.job]
      /\ manager.job \in DOMAIN jobs
  BY <1>1 DEF Places, ManagerHasJobLock, Change, Sess
<1>3. session_j[s].encoding => session_j[s].jobId # 0 /\ jobs[session_j[s].jobId] = s
  BY DEF Numbers, JobsOf
<1>4. session_j[s].encoding /\ ~session_j[s].error => session_j[s].abort = "done"
  <2>1. session_j[s].abort # "init"
    BY <1>2 DEF Aborts, CallHasJobLock
  <2>2. session_j[s].jobId \in ongoing_job_q => session_j[s].jobId = manager.job
    BY <1>1 DEF Ongoing
  <2>3. call.at # "halt"
    BY <1>2 DEF CallHasJobLock
  <2> QED BY <1>2, <1>3, <2>1, <2>2, <2>3, SessionTypes DEF Ongoing
<1> QED BY <1>1, <1>4 DEF Ongoing, Holds, Held, Sess

(* The step Removes preserves Ongoing.                                      *)
LEMMA Ongoing_Removes ==
  ASSUME JpegTypeOK, Places, Sessions, Aborts, ManagerInv, Numbers, Ongoing,
         NEW s \in JpegSession, Removes(s)
  PROVE  Ongoing'
<1>1. /\ \A t \in JpegSession \ {s} : session_j'[t] = session_j[t]
      /\ \A f \in {"abort", "jobId", "error",
            "config"} : session_j'[s][f] = session_j[s][f]
      /\ session_j[s].cb = "remove" /\ ~session_j'[s].encoding
      /\ ongoing_job_q' = ongoing_job_q \ {session_j[s].jobId}
      /\ UNCHANGED <<manager, jobs, call>>
  BY DEF Removes, Touches, SessionField
<1>2. ASSUME NEW t \in JpegSession \ {s}
      PROVE  /\ session_j[t].jobId # 0 => session_j[t].jobId # session_j[s].jobId
             /\ Holds(t) => manager.job # session_j[s].jobId
  BY JpegAssumption, Positions DEF Numbers, JobsOf, Places, Holds, Held, JpegJob
<1>3. Holds(s) => session_j[s].error
  BY <1>1, Positions DEF ManagerInv, Under, Exact, Places, ManagerHasJobLock, Holds
<1>4. ASSUME NEW t \in JpegSession, ~session_j'[t].error
      PROVE  /\ Holds(t)' => manager'.job \in ongoing_job_q'
             /\ session_j'[t].encoding /\ session_j'[t].abort = "none" =>
                  session_j'[t].jobId \in ongoing_job_q' \/ (call'.at = "halt"
                    /\ call'.sess = t)
             /\ session_j'[t].encoding /\ session_j'[t].abort # "done"
                  => session_j'[t].config
  <2>1. CASE t = s
    BY <1>1, <1>3, <1>4, <2>1 DEF Holds, Held, Sess
  <2>2. CASE t # s
    <3>1. session_j[t].encoding => session_j[t].jobId # 0
      BY DEF Numbers
    <3> QED BY <1>1, <1>2, <1>4, <2>2, <3>1 DEF Ongoing, Holds, Held, Sess
  <2> QED BY <2>1, <2>2
<1> QED BY <1>1, <1>4 DEF Ongoing

(* Every elementary step preserves Ongoing.                                 *)
LEMMA OngoingKept ==
  ASSUME JpegTypeOK, Places, Sessions, Change, Drained, Aborts, Handles,
         ManagerInv, Ongoing, Numbers, JpegStep
  PROVE  Ongoing'
<1>1. ASSUME NEW s \in JpegSession,
             \/ Sends(s) \/ Skips(s) \/ Overcome(s) \/ Breaks(s)
             \/ Awaits(s) \/ Wakes(s) \/ DoneAwaited(s) \/ DoneAlone(s)
             \/ BufferBack(s) \/ Encoded(s) \/ GivesBack(s) \/ Posts(s)
      PROVE  Ongoing'
  <2>1. UNCHANGED <<manager, jobs, ongoing_job_q, call>>
    BY <1>1 DEF Sends, Skips, Overcome, Breaks, Awaits, Wakes, DoneAwaited, DoneAlone,
      BufferBack, Encoded, GivesBack, Posts
  <2>2. /\ \A t \in JpegSession, f \in {"encoding", "abort", "jobId", "error",
              "config"} :
           session_j'[t][f] = session_j[t][f]
    BY <1>1 DEF Sends, Skips, Overcome, Breaks, Awaits, Wakes, DoneAwaited, DoneAlone,
      BufferBack, Encoded, GivesBack, Posts, Touches, Feeds, SessionField
  <2> QED BY <2>1, <2>2 DEF Ongoing, Holds, Held, Sess
<1>2. ASSUME Moves
      PROVE  Ongoing'
  <2>1. session_j' = session_j
    BY <1>2 DEF Moves, Touches, Feeds, SessionField
  <2> QED BY <1>2, <2>1, JpegAssumption, SMTT(15)
    DEF Moves, CallHasJobLock, JobsOf, ManagerHasJobLock, JpegJob, Places,
      Sessions, Change, Drained, Aborts, Handles, ManagerInv, Numbers, Ongoing,
      Held, Sess, Holds, Under, Exact, Out
<1>3. ASSUME NEW s \in JpegSession, NEW j \in JpegJob, Takes(s, j)
      PROVE  Ongoing'
  <2>1. /\ \A t \in JpegSession : session_j'[t].encoding = session_j[t].encoding
        /\ \A t \in JpegSession : session_j'[t].abort = session_j[t].abort
        /\ \A t \in JpegSession : session_j'[t].cb = session_j[t].cb
        /\ \A t \in JpegSession : session_j'[t].error = session_j[t].error
        /\ \A t \in JpegSession : session_j'[t].config = session_j[t].config
        /\ \A t \in JpegSession : session_j'[t].active = session_j[t].active
        /\ \A t \in JpegSession \ {s} : session_j'[t].jobId = session_j[t].jobId
    BY <1>3 DEF Takes, Touches, Feeds, SessionField
  <2> QED BY <1>3, <2>1, JpegAssumption, SMTT(15)
    DEF Takes, CallHasJobLock, JobsOf, ManagerHasJobLock, ManagerIs, JpegJob,
      Places, Sessions, Change, Drained, Aborts, Handles, ManagerInv, Numbers,
      Ongoing, Held, Sess, Holds, Under, Exact, Out
<1>4. ASSUME NEW s \in JpegSession, FindsConfigured(s)
      PROVE  Ongoing'
  <2>1. /\ \A t \in JpegSession : session_j'[t].cb = session_j[t].cb
        /\ \A t \in JpegSession : session_j'[t].jobId = session_j[t].jobId
        /\ \A t \in JpegSession : session_j'[t].error = session_j[t].error
        /\ \A t \in JpegSession : session_j'[t].config = session_j[t].config
        /\ \A t \in JpegSession : session_j'[t].active = session_j[t].active
        /\ \A t \in JpegSession \ {s} : session_j'[t].encoding = session_j[t].encoding
        /\ \A t \in JpegSession \ {s} : session_j'[t].abort = session_j[t].abort
    BY <1>4 DEF FindsConfigured, Touches, Feeds, SessionField
  <2> QED BY <1>4, <2>1, JpegAssumption, SMTT(15)
    DEF FindsConfigured, CallHasJobLock, JobsOf, ManagerHasJobLock, ManagerIs,
      Unlocked, JpegJob, Places, Sessions, Change, Drained, Aborts, Handles,
      ManagerInv, Numbers, Ongoing, Held, Sess, Holds, Under, Exact, Out
<1>5. ASSUME NEW s \in JpegSession, FindsOther(s)
      PROVE  Ongoing'
  <2>1. /\ \A t \in JpegSession : session_j'[t].cb = session_j[t].cb
        /\ \A t \in JpegSession : session_j'[t].jobId = session_j[t].jobId
        /\ \A t \in JpegSession : session_j'[t].error = session_j[t].error
        /\ \A t \in JpegSession : session_j'[t].config = session_j[t].config
        /\ \A t \in JpegSession : session_j'[t].active = session_j[t].active
        /\ \A t \in JpegSession \ {s} : session_j'[t].encoding = session_j[t].encoding
        /\ \A t \in JpegSession \ {s} : session_j'[t].abort = session_j[t].abort
    BY <1>5 DEF FindsOther, Touches, Feeds, SessionField
  <2> QED BY <1>5, <2>1, JpegAssumption, SMTT(15)
    DEF FindsOther, CallHasJobLock, ChangeIs, JobsOf, ManagerHasJobLock,
      ManagerIs, Unlocked, JpegJob, Places, Sessions, Change, Drained, Aborts,
      Handles, ManagerInv, Numbers, Ongoing, Held, Sess, Holds, Under, Exact,
      Out
<1>6. ASSUME NEW s \in JpegSession, FindsNone(s)
      PROVE  Ongoing'
  <2>1. /\ \A t \in JpegSession : session_j'[t].cb = session_j[t].cb
        /\ \A t \in JpegSession : session_j'[t].jobId = session_j[t].jobId
        /\ \A t \in JpegSession : session_j'[t].error = session_j[t].error
        /\ \A t \in JpegSession : session_j'[t].config = session_j[t].config
        /\ \A t \in JpegSession : session_j'[t].active = session_j[t].active
        /\ \A t \in JpegSession \ {s} : session_j'[t].encoding = session_j[t].encoding
        /\ \A t \in JpegSession \ {s} : session_j'[t].abort = session_j[t].abort
    BY <1>6 DEF FindsNone, Touches, Feeds, SessionField
  <2> QED BY <1>6, <2>1, JpegAssumption, SMTT(15)
    DEF FindsNone, CallHasJobLock, ChangeIs, JobsOf, ManagerHasJobLock,
      ManagerIs, Unlocked, JpegJob, Places, Sessions, Change, Drained, Aborts,
      Handles, ManagerInv, Numbers, Ongoing, Held, Sess, Holds, Under, Exact,
      Out
<1>7. ASSUME NEW s \in JpegSession, Cleared(s)
      PROVE  Ongoing'
  BY <1>7, Ongoing_Cleared
<1>8. ASSUME CannotConfigure
      PROVE  Ongoing'
  <2>1. session_j' = session_j
    BY <1>8 DEF CannotConfigure, Touches, Feeds, SessionField
  <2> QED BY <1>8, <2>1, JpegAssumption, SMTT(15)
    DEF CannotConfigure, CallHasJobLock, ChangeEnds, ChangeIs, JobsOf,
      ManagerHasJobLock, ManagerIs, JpegJob, Places, Sessions, Change, Drained,
      Aborts, Handles, ManagerInv, Numbers, Ongoing, Held, Sess, Holds, Under,
      Exact, Out
<1>9. ASSUME NEW s \in JpegSession, ConfiguredForJob(s)
      PROVE  Ongoing'
  <2>1. /\ \A t \in JpegSession : session_j'[t].encoding = session_j[t].encoding
        /\ \A t \in JpegSession : session_j'[t].abort = session_j[t].abort
        /\ \A t \in JpegSession : session_j'[t].cb = session_j[t].cb
        /\ \A t \in JpegSession : session_j'[t].jobId = session_j[t].jobId
        /\ \A t \in JpegSession : session_j'[t].error = session_j[t].error
        /\ \A t \in JpegSession : session_j'[t].active = session_j[t].active
        /\ \A t \in JpegSession \ {s} : session_j'[t].config = session_j[t].config
    BY <1>9 DEF ConfiguredForJob, Touches, Feeds, SessionField
  <2> QED BY <1>9, <2>1, JpegAssumption, SMTT(15)
    DEF ConfiguredForJob, CallHasJobLock, ChangeEnds, ChangeIs, Changed, JobsOf,
      ManagerHasJobLock, ManagerIs, JpegJob, Places, Sessions, Change, Drained,
      Aborts, Handles, ManagerInv, Numbers, Ongoing, Held, Sess, Holds, Under,
      Exact, Out
<1>10. ASSUME NEW s \in JpegSession, Starts(s)
      PROVE  Ongoing'
  <2>1. /\ \A t \in JpegSession : session_j'[t].abort = session_j[t].abort
        /\ \A t \in JpegSession : session_j'[t].cb = session_j[t].cb
        /\ \A t \in JpegSession : session_j'[t].jobId = session_j[t].jobId
        /\ \A t \in JpegSession : session_j'[t].error = session_j[t].error
        /\ \A t \in JpegSession : session_j'[t].config = session_j[t].config
        /\ \A t \in JpegSession : session_j'[t].active = session_j[t].active
        /\ \A t \in JpegSession \ {s} : session_j'[t].encoding = session_j[t].encoding
    BY <1>10 DEF Starts, Touches, Feeds, SessionField
  <2> QED BY <1>10, <2>1, JpegAssumption, SMTT(15)
    DEF Starts, CallHasJobLock, JobsOf, ManagerHasJobLock, ManagerIs, Unlocked,
      JpegJob, Places, Sessions, Change, Drained, Aborts, Handles, ManagerInv,
      Numbers, Ongoing, Held, Sess, Holds, Under, Exact, Out
<1>11. ASSUME Refused
      PROVE  Ongoing'
  <2>1. session_j' = session_j
    BY <1>11 DEF Refused, Touches, Feeds, SessionField
  <2> QED BY <1>11, <2>1, JpegAssumption, SMTT(15)
    DEF Refused, CallHasJobLock, JobsOf, ManagerHasJobLock, ManagerIs,
      OmxMayFail, JpegJob, Places, Sessions, Change, Drained, Aborts, Handles,
      ManagerInv, Numbers, Ongoing, Held, Sess, Holds, Under, Exact, Out
<1>12. ASSUME NEW s \in JpegSession, NotReady(s)
      PROVE  Ongoing'
  <2>1. session_j' = session_j
    BY <1>12 DEF NotReady, Touches, Feeds, SessionField
  <2> QED BY <1>12, <2>1, JpegAssumption, SMTT(15)
    DEF NotReady, CallHasJobLock, JobsOf, ManagerHasJobLock, ManagerIs, JpegJob,
      Places, Sessions, Change, Drained, Aborts, Handles, ManagerInv, Numbers,
      Ongoing, Held, Sess, Holds, Under, Exact, Out
<1>13. ASSUME NEW s \in JpegSession, GetsInput(s)
      PROVE  Ongoing'
  <2>1. session_j' = session_j
    BY <1>13 DEF GetsInput, Touches, Feeds, SessionField
  <2> QED BY <1>13, <2>1, JpegAssumption, SMTT(15)
    DEF GetsInput, CallHasJobLock, JobsOf, ManagerHasJobLock, ManagerIs, JpegJob,
      Places, Sessions, Change, Drained, Aborts, Handles, ManagerInv, Numbers,
      Ongoing, Held, Sess, Holds, Under, Exact, Out
<1>14. ASSUME NEW s \in JpegSession, GetsOutput(s)
      PROVE  Ongoing'
  <2>1. session_j' = session_j
    BY <1>14 DEF GetsOutput, Touches, Feeds, SessionField
  <2> QED BY <1>14, <2>1, JpegAssumption, SMTT(15)
    DEF GetsOutput, CallHasJobLock, JobsOf, ManagerHasJobLock, ManagerIs,
      JpegJob, Places, Sessions, Change, Drained, Aborts, Handles, ManagerInv,
      Numbers, Ongoing, Held, Sess, Holds, Under, Exact, Out
<1>15. ASSUME NEW s \in JpegSession, Fails(s)
      PROVE  Ongoing'
  <2>1. /\ \A t \in JpegSession : session_j'[t].abort = session_j[t].abort
        /\ \A t \in JpegSession : session_j'[t].cb = session_j[t].cb
        /\ \A t \in JpegSession : session_j'[t].jobId = session_j[t].jobId
        /\ \A t \in JpegSession : session_j'[t].error = session_j[t].error
        /\ \A t \in JpegSession : session_j'[t].config = session_j[t].config
        /\ \A t \in JpegSession : session_j'[t].active = session_j[t].active
        /\ \A t \in JpegSession \ {s} : session_j'[t].encoding = session_j[t].encoding
    BY <1>15 DEF Fails, Touches, Feeds, SessionField
  <2> QED BY <1>15, <2>1, JpegAssumption, SMTT(15)
    DEF Fails, Answers, CallHasJobLock, JobsOf, ManagerHasJobLock, ManagerIs,
      JpegJob, Places, Sessions, Change, Drained, Aborts, Handles, ManagerInv,
      Numbers, Ongoing, Held, Sess, Holds, Under, Exact, Out
<1>16. ASSUME NEW s \in JpegSession, DoneAborting(s)
      PROVE  Ongoing'
  <2>1. /\ \A t \in JpegSession : session_j'[t].encoding = session_j[t].encoding
        /\ \A t \in JpegSession : session_j'[t].cb = session_j[t].cb
        /\ \A t \in JpegSession : session_j'[t].jobId = session_j[t].jobId
        /\ \A t \in JpegSession : session_j'[t].error = session_j[t].error
        /\ \A t \in JpegSession : session_j'[t].config = session_j[t].config
        /\ \A t \in JpegSession : session_j'[t].active = session_j[t].active
        /\ \A t \in JpegSession \ {s} : session_j'[t].abort = session_j[t].abort
    BY <1>16 DEF DoneAborting, Touches, Feeds, SessionField
  <2> QED BY <1>16, <2>1, JpegAssumption, SMTT(15)
    DEF DoneAborting, CallHasJobLock, JobsOf, ManagerHasJobLock, Unlocked,
      JpegJob, Places, Sessions, Change, Drained, Aborts, Handles, ManagerInv,
      Numbers, Ongoing, Held, Sess, Holds, Under, Exact, Out
<1>17. ASSUME NEW s \in JpegSession, ErrorAbortingWay(s)
      PROVE  Ongoing'
  <2>1. /\ \A t \in JpegSession : session_j'[t].encoding = session_j[t].encoding
        /\ \A t \in JpegSession : session_j'[t].cb = session_j[t].cb
        /\ \A t \in JpegSession : session_j'[t].jobId = session_j[t].jobId
        /\ \A t \in JpegSession : session_j'[t].error = session_j[t].error
        /\ \A t \in JpegSession : session_j'[t].config = session_j[t].config
        /\ \A t \in JpegSession : session_j'[t].active = session_j[t].active
        /\ \A t \in JpegSession \ {s} : session_j'[t].abort = session_j[t].abort
    BY <1>17 DEF ErrorAbortingWay, Touches, Feeds, SessionField
  <2> QED BY <1>17, <2>1, JpegAssumption, SMTT(15)
    DEF ErrorAbortingWay, CallHasJobLock, JobsOf, ManagerHasJobLock, OmxMayFail,
      Unlocked, JpegJob, Places, Sessions, Change, Drained, Aborts, Handles,
      ManagerInv, Numbers, Ongoing, Held, Sess, Holds, Under, Exact, Out
<1>18. ASSUME NEW s \in JpegSession, ErrorEncodingWay(s)
      PROVE  Ongoing'
  <2>1. /\ \A t \in JpegSession : session_j'[t].encoding = session_j[t].encoding
        /\ \A t \in JpegSession : session_j'[t].abort = session_j[t].abort
        /\ \A t \in JpegSession : session_j'[t].jobId = session_j[t].jobId
        /\ \A t \in JpegSession : session_j'[t].config = session_j[t].config
        /\ \A t \in JpegSession : session_j'[t].active = session_j[t].active
        /\ \A t \in JpegSession \ {s} : session_j'[t].cb = session_j[t].cb
        /\ \A t \in JpegSession \ {s} : session_j'[t].error = session_j[t].error
    BY <1>18 DEF ErrorEncodingWay, Touches, Feeds, SessionField
  <2> QED BY <1>18, <2>1, JpegAssumption, SMTT(15)
    DEF ErrorEncodingWay, Answers, CallHasJobLock, JobsOf, ManagerHasJobLock,
      OmxMayFail, Unlocked, JpegJob, Places, Sessions, Change, Drained, Aborts,
      Handles, ManagerInv, Numbers, Ongoing, Held, Sess, Holds, Under, Exact,
      Out
<1>19. ASSUME NEW s \in JpegSession, ErrorElseWay(s)
      PROVE  Ongoing'
  <2>1. /\ \A t \in JpegSession : session_j'[t].encoding = session_j[t].encoding
        /\ \A t \in JpegSession : session_j'[t].abort = session_j[t].abort
        /\ \A t \in JpegSession : session_j'[t].cb = session_j[t].cb
        /\ \A t \in JpegSession : session_j'[t].jobId = session_j[t].jobId
        /\ \A t \in JpegSession : session_j'[t].config = session_j[t].config
        /\ \A t \in JpegSession : session_j'[t].active = session_j[t].active
        /\ \A t \in JpegSession \ {s} : session_j'[t].error = session_j[t].error
    BY <1>19 DEF ErrorElseWay, Touches, Feeds, SessionField
  <2> QED BY <1>19, <2>1, JpegAssumption, SMTT(15)
    DEF ErrorElseWay, CallHasJobLock, JobsOf, ManagerHasJobLock, OmxMayFail,
      Unlocked, JpegJob, Places, Sessions, Change, Drained, Aborts, Handles,
      ManagerInv, Numbers, Ongoing, Held, Sess, Holds, Under, Exact, Out
<1>20. ASSUME NEW s \in JpegSession, ErrorAbortingWork(s)
      PROVE  Ongoing'
  <2>1. /\ \A t \in JpegSession : session_j'[t].encoding = session_j[t].encoding
        /\ \A t \in JpegSession : session_j'[t].cb = session_j[t].cb
        /\ \A t \in JpegSession : session_j'[t].jobId = session_j[t].jobId
        /\ \A t \in JpegSession : session_j'[t].error = session_j[t].error
        /\ \A t \in JpegSession : session_j'[t].config = session_j[t].config
        /\ \A t \in JpegSession : session_j'[t].active = session_j[t].active
        /\ \A t \in JpegSession \ {s} : session_j'[t].abort = session_j[t].abort
    BY <1>20 DEF ErrorAbortingWork, Touches, Feeds, SessionField
  <2> QED BY <1>20, <2>1, JpegAssumption, SMTT(15)
    DEF ErrorAbortingWork, CallHasJobLock, JobsOf, ManagerHasJobLock, OmxMayFail,
      Unlocked, JpegJob, Places, Sessions, Change, Drained, Aborts, Handles,
      ManagerInv, Numbers, Ongoing, Held, Sess, Holds, Under, Exact, Out
<1>21. ASSUME NEW s \in JpegSession, ErrorEncodingWork(s)
      PROVE  Ongoing'
  <2>1. /\ \A t \in JpegSession : session_j'[t].encoding = session_j[t].encoding
        /\ \A t \in JpegSession : session_j'[t].abort = session_j[t].abort
        /\ \A t \in JpegSession : session_j'[t].jobId = session_j[t].jobId
        /\ \A t \in JpegSession : session_j'[t].config = session_j[t].config
        /\ \A t \in JpegSession : session_j'[t].active = session_j[t].active
        /\ \A t \in JpegSession \ {s} : session_j'[t].cb = session_j[t].cb
        /\ \A t \in JpegSession \ {s} : session_j'[t].error = session_j[t].error
    BY <1>21 DEF ErrorEncodingWork, Touches, Feeds, SessionField
  <2> QED BY <1>21, <2>1, JpegAssumption, SMTT(15)
    DEF ErrorEncodingWork, Answers, CallHasJobLock, JobsOf, ManagerHasJobLock,
      OmxMayFail, Unlocked, JpegJob, Places, Sessions, Change, Drained, Aborts,
      Handles, ManagerInv, Numbers, Ongoing, Held, Sess, Holds, Under, Exact,
      Out
<1>22. ASSUME NEW s \in JpegSession, ErrorElseWork(s)
      PROVE  Ongoing'
  <2>1. /\ \A t \in JpegSession : session_j'[t].encoding = session_j[t].encoding
        /\ \A t \in JpegSession : session_j'[t].abort = session_j[t].abort
        /\ \A t \in JpegSession : session_j'[t].cb = session_j[t].cb
        /\ \A t \in JpegSession : session_j'[t].jobId = session_j[t].jobId
        /\ \A t \in JpegSession : session_j'[t].config = session_j[t].config
        /\ \A t \in JpegSession : session_j'[t].active = session_j[t].active
        /\ \A t \in JpegSession \ {s} : session_j'[t].error = session_j[t].error
    BY <1>22 DEF ErrorElseWork, Touches, Feeds, SessionField
  <2> QED BY <1>22, <2>1, JpegAssumption, SMTT(15)
    DEF ErrorElseWork, CallHasJobLock, JobsOf, ManagerHasJobLock, OmxMayFail,
      Unlocked, JpegJob, Places, Sessions, Change, Drained, Aborts, Handles,
      ManagerInv, Numbers, Ongoing, Held, Sess, Holds, Under, Exact, Out
<1>23. ASSUME NEW s \in JpegSession, Removes(s)
      PROVE  Ongoing'
  BY <1>23, Ongoing_Removes
<1>24. ASSUME NEW s \in JpegSession, Creates(s)
      PROVE  Ongoing'
  <2>1. /\ \A t \in JpegSession \ {s} : session_j'[t].encoding = session_j[t].encoding
        /\ \A t \in JpegSession \ {s} : session_j'[t].abort = session_j[t].abort
        /\ \A t \in JpegSession \ {s} : session_j'[t].cb = session_j[t].cb
        /\ \A t \in JpegSession \ {s} : session_j'[t].jobId = session_j[t].jobId
        /\ \A t \in JpegSession \ {s} : session_j'[t].error = session_j[t].error
        /\ \A t \in JpegSession \ {s} : session_j'[t].config = session_j[t].config
        /\ \A t \in JpegSession \ {s} : session_j'[t].active = session_j[t].active
    BY <1>24 DEF Creates, Touches, Feeds, SessionField
  <2> QED BY <1>24, <2>1, JpegAssumption, SMTT(15)
    DEF Creates, CallHasJobLock, CallIs, IsNew, JobsOf, ManagerHasJobLock,
      JpegJob, Places, Sessions, Change, Drained, Aborts, Handles, ManagerInv,
      Numbers, Ongoing, Held, Sess, Holds, Under, Exact, Out
<1>25. ASSUME NEW s \in JpegSession, ConfiguresNew(s)
      PROVE  Ongoing'
  <2>1. session_j' = session_j
    BY <1>25 DEF ConfiguresNew, Touches, Feeds, SessionField
  <2> QED BY <1>25, <2>1, JpegAssumption, SMTT(15)
    DEF ConfiguresNew, CallHasJobLock, CallIs, ChangeIs, JobsOf,
      ManagerHasJobLock, JpegJob, Places, Sessions, Change, Drained, Aborts,
      Handles, ManagerInv, Numbers, Ongoing, Held, Sess, Holds, Under, Exact,
      Out
<1>26. ASSUME NEW s \in JpegSession, Usable(s)
      PROVE  Ongoing'
  <2>1. /\ \A t \in JpegSession : session_j'[t].encoding = session_j[t].encoding
        /\ \A t \in JpegSession : session_j'[t].abort = session_j[t].abort
        /\ \A t \in JpegSession : session_j'[t].cb = session_j[t].cb
        /\ \A t \in JpegSession : session_j'[t].jobId = session_j[t].jobId
        /\ \A t \in JpegSession : session_j'[t].error = session_j[t].error
        /\ \A t \in JpegSession : session_j'[t].config = session_j[t].config
        /\ \A t \in JpegSession : session_j'[t].active = session_j[t].active
    BY <1>26 DEF Usable, Touches, Feeds, SessionField
  <2> QED BY <1>26, <2>1, JpegAssumption, SMTT(15)
    DEF Usable, CallEnds, CallHasJobLock, CallIs, JobsOf, ManagerHasJobLock,
      JpegJob, Places, Sessions, Change, Drained, Aborts, Handles, ManagerInv,
      Numbers, Ongoing, Held, Sess, Holds, Under, Exact, Out
<1>27. ASSUME NEW s \in JpegSession, Created(s)
      PROVE  Ongoing'
  <2>1. /\ \A t \in JpegSession : session_j'[t].encoding = session_j[t].encoding
        /\ \A t \in JpegSession : session_j'[t].abort = session_j[t].abort
        /\ \A t \in JpegSession : session_j'[t].cb = session_j[t].cb
        /\ \A t \in JpegSession : session_j'[t].jobId = session_j[t].jobId
        /\ \A t \in JpegSession : session_j'[t].error = session_j[t].error
        /\ \A t \in JpegSession : session_j'[t].active = session_j[t].active
        /\ \A t \in JpegSession \ {s} : session_j'[t].config = session_j[t].config
    BY <1>27 DEF Created, Touches, Feeds, SessionField
  <2> QED BY <1>27, <2>1, JpegAssumption, SMTT(15)
    DEF Created, CallEnds, CallHasJobLock, CallIs, ChangeEnds, ChangeIs, Changed,
      JobsOf, ManagerHasJobLock, JpegJob, Places, Sessions, Change, Drained,
      Aborts, Handles, ManagerInv, Numbers, Ongoing, Held, Sess, Holds, Under,
      Exact, Out
<1>28. ASSUME NotCreated
      PROVE  Ongoing'
  <2>1. session_j' = session_j
    BY <1>28 DEF NotCreated, Touches, Feeds, SessionField
  <2> QED BY <1>28, <2>1, JpegAssumption, SMTT(15)
    DEF NotCreated, CallEnds, CallHasJobLock, CallIs, ChangeEnds, ChangeIs,
      JobsOf, ManagerHasJobLock, JpegJob, Places, Sessions, Change, Drained,
      Aborts, Handles, ManagerInv, Numbers, Ongoing, Held, Sess, Holds, Under,
      Exact, Out
<1>29. ASSUME NEW s \in JpegSession, Enqueues(s)
      PROVE  Ongoing'
  <2>1. session_j' = session_j
    BY <1>29 DEF Enqueues, Touches, Feeds, SessionField
  <2> QED BY <1>29, <2>1, JpegAssumption, SMTT(15)
    DEF Enqueues, CallHasJobLock, CallIs, JobsOf, ManagerHasJobLock, JpegJob,
      Places, Sessions, Change, Drained, Aborts, Handles, ManagerInv, Numbers,
      Ongoing, Held, Sess, Holds, Under, Exact, Out
<1>30. ASSUME PostEnds
      PROVE  Ongoing'
  <2>1. session_j' = session_j
    BY <1>30 DEF PostEnds, Touches, Feeds, SessionField
  <2> QED BY <1>30, <2>1, JpegAssumption, SMTT(15)
    DEF PostEnds, CallEnds, CallHasJobLock, CallIs, JobsOf, ManagerHasJobLock,
      JpegJob, Places, Sessions, Change, Drained, Aborts, Handles, ManagerInv,
      Numbers, Ongoing, Held, Sess, Holds, Under, Exact, Out
<1>31. ASSUME NEW s \in JpegSession, AsksDestroy(s)
      PROVE  Ongoing'
  <2>1. /\ \A t \in JpegSession : session_j'[t].encoding = session_j[t].encoding
        /\ \A t \in JpegSession : session_j'[t].abort = session_j[t].abort
        /\ \A t \in JpegSession : session_j'[t].cb = session_j[t].cb
        /\ \A t \in JpegSession : session_j'[t].jobId = session_j[t].jobId
        /\ \A t \in JpegSession : session_j'[t].error = session_j[t].error
        /\ \A t \in JpegSession : session_j'[t].config = session_j[t].config
        /\ \A t \in JpegSession : session_j'[t].active = session_j[t].active
    BY <1>31 DEF AsksDestroy, Touches, Feeds, SessionField
  <2> QED BY <1>31, <2>1, JpegAssumption, SMTT(15)
    DEF AsksDestroy, CallHasJobLock, CallIs, JobsOf, ManagerHasJobLock, JpegJob,
      Places, Sessions, Change, Drained, Aborts, Handles, ManagerInv, Numbers,
      Ongoing, Held, Sess, Holds, Under, Exact, Out
<1>32. ASSUME NEW s \in JpegSession, NEW j \in JpegJob, AsksAbort(s, j)
      PROVE  Ongoing'
  <2>1. /\ \A t \in JpegSession : session_j'[t].encoding = session_j[t].encoding
        /\ \A t \in JpegSession : session_j'[t].abort = session_j[t].abort
        /\ \A t \in JpegSession : session_j'[t].cb = session_j[t].cb
        /\ \A t \in JpegSession : session_j'[t].jobId = session_j[t].jobId
        /\ \A t \in JpegSession : session_j'[t].error = session_j[t].error
        /\ \A t \in JpegSession : session_j'[t].config = session_j[t].config
        /\ \A t \in JpegSession : session_j'[t].active = session_j[t].active
    BY <1>32 DEF AsksAbort, Touches, Feeds, SessionField
  <2> QED BY <1>32, <2>1, JpegAssumption, SMTT(15)
    DEF AsksAbort, CallHasJobLock, CallIs, JobsOf, ManagerHasJobLock, JpegJob,
      Places, Sessions, Change, Drained, Aborts, Handles, ManagerInv, Numbers,
      Ongoing, Held, Sess, Holds, Under, Exact, Out
<1>33. ASSUME NEW s \in JpegSession, TakesOff(s)
      PROVE  Ongoing'
  <2>1. session_j' = session_j
    BY <1>33 DEF TakesOff, Touches, Feeds, SessionField
  <2> QED BY <1>33, <2>1, JpegAssumption, SMTT(15)
    DEF TakesOff, CallHasJobLock, CallIs, JobsOf, ManagerHasJobLock, JpegJob,
      Places, Sessions, Change, Drained, Aborts, Handles, ManagerInv, Numbers,
      Ongoing, Held, Sess, Holds, Under, Exact, Out
<1>34. ASSUME NEW s \in JpegSession, Withdraws(s)
      PROVE  Ongoing'
  <2>1. session_j' = session_j
    BY <1>34 DEF Withdraws, Touches, Feeds, SessionField
  <2> QED BY <1>34, <2>1, JpegAssumption, SMTT(15)
    DEF Withdraws, CallEnds, CallHasJobLock, CallIs, JobsOf, ManagerHasJobLock,
      JpegJob, Places, Sessions, Change, Drained, Aborts, Handles, ManagerInv,
      Numbers, Ongoing, Held, Sess, Holds, Under, Exact, Out
<1>35. ASSUME NEW s \in JpegSession, Forgets(s)
      PROVE  Ongoing'
  <2>1. session_j' = session_j
    BY <1>35 DEF Forgets, Touches, Feeds, SessionField
  <2> QED BY <1>35, <2>1, JpegAssumption, SMTT(15)
    DEF Forgets, CallHasJobLock, CallIs, JobsOf, ManagerHasJobLock, JpegJob,
      Places, Sessions, Change, Drained, Aborts, Handles, ManagerInv, Numbers,
      Ongoing, Held, Sess, Holds, Under, Exact, Out
<1>36. ASSUME NEW s \in JpegSession, HaltsJob(s)
      PROVE  Ongoing'
  <2>1. session_j' = session_j
    BY <1>36 DEF HaltsJob, Touches, Feeds, SessionField
  <2> QED BY <1>36, <2>1, JpegAssumption, SMTT(15)
    DEF HaltsJob, CallEnds, CallHasJobLock, CallIs, JobsOf, ManagerHasJobLock,
      Unlocked, JpegJob, Places, Sessions, Change, Drained, Aborts, Handles,
      ManagerInv, Numbers, Ongoing, Held, Sess, Holds, Under, Exact, Out
<1>37. ASSUME NEW s \in JpegSession, MarksJob(s)
      PROVE  Ongoing'
  <2>1. /\ \A t \in JpegSession : session_j'[t].encoding = session_j[t].encoding
        /\ \A t \in JpegSession : session_j'[t].cb = session_j[t].cb
        /\ \A t \in JpegSession : session_j'[t].jobId = session_j[t].jobId
        /\ \A t \in JpegSession : session_j'[t].error = session_j[t].error
        /\ \A t \in JpegSession : session_j'[t].config = session_j[t].config
        /\ \A t \in JpegSession : session_j'[t].active = session_j[t].active
        /\ \A t \in JpegSession \ {s} : session_j'[t].abort = session_j[t].abort
    BY <1>37 DEF MarksJob, Touches, Feeds, SessionField
  <2> QED BY <1>37, <2>1, JpegAssumption, SMTT(15)
    DEF MarksJob, CallEnds, CallHasJobLock, CallIs, JobsOf, ManagerHasJobLock,
      Unlocked, JpegJob, Places, Sessions, Change, Drained, Aborts, Handles,
      ManagerInv, Numbers, Ongoing, Held, Sess, Holds, Under, Exact, Out
<1>38. ASSUME NEW s \in JpegSession, HaltsSession(s)
      PROVE  Ongoing'
  <2>1. session_j' = session_j
    BY <1>38 DEF HaltsSession, Touches, Feeds, SessionField
  <2> QED BY <1>38, <2>1, JpegAssumption, SMTT(15)
    DEF HaltsSession, CallHasJobLock, CallIs, ChangeIs, JobsOf,
      ManagerHasJobLock, Unlocked, JpegJob, Places, Sessions, Change, Drained,
      Aborts, Handles, ManagerInv, Numbers, Ongoing, Held, Sess, Holds, Under,
      Exact, Out
<1>39. ASSUME NEW s \in JpegSession, MarksSession(s)
      PROVE  Ongoing'
  <2>1. /\ \A t \in JpegSession : session_j'[t].encoding = session_j[t].encoding
        /\ \A t \in JpegSession : session_j'[t].cb = session_j[t].cb
        /\ \A t \in JpegSession : session_j'[t].jobId = session_j[t].jobId
        /\ \A t \in JpegSession : session_j'[t].error = session_j[t].error
        /\ \A t \in JpegSession : session_j'[t].config = session_j[t].config
        /\ \A t \in JpegSession : session_j'[t].active = session_j[t].active
        /\ \A t \in JpegSession \ {s} : session_j'[t].abort = session_j[t].abort
    BY <1>39 DEF MarksSession, Touches, Feeds, SessionField
  <2> QED BY <1>39, <2>1, JpegAssumption, SMTT(15)
    DEF MarksSession, CallHasJobLock, CallIs, ChangeIs, JobsOf,
      ManagerHasJobLock, Unlocked, JpegJob, Places, Sessions, Change, Drained,
      Aborts, Handles, ManagerInv, Numbers, Ongoing, Held, Sess, Holds, Under,
      Exact, Out
<1>40. ASSUME NEW s \in JpegSession, SendsIdle(s)
      PROVE  Ongoing'
  <2>1. /\ \A t \in JpegSession : session_j'[t].encoding = session_j[t].encoding
        /\ \A t \in JpegSession : session_j'[t].cb = session_j[t].cb
        /\ \A t \in JpegSession : session_j'[t].jobId = session_j[t].jobId
        /\ \A t \in JpegSession : session_j'[t].error = session_j[t].error
        /\ \A t \in JpegSession : session_j'[t].config = session_j[t].config
        /\ \A t \in JpegSession : session_j'[t].active = session_j[t].active
        /\ \A t \in JpegSession \ {s} : session_j'[t].abort = session_j[t].abort
    BY <1>40 DEF SendsIdle, Touches, Feeds, SessionField
  <2> QED BY <1>40, <2>1, JpegAssumption, SMTT(15)
    DEF SendsIdle, CallHasJobLock, CallIs, JobsOf, ManagerHasJobLock, Unlocked,
      JpegJob, Places, Sessions, Change, Drained, Aborts, Handles, ManagerInv,
      Numbers, Ongoing, Held, Sess, Holds, Under, Exact, Out
<1>41. ASSUME NEW s \in JpegSession, Frees(s)
      PROVE  Ongoing'
  <2>1. /\ \A t \in JpegSession \ {s} : session_j'[t].encoding = session_j[t].encoding
        /\ \A t \in JpegSession \ {s} : session_j'[t].abort = session_j[t].abort
        /\ \A t \in JpegSession \ {s} : session_j'[t].cb = session_j[t].cb
        /\ \A t \in JpegSession \ {s} : session_j'[t].jobId = session_j[t].jobId
        /\ \A t \in JpegSession \ {s} : session_j'[t].error = session_j[t].error
        /\ \A t \in JpegSession \ {s} : session_j'[t].config = session_j[t].config
        /\ \A t \in JpegSession \ {s} : session_j'[t].active = session_j[t].active
    BY <1>41 DEF Frees, Touches, Feeds, SessionField
  <2> QED BY <1>41, <2>1, JpegAssumption, SMTT(15)
    DEF Frees, CallHasJobLock, CallIs, ChangeEnds, ChangeIs, Changed, IsNew,
      JobsOf, ManagerHasJobLock, Unlocked, JpegJob, Places, Sessions, Change,
      Drained, Aborts, Handles, ManagerInv, Numbers, Ongoing, Held, Sess,
      Holds, Under, Exact, Out
<1> QED BY <1>1, <1>2, <1>3, <1>4, <1>5, <1>6, <1>7, <1>8, <1>9, <1>10, <1>11, <1>12,
  <1>13, <1>14, <1>15, <1>16, <1>17, <1>18, <1>19, <1>20, <1>21, <1>22, <1>23,
  <1>24, <1>25, <1>26, <1>27, <1>28, <1>29, <1>30, <1>31, <1>32, <1>33, <1>34,
  <1>35, <1>36, <1>37, <1>38, <1>39, <1>40, <1>41 DEF JpegStep
-----------------------------------------------------------------------------

(* The step NotReady preserves Clean.                                       *)
LEMMA Clean_NotReady ==
  ASSUME JpegTypeOK, Places, Sessions, Change, Aborts, ManagerInv, Components, Clean,
         NEW s \in JpegSession, NotReady(s)
  PROVE  Clean'
<1>1. spent'.errors > 0
  BY NotReadyAfterError DEF NotReady
<1> QED BY <1>1 DEF Clean

(* The step DoneAborting preserves Clean.                                   *)
LEMMA Clean_DoneAborting ==
  ASSUME JpegTypeOK, Places, Sessions, Change, Aborts, Components, Clean,
         NEW s \in JpegSession, DoneAborting(s)
  PROVE  Clean'
<1>1. /\ \A t \in JpegSession \ {s} : session_j'[t] = session_j[t] /\ omx'[t] = omx[t]
      /\ omx'[s].input = IF Head(omx[s].cmds) = "Idle" THEN 0 ELSE omx[s].input
      /\ session_j[s].abort = "init" /\ UNCHANGED <<spent, manager, jobs>>
  BY DEF DoneAborting, Touches, Feeds
<1>2. ASSUME spent.errors = 0
      PROVE  Head(omx[s].cmds) = "Idle"
  <2>1. change.on # s
    BY <1>1, JpegAssumption DEF Aborts, Change, Places, CallHasJobLock,
         ManagerHasJobLock
  <2>2. ~Bad(s)
    BY <1>2 DEF Bad, Sessions
  <2>3. Steady(s)
    BY <2>1, <2>2 DEF Components, Component
  <2> QED BY <1>1, <2>3 DEF Steady, Single
<1>3. spent.errors = 0 => omx'[s].input = 0
  BY <1>1, <1>2
<1> QED BY <1>1, <1>3 DEF Clean, Holds, Held, Sess

(* Every elementary step preserves Clean.                                   *)
LEMMA CleanKept ==
  ASSUME JpegTypeOK, Places, Sessions, Change, Drained, Aborts, Handles,
         ManagerInv, Components, Clean, JpegStep
  PROVE  Clean'
<1>1. ASSUME NEW s \in JpegSession,
             \/ Sends(s) \/ Skips(s) \/ Overcome(s) \/ Breaks(s)
             \/ Awaits(s) \/ Wakes(s) \/ ConfiguresNew(s) \/ Usable(s)
             \/ Created(s) \/ AsksDestroy(s) \/ TakesOff(s)
             \/ Withdraws(s) \/ Forgets(s) \/ HaltsJob(s)
             \/ HaltsSession(s)
      PROVE  Clean'
  <2>1. UNCHANGED <<spent, manager, jobs>>
    BY <1>1 DEF Sends, Skips, Overcome, Breaks, Awaits, Wakes, ConfiguresNew, Usable,
      Created, AsksDestroy, TakesOff, Withdraws, Forgets, HaltsJob,
      HaltsSession
  <2>2. /\ \A t \in JpegSession, f \in {"encoding", "abort", "cb"} :
           session_j'[t][f] = session_j[t][f]
        /\ \A t \in JpegSession, f \in {"input"} :
           omx'[t][f] = omx[t][f]
    BY <1>1 DEF Sends, Skips, Overcome, Breaks, Awaits, Wakes, ConfiguresNew, Usable,
      Created, AsksDestroy, TakesOff, Withdraws, Forgets, HaltsJob,
      HaltsSession, Touches, Feeds, SessionField
  <2> QED BY <2>1, <2>2 DEF Clean, Holds, Held, Sess
<1>2. ASSUME Moves
      PROVE  Clean'
  <2>1. /\ session_j' = session_j
        /\ omx' = omx
    BY <1>2 DEF Moves, Touches, Feeds, SessionField
  <2> QED BY <1>2, <2>1, JpegAssumption, SMTT(15)
    DEF Moves, CallHasJobLock, JobsOf, ManagerHasJobLock, JpegJob, Places,
      Sessions, Change, Aborts, ManagerInv, Clean, Held, Sess, Holds, Under,
      Exact
<1>3. ASSUME NEW s \in JpegSession, NEW j \in JpegJob, Takes(s, j)
      PROVE  Clean'
  <2>1. /\ \A t \in JpegSession : session_j'[t].encoding = session_j[t].encoding
        /\ \A t \in JpegSession : session_j'[t].abort = session_j[t].abort
        /\ \A t \in JpegSession : session_j'[t].cb = session_j[t].cb
        /\ omx' = omx
    BY <1>3 DEF Takes, Touches, Feeds, SessionField
  <2> QED BY <1>3, <2>1, JpegAssumption, SMTT(15)
    DEF Takes, CallHasJobLock, JobsOf, ManagerHasJobLock, ManagerIs, JpegJob,
      Places, Sessions, Drained, Aborts, Handles, Clean, Held, Sess, Holds,
      Exact, Out
<1>4. ASSUME NEW s \in JpegSession, FindsConfigured(s)
      PROVE  Clean'
  <2>1. /\ \A t \in JpegSession : session_j'[t].cb = session_j[t].cb
        /\ \A t \in JpegSession \ {s} : session_j'[t].encoding = session_j[t].encoding
        /\ \A t \in JpegSession \ {s} : session_j'[t].abort = session_j[t].abort
        /\ omx' = omx
    BY <1>4 DEF FindsConfigured, Touches, Feeds, SessionField
  <2> QED BY <1>4, <2>1, JpegAssumption, SMTT(15)
    DEF FindsConfigured, CallHasJobLock, JobsOf, ManagerHasJobLock, ManagerIs,
      Unlocked, JpegJob, Places, Sessions, Change, Aborts, ManagerInv, Clean,
      Held, Sess, Holds, Under, Exact
<1>5. ASSUME NEW s \in JpegSession, FindsOther(s)
      PROVE  Clean'
  <2>1. /\ \A t \in JpegSession : session_j'[t].cb = session_j[t].cb
        /\ \A t \in JpegSession \ {s} : session_j'[t].encoding = session_j[t].encoding
        /\ \A t \in JpegSession \ {s} : session_j'[t].abort = session_j[t].abort
        /\ omx' = omx
    BY <1>5 DEF FindsOther, Touches, Feeds, SessionField
  <2> QED BY <1>5, <2>1, JpegAssumption, SMTT(15)
    DEF FindsOther, CallHasJobLock, ChangeIs, JobsOf, ManagerHasJobLock,
      ManagerIs, Unlocked, JpegJob, Places, Sessions, Change, Aborts,
      ManagerInv, Clean, Held, Sess, Holds, Under, Exact
<1>6. ASSUME NEW s \in JpegSession, FindsNone(s)
      PROVE  Clean'
  <2>1. /\ \A t \in JpegSession : session_j'[t].cb = session_j[t].cb
        /\ \A t \in JpegSession \ {s} : session_j'[t].encoding = session_j[t].encoding
        /\ \A t \in JpegSession \ {s} : session_j'[t].abort = session_j[t].abort
        /\ omx' = omx
    BY <1>6 DEF FindsNone, Touches, Feeds, SessionField
  <2> QED BY <1>6, <2>1, JpegAssumption, SMTT(15)
    DEF FindsNone, CallHasJobLock, ChangeIs, JobsOf, ManagerHasJobLock,
      ManagerIs, Unlocked, JpegJob, Places, Sessions, Change, Aborts,
      ManagerInv, Clean, Held, Sess, Holds, Under, Exact
<1>7. ASSUME NEW s \in JpegSession, Cleared(s)
      PROVE  Clean'
  <2>1. /\ \A t \in JpegSession : session_j'[t].encoding = session_j[t].encoding
        /\ \A t \in JpegSession : session_j'[t].abort = session_j[t].abort
        /\ \A t \in JpegSession : session_j'[t].cb = session_j[t].cb
        /\ omx' = omx
    BY <1>7 DEF Cleared, Touches, Feeds, SessionField
  <2> QED BY <1>7, <2>1, JpegAssumption, SMTT(15)
    DEF Cleared, CallHasJobLock, ChangeIs, Changed, JobsOf, ManagerHasJobLock,
      ManagerIs, JpegJob, Places, Sessions, Change, Aborts, ManagerInv, Clean,
      Held, Sess, Holds, Under, Exact
<1>8. ASSUME CannotConfigure
      PROVE  Clean'
  <2>1. /\ session_j' = session_j
        /\ omx' = omx
    BY <1>8 DEF CannotConfigure, Touches, Feeds, SessionField
  <2> QED BY <1>8, <2>1, JpegAssumption, SMTT(15)
    DEF CannotConfigure, CallHasJobLock, ChangeEnds, ChangeIs, JobsOf,
      ManagerHasJobLock, ManagerIs, JpegJob, Places, Sessions, Change, Aborts,
      ManagerInv, Clean, Held, Sess, Holds, Under, Exact
<1>9. ASSUME NEW s \in JpegSession, ConfiguredForJob(s)
      PROVE  Clean'
  <2>1. /\ \A t \in JpegSession : session_j'[t].encoding = session_j[t].encoding
        /\ \A t \in JpegSession : session_j'[t].abort = session_j[t].abort
        /\ \A t \in JpegSession : session_j'[t].cb = session_j[t].cb
        /\ omx' = omx
    BY <1>9 DEF ConfiguredForJob, Touches, Feeds, SessionField
  <2> QED BY <1>9, <2>1, JpegAssumption, SMTT(15)
    DEF ConfiguredForJob, CallHasJobLock, ChangeEnds, ChangeIs, Changed, JobsOf,
      ManagerHasJobLock, ManagerIs, JpegJob, Places, Sessions, Change, Aborts,
      ManagerInv, Clean, Held, Sess, Holds, Under, Exact
<1>10. ASSUME NEW s \in JpegSession, Starts(s)
      PROVE  Clean'
  <2>1. /\ \A t \in JpegSession : session_j'[t].abort = session_j[t].abort
        /\ \A t \in JpegSession : session_j'[t].cb = session_j[t].cb
        /\ \A t \in JpegSession \ {s} : session_j'[t].encoding = session_j[t].encoding
        /\ omx' = omx
    BY <1>10 DEF Starts, Touches, Feeds, SessionField
  <2> QED BY <1>10, <2>1, JpegAssumption, SMTT(15)
    DEF Starts, CallHasJobLock, JobsOf, ManagerHasJobLock, ManagerIs, Unlocked,
      JpegJob, Places, Sessions, Change, Aborts, ManagerInv, Clean, Held, Sess,
      Holds, Under, Exact
<1>11. ASSUME Refused
      PROVE  Clean'
  <2>1. /\ session_j' = session_j
        /\ omx' = omx
    BY <1>11 DEF Refused, Touches, Feeds, SessionField
  <2> QED BY <1>11, <2>1, JpegAssumption, SMTT(15)
    DEF Refused, CallHasJobLock, JobsOf, ManagerHasJobLock, ManagerIs,
      OmxMayFail, JpegJob, Places, Sessions, Change, Aborts, ManagerInv, Clean,
      Held, Sess, Holds, Under, Exact
<1>12. ASSUME NEW s \in JpegSession, NotReady(s)
      PROVE  Clean'
  BY <1>12, Clean_NotReady
<1>13. ASSUME NEW s \in JpegSession, GetsInput(s)
      PROVE  Clean'
  <2>1. /\ session_j' = session_j
        /\ \A t \in JpegSession \ {s} : omx'[t].input = omx[t].input
    BY <1>13 DEF GetsInput, Touches, Feeds, SessionField
  <2> QED BY <1>13, <2>1, JpegAssumption, SMTT(15)
    DEF GetsInput, CallHasJobLock, JobsOf, ManagerHasJobLock, ManagerIs, JpegJob,
      Places, Sessions, Change, Aborts, ManagerInv, Clean, Held, Sess, Holds,
      Under, Exact
<1>14. ASSUME NEW s \in JpegSession, GetsOutput(s)
      PROVE  Clean'
  <2>1. /\ session_j' = session_j
        /\ \A t \in JpegSession : omx'[t].input = omx[t].input
    BY <1>14 DEF GetsOutput, Touches, Feeds, SessionField
  <2> QED BY <1>14, <2>1, JpegAssumption, SMTT(15)
    DEF GetsOutput, CallHasJobLock, JobsOf, ManagerHasJobLock, ManagerIs,
      JpegJob, Places, Sessions, Change, Aborts, ManagerInv, Clean, Held, Sess,
      Holds, Under, Exact
<1>15. ASSUME NEW s \in JpegSession, Fails(s)
      PROVE  Clean'
  <2>1. /\ \A t \in JpegSession : session_j'[t].abort = session_j[t].abort
        /\ \A t \in JpegSession : session_j'[t].cb = session_j[t].cb
        /\ \A t \in JpegSession \ {s} : session_j'[t].encoding = session_j[t].encoding
        /\ omx' = omx
    BY <1>15 DEF Fails, Touches, Feeds, SessionField
  <2> QED BY <1>15, <2>1, JpegAssumption, SMTT(15)
    DEF Fails, Answers, CallHasJobLock, JobsOf, ManagerHasJobLock, ManagerIs,
      JpegJob, Places, Sessions, Change, Aborts, ManagerInv, Clean, Held, Sess,
      Holds, Under, Exact
<1>16. ASSUME NEW s \in JpegSession, DoneAborting(s)
      PROVE  Clean'
  BY <1>16, Clean_DoneAborting
<1>17. ASSUME NEW s \in JpegSession, DoneAwaited(s)
      PROVE  Clean'
  <2>1. /\ \A t \in JpegSession : session_j'[t].encoding = session_j[t].encoding
        /\ \A t \in JpegSession : session_j'[t].abort = session_j[t].abort
        /\ \A t \in JpegSession : session_j'[t].cb = session_j[t].cb
        /\ \A t \in JpegSession \ {s} : omx'[t].input = omx[t].input
    BY <1>17 DEF DoneAwaited, Touches, Feeds, SessionField
  <2> QED BY <1>17, <2>1, JpegAssumption, SMTT(15)
    DEF DoneAwaited, CallHasJobLock, JobsOf, ManagerHasJobLock, Unlocked,
      JpegJob, Places, Sessions, Change, Aborts, ManagerInv, Clean, Held, Sess,
      Holds, Under, Exact
<1>18. ASSUME NEW s \in JpegSession, DoneAlone(s)
      PROVE  Clean'
  <2>1. /\ session_j' = session_j
        /\ \A t \in JpegSession \ {s} : omx'[t].input = omx[t].input
    BY <1>18 DEF DoneAlone, Touches, Feeds, SessionField
  <2> QED BY <1>18, <2>1, JpegAssumption, SMTT(15)
    DEF DoneAlone, CallHasJobLock, JobsOf, ManagerHasJobLock, Unlocked, JpegJob,
      Places, Sessions, Change, Aborts, ManagerInv, Clean, Held, Sess, Holds,
      Under, Exact
<1>19. ASSUME NEW s \in JpegSession, ErrorAbortingWay(s)
      PROVE  Clean'
  <2>1. /\ \A t \in JpegSession : session_j'[t].encoding = session_j[t].encoding
        /\ \A t \in JpegSession : session_j'[t].cb = session_j[t].cb
        /\ \A t \in JpegSession \ {s} : session_j'[t].abort = session_j[t].abort
        /\ \A t \in JpegSession : omx'[t].input = omx[t].input
    BY <1>19 DEF ErrorAbortingWay, Touches, Feeds, SessionField
  <2> QED BY <1>19, <2>1, JpegAssumption, SMTT(15)
    DEF ErrorAbortingWay, CallHasJobLock, JobsOf, ManagerHasJobLock, OmxMayFail,
      Unlocked, JpegJob, Places, Sessions, Change, Aborts, ManagerInv, Clean,
      Held, Sess, Holds, Under, Exact
<1>20. ASSUME NEW s \in JpegSession, ErrorEncodingWay(s)
      PROVE  Clean'
  <2>1. /\ \A t \in JpegSession : session_j'[t].encoding = session_j[t].encoding
        /\ \A t \in JpegSession : session_j'[t].abort = session_j[t].abort
        /\ \A t \in JpegSession \ {s} : session_j'[t].cb = session_j[t].cb
        /\ \A t \in JpegSession : omx'[t].input = omx[t].input
    BY <1>20 DEF ErrorEncodingWay, Touches, Feeds, SessionField
  <2> QED BY <1>20, <2>1, JpegAssumption, SMTT(15)
    DEF ErrorEncodingWay, Answers, CallHasJobLock, JobsOf, ManagerHasJobLock,
      OmxMayFail, Unlocked, JpegJob, Places, Sessions, Change, Aborts,
      ManagerInv, Clean, Held, Sess, Holds, Under, Exact
<1>21. ASSUME NEW s \in JpegSession, ErrorElseWay(s)
      PROVE  Clean'
  <2>1. /\ \A t \in JpegSession : session_j'[t].encoding = session_j[t].encoding
        /\ \A t \in JpegSession : session_j'[t].abort = session_j[t].abort
        /\ \A t \in JpegSession : session_j'[t].cb = session_j[t].cb
        /\ \A t \in JpegSession : omx'[t].input = omx[t].input
    BY <1>21 DEF ErrorElseWay, Touches, Feeds, SessionField
  <2> QED BY <1>21, <2>1, JpegAssumption, SMTT(15)
    DEF ErrorElseWay, CallHasJobLock, JobsOf, ManagerHasJobLock, OmxMayFail,
      Unlocked, JpegJob, Places, Sessions, Change, Aborts, ManagerInv, Clean,
      Held, Sess, Holds, Under, Exact
<1>22. ASSUME NEW s \in JpegSession, ErrorAbortingWork(s)
      PROVE  Clean'
  <2>1. /\ \A t \in JpegSession : session_j'[t].encoding = session_j[t].encoding
        /\ \A t \in JpegSession : session_j'[t].cb = session_j[t].cb
        /\ \A t \in JpegSession \ {s} : session_j'[t].abort = session_j[t].abort
        /\ \A t \in JpegSession \ {s} : omx'[t].input = omx[t].input
    BY <1>22 DEF ErrorAbortingWork, Touches, Feeds, SessionField
  <2> QED BY <1>22, <2>1, JpegAssumption, SMTT(15)
    DEF ErrorAbortingWork, CallHasJobLock, JobsOf, ManagerHasJobLock, OmxMayFail,
      Unlocked, JpegJob, Places, Sessions, Change, Aborts, ManagerInv, Clean,
      Held, Sess, Holds, Under, Exact
<1>23. ASSUME NEW s \in JpegSession, ErrorEncodingWork(s)
      PROVE  Clean'
  <2>1. /\ \A t \in JpegSession : session_j'[t].encoding = session_j[t].encoding
        /\ \A t \in JpegSession : session_j'[t].abort = session_j[t].abort
        /\ \A t \in JpegSession \ {s} : session_j'[t].cb = session_j[t].cb
        /\ \A t \in JpegSession \ {s} : omx'[t].input = omx[t].input
    BY <1>23 DEF ErrorEncodingWork, Touches, Feeds, SessionField
  <2> QED BY <1>23, <2>1, JpegAssumption, SMTT(15)
    DEF ErrorEncodingWork, Answers, CallHasJobLock, JobsOf, ManagerHasJobLock,
      OmxMayFail, Unlocked, JpegJob, Places, Sessions, Change, Aborts,
      ManagerInv, Clean, Held, Sess, Holds, Under, Exact
<1>24. ASSUME NEW s \in JpegSession, ErrorElseWork(s)
      PROVE  Clean'
  <2>1. /\ \A t \in JpegSession : session_j'[t].encoding = session_j[t].encoding
        /\ \A t \in JpegSession : session_j'[t].abort = session_j[t].abort
        /\ \A t \in JpegSession : session_j'[t].cb = session_j[t].cb
        /\ \A t \in JpegSession \ {s} : omx'[t].input = omx[t].input
    BY <1>24 DEF ErrorElseWork, Touches, Feeds, SessionField
  <2> QED BY <1>24, <2>1, JpegAssumption, SMTT(15)
    DEF ErrorElseWork, CallHasJobLock, JobsOf, ManagerHasJobLock, OmxMayFail,
      Unlocked, JpegJob, Places, Sessions, Change, Aborts, ManagerInv, Clean,
      Held, Sess, Holds, Under, Exact
<1>25. ASSUME NEW s \in JpegSession, BufferBack(s)
      PROVE  Clean'
  <2>1. /\ session_j' = session_j
        /\ \A t \in JpegSession \ {s} : omx'[t].input = omx[t].input
    BY <1>25 DEF BufferBack, Touches, Feeds, SessionField
  <2> QED BY <1>25, <2>1, JpegAssumption, SMTT(15)
    DEF BufferBack, CallHasJobLock, JobsOf, ManagerHasJobLock, Unlocked, JpegJob,
      Places, Sessions, Change, Aborts, ManagerInv, Clean, Held, Sess, Holds,
      Under, Exact
<1>26. ASSUME NEW s \in JpegSession, Encoded(s)
      PROVE  Clean'
  <2>1. /\ \A t \in JpegSession : session_j'[t].encoding = session_j[t].encoding
        /\ \A t \in JpegSession : session_j'[t].abort = session_j[t].abort
        /\ \A t \in JpegSession \ {s} : session_j'[t].cb = session_j[t].cb
        /\ \A t \in JpegSession \ {s} : omx'[t].input = omx[t].input
    BY <1>26 DEF Encoded, Touches, Feeds, SessionField
  <2> QED BY <1>26, <2>1, JpegAssumption, SMTT(15)
    DEF Encoded, Answers, CallHasJobLock, JobsOf, ManagerHasJobLock, Unlocked,
      JpegJob, Places, Sessions, Change, Aborts, ManagerInv, Clean, Held, Sess,
      Holds, Under, Exact
<1>27. ASSUME NEW s \in JpegSession, Removes(s)
      PROVE  Clean'
  <2>1. /\ \A t \in JpegSession : session_j'[t].abort = session_j[t].abort
        /\ \A t \in JpegSession \ {s} : session_j'[t].encoding = session_j[t].encoding
        /\ \A t \in JpegSession \ {s} : session_j'[t].cb = session_j[t].cb
        /\ omx' = omx
    BY <1>27 DEF Removes, Touches, Feeds, SessionField
  <2> QED BY <1>27, <2>1, JpegAssumption, SMTT(15)
    DEF Removes, CallHasJobLock, JobsOf, ManagerHasJobLock, JpegJob, Places,
      Sessions, Change, Aborts, ManagerInv, Clean, Held, Sess, Holds, Under,
      Exact
<1>28. ASSUME NEW s \in JpegSession, GivesBack(s)
      PROVE  Clean'
  <2>1. /\ \A t \in JpegSession : session_j'[t].encoding = session_j[t].encoding
        /\ \A t \in JpegSession : session_j'[t].abort = session_j[t].abort
        /\ \A t \in JpegSession \ {s} : session_j'[t].cb = session_j[t].cb
        /\ omx' = omx
    BY <1>28 DEF GivesBack, Touches, Feeds, SessionField
  <2> QED BY <1>28, <2>1, JpegAssumption, SMTT(15)
    DEF GivesBack, CallHasJobLock, JobsOf, ManagerHasJobLock, JpegJob, Places,
      Sessions, Change, Aborts, ManagerInv, Clean, Held, Sess, Holds, Under,
      Exact
<1>29. ASSUME NEW s \in JpegSession, Posts(s)
      PROVE  Clean'
  <2>1. /\ \A t \in JpegSession : session_j'[t].encoding = session_j[t].encoding
        /\ \A t \in JpegSession : session_j'[t].abort = session_j[t].abort
        /\ \A t \in JpegSession \ {s} : session_j'[t].cb = session_j[t].cb
        /\ omx' = omx
    BY <1>29 DEF Posts, Touches, Feeds, SessionField
  <2> QED BY <1>29, <2>1, JpegAssumption, SMTT(15)
    DEF Posts, CallHasJobLock, JobsOf, ManagerHasJobLock, JpegJob, Places,
      Sessions, Change, Aborts, ManagerInv, Clean, Held, Sess, Holds, Under,
      Exact
<1>30. ASSUME NEW s \in JpegSession, Creates(s)
      PROVE  Clean'
  <2>1. /\ \A t \in JpegSession \ {s} : session_j'[t].encoding = session_j[t].encoding
        /\ \A t \in JpegSession \ {s} : session_j'[t].abort = session_j[t].abort
        /\ \A t \in JpegSession \ {s} : session_j'[t].cb = session_j[t].cb
        /\ \A t \in JpegSession \ {s} : omx'[t].input = omx[t].input
    BY <1>30 DEF Creates, Touches, Feeds, SessionField
  <2> QED BY <1>30, <2>1, JpegAssumption, SMTT(15)
    DEF Creates, CallHasJobLock, CallIs, IsNew, JobsOf, ManagerHasJobLock,
      JpegJob, Places, Sessions, Change, Aborts, ManagerInv, Clean, Held, Sess,
      Holds, Under, Exact
<1>31. ASSUME NotCreated
      PROVE  Clean'
  <2>1. /\ session_j' = session_j
        /\ omx' = omx
    BY <1>31 DEF NotCreated, Touches, Feeds, SessionField
  <2> QED BY <1>31, <2>1, JpegAssumption, SMTT(15)
    DEF NotCreated, CallEnds, CallHasJobLock, CallIs, ChangeEnds, ChangeIs,
      JobsOf, ManagerHasJobLock, JpegJob, Places, Sessions, Change, Aborts,
      ManagerInv, Clean, Held, Sess, Holds, Under, Exact
<1>32. ASSUME NEW s \in JpegSession, Enqueues(s)
      PROVE  Clean'
  <2>1. /\ session_j' = session_j
        /\ omx' = omx
    BY <1>32 DEF Enqueues, Touches, Feeds, SessionField
  <2> QED BY <1>32, <2>1, JpegAssumption, SMTT(15)
    DEF Enqueues, CallHasJobLock, CallIs, JobsOf, ManagerHasJobLock, JpegJob,
      Places, Sessions, Change, Aborts, ManagerInv, Clean, Held, Sess, Holds,
      Under, Exact
<1>33. ASSUME PostEnds
      PROVE  Clean'
  <2>1. /\ session_j' = session_j
        /\ omx' = omx
    BY <1>33 DEF PostEnds, Touches, Feeds, SessionField
  <2> QED BY <1>33, <2>1, JpegAssumption, SMTT(15)
    DEF PostEnds, CallEnds, CallHasJobLock, CallIs, JobsOf, ManagerHasJobLock,
      JpegJob, Places, Sessions, Change, Aborts, ManagerInv, Clean, Held, Sess,
      Holds, Under, Exact
<1>34. ASSUME NEW s \in JpegSession, NEW j \in JpegJob, AsksAbort(s, j)
      PROVE  Clean'
  <2>1. /\ \A t \in JpegSession : session_j'[t].encoding = session_j[t].encoding
        /\ \A t \in JpegSession : session_j'[t].abort = session_j[t].abort
        /\ \A t \in JpegSession : session_j'[t].cb = session_j[t].cb
        /\ omx' = omx
    BY <1>34 DEF AsksAbort, Touches, Feeds, SessionField
  <2> QED BY <1>34, <2>1, JpegAssumption, SMTT(15)
    DEF AsksAbort, CallHasJobLock, CallIs, JobsOf, ManagerHasJobLock, JpegJob,
      Places, Sessions, Change, Aborts, ManagerInv, Clean, Held, Sess, Holds,
      Under, Exact
<1>35. ASSUME NEW s \in JpegSession, MarksJob(s)
      PROVE  Clean'
  <2>1. /\ \A t \in JpegSession : session_j'[t].encoding = session_j[t].encoding
        /\ \A t \in JpegSession : session_j'[t].cb = session_j[t].cb
        /\ \A t \in JpegSession \ {s} : session_j'[t].abort = session_j[t].abort
        /\ omx' = omx
    BY <1>35 DEF MarksJob, Touches, Feeds, SessionField
  <2> QED BY <1>35, <2>1, JpegAssumption, SMTT(15)
    DEF MarksJob, CallEnds, CallHasJobLock, CallIs, JobsOf, ManagerHasJobLock,
      Unlocked, JpegJob, Places, Sessions, Change, Aborts, ManagerInv, Clean,
      Held, Sess, Holds, Under, Exact
<1>36. ASSUME NEW s \in JpegSession, MarksSession(s)
      PROVE  Clean'
  <2>1. /\ \A t \in JpegSession : session_j'[t].encoding = session_j[t].encoding
        /\ \A t \in JpegSession : session_j'[t].cb = session_j[t].cb
        /\ \A t \in JpegSession \ {s} : session_j'[t].abort = session_j[t].abort
        /\ omx' = omx
    BY <1>36 DEF MarksSession, Touches, Feeds, SessionField
  <2> QED BY <1>36, <2>1, JpegAssumption, SMTT(15)
    DEF MarksSession, CallHasJobLock, CallIs, ChangeIs, JobsOf,
      ManagerHasJobLock, Unlocked, JpegJob, Places, Sessions, Change, Aborts,
      ManagerInv, Clean, Held, Sess, Holds, Under, Exact
<1>37. ASSUME NEW s \in JpegSession, SendsIdle(s)
      PROVE  Clean'
  <2>1. /\ \A t \in JpegSession : session_j'[t].encoding = session_j[t].encoding
        /\ \A t \in JpegSession : session_j'[t].cb = session_j[t].cb
        /\ \A t \in JpegSession \ {s} : session_j'[t].abort = session_j[t].abort
        /\ \A t \in JpegSession : omx'[t].input = omx[t].input
    BY <1>37 DEF SendsIdle, Touches, Feeds, SessionField
  <2> QED BY <1>37, <2>1, JpegAssumption, SMTT(15)
    DEF SendsIdle, CallHasJobLock, CallIs, JobsOf, ManagerHasJobLock, Unlocked,
      JpegJob, Places, Sessions, Change, Aborts, ManagerInv, Clean, Held, Sess,
      Holds, Under, Exact
<1>38. ASSUME NEW s \in JpegSession, Frees(s)
      PROVE  Clean'
  <2>1. /\ \A t \in JpegSession \ {s} : session_j'[t].encoding = session_j[t].encoding
        /\ \A t \in JpegSession \ {s} : session_j'[t].abort = session_j[t].abort
        /\ \A t \in JpegSession \ {s} : session_j'[t].cb = session_j[t].cb
        /\ \A t \in JpegSession \ {s} : omx'[t].input = omx[t].input
    BY <1>38 DEF Frees, Touches, Feeds, SessionField
  <2> QED BY <1>38, <2>1, JpegAssumption, SMTT(15)
    DEF Frees, CallHasJobLock, CallIs, ChangeEnds, ChangeIs, Changed, IsNew,
      JobsOf, ManagerHasJobLock, Unlocked, JpegJob, Sessions, Places, Clean,
      Aborts, Change, Holds, Held, Sess
<1> QED BY <1>1, <1>2, <1>3, <1>4, <1>5, <1>6, <1>7, <1>8, <1>9, <1>10, <1>11, <1>12,
  <1>13, <1>14, <1>15, <1>16, <1>17, <1>18, <1>19, <1>20, <1>21, <1>22, <1>23,
  <1>24, <1>25, <1>26, <1>27, <1>28, <1>29, <1>30, <1>31, <1>32, <1>33, <1>34,
  <1>35, <1>36, <1>37, <1>38 DEF JpegStep
-----------------------------------------------------------------------------

(* Every elementary step preserves Numbers.                                 *)
LEMMA NumbersKept ==
  ASSUME JpegTypeOK, Places, Sessions, Change, Aborts, ManagerInv, Numbers, JpegStep
  PROVE  Numbers'
<1>1. ASSUME NEW s \in JpegSession,
             \/ Sends(s) \/ Skips(s) \/ Overcome(s) \/ Breaks(s)
             \/ Awaits(s) \/ Wakes(s) \/ DoneAborting(s)
             \/ DoneAwaited(s) \/ DoneAlone(s) \/ ErrorAbortingWay(s)
             \/ ErrorElseWay(s) \/ ErrorAbortingWork(s)
             \/ ErrorElseWork(s) \/ BufferBack(s) \/ GivesBack(s)
             \/ Posts(s) \/ ConfiguresNew(s) \/ Usable(s) \/ Created(s)
             \/ AsksDestroy(s) \/ HaltsSession(s) \/ MarksSession(s)
             \/ SendsIdle(s)
      PROVE  Numbers'
  <2>1. UNCHANGED <<jobs, job_queue, ongoing_job_q, manager, answered, withdrawn>>
    BY <1>1 DEF Sends, Skips, Overcome, Breaks, Awaits, Wakes, DoneAborting,
         DoneAwaited,
      DoneAlone, ErrorAbortingWay, ErrorElseWay, ErrorAbortingWork,
      ErrorElseWork, BufferBack, GivesBack, Posts, ConfiguresNew, Usable,
      Created, AsksDestroy, HaltsSession, MarksSession, SendsIdle
  <2>2. /\ \A t \in JpegSession, f \in {"encoding", "jobId"} :
           session_j'[t][f] = session_j[t][f]
    BY <1>1 DEF Sends, Skips, Overcome, Breaks, Awaits, Wakes, DoneAborting,
         DoneAwaited,
      DoneAlone, ErrorAbortingWay, ErrorElseWay, ErrorAbortingWork,
      ErrorElseWork, BufferBack, GivesBack, Posts, ConfiguresNew, Usable,
      Created, AsksDestroy, HaltsSession, MarksSession, SendsIdle, Touches,
      Feeds, SessionField
  <2> QED BY <2>1, <2>2 DEF Numbers, Held, Sess, Holds, JobsOf
<1>2. ASSUME Moves
      PROVE  Numbers'
  <2>1. session_j' = session_j
    BY <1>2 DEF Moves, Touches, Feeds, SessionField
  <2> QED BY <1>2, <2>1, JpegAssumption, SMTT(15)
    DEF Moves, CallHasJobLock, JobsOf, ManagerHasJobLock, JpegJob, Places,
      Sessions, Change, Aborts, ManagerInv, Numbers, Held, Sess, Holds, Under,
      Exact
<1>3. ASSUME NEW s \in JpegSession, NEW j \in JpegJob, Takes(s, j)
      PROVE  Numbers'
  <2>1. /\ \A t \in JpegSession : session_j'[t].encoding = session_j[t].encoding
        /\ \A t \in JpegSession : session_j'[t].active = session_j[t].active
        /\ \A t \in JpegSession \ {s} : session_j'[t].jobId = session_j[t].jobId
    BY <1>3 DEF Takes, Touches, Feeds, SessionField
  <2> QED BY <1>3, <2>1, JpegAssumption, SMTT(15)
    DEF Takes, CallHasJobLock, JobsOf, ManagerHasJobLock, ManagerIs, JpegJob,
      Places, Sessions, Change, Aborts, ManagerInv, Numbers, Held, Sess, Holds,
      Under, Exact
<1>4. ASSUME NEW s \in JpegSession, FindsConfigured(s)
      PROVE  Numbers'
  <2>1. /\ \A t \in JpegSession : session_j'[t].jobId = session_j[t].jobId
        /\ \A t \in JpegSession : session_j'[t].active = session_j[t].active
        /\ \A t \in JpegSession \ {s} : session_j'[t].encoding = session_j[t].encoding
    BY <1>4 DEF FindsConfigured, Touches, Feeds, SessionField
  <2> QED BY <1>4, <2>1, JpegAssumption, SMTT(15)
    DEF FindsConfigured, CallHasJobLock, JobsOf, ManagerHasJobLock, ManagerIs,
      Unlocked, JpegJob, Places, Sessions, Change, Aborts, ManagerInv, Numbers,
      Held, Sess, Holds, Under, Exact
<1>5. ASSUME NEW s \in JpegSession, FindsOther(s)
      PROVE  Numbers'
  <2>1. /\ \A t \in JpegSession : session_j'[t].jobId = session_j[t].jobId
        /\ \A t \in JpegSession : session_j'[t].active = session_j[t].active
        /\ \A t \in JpegSession \ {s} : session_j'[t].encoding = session_j[t].encoding
    BY <1>5 DEF FindsOther, Touches, Feeds, SessionField
  <2> QED BY <1>5, <2>1, JpegAssumption, SMTT(15)
    DEF FindsOther, CallHasJobLock, ChangeIs, JobsOf, ManagerHasJobLock,
      ManagerIs, Unlocked, JpegJob, Places, Sessions, Change, Aborts,
      ManagerInv, Numbers, Held, Sess, Holds, Under, Exact
<1>6. ASSUME NEW s \in JpegSession, FindsNone(s)
      PROVE  Numbers'
  <2>1. /\ \A t \in JpegSession : session_j'[t].jobId = session_j[t].jobId
        /\ \A t \in JpegSession : session_j'[t].active = session_j[t].active
        /\ \A t \in JpegSession \ {s} : session_j'[t].encoding = session_j[t].encoding
    BY <1>6 DEF FindsNone, Touches, Feeds, SessionField
  <2> QED BY <1>6, <2>1, JpegAssumption, SMTT(15)
    DEF FindsNone, CallHasJobLock, ChangeIs, JobsOf, ManagerHasJobLock,
      ManagerIs, Unlocked, JpegJob, Places, Sessions, Change, Aborts,
      ManagerInv, Numbers, Held, Sess, Holds, Under, Exact
<1>7. ASSUME NEW s \in JpegSession, Cleared(s)
      PROVE  Numbers'
  <2>1. /\ \A t \in JpegSession : session_j'[t].encoding = session_j[t].encoding
        /\ \A t \in JpegSession : session_j'[t].jobId = session_j[t].jobId
        /\ \A t \in JpegSession : session_j'[t].active = session_j[t].active
    BY <1>7 DEF Cleared, Touches, Feeds, SessionField
  <2> QED BY <1>7, <2>1, JpegAssumption, SMTT(15)
    DEF Cleared, CallHasJobLock, ChangeIs, Changed, JobsOf, ManagerHasJobLock,
      ManagerIs, JpegJob, Places, Sessions, Change, Aborts, ManagerInv,
      Numbers, Held, Sess, Holds, Under, Exact
<1>8. ASSUME CannotConfigure
      PROVE  Numbers'
  <2>1. session_j' = session_j
    BY <1>8 DEF CannotConfigure, Touches, Feeds, SessionField
  <2> QED BY <1>8, <2>1, JpegAssumption, SMTT(15)
    DEF CannotConfigure, CallHasJobLock, ChangeEnds, ChangeIs, JobsOf,
      ManagerHasJobLock, ManagerIs, JpegJob, Places, Sessions, Change, Aborts,
      ManagerInv, Numbers, Held, Sess, Holds, Under, Exact
<1>9. ASSUME NEW s \in JpegSession, ConfiguredForJob(s)
      PROVE  Numbers'
  <2>1. /\ \A t \in JpegSession : session_j'[t].encoding = session_j[t].encoding
        /\ \A t \in JpegSession : session_j'[t].jobId = session_j[t].jobId
        /\ \A t \in JpegSession : session_j'[t].active = session_j[t].active
    BY <1>9 DEF ConfiguredForJob, Touches, Feeds, SessionField
  <2> QED BY <1>9, <2>1, JpegAssumption, SMTT(15)
    DEF ConfiguredForJob, CallHasJobLock, ChangeEnds, ChangeIs, Changed, JobsOf,
      ManagerHasJobLock, ManagerIs, JpegJob, Places, Sessions, Change, Aborts,
      ManagerInv, Numbers, Held, Sess, Holds, Under, Exact
<1>10. ASSUME NEW s \in JpegSession, Starts(s)
      PROVE  Numbers'
  <2>1. /\ \A t \in JpegSession : session_j'[t].jobId = session_j[t].jobId
        /\ \A t \in JpegSession : session_j'[t].active = session_j[t].active
        /\ \A t \in JpegSession \ {s} : session_j'[t].encoding = session_j[t].encoding
    BY <1>10 DEF Starts, Touches, Feeds, SessionField
  <2> QED BY <1>10, <2>1, JpegAssumption, SMTT(15)
    DEF Starts, CallHasJobLock, JobsOf, ManagerHasJobLock, ManagerIs, Unlocked,
      JpegJob, Places, Sessions, Change, Aborts, ManagerInv, Numbers, Held,
      Sess, Holds, Under, Exact
<1>11. ASSUME Refused
      PROVE  Numbers'
  <2>1. session_j' = session_j
    BY <1>11 DEF Refused, Touches, Feeds, SessionField
  <2> QED BY <1>11, <2>1, JpegAssumption, SMTT(15)
    DEF Refused, CallHasJobLock, JobsOf, ManagerHasJobLock, ManagerIs,
      OmxMayFail, JpegJob, Places, Sessions, Change, Aborts, ManagerInv,
      Numbers, Held, Sess, Holds, Under, Exact
<1>12. ASSUME NEW s \in JpegSession, NotReady(s)
      PROVE  Numbers'
  <2>1. session_j' = session_j
    BY <1>12 DEF NotReady, Touches, Feeds, SessionField
  <2> QED BY <1>12, <2>1, JpegAssumption, SMTT(15)
    DEF NotReady, CallHasJobLock, JobsOf, ManagerHasJobLock, ManagerIs, JpegJob,
      Places, Sessions, Change, Aborts, ManagerInv, Numbers, Held, Sess, Holds,
      Under, Exact
<1>13. ASSUME NEW s \in JpegSession, GetsInput(s)
      PROVE  Numbers'
  <2>1. session_j' = session_j
    BY <1>13 DEF GetsInput, Touches, Feeds, SessionField
  <2> QED BY <1>13, <2>1, JpegAssumption, SMTT(15)
    DEF GetsInput, CallHasJobLock, JobsOf, ManagerHasJobLock, ManagerIs, JpegJob,
      Places, Sessions, Change, Aborts, ManagerInv, Numbers, Held, Sess, Holds,
      Under, Exact
<1>14. ASSUME NEW s \in JpegSession, GetsOutput(s)
      PROVE  Numbers'
  <2>1. session_j' = session_j
    BY <1>14 DEF GetsOutput, Touches, Feeds, SessionField
  <2> QED BY <1>14, <2>1, JpegAssumption, SMTT(15)
    DEF GetsOutput, CallHasJobLock, JobsOf, ManagerHasJobLock, ManagerIs,
      JpegJob, Places, Sessions, Change, Aborts, ManagerInv, Numbers, Held,
      Sess, Holds, Under, Exact
<1>15. ASSUME NEW s \in JpegSession, Fails(s)
      PROVE  Numbers'
  <2>1. /\ \A t \in JpegSession : session_j'[t].jobId = session_j[t].jobId
        /\ \A t \in JpegSession : session_j'[t].active = session_j[t].active
        /\ \A t \in JpegSession \ {s} : session_j'[t].encoding = session_j[t].encoding
    BY <1>15 DEF Fails, Touches, Feeds, SessionField
  <2> QED BY <1>15, <2>1, JpegAssumption, SMTT(15)
    DEF Fails, Answers, CallHasJobLock, JobsOf, ManagerHasJobLock, ManagerIs,
      JpegJob, Places, Sessions, Change, Aborts, ManagerInv, Numbers, Held,
      Sess, Holds, Under, Exact
<1>16. ASSUME NEW s \in JpegSession, ErrorEncodingWay(s)
      PROVE  Numbers'
  <2>1. /\ \A t \in JpegSession : session_j'[t].encoding = session_j[t].encoding
        /\ \A t \in JpegSession : session_j'[t].jobId = session_j[t].jobId
        /\ \A t \in JpegSession : session_j'[t].active = session_j[t].active
    BY <1>16 DEF ErrorEncodingWay, Touches, Feeds, SessionField
  <2> QED BY <1>16, <2>1, JpegAssumption, SMTT(15)
    DEF ErrorEncodingWay, Answers, CallHasJobLock, JobsOf, ManagerHasJobLock,
      OmxMayFail, Unlocked, JpegJob, Places, Sessions, Change, Aborts,
      ManagerInv, Numbers, Held, Sess, Holds, Under, Exact
<1>17. ASSUME NEW s \in JpegSession, ErrorEncodingWork(s)
      PROVE  Numbers'
  <2>1. /\ \A t \in JpegSession : session_j'[t].encoding = session_j[t].encoding
        /\ \A t \in JpegSession : session_j'[t].jobId = session_j[t].jobId
        /\ \A t \in JpegSession : session_j'[t].active = session_j[t].active
    BY <1>17 DEF ErrorEncodingWork, Touches, Feeds, SessionField
  <2> QED BY <1>17, <2>1, JpegAssumption, SMTT(15)
    DEF ErrorEncodingWork, Answers, CallHasJobLock, JobsOf, ManagerHasJobLock,
      OmxMayFail, Unlocked, JpegJob, Places, Sessions, Change, Aborts,
      ManagerInv, Numbers, Held, Sess, Holds, Under, Exact
<1>18. ASSUME NEW s \in JpegSession, Encoded(s)
      PROVE  Numbers'
  <2>1. /\ \A t \in JpegSession : session_j'[t].encoding = session_j[t].encoding
        /\ \A t \in JpegSession : session_j'[t].jobId = session_j[t].jobId
        /\ \A t \in JpegSession : session_j'[t].active = session_j[t].active
    BY <1>18 DEF Encoded, Touches, Feeds, SessionField
  <2> QED BY <1>18, <2>1, JpegAssumption, SMTT(15)
    DEF Encoded, Answers, CallHasJobLock, JobsOf, ManagerHasJobLock, Unlocked,
      JpegJob, Places, Sessions, Change, Aborts, ManagerInv, Numbers, Held,
      Sess, Holds, Under, Exact
<1>19. ASSUME NEW s \in JpegSession, Removes(s)
      PROVE  Numbers'
  <2>1. /\ \A t \in JpegSession : session_j'[t].jobId = session_j[t].jobId
        /\ \A t \in JpegSession : session_j'[t].active = session_j[t].active
        /\ \A t \in JpegSession \ {s} : session_j'[t].encoding = session_j[t].encoding
    BY <1>19 DEF Removes, Touches, Feeds, SessionField
  <2> QED BY <1>19, <2>1, JpegAssumption, SMTT(15)
    DEF Removes, CallHasJobLock, JobsOf, ManagerHasJobLock, JpegJob, Places,
      Sessions, Change, Aborts, ManagerInv, Numbers, Held, Sess, Holds, Under,
      Exact
<1>20. ASSUME NEW s \in JpegSession, Creates(s)
      PROVE  Numbers'
  <2>1. /\ \A t \in JpegSession \ {s} : session_j'[t].encoding = session_j[t].encoding
        /\ \A t \in JpegSession \ {s} : session_j'[t].jobId = session_j[t].jobId
        /\ \A t \in JpegSession \ {s} : session_j'[t].active = session_j[t].active
    BY <1>20 DEF Creates, Touches, Feeds, SessionField
  <2> QED BY <1>20, <2>1, JpegAssumption, SMTT(15)
    DEF Creates, CallHasJobLock, CallIs, IsNew, JobsOf, ManagerHasJobLock,
      JpegJob, Places, Sessions, Change, Aborts, ManagerInv, Numbers, Held,
      Sess, Holds, Under, Exact
<1>21. ASSUME NotCreated
      PROVE  Numbers'
  <2>1. session_j' = session_j
    BY <1>21 DEF NotCreated, Touches, Feeds, SessionField
  <2> QED BY <1>21, <2>1, JpegAssumption, SMTT(15)
    DEF NotCreated, CallEnds, CallHasJobLock, CallIs, ChangeEnds, ChangeIs,
      JobsOf, ManagerHasJobLock, JpegJob, Places, Sessions, Change, Aborts,
      ManagerInv, Numbers, Held, Sess, Holds, Under, Exact
<1>22. ASSUME NEW s \in JpegSession, Enqueues(s)
      PROVE  Numbers'
  <2>1. session_j' = session_j
    BY <1>22 DEF Enqueues, Touches, Feeds, SessionField
  <2> QED BY <1>22, <2>1, JpegAssumption, SMTT(15)
    DEF Enqueues, CallHasJobLock, CallIs, JobsOf, ManagerHasJobLock, JpegJob,
      Places, Sessions, Change, Aborts, ManagerInv, Numbers, Held, Sess, Holds,
      Under, Exact
<1>23. ASSUME PostEnds
      PROVE  Numbers'
  <2>1. session_j' = session_j
    BY <1>23 DEF PostEnds, Touches, Feeds, SessionField
  <2> QED BY <1>23, <2>1, JpegAssumption, SMTT(15)
    DEF PostEnds, CallEnds, CallHasJobLock, CallIs, JobsOf, ManagerHasJobLock,
      JpegJob, Places, Sessions, Change, Aborts, ManagerInv, Numbers, Held,
      Sess, Holds, Under, Exact
<1>24. ASSUME NEW s \in JpegSession, NEW j \in JpegJob, AsksAbort(s, j)
      PROVE  Numbers'
  <2>1. /\ \A t \in JpegSession : session_j'[t].encoding = session_j[t].encoding
        /\ \A t \in JpegSession : session_j'[t].jobId = session_j[t].jobId
        /\ \A t \in JpegSession : session_j'[t].active = session_j[t].active
    BY <1>24 DEF AsksAbort, Touches, Feeds, SessionField
  <2> QED BY <1>24, <2>1, JpegAssumption, SMTT(15)
    DEF AsksAbort, CallHasJobLock, CallIs, JobsOf, ManagerHasJobLock, JpegJob,
      Places, Sessions, Change, Aborts, ManagerInv, Numbers, Held, Sess, Holds,
      Under, Exact
<1>25. ASSUME NEW s \in JpegSession, TakesOff(s)
      PROVE  Numbers'
  <2>1. session_j' = session_j
    BY <1>25 DEF TakesOff, Touches, Feeds, SessionField
  <2> QED BY <1>25, <2>1, JpegAssumption, SMTT(15)
    DEF TakesOff, CallHasJobLock, CallIs, JobsOf, ManagerHasJobLock, JpegJob,
      Places, Sessions, Change, Aborts, ManagerInv, Numbers, Held, Sess, Holds,
      Under, Exact
<1>26. ASSUME NEW s \in JpegSession, Withdraws(s)
      PROVE  Numbers'
  <2>1. session_j' = session_j
    BY <1>26 DEF Withdraws, Touches, Feeds, SessionField
  <2> QED BY <1>26, <2>1, JpegAssumption, SMTT(15)
    DEF Withdraws, CallEnds, CallHasJobLock, CallIs, JobsOf, ManagerHasJobLock,
      JpegJob, Places, Sessions, Change, Aborts, ManagerInv, Numbers, Held,
      Sess, Holds, Under, Exact
<1>27. ASSUME NEW s \in JpegSession, Forgets(s)
      PROVE  Numbers'
  <2>1. session_j' = session_j
    BY <1>27 DEF Forgets, Touches, Feeds, SessionField
  <2> QED BY <1>27, <2>1, JpegAssumption, SMTT(15)
    DEF Forgets, CallHasJobLock, CallIs, JobsOf, ManagerHasJobLock, JpegJob,
      Places, Sessions, Change, Aborts, ManagerInv, Numbers, Held, Sess, Holds,
      Under, Exact
<1>28. ASSUME NEW s \in JpegSession, HaltsJob(s)
      PROVE  Numbers'
  <2>1. session_j' = session_j
    BY <1>28 DEF HaltsJob, Touches, Feeds, SessionField
  <2> QED BY <1>28, <2>1, JpegAssumption, SMTT(15)
    DEF HaltsJob, CallEnds, CallHasJobLock, CallIs, JobsOf, ManagerHasJobLock,
      Unlocked, JpegJob, Places, Sessions, Change, Aborts, ManagerInv, Numbers,
      Held, Sess, Holds, Under, Exact
<1>29. ASSUME NEW s \in JpegSession, MarksJob(s)
      PROVE  Numbers'
  <2>1. /\ \A t \in JpegSession : session_j'[t].encoding = session_j[t].encoding
        /\ \A t \in JpegSession : session_j'[t].jobId = session_j[t].jobId
        /\ \A t \in JpegSession : session_j'[t].active = session_j[t].active
    BY <1>29 DEF MarksJob, Touches, Feeds, SessionField
  <2> QED BY <1>29, <2>1, JpegAssumption, SMTT(15)
    DEF MarksJob, CallEnds, CallHasJobLock, CallIs, JobsOf, ManagerHasJobLock,
      Unlocked, JpegJob, Places, Sessions, Change, Aborts, ManagerInv, Numbers,
      Held, Sess, Holds, Under, Exact
<1>30. ASSUME NEW s \in JpegSession, Frees(s)
      PROVE  Numbers'
  <2>1. /\ \A t \in JpegSession \ {s} : session_j'[t].encoding = session_j[t].encoding
        /\ \A t \in JpegSession \ {s} : session_j'[t].jobId = session_j[t].jobId
        /\ \A t \in JpegSession \ {s} : session_j'[t].active = session_j[t].active
    BY <1>30 DEF Frees, Touches, Feeds, SessionField
  <2> QED BY <1>30, <2>1, JpegAssumption, SMTT(15)
    DEF Frees, CallHasJobLock, CallIs, ChangeEnds, ChangeIs, Changed, IsNew,
      JobsOf, ManagerHasJobLock, Unlocked, JpegJob, Places, Sessions, Change,
      Aborts, ManagerInv, Numbers, Held, Sess, Holds, Under, Exact
<1> QED BY <1>1, <1>2, <1>3, <1>4, <1>5, <1>6, <1>7, <1>8, <1>9, <1>10, <1>11, <1>12,
  <1>13, <1>14, <1>15, <1>16, <1>17, <1>18, <1>19, <1>20, <1>21, <1>22, <1>23,
  <1>24, <1>25, <1>26, <1>27, <1>28, <1>29, <1>30 DEF JpegStep
-----------------------------------------------------------------------------

(* The step Removes preserves OnceInv.                                      *)
LEMMA OnceInv_Removes ==
  ASSUME JpegTypeOK, Places, Sessions, Aborts, ManagerInv, Numbers, OnceInv,
         NEW s \in JpegSession, Removes(s)
  PROVE  OnceInv'
<1>1. /\ \A t \in JpegSession \ {s} : session_j'[t] = session_j[t]
      /\ \A f \in {"abort", "jobId", "error"} : session_j'[s][f] = session_j[s][f]
      /\ session_j[s].cb = "remove" /\ session_j'[s].cb = "handle"
      /\ ~session_j'[s].encoding
      /\ ongoing_job_q' = ongoing_job_q \ {session_j[s].jobId}
      /\ UNCHANGED <<manager, jobs, job_queue, call, omx, answered, withdrawn>>
  BY DEF Removes, Touches, SessionField
<1>2. SUFFICES ASSUME MaxOmxErrors <= 1
               PROVE  OnceInv'
  BY DEF OnceInv
<1>3. \A t \in JpegSession : Exact(t)
  BY <1>2 DEF Exact
<1>4. ASSUME NEW t \in JpegSession \ {s}
      PROVE  /\ session_j[t].jobId # 0 => session_j[t].jobId # session_j[s].jobId
             /\ Holds(t) => manager.job # session_j[s].jobId
  BY JpegAssumption, Positions DEF Numbers, JobsOf, Places, Holds, Held, JpegJob
<1>5. Holds(s) => manager.at = "fill"
  BY <1>1, <1>3, Positions DEF ManagerInv, Under, Places, ManagerHasJobLock, Holds
<1>6. ASSUME NEW t \in JpegSession, Holds(t)'
      PROVE  /\ manager'.job \in ongoing_job_q' \/ (manager'.at = "fill"
                  /\ ~session_j'[t].encoding)
             /\ manager'.job \notin withdrawn'
             /\ manager'.at # "fill" \/ (session_j'[t].encoding
                  /\ session_j'[t].cb = "idle")
                  => answered'[manager'.job] = 0
  <2>1. Holds(t)
    BY <1>1, <1>6 DEF Holds, Held, Sess
  <2>2. CASE t = s
    BY <1>1, <1>2, <1>5, <2>1, <2>2 DEF OnceInv
  <2>3. CASE t # s
    BY <1>1, <1>2, <1>4, <2>1, <2>3 DEF OnceInv
  <2> QED BY <2>2, <2>3
<1>7. ASSUME NEW t \in JpegSession, omx'[t].input # 0, session_j'[t].encoding,
             session_j'[t].abort = "none", session_j'[t].cb = "idle"
      PROVE  /\ Fresh(session_j[t].jobId)'
             /\ session_j'[t].jobId \in ongoing_job_q' \/ (call'.at = "halt"
                  /\ call'.sess = t)
  <2>1. t # s
    BY <1>1, <1>7
  <2>2. session_j[t].jobId # session_j[s].jobId
    BY <1>1, <1>4, <1>7, <2>1 DEF Numbers
  <2> QED BY <1>1, <1>2, <1>7, <2>1, <2>2 DEF OnceInv, Fresh
<1>9. \A j \in job_queue' : Fresh(j)'
  BY <1>1, <1>2 DEF OnceInv, Fresh
<1>8. /\ \A t \in JpegSession : omx'[t].work # 0 => omx'[t].input # 0
      /\ manager'.at = "lock" => ongoing_job_q' = {}
      /\ call'.at = "halt" => call'.sess \in JpegSession
  BY <1>1, <1>2 DEF OnceInv, Fresh
<1> QED BY <1>6, <1>7, <1>8, <1>9 DEF OnceInv

(* Every elementary step preserves OnceInv.                                 *)
LEMMA OnceInvKept ==
  ASSUME JpegTypeOK, Places, Sessions, Change, Drained, Aborts, Handles,
         ManagerInv, Components, Clean, Numbers, OnceInv, JpegStep
  PROVE  OnceInv'
<1>1. ASSUME NEW s \in JpegSession,
             \/ Sends(s) \/ Skips(s) \/ Overcome(s) \/ Breaks(s)
             \/ Awaits(s) \/ Wakes(s) \/ ErrorElseWay(s)
      PROVE  OnceInv'
  <2>1. UNCHANGED <<job_queue, jobs, answered, withdrawn, manager, ongoing_job_q, call>>
    BY <1>1 DEF Sends, Skips, Overcome, Breaks, Awaits, Wakes, ErrorElseWay
  <2>2. /\ \A t \in JpegSession, f \in {"encoding", "abort", "cb", "jobId"} :
           session_j'[t][f] = session_j[t][f]
        /\ \A t \in JpegSession, f \in {"input", "work"} :
           omx'[t][f] = omx[t][f]
    BY <1>1 DEF Sends, Skips, Overcome, Breaks, Awaits, Wakes, ErrorElseWay, Touches,
      Feeds, SessionField
  <2> QED BY <2>1, <2>2 DEF OnceInv, Fresh, Holds, Held, Sess
<1>2. ASSUME Moves
      PROVE  OnceInv'
  <2>1. /\ session_j' = session_j
        /\ omx' = omx
    BY <1>2 DEF Moves, Touches, Feeds, SessionField
  <2> QED BY <1>2, <2>1, JpegAssumption, SMTT(15)
    DEF Moves, CallHasJobLock, JobsOf, ManagerHasJobLock, JpegJob, Places,
      Sessions, Change, Drained, Aborts, Handles, ManagerInv, Components,
      Clean, Numbers, OnceInv, Held, Sess, Holds, Under, Exact, Out, Fresh,
      Steady, Single, Bad
<1>3. ASSUME NEW s \in JpegSession, NEW j \in JpegJob, Takes(s, j)
      PROVE  OnceInv'
  <2>1. /\ \A t \in JpegSession : session_j'[t].encoding = session_j[t].encoding
        /\ \A t \in JpegSession : session_j'[t].abort = session_j[t].abort
        /\ \A t \in JpegSession : session_j'[t].cb = session_j[t].cb
        /\ \A t \in JpegSession : session_j'[t].error = session_j[t].error
        /\ \A t \in JpegSession : session_j'[t].active = session_j[t].active
        /\ \A t \in JpegSession \ {s} : session_j'[t].jobId = session_j[t].jobId
        /\ omx' = omx
    BY <1>3 DEF Takes, Touches, Feeds, SessionField
  <2> QED BY <1>3, <2>1, JpegAssumption, SMTT(15)
    DEF Takes, CallHasJobLock, JobsOf, ManagerHasJobLock, ManagerIs, JpegJob,
      Places, Sessions, Change, Drained, Aborts, Handles, ManagerInv,
      Components, Clean, Numbers, OnceInv, Held, Sess, Holds, Under, Exact,
      Out, Fresh, Steady, Single, Bad
<1>4. ASSUME NEW s \in JpegSession, FindsConfigured(s)
      PROVE  OnceInv'
  <2>1. /\ \A t \in JpegSession : session_j'[t].cb = session_j[t].cb
        /\ \A t \in JpegSession : session_j'[t].jobId = session_j[t].jobId
        /\ \A t \in JpegSession : session_j'[t].error = session_j[t].error
        /\ \A t \in JpegSession : session_j'[t].active = session_j[t].active
        /\ \A t \in JpegSession \ {s} : session_j'[t].encoding = session_j[t].encoding
        /\ \A t \in JpegSession \ {s} : session_j'[t].abort = session_j[t].abort
        /\ omx' = omx
    BY <1>4 DEF FindsConfigured, Touches, Feeds, SessionField
  <2> QED BY <1>4, <2>1, JpegAssumption, SMTT(15)
    DEF FindsConfigured, CallHasJobLock, JobsOf, ManagerHasJobLock, ManagerIs,
      Unlocked, JpegJob, Places, Sessions, Change, Drained, Aborts, Handles,
      ManagerInv, Components, Clean, Numbers, OnceInv, Held, Sess, Holds,
      Under, Exact, Out, Fresh, Steady, Single, Bad
<1>5. ASSUME NEW s \in JpegSession, FindsOther(s)
      PROVE  OnceInv'
  <2>1. /\ \A t \in JpegSession : session_j'[t].cb = session_j[t].cb
        /\ \A t \in JpegSession : session_j'[t].jobId = session_j[t].jobId
        /\ \A t \in JpegSession : session_j'[t].error = session_j[t].error
        /\ \A t \in JpegSession : session_j'[t].active = session_j[t].active
        /\ \A t \in JpegSession \ {s} : session_j'[t].encoding = session_j[t].encoding
        /\ \A t \in JpegSession \ {s} : session_j'[t].abort = session_j[t].abort
        /\ omx' = omx
    BY <1>5 DEF FindsOther, Touches, Feeds, SessionField
  <2> QED BY <1>5, <2>1, JpegAssumption, SMTT(15)
    DEF FindsOther, CallHasJobLock, ChangeIs, JobsOf, ManagerHasJobLock,
      ManagerIs, Unlocked, JpegJob, Places, Sessions, Change, Drained, Aborts,
      Handles, ManagerInv, Components, Clean, Numbers, OnceInv, Held, Sess,
      Holds, Under, Exact, Out, Fresh, Steady, Single, Bad
<1>6. ASSUME NEW s \in JpegSession, FindsNone(s)
      PROVE  OnceInv'
  <2>1. /\ \A t \in JpegSession : session_j'[t].cb = session_j[t].cb
        /\ \A t \in JpegSession : session_j'[t].jobId = session_j[t].jobId
        /\ \A t \in JpegSession : session_j'[t].error = session_j[t].error
        /\ \A t \in JpegSession : session_j'[t].active = session_j[t].active
        /\ \A t \in JpegSession \ {s} : session_j'[t].encoding = session_j[t].encoding
        /\ \A t \in JpegSession \ {s} : session_j'[t].abort = session_j[t].abort
        /\ omx' = omx
    BY <1>6 DEF FindsNone, Touches, Feeds, SessionField
  <2> QED BY <1>6, <2>1, JpegAssumption, SMTT(15)
    DEF FindsNone, CallHasJobLock, ChangeIs, JobsOf, ManagerHasJobLock,
      ManagerIs, Unlocked, JpegJob, Places, Sessions, Change, Drained, Aborts,
      Handles, ManagerInv, Components, Clean, Numbers, OnceInv, Held, Sess,
      Holds, Under, Exact, Out, Fresh, Steady, Single, Bad
<1>7. ASSUME NEW s \in JpegSession, Cleared(s)
      PROVE  OnceInv'
  <2>1. /\ \A t \in JpegSession : session_j'[t].encoding = session_j[t].encoding
        /\ \A t \in JpegSession : session_j'[t].abort = session_j[t].abort
        /\ \A t \in JpegSession : session_j'[t].cb = session_j[t].cb
        /\ \A t \in JpegSession : session_j'[t].jobId = session_j[t].jobId
        /\ \A t \in JpegSession : session_j'[t].error = session_j[t].error
        /\ \A t \in JpegSession : session_j'[t].active = session_j[t].active
        /\ omx' = omx
    BY <1>7 DEF Cleared, Touches, Feeds, SessionField
  <2> QED BY <1>7, <2>1, JpegAssumption, SMTT(15)
    DEF Cleared, CallHasJobLock, ChangeIs, Changed, JobsOf, ManagerHasJobLock,
      ManagerIs, JpegJob, Places, Sessions, Change, Drained, Aborts, Handles,
      ManagerInv, Components, Clean, Numbers, OnceInv, Held, Sess, Holds,
      Under, Exact, Out, Fresh, Steady, Single, Bad
<1>8. ASSUME CannotConfigure
      PROVE  OnceInv'
  <2>1. /\ session_j' = session_j
        /\ omx' = omx
    BY <1>8 DEF CannotConfigure, Touches, Feeds, SessionField
  <2> QED BY <1>8, <2>1, JpegAssumption, SMTT(15)
    DEF CannotConfigure, CallHasJobLock, ChangeEnds, ChangeIs, JobsOf,
      ManagerHasJobLock, ManagerIs, JpegJob, Places, Sessions, Change, Drained,
      Aborts, Handles, ManagerInv, Components, Clean, Numbers, OnceInv, Held,
      Sess, Holds, Under, Exact, Out, Fresh, Steady, Single, Bad
<1>9. ASSUME NEW s \in JpegSession, ConfiguredForJob(s)
      PROVE  OnceInv'
  <2>1. /\ \A t \in JpegSession : session_j'[t].encoding = session_j[t].encoding
        /\ \A t \in JpegSession : session_j'[t].abort = session_j[t].abort
        /\ \A t \in JpegSession : session_j'[t].cb = session_j[t].cb
        /\ \A t \in JpegSession : session_j'[t].jobId = session_j[t].jobId
        /\ \A t \in JpegSession : session_j'[t].error = session_j[t].error
        /\ \A t \in JpegSession : session_j'[t].active = session_j[t].active
        /\ omx' = omx
    BY <1>9 DEF ConfiguredForJob, Touches, Feeds, SessionField
  <2> QED BY <1>9, <2>1, JpegAssumption, SMTT(15)
    DEF ConfiguredForJob, CallHasJobLock, ChangeEnds, ChangeIs, Changed, JobsOf,
      ManagerHasJobLock, ManagerIs, JpegJob, Places, Sessions, Change, Drained,
      Aborts, Handles, ManagerInv, Components, Clean, Numbers, OnceInv, Held,
      Sess, Holds, Under, Exact, Out, Fresh, Steady, Single, Bad
<1>10. ASSUME NEW s \in JpegSession, Starts(s)
      PROVE  OnceInv'
  <2>1. /\ \A t \in JpegSession : session_j'[t].abort = session_j[t].abort
        /\ \A t \in JpegSession : session_j'[t].cb = session_j[t].cb
        /\ \A t \in JpegSession : session_j'[t].jobId = session_j[t].jobId
        /\ \A t \in JpegSession : session_j'[t].error = session_j[t].error
        /\ \A t \in JpegSession : session_j'[t].active = session_j[t].active
        /\ \A t \in JpegSession \ {s} : session_j'[t].encoding = session_j[t].encoding
        /\ omx' = omx
    BY <1>10 DEF Starts, Touches, Feeds, SessionField
  <2> QED BY <1>10, <2>1, JpegAssumption, SMTT(15)
    DEF Starts, CallHasJobLock, JobsOf, ManagerHasJobLock, ManagerIs, Unlocked,
      JpegJob, Places, Sessions, Change, Drained, Aborts, Handles, ManagerInv,
      Components, Clean, Numbers, OnceInv, Held, Sess, Holds, Under, Exact,
      Out, Fresh, Steady, Single, Bad
<1>11. ASSUME Refused
      PROVE  OnceInv'
  <2>1. /\ session_j' = session_j
        /\ omx' = omx
    BY <1>11 DEF Refused, Touches, Feeds, SessionField
  <2> QED BY <1>11, <2>1, JpegAssumption, SMTT(15)
    DEF Refused, CallHasJobLock, JobsOf, ManagerHasJobLock, ManagerIs,
      OmxMayFail, JpegJob, Places, Sessions, Change, Drained, Aborts, Handles,
      ManagerInv, Components, Clean, Numbers, OnceInv, Held, Sess, Holds,
      Under, Exact, Out, Fresh, Steady, Single, Bad
<1>12. ASSUME NEW s \in JpegSession, NotReady(s)
      PROVE  OnceInv'
  <2>1. /\ session_j' = session_j
        /\ omx' = omx
    BY <1>12 DEF NotReady, Touches, Feeds, SessionField
  <2> QED BY <1>12, <2>1, JpegAssumption, SMTT(15)
    DEF NotReady, CallHasJobLock, JobsOf, ManagerHasJobLock, ManagerIs, JpegJob,
      Places, Sessions, Change, Drained, Aborts, Handles, ManagerInv,
      Components, Clean, Numbers, OnceInv, Held, Sess, Holds, Under, Exact,
      Out, Fresh, Steady, Single, Bad
<1>13. ASSUME NEW s \in JpegSession, GetsInput(s)
      PROVE  OnceInv'
  <2>1. /\ session_j' = session_j
        /\ \A t \in JpegSession : omx'[t].state = omx[t].state
        /\ \A t \in JpegSession : omx'[t].cmds = omx[t].cmds
        /\ \A t \in JpegSession : omx'[t].work = omx[t].work
        /\ \A t \in JpegSession \ {s} : omx'[t].input = omx[t].input
    BY <1>13 DEF GetsInput, Touches, Feeds, SessionField
  <2> QED BY <1>13, <2>1, JpegAssumption, SMTT(15)
    DEF GetsInput, CallHasJobLock, JobsOf, ManagerHasJobLock, ManagerIs, JpegJob,
      Places, Sessions, Change, Drained, Aborts, Handles, ManagerInv,
      Components, Clean, Numbers, OnceInv, Held, Sess, Holds, Under, Exact,
      Out, Fresh, Steady, Single, Bad
<1>14. ASSUME NEW s \in JpegSession, GetsOutput(s)
      PROVE  OnceInv'
  <2>1. /\ session_j' = session_j
        /\ \A t \in JpegSession : omx'[t].state = omx[t].state
        /\ \A t \in JpegSession : omx'[t].cmds = omx[t].cmds
        /\ \A t \in JpegSession : omx'[t].input = omx[t].input
        /\ \A t \in JpegSession \ {s} : omx'[t].work = omx[t].work
    BY <1>14 DEF GetsOutput, Touches, Feeds, SessionField
  <2> QED BY <1>14, <2>1, JpegAssumption, SMTT(15)
    DEF GetsOutput, CallHasJobLock, JobsOf, ManagerHasJobLock, ManagerIs,
      JpegJob, Places, Sessions, Change, Drained, Aborts, Handles, ManagerInv,
      Components, Clean, Numbers, OnceInv, Held, Sess, Holds, Under, Exact,
      Out, Fresh, Steady, Single, Bad
<1>15. ASSUME NEW s \in JpegSession, Fails(s)
      PROVE  OnceInv'
  <2>1. /\ \A t \in JpegSession : session_j'[t].abort = session_j[t].abort
        /\ \A t \in JpegSession : session_j'[t].cb = session_j[t].cb
        /\ \A t \in JpegSession : session_j'[t].jobId = session_j[t].jobId
        /\ \A t \in JpegSession : session_j'[t].error = session_j[t].error
        /\ \A t \in JpegSession : session_j'[t].active = session_j[t].active
        /\ \A t \in JpegSession \ {s} : session_j'[t].encoding = session_j[t].encoding
        /\ omx' = omx
    BY <1>15 DEF Fails, Touches, Feeds, SessionField
  <2> QED BY <1>15, <2>1, JpegAssumption, SMTT(15)
    DEF Fails, Answers, CallHasJobLock, JobsOf, ManagerHasJobLock, ManagerIs,
      JpegJob, Places, Sessions, Change, Drained, Aborts, Handles, ManagerInv,
      Components, Clean, Numbers, OnceInv, Held, Sess, Holds, Under, Exact,
      Out, Fresh, Steady, Single, Bad
<1>16. ASSUME NEW s \in JpegSession, DoneAborting(s)
      PROVE  OnceInv'
  <2>1. /\ \A t \in JpegSession : session_j'[t].encoding = session_j[t].encoding
        /\ \A t \in JpegSession : session_j'[t].cb = session_j[t].cb
        /\ \A t \in JpegSession : session_j'[t].jobId = session_j[t].jobId
        /\ \A t \in JpegSession : session_j'[t].error = session_j[t].error
        /\ \A t \in JpegSession : session_j'[t].active = session_j[t].active
        /\ \A t \in JpegSession \ {s} : session_j'[t].abort = session_j[t].abort
        /\ \A t \in JpegSession \ {s} : omx'[t].state = omx[t].state
        /\ \A t \in JpegSession \ {s} : omx'[t].cmds = omx[t].cmds
        /\ \A t \in JpegSession \ {s} : omx'[t].input = omx[t].input
        /\ \A t \in JpegSession \ {s} : omx'[t].work = omx[t].work
    BY <1>16 DEF DoneAborting, Touches, Feeds, SessionField
  <2> QED BY <1>16, <2>1, JpegAssumption, SMTT(15)
    DEF DoneAborting, CallHasJobLock, JobsOf, ManagerHasJobLock, Unlocked,
      JpegJob, Places, Sessions, Change, Drained, Aborts, Handles, ManagerInv,
      Components, Clean, Numbers, OnceInv, Held, Sess, Holds, Under, Exact,
      Out, Fresh, Steady, Single, Bad
<1>17. ASSUME NEW s \in JpegSession, DoneAwaited(s)
      PROVE  OnceInv'
  <2>1. /\ \A t \in JpegSession : session_j'[t].encoding = session_j[t].encoding
        /\ \A t \in JpegSession : session_j'[t].abort = session_j[t].abort
        /\ \A t \in JpegSession : session_j'[t].cb = session_j[t].cb
        /\ \A t \in JpegSession : session_j'[t].jobId = session_j[t].jobId
        /\ \A t \in JpegSession : session_j'[t].error = session_j[t].error
        /\ \A t \in JpegSession : session_j'[t].active = session_j[t].active
        /\ \A t \in JpegSession \ {s} : omx'[t].state = omx[t].state
        /\ \A t \in JpegSession \ {s} : omx'[t].cmds = omx[t].cmds
        /\ \A t \in JpegSession \ {s} : omx'[t].input = omx[t].input
        /\ \A t \in JpegSession \ {s} : omx'[t].work = omx[t].work
    BY <1>17 DEF DoneAwaited, Touches, Feeds, SessionField
  <2> QED BY <1>17, <2>1, JpegAssumption, SMTT(15)
    DEF DoneAwaited, CallHasJobLock, JobsOf, ManagerHasJobLock, Unlocked,
      JpegJob, Places, Sessions, Change, Drained, Aborts, Handles, ManagerInv,
      Components, Clean, Numbers, OnceInv, Held, Sess, Holds, Under, Exact,
      Out, Fresh, Steady, Single, Bad
<1>18. ASSUME NEW s \in JpegSession, DoneAlone(s)
      PROVE  OnceInv'
  <2>1. /\ session_j' = session_j
        /\ \A t \in JpegSession \ {s} : omx'[t].state = omx[t].state
        /\ \A t \in JpegSession \ {s} : omx'[t].cmds = omx[t].cmds
        /\ \A t \in JpegSession \ {s} : omx'[t].input = omx[t].input
        /\ \A t \in JpegSession \ {s} : omx'[t].work = omx[t].work
    BY <1>18 DEF DoneAlone, Touches, Feeds, SessionField
  <2> QED BY <1>18, <2>1, JpegAssumption, SMTT(15)
    DEF DoneAlone, CallHasJobLock, JobsOf, ManagerHasJobLock, Unlocked, JpegJob,
      Places, Sessions, Change, Drained, Aborts, Handles, ManagerInv,
      Components, Clean, Numbers, OnceInv, Held, Sess, Holds, Under, Exact,
      Out, Fresh, Steady, Single, Bad
<1>19. ASSUME NEW s \in JpegSession, ErrorAbortingWay(s)
      PROVE  OnceInv'
  <2>1. /\ \A t \in JpegSession : session_j'[t].encoding = session_j[t].encoding
        /\ \A t \in JpegSession : session_j'[t].cb = session_j[t].cb
        /\ \A t \in JpegSession : session_j'[t].jobId = session_j[t].jobId
        /\ \A t \in JpegSession : session_j'[t].error = session_j[t].error
        /\ \A t \in JpegSession : session_j'[t].active = session_j[t].active
        /\ \A t \in JpegSession \ {s} : session_j'[t].abort = session_j[t].abort
        /\ \A t \in JpegSession : omx'[t].state = omx[t].state
        /\ \A t \in JpegSession : omx'[t].input = omx[t].input
        /\ \A t \in JpegSession : omx'[t].work = omx[t].work
        /\ \A t \in JpegSession \ {s} : omx'[t].cmds = omx[t].cmds
    BY <1>19 DEF ErrorAbortingWay, Touches, Feeds, SessionField
  <2> QED BY <1>19, <2>1, JpegAssumption, SMTT(15)
    DEF ErrorAbortingWay, CallHasJobLock, JobsOf, ManagerHasJobLock, OmxMayFail,
      Unlocked, JpegJob, Places, Sessions, Change, Drained, Aborts, Handles,
      ManagerInv, Components, Clean, Numbers, OnceInv, Held, Sess, Holds,
      Under, Exact, Out, Fresh, Steady, Single, Bad
<1>20. ASSUME NEW s \in JpegSession, ErrorEncodingWay(s)
      PROVE  OnceInv'
  <2>1. /\ \A t \in JpegSession : session_j'[t].encoding = session_j[t].encoding
        /\ \A t \in JpegSession : session_j'[t].abort = session_j[t].abort
        /\ \A t \in JpegSession : session_j'[t].jobId = session_j[t].jobId
        /\ \A t \in JpegSession : session_j'[t].active = session_j[t].active
        /\ \A t \in JpegSession \ {s} : session_j'[t].cb = session_j[t].cb
        /\ \A t \in JpegSession \ {s} : session_j'[t].error = session_j[t].error
        /\ \A t \in JpegSession : omx'[t].state = omx[t].state
        /\ \A t \in JpegSession : omx'[t].input = omx[t].input
        /\ \A t \in JpegSession : omx'[t].work = omx[t].work
        /\ \A t \in JpegSession \ {s} : omx'[t].cmds = omx[t].cmds
    BY <1>20 DEF ErrorEncodingWay, Touches, Feeds, SessionField
  <2> QED BY <1>20, <2>1, JpegAssumption, SMTT(15)
    DEF ErrorEncodingWay, Answers, CallHasJobLock, JobsOf, ManagerHasJobLock,
      OmxMayFail, Unlocked, JpegJob, Places, Sessions, Change, Drained, Aborts,
      Handles, ManagerInv, Components, Clean, Numbers, OnceInv, Held, Sess,
      Holds, Under, Exact, Out, Fresh, Steady, Single, Bad
<1>21. ASSUME NEW s \in JpegSession, ErrorAbortingWork(s)
      PROVE  OnceInv'
  <2>1. /\ \A t \in JpegSession : session_j'[t].encoding = session_j[t].encoding
        /\ \A t \in JpegSession : session_j'[t].cb = session_j[t].cb
        /\ \A t \in JpegSession : session_j'[t].jobId = session_j[t].jobId
        /\ \A t \in JpegSession : session_j'[t].error = session_j[t].error
        /\ \A t \in JpegSession : session_j'[t].active = session_j[t].active
        /\ \A t \in JpegSession \ {s} : session_j'[t].abort = session_j[t].abort
        /\ \A t \in JpegSession : omx'[t].state = omx[t].state
        /\ \A t \in JpegSession : omx'[t].cmds = omx[t].cmds
        /\ \A t \in JpegSession \ {s} : omx'[t].input = omx[t].input
        /\ \A t \in JpegSession \ {s} : omx'[t].work = omx[t].work
    BY <1>21 DEF ErrorAbortingWork, Touches, Feeds, SessionField
  <2> QED BY <1>21, <2>1, JpegAssumption, SMTT(15)
    DEF ErrorAbortingWork, CallHasJobLock, JobsOf, ManagerHasJobLock, OmxMayFail,
      Unlocked, JpegJob, Places, Sessions, Change, Drained, Aborts, Handles,
      ManagerInv, Components, Clean, Numbers, OnceInv, Held, Sess, Holds,
      Under, Exact, Out, Fresh, Steady, Single, Bad
<1>22. ASSUME NEW s \in JpegSession, ErrorEncodingWork(s)
      PROVE  OnceInv'
  <2>1. /\ \A t \in JpegSession : session_j'[t].encoding = session_j[t].encoding
        /\ \A t \in JpegSession : session_j'[t].abort = session_j[t].abort
        /\ \A t \in JpegSession : session_j'[t].jobId = session_j[t].jobId
        /\ \A t \in JpegSession : session_j'[t].active = session_j[t].active
        /\ \A t \in JpegSession \ {s} : session_j'[t].cb = session_j[t].cb
        /\ \A t \in JpegSession \ {s} : session_j'[t].error = session_j[t].error
        /\ \A t \in JpegSession : omx'[t].state = omx[t].state
        /\ \A t \in JpegSession : omx'[t].cmds = omx[t].cmds
        /\ \A t \in JpegSession \ {s} : omx'[t].input = omx[t].input
        /\ \A t \in JpegSession \ {s} : omx'[t].work = omx[t].work
    BY <1>22 DEF ErrorEncodingWork, Touches, Feeds, SessionField
  <2> QED BY <1>22, <2>1, JpegAssumption, SMTT(15)
    DEF ErrorEncodingWork, Answers, CallHasJobLock, JobsOf, ManagerHasJobLock,
      OmxMayFail, Unlocked, JpegJob, Places, Sessions, Change, Drained, Aborts,
      Handles, ManagerInv, Components, Clean, Numbers, OnceInv, Held, Sess,
      Holds, Under, Exact, Out, Fresh, Steady, Single, Bad
<1>23. ASSUME NEW s \in JpegSession, ErrorElseWork(s)
      PROVE  OnceInv'
  <2>1. /\ \A t \in JpegSession : session_j'[t].encoding = session_j[t].encoding
        /\ \A t \in JpegSession : session_j'[t].abort = session_j[t].abort
        /\ \A t \in JpegSession : session_j'[t].cb = session_j[t].cb
        /\ \A t \in JpegSession : session_j'[t].jobId = session_j[t].jobId
        /\ \A t \in JpegSession : session_j'[t].active = session_j[t].active
        /\ \A t \in JpegSession \ {s} : session_j'[t].error = session_j[t].error
        /\ \A t \in JpegSession : omx'[t].state = omx[t].state
        /\ \A t \in JpegSession : omx'[t].cmds = omx[t].cmds
        /\ \A t \in JpegSession \ {s} : omx'[t].input = omx[t].input
        /\ \A t \in JpegSession \ {s} : omx'[t].work = omx[t].work
    BY <1>23 DEF ErrorElseWork, Touches, Feeds, SessionField
  <2> QED BY <1>23, <2>1, JpegAssumption, SMTT(15)
    DEF ErrorElseWork, CallHasJobLock, JobsOf, ManagerHasJobLock, OmxMayFail,
      Unlocked, JpegJob, Places, Sessions, Change, Drained, Aborts, Handles,
      ManagerInv, Components, Clean, Numbers, OnceInv, Held, Sess, Holds,
      Under, Exact, Out, Fresh, Steady, Single, Bad
<1>24. ASSUME NEW s \in JpegSession, BufferBack(s)
      PROVE  OnceInv'
  <2>1. /\ session_j' = session_j
        /\ \A t \in JpegSession : omx'[t].state = omx[t].state
        /\ \A t \in JpegSession : omx'[t].cmds = omx[t].cmds
        /\ \A t \in JpegSession \ {s} : omx'[t].input = omx[t].input
        /\ \A t \in JpegSession \ {s} : omx'[t].work = omx[t].work
    BY <1>24 DEF BufferBack, Touches, Feeds, SessionField
  <2> QED BY <1>24, <2>1, JpegAssumption, SMTT(15)
    DEF BufferBack, CallHasJobLock, JobsOf, ManagerHasJobLock, Unlocked, JpegJob,
      Places, Sessions, Change, Drained, Aborts, Handles, ManagerInv,
      Components, Clean, Numbers, OnceInv, Held, Sess, Holds, Under, Exact,
      Out, Fresh, Steady, Single, Bad
<1>25. ASSUME NEW s \in JpegSession, Encoded(s)
      PROVE  OnceInv'
  <2>1. /\ \A t \in JpegSession : session_j'[t].encoding = session_j[t].encoding
        /\ \A t \in JpegSession : session_j'[t].abort = session_j[t].abort
        /\ \A t \in JpegSession : session_j'[t].jobId = session_j[t].jobId
        /\ \A t \in JpegSession : session_j'[t].error = session_j[t].error
        /\ \A t \in JpegSession : session_j'[t].active = session_j[t].active
        /\ \A t \in JpegSession \ {s} : session_j'[t].cb = session_j[t].cb
        /\ \A t \in JpegSession : omx'[t].state = omx[t].state
        /\ \A t \in JpegSession : omx'[t].cmds = omx[t].cmds
        /\ \A t \in JpegSession \ {s} : omx'[t].input = omx[t].input
        /\ \A t \in JpegSession \ {s} : omx'[t].work = omx[t].work
    BY <1>25 DEF Encoded, Touches, Feeds, SessionField
  <2> QED BY <1>25, <2>1, JpegAssumption, SMTT(15)
    DEF Encoded, Answers, CallHasJobLock, JobsOf, ManagerHasJobLock, Unlocked,
      JpegJob, Places, Sessions, Change, Drained, Aborts, Handles, ManagerInv,
      Components, Clean, Numbers, OnceInv, Held, Sess, Holds, Under, Exact,
      Out, Fresh, Steady, Single, Bad
<1>26. ASSUME NEW s \in JpegSession, Removes(s)
      PROVE  OnceInv'
  BY <1>26, OnceInv_Removes
<1>27. ASSUME NEW s \in JpegSession, GivesBack(s)
      PROVE  OnceInv'
  <2>1. /\ \A t \in JpegSession : session_j'[t].encoding = session_j[t].encoding
        /\ \A t \in JpegSession : session_j'[t].abort = session_j[t].abort
        /\ \A t \in JpegSession : session_j'[t].jobId = session_j[t].jobId
        /\ \A t \in JpegSession : session_j'[t].error = session_j[t].error
        /\ \A t \in JpegSession : session_j'[t].active = session_j[t].active
        /\ \A t \in JpegSession \ {s} : session_j'[t].cb = session_j[t].cb
        /\ omx' = omx
    BY <1>27 DEF GivesBack, Touches, Feeds, SessionField
  <2> QED BY <1>27, <2>1, JpegAssumption, SMTT(15)
    DEF GivesBack, CallHasJobLock, JobsOf, ManagerHasJobLock, JpegJob, Places,
      Sessions, Change, Drained, Aborts, Handles, ManagerInv, Components,
      Clean, Numbers, OnceInv, Held, Sess, Holds, Under, Exact, Out, Fresh,
      Steady, Single, Bad
<1>28. ASSUME NEW s \in JpegSession, Posts(s)
      PROVE  OnceInv'
  <2>1. /\ \A t \in JpegSession : session_j'[t].encoding = session_j[t].encoding
        /\ \A t \in JpegSession : session_j'[t].abort = session_j[t].abort
        /\ \A t \in JpegSession : session_j'[t].jobId = session_j[t].jobId
        /\ \A t \in JpegSession : session_j'[t].error = session_j[t].error
        /\ \A t \in JpegSession : session_j'[t].active = session_j[t].active
        /\ \A t \in JpegSession \ {s} : session_j'[t].cb = session_j[t].cb
        /\ omx' = omx
    BY <1>28 DEF Posts, Touches, Feeds, SessionField
  <2> QED BY <1>28, <2>1, JpegAssumption, SMTT(15)
    DEF Posts, CallHasJobLock, JobsOf, ManagerHasJobLock, JpegJob, Places,
      Sessions, Change, Drained, Aborts, Handles, ManagerInv, Components,
      Clean, Numbers, OnceInv, Held, Sess, Holds, Under, Exact, Out, Fresh,
      Steady, Single, Bad
<1>29. ASSUME NEW s \in JpegSession, Creates(s)
      PROVE  OnceInv'
  <2>1. /\ \A t \in JpegSession \ {s} : session_j'[t].encoding = session_j[t].encoding
        /\ \A t \in JpegSession \ {s} : session_j'[t].abort = session_j[t].abort
        /\ \A t \in JpegSession \ {s} : session_j'[t].cb = session_j[t].cb
        /\ \A t \in JpegSession \ {s} : session_j'[t].jobId = session_j[t].jobId
        /\ \A t \in JpegSession \ {s} : session_j'[t].error = session_j[t].error
        /\ \A t \in JpegSession \ {s} : session_j'[t].active = session_j[t].active
        /\ \A t \in JpegSession \ {s} : omx'[t].state = omx[t].state
        /\ \A t \in JpegSession \ {s} : omx'[t].cmds = omx[t].cmds
        /\ \A t \in JpegSession \ {s} : omx'[t].input = omx[t].input
        /\ \A t \in JpegSession \ {s} : omx'[t].work = omx[t].work
    BY <1>29 DEF Creates, Touches, Feeds, SessionField
  <2> QED BY <1>29, <2>1, JpegAssumption, SMTT(15)
    DEF Creates, CallHasJobLock, CallIs, IsNew, JobsOf, ManagerHasJobLock,
      JpegJob, Places, Sessions, Change, Drained, Aborts, Handles, ManagerInv,
      Components, Clean, Numbers, OnceInv, Held, Sess, Holds, Under, Exact,
      Out, Fresh, Steady, Single, Bad
<1>30. ASSUME NEW s \in JpegSession, ConfiguresNew(s)
      PROVE  OnceInv'
  <2>1. /\ session_j' = session_j
        /\ omx' = omx
    BY <1>30 DEF ConfiguresNew, Touches, Feeds, SessionField
  <2> QED BY <1>30, <2>1, JpegAssumption, SMTT(15)
    DEF ConfiguresNew, CallHasJobLock, CallIs, ChangeIs, JobsOf,
      ManagerHasJobLock, JpegJob, Places, Sessions, Change, Drained, Aborts,
      Handles, ManagerInv, Components, Clean, Numbers, OnceInv, Held, Sess,
      Holds, Under, Exact, Out, Fresh, Steady, Single, Bad
<1>31. ASSUME NEW s \in JpegSession, Usable(s)
      PROVE  OnceInv'
  <2>1. /\ \A t \in JpegSession : session_j'[t].encoding = session_j[t].encoding
        /\ \A t \in JpegSession : session_j'[t].abort = session_j[t].abort
        /\ \A t \in JpegSession : session_j'[t].cb = session_j[t].cb
        /\ \A t \in JpegSession : session_j'[t].jobId = session_j[t].jobId
        /\ \A t \in JpegSession : session_j'[t].error = session_j[t].error
        /\ \A t \in JpegSession : session_j'[t].active = session_j[t].active
        /\ omx' = omx
    BY <1>31 DEF Usable, Touches, Feeds, SessionField
  <2> QED BY <1>31, <2>1, JpegAssumption, SMTT(15)
    DEF Usable, CallEnds, CallHasJobLock, CallIs, JobsOf, ManagerHasJobLock,
      JpegJob, Places, Sessions, Change, Drained, Aborts, Handles, ManagerInv,
      Components, Clean, Numbers, OnceInv, Held, Sess, Holds, Under, Exact,
      Out, Fresh, Steady, Single, Bad
<1>32. ASSUME NEW s \in JpegSession, Created(s)
      PROVE  OnceInv'
  <2>1. /\ \A t \in JpegSession : session_j'[t].encoding = session_j[t].encoding
        /\ \A t \in JpegSession : session_j'[t].abort = session_j[t].abort
        /\ \A t \in JpegSession : session_j'[t].cb = session_j[t].cb
        /\ \A t \in JpegSession : session_j'[t].jobId = session_j[t].jobId
        /\ \A t \in JpegSession : session_j'[t].error = session_j[t].error
        /\ \A t \in JpegSession : session_j'[t].active = session_j[t].active
        /\ omx' = omx
    BY <1>32 DEF Created, Touches, Feeds, SessionField
  <2> QED BY <1>32, <2>1, JpegAssumption, SMTT(15)
    DEF Created, CallEnds, CallHasJobLock, CallIs, ChangeEnds, ChangeIs, Changed,
      JobsOf, ManagerHasJobLock, JpegJob, Places, Sessions, Change, Drained,
      Aborts, Handles, ManagerInv, Components, Clean, Numbers, OnceInv, Held,
      Sess, Holds, Under, Exact, Out, Fresh, Steady, Single, Bad
<1>33. ASSUME NotCreated
      PROVE  OnceInv'
  <2>1. /\ session_j' = session_j
        /\ omx' = omx
    BY <1>33 DEF NotCreated, Touches, Feeds, SessionField
  <2> QED BY <1>33, <2>1, JpegAssumption, SMTT(15)
    DEF NotCreated, CallEnds, CallHasJobLock, CallIs, ChangeEnds, ChangeIs,
      JobsOf, ManagerHasJobLock, JpegJob, Places, Sessions, Change, Drained,
      Aborts, Handles, ManagerInv, Components, Clean, Numbers, OnceInv, Held,
      Sess, Holds, Under, Exact, Out, Fresh, Steady, Single, Bad
<1>34. ASSUME NEW s \in JpegSession, Enqueues(s)
      PROVE  OnceInv'
  <2>1. /\ session_j' = session_j
        /\ omx' = omx
    BY <1>34 DEF Enqueues, Touches, Feeds, SessionField
  <2> QED BY <1>34, <2>1, JpegAssumption, SMTT(15)
    DEF Enqueues, CallHasJobLock, CallIs, JobsOf, ManagerHasJobLock, JpegJob,
      Places, Sessions, Change, Drained, Aborts, Handles, ManagerInv,
      Components, Clean, Numbers, OnceInv, Held, Sess, Holds, Under, Exact,
      Out, Fresh, Steady, Single, Bad
<1>35. ASSUME PostEnds
      PROVE  OnceInv'
  <2>1. /\ session_j' = session_j
        /\ omx' = omx
    BY <1>35 DEF PostEnds, Touches, Feeds, SessionField
  <2> QED BY <1>35, <2>1, JpegAssumption, SMTT(15)
    DEF PostEnds, CallEnds, CallHasJobLock, CallIs, JobsOf, ManagerHasJobLock,
      JpegJob, Places, Sessions, Change, Drained, Aborts, Handles, ManagerInv,
      Components, Clean, Numbers, OnceInv, Held, Sess, Holds, Under, Exact,
      Out, Fresh, Steady, Single, Bad
<1>36. ASSUME NEW s \in JpegSession, AsksDestroy(s)
      PROVE  OnceInv'
  <2>1. /\ \A t \in JpegSession : session_j'[t].encoding = session_j[t].encoding
        /\ \A t \in JpegSession : session_j'[t].abort = session_j[t].abort
        /\ \A t \in JpegSession : session_j'[t].cb = session_j[t].cb
        /\ \A t \in JpegSession : session_j'[t].jobId = session_j[t].jobId
        /\ \A t \in JpegSession : session_j'[t].error = session_j[t].error
        /\ \A t \in JpegSession : session_j'[t].active = session_j[t].active
        /\ omx' = omx
    BY <1>36 DEF AsksDestroy, Touches, Feeds, SessionField
  <2> QED BY <1>36, <2>1, JpegAssumption, SMTT(15)
    DEF AsksDestroy, CallHasJobLock, CallIs, JobsOf, ManagerHasJobLock, JpegJob,
      Places, Sessions, Change, Drained, Aborts, Handles, ManagerInv,
      Components, Clean, Numbers, OnceInv, Held, Sess, Holds, Under, Exact,
      Out, Fresh, Steady, Single, Bad
<1>37. ASSUME NEW s \in JpegSession, NEW j \in JpegJob, AsksAbort(s, j)
      PROVE  OnceInv'
  <2>1. /\ \A t \in JpegSession : session_j'[t].encoding = session_j[t].encoding
        /\ \A t \in JpegSession : session_j'[t].abort = session_j[t].abort
        /\ \A t \in JpegSession : session_j'[t].cb = session_j[t].cb
        /\ \A t \in JpegSession : session_j'[t].jobId = session_j[t].jobId
        /\ \A t \in JpegSession : session_j'[t].error = session_j[t].error
        /\ \A t \in JpegSession : session_j'[t].active = session_j[t].active
        /\ omx' = omx
    BY <1>37 DEF AsksAbort, Touches, Feeds, SessionField
  <2> QED BY <1>37, <2>1, JpegAssumption, SMTT(15)
    DEF AsksAbort, CallHasJobLock, CallIs, JobsOf, ManagerHasJobLock, JpegJob,
      Places, Sessions, Change, Drained, Aborts, Handles, ManagerInv,
      Components, Clean, Numbers, OnceInv, Held, Sess, Holds, Under, Exact,
      Out, Fresh, Steady, Single, Bad
<1>38. ASSUME NEW s \in JpegSession, TakesOff(s)
      PROVE  OnceInv'
  <2>1. /\ session_j' = session_j
        /\ omx' = omx
    BY <1>38 DEF TakesOff, Touches, Feeds, SessionField
  <2> QED BY <1>38, <2>1, JpegAssumption, SMTT(15)
    DEF TakesOff, CallHasJobLock, CallIs, JobsOf, ManagerHasJobLock, JpegJob,
      Places, Sessions, Change, Drained, Aborts, Handles, ManagerInv,
      Components, Clean, Numbers, OnceInv, Held, Sess, Holds, Under, Exact,
      Out, Fresh, Steady, Single, Bad
<1>39. ASSUME NEW s \in JpegSession, Withdraws(s)
      PROVE  OnceInv'
  <2>1. /\ session_j' = session_j
        /\ omx' = omx
    BY <1>39 DEF Withdraws, Touches, Feeds, SessionField
  <2> QED BY <1>39, <2>1, JpegAssumption, SMTT(15)
    DEF Withdraws, CallEnds, CallHasJobLock, CallIs, JobsOf, ManagerHasJobLock,
      JpegJob, Places, Sessions, Change, Drained, Aborts, Handles, ManagerInv,
      Components, Clean, Numbers, OnceInv, Held, Sess, Holds, Under, Exact,
      Out, Fresh, Steady, Single, Bad
<1>40. ASSUME NEW s \in JpegSession, Forgets(s)
      PROVE  OnceInv'
  <2>1. /\ session_j' = session_j
        /\ omx' = omx
    BY <1>40 DEF Forgets, Touches, Feeds, SessionField
  <2> QED BY <1>40, <2>1, JpegAssumption, SMTT(15)
    DEF Forgets, CallHasJobLock, CallIs, JobsOf, ManagerHasJobLock, JpegJob,
      Places, Sessions, Change, Drained, Aborts, Handles, ManagerInv,
      Components, Clean, Numbers, OnceInv, Held, Sess, Holds, Under, Exact,
      Out, Fresh, Steady, Single, Bad
<1>41. ASSUME NEW s \in JpegSession, HaltsJob(s)
      PROVE  OnceInv'
  <2>1. /\ session_j' = session_j
        /\ omx' = omx
    BY <1>41 DEF HaltsJob, Touches, Feeds, SessionField
  <2> QED BY <1>41, <2>1, JpegAssumption, SMTT(15)
    DEF HaltsJob, CallEnds, CallHasJobLock, CallIs, JobsOf, ManagerHasJobLock,
      Unlocked, JpegJob, Places, Sessions, Change, Drained, Aborts, Handles,
      ManagerInv, Components, Clean, Numbers, OnceInv, Held, Sess, Holds,
      Under, Exact, Out, Fresh, Steady, Single, Bad
<1>42. ASSUME NEW s \in JpegSession, MarksJob(s)
      PROVE  OnceInv'
  <2>1. /\ \A t \in JpegSession : session_j'[t].encoding = session_j[t].encoding
        /\ \A t \in JpegSession : session_j'[t].cb = session_j[t].cb
        /\ \A t \in JpegSession : session_j'[t].jobId = session_j[t].jobId
        /\ \A t \in JpegSession : session_j'[t].error = session_j[t].error
        /\ \A t \in JpegSession : session_j'[t].active = session_j[t].active
        /\ \A t \in JpegSession \ {s} : session_j'[t].abort = session_j[t].abort
        /\ omx' = omx
    BY <1>42 DEF MarksJob, Touches, Feeds, SessionField
  <2> QED BY <1>42, <2>1, JpegAssumption, SMTT(15)
    DEF MarksJob, CallEnds, CallHasJobLock, CallIs, JobsOf, ManagerHasJobLock,
      Unlocked, JpegJob, Places, Sessions, Change, Drained, Aborts, Handles,
      ManagerInv, Components, Clean, Numbers, OnceInv, Held, Sess, Holds,
      Under, Exact, Out, Fresh, Steady, Single, Bad
<1>43. ASSUME NEW s \in JpegSession, HaltsSession(s)
      PROVE  OnceInv'
  <2>1. /\ session_j' = session_j
        /\ omx' = omx
    BY <1>43 DEF HaltsSession, Touches, Feeds, SessionField
  <2> QED BY <1>43, <2>1, JpegAssumption, SMTT(15)
    DEF HaltsSession, CallHasJobLock, CallIs, ChangeIs, JobsOf,
      ManagerHasJobLock, Unlocked, JpegJob, Places, Sessions, Change, Drained,
      Aborts, Handles, ManagerInv, Components, Clean, Numbers, OnceInv, Held,
      Sess, Holds, Under, Exact, Out, Fresh, Steady, Single, Bad
<1>44. ASSUME NEW s \in JpegSession, MarksSession(s)
      PROVE  OnceInv'
  <2>1. /\ \A t \in JpegSession : session_j'[t].encoding = session_j[t].encoding
        /\ \A t \in JpegSession : session_j'[t].cb = session_j[t].cb
        /\ \A t \in JpegSession : session_j'[t].jobId = session_j[t].jobId
        /\ \A t \in JpegSession : session_j'[t].error = session_j[t].error
        /\ \A t \in JpegSession : session_j'[t].active = session_j[t].active
        /\ \A t \in JpegSession \ {s} : session_j'[t].abort = session_j[t].abort
        /\ omx' = omx
    BY <1>44 DEF MarksSession, Touches, Feeds, SessionField
  <2> QED BY <1>44, <2>1, JpegAssumption, SMTT(15)
    DEF MarksSession, CallHasJobLock, CallIs, ChangeIs, JobsOf,
      ManagerHasJobLock, Unlocked, JpegJob, Places, Sessions, Change, Drained,
      Aborts, Handles, ManagerInv, Components, Clean, Numbers, OnceInv, Held,
      Sess, Holds, Under, Exact, Out, Fresh, Steady, Single, Bad
<1>45. ASSUME NEW s \in JpegSession, SendsIdle(s)
      PROVE  OnceInv'
  <2>1. /\ \A t \in JpegSession : session_j'[t].encoding = session_j[t].encoding
        /\ \A t \in JpegSession : session_j'[t].cb = session_j[t].cb
        /\ \A t \in JpegSession : session_j'[t].jobId = session_j[t].jobId
        /\ \A t \in JpegSession : session_j'[t].error = session_j[t].error
        /\ \A t \in JpegSession : session_j'[t].active = session_j[t].active
        /\ \A t \in JpegSession \ {s} : session_j'[t].abort = session_j[t].abort
        /\ \A t \in JpegSession : omx'[t].state = omx[t].state
        /\ \A t \in JpegSession : omx'[t].input = omx[t].input
        /\ \A t \in JpegSession : omx'[t].work = omx[t].work
        /\ \A t \in JpegSession \ {s} : omx'[t].cmds = omx[t].cmds
    BY <1>45 DEF SendsIdle, Touches, Feeds, SessionField
  <2> QED BY <1>45, <2>1, JpegAssumption, SMTT(15)
    DEF SendsIdle, CallHasJobLock, CallIs, JobsOf, ManagerHasJobLock, Unlocked,
      JpegJob, Places, Sessions, Change, Drained, Aborts, Handles, ManagerInv,
      Components, Clean, Numbers, OnceInv, Held, Sess, Holds, Under, Exact,
      Out, Fresh, Steady, Single, Bad
<1>46. ASSUME NEW s \in JpegSession, Frees(s)
      PROVE  OnceInv'
  <2>1. /\ \A t \in JpegSession \ {s} : session_j'[t].encoding = session_j[t].encoding
        /\ \A t \in JpegSession \ {s} : session_j'[t].abort = session_j[t].abort
        /\ \A t \in JpegSession \ {s} : session_j'[t].cb = session_j[t].cb
        /\ \A t \in JpegSession \ {s} : session_j'[t].jobId = session_j[t].jobId
        /\ \A t \in JpegSession \ {s} : session_j'[t].error = session_j[t].error
        /\ \A t \in JpegSession \ {s} : session_j'[t].active = session_j[t].active
        /\ \A t \in JpegSession \ {s} : omx'[t].state = omx[t].state
        /\ \A t \in JpegSession \ {s} : omx'[t].cmds = omx[t].cmds
        /\ \A t \in JpegSession \ {s} : omx'[t].input = omx[t].input
        /\ \A t \in JpegSession \ {s} : omx'[t].work = omx[t].work
    BY <1>46 DEF Frees, Touches, Feeds, SessionField
  <2> QED BY <1>46, <2>1, JpegAssumption, SMTT(15)
    DEF Frees, CallHasJobLock, CallIs, ChangeEnds, ChangeIs, Changed, IsNew,
      JobsOf, ManagerHasJobLock, Unlocked, JpegJob, Places, Sessions, Change,
      Drained, Aborts, Handles, ManagerInv, Components, Clean, Numbers,
      OnceInv, Held, Sess, Holds, Under, Exact, Out, Fresh, Steady, Single,
      Bad
<1> QED BY <1>1, <1>2, <1>3, <1>4, <1>5, <1>6, <1>7, <1>8, <1>9, <1>10, <1>11, <1>12,
  <1>13, <1>14, <1>15, <1>16, <1>17, <1>18, <1>19, <1>20, <1>21, <1>22, <1>23,
  <1>24, <1>25, <1>26, <1>27, <1>28, <1>29, <1>30, <1>31, <1>32, <1>33, <1>34,
  <1>35, <1>36, <1>37, <1>38, <1>39, <1>40, <1>41, <1>42, <1>43, <1>44, <1>45,
  <1>46 DEF JpegStep
-----------------------------------------------------------------------------
(* The inductive invariant holds initially.                                 *)
LEMMA JInvInit ==
  ASSUME JpegInit
  PROVE  JInv
<1> USE JpegAssumption
<1>1. /\ jobs = << >> /\ job_queue = {} /\ ongoing_job_q = {} /\ job_sem = 0
      /\ p_session_inprogress = NoSession
      /\ manager.at = "wait" /\ manager.job = 0
      /\ call.at = "none" /\ call.sess = NoSession /\ call.job = 0
      /\ change.on = NoSession /\ change.way = "up" /\ change.rest = << >>
      /\ change.at = "next" /\ withdrawn = {}
      /\ \A j \in JpegJob : answered[j] = 0
      /\ spent.creates = 0 /\ spent.errors = 0
  BY DEF JpegInit, NoChange
<1>2. \A t \in JpegSession :
        /\ ~session_j[t].active /\ ~session_j[t].usable /\ ~session_j[t].config
        /\ ~session_j[t].encoding /\ ~session_j[t].error /\ ~session_j[t].pending
        /\ session_j[t].abort = "none" /\ session_j[t].jobId = 0
        /\ session_j[t].handles = 0 /\ ~session_j[t].woken
        /\ session_j[t].cb = "idle"
        /\ omx[t].state = "none" /\ omx[t].cmds = << >> /\ omx[t].input = 0
        /\ omx[t].work = 0
  BY DEF JpegInit, NewSession, NoComponent
<1>3. DOMAIN jobs = {}
  BY <1>1
<1>4. ~Held
  BY <1>1 DEF Held
<1>5. Places /\ Sessions /\ Change
  BY <1>1, <1>2, <1>3, <1>4 DEF Places, Sessions, Change, ManagerHasJobLock,
       CallHasJobLock
<1>6. Drained /\ Aborts /\ Handles
  BY <1>1, <1>2, <1>4 DEF Drained, Aborts, Handles, Holds
<1>7. ManagerInv /\ Ongoing /\ Clean
  BY <1>1, <1>2, <1>4 DEF ManagerInv, Under, Ongoing, Clean, Holds
<1>8. Components
  BY <1>1, <1>2 DEF Components, Component, Steady
<1>9. Numbers /\ OnceInv
  BY <1>1, <1>2, <1>3, <1>4 DEF Numbers, OnceInv, Holds
<1>10. JpegTypeOK
  <2>1. JobsOK /\ QueuesOK /\ InProgressOK
    BY DEF JpegInit, JobsOK, QueuesOK, InProgressOK
  <2>2. ManagerOK /\ CallOK
    BY DEF JpegInit, ManagerOK, CallOK
  <2>3. ChangeOK
    BY ChangeTypes DEF JpegInit, ChangeOK
  <2>4. SessionsOK /\ OmxOK
    BY New DEF JpegInit, SessionsOK, OmxOK
  <2>5. AnsweredOK /\ SpentOK
    BY DEF JpegInit, AnsweredOK, SpentOK
  <2> QED BY <2>1, <2>2, <2>3, <2>4, <2>5, PartsOfType DEF TypeParts
<1> QED BY <1>5, <1>6, <1>7, <1>8, <1>9, <1>10 DEF JInv, ConfInv

(* Every step preserves the inductive invariant.                            *)
LEMMA JInvStep ==
  ASSUME JInv, JpegNext
  PROVE  JInv'
<1>1. /\ JpegTypeOK /\ Places /\ Sessions /\ Change /\ Drained /\ Aborts /\ Handles
      /\ ManagerInv /\ Components /\ Ongoing /\ Clean /\ Numbers /\ OnceInv
  BY DEF JInv, ConfInv
<1>2. JpegStep
  BY <1>1, Elementary
<1>3. JpegTypeOK'
  BY <1>1, TypeKept
<1>4. Places' /\ Sessions' /\ Change' /\ Drained' /\ Aborts' /\ Handles'
  BY <1>1, <1>2, PlacesKept, SessionsKept, ChangeKept, DrainedKept, AbortsKept,
     HandlesKept
<1>5. ManagerInv' /\ Components' /\ Ongoing'
  BY <1>1, <1>2, ManagerInvKept, ComponentsKept, OngoingKept
<1>6. Clean' /\ Numbers' /\ OnceInv'
  BY <1>1, <1>2, CleanKept, NumbersKept, OnceInvKept
<1> QED BY <1>3, <1>4, <1>5, <1>6 DEF JInv, ConfInv

(* So does a step that changes nothing.                                     *)
LEMMA JInvStutter ==
  ASSUME JInv, UNCHANGED jpegVars
  PROVE  JInv'
<1>1. JpegTypeOK'
  BY DEF JInv, ConfInv, jpegVars, JpegTypeOK
<1>2. Places'
  BY DEF JInv, ConfInv, jpegVars, Places, Held, Sess, Holds, ManagerHasJobLock,
         CallHasJobLock, JobsOf
<1>3. Sessions'
  BY DEF JInv, ConfInv, jpegVars, Sessions
<1>4. Change'
  BY DEF JInv, ConfInv, jpegVars, Change, Sess
<1>5. Drained'
  BY DEF JInv, ConfInv, jpegVars, Drained, Held, Sess, Holds
<1>6. Aborts' /\ Handles' /\ ManagerInv' /\ Ongoing' /\ Clean' /\ Numbers' /\ OnceInv'
  BY DEF JInv, ConfInv, jpegVars, Aborts, Handles, ManagerInv, Ongoing, Clean,
         Numbers, OnceInv, Held, Sess, Holds, Exact, Out, Under, Fresh, JobsOf
<1>7. Components'
  BY DEF JInv, ConfInv, jpegVars, Components, Component, Changing, Told, Over,
         Before, Single, Steady, Bad
<1> QED BY <1>1, <1>2, <1>3, <1>4, <1>5, <1>6, <1>7 DEF JInv, ConfInv

(* The inductive invariant holds in every behaviour.                        *)
LEMMA JInvAlways == JpegSpec => []JInv
<1>1. JpegInit => JInv
  BY JInvInit
<1>2. JInv /\ [JpegNext]_jpegVars => JInv'
  BY JInvStep, JInvStutter
<1> QED BY <1>1, <1>2, PTL DEF JpegSpec

(* The inductive invariant implies OneConfigured.                           *)
LEMMA ConfiguredAlone ==
  ASSUME JInv
  PROVE  OneConfigured
<1>1. SUFFICES ASSUME manager.at = "submit", NEW s \in JpegSession
               PROVE  \/ s = Sess /\ omx[s].state = "Executing"
                      \/ s # Sess /\ omx[s].state \in {"none", "Loaded"}
                      \/ Bad(s)
  <2>1. \A s \in JpegSession : Bad(s) =>
          spent.errors > 0 /\ (session_j[s].error \/ session_j[s].abort = "done")
    BY DEF JInv, ConfInv, Sessions, Bad
  <2> QED BY <2>1 DEF OneConfigured, Sess
<1>2. /\ Held /\ Sess \in JpegSession /\ session_j[Sess].active
      /\ p_session_inprogress = Sess /\ change.on # s
  BY <1>1, JpegAssumption
  DEF JInv, ConfInv, Places, ManagerHasJobLock, CallHasJobLock, ManagerInv, Sessions,
     Change
<1>3. SUFFICES ASSUME ~Bad(s), Steady(s)
               PROVE  \/ s = Sess /\ omx[s].state = "Executing"
                      \/ s # Sess /\ omx[s].state \in {"none", "Loaded"}
  BY <1>2 DEF JInv, ConfInv, Components, Component
<1>4. session_j[s].config <=> s = Sess
  BY <1>2 DEF JInv, ConfInv, Sessions
<1>5. session_j[Sess].abort = "none"
  BY <1>1, <1>2 DEF JInv, ConfInv, Aborts, Holds
<1> QED BY <1>2, <1>3, <1>4, <1>5 DEF Steady

(* With one error at most, a step answers only a job neither answered nor   *)
(* withdrawn.                                                               *)
LEMMA OnlyFresh ==
  ASSUME MaxOmxErrors <= 1, JInv, JpegStep, NEW j \in JpegJob,
            answered'[j] # answered[j]
  PROVE  Fresh(j)
<1>1. /\ JpegTypeOK /\ Places /\ Sessions /\ Change /\ Drained /\ Aborts /\ Handles
      /\ ManagerInv /\ Components /\ Ongoing /\ Clean /\ Numbers /\ OnceInv
  BY DEF JInv, ConfInv
<1>2. answered \in [JpegJob -> Nat]
  BY <1>1 DEF JpegTypeOK
<1>3. \A k : Answers(k) => j = k
  BY <1>2 DEF Answers
<1>4. \A t \in JpegSession : Exact(t)
  BY DEF Exact
<1>5. ASSUME NEW s \in JpegSession, Fails(s)
      PROVE  Fresh(j)
  <2>1. j = manager.job /\ Holds(s) /\ manager.at = "fail"
    BY <1>1, <1>3, <1>5 DEF Fails, Places, ManagerHasJobLock, Held, Sess, Holds
  <2> QED BY <1>1, <2>1 DEF OnceInv, Fresh
<1>6. ASSUME NEW s \in JpegSession, ErrorEncodingWay(s)
      PROVE  FALSE
  <2>1. change.on = s /\ change.way = "up" /\ session_j[s].encoding
    BY <1>6 DEF ErrorEncodingWay
  <2>2. CASE manager.at = "configuring"
    BY <1>1, <1>4, <2>1, <2>2 DEF Change, ManagerInv, Under, Holds, Places,
         ManagerHasJobLock
  <2>3. CASE call.at = "configuring"
    BY <1>1, <2>1, <2>3 DEF Change, Drained
  <2> QED BY <1>1, <2>1, <2>2, <2>3, JpegAssumption DEF Change
<1>7. ASSUME NEW s \in JpegSession, ErrorEncodingWork(s)
      PROVE  Fresh(j)
  <2>1. /\ j = session_j[s].jobId /\ omx[s].input # 0 /\ session_j[s].encoding
        /\ session_j[s].abort # "init" /\ spent.errors < MaxOmxErrors
    BY <1>3, <1>7 DEF ErrorEncodingWork, OmxMayFail
  <2>2. spent.errors = 0
    BY <1>1, <2>1, JpegAssumption DEF Sessions
  <2>3. session_j[s].cb = "idle" /\ session_j[s].abort = "none"
    BY <1>1, <2>1, <2>2, SessionTypes DEF Clean
  <2> QED BY <1>1, <2>1, <2>3 DEF OnceInv
<1>8. ASSUME NEW s \in JpegSession, Encoded(s)
      PROVE  Fresh(j)
  <2>1. j = session_j[s].jobId /\ omx[s].work # 0 /\ session_j[s].abort = "none"
    BY <1>3, <1>8 DEF Encoded
  <2>2. session_j[s].encoding /\ session_j[s].cb = "idle" /\ omx[s].input # 0
    BY <1>1, <1>4, <2>1 DEF ManagerInv, OnceInv
  <2> QED BY <1>1, <2>1, <2>2 DEF OnceInv
<1>9. ASSUME Moves \/ CannotConfigure \/ Refused \/ NotCreated \/ PostEnds
      PROVE  answered' = answered
  BY <1>9 DEF Moves, CannotConfigure, Refused, NotCreated, PostEnds
<1>10. ASSUME NEW s \in JpegSession,
             Sends(s) \/ Skips(s) \/ Overcome(s) \/ Breaks(s) \/ Awaits(s) \/
             Wakes(s)
      PROVE  answered' = answered
  BY <1>10 DEF Sends, Skips, Overcome, Breaks, Awaits, Wakes
<1>11. ASSUME NEW s \in JpegSession,
             FindsConfigured(s) \/ FindsOther(s) \/ FindsNone(s) \/ Cleared(s) \/
             ConfiguredForJob(s) \/ Starts(s) \/ NotReady(s)
      PROVE  answered' = answered
  BY <1>11 DEF FindsConfigured, FindsOther, FindsNone, Cleared, ConfiguredForJob,
     Starts, NotReady
<1>12. ASSUME NEW s \in JpegSession,
             GetsInput(s) \/ GetsOutput(s) \/ DoneAborting(s) \/ DoneAwaited(s) \/
             DoneAlone(s)
      PROVE  answered' = answered
  BY <1>12 DEF GetsInput, GetsOutput, DoneAborting, DoneAwaited, DoneAlone
<1>13. ASSUME NEW s \in JpegSession,
             ErrorAbortingWay(s) \/ ErrorElseWay(s) \/ ErrorAbortingWork(s) \/
             ErrorElseWork(s)
      PROVE  answered' = answered
  BY <1>13 DEF ErrorAbortingWay, ErrorElseWay, ErrorAbortingWork, ErrorElseWork
<1>14. ASSUME NEW s \in JpegSession,
             BufferBack(s) \/ Removes(s) \/ GivesBack(s) \/ Posts(s) \/
             Creates(s) \/ ConfiguresNew(s) \/ Usable(s)
      PROVE  answered' = answered
  BY <1>14 DEF BufferBack, Removes, GivesBack, Posts, Creates, ConfiguresNew,
     Usable
<1>15. ASSUME NEW s \in JpegSession,
             Created(s) \/ Enqueues(s) \/ AsksDestroy(s) \/ TakesOff(s) \/
             Withdraws(s) \/ Forgets(s) \/ HaltsJob(s) \/ MarksJob(s)
      PROVE  answered' = answered
  BY <1>15 DEF Created, Enqueues, AsksDestroy, TakesOff, Withdraws, Forgets,
     HaltsJob, MarksJob
<1>16. ASSUME NEW s \in JpegSession,
             HaltsSession(s) \/ MarksSession(s) \/ SendsIdle(s) \/ Frees(s)
      PROVE  answered' = answered
  BY <1>16 DEF HaltsSession, MarksSession, SendsIdle, Frees
<1>17. ASSUME NEW s \in JpegSession, NEW k \in JpegJob, Takes(s, k) \/ AsksAbort(s, k)
      PROVE  answered' = answered
  BY <1>17 DEF Takes, AsksAbort
<1> QED BY <1>5, <1>6, <1>7, <1>8, <1>9, <1>10, <1>11, <1>12, <1>13, <1>14, <1>15,
     <1>16, <1>17 DEF JpegStep

-----------------------------------------------------------------------------
(* The variables keep their types: the numbers a job, a session and a call  *)
(* carry are of jobs there are, whatever is created, aborted, destroyed or  *)
(* refused.                                                                *)
THEOREM JpegTypeCorrect == JpegSpec => []JpegTypeOK
<1>1. JInv => JpegTypeOK
  BY DEF JInv
<1> QED BY <1>1, JInvAlways, PTL

(* The manager hands a job to a component that executes, and no other       *)
(* component is configured then, but for one that reported an error or      *)
(* whose abort an error ended: for any number of sessions, jobs and errors. *)
THEOREM JpegOneConfigured == JpegSpec => []OneConfigured
<1>1. JInv => OneConfigured
  BY ConfiguredAlone
<1> QED BY <1>1, JInvAlways, PTL

(* With one error at most, jpeg_cb is called once at most for a job, and    *)
(* not once its abort or the destruction of its session has returned: for   *)
(* any number of sessions and jobs.                                         *)
THEOREM JpegAnsweredOnce ==
  ASSUME MaxOmxErrors <= 1
  PROVE  JpegSpec => JobAnsweredOnce
<1>1. JInv /\ [JpegNext]_jpegVars =>
        [\A j \in JpegJob : answered'[j] # answered[j] =>
           answered[j] = 0 /\ j \notin withdrawn]_jpegVars
  <2>1. ASSUME JInv, JpegNext, NEW j \in JpegJob, answered'[j] # answered[j]
        PROVE  answered[j] = 0 /\ j \notin withdrawn
    <3>1. JpegStep
      BY <2>1, Elementary DEF JInv, ConfInv
    <3> QED BY <2>1, <3>1, OnlyFresh DEF Fresh
  <2> QED BY <2>1
<1> QED BY <1>1, JInvAlways, PTL DEF JpegSpec, JobAnsweredOnce
=============================================================================
