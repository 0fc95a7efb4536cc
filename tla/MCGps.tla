------------------------------- MODULE MCGps -------------------------------
(***************************************************************************)
(* Small instances of four parts of the GPS stack in one run: five data of  *)
(* three ranks for the heap, so that ties occur at every depth; a pool of   *)
(* three elements, freed and reused, with two data for the list; three      *)
(* tracking sessions of two clients; and a message task with three          *)
(* messages.  They share nothing, so it is enough that one is used while    *)
(* the others are as they were made.                                       *)
(***************************************************************************)
EXTENDS LocHeap, LinkedList, GnssTracking, MsgTask

CONSTANTS d1, d2, a, b, m1, m2, m3

MCRank == [d \in Rankable |-> d \div 2]

MCOwner == [s \in Session |-> IF s < 3 THEN a ELSE b]

Opt(i, p, d) == [interval |-> i, power |-> p, distance |-> d]

(* The fastest session is not the one that asks for most power. *)
MCOptions ==
  {Opt(1, 2, FALSE), Opt(2, 1, FALSE), Opt(2, 2, TRUE)}

HeapIsNew == tree = Nil /\ returned = {}

ListIsNew == data_ptr = [e \in Elem |-> NULL]

GnssIsNew == budget.commands = 0 /\ ~modem.up

TaskIsNew == worker = "rcv" /\ Sent = {} /\ stopper = "idle"

GpsInit == HeapInit /\ ListInit /\ GnssInit /\ Init

(* Four commands when nothing fails, three with a refused call or a reset. *)
GpsNext ==
  \/ /\ ListIsNew /\ GnssIsNew /\ TaskIsNew
     /\ HeapNext /\ UNCHANGED <<listVars, gnssVars, vars>>
  \/ /\ HeapIsNew /\ GnssIsNew /\ TaskIsNew
     /\ ListNext /\ UNCHANGED <<heapVars, gnssVars, vars>>
  \/ /\ HeapIsNew /\ ListIsNew /\ TaskIsNew
     /\ GnssNext /\ UNCHANGED <<heapVars, listVars, vars>>
     /\ budget'.commands = MaxCommands => budget'.fails + budget'.resets = 0
  \/ /\ HeapIsNew /\ ListIsNew /\ GnssIsNew
     /\ Next /\ UNCHANGED <<heapVars, listVars, gnssVars>>

(* The fairness is that of MsgTask, while it is the part in use. *)
TaskInUse(A) == HeapIsNew /\ ListIsNew /\ GnssIsNew /\ A

GpsSpec ==
  /\ GpsInit /\ [][GpsNext]_<<heapVars, listVars, gnssVars, vars>>
  /\ WF_vars(TaskInUse(Worker))
  /\ WF_vars(TaskInUse(StopInterrupt \/ StopRelease))
  /\ \A m \in Message : WF_vars(TaskInUse(MsgQSnd(m)))
=============================================================================
