----------------------------- MODULE MCAgpsBoth -----------------------------
(***************************************************************************)
(* The AGPS connection over libloc_net_iface, and a second adapter over the *)
(* native handler, in one run.  A build has one of the two; they share      *)
(* nothing, so it is enough that one is used while the other is new.        *)
(***************************************************************************)
EXTENDS MCAgps

VARIABLES
  n_state, n_subscribers, n_inactive, n_msgs, n_connected, n_framework,
  n_lookups, n_up, n_modem, n_ssr

(* The native handler answers for the internet connection, in the call, and *)
(* there is no WDS to ask.  Nothing in the repository reports a restart of  *)
(* the modem to the manager.                                               *)
N == INSTANCE Agps WITH
  NifPresent <- {"internet"}, Native <- TRUE, Wds <- FALSE, MaxMsgs <- 3, MaxSSR <- 0,
  state <- n_state, subscribers <- n_subscribers, inactive <- n_inactive,
  msgs <- n_msgs, connected <- n_connected, framework <- n_framework,
  lookups <- n_lookups, up <- n_up, modem <- n_modem, ssr <- n_ssr

n_vars ==
  <<n_state, n_subscribers, n_inactive, n_msgs, n_connected, n_framework,
    n_lookups, n_up, n_modem, n_ssr>>

BothInit == Init /\ N!Init

BothNext ==
  \/ N!Init /\ Next /\ UNCHANGED n_vars
  \/ Init /\ N!Next /\ UNCHANGED vars

(* What is fair of an adapter is disabled while the adapter is new. *)
BothSpec ==
  /\ BothInit /\ [][BothNext]_<<vars, n_vars>>
  /\ Fairness /\ N!Fairness

(* What Agps promises of requests, for the adapter over the native handler, *)
(* which answers in the call (see Agps).                                   *)
NativeRequestAnswered == N!RequestAnswered
=============================================================================
