------------------------------ MODULE MCLoops ------------------------------
(***************************************************************************)
(* Two loops that timers, notifications and failures drive; each behaviour *)
(* is one of                                                               *)
(*                                                                         *)
(*   "debouncer"  the worker of the SDN's recompute and two threads that   *)
(*                ask for one (Debouncer);                                 *)
(*   "epochs"     the rekey loop of a PQC link and the responder at its    *)
(*                other end, with one restart or disconnection             *)
(*                (LinkEpochs).                                            *)
(*                                                                         *)
(* The other module stays in its (one) initial state.                      *)
(***************************************************************************)
EXTENDS Debouncer, LinkEpochs

VARIABLE which

MCInit ==
    /\ which \in {"debouncer", "epochs"} /\ DebouncerInit /\ Init
    /\ which = "debouncer" \/ timing = CHOOSE t \in Timing : TRUE

MCNext ==
    /\ UNCHANGED which
    /\ \/ which = "debouncer" /\ DebouncerNext /\ UNCHANGED vars
       \/ which = "epochs" /\ Next /\ UNCHANGED debouncerVars
       \/ which = "epochs" /\ UNCHANGED <<debouncerVars, vars>>  \* only epochs run out

\* Time passes, and the tasks and threads of the controller are scheduled; nobody has to
\* call request.  tokio::select! takes a ready branch at random, so an expired deadline
\* is not passed over for ever.
DebouncerFairness ==
    /\ WF_debouncerVars(which = "debouncer" /\ Tick)
    /\ WF_debouncerVars(which = "debouncer" /\ WorkerStep)
    /\ SF_debouncerVars(which = "debouncer" /\ WorkerDeadline)
    /\ \A c \in Caller : /\ WF_debouncerVars(which = "debouncer" /\ CallStep(c))
                         /\ WF_debouncerVars(which = "debouncer" /\ RunnerStep(c))

\* Both ends handle what arrives, the timers of the loop tick, and each end keeps having
\* keys to make; disconnections and restarts need not happen.
EpochsFairness ==
    /\ WF_vars(which = "epochs" /\ HandleInit)
    /\ WF_vars(which = "epochs" /\ (HandleResp \/ HandleResyncRequest))
    /\ WF_vars(which = "epochs" /\ (Establish \/ Established \/ WorkDone))
    /\ WF_vars(which = "epochs" /\ ResendInit) /\ WF_vars(which = "epochs" /\ Retry)
    /\ WF_vars(which = "epochs" /\ Reconnected)
    /\ WF_vars(which = "epochs" /\ ResyncRequested)
    /\ \A x \in End : /\ SF_vars(which = "epochs" /\ EncKeys(x))
                      /\ WF_vars(which = "epochs" /\ Derived(x))
                      /\ WF_vars(which = "epochs" /\ AwaitTimesOut(x))
                      /\ WF_vars(which = "epochs" /\ IntervalElapses(x))

MCSpec ==
    /\ MCInit /\ [][MCNext]_<<which, debouncerVars, vars>>
    /\ DebouncerFairness /\ EpochsFairness

-----------------------------------------------------------------------------
\* However the windows of a PQC link came apart, its ends find each other again, by the
\* boot loop, a reconnection or a resync, unless an end uses an epoch below the other's
\* floor or the epoch numbers are spent (pqc_handshake.rs, start_initiator).
HealsOrGivesUp == []<>(which = "epochs" => HealedOrGaveUp)
=============================================================================
