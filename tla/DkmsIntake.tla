----------------------------- MODULE DkmsIntake -----------------------------
(***************************************************************************)
(* How requests enter a DKMS and how an operator drains it                 *)
(* (dkms/src/etsi_http/mtls.rs, admission_layer.rs, admission.rs,          *)
(* grpc_server.rs drain): bounded connections whose handshake has a        *)
(* deadline, a gate that is read, a count of requests inside, and Drain    *)
(* calls that close the gate, wait for the count to reach zero or for      *)
(* their grace to end, and wipe the keys.                                  *)
(*                                                                         *)
(* The gate and the count are two atomics: a request reads one and then    *)
(* raises the other.  What a request does is one insertion in the pending  *)
(* store (SessionKeys has the rest).                                       *)
(***************************************************************************)
EXTENDS Naturals, FiniteSets

CONSTANTS Conn,        \* client connections
          MaxConns,    \* permits of the listener
          Drainer,     \* Drain calls
          MaxRequests  \* bound: requests of a connection

VARIABLES
    conn,       \* Conn -> "out", "shake", "open"
    req,        \* Conn -> where its request is
    asked,      \* Conn -> requests made so far
    late,       \* history: Conn -> the drainers done waiting when it was counted
    accepting,  \* Admission.accepting
    inflight,   \* Admission.inflight
    drain,      \* Drainer -> where its call is
    woken,      \* drainers whose Notified was woken
    entries     \* pending store: what the requests left, with their late
intakeVars == <<conn, req, asked, late, accepting, inflight, drain, woken, entries>>
connVars == <<conn, asked>>
drainVars == <<accepting, drain, entries>>

Init ==
    /\ conn = [c \in Conn |-> "out"] /\ req = [c \in Conn |-> "none"]
    /\ asked = [c \in Conn |-> 0] /\ late = [c \in Conn |-> {}]
    /\ accepting = TRUE /\ inflight = 0
    /\ drain = [d \in Drainer |-> "no"] /\ woken = {} /\ entries = {}

-----------------------------------------------------------------------------
(* serve_mtls. *)

Permits == MaxConns - Cardinality({c \in Conn : conn[c] # "out"})

\* Without a permit the connection is dropped.
Accept(c) ==
    /\ conn[c] = "out" /\ Permits > 0 /\ asked[c] < MaxRequests
    /\ conn' = [conn EXCEPT ![c] = "shake"]
    /\ UNCHANGED <<req, asked, late, inflight, woken, drainVars>>

\* The handshake ends, or fails, or takes too long.
Handshake(c) ==
    /\ conn[c] = "shake"
    /\ \E to \in {"open", "out"} : conn' = [conn EXCEPT ![c] = to]
    /\ UNCHANGED <<req, asked, late, inflight, woken, drainVars>>

-----------------------------------------------------------------------------
(* AdmissionService::call. *)

\* The gate is read; a closed one is a 503.
Call(c) ==
    /\ conn[c] = "open" /\ req[c] = "none" /\ asked[c] < MaxRequests
    /\ asked' = [asked EXCEPT ![c] = @ + 1]
    /\ req' = IF accepting THEN [req EXCEPT ![c] = "checked"] ELSE req
    /\ UNCHANGED <<conn, late, inflight, woken, drainVars>>

\* acquire: counted, and the guard is the request's from here on.
Acquire(c) ==
    /\ req[c] = "checked"
    /\ req' = [req EXCEPT ![c] = "in"]
    /\ inflight' = inflight + 1
    /\ late' = [late EXCEPT ![c] = {d \in Drainer : drain[d] \in {"wipe", "clean"}}]
    /\ UNCHANGED <<connVars, woken, drainVars>>

Handle(c) ==
    /\ req[c] = "in"
    /\ req' = [req EXCEPT ![c] = "handled"]
    /\ entries' = entries \cup {[by |-> c, late |-> late[c]]}
    /\ UNCHANGED <<connVars, late, inflight, woken, accepting, drain>>

Waiting == {d \in Drainer : drain[d] \in {"subscribed", "waiting"}}

\* notify_waiters: every Notified that exists, polled or not.
Notified == Waiting

\* Drop of the guard: the last one out wakes the drainers.
Release(c) ==
    /\ inflight' = inflight - 1
    /\ woken' = IF inflight = 1 /\ Waiting # {} THEN woken \cup Notified ELSE woken
    /\ late' = [late EXCEPT ![c] = {}]

\* The answer goes out, or the client goes away and the future is dropped where it was.
Ends(c) ==
    /\ req[c] \in {"in", "handled"}
    /\ Release(c) /\ req' = [req EXCEPT ![c] = "none"]
    /\ \/ req[c] = "handled" /\ UNCHANGED conn
       \/ conn' = [conn EXCEPT ![c] = "out"]
    /\ UNCHANGED <<asked, drainVars>>

Leaves(c) ==
    /\ conn[c] = "open" /\ req[c] = "none"
    /\ conn' = [conn EXCEPT ![c] = "out"]
    /\ UNCHANGED <<req, asked, late, inflight, woken, drainVars>>

-----------------------------------------------------------------------------
(* Drain, and Admission::wait_drained inside it. *)

Close(d) ==
    /\ drain[d] = "no"
    /\ accepting' = FALSE
    /\ drain' = [drain EXCEPT ![d] = "check"]
    /\ UNCHANGED <<connVars, req, late, inflight, woken, entries>>

\* The count is read before the subscription ...
Check(d) ==
    /\ drain[d] = "check"
    /\ drain' = [drain EXCEPT ![d] = IF inflight = 0 THEN "wipe" ELSE "subscribe"]
    /\ UNCHANGED <<connVars, req, late, inflight, woken, accepting, entries>>

\* ... and again after it.
Recheck(d) ==
    /\ \/ drain[d] = "subscribe" /\ drain' = [drain EXCEPT ![d] = "subscribed"]
       \/ /\ drain[d] = "subscribed"
          /\ drain' = [drain EXCEPT ![d] = IF inflight = 0 THEN "wipe" ELSE "waiting"]
    /\ UNCHANGED <<connVars, req, late, inflight, woken, accepting, entries>>

Awakes(d) ==
    /\ drain[d] = "waiting" /\ d \in woken
    /\ woken' = woken \ {d}
    /\ drain' = [drain EXCEPT ![d] = "check"]
    /\ UNCHANGED <<connVars, req, late, inflight, accepting, entries>>

\* The grace is over.
TimesOut(d) ==
    /\ drain[d] \in {"check", "subscribe", "subscribed", "waiting"}
    /\ drain' = [drain EXCEPT ![d] = "expired"]
    /\ woken' = woken \ {d}
    /\ UNCHANGED <<connVars, req, late, inflight, accepting, entries>>

\* pending.clear(), pool.clear_all()
Wipe(d) ==
    /\ drain[d] \in {"wipe", "expired"}
    /\ drain' = [drain EXCEPT ![d] = IF @ = "wipe" THEN "clean" ELSE "done"]
    /\ woken' = woken \ {d}
    /\ entries' = {}
    /\ UNCHANGED <<connVars, req, late, inflight, accepting>>

-----------------------------------------------------------------------------
Next ==
    \/ \E c \in Conn : \/ Accept(c) \/ Handshake(c) \/ Call(c) \/ Acquire(c) \/ Handle(c)
                       \/ Ends(c) \/ Leaves(c)
    \/ \E d \in Drainer : Close(d) \/ Check(d) \/ Recheck(d) \/ Awakes(d)
                          \/ TimesOut(d) \/ Wipe(d)

Spec == Init /\ [][Next]_intakeVars

\* Handlers end and the drain call runs; its grace is not counted on.
FairSpec ==
    /\ Spec
    /\ WF_intakeVars(\E c \in Conn : Acquire(c) \/ Handle(c) \/ Ends(c))
    /\ \A d \in Drainer : WF_intakeVars(Check(d) \/ Recheck(d) \/ Awakes(d) \/ Wipe(d))

-----------------------------------------------------------------------------
\* The count is the number of requests inside, and the listener's bound holds.
TypeOK ==
    /\ conn \in [Conn -> {"out", "shake", "open"}]
    /\ req \in [Conn -> {"none", "checked", "in", "handled"}]
    /\ Permits \in 0..MaxConns
    /\ inflight = Cardinality({c \in Conn : req[c] \in {"in", "handled"}})
    /\ woken \subseteq Drainer

\* After a drain that ended cleanly the pending store holds nothing but what was
\* left by a request the gate let in before it closed and that was counted only
\* after the drain had seen zero (is_accepting and acquire are two steps).
OnlyLatecomersRemain ==
    \A d \in Drainer : drain[d] = "clean" => \A e \in entries : d \in e.late

NoneDraining == \A d \in Drainer : drain[d] \in {"no", "clean", "done"}

\* A drain ends once the requests inside have ended, also without its grace: no
\* wake-up is missed between the reading of the count and the wait, whichever
\* other drain waits too (wait_drained subscribes, then counts again).
DrainEnds == []<>NoneDraining

=============================================================================
