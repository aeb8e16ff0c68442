----------------------------- MODULE TopologyPush -----------------------------
(***************************************************************************)
(* How a change of the topology reaches the forwarding tables of the QKCs: *)
(* the solver that publishes a routing snapshot (request_recompute and     *)
(* recompute_mcf_inner), the version watcher of run_background_tasks, both *)
(* in sdn/src/service.rs, and POST /forwarding-table of the QKC            *)
(* (qkc/src/http_admin.rs, post_table).                                    *)
(*                                                                         *)
(* What is in a topology or in a snapshot is abstracted to whether it is   *)
(* still current: a change of the topology turns every TRUE below into     *)
(* FALSE.  A snapshot also has the address at which it is allocated, which *)
(* is all the watcher compares.                                            *)
(***************************************************************************)
EXTENDS Naturals, FiniteSets

CONSTANTS
  Qkcs,       \* the registered QKCs
  Solvers,    \* recomputations that may run at once
  Addrs,      \* addresses a snapshot can be allocated at
  MaxBumps,   \* bound: changes of the topology
  MaxFaults,  \* bound: crashes, failed and late POSTs
  None        \* no value

VARIABLES
  solving,    \* per solver: None, or whether it works on the current topology
  snap,       \* the published snapshot: [lp: made from the current topology, addr]
  last,       \* the watcher's last_topo and last_snap_ptr: [topo, addr], and
              \* whether it pushed the very snapshot that is published now
  push,       \* the push under way: what it read, the QKCs to POST to, and
              \* whether a POST failed; or None
  up,         \* the QKCs that are running
  table,      \* per QKC: [topo, lp] its table is made from, or None
  late,       \* a POST given up by the SDN and not yet handled by its QKC
  bumps,      \* changes so far
  faults      \* faults so far

vars == <<solving, snap, last, push, up, table, late, bumps, faults>>

Init ==
  /\ solving = [s \in Solvers |-> None]
  /\ \E a \in Addrs : snap = [lp |-> FALSE, addr |-> a]
  /\ last = [topo |-> FALSE, addr |-> None, same |-> FALSE]
  /\ push = None
  /\ up = Qkcs
  /\ table = [q \in Qkcs |-> None]
  /\ late = None
  /\ bumps = 0 /\ faults = 0

Outdated(r) == IF r = None THEN None ELSE [r EXCEPT !.topo = FALSE, !.lp = FALSE]

\* The topology changes, and its version with it.
Bump ==
  /\ bumps < MaxBumps /\ bumps' = bumps + 1
  /\ solving' = [s \in Solvers |-> IF solving[s] = None THEN None ELSE FALSE]
  /\ snap' = [snap EXCEPT !.lp = FALSE]
  /\ last' = [last EXCEPT !.topo = FALSE]
  /\ push' = Outdated(push)
  /\ table' = [q \in Qkcs |-> Outdated(table[q])]
  /\ late' = IF late = None THEN None ELSE [late EXCEPT !.t = Outdated(@)]
  /\ UNCHANGED <<up, faults>>

-----------------------------------------------------------------------------
(* The solver. *)

\* The heartbeat of mcf_period_ms, or a request, starts a recomputation.
StartSolve(s) ==
  /\ solving[s] = None
  /\ solving' = [solving EXCEPT ![s] = TRUE]
  /\ UNCHANGED <<snap, last, push, up, table, late, bumps, faults>>

\* The snapshot is allocated while the published one, and the one the watcher
\* holds, are still alive.
Publish(s) ==
  /\ solving[s] # None
  /\ \E a \in Addrs \ ({snap.addr} \cup (IF push = None THEN {} ELSE {push.addr})) :
       snap' = [lp |-> solving[s], addr |-> a]
  /\ solving' = [solving EXCEPT ![s] = None]
  /\ last' = [last EXCEPT !.same = FALSE]
  /\ push' = IF push = None THEN None ELSE [push EXCEPT !.same = FALSE]
  /\ UNCHANGED <<up, table, late, bumps, faults>>

-----------------------------------------------------------------------------
(* The watcher. *)

\* A tick that finds a version or a pointer it has not pushed.
Tick ==
  /\ push = None
  /\ ~last.topo \/ snap.addr # last.addr
  /\ push' = [topo |-> TRUE, lp |-> snap.lp, addr |-> snap.addr, same |-> TRUE,
              todo |-> Qkcs, failed |-> FALSE]
  /\ UNCHANGED <<solving, snap, last, up, table, late, bumps, faults>>

Pushed == [topo |-> push.topo, lp |-> push.lp]

\* post_table replaces the whole table.
PostAccepted(q) ==
  /\ push # None /\ q \in push.todo
  /\ q \in up
  /\ table' = [table EXCEPT ![q] = Pushed]
  /\ push' = [push EXCEPT !.todo = @ \ {q}]
  /\ UNCHANGED <<solving, snap, last, up, late, bumps, faults>>

\* Connection refused, or the 1.5 s of the client are over; in that case the
\* QKC may still handle the request.
PostFails(q) ==
  /\ push # None /\ q \in push.todo
  /\ \/ q \notin up /\ UNCHANGED <<late, bumps, faults>>
     \/ /\ q \in up /\ faults < MaxFaults /\ faults' = faults + 1
        /\ late = None
        /\ late' \in {None, [q |-> q, t |-> Pushed]}
  /\ push' = [push EXCEPT !.todo = @ \ {q}, !.failed = TRUE]
  /\ UNCHANGED <<solving, snap, last, up, table, bumps>>

PostLate ==
  /\ late # None
  /\ table' = IF late.q \in up THEN [table EXCEPT ![late.q] = late.t] ELSE table
  /\ late' = None
  /\ UNCHANGED <<solving, snap, last, push, up, bumps, faults>>

\* last_* advance only if every QKC accepted.
EndPush ==
  /\ push # None /\ push.todo = {}
  /\ last' = IF push.failed THEN last
             ELSE [topo |-> push.topo, addr |-> push.addr, same |-> push.same]
  /\ push' = None
  /\ UNCHANGED <<solving, snap, up, table, late, bumps, faults>>

-----------------------------------------------------------------------------
(* A QKC keeps its table in memory only. *)

Crash(q) ==
  /\ q \in up /\ faults < MaxFaults
  /\ up' = up \ {q}
  /\ table' = [table EXCEPT ![q] = None]
  /\ faults' = faults + 1
  /\ UNCHANGED <<solving, snap, last, push, late, bumps>>

Restart(q) ==
  /\ q \notin up
  /\ up' = up \cup {q}
  /\ UNCHANGED <<solving, snap, last, push, table, late, bumps, faults>>

-----------------------------------------------------------------------------

Next ==
  \/ Bump
  \/ \E s \in Solvers : StartSolve(s) \/ Publish(s)
  \/ Tick \/ EndPush \/ PostLate
  \/ \E q \in Qkcs : PostAccepted(q) \/ PostFails(q) \/ Crash(q) \/ Restart(q)

Spec == Init /\ [][Next]_vars

\* The recomputation is periodic, the solver and the POSTs end, a QKC that
\* crashed is started again.  The watcher ticks every 200 ms, far more often
\* than snapshots are published, so it does not miss the change of the address
\* for ever.
Fairness ==
  /\ \A s \in Solvers : WF_vars(StartSolve(s)) /\ WF_vars(Publish(s))
  /\ SF_vars(Tick) /\ WF_vars(EndPush) /\ WF_vars(PostLate)
  /\ \A q \in Qkcs : WF_vars(PostAccepted(q) \/ PostFails(q)) /\ WF_vars(Restart(q))

FairSpec == Spec /\ Fairness

-----------------------------------------------------------------------------
(* Properties. *)

Source == [topo : BOOLEAN, lp : BOOLEAN]

\* Every variable holds a value of its type, and faults stay within their bound.
TypeOK ==
  /\ solving \in [Solvers -> BOOLEAN \cup {None}]
  /\ snap \in [lp : BOOLEAN, addr : Addrs]
  /\ last \in [topo : BOOLEAN, addr : Addrs \cup {None}, same : BOOLEAN]
  /\ push = None \/ push \in [topo : BOOLEAN, lp : BOOLEAN, addr : Addrs, same : BOOLEAN,
                              todo : SUBSET Qkcs, failed : BOOLEAN]
  /\ up \subseteq Qkcs
  /\ table \in [Qkcs -> Source \cup {None}]
  /\ late = None \/ late \in [q : Qkcs, t : Source]
  /\ bumps \in 0 .. MaxBumps /\ faults \in 0 .. MaxFaults

Followed == \A q \in Qkcs : table[q] = [topo |-> TRUE, lp |-> TRUE]

\* The tables follow the topology: when it stops changing, every QKC ends with,
\* and keeps, a table made from the current topology whose weighted routes were
\* solved for it too - whatever QKCs crashed, POSTs failed or came late, and
\* recomputations overlapped on the way.  The watcher never learns that a QKC
\* lost its table; the periodic recomputation is what brings it back.
TablesFollow == <>[]Followed

=============================================================================
