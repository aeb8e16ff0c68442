------------------------------- MODULE SdnGraph -------------------------------
(***************************************************************************)
(* How the SDN controller infers the graph of QKC links from what the QKCs *)
(* declare and measure: announce_qkc and what it calls in                  *)
(* sdn/src/topology.rs (apply_declared_links, recompute_edge, drop_edge,   *)
(* close_declarations_pointing_at, apply_measured_capacity), MeasuredRates,*)
(* POST /link-capacity and delete_qkc.                                     *)
(*                                                                         *)
(* A link's metadata is abstracted to its kind and to the capacity its     *)
(* physical model gives, in keys per second.  An announcement first        *)
(* records its measurements in a registry outside the snapshot and then    *)
(* changes the snapshot; other requests come in between.  The closure that *)
(* changes the snapshot also says whether anything changed: when it says   *)
(* no, its work is discarded and the version stays.                        *)
(***************************************************************************)
EXTENDS Integers, FiniteSets

CONSTANTS
  Qkcs,      \* the QKCs
  Metas,     \* metadata a link can be declared with: [pqc, cap]
  Rates,     \* rates an end can measure, and capacities an operator can set
  Unavailable, \* the report of an end that cannot measure
  Inf,       \* f64::INFINITY, the minimum of no votes
  None       \* no value

VARIABLES
  topo,      \* the published snapshot: qkcs, declared, edges
  reports,   \* the MeasuredRates registry: reports[q][n], q's view of its link to n
  hand,      \* the announcement whose measurements are recorded, or None
  leaving    \* the QKCs whose delete_qkc has left the snapshot and not the registry

vars == <<topo, reports, hand, leaving>>

Pairs == {e \in SUBSET Qkcs : Cardinality(e) = 2}
Others(q) == Qkcs \ {q}

Init ==
  /\ topo = [qkcs |-> {}, declared |-> [q \in Qkcs |-> [n \in Others(q) |-> None]],
             edges |-> [e \in Pairs |-> None]]
  /\ reports = [q \in Qkcs |-> [n \in Others(q) |-> None]]
  /\ hand = None /\ leaving = {}

-----------------------------------------------------------------------------
(* Capacities. *)

Capacity(edge) ==
  IF ~edge.meta.pqc /\ edge.measured # None THEN edge.measured ELSE edge.meta.cap

Abs(i) == IF i < 0 THEN -i ELSE i

\* Within the dead band of 5 % or half a key per second.
Near(current, kps) == 20 * Abs(current - kps) < (IF current > 10 THEN current ELSE 10)

\* The votes on a link: an end that has no rate to give has none.
Votes(r, q, n) == {r[q][n], r[n][q]} \ {None, Unavailable}

\* MeasuredRates::record: the lower of the two ends.
Combined(r, q, n) ==
  IF Votes(r, q, n) = {} THEN Inf
  ELSE CHOOSE v \in Votes(r, q, n) : \A w \in Votes(r, q, n) : v <= w

\* apply_measured_capacity
Measure(edge, kps) ==
  IF edge = None \/ kps \in {None, Inf} THEN edge
  ELSE IF edge.meta.pqc \/ Near(Capacity(edge), kps) THEN edge
  ELSE [edge EXCEPT !.measured = kps]

\* set_edge_capacity_kps
SetCapacity(edge, kps) ==
  IF Near(Capacity(edge), kps) THEN edge
  ELSE IF ~edge.meta.pqc /\ edge.measured # None THEN [edge EXCEPT !.measured = kps]
  ELSE [edge EXCEPT !.meta.cap = kps]

-----------------------------------------------------------------------------
(* The edge between two QKCs, as their declarations leave it. *)

\* recompute_edge: the edge, and whether it says that something changed.
RecomputeEdge(t, me, other) ==
  LET mine == t.declared[me][other]
      theirs == t.declared[other][me]
      old == t.edges[{me, other}]
      meta == IF mine # None THEN mine ELSE theirs
      new == [meta |-> meta, measured |-> IF old = None THEN None ELSE old.measured]
  IN  CASE mine = None /\ theirs = None -> [edge |-> None, changed |-> old # None]
        [] mine # None /\ theirs # None /\ mine # theirs /\ old # None ->
             [edge |-> old, changed |-> FALSE]
        [] ~({me, other} \subseteq t.qkcs) /\ meta # None -> [edge |-> old, changed |-> FALSE]
        [] OTHER -> [edge |-> new, changed |-> old # new]

\* The closure of announce_qkc: q registers, what it declares replaces what it
\* declared, the edges it and its neighbours declare are recomputed, and the
\* combined measurements are applied.
Announce(t, q, links, measured) ==
  LET declared == [t EXCEPT !.qkcs = @ \cup {q}, !.declared[q] = links]
      touched == {n \in Others(q) : \/ t.declared[q][n] # None
                                    \/ links[n] # None
                                    \/ t.declared[n][q] # None}
      step(n) == RecomputeEdge(declared, q, n)
      edge(n) == IF n \in touched THEN step(n).edge ELSE t.edges[{q, n}]
      final(n) == Measure(edge(n), measured[n])
  IN  [topo |-> [declared EXCEPT !.edges = [e \in Pairs |->
                   IF q \in e THEN final(CHOOSE n \in e : n # q) ELSE @[e]]],
       changed |-> \/ q \notin t.qkcs
                   \/ links # t.declared[q]
                   \/ \E n \in touched : step(n).changed
                   \/ \E n \in Others(q) : final(n) # edge(n)]

\* mutate: a snapshot is published, with the next version, only when its
\* closure reports a change.
Publish(out) == topo' = IF out.changed THEN out.topo ELSE topo

-----------------------------------------------------------------------------
(* Requests. *)

NoReports(q) == [n \in Others(q) |-> None]

\* The measurements of an announcement, from neighbours the SDN knows.
Recorded(t, r, q, rates) ==
  [r EXCEPT ![q] = [n \in Others(q) |->
     IF n \in t.qkcs /\ rates[n] # None THEN rates[n] ELSE r[q][n]]]

\* What an announcement applies to the snapshot: the combination, where it measures.
ToApply(t, r, q, rates) ==
  [n \in Others(q) |-> IF n \in t.qkcs /\ rates[n] # None THEN Combined(r, q, n) ELSE None]

\* announce_qkc, up to the lock of the snapshot.
Record(q) ==
  /\ hand = None
  /\ \E links \in [Others(q) -> Metas \cup {None}],
        rates \in [Others(q) -> Rates \cup {None, Unavailable}] :
       /\ \A n \in Others(q) : links[n] = None => rates[n] = None
       /\ reports' = Recorded(topo, reports, q, rates)
       /\ hand' = [q |-> q, links |-> links, measured |-> ToApply(topo, reports', q, rates)]
  /\ UNCHANGED <<topo, leaving>>

\* The rest of it: the closure, and the registry forgets the edges that went.
Apply ==
  /\ hand # None
  /\ LET out == Announce(topo, hand.q, hand.links, hand.measured)
         gone(n) == topo.edges[{hand.q, n}] # None /\ out.topo.edges[{hand.q, n}] = None
     IN  /\ Publish(out)
         /\ reports' = [q \in Qkcs |-> [n \in Others(q) |->
              IF hand.q \in {q, n} /\ gone(IF q = hand.q THEN n ELSE q) THEN None
              ELSE reports[q][n]]]
  /\ hand' = None
  /\ UNCHANGED leaving

\* delete_qkc: the sweeper removes a QKC that no longer announces, first from the
\* snapshot and then, whether it was there or not, from the registry.
DeleteQkc(q) ==
  /\ q \notin leaving
  /\ leaving' = leaving \cup {q}
  /\ topo' = [topo EXCEPT !.qkcs = @ \ {q}, !.declared[q] = NoReports(q),
                          !.edges = [e \in Pairs |-> IF q \in e THEN None ELSE @[e]]]
  /\ UNCHANGED <<reports, hand>>

ForgetReporter(q) ==
  /\ q \in leaving
  /\ leaving' = leaving \ {q}
  /\ reports' = [reports EXCEPT ![q] = NoReports(q)]
  /\ UNCHANGED <<topo, hand>>

\* POST /link-capacity
UpdateCapacity(e, kps) ==
  /\ topo.edges[e] # None
  /\ LET edge == SetCapacity(topo.edges[e], kps)
     IN  Publish([topo |-> [topo EXCEPT !.edges[e] = edge], changed |-> edge # topo.edges[e]])
  /\ UNCHANGED <<reports, hand, leaving>>

Next ==
  \/ \E q \in Qkcs : Record(q) \/ DeleteQkc(q) \/ ForgetReporter(q)
  \/ Apply
  \/ \E e \in Pairs, kps \in Rates : UpdateCapacity(e, kps)

Spec == Init /\ [][Next]_vars

-----------------------------------------------------------------------------
(* Properties. *)

EdgeOK(edge) ==
  edge = None \/ (edge.meta.pqc \in BOOLEAN /\ edge.meta.cap \in Nat /\ edge.measured \in Rates \cup {None})

\* Every variable holds a value of its type.
TypeOK ==
  /\ topo.qkcs \subseteq Qkcs
  /\ \A q \in Qkcs : topo.declared[q] \in [Others(q) -> Metas \cup {None}]
  /\ \A e \in Pairs : EdgeOK(topo.edges[e])
  /\ \A q \in Qkcs : reports[q] \in [Others(q) -> Rates \cup {None, Unavailable}]
  /\ leaving \subseteq Qkcs

\* "La arista (a,b) existe si y solo si a declara b o b declara a", between
\* QKCs that are both registered (topology.rs, Topology::declared) - after any
\* sequence of announcements, withdrawals, expiries and returns.
EdgesAsDeclared ==
  \A e \in Pairs :
    topo.edges[e] # None <=>
      /\ e \subseteq topo.qkcs
      /\ \E q \in e : \E n \in e \ {q} : topo.declared[q][n] # None

\* The announcement a QKC repeats while nothing changes for it: the links it
\* declares, with the rates it last reported.
Heartbeat(t, q) ==
  LET rates == [n \in Others(q) |-> IF t.declared[q][n] = None THEN None ELSE reports[q][n]]
  IN  Announce(t, q, t.declared[q], ToApply(t, reports, q, rates)).topo

\* Heartbeats settle: once both ends have repeated their announcements, neither
\* changes anything by repeating it again, so the version stays and no table is pushed
\* - also when two ends disagree about their link or measure it differently
\* (announce_qkc: two endpoints disagreeing must not "overwrite each other on
\* every heartbeat, bumping the version forever").
HeartbeatsSettle ==
  \A p \in topo.qkcs : \A q \in topo.qkcs \ {p} :
    LET settled == Heartbeat(Heartbeat(topo, p), q)
    IN  hand = None => Heartbeat(settled, p) = settled /\ Heartbeat(settled, q) = settled

\* Nothing is lost: when the closure of an announcement reports no change, the
\* snapshot it worked out, which mutate then discards, is the published one.
NothingLost ==
  hand # None =>
    LET out == Announce(topo, hand.q, hand.links, hand.measured)
    IN  out.changed <=> out.topo # topo
=============================================================================
