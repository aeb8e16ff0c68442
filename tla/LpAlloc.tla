------------------------------ MODULE LpAlloc ------------------------------
(***************************************************************************)
(* The third allocator of the SDN: the linear programme of                 *)
(* sdn/src/mcmcf.rs (McmcfSolver::solve).  Phase 0 finds the fraction t of *)
(* the drain that every commodity can be given, phase 1 the least unserved *)
(* drain sigma and then the largest common filling factor lambda, phase 2  *)
(* the extra rate eta; each phase may fail in the backend, and the solver  *)
(* has an answer for each failure.                                         *)
(*                                                                         *)
(* Rates are whole numbers of a unit.  All commodities with room have the  *)
(* same room, so the model keeps lambda * R as one number, `fill`.  The    *)
(* backend (an external solver) returns an optimum among the multiples of  *)
(* the unit, any of them when there are several.  A flow is a choice of    *)
(* one amount per simple path: cycles add load and serve nobody.           *)
(***************************************************************************)
EXTENDS Integers, FiniteSets, FiniteSetsExt, Functions

CONSTANTS
  Commodity,  \* the pairs: [src, dst]
  Edge,       \* the possible links, sets of two QKCs
  PqcEdge,    \* those that are PQC links when they are there
  Caps,       \* what the capacity of a QKD link can be; None: no such link
  PqcCap,     \* the capacity of a PQC link
  Drain,      \* the drain of a commodity that has any, in units
  EtaMax,     \* R_k / T_REPLAN_SECONDS of a commodity with room, in units
  None

VARIABLES
  cap,        \* the links of the topology, and their capacity
  demand,     \* the commodities: [drain, room]
  lex,        \* whether phase 2 runs (backend and SDN_DISABLE_LEX_REFINEMENT)
  phase,      \* where the solver is
  floor,      \* t_floor as the drain it guarantees a draining commodity
  sigma, fill,\* the result of phase 1
  rates       \* rates_grade of the solution

lpVars == <<cap, demand, lex, phase, floor, sigma, fill, rates>>

-----------------------------------------------------------------------------
(* The inputs *)

Present == {e \in Edge : cap[e] # None}
\* The arcs of the programme: links without capacity are left out.
Arcs == {e \in Present : cap[e] > 0}
NodeSet == UNION Arcs

\* The simple paths between two QKCs over a set of links, as sets of links.
Paths(es, s, d) ==
  {p \in SUBSET es :
     LET ends == {n \in UNION p : Cardinality({e \in p : n \in e}) = 1}
     IN  /\ ends = {s, d}
         /\ \A n \in UNION p : Cardinality({e \in p : n \in e}) <= 2
         /\ Cardinality(UNION p) = Cardinality(p) + 1}

\* A pair is of the QKD grade if QKD links, whatever their capacity, connect it.
GradeOf(k) == IF Paths(Present \ PqcEdge, k.src, k.dst) # {} THEN "qkd" ELSE "pqc"

\* The flow variables of a commodity: a QKD flow is pinned to zero on PQC arcs.
FlowVars(k) == Paths(IF GradeOf(k) = "qkd" THEN Arcs \ PqcEdge ELSE Arcs, k.src, k.dst)

\* A commodity has conservation constraints only at the nodes of the arcs.
Constrained(k) == k.src \in NodeSet \/ k.dst \in NodeSet

\* The ways to send r[k] for every commodity: an amount for each of its paths.
Flows(k, n) == IF FlowVars(k) = {} THEN IF n = 0 THEN {<<>>} ELSE {}
               ELSE {f \in [FlowVars(k) -> 0 .. n] : MapThenSumSet(LAMBDA p : f[p], DOMAIN f) = n}
Load(f, e) == MapThenSumSet(LAMBDA p : IF e \in p THEN f[p] ELSE 0, DOMAIN f)

\* Both directions of a link share its capacity.
Fits(flow) == \A e \in Arcs : MapThenSumSet(LAMBDA k : Load(flow[k], e), DOMAIN flow) <= cap[e]

RECURSIVE RoutableFrom(_, _, _)
RoutableFrom(ks, r, flow) ==
  IF ks = {} THEN TRUE
  ELSE LET k == CHOOSE k \in ks : TRUE
       IN  \E f \in Flows(k, r[k]) :
             LET next == [j \in DOMAIN flow \cup {k} |-> IF j = k THEN f ELSE flow[j]]
             IN  Fits(next) /\ RoutableFrom(ks \ {k}, r, next)

\* Whether the constraints of a phase admit these rates.
Routable(r) == RoutableFrom({k \in Commodity : Constrained(k)}, r, <<>>)

-----------------------------------------------------------------------------
(* The programmes *)

DrainOf(k) == demand[k].drain
Filled(n) == [k \in Commodity |-> IF demand[k].room THEN n ELSE 0]
Plus(f, g) == [k \in Commodity |-> f[k] + g[k]]
Total(f) == MapThenSumSet(LAMBDA k : f[k], Commodity)

MaxRate == MapThenSumSet(LAMBDA e : cap[e], Arcs)

\* Phase 0: the largest common fraction, as the drain each is given.
CommonFraction ==
  Max({n \in 0 .. Drain : Routable([k \in Commodity |-> IF DrainOf(k) > 0 THEN n ELSE 0])})

\* The slack of a commodity is what the floor leaves of its drain.
SigmaMax(k, t) == IF DrainOf(k) = 0 THEN 0 ELSE Drain - t

\* Phase 1: the points the constraints admit, and the optima among them.  It has
\* none if lambda is unbounded: no commodity with room is constrained.
Unbounded == \A k \in Commodity : demand[k].room => ~Constrained(k)
Served(s, n) == Plus([k \in Commodity |-> DrainOf(k) - s[k]], Filled(n))
Sigmas(t) == {s \in [Commodity -> 0 .. Drain] : \A k \in Commodity : s[k] <= SigmaMax(k, t)}
LeastUnmet(t) ==
  LET fits == {s \in Sigmas(t) : Routable(Served(s, 0))}
      least == {Total(s) : s \in fits}
  IN  {s \in fits : Total(s) = Min(least)}
MostFill(s) == Max({n \in 0 .. MaxRate : Routable(Served(s, n))})
Lambda(t) ==
  LET best == LeastUnmet(t)
      most == {MostFill(s) : s \in best}
  IN  {<<s, n>> \in best \X most : n = Max(most) /\ Routable(Served(s, n))}

\* Phase 2: lambda is a constant of it and it has no slack.
Etas(n) ==
  {h \in [Commodity -> 0 .. EtaMax] :
     /\ \A k \in Commodity : demand[k].room \/ h[k] = 0
     /\ Routable(Plus(Plus([k \in Commodity |-> DrainOf(k)], Filled(n)), h))}
Eta(n) == {h \in Etas(n) : Total(h) = Max({Total(g) : g \in Etas(n)})}
-----------------------------------------------------------------------------
(* McmcfSolver::solve *)

None0 == [k \in Commodity |-> 0]

Init ==
  /\ cap \in {c \in [Edge -> Caps \cup {None, PqcCap}] :
                \A e \in Edge : c[e] \in IF e \in PqcEdge THEN {None, PqcCap} ELSE Caps}
  /\ demand \in [Commodity -> [drain : {0, Drain}, room : BOOLEAN]]
  /\ lex \in BOOLEAN
  /\ phase = "start" /\ floor = 0 /\ sigma = None0 /\ fill = 0 /\ rates = None0

\* Nothing to share.
Idle ==
  /\ phase = "start" /\ Arcs = {}
  /\ phase' = "idle"
  /\ UNCHANGED <<cap, demand, lex, floor, sigma, fill, rates>>

\* No room anywhere: the drain is made up for, and no programme is solved.
AllFull ==
  /\ phase = "start" /\ Arcs # {}
  /\ \A k \in Commodity : ~demand[k].room
  /\ rates' = [k \in Commodity |-> DrainOf(k)]
  /\ phase' = "full"
  /\ UNCHANGED <<cap, demand, lex, floor, sigma, fill>>

\* Phase 0, whose failure only loses the floor.
Floor ==
  /\ phase = "start" /\ Arcs # {}
  /\ \E k \in Commodity : demand[k].room
  /\ floor' \in {0} \cup {CommonFraction : k \in {j \in Commodity : DrainOf(j) > 0}}
  /\ phase' = "floored"
  /\ UNCHANGED <<cap, demand, lex, sigma, fill, rates>>

\* Phase 1.
Fill ==
  /\ phase = "floored" /\ ~Unbounded
  /\ \E sn \in Lambda(floor) : sigma' = sn[1] /\ fill' = sn[2]
  /\ phase' = "filled"
  /\ UNCHANGED <<cap, demand, lex, floor, rates>>

\* Phase 1 fails: once more without the floor, and then nobody has a rate.
FillFails ==
  /\ phase = "floored"
  /\ floor' = 0
  /\ phase' = IF floor > 0 THEN "floored" ELSE "failed"
  /\ UNCHANGED <<cap, demand, lex, sigma, fill, rates>>

\* r_k = (delta_k - sigma_k) + lambda * R_k + eta_k.
Assemble(h) ==
  /\ rates' = Plus(Served(sigma, fill), h)
  /\ phase' = "solved"
  /\ UNCHANGED <<cap, demand, lex, floor, sigma, fill>>

\* Phase 2, or its fallback eta = 0 when it is off, infeasible or fails.
Extra == phase = "filled" /\ lex /\ \E h \in Eta(fill) : Assemble(h)
NoExtra == phase = "filled" /\ Assemble(None0)

Next == Idle \/ AllFull \/ Floor \/ Fill \/ FillFails \/ Extra \/ NoExtra

Spec == Init /\ [][Next]_lpVars

-----------------------------------------------------------------------------
(* Properties *)

TypeOK ==
  /\ cap \in [Edge -> Caps \cup {PqcCap, None}]
  /\ demand \in [Commodity -> [drain : {0, Drain}, room : BOOLEAN]]
  /\ lex \in BOOLEAN
  /\ phase \in {"start", "idle", "full", "floored", "filled", "solved", "failed"}
  /\ floor \in 0 .. Drain
  /\ sigma \in [Commodity -> 0 .. Drain]
  /\ fill \in 0 .. MaxRate
  /\ \A k \in Commodity : rates[k] >= 0

\* "r_k is what the network can actually deliver": the rates of a solution, those
\* of all the pairs with an end on a link together, can be routed at the same
\* time, with what both directions of a link carry within its capacity.
RatesCarried ==
  phase = "solved" =>
    \E flow \in [{k \in Commodity : Constrained(k)} ->
                   UNION {Flows(k, rates[k]) : k \in Commodity}] :
      /\ \A k \in DOMAIN flow : flow[k] \in Flows(k, rates[k])
      /\ \A e \in Arcs :
           MapThenSumSet(LAMBDA k : MapThenSumSet(LAMBDA p : IF e \in p THEN flow[k][p] ELSE 0,
                                                  DOMAIN flow[k]),
                         DOMAIN flow) <= cap[e]

\* The floor of phase 0 reaches the published rates: no pair is given less of its
\* drain than the common fraction, whichever optimum phases 1 and 2 return.
NoneBelowFloor ==
  phase = "solved" => \A k \in Commodity : DrainOf(k) > 0 => rates[k] >= floor

\* Nobody is given more than drain and common filling while the drain of some
\* pair goes unserved.
DrainBeforeExtra ==
  phase = "solved" /\ Total(sigma) > 0 => rates = Served(sigma, fill)

=============================================================================
