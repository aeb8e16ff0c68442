------------------------------ MODULE RateAlloc ------------------------------
(***************************************************************************)
(* How the SDN shares the capacity of the links among the pairs of DKMSs:  *)
(* the demand registry (sdn/src/demand.rs), the inputs of a recomputation  *)
(* (McmcfInputs::build in sdn/src/mcmcf.rs) and the two allocators that    *)
(* run over the weighted routes (sdn/src/rates_num.rs): prices (NumState,  *)
(* with alpha = 1) and progressive filling (maxmin_allocate).              *)
(*                                                                         *)
(* A commodity is <<source, destination, grade>>.  Levels, capacities and  *)
(* rates are in keys and keys per second, rationals as reduced fractions:  *)
(* exact, where the code rounds floating-point numbers.  Of a report       *)
(* the model keeps what the allocators use: the rate at which the buffer   *)
(* drains and the room left in it.                                         *)
(***************************************************************************)
EXTENDS Wcmp, Integers, FiniteSetsExt

CONSTANTS
  AnchorOf,    \* the QKC under each DKMS (qkc_of_dkms), or None
  Reports,     \* what a DKMS can report of a commodity: [drain, room]
  FullRoom,    \* DEFAULT_BUFFER_CAPACITY, the room of a commodity never reported
  FillWeight,  \* NumParams::fill_weight, a ratio
  Gamma,       \* NumParams::gamma, a ratio
  Allocators,  \* those of "num" and "maxmin" that may be configured
  MaxReports,  \* bound: reports and expiries
  MaxTicks     \* bound: recomputations

VARIABLES
  allocator,   \* the configured one
  wcmp,        \* its tables, wcmp_from_topology for each grade
  demand,      \* the DemandRegistry: the last report of a commodity, or None
  prices,      \* NumState::prices, zero where the code has no entry
  rates,       \* the published allocation, and the links it was made for
  reports,     \* reports and expiries so far
  ticks        \* recomputations so far

rateVars == <<allocator, links, wcmp, demand, prices, rates, reports, changes, ticks>>

-----------------------------------------------------------------------------
(* Rational numbers <<n, d>>, with d > 0 and reduced. *)

RECURSIVE Gcd(_, _)
Gcd(m, n) == IF n = 0 THEN m ELSE Gcd(n, m % n)

Ratio(n, d) ==
  LET g == Gcd(IF n < 0 THEN -n ELSE n, d)
  IN  <<n \div g, d \div g>>

Zero == <<0, 1>>
One == <<1, 1>>
Whole(n) == <<n, 1>>

Plus(x, y) == Ratio(x[1] * y[2] + y[1] * x[2], x[2] * y[2])
Neg(x) == <<-x[1], x[2]>>
Minus(x, y) == Plus(x, Neg(y))
Times(x, y) == Ratio(x[1] * y[1], x[2] * y[2])
Over(x, y) == Ratio(x[1] * y[2], x[2] * y[1])  \* y > 0
Leq(x, y) == x[1] * y[2] <= y[1] * x[2]
Less(x, y) == ~Leq(y, x)
Smaller(x, y) == IF Leq(x, y) THEN x ELSE y
Larger(x, y) == IF Leq(x, y) THEN y ELSE x
Clamp(x, lo, hi) == Larger(lo, Smaller(hi, x))

\* The sum, the smallest and the largest of op(e) over the elements e of S.
SumOver(S, op(_)) == MapThenFoldSet(Plus, Zero, op, LAMBDA T : CHOOSE e \in T : TRUE, S)
Least(top, S, op(_)) == MapThenFoldSet(Smaller, top, op, LAMBDA T : CHOOSE e \in T : TRUE, S)
Greatest(bottom, S, op(_)) == MapThenFoldSet(Larger, bottom, op, LAMBDA T : CHOOSE e \in T : TRUE, S)

-----------------------------------------------------------------------------
Dkms == DOMAIN AnchorOf
Commodities == {<<s, d, g>> \in Dkms \X Dkms \X {"qkd", "pqc"} : s # d}

Replan == 5               \* T_REPLAN_SECONDS
OverloadClamp == Whole(5) \* OVERLOAD_CLAMP

-----------------------------------------------------------------------------
(* McmcfInputs::build *)

\* The links that have an entry in edge_capacity.
Capacitated(t) == {e \in Pairs : t[e] # None /\ t[e].cap > 0}
CapOf(t, e) == Whole(t[e].cap)

QkdConnected(t, q, p) == Dist(Balls(Usable(t, "qkd"), p), q) # Unreachable

\* The commodities of a recomputation: of distinct QKCs, of the QKD grade only
\* where QKD links connect them; the natural grade always, the other if reported.
Emitted(t) ==
  {k \in Commodities :
     LET p == AnchorOf[k[1]]  q == AnchorOf[k[2]]
     IN  /\ p # None /\ q # None /\ p # q
         /\ LET connected == QkdConnected(t, p, q)
            IN  /\ k[3] = "qkd" => connected
                /\ demand[k] # None \/ k[3] = (IF connected THEN "qkd" ELSE "pqc")}

DemandOf(k) == IF demand[k] = None THEN [drain |-> 0, room |-> FullRoom] ELSE demand[k]

-----------------------------------------------------------------------------
(* prepare_flows *)

\* The part of p's traffic for dest that the tables send over each next hop.
Share(hops, i) ==
  Ratio(hops[i].weight, FoldSeq(LAMBDA h, acc : acc + h.weight, 0, hops))

\* commodity_edge_fractions: what of a unit of flow from src to dest goes over
\* each link, and what of it arrives.
Fractions(tables, src, dest) ==
  LET hops(q) == IF q = dest THEN <<>> ELSE tables[q][dest]
      into(q) == {h \in {<<p, i>> : p \in Qkcs, i \in 1 .. Cardinality(Qkcs)} :
                    h[2] \in DOMAIN hops(h[1]) /\ hops(h[1])[h[2]].to = q}
      mass[q \in Qkcs] ==
        IF q = src THEN One
        ELSE SumOver(into(q), LAMBDA h : Times(mass[h[1]], Share(hops(h[1]), h[2])))
      sent == {[link |-> {h[1], q}, part |-> Times(mass[h[1]], Share(hops(h[1]), h[2]))] :
                 <<q, h>> \in UNION {{q} \X into(q) : q \in Qkcs}}
  IN  [on |-> {x \in sent : x.part # Zero}, arrived |-> mass[dest]]

\* The flows of a recomputation, in the order of the commodities.
Flows(t) ==
  LET flow(k) ==
        LET f == Fractions(IF k[3] = "qkd" THEN wcmp.qkd ELSE wcmp.any, AnchorOf[k[1]], AnchorOf[k[2]])
        IN  [id |-> k, on |-> f.on, routable |-> f.arrived = One,
             drain |-> Whole(DemandOf(k).drain), fill |-> Ratio(DemandOf(k).room, Replan)]
  IN  FoldSet(LAMBDA k, fs : Append(fs, flow(k)), <<>>, Emitted(t))

\* What the rates xs of the flows put on a link.
Load(flows, xs, e) ==
  SumOver(DOMAIN flows, LAMBDA i :
    SumOver({h \in flows[i].on : h.link = e}, LAMBDA h : Times(h.part, xs[i])))

Each(flows, op(_)) == FoldLeft(LAMBDA acc, i : Append(acc, op(i)), <<>>, [i \in DOMAIN flows |-> i])

-----------------------------------------------------------------------------
(* NumState::step *)

\* 1. The rate a flow would have at the present prices, up to what is of use.
Wanted(f) ==
  LET w == Plus(f.drain, Times(FillWeight, f.fill))
      price == SumOver(f.on, LAMBDA h : Times(h.part, prices[h.link]))
      useful == Plus(f.drain, f.fill)
  IN  IF ~f.routable \/ w = Zero THEN Zero
      ELSE IF price = Zero THEN useful ELSE Smaller(Over(w, price), useful)

\* The overloaded links, and by how much.
Overloads(t, flows, xs) ==
  {[link |-> e, by |-> Over(Load(flows, xs, e), CapOf(t, e))] :
     e \in {c \in Capacitated(t) : Less(CapOf(t, c), Load(flows, xs, c))}}

Meets(f, o) == \E h \in f.on : h.link = o.link

\* Mutant: a flow over an overloaded link is withdrawn.
ProjectedOut(t, flows, xs) ==
  LET over == Overloads(t, flows, xs)
  IN  Each(flows, LAMBDA i : IF \E o \in over : Meets(flows[i], o) THEN Zero ELSE xs[i])

\* The published rates: each reduced by the worst overload on its way.
Projected(t, flows, xs) ==
  LET over == Overloads(t, flows, xs)
  IN  Each(flows, LAMBDA i :
        Over(xs[i], Greatest(One, {o \in over : Meets(flows[i], o)}, LAMBDA o : o.by)))

\* 2. The prices follow the load; a link that is gone loses its price.
Repriced(t, flows, xs) ==
  [e \in Pairs |->
     IF e \notin Capacitated(t) THEN Zero
     ELSE LET over == Over(Minus(Load(flows, xs, e), CapOf(t, e)), CapOf(t, e))
          IN  Larger(Zero, Plus(prices[e], Times(Gamma, Clamp(over, Whole(-1), OverloadClamp))))]

-----------------------------------------------------------------------------
(* maxmin_allocate *)

\* waterfill: raise the common fraction of the active flows until a link is
\* exhausted or a flow is served; freeze those and go on.  st has the fractions,
\* what is left of the links, and the active flows.
RECURSIVE Waterfill(_, _, _)
Waterfill(flows, want, st) ==
  IF st.active = {} THEN st
  ELSE LET slope(e) == SumOver(st.active, LAMBDA i :
                         SumOver({h \in flows[i].on : h.link = e}, LAMBDA h : Times(h.part, want[i])))
           loaded == {r \in st.residual : slope(r.link) # Zero}
           delta == Least(Least(One, st.active, LAMBDA i : Minus(One, st.t[i])), loaded,
                          LAMBDA r : Over(r.left, slope(r.link)))
           t == Each(flows, LAMBDA i : IF i \in st.active THEN Plus(st.t[i], delta) ELSE st.t[i])
           residual == {[link |-> r.link, left |-> Minus(r.left, Times(delta, slope(r.link)))] :
                          r \in st.residual}
           exhausted == {r.link : r \in {s \in residual : s.left = Zero /\ slope(s.link) # Zero}}
       IN  Waterfill(flows, want,
             [t |-> t, residual |-> residual,
              active |-> {i \in st.active :
                            t[i] # One /\ \A h \in flows[i].on : h.link \notin exhausted}])

\* Two passes: what drains, and then what fills, over what the first one left.
Maxmin(t, flows) ==
  LET drain == Each(flows, LAMBDA i : flows[i].drain)
      fill == Each(flows, LAMBDA i : flows[i].fill)
      start(residual, want) ==
        [t |-> Each(flows, LAMBDA i : Zero), residual |-> residual,
         active |-> {i \in DOMAIN flows : flows[i].routable /\ want[i] # Zero}]
      first == Waterfill(flows, drain,
                 start({[link |-> e, left |-> CapOf(t, e)] : e \in Capacitated(t)}, drain))
      second == Waterfill(flows, fill, start(first.residual, fill))
  IN  [drained |-> first.t, filled |-> second.t]

Allocated(flows, m) ==
  Each(flows, LAMBDA i : Plus(Times(m.drained[i], flows[i].drain), Times(m.filled[i], flows[i].fill)))

-----------------------------------------------------------------------------

Nothing == [links |-> None, flows |-> <<>>, xs |-> <<>>, drained |-> <<>>]

RatesInit ==
  /\ allocator \in Allocators
  /\ links \in FirstLinks /\ wcmp = Solution(links)
  /\ demand = [k \in Commodities |-> None]
  /\ prices = [e \in Pairs |-> Zero]
  /\ rates = Nothing
  /\ reports = 0 /\ changes = 0 /\ ticks = 0

\* ingest, of one entry: one that names another source or is not well formed is
\* rejected; the last report stands.
Ingest(k, r) ==
  /\ reports < MaxReports /\ reports' = reports + 1
  /\ demand' = [demand EXCEPT ![k] = r]
  /\ UNCHANGED <<allocator, links, wcmp, prices, rates, changes, ticks>>

\* evict_older_than: the source has not reported for demand_ttl_secs.
Evict(k) ==
  /\ demand[k] # None
  /\ reports < MaxReports /\ reports' = reports + 1
  /\ demand' = [demand EXCEPT ![k] = None]
  /\ UNCHANGED <<allocator, links, wcmp, prices, rates, changes, ticks>>

\* A link is added, removed or becomes one of another kind.
Relink(e) ==
  /\ changes < MaxChanges /\ changes' = changes + 1
  /\ \E k \in (Kinds \cup {None}) \ {links[e]} : links' = [links EXCEPT ![e] = k]
  /\ wcmp' = Solution(links')
  /\ UNCHANGED <<allocator, demand, prices, rates, reports, ticks>>

Step ==
  /\ allocator = "num"
  /\ ticks < MaxTicks /\ ticks' = ticks + 1
  /\ LET flows == Flows(links)
         xs == Each(flows, LAMBDA i : Wanted(flows[i]))
     IN  /\ rates' = [links |-> links, flows |-> flows, xs |-> Projected(links, flows, xs),
                      drained |-> <<>>]
         /\ prices' = Repriced(links, flows, xs)
  /\ UNCHANGED <<allocator, links, wcmp, demand, reports, changes>>

MaxminAllocate ==
  /\ allocator = "maxmin"
  /\ ticks < MaxTicks /\ ticks' = ticks + 1
  /\ LET flows == Flows(links)
         m == Maxmin(links, flows)
     IN  rates' = [links |-> links, flows |-> flows, xs |-> Allocated(flows, m),
                   drained |-> m.drained]
  /\ UNCHANGED <<allocator, links, wcmp, demand, prices, reports, changes>>

RatesNext ==
  \/ \E k \in Commodities : Evict(k) \/ \E r \in Reports : Ingest(k, r)
  \/ \E e \in Pairs : Relink(e)
  \/ Step
  \/ MaxminAllocate

RatesSpec == RatesInit /\ [][RatesNext]_rateVars

-----------------------------------------------------------------------------
(* Properties of the published rates. *)

\* Every variable holds a value of its type; no price and no rate is negative.
RatesTypeOK ==
  /\ \A e \in Pairs : links[e] \in Kinds \cup {None}
  /\ \A k \in Commodities : demand[k] \in Reports \cup {None}
  /\ \A e \in Pairs : Leq(Zero, prices[e])
  /\ \A i \in DOMAIN rates.xs : rates.flows[i].id \in Commodities /\ Leq(Zero, rates.xs[i])
  /\ reports \in 0 .. MaxReports /\ changes \in 0 .. MaxChanges /\ ticks \in 0 .. MaxTicks

\* step: "las rates entregadas nunca prometen por encima de un corte aunque los
\* precios aún estén convergiendo"; maxmin fills over what the drain left.  The
\* rates put no more on a link than its capacity.
Feasible ==
  rates # Nothing =>
    \A e \in Capacitated(rates.links) : Leq(Load(rates.flows, rates.xs, e), CapOf(rates.links, e))

\* "con α=1 esto debe ser 0 SIEMPRE que haya ruta": no commodity that drains and
\* has a route is left without a rate, by either allocator.
NoneStarved ==
  \A i \in DOMAIN rates.flows :
    rates.flows[i].routable /\ rates.flows[i].drain # Zero => Less(Zero, rates.xs[i])

\* waterfill: the drain of a commodity that is not served in full goes over an
\* exhausted link on which no commodity is served a larger fraction.
MaxMinFair ==
  (allocator = "maxmin" /\ rates # Nothing) =>
    LET flows == rates.flows
        served(i) == Times(rates.drained[i], flows[i].drain)
        draining == {i \in DOMAIN flows : flows[i].routable /\ flows[i].drain # Zero}
        over(e) == {i \in draining : \E h \in flows[i].on : h.link = e}
    IN  \A i \in draining : rates.drained[i] # One =>
          \E h \in {g \in flows[i].on : g.link \in Capacitated(rates.links)} :
            /\ Load(flows, Each(flows, served), h.link) = CapOf(rates.links, h.link)
            /\ \A j \in over(h.link) : Leq(rates.drained[j], rates.drained[i])
=============================================================================
