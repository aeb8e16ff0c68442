-------------------------------- MODULE Wcmp --------------------------------
(***************************************************************************)
(* The weighted multi-path tables of the SDN: wcmp_from_topology and       *)
(* quantise_weight of sdn/src/mcmcf.rs.  A topology maps each pair of QKCs *)
(* to its link, [pqc, cap], or None; capacities are in units of the weight *)
(* scale.  The topology itself is changed by the modules that use it.      *)
(***************************************************************************)
EXTENDS Naturals, FiniteSetsExt, SequencesExt

CONSTANTS
  Qkcs,        \* the QKCs: consecutive numbers, ordered as the SDN sorts them
  Kinds,       \* what a link can be: [pqc, cap]
  FirstLinks,  \* the topologies to start from
  MaxChanges,  \* bound: links that change
  None         \* no value

VARIABLES
  links,       \* the topology: per pair of QKCs its link, or None
  changes      \* links changed so far

Pairs == {e \in SUBSET Qkcs : Cardinality(e) = 2}

Inf == 1000

\* The links of a topology that frames of a grade may use.
Usable(t, grade) ==
  {e \in Pairs : t[e] # None /\ (grade = "qkd" => ~t[e].pqc)}

\* The QKCs within 0, 1, 2 ... hops of dest: the breadth-first search.
Balls(es, dest) ==
  LET grow(ball) == ball \cup {q \in Qkcs : \E n \in ball : {q, n} \in es}
  IN  FoldSet(LAMBDA q, balls : Append(balls, grow(Last(balls))), <<{dest}>>, Qkcs \ {dest})

Unreachable == Cardinality(Qkcs)

\* The hops from q to the destination of the search.
Dist(balls, q) == Cardinality({k \in DOMAIN balls : q \notin balls[k]})

\* The neighbours of q in the order of their names.
Neighbours(es, q) == SetToSortSeq({n \in Qkcs : {q, n} \in es}, <)

\* The neighbours of q that are one hop closer to the destination.
Closer(es, balls, q) ==
  SelectSeq(Neighbours(es, q), LAMBDA n : Dist(balls, n) + 1 = Dist(balls, q))

Lesser(a, b) == IF a <= b THEN a ELSE b

\* The bottleneck of the widest way down from q to dest.
WidestWay(t, es, balls, dest, q) ==
  LET width[p \in Qkcs] ==
        IF p = dest THEN Inf
        ELSE LET ways == {Lesser(t[{p, n}].cap, width[n]) : n \in ToSet(Closer(es, balls, p))}
             IN  CHOOSE w \in ways \cup {0} : \A v \in ways : v <= w
  IN  width[q]

\* quantise_weight never gives a weight of zero.
Quantise(cap) == IF cap = 0 THEN 1 ELSE cap

\* wcmp_from_topology, the entry of q for dest: hops and their weights.
Wcmp(t, es, q, dest) ==
  LET balls == Balls(es, dest)
      closer == Closer(es, balls, q)
      hop(n) == [to |-> n,
                 weight |-> Quantise(Lesser(t[{q, n}].cap, WidestWay(t, es, balls, dest, n)))]
  IN  [i \in DOMAIN closer |-> hop(closer[i])]

\* The tables of a snapshot, by grade: for every QKC, over the links of the grade.
Solution(t) ==
  [grade \in {"any", "qkd"} |-> [q \in Qkcs |-> [d \in Qkcs \ {q} |-> Wcmp(t, Usable(t, grade), q, d)]]]
=============================================================================
