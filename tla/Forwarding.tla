----------------------------- MODULE Forwarding -----------------------------
(***************************************************************************)
(* How a frame finds its way: the weighted tables the SDN derives from the *)
(* topology (Wcmp), what it POSTs to a QKC (the watcher of                 *)
(* sdn/src/service.rs, with next_hop_qkc of sdn/src/topology.rs as a       *)
(* fallback), the two tables of a QKC and the choice of a hop              *)
(* (qkc/src/routing.rs), taken by every QKC on the way (qkc/src/relay.rs)  *)
(* on its own and from whatever table it has.                              *)
(*                                                                         *)
(* The hash that picks a hop covers the key ids, which change at every     *)
(* hop, so any bucket can come up.  Capacities are in units of the weight  *)
(* scale.  Both ends of a link mount it and drop it together with its      *)
(* announcement; only the tables lag behind.                               *)
(***************************************************************************)
EXTENDS Wcmp

CONSTANTS
  Grades,      \* the grades frames are sent with
  Dual         \* SDN_DUAL_GRADE_TABLES: the QKD-only table is pushed too

VARIABLES
  solved,      \* the tables of the published snapshot, by grade
  fresh,       \* the snapshot was made from the present topology
  table,       \* per QKC: its table over the whole graph
  qkd,         \* per QKC: its table over QKD links
  posted,      \* per QKC: the table a post_table has yet to store, or None
  frame        \* the frame on its way: at, dest, grade; or None

vars == <<links, solved, fresh, table, qkd, posted, frame, changes>>

-----------------------------------------------------------------------------
(* The SDN: what it sends. *)

\* next_hop_qkc: the first step of a shortest path, the least of its candidates.
NextHop(q, dest) ==
  LET es == Usable(links, "any")
      closer == Closer(es, Balls(es, dest), q)
  IN  [i \in 1 .. (IF closer = <<>> THEN 0 ELSE 1) |-> [to |-> Head(closer), weight |-> 1]]

\* The table the watcher POSTs to q: the solved one, and the way through the
\* present topology for a destination that one lacks.
FullTable(q) ==
  [d \in Qkcs \ {q} |->
     IF solved.any[q][d] # <<>> THEN solved.any[q][d] ELSE NextHop(q, d)]

\* The QKD-only table has no fallback.
QkdTable(q) == solved.qkd[q]

NoTable(q) == [d \in Qkcs \ {q} |-> <<>>]

-----------------------------------------------------------------------------
(* A QKC: the choice of a hop. *)

Total(hops) == FoldSeq(LAMBDA h, acc : acc + h.weight, 0, hops)

\* pick: the hop whose share of the cumulative weights the hash falls in.
Pick(hops, hash) ==
  LET bucket == hash % Total(hops)
      i == CHOOSE j \in DOMAIN hops :
             /\ bucket < Total(SubSeq(hops, 1, j))
             /\ \A k \in 1 .. j - 1 : bucket >= Total(SubSeq(hops, 1, k))
  IN  hops[i].to

Picks(hops) == IF hops = <<>> THEN {} ELSE {Pick(hops, h) : h \in 0 .. Total(hops) - 1}

Direct(q, d) == links[{q, d}] # None
DirectQkd(q, d) == Direct(q, d) /\ ~links[{q, d}].pqc

\* next_hop_graded: the hops that can come out; none is NoRoute.
NextHops(q, d, grade) ==
  IF grade = "qkd" /\ qkd[q] # NoTable(q)
  THEN IF DirectQkd(q, d) THEN {d} ELSE Picks(qkd[q][d])
  ELSE IF Direct(q, d) THEN {d} ELSE Picks(table[q][d])

-----------------------------------------------------------------------------

Init ==
  /\ links \in FirstLinks
  /\ solved = Solution(links) /\ fresh = TRUE
  /\ table = [q \in Qkcs |-> FullTable(q)]
  /\ qkd = [q \in Qkcs |-> IF Dual THEN QkdTable(q) ELSE NoTable(q)]
  /\ posted = [q \in Qkcs |-> None] /\ frame = None
  /\ changes = 0

\* A link is added, removed or becomes one of another kind.
Change(e) ==
  /\ changes < MaxChanges
  /\ \E k \in (Kinds \cup {None}) \ {links[e]} : links' = [links EXCEPT ![e] = k]
  /\ fresh' = FALSE
  /\ changes' = changes + 1
  /\ UNCHANGED <<solved, table, qkd, posted, frame>>

\* A snapshot made from the present topology is published.
Solve ==
  /\ ~fresh /\ fresh' = TRUE
  /\ UNCHANGED <<links, table, qkd, posted, frame, changes>>
  /\ solved' = Solution(links)

\* A post that would change nothing is left out.
Outdated(q) == table[q] # FullTable(q) \/ (Dual /\ qkd[q] # QkdTable(q))

\* Mutant: only a QKC whose table names other neighbours than it has gets a new one.
PushToEnds(q) ==
  /\ UNCHANGED <<links, solved, fresh, table, frame, changes>>
  /\ posted[q] = None /\ Outdated(q)
  /\ {n \in Qkcs \ {q} : Direct(q, n)} #
       UNION {{table[q][d][i].to : i \in DOMAIN table[q][d]} : d \in Qkcs \ {q}}
  /\ posted' = [posted EXCEPT ![q] = FullTable(q)]
  /\ qkd' = [qkd EXCEPT ![q] = IF Dual THEN QkdTable(q) ELSE @]

\* POST /forwarding-table: post_table stores the QKD table if there is one ...
Push(q) ==
  /\ UNCHANGED <<links, solved, fresh, table, frame, changes>>
  /\ posted[q] = None /\ Outdated(q)
  /\ posted' = [posted EXCEPT ![q] = FullTable(q)]
  /\ qkd' = [qkd EXCEPT ![q] = IF Dual THEN QkdTable(q) ELSE @]

\* ... and the full one after it.
Replace(q) ==
  /\ UNCHANGED <<links, solved, fresh, qkd, frame, changes>>
  /\ posted[q] # None
  /\ table' = [table EXCEPT ![q] = posted[q]]
  /\ posted' = [posted EXCEPT ![q] = None]

\* handle_local_send: a frame for the sender's own QKC is refused.
Send(q, d, grade) ==
  /\ frame = None /\ q # d
  /\ frame' = [at |-> q, dest |-> d, grade |-> grade]
  /\ UNCHANGED <<links, solved, fresh, table, qkd, posted, changes>>

\* handle_incoming_inner at the destination, or NoRoute: the frame is gone.
\* A hop over a link that is no longer there is an error as well.
Ends ==
  /\ frame # None
  /\ \/ frame.at = frame.dest
     \/ /\ frame.at # frame.dest
        /\ LET hops == NextHops(frame.at, frame.dest, frame.grade)
           IN  hops = {} \/ \E n \in hops : ~Direct(frame.at, n)
  /\ frame' = None
  /\ UNCHANGED <<links, solved, fresh, table, qkd, posted, changes>>

\* forward_plaintext to the chosen neighbour.
Forward ==
  /\ frame # None /\ frame.at # frame.dest
  /\ \E n \in NextHops(frame.at, frame.dest, frame.grade) :
       Direct(frame.at, n) /\ frame' = [frame EXCEPT !.at = n]
  /\ UNCHANGED <<links, solved, fresh, table, qkd, posted, changes>>

Next ==
  \/ \E e \in Pairs : Change(e)
  \/ Solve
  \/ \E q \in Qkcs : Push(q) \/ Replace(q)
  \/ \E q, d \in Qkcs, grade \in Grades : Send(q, d, grade)
  \/ Ends
  \/ Forward

Spec == Init /\ [][Next]_vars

\* The solver and the watcher run for ever, and a QKC handles its frames.
Fairness ==
  /\ WF_vars(Solve)
  /\ \A q \in Qkcs : WF_vars(Push(q)) /\ WF_vars(Replace(q))
  /\ WF_vars(Forward \/ Ends)

FairSpec == Spec /\ Fairness

-----------------------------------------------------------------------------
(* Properties. *)

TableOK(t) ==
  \A q \in Qkcs : \A d \in Qkcs \ {q} : \A i \in DOMAIN t[q][d] :
    t[q][d][i].to \in Qkcs \ {q} /\ t[q][d][i].weight > 0

\* Every variable holds a value of its type; a table names another QKC as a hop,
\* with a weight that is not zero.
TypeOK ==
  /\ \A e \in Pairs : links[e] \in Kinds \cup {None}
  /\ TableOK(solved.any) /\ TableOK(solved.qkd) /\ fresh \in BOOLEAN
  /\ TableOK(table) /\ TableOK(qkd)
  /\ frame = None \/ (frame.at \in Qkcs /\ frame.dest \in Qkcs /\ frame.grade \in Grades)
  /\ changes \in 0 .. MaxChanges

\* Every QKC's table is the one the SDN would send it now.
Settled == fresh /\ \A q \in Qkcs : ~Outdated(q) /\ posted[q] = None

\* wcmp_from_topology: "la distancia decrece en cada salto, así que no hay
\* bucles por construcción, aunque cada QKC decida por su cuenta".  Once the
\* tables agree, every hop brings a frame closer to its destination and no frame
\* is dropped while its destination can be reached: a QKD-grade frame over QKD
\* links if the QKC it is at has any QKD route, any other frame over all links.
EveryHopCloser ==
  [][frame # None /\ frame' # frame /\ Settled =>
       LET grade == IF frame.grade = "qkd" /\ qkd[frame.at] # NoTable(frame.at)
                    THEN "qkd" ELSE "any"
           balls == Balls(Usable(links, grade), frame.dest)
       IN  IF frame' = None
           THEN frame.at = frame.dest \/ Dist(balls, frame.at) = Unreachable
           ELSE Dist(balls, frame'.at) < Dist(balls, frame.at)]_frame

\* wire/src/lib.rs, Frame: "una clave QKD-grade nunca cruza un enlace PQC", and mcmcf.rs
\* of the QKD-only table: "para que un frame de ese grado jamás pise un enlace PQC".  Once
\* the tables agree, no QKD-grade frame takes a PQC link.
QkdGradeKept ==
  [][frame # None /\ frame' # None /\ Settled /\ frame.grade = "qkd" =>
       ~links[{frame.at, frame'.at}].pqc]_frame

\* A frame does not go round for ever: tables of different ages can send it in
\* a circle, and no hop count ends that, but the tables agree again.
FramesEnd == []<>(frame = None)

\* pick: "a list [(A, 3), (B, 1)] sends 75 % of (hash space) to A": of the
\* buckets of a weighted entry, each hop has as many as its weight.
SharesAsWeighted ==
  \A q \in Qkcs : \A d \in Qkcs \ {q} :
    LET hops == table[q][d]
    IN  \A i \in DOMAIN hops :
          Cardinality({h \in 0 .. Total(hops) - 1 : Pick(hops, h) = hops[i].to}) = hops[i].weight
=============================================================================
