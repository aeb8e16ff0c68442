------------------------------ MODULE SdnPaths ------------------------------
(***************************************************************************)
(* The paths the SDN computes when it is asked for one: ComputePath over   *)
(* the QKCs (sdn/src/routing.rs, both APIs) and GetOrrPath over the ORRs   *)
(* (sdn/src/grpc_server.rs).  Both run the breadth-first search of         *)
(* Topology::shortest_path_qkc on the snapshot they loaded.                *)
(*                                                                         *)
(* The QKCs are 1..N, an ORR is named by its QKC, and one turn of the      *)
(* search's outer loop is a step.                                          *)
(***************************************************************************)
EXTENDS Naturals, Sequences, FiniteSets, SequencesExt

CONSTANTS
    N,       \* the number of QKCs
    Metas,   \* Pairs -> the capacity an edge has if it is there, or Pqc
    OrrSets  \* the sets of QKCs that may have an ORR

Node == 1..N
NoEdge == 0
Pqc == 99        \* a PQC edge has no capacity of its own
Pairs == {e \in Node \X Node : e[1] < e[2]}
Src == 1
Dst == N

VARIABLES
    meta,    \* the edges of the snapshot: Pairs -> capacity, Pqc or NoEdge
    orrAt,   \* orr_by_qkc: the QKCs with an ORR
    queue,   \* the search's queue
    prev,    \* Node -> where the search came from: 0 not yet, itself at the source
    path,    \* the nodes found, <<>> when none
    done
pathVars == <<meta, orrAt, queue, prev, path, done>>

Edge(a, b) == meta[IF a < b THEN <<a, b>> ELSE <<b, a>>]

Neighbors(a) == {b \in Node \ {a} : Edge(a, b) # NoEdge}

Init ==
    /\ \E g \in SUBSET Pairs : meta = [e \in Pairs |-> IF e \in g THEN Metas[e] ELSE NoEdge]
    /\ orrAt \in OrrSets
    /\ queue = <<Src>> /\ path = <<>> /\ done = FALSE
    /\ prev = [n \in Node |-> IF n = Src THEN Src ELSE 0]

\* The path is read back from the destination, and reversed.
Back(p) ==
    LET back[n \in Node] == IF p[n] = n THEN <<n>> ELSE Append(back[p[n]], n)
    IN  back[Dst]

\* Neighbours that were not reached yet.
New(n) == {m \in Neighbors(n) : prev[m] = 0}

Ascending(s) == SetToSortSeq(s, <)

Enqueue(n) == Tail(queue) \o Ascending(New(n))

\* One turn of shortest_path_qkc.
Search ==
    /\ ~done
    /\ IF queue = <<>>
       THEN done' = TRUE /\ UNCHANGED <<queue, prev, path>>
       ELSE LET n == Head(queue)
            IN /\ prev' = [m \in Node |-> IF m \in New(n) THEN n ELSE prev[m]]
               /\ IF Dst \in New(n)
                  THEN done' = TRUE /\ path' = Back(prev') /\ queue' = <<>>
                  ELSE /\ queue' = Enqueue(n)
                       /\ UNCHANGED <<done, path>>
    /\ UNCHANGED <<meta, orrAt>>

Next == Search
Spec == Init /\ [][Next]_pathVars

----------------------------------------------------------------------------
(* What the two calls make of the path.                                    *)

Hops == {<<path[i], path[i + 1]>> : i \in 1..Len(path) - 1}

\* compute: the least capacity of the QKD hops, 0 when there is none.
Bottleneck ==
    LET caps == {Edge(h[1], h[2]) : h \in Hops} \ {Pqc}
    IN IF caps = {} THEN 0 ELSE CHOOSE c \in caps : \A d \in caps : c <= d

\* get_orr_path: the QKCs that have an ORR.
OrrPath == SelectSeq(path, LAMBDA n : n \in orrAt)

----------------------------------------------------------------------------
TypeOK ==
    /\ \A e \in Pairs : meta[e] \in {Metas[e], NoEdge}
    /\ orrAt \subseteq Node
    /\ ToSet(queue) \subseteq Node /\ ToSet(path) \subseteq Node
    /\ prev \in [Node -> Node \cup {0}]

(* The nodes within k hops of the source, by definition.                   *)
Ball[k \in Nat] ==
    IF k = 0 THEN {Src} ELSE Ball[k - 1] \cup UNION {Neighbors(n) : n \in Ball[k - 1]}

(* The search finds a path when there is one, every hop of it is an edge   *)
(* of the snapshot, and no path is shorter (shortest_path_qkc stops at the *)
(* first sight of the destination).                                        *)
PathIsShortest ==
    done =>
      IF path = <<>> THEN Dst \notin Ball[N]
      ELSE /\ path[1] = Src /\ path[Len(path)] = Dst
           /\ \A h \in Hops : Edge(h[1], h[2]) # NoEdge
           /\ Dst \notin Ball[Len(path) - 2]

(* An answer of GetOrrPath starts with the ORR that asks, ends with the    *)
(* one it wants to reach, and passes only QKCs that have an ORR, each      *)
(* once: the sender makes a layer for every one of them.                   *)
OrrPathIsLayered ==
    done /\ path # <<>> =>
      /\ OrrPath[1] = Src /\ OrrPath[Len(OrrPath)] = Dst
      /\ ToSet(OrrPath) \subseteq orrAt
      /\ Cardinality(ToSet(OrrPath)) = Len(OrrPath)

(* The capacity ComputePath reports is one that every QKD hop of the path  *)
(* has, and it is 0 only for a path without one.                           *)
PromisesNoMore ==
    done /\ path # <<>> =>
      \A h \in Hops : Edge(h[1], h[2]) # Pqc => Bottleneck \in 1..Edge(h[1], h[2])
============================================================================
