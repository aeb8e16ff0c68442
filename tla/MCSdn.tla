---------------------------- MODULE MCSdn ----------------------------
(***************************************************************************)
(* What the SDN controller sets in motion comes to rest.  Five small       *)
(* instances share this module, and a behaviour is one of one of them:     *)
(*   forwarding  frames over a square of four QKCs (Forwarding);           *)
(*   moves       two ORRs and two QKCs, re-anchored twice (SdnAnchors);    *)
(*   chain       an ORR that moves between two QKCs under its DKMS, late   *)
(*               and swept (SdnAnchors);                                   *)
(*   push        the snapshot and the tables of two QKCs (TopologyPush);   *)
(*   cache       the bindings a DKMS has cached (PathCache).               *)
(* The variables of the others keep their initial values.                  *)
(***************************************************************************)
EXTENDS Forwarding, TLC

CONSTANTS
  Instances,  \* those that run, of the five above
  q1, q2, o1, o2, d1, s1, a1, a2

VARIABLES
  which,                                                \* the instance
  topo, anchor, seen, hand, sweep, req, moves, late,    \* moves and chain
  solving, snap, last, push, up, pushTable, latePost, pushBumps, pushFaults,
  told, client, tx, queue, cache, query, bumps, faults  \* cache

anchorVars == <<topo, anchor, seen, hand, sweep, req, moves, late>>
pushVars == <<solving, snap, last, push, up, pushTable, latePost, pushBumps, pushFaults>>
cacheVars == <<told, client, tx, queue, cache, query, bumps, faults>>
allVars == <<which, vars, anchorVars, pushVars, cacheVars>>

Qkd(cap) == [pqc |-> FALSE, cap |-> cap]
Pqc(cap) == [pqc |-> TRUE, cap |-> cap]

MCKinds == {Qkd(0), Qkd(1), Pqc(2)}

\* A square of two sides, the wider one PQC, so that QKC 4 has no QKD link.
Square ==
  [e \in Pairs |-> CASE e \in {{1, 2}, {2, 3}} -> Qkd(1)
                     [] e \in {{3, 4}, {1, 4}} -> Pqc(2) [] OTHER -> None]

MCFirstLinks == {Square}

Moves == INSTANCE SdnAnchors WITH
  Qkcs <- {q1, q2}, Orrs <- {o1, o2}, Dkms <- {}, Saes <- {},
  FirstAnchor <- (o1 :> q1) @@ (o2 :> q2), Listed <- {},
  MaxSaes <- 0, MaxMoves <- 2, MaxLate <- 1

Chain == INSTANCE SdnAnchors WITH
  Qkcs <- {q1, q2}, Orrs <- {o1}, Dkms <- {d1}, Saes <- {},
  FirstAnchor <- (o1 :> q1) @@ (d1 :> o1), Listed <- (d1 :> {}),
  MaxSaes <- 0, MaxMoves <- 1, MaxLate <- 1

Posts == INSTANCE TopologyPush WITH
  Qkcs <- {q1, q2}, Solvers <- {s1}, Addrs <- {a1, a2},
  MaxBumps <- 2, MaxFaults <- 1,
  table <- pushTable, late <- latePost, bumps <- pushBumps, faults <- pushFaults

Bindings == INSTANCE PathCache WITH
  Cap <- 2, Ttl <- TRUE, MaxBumps <- 2, MaxFaults <- 2

MCInit ==
  /\ which \in Instances
  /\ Init
  /\ IF which = "chain" THEN Chain!Init ELSE Moves!Init
  /\ Posts!Init /\ (which # "push" => snap.addr = a1)
  /\ Bindings!Init

MCNext ==
  /\ UNCHANGED which
  /\ \/ /\ which = "forwarding" /\ Next
        /\ UNCHANGED <<anchorVars, pushVars, cacheVars>>
     \/ /\ \/ which = "moves" /\ Moves!Next
           \/ which = "chain" /\ Chain!Next
        /\ UNCHANGED <<vars, pushVars, cacheVars>>
     \/ /\ which = "push" /\ Posts!Next
        /\ UNCHANGED <<vars, anchorVars, cacheVars>>
     \/ /\ which = "cache" /\ Bindings!Next
        /\ UNCHANGED <<vars, anchorVars, pushVars>>

\* The fairness of the instance that runs.  A behaviour belongs to one instance,
\* so one condition can stand for a fair step of each: Turn1 .. Turn4 are the
\* steps that compete with others (strong fairness), the rest do not.
Turn1 == \/ which = "moves" /\ Moves!AnnounceQkc(q1) /\ UNCHANGED pushVars
         \/ which = "chain" /\ Chain!AnnounceQkc(q1) /\ UNCHANGED pushVars
         \/ which = "push" /\ Posts!Tick /\ UNCHANGED anchorVars
Turn2 == \/ which = "moves" /\ Moves!AnnounceOrr(o1)
         \/ which = "chain" /\ Chain!AnnounceOrr(o1)
Turn3 == \/ which = "moves" /\ Moves!AnnounceQkc(q2)
         \/ which = "chain" /\ Chain!AnnounceQkc(q2)
Turn4 == \/ which = "moves" /\ Moves!AnnounceOrr(o2)
         \/ which = "chain" /\ Chain!AnnounceDkms(d1)

AnchorsFairness ==
  /\ SF_<<anchorVars, pushVars>>(Turn1)
  /\ SF_anchorVars(Turn2) /\ SF_anchorVars(Turn3) /\ SF_anchorVars(Turn4)
  /\ WF_anchorVars(which = "moves" /\ Moves!Touch)
  /\ WF_anchorVars(which = "moves" /\ Moves!Collect)
  /\ WF_anchorVars(which = "moves" /\ Moves!Take)
  /\ \A m \in {q1, q2, o1, o2} : /\ WF_anchorVars(which = "moves" /\ Moves!RefusedTooLong(m))
                                 /\ WF_anchorVars(which = "moves" /\ Moves!Delete(m))
  /\ WF_anchorVars(which = "chain" /\ Chain!Touch)
  /\ WF_anchorVars(which = "chain" /\ Chain!Collect)
  /\ WF_anchorVars(which = "chain" /\ Chain!Take)
  /\ \A m \in {q1, q2, o1, d1} : /\ WF_anchorVars(which = "chain" /\ Chain!RefusedTooLong(m))
                                 /\ WF_anchorVars(which = "chain" /\ Chain!Delete(m))

PushFairness ==
  /\ WF_pushVars(which = "push" /\ Posts!StartSolve(s1))
  /\ WF_pushVars(which = "push" /\ Posts!Publish(s1))
  /\ WF_pushVars(which = "push" /\ Posts!EndPush)
  /\ WF_pushVars(which = "push" /\ Posts!PostLate)
  /\ \A q \in {q1, q2} :
       /\ WF_pushVars(which = "push" /\ (Posts!PostAccepted(q) \/ Posts!PostFails(q)))
       /\ WF_pushVars(which = "push" /\ Posts!Restart(q))

CacheFairness ==
  /\ WF_cacheVars(which = "cache" /\ Bindings!Broadcast)
  /\ WF_cacheVars(which = "cache" /\ Bindings!Connect)
  /\ WF_cacheVars(which = "cache" /\ Bindings!Event)
  /\ WF_cacheVars(which = "cache" /\ Bindings!StreamEnds)
  /\ WF_cacheVars(which = "cache" /\ Bindings!Answered)
  /\ WF_cacheVars(which = "cache" /\ Bindings!Expire)

\* Solve is the one step that makes the snapshot fresh.
ForwardingFairness ==
  /\ WF_fresh(which = "forwarding" /\ ~fresh /\ fresh' = TRUE)
  /\ \A q \in Qkcs : /\ WF_vars(which = "forwarding" /\ Push(q))
                       /\ WF_vars(which = "forwarding" /\ Replace(q))
  /\ WF_vars(which = "forwarding" /\ (Forward \/ Ends))

MCSpec ==
  /\ MCInit /\ [][MCNext]_allVars
  /\ ForwardingFairness /\ AnchorsFairness /\ PushFairness /\ CacheFairness

-----------------------------------------------------------------------------
(* The properties of the instances, each stated and explained in its module, *)
(* in groups by what they promise.                                           *)

Sound ==
  CASE which = "forwarding" -> TypeOK
    [] which = "moves" -> Moves!TypeOK /\ Moves!OrrIndexSound /\ Moves!NobodyUnwatched
    [] which = "chain" -> Chain!TypeOK /\ Chain!OrrIndexSound /\ Chain!NobodyUnwatched
    [] which = "push" -> Posts!TypeOK
    [] which = "cache" -> Bindings!TypeOK

\* Frames arrive by the tables: every hop of agreed tables brings a frame closer to its
\* destination (over QKD links if it is of that grade and its QKC has a QKD route), the
\* hops of an entry share the hashes by their weights, and no frame goes round for ever
\* between tables of different ages (next_hops, pick).
FramesArrive == EveryHopCloser /\ []SharesAsWeighted /\ FramesEnd

\* What the SDN controller sets in motion comes to rest where the configuration says:
\* every ORR hangs where it announces itself, a DKMS is known under the QKC that its ORR
\* moved to, the tables pushed to the QKCs and the bindings a DKMS cached follow the
\* topology; and on the way orr_by_qkc names no ORR that has moved or gone, and nobody
\* stays in the topology unwatched.
SdnSettles ==
  /\ []Sound
  /\ <>[](/\ which = "moves" => Moves!OrrsSettled
          /\ which = "chain" => Chain!DkmsSettled
          /\ which = "push" => Posts!Followed
          /\ which = "cache" => Bindings!Fresh)

\* In the end dkms_by_qkc names a DKMS only under the QKC that its ORR hangs from, also
\* when the ORR moved under it (upsert_dkms, DkmsIndexSettled).
DkmsIndexSettles == <>[](which = "chain" => Chain!DkmsIndexSettled)
=============================================================================
