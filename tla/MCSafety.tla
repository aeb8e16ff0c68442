------------------------------ MODULE MCSafety ------------------------------
(***************************************************************************)
(* The components whose properties are invariants or say what one step may *)
(* not do.  A behaviour is one of one component:                           *)
(*   replay       four sessions: two go past the width of the window, two  *)
(*                send a single frame (ReplayWindow);                      *)
(*   rates        two DKMSs on a square of four QKCs (RateAlloc);          *)
(*   buckets      two SAEs that draw on two peers (PeerBuckets);           *)
(*   wire         frames with fields at and past their limits (WireFormat);*)
(*   transcripts  what is signed and what is verified (Transcripts);       *)
(*   stock        the stock a DKMS asks its QKC for (StockBalance);        *)
(*   bindings     two QKCs, each with an ORR and a DKMS (SdnAnchors);      *)
(*   graph        two QKCs that declare and measure their link (SdnGraph); *)
(*   paths        five QKCs, each pair linked or not (SdnPaths);           *)
(*   lp           three pairs of DKMSs over four links (LpAlloc).          *)
(***************************************************************************)
EXTENDS ReplayWindow, RateAlloc, TLC

CONSTANTS Unavailable, NoVotes, s1, s2, q1, q2, o1, o2, d1, d2

VARIABLES
  which, \* the component that runs
  now, occupancy, bucket, lastRequest, lastEviction, admitted, outcome,
  sent, wire, reader, expect, received, heard, ended,
  trust, said, tag, scriptHeard, verdict,
  stored, made, mine, theirs, stockWire, asked, pulled, poll, last, stockWin,
  closed, base, errStreak, polls, faults,
  topo, anchor, seen, hand, sweep, req, moves, late,
  graphTopo, graphReports, graphHand, graphLeaving,
  meta, orrAt, queue, pathPrev, path, done,
  cap, lpDemand, lex, phase, floor, sigma, fill, lpRates

bucketVars == <<now, occupancy, bucket, lastRequest, lastEviction, admitted,
                outcome>>
wireVars == <<sent, wire, reader, expect, received, heard, ended>>
scriptVars == <<trust, said, tag, scriptHeard, verdict>>
stockVars == <<stored, made, mine, theirs, stockWire, asked, pulled, poll,
               last, stockWin, closed, base, errStreak, polls, faults>>
bindingVars == <<topo, anchor, seen, hand, sweep, req, moves, late>>
graphVars == <<graphTopo, graphReports, graphHand, graphLeaving>>
pathVars == <<meta, orrAt, queue, pathPrev, path, done>>
lpVars == <<cap, lpDemand, lex, phase, floor, sigma, fill, lpRates>>
allVars == <<which, vars, rateVars, bucketVars, wireVars, scriptVars,
             stockVars, bindingVars, graphVars, pathVars, lpVars>>

MCLast == (0 :> 3) @@ (1 :> 3) @@ (2 :> 1) @@ (3 :> 1)

\* RateAlloc: QKD over QKC 2, and a wider way of PQC links over QKC 4.
Link(isPqc, units) == [pqc |-> isPqc, cap |-> units]
MCAnchorOf == (d1 :> 1) @@ (d2 :> 3)
MCKinds == {Link(FALSE, 0), Link(FALSE, 1), Link(TRUE, 2)}
Square ==
  [e \in Pairs |-> CASE e \in {{1, 2}, {2, 3}} -> Link(FALSE, 1)
                     [] e \in {{1, 4}, {3, 4}} -> Link(TRUE, 2)
                     [] OTHER -> None]
MCFirstLinks == {Square}
MCReports == {[drain |-> 4, room |-> 5]}
Half == Ratio(1, 2)

\* PeerBuckets
BucketPeers == <<1, 2>>
BucketRates == <<1, 0>>
BucketAsks == {[sae |-> "s1", peers |-> {1, 2}, cost |-> 1], [sae |-> "s2", peers |-> {1}, cost |-> 2]}

\* WireFormat: fields of every length up to one past the limit of their prefix.
Msg(k, auth, ids, o, dk, body) ==
  [kind |-> k, auth |-> auth, grade |-> 1, ints |-> 0, key_ids |-> ids, orr |-> o, dkms |-> dk, body |-> body]
WireMessages ==
  {Msg(1, FALSE, ids, o, <<>>, <<1>>) :
     ids \in {<<>>, <<<<0>>, <<1>>>>, <<<<0>>, <<1, 1>>>>, <<<<0, 1, 0, 1>>>>},
     o \in {<<>>, <<0, 1>>, <<1, 0, 1, 0>>}}
  \cup {Msg(1, TRUE, <<>>, <<>>, dk, <<1>>) : dk \in {<<>>, <<0, 1>>, <<1, 0, 1, 0>>}}
  \cup {Msg(2, auth, <<>>, <<>>, <<>>, body) :
          auth \in BOOLEAN,
          body \in {<<>>, <<0, 1>>, <<1, 1, 1, 1, 1>>, <<1, 1, 1, 1, 1, 1, 1, 1, 1>>}}

\* Transcripts: adjacent fields whose bytes could be mistaken for one another.
Text == {<<>>, <<1>>, <<0, 1>>}
Short == {<<>>, <<1>>}
SignedMessages ==
  [kind : {"init", "resp", "resync"}, epoch : 0 .. 1, from : {0}, to : {1}, blob : Text, suite : Text, size : {0}]
  \cup [kind : {"pubkey"}, id : Text, suite : Text, pk : Text]
  \cup [kind : {"req"}, epoch : {0}, from : Text, peer : Text]
  \cup [kind : {"answer", "fin"}, epoch : {0}, from : Short, peer : Text, body : Text]
  \cup [kind : {"frame"}, session : 1 .. 2, counter : {1}, fixed : {0},
        keyIds : {<<>>, <<<<>>>>, <<<<1>>>>, <<<<>>, <<1>>>>}, orr : Text, dkms : Short, body : Short]
AnySigner == {"cert", "seed", "none"}
AnyTrust == [roots : BOOLEAN, key : BOOLEAN, strict : BOOLEAN]

\* SdnAnchors and SdnGraph
TwoQkcs == {q1, q2}
TwoOrrs == {o1, o2}
TwoDkms == {d1, d2}
TwoSaes == {s1, s2}
AnchoredAt == (o1 :> q1) @@ (o2 :> q2) @@ (d1 :> o1) @@ (d2 :> o2)
SaesOf == (d1 :> {s1}) @@ (d2 :> {s1, s2})
EdgeMeta(isPqc, kps) == [pqc |-> isPqc, cap |-> kps]
EdgeMetas == {EdgeMeta(FALSE, 100), EdgeMeta(TRUE, 120)}
EdgeRates == {100, 104, 120}

\* SdnPaths: the links of QKCs that add up to 6 are PQC ones.
PathPairs == {e \in (1 .. 5) \X (1 .. 5) : e[1] < e[2]}
PathMetas == [e \in PathPairs |-> IF e[1] + e[2] = 6 THEN 99 ELSE (e[2] % 3) + 1]
PathOrrs == {{1, 5}, {1, 3, 5}}

\* LpAlloc
LpPairs == {[src |-> 2, dst |-> 1], [src |-> 1, dst |-> 3], [src |-> 3, dst |-> 4]}
LpEdges == {{1, 2}, {2, 3}, {3, 4}, {1, 3}}
LpPqc == {{1, 3}}
LpCaps == {0, 2}

Buckets == INSTANCE PeerBuckets WITH
  Peers <- BucketPeers, Asks <- BucketAsks, Window <- 2, MinCapacity <- 1,
  LinkRate <- BucketRates, Scale <- 2, MaxKeys <- 2, MaxNow <- 4

Wire == INSTANCE WireFormat WITH
  U8 <- 3, U16 <- 3, MaxTotal <- 18, Messages <- WireMessages, MaxSent <- 2

Scripts == INSTANCE Transcripts WITH
  U16 <- 3, Messages <- SignedMessages, Signers <- AnySigner,
  Trusts <- AnyTrust, heard <- scriptHeard

Stock == INSTANCE StockBalance WITH
  MaxKeyCount <- 4, CeilingGuardMin <- 8, WindowMinKeys <- 3, MaxMade <- 3,
  MaxPolls <- 3, MaxFaults <- 1, wire <- stockWire, win <- stockWin

Bindings == INSTANCE SdnAnchors WITH
  Qkcs <- TwoQkcs, Orrs <- TwoOrrs, Dkms <- TwoDkms, Saes <- TwoSaes,
  FirstAnchor <- AnchoredAt, Listed <- SaesOf, MaxSaes <- 1, MaxMoves <- 0,
  MaxLate <- 1

Graph == INSTANCE SdnGraph WITH
  Qkcs <- TwoQkcs, Metas <- EdgeMetas, Rates <- EdgeRates, Inf <- NoVotes,
  topo <- graphTopo, reports <- graphReports, hand <- graphHand, leaving <- graphLeaving

Paths == INSTANCE SdnPaths WITH
  N <- 5, Metas <- PathMetas, OrrSets <- PathOrrs, prev <- pathPrev

Lp == INSTANCE LpAlloc WITH
  Commodity <- LpPairs, Edge <- LpEdges, PqcEdge <- LpPqc, Caps <- LpCaps,
  PqcCap <- 4, Drain <- 2, EtaMax <- 1, demand <- lpDemand, rates <- lpRates

MCInit ==
  /\ which \in {"replay", "rates", "buckets", "wire", "transcripts", "stock",
                 "bindings", "graph", "paths", "lp"}
  /\ Init /\ (which # "replay" => adopt = "Any")
  /\ IF which = "rates" THEN RatesInit
     ELSE /\ allocator = None /\ links = None /\ wcmp = None /\ demand = None
          /\ prices = None /\ rates = None /\ reports = 0 /\ changes = 0
          /\ ticks = 0
  /\ Buckets!Init
  /\ Wire!Init
  /\ Scripts!Init
  /\ Stock!Init
  /\ Bindings!Init
  /\ Graph!Init
  /\ IF which = "paths" THEN Paths!Init
     ELSE /\ meta = None /\ orrAt = None /\ queue = None /\ pathPrev = None
          /\ path = None /\ done = None
  /\ IF which = "lp" THEN Lp!Init
     ELSE /\ cap = None /\ lpDemand = None /\ lex = None /\ phase = None
          /\ floor = None /\ sigma = None /\ fill = None /\ lpRates = None

\* The component that runs takes a step, the others keep their initial values.
MCNext ==
  \/ /\ UNCHANGED which
     /\ IF which = "replay" THEN Next ELSE UNCHANGED vars
     /\ IF which = "rates" THEN RatesNext ELSE UNCHANGED rateVars
     /\ IF which = "buckets" THEN Buckets!Next ELSE UNCHANGED bucketVars
     /\ IF which = "wire" THEN Wire!Next ELSE UNCHANGED wireVars
     /\ IF which = "transcripts" THEN Scripts!Next ELSE UNCHANGED scriptVars
     /\ IF which = "stock" THEN Stock!Next ELSE UNCHANGED stockVars
     /\ IF which = "bindings" THEN Bindings!Next ELSE UNCHANGED bindingVars
     /\ IF which = "graph" THEN Graph!Next ELSE UNCHANGED graphVars
     /\ IF which = "paths" THEN Paths!Next ELSE UNCHANGED pathVars
     /\ IF which = "lp" THEN Lp!Next ELSE UNCHANGED lpVars
  \/ which # "replay" /\ UNCHANGED allVars  \* only ReplayWindow never stops

MCSpec == MCInit /\ [][MCNext]_allVars

-----------------------------------------------------------------------------
(* The properties of the components, each stated and explained in its module, *)
(* in groups by what they promise.                                            *)

\* The rates and stocks the nodes go by are sound.  NUM publishes rates that fit the
\* links and starve nobody, water filling a max-min fair share (rates_num.rs); the LP's rates
\* fit, none is below the common floor, and nobody has extra while another lacks what it
\* drains (mcmcf.rs); no estimate of the peer's stock counts keys twice.
RatesSound ==
  /\ which = "rates" => RatesTypeOK /\ Feasible /\ NoneStarved /\ MaxMinFair
  /\ which = "lp" => Lp!TypeOK /\ Lp!RatesCarried /\ Lp!NoneBelowFloor /\ Lp!DrainBeforeExtra
  /\ which = "stock" => Stock!TypeOK /\ Stock!NotOverstated
  /\ which = "buckets" => Buckets!TypeOK

\* Both ends of a format agree.  What a reader decodes is what was encoded, nothing that
\* was encoded is refused, the authentication trailer is cut where it was put; a tag
\* verifies only the message it was made for, and an announcement is taken unchecked
\* only where nothing could check it.
FormatsAgree ==
  /\ which = "wire" => Wire!TypeOK /\ Wire!ReadIsWritten /\ Wire!NothingRefused /\ Wire!HeardIsSaid
  /\ which = "transcripts" =>
       Scripts!TypeOK /\ Scripts!VerifiedIsSealed /\ Scripts!CheckedWhenItCanBe

\* The SDN's picture of the network is consistent.  orr_by_qkc names an ORR that hangs
\* there (dkms_by_qkc need not), whoever is in the snapshot will expire, no SAE is left with a DKMS that is
\* gone; an edge is what its ends declare, heartbeats change nothing, no announcement's
\* work is discarded; a path is a shortest one, its hint names the ORRs on the way in
\* order, and its bottleneck promises no more than a link of it carries.
TopologySound ==
  /\ which = "bindings" => /\ Bindings!TypeOK /\ Bindings!OrrIndexSound
                           /\ Bindings!NobodyUnwatched /\ Bindings!SaesServed
  /\ which = "graph" => /\ Graph!TypeOK /\ Graph!EdgesAsDeclared
                        /\ Graph!HeartbeatsSettle /\ Graph!NothingLost
  /\ which = "paths" => /\ Paths!TypeOK /\ Paths!PathIsShortest
                        /\ Paths!OrrPathIsLayered /\ Paths!PromisesNoMore

\* A step costs others nothing: a refused request is charged to no peer, after a request
\* nothing is left of an SAE that fell silent, and an announcement takes no SAE from
\* another DKMS.
OthersUntouched ==
  [][/\ Buckets!RefusedIsFree /\ Buckets!SilentForgotten
     /\ Bindings!NotTakenByAnnouncing]_allVars
=============================================================================
