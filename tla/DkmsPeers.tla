----------------------------- MODULE DkmsPeers -----------------------------
(***************************************************************************)
(* The peers of one DKMS (dkms/src/peers.rs): the ones of its node.yml,    *)
(* with the policies the operator gave them, and what the SDN answers to   *)
(* its announcements (dkms/src/southbound/sdn_announce.rs).                *)
(*                                                                         *)
(* The registry is two maps that are replaced one after the other: the     *)
(* peers, and the ORR of each peer that is reached through one, which the  *)
(* generator reads first.  A policy (max_hops, orr_path, sni) is one       *)
(* value; a peer the SDN made known has the default.                       *)
(***************************************************************************)
EXTENDS Naturals, FiniteSets

CONSTANTS
  Peer,         \* the other DKMSs
  Local,        \* those of node.yml
  Direct,       \* those of node.yml with a transport other than ORR
  Where,        \* where a peer can be, its endpoint and its ORR together
  Home,         \* what node.yml says
  Configs,      \* node.yml: [url, orr, advertise, bindsAll, tls]
  MaxPeers,     \* MAX_PEERS_FROM_SDN
  MaxChanges,   \* bound: changes of the SDN's list
  MaxFaults     \* bound: failed announcements

None == "none"
Bad == "bad"    \* an id or an endpoint that apply_from_sdn ignores

VARIABLES
  announcing,   \* whether there is an announcer
  listed,       \* external: what the SDN says of each peer, None if unlisted
  answer,       \* the list on its way to the announcer, <<>> if none
  inner,        \* PeerRegistry.inner: [at, policy, orr] or None
  orr,          \* PeerRegistry.orr: Where of the peers reached through an ORR
  next,         \* the map to be stored once orr is, <<>> if none
  target,       \* the peer the generator took from orr, None if none
  emits,        \* the last key emitted: [peer, policy], <<>> before
  changes, faults

dkmsPeerVars == <<announcing, listed, answer, inner, orr, next, target, emits, changes, faults>>

\* from_config: no announcer without a URL, an ORR, an address and a client.
FromConfig(c) == c.url /\ c.orr /\ (c.advertise \/ ~c.bindsAll) /\ c.tls

Policy(p) == IF p \in Local THEN "own" ELSE "default"
Seed == [p \in Peer |-> IF p \in Local
                        THEN <<[at |-> Home, policy |-> "own", orr |-> p \notin Direct]>>
                        ELSE <<>>]

\* derive_orr
DeriveOrr(m) == [p \in Peer |-> IF m[p] # <<>> /\ m[p][1].orr THEN m[p][1].at ELSE None]

Init ==
  /\ \E c \in Configs : announcing = FromConfig(c)
  /\ listed = [p \in Peer |-> None] /\ answer = <<>>
  /\ inner = Seed /\ orr = DeriveOrr(Seed) /\ next = <<>>
  /\ target = None /\ emits = <<>>
  /\ changes = 0 /\ faults = 0

-----------------------------------------------------------------------------
(* The SDN and the announcer *)

\* A DKMS appears, moves or disappears.
SdnChanges ==
  /\ changes < MaxChanges
  /\ \E p \in Peer, a \in Where \cup {None, Bad} :
       a # listed[p] /\ listed' = [listed EXCEPT ![p] = a]
  /\ changes' = changes + 1
  /\ UNCHANGED <<announcing, answer, inner, orr, next, target, emits, faults>>

AnnounceOnce ==
  /\ announcing /\ answer = <<>> /\ next = <<>>
  /\ answer' = <<listed>>
  /\ UNCHANGED <<announcing, listed, inner, orr, next, target, emits, changes, faults>>

AnnounceFails ==
  /\ answer # <<>> /\ faults < MaxFaults
  /\ answer' = <<>> /\ faults' = faults + 1
  /\ UNCHANGED <<announcing, listed, inner, orr, next, target, emits, changes>>

-----------------------------------------------------------------------------
(* apply_from_sdn *)

\* The peers taken: the good ones up to the bound, always the same of a list (the
\* SDN sorts it).
Taken(list) ==
  LET good == {p \in Peer : list[p] \in Where}
  IN  CHOOSE s \in SUBSET good : Cardinality(s) = IF Cardinality(good) < MaxPeers
                                                  THEN Cardinality(good) ELSE MaxPeers

Known(p, at) == IF inner[p] # <<>> THEN <<[inner[p][1] EXCEPT !.at = at]>>
                ELSE <<[at |-> at, policy |-> "default", orr |-> TRUE]>>

\* Mutant: the new map starts empty.
MergedAnew(list, taken) ==
  [p \in Peer |-> IF p \in taken THEN Known(p, list[p]) ELSE <<>>]
\* Those of node.yml survive; a known peer keeps its policy.
Merged(list, taken) ==
  [p \in Peer |-> IF p \in taken THEN Known(p, list[p])
                  ELSE IF p \in Local THEN inner[p] ELSE <<>>]

StoreOrr(m) == DeriveOrr(m)

\* Nothing is stored if nothing changed; else the map of ORRs first ...
ApplyFromSdn ==
  /\ answer # <<>>
  /\ LET m == Merged(answer[1], Taken(answer[1]))
     IN  IF m = inner THEN UNCHANGED <<orr, next>>
         ELSE orr' = StoreOrr(m) /\ next' = <<m>>
  /\ answer' = <<>>
  /\ UNCHANGED <<announcing, listed, inner, target, emits, changes, faults>>

\* ... and then the peers.
StoreInner ==
  /\ next # <<>>
  /\ inner' = next[1] /\ next' = <<>>
  /\ UNCHANGED <<announcing, listed, answer, orr, target, emits, changes, faults>>

-----------------------------------------------------------------------------
(* The generator *)

\* tick_once takes a peer from orr_map ...
TakePeer ==
  /\ target = None
  /\ target' \in {p \in Peer : orr[p] # None}
  /\ UNCHANGED <<announcing, listed, answer, inner, orr, next, emits, changes, faults>>

\* ... and emit_key reads its policy later (max_hops_for, orr_path_for).
MaxHopsFor(p) == IF inner[p] = <<>> THEN "default" ELSE inner[p][1].policy

EmitKey ==
  /\ target # None
  /\ emits' = <<[peer |-> target, policy |-> MaxHopsFor(target)]>>
  /\ target' = None
  /\ UNCHANGED <<announcing, listed, answer, inner, orr, next, changes, faults>>

Next ==
  \/ SdnChanges \/ AnnounceOnce \/ AnnounceFails \/ ApplyFromSdn \/ StoreInner
  \/ TakePeer \/ EmitKey

Spec == Init /\ [][Next]_dkmsPeerVars
FairSpec == Spec /\ WF_dkmsPeerVars(AnnounceOnce \/ ApplyFromSdn \/ StoreInner)

-----------------------------------------------------------------------------
(* Properties *)

TypeOK ==
  /\ \A p \in Peer : inner[p] = <<>> \/ inner[p][1] \in
       [at : Where \cup {Home}, policy : {"own", "default"}, orr : BOOLEAN]
  /\ orr \in [Peer -> Where \cup {Home, None}]
  /\ target \in Peer \cup {None}
  /\ Cardinality({p \in Peer \ Local : inner[p] # <<>>}) <= MaxPeers

\* Every key goes out under its peer's own policy, whatever list is being applied
\* between the two reads of the generator: a peer of node.yml never falls back to
\* the default, and no other peer inherits a policy.
EmittedAsConfigured == emits # <<>> => emits[1].policy = Policy(emits[1].peer)

\* Once the SDN's list stays, both maps follow it: the peers are those of node.yml
\* and the listed ones there is room for, each where the SDN says, and the
\* generator's map is the one of those peers.
Follows ==
  /\ next = <<>> /\ orr = DeriveOrr(inner)
  /\ \A p \in Peer \ Local : inner[p] # <<>> => listed[p] \in Where
  /\ \A p \in Peer : listed[p] \in Where =>
       \/ inner[p] # <<>> /\ inner[p][1].at = listed[p]
       \/ Cardinality({q \in Peer : listed[q] \in Where}) > MaxPeers
PeersFollow == <>[](announcing => Follows)
=============================================================================
