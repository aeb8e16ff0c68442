------------------------------ MODULE OrrPeers ------------------------------
(***************************************************************************)
(* The peers of one ORR: those of its node.yml and those the SDN lists in  *)
(* its answers to the ORR's announcements (orr/src/sdn_announce.rs), and   *)
(* the background tasks each of them starts (orr/src/bootstrap.rs): one    *)
(* that fetches the peer's public key and, on the side that initiates,     *)
(* establishes the bootstrap secret, and then the rotation loop.  What the *)
(* handshakes agree on is the subject of OrrEpochs.                        *)
(*                                                                         *)
(* The announcer is one task and the only writer of the list; the tasks it *)
(* starts hold the address they were started with, and nothing ends them   *)
(* when their peer is forgotten.  The pauses between attempts are left     *)
(* out.                                                                    *)
(***************************************************************************)
EXTENDS Naturals, FiniteSets

CONSTANTS
  Peer,         \* the other ORRs
  Local,        \* those of node.yml (local_peers)
  Later,        \* those with a greater orr_id: this ORR initiates
  Untrusted,    \* those whose announced public key is refused
  Addr,         \* gRPC addresses
  Home,         \* the address node.yml gives
  Configs,      \* node.yml: [url, advertise, bindsAll, tls]
  MaxPeers,     \* MAX_PEERS_FROM_SDN
  MaxChanges,   \* bound: changes of the SDN's list
  MaxFaults     \* bound: failed calls

None == "none"
BadAddr == "bad"   \* a URL, or an id, that apply_peers refuses
Yml == "yml"       \* the QKC node.yml names for a peer
Sdn == "sdn"       \* the QKC the SDN names for it

VARIABLES
  announcing,   \* whether there is an announcer
  listed,       \* external: where the SDN says each peer is, None if unlisted
  answer,       \* the list on its way to the announcer, <<>> if none
  byOrr,        \* PeerRegistry.by_orr: the QKC of each peer, None if unregistered
  addr,         \* PeerRegistry.grpc_addrs
  pubkeys,      \* PeerRegistry.pubkeys
  secrets,      \* PeerRegistry.bootstrap_secrets
  inflight,     \* PeerRegistry.rebootstrap_inflight
  rotating,     \* PeerRegistry.rotation_spawned
  spawned,      \* SdnAnnouncer.spawned
  tasks,        \* bootstrap tasks: [peer, n, at, stage]
  loops,        \* rotation loops of each peer
  forgotten,    \* history: times each peer was forgotten
  changes, faults

orrPeerVars == <<announcing, listed, answer, byOrr, addr, pubkeys, secrets, inflight,
                 rotating, spawned, tasks, loops, forgotten, changes, faults>>
registryVars == <<byOrr, addr, pubkeys, secrets, inflight, rotating>>

Task(p, a) == [peer |-> p, n |-> forgotten[p], at |-> a, stage |-> "fetch"]

\* from_config: no announcer without a URL, an address to announce and a client.
FromConfig(c) == c.url /\ (c.advertise \/ ~c.bindsAll) /\ c.tls

\* OrrService::new, spawn_all
Init ==
  /\ \E c \in Configs : announcing = FromConfig(c)
  /\ listed = [p \in Peer |-> None] /\ answer = <<>>
  /\ byOrr = [p \in Peer |-> IF p \in Local THEN Yml ELSE None]
  /\ pubkeys = {} /\ secrets = {} /\ inflight = {} /\ rotating = {}
  /\ addr = [p \in Peer |-> IF p \in Local THEN Home ELSE None]
  /\ spawned = Local
  /\ forgotten = [p \in Peer |-> 0] /\ loops = [p \in Peer |-> 0]
  /\ tasks = {[peer |-> p, n |-> 0, at |-> Home, stage |-> "fetch"] : p \in Local}
  /\ changes = 0 /\ faults = 0

-----------------------------------------------------------------------------
(* The SDN *)

\* A peer appears, moves or disappears; those of node.yml are where it says.
SdnChanges ==
  /\ changes < MaxChanges
  /\ \E p \in Peer, a \in Addr \cup {None, BadAddr} :
       a # listed[p] /\ listed' = [listed EXCEPT ![p] = a]
  /\ changes' = changes + 1
  /\ UNCHANGED <<announcing, answer, registryVars, spawned, tasks, loops, forgotten, faults>>

\* announce_once, and orr_peers of the SDN.
AnnounceOnce ==
  /\ announcing /\ answer = <<>>
  /\ answer' = <<listed>>
  /\ UNCHANGED <<announcing, listed, registryVars, spawned, tasks, loops, forgotten, changes, faults>>

AnnounceFails ==
  /\ answer # <<>> /\ faults < MaxFaults
  /\ answer' = <<>> /\ faults' = faults + 1
  /\ UNCHANGED <<announcing, listed, registryVars, spawned, tasks, loops, forgotten, changes>>

-----------------------------------------------------------------------------
(* apply_peers *)

\* The peers that are applied: those with a good id and URL that are known, and new
\* ones in the list's order while there is room.
Applied(list) ==
  LET good == {p \in Peer : list[p] \in Addr}
      room == IF Cardinality(spawned) < MaxPeers THEN MaxPeers - Cardinality(spawned) ELSE 0
      fresh == good \ spawned
  IN  {(good \cap spawned) \cup s : s \in
         {s \in SUBSET fresh : Cardinality(s) = IF Cardinality(fresh) < room
                                                THEN Cardinality(fresh) ELSE room}}

\* The URL of a peer of node.yml is the operator's.
Refreshed(list, some) == [p \in Peer |-> IF p \in some \ Local THEN list[p] ELSE addr[p]]

Started(list, some) == {Task(p, list[p]) : p \in some \ spawned}

\* Mutant: a peer the SDN lists no more stays.
GoneNever(list) == {}
Gone(list) == {p \in spawned \ Local : list[p] = None}

\* PeerRegistry::put of every applied peer, those of node.yml included, and forget
Forget(gone, some, list) ==
  /\ byOrr' = [p \in Peer |-> IF p \in gone THEN None ELSE IF p \in some THEN Sdn ELSE byOrr[p]]
  /\ addr' = [p \in Peer |-> IF p \in gone THEN None ELSE Refreshed(list, some)[p]]
  /\ pubkeys' = pubkeys \ gone /\ secrets' = secrets \ gone
  /\ inflight' = inflight \ gone /\ rotating' = rotating \ gone

ApplyPeers ==
  /\ answer # <<>>
  /\ \E some \in Applied(answer[1]) :
       LET gone == Gone(answer[1])
       IN  /\ Forget(gone, some, answer[1])
           /\ spawned' = (spawned \cup some) \ gone
           /\ tasks' = tasks \cup Started(answer[1], some)
           /\ forgotten' = [p \in Peer |-> forgotten[p] + (IF p \in gone THEN 1 ELSE 0)]
  /\ answer' = <<>>
  /\ UNCHANGED <<announcing, listed, loops, changes, faults>>

-----------------------------------------------------------------------------
(* bootstrap_peer *)

Becomes(t, stage) == tasks' = (tasks \ {t}) \cup {[t EXCEPT !.stage = stage]}

\* A call to the address a task was started with finds the peer if it is there.
Reaches(t) == IF t.peer \in Local THEN TRUE ELSE listed[t.peer] = t.at

\* fetch_pubkey, until it succeeds; the passive side stops here, and so does a task
\* whose peer's key is refused.
FetchPubkey(t) ==
  /\ t.stage = "fetch"
  /\ t.peer \in pubkeys \/ Reaches(t)
  /\ pubkeys' = IF t.peer \in Untrusted THEN pubkeys ELSE pubkeys \cup {t.peer}
  /\ IF t.peer \in Later \ Untrusted THEN Becomes(t, "try") ELSE tasks' = tasks \ {t}
  /\ UNCHANGED <<announcing, listed, answer, byOrr, addr, secrets, inflight, rotating,
                 spawned, loops, forgotten, changes, faults>>

\* One establishment at a time for a pair; none if the secret is there.
TakeFlag(t) ==
  /\ t.stage = "try"
  /\ IF t.peer \in secrets THEN Becomes(t, "rotate") /\ UNCHANGED inflight
     ELSE /\ t.peer \notin inflight
          /\ inflight' = inflight \cup {t.peer}
          /\ Becomes(t, "call")
  /\ UNCHANGED <<announcing, listed, answer, byOrr, addr, pubkeys, secrets, rotating,
                 spawned, loops, forgotten, changes, faults>>

\* attempt_establish and, when it succeeds, reset_for_bootstrap.
Established(t) ==
  /\ t.stage = "call" /\ Reaches(t)
  /\ inflight' = inflight \ {t.peer}
  /\ secrets' = secrets \cup {t.peer}
  /\ Becomes(t, "rotate")
  /\ UNCHANGED <<announcing, listed, answer, byOrr, addr, pubkeys, rotating,
                 spawned, loops, forgotten, changes, faults>>

EstablishFails(t) ==
  /\ t.stage = "call"
  /\ \/ ~Reaches(t) /\ UNCHANGED faults
     \/ faults < MaxFaults /\ faults' = faults + 1
  /\ inflight' = inflight \ {t.peer}
  /\ Becomes(t, "try")
  /\ UNCHANGED <<announcing, listed, answer, byOrr, addr, pubkeys, secrets, rotating,
                 spawned, loops, forgotten, changes>>

\* try_mark_rotation_spawned, spawn_rotation_task: the loop never ends.
Rotates(t) ==
  /\ t.stage = "rotate"
  /\ tasks' = tasks \ {t}
  /\ rotating' = rotating \cup {t.peer}
  /\ loops' = IF t.peer \in rotating THEN loops ELSE [loops EXCEPT ![t.peer] = @ + 1]
  /\ UNCHANGED <<announcing, listed, answer, byOrr, addr, pubkeys, secrets, inflight,
                 spawned, forgotten, changes, faults>>

TaskSteps == \E t \in tasks : \/ FetchPubkey(t) \/ TakeFlag(t) \/ Established(t)
                              \/ EstablishFails(t) \/ Rotates(t)

Next == SdnChanges \/ AnnounceOnce \/ AnnounceFails \/ ApplyPeers \/ TaskSteps

Spec == Init /\ [][Next]_orrPeerVars

\* The announcer and the tasks run, and a task does not fail for ever at an address
\* where its peer is.
Working(p) == \E t \in tasks : t.peer = p /\ (FetchPubkey(t) \/ Established(t) \/ Rotates(t)
                                               \/ TakeFlag(t))
FairSpec ==
  /\ Spec
  /\ WF_orrPeerVars(AnnounceOnce \/ ApplyPeers)
  /\ \A p \in Peer : WF_orrPeerVars(Working(p))

-----------------------------------------------------------------------------
(* Properties *)

TypeOK ==
  /\ byOrr \in [Peer -> {Yml, Sdn, None}] /\ pubkeys \subseteq Peer \ Untrusted
  /\ addr \in [Peer -> Addr \cup {None}]
  /\ secrets \subseteq Later /\ inflight \subseteq Later /\ rotating \subseteq Later
  /\ spawned \subseteq Peer
  /\ tasks \subseteq [peer : Peer, n : 0 .. MaxChanges, at : Addr,
                      stage : {"fetch", "try", "call", "rotate"}]
  /\ loops \in [Peer -> Nat]

\* What the SDN lists, or stops listing, never removes a peer of node.yml or gives it
\* another address than the operator's (apply_peers, local_peers).  Its QKC is the SDN's
\* to change: put "absorbe un cambio de QKC del par".
LocalStands ==
  \A p \in Local : p \in spawned /\ byOrr[p] # None /\ addr[p] = Home

\* A peer never has more background tasks, bootstrap and rotation together, than
\* the times it was listed anew.  One per pair, as peers.rs:111 and bootstrap.rs:76 have
\* it, holds only of a peer that was never forgotten: forget clears the marks and ends
\* no task, so a peer that comes back gets another.
TasksBounded ==
  \A p \in Peer : Cardinality({t \in tasks : t.peer = p}) + loops[p] <= forgotten[p] + 1

\* Once the SDN's list stays, the registry follows it, whatever answers were lost or
\* stale: every listed peer there is room for is registered where it is, nothing
\* unlisted is, and every pair this ORR initiates has its secret and a rotation
\* loop - provided its last task was started with the address the peer still has.
Stuck(p) == \E t \in tasks : t.peer = p /\ t.stage # "rotate" /\ ~Reaches(t)
Settled ==
  /\ \A p \in Peer \ Local : p \in spawned => listed[p] # None
  /\ \A p \in Peer : listed[p] \in Addr =>
       \/ p \in spawned /\ (p \notin Local => addr[p] = listed[p])
       \/ Cardinality(spawned) >= MaxPeers
  /\ \A p \in spawned \cap (Later \ Untrusted) : Stuck(p) \/ (p \in secrets /\ loops[p] >= 1)
PeersSettle == <>[](announcing => Settled)

=============================================================================
