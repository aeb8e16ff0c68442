------------------------------ MODULE QkcLinks ------------------------------
(***************************************************************************)
(* The links of one QKC: the ones its node.yml declares, mounted at boot   *)
(* when their address is known, and the ones the SDN makes it mount and    *)
(* take down while it runs (qkc/src/sdn_client.rs, service.rs,             *)
(* routing.rs).                                                            *)
(*                                                                         *)
(* One task, the announcer, posts the node to the SDN and applies the list *)
(* of neighbours that comes back; it is the only writer of the links and   *)
(* of the direct routes, which are two stores.  The senders of frames are  *)
(* other tasks, and a frame looks up its route, then its link; what        *)
(* becomes of it then is QkcRelay's.  The SDN's list is external and       *)
(* changes as the neighbours announce themselves.                          *)
(***************************************************************************)
EXTENDS Naturals, FiniteSets

CONSTANTS Neighbor,         \* the neighbours, alike but for what follows
          Declared,     \* those of node.yml (local_links, local_cfgs)
          Located,      \* the declared ones that have an address there
          Qkd,          \* those the SDN lists as qkd, declared here or not
          Addr,         \* addresses
          Configs,      \* node configurations: [url, advertise, bindsAll, tls]
          MaxSdnLinks,  \* MAX_SDN_LINKS
          Period,       \* sdn_announce_secs, in units of BOOTSTRAP_RETRY
          MaxChanges    \* bound on the changes of the SDN's list

None == "none"
BadAddr == "bad"        \* a peer_addr that is not ip:port

VARIABLES
    announcing, \* whether there is an announcer
    listed,   \* external: the SDN's view, Neighbor -> address, None when not a neighbour
    answer,   \* the list being carried back to the announcer, <<>> when none
    job,      \* the announcer inside apply_peers: [at, p, todo, created]
    links,    \* links: Neighbor -> neighbor_peer_addr, None when not mounted
    direct,   \* routing.direct
    directQkd,\* routing.direct_qkd
    hop,      \* next_hop of a frame that has not looked up its link, or None
    backoff,  \* the announcer's next short wait
    changes   \* changes of the SDN's list so far
linkVars == <<announcing, listed, answer, job, links, direct, directQkd, hop, backoff,
              changes>>

Mounted == {p \in Neighbor : links[p] # None}

(* The SDN only knows an address once the neighbour announced itself.      *)
Lists == [Neighbor -> Addr \cup {None, BadAddr}]

\* validate: a QKD neighbour needs its address, and only an SDN can tell another.
\* (What else it refuses are fields of one link; none of them reach the links.)
Validate(c) == Qkd \cap Declared \subseteq Located /\ (Declared \subseteq Located \/ c.url)

\* from_config: no announcer without a URL, an address to announce and a client.
FromConfig(c) == c.url /\ (c.advertise \/ ~c.bindsAll) /\ c.tls

Idle == [at |-> "idle", p |-> None, todo |-> {}, created |-> 0]

\* QkcService::new and bootstrap_keystores; the node.yml gives address a to all.
Init ==
    \E a \in Addr, c \in {d \in Configs : Validate(d)} :
      /\ announcing = FromConfig(c)
      /\ listed = [p \in Neighbor |-> None] /\ answer = <<>> /\ job = Idle
      /\ links = [p \in Neighbor |-> IF p \in Located THEN a ELSE None]
      /\ direct = Located /\ directQkd = Qkd \cap Located /\ hop = None
      /\ backoff = 1 /\ changes = 0

-----------------------------------------------------------------------------
(* What the SDN does, external.                                            *)
SdnChanges ==
    /\ changes < MaxChanges
    /\ \E p \in Neighbor, a \in Addr \cup {None, BadAddr} :
         a # listed[p] /\ listed' = [listed EXCEPT ![p] = a]
    /\ changes' = changes + 1
    /\ UNCHANGED <<announcing, answer, job, links, direct, directQkd, hop, backoff>>

\* announce_once: the POST reaches the SDN, whose list of the moment goes back.
Announced ==
    /\ announcing /\ answer = <<>>
    /\ answer' = <<listed>>
    /\ UNCHANGED <<announcing, listed, job, links, direct, directQkd, hop, backoff,
                   changes>>

Doubled == IF 2 * backoff < Period THEN 2 * backoff ELSE Period

\* The POST or its answer is lost: nothing is applied, a short wait.
AnnounceFails ==
    /\ announcing /\ job = Idle /\ (answer # <<>> \/ backoff # Doubled)
    /\ answer' = <<>> /\ backoff' = Doubled
    /\ UNCHANGED <<announcing, listed, job, links, direct, directQkd, hop, changes>>

-----------------------------------------------------------------------------
(* apply_peers, store by store.                                             *)
Wanted(list) == {p \in Neighbor : list[p] # None}

\* Neighbours to mount: listed as pqc, not mounted, with a good address.
Absent(list) == {p \in Wanted(list) \ (Mounted \cup Qkd) : list[p] # BadAddr}

\* sdn_created: link_count().saturating_sub(local_cfgs.len())
SdnCreated == IF Cardinality(Mounted) > Cardinality(Declared)
              THEN Cardinality(Mounted) - Cardinality(Declared) ELSE 0

\* Those mounted that the SDN does not list, except the declared ones.
Removals(list) == Mounted \ (Wanted(list) \cup Declared)

Allowed(p) == p \in Declared \/ job.created < MaxSdnLinks

ApplyPeers ==
    /\ answer # <<>> /\ job = Idle
    /\ job' = [at |-> "adding", p |-> None, todo |-> Absent(answer[1]), created |-> SdnCreated]
    /\ UNCHANGED <<announcing, listed, answer, links, direct, directQkd, hop, backoff,
                   changes>>

\* add_link: first the link is stored.
AddLink(p) ==
    /\ job.at = "adding" /\ p \in job.todo /\ Allowed(p)
    /\ links' = [links EXCEPT ![p] = answer[1][p]]
    /\ job' = [at |-> "mounted", p |-> p, todo |-> job.todo \ {p},
               created |-> IF p \in Declared THEN job.created ELSE job.created + 1]
    /\ UNCHANGED <<announcing, listed, answer, direct, directQkd, hop, backoff, changes>>

\* Then routing.add_direct; only PQC links are added.
AddDirect ==
    /\ job.at = "mounted"
    /\ direct' = direct \cup {job.p}
    /\ job' = [job EXCEPT !.at = "adding", !.p = None]
    /\ UNCHANGED <<announcing, listed, answer, links, directQkd, hop, backoff, changes>>

\* The loop over the peers is over, `mine` is read.
AddsEnd ==
    /\ job.at = "adding" /\ ~ \E p \in job.todo : Allowed(p)
    /\ job' = [Idle EXCEPT !.at = "dropping", !.todo = Removals(answer[1])]
    /\ UNCHANGED <<announcing, listed, answer, links, direct, directQkd, hop, backoff,
                   changes>>

\* remove_link: first the link is taken out.
RemoveLink(p) ==
    /\ job.at = "dropping" /\ p \in job.todo
    /\ links' = [links EXCEPT ![p] = None]
    /\ job' = [job EXCEPT !.at = "unmounted", !.p = p, !.todo = @ \ {p}]
    /\ UNCHANGED <<announcing, listed, answer, direct, directQkd, hop, backoff, changes>>

RemoveDirectForgotten ==   \* Mutant: remove_link without remove_direct
    /\ job.at = "unmounted"
    /\ job' = [job EXCEPT !.at = "dropping", !.p = None]
    /\ UNCHANGED <<announcing, listed, answer, links, direct, directQkd, hop, backoff,
                   changes>>

\* Then routing.remove_direct.
RemoveDirect ==
    /\ job.at = "unmounted"
    /\ direct' = direct \ {job.p} /\ directQkd' = directQkd \ {job.p}
    /\ job' = [job EXCEPT !.at = "dropping", !.p = None]
    /\ UNCHANGED <<announcing, listed, answer, links, hop, backoff, changes>>

ApplyEnds ==
    /\ job.at = "dropping" /\ job.todo = {}
    \* edges_pending: a declared neighbour the SDN does not know yet
    /\ backoff' = IF \A p \in Declared : answer[1][p] # None THEN 1 ELSE Doubled
    /\ answer' = <<>> /\ job' = Idle
    /\ UNCHANGED <<announcing, listed, links, direct, directQkd, hop, changes>>

Applying ==
    \/ \E p \in Neighbor : AddLink(p) \/ RemoveLink(p)
    \/ AddDirect \/ AddsEnd \/ RemoveDirect \/ ApplyEnds

-----------------------------------------------------------------------------
(* A frame for a neighbour: next_hop_graded, then link_to.                   *)
NextHop(p) ==
    /\ hop = None /\ p \in direct
    /\ hop' = p
    /\ UNCHANGED <<announcing, listed, answer, job, links, direct, directQkd, backoff, changes>>

\* forward_plaintext: the frame has the Arc of its link, or fails (UnknownNeighbor).
LinkTo ==
    /\ hop # None /\ hop' = None
    /\ UNCHANGED <<announcing, listed, answer, job, links, direct, directQkd, backoff, changes>>

Next ==
    \/ SdnChanges \/ Announced \/ AnnounceFails \/ ApplyPeers \/ Applying
    \/ \E p \in Neighbor : NextHop(p)
    \/ LinkTo

(* The announcer never ends, the SDN answers now and then, and what          *)
(* apply_peers begins it finishes: nothing in it awaits.                     *)
Spec == Init /\ [][Next]_linkVars
FairSpec == Spec /\ WF_linkVars(Announced) /\ SF_linkVars(ApplyPeers) /\ WF_linkVars(Applying)

-----------------------------------------------------------------------------
(* Everything has its type; in particular no link is mounted on an address *)
(* that is not ip:port.                                                     *)
TypeOK ==
    /\ announcing \in BOOLEAN /\ listed \in Lists
    /\ answer = <<>> \/ answer \in [{1} -> Lists]
    /\ job \in [at : {"idle", "adding", "mounted", "dropping", "unmounted"},
               p : Neighbor \cup {None}, todo : SUBSET Neighbor, created : Nat]
    /\ hop \in Neighbor \cup {None}
    /\ links \in [Neighbor -> Addr \cup {None}]
    /\ direct \subseteq Neighbor /\ directQkd \subseteq Qkd
    /\ backoff \in 1..Period /\ changes \in 0..MaxChanges

(* The links the SDN makes a node mount stay bounded over any sequence of  *)
(* lists, but not by MAX_SDN_LINKS, as lines 20-21 and 369 of sdn_client.rs *)
(* have it: apply_peers takes every declared neighbour as mounted when it   *)
(* counts, so each one declared without an address makes room for one more. *)
CreatedBounded ==
    Cardinality(Mounted \ Declared) <= MaxSdnLinks + Cardinality(Declared \ Located)

(* Links and direct routes are two stores, and a sender may come between   *)
(* them: it misses only the one link being mounted (add_link) and chooses   *)
(* in vain only the one being taken down (remove_link).  A frame that has   *)
(* chosen a neighbour of node.yml finds its link, whatever lists the SDN    *)
(* sends while it looks.                                                    *)
RoutesAreLinks ==
    /\ Mounted \ direct \subseteq IF job.at = "mounted" THEN {job.p} ELSE {}
    /\ direct \ Mounted \subseteq IF job.at = "unmounted" THEN {job.p} ELSE {}
    /\ directQkd = Mounted \cap Qkd
    /\ hop \in Declared => hop \in Mounted

(* Once the SDN's list stops changing, the links of a node that announces  *)
(* itself settle on it whatever answers were stale or lost: nothing         *)
(* unlisted stays unless node.yml declares it, every listed neighbour with  *)
(* a good address is mounted, the SDN's own ones up to the bound.           *)
Settled ==
    /\ \A p \in Mounted \ Declared : listed[p] # None
    /\ Absent(listed) \cap Declared = {}
    /\ Absent(listed) = {} \/ SdnCreated >= MaxSdnLinks
LinksSettle == <>[](announcing => Settled)

=============================================================================
