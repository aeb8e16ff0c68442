------------------------------ MODULE SdnAnchors ------------------------------
(***************************************************************************)
(* What the SDN controller knows of the modules of the network, and how it *)
(* comes to know it: sdn/src/topology.rs (the snapshot and its indexes),   *)
(* sdn/src/presence.rs (who was heard, and when), the announcement and SAE *)
(* handlers of sdn/src/http_api.rs and the sweeper of sdn/src/service.rs.  *)
(*                                                                         *)
(* Every module re-announces itself for ever.  An ORR hangs from a QKC and *)
(* a DKMS from an ORR; at most one ORR and one DKMS per QKC, kept by the   *)
(* indexes orr_by_qkc and dkms_by_qkc.  An announcement changes the        *)
(* snapshot in one step and is noted in the presence registry in another;  *)
(* the sweeper reads the registry, forgets the stale entries and removes   *)
(* their modules from the snapshot, each in a step of its own.             *)
(*                                                                         *)
(* One announcement and one SAE request are being handled at a time.  An   *)
(* entry of the registry is "fresh" until a whole time-to-live passes with *)
(* no accepted announcement: because the SDN refuses the module, or        *)
(* because it is late, which happens MaxLate times.                        *)
(***************************************************************************)
EXTENDS Naturals, FiniteSets

CONSTANTS
  Qkcs, Orrs, Dkms, Saes,  \* the identifiers of the modules and of the SAEs
  FirstAnchor,             \* what each ORR and DKMS is configured to hang from
  Listed,                  \* the SAEs each DKMS lists in its announcement
  MaxSaes,                 \* MAX_SAES_PER_DKMS
  MaxMoves,                \* bound: times an operator re-anchors a module
  MaxLate,                 \* bound: times a module is late
  None                     \* no value

VARIABLES
  topo,     \* the published Topology
  anchor,   \* what each ORR and DKMS is configured to hang from now
  seen,     \* the presence registry: "no" entry, "fresh" or "stale"
  hand,     \* the module whose announcement is applied but not yet noted
  sweep,    \* the sweeper: idle, found or taken, and the entries it holds
  req,      \* the SAE request whose owner has been read and authorised
  moves,    \* operator moves so far
  late      \* late announcements so far

vars == <<topo, anchor, seen, hand, sweep, req, moves, late>>

Modules == Qkcs \cup Orrs \cup Dkms

Idle == [at |-> "idle", ids |-> {}]

Init ==
  /\ topo = [qkcs |-> {}, orrs |-> [o \in Orrs |-> None], orrByQkc |-> [q \in Qkcs |-> None],
             dkms |-> [d \in Dkms |-> None], dkmsByQkc |-> [q \in Qkcs |-> None],
             saes |-> [s \in Saes |-> None]]
  /\ anchor = FirstAnchor
  /\ seen = [m \in Modules |-> "no"]
  /\ hand = None
  /\ sweep = Idle
  /\ req = None
  /\ moves = 0 /\ late = 0

-----------------------------------------------------------------------------
(* The snapshot's operations. *)

UpsertQkc(t, q) == [t EXCEPT !.qkcs = @ \cup {q}]

\* index with key's entry at old withdrawn, if it is key's, and key entered at new
Reindexed(index, key, old, new) ==
  [q \in Qkcs |-> CASE q = new -> key
                    [] q = old /\ q # new /\ index[q] = key -> None
                    [] OTHER -> index[q]]

\* Mutant: an ORR is refused the place that it holds itself.
OrrRejectedAgain(t, o, q) == q \notin t.qkcs \/ t.orrByQkc[q] # None

OrrRejected(t, o, q) == q \notin t.qkcs \/ t.orrByQkc[q] \notin {None, o}

UpsertOrr(t, o, q) ==
  [t EXCEPT !.orrByQkc = Reindexed(@, o, t.orrs[o], q), !.orrs[o] = q]

DkmsRejected(t, d, o) ==
  t.orrs[o] = None \/ \E q \in {t.orrs[o]} \ {None} : t.dkmsByQkc[q] \notin {None, d}

\* The QKC a DKMS hangs from, through its ORR.
QkcOfDkms(t, d) == IF t.dkms[d] = None THEN None ELSE t.orrs[t.dkms[d]]

UpsertDkms(t, d, o) ==
  [t EXCEPT !.dkmsByQkc = Reindexed(@, d, QkcOfDkms(t, d), t.orrs[o]), !.dkms[d] = o]

Owned(t, d) == {s \in Saes : t.saes[s] = d}

\* The ways the SAEs listed by d enter the snapshot: one with another owner is
\* left alone, and one that does not fit is skipped.
UpsertSaes(t, d) ==
  LET new == {s \in Listed[d] : t.saes[s] = None}
      room == MaxSaes - Cardinality(Owned(t, d))
      fits == IF Cardinality(new) <= room THEN Cardinality(new) ELSE room
  IN  {[t EXCEPT !.saes = [s \in Saes |-> IF s \in add THEN d ELSE @[s]]] :
         add \in {a \in SUBSET new : Cardinality(a) = fits}}

DeleteQkc(t, q) ==
  [t EXCEPT !.qkcs = @ \ {q}, !.orrByQkc[q] = None, !.dkmsByQkc[q] = None]

\* index without key's entry at q
Unlinked(index, key, q) == [x \in Qkcs |-> IF x = q /\ index[x] = key THEN None ELSE index[x]]

DeleteOrr(t, o) ==
  [t EXCEPT !.orrByQkc = Unlinked(@, o, t.orrs[o]), !.orrs[o] = None]

DeleteDkms(t, d) ==
  [t EXCEPT !.dkmsByQkc = Unlinked(@, d, QkcOfDkms(t, d)), !.dkms[d] = None,
            !.saes = [s \in Saes |-> IF @[s] = d THEN None ELSE @[s]]]

-----------------------------------------------------------------------------
(* Announcements. *)

\* The SDN would refuse the module's announcement as things stand.
Refused(m) ==
  \/ m \in Orrs /\ OrrRejected(topo, m, anchor[m])
  \/ m \in Dkms /\ DkmsRejected(topo, m, anchor[m])

AnnounceQkc(q) ==
  /\ hand = None
  /\ topo' = UpsertQkc(topo, q)
  /\ hand' = q
  /\ UNCHANGED <<anchor, seen, sweep, req, moves, late>>

\* A refused announcement changes nothing and is not noted.
AnnounceOrr(o) ==
  /\ hand = None
  /\ ~Refused(o)
  /\ topo' = UpsertOrr(topo, o, anchor[o])
  /\ hand' = o
  /\ UNCHANGED <<anchor, seen, sweep, req, moves, late>>

AnnounceDkms(d) ==
  /\ hand = None
  /\ ~Refused(d)
  /\ topo' \in UpsertSaes(UpsertDkms(topo, d, anchor[d]), d)
  /\ hand' = d
  /\ UNCHANGED <<anchor, seen, sweep, req, moves, late>>

Touch ==
  /\ hand # None
  /\ seen' = [seen EXCEPT ![hand] = "fresh"]
  /\ hand' = None
  /\ UNCHANGED <<topo, anchor, sweep, req, moves, late>>

\* An operator gives an ORR another QKC, or a DKMS another ORR.
Move(m) ==
  /\ moves < MaxMoves
  /\ \E to \in (IF m \in Orrs THEN Qkcs ELSE Orrs) :
       to # anchor[m] /\ anchor' = [anchor EXCEPT ![m] = to]
  /\ moves' = moves + 1
  /\ UNCHANGED <<topo, seen, hand, sweep, req, late>>

-----------------------------------------------------------------------------
(* The presence registry and its sweeper. *)

\* A time-to-live has passed since the entry was written.
Stale(m) ==
  /\ seen[m] = "fresh"
  /\ seen' = [seen EXCEPT ![m] = "stale"]
  /\ UNCHANGED <<topo, anchor, hand, sweep, req, moves>>

RefusedTooLong(m) == Refused(m) /\ Stale(m) /\ UNCHANGED late

Late(m) == late < MaxLate /\ Stale(m) /\ late' = late + 1

\* take_expired picks the stale entries ...
Collect ==
  /\ sweep = Idle
  /\ \E m \in Modules : seen[m] = "stale"
  /\ sweep' = [at |-> "found", ids |-> {m \in Modules : seen[m] = "stale"}]
  /\ UNCHANGED <<topo, anchor, seen, hand, req, moves, late>>

\* Mutant: the entries are dropped and the modules are not deleted.
TakeForgets ==
  /\ sweep.at = "found"
  /\ seen' = [m \in Modules |-> IF m \in sweep.ids THEN "no" ELSE seen[m]]
  /\ sweep' = Idle
  /\ UNCHANGED <<topo, anchor, hand, req, moves, late>>

\* ... and removes them, whatever they hold by then.
Take ==
  /\ sweep.at = "found"
  /\ seen' = [m \in Modules |-> IF m \in sweep.ids THEN "no" ELSE seen[m]]
  /\ sweep' = [sweep EXCEPT !.at = "taken"]
  /\ UNCHANGED <<topo, anchor, hand, req, moves, late>>

Delete(m) ==
  /\ sweep.at = "taken" /\ m \in sweep.ids
  /\ topo' = IF m \in Qkcs THEN DeleteQkc(topo, m)
             ELSE IF m \in Orrs THEN DeleteOrr(topo, m) ELSE DeleteDkms(topo, m)
  /\ sweep' = IF sweep.ids = {m} THEN Idle ELSE [sweep EXCEPT !.ids = @ \ {m}]
  /\ UNCHANGED <<anchor, seen, hand, req, moves, late>>

-----------------------------------------------------------------------------
(* SAE requests: the owner is read first, and the change is made later. *)

RegisterSae(s, d) ==
  /\ topo.saes[s] = None
  /\ topo.dkms[d] # None
  /\ Cardinality(Owned(topo, d)) < MaxSaes
  /\ topo' = [topo EXCEPT !.saes[s] = d]
  /\ UNCHANGED <<anchor, seen, hand, sweep, req, moves, late>>

\* The owner asks to hand its SAE over to d, or to delete it (d = None).
Authorize(s, d) ==
  /\ req = None
  /\ topo.saes[s] # None
  /\ req' = [sae |-> s, to |-> d]
  /\ UNCHANGED <<topo, anchor, seen, hand, sweep, moves, late>>

\* update_sae and delete_sae: an unknown SAE, an unknown DKMS or a full one is
\* an error and changes nothing.
Mutate ==
  /\ req # None
  /\ LET s == req.sae
         d == req.to
         refused == \/ topo.saes[s] = None
                    \/ /\ d # None
                       /\ \/ topo.dkms[d] = None
                          \/ topo.saes[s] # d /\ Cardinality(Owned(topo, d)) >= MaxSaes
     IN  topo' = IF refused THEN topo ELSE [topo EXCEPT !.saes[s] = d]
  /\ req' = None
  /\ UNCHANGED <<anchor, seen, hand, sweep, moves, late>>

-----------------------------------------------------------------------------

Next ==
  \/ \E q \in Qkcs : AnnounceQkc(q)
  \/ \E o \in Orrs : AnnounceOrr(o)
  \/ \E d \in Dkms : AnnounceDkms(d)
  \/ Touch
  \/ \E m \in Orrs \cup Dkms : Move(m)
  \/ \E m \in Modules : RefusedTooLong(m) \/ Late(m) \/ Delete(m)
  \/ Collect
  \/ Take
  \/ \E s \in Saes, d \in Dkms : RegisterSae(s, d)
  \/ \E s \in Saes, d \in Dkms \cup {None} : Authorize(s, d)
  \/ Mutate

Spec == Init /\ [][Next]_vars

-----------------------------------------------------------------------------
(* Properties. *)

TopologyOK(t) ==
  /\ t.qkcs \subseteq Qkcs
  /\ t.orrs \in [Orrs -> Qkcs \cup {None}]
  /\ t.orrByQkc \in [Qkcs -> Orrs \cup {None}]
  /\ t.dkms \in [Dkms -> Orrs \cup {None}]
  /\ t.dkmsByQkc \in [Qkcs -> Dkms \cup {None}]
  /\ t.saes \in [Saes -> Dkms \cup {None}]

\* Every variable holds a value of its type, and no DKMS serves more than
\* MaxSaes SAEs whichever of the four ways in they took (topology.rs,
\* register_sae, update_sae, upsert_sae).
TypeOK ==
  /\ TopologyOK(topo)
  /\ \A d \in Dkms : Cardinality(Owned(topo, d)) <= MaxSaes
  /\ \A m \in Orrs \cup Dkms : anchor[m] \in Qkcs \cup Orrs
  /\ seen \in [Modules -> {"no", "fresh", "stale"}]
  /\ hand \in Modules \cup {None}
  /\ sweep.at \in {"idle", "found", "taken"} /\ sweep.ids \subseteq Modules
  /\ req = None \/ (req.sae \in Saes /\ req.to \in Dkms \cup {None})
  /\ moves \in 0 .. MaxMoves /\ late \in 0 .. MaxLate

\* The module is in the snapshot.
Known(m) ==
  \/ m \in topo.qkcs
  \/ m \in Orrs /\ topo.orrs[m] # None
  \/ m \in Dkms /\ topo.dkms[m] # None

\* orr_by_qkc, from which get_orr_path builds a route, names only an ORR that
\* the snapshot holds and that hangs from that very QKC, which it also holds.
OrrIndexSound ==
  \A q \in Qkcs : topo.orrByQkc[q] # None =>
    q \in topo.qkcs /\ topo.orrs[topo.orrByQkc[q]] = q

\* Nothing stays in the topology unwatched: a module of the snapshot has an
\* entry in the presence registry, or its announcement is about to write one,
\* or the sweeper is about to remove it - whatever the order of an announcement
\* and a sweep.
NobodyUnwatched ==
  \A m \in Modules : Known(m) =>
    seen[m] # "no" \/ hand = m \/ (sweep.at = "taken" /\ m \in sweep.ids)

\* An SAE is bound to a DKMS of the snapshot (delete_dkms takes its SAEs along).
SaesServed == \A s \in Saes : topo.saes[s] # None => topo.dkms[topo.saes[s]] # None

\* Of a step: an announcement does not move an SAE from one DKMS to another, only
\* a request that its owner was authorised to make does (announce_dkms).
NotTakenByAnnouncing ==
  \A s \in Saes : (topo.saes[s] # None /\ topo'.saes[s] \notin {topo.saes[s], None}) =>
                      req # None /\ req.sae = s

-----------------------------------------------------------------------------
(* Liveness: the modules announce for ever and the sweeper keeps sweeping. *)

Fairness ==
  /\ \A q \in Qkcs : SF_vars(AnnounceQkc(q))
  /\ \A o \in Orrs : SF_vars(AnnounceOrr(o))
  /\ \A d \in Dkms : SF_vars(AnnounceDkms(d))
  /\ WF_vars(Touch)
  /\ \A m \in Modules : WF_vars(RefusedTooLong(m)) /\ WF_vars(Delete(m))
  /\ WF_vars(Collect) /\ WF_vars(Take)

FairSpec == Spec /\ Fairness

\* No two modules of the set are configured to hang from the same one.
Distinct(S) == \A m, n \in S : anchor[m] = anchor[n] => m = n

OrrsSettled ==
  Distinct(Orrs) => \A o \in Orrs : topo.orrs[o] = anchor[o] /\ topo.orrByQkc[anchor[o]] = o

DkmsSettled ==
  Distinct(Orrs) /\ Distinct(Dkms) =>
    \A d \in Dkms : topo.dkms[d] = anchor[d] /\ topo.dkmsByQkc[anchor[anchor[d]]] = d

\* The ORRs settle where they are configured to hang: whatever moves, late
\* announcements and sweeps came before, in the end every ORR of a conflict-free
\* configuration is in the snapshot, under the right QKC and in the index.  An
\* ORR whose place is held gets in once the holder moves or expires
\* (upsert_orr: "el anunciante reintenta y entra si el primero caduca o se
\* mueve").
OrrsSettle == <>[]OrrsSettled

\* The same one layer up: every DKMS of a conflict-free configuration is in
\* the end in the snapshot, and in the index under the QKC of its ORR.  With
\* several DKMSs this does not hold, for a stale entry of the index can keep one
\* of them out: see DkmsIndexSettled.
DkmsSettle == <>[]DkmsSettled

\* upsert_dkms, of the QKC a DKMS hung from: "el de origen se quedó sin DKMS y no puede
\* seguir apuntándole".  In the end dkms_by_qkc names a DKMS only under the QKC that its
\* ORR hangs from.
DkmsIndexSettled ==
  \A q \in Qkcs : topo.dkmsByQkc[q] # None => QkcOfDkms(topo, topo.dkmsByQkc[q]) = q
=============================================================================
