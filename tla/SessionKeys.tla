---------------------------- MODULE SessionKeys ----------------------------
(***************************************************************************)
(* The life of a session key: handle_enc_keys at the DKMS of the master    *)
(* SAE, handle_incoming_ext_keys at the DKMSs of the other SAEs, and       *)
(* handle_dec_keys with the PendingStore of every DKMS.                    *)
(*                                                                         *)
(* A step is what one thread does between two locks or two awaits.  What   *)
(* happens to transport keys is the subject of TransportKeys; here the     *)
(* envelope of a peer can be built or not, and opens or not.  A DKMS that  *)
(* is drained wipes its store (PendingStore::clear) before it stops: that  *)
(* is an action of DkmsIntake, and its end is Restart here.                *)
(***************************************************************************)
EXTENDS Integers, FiniteSets

CONSTANTS
    Node,        \* the DKMSs
    Sae,         \* the SAEs
    Home,        \* the DKMS that serves each SAE (sae_binding)
    Key,         \* the key_ids, drawn at random and never drawn again
    Request,     \* the enc_keys requests
    Master,      \* who makes each request
    Targets,     \* its slave and additional slave SAEs
    KeysOf,      \* the session keys it generates
    Call,        \* the dec_keys calls that can run at the same time
    MaxPending   \* MAX_PENDING_PER_ORIGIN

ASSUME HomeAssumption == Home \in [Sae -> Node]
ASSUME RequestAssumption ==
    /\ Master \in [Request -> Sae]
    /\ Targets \in [Request -> SUBSET Sae]
    /\ KeysOf \in [Request -> SUBSET Key]
ASSUME FreshKeysAssumption ==
    /\ \A k \in Key : \E r \in Request : k \in KeysOf[r]
    /\ \A r, q \in Request : r # q => KeysOf[r] \cap KeysOf[q] = {}
ASSUME MaxPendingAssumption == MaxPending \in Nat

VARIABLES
    \* the PendingStores: inner, and per_origin
    held,        \* <<n, k>>: n has an entry for k
    expired,     \* <<n, k>>: its expires_at has passed
    retrieved,   \* <<s, k>>: s is in the retrieved set of the entry at its DKMS
    perOrigin,   \* per DKMS and origin, the entries counted
    doomed,      \* <<n, k>>: some thread is about to remove the entry
    uncounted,   \* <<n, k>>: removed from inner, per_origin not yet decremented
    \* handle_enc_keys
    pc,          \* where each request is
    left,        \* the keys it has still to insert or to retract
    charged,     \* the peers whose tokens the request keeps
    result,      \* what each send came to
    \* handle_incoming_ext_keys
    envelope,    \* per request and peer: where the envelope is, keys to open, keys acked
    \* handle_dec_keys
    call,        \* per call: who asks, for which master, keys to take, keys taken
    \* history
    stored,      \* <<n, k>>: n had an entry for k at some time
    given        \* per SAE and key, the times it was handed over

store == <<held, expired, retrieved, perOrigin, doomed, uncounted, stored>>
request == <<pc, left, charged, result>>
vars == <<store, request, envelope, call, given>>

-----------------------------------------------------------------------------
RequestOf(k) == CHOOSE r \in Request : k \in KeysOf[r]
Origin(k) == Home[Master[RequestOf(k)]]
At(r) == Home[Master[r]]
Authorized(n, k) == {s \in Targets[RequestOf(k)] : Home[s] = n}

\* remote_groups, and the local group.
Peers(r) == {Home[s] : s \in Targets[r]} \ {At(r)}
Local(r) == {s \in Targets[r] : Home[s] = At(r)}

NoCall == [sae |-> "none", master |-> "none", ask |-> {}, got |-> {}]
NoEnvelope == [pc |-> "none", toOpen |-> {}, acked |-> {}]

Init ==
    /\ held = {} /\ expired = {} /\ retrieved = {}
    /\ perOrigin = [n \in Node |-> [o \in Node |-> 0]]
    /\ doomed = {} /\ uncounted = {} /\ stored = {}
    /\ pc = [r \in Request |-> "idle"]
    /\ left = [r \in Request |-> {}]
    /\ charged = [r \in Request |-> {}]
    /\ result = [r \in Request |-> [p \in Node |-> "none"]]
    /\ envelope = [r \in Request |-> [p \in Node |-> NoEnvelope]]
    /\ call = [d \in Call |-> NoCall]
    /\ given = [s \in Sae |-> [k \in Key |-> 0]]

-----------------------------------------------------------------------------
(* PendingStore.                                                           *)

\* What is kept of entry e once it is dropped: nothing.
Forget(e) ==
    /\ held' = held \ {e}
    /\ expired' = expired \ {e}
    /\ retrieved' = {sk \in retrieved : <<Home[sk[1]], sk[2]>> # e}

\* remove_entry, first half: the entry leaves inner.  One that a peer left is
\* still counted.
RemoveEntry(n, k) ==
    /\ <<n, k>> \in doomed
    /\ doomed' = doomed \ {<<n, k>>}
    /\ Forget(<<n, k>>)
    /\ uncounted' = IF <<n, k>> \in held /\ Origin(k) # n
                      THEN uncounted \cup {<<n, k>>} ELSE uncounted
    /\ UNCHANGED <<perOrigin, stored, request, envelope, call, given>>

\* remove_entry, second half.
NoteRemoved(n, k) ==
    /\ <<n, k>> \in uncounted
    /\ uncounted' = uncounted \ {<<n, k>>}
    /\ perOrigin' = [perOrigin EXCEPT ![n][Origin(k)] = IF @ > 0 THEN @ - 1 ELSE 0]
    /\ UNCHANGED <<held, expired, retrieved, doomed, stored>>
    /\ UNCHANGED <<request, envelope, call, given>>

\* expires_at is reached.
Expire(n, k) ==
    /\ <<n, k>> \in held \ expired
    /\ expired' = expired \cup {<<n, k>>}
    /\ UNCHANGED <<held, retrieved, perOrigin, doomed, uncounted, stored>>
    /\ UNCHANGED <<request, envelope, call, given>>

\* Mutant: the sweeper lists everything it holds.
SweepAll(n) ==
    /\ \E k \in Key : <<n, k>> \in expired \ doomed
    /\ doomed' = doomed \cup {e \in held : e[1] = n}
    /\ UNCHANGED <<held, expired, retrieved, perOrigin, uncounted, stored>>
    /\ UNCHANGED <<request, envelope, call, given>>

\* sweep_expired takes the list of what has expired, then removes it.
SweepExpired(n) ==
    /\ \E k \in Key : <<n, k>> \in expired \ doomed
    /\ doomed' = doomed \cup {e \in expired : e[1] = n}
    /\ UNCHANGED <<held, expired, retrieved, perOrigin, uncounted, stored>>
    /\ UNCHANGED <<request, envelope, call, given>>

-----------------------------------------------------------------------------
(* handle_enc_keys.                                                        *)

\* Steps 1 to 4: the request is admitted, its peers are charged and its keys
\* are drawn.  A request that is not admitted changes nothing.
EncKeys(r) ==
    /\ pc[r] = "idle"
    /\ pc' = [pc EXCEPT ![r] = IF Local(r) = {} THEN "prepare" ELSE "insert"]
    /\ left' = [left EXCEPT ![r] = IF Local(r) = {} THEN {} ELSE KeysOf[r]]
    /\ charged' = [charged EXCEPT ![r] = Peers(r)]
    /\ UNCHANGED <<result, store, envelope, call, given>>

\* Step 5: the keys of the local SAEs, one insert at a time.
InsertLocal(r, k) ==
    /\ pc[r] = "insert" /\ k \in left[r]
    /\ held' = held \cup {<<At(r), k>>}
    /\ stored' = stored \cup {<<At(r), k>>}
    /\ left' = [left EXCEPT ![r] = @ \ {k}]
    /\ pc' = [pc EXCEPT ![r] = IF left[r] = {k} THEN "prepare" ELSE @]
    /\ UNCHANGED <<expired, retrieved, perOrigin, doomed, uncounted>>
    /\ UNCHANGED <<charged, result, envelope, call, given>>

\* Step 6: every envelope could be built, and all are sent.
Send(r) ==
    /\ pc[r] = "prepare"
    /\ pc' = [pc EXCEPT ![r] = "await"]
    /\ envelope' = [envelope EXCEPT ![r] = [p \in Node |->
                       IF p \in Peers(r)
                         THEN [pc |-> "sent", toOpen |-> KeysOf[r], acked |-> {}]
                         ELSE NoEnvelope]]
    /\ UNCHANGED <<left, charged, result, store, call, given>>

\* Step 6, prep_err: a buffer is empty or a peer is not configured.  Nothing was
\* sent, every token goes back, and the local entries are retracted.
PrepareFails(r) ==
    /\ pc[r] = "prepare" /\ Peers(r) # {}
    /\ charged' = [charged EXCEPT ![r] = {}]
    /\ pc' = [pc EXCEPT ![r] = "retract"]
    /\ left' = [left EXCEPT ![r] = KeysOf[r]]
    /\ UNCHANGED <<result, store, envelope, call, given>>

\* A send ends with the peer's answer: the body of an acknowledgement is not read.
SendAnswered(r, p) ==
    /\ pc[r] = "await" /\ p \in Peers(r) /\ result[r][p] = "none"
    /\ envelope[r][p].pc \in {"acked", "rejected"}
    /\ result' = [result EXCEPT ![r][p] =
                     IF envelope[r][p].pc = "acked" THEN "ok" ELSE "failed"]
    /\ UNCHANGED <<pc, left, charged, store, envelope, call, given>>

\* A send ends without one: peer_send_timeout_ms has passed or the connection broke,
\* wherever the envelope is.
SendTimesOut(r, p) ==
    /\ pc[r] = "await" /\ p \in Peers(r) /\ result[r][p] = "none"
    /\ result' = [result EXCEPT ![r][p] = "failed"]
    /\ UNCHANGED <<pc, left, charged, store, envelope, call, given>>

Failed(r) == {p \in Peers(r) : result[r][p] = "failed"}

\* Steps 6 and 7, once join_all is done: the keys are handed to the master, or the
\* failed peers are refunded and the local entries retracted.
Decide(r) ==
    /\ pc[r] = "await"
    /\ \A p \in Peers(r) : result[r][p] # "none"
    /\ pc' = [pc EXCEPT ![r] = IF Failed(r) = {} THEN "granted" ELSE "retract"]
    /\ left' = [left EXCEPT ![r] = IF Failed(r) = {} THEN {} ELSE KeysOf[r]]
    /\ charged' = [charged EXCEPT ![r] = @ \ Failed(r)]
    /\ UNCHANGED <<result, store, envelope, call, given>>

\* Mutant: only the first key is retracted.
RetractFirst(r, k) ==
    /\ pc[r] = "retract" /\ k \in left[r]
    /\ Forget(<<At(r), k>>)
    /\ left' = [left EXCEPT ![r] = {}]
    /\ pc' = [pc EXCEPT ![r] = "failed"]
    /\ UNCHANGED <<perOrigin, doomed, uncounted, stored>>
    /\ UNCHANGED <<charged, result, envelope, call, given>>

\* force_remove, one key at a time; the error is answered after the last.
Retract(r, k) ==
    /\ pc[r] = "retract" /\ k \in left[r]
    /\ Forget(<<At(r), k>>)
    /\ left' = [left EXCEPT ![r] = @ \ {k}]
    /\ pc' = [pc EXCEPT ![r] = IF left[r] = {k} THEN "failed" ELSE @]
    /\ UNCHANGED <<perOrigin, doomed, uncounted, stored>>
    /\ UNCHANGED <<charged, result, envelope, call, given>>

\* The master hangs up while its request waits for the peers: the future is
\* dropped, and with it everything the handler had still to do.
HangUp(r) ==
    /\ pc[r] = "await"
    /\ pc' = [pc EXCEPT ![r] = "dropped"]
    /\ UNCHANGED <<left, charged, result, store, envelope, call, given>>

-----------------------------------------------------------------------------
(* handle_incoming_ext_keys.                                               *)

Receive(r, p) ==
    /\ envelope[r][p].pc = "sent"
    /\ envelope' = [envelope EXCEPT ![r][p].pc = "open"]
    /\ UNCHANGED <<store, request, call, given>>

Lose(r, p) ==
    /\ envelope[r][p].pc = "sent"
    /\ envelope' = [envelope EXCEPT ![r][p].pc = "lost"]
    /\ UNCHANGED <<store, request, call, given>>

Opening(r, p, k) == envelope[r][p].pc = "open" /\ k \in envelope[r][p].toOpen

\* Key k is done with; the envelope is acknowledged after the last.
Opened(r, p, k, ack) ==
    envelope' = [envelope EXCEPT ![r][p] =
        [pc |-> IF @.toOpen = {k} THEN "acked" ELSE "open",
         toOpen |-> @.toOpen \ {k},
         acked |-> @.acked \cup ack]]

\* Mutant: the count of the origin is not taken while the entry is inserted.
InsertFromPeerUncounted(r, p, k) ==
    /\ perOrigin[p][At(r)] < MaxPending
    /\ Opened(r, p, k, {k})
    /\ held' = held \cup {<<p, k>>}
    /\ stored' = stored \cup {<<p, k>>}
    /\ UNCHANGED <<expired, retrieved, perOrigin, doomed, uncounted>>

\* insert_from_peer holds the count of the origin while it inserts.
InsertFromPeer(r, p, k) ==
    /\ perOrigin[p][At(r)] < MaxPending
    /\ IF <<p, k>> \in held
         THEN /\ Opened(r, p, k, {})
              /\ UNCHANGED store
         ELSE /\ Opened(r, p, k, {k})
              /\ held' = held \cup {<<p, k>>}
              /\ stored' = stored \cup {<<p, k>>}
              /\ perOrigin' = [perOrigin EXCEPT ![p][At(r)] = @ + 1]
              /\ UNCHANGED <<expired, retrieved, doomed, uncounted>>

\* The transport key is the sender's: the digest agrees, and the key is stored.
OpenSame(r, p, k) ==
    /\ Opening(r, p, k)
    /\ InsertFromPeer(r, p, k)
    /\ UNCHANGED <<request, call, given>>

\* The transport key is not the sender's: the digest differs, and the key is
\* left out of the acknowledgement.
OpenOther(r, p, k) ==
    /\ Opening(r, p, k)
    /\ Opened(r, p, k, {})
    /\ UNCHANGED <<store, request, call, given>>

\* The transport key is missing, or the origin has MAX_PENDING_PER_ORIGIN entries:
\* the envelope is answered with an error, the keys already stored stay.
OpenFails(r, p, k) ==
    /\ Opening(r, p, k)
    /\ envelope' = [envelope EXCEPT ![r][p].pc = "rejected", ![r][p].toOpen = {}]
    /\ UNCHANGED <<store, request, call, given>>

-----------------------------------------------------------------------------
(* handle_dec_keys.                                                        *)

DecKeys(d, s, m, ids) ==
    /\ call[d] = NoCall
    /\ ids # {}
    /\ call' = [call EXCEPT ![d] = [sae |-> s, master |-> m, ask |-> ids, got |-> {}]]
    /\ UNCHANGED <<store, request, envelope, given>>

Taking(d, k) == call[d] # NoCall /\ k \in call[d].ask

\* Mutant: the retrieved set is not looked at.
ServableAgain(s, m, k) ==
    /\ <<Home[s], k>> \in held \ expired
    /\ s \in Authorized(Home[s], k)
    /\ m = Master[RequestOf(k)]

Servable(s, m, k) ==
    /\ <<Home[s], k>> \in held \ expired
    /\ s \in Authorized(Home[s], k)
    /\ m = Master[RequestOf(k)]
    /\ <<s, k>> \notin retrieved

\* take_for_sae_of_master, under the lock of the entry: the SAE is marked, and the
\* entry is about to be removed when no authorised SAE is left.
Take(d, k) ==
    LET s == call[d].sae
        n == Home[s]
    IN  /\ Taking(d, k)
        /\ Servable(s, call[d].master, k)
        /\ retrieved' = retrieved \cup {<<s, k>>}
        /\ doomed' = IF \A a \in Authorized(n, k) : <<a, k>> \in retrieved'
                       THEN doomed \cup {<<n, k>>} ELSE doomed
        /\ call' = [call EXCEPT ![d].ask = @ \ {k}, ![d].got = @ \cup {k}]
        /\ UNCHANGED <<held, expired, perOrigin, uncounted, stored>>
        /\ UNCHANGED <<request, envelope, given>>

\* One key that cannot be taken fails the call: what it had taken is dropped with it.
TakeFails(d, k) ==
    LET n == Home[call[d].sae]
    IN  /\ Taking(d, k)
        /\ ~ Servable(call[d].sae, call[d].master, k)
        /\ doomed' = IF <<n, k>> \in expired THEN doomed \cup {<<n, k>>} ELSE doomed
        /\ call' = [call EXCEPT ![d] = NoCall]
        /\ UNCHANGED <<held, expired, retrieved, perOrigin, uncounted, stored>>
        /\ UNCHANGED <<request, envelope, given>>

\* The keys are handed to the SAE.
Answer(d) ==
    /\ call[d] # NoCall /\ call[d].ask = {}
    /\ given' = [given EXCEPT ![call[d].sae] =
                    [k \in Key |-> IF k \in call[d].got THEN @[k] + 1 ELSE @[k]]]
    /\ call' = [call EXCEPT ![d] = NoCall]
    /\ UNCHANGED <<store, request, envelope>>

-----------------------------------------------------------------------------
Ended == {"idle", "granted", "failed", "dropped"}

\* The process of DKMS n ends and starts again: all of this was in memory.
Restart(n) ==
    /\ held' = {e \in held : e[1] # n}
    /\ expired' = {e \in expired : e[1] # n}
    /\ doomed' = {e \in doomed : e[1] # n}
    /\ uncounted' = {e \in uncounted : e[1] # n}
    /\ retrieved' = {sk \in retrieved : Home[sk[1]] # n}
    /\ perOrigin' = [perOrigin EXCEPT ![n] = [o \in Node |-> 0]]
    /\ pc' = [r \in Request |->
                 IF At(r) = n /\ pc[r] \notin Ended THEN "dropped" ELSE pc[r]]
    /\ envelope' = [r \in Request |-> [envelope[r] EXCEPT ![n].pc =
                       IF @ = "open" THEN "lost" ELSE @]]
    /\ call' = [d \in Call |->
                   IF call[d] # NoCall /\ Home[call[d].sae] = n THEN NoCall ELSE call[d]]
    /\ UNCHANGED <<left, charged, result, stored, given>>

PendingNext ==
    \E n \in Node : \/ \E k \in Key : RemoveEntry(n, k) \/ NoteRemoved(n, k) \/ Expire(n, k)
                    \/ SweepExpired(n)
                    \/ Restart(n)

EncKeysNext ==
    \E r \in Request :
        \/ EncKeys(r) \/ Send(r) \/ PrepareFails(r) \/ Decide(r) \/ HangUp(r)
        \/ \E k \in KeysOf[r] : InsertLocal(r, k) \/ Retract(r, k)
        \/ \E p \in Node : SendAnswered(r, p) \/ SendTimesOut(r, p)

ExtKeysNext ==
    \E r \in Request, p \in Node :
        \/ Receive(r, p) \/ Lose(r, p)
        \/ \E k \in KeysOf[r] : OpenSame(r, p, k) \/ OpenOther(r, p, k) \/ OpenFails(r, p, k)

DecKeysNext ==
    \E d \in Call :
        \/ \E s \in Sae, m \in {Master[r] : r \in Request}, ids \in SUBSET Key : DecKeys(d, s, m, ids)
        \/ \E k \in Key : Take(d, k) \/ TakeFails(d, k)
        \/ Answer(d)

Next == PendingNext \/ EncKeysNext \/ ExtKeysNext \/ DecKeysNext

Spec == Init /\ [][Next]_vars

-----------------------------------------------------------------------------
(* Properties.                                                             *)

EnvelopePc == {"none", "sent", "open", "acked", "rejected", "lost"}

\* The state has the shape the types of PendingStore and of the handlers give it.
TypeOK ==
    /\ held \subseteq Node \X Key /\ expired \subseteq held
    /\ doomed \subseteq Node \X Key /\ uncounted \subseteq Node \X Key
    /\ held \subseteq stored /\ stored \subseteq Node \X Key
    /\ retrieved \subseteq Sae \X Key
    /\ perOrigin \in [Node -> [Node -> Nat]]
    /\ pc \in [Request -> Ended \cup {"insert", "prepare", "await", "retract"}]
    /\ left \in [Request -> SUBSET Key]
    /\ charged \in [Request -> SUBSET Node]
    /\ result \in [Request -> [Node -> {"none", "ok", "failed"}]]
    /\ envelope \in [Request -> [Node ->
           [pc : EnvelopePc, toOpen : SUBSET Key, acked : SUBSET Key]]]
    /\ call \in [Call -> [sae : Sae \cup {"none"}, master : Sae \cup {"none"},
                          ask : SUBSET Key, got : SUBSET Key]]
    /\ given \in [Sae -> [Key -> Nat]]

\* The refinement mapping: a key is offered to an SAE while its entry is there, not
\* expired and not marked, and then while a call of the SAE holds it.
Intended == {sk \in Sae \X Key : sk[1] \in Targets[RequestOf(sk[2])]}
InStore == {sk \in Intended : <<Home[sk[1]], sk[2]>> \in held \ expired} \ retrieved
InHand == {sk \in Intended : \E d \in Call : call[d].sae = sk[1] /\ sk[2] \in call[d].got}

Delivery == INSTANCE KeyDelivery WITH
    offered <- InStore \cup InHand,
    past <- {sk \in Intended : <<Home[sk[1]], sk[2]>> \in stored}

\* The DKMSs keep the promise of KeyDelivery: whatever the interleaving of
\* requests, envelopes, takes, expiries, sweeps, retractions and restarts, a key is
\* offered once to each SAE it was made for, and handed over at most once
\* (take_for_sae_of_master marks the SAE under the lock of the entry).
DeliversOnce == Delivery!Spec

\* per_origin of a DKMS counts the entries each other DKMS left there, those being
\* removed included, and never passes MAX_PENDING_PER_ORIGIN, although entries are
\* removed under one lock and counted under another.
OriginAccounted ==
    \A n, o \in Node : n # o =>
        /\ perOrigin[n][o] = Cardinality({e \in held \cup uncounted :
                                            e[1] = n /\ Origin(e[2]) = o})
        /\ perOrigin[n][o] <= MaxPending

\* A request answered with an error leaves no entry for the local SAEs, so from then on
\* none of them can take its keys (one may have before, and an SAE of a peer that stored
\* them still can), and its tokens go back exactly for the peers that were sent nothing
\* or whose send failed.  A request that is answered keeps what it was charged.
FailedLeavesNothing ==
    \A r \in Request :
        /\ pc[r] = "failed" => /\ \A k \in KeysOf[r] : <<At(r), k>> \notin held
                               /\ charged[r] = {p \in Peers(r) : result[r][p] = "ok"}
        /\ pc[r] = "granted" => charged[r] = Peers(r)

\* An entry leaves the PendingStore before an authorised SAE had its key only because
\* it expired, its request failed, or the process ended: no take, sweep or
\* retraction of another thread removes an entry that is still wanted.
Wanted(e) == \E s \in Authorized(e[1], e[2]) : <<s, e[2]>> \notin retrieved
NotRemovedEarly ==
    [][\A e \in held \ held' :
          \/ e \in expired \/ ~ Wanted(e)
          \/ e[1] = Origin(e[2]) /\ pc[RequestOf(e[2])] = "retract"
          \/ Restart(e[1])]_vars
============================================================================
