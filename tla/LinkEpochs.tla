---------------------------- MODULE LinkEpochs -----------------------------
(***************************************************************************)
(* The secrets of a PQC link: the handshake of pqc_handshake.rs, which     *)
(* agrees one ML-KEM secret per epoch, and the SecretStore of              *)
(* pqc_source.rs that both ends of the link derive their keys from.        *)
(*                                                                         *)
(* The lower end ("i") runs the rotation loop and sends INITs, the other   *)
(* ("r") answers.  Frames wait in the queue of the sender (PeerOut), which *)
(* outlives a connection, and then on a socket, which does not.  Decapsulating  *)
(* with the wrong key does not fail: it gives another secret.              *)
(***************************************************************************)
EXTENDS Integers, Sequences, FiniteSets, FiniteSetsExt, Functions

CONSTANTS
    Lookahead,     \* pqc_lookahead: epochs agreed ahead of the one in use
    Keep,          \* SecretStore::keep
    MaxJump,       \* MAX_RESYNC_JUMP
    MaxEpoch,      \* u32::MAX
    QueueMax,      \* QUEUE_CAPACITY of a PeerSlot
    MaxFaults,     \* restarts, cuts and timeouts of establish in a behaviour
    MaxRotations   \* rotations in a behaviour

ASSUME LinkAssumption ==
    /\ MaxEpoch \in Nat \ {0} /\ Lookahead \in 0 .. MaxEpoch /\ MaxJump \in Nat \ {0}
    /\ Keep \in Nat /\ Keep >= Lookahead + 2
    /\ QueueMax \in Nat \ {0} /\ MaxFaults \in Nat /\ MaxRotations \in Nat

End == {"i", "r"}
Epoch == 0 .. MaxEpoch
None == -1

VARIABLES
    store,      \* SecretStore::inner of each end: epoch to secret
    resync,     \* SecretStore::resync_epoch of i
    pending,    \* pending_pk and pending_sk of i: epoch to keypair
    cache,      \* resp_cache of r: epoch to ciphertext
    loop,       \* the rotation loop of i
    permit,     \* the reconnect permit of i's PeerSlot
    recent,     \* per end: RELINK_MIN_INTERVAL has not passed
    wire,       \* per end, the frames on their way to it
    batch,      \* the keys a dec_keys waits for: at which end, of which epoch
    fresh,      \* keypairs and ciphertexts made so far
    run,        \* per end, how many times it was started
    faults, rotations,
    crossed     \* an INIT, or the RESP to one, was handled that was sent before a restart

secrets == <<store, pending, cache>>
past == <<fresh, run, faults, rotations, crossed>>
vars == <<secrets, resync, loop, permit, recent, wire, batch, past>>

Other(x) == IF x = "i" THEN "r" ELSE "i"
Sat(e) == IF e > MaxEpoch THEN MaxEpoch ELSE e
Without(f, S) == Restrict(f, DOMAIN f \ S)
Put(f, e, v) == [d \in DOMAIN f \cup {e} |-> IF d = e THEN v ELSE f[d]]

-----------------------------------------------------------------------------
(* SecretStore.                                                            *)

Highest(x) == IF DOMAIN store[x] = {} THEN None ELSE Max(DOMAIN store[x])
Lowest(x) == IF DOMAIN store[x] = {} THEN None ELSE Min(DOMAIN store[x])

\* The sliding window: the lowest epochs go first.
Evict(f) == IF Cardinality(DOMAIN f) > Keep
              THEN Without(f, {Min(DOMAIN f)}) ELSE f

Insert(f, e, s) == IF e \in DOMAIN f THEN f ELSE Evict(Put(f, e, s))
Replace(f, e, s) == Evict(Put(f, e, s))

From(f, e) == Without(f, 0 .. e - 1)

\* The epoch enc_keys uses.
ActiveEpoch(x) ==
    LET target == IF Highest(x) > Lookahead THEN Highest(x) - Lookahead ELSE 0
    IN  IF Lowest(x) > target THEN Lowest(x) ELSE target

-----------------------------------------------------------------------------
(* ML-KEM, and the frames.                                                 *)

\* A ciphertext stands for the secret it encapsulates.
Encap(pk) == [pk |-> pk, n |-> fresh, ok |-> TRUE]
Decap(pk, ct) == IF ct.pk = pk THEN ct ELSE [pk |-> pk, n |-> ct.n, ok |-> FALSE]

InitFrame(e, pk) == [kind |-> "init", epoch |-> e, body |-> pk, run |-> run]
RespFrame(e, ct, f) == [kind |-> "resp", epoch |-> e, body |-> ct, run |-> f.run]
ResyncReqFrame(e) == [kind |-> "resync", epoch |-> e, body |-> None, run |-> run]

\* PeerOut::send: a frame that finds the queue full is dropped.
Queued(x, f) == IF Len(wire[x]) < QueueMax THEN Append(wire[x], f) ELSE wire[x]
SendTo(x, f) == wire' = [wire EXCEPT ![x] = Queued(x, f)]

\* The frame that x handles next.
Handling(x, kind) == wire[x] # <<>> /\ Head(wire[x]).kind = kind
Handled(f) == crossed' = (crossed \/ f.run # run)

-----------------------------------------------------------------------------
(* handle_init, handle_resp, handle_resync_request.                        *)

\* Mutant: an epoch in resp_cache is answered whatever the public key.
HandleInitAnyKey ==
    /\ Handling("r", "init")
    /\ LET f == Head(wire["r"])
           e == f.epoch
           ct == IF e \in DOMAIN cache THEN cache[e] ELSE Encap(f.body)
       IN  /\ Handled(f)
           /\ wire' = [wire EXCEPT !["r"] = Tail(@), !["i"] = Queued("i", RespFrame(e, ct, f))]
           /\ store' = [store EXCEPT !["r"] = Insert(@, e, ct)]
           /\ cache' = Put(cache, e, ct)
           /\ fresh' = fresh + 1
    /\ UNCHANGED <<pending, resync, loop, permit, recent, batch, run, faults, rotations>>

HandleInit ==
    /\ Handling("r", "init")
    /\ LET f == Head(wire["r"])
           e == f.epoch
           known == e \in DOMAIN cache
           ct == IF known /\ cache[e].pk = f.body THEN cache[e] ELSE Encap(f.body)
       IN  /\ Handled(f)
           /\ wire' = [wire EXCEPT !["r"] = Tail(@), !["i"] = Queued("i", RespFrame(e, ct, f))]
           /\ IF known /\ cache[e].pk = f.body
                THEN UNCHANGED <<store, cache, fresh>>
                ELSE /\ store' = [store EXCEPT !["r"] =
                                     IF known THEN Replace(@, e, ct) ELSE Insert(@, e, ct)]
                     /\ cache' = Put(cache, e, ct)
                     /\ fresh' = fresh + 1
    /\ UNCHANGED <<pending, resync, loop, permit, recent, batch, run, faults, rotations>>

HandleResp ==
    /\ Handling("i", "resp")
    /\ LET f == Head(wire["i"])
           e == f.epoch
       IN  /\ Handled(f)
           /\ store' = IF e \in DOMAIN store["i"] \/ e \notin DOMAIN pending THEN store
                       ELSE [store EXCEPT !["i"] = Insert(@, e, Decap(pending[e], f.body))]
    /\ wire' = [wire EXCEPT !["i"] = Tail(@)]
    /\ UNCHANGED <<pending, cache, resync, loop, permit, recent, batch>>
    /\ UNCHANGED <<fresh, run, faults, rotations>>

HandleResyncRequest ==
    /\ Handling("i", "resync")
    /\ resync' = Max({resync, Head(wire["i"]).epoch, 1})
    /\ wire' = [wire EXCEPT !["i"] = Tail(@)]
    /\ UNCHANGED <<secrets, loop, permit, recent, batch, past>>

-----------------------------------------------------------------------------
(* The rotation loop of i, the only owner of establish.                    *)

\* Booting establishes 0 .. Lookahead.
Booting == [pc |-> "boot", epoch |-> 0, last |-> Lookahead, sent |-> FALSE,
            target |-> Lookahead, needWork |-> TRUE, pruneAfter |-> None]

Establishing == loop.pc # "select" /\ loop.epoch <= loop.last
Contained == loop.epoch \in DOMAIN store["i"]

\* establish: a new keypair, or the one of an attempt that timed out, and an INIT.
Establish ==
    /\ Establishing /\ ~ loop.sent /\ ~ Contained
    /\ pending' = IF loop.epoch \in DOMAIN pending THEN pending
                  ELSE Put(pending, loop.epoch, fresh)
    /\ fresh' = IF loop.epoch \in DOMAIN pending THEN fresh ELSE fresh + 1
    /\ SendTo("r", InitFrame(loop.epoch, pending'[loop.epoch]))
    /\ loop' = [loop EXCEPT !.sent = TRUE]
    /\ UNCHANGED <<store, cache, resync, permit, recent, batch>>
    /\ UNCHANGED <<run, faults, rotations, crossed>>

\* INIT_RETRY passes without the RESP.
ResendInit ==
    /\ Establishing /\ loop.sent /\ ~ Contained
    /\ Len(wire["r"]) < QueueMax
    /\ SendTo("r", InitFrame(loop.epoch, pending[loop.epoch]))
    /\ UNCHANGED <<secrets, resync, loop, permit, recent, batch, past>>

\* The epoch is there: on to the next.
Established ==
    /\ Establishing /\ Contained
    /\ pending' = IF loop.sent THEN Without(pending, {loop.epoch})
                  ELSE pending
    /\ loop' = [loop EXCEPT !.epoch = @ + 1, !.sent = FALSE,
                            !.needWork = IF loop.pc = "boot" THEN FALSE ELSE @]
    /\ UNCHANGED <<store, cache, resync, permit, recent, wire, batch, past>>

\* Mutant: the new block goes with the old one.
PruneAll(base) ==
    /\ store' = [store EXCEPT !["i"] = Without(@, 0 .. base + Lookahead)]
    /\ pending' = Without(pending, 0 .. base + Lookahead)

Prune(base) ==
    /\ store' = [store EXCEPT !["i"] = From(@, base)]
    /\ pending' = From(pending, base)

\* ESTABLISH_TIMEOUT passes: the loop goes back to select!, and works again later.
EstablishTimesOut ==
    /\ Establishing /\ loop.sent /\ ~ Contained
    /\ faults < MaxFaults
    /\ faults' = faults + 1
    /\ loop' = [loop EXCEPT !.pc = "select", !.sent = FALSE, !.epoch = 0, !.last = 0,
                  !.needWork = IF loop.pc = "relink" THEN TRUE ELSE @,
                  !.target = IF loop.pc = "relink" THEN Max({@, loop.last}) ELSE @,
                  !.pruneAfter = IF loop.pc = "relink"
                                   THEN Max({loop.last - Lookahead, 0}) ELSE @]
    /\ UNCHANGED <<secrets, resync, permit, recent, wire, batch, fresh, run, rotations, crossed>>

\* Every epoch up to the last is there.
WorkDone ==
    /\ loop.pc # "select" /\ loop.epoch > loop.last
    /\ CASE loop.pc = "boot" ->
              UNCHANGED <<store, pending>>
         [] loop.pc = "retry" ->
              IF loop.pruneAfter = None THEN UNCHANGED <<store, pending>>
              ELSE Prune(loop.pruneAfter)
         [] loop.pc = "relink" -> Prune(loop.last - Lookahead)
    /\ loop' = [loop EXCEPT !.pc = "select", !.epoch = 0, !.last = 0,
                  !.needWork = IF loop.pc = "retry" THEN FALSE ELSE @,
                  !.pruneAfter = IF loop.pc = "retry" THEN None ELSE @,
                  !.target = IF loop.pc = "relink" THEN Max({@, loop.last}) ELSE @]
    /\ UNCHANGED <<cache, resync, permit, recent, wire, batch, past>>

\* The retry timer: establish_up_to(target).
Retry ==
    /\ loop.pc = "select" /\ loop.needWork
    /\ loop' = [loop EXCEPT !.pc = "retry", !.last = loop.target,
                            !.epoch = Sat(Highest("i") + 1)]
    /\ UNCHANGED <<secrets, resync, permit, recent, wire, batch, past>>

Rotate ==
    /\ loop.pc = "select" /\ rotations < MaxRotations
    /\ rotations' = rotations + 1
    /\ loop' = [loop EXCEPT !.needWork = TRUE,
                  !.target = IF Highest("i") = None THEN @
                             ELSE Max({@, Sat(Highest("i") + 1)})]
    /\ UNCHANGED <<secrets, resync, permit, recent, wire, batch>>
    /\ UNCHANGED <<fresh, run, faults, crossed>>

ResyncBase(peerEpoch) ==
    LET mine == Sat(Highest("i") + 1)
    IN  Min({Max({mine, Sat(peerEpoch + 1)}), Sat(mine + MaxJump)})

\* relink, up to its first establish.  The numbers are spent when aim is u32::MAX.
Relink(peerEpoch) ==
    LET base == ResyncBase(peerEpoch)
        aim == Sat(base + Lookahead)
    IN  IF recent["i"] THEN UNCHANGED <<recent, loop>>
        ELSE /\ recent' = [recent EXCEPT !["i"] = TRUE]
             /\ loop' = IF aim = MaxEpoch THEN loop
                        ELSE [loop EXCEPT !.pc = "relink", !.epoch = base, !.last = aim]

Reconnected ==
    /\ loop.pc = "select" /\ permit
    /\ permit' = FALSE
    /\ Relink(0)
    /\ UNCHANGED <<secrets, resync, wire, batch, past>>

ResyncRequested ==
    /\ loop.pc = "select" /\ resync > 0
    /\ resync' = 0
    /\ Relink(resync)
    /\ UNCHANGED <<secrets, permit, wire, batch, past>>

IntervalElapses(x) ==
    /\ recent[x]
    /\ recent' = [recent EXCEPT ![x] = FALSE]
    /\ UNCHANGED <<secrets, resync, loop, permit, wire, batch, past>>

-----------------------------------------------------------------------------
(* PqcKeySource.                                                           *)

NoBatch == [to |-> "none", epoch |-> None]

\* x makes keys with its active epoch and notifies their ids.  The other end derives
\* them, gives them up when the epoch is below its floor, or waits for the epoch.
EncKeys(x) ==
    LET e == ActiveEpoch(x)
        y == Other(x)
    IN  /\ DOMAIN store[x] # {} /\ e \in DOMAIN store[x]
        /\ batch = NoBatch
        /\ e \notin DOMAIN store[y] /\ e >= Lowest(y)
        /\ batch' = [to |-> y, epoch |-> e]
        /\ UNCHANGED <<secrets, resync, loop, permit, recent, wire, past>>

Derived(x) ==
    /\ batch.to = x /\ batch.epoch \in DOMAIN store[x]
    /\ batch' = NoBatch
    /\ UNCHANGED <<secrets, resync, loop, permit, recent, wire, past>>

\* Mutant: keys that cannot be derived are only counted.
AwaitTimesOutSilent(x) ==
    /\ batch.to = x /\ batch.epoch \notin DOMAIN store[x]
    /\ batch' = NoBatch
    /\ UNCHANGED <<secrets, resync, recent, wire, loop, permit, past>>

\* SECRET_WAIT passes: the initiator's loop is told of the epoch it lacks.  The
\* responder's, which can only ask, tells the initiator how high its window is.
\* Epoch 0 is taken for nothing pending.
AwaitTimesOut(x) ==
    /\ batch.to = x /\ batch.epoch \notin DOMAIN store[x]
    /\ batch' = NoBatch
    /\ IF x = "i"
         THEN resync' = Max({resync, batch.epoch}) /\ UNCHANGED <<recent, wire>>
         ELSE /\ UNCHANGED resync
              /\ IF recent["r"] \/ batch.epoch = 0 THEN UNCHANGED <<recent, wire>>
                 ELSE /\ recent' = [recent EXCEPT !["r"] = TRUE]
                      /\ SendTo("i", ResyncReqFrame(Max({Highest("r"), 0})))
    /\ UNCHANGED <<secrets, loop, permit, past>>

-----------------------------------------------------------------------------
(* Faults.                                                                 *)

\* A socket takes with it some of the frames at the front of the queue.
Cut(q, lost) == SubSeq(q, lost + 1, Len(q))

\* The connection from i to r breaks and is opened again.
Disconnect(lost) ==
    /\ faults < MaxFaults
    /\ faults' = faults + 1
    /\ wire' = [wire EXCEPT !["r"] = Cut(@, lost)]
    /\ permit' = TRUE
    /\ UNCHANGED <<secrets, resync, loop, recent, batch, fresh, run, rotations, crossed>>

\* x ends and starts again.  What it had put on the socket can still be read, what it
\* had only queued is gone; the other end keeps what it had not yet written.
Restart(x, sent, lost) ==
    /\ faults < MaxFaults
    /\ faults' = faults + 1
    /\ run' = [run EXCEPT ![x] = @ + 1]
    /\ wire' = [wire EXCEPT ![x] = Cut(@, lost), ![Other(x)] = SubSeq(@, 1, sent)]
    /\ store' = [store EXCEPT ![x] = <<>>]
    /\ recent' = [recent EXCEPT ![x] = FALSE]
    /\ batch' = IF batch.to = x THEN NoBatch ELSE batch
    /\ IF x = "i"
         THEN pending' = <<>> /\ loop' = Booting /\ permit' = FALSE /\ resync' = 0
              /\ UNCHANGED cache
         ELSE cache' = <<>> /\ permit' = TRUE /\ UNCHANGED <<pending, loop, resync>>
    /\ UNCHANGED <<fresh, rotations, crossed>>

-----------------------------------------------------------------------------
Init ==
    /\ store = [x \in End |-> <<>>]
    /\ pending = <<>> /\ cache = <<>>
    /\ resync = 0
    /\ loop = Booting
    /\ permit = FALSE
    /\ recent = [x \in End |-> FALSE]
    /\ wire = [x \in End |-> <<>>]
    /\ batch = NoBatch
    /\ fresh = 1 /\ run = [x \in End |-> 1]
    /\ faults = 0 /\ rotations = 0 /\ crossed = FALSE

Handshake == HandleInit \/ HandleResp \/ HandleResyncRequest

Loop == \/ Establish \/ ResendInit \/ Established \/ EstablishTimesOut \/ WorkDone
        \/ Retry \/ Rotate \/ Reconnected \/ ResyncRequested

Keys == \E x \in End : \/ EncKeys(x) \/ Derived(x) \/ AwaitTimesOut(x)
                       \/ IntervalElapses(x)

Fault == \/ \E lost \in 0 .. Len(wire["r"]) : Disconnect(lost)
         \/ \E x \in End : \E lost \in 0 .. Len(wire[x]), sent \in 0 .. Len(wire[Other(x)]) :
               Restart(x, sent, lost)

Next == Handshake \/ Loop \/ Keys \/ Fault

Spec == Init /\ [][Next]_vars

-----------------------------------------------------------------------------
(* Properties.                                                             *)

Frame == [kind : {"init", "resp", "resync"}, epoch : Epoch]
Secret == [pk : Nat, n : Nat, ok : BOOLEAN]

\* The stores are windows of at most keep epochs, the queues hold at most
\* QUEUE_CAPACITY frames, and the loop works on epochs a u32 can hold.
TypeOK ==
    /\ \A x \in End :
          /\ DOMAIN store[x] \subseteq Epoch /\ Cardinality(DOMAIN store[x]) <= Keep
          /\ \A e \in DOMAIN store[x] : store[x][e] \in Secret
          /\ Len(wire[x]) <= QueueMax
          /\ \A m \in 1 .. Len(wire[x]) :
                [kind |-> wire[x][m].kind, epoch |-> wire[x][m].epoch] \in Frame
    /\ DOMAIN pending \subseteq Epoch /\ DOMAIN cache \subseteq Epoch
    /\ resync \in Epoch
    /\ loop.pc \in {"boot", "select", "retry", "relink"}
    /\ {loop.last, loop.target} \subseteq Epoch /\ loop.epoch \in 0 .. MaxEpoch + 1
    /\ loop.pruneAfter \in Epoch \cup {None}
    /\ batch.to \in End \cup {"none"} /\ batch.epoch \in Epoch \cup {None}

\* The stores keep to their windows, and, as long as no INIT or RESP outlives an
\* execution of either end, an epoch that both ends hold has the same secret at both:
\* not after resent INITs, RESPs that come late, attempts that timed out and began
\* again, nor after a restart that repeats the numbers (handle_init compares the public
\* key before it answers from resp_cache).
SameSecret(e) == store["i"][e] = store["r"][e]
Agree ==
    /\ TypeOK
    /\ ~ crossed => \A e \in DOMAIN store["i"] \cap DOMAIN store["r"] : SameSecret(e)

\* A relink prunes only once the new block is there: an end that has an epoch to
\* encrypt with has one until its process ends.
NeverEmptied ==
    [][\A x \in End : DOMAIN store[x] # {} /\ run'[x] = run[x] => DOMAIN store'[x] # {}]_vars

\* What x encrypts can be decrypted, or is given up for being below the floor.
Decrypted(x) == DOMAIN store[x] # {} /\ ActiveEpoch(x) \in DOMAIN store[Other(x)]
GivenUp(x) == DOMAIN store[x] # {} /\ ActiveEpoch(x) < Lowest(Other(x))
Exhausted == Sat(ResyncBase(resync) + Lookahead) = MaxEpoch

HealedOrGaveUp == Exhausted \/ \A x \in End : Decrypted(x) \/ GivenUp(x)
=============================================================================
