# DKMS: a TLA+ verification project

Specifications, model-checking configurations and machine-checked proofs for
the distributed key management system under `src/`. Section 1 describes the
system, section 2 the modules and the code each one stands for, section 3 the
runs, their bounds and the fairness they assume, section 4 the proofs, section 5
where code and comments disagree, section 6 what is left out. `PROJECT.json`
maps each definition to the lines it models and lists the hazards of the code
with the properties that cover them.

## 1. The system

A site runs three processes; one controller serves the whole network.

| Process | Keeps | Does |
|---|---|---|
| DKMS (`dkms/`) | `buffer_enc`, `buffer_dec` and `ack_pending` per peer, the pending session keys of the SAEs, token buckets, seal epochs | generates transport keys, answers ETSI 014/020 requests, hands session keys to the peer wrapped with a transport key |
| ORR (`orr/`) | epochs with the other ORRs, replay tables, delivery queues | relays DKMS messages end to end, in the clear or as an onion |
| QKC (`qkc/`) | per link: ENC ring, DEC map, announced ids, PQC epoch secrets, frame-MAC windows | encrypts every hop with keys of the link's KME or of its PQC epochs |
| SDN (`sdn/`) | topology, presence, demand, the last solution | admits links, expires nodes, recomputes rates and routes behind a debouncer |

`quditto/` simulates the KME of a QKD link. `common/`, `wire/` and `etsi/` are
libraries: cryptographic primitives, the replay window, frame and JSON formats.

How they interact, along the life of one key:

1. The generator of DKMS *A* draws a transport key for *B*, records it in
   `ack_pending` and sends it as a sealed `DKMS_BUFFER` through ORR and QKC.
2. Each QKC on the way takes a link key from its ENC ring, and the next QKC
   consumes its twin, whose id an earlier NOTIFY announced.
3. The delivery pump of *B* notes the incarnation of *A* (and wipes shared
   material if it changed), pushes the key to `buffer_dec` and batches an ACK.
4. The ACK moves the key of *A* to `buffer_enc`.
5. A SAE asks *A* for session keys. *A* pops a transport key per peer, wraps the
   session key and posts it to *B*, which takes the twin by id, opens it and
   keeps the session key until the slave SAE collects it.

Around that, the SDN learns who is there and which links exist, solves for rates
and routes, and pushes tables to the QKCs and events to ORRs and DKMSs. Every
buffer is in RAM; a restarted process begins empty under a new incarnation.

What is hard in it, and what correctness means there:

| Part | Hard behaviour | Correct when |
|---|---|---|
| Transport-key cycle | three stores under three locks, wipes in several steps, restarts on both sides, lost and late ACKs, give-back after a failed preparation | a pad is used once; only what the peer stored is served; nothing survives its execution |
| Session keys | several peers, partial failure, refunds, expiry against collection | a session key is collected once per SAE; a failed request leaves nothing behind |
| Link key store, sending side | two producers, FIFO wake-ups with one permit, tasks that time out while being woken | no key is thrown away; no task sleeps beside keys; a low ring is being refilled |
| Link key store, receiving side | announcement, fetch, insertion and lookup under four locks; frames that overtake announcements | no lost wake-up; one copy of a pad; every announced id is fetched |
| Link epochs | rotation, loss of either leg, restart of one end, sliding window of secrets | the two ends agree on the secret of an epoch; a live link recovers |
| ORR rotation and bootstrap | three legs of which any may be lost, provisional epochs, both ends remaking the secret at once | after the first rotation none cuts an onion; what is confirmed opens; the pair heals |
| Replay window | sessions that cross, change and come back; a bitmap that shifts | nothing accepted twice, nothing fresh refused |
| Recompute debouncer | deadline computed outside the lock, two atomics with no lock around them | one recompute at a time, none forgotten, none starved |
| SDN presence, topology, tables | expiry racing a new announcement, tables of different ages, stale answers cached | a live node is not withdrawn; frames get closer; what the SDN decides arrives |

## 2. The modules

A step of a specification is what the code does without letting another thread
in: one critical section, one atomic operation, or the stretch of an
asynchronous task between two locks or awaits. Where a handler takes several
locks in turn, it is several actions ordered by a program counter. A definition
whose comment says it is a mutant is not part of a specification: it is the
plausible mistake that shows that a property can fail.

Cryptography is ideal throughout: a MAC or signature matches its key and
transcript and no other, and an ML-KEM decapsulation with the wrong key gives
another secret without an error, as it does in the code.

### 2.1 Key material of the DKMS

**TransportKeys** (`dkms/src/control`, `state`, `service.rs`). State: per node
and peer, the tables of `pool.rs`, `buffer.rs`, `ack_pending.rs` and `peers.rs`
(`enc`, `dec`, `ackPending`, `ackQueue`, `seen`, `cooldown`), what a step of the
code has in its hands (`tick`, `acking`, `popped`, `pump`), the running execution
(`inc`), and the messages on the network as sets, which can be lost and
reordered. History variables record who emitted a key, which execution stored it,
and how many session keys it wrapped and opened. Actions follow `tick_once` (count
the two stores one after the other, then emit), `on_ack` (take, then push), the
reaper, the delivery pump (note the incarnation, three wipes, push, queue an
ACK), the ACK flush, the request (pop; give back when the preparation fails;
send), `ext_keys` (take by id or answer `TransportKeyMissing`), the resync that a
rejection causes, and restart. A buffer is a set (popping the oldest is popping
some); the number of keys a tick emits is any number its tokens and the capacity
allow; the peers of a node are ticked independently, which allows more
interleavings than the one loop of the code.

**SessionKeys** and **KeyDelivery** (`dkms/src/service.rs`, `state/pending.rs`).
`SessionKeys` has `handle_enc_keys` at the master's DKMS (insert per key, prepare
and post the envelopes, decide, retract and refund), `handle_incoming_ext_keys`
at the others, `handle_dec_keys`, the sweeper, the cap per origin, hang-ups and
restarts. `PendingStore::clear`, which only a drain calls, is not an action of its
own: it empties the store as `Restart` does, and how it meets requests that are
inside is in `DkmsIntake`. `KeyDelivery` is the abstract promise: a key is offered once to each SAE
it was made for, and the offer ends with the SAE having it or with the key
withdrawn, never both and never twice. `SessionKeys` implements it under the
mapping `DeliversOnce` states; TLC checks it and TLAPS proves it.

**PeerBuckets** (`sae_buffer_bucket.rs`): the buckets per peer and SAE, filled
from shares of the rate, taken all or none, refunded and evicted. **DkmsIntake**
(`etsi_http/`, `admission.rs`, `grpc_server.rs`): connections, the gate and the
count of requests as two atomics, drains. **E2eEpochs** (`e2e.rs`): the seal epochs
of two DKMSs, with crossing requests and late answers. **DkmsPeers** (`peers.rs`):
the peers of `node.yml` and of the SDN, in two maps replaced one after the other.
**AckSocket** (`ack_socket.rs`) and **OrrStream** (`orr/grpc_server.rs`,
`dkms/service.rs`): the two channels on which a DKMS hears from its peers and from
its ORR. **RateLoop** (`generator.rs`, `sdn/demand.rs`): demand reports and the
rates that come back.

### 2.2 Links of the QKC

**EncBuffer** (`qkc/src/keystore.rs`). State: the ENC ring as a count (its keys
are interchangeable), the two producers (`enc_refill_loop`, `bank_from`) with what
they asked for and have left to push, the tasks inside `wait_enc_batch`, and the
two `Notify` objects. Tokio's `Notify` is external and is modelled from its
documented behaviour: a queue of registered waiters, one permit, a wake-up that is
passed on when a woken waiter is dropped, a permit that is not once `enable` took
it. `enc_inserted_seq` becomes "it moved since this task read it", kept only for
tasks that will compare it. The banking may start whenever its ring condition
allows. The KME answers with up to the number asked or with an error: that is an
assumption on the KME, since `kme.rs` does not count what it gets, and a longer
answer would find the ring full (`keystore.rs` tests that the surplus is dropped).

**DecBuffer** (`keystore.rs`, `relay.rs`). State: what the receiver's KME holds,
the batches pushed by a producer and not announced yet, the connection as a queue,
the NOTIFY that the reader is processing, `dec_pending`, `dec_announced`, the
permit of `dec_request`, the worker, the DEC map, one task per data frame and the
waiters of `dec_inserted`. A data frame is named after its key: one key per block
and one frame per key. The connection keeps order, and any of its frames may be
lost when it breaks, when the queue to the peer is full or when the receiver's
intake is.

**LinkEpochs** (`pqc_handshake.rs`, `pqc_source.rs`). The lower end runs the
rotation loop and sends INITs, the other answers RESPs from `resp_cache` or with a
new secret; both keep a sliding window of secrets (`store`). Actions: each handler,
each branch of the loop (establish, resend, retry, relink, prune), the derivation
of keys with its wait and its resync request, cut connections, time-outs and
restarts of either end. A secret names the public key and the encapsulation it
came from, so two ends agree exactly when they hold the same record. `crossed`
records that a handshake frame sent before a restart was handled after it.

**FrameSeals** (`frame_auth.rs`): the seal keys per epoch and their caches.
**LinkSetup** (`config.rs`, `service.rs`): what two configurations make of a link,
which frames each end accepts, and whether an epoch came of a handshake that was
taken unverified (`bare`). **KmeLink** (`kme.rs`, `quditto/`): the KME, its
client with the one-by-one fall-back, announcements. **StockBalance**
(`rate_estimator.rs`): production measured from three readings that are never of
one instant. **QkcRelay** (`relay.rs`, `transport/`): permits, queues and waits of
a relaying QKC, frames of its ORR included. **QkcLinks** (`sdn_client.rs`,
`service.rs`): the links a QKC mounts and takes down, with the link and its direct
route in two stores changed one after the other and a sender between them.

### 2.3 ORR

**OrrEpochs** (`bootstrap.rs`, `rotation.rs`, `peers.rs`, `service.rs`). Two ORRs:
the bootstrap task of the one with the smaller id, the rotation loop with its
three legs (REQ, ephemeral key, FIN) and the provisional epoch between them, the
re-bootstrap when the responder lost the secret, and the passive re-bootstrap of
either end when an onion names an epoch it does not hold. A call is one request
and its answer; a call that breaks was served before or never is. A secret is a
number, and a new one is some number that nobody holds; `Secret` is large enough
that there always is one, which section 4 proves. The failures after which
`bootstrap.rs` stops trying (an announcement that is not trusted) are in `OrrPeers`;
the 30 seconds between two passive re-bootstraps are a delay and left out. **OrrPeers**
(`sdn_announce.rs`, `bootstrap.rs`): the peers and the tasks each starts.
**OnionRelay** (`onion.rs`, `onion_replay.rs`, `qkc_link.rs`): building, peeling,
passing on and delivering, with repeats, losses and restarts, and messages sent
while another waits for its path. An ORR is named in one spelling: whoever writes
`from` copies the id of the configuration, so the lower-casing of the readers
changes nothing.

### 2.4 SDN

**Debouncer** (`debounce.rs`): the fields under the mutex as ages in ticks, the
permit of the `Notify`, the worker, the two atomics, and one program counter per
caller inside `spawn_fire` and per thread it starts. **SdnAnchors**
(`topology.rs`, `presence.rs`, `http_api.rs`): announcements, indexes, expiry and
SAEs. **SdnGraph** (`topology.rs`): declared links, measured rates and the edge
they make; a QKC is deleted from the snapshot first and from the registry of reports
in a later step. **SdnPaths** (`routing.rs`, `grpc_server.rs`): breadth-first search
against the definition of a shortest path. **Wcmp** and **Forwarding**
(`mcmcf.rs`, `service.rs`, `qkc/routing.rs`): weighted tables, their push, the
choice of a hop, many hops; `post_table` replaces the QKD table and the full one in
two steps. **TopologyPush** (`service.rs`, `qkc/http_admin.rs`)
and **PathCache** (`push.rs`, `orr/service.rs`, `dkms/sae_binding.rs`): how a change
reaches tables and caches (without the cap of 256 subscribers, which refuses one
more, and the five seconds that a negative answer is kept). **RateAlloc**
(`rates_num.rs`, `demand.rs`) and **LpAlloc** (`mcmcf.rs`): the allocators, in exact
fractions and whole units. What that leaves out: the epsilons of the floating-point
code, the filter of what a report may say (`demand.rs`, before the registry), a second
commodity of the same pair in the other grade, and edges whose capacity is not known
yet.

### 2.5 Libraries

**ReplayWindow** (`common/src/crypto/frame_mac.rs`): the window as it is (session,
highest counter, bitmap as a set of offsets, previous session, ring of retired
ones) with the policy it was built with. One action, `CheckAndSet`, for any pair
that some sender produced, in any order and any number of times, and the passing
of `ADOPT_AFTER_QUIET`. **Transcripts** (`common/src/crypto`, `orr/src/macs.rs`):
what is put under a tag and what the reader rebuilds. **WireFormat**
(`wire/src/lib.rs`): encoding, validation and bounded reading.

### 2.6 Proof and MC modules

`XProofs` extends `X` with its theorems; those of `Debouncer`, `DecBuffer` and
`ReplayWindow` stand in their modules. `MCKeys` (`SessionKeys` and `TransportKeys`),
`MCBuffers` (`EncBuffer` and `DecBuffer`), `MCLoops` (`Debouncer` and `LinkEpochs`),
`MCSafety`, `MCSdn` and `MCNodes` put small instances of several components side by side: a
behaviour chooses one of them in its initial state (`which`), only that one
steps. In the last three each property is the conjunction of what the components
promise under that heading. They do not compose components; the interactions
that matter are inside the modules (a DKMS with its peer and the network, a link
with both ends and its connection, the SDN with its nodes).

## 3. The runs

| Run | Checks | Instance and why it is enough |
|---|---|---|
| `keys` | `OneTimePad`, `ServableWasAccepted`, `HeldByEmitter`; `OriginAccounted`, `FailedLeavesNothing`, `NotRemovedEarly`, and the refinement `DeliversOnce` | transport: 2 nodes, 2 keys, 2 executions of each, capacity 1, so a key of a dead execution and its successor, or keys in both directions, exist together. Session: 2 DKMSs, a request for 2 keys for a local SAE and one of the peer, one entry per origin, so one key can be refused for room while the other is stored. The theorems cover every size |
| `transport_keys_capacity` | violation of `CapacityKept` | 3 keys, capacity 2 |
| `buffers` | `NeverDropped`, `NoSleeperWithKeys`, `RefillIsAwake`, liveness `SleeperIsServed`; `NoMissedWakeup`, `OneCopy`, `PendingIsWatched`, liveness `KeysServed` | ENC: 2 tasks, a ring of 4, batches of 2, headroom of 3, so one refill can serve both tasks, which the cascade of wake-ups is about, and the two producers meet at the end of the ring. DEC: 2 keys in one batch, room for 1 id, 1 id per round, 2 frames on the connection, so every limit is met |
| `dec_buffer_refused` | violation of `RefusedNeverArrives` | 1 key |
| `loops` | `OneFireInFlight`, `OwedIsTracked`, liveness `Progress`; `Agree`, `NeverEmptied`, liveness `HealsOrGivesUp` | debouncer: 2 callers, the worker, timings with and without a window. Epochs: lookahead 1, windows of 3, jumps of 3, epochs up to 6, 2 rotations and 1 fault, so a window slides past its first epoch, a jump leaves a gap, a restart meets a rotation |
| `orr_epochs` | `Hitless`, `ConfirmedOpens`, liveness `Heals` | 1 epoch of history, epochs up to 2, 1 broken call or restart: the second rotation prunes what the first installed |
| `orr_epochs_ahead` | violation of `NeverAhead` | the same without faults |
| `sdn` | `FramesArrive`, `SdnSettles` | forwarding over a square of 4 QKCs, one of them with PQC links only, with one change; 2 ORRs re-anchored twice; an ORR that moves under its DKMS, with a sweep; tables of 2 QKCs; one cached binding |
| `sdn_grade` | violation of `QkdGradeKept` | the square with no change |
| `sdn_index` | violation of `DkmsIndexSettles` | the ORR that moves under its DKMS, under the fairness of `sdn` |
| `safety` | `NoReplay`, `LateFrameAccepted`, `NeverReadopted`, `RatesSound`, `FormatsAgree`, `TopologySound`, `OthersUntouched` | replay: 4 sessions, 1 retired place, width 2, so a session is current, previous, retired and forgotten; rates on a square of 4 QKCs; fields one past the limit of their prefix; every graph of 5 QKCs; every report and capacity of a small LP |
| `nodes` | `RoutesAreLinks`, `UsedOnce`, `Accounted`, `AsConfigured`, liveness `NodesFollow`, `EndsRecover`, `WaitsEnd` | one instance per component of section 2 that is in no other run, each with at least one fault of the kind it handles and with its queues and permits of size one or two |

The properties of `safety`, `sdn` and `nodes` are conjunctions; each conjunct is
stated and explained in the module of its component, and a type invariant is among
them. Where a `TypeCorrect` theorem exists, `TypeOK` is not checked by the run
a second time.

Symmetry is used in `keys` (the two keys of the request) and in
`transport_keys_capacity` (nodes and keys), which the specifications do not tell
apart and of which no liveness is checked. Deadlock is not checked where the finite supply of keys,
rotations, faults or messages lets the system stop; elsewhere it is.

Bounds, all in guards: `MaxIncarnation` (executions of a node), `Key` (uuids
drawn), `LastCounter` (frames of a session), `MaxAge` (ages above every timing
are alike), `MaxNeed`, `MaxEpoch`, `MaxRotations`, `MaxFaults`, `MaxChanges`,
`MaxMoves`, `MaxLate`, `MaxBumps`, `MaxReports`, `MaxTicks`, `MaxMessages`,
`MaxEvents`, `MaxSent`, `MaxPolls`, `MaxMade`, `MaxNow`. The other constants are
limits of the code, made small.

### Fairness, and why the code gives it

- `Debouncer` (in `MCLoops`): time passes; a thread that left the lock goes on; the worker is
  scheduled. The deadline of the worker is strongly fair, because requests may
  disturb its sleep again and again but the `select!` that waits for it is polled
  each time and takes a ready branch at random.
- `EncBuffer` (in `MCBuffers`): the refill loop, a banking round under way, and each task go on
  (a KME call ends, since its client has a time-out). Nobody has to call, to bank
  or to time out.
- `DecBuffer` (in `MCBuffers`): the reader, the worker and each task go on. Nobody has to send,
  and no time-out has to happen, so what is shown to be served is served by
  the wake-ups and not by the deadline.
- `LinkEpochs` (in `MCLoops`): readers handle what arrives, the rotation loop runs, its timers
  expire, a cut connection is made again (`peer_client.rs` retries for ever). Both
  ends keep asking for keys: `EncKeys` is strongly fair because other steps
  take its condition away for a moment and give it back, and the link carries
  traffic. Rotations and faults need not happen.
- `OrrEpochs`: the tasks run, calls are served and answered or time out, the
  rotation timer ticks, and both ends have frames to send. Faults need not happen.
- `MCSdn`: modules re-announce themselves for ever and the watcher ticks for ever,
  and each such turn is strongly fair, since a request being handled defers it but
  its timer comes back; the handlers, the solver, the posts, the sweeper and the
  event stream go on.
- `MCNodes`: the fairness that each module's `FairSpec` states: loops, dispatchers
  and writers go on, waits with a deadline end, announcers apply the lists
  they were given; the keys of a link are announced, which takes traffic on it
  (`SendNotify`); the clients of the ACK socket write a bounded number of lines, and
  messages are shown to arrive where nothing broke. Strong fairness is asked of
  `ApplyPeers`, which a failing post defers, and of the writer, which a broken
  connection defers.

## 4. What is proved

Proved with TLAPS for every value of the constants that satisfies the named
assumptions. Each theorem is `Spec => []Property`, or `Spec => Property` for
action properties and the refinement. Every one rests on an inductive invariant.

**TransportKeys** (`TypeCorrect`, `OneTimePadCorrect`,
`ServableWasAcceptedCorrect`, `HeldByEmitterCorrect`). `OneTimePad` is not
inductive: that a pad is spent once follows from where its unspent copies can be.
At the emitter (`PadInv`) each key is in at most one of `ack_pending`, the hands of
`on_ack`, `buffer_enc` and the hands of a request, what a node holds was emitted by
its running execution (`HeldByEmitter`), and what is still held was never wrapped.
Towards the peer (`TwinInv`) a key is in one frame, or in the pump of the node it was
emitted for, or stored there, and a stored key opened nothing yet. `AckInv` says
that whatever is acknowledged was stored. A restart changes `inc`, so a late message
of the dead execution meets a table where its key cannot be. Assumptions: `Key` is
finite, the limits are naturals.

**SessionKeys** (`TypeCorrect`, `OriginAccountedCorrect`,
`FailedLeavesNothingCorrect`, `NotRemovedEarlyCorrect`, `DeliversOnceCorrect`), for
any DKMSs, SAEs, requests and concurrent calls. The invariant says that nobody
inserts an entry that was there before (`StoredInv`), that an entry being counted
out has left and does not return (`CountedOutInv`), that what a thread is about to
remove is expired or no longer wanted (`DoomedInv`), that a call's keys are marked in
their entries and in no other call of the SAE (`CallInv`), and what a request still
has charged and has retracted (`ChargeInv`, `RetractInv`). `DeliversOnceCorrect` is
the refinement: every step maps to a step of `KeyDelivery` or to a stutter.
Assumption: requests draw disjoint sets of keys, which are fresh uuids.

**EncBuffer** (`TypeCorrect`, `NeverDroppedCorrect`, `RefillIsAwakeCorrect`,
`NoSleeperWithKeysCorrect`). The room that both producers still need for what they
asked fits in the ring; a task that slept read an unmoved sequence number.
`RingAssumption`: the headroom covers a refill batch, and the threshold plus two
batches fit. The constants of the code (2048, 256, 128, 512) satisfy it.

**DecBuffer** (`TypeCorrect`, `NoMissedWakeupCorrect`, `OneCopyCorrect`,
`PendingIsWatchedCorrect`), by the same argument on `dec_inserted_seq`, and by
following a key from the KME to the map through the one NOTIFY, the one batch and
the one worker that can have it.

**LinkEpochs** (`TypeCorrect`, `AgreeCorrect`, `NeverEmptiedCorrect`), for any
lookahead, window, jump and queue and any number of rotations and faults.
`Agree` speaks of two stores; what makes it inductive is the frames between them.
`AnsweredInv`: the responder's window holds what it answered last, so `resp_cache`
stands for it. `KeypairInv`: an INIT of this execution carries the public key of
the keypair still pending. `SettledInv`, with `LoopInv` on where the loop
can be: an epoch some frame speaks of has its keypair still, or will be given no
other. `AgreeInv`: the initiator's secrets are those the responder answered last,
no INIT under way makes it answer with another, and a RESP under way brings the
one it has. `NeverEmptied` follows from the pruning point lying at or below the
epoch just established. Assumption `LinkAssumption`: the window keeps
at least `Lookahead + 2` epochs, as `pqc_source.rs` is built with.

**OrrEpochs** (`TypeCorrect`, `HitlessCorrect`, `ConfirmedOpensCorrect`), for any
history kept (none included), any number of epochs and of faults. `CallInv` says
where the holder of `rebootstrap_inflight` is and what its call can be; `FinInv`
that what a FIN carries its sender holds already, unless its secrets were replaced;
`SentInv` that a secret under way from the other end is in no place of the
initiator; `PairInv` describes the pair between the first fetch and any later
rotation: before the bootstrap is stored, what the responder was seeded with is what
the task holds, and afterwards both share the bootstrap secret and the confirmed
epoch, and hold nothing above the epoch being negotiated. Both properties are about
the time after the bootstrap and leave out the FIN of the first rotation (section 5).
Secrets are numbers
of a bounded set, and lemma `FreshIs` counts the places that can hold one, so that
the bound never stands in for the freshness of a random secret.

**ReplayWindow** (`TypeCorrect`, `NoReplayCorrect`, `LateFrameAcceptedCorrect`,
`NeverReadoptedCorrect`), for the three policies, every width and any sessions. The
invariant ties the bitmap to the history: a mark inside the width is set exactly
when the pair was accepted, no accepted pair is above the highest counter, and a session
with accepted frames is current, previous, retired or forgotten.

**Debouncer** (`TypeCorrect`, `OneFireInFlightCorrect`, `OwedIsTrackedCorrect`):
`fire_inflight` is set exactly while one thread runs, and whoever owes a fire is at a
place of `spawn_fire` from which it is made or handed over.

### Only model-checked

- Every liveness property (`Progress`, `KeysServed`, `SleeperIsServed`,
  `HealsOrGivesUp`, `Heals`, `FramesArrive`, `SdnSettles`, `NodesFollow`,
  `EndsRecover`, `WaitsEnd`): fairness and `ENABLED` are outside the prover.
- The safety of the components that share `MCSafety` and `MCNodes`: `RatesSound`,
  `FormatsAgree`, `TopologySound`, `OthersUntouched`, `RoutesAreLinks`, `UsedOnce`,
  `Accounted`, `AsConfigured`. `RatesSound`, `FormatsAgree` and the paths in
  `TopologySound` say what a fold or a recursive definition computes, which takes
  an induction over data that the prover cannot instantiate. The others are state
  machines like the proved ones, whose proofs have not been written.

## 5. Where code and comments disagree

Five are runs that TLC refutes, with a short behaviour as the witness.

- `CapacityKept` (`dkms/src/control/generator.rs:711`): the tick counts two stores
  under two locks, and a key in the hands of `on_ack` is in neither; the capacity
  can be passed by a few keys.
- `RefusedNeverArrives` (`qkc/src/relay.rs:393`): keys enter the ring and wake a
  sender before their NOTIFY is queued; a data frame that overtakes the NOTIFY is
  refused, and its key arrives afterwards with no reader.
- `NeverAhead` (`orr/src/peers.rs:571`, `rotation.rs:173`): the initiator sends under
  "nunca una época que el otro extremo pueda no tener todavía". After a bootstrap no
  epoch is confirmed, so `send_epoch_for` falls back to the newest one held, and in
  the first rotation that is the provisional epoch until the FIN is handled. An onion
  sealed in that window does not open. `Hitless` and `ConfirmedOpens` name the window
  (`FirstFin`) and hold outside it.
- `QkdGradeKept` (`wire/src/lib.rs:201`, `qkc/src/routing.rs:55`,
  `sdn/src/mcmcf.rs:465`): "una clave QKD-grade nunca cruza un enlace PQC". A QKC with
  no QKD route is pushed an empty QKD table, which `next_hop_graded` takes for one
  that was never pushed, and QKD-grade frames follow the full table. `FramesArrive`
  says that such frames get closer and arrive, not over which links.
- `DkmsIndexSettles` (`sdn/src/topology.rs:807`): the QKC a DKMS came from "no puede
  seguir apuntándole". When the ORR moves and not the DKMS, `upsert_dkms` looks the
  old QKC up through the new anchor and leaves the old entry. The lines 766 and 798
  promise the refused announcer a place once the first one moves; a DKMS that is to
  hang from the QKC left behind is refused for good. `TopologySound` and `SdnSettles`
  ask less of `dkms_by_qkc` than of `orr_by_qkc` for this reason.

These have no run of their own; the property named is stated as the code has it.

- `CreatedBounded`: `MAX_SDN_LINKS` is "enlaces PQC que la SDN puede hacernos montar sin
  declararlos" (`qkc/src/sdn_client.rs:20`, 369). Line 314 counts the mounted links
  minus the declared ones, mounted or not, so each declared neighbour without a link
  makes room for one more.
- `TasksBounded`: one rotation task "por par" (`orr/src/peers.rs:111`) and no second
  bootstrap of a peer (`bootstrap.rs:76`). `forget` clears the marks and ends no task,
  so a peer that comes back gets another set while the old one runs.
- `forget` drops all material of a peer, which would otherwise live "hasta que muriera
  el proceso" (`orr/src/peers.rs:346`). An establishment under way stores its secret
  afterwards, and the bootstrap of the peer listed again finds it and is skipped.
- `RequireVerifies`: `pqc_auth = require` whose PSK is missing or short should not start
  (`qkc/src/service.rs:245`); it starts and takes plain handshakes
  (`pqc_handshake.rs:594`). A `link_psk` is said to be validated at start
  (`docs/SECURITY.md:945`), but line 380 of `service.rs` takes a short one as the root of
  the frame MAC. `frame_auth = require` without `link_psk` "does not start"
  (`docker/README.md:459`, `config.rs:295`); on a PQC link it does, rooted in its epochs.
  The property is about ends with a PSK or signed handshakes.
- `CacheFresh` holds of the DKMS's binding cache, whose entries age. The path cache of
  the ORR (`orr/src/service.rs:327`) has no time to live: an answer asked for before an
  event and stored after it, or an event missed while the stream was down, stays until
  the next event.
- `OnlyLatecomersRemain`: a request that passed the gate before it closed and is counted
  after the drain saw nobody outlives the wipe; `drain` reports "in-flight requests
  finished cleanly" (`dkms/src/grpc_server.rs:110`). What the property excludes is
  anybody else.

The debouncer is no disagreement, because the code's comment admits it: a caller
that stores `fire_rerun` after the runner's last look is parked until the next
trigger. `Progress` allows exactly that gap (`Parked`).

## 6. What is not modelled

- Token bucket and demand tracker of the DKMS, link approval of the SDN: arithmetic
  or a table behind one lock, with nothing that interleaves inside.
- The windows of the rate estimator, the smoothing of demand, the tolerance of
  the LP backends: floating-point arithmetic, out of TLC's reach. The modules around
  them take any value these could give.
- The registration of local clients at a QKC.
- Configuration, TLS identities, HTTP and gRPC front ends, ETSI JSON bodies, the
  one-time-pad encryption itself, logging and metrics: stateless plumbing.
- `DecBuffer` has one connection at a time: when the sender reconnects, the old
  reader may still be ending a NOTIFY while the new one starts, and that is not
  explored. The KME client's fall-back from a batch to single ids is seen there as
  the set of keys that it may return and burn; `KmeLink` has it step by step.
- Components are checked in the compositions their modules contain, not all at
  once: a whole site with its links, relays and controller is beyond TLC.
