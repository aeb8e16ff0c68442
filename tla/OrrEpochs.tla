------------------------------ MODULE OrrEpochs ------------------------------
(***************************************************************************)
(* The secrets two ORRs share: the bootstrap secret, the per-epoch master  *)
(* secrets rotated under it, and the three paths that remake it.           *)
(*                                                                         *)
(* "a" has the lexicographically smaller id: its bootstrap task encapsu-   *)
(* lates to "b" (bootstrap.rs), then its rotation loop negotiates epoch    *)
(* after epoch (rotation.rs) and, when b answers that it lost the          *)
(* bootstrap secret, rebootstraps.  Besides, EITHER end encapsulates anew  *)
(* when an onion frame names an epoch it does not hold                     *)
(* (service.rs, trigger_passive_rebootstrap).  The registry is memory      *)
(* only: a restart loses it and the ML-KEM identity with it.               *)
(*                                                                         *)
(* A call is one gRPC request and its answer.  A call that fails was       *)
(* served before or never is.  A secret is a number, and a new one differs *)
(* from all in use.  Decapsulating with another key than the one           *)
(* encapsulated to gives some other secret, silently (ML-KEM).             *)
(***************************************************************************)
EXTENDS Integers, FiniteSets, Functions, FiniteSetsExt

CONSTANTS Keep,       \* epoch_history_keep
          MaxEpoch,   \* bound: no epoch above it is established
          MaxFaults   \* bound: restarts and broken calls together

ASSUME OrrAssumption == Keep \in Nat /\ MaxEpoch \in Nat /\ MaxFaults \in Nat

Node == {"a", "b"}
Peer(x) == IF x = "a" THEN "b" ELSE "a"

VARIABLES run,       \* x's execution: names its long-term ML-KEM key pair
          pubkeys,   \* the execution of the peer whose public key x holds, or 0
          boot,      \* bootstrap_secrets, or 0
          master,    \* master_secrets: epoch -> secret
          esk,       \* the epochs of b's ephemeral_sks; a's calls come one at a time, so the
                     \* key pair b keeps for an epoch is the one a's FIN encapsulates to
          sendEpoch, \* current_send_epochs of a, or -1
          task,      \* a's bootstrap task: where it is, the key it fetched, its secret
          op,        \* who holds x's rebootstrap_inflight flag, and how far it is
          net,       \* the request or the answer of x's call
          frame,     \* the onion frame under way: its sender and epoch (one at a time)
          passive,   \* history: a passive rebootstrap has begun
          faults

registry == <<run, pubkeys, boot, master, esk, sendEpoch>>
vars == <<registry, task, op, net, frame, passive, faults>>

Empty == [e \in {} |-> 0]
Flag(who, at, epoch, key, secret) ==
    [who |-> who, at |-> at, epoch |-> epoch, key |-> key, secret |-> secret]
Idle == Flag("none", "none", -1, 0, 0)
Msg(kind, epoch, key, to, secret) ==
    [kind |-> kind, epoch |-> epoch, key |-> key, to |-> to, secret |-> secret]
Answer(kind) == Msg(kind, -1, 0, 0, 0)
NoMsg == Answer("none")

NoFrame == [from |-> "none", epoch |-> -1]

\* Bound: more than are ever in use at once.
Secret == 1 .. 2 * MaxEpoch + 14

\* The secrets held somewhere; a random one is none of them.
HeldBy(x) == {boot[x], op[x].key, op[x].secret, net[x].key, net[x].secret} \cup Range(master[x])
InUse == {task.secret} \cup HeldBy("a") \cup HeldBy("b")
Fresh == CHOOSE s \in Secret : s \notin InUse

Init ==
    /\ run = [x \in Node |-> 1]
    /\ pubkeys = [x \in Node |-> 0]
    /\ boot = [x \in Node |-> 0]
    /\ master = [x \in Node |-> Empty]
    /\ esk = {}
    /\ sendEpoch = -1
    /\ task = [at |-> "fetch", pk |-> 0, secret |-> 0]
    /\ op = [x \in Node |-> Idle]
    /\ net = [x \in Node |-> NoMsg]
    /\ frame = NoFrame
    /\ passive = FALSE
    /\ faults = 0

(***************************************************************************)
(* The registry (peers.rs).                                                *)
(***************************************************************************)
Put(f, e, v) == [d \in DOMAIN f \cup {e} |-> IF d = e THEN v ELSE f[d]]

\* Mutant: the history is not kept at two epochs at least.
NewestUnclamped(epochs) ==
    {e \in epochs : Cardinality({d \in epochs : d > e}) < Keep}

\* drop_old_epochs_for: the newest max(Keep, 2) entries.
Newest(epochs) ==
    {e \in epochs : Cardinality({d \in epochs : d > e}) < (IF Keep < 2 THEN 2 ELSE Keep)}

\* send_epoch_for: the confirmed epoch, else the latest installed, else none.
SendEpoch(x) ==
    IF x = "a" /\ sendEpoch # -1 THEN sendEpoch
    ELSE IF DOMAIN master[x] = {} THEN -1 ELSE Max(DOMAIN master[x])

\* clear_peer_secrets and reset_for_bootstrap: x's history with the peer goes,
\* and with a secret epoch 0 is seeded from it.
Replaced(x, secret) ==
    /\ boot' = [boot EXCEPT ![x] = secret]
    /\ master' = [master EXCEPT ![x] = IF secret = 0 THEN Empty ELSE Put(Empty, 0, secret)]
    /\ esk' = IF x = "b" THEN {} ELSE esk
    /\ sendEpoch' = IF x = "a" THEN -1 ELSE sendEpoch

(***************************************************************************)
(* EstablishSecret: attempt_establish at x, the handler at the peer.       *)
(***************************************************************************)
Encap(pk) == Msg("establish", -1, 0, pk, Fresh)

HandleEstablish(x) ==
    LET y == Peer(x) IN
    /\ net[x].kind = "establish"
    /\ Replaced(y, IF net[x].to = run[y] THEN net[x].secret ELSE Fresh)
    /\ net' = [net EXCEPT ![x] = Answer("established")]
    /\ UNCHANGED <<run, pubkeys, task, op, frame, passive, faults>>

(***************************************************************************)
(* The bootstrap task (bootstrap.rs, bootstrap_peer).                      *)
(***************************************************************************)
\* The key is accepted (a task whose peer's key is refused ends: Untrusted in OrrPeers).
FetchPubkey(x) ==
    /\ IF x = "a" THEN task.at = "fetch" ELSE pubkeys[x] = 0
    /\ pubkeys' = [pubkeys EXCEPT ![x] = IF @ = 0 THEN run[Peer(x)] ELSE @]
    /\ task' = IF x = "a" THEN [at |-> "try", pk |-> pubkeys'["a"], secret |-> 0] ELSE task
    /\ UNCHANGED <<run, boot, master, esk, sendEpoch, op, net, frame, passive, faults>>

\* The head of its loop, which it is at between two attempts.
Bootstrap ==
    /\ task.at = "try" /\ op["a"].who # "bootstrap"
    /\ \/ boot["a"] # 0
          /\ task' = [at |-> "done", pk |-> 0, secret |-> 0]
          /\ UNCHANGED <<op, net>>
       \/ boot["a"] = 0 /\ op["a"] = Idle
          /\ op' = [op EXCEPT !["a"] = Flag("bootstrap", "establish", -1, 0, Fresh)]
          /\ net' = [net EXCEPT !["a"] = Encap(task.pk)]
          /\ UNCHANGED task
    /\ UNCHANGED <<registry, frame, passive, faults>>

\* The flag is cleared before the secret is stored.
BootstrapAnswered ==
    /\ op["a"].who = "bootstrap" /\ net["a"].kind = "established"
    /\ task' = [at |-> "store", pk |-> task.pk, secret |-> op["a"].secret]
    /\ op' = [op EXCEPT !["a"] = Idle]
    /\ net' = [net EXCEPT !["a"] = NoMsg]
    /\ UNCHANGED <<registry, frame, passive, faults>>

BootstrapStored ==
    /\ task.at = "store"
    /\ Replaced("a", task.secret)
    /\ task' = [at |-> "done", pk |-> 0, secret |-> 0]
    /\ UNCHANGED <<run, pubkeys, op, net, frame, passive, faults>>

(***************************************************************************)
(* Rebootstraps: the rotation loop's and the passive one.                  *)
(***************************************************************************)
\* The peer's public key is fetched afresh; if that fails the flag is cleared.
Refetch(x) ==
    /\ op[x].at = "fetch"
    /\ pubkeys' = [pubkeys EXCEPT ![x] = run[Peer(x)]]
    /\ op' = [op EXCEPT ![x] = Flag(op[x].who, "establish", -1, 0, Fresh)]
    /\ net' = [net EXCEPT ![x] = Encap(run[Peer(x)])]
    /\ UNCHANGED <<run, boot, master, esk, sendEpoch, task, frame, passive, faults>>

Rebootstrapped(x) ==
    /\ op[x].who \in {"rebootstrap", "passive"} /\ net[x].kind = "established"
    /\ Replaced(x, op[x].secret)
    /\ op' = [op EXCEPT ![x] = Idle]
    /\ net' = [net EXCEPT ![x] = NoMsg]
    /\ UNCHANGED <<run, pubkeys, task, frame, passive, faults>>

\* trigger_passive_rebootstrap: x's secrets are dropped before the handshake.  The
\* minimum interval after a failed attempt is a delay: a frame that comes too soon is
\* one that has not come yet.
Triggers(x) == op[x] = Idle /\ pubkeys[x] # 0
Trigger(x) ==
    IF Triggers(x)
    THEN /\ Replaced(x, 0)
         /\ passive' = TRUE
         /\ op' = [op EXCEPT ![x] = Flag("passive", "fetch", -1, 0, 0)]
    ELSE UNCHANGED <<boot, master, esk, sendEpoch, op, passive>>

(***************************************************************************)
(* Rotation (rotation.rs): REQ, FIN and a's provisional commit between.    *)
(***************************************************************************)
\* A failed rotation is retried later; one the answer shows to need it goes on
\* to a rebootstrap with the flag still held.
Ends(failed) ==
    op' = [op EXCEPT !["a"] =
             IF failed THEN Flag("rebootstrap", "fetch", -1, 0, 0) ELSE Idle]

StartRotation ==
    /\ task.at = "done" /\ op["a"] = Idle /\ boot["a"] # 0
    /\ LET e == (IF sendEpoch = -1 THEN 0 ELSE sendEpoch) + 1 IN
       /\ op' = [op EXCEPT !["a"] = Flag("rotation", "req", e, boot["a"], 0)]
       /\ net' = [net EXCEPT !["a"] = Msg("req", e, boot["a"], 0, 0)]
    /\ UNCHANGED <<registry, task, frame, passive, faults>>

HandleRequestEphemeralKey ==
    /\ net["a"].kind = "req"
    /\ IF boot["b"] # net["a"].key
       THEN /\ net' = [net EXCEPT !["a"] = Answer("refused")]
            /\ UNCHANGED esk
       ELSE /\ esk' = esk \cup {net["a"].epoch}
            /\ net' = [net EXCEPT !["a"] = Answer("epk")]
    /\ UNCHANGED <<run, pubkeys, boot, master, sendEpoch, task, op, frame, passive, faults>>

\* Epoch MaxEpoch + 1 is requested and goes no further (the bound).
EphemeralKeyAnswered ==
    /\ net["a"].kind = "epk" /\ op["a"].epoch <= MaxEpoch
    /\ master' = [master EXCEPT !["a"] = Put(@, op["a"].epoch, Fresh)]
    /\ op' = [op EXCEPT !["a"] = Flag("rotation", "fin", op["a"].epoch, op["a"].key, 0)]
    /\ net' = [net EXCEPT !["a"] = Msg("fin", op["a"].epoch, op["a"].key, 0, Fresh)]
    /\ UNCHANGED <<run, pubkeys, boot, esk, sendEpoch, task, frame, passive, faults>>

HandleEstablishEphemeralSecret ==
    /\ net["a"].kind = "fin"
    /\ LET e == net["a"].epoch IN
       IF boot["b"] # net["a"].key
       THEN /\ net' = [net EXCEPT !["a"] = Answer("refused")]
            /\ UNCHANGED <<master, esk>>
       ELSE IF e \notin esk
       THEN /\ net' = [net EXCEPT !["a"] = Answer("nokey")]
            /\ UNCHANGED <<master, esk>>
       ELSE /\ master' = [master EXCEPT !["b"] = Restrict(Put(@, e, net["a"].secret),
                                                         Newest(DOMAIN @ \cup {e}))]
            /\ esk' = Newest(esk \ {e})
            /\ net' = [net EXCEPT !["a"] = Answer("ok")]
    /\ UNCHANGED <<run, pubkeys, boot, sendEpoch, task, op, frame, passive, faults>>

Removed(f, e) == Restrict(f, DOMAIN f \ {e})

RotationDone ==
    /\ net["a"].kind = "ok"
    /\ sendEpoch' = op["a"].epoch
    /\ master' = [master EXCEPT !["a"] = Restrict(@, Newest(DOMAIN @))]
    /\ Ends(FALSE)
    /\ net' = [net EXCEPT !["a"] = NoMsg]
    /\ UNCHANGED <<run, pubkeys, boot, esk, task, frame, passive, faults>>

\* Mutant: a refusal only waits for the next rotation.
RotationRefusedWaits ==
    /\ net["a"].kind \in {"refused", "nokey"}
    /\ master' = [master EXCEPT !["a"] =
                    IF op["a"].at = "fin" THEN Removed(@, op["a"].epoch) ELSE @]
    /\ Ends(FALSE)
    /\ net' = [net EXCEPT !["a"] = NoMsg]
    /\ UNCHANGED <<run, pubkeys, boot, esk, sendEpoch, task, frame, passive, faults>>

\* Refused in either call: the provisional epoch goes.
RotationRefused ==
    /\ net["a"].kind \in {"refused", "nokey"}
    /\ master' = [master EXCEPT !["a"] =
                    IF op["a"].at = "fin" THEN Removed(@, op["a"].epoch) ELSE @]
    /\ Ends(net["a"].kind = "refused")
    /\ net' = [net EXCEPT !["a"] = NoMsg]
    /\ UNCHANGED <<run, pubkeys, boot, esk, sendEpoch, task, frame, passive, faults>>

(***************************************************************************)
(* Onion frames between the two (service.rs).                              *)
(***************************************************************************)
SendOnion(x) ==
    /\ IF SendEpoch(x) = -1
       THEN Triggers(x) /\ Trigger(x) /\ UNCHANGED frame
       ELSE /\ frame = NoFrame /\ SendEpoch(x) \in DOMAIN master[x]
            /\ frame' = [from |-> x, epoch |-> SendEpoch(x)]
            /\ UNCHANGED <<boot, master, esk, sendEpoch, op, passive>>
    /\ UNCHANGED <<run, pubkeys, task, net, faults>>

\* handle_onion_in: a missing epoch drops the frame and triggers; a frame that
\* does not open is dropped, with no more.
HandleOnionIn ==
    /\ frame # NoFrame
    /\ frame' = NoFrame
    /\ IF frame.epoch \notin DOMAIN master[Peer(frame.from)]
       THEN Trigger(Peer(frame.from))
       ELSE UNCHANGED <<boot, master, esk, sendEpoch, op, passive>>
    /\ UNCHANGED <<run, pubkeys, task, net, faults>>

(***************************************************************************)
(* Faults.                                                                 *)
(***************************************************************************)
\* Mutant: a FIN whose answer is lost counts as confirmed.
BreakCommits(x) ==
    /\ op[x] # Idle
    /\ \/ net[x] = NoMsg /\ op[x].at # "fetch" /\ UNCHANGED faults
       \/ net[x].kind = "epk" /\ op[x].epoch > MaxEpoch /\ UNCHANGED faults
       \/ faults < MaxFaults /\ faults' = faults + 1
    /\ sendEpoch' = IF op[x].at = "fin" THEN op[x].epoch ELSE sendEpoch
    /\ op' = [op EXCEPT ![x] = Idle]
    /\ net' = [net EXCEPT ![x] = NoMsg]
    /\ UNCHANGED <<run, pubkeys, boot, master, esk, task, frame, passive>>

\* x's call fails: the peer was gone, or the connection breaks.  Each path
\* clears the flag; a rotation waiting for its FIN takes the provisional
\* epoch back.
Break(x) ==
    /\ op[x] # Idle
    /\ \/ net[x] = NoMsg /\ op[x].at # "fetch" /\ UNCHANGED faults
       \/ net[x].kind = "epk" /\ op[x].epoch > MaxEpoch /\ UNCHANGED faults
       \/ faults < MaxFaults /\ faults' = faults + 1
    /\ master' = [master EXCEPT ![x] =
                    IF op[x].at = "fin" THEN Removed(@, op[x].epoch) ELSE @]
    /\ op' = [op EXCEPT ![x] = Idle]
    /\ net' = [net EXCEPT ![x] = NoMsg]
    /\ UNCHANGED <<run, pubkeys, boot, esk, sendEpoch, task, frame, passive>>

\* x starts anew; the request the peer had under way to it is lost.
Restart(x) ==
    /\ faults < MaxFaults
    /\ faults' = faults + 1
    /\ run' = [run EXCEPT ![x] = @ + 1]
    /\ pubkeys' = [pubkeys EXCEPT ![x] = 0]
    /\ Replaced(x, 0)
    /\ task' = IF x = "a" THEN [at |-> "fetch", pk |-> 0, secret |-> 0] ELSE task
    /\ op' = [op EXCEPT ![x] = Idle]
    /\ net' = [net EXCEPT ![x] = NoMsg,
                  ![Peer(x)] = IF @.kind \in {"establish", "req", "fin"} THEN NoMsg ELSE @]
    /\ UNCHANGED <<frame, passive>>

Next ==
    \/ \E x \in Node : \/ FetchPubkey(x) \/ HandleEstablish(x) \/ Refetch(x)
                       \/ Rebootstrapped(x) \/ SendOnion(x)
                       \/ Break(x) \/ Restart(x)
    \/ HandleOnionIn \/ Bootstrap \/ BootstrapAnswered \/ BootstrapStored
    \/ StartRotation \/ HandleRequestEphemeralKey \/ EphemeralKeyAnswered
    \/ HandleEstablishEphemeralSecret \/ RotationDone \/ RotationRefused

Spec == Init /\ [][Next]_vars

\* The tasks run, calls are served and answered, the rotation timer ticks and
\* both ends keep having frames to send; breaks and restarts need not happen.
Fairness ==
    /\ \A x \in Node : /\ WF_vars(FetchPubkey(x)) /\ WF_vars(HandleEstablish(x))
                       /\ WF_vars(Refetch(x)) /\ WF_vars(Rebootstrapped(x))
                       /\ WF_vars(Break(x) /\ UNCHANGED faults)
                       /\ WF_vars(SendOnion(x))
    /\ WF_vars(HandleOnionIn) /\ WF_vars(Bootstrap) /\ WF_vars(BootstrapAnswered) /\ WF_vars(BootstrapStored)
    /\ WF_vars(StartRotation)
    /\ WF_vars(HandleRequestEphemeralKey \/ HandleEstablishEphemeralSecret)
    /\ WF_vars(EphemeralKeyAnswered \/ RotationDone \/ RotationRefused)
FairSpec == Spec /\ Fairness

(***************************************************************************)
(* Properties.                                                             *)
(***************************************************************************)
\* Epochs, secrets and executions stay in their ranges: the registry has no epoch
\* above the one negotiated last, and b no ephemeral key of an epoch not requested.
TypeOK ==
    /\ run \in [Node -> 1 .. MaxFaults + 1]
    /\ pubkeys \in [Node -> 0 .. MaxFaults + 1]
    /\ boot \in [Node -> {0} \cup Secret]
    /\ \A x \in Node : /\ DOMAIN master[x] \subseteq 0 .. MaxEpoch
                       /\ Range(master[x]) \subseteq Secret
    /\ esk \subseteq 1 .. MaxEpoch + 1
    /\ sendEpoch \in -1 .. MaxEpoch
    /\ faults \in 0 .. MaxFaults

\* What x would send now, its peer would open.
Opens(x) ==
    /\ SendEpoch(x) \in DOMAIN master[x] \cap DOMAIN master[Peer(x)]
    /\ master[x][SendEpoch(x)] = master[Peer(x)][SendEpoch(x)]
InSync == \A x \in Node : Opens(x)

\* The bootstrap is complete and no passive rebootstrap has begun: from there on the
\* two ends have the same bootstrap secret until one of them restarts.
Booted == task.at = "done" /\ ~passive

\* The FIN of the first rotation after a bootstrap is on its way to b.
FirstFin == sendEpoch = -1 /\ net["a"].kind = "fin"

\* Once the bootstrap is complete, and while no call breaks, nothing restarts and no
\* passive rebootstrap begins, what b sends at any moment of any rotation a opens,
\* and what a sends b opens but for one window: in the first rotation after a
\* bootstrap no epoch is confirmed yet, send_epoch_for falls back to the newest one
\* held, and until the FIN is handled that is the provisional epoch, which b lacks
\* (NeverAhead).  In all other rotations the provisional epoch, the commit on the
\* answer and the epochs kept close the gap between the two ends' commits.
Hitless == faults = 0 /\ Booted => Opens("b") /\ (FirstFin \/ Opens("a"))

\* The responder confirms what the initiator holds.  When it installs the epoch of a
\* FIN, the initiator already holds it with the same secret, unless a new bootstrap
\* replaced its history since.  So, even with calls broken at any point, before a
\* restart or a passive rebootstrap what the initiator sends the responder opens,
\* except in the window of the first FIN (see Hitless): everywhere else it uses an
\* epoch confirmed and kept, or the bootstrap's epoch 0.
ConfirmedOpens ==
    /\ [](TypeOK /\ (run = [x \in Node |-> 1] /\ Booted => FirstFin \/ Opens("a")))
    /\ [][\A e \in DOMAIN master'["b"] \ DOMAIN master["b"] :
             e > 0 /\ boot["a"] = net["a"].key
                => e \in DOMAIN master["a"] /\ master["a"][e] = master'["b"][e]]_vars

\* What peers.rs says of send_epoch_for, "Nunca una época que el otro extremo pueda no
\* tener todavía", and rotation.rs of the provisional epoch, "El envío no la usa hasta
\* el `ok`": with no fault at all, a never sends under an epoch that b does not hold.
\* The code does so in every first rotation after a bootstrap.
NeverAhead == faults = 0 /\ Booted => SendEpoch("a") \in DOMAIN master["b"]

\* While both ends have frames to send, after restarts, broken calls and
\* handshakes that crossed the pair gets in sync again (or to the bound).
Heals == []<>(InSync \/ sendEpoch = MaxEpoch)
==============================================================================
