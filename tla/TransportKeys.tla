--------------------------- MODULE TransportKeys ---------------------------
(***************************************************************************)
(* The transport-key cycle between DKMS nodes (dkms/src).                  *)
(*                                                                         *)
(* The generator of node n emits a fresh one-time pad for a peer p, holds  *)
(* it in ack_pending[p] and sends it, sealed, through the relay network.   *)
(* The delivery pump of p stores it in buffer_dec[n] and queues an ACK;    *)
(* the ACK moves the pad from ack_pending[p] to buffer_enc[p], where a     *)
(* request of a SAE may pop it, wrap one session key with it and post the  *)
(* envelope to p, which takes the twin out of buffer_dec[n] by id.         *)
(*                                                                         *)
(* Every buffer is RAM only: a restart forgets all of it.  A peer learns   *)
(* of the restart from the incarnation that every DKMS_BUFFER carries and  *)
(* wipes what it shared with the previous execution, or from the rejection *)
(* of an envelope.                                                         *)
(*                                                                         *)
(* The order inside a buffer is abstracted: a buffer is a set and popping  *)
(* the oldest key is popping some key.  A key is its id.                   *)
(***************************************************************************)
EXTENDS Naturals, FiniteSets

CONSTANTS
    Dkms,              \* the DKMS nodes, each a known peer of the others
    TransportKey,      \* ids the generators may draw (uuid v4, never repeated)
    Capacity,          \* buffer_capacity_per_peer
    DecCeiling,        \* capacity * DEC_HARD_CEILING_MULT
    MaxIncarnation     \* bound: executions of one node that are explored

ASSUME KeyAssumption == IsFiniteSet(TransportKey)
ASSUME CapacityAssumption == Capacity \in Nat
ASSUME DecCeilingAssumption == DecCeiling \in Nat
ASSUME MaxIncarnationAssumption == MaxIncarnation \in Nat \ {0}

VARIABLES
    inc,        \* inc[n]: the execution of n that is running
    tick,       \* tick[n][p]: progress of n's generator tick for p
    ackPending, \* ackPending[n][p]: emitted by n for p, no ACK yet
    acking,     \* acking[n][p]: taken by on_ack, not yet pushed to buffer_enc
    enc,        \* enc[n][p]: buffer_enc, servable
    popped,     \* popped[n][p]: popped by requests whose envelope has not left
    dec,        \* dec[n][p]: buffer_dec, the twins of enc[p][n]
    ackQueue,   \* ackQueue[n][p]: ACKs batched at n for p
    seen,       \* seen[n][p]: last incarnation of p noted by n, 0 for none
    cooldown,   \* cooldown[n][p]: n wiped p's material less than 30 s ago
    pump,       \* pump[n]: the delivery n is processing, and how far it got
    frames,     \* DKMS_BUFFER messages in the relay network
    acks,       \* ACKs on their way
    envelopes,  \* ext_keys posts on their way
    rejections, \* TransportKeyMissing answers on their way
    born,       \* history: who emitted the key, for whom, in which execution
    accepted,   \* history: the execution of the peer that stored it, 0 for none
    wrapped,    \* history: session keys that left wrapped with the key
    opened      \* history: session keys opened with the key

node    == <<inc, tick, ackPending, acking, enc, popped, dec, ackQueue, seen,
             cooldown, pump>>
network == <<frames, acks, envelopes, rejections>>
history == <<born, accepted, wrapped, opened>>
transportVars == <<node, network, history>>

Pairs == {r \in Dkms \X Dkms : r[1] # r[2]}

NoKey   == [inc |-> 0]
Birth   == [src : Dkms, dst : Dkms, inc : Nat \ {0}]
Frame   == [src : Dkms, dst : Dkms, key : TransportKey, srcInc : Nat, dstInc : Nat]
Message == [src : Dkms, dst : Dkms, key : TransportKey]
Envelope == [src : Dkms, dst : Dkms, key : TransportKey, inc : Nat]
Rejection == [src : Dkms, dst : Dkms, inc : Nat]
IdlePump == [pc |-> "idle"]
PumpPc  == {"wipeEnc", "wipeDec", "wipePending", "push"}
IdleTick == [pc |-> "idle", n |-> 0]
Tick    == {IdleTick} \cup [pc : {"counted"}, n : Nat]
                      \cup [pc : {"emitting"}, n : Nat \ {0}]

(***************************************************************************)
(* Updates of a table indexed by node and peer.                            *)
(***************************************************************************)
Put(table, n, p, k)  == [table EXCEPT ![n][p] = @ \cup {k}]
Drop(table, n, p, k) == [table EXCEPT ![n][p] = @ \ {k}]
Clear(table, n, p)   == [table EXCEPT ![n][p] = {}]
ForgetNode(table, n) == [table EXCEPT ![n] = [p \in Dkms |-> {}]]

Empty == [n \in Dkms |-> [p \in Dkms |-> {}]]

TransportInit ==
    /\ inc = [n \in Dkms |-> 1]
    /\ tick = [n \in Dkms |-> [p \in Dkms |-> IdleTick]]
    /\ ackPending = Empty
    /\ acking = Empty
    /\ enc = Empty
    /\ popped = Empty
    /\ dec = Empty
    /\ ackQueue = Empty
    /\ seen = [n \in Dkms |-> [p \in Dkms |-> 0]]
    /\ cooldown = [n \in Dkms |-> [p \in Dkms |-> FALSE]]
    /\ pump = [n \in Dkms |-> IdlePump]
    /\ frames = {}
    /\ acks = {}
    /\ envelopes = {}
    /\ rejections = {}
    /\ born = [k \in TransportKey |-> NoKey]
    /\ accepted = [k \in TransportKey |-> 0]
    /\ wrapped = [k \in TransportKey |-> 0]
    /\ opened = [k \in TransportKey |-> 0]

-----------------------------------------------------------------------------
(***************************************************************************)
(* The generator tick.  The space left is computed from two reads under    *)
(* two locks; the keys it admits are emitted afterwards.                   *)
(***************************************************************************)

TickCountEnc(n, p) ==
    /\ tick[n][p].pc = "idle"
    /\ tick' = [tick EXCEPT ![n][p] =
                    [pc |-> "counted", n |-> Cardinality(enc[n][p])]]
    /\ UNCHANGED <<inc, ackPending, acking, enc, popped, dec, ackQueue, seen,
                   cooldown, pump, network, history>>

Headroom(n, p) ==
    LET used == tick[n][p].n + Cardinality(ackPending[n][p])
    IN  IF used >= Capacity THEN 0 ELSE Capacity - used

\* The token bucket grants any number of tokens up to the headroom.
TickPlan(n, p) ==
    /\ tick[n][p].pc = "counted"
    /\ \E tokens \in 0..Headroom(n, p) :
          tick' = [tick EXCEPT ![n][p] =
                      IF tokens = 0 THEN IdleTick
                      ELSE [pc |-> "emitting", n |-> tokens]]
    /\ UNCHANGED <<inc, ackPending, acking, enc, popped, dec, ackQueue, seen,
                   cooldown, pump, network, history>>

EmitDone(n, p) ==
    tick' = [tick EXCEPT ![n][p] =
                IF tick[n][p].n = 1 THEN IdleTick
                ELSE [pc |-> "emitting", n |-> tick[n][p].n - 1]]

FreshFrame(n, p, k) ==
    [src |-> n, dst |-> p, key |-> k, srcInc |-> inc[n], dstInc |-> inc[p]]

\* The key is in ack_pending before the frame leaves.  The seal binds the
\* frame to the epoch agreed with the running execution of p.
EmitKey(n, p, k) ==
    /\ tick[n][p].pc = "emitting"
    /\ born[k] = NoKey
    /\ born' = [born EXCEPT ![k] = [src |-> n, dst |-> p, inc |-> inc[n]]]
    /\ ackPending' = Put(ackPending, n, p, k)
    /\ frames' = frames \cup {FreshFrame(n, p, k)}
    /\ EmitDone(n, p)
    /\ UNCHANGED <<inc, acking, enc, popped, dec, ackQueue, seen, cooldown,
                   pump, acks, envelopes, rejections, accepted, wrapped, opened>>

\* No epoch, or send_key fails: the key is taken back out of ack_pending.  A
\* failed call does not say whether the relay got the frame.
EmitKeyFails(n, p, k) ==
    /\ tick[n][p].pc = "emitting"
    /\ born[k] = NoKey
    /\ born' = [born EXCEPT ![k] = [src |-> n, dst |-> p, inc |-> inc[n]]]
    /\ frames' \in {frames, frames \cup {FreshFrame(n, p, k)}}
    /\ EmitDone(n, p)
    /\ UNCHANGED <<inc, ackPending, acking, enc, popped, dec, ackQueue, seen,
                   cooldown, pump, acks, envelopes, rejections, accepted,
                   wrapped, opened>>

\* The reaper drops an entry whose deadline passed.
Reap(n, p, k) ==
    /\ k \in ackPending[n][p]
    /\ ackPending' = Drop(ackPending, n, p, k)
    /\ UNCHANGED <<inc, tick, acking, enc, popped, dec, ackQueue, seen,
                   cooldown, pump, network, history>>

-----------------------------------------------------------------------------
(***************************************************************************)
(* The delivery pump: one delivery at a time per node.  Note_at decides on *)
(* the wipe; the wipe clears three stores under three locks.               *)
(***************************************************************************)

\* e2e.open succeeds: the frame was sealed for the running execution.
OpenDelivery(n, f) ==
    LET p == f.src
        changed == seen[n][p] # 0 /\ seen[n][p] # f.srcInc
        wipe == changed /\ ~cooldown[n][p]
    IN
    /\ f \in frames
    /\ f.dst = n
    /\ pump[n].pc = "idle"
    /\ f.dstInc = inc[n]
    /\ frames' = frames \ {f}
    /\ seen' = [seen EXCEPT ![n][p] = f.srcInc]
    /\ cooldown' = [cooldown EXCEPT ![n][p] = @ \/ wipe]
    /\ pump' = [pump EXCEPT ![n] =
                   [pc |-> IF wipe THEN "wipeEnc" ELSE "push",
                    peer |-> p, key |-> f.key]]
    /\ UNCHANGED <<inc, tick, ackPending, acking, enc, popped, dec, ackQueue,
                   acks, envelopes, rejections, history>>

PumpGoto(n, pc) ==
    pump' = [pump EXCEPT ![n] =
                [pc |-> pc, peer |-> pump[n].peer, key |-> pump[n].key]]

WipeEnc(n) ==
    /\ pump[n].pc = "wipeEnc"
    /\ enc' = Clear(enc, n, pump[n].peer)
    /\ PumpGoto(n, "wipeDec")
    /\ UNCHANGED <<inc, tick, ackPending, acking, popped, dec, ackQueue, seen,
                   cooldown, network, history>>

WipeDec(n) ==
    /\ pump[n].pc = "wipeDec"
    /\ dec' = Clear(dec, n, pump[n].peer)
    /\ PumpGoto(n, "wipePending")
    /\ UNCHANGED <<inc, tick, ackPending, acking, enc, popped, ackQueue, seen,
                   cooldown, network, history>>

WipePending(n) ==
    /\ pump[n].pc = "wipePending"
    /\ ackPending' = Clear(ackPending, n, pump[n].peer)
    /\ PumpGoto(n, "push")
    /\ UNCHANGED <<inc, tick, acking, enc, popped, dec, ackQueue, seen,
                   cooldown, network, history>>

\* Mutant of PushDec: a key that does not fit is acknowledged too.
PushDecAckAll(n) ==
    LET p == pump[n].peer
        k == pump[n].key
    IN
    /\ pump[n].pc = "push"
    /\ pump' = [pump EXCEPT ![n] = IdlePump]
    /\ ackQueue' = Put(ackQueue, n, p, k)
    /\ IF Cardinality(dec[n][p]) < DecCeiling
         THEN /\ dec' = Put(dec, n, p, k)
              /\ accepted' = [accepted EXCEPT ![k] = inc[n]]
         ELSE UNCHANGED <<dec, accepted>>
    /\ UNCHANGED <<inc, tick, ackPending, acking, enc, popped, seen, cooldown,
                   network, born, wrapped, opened>>

\* try_push_capped; a key that does not fit is dropped and not acknowledged.
PushDec(n) ==
    LET p == pump[n].peer
        k == pump[n].key
    IN
    /\ pump[n].pc = "push"
    /\ pump' = [pump EXCEPT ![n] = IdlePump]
    /\ IF Cardinality(dec[n][p]) < DecCeiling
         THEN /\ dec' = Put(dec, n, p, k)
              /\ ackQueue' = Put(ackQueue, n, p, k)
              /\ accepted' = [accepted EXCEPT ![k] = inc[n]]
         ELSE UNCHANGED <<dec, ackQueue, accepted>>
    /\ UNCHANGED <<inc, tick, ackPending, acking, enc, popped, seen, cooldown,
                   network, born, wrapped, opened>>

CooldownElapses(n, p) ==
    /\ cooldown[n][p]
    /\ cooldown' = [cooldown EXCEPT ![n][p] = FALSE]
    /\ UNCHANGED <<inc, tick, ackPending, acking, enc, popped, dec, ackQueue,
                   seen, pump, network, history>>

-----------------------------------------------------------------------------
(***************************************************************************)
(* Acknowledgements.                                                       *)
(***************************************************************************)

\* A batch leaves when it is full or at the flush period.
FlushAcks(n, p) ==
    /\ ackQueue[n][p] # {}
    /\ acks' = acks \cup {[src |-> n, dst |-> p, key |-> k] : k \in ackQueue[n][p]}
    /\ ackQueue' = Clear(ackQueue, n, p)
    /\ UNCHANGED <<inc, tick, ackPending, acking, enc, popped, dec, seen,
                   cooldown, pump, frames, envelopes, rejections, history>>

\* Mutant of OnAckTake: the key of an ACK is not looked up in ack_pending.
OnAckTakeAny(a) ==
    /\ a \in acks
    /\ acks' = acks \ {a}
    /\ ackPending' = Drop(ackPending, a.dst, a.src, a.key)
    /\ acking' = Put(acking, a.dst, a.src, a.key)
    /\ UNCHANGED <<inc, tick, enc, popped, dec, ackQueue, seen, cooldown, pump,
                   frames, envelopes, rejections, history>>

\* take_diagnosed: a late or duplicated ACK finds nothing.
OnAckTake(a) ==
    LET n == a.dst
        p == a.src
    IN
    /\ a \in acks
    /\ acks' = acks \ {a}
    /\ IF a.key \in ackPending[n][p]
         THEN /\ ackPending' = Drop(ackPending, n, p, a.key)
              /\ acking' = Put(acking, n, p, a.key)
         ELSE UNCHANGED <<ackPending, acking>>
    /\ UNCHANGED <<inc, tick, enc, popped, dec, ackQueue, seen, cooldown, pump,
                   frames, envelopes, rejections, history>>

OnAckPush(n, p, k) ==
    /\ k \in acking[n][p]
    /\ acking' = Drop(acking, n, p, k)
    /\ enc' = Put(enc, n, p, k)
    /\ UNCHANGED <<inc, tick, ackPending, popped, dec, ackQueue, seen, cooldown,
                   pump, network, history>>

-----------------------------------------------------------------------------
(***************************************************************************)
(* Session keys: what a request does with one transport key.               *)
(***************************************************************************)

\* build_ext_keys_envelope pops the key the envelope will use.
PopKey(n, p, k) ==
    /\ k \in enc[n][p]
    /\ enc' = Drop(enc, n, p, k)
    /\ popped' = Put(popped, n, p, k)
    /\ UNCHANGED <<inc, tick, ackPending, acking, dec, ackQueue, seen, cooldown,
                   pump, network, history>>

\* Mutant of GiveBack: the request keeps the key it gave back.
GiveBackTwice(n, p, k) ==
    /\ k \in popped[n][p]
    /\ enc' = Put(enc, n, p, k)
    /\ UNCHANGED <<inc, tick, ackPending, acking, popped, dec, ackQueue, seen,
                   cooldown, pump, network, history>>

\* The request failed before any envelope left: push_front.
GiveBack(n, p, k) ==
    /\ k \in popped[n][p]
    /\ popped' = Drop(popped, n, p, k)
    /\ enc' = Put(enc, n, p, k)
    /\ UNCHANGED <<inc, tick, ackPending, acking, dec, ackQueue, seen, cooldown,
                   pump, network, history>>

\* From here on the key is spent whatever the answer.
SendEnvelope(n, p, k) ==
    /\ k \in popped[n][p]
    /\ popped' = Drop(popped, n, p, k)
    /\ wrapped' = [wrapped EXCEPT ![k] = @ + 1]
    /\ envelopes' = envelopes \cup
           {[src |-> n, dst |-> p, key |-> k, inc |-> inc[n]]}
    /\ UNCHANGED <<inc, tick, ackPending, acking, enc, dec, ackQueue, seen,
                   cooldown, pump, frames, acks, rejections, born, accepted,
                   opened>>

\* handle_incoming_ext_keys: take_by_id or TransportKeyMissing.
ReceiveEnvelope(e) ==
    LET n == e.dst
        p == e.src
    IN
    /\ e \in envelopes
    /\ envelopes' = envelopes \ {e}
    /\ IF e.key \in dec[n][p]
         THEN /\ dec' = Drop(dec, n, p, e.key)
              /\ opened' = [opened EXCEPT ![e.key] = @ + 1]
              /\ UNCHANGED rejections
         ELSE /\ rejections' = rejections \cup {[src |-> n, dst |-> p, inc |-> e.inc]}
              /\ UNCHANGED <<dec, opened>>
    /\ UNCHANGED <<inc, tick, ackPending, acking, enc, popped, ackQueue, seen,
                   cooldown, pump, frames, acks, born, accepted, wrapped>>

\* resync_transport_buffer_if_stale, by the execution that posted the envelope.
Resync(r) ==
    /\ r \in rejections
    /\ r.inc = inc[r.dst]
    /\ rejections' = rejections \ {r}
    /\ enc' = Clear(enc, r.dst, r.src)
    /\ UNCHANGED <<inc, tick, ackPending, acking, popped, dec, ackQueue, seen,
                   cooldown, pump, frames, acks, envelopes, history>>

-----------------------------------------------------------------------------
(***************************************************************************)
(* The environment: the network may lose anything; a frame for a previous  *)
(* execution cannot be opened (UnknownEpoch) and is dropped; a node may be *)
(* restarted and comes back with empty memory.                             *)
(***************************************************************************)

LoseMessage ==
    /\ \/ \E f \in frames :
             frames' = frames \ {f} /\ UNCHANGED <<acks, envelopes, rejections>>
       \/ \E a \in acks :
             acks' = acks \ {a} /\ UNCHANGED <<frames, envelopes, rejections>>
       \/ \E e \in envelopes :
             envelopes' = envelopes \ {e} /\ UNCHANGED <<frames, acks, rejections>>
       \/ \E r \in rejections :
             rejections' = rejections \ {r} /\ UNCHANGED <<frames, acks, envelopes>>
    /\ UNCHANGED <<node, history>>

RestartDkms(n) ==
    /\ inc[n] < MaxIncarnation
    /\ inc' = [inc EXCEPT ![n] = @ + 1]
    /\ tick' = [tick EXCEPT ![n] = [p \in Dkms |-> IdleTick]]
    /\ ackPending' = ForgetNode(ackPending, n)
    /\ acking' = ForgetNode(acking, n)
    /\ enc' = ForgetNode(enc, n)
    /\ popped' = ForgetNode(popped, n)
    /\ dec' = ForgetNode(dec, n)
    /\ ackQueue' = ForgetNode(ackQueue, n)
    /\ seen' = [seen EXCEPT ![n] = [p \in Dkms |-> 0]]
    /\ cooldown' = [cooldown EXCEPT ![n] = [p \in Dkms |-> FALSE]]
    /\ pump' = [pump EXCEPT ![n] = IdlePump]
    /\ UNCHANGED <<network, history>>

-----------------------------------------------------------------------------
GeneratorStep(n, p) ==
    \/ TickCountEnc(n, p)
    \/ TickPlan(n, p)
    \/ \E k \in TransportKey : EmitKey(n, p, k) \/ EmitKeyFails(n, p, k) \/ Reap(n, p, k)

PumpStep(n) ==
    \/ \E f \in frames : OpenDelivery(n, f)
    \/ WipeEnc(n)
    \/ WipeDec(n)
    \/ WipePending(n)
    \/ PushDec(n)

AckStep(n, p) ==
    \/ FlushAcks(n, p)
    \/ \E k \in TransportKey : OnAckPush(n, p, k)

SessionStep(n, p) ==
    \E k \in TransportKey : PopKey(n, p, k) \/ GiveBack(n, p, k) \/ SendEnvelope(n, p, k)

TransportNext ==
    \/ \E r \in Pairs : \/ GeneratorStep(r[1], r[2])
                        \/ AckStep(r[1], r[2])
                        \/ SessionStep(r[1], r[2])
                        \/ CooldownElapses(r[1], r[2])
    \/ \E n \in Dkms : PumpStep(n) \/ RestartDkms(n)
    \/ \E a \in acks : OnAckTake(a)
    \/ \E e \in envelopes : ReceiveEnvelope(e)
    \/ \E r \in rejections : Resync(r)
    \/ LoseMessage

TransportSpec == TransportInit /\ [][TransportNext]_transportVars

-----------------------------------------------------------------------------
(***************************************************************************)
(* Properties.                                                             *)
(***************************************************************************)

Table == [Dkms -> [Dkms -> SUBSET TransportKey]]

\* Every table of the node, message and history record has its type.
TransportTypeOK ==
    /\ inc \in [Dkms -> Nat \ {0}]
    /\ tick \in [Dkms -> [Dkms -> Tick]]
    /\ ackPending \in Table
    /\ acking \in Table
    /\ enc \in Table
    /\ popped \in Table
    /\ dec \in Table
    /\ ackQueue \in Table
    /\ seen \in [Dkms -> [Dkms -> Nat]]
    /\ cooldown \in [Dkms -> [Dkms -> BOOLEAN]]
    /\ pump \in [Dkms -> {IdlePump} \cup [pc : PumpPc, peer : Dkms, key : TransportKey]]
    /\ frames \subseteq Frame
    /\ acks \subseteq Message
    /\ envelopes \subseteq Envelope
    /\ rejections \subseteq Rejection
    /\ born \in [TransportKey -> Birth \cup {NoKey}]
    /\ accepted \in [TransportKey -> Nat]
    /\ wrapped \in [TransportKey -> Nat]
    /\ opened \in [TransportKey -> Nat]

\* A transport key wraps at most one session key that leaves the process, and
\* its twin opens at most one: giving a key back, wiping, resynchronising,
\* late ACKs and restarts never bring a spent pad back (service.rs, B-03: "una
\* clave OTP que ya cifró algo transmitido no puede volver a usarse").
OneTimePad == \A k \in TransportKey : wrapped[k] <= 1 /\ opened[k] <= 1

\* A key that can be served was stored by the peer first: no loss, duplicate or
\* reordering of frames and ACKs puts in buffer_enc a key the peer never had
\* (on_ack is the only way from ack_pending to buffer_enc).
ServableWasAccepted ==
    \A n, p \in Dkms : \A k \in enc[n][p] \cup popped[n][p] : accepted[k] # 0

\* n holds k for p and has not spent it.
Held(k, n, p) ==
    \/ k \in ackPending[n][p]
    \/ k \in acking[n][p]
    \/ k \in enc[n][p]
    \/ k \in popped[n][p]

\* Buffers are RAM only: what a node can still serve, or still waits an ACK for,
\* was emitted by its running execution for that peer, so a late ACK never
\* revives a key of an execution that died.
HeldByEmitter ==
    \A n, p \in Dkms : \A k \in TransportKey :
        Held(k, n, p) => born[k] = [src |-> n, dst |-> p, inc |-> inc[n]]

\* "Capar aquí mantiene el invariante `enc + pending <= capacity`"
\* (generator.rs, tick_once): what n holds for p never exceeds the capacity it
\* announces.
CapacityKept ==
    \A n, p \in Dkms :
        Cardinality(enc[n][p]) + Cardinality(ackPending[n][p]) <= Capacity

-----------------------------------------------------------------------------
\* Nodes and key ids are only compared for equality: TLC may permute them.
Bijections(S) == {f \in [S -> S] : \A x \in S : \E y \in S : f[y] = x}
Symmetry == {f : f \in Bijections(Dkms) \cup Bijections(TransportKey)}

=============================================================================
