------------------------------- MODULE KmeLink ------------------------------
(***************************************************************************)
(* A QKD link: the key manager both ends share (quditto), the ETSI 014     *)
(* client of each end (qkc/src/kme.rs), and the announcements of the keys  *)
(* an end took (qkc/src/keystore.rs).                                      *)
(*                                                                         *)
(* An end takes fresh keys with enc_keys, in as many requests as the KME's *)
(* limit asks for, and announces their ids; the other end then asks for    *)
(* them with dec_keys.  Keys are numbered as they are distilled.  A fault  *)
(* loses the answer of a request, loses an announcement, or restarts the   *)
(* KME, whose stores are in memory.                                        *)
(***************************************************************************)
EXTENDS Naturals, Integers, Sequences, FiniteSets, SequencesExt

CONSTANTS
    NumKeys,        \* keys distilled in a run
    MaxBufferKeys,  \* max_buffer_keys
    Block,          \* block_keys
    RefillBatch,    \* keys an end asks for
    DecBatchMax,    \* ids asked for in one round
    MaxPerRequest,  \* max_key_per_request of the KME
    MaxFaults

VARIABLES
    pause,      \* full_mode: stop distilling (TRUE) or drop
    batches,    \* the KME takes several key_IDs in a POST
    minted, due,
    fresh, delivered,   \* the stores of the KME
    client,     \* client[x]: probed, key size known, limit known, dec_batch
    enc,        \* enc[x]: the enc_keys call of x
    notify,     \* notify[x]: ids announced to x, still on the wire
    pending,    \* dec_pending of x
    dec,        \* dec[x]: the dec_keys call of x
    encHeld, decHeld,   \* keys that reached x for sending, for receiving
    faults, mayLose     \* faults, and the keys they may have cost

kme      == <<pause, batches, minted, due, fresh, delivered>>
ends     == <<client, enc, notify, pending, dec, encHeld, decHeld>>
kmeVars  == <<kme, ends, faults, mayLose>>

End == {"a", "b"}
Other(x) == IF x = "a" THEN "b" ELSE "a"

Idle == [left |-> 0, out |-> <<>>]
NoDec == [ids |-> <<>>, out |-> {}, single |-> FALSE]

Init ==
    /\ pause \in BOOLEAN /\ batches \in BOOLEAN
    /\ minted = 0 /\ due = 0 /\ fresh = <<>> /\ delivered = {}
    /\ client = [x \in End |-> [probed |-> FALSE, sized |-> x = "a",
                                limit |-> 0, batch |-> TRUE]]
    /\ enc = [x \in End |-> Idle] /\ dec = [x \in End |-> NoDec]
    /\ notify = [x \in End |-> <<>>] /\ pending = [x \in End |-> <<>>]
    /\ encHeld = [x \in End |-> {}] /\ decHeld = [x \in End |-> {}]
    /\ faults = 0 /\ mayLose = 0

Fault(cost) ==
    /\ faults < MaxFaults
    /\ faults' = faults + 1 /\ mayLose' = mayLose + cost

NoFault == UNCHANGED <<faults, mayLose>>

-----------------------------------------------------------------------------
(***************************************************************************)
(* The KME.                                                                *)
(***************************************************************************)

Least(m, n) == IF m < n THEN m ELSE n

\* A tick of run_minter: what is due grows, whole blocks are distilled.  With
\* no room for a block a KME that pauses keeps one due and no more; the other
\* drops the keys that do not fit.
Tick ==
    LET space == MaxBufferKeys - Len(fresh)
        owed  == (due + 1) \div Block
        n     == IF pause THEN Least(owed, space \div Block) ELSE owed
        kept  == Least(Least(n * Block, space), NumKeys - minted)
    IN  /\ minted < NumKeys
        /\ due' = IF n < owed THEN Block ELSE due + 1 - n * Block
        /\ fresh' = fresh \o [i \in 1..kept |-> minted + i]
        /\ minted' = minted + kept
        /\ UNCHANGED <<pause, batches, delivered, ends>> /\ NoFault

\* Mutant: a batch that falls short is an error, its keys already moved.
TakeForEncAll(n) ==
    [keys |-> IF Len(fresh) < n THEN <<>> ELSE SubSeq(fresh, 1, n),
     moved |-> IF Len(fresh) < n THEN Len(fresh) ELSE n]

\* take_for_enc: up to n keys.
TakeForEnc(n) ==
    LET m == Least(Len(fresh), n) IN [keys |-> SubSeq(fresh, 1, m), moved |-> m]

Restart ==
    /\ Fault(DecBatchMax * (Len(fresh) + Cardinality(delivered)))
    /\ fresh' = <<>> /\ delivered' = {} /\ due' = 0
    /\ UNCHANGED <<pause, batches, minted, ends>>

-----------------------------------------------------------------------------
(***************************************************************************)
(* enc_keys and what the key store does with its keys.                     *)
(***************************************************************************)

\* probe: learns the size and the limit; one that fails is tried again with
\* the next call.
Probe(x) ==
    /\ enc[x] = Idle /\ ~client[x].probed
    /\ client' = [client EXCEPT ![x].probed = TRUE, ![x].sized = TRUE,
                                ![x].limit = MaxPerRequest]
    /\ enc' = [enc EXCEPT ![x] = [@ EXCEPT !.left = RefillBatch]]
    /\ UNCHANGED <<kme, notify, pending, dec, encHeld, decHeld>> /\ NoFault

ProbeFails(x) ==
    /\ enc[x] = Idle /\ ~client[x].probed /\ Fault(0)
    /\ enc' = [enc EXCEPT ![x] = [@ EXCEPT !.left = RefillBatch]]
    /\ UNCHANGED <<kme, client, notify, pending, dec, encHeld, decHeld>>

EncStarts(x) ==
    /\ enc[x] = Idle /\ client[x].probed /\ fresh # <<>>
    /\ enc' = [enc EXCEPT ![x] = [@ EXCEPT !.left = RefillBatch]]
    /\ UNCHANGED <<kme, client, notify, pending, dec, encHeld, decHeld>>
    /\ NoFault

\* Keys of the next request.
PerRequest(x) ==
    IF client[x].limit = 0 \/ client[x].limit > enc[x].left
      THEN enc[x].left ELSE client[x].limit

\* absorb_enc_keys: the keys are held, their ids announced.
Absorbed(x, keys) ==
    /\ enc' = [enc EXCEPT ![x] = Idle]
    /\ encHeld' = [encHeld EXCEPT ![x] = @ \cup Range(keys)]
    /\ notify' = IF keys = <<>> THEN notify
                   ELSE [notify EXCEPT ![Other(x)] = Append(@, keys)]

\* A request that fails: the call fails too unless some keys were collected.
EncFailed(x) == Absorbed(x, enc[x].out)

\* get_enc_keys serves one request, or refuses another key size; another
\* request follows while keys are missing and the KME gave any.
EncKeysOnce(x) ==
    LET t    == TakeForEnc(PerRequest(x))
        left == enc[x].left - Len(t.keys)
    IN  /\ enc[x].left > 0
        /\ IF client[x].sized
             THEN /\ fresh' = SubSeq(fresh, t.moved + 1, Len(fresh))
                  /\ delivered' = delivered \cup {fresh[i] : i \in 1..t.moved}
                  /\ IF t.keys = <<>>
                       THEN EncFailed(x)
                       ELSE IF left > 0 /\ client[x].limit \in 1..(RefillBatch - 1)
                         THEN /\ enc' = [enc EXCEPT ![x] = [left |-> left,
                                                             out |-> @.out \o t.keys]]
                              /\ UNCHANGED <<encHeld, notify>>
                         ELSE Absorbed(x, enc[x].out \o t.keys)
             ELSE EncFailed(x) /\ UNCHANGED <<fresh, delivered>>
        /\ UNCHANGED <<pause, batches, minted, due, client, pending, dec, decHeld>>
        /\ NoFault

\* The answer is lost.
EncLost(x) ==
    LET t == TakeForEnc(PerRequest(x))
    IN  /\ enc[x].left > 0 /\ client[x].sized /\ Fault(t.moved)
        /\ fresh' = SubSeq(fresh, t.moved + 1, Len(fresh))
        /\ delivered' = delivered \cup {fresh[i] : i \in 1..t.moved}
        /\ EncFailed(x)
        /\ UNCHANGED <<pause, batches, minted, due, client, pending, dec, decHeld>>

-----------------------------------------------------------------------------
(***************************************************************************)
(* The announcements and dec_keys.                                         *)
(***************************************************************************)

\* notify_remote_enc: the ids are queued.
NotifyRemoteEnc(x) ==
    /\ notify[x] # <<>>
    /\ notify' = [notify EXCEPT ![x] = Tail(@)]
    /\ pending' = [pending EXCEPT ![x] = @ \o Head(notify[x])]
    /\ UNCHANGED <<kme, client, enc, dec, encHeld, decHeld>>
    /\ NoFault

NotifyLost(x) ==
    /\ notify[x] # <<>> /\ Fault(Len(Head(notify[x])))
    /\ notify' = [notify EXCEPT ![x] = Tail(@)]
    /\ UNCHANGED <<kme, client, enc, pending, dec, encHeld, decHeld>>

\* Ids of the next round.
DecRound(x) == Least(Len(pending[x]), DecBatchMax)

\* dec_refill_loop takes ids off the queue; one id, or a KME known to refuse
\* batches, is asked id by id.
DecStarts(x) ==
    LET n == DecRound(x)
    IN  /\ dec[x] = NoDec /\ n > 0
        /\ dec' = [dec EXCEPT ![x] = [ids |-> SubSeq(pending[x], 1, n), out |-> {},
                                      single |-> n = 1 \/ ~client[x].batch]]
        /\ pending' = [pending EXCEPT ![x] = SubSeq(@, n + 1, Len(@))]
        /\ UNCHANGED <<kme, client, enc, notify, encHeld, decHeld>> /\ NoFault

\* The keys that came are stored; the ids that did not are forgotten.
DecEnds(x, keys) ==
    /\ dec' = [dec EXCEPT ![x] = NoDec]
    /\ decHeld' = [decHeld EXCEPT ![x] = @ \cup keys]

\* The batch: 400 makes the client remember to ask id by id, 404 ends the call.
DecBatch(x) ==
    LET ids == Range(dec[x].ids)
    IN  /\ dec[x] # NoDec /\ ~dec[x].single
        /\ IF batches
             THEN /\ delivered' = delivered \ ids
                  /\ DecEnds(x, ids \cap delivered)
                  /\ UNCHANGED client
             ELSE /\ client' = [client EXCEPT ![x].batch = FALSE]
                  /\ dec' = [dec EXCEPT ![x].single = TRUE]
                  /\ UNCHANGED <<delivered, decHeld>>
        /\ UNCHANGED <<pause, batches, minted, due, fresh, enc, notify, pending,
                       encHeld>>
        /\ NoFault

\* One id: a refusal ends the call, with what was collected.
DecSingle(x) ==
    LET id  == Head(dec[x].ids)
        out == dec[x].out \cup {id}
    IN  /\ dec[x] # NoDec /\ dec[x].single
        /\ delivered' = delivered \ {id}
        /\ IF id \in delivered /\ Len(dec[x].ids) > 1
             THEN /\ dec' = [dec EXCEPT ![x].ids = Tail(@), ![x].out = out]
                  /\ UNCHANGED <<decHeld>>
             ELSE IF id \in delivered
               THEN DecEnds(x, out)
               ELSE DecEnds(x, dec[x].out)
        /\ UNCHANGED <<pause, batches, minted, due, fresh, client, enc, notify,
                       pending, encHeld>>
        /\ NoFault

\* The answer is lost: the call fails, and what was collected goes with it.
DecLost(x) ==
    LET ids == IF dec[x].single THEN {Head(dec[x].ids)} ELSE Range(dec[x].ids)
        all == Range(dec[x].ids) \cup dec[x].out
    IN  /\ dec[x] # NoDec /\ Fault(Cardinality(all))
        /\ delivered' = IF dec[x].single \/ batches THEN delivered \ ids ELSE delivered
        /\ DecEnds(x, {})
        /\ UNCHANGED <<pause, batches, minted, due, fresh, client, enc, notify,
                       pending, encHeld>>

-----------------------------------------------------------------------------
Next ==
    \/ Tick \/ Restart
    \/ \E x \in End :
         \/ Probe(x) \/ ProbeFails(x) \/ EncStarts(x) \/ EncKeysOnce(x)
         \/ EncLost(x) \/ NotifyRemoteEnc(x) \/ NotifyLost(x)
         \/ DecStarts(x) \/ DecBatch(x) \/ DecSingle(x) \/ DecLost(x)

Spec == Init /\ [][Next]_kmeVars

\* The workers and the minter keep running.
FairSpec ==
    /\ Spec
    /\ WF_kmeVars(Tick)
    /\ \A x \in End :
         /\ WF_kmeVars(Probe(x) \/ EncStarts(x) \/ EncKeysOnce(x))
         /\ WF_kmeVars(NotifyRemoteEnc(x) \/ DecStarts(x) \/ DecBatch(x) \/ DecSingle(x))

-----------------------------------------------------------------------------
(***************************************************************************)
(* Properties.                                                             *)
(***************************************************************************)

Key == 1..NumKeys

TypeOK ==
    /\ pause \in BOOLEAN /\ batches \in BOOLEAN
    /\ minted \in 0..NumKeys /\ due \in 0..Block
    /\ fresh \in Seq(Key) /\ Len(fresh) <= MaxBufferKeys /\ delivered \subseteq Key
    /\ \A x \in End :
         /\ enc[x].left \in 0..RefillBatch
         /\ Len(enc[x].out) + enc[x].left \in {0, RefillBatch}
         /\ client[x].limit \in {0, MaxPerRequest}
         /\ Len(dec[x].ids) <= DecBatchMax /\ dec[x].out \subseteq Key
         /\ encHeld[x] \subseteq Key /\ decHeld[x] \subseteq Key
    /\ faults \in 0..MaxFaults

\* Held by one end to send and by the other to receive.
Paired(k) == \E x \in End : k \in encHeld[x] /\ k \in decHeld[Other(x)]

\* On its way to being so.
OnItsWay(k) ==
    \E x \in End :
      \/ k \in Range(enc[x].out)
      \/ /\ k \in encHeld[x]
         /\ k \in UNION {Range(ids) : ids \in Range(notify[Other(x)])}
                    \cup Range(pending[Other(x)]) \cup Range(dec[Other(x)].ids)
                    \cup dec[Other(x)].out

\* A key the KME gave up is at both ends or on its way there, but for the keys
\* a fault may have cost: the answer that was lost, the announcement, and after
\* a restart the rest of the round in which an id was refused.  A short batch,
\* in either direction, loses nothing (get_enc_keys and post_dec_keys answer
\* with the part they have; enc_keys returns what it collected before an error).
WastePerFault ==
    Cardinality({k \in 1..minted :
        k \notin Range(fresh) /\ ~Paired(k) /\ ~OnItsWay(k)}) <= mayLose

\* Each key is sent under by one end only, and is received at most at the other:
\* both ends draw from one store (take_for_enc pops, take_for_dec removes).
OneSender ==
    /\ encHeld["a"] \cap encHeld["b"] = {}
    /\ \A x \in End : decHeld[x] \subseteq encHeld[Other(x)]

AllSettled == \A k \in 1..minted : k \notin Range(fresh) /\ ~OnItsWay(k)

\* Every key taken from the KME ends at both ends or is lost: no call, queue or
\* announcement keeps one for ever, whatever the KME's limits, its refusal of
\* batches, or a first probe that failed.
KeysSettle == []<>AllSettled

=============================================================================
