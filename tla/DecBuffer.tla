----------------------------- MODULE DecBuffer -----------------------------
(***************************************************************************)
(* The receiving side of a QKC link (qkc/src/keystore.rs, relay.rs).       *)
(*                                                                         *)
(* The sending QKC takes keys from its KME, puts them in its ENC ring and  *)
(* announces their ids with a NOTIFY frame; a data frame names the id of   *)
(* the key that encrypts it.  Both travel on one connection, in order.     *)
(* The receiver queues announced ids (dec_pending), mirrors them in        *)
(* dec_announced, and a worker fetches the keys from its own KME into the  *)
(* DEC map.  Each data frame runs in a task of its own that consumes its   *)
(* key, waits for it if its id is announced, and gives up otherwise.       *)
(*                                                                         *)
(* One key per frame (the payload of the design is one block), so a frame  *)
(* is named after its key.  The monotonic dec_inserted_seq is abstracted   *)
(* to what a task asks of it: has it moved since I read it.  A key has one *)
(* reader, its frame, so the order of the ids of a NOTIFY and the order in *)
(* which the keys of a batch enter the map are left out.                   *)
(***************************************************************************)
EXTENDS Naturals, FiniteSets, Sequences, FiniteSetTheorems, TLAPS

CONSTANTS
    Producer,       \* tasks that fill the ENC ring: refill and banking
    Key,            \* ids of the keys the two KMEs share
    Batch,          \* REFILL_BATCH
    DecBatchMax,    \* ids the worker asks for at a time
    DecPendingMax,  \* bound of dec_pending
    QueueCapacity   \* bound of the queue towards the peer

ASSUME KeyAssumption == IsFiniteSet(Key)
ASSUME BatchAssumption == Batch \in Nat \ {0}
ASSUME DecBatchMaxAssumption == DecBatchMax \in Nat \ {0}
ASSUME DecPendingMaxAssumption == DecPendingMax \in Nat
ASSUME QueueCapacityAssumption == QueueCapacity \in Nat

VARIABLES
    kme,        \* keys the receiver's KME still holds
    unsent,     \* unsent[p]: ids p pushed to the ring and has yet to announce
    wire,       \* NOTIFY and data frames between the two, in order
    noting,     \* ids of the NOTIFY being processed, and how far it got
    pending,    \* dec_pending
    announced,  \* dec_announced
    request,    \* permit of dec_request
    worker,     \* dec_refill_loop: place, ids asked for, keys obtained
    dec,        \* the DEC map
    frame,      \* frame[k]: the sender's ring, then the place of its data frame
    waiting,    \* frames registered with dec_inserted
    decMoved    \* frames that read dec_inserted_seq before it last moved

sender   == <<unsent, wire>>
intake   == <<noting, pending, announced, request>>
tasks    == <<frame, waiting, decMoved>>
decVars  == <<kme, sender, intake, worker, dec, tasks>>

Idle == [pc |-> "idle", ids |-> {}, keys |-> {}]
Quiet == [pc |-> "idle", ids |-> {}]
Notice(ids) == [kind |-> "notify", ids |-> ids]
Data(k) == [kind |-> "data", ids |-> {k}]

InTask == {"lookup", "ask", "snap", "look", "enable", "check", "asleep"}
Ended == {"opened", "refused", "timedout", "lost"}

DecInit ==
    /\ kme = {} /\ unsent = [p \in Producer |-> {}] /\ wire = <<>>
    /\ noting = Quiet
    /\ pending = {} /\ announced = {} /\ request = FALSE
    /\ worker = Idle
    /\ dec = {}
    /\ frame = [k \in Key |-> "none"]
    /\ waiting = {} /\ decMoved = {}

-----------------------------------------------------------------------------
(***************************************************************************)
(* The sender: a batch enters the ring, a task may use it at once, and the *)
(* NOTIFY leaves afterwards.                                               *)
(***************************************************************************)

Send(message) ==
    IF Len(wire) < QueueCapacity THEN wire' = Append(wire, message)
    ELSE UNCHANGED wire

AbsorbEncKeys(p, keys) ==
    /\ unsent[p] = {}
    /\ keys # {} /\ Cardinality(keys) <= Batch
    /\ \A k \in keys : frame[k] = "none"
    /\ kme' = kme \cup keys
    /\ frame' = [k \in Key |-> IF k \in keys THEN "ring" ELSE frame[k]]
    /\ unsent' = [unsent EXCEPT ![p] = keys]
    /\ UNCHANGED <<wire, intake, worker, dec, waiting, decMoved>>

SendNotify(p) ==
    /\ unsent[p] # {}
    /\ Send(Notice(unsent[p]))
    /\ unsent' = [unsent EXCEPT ![p] = {}]
    /\ UNCHANGED <<kme, intake, worker, dec, tasks>>

SendFrame(k) ==
    /\ frame[k] = "ring"
    /\ Send(Data(k))
    /\ frame' = [frame EXCEPT ![k] =
                    IF Len(wire) < QueueCapacity THEN "sent" ELSE "lost"]
    /\ UNCHANGED <<kme, unsent, intake, worker, dec, waiting, decMoved>>

\* The writer loses what it has in its hands when the connection breaks, and
\* the receiver drops a data frame that its intake queue has no room for.
Lose ==
    /\ wire # <<>>
    /\ wire' = Tail(wire)
    /\ frame' = [k \in Key |->
                    IF Head(wire).kind = "data" /\ k \in Head(wire).ids
                      THEN "lost" ELSE frame[k]]
    /\ UNCHANGED <<kme, unsent, intake, worker, dec, waiting, decMoved>>

-----------------------------------------------------------------------------
(***************************************************************************)
(* notify_remote_enc, by the reader of the connection: the queue, its      *)
(* mirror and the permit are three steps.  The reader takes nothing else   *)
(* off the wire until it is done.                                          *)
(***************************************************************************)

ReadNotify ==
    /\ noting.pc = "idle"
    /\ wire # <<>> /\ Head(wire).kind = "notify"
    /\ wire' = Tail(wire)
    /\ \E ids \in SUBSET Head(wire).ids :
          /\ LET room == DecPendingMax - Cardinality(pending)
                 n == Cardinality(Head(wire).ids)
             IN  Cardinality(ids) = IF n <= room THEN n ELSE room
          /\ pending' = pending \cup ids
          /\ noting' = [pc |-> "mirror", ids |-> ids]
    /\ UNCHANGED <<kme, unsent, announced, request, worker, dec, tasks>>

MirrorIds ==
    /\ noting.pc = "mirror"
    /\ announced' = announced \cup noting.ids
    /\ noting' = [pc |-> "wake", ids |-> noting.ids]
    /\ UNCHANGED <<kme, sender, pending, request, worker, dec, tasks>>

\* Mutant: the NOTIFY leaves no permit.
WakeWorkerNot ==
    /\ noting.pc = "wake"
    /\ request' = request
    /\ noting' = Quiet
    /\ UNCHANGED <<kme, sender, pending, announced, worker, dec, tasks>>

WakeWorker ==
    /\ noting.pc = "wake"
    /\ request' = TRUE
    /\ noting' = Quiet
    /\ UNCHANGED <<kme, sender, pending, announced, worker, dec, tasks>>

ReadData ==
    /\ noting.pc = "idle"
    /\ wire # <<>> /\ Head(wire).kind = "data"
    /\ wire' = Tail(wire)
    /\ frame' = [k \in Key |-> IF k \in Head(wire).ids THEN "lookup" ELSE frame[k]]
    /\ UNCHANGED <<kme, unsent, intake, worker, dec, waiting, decMoved>>

-----------------------------------------------------------------------------
(***************************************************************************)
(* dec_refill_loop.                                                        *)
(***************************************************************************)

WorkerGoto(pc) == worker' = [pc |-> pc, ids |-> worker.ids, keys |-> worker.keys]

WorkerNotified ==
    /\ worker.pc = "idle" /\ request
    /\ request' = FALSE
    /\ WorkerGoto("drain")
    /\ UNCHANGED <<kme, sender, noting, pending, announced, dec, tasks>>

Drain ==
    /\ worker.pc = "drain"
    /\ IF pending = {}
         THEN worker' = Idle /\ UNCHANGED pending
         ELSE \E ids \in SUBSET pending :
                /\ LET n == Cardinality(pending)
                   IN  Cardinality(ids) = IF n <= DecBatchMax THEN n ELSE DecBatchMax
                /\ pending' = pending \ ids
                /\ worker' = [pc |-> "fetch", ids |-> ids, keys |-> {}]
    /\ UNCHANGED <<kme, sender, noting, announced, request, dec, tasks>>

\* kme.dec_keys.  The KME gives a key once; an error, or a batch that breaks
\* off in its middle, may burn keys that never get here.
DecKeys ==
    /\ worker.pc = "fetch"
    /\ \E burnt \in SUBSET (worker.ids \cap kme) :
          /\ kme' = kme \ burnt
          /\ \/ \E keys \in SUBSET burnt :
                  worker' = [pc |-> "unmirror", ids |-> worker.ids, keys |-> keys]
             \/ WorkerGoto("failed")
    /\ UNCHANGED <<sender, intake, dec, tasks>>

UnmirrorIds ==
    /\ worker.pc \in {"unmirror", "failed"}
    /\ announced' = announced \ worker.ids
    /\ WorkerGoto(IF worker.pc = "failed" THEN "drain" ELSE "insert")
    /\ UNCHANGED <<kme, sender, noting, pending, request, dec, tasks>>

InsertKeys ==
    /\ worker.pc = "insert"
    /\ dec' = dec \cup worker.keys
    /\ WorkerGoto("bump")
    /\ UNCHANGED <<kme, sender, intake, tasks>>

BumpSeq ==
    /\ worker.pc = "bump"
    /\ decMoved' = decMoved \cup {k \in Key : frame[k] \in {"look", "enable", "check"}}
    /\ WorkerGoto("wake")
    /\ UNCHANGED <<kme, sender, intake, dec, frame, waiting>>

NotifyWaiters ==
    /\ worker.pc = "wake"
    /\ waiting' = {}
    /\ worker' = [pc |-> "drain", ids |-> {}, keys |-> {}]
    /\ UNCHANGED <<kme, sender, intake, dec, frame, decMoved>>

-----------------------------------------------------------------------------
(***************************************************************************)
(* The task of a data frame: lookup_or_fetch_dec and wait_dec.             *)
(***************************************************************************)

FrameGoto(k, pc) == frame' = [frame EXCEPT ![k] = pc]

\* Mutant: the key is read and stays in the map.
ConsumeCopy(k) ==
    /\ k \in dec
    /\ dec' = dec
    /\ FrameGoto(k, "opened")

Consume(k) ==
    /\ k \in dec
    /\ dec' = dec \ {k}
    /\ FrameGoto(k, "opened")

LookupDec(k) ==
    /\ frame[k] = "lookup"
    /\ \/ Consume(k)
       \/ k \notin dec /\ FrameGoto(k, "ask") /\ UNCHANGED dec
    /\ UNCHANGED <<kme, sender, intake, worker, waiting, decMoved>>

IsDecAnnounced(k) ==
    /\ frame[k] = "ask"
    /\ FrameGoto(k, IF k \in announced THEN "snap" ELSE "refused")
    /\ UNCHANGED <<kme, sender, intake, worker, dec, waiting, decMoved>>

DecReadSeq(k) ==
    /\ frame[k] = "snap"
    /\ decMoved' = decMoved \ {k}
    /\ FrameGoto(k, "look")
    /\ UNCHANGED <<kme, sender, intake, worker, dec, waiting>>

LookAgain(k) ==
    /\ frame[k] = "look"
    /\ \/ Consume(k)
       \/ k \notin dec /\ FrameGoto(k, "enable") /\ UNCHANGED dec
    /\ UNCHANGED <<kme, sender, intake, worker, waiting, decMoved>>

DecEnable(k) ==
    /\ frame[k] = "enable"
    /\ waiting' = waiting \cup {k}
    /\ FrameGoto(k, "check")
    /\ UNCHANGED <<kme, sender, intake, worker, dec, decMoved>>

\* Mutant: the number is not read again once registered.
CheckSeqNot(k) ==
    /\ frame[k] = "check"
    /\ IF FALSE
         THEN FrameGoto(k, "snap") /\ waiting' = waiting \ {k}
         ELSE FrameGoto(k, "asleep") /\ UNCHANGED waiting
    /\ UNCHANGED <<kme, sender, intake, worker, dec, decMoved>>

DecCheckSeq(k) ==
    /\ frame[k] = "check"
    /\ IF k \in decMoved
         THEN FrameGoto(k, "snap") /\ waiting' = waiting \ {k}
         ELSE FrameGoto(k, "asleep") /\ UNCHANGED waiting
    /\ UNCHANGED <<kme, sender, intake, worker, dec, decMoved>>

DecWoken(k) ==
    /\ frame[k] = "asleep" /\ k \notin waiting
    /\ FrameGoto(k, "snap")
    /\ UNCHANGED <<kme, sender, intake, worker, dec, waiting, decMoved>>

\* DEC_WAIT_TIMEOUT, at the deadline check of the loop or in its sleep.
DecTimeout(k) ==
    /\ frame[k] = "asleep" \/ frame[k] = "enable"
    /\ FrameGoto(k, "timedout")
    /\ waiting' = waiting \ {k}
    /\ UNCHANGED <<kme, sender, intake, worker, dec, decMoved>>

-----------------------------------------------------------------------------
SenderStep ==
    \/ \E p \in Producer, keys \in SUBSET Key : AbsorbEncKeys(p, keys)
    \/ \E p \in Producer : SendNotify(p)
    \/ \E k \in Key : SendFrame(k)
    \/ Lose

IntakeStep == ReadNotify \/ MirrorIds \/ WakeWorker \/ ReadData

WorkerStep ==
    \/ WorkerNotified \/ Drain \/ DecKeys \/ UnmirrorIds
    \/ InsertKeys \/ BumpSeq \/ NotifyWaiters

FrameStep(k) ==
    \/ LookupDec(k) \/ IsDecAnnounced(k) \/ DecReadSeq(k) \/ LookAgain(k)
    \/ DecEnable(k) \/ DecCheckSeq(k) \/ DecWoken(k)

DecNext ==
    \/ SenderStep
    \/ IntakeStep
    \/ WorkerStep
    \/ \E k \in Key : FrameStep(k) \/ DecTimeout(k)

DecFairness ==
    /\ WF_decVars(IntakeStep)
    /\ WF_decVars(WorkerStep)
    /\ \A k \in Key : WF_decVars(FrameStep(k))

DecSpec == DecInit /\ [][DecNext]_decVars /\ DecFairness

-----------------------------------------------------------------------------
(***************************************************************************)
(* Properties.                                                             *)
(***************************************************************************)

FramePlaces == {"none", "ring", "sent"} \cup InTask \cup Ended

\* Queues, mirror, map and places have their types; dec_pending keeps to its
\* bound.
DecTypeOK ==
    /\ kme \subseteq Key /\ unsent \in [Producer -> SUBSET Key]
    /\ wire \in Seq([kind : {"notify", "data"}, ids : SUBSET Key])
    /\ noting \in [pc : {"idle", "mirror", "wake"}, ids : SUBSET Key]
    /\ pending \subseteq Key /\ Cardinality(pending) <= DecPendingMax
    /\ announced \subseteq Key /\ request \in BOOLEAN
    /\ worker \in [pc : {"idle", "drain", "fetch", "unmirror", "failed", "insert",
                         "bump", "wake"}, ids : SUBSET Key, keys : SUBSET Key]
    /\ dec \subseteq Key
    /\ frame \in [Key -> FramePlaces]
    /\ waiting \subseteq Key /\ decMoved \subseteq Key

\* No wake-up is lost: a frame that sleeps with its key already in the DEC map
\* is about to be woken by the worker that inserted it (wait_dec reads the
\* sequence number, looks, registers, and reads the number again).
NoMissedWakeup ==
    \A k \in waiting \cap dec :
        frame[k] = "asleep" => worker.pc \in {"bump", "wake"} /\ k \in worker.keys

\* A key of the link opens one frame and lives in one place: the KME, the hands
\* of the worker, or the DEC map, and nowhere once its frame was opened
\* (lookup_dec consumes, the KME gives each key once).
OneCopy ==
    \A k \in Key :
        LET fetched == worker.pc \in {"unmirror", "insert"} /\ k \in worker.keys
        IN  /\ ~(k \in kme /\ fetched) /\ ~(k \in kme /\ k \in dec)
            /\ ~(fetched /\ k \in dec)
            /\ frame[k] = "opened" => k \notin kme \cup dec /\ ~fetched

\* An id waits in dec_pending only while somebody is bound to drain it: the
\* NOTIFY that queued it, the permit, or the worker in its loop.
PendingIsWatched ==
    pending # {} => noting.pc # "idle" \/ request \/ worker.pc # "idle"

\* Neither a key nor an id is left lying: no frame waits for ever, and needs its
\* time-out to get out of the wait, while its key is in the DEC map, and every
\* announced id is asked of the KME.
KeysServed ==
    \A k \in Key :
        /\ []<>~(k \in dec /\ frame[k] \in {"snap", "look", "enable", "check", "asleep"})
        /\ []<>(k \notin pending)

\* "Un id que el peer nunca anunció por NOTIFY no va a llegar: fallar ya"
\* (relay.rs): a frame refused while its id is unannounced is one whose key
\* never comes.
RefusedNeverArrives ==
    \A k \in Key :
        [](frame[k] = "refused" /\ (\E p \in Producer : k \in unsent[p])
              => [](k \notin dec))

-----------------------------------------------------------------------------
(***************************************************************************)
(* Proofs.  The receiving side of a link loses no wake-up and keeps one    *)
(* copy of a key, for any number of keys, producers and frames and any     *)
(* batch sizes.                                                            *)
(***************************************************************************)

Message == [kind : {"notify", "data"}, ids : SUBSET Key]
Worker == [pc : {"idle", "drain", "fetch", "unmirror", "failed", "insert",
                 "bump", "wake"}, ids : SUBSET Key, keys : SUBSET Key]

\* The keys the worker has obtained and not inserted yet.
Fetched == IF worker.pc \in {"unmirror", "insert"} THEN worker.keys ELSE {}

\* A key that was never minted is nowhere.
FreshNowhere ==
    \A k \in Key : frame[k] = "none" => k \notin kme \cup dec \cup Fetched

\* The insertion of k came after its frame looked, and the number the frame
\* compares has moved or is about to.
SeqTells ==
    \A k \in dec :
        frame[k] \in {"enable", "check"} =>
            k \in decMoved \/ (worker.pc = "bump" /\ k \in worker.keys)

-----------------------------------------------------------------------------
(***************************************************************************)
(* Types.                                                                  *)
(***************************************************************************)

\* A queue that takes a message or refuses it stays a queue of messages.
LEMMA SendType ==
    ASSUME DecTypeOK, NEW m \in Message, Send(m)
    PROVE  wire' \in Seq(Message)
<1>1. wire \in Seq(Message)
  BY DEF DecTypeOK, Message
<1> QED BY <1>1 DEF Send

\* What the reader takes off the wire is a message.
LEMMA HeadType ==
    ASSUME DecTypeOK, wire # <<>>
    PROVE  Head(wire) \in Message /\ Tail(wire) \in Seq(Message)
<1>1. wire \in Seq(Message)
  BY DEF DecTypeOK, Message
<1> QED BY <1>1

\* dec_pending is finite, and a NOTIFY cut to the room that is left keeps it
\* within its bound.
LEMMA RoomKept ==
    ASSUME DecTypeOK, NEW all \in SUBSET Key, NEW ids \in SUBSET all,
           LET room == DecPendingMax - Cardinality(pending)
               n == Cardinality(all)
           IN  Cardinality(ids) = IF n <= room THEN n ELSE room
    PROVE  Cardinality(pending \cup ids) <= DecPendingMax
<1>1. IsFiniteSet(pending) /\ IsFiniteSet(ids) /\ IsFiniteSet(all)
  BY FS_Subset, KeyAssumption DEF DecTypeOK
<1>2. IsFiniteSet(pending \cap ids)
  BY <1>1, FS_Subset
<1>3. /\ Cardinality(pending) \in Nat /\ Cardinality(ids) \in Nat
      /\ Cardinality(pending \cap ids) \in Nat /\ Cardinality(all) \in Nat
  BY <1>1, <1>2, FS_CardinalityType
<1>4. Cardinality(pending \cup ids) =
          Cardinality(pending) + Cardinality(ids) - Cardinality(pending \cap ids)
  BY <1>1, FS_Union
<1>5. Cardinality(ids) <= DecPendingMax - Cardinality(pending)
  BY <1>3, DecPendingMaxAssumption
<1> QED BY <1>3, <1>4, <1>5, DecPendingMaxAssumption

\* A drained queue is within its bound.
LEMMA DrainKept ==
    ASSUME DecTypeOK, NEW ids \in SUBSET pending
    PROVE  Cardinality(pending \ ids) <= DecPendingMax
<1>1. IsFiniteSet(pending)
  BY FS_Subset, KeyAssumption DEF DecTypeOK
<1>2. IsFiniteSet(pending \ ids) /\ Cardinality(pending \ ids) <= Cardinality(pending)
  BY <1>1, FS_Subset
<1> QED BY <1>1, <1>2, FS_CardinalityType, DecPendingMaxAssumption DEF DecTypeOK

\* The initial state is well typed.
LEMMA InitType == DecInit => DecTypeOK
<1> SUFFICES ASSUME DecInit PROVE DecTypeOK
  OBVIOUS
<1>1. request \in BOOLEAN
  BY Zenon DEF DecInit
<1>2. Cardinality(pending) <= DecPendingMax
  BY FS_EmptySet, DecPendingMaxAssumption DEF DecInit
<1> QED BY <1>1, <1>2 DEF DecInit, DecTypeOK, Quiet, Idle, FramePlaces

\* Every step of the sender keeps the types.
LEMMA SenderType == DecTypeOK /\ SenderStep => DecTypeOK'
<1> SUFFICES ASSUME DecTypeOK, SenderStep PROVE DecTypeOK'
  OBVIOUS
<1> USE DEF intake, tasks, FramePlaces
<1>1. ASSUME NEW p \in Producer, NEW keys \in SUBSET Key, AbsorbEncKeys(p, keys)
      PROVE  DecTypeOK'
  BY <1>1 DEF DecTypeOK, AbsorbEncKeys
<1>2. ASSUME NEW p \in Producer, SendNotify(p) PROVE DecTypeOK'
  <2>1. Notice(unsent[p]) \in Message
    BY DEF DecTypeOK, Notice, Message
  <2>2. wire' \in Seq(Message)
    BY <1>2, <2>1, SendType DEF SendNotify
  <2> QED BY <1>2, <2>2 DEF DecTypeOK, SendNotify, Message
<1>3. ASSUME NEW k \in Key, SendFrame(k) PROVE DecTypeOK'
  <2>1. wire' \in Seq(Message)
    BY <1>3, SendType DEF SendFrame, Data, Message
  <2>2. frame' \in [Key -> FramePlaces]
    BY <1>3 DEF DecTypeOK, SendFrame, Ended
  <2> QED BY <1>3, <2>1, <2>2 DEF DecTypeOK, SendFrame, Message
<1>4. CASE Lose
  <2>1. frame' \in [Key -> FramePlaces]
    BY <1>4 DEF DecTypeOK, Lose, Ended
  <2> QED BY <1>4, <2>1, HeadType DEF DecTypeOK, Lose, Message
<1> QED BY <1>1, <1>2, <1>3, <1>4 DEF SenderStep

\* Every step of the reader of the connection keeps the types.
LEMMA IntakeType == DecTypeOK /\ IntakeStep => DecTypeOK'
<1> SUFFICES ASSUME DecTypeOK, IntakeStep PROVE DecTypeOK'
  OBVIOUS
<1> USE DEF sender, intake, tasks
<1>1. CASE ReadNotify
  <2>1. wire' \in Seq(Message) /\ Head(wire).ids \in SUBSET Key
    BY <1>1, HeadType DEF ReadNotify, Message
  <2>2. /\ pending' \subseteq Key /\ Cardinality(pending') <= DecPendingMax
        /\ noting' \in [pc : {"idle", "mirror", "wake"}, ids : SUBSET Key]
    <3>1. PICK ids \in SUBSET Head(wire).ids :
             /\ LET room == DecPendingMax - Cardinality(pending)
                    n == Cardinality(Head(wire).ids)
                IN  Cardinality(ids) = IF n <= room THEN n ELSE room
             /\ pending' = pending \cup ids
             /\ noting' = [pc |-> "mirror", ids |-> ids]
      BY <1>1 DEF ReadNotify
    <3>2. Cardinality(pending \cup ids) <= DecPendingMax
      BY <2>1, <3>1, RoomKept
    <3> QED BY <2>1, <3>1, <3>2 DEF DecTypeOK
  <2> QED BY <1>1, <2>1, <2>2 DEF DecTypeOK, ReadNotify, Message
<1>2. CASE MirrorIds
  BY <1>2 DEF DecTypeOK, MirrorIds
<1>3. CASE WakeWorker
  <2>1. request' \in BOOLEAN
    BY <1>3, Zenon DEF WakeWorker
  <2> QED BY <1>3, <2>1 DEF DecTypeOK, WakeWorker, Quiet
<1>4. CASE ReadData
  <2>1. frame' \in [Key -> FramePlaces]
    BY <1>4 DEF DecTypeOK, ReadData, FramePlaces, InTask
  <2> QED BY <1>4, <2>1, HeadType DEF DecTypeOK, ReadData, Message
<1> QED BY <1>1, <1>2, <1>3, <1>4 DEF IntakeStep

\* Every step of dec_refill_loop keeps the types.
LEMMA WorkerType == DecTypeOK /\ WorkerStep => DecTypeOK'
<1> SUFFICES ASSUME DecTypeOK, WorkerStep PROVE DecTypeOK'
  OBVIOUS
<1> USE DEF sender, intake, tasks, WorkerGoto
<1>1. CASE WorkerNotified
  <2>1. request' \in BOOLEAN
    BY <1>1, Zenon DEF WorkerNotified
  <2> QED BY <1>1, <2>1 DEF DecTypeOK, WorkerNotified
<1>2. CASE Drain
  <2>1. CASE pending = {}
    <3>1. worker' = Idle /\ UNCHANGED <<pending, kme, sender, noting, announced>>
          /\ UNCHANGED <<request, dec, tasks>>
      BY <1>2, <2>1 DEF Drain
    <3> QED BY <3>1 DEF DecTypeOK, Idle
  <2>2. CASE pending # {}
    <3>1. PICK ids \in SUBSET pending :
             /\ pending' = pending \ ids
             /\ worker' = [pc |-> "fetch", ids |-> ids, keys |-> {}]
      BY <1>2, <2>2 DEF Drain
    <3>2. Cardinality(pending \ ids) <= DecPendingMax
      BY DrainKept
    <3> QED BY <1>2, <3>1, <3>2 DEF DecTypeOK, Drain
  <2> QED BY <2>1, <2>2
<1>3. CASE DecKeys
  <2>1. kme' \subseteq Key /\ worker' \in Worker
    BY <1>3 DEF DecTypeOK, DecKeys, Worker
  <2> QED BY <1>3, <2>1 DEF DecTypeOK, DecKeys, Worker
<1>4. CASE UnmirrorIds
  BY <1>4 DEF DecTypeOK, UnmirrorIds
<1>5. CASE InsertKeys
  BY <1>5 DEF DecTypeOK, InsertKeys
<1>6. CASE BumpSeq
  BY <1>6 DEF DecTypeOK, BumpSeq
<1>7. CASE NotifyWaiters
  BY <1>7 DEF DecTypeOK, NotifyWaiters
<1> QED BY <1>1, <1>2, <1>3, <1>4, <1>5, <1>6, <1>7 DEF WorkerStep

\* Every step of a frame's task keeps the types.
LEMMA TaskType ==
    ASSUME DecTypeOK, NEW k \in Key, FrameStep(k) \/ DecTimeout(k)
    PROVE  DecTypeOK'
<1> USE DEF sender, intake, tasks, FrameGoto
<1>1. frame' \in [Key -> FramePlaces]
  BY DEF DecTypeOK, FrameStep, DecTimeout, LookupDec, IsDecAnnounced, DecReadSeq, LookAgain,
         DecEnable, DecCheckSeq, DecWoken, Consume, FramePlaces, InTask, Ended
<1>2. dec' \subseteq Key /\ waiting' \subseteq Key /\ decMoved' \subseteq Key
  BY DEF DecTypeOK, FrameStep, DecTimeout, LookupDec, IsDecAnnounced, DecReadSeq, LookAgain,
         DecEnable, DecCheckSeq, DecWoken, Consume
<1>3. UNCHANGED <<kme, sender, intake, worker>>
  BY DEF FrameStep, DecTimeout, LookupDec, IsDecAnnounced, DecReadSeq, LookAgain,
         DecEnable, DecCheckSeq, DecWoken
<1> QED BY <1>1, <1>2, <1>3 DEF DecTypeOK

\* Every step keeps the types.
LEMMA NextType == DecTypeOK /\ [DecNext]_decVars => DecTypeOK'
<1> SUFFICES ASSUME DecTypeOK, [DecNext]_decVars PROVE DecTypeOK'
  OBVIOUS
<1>1. CASE UNCHANGED decVars
  BY <1>1 DEF decVars, sender, intake, tasks, DecTypeOK
<1> QED BY <1>1, SenderType, IntakeType, WorkerType, TaskType DEF DecNext

-----------------------------------------------------------------------------
(***************************************************************************)
(* One copy of a key.                                                      *)
(***************************************************************************)

CopyInv == OneCopy /\ FreshNowhere

\* Every step of the sender or of the reader keeps the copies apart: what a
\* producer puts into play was nowhere.
LEMMA OutsideCopy ==
    DecTypeOK /\ CopyInv /\ (SenderStep \/ IntakeStep) => CopyInv'
<1> SUFFICES ASSUME DecTypeOK, CopyInv, SenderStep \/ IntakeStep PROVE CopyInv'
  OBVIOUS
<1> USE DEF sender, intake, tasks, CopyInv, OneCopy, FreshNowhere, Fetched
<1>1. ASSUME NEW p \in Producer, NEW keys \in SUBSET Key, AbsorbEncKeys(p, keys)
      PROVE  CopyInv'
  BY <1>1 DEF DecTypeOK, AbsorbEncKeys
<1>2. ASSUME NEW p \in Producer, SendNotify(p) PROVE CopyInv'
  BY <1>2 DEF SendNotify
<1>3. ASSUME NEW k \in Key, SendFrame(k) PROVE CopyInv'
  BY <1>3 DEF DecTypeOK, SendFrame
<1>4. CASE Lose
  BY <1>4 DEF DecTypeOK, Lose
<1>5. CASE ReadNotify \/ MirrorIds \/ WakeWorker
  BY <1>5 DEF ReadNotify, MirrorIds, WakeWorker
<1>6. CASE ReadData
  BY <1>6 DEF DecTypeOK, ReadData
<1> QED BY <1>1, <1>2, <1>3, <1>4, <1>5, <1>6 DEF SenderStep, IntakeStep

\* Every step of dec_refill_loop moves a key from the KME to the worker and
\* from the worker to the map.
LEMMA WorkerCopy == DecTypeOK /\ CopyInv /\ WorkerStep => CopyInv'
<1> SUFFICES ASSUME DecTypeOK, CopyInv, WorkerStep PROVE CopyInv'
  OBVIOUS
<1> USE DEF sender, intake, tasks, CopyInv, OneCopy, FreshNowhere, Fetched, WorkerGoto
<1>1. CASE WorkerNotified
  BY <1>1 DEF WorkerNotified
<1>2. CASE Drain
  <2>1. worker'.pc \in {"idle", "fetch"} /\ UNCHANGED <<kme, dec, frame>>
    BY <1>2 DEF Drain, Idle
  <2> QED BY <2>1
<1>3. CASE DecKeys
  BY <1>3 DEF DecTypeOK, DecKeys
<1>4. CASE UnmirrorIds
  BY <1>4 DEF UnmirrorIds
<1>5. CASE InsertKeys
  BY <1>5 DEF InsertKeys
<1>6. CASE BumpSeq \/ NotifyWaiters
  BY <1>6 DEF BumpSeq, NotifyWaiters
<1> QED BY <1>1, <1>2, <1>3, <1>4, <1>5, <1>6 DEF WorkerStep

\* A task takes its key out of the map as it opens its frame.
LEMMA TaskCopy ==
    ASSUME DecTypeOK, CopyInv, NEW k \in Key, FrameStep(k) \/ DecTimeout(k)
    PROVE  CopyInv'
<1> USE DEF sender, intake, tasks, FrameGoto
<1>1. UNCHANGED <<kme, worker>>
  BY DEF FrameStep, DecTimeout, LookupDec, IsDecAnnounced, DecReadSeq, LookAgain,
         DecEnable, DecCheckSeq, DecWoken
<1>2. \/ Consume(k)
      \/ dec' = dec /\ \E pc \in FramePlaces \ {"none", "opened"} :
                          frame' = [frame EXCEPT ![k] = pc]
  BY DEF FrameStep, DecTimeout, LookupDec, IsDecAnnounced, DecReadSeq, LookAgain,
         DecEnable, DecCheckSeq, DecWoken, FramePlaces, InTask, Ended
<1>3. CASE Consume(k)
  BY <1>1, <1>3 DEF DecTypeOK, Consume, CopyInv, OneCopy, FreshNowhere, Fetched
<1>4. CASE dec' = dec /\ \E pc \in FramePlaces \ {"none", "opened"} :
                            frame' = [frame EXCEPT ![k] = pc]
  BY <1>1, <1>4 DEF DecTypeOK, CopyInv, OneCopy, FreshNowhere, Fetched
<1> QED BY <1>2, <1>3, <1>4

-----------------------------------------------------------------------------
(***************************************************************************)
(* No lost wake-up.                                                        *)
(***************************************************************************)

WakeInv == NoMissedWakeup /\ SeqTells

\* Nothing the sender or the reader does touches a frame that waits, except to
\* take it out of the wait.
LEMMA OutsideWake ==
    DecTypeOK /\ WakeInv /\ (SenderStep \/ IntakeStep) => WakeInv'
<1> SUFFICES ASSUME DecTypeOK, WakeInv, SenderStep \/ IntakeStep PROVE WakeInv'
  OBVIOUS
<1> USE DEF sender, intake, tasks, WakeInv, NoMissedWakeup, SeqTells
<1>1. UNCHANGED <<worker, dec, waiting, decMoved>>
  BY DEF SenderStep, IntakeStep, AbsorbEncKeys, SendNotify, SendFrame, Lose,
         ReadNotify, MirrorIds, WakeWorker, ReadData
<1>2. \A k \in Key : frame'[k] \in {"enable", "check", "asleep"} => frame'[k] = frame[k]
  BY DEF DecTypeOK, SenderStep, IntakeStep, AbsorbEncKeys, SendNotify, SendFrame, Lose,
         ReadNotify, MirrorIds, WakeWorker, ReadData
<1> QED BY <1>1, <1>2 DEF DecTypeOK

\* dec_refill_loop inserts, moves the number, and only then wakes: a frame that
\* missed the insertion meets one of the other two.
LEMMA WorkerWake == DecTypeOK /\ WakeInv /\ WorkerStep => WakeInv'
<1> SUFFICES ASSUME DecTypeOK, WakeInv, WorkerStep PROVE WakeInv'
  OBVIOUS
<1> USE DEF sender, intake, tasks, WakeInv, NoMissedWakeup, SeqTells, WorkerGoto
<1>1. CASE WorkerNotified \/ Drain \/ DecKeys \/ UnmirrorIds
  <2>1. UNCHANGED <<dec, frame, waiting, decMoved>>
        /\ worker.pc \notin {"bump", "wake"}
    BY <1>1 DEF WorkerNotified, Drain, DecKeys, UnmirrorIds
  <2> QED BY <2>1
<1>2. CASE InsertKeys
  BY <1>2 DEF InsertKeys
<1>3. CASE BumpSeq
  BY <1>3 DEF BumpSeq, DecTypeOK
<1>4. CASE NotifyWaiters
  BY <1>4 DEF NotifyWaiters
<1> QED BY <1>1, <1>2, <1>3, <1>4 DEF WorkerStep

\* A task that registered and saw the number stand still is registered before
\* the wake-up it needs.
LEMMA TaskWake ==
    ASSUME DecTypeOK, WakeInv, NEW k \in Key, FrameStep(k) \/ DecTimeout(k)
    PROVE  WakeInv'
<1> USE DEF sender, intake, tasks, WakeInv, NoMissedWakeup, SeqTells, FrameGoto
<1>1. CASE LookupDec(k)
  BY <1>1 DEF LookupDec, Consume, DecTypeOK
<1>2. CASE IsDecAnnounced(k)
  BY <1>2 DEF IsDecAnnounced, DecTypeOK
<1>3. CASE DecReadSeq(k)
  BY <1>3 DEF DecReadSeq, DecTypeOK
<1>4. CASE LookAgain(k)
  BY <1>4 DEF LookAgain, Consume, DecTypeOK
<1>5. CASE DecEnable(k)
  BY <1>5 DEF DecEnable, DecTypeOK
<1>6. CASE DecCheckSeq(k)
  BY <1>6 DEF DecCheckSeq, DecTypeOK
<1>7. CASE DecWoken(k) \/ DecTimeout(k)
  BY <1>7 DEF DecWoken, DecTimeout, DecTypeOK
<1> QED BY <1>1, <1>2, <1>3, <1>4, <1>5, <1>6, <1>7 DEF FrameStep

-----------------------------------------------------------------------------
(***************************************************************************)
(* The queue of announced ids is watched.                                  *)
(***************************************************************************)

\* Every step keeps somebody bound to drain dec_pending while it holds an id.
LEMMA NextWatched == DecTypeOK /\ PendingIsWatched /\ [DecNext]_decVars => PendingIsWatched'
<1> SUFFICES ASSUME DecTypeOK, PendingIsWatched, [DecNext]_decVars PROVE PendingIsWatched'
  OBVIOUS
<1> USE DEF sender, intake, tasks, PendingIsWatched, WorkerGoto
<1>1. CASE UNCHANGED decVars \/ SenderStep
  BY <1>1 DEF decVars, SenderStep, AbsorbEncKeys, SendNotify, SendFrame, Lose
<1>2. CASE IntakeStep
  BY <1>2 DEF IntakeStep, ReadNotify, MirrorIds, WakeWorker, ReadData
<1>3. CASE WorkerNotified \/ DecKeys \/ UnmirrorIds \/ InsertKeys \/ BumpSeq
           \/ NotifyWaiters
  <2>1. worker'.pc # "idle"
    BY <1>3 DEF WorkerNotified, DecKeys, UnmirrorIds, InsertKeys, BumpSeq, NotifyWaiters
  <2> QED BY <2>1
<1>4. CASE Drain
  <2>1. pending' = {} \/ worker'.pc = "fetch"
    BY <1>4 DEF Drain
  <2> QED BY <2>1
<1>5. ASSUME NEW k \in Key, FrameStep(k) \/ DecTimeout(k) PROVE PendingIsWatched'
  BY <1>5 DEF FrameStep, DecTimeout, LookupDec, IsDecAnnounced, DecReadSeq, LookAgain,
              DecEnable, DecCheckSeq, DecWoken
<1> QED BY <1>1, <1>2, <1>3, <1>4, <1>5 DEF DecNext, WorkerStep

-----------------------------------------------------------------------------
IInv == DecTypeOK /\ CopyInv /\ WakeInv /\ PendingIsWatched

\* The inductive invariant holds at first.
LEMMA InitInv == DecInit => IInv
BY InitType DEF DecInit, Idle, Quiet, IInv, CopyInv, OneCopy, FreshNowhere, Fetched,
                WakeInv, NoMissedWakeup, SeqTells, PendingIsWatched

\* The inductive invariant is kept by every step.
LEMMA NextInv == IInv /\ [DecNext]_decVars => IInv'
<1> SUFFICES ASSUME IInv, [DecNext]_decVars PROVE IInv'
  OBVIOUS
<1>1. DecTypeOK'
  BY NextType DEF IInv
<1>2. CopyInv'
  <2>1. CASE UNCHANGED decVars
    BY <2>1 DEF IInv, decVars, tasks, CopyInv, OneCopy, FreshNowhere, Fetched
  <2> QED BY <2>1, OutsideCopy, WorkerCopy, TaskCopy DEF IInv, DecNext
<1>3. WakeInv'
  <2>1. CASE UNCHANGED decVars
    BY <2>1 DEF IInv, decVars, tasks, WakeInv, NoMissedWakeup, SeqTells
  <2> QED BY <2>1, OutsideWake, WorkerWake, TaskWake DEF IInv, DecNext
<1>4. PendingIsWatched'
  BY NextWatched DEF IInv
<1> QED BY <1>1, <1>2, <1>3, <1>4 DEF IInv

\* The receiving side of the link is type correct: dec_pending keeps to
\* DEC_PENDING_MAX whatever the peer announces.
THEOREM TypeCorrect == DecSpec => []DecTypeOK
<1>1. IInv => DecTypeOK
  BY DEF IInv
<1> QED BY <1>1, InitInv, NextInv, PTL DEF DecSpec

\* wait_dec never sleeps through the insertion of its key: no order of the
\* worker's three steps and the task's four loses the wake-up.
THEOREM NoMissedWakeupCorrect == DecSpec => []NoMissedWakeup
<1>1. IInv => NoMissedWakeup
  BY DEF IInv, WakeInv
<1> QED BY <1>1, InitInv, NextInv, PTL DEF DecSpec

\* A one-time-pad key is in one place, and in none once it opened its frame.
THEOREM OneCopyCorrect == DecSpec => []OneCopy
<1>1. IInv => OneCopy
  BY DEF IInv, CopyInv
<1> QED BY <1>1, InitInv, NextInv, PTL DEF DecSpec

\* dec_pending is never left with ids and nobody to drain them.
THEOREM PendingIsWatchedCorrect == DecSpec => []PendingIsWatched
<1>1. IInv => PendingIsWatched
  BY DEF IInv
<1> QED BY <1>1, InitInv, NextInv, PTL DEF DecSpec

=============================================================================
