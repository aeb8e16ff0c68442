----------------------------- MODULE EncBuffer -----------------------------
(***************************************************************************)
(* The sending side of a QKC link (qkc/src/keystore.rs).                   *)
(*                                                                         *)
(* Two producers fill the ENC ring from the KME: enc_refill_loop, on       *)
(* demand, while the ring is low, and bank_from, when the KME is close to  *)
(* its ceiling and the ring has room to spare.  Tasks that have a frame to *)
(* send take keys in wait_enc_batch, and sleep on enc_inserted when there  *)
(* are not enough.  Keys are interchangeable here, so the ring is a count. *)
(*                                                                         *)
(* tokio's Notify is external: notify_one wakes the head of the queue of   *)
(* registered waiters, or leaves one permit if there is none; enable takes *)
(* the permit or registers; dropping a waiter that was woken in the queue  *)
(* passes its wake-up on, dropping one that took the permit does not.      *)
(* enc_inserted_seq is abstracted to whether it moved since a task read it.*)
(***************************************************************************)
EXTENDS Naturals, Sequences, Functions

CONSTANTS
    Waiter,         \* tasks in wait_enc_batch
    MaxNeed,        \* most keys a task asks for
    RingCapacity,   \* BUFFER_TARGET
    RefillThreshold,
    RefillBatch,
    BankRingHeadroom

ASSUME MaxNeedAssumption == MaxNeed \in Nat \ {0}
ASSUME RingAssumption ==
    /\ RingCapacity \in Nat /\ RefillThreshold \in Nat \ {0}
    /\ RefillBatch \in Nat \ {0} /\ BankRingHeadroom \in Nat
    /\ RefillBatch <= BankRingHeadroom
    /\ RefillThreshold + 2 * RefillBatch <= RingCapacity + 1

VARIABLES
    ring,       \* keys in the ENC ring
    low,        \* permit of enc_low
    refill,     \* enc_refill_loop: place and keys asked for or left to push
    bank,       \* bank_from: the same
    pc,         \* pc[w]: place of the task in wait_enc_batch
    need,       \* need[w]: keys it still needs
    queue,      \* tasks registered with enc_inserted, first come first
    ringPermit, \* permit of enc_inserted
    notified,   \* registered tasks that were woken
    granted,    \* tasks that took the permit
    moved,      \* tasks in the loop whose enc_inserted_seq moved since they read it
    dropped     \* history: a key met a full ring

producers == <<refill, bank>>
notify == <<queue, ringPermit, notified, granted>>
encVars == <<ring, low, producers, pc, need, notify, moved, dropped>>

Working(p) == p.pc \in {"push", "bump", "notify"}

EncInit ==
    /\ ring = 0 /\ low = TRUE
    /\ refill = [pc |-> "idle", n |-> 0]
    /\ bank = [pc |-> "idle", n |-> 0]
    /\ pc = [w \in Waiter |-> "idle"] /\ need = [w \in Waiter |-> 0]
    /\ queue = <<>> /\ ringPermit = FALSE /\ notified = {} /\ granted = {}
    /\ moved = {} /\ dropped = FALSE

-----------------------------------------------------------------------------
(***************************************************************************)
(* Notify.                                                                 *)
(***************************************************************************)

NotifyOne ==
    IF queue = <<>>
      THEN ringPermit' = TRUE /\ UNCHANGED <<queue, notified>>
      ELSE /\ notified' = notified \cup {Head(queue)}
           /\ queue' = Tail(queue)
           /\ UNCHANGED ringPermit

Unregister(w) ==
    \/ w \notin Range(queue) /\ UNCHANGED queue
    \/ \E i \in DOMAIN queue :
          /\ queue[i] = w
          /\ queue' = SubSeq(queue, 1, i - 1) \o SubSeq(queue, i + 1, Len(queue))

\* The future of w is dropped without having been waited for to its end.
DropNotified(w) ==
    /\ granted' = granted \ {w}
    /\ IF w \notin notified
         THEN Unregister(w) /\ UNCHANGED <<ringPermit, notified>>
         ELSE IF queue = <<>>
           THEN ringPermit' = TRUE /\ notified' = notified \ {w} /\ UNCHANGED queue
           ELSE /\ notified' = (notified \ {w}) \cup {Head(queue)}
                /\ queue' = Tail(queue)
                /\ UNCHANGED ringPermit

-----------------------------------------------------------------------------
(***************************************************************************)
(* The producers.                                                          *)
(***************************************************************************)

RefillWakes ==
    /\ refill.pc = "idle" /\ low
    /\ low' = FALSE
    /\ refill' = [pc |-> "check", n |-> 0]
    /\ UNCHANGED <<ring, bank, pc, need, notify, moved, dropped>>

\* clamp(space, 1, REFILL_BATCH)
RefillBatchSize ==
    LET space == RingCapacity - ring
    IN  IF space = 0 THEN 1 ELSE IF space <= RefillBatch THEN space ELSE RefillBatch

RefillCheck ==
    /\ refill.pc = "check"
    /\ refill' = IF ring < RefillThreshold
                   THEN [pc |-> "ask", n |-> RefillBatchSize]
                   ELSE [pc |-> "idle", n |-> 0]
    /\ UNCHANGED <<ring, low, bank, pc, need, notify, moved, dropped>>

\* The KME gives up to what was asked for, or fails and is asked again later.
RefillAnswer ==
    /\ refill.pc = "ask"
    /\ \/ \E n \in 0..refill.n : refill' = [pc |-> "push", n |-> n]
       \/ refill' = [pc |-> "check", n |-> 0]
    /\ UNCHANGED <<ring, low, bank, pc, need, notify, moved, dropped>>

\* Mutant: the banking takes the room of the refill.
BankRoomAll == RingCapacity - ring

\* bank_batch_size, with the stock of the KME over its high-water mark.
BankRoom == RingCapacity - ring - BankRingHeadroom

BankAsk ==
    /\ bank.pc = "idle"
    /\ \E n \in 1..RefillBatch : n <= BankRoom /\ bank' = [pc |-> "ask", n |-> n]
    /\ UNCHANGED <<ring, low, refill, pc, need, notify, moved, dropped>>

BankAnswer ==
    /\ bank.pc = "ask"
    /\ \/ \E n \in 0..bank.n : bank' = [pc |-> "push", n |-> n]
       \/ bank' = [pc |-> "idle", n |-> 0]
    /\ UNCHANGED <<ring, low, refill, pc, need, notify, moved, dropped>>

\* absorb_enc_keys: push one by one, move the number, wake one.
Push(p, next) ==
    /\ p.pc = "push"
    /\ IF p.n = 0
         THEN next = [pc |-> "bump", n |-> 0] /\ UNCHANGED <<ring, dropped>>
         ELSE /\ next = [pc |-> "push", n |-> p.n - 1]
              /\ IF ring < RingCapacity
                   THEN ring' = ring + 1 /\ UNCHANGED dropped
                   ELSE dropped' = TRUE /\ UNCHANGED ring
    /\ UNCHANGED <<low, pc, need, notify, moved>>

Bump(p, next) ==
    /\ p.pc = "bump"
    /\ next = [pc |-> "notify", n |-> 0]
    /\ moved' = {w \in Waiter : pc[w] \in {"take", "takeLow", "enable", "check"}}
    /\ UNCHANGED <<ring, low, pc, need, notify, dropped>>

\* Mutant: the producer inserts and wakes nobody.
WakeNot(p, next, after) ==
    /\ p.pc = "notify"
    /\ next = [pc |-> after, n |-> 0]
    /\ UNCHANGED <<ring, low, pc, need, notify, moved, dropped>>

Wake(p, next, after) ==
    /\ p.pc = "notify"
    /\ next = [pc |-> after, n |-> 0]
    /\ NotifyOne
    /\ UNCHANGED <<ring, low, pc, need, granted, moved, dropped>>

RefillAbsorb ==
    /\ Push(refill, refill') \/ Bump(refill, refill') \/ Wake(refill, refill', "check")
    /\ UNCHANGED bank

BankAbsorb ==
    /\ Push(bank, bank') \/ Bump(bank, bank') \/ Wake(bank, bank', "idle")
    /\ UNCHANGED refill

-----------------------------------------------------------------------------
(***************************************************************************)
(* wait_enc_batch.                                                         *)
(***************************************************************************)

Goto(w, place) == pc' = [pc EXCEPT ![w] = place]

Call(w, n) ==
    /\ pc[w] = "idle"
    /\ Goto(w, "first")
    /\ need' = [need EXCEPT ![w] = n]
    /\ UNCHANGED <<ring, low, producers, notify, moved, dropped>>

\* take_enc_batch, before the loop ("first") and inside it ("take"): pop until
\* served or empty, then tell the refill loop if the ring is low.
Pop(w) ==
    /\ pc[w] \in {"first", "take"}
    /\ IF need[w] > 0 /\ ring > 0
         THEN /\ ring' = ring - 1
              /\ need' = [need EXCEPT ![w] = need[w] - 1]
              /\ UNCHANGED pc
         ELSE /\ Goto(w, IF pc[w] = "first" THEN "firstLow" ELSE "takeLow")
              /\ UNCHANGED <<ring, need>>
    /\ UNCHANGED <<low, producers, notify, moved, dropped>>

\* Mutant: a task that takes keys does not tell the refill loop.
SignalLowNot(w) ==
    /\ pc[w] \in {"firstLow", "takeLow"}
    /\ Goto(w, IF need[w] = 0 THEN "served"
               ELSE IF pc[w] = "firstLow" THEN "seq" ELSE "enable")
    /\ moved' = IF need[w] = 0 THEN moved \ {w} ELSE moved
    /\ UNCHANGED <<ring, low, producers, need, notify, dropped>>

SignalLow(w) ==
    /\ pc[w] \in {"firstLow", "takeLow"}
    /\ low' = (low \/ ring < RefillThreshold)
    /\ Goto(w, IF need[w] = 0 THEN "served"
               ELSE IF pc[w] = "firstLow" THEN "seq" ELSE "enable")
    /\ moved' = IF need[w] = 0 THEN moved \ {w} ELSE moved
    /\ UNCHANGED <<ring, producers, need, notify, dropped>>

ReadSeq(w) ==
    /\ pc[w] = "seq"
    /\ moved' = moved \ {w}
    /\ Goto(w, "take")
    /\ UNCHANGED <<ring, low, producers, need, notify, dropped>>

Enable(w) ==
    /\ pc[w] = "enable"
    /\ IF ringPermit
         THEN ringPermit' = FALSE /\ granted' = granted \cup {w} /\ UNCHANGED queue
         ELSE queue' = Append(queue, w) /\ UNCHANGED <<ringPermit, granted>>
    /\ Goto(w, "check")
    /\ UNCHANGED <<ring, low, producers, need, notified, moved, dropped>>

CheckSeq(w) ==
    /\ pc[w] = "check"
    /\ IF w \in moved
         THEN Goto(w, "seq") /\ DropNotified(w) /\ UNCHANGED low
         ELSE Goto(w, "asleep") /\ low' = TRUE /\ UNCHANGED notify
    /\ moved' = moved \ {w}
    /\ UNCHANGED <<ring, producers, need, dropped>>

Woken(w) ==
    /\ pc[w] = "asleep" /\ w \in notified \cup granted
    /\ notified' = notified \ {w} /\ granted' = granted \ {w}
    /\ Goto(w, "seq")
    /\ UNCHANGED <<ring, low, producers, need, queue, ringPermit, moved, dropped>>

\* ENC_WAIT_TIMEOUT, at the deadline check of the loop or in its sleep.
Timeout(w) ==
    /\ pc[w] \in {"enable", "asleep"}
    /\ DropNotified(w)
    /\ Goto(w, "idle")
    /\ need' = [need EXCEPT ![w] = 0]
    /\ moved' = moved \ {w}
    /\ UNCHANGED <<ring, low, producers, dropped>>

\* Mutant: no cascade.
ServedSilent(w) ==
    /\ pc[w] = "served"
    /\ Goto(w, "idle")
    /\ UNCHANGED <<ring, low, producers, need, notify, moved, dropped>>

\* The cascade: one that is served wakes the next if keys are left.
Served(w) ==
    /\ pc[w] = "served"
    /\ IF ring > 0 THEN NotifyOne ELSE UNCHANGED <<queue, ringPermit, notified>>
    /\ Goto(w, "idle")
    /\ UNCHANGED <<ring, low, producers, need, granted, moved, dropped>>

-----------------------------------------------------------------------------
RefillStep == RefillWakes \/ RefillCheck \/ RefillAnswer \/ RefillAbsorb
BankStep == BankAsk \/ BankAnswer \/ BankAbsorb
TaskStep(w) ==
    \/ Pop(w) \/ SignalLow(w) \/ ReadSeq(w) \/ Enable(w) \/ CheckSeq(w)
    \/ Woken(w) \/ Served(w)

EncNext ==
    \/ RefillStep
    \/ BankStep
    \/ \E w \in Waiter :
          \/ \E n \in 1..MaxNeed : Call(w, n)
          \/ TaskStep(w)
          \/ Timeout(w)

EncSpec == EncInit /\ [][EncNext]_encVars

-----------------------------------------------------------------------------
(***************************************************************************)
(* Properties.                                                             *)
(***************************************************************************)

Places == {"idle", "first", "firstLow", "seq", "take", "takeLow", "enable",
           "check", "asleep", "served"}

\* Ring, producers, queue and tasks have their types; a task is registered once.
EncTypeOK ==
    /\ ring \in 0..RingCapacity /\ low \in BOOLEAN
    /\ refill \in [pc : {"idle", "check", "ask", "push", "bump", "notify"},
                   n : 0..RefillBatch]
    /\ bank \in [pc : {"idle", "ask", "push", "bump", "notify"}, n : 0..RefillBatch]
    /\ pc \in [Waiter -> Places] /\ need \in [Waiter -> 0..MaxNeed]
    /\ queue \in Seq(Waiter) /\ ringPermit \in BOOLEAN
    /\ notified \subseteq Waiter /\ granted \subseteq Waiter
    /\ moved \subseteq Waiter /\ dropped \in BOOLEAN

\* "Si el anillo está lleno (no debería) la clave se pierde" (keystore.rs): no
\* key obtained from the KME meets a full ring, though the two producers size
\* their batches against a ring that the other one is filling.
NeverDropped == ~dropped

\* No task sleeps beside keys: if the ring has keys and a task sleeps unwoken,
\* a producer has still to wake somebody, or a task that was woken or has yet
\* to take is under way and will serve itself and pass the wake-up on.
NoSleeperWithKeys ==
    (ring > 0 /\ \E w \in Range(queue) : pc[w] = "asleep") =>
        \/ Working(refill) \/ Working(bank)
        \/ notified # {}
        \/ \E w \in Waiter : pc[w] \in {"first", "seq", "take", "served"}
        \/ \E w \in Waiter : pc[w] \in {"firstLow", "takeLow"} /\ need[w] = 0

\* The ring is never low with nobody about to fill it: the refill loop is in
\* its round, or its permit is there, or a task that took keys is about to
\* leave it.
RefillIsAwake ==
    ring < RefillThreshold =>
        \/ low \/ refill.pc # "idle"
        \/ \E w \in Waiter : pc[w] \in {"first", "firstLow", "take", "takeLow"}

\* No task sleeps beside keys for ever: it is woken, or the keys go to others,
\* without the help of its time-out.
SleeperIsServed == \A w \in Waiter : []<>~(pc[w] = "asleep" /\ ring > 0)

=============================================================================
