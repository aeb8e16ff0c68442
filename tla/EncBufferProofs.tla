-------------------------- MODULE EncBufferProofs --------------------------
(***************************************************************************)
(* The ENC ring never overflows, is never left low unattended, and no task *)
(* sleeps beside keys, for any number of tasks and any sizes that leave    *)
(* the refill its room.                                                    *)
(***************************************************************************)
EXTENDS EncBuffer, TLAPS

RefillState == [pc : {"idle", "check", "ask", "push", "bump", "notify"},
                n : 0..RefillBatch]
BankState == [pc : {"idle", "ask", "push", "bump", "notify"}, n : 0..RefillBatch]

\* Keys a producer asked for and has not pushed yet.
Coming(p) == IF p.pc \in {"ask", "push"} THEN p.n ELSE 0

\* The ring has room for all that is coming.
RoomInv == ring + Coming(refill) + Coming(bank) <= RingCapacity

\* A task that found the ring empty and is on its way to sleep: keys that came
\* since have moved the number it will compare, or are about to.
SeqTells ==
    \A w \in Waiter :
        (pc[w] \in {"enable", "check"} \/ (pc[w] = "takeLow" /\ need[w] > 0)) =>
            \/ ring = 0 \/ w \in moved
            \/ refill.pc \in {"push", "bump"} \/ bank.pc \in {"push", "bump"}

IInv == EncTypeOK /\ RoomInv /\ NeverDropped /\ RefillIsAwake /\ SeqTells
        /\ NoSleeperWithKeys

-----------------------------------------------------------------------------
(***************************************************************************)
(* Types.                                                                  *)
(***************************************************************************)

\* A wake-up keeps the types of the queue and of the ringPermit.
LEMMA NotifyType ==
    ASSUME EncTypeOK, NotifyOne
    PROVE  /\ queue' \in Seq(Waiter) /\ ringPermit' \in BOOLEAN
           /\ notified' \subseteq Waiter
<1>1. CASE queue = <<>>
  <2>1. ringPermit' = TRUE /\ UNCHANGED <<queue, notified>>
    BY <1>1 DEF NotifyOne
  <2>2. ringPermit' \in BOOLEAN
    BY <2>1, Zenon
  <2> QED BY <2>1, <2>2 DEF EncTypeOK
<1>2. CASE queue # <<>>
  <2>1. queue \in Seq(Waiter) /\ notified \subseteq Waiter /\ ringPermit \in BOOLEAN
    BY DEF EncTypeOK
  <2>2. Head(queue) \in Waiter /\ Tail(queue) \in Seq(Waiter)
    BY <1>2, <2>1
  <2>3. /\ notified' = notified \cup {Head(queue)} /\ queue' = Tail(queue)
        /\ ringPermit' = ringPermit
    BY <1>2 DEF NotifyOne
  <2> QED BY <2>1, <2>2, <2>3
<1> QED BY <1>1, <1>2

\* So does a dropped future, whether it passes a wake-up on or leaves the queue.
LEMMA DropType ==
    ASSUME EncTypeOK, NEW w \in Waiter, DropNotified(w)
    PROVE  /\ queue' \in Seq(Waiter) /\ ringPermit' \in BOOLEAN
           /\ notified' \subseteq Waiter /\ granted' \subseteq Waiter
<1>0. granted' \subseteq Waiter
  BY DEF EncTypeOK, DropNotified
<1>1. CASE w \notin notified
  <2>1. UNCHANGED <<ringPermit, notified>> /\ Unregister(w)
    BY <1>1 DEF DropNotified
  <2>2. queue' \in Seq(Waiter)
    <3>1. queue \in Seq(Waiter)
      BY DEF EncTypeOK
    <3>2. ASSUME NEW i \in DOMAIN queue
          PROVE  SubSeq(queue, 1, i - 1) \o SubSeq(queue, i + 1, Len(queue))
                     \in Seq(Waiter)
      <4>1. i \in 1..Len(queue) /\ Len(queue) \in Nat
        BY <3>1
      <4>2. /\ SubSeq(queue, 1, i - 1) \in Seq(Waiter)
            /\ SubSeq(queue, i + 1, Len(queue)) \in Seq(Waiter)
        BY <3>1, <4>1
      <4> QED BY <4>2
    <3> QED BY <2>1, <3>1, <3>2 DEF Unregister
  <2> QED BY <1>0, <2>1, <2>2 DEF EncTypeOK
<1>2. CASE w \in notified /\ queue = <<>>
  <2>1. ringPermit' = TRUE /\ notified' = notified \ {w} /\ queue' = queue
    BY <1>2 DEF DropNotified
  <2>2. ringPermit' \in BOOLEAN
    BY <2>1, Zenon
  <2> QED BY <1>0, <2>1, <2>2 DEF EncTypeOK
<1>3. CASE w \in notified /\ queue # <<>>
  <2>1. queue \in Seq(Waiter) /\ notified \subseteq Waiter /\ ringPermit \in BOOLEAN
    BY DEF EncTypeOK
  <2>2. Head(queue) \in Waiter /\ Tail(queue) \in Seq(Waiter)
    BY <1>3, <2>1
  <2>3. /\ notified' = (notified \ {w}) \cup {Head(queue)} /\ queue' = Tail(queue)
        /\ ringPermit' = ringPermit
    BY <1>3 DEF DropNotified
  <2> QED BY <1>0, <2>1, <2>2, <2>3
<1> QED BY <1>1, <1>2, <1>3

\* The initial state is well typed.
LEMMA InitType == EncInit => EncTypeOK
<1> SUFFICES ASSUME EncInit PROVE EncTypeOK
  OBVIOUS
<1>1. low \in BOOLEAN /\ ringPermit \in BOOLEAN /\ dropped \in BOOLEAN
  BY Zenon DEF EncInit
<1>2. /\ ring = 0 /\ queue = <<>> /\ notified = {} /\ granted = {} /\ moved = {}
      /\ refill = [pc |-> "idle", n |-> 0] /\ bank = [pc |-> "idle", n |-> 0]
      /\ pc = [w \in Waiter |-> "idle"] /\ need = [w \in Waiter |-> 0]
  BY Zenon DEF EncInit
<1> QED BY <1>1, <1>2, RingAssumption, MaxNeedAssumption DEF EncTypeOK, Places

\* The steps that a producer takes to absorb a batch keep the types.
LEMMA PushType ==
    ASSUME EncTypeOK, NEW p, NEW next, NEW K, p \in [pc : K, n : 0..RefillBatch],
           {"push", "bump", "notify"} \subseteq K, Push(p, next)
    PROVE  /\ next \in [pc : K, n : 0..RefillBatch]
           /\ ring' \in 0..RingCapacity /\ dropped' \in BOOLEAN
<1> USE RingAssumption
<1>1. CASE p.n = 0
  BY <1>1 DEF EncTypeOK, Push
<1>2. CASE p.n # 0 /\ ring < RingCapacity
  BY <1>2 DEF EncTypeOK, Push
<1>3. CASE p.n # 0 /\ ~(ring < RingCapacity)
  <2>1. dropped' = TRUE /\ ring' = ring /\ next = [pc |-> "push", n |-> p.n - 1]
    BY <1>3 DEF Push
  <2>2. dropped' \in BOOLEAN
    BY <2>1, Zenon
  <2> QED BY <1>3, <2>1, <2>2 DEF EncTypeOK
<1> QED BY <1>1, <1>2, <1>3

\* Every step of the refill loop keeps the types.
LEMMA RefillType == EncTypeOK /\ RefillStep => EncTypeOK'
<1> SUFFICES ASSUME EncTypeOK, RefillStep PROVE EncTypeOK'
  OBVIOUS
<1> USE RingAssumption DEF producers, notify
<1>1. CASE RefillWakes
  <2>1. low' \in BOOLEAN
    BY <1>1, Zenon DEF RefillWakes
  <2> QED BY <1>1, <2>1 DEF EncTypeOK, RefillWakes
<1>2. CASE RefillCheck
  <2>1. RefillBatchSize \in 0..RefillBatch
    BY DEF EncTypeOK, RefillBatchSize
  <2>2. refill' \in RefillState
    BY <1>2, <2>1 DEF RefillCheck, RefillState
  <2> QED BY <1>2, <2>2 DEF EncTypeOK, RefillCheck, RefillState
<1>3. CASE RefillAnswer
  <2>1. refill' \in RefillState
    BY <1>3 DEF RefillAnswer, RefillState, EncTypeOK
  <2> QED BY <1>3, <2>1 DEF EncTypeOK, RefillAnswer, RefillState
<1>4. CASE Push(refill, refill') /\ UNCHANGED bank
  <2>1. /\ refill' \in RefillState
        /\ ring' \in 0..RingCapacity /\ dropped' \in BOOLEAN
    BY <1>4, PushType DEF RefillState, EncTypeOK
  <2> QED BY <1>4, <2>1 DEF EncTypeOK, Push, RefillState
<1>5. CASE Bump(refill, refill') /\ UNCHANGED bank
  BY <1>5 DEF EncTypeOK, Bump
<1>6. CASE Wake(refill, refill', "check") /\ UNCHANGED bank
  <2>1. refill' \in RefillState
    BY <1>6 DEF Wake, RefillState
  <2> QED BY <1>6, <2>1, NotifyType DEF EncTypeOK, Wake, RefillState
<1> QED BY <1>1, <1>2, <1>3, <1>4, <1>5, <1>6 DEF RefillStep, RefillAbsorb

\* Every step of the banking keeps the types.
LEMMA BankType == EncTypeOK /\ BankStep => EncTypeOK'
<1> SUFFICES ASSUME EncTypeOK, BankStep PROVE EncTypeOK'
  OBVIOUS
<1> USE RingAssumption DEF producers, notify
<1>1. CASE BankAsk
  <2>1. bank' \in BankState
    BY <1>1 DEF BankAsk, BankState
  <2> QED BY <1>1, <2>1 DEF EncTypeOK, BankAsk, BankState
<1>2. CASE BankAnswer
  <2>1. bank' \in BankState
    BY <1>2 DEF BankAnswer, BankState, EncTypeOK
  <2> QED BY <1>2, <2>1 DEF EncTypeOK, BankAnswer, BankState
<1>3. CASE Push(bank, bank') /\ UNCHANGED refill
  <2>1. /\ bank' \in BankState
        /\ ring' \in 0..RingCapacity /\ dropped' \in BOOLEAN
    BY <1>3, PushType DEF BankState, EncTypeOK
  <2> QED BY <1>3, <2>1 DEF EncTypeOK, Push, BankState
<1>4. CASE Bump(bank, bank') /\ UNCHANGED refill
  BY <1>4 DEF EncTypeOK, Bump
<1>5. CASE Wake(bank, bank', "idle") /\ UNCHANGED refill
  <2>1. bank' \in BankState
    BY <1>5 DEF Wake, BankState
  <2> QED BY <1>5, <2>1, NotifyType DEF EncTypeOK, Wake, BankState
<1> QED BY <1>1, <1>2, <1>3, <1>4, <1>5 DEF BankStep, BankAbsorb

\* Every step of a task keeps the types.
LEMMA TaskType ==
    ASSUME EncTypeOK, NEW w \in Waiter,
           (\E n \in 1..MaxNeed : Call(w, n)) \/ TaskStep(w) \/ Timeout(w)
    PROVE  EncTypeOK'
<1> USE DEF producers, notify, Goto, Places
<1>1. ASSUME NEW n \in 1..MaxNeed, Call(w, n) PROVE EncTypeOK'
  BY <1>1, MaxNeedAssumption DEF EncTypeOK, Call
<1>2. CASE Pop(w)
  <2>1. ring' \in 0..RingCapacity
    BY <1>2, RingAssumption DEF EncTypeOK, Pop
  <2>2. need' \in [Waiter -> 0..MaxNeed]
    BY <1>2, MaxNeedAssumption DEF EncTypeOK, Pop
  <2>3. pc' \in [Waiter -> Places]
    BY <1>2 DEF EncTypeOK, Pop
  <2> QED BY <1>2, <2>1, <2>2, <2>3 DEF EncTypeOK, Pop
<1>3. CASE SignalLow(w)
  <2>1. low' \in BOOLEAN
    BY <1>3, Zenon DEF SignalLow
  <2> QED BY <1>3, <2>1 DEF EncTypeOK, SignalLow
<1>4. CASE ReadSeq(w)
  BY <1>4 DEF EncTypeOK, ReadSeq
<1>5. CASE Enable(w)
  <2>1. CASE ringPermit
    <3>1. ringPermit' = FALSE /\ granted' = granted \cup {w} /\ queue' = queue
      BY <1>5, <2>1 DEF Enable
    <3>2. ringPermit' \in BOOLEAN
      BY <3>1, Zenon
    <3> QED BY <1>5, <3>1, <3>2 DEF EncTypeOK, Enable
  <2>2. CASE ~ringPermit
    <3>1. queue' = Append(queue, w) /\ UNCHANGED <<ringPermit, granted>>
      BY <1>5, <2>2 DEF Enable
    <3>2. queue' \in Seq(Waiter)
      BY <3>1 DEF EncTypeOK
    <3> QED BY <1>5, <3>1, <3>2 DEF EncTypeOK, Enable
  <2> QED BY <2>1, <2>2
<1>6. CASE CheckSeq(w)
  <2>1. CASE w \in moved
    BY SMTT(30), <1>6, <2>1, DropType DEF EncTypeOK, CheckSeq
  <2>2. CASE w \notin moved
    <3>1. low' \in BOOLEAN
      BY <1>6, <2>2, Zenon DEF CheckSeq
    <3> QED BY <1>6, <2>2, <3>1 DEF EncTypeOK, CheckSeq
  <2> QED BY <2>1, <2>2
<1>7. CASE Woken(w)
  BY <1>7 DEF EncTypeOK, Woken
<1>8. CASE Timeout(w)
  <2>1. pc' \in [Waiter -> Places] /\ need' \in [Waiter -> 0..MaxNeed]
    BY <1>8, MaxNeedAssumption DEF EncTypeOK, Timeout
  <2> QED BY <1>8, <2>1, DropType DEF EncTypeOK, Timeout
<1>9. CASE Served(w)
  <2>1. CASE ring > 0
    BY <1>9, <2>1, NotifyType DEF EncTypeOK, Served
  <2>2. CASE ~(ring > 0)
    BY <1>9, <2>2 DEF EncTypeOK, Served
  <2> QED BY <2>1, <2>2
<1> QED BY <1>1, <1>2, <1>3, <1>4, <1>5, <1>6, <1>7, <1>8, <1>9 DEF TaskStep

\* Every step keeps the types.
LEMMA NextType == EncTypeOK /\ [EncNext]_encVars => EncTypeOK'
<1> SUFFICES ASSUME EncTypeOK, [EncNext]_encVars PROVE EncTypeOK'
  OBVIOUS
<1>1. CASE UNCHANGED encVars
  BY <1>1 DEF encVars, producers, notify, EncTypeOK
<1> QED BY <1>1, RefillType, BankType, TaskType DEF EncNext

-----------------------------------------------------------------------------
(***************************************************************************)
(* The ring never overflows.                                               *)
(***************************************************************************)

\* A producer that absorbs what it asked for stays within the room.
LEMMA PushRoom ==
    ASSUME EncTypeOK, NeverDropped, NEW p, NEW next, NEW K, NEW other \in Nat,
           p \in [pc : K, n : 0..RefillBatch],
           ring + Coming(p) + other <= RingCapacity, Push(p, next)
    PROVE  ring' + Coming(next) + other <= RingCapacity /\ NeverDropped'
<1> USE RingAssumption
<1>1. p.n \in 0..RefillBatch /\ ring \in 0..RingCapacity /\ p.pc = "push"
  BY DEF EncTypeOK, Push
<1>2. CASE p.n = 0
  BY <1>1, <1>2 DEF Push, Coming, NeverDropped
<1>3. CASE p.n # 0
  <2>1. ring < RingCapacity
    BY <1>1, <1>3 DEF Coming
  <2>2. ring' = ring + 1 /\ dropped' = dropped /\ next = [pc |-> "push", n |-> p.n - 1]
    BY <1>3, <2>1 DEF Push
  <2>3. Coming(next) = p.n - 1 /\ Coming(p) = p.n
    BY <1>1, <2>2 DEF Coming
  <2> QED BY <1>1, <2>2, <2>3 DEF NeverDropped
<1> QED BY <1>2, <1>3

RingInv == RoomInv /\ NeverDropped

\* What is coming is at most a batch.
LEMMA ComingType ==
    ASSUME EncTypeOK
    PROVE  Coming(refill) \in 0..RefillBatch /\ Coming(bank) \in 0..RefillBatch
BY RingAssumption DEF EncTypeOK, Coming

\* Every step leaves room for what is coming: the refill asks on a low ring,
\* the banking leaves the headroom.
LEMMA NextRing == EncTypeOK /\ RingInv /\ [EncNext]_encVars => RingInv'
<1> SUFFICES ASSUME EncTypeOK, RingInv, [EncNext]_encVars PROVE RingInv'
  OBVIOUS
<1> USE RingAssumption DEF producers, notify
<1>0. ring \in 0..RingCapacity
  BY DEF EncTypeOK
<1>1. CASE UNCHANGED encVars
  BY <1>1 DEF encVars, RingInv, RoomInv, NeverDropped, Coming
<1>2. CASE RefillWakes
  BY <1>0, <1>2 DEF RefillWakes, RingInv, RoomInv, NeverDropped, Coming
<1>3. CASE RefillCheck
  <2>1. RefillBatchSize \in 0..RefillBatch
    BY <1>0 DEF RefillBatchSize
  <2>2. UNCHANGED <<ring, bank, dropped>> /\ Coming(refill) = 0
    BY <1>3 DEF RefillCheck, Coming
  <2>3. CASE ring < RefillThreshold
    <3>1. Coming(refill)' \in 0..RefillBatch
      BY <1>3, <2>1, <2>3 DEF RefillCheck, Coming
    <3>2. Coming(bank)' = Coming(bank)
      BY <2>2 DEF Coming
    <3> QED BY <1>0, <2>2, <2>3, <3>1, <3>2, ComingType
            DEF RingInv, RoomInv, NeverDropped
  <2>4. CASE ~(ring < RefillThreshold)
    BY <1>3, <2>2, <2>4 DEF RefillCheck, RingInv, RoomInv, NeverDropped, Coming
  <2> QED BY <2>3, <2>4
<1>4. CASE RefillAnswer
  <2>1. Coming(refill)' \in 0..Coming(refill)
    BY <1>4 DEF RefillAnswer, Coming, EncTypeOK
  <2>2. Coming(bank)' = Coming(bank) /\ UNCHANGED <<ring, dropped>>
    BY <1>4 DEF RefillAnswer, Coming
  <2> QED BY <1>0, <2>1, <2>2, ComingType DEF RingInv, RoomInv, NeverDropped
<1>5. CASE Push(refill, refill') /\ UNCHANGED bank
  <2>1. Coming(bank) \in Nat /\ Coming(bank)' = Coming(bank)
    BY <1>5, ComingType DEF Coming
  <2>2. ring + Coming(refill) + Coming(bank) <= RingCapacity
    BY DEF RingInv, RoomInv
  <2>3. refill \in RefillState
    BY DEF EncTypeOK, RefillState
  <2>4. /\ ring' + Coming(refill') + Coming(bank) <= RingCapacity
        /\ NeverDropped'
    BY <1>5, <2>1, <2>2, <2>3, PushRoom DEF RingInv, RefillState
  <2> QED BY <2>1, <2>4 DEF RingInv, RoomInv
<1>6. CASE Push(bank, bank') /\ UNCHANGED refill
  <2>1. Coming(refill) \in Nat /\ Coming(refill)' = Coming(refill)
    BY <1>6, ComingType DEF Coming
  <2>2. ring + Coming(bank) + Coming(refill) <= RingCapacity
    BY <1>0, ComingType DEF RingInv, RoomInv
  <2>3. bank \in BankState
    BY DEF EncTypeOK, BankState
  <2>4. /\ ring' + Coming(bank') + Coming(refill) <= RingCapacity
        /\ NeverDropped'
    BY <1>6, <2>1, <2>2, <2>3, PushRoom DEF RingInv, BankState
  <2>5. EncTypeOK'
    BY NextType
  <2>6. ring' \in Nat /\ Coming(bank') \in Nat
    BY <2>5, ComingType DEF EncTypeOK, Coming
  <2> QED BY <2>1, <2>4, <2>6 DEF RingInv, RoomInv
<1>7. CASE \/ (Bump(refill, refill') \/ Wake(refill, refill', "check")) /\ UNCHANGED bank
           \/ (Bump(bank, bank') \/ Wake(bank, bank', "idle")) /\ UNCHANGED refill
  <2>1. /\ Coming(refill)' = Coming(refill) /\ Coming(bank)' = Coming(bank)
        /\ UNCHANGED <<ring, dropped>>
    BY <1>7 DEF Bump, Wake, Coming
  <2> QED BY <2>1 DEF RingInv, RoomInv, NeverDropped
<1>8. CASE BankAsk
  <2>1. Coming(bank)' \in Nat /\ Coming(bank)' <= RingCapacity - ring - BankRingHeadroom
    BY <1>0, <1>8 DEF BankAsk, BankRoom, Coming
  <2>2. Coming(refill)' = Coming(refill) /\ UNCHANGED <<ring, dropped>>
    BY <1>8 DEF BankAsk, Coming
  <2> QED BY <1>0, <2>1, <2>2, ComingType DEF RingInv, RoomInv, NeverDropped
<1>9. CASE BankAnswer
  <2>1. Coming(bank)' \in 0..Coming(bank)
    BY <1>9 DEF BankAnswer, Coming, EncTypeOK
  <2>2. Coming(refill)' = Coming(refill) /\ UNCHANGED <<ring, dropped>>
    BY <1>9 DEF BankAnswer, Coming
  <2> QED BY <1>0, <2>1, <2>2, ComingType DEF RingInv, RoomInv, NeverDropped
<1>10. ASSUME NEW w \in Waiter,
              (\E n \in 1..MaxNeed : Call(w, n)) \/ TaskStep(w) \/ Timeout(w)
       PROVE  RingInv'
  <2>1. UNCHANGED <<refill, bank, dropped>> /\ ring' \in {ring, ring - 1}
    BY <1>10 DEF Call, TaskStep, Timeout, Pop, SignalLow, ReadSeq, Enable, CheckSeq,
                 Woken, Served
  <2>2. Coming(refill)' = Coming(refill) /\ Coming(bank)' = Coming(bank)
    BY <2>1 DEF Coming
  <2> QED BY <1>0, <2>1, <2>2, ComingType DEF RingInv, RoomInv, NeverDropped
<1> QED BY <1>1, <1>2, <1>3, <1>4, <1>5, <1>6, <1>7, <1>8, <1>9, <1>10
        DEF EncNext, RefillStep, RefillAbsorb, BankStep, BankAbsorb

-----------------------------------------------------------------------------
(***************************************************************************)
(* The refill loop is awake while the ring is low.                         *)
(***************************************************************************)

\* Every step keeps somebody bound to fill a low ring.
LEMMA NextAwake == EncTypeOK /\ RefillIsAwake /\ [EncNext]_encVars => RefillIsAwake'
<1> SUFFICES ASSUME EncTypeOK, RefillIsAwake, [EncNext]_encVars PROVE RefillIsAwake'
  OBVIOUS
<1> USE RingAssumption DEF producers, notify
<1>0. ring \in Nat /\ pc \in [Waiter -> Places]
  BY DEF EncTypeOK
<1>1. CASE UNCHANGED encVars
  BY <1>1 DEF encVars, RefillIsAwake
<1>2. CASE RefillWakes \/ RefillAnswer
  <2>1. refill'.pc # "idle"
    BY <1>2 DEF RefillWakes, RefillAnswer
  <2> QED BY <2>1 DEF RefillIsAwake
<1>3. CASE RefillCheck
  BY <1>3 DEF RefillCheck, RefillIsAwake
<1>4. CASE RefillAbsorb
  <2>1. refill'.pc # "idle"
    BY <1>4 DEF RefillAbsorb, Push, Bump, Wake
  <2> QED BY <2>1 DEF RefillIsAwake
<1>5. CASE BankStep
  <2>1. UNCHANGED <<low, refill, pc>> /\ ring' \in {ring, ring + 1}
    BY <1>5 DEF BankStep, BankAsk, BankAnswer, BankAbsorb, Push, Bump, Wake
  <2> QED BY <1>0, <2>1 DEF RefillIsAwake
<1>6. ASSUME NEW w \in Waiter, NEW n \in 1..MaxNeed, Call(w, n) PROVE RefillIsAwake'
  BY <1>0, <1>6 DEF Call, Goto, RefillIsAwake
<1>7. ASSUME NEW w \in Waiter, Pop(w) PROVE RefillIsAwake'
  <2>1. pc'[w] \in {"first", "firstLow", "take", "takeLow"}
    BY <1>0, <1>7 DEF Pop, Goto
  <2> QED BY <2>1 DEF RefillIsAwake
<1>8. ASSUME NEW w \in Waiter, SignalLow(w) PROVE RefillIsAwake'
  <2>1. ring' = ring /\ (ring < RefillThreshold => low')
    BY <1>8, Zenon DEF SignalLow
  <2> QED BY <2>1 DEF RefillIsAwake
<1>9. ASSUME NEW w \in Waiter,
             ReadSeq(w) \/ Enable(w) \/ CheckSeq(w) \/ Woken(w) \/ Served(w) \/ Timeout(w)
      PROVE  RefillIsAwake'
  <2>1. /\ ring' = ring /\ refill' = refill /\ (low => low')
        /\ pc[w] \notin {"first", "firstLow", "take", "takeLow"}
        /\ \E place : pc' = [pc EXCEPT ![w] = place]
    BY <1>9 DEF ReadSeq, Enable, CheckSeq, Woken, Served, Timeout, Goto
  <2> QED BY <1>0, <2>1 DEF RefillIsAwake
<1> QED BY <1>1, <1>2, <1>3, <1>4, <1>5, <1>6, <1>7, <1>8, <1>9
        DEF EncNext, RefillStep, TaskStep

-----------------------------------------------------------------------------
(***************************************************************************)
(* No task sleeps beside keys.                                             *)
(***************************************************************************)

\* A task on its way to sleep.
Leaving(w) == pc[w] \in {"enable", "check"} \/ (pc[w] = "takeLow" /\ need[w] > 0)

\* A producer that has yet to move the number.
PreBump == refill.pc \in {"push", "bump"} \/ bank.pc \in {"push", "bump"}

\* Every step keeps the promise of the sequence number.
LEMMA NextSeqTells == EncTypeOK /\ SeqTells /\ [EncNext]_encVars => SeqTells'
<1> SUFFICES ASSUME EncTypeOK, SeqTells, [EncNext]_encVars,
                    NEW v \in Waiter, Leaving(v)'
             PROVE  (ring = 0 \/ v \in moved \/ PreBump)'
  BY DEF SeqTells, Leaving, PreBump
<1> USE DEF producers, notify
<1>0. ring \in Nat /\ pc \in [Waiter -> Places] /\ need \in [Waiter -> 0..MaxNeed]
  BY RingAssumption DEF EncTypeOK
<1>a. Leaving(v) => ring = 0 \/ v \in moved \/ PreBump
  BY DEF SeqTells, Leaving, PreBump
<1>1. CASE UNCHANGED encVars
  BY <1>1, <1>a DEF encVars, Leaving, PreBump
<1>2. CASE RefillWakes \/ RefillCheck \/ RefillAnswer \/ BankAsk \/ BankAnswer
  <2>1. UNCHANGED <<ring, moved, pc, need>> /\ (PreBump => PreBump')
    BY <1>2 DEF RefillWakes, RefillCheck, RefillAnswer, BankAsk, BankAnswer, PreBump
  <2> QED BY <2>1, <1>a DEF Leaving
<1>3. CASE RefillAbsorb \/ BankAbsorb
  <2>1. CASE Push(refill, refill') \/ Push(bank, bank')
    <3>1. PreBump'
      BY <2>1 DEF Push, PreBump
    <3> QED BY <3>1
  <2>2. CASE Bump(refill, refill') \/ Bump(bank, bank')
    <3>1. UNCHANGED <<pc, need>>
          /\ moved' = {w \in Waiter : pc[w] \in {"take", "takeLow", "enable", "check"}}
      BY <2>2 DEF Bump
    <3>2. pc[v] \in {"take", "takeLow", "enable", "check"}
      BY <3>1 DEF Leaving
    <3> QED BY <3>1, <3>2
  <2>3. CASE \/ Wake(refill, refill', "check") /\ UNCHANGED bank
             \/ Wake(bank, bank', "idle") /\ UNCHANGED refill
    <3>1. UNCHANGED <<ring, moved, pc, need>> /\ (PreBump => PreBump')
      BY <2>3 DEF Wake, PreBump
    <3> QED BY <3>1, <1>a DEF Leaving
  <2> QED BY <1>3, <2>1, <2>2, <2>3 DEF RefillAbsorb, BankAbsorb
<1>4. ASSUME NEW w \in Waiter, NEW n \in 1..MaxNeed, Call(w, n)
      PROVE  (ring = 0 \/ v \in moved \/ PreBump)'
  <2>1. Leaving(v)
    BY <1>0, <1>4 DEF Call, Goto, Leaving
  <2> QED BY <1>4, <1>a, <2>1 DEF Call, PreBump
<1>5. ASSUME NEW w \in Waiter, Pop(w) PROVE (ring = 0 \/ v \in moved \/ PreBump)'
  <2>1. UNCHANGED <<refill, bank, moved>> /\ (ring = 0 => ring' = 0)
    BY <1>0, <1>5 DEF Pop
  <2>2. CASE Leaving(v)
    BY <1>a, <2>1, <2>2 DEF PreBump
  <2>3. CASE ~Leaving(v)
    <3>1. v = w /\ ~(need[w] > 0 /\ ring > 0)
      BY <1>0, <1>5, <2>3 DEF Pop, Goto, Leaving
    <3>2. need' = need /\ need[w] > 0
      BY <1>0, <1>5, <3>1 DEF Pop, Goto, Leaving
    <3> QED BY <1>0, <2>1, <3>1, <3>2
  <2> QED BY <2>2, <2>3
<1>6. ASSUME NEW w \in Waiter, SignalLow(w) PROVE (ring = 0 \/ v \in moved \/ PreBump)'
  <2>1. Leaving(v) /\ (v \in moved => v \in moved')
    BY <1>0, <1>6 DEF SignalLow, Goto, Leaving
  <2> QED BY <1>6, <1>a, <2>1 DEF SignalLow, PreBump
<1>7. ASSUME NEW w \in Waiter, ReadSeq(w) PROVE (ring = 0 \/ v \in moved \/ PreBump)'
  <2>1. Leaving(v) /\ v # w
    BY <1>0, <1>7 DEF ReadSeq, Goto, Leaving
  <2> QED BY <1>7, <1>a, <2>1 DEF ReadSeq, PreBump
<1>8. ASSUME NEW w \in Waiter,
             Enable(w) \/ CheckSeq(w) \/ Woken(w) \/ Served(w) \/ Timeout(w)
      PROVE  (ring = 0 \/ v \in moved \/ PreBump)'
  <2>1. UNCHANGED <<ring, refill, bank>> /\ (v # w => (v \in moved => v \in moved'))
    BY <1>8 DEF Enable, CheckSeq, Woken, Served, Timeout
  <2>2. Leaving(v) /\ (v = w => UNCHANGED moved)
    BY <1>0, <1>8 DEF Enable, CheckSeq, Woken, Served, Timeout, Goto, Leaving
  <2> QED BY <1>a, <2>1, <2>2 DEF PreBump
<1> QED BY <1>1, <1>2, <1>3, <1>4, <1>5, <1>6, <1>7, <1>8
        DEF EncNext, RefillStep, BankStep, TaskStep

\* A task that will take keys or pass a wake-up on.
Active(w) ==
    \/ pc[w] \in {"first", "seq", "take", "served"}
    \/ pc[w] \in {"firstLow", "takeLow"} /\ need[w] = 0

Hope == Working(refill) \/ Working(bank) \/ notified # {} \/ \E w \in Waiter : Active(w)

Sleeper(v) == v \in Range(queue) /\ pc[v] = "asleep"

\* Waking one leaves a woken task, if any was registered.
LEMMA NotifyHope ==
    ASSUME NotifyOne, queue # <<>>
    PROVE  (notified # {})'
BY DEF NotifyOne

\* A queue with a sleeper is not empty.
LEMMA SleeperQueue == ASSUME NEW v, Sleeper(v) PROVE queue # <<>>
BY DEF Sleeper, Range

\* A waiting task that leaves takes only itself out of the queue.
LEMMA UnregisterRange ==
    ASSUME EncTypeOK, NEW w \in Waiter, Unregister(w)
    PROVE  Range(queue') \subseteq Range(queue)
<1>1. queue \in Seq(Waiter)
  BY DEF EncTypeOK
<1>2. ASSUME NEW i \in DOMAIN queue,
             queue' = SubSeq(queue, 1, i - 1) \o SubSeq(queue, i + 1, Len(queue))
      PROVE  Range(queue') \subseteq Range(queue)
  <2> DEFINE R == Range(queue)
             a == SubSeq(queue, 1, i - 1)
             b == SubSeq(queue, i + 1, Len(queue))
  <2>1. queue \in Seq(R) /\ i \in 1..Len(queue) /\ Len(queue) \in Nat
    BY <1>1 DEF Range
  <2> HIDE DEF R
  <2>2. a \in Seq(R) /\ b \in Seq(R)
    BY <2>1
  <2> HIDE DEF a, b
  <2>3. a \o b \in Seq(R)
    BY <2>2
  <2>4. queue' \in Seq(R)
    BY <1>2, <2>3 DEF a, b
  <2>5. \A m \in DOMAIN queue' : queue'[m] \in R
    BY <2>4
  <2> QED BY <2>5 DEF Range, R
<1> QED BY <1>1, <1>2 DEF Unregister

\* Every step keeps hope for a task that sleeps beside keys.
LEMMA NextHope == EncTypeOK /\ SeqTells /\ NoSleeperWithKeys /\ [EncNext]_encVars
                    => NoSleeperWithKeys'
<1> SUFFICES ASSUME EncTypeOK, SeqTells, NoSleeperWithKeys, [EncNext]_encVars,
                    (ring > 0)', NEW v, Sleeper(v)'
             PROVE  Hope'
  BY DEF NoSleeperWithKeys, Hope, Active, Sleeper
<1> USE DEF producers, notify
<1>0. /\ ring \in Nat /\ pc \in [Waiter -> Places] /\ need \in [Waiter -> 0..MaxNeed]
      /\ queue \in Seq(Waiter)
  BY RingAssumption DEF EncTypeOK
<1>a. ring > 0 /\ Sleeper(v) => Hope
  BY DEF NoSleeperWithKeys, Hope, Active, Sleeper
<1>1. CASE UNCHANGED encVars
  BY <1>1, <1>a DEF encVars, Hope, Sleeper, Active, Working
<1>2. CASE RefillWakes \/ RefillCheck \/ RefillAnswer \/ BankAsk \/ BankAnswer
  <2>1. /\ UNCHANGED <<ring, pc, need, queue, notified>>
        /\ Working(refill) => Working(refill)'
        /\ Working(bank) => Working(bank)'
    BY <1>2 DEF RefillWakes, RefillCheck, RefillAnswer, BankAsk, BankAnswer, Working
  <2> QED BY <2>1, <1>a DEF Hope, Sleeper, Active
<1>3. CASE \/ Push(refill, refill') \/ Bump(refill, refill')
           \/ Push(bank, bank') \/ Bump(bank, bank')
  BY <1>3 DEF Push, Bump, Hope, Working
<1>4. CASE Wake(refill, refill', "check") \/ Wake(bank, bank', "idle")
  <2>1. NotifyOne
    BY <1>4 DEF Wake
  <2>2. queue # <<>>
    BY <2>1 DEF NotifyOne, Sleeper, Range
  <2> QED BY <2>1, <2>2, NotifyHope DEF Hope
<1>5. ASSUME NEW w \in Waiter, NEW n \in 1..MaxNeed, Call(w, n) PROVE Hope'
  <2>1. pc'[w] = "first"
    BY <1>0, <1>5 DEF Call, Goto
  <2> QED BY <2>1 DEF Hope, Active
<1>6. ASSUME NEW w \in Waiter, Pop(w) PROVE Hope'
  <2>1. Active(w)'
    BY <1>0, <1>6 DEF Pop, Goto, Active
  <2> QED BY <2>1 DEF Hope
<1>7. ASSUME NEW w \in Waiter, SignalLow(w) PROVE Hope'
  <2>1. UNCHANGED <<ring, refill, bank, need, queue, notified>>
        /\ pc' = [pc EXCEPT ![w] = IF need[w] = 0 THEN "served"
                                   ELSE IF pc[w] = "firstLow" THEN "seq" ELSE "enable"]
    BY <1>7 DEF SignalLow, Goto
  <2>2. Sleeper(v) /\ v # w
    BY <1>0, <2>1 DEF Sleeper, Range
  <2>3. Hope
    BY <2>1, <2>2, <1>a
  <2>4. \A u \in Waiter : Active(u) => Active(u)'
    BY <1>0, <1>7, <2>1 DEF Active, SignalLow
  <2> QED BY <2>1, <2>3, <2>4 DEF Hope, Working
<1>8. ASSUME NEW w \in Waiter, ReadSeq(w) \/ Woken(w) PROVE Hope'
  <2>1. pc'[w] \in {"take", "seq"}
    BY <1>0, <1>8 DEF ReadSeq, Woken, Goto
  <2> QED BY <2>1 DEF Hope, Active
<1>9. ASSUME NEW w \in Waiter, Enable(w) PROVE Hope'
  <2>1. /\ UNCHANGED <<ring, refill, bank, need, notified>>
        /\ queue' \in {queue, Append(queue, w)}
        /\ pc[w] = "enable" /\ pc' = [pc EXCEPT ![w] = "check"]
    BY <1>9 DEF Enable, Goto
  <2>2. v # w /\ pc[v] = "asleep"
    BY <1>0, <2>1 DEF Sleeper, Range
  <2>3. v \in Range(queue)
    BY <1>0, <2>1, <2>2 DEF Sleeper, Range
  <2>4. Hope
    BY <2>1, <2>2, <2>3, <1>a DEF Sleeper
  <2>5. \A u \in Waiter : Active(u) => Active(u)'
    BY <1>0, <2>1 DEF Active
  <2> QED BY <2>1, <2>4, <2>5 DEF Hope, Working
<1>10. ASSUME NEW w \in Waiter, CheckSeq(w) PROVE Hope'
  <2>1. CASE w \in moved
    <3>1. pc'[w] = "seq"
      BY <1>0, <1>10, <2>1 DEF CheckSeq, Goto
    <3> QED BY <3>1 DEF Hope, Active
  <2>2. CASE w \notin moved
    <3>1. /\ UNCHANGED <<ring, refill, bank, need, notified, queue>>
          /\ pc[w] = "check" /\ pc' = [pc EXCEPT ![w] = "asleep"]
      BY <1>10, <2>2 DEF CheckSeq, Goto
    <3>2. refill.pc \in {"push", "bump"} \/ bank.pc \in {"push", "bump"}
      BY <1>0, <2>2, <3>1 DEF SeqTells
    <3> QED BY <3>1, <3>2 DEF Hope, Working
  <2> QED BY <2>1, <2>2
<1>11. ASSUME NEW w \in Waiter, Served(w) PROVE Hope'
  <2>1. NotifyOne
    BY <1>11 DEF Served
  <2>2. queue # <<>>
    BY <2>1 DEF NotifyOne, Sleeper, Range
  <2> QED BY <2>1, <2>2, NotifyHope DEF Hope
<1>12. ASSUME NEW w \in Waiter, Timeout(w) PROVE Hope'
  <2>1. /\ UNCHANGED <<ring, refill, bank>>
        /\ DropNotified(w) /\ pc[w] \in {"enable", "asleep"}
        /\ pc' = [pc EXCEPT ![w] = "idle"] /\ need' = [need EXCEPT ![w] = 0]
    BY <1>12 DEF Timeout, Goto
  <2>2. v # w \/ v \notin Waiter
    BY <1>0, <2>1 DEF Sleeper
  <2>3. CASE w \notin notified
    <3>1. Unregister(w) /\ notified' = notified
      BY <2>1, <2>3 DEF DropNotified
    <3>2. v \in Range(queue)
      BY <3>1, UnregisterRange DEF Sleeper
    <3>3. v \in Waiter
      BY <1>0, <3>2 DEF Range
    <3>4. pc[v] = "asleep"
      BY <1>0, <2>1, <2>2, <3>3 DEF Sleeper
    <3>5. Hope
      BY <2>1, <3>2, <3>4, <1>a DEF Sleeper
    <3>6. \A u \in Waiter : Active(u) => Active(u)'
      BY <1>0, <2>1 DEF Active
    <3> QED BY <2>1, <3>1, <3>5, <3>6 DEF Hope, Working
  <2>4. CASE w \in notified
    <3>1. queue # <<>>
      BY <2>1, <2>4 DEF DropNotified, Sleeper, Range
    <3>2. notified' # {}
      BY <2>1, <2>4, <3>1 DEF DropNotified
    <3> QED BY <3>2 DEF Hope
  <2> QED BY <2>3, <2>4
<1> QED BY <1>1, <1>2, <1>3, <1>4, <1>5, <1>6, <1>7, <1>8, <1>9, <1>10, <1>11, <1>12
        DEF EncNext, RefillStep, RefillAbsorb, BankStep, BankAbsorb, TaskStep

-----------------------------------------------------------------------------
\* The inductive invariant holds at first.
LEMMA InitInv == EncInit => IInv
<1> SUFFICES ASSUME EncInit PROVE IInv
  OBVIOUS
<1>1. EncTypeOK
  BY InitType
<1>2. RoomInv
  BY RingAssumption DEF EncInit, RoomInv, Coming
<1>3. NeverDropped /\ RefillIsAwake
  BY Zenon DEF EncInit, NeverDropped, RefillIsAwake
<1>4. SeqTells /\ NoSleeperWithKeys
  BY DEF EncInit, SeqTells, NoSleeperWithKeys
<1> QED BY <1>1, <1>2, <1>3, <1>4 DEF IInv

\* The inductive invariant is kept by every step.
LEMMA NextInv == IInv /\ [EncNext]_encVars => IInv'
BY NextType, NextRing, NextAwake, NextSeqTells, NextHope DEF IInv, RingInv

\* The sending side of the link is type correct.
THEOREM TypeCorrect == EncSpec => []EncTypeOK
<1>1. IInv => EncTypeOK
  BY DEF IInv
<1> QED BY <1>1, InitInv, NextInv, PTL DEF EncSpec

\* absorb_enc_keys never meets a full ring, as its comment expects, as long as
\* the headroom of the banking covers a batch of the refill.
THEOREM NeverDroppedCorrect == EncSpec => []NeverDropped
<1>1. IInv => NeverDropped
  BY DEF IInv
<1> QED BY <1>1, InitInv, NextInv, PTL DEF EncSpec

\* enc_refill_loop is never left asleep with a low ring.
THEOREM RefillIsAwakeCorrect == EncSpec => []RefillIsAwake
<1>1. IInv => RefillIsAwake
  BY DEF IInv
<1> QED BY <1>1, InitInv, NextInv, PTL DEF EncSpec

\* wait_enc_batch never sleeps beside keys with no wake-up under way: the FIFO
\* cascade, the sequence number and the ringPermit leave no gap.
THEOREM NoSleeperWithKeysCorrect == EncSpec => []NoSleeperWithKeys
<1>1. IInv => NoSleeperWithKeys
  BY DEF IInv
<1> QED BY <1>1, InitInv, NextInv, PTL DEF EncSpec

=============================================================================
