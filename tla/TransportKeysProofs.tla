------------------------ MODULE TransportKeysProofs ------------------------
(***************************************************************************)
(* The safety of the transport-key cycle, for any set of nodes, any finite *)
(* set of key ids, any capacity and any number of restarts.                *)
(*                                                                         *)
(* First the emitter's half: a key is held in at most one place at its     *)
(* emitter (PadInv), which is what rules out that it wraps two session     *)
(* keys.  Then the peer's half (TwinInv, AckInv), the types, and what      *)
(* follows from them.                                                      *)
(***************************************************************************)
EXTENDS TransportKeys, FiniteSetTheorems, TLAPS

Born(k, n, p) == born[k].inc # 0 /\ born[k].src = n /\ born[k].dst = p

\* At its emitter a key that has not been spent is in one table only.
OnePlace ==
    \A n, p \in Dkms, k \in TransportKey :
        /\ k \in ackPending[n][p] =>
              k \notin acking[n][p] /\ k \notin enc[n][p] /\ k \notin popped[n][p]
        /\ k \in acking[n][p] => k \notin enc[n][p] /\ k \notin popped[n][p]
        /\ k \in enc[n][p] => k \notin popped[n][p]

HeldIsUnspent == \A n, p \in Dkms, k \in TransportKey : Held(k, n, p) => wrapped[k] = 0
SpentOnce == \A k \in TransportKey : wrapped[k] <= 1 /\ (wrapped[k] # 0 => born[k].inc # 0)

PadInv == HeldByEmitter /\ OnePlace /\ HeldIsUnspent /\ SpentOnce

\* Only a key that the peer stored is ever acknowledged.
AckInv ==
    /\ \A n, p \in Dkms :
          \A k \in ackQueue[n][p] \cup acking[p][n] \cup enc[p][n] \cup popped[p][n] :
              accepted[k] # 0
    /\ \A a \in acks : accepted[a.key] # 0

\* Most steps are first-order ones.
USE Zenon

-----------------------------------------------------------------------------
(***************************************************************************)
(* What the updates of the tables return.                                  *)
(***************************************************************************)

\* What the four table updates return, entry by entry.
LEMMA TablePut ==
    ASSUME NEW T \in Table, NEW n \in Dkms, NEW p \in Dkms, NEW k \in TransportKey
    PROVE  /\ Put(T, n, p, k) \in Table
           /\ \A m, q \in Dkms, j \in TransportKey : j \in Put(T, n, p, k)[m][q] <=>
                 j \in T[m][q] \/ (m = n /\ q = p /\ j = k)
BY DEF Table, Put

\* Dropping a key keeps the type of a table, and touches one entry only.
LEMMA TableDrop ==
    ASSUME NEW T \in Table, NEW n \in Dkms, NEW p \in Dkms, NEW k \in TransportKey
    PROVE  /\ Drop(T, n, p, k) \in Table
           /\ \A m, q \in Dkms, j \in TransportKey : j \in Drop(T, n, p, k)[m][q] <=>
                 j \in T[m][q] /\ (m # n \/ q # p \/ j # k)
BY DEF Table, Drop

\* Clearing an entry keeps the type of a table.
LEMMA TableClear ==
    ASSUME NEW T \in Table, NEW n \in Dkms, NEW p \in Dkms
    PROVE  /\ Clear(T, n, p) \in Table
           /\ \A m, q \in Dkms, j \in TransportKey : j \in Clear(T, n, p)[m][q] <=>
                 j \in T[m][q] /\ ~(m = n /\ q = p)
BY DEF Table, Clear

\* Forgetting a node keeps the type of a table.
LEMMA TableForget ==
    ASSUME NEW T \in Table, NEW n \in Dkms
    PROVE  /\ ForgetNode(T, n) \in Table
           /\ \A m, q \in Dkms, j \in TransportKey : j \in ForgetNode(T, n)[m][q] <=>
                 j \in T[m][q] /\ m # n
BY DEF Table, ForgetNode

\* A resync only takes keys out of buffer_enc.
LEMMA ResyncShrinks ==
    ASSUME TransportTypeOK, NEW r \in rejections, Resync(r)
    PROVE  \A m, q \in Dkms, j \in TransportKey : j \in enc'[m][q] => j \in enc[m][q]
BY SMTT(30) DEF Resync, TransportTypeOK, Table, Clear

\* So does the wipe of buffer_enc that begins a first hearing.
LEMMA WipeEncShrinks ==
    ASSUME TransportTypeOK, NEW n \in Dkms, WipeEnc(n)
    PROVE  \A m, q \in Dkms, j \in TransportKey : j \in enc'[m][q] => j \in enc[m][q]
BY SMTT(30) DEF WipeEnc, TransportTypeOK, Table, Clear

\* A pump that is busy holds a delivery.
LEMMA PumpBusy ==
    ASSUME TransportTypeOK, NEW n \in Dkms, pump[n].pc # "idle"
    PROVE  pump[n] \in [pc : PumpPc, peer : Dkms, key : TransportKey]
<1>1. pump[n] \in {IdlePump} \cup [pc : PumpPc, peer : Dkms, key : TransportKey]
  BY DEF TransportTypeOK
<1>2. pump[n] # IdlePump
  BY SMTT(30) DEF IdlePump
<1> QED BY <1>1, <1>2

-----------------------------------------------------------------------------
(***************************************************************************)
(* Type correctness.                                                       *)
(***************************************************************************)

\* The number of keys in a buffer is a natural number.
LEMMA CountType == \A S \in SUBSET TransportKey : Cardinality(S) \in Nat
BY KeyAssumption, FS_Subset, FS_CardinalityType

\* In the initial state every table is empty and well typed.
LEMMA TypeInit == TransportInit => TransportTypeOK
BY SMTT(30) DEF TransportInit, TransportTypeOK, Empty, Table, Tick, IdleTick, IdlePump, NoKey

\* An emission in progress has at least one token left, so using one up keeps
\* the tick well typed.
LEMMA TypeEmitDone ==
    ASSUME TransportTypeOK, NEW n \in Dkms, NEW p \in Dkms,
           tick[n][p].pc = "emitting", EmitDone(n, p)
    PROVE  tick' \in [Dkms -> [Dkms -> Tick]]
<1>1. tick[n][p] \in Tick
  BY SMTT(30) DEF TransportTypeOK
<1>2. tick[n][p] # IdleTick /\ tick[n][p] \notin [pc : {"counted"}, n : Nat]
  BY SMTT(30) DEF IdleTick
<1>3. tick[n][p].n \in Nat \ {0}
  BY <1>1, <1>2 DEF Tick
<1> DEFINE next == IF tick[n][p].n = 1 THEN IdleTick
                   ELSE [pc |-> "emitting", n |-> tick[n][p].n - 1]
<1>4. next \in Tick
  BY <1>3, SMTT(30) DEF Tick, IdleTick
<1>5. tick' = [tick EXCEPT ![n][p] = next]
  BY DEF EmitDone
<1> HIDE DEF next
<1> QED BY <1>4, <1>5 DEF TransportTypeOK

\* A step of the generator keeps the types.
LEMMA TypeGenerator ==
    ASSUME TransportTypeOK, NEW n \in Dkms, NEW p \in Dkms, GeneratorStep(n, p)
    PROVE  TransportTypeOK'
<1>1. CASE TickCountEnc(n, p)
  <2>1. Cardinality(enc[n][p]) \in Nat
    BY CountType, SMTT(30) DEF TransportTypeOK, Table
  <2> QED BY <1>1, <2>1 DEF TickCountEnc, TransportTypeOK, Tick, network, history
<1>2. CASE TickPlan(n, p)
  <2>1. Headroom(n, p) \in Nat
    <3>1. Cardinality(ackPending[n][p]) \in Nat
      BY CountType, SMTT(30) DEF TransportTypeOK, Table
    <3>2. tick[n][p].n \in Nat
      <4>1. tick[n][p] \in Tick
        BY SMTT(30) DEF TransportTypeOK
      <4> QED BY <4>1, SMTT(30) DEF Tick, IdleTick
    <3> QED BY <3>1, <3>2, CapacityAssumption, SMTT(30) DEF Headroom
  <2>2. tick' \in [Dkms -> [Dkms -> Tick]]
    BY <1>2, <2>1, SMTT(30) DEF TickPlan, TransportTypeOK, Tick, IdleTick
  <2> QED BY <1>2, <2>2 DEF TickPlan, TransportTypeOK, network, history
<1>3. ASSUME NEW k \in TransportKey, EmitKey(n, p, k) PROVE TransportTypeOK'
  <2>1. tick' \in [Dkms -> [Dkms -> Tick]]
    BY <1>3, TypeEmitDone DEF EmitKey
  <2>2. FreshFrame(n, p, k) \in Frame
    BY DEF TransportTypeOK, FreshFrame, Frame
  <2>3. born' \in [TransportKey -> Birth \cup {NoKey}]
    BY <1>3 DEF EmitKey, TransportTypeOK, Birth
  <2>4. ackPending' \in Table /\ frames' \subseteq Frame
    BY <1>3, <2>2, TablePut DEF EmitKey, TransportTypeOK
  <2> QED BY <1>3, <2>1, <2>3, <2>4 DEF EmitKey, TransportTypeOK
<1>4. ASSUME NEW k \in TransportKey, EmitKeyFails(n, p, k) PROVE TransportTypeOK'
  <2>1. tick' \in [Dkms -> [Dkms -> Tick]]
    BY <1>4, TypeEmitDone DEF EmitKeyFails
  <2>2. FreshFrame(n, p, k) \in Frame
    BY DEF TransportTypeOK, FreshFrame, Frame
  <2>3. born' \in [TransportKey -> Birth \cup {NoKey}]
    BY <1>4 DEF EmitKeyFails, TransportTypeOK, Birth
  <2> QED BY <1>4, <2>1, <2>2, <2>3 DEF EmitKeyFails, TransportTypeOK
<1>5. ASSUME NEW k \in TransportKey, Reap(n, p, k) PROVE TransportTypeOK'
  BY SMTT(30), <1>5, TableDrop DEF Reap, TransportTypeOK, network, history
<1> QED BY <1>1, <1>2, <1>3, <1>4, <1>5 DEF GeneratorStep

\* A step of the delivery pump keeps the types.
LEMMA TypePump ==
    ASSUME TransportTypeOK, NEW n \in Dkms, PumpStep(n)
    PROVE  TransportTypeOK'
<1>1. ASSUME NEW f \in frames, OpenDelivery(n, f) PROVE TransportTypeOK'
  BY <1>1 DEF OpenDelivery, TransportTypeOK, Frame, PumpPc, history
<1>2. CASE WipeEnc(n)
  <2>1. pump[n] \in [pc : PumpPc, peer : Dkms, key : TransportKey]
    BY <1>2, PumpBusy DEF WipeEnc
  <2>2. pump' \in [Dkms -> {IdlePump} \cup [pc : PumpPc, peer : Dkms, key : TransportKey]]
    BY <1>2, <2>1 DEF WipeEnc, PumpGoto, TransportTypeOK, PumpPc
  <2>3. enc' \in Table
    <3>1. enc \in Table /\ enc' = Clear(enc, n, pump[n].peer)
      BY <1>2 DEF WipeEnc, TransportTypeOK
    <3> QED BY <2>1, <3>1, TableClear
  <2> QED BY <1>2, <2>2, <2>3 DEF WipeEnc, TransportTypeOK, network, history
<1>3. CASE WipeDec(n)
  <2>1. pump[n] \in [pc : PumpPc, peer : Dkms, key : TransportKey]
    BY <1>3, PumpBusy DEF WipeDec
  <2>2. pump' \in [Dkms -> {IdlePump} \cup [pc : PumpPc, peer : Dkms, key : TransportKey]]
    BY <1>3, <2>1 DEF WipeDec, PumpGoto, TransportTypeOK, PumpPc
  <2>3. dec' \in Table
    <3>1. dec \in Table /\ dec' = Clear(dec, n, pump[n].peer)
      BY <1>3 DEF WipeDec, TransportTypeOK
    <3> QED BY <2>1, <3>1, TableClear
  <2> QED BY <1>3, <2>2, <2>3 DEF WipeDec, TransportTypeOK, network, history
<1>4. CASE WipePending(n)
  <2>1. pump[n] \in [pc : PumpPc, peer : Dkms, key : TransportKey]
    BY <1>4, PumpBusy DEF WipePending
  <2>2. pump' \in [Dkms -> {IdlePump} \cup [pc : PumpPc, peer : Dkms, key : TransportKey]]
    BY <1>4, <2>1 DEF WipePending, PumpGoto, TransportTypeOK, PumpPc
  <2>3. ackPending' \in Table
    <3>1. ackPending \in Table /\ ackPending' = Clear(ackPending, n, pump[n].peer)
      BY SMTT(30), <1>4 DEF WipePending, TransportTypeOK
    <3> QED BY <2>1, <3>1, TableClear
  <2> QED BY SMTT(30), <1>4, <2>2, <2>3 DEF WipePending, TransportTypeOK, network, history
<1>5. CASE PushDec(n)
  <2>1. pump[n].peer \in Dkms /\ pump[n].key \in TransportKey
    BY <1>5, PumpBusy DEF PushDec
  <2>2. pump' \in [Dkms -> {IdlePump} \cup [pc : PumpPc, peer : Dkms, key : TransportKey]]
    BY <1>5 DEF PushDec, TransportTypeOK
  <2>3. dec' \in Table /\ ackQueue' \in Table /\ accepted' \in [TransportKey -> Nat]
    <3>1. CASE Cardinality(dec[n][pump[n].peer]) < DecCeiling
      <4>1. /\ dec' = Put(dec, n, pump[n].peer, pump[n].key)
            /\ ackQueue' = Put(ackQueue, n, pump[n].peer, pump[n].key)
            /\ accepted' = [accepted EXCEPT ![pump[n].key] = inc[n]]
        BY <1>5, <3>1 DEF PushDec
      <4>2. dec' \in Table /\ ackQueue' \in Table
        BY <4>1, <2>1, TablePut DEF TransportTypeOK
      <4>3. accepted' \in [TransportKey -> Nat]
        BY <4>1, <2>1 DEF TransportTypeOK
      <4> QED BY <4>2, <4>3
    <3>2. CASE ~ (Cardinality(dec[n][pump[n].peer]) < DecCeiling)
      BY <1>5, <3>2 DEF PushDec, TransportTypeOK
    <3> QED BY <3>1, <3>2
  <2> QED BY <1>5, <2>2, <2>3 DEF PushDec, TransportTypeOK, network
<1> QED BY <1>1, <1>2, <1>3, <1>4, <1>5 DEF PumpStep

\* A step of the ACK path keeps the types.
LEMMA TypeAck ==
    ASSUME TransportTypeOK, NEW n \in Dkms, NEW p \in Dkms, AckStep(n, p)
    PROVE  TransportTypeOK'
<1>1. CASE FlushAcks(n, p)
  <2>1. acks' \subseteq Message
    BY <1>1, SMTT(30) DEF FlushAcks, TransportTypeOK, Table, Message
  <2> QED BY ZenonT(30), <1>1, <2>1, TableClear DEF FlushAcks, TransportTypeOK, history
<1>2. ASSUME NEW k \in TransportKey, OnAckPush(n, p, k) PROVE TransportTypeOK'
  BY ZenonT(30), <1>2, TablePut, TableDrop DEF OnAckPush, TransportTypeOK, network, history
<1> QED BY SMTT(30), <1>1, <1>2 DEF AckStep

\* Receiving an ACK keeps the types.
LEMMA TypeOnAckTake ==
    ASSUME TransportTypeOK, NEW a \in acks, OnAckTake(a)
    PROVE  TransportTypeOK'
<1>1. a.src \in Dkms /\ a.dst \in Dkms /\ a.key \in TransportKey
  BY DEF TransportTypeOK, Message
<1>2. ackPending' \in Table /\ acking' \in Table /\ acks' \subseteq Message
  <2>1. CASE a.key \in ackPending[a.dst][a.src]
    BY SMTT(30), <1>1, <2>1, TablePut, TableDrop DEF OnAckTake, TransportTypeOK
  <2>2. CASE a.key \notin ackPending[a.dst][a.src]
    BY <2>2 DEF OnAckTake, TransportTypeOK
  <2> QED BY <2>1, <2>2
<1> QED BY <1>2 DEF OnAckTake, TransportTypeOK, history

\* What a request does with a key keeps the types.
LEMMA TypeSession ==
    ASSUME TransportTypeOK, NEW n \in Dkms, NEW p \in Dkms, SessionStep(n, p)
    PROVE  TransportTypeOK'
<1>1. ASSUME NEW k \in TransportKey, PopKey(n, p, k) PROVE TransportTypeOK'
  BY ZenonT(30), <1>1, TablePut, TableDrop DEF PopKey, TransportTypeOK, network, history
<1>2. ASSUME NEW k \in TransportKey, GiveBack(n, p, k) PROVE TransportTypeOK'
  BY ZenonT(30), <1>2, TablePut, TableDrop DEF GiveBack, TransportTypeOK, network, history
<1>3. ASSUME NEW k \in TransportKey, SendEnvelope(n, p, k) PROVE TransportTypeOK'
  <2>1. envelopes' \subseteq Envelope
    BY <1>3, SMTT(30) DEF SendEnvelope, TransportTypeOK, Envelope
  <2>2. wrapped' \in [TransportKey -> Nat]
    BY <1>3, SMTT(30) DEF SendEnvelope, TransportTypeOK
  <2> QED BY ZenonT(30), <1>3, <2>1, <2>2, TableDrop DEF SendEnvelope, TransportTypeOK
<1> QED BY <1>1, <1>2, <1>3 DEF SessionStep

\* Receiving an envelope keeps the types.
LEMMA TypeReceiveEnvelope ==
    ASSUME TransportTypeOK, NEW e \in envelopes, ReceiveEnvelope(e)
    PROVE  TransportTypeOK'
<1>1. e.src \in Dkms /\ e.dst \in Dkms /\ e.key \in TransportKey /\ e.inc \in Nat
  BY SMTT(30) DEF TransportTypeOK, Envelope
<1>2. CASE e.key \in dec[e.dst][e.src]
  <2>1. dec' \in Table
    BY <1>1, <1>2, TableDrop, SMTT(30) DEF ReceiveEnvelope, TransportTypeOK
  <2>2. opened' \in [TransportKey -> Nat]
    BY SMTT(30), <1>1, <1>2 DEF ReceiveEnvelope, TransportTypeOK
  <2> QED BY SMTT(30), <1>2, <2>1, <2>2 DEF ReceiveEnvelope, TransportTypeOK
<1>3. CASE e.key \notin dec[e.dst][e.src]
  <2>1. rejections' \subseteq Rejection
    BY <1>1, <1>3, SMTT(30) DEF ReceiveEnvelope, TransportTypeOK, Rejection
  <2> QED BY SMTT(30), <1>3, <2>1 DEF ReceiveEnvelope, TransportTypeOK
<1> QED BY <1>2, <1>3

\* The remaining steps, a rejection, an elapsed cooldown, a loss and a restart,
\* keep the types.
LEMMA TypeRest ==
    ASSUME TransportTypeOK
    PROVE  /\ \A r \in rejections : Resync(r) => TransportTypeOK'
           /\ \A n, p \in Dkms : CooldownElapses(n, p) => TransportTypeOK'
           /\ LoseMessage => TransportTypeOK'
           /\ \A n \in Dkms : RestartDkms(n) => TransportTypeOK'
<1>1. ASSUME NEW r \in rejections, Resync(r) PROVE TransportTypeOK'
  <2>1. r.src \in Dkms /\ r.dst \in Dkms
    BY DEF TransportTypeOK, Rejection
  <2> QED BY ZenonT(30), <1>1, <2>1, TableClear DEF Resync, TransportTypeOK, history
<1>2. ASSUME NEW n \in Dkms, NEW p \in Dkms, CooldownElapses(n, p) PROVE TransportTypeOK'
  BY <1>2 DEF CooldownElapses, TransportTypeOK, network, history
<1>3. CASE LoseMessage
  BY SMTT(30), <1>3 DEF LoseMessage, TransportTypeOK, node, history
<1>4. ASSUME NEW n \in Dkms, RestartDkms(n) PROVE TransportTypeOK'
  <2>1. tick' \in [Dkms -> [Dkms -> Tick]]
    BY <1>4 DEF RestartDkms, TransportTypeOK, Tick
  <2>2. inc' \in [Dkms -> Nat \ {0}]
    BY <1>4, SMTT(30) DEF RestartDkms, TransportTypeOK
  <2> QED BY SMTT(30), <1>4, <2>1, <2>2, TableForget DEF RestartDkms, TransportTypeOK, network, history
<1> QED BY SMTT(30), <1>1, <1>2, <1>3, <1>4

\* Every step keeps the types.
LEMMA TypeNext == TransportTypeOK /\ [TransportNext]_transportVars => TransportTypeOK'
<1> SUFFICES ASSUME TransportTypeOK, [TransportNext]_transportVars PROVE TransportTypeOK'
  OBVIOUS
<1>1. CASE UNCHANGED transportVars
  BY <1>1 DEF transportVars, node, network, history, TransportTypeOK
<1>2. CASE TransportNext
  BY <1>2, TypeGenerator, TypePump, TypeAck, TypeOnAckTake, TypeSession,
     TypeReceiveEnvelope, TypeRest DEF TransportNext, Pairs
<1> QED BY <1>1, <1>2

\* In every reachable state the tables of every node, the messages and the
\* history have their types.
THEOREM TypeCorrect == TransportSpec => []TransportTypeOK
BY TypeInit, TypeNext, PTL DEF TransportSpec

-----------------------------------------------------------------------------
(***************************************************************************)
(* At its emitter a key is in one place.                                   *)
(***************************************************************************)

padVars == <<ackPending, acking, enc, popped, wrapped, born, inc>>

\* A step that touches none of the emitter's state keeps PadInv.
LEMMA PadStutter == PadInv /\ UNCHANGED padVars => PadInv'
BY SMTT(30) DEF PadInv, OnePlace, HeldIsUnspent, SpentOnce, HeldByEmitter, Held, padVars

\* Taking keys away from the tables of the emitter keeps PadInv.
LEMMA PadShrink ==
    ASSUME PadInv,
           \A m, q \in Dkms, j \in TransportKey :
              /\ j \in ackPending'[m][q] => j \in ackPending[m][q]
              /\ j \in enc'[m][q] => j \in enc[m][q],
           UNCHANGED <<acking, popped, wrapped, born, inc>>
    PROVE  PadInv'
BY SMTT(30) DEF PadInv, OnePlace, HeldIsUnspent, SpentOnce, HeldByEmitter, Held

\* An id that was never drawn is in none of the emitter's tables.
LEMMA PadFresh ==
    ASSUME TransportTypeOK, PadInv, NEW k \in TransportKey, born[k] = NoKey
    PROVE  wrapped[k] = 0 /\ \A m, q \in Dkms : ~Held(k, m, q)
<1>1. born[k].inc = 0
  BY SMTT(30) DEF NoKey
<1>2. wrapped[k] = 0
  BY <1>1 DEF PadInv, OnePlace, HeldIsUnspent, SpentOnce
<1>3. ASSUME NEW m \in Dkms, NEW q \in Dkms, Held(k, m, q) PROVE FALSE
  <2>1. born[k] = [src |-> m, dst |-> q, inc |-> inc[m]]
    BY ZenonT(30), <1>3 DEF PadInv, OnePlace, HeldIsUnspent, SpentOnce, HeldByEmitter
  <2>2. inc[m] # 0
    BY DEF TransportTypeOK
  <2> QED BY <1>1, <2>1, <2>2, SMTT(30)
<1> QED BY <1>2, <1>3

\* Drawing a fresh id gives it a birth and changes no other key's.
LEMMA BirthStep ==
    ASSUME TransportTypeOK, NEW k \in TransportKey, NEW b \in Birth, born' = [born EXCEPT ![k] = b]
    PROVE  /\ born'[k] = b
           /\ born'[k].inc # 0
           /\ \A j \in TransportKey : j # k => born'[j] = born[j]
BY DEF TransportTypeOK, Birth

\* Emission keeps PadInv: the id it draws was in no table.
LEMMA PadEmit ==
    ASSUME TransportTypeOK, PadInv, NEW n \in Dkms, NEW p \in Dkms, NEW k \in TransportKey,
           EmitKey(n, p, k) \/ EmitKeyFails(n, p, k)
    PROVE  PadInv'
<1> DEFINE b == [src |-> n, dst |-> p, inc |-> inc[n]]
<1>1. /\ born[k] = NoKey
      /\ born' = [born EXCEPT ![k] = b]
      /\ ackPending' = Put(ackPending, n, p, k) \/ ackPending' = ackPending
      /\ UNCHANGED <<acking, enc, popped, wrapped, inc>>
  BY DEF EmitKey, EmitKeyFails
<1>2. b \in Birth
  BY DEF TransportTypeOK, Birth
<1>3. wrapped[k] = 0 /\ \A m, q \in Dkms : ~Held(k, m, q)
  BY <1>1, PadFresh
<1>4. /\ born'[k] = b
      /\ born'[k].inc # 0
      /\ \A j \in TransportKey : j # k => born'[j] = born[j]
  BY ZenonT(30), <1>1, <1>2, BirthStep
<1>5. \A m, q \in Dkms, j \in TransportKey : j \in ackPending'[m][q] =>
         j \in ackPending[m][q] \/ (m = n /\ q = p /\ j = k)
  <2>1. ackPending \in Table
    BY DEF TransportTypeOK
  <2>2. CASE ackPending' = ackPending
    BY <2>2
  <2>3. CASE ackPending' = Put(ackPending, n, p, k)
    BY SMTT(30), <2>1, <2>3 DEF Table, Put
  <2> QED BY <1>1, <2>2, <2>3
<1>6. HeldByEmitter'
  BY <1>1, <1>3, <1>4, <1>5, SMTT(30) DEF PadInv, HeldByEmitter, Held
<1>7. SpentOnce'
  BY <1>1, <1>4 DEF PadInv, SpentOnce
<1>8. OnePlace' /\ HeldIsUnspent'
  BY SMTT(30), <1>1, <1>3, <1>5 DEF PadInv, OnePlace, HeldIsUnspent, Held
<1> QED BY <1>6, <1>7, <1>8 DEF PadInv

\* on_ack takes the key out of ack_pending: PadInv is kept.
LEMMA PadTake ==
    ASSUME TransportTypeOK, PadInv, NEW n \in Dkms, NEW p \in Dkms, NEW k \in TransportKey,
           k \in ackPending[n][p],
           ackPending' = Drop(ackPending, n, p, k),
           acking' = Put(acking, n, p, k),
           UNCHANGED <<enc, popped, wrapped, born, inc>>
    PROVE  PadInv'
<1>1. ackPending \in Table /\ acking \in Table
  BY DEF TransportTypeOK
<1>2. \A m, q \in Dkms, j \in TransportKey : j \in ackPending'[m][q] <=>
         j \in ackPending[m][q] /\ (m # n \/ q # p \/ j # k)
  BY <1>1 DEF Table, Drop
<1>3. \A m, q \in Dkms, j \in TransportKey : j \in acking'[m][q] <=>
         j \in acking[m][q] \/ (m = n /\ q = p /\ j = k)
  BY SMTT(30), <1>1 DEF Table, Put
<1>4. ASSUME NEW m \in Dkms, NEW q \in Dkms, NEW j \in TransportKey
      PROVE  Held(j, m, q)' <=> Held(j, m, q)
  <2>1. CASE m = n /\ q = p /\ j = k
    BY <1>2, <1>3, <2>1 DEF Held
  <2>2. CASE ~(m = n /\ q = p /\ j = k)
    BY <1>2, <1>3, <2>2 DEF Held
  <2> QED BY <2>1, <2>2
<1>5. HeldByEmitter'
  BY <1>4 DEF PadInv, HeldByEmitter
<1>6. OnePlace'
  BY SMTT(30), <1>2, <1>3 DEF PadInv, OnePlace
<1>7. HeldIsUnspent'
  BY <1>4 DEF PadInv, HeldIsUnspent
<1>8. SpentOnce'
  BY SMTT(30) DEF PadInv, SpentOnce
<1> QED BY SMTT(30), <1>5, <1>6, <1>7, <1>8 DEF PadInv

\* on_ack pushes the key it took to buffer_enc: PadInv is kept.
LEMMA PadPush ==
    ASSUME TransportTypeOK, PadInv, NEW n \in Dkms, NEW p \in Dkms, NEW k \in TransportKey,
           k \in acking[n][p],
           acking' = Drop(acking, n, p, k),
           enc' = Put(enc, n, p, k),
           UNCHANGED <<ackPending, popped, wrapped, born, inc>>
    PROVE  PadInv'
<1>1. acking \in Table /\ enc \in Table
  BY SMTT(30) DEF TransportTypeOK
<1>2. \A m, q \in Dkms, j \in TransportKey : j \in acking'[m][q] <=>
         j \in acking[m][q] /\ (m # n \/ q # p \/ j # k)
  BY <1>1 DEF Table, Drop
<1>3. \A m, q \in Dkms, j \in TransportKey : j \in enc'[m][q] <=>
         j \in enc[m][q] \/ (m = n /\ q = p /\ j = k)
  BY SMTT(30), <1>1 DEF Table, Put
<1>4. ASSUME NEW m \in Dkms, NEW q \in Dkms, NEW j \in TransportKey
      PROVE  Held(j, m, q)' <=> Held(j, m, q)
  <2>1. CASE m = n /\ q = p /\ j = k
    BY SMTT(30), <1>2, <1>3, <2>1 DEF Held
  <2>2. CASE ~(m = n /\ q = p /\ j = k)
    BY SMTT(30), <1>2, <1>3, <2>2 DEF Held
  <2> QED BY <2>1, <2>2
<1>5. HeldByEmitter'
  BY <1>4 DEF PadInv, HeldByEmitter
<1>6. OnePlace'
  BY SMTT(30), <1>2, <1>3 DEF PadInv, OnePlace
<1>7. HeldIsUnspent'
  BY <1>4 DEF PadInv, HeldIsUnspent
<1>8. SpentOnce'
  BY DEF PadInv, SpentOnce
<1> QED BY <1>5, <1>6, <1>7, <1>8 DEF PadInv

\* A request pops a key: PadInv is kept.
LEMMA PadPop ==
    ASSUME TransportTypeOK, PadInv, NEW n \in Dkms, NEW p \in Dkms, NEW k \in TransportKey,
           k \in enc[n][p],
           enc' = Drop(enc, n, p, k),
           popped' = Put(popped, n, p, k),
           UNCHANGED <<ackPending, acking, wrapped, born, inc>>
    PROVE  PadInv'
<1>1. enc \in Table /\ popped \in Table
  BY SMTT(30) DEF TransportTypeOK
<1>2. \A m, q \in Dkms, j \in TransportKey : j \in enc'[m][q] <=>
         j \in enc[m][q] /\ (m # n \/ q # p \/ j # k)
  BY <1>1 DEF Table, Drop
<1>3. \A m, q \in Dkms, j \in TransportKey : j \in popped'[m][q] <=>
         j \in popped[m][q] \/ (m = n /\ q = p /\ j = k)
  BY SMTT(30), <1>1 DEF Table, Put
<1>4. ASSUME NEW m \in Dkms, NEW q \in Dkms, NEW j \in TransportKey
      PROVE  Held(j, m, q)' <=> Held(j, m, q)
  <2>1. CASE m = n /\ q = p /\ j = k
    BY SMTT(30), <1>2, <1>3, <2>1 DEF Held
  <2>2. CASE ~(m = n /\ q = p /\ j = k)
    BY SMTT(30), <1>2, <1>3, <2>2 DEF Held
  <2> QED BY <2>1, <2>2
<1>5. HeldByEmitter'
  BY <1>4 DEF PadInv, HeldByEmitter
<1>6. OnePlace'
  BY SMTT(30), <1>2, <1>3 DEF PadInv, OnePlace
<1>7. HeldIsUnspent'
  BY <1>4 DEF PadInv, HeldIsUnspent
<1>8. SpentOnce'
  BY DEF PadInv, SpentOnce
<1> QED BY <1>5, <1>6, <1>7, <1>8 DEF PadInv

\* A request that failed gives a key back: PadInv is kept.
LEMMA PadGiveBack ==
    ASSUME TransportTypeOK, PadInv, NEW n \in Dkms, NEW p \in Dkms, NEW k \in TransportKey,
           k \in popped[n][p],
           popped' = Drop(popped, n, p, k),
           enc' = Put(enc, n, p, k),
           UNCHANGED <<ackPending, acking, wrapped, born, inc>>
    PROVE  PadInv'
<1>1. popped \in Table /\ enc \in Table
  BY SMTT(30) DEF TransportTypeOK
<1>2. \A m, q \in Dkms, j \in TransportKey : j \in popped'[m][q] <=>
         j \in popped[m][q] /\ (m # n \/ q # p \/ j # k)
  BY <1>1 DEF Table, Drop
<1>3. \A m, q \in Dkms, j \in TransportKey : j \in enc'[m][q] <=>
         j \in enc[m][q] \/ (m = n /\ q = p /\ j = k)
  BY SMTT(30), <1>1 DEF Table, Put
<1>4. ASSUME NEW m \in Dkms, NEW q \in Dkms, NEW j \in TransportKey
      PROVE  Held(j, m, q)' <=> Held(j, m, q)
  <2>1. CASE m = n /\ q = p /\ j = k
    BY ZenonT(30), <1>2, <1>3, <2>1 DEF Held
  <2>2. CASE ~(m = n /\ q = p /\ j = k)
    BY SMTT(30), <1>2, <1>3, <2>2 DEF Held
  <2> QED BY <2>1, <2>2
<1>5. HeldByEmitter'
  BY <1>4 DEF PadInv, HeldByEmitter
<1>6. OnePlace'
  BY <1>2, <1>3, SMTT(30) DEF PadInv, OnePlace
<1>7. HeldIsUnspent'
  BY <1>4 DEF PadInv, HeldIsUnspent
<1>8. SpentOnce'
  BY DEF PadInv, SpentOnce
<1> QED BY <1>5, <1>6, <1>7, <1>8 DEF PadInv

\* An envelope leaves: its key was in no other table, so it is spent for good.
LEMMA PadSend ==
    ASSUME TransportTypeOK, PadInv, NEW n \in Dkms, NEW p \in Dkms, NEW k \in TransportKey,
           SendEnvelope(n, p, k)
    PROVE  PadInv'
<1>1. /\ k \in popped[n][p]
      /\ popped' = Drop(popped, n, p, k)
      /\ wrapped' = [wrapped EXCEPT ![k] = @ + 1]
      /\ UNCHANGED <<ackPending, acking, enc, born, inc>>
  BY DEF SendEnvelope
<1>2. \A m, q \in Dkms, j \in TransportKey : j \in popped'[m][q] <=>
         j \in popped[m][q] /\ (m # n \/ q # p \/ j # k)
  <2>1. popped \in Table
    BY SMTT(30) DEF TransportTypeOK
  <2> QED BY <1>1, <2>1 DEF Table, Drop
<1>3. wrapped[k] = 0 /\ born[k] = [src |-> n, dst |-> p, inc |-> inc[n]]
  BY SMTT(30), <1>1 DEF PadInv, OnePlace, HeldIsUnspent, SpentOnce, HeldByEmitter, Held
<1>4. /\ wrapped'[k] = 1
      /\ \A j \in TransportKey : j # k => wrapped'[j] = wrapped[j]
  BY SMTT(30), <1>1, <1>3 DEF TransportTypeOK
<1>5. ASSUME NEW m \in Dkms, NEW q \in Dkms, Held(k, m, q)' PROVE FALSE
  <2>1. Held(k, m, q) /\ (m # n \/ q # p \/ k \notin popped'[m][q])
    BY <1>1, <1>2, <1>5 DEF Held
  <2>2. m = n /\ q = p
    <3>1. born[k] = [src |-> m, dst |-> q, inc |-> inc[m]]
      BY <2>1 DEF PadInv, OnePlace, HeldIsUnspent, SpentOnce, HeldByEmitter
    <3>2. born[k].src = m /\ born[k].dst = q
      BY <3>1, SMTT(30)
    <3>3. born[k].src = n /\ born[k].dst = p
      BY <1>3, SMTT(30)
    <3> QED BY SMTT(30), <3>2, <3>3
  <2>3. k \notin popped'[n][p]
    BY <1>2
  <2>4. k \in ackPending[n][p] \/ k \in acking[n][p] \/ k \in enc[n][p]
    BY <1>1, <1>5, <2>2, <2>3 DEF Held
  <2>5. OnePlace
    BY DEF PadInv
  <2> QED BY SMTT(30), <1>1, <2>4, <2>5 DEF OnePlace
<1>6. \A m, q \in Dkms, j \in TransportKey : Held(j, m, q)' => Held(j, m, q)
  BY SMTT(30), <1>1, <1>2 DEF Held
<1>7. HeldByEmitter'
  BY SMTT(30), <1>1, <1>6 DEF PadInv, HeldByEmitter
<1>8. HeldIsUnspent'
  BY SMTT(30), <1>4, <1>5, <1>6 DEF PadInv, HeldIsUnspent
<1>9. SpentOnce'
  <2>1. inc[n] # 0
    BY SMTT(30) DEF TransportTypeOK
  <2> QED BY <1>1, <1>3, <1>4, <2>1, SMTT(30) DEF PadInv, SpentOnce
<1>10. OnePlace'
  BY <1>1, <1>2, SMTT(30) DEF PadInv, OnePlace
<1> QED BY SMTT(30), <1>7, <1>8, <1>9, <1>10 DEF PadInv

\* A restart empties the tables of one node and begins a new execution: PadInv
\* is kept.
LEMMA PadRestart ==
    ASSUME TransportTypeOK, PadInv, NEW n \in Dkms, RestartDkms(n)
    PROVE  PadInv'
<1>1. /\ ackPending' = ForgetNode(ackPending, n) /\ acking' = ForgetNode(acking, n)
      /\ enc' = ForgetNode(enc, n) /\ popped' = ForgetNode(popped, n)
      /\ inc' = [inc EXCEPT ![n] = @ + 1]
      /\ UNCHANGED <<wrapped, born>>
  BY SMTT(30) DEF RestartDkms, history
<1>2. \A m, q \in Dkms, j \in TransportKey :
         /\ j \in ackPending'[m][q] <=> j \in ackPending[m][q] /\ m # n
         /\ j \in acking'[m][q] <=> j \in acking[m][q] /\ m # n
         /\ j \in enc'[m][q] <=> j \in enc[m][q] /\ m # n
         /\ j \in popped'[m][q] <=> j \in popped[m][q] /\ m # n
  BY <1>1, SMTT(30) DEF TransportTypeOK, Table, ForgetNode
<1>3. \A m \in Dkms : m # n => inc'[m] = inc[m]
  BY SMTT(30), <1>1 DEF TransportTypeOK
<1>4. HeldByEmitter'
  BY SMTT(30), <1>1, <1>2, <1>3 DEF PadInv, HeldByEmitter, Held
<1>5. OnePlace' /\ HeldIsUnspent' /\ SpentOnce'
  BY <1>1, <1>2, SMTT(30) DEF PadInv, OnePlace, HeldIsUnspent, SpentOnce, Held
<1> QED BY <1>4, <1>5 DEF PadInv

\* Every step keeps PadInv.
LEMMA PadNext ==
    ASSUME TransportTypeOK, PadInv, [TransportNext]_transportVars
    PROVE  PadInv'
<1>1. ASSUME NEW n \in Dkms, NEW p \in Dkms,
             \/ TickCountEnc(n, p) \/ TickPlan(n, p)
             \/ FlushAcks(n, p) \/ CooldownElapses(n, p)
      PROVE  PadInv'
  BY SMTT(30), <1>1, PadStutter
     DEF TickCountEnc, TickPlan, FlushAcks, CooldownElapses, padVars, history
<1>2. ASSUME NEW n \in Dkms, NEW p \in Dkms, NEW k \in TransportKey, Reap(n, p, k)
      PROVE  PadInv'
  <2>1. \A m, q \in Dkms, j \in TransportKey : j \in ackPending'[m][q] => j \in ackPending[m][q]
    BY SMTT(30), <1>2 DEF Reap, TransportTypeOK, Table, Drop
  <2> QED BY SMTT(30), <1>2, <2>1, PadShrink DEF Reap, history
<1>3. ASSUME NEW n \in Dkms, WipeEnc(n) PROVE PadInv'
  <2>1. \A m, q \in Dkms, j \in TransportKey : j \in enc'[m][q] => j \in enc[m][q]
    BY <1>3, WipeEncShrinks
  <2> QED BY SMTT(30), <1>3, <2>1, PadShrink DEF WipeEnc, history
<1>4. ASSUME NEW n \in Dkms, WipePending(n) PROVE PadInv'
  <2>1. \A m, q \in Dkms, j \in TransportKey : j \in ackPending'[m][q] => j \in ackPending[m][q]
    BY <1>4 DEF WipePending, TransportTypeOK, Table, Clear
  <2> QED BY ZenonT(30), <1>4, <2>1, PadShrink DEF WipePending, history
<1>5. ASSUME NEW r \in rejections, Resync(r) PROVE PadInv'
  <2>1. \A m, q \in Dkms, j \in TransportKey : j \in enc'[m][q] => j \in enc[m][q]
    BY <1>5, ResyncShrinks
  <2> QED BY SMTT(30), <1>5, <2>1, PadShrink DEF Resync, history
<1>6. ASSUME NEW n \in Dkms,
             (\E f \in frames : OpenDelivery(n, f)) \/ WipeDec(n) \/ PushDec(n)
      PROVE  PadInv'
  BY SMTT(30), <1>6, PadStutter DEF OpenDelivery, WipeDec, PushDec, padVars, history
<1>7. ASSUME NEW e \in envelopes, ReceiveEnvelope(e) PROVE PadInv'
  BY <1>7, PadStutter DEF ReceiveEnvelope, padVars
<1>8. CASE LoseMessage \/ UNCHANGED transportVars
  BY <1>8, PadStutter DEF LoseMessage, transportVars, padVars, node, history
<1>9. ASSUME NEW a \in acks, OnAckTake(a) PROVE PadInv'
  <2>1. a.src \in Dkms /\ a.dst \in Dkms /\ a.key \in TransportKey
    BY SMTT(30) DEF TransportTypeOK, Message
  <2>2. CASE a.key \in ackPending[a.dst][a.src]
    BY SMTT(30), <1>9, <2>1, <2>2, PadTake DEF OnAckTake, history
  <2>3. CASE a.key \notin ackPending[a.dst][a.src]
    BY ZenonT(30), <1>9, <2>3, PadStutter DEF OnAckTake, padVars, history
  <2> QED BY <2>2, <2>3
<1>10. ASSUME NEW n \in Dkms, NEW p \in Dkms, NEW k \in TransportKey,
              \/ OnAckPush(n, p, k) \/ PopKey(n, p, k) \/ GiveBack(n, p, k)
       PROVE  PadInv'
  <2>1. CASE OnAckPush(n, p, k)
    BY <2>1, PadPush DEF OnAckPush, history
  <2>2. CASE PopKey(n, p, k)
    BY SMTT(30), <2>2, PadPop DEF PopKey, history
  <2>3. CASE GiveBack(n, p, k)
    BY <2>3, PadGiveBack DEF GiveBack, history
  <2> QED BY SMTT(30), <1>10, <2>1, <2>2, <2>3
<1>11. CASE TransportNext
  BY SMTT(30), <1>11, <1>1, <1>2, <1>3, <1>4, <1>5, <1>6, <1>7, <1>8, <1>9, <1>10,
     PadEmit, PadSend, PadRestart
     DEF TransportNext, Pairs, GeneratorStep, PumpStep, AckStep, SessionStep
<1> QED BY SMTT(30), <1>8, <1>11

\* Initially every table is empty and no key was drawn.
LEMMA PadInit == TransportInit => PadInv
BY SMTT(30) DEF TransportInit, Empty, PadInv, OnePlace, HeldIsUnspent, SpentOnce, HeldByEmitter, Held

-----------------------------------------------------------------------------
(***************************************************************************)
(* Only what the peer stored is acknowledged.                              *)
(***************************************************************************)

\* The ACKs waiting, travelling or answered can only become fewer.
AckShrinks ==
    /\ \A m, q \in Dkms, j \in TransportKey :
          /\ j \in ackQueue'[m][q] => j \in ackQueue[m][q]
          /\ j \in acking'[m][q] \cup enc'[m][q] \cup popped'[m][q] =>
                j \in acking[m][q] \cup enc[m][q] \cup popped[m][q]
    /\ acks' \subseteq acks
    /\ UNCHANGED accepted

\* Losing ACKs, or the keys they answer for, keeps AckInv.
LEMMA AckShrink ==
    ASSUME TransportTypeOK, AckInv, TransportTypeOK', AckShrinks
    PROVE  AckInv'
<1>1. /\ ackQueue \in Table /\ acking \in Table /\ enc \in Table /\ popped \in Table
      /\ ackQueue' \in Table /\ acking' \in Table /\ enc' \in Table /\ popped' \in Table
  BY DEF TransportTypeOK
<1> QED BY <1>1, SMTT(30) DEF AckShrinks, AckInv, Table

\* Every step keeps AckInv.
LEMMA AckNext ==
    ASSUME TransportTypeOK, AckInv, TransportTypeOK', [TransportNext]_transportVars
    PROVE  AckInv'
<1>t. /\ ackQueue \in Table /\ acking \in Table /\ enc \in Table /\ popped \in Table
      /\ ackQueue' \in Table /\ acking' \in Table /\ enc' \in Table /\ popped' \in Table
  BY DEF TransportTypeOK
<1>1. ASSUME UNCHANGED <<ackQueue, acking, enc, popped, acks, accepted>> PROVE AckInv'
  BY SMTT(30), <1>1 DEF AckInv
<1>2. ASSUME NEW n \in Dkms, NEW p \in Dkms,
             \/ GeneratorStep(n, p) \/ CooldownElapses(n, p)
      PROVE  AckInv'
  <2>1. CASE TickCountEnc(n, p) \/ TickPlan(n, p) \/ CooldownElapses(n, p)
    BY <1>1, <2>1 DEF TickCountEnc, TickPlan, CooldownElapses, network, history
  <2>2. ASSUME NEW k \in TransportKey, EmitKey(n, p, k) PROVE AckInv'
    BY <1>1, <2>2 DEF EmitKey
  <2>3. ASSUME NEW k \in TransportKey, EmitKeyFails(n, p, k) \/ Reap(n, p, k) PROVE AckInv'
    BY <1>1, <2>3 DEF EmitKeyFails, Reap, network, history
  <2> QED BY <1>2, <2>1, <2>2, <2>3 DEF GeneratorStep
<1>3. ASSUME NEW n \in Dkms,
             (\E f \in frames : OpenDelivery(n, f)) \/ WipeDec(n) \/ WipePending(n)
      PROVE  AckInv'
  BY <1>1, <1>3 DEF OpenDelivery, WipeDec, WipePending, network, history
<1>4. ASSUME NEW n \in Dkms, WipeEnc(n) PROVE AckInv'
  <2>1. \A m, q \in Dkms, j \in TransportKey : j \in enc'[m][q] => j \in enc[m][q]
    BY <1>4, WipeEncShrinks
  <2>2. UNCHANGED <<ackQueue, acking, popped, acks, accepted>>
    BY <1>4 DEF WipeEnc, network, history
  <2>3. AckShrinks
    BY <2>1, <2>2 DEF AckShrinks
  <2> QED BY <2>3, AckShrink
<1>5. ASSUME NEW n \in Dkms, PushDec(n) PROVE AckInv'
  <2> DEFINE p == pump[n].peer
             k == pump[n].key
  <2>1. p \in Dkms /\ k \in TransportKey
    BY <1>5, PumpBusy DEF PushDec
  <2>2. UNCHANGED <<acking, enc, popped, acks>>
    BY <1>5 DEF PushDec, network
  <2>3. CASE Cardinality(dec[n][p]) < DecCeiling
    <3>1. /\ ackQueue' = Put(ackQueue, n, p, k)
          /\ accepted' = [accepted EXCEPT ![k] = inc[n]]
      BY <1>5, <2>3 DEF PushDec
    <3>2. /\ accepted'[k] # 0
          /\ \A j \in TransportKey : j # k => accepted'[j] = accepted[j]
      BY SMTT(30), <2>1, <3>1 DEF TransportTypeOK
    <3>3. \A m, q \in Dkms, j \in TransportKey : j \in ackQueue'[m][q] <=>
             j \in ackQueue[m][q] \/ (m = n /\ q = p /\ j = k)
      BY <1>t, <2>1, <3>1 DEF Table, Put
    <3>4. \A a \in acks : a.key \in TransportKey
      BY DEF TransportTypeOK, Message
    <3> HIDE DEF k, p
    <3>5. \A j \in TransportKey : accepted[j] # 0 => accepted'[j] # 0
      BY <3>2
    <3>6. \A m, q \in Dkms, j \in TransportKey :
             j \in ackQueue'[m][q] \/ j \in acking[q][m] \/ j \in enc[q][m]
                \/ j \in popped[q][m] => accepted'[j] # 0
      BY <3>2, <3>3, <3>5, SMTT(30) DEF AckInv
    <3>7. \A a \in acks' : accepted'[a.key] # 0
      BY <2>2, <3>4, <3>5 DEF AckInv
    <3> QED BY <1>t, <2>2, <3>6, <3>7, SMTT(30) DEF AckInv, Table
  <2>4. CASE ~(Cardinality(dec[n][p]) < DecCeiling)
    BY SMTT(30), <1>1, <1>5, <2>2, <2>4 DEF PushDec
  <2> QED BY <2>3, <2>4
<1>6. ASSUME NEW n \in Dkms, NEW p \in Dkms, FlushAcks(n, p) PROVE AckInv'
  <2>1. \A m, q \in Dkms, j \in TransportKey : j \in ackQueue'[m][q] => j \in ackQueue[m][q]
    BY <1>6, <1>t DEF FlushAcks, Table, Clear
  <2>2. \A a \in acks' : a \in acks \/ a.key \in ackQueue[n][p]
    BY <1>6, SMTT(30) DEF FlushAcks
  <2>3. UNCHANGED <<acking, enc, popped, accepted>>
    BY <1>6 DEF FlushAcks, history
  <2> QED BY SMTT(30), <1>t, <2>1, <2>2, <2>3 DEF AckInv, Table
<1>7. ASSUME NEW a \in acks, OnAckTake(a) PROVE AckInv'
  <2>1. a.src \in Dkms /\ a.dst \in Dkms /\ a.key \in TransportKey
    BY DEF TransportTypeOK, Message
  <2>2. UNCHANGED <<ackQueue, enc, popped, accepted>> /\ acks' \subseteq acks
    BY <1>7 DEF OnAckTake, history
  <2>3. \A m, q \in Dkms, j \in TransportKey :
           j \in acking'[m][q] => j \in acking[m][q] \/ j = a.key
    <3>1. CASE a.key \in ackPending[a.dst][a.src]
      <4>1. acking' = Put(acking, a.dst, a.src, a.key)
        BY <1>7, <3>1 DEF OnAckTake
      <4> QED BY <1>t, <2>1, <4>1 DEF Table, Put
    <3>2. CASE a.key \notin ackPending[a.dst][a.src]
      BY <1>7, <3>2 DEF OnAckTake
    <3> QED BY <3>1, <3>2
  <2>4. accepted[a.key] # 0
    BY SMTT(30) DEF AckInv
  <2> QED BY <1>t, <2>2, <2>3, <2>4, SMTT(30) DEF AckInv, Table
<1>8. ASSUME NEW n \in Dkms, NEW p \in Dkms, NEW k \in TransportKey,
             OnAckPush(n, p, k) \/ PopKey(n, p, k) \/ GiveBack(n, p, k)
      PROVE  AckInv'
  <2>1. \A m, q \in Dkms, j \in TransportKey :
           j \in acking'[m][q] \cup enc'[m][q] \cup popped'[m][q] =>
              j \in acking[m][q] \cup enc[m][q] \cup popped[m][q]
    <3>1. CASE OnAckPush(n, p, k)
      BY <3>1, <1>t, SMTT(30) DEF OnAckPush, Put, Drop, Table
    <3>2. CASE PopKey(n, p, k)
      BY <3>2, <1>t, SMTT(30) DEF PopKey, Put, Drop, Table
    <3>3. CASE GiveBack(n, p, k)
      BY <3>3, <1>t, SMTT(30) DEF GiveBack, Put, Drop, Table
    <3> QED BY <1>8, <3>1, <3>2, <3>3
  <2>2. UNCHANGED <<ackQueue, acks, accepted>>
    <3>1. CASE OnAckPush(n, p, k)
      BY <3>1 DEF OnAckPush, network, history
    <3>2. CASE PopKey(n, p, k) \/ GiveBack(n, p, k)
      BY <3>2 DEF PopKey, GiveBack, network, history
    <3> QED BY <1>8, <3>1, <3>2
  <2>3. AckShrinks
    BY SMTT(30), <2>1, <2>2 DEF AckShrinks
  <2> QED BY <2>3, AckShrink
<1>9. ASSUME NEW n \in Dkms, NEW p \in Dkms, NEW k \in TransportKey, SendEnvelope(n, p, k)
      PROVE  AckInv'
  <2>1. \A m, q \in Dkms, j \in TransportKey : j \in popped'[m][q] => j \in popped[m][q]
    BY SMTT(30), <1>9, <1>t DEF SendEnvelope, Drop, Table
  <2>2. UNCHANGED <<ackQueue, acking, enc, acks, accepted>>
    BY <1>9 DEF SendEnvelope
  <2>3. AckShrinks
    BY <2>1, <2>2 DEF AckShrinks
  <2> QED BY <2>3, AckShrink
<1>10. ASSUME NEW e \in envelopes, ReceiveEnvelope(e) PROVE AckInv'
  BY ZenonT(30), <1>1, <1>10 DEF ReceiveEnvelope
<1>11. ASSUME NEW r \in rejections, Resync(r) PROVE AckInv'
  <2>1. \A m, q \in Dkms, j \in TransportKey : j \in enc'[m][q] => j \in enc[m][q]
    BY <1>11, ResyncShrinks
  <2>2. UNCHANGED <<ackQueue, acking, popped, acks, accepted>>
    BY <1>11 DEF Resync, history
  <2>3. AckShrinks
    BY <2>1, <2>2 DEF AckShrinks
  <2> QED BY <2>3, AckShrink
<1>12. CASE LoseMessage
  <2>1. UNCHANGED <<ackQueue, acking, enc, popped, accepted>> /\ acks' \subseteq acks
    BY <1>12 DEF LoseMessage, node, history
  <2>2. AckShrinks
    BY <2>1 DEF AckShrinks
  <2> QED BY <2>2, AckShrink
<1>13. ASSUME NEW n \in Dkms, RestartDkms(n) PROVE AckInv'
  <2>1. \A m, q \in Dkms, j \in TransportKey :
          /\ j \in ackQueue'[m][q] => j \in ackQueue[m][q]
          /\ j \in acking'[m][q] => j \in acking[m][q]
          /\ j \in enc'[m][q] => j \in enc[m][q]
          /\ j \in popped'[m][q] => j \in popped[m][q]
    BY <1>13, <1>t DEF RestartDkms, Table, ForgetNode
  <2>2. UNCHANGED <<acks, accepted>>
    BY <1>13 DEF RestartDkms, network, history
  <2>3. AckShrinks
    <3>1. \A m, q \in Dkms, j \in TransportKey :
            j \in acking'[m][q] \cup enc'[m][q] \cup popped'[m][q] =>
              j \in acking[m][q] \cup enc[m][q] \cup popped[m][q]
      BY ONLY <2>1, Zenon
    <3>2. \A m, q \in Dkms, j \in TransportKey :
            j \in ackQueue'[m][q] => j \in ackQueue[m][q]
      BY ONLY <2>1, Zenon
    <3>3. acks' \subseteq acks /\ UNCHANGED accepted
      BY ONLY <2>2, Zenon
    <3> QED BY ONLY <3>1, <3>2, <3>3, Zenon DEF AckShrinks
  <2> QED BY <2>3, AckShrink
<1>14. CASE UNCHANGED transportVars
  BY SMTT(30), <1>1, <1>14 DEF transportVars, node, network, history
<1>15. CASE TransportNext
  BY SMTT(30), <1>15, <1>2, <1>3, <1>4, <1>5, <1>6, <1>7, <1>8, <1>9, <1>10, <1>11, <1>12,
     <1>13 DEF TransportNext, Pairs, PumpStep, AckStep, SessionStep
<1> QED BY <1>14, <1>15

-----------------------------------------------------------------------------
(***************************************************************************)
(* The peer's half.  OneTimePad is not inductive by itself: next to PadInv *)
(* it needs that a key travels at most once towards its peer (TwinInv),    *)
(* which rules out that it opens two session keys.  AckInv follows an ACK  *)
(* back from buffer_dec of the peer to buffer_enc of the emitter.          *)
(***************************************************************************)

\* A key reaches its peer once: it is on the wire, in the peer's pump, or stored.
WireInv == \A f \in frames : Born(f.key, f.src, f.dst) /\ accepted[f.key] = 0
WireOnce == \A f, g \in frames : f.key = g.key => f = g
PumpInv ==
    \A n \in Dkms : pump[n].pc # "idle" =>
        /\ Born(pump[n].key, pump[n].peer, n)
        /\ accepted[pump[n].key] = 0
        /\ \A f \in frames : f.key # pump[n].key
StoredInv ==
    \A n, p \in Dkms : \A k \in dec[n][p] :
        Born(k, p, n) /\ accepted[k] # 0 /\ opened[k] = 0
OpenedOnce ==
    \A k \in TransportKey : /\ opened[k] <= 1
                            /\ opened[k] # 0 => accepted[k] # 0
                            /\ accepted[k] # 0 => born[k].inc # 0

TwinInv == WireInv /\ WireOnce /\ PumpInv /\ StoredInv /\ OpenedOnce

IInv == TransportTypeOK /\ PadInv /\ TwinInv /\ AckInv

-----------------------------------------------------------------------------
(***************************************************************************)
(* A key reaches its peer once.                                            *)
(***************************************************************************)

\* Losing frames, emptying buffer_dec and advancing or resetting a pump keep
\* TwinInv.
LEMMA TwinShrink ==
    ASSUME TwinInv,
           frames' \subseteq frames,
           \A m \in Dkms : pump'[m].pc # "idle" =>
              /\ pump[m].pc # "idle"
              /\ pump'[m].key = pump[m].key
              /\ pump'[m].peer = pump[m].peer,
           \A m, q \in Dkms, j \in TransportKey : j \in dec'[m][q] => j \in dec[m][q],
           TransportTypeOK', UNCHANGED <<born, accepted, opened>>
    PROVE  TwinInv'
<1>1. \A m, q \in Dkms : \A j \in dec'[m][q] : j \in dec[m][q]
  <2>1. dec' \in Table
    BY DEF TransportTypeOK
  <2>2. \A m, q \in Dkms : dec'[m][q] \subseteq TransportKey
    BY ONLY <2>1, SMTT(30) DEF Table
  <2>3. QED
    BY <2>2
<1>2. WireInv' /\ WireOnce'
  BY DEF TwinInv, WireInv, WireOnce, Born
<1>3. PumpInv'
  BY SMTT(30) DEF TwinInv, PumpInv, Born
<1>4. StoredInv' /\ OpenedOnce'
  BY <1>1, SMTT(30) DEF TwinInv, StoredInv, OpenedOnce, Born
<1> QED BY <1>2, <1>3, <1>4 DEF TwinInv

\* An id that was never drawn is on no path to a peer.
LEMMA TwinFresh ==
    ASSUME TwinInv, NEW k \in TransportKey, born[k] = NoKey
    PROVE  /\ accepted[k] = 0
           /\ \A f \in frames : f.key # k
           /\ \A m \in Dkms : pump[m].pc # "idle" => pump[m].key # k
           /\ \A m, q \in Dkms : k \notin dec[m][q]
<1>1. born[k].inc = 0
  BY SMTT(30) DEF NoKey
<1> QED BY <1>1 DEF TwinInv, WireInv, PumpInv, StoredInv, OpenedOnce, Born

\* Emission keeps TwinInv: it adds the first and only frame of the key.
LEMMA TwinEmit ==
    ASSUME TransportTypeOK, TwinInv, NEW n \in Dkms, NEW p \in Dkms, NEW k \in TransportKey,
           EmitKey(n, p, k) \/ EmitKeyFails(n, p, k)
    PROVE  TwinInv'
<1> DEFINE b == [src |-> n, dst |-> p, inc |-> inc[n]]
           f0 == FreshFrame(n, p, k)
<1>1. /\ born[k] = NoKey
      /\ born' = [born EXCEPT ![k] = b]
      /\ frames' \subseteq frames \cup {f0}
      /\ UNCHANGED <<pump, dec, accepted, opened>>
  BY DEF EmitKey, EmitKeyFails
<1>2. /\ accepted[k] = 0
      /\ \A f \in frames : f.key # k
      /\ \A m \in Dkms : pump[m].pc # "idle" => pump[m].key # k
      /\ \A m, q \in Dkms : k \notin dec[m][q]
  BY <1>1, TwinFresh
<1>3. /\ born'[k] = b
      /\ born'[k].inc # 0
      /\ \A j \in TransportKey : j # k => born'[j] = born[j]
  <2>1. b \in Birth
    BY DEF TransportTypeOK, Birth
  <2> QED BY ZenonT(30), <1>1, <2>1, BirthStep
<1>4. f0.key = k /\ f0.src = n /\ f0.dst = p
  BY DEF FreshFrame
<1>5. /\ \A f \in frames : f.key \in TransportKey
      /\ \A m \in Dkms : pump[m].pc # "idle" => pump[m].key \in TransportKey
      /\ \A m, q \in Dkms : \A j \in dec[m][q] : j \in TransportKey
  <2>1. \A m \in Dkms : pump[m].pc # "idle" => pump[m].key \in TransportKey
    BY PumpBusy
  <2> QED BY <2>1, SMTT(30) DEF TransportTypeOK, Frame, Table
<1>a. /\ Born(k, n, p)'
      /\ \A j \in TransportKey, m, q \in Dkms : j # k /\ Born(j, m, q) => Born(j, m, q)'
  BY <1>3, SMTT(30) DEF Born
<1> HIDE DEF f0
<1>6. WireInv'
  <2> SUFFICES ASSUME NEW f \in frames'
               PROVE  Born(f.key, f.src, f.dst)' /\ accepted'[f.key] = 0
    BY DEF WireInv
  <2>1. CASE f = f0
    BY <1>1, <1>2, <1>4, <1>a, <2>1
  <2>2. CASE f \in frames
    <3>1. f.key # k /\ f.key \in TransportKey /\ f.src \in Dkms /\ f.dst \in Dkms
      BY <1>2, <2>2 DEF TransportTypeOK, Frame
    <3>2. Born(f.key, f.src, f.dst) /\ accepted[f.key] = 0
      BY <2>2 DEF TwinInv, WireInv
    <3> QED BY <1>1, <1>a, <3>1, <3>2
  <2> QED BY <1>1, <2>1, <2>2
<1>7. WireOnce'
  BY <1>1, <1>2, <1>4 DEF TwinInv, WireOnce
<1>8. PumpInv'
  <2> SUFFICES ASSUME NEW m \in Dkms, pump[m].pc # "idle"
               PROVE  /\ Born(pump[m].key, pump[m].peer, m)'
                      /\ accepted'[pump[m].key] = 0
                      /\ \A f \in frames' : f.key # pump[m].key
    BY <1>1 DEF PumpInv
  <2>1. /\ Born(pump[m].key, pump[m].peer, m)
        /\ accepted[pump[m].key] = 0
        /\ \A f \in frames : f.key # pump[m].key
    BY DEF TwinInv, PumpInv
  <2>2. pump[m].key # k /\ pump[m].key \in TransportKey
    BY <1>2, <1>5
  <2>3. Born(pump[m].key, pump[m].peer, m)'
    BY <1>1, <1>3, <2>1, <2>2 DEF Born
  <2> QED BY <1>1, <1>4, <2>1, <2>2, <2>3
<1>9. StoredInv'
  <2> SUFFICES ASSUME NEW m \in Dkms, NEW q \in Dkms, NEW j \in dec[m][q]
               PROVE  Born(j, q, m)' /\ accepted'[j] # 0 /\ opened'[j] = 0
    BY <1>1 DEF StoredInv
  <2>1. j # k /\ j \in TransportKey
    BY <1>2, <1>5
  <2>2. Born(j, q, m) /\ accepted[j] # 0 /\ opened[j] = 0
    BY DEF TwinInv, StoredInv
  <2> QED BY <1>1, <1>a, <2>1, <2>2
<1>10. OpenedOnce'
  BY <1>1, <1>2, <1>3 DEF TwinInv, OpenedOnce
<1> QED BY <1>6, <1>7, <1>8, <1>9, <1>10 DEF TwinInv

\* The pump takes a frame off the network: TwinInv is kept.
LEMMA TwinOpen ==
    ASSUME TransportTypeOK, TwinInv, NEW n \in Dkms, NEW f \in frames, OpenDelivery(n, f)
    PROVE  TwinInv'
<1>1. /\ f.dst = n
      /\ frames' = frames \ {f}
      /\ UNCHANGED <<dec, born, accepted, opened>>
  BY DEF OpenDelivery, history
<1>2. /\ pump'[n].peer = f.src /\ pump'[n].key = f.key
      /\ \A m \in Dkms : m # n => pump'[m] = pump[m]
  BY DEF OpenDelivery, TransportTypeOK
<1>3. PumpInv'
  <2> SUFFICES ASSUME NEW m \in Dkms, pump'[m].pc # "idle"
               PROVE  /\ Born(pump'[m].key, pump'[m].peer, m)
                      /\ accepted[pump'[m].key] = 0
                      /\ \A g \in frames' : g.key # pump'[m].key
    BY <1>1 DEF PumpInv, Born
  <2>1. CASE m = n
    BY <1>1, <1>2, <2>1, SMTT(30) DEF TwinInv, WireInv, WireOnce
  <2>2. CASE m # n
    BY <1>1, <1>2, <2>2, SMTT(30) DEF TwinInv, PumpInv
  <2> QED BY <2>1, <2>2
<1>4. WireInv' /\ WireOnce'
  BY <1>1 DEF TwinInv, WireInv, WireOnce, Born
<1>5. StoredInv' /\ OpenedOnce'
  BY <1>1, SMTT(30) DEF TwinInv, StoredInv, OpenedOnce, Born
<1> QED BY <1>3, <1>4, <1>5 DEF TwinInv

\* The pump stores the key: it leaves the path and is accepted.
LEMMA TwinPush ==
    ASSUME TransportTypeOK, TwinInv, TransportTypeOK', NEW n \in Dkms, PushDec(n)
    PROVE  TwinInv'
<1> DEFINE p == pump[n].peer
           k == pump[n].key
<1>1. p \in Dkms /\ k \in TransportKey
  BY PumpBusy DEF PushDec
<1>2. /\ Born(k, p, n)
      /\ accepted[k] = 0
      /\ \A f \in frames : f.key # k
      /\ opened[k] = 0
      /\ \A m, q \in Dkms : k \notin dec[m][q]
  BY <1>1 DEF PushDec, TwinInv, PumpInv, StoredInv, OpenedOnce
<1>3. /\ pump'[n].pc = "idle"
      /\ \A m \in Dkms : m # n => pump'[m] = pump[m]
      /\ UNCHANGED <<frames, born, opened>>
  BY SMTT(30) DEF PushDec, TransportTypeOK, IdlePump, network
<1>4. CASE Cardinality(dec[n][p]) < DecCeiling
  <2>1. /\ dec' = Put(dec, n, p, k)
        /\ accepted' = [accepted EXCEPT ![k] = inc[n]]
    BY <1>4 DEF PushDec
  <2>2. /\ accepted'[k] # 0
        /\ \A j \in TransportKey : j # k => accepted'[j] = accepted[j]
    BY <1>1, <2>1 DEF TransportTypeOK
  <2>3. \A m, q \in Dkms, j \in TransportKey : j \in dec'[m][q] <=>
           j \in dec[m][q] \/ (m = n /\ q = p /\ j = k)
    <3>1. dec \in Table
      BY DEF TransportTypeOK
    <3> QED BY <1>1, <2>1, <3>1 DEF Table, Put
  <2>4. ASSUME NEW m \in Dkms, m # n, pump[m].pc # "idle"
        PROVE  pump[m].key # k /\ pump[m].key \in TransportKey
    <3>1. pump[m].key \in TransportKey
      BY <2>4, PumpBusy
    <3>2. born[pump[m].key].dst = m /\ born[k].dst = n
      BY <1>2, <2>4 DEF TwinInv, PumpInv, Born
    <3> QED BY <2>4, <3>1, <3>2
  <2> HIDE DEF k, p
  <2>5. WireInv'
    <3>1. \A f \in frames : f.key \in TransportKey
      BY DEF TransportTypeOK, Frame
    <3>2. \A f \in frames : Born(f.key, f.src, f.dst) /\ accepted'[f.key] = 0
      BY <1>2, <2>2, <3>1 DEF TwinInv, WireInv
    <3> QED BY <1>3, <3>2 DEF WireInv, Born
  <2>6. PumpInv'
    <3> SUFFICES ASSUME NEW m \in Dkms, pump'[m].pc # "idle"
                 PROVE  /\ Born(pump'[m].key, pump'[m].peer, m)
                        /\ accepted'[pump'[m].key] = 0
                        /\ \A f \in frames : f.key # pump'[m].key
      BY <1>3 DEF PumpInv, Born
    <3>1. m # n /\ pump'[m] = pump[m]
      BY <1>3
    <3>2. pump[m].key # k /\ pump[m].key \in TransportKey
      BY <2>4, <3>1
    <3> QED BY <2>2, <3>1, <3>2 DEF TwinInv, PumpInv
  <2>7. StoredInv'
    <3> SUFFICES ASSUME NEW m \in Dkms, NEW q \in Dkms, NEW j \in dec'[m][q]
                 PROVE  Born(j, q, m) /\ accepted'[j] # 0 /\ opened[j] = 0
      BY <1>3, SMTT(30) DEF StoredInv, Born
    <3>1. j \in TransportKey
      BY SMTT(30) DEF TransportTypeOK, Table
    <3>2. CASE m = n /\ q = p /\ j = k
      BY <1>2, <2>2, <3>2
    <3>3. CASE j \in dec[m][q]
      <4>1. j # k
        BY <1>2, <3>3
      <4> QED BY <2>2, <3>1, <3>3, <4>1 DEF TwinInv, StoredInv
    <3> QED BY <2>3, <3>1, <3>2, <3>3
  <2>8. OpenedOnce'
    <3>1. born[k].inc # 0
      BY <1>2 DEF Born
    <3> QED BY <1>2, <1>3, <2>2, <3>1 DEF TwinInv, OpenedOnce
  <2>9. WireOnce'
    BY <1>3 DEF TwinInv, WireOnce
  <2> QED BY <2>5, <2>6, <2>7, <2>8, <2>9 DEF TwinInv
<1>5. CASE ~(Cardinality(dec[n][p]) < DecCeiling)
  BY <1>3, <1>5, TwinShrink DEF PushDec
<1> QED BY <1>4, <1>5

\* The peer takes the twin by id: it was stored once, so it opens one envelope.
LEMMA TwinReceive ==
    ASSUME TransportTypeOK, TwinInv, TransportTypeOK', NEW e \in envelopes, ReceiveEnvelope(e)
    PROVE  TwinInv'
<1>1. e.src \in Dkms /\ e.dst \in Dkms /\ e.key \in TransportKey
  BY DEF TransportTypeOK, Envelope
<1>2. UNCHANGED <<pump, frames, born, accepted>>
  BY DEF ReceiveEnvelope
<1>3. CASE e.key \in dec[e.dst][e.src]
  <2>1. dec' = Drop(dec, e.dst, e.src, e.key)
    BY <1>3 DEF ReceiveEnvelope
  <2>2. \A m, q \in Dkms, j \in TransportKey : j \in dec'[m][q] <=>
           j \in dec[m][q] /\ (m # e.dst \/ q # e.src \/ j # e.key)
    <3>1. dec \in Table
      BY DEF TransportTypeOK
    <3> QED BY <1>1, <2>1, <3>1 DEF Table, Drop
  <2>3. opened[e.key] = 0 /\ accepted[e.key] # 0 /\ Born(e.key, e.src, e.dst)
    BY <1>1, <1>3 DEF TwinInv, StoredInv
  <2>4. /\ opened'[e.key] = 1
        /\ \A j \in TransportKey : j # e.key => opened'[j] = opened[j]
    <3>1. opened' = [opened EXCEPT ![e.key] = @ + 1]
      BY <1>3 DEF ReceiveEnvelope
    <3>2. opened \in [TransportKey -> Nat]
      BY DEF TransportTypeOK
    <3>3. opened'[e.key] = opened[e.key] + 1
      BY <1>1, <3>1, <3>2
    <3> QED BY <2>3, <3>1, <3>2, <3>3, SMTT(30)
  <2>5. ASSUME NEW m \in Dkms, NEW q \in Dkms PROVE e.key \notin dec'[m][q]
    <3>1. e.key \in dec[m][q] => m = e.dst /\ q = e.src
      BY <2>3, SMTT(30) DEF TwinInv, StoredInv, Born
    <3>2. e.key \in dec'[m][q] <=>
             e.key \in dec[m][q] /\ (m # e.dst \/ q # e.src \/ e.key # e.key)
      BY ONLY <1>1, <2>2, m \in Dkms, q \in Dkms
    <3> QED BY ONLY <3>1, <3>2
  <2>6. StoredInv'
    <3> SUFFICES ASSUME NEW m \in Dkms, NEW q \in Dkms, NEW j \in dec'[m][q]
                 PROVE  Born(j, q, m)' /\ accepted'[j] # 0 /\ opened'[j] = 0
      BY DEF StoredInv
    <3>1. j \in TransportKey
      BY SMTT(30) DEF TransportTypeOK, Table
    <3>2. j \in dec[m][q] /\ j # e.key
      BY <2>2, <2>5, <3>1, SMTT(30)
    <3>3. Born(j, q, m) /\ accepted[j] # 0 /\ opened[j] = 0
      BY <3>2 DEF TwinInv, StoredInv
    <3>4. Born(j, q, m)'
      BY <1>2, <3>3 DEF Born
    <3> QED BY <1>2, <2>4, <3>1, <3>2, <3>3, <3>4
  <2>7. OpenedOnce'
    BY SMTT(30), <1>2, <2>3, <2>4 DEF TwinInv, OpenedOnce
  <2>8. WireInv' /\ WireOnce' /\ PumpInv'
    <3>1. WireInv /\ WireOnce /\ PumpInv
      BY DEF TwinInv
    <3>2. WireInv'
      BY ONLY <1>2, <3>1 DEF WireInv, Born
    <3>3. WireOnce'
      BY ONLY <1>2, <3>1 DEF WireOnce
    <3>4. PumpInv'
      BY ONLY <1>2, <3>1 DEF PumpInv, Born
    <3> QED BY <3>2, <3>3, <3>4
  <2> QED BY <2>6, <2>7, <2>8 DEF TwinInv
<1>4. CASE e.key \notin dec[e.dst][e.src]
  BY <1>2, <1>4, TwinShrink DEF ReceiveEnvelope
<1> QED BY <1>3, <1>4

\* The wipe of buffer_dec only takes keys out of it.
LEMMA WipeDecShrinks ==
    ASSUME TransportTypeOK, NEW n \in Dkms, WipeDec(n)
    PROVE  \A m, q \in Dkms, j \in TransportKey : j \in dec'[m][q] => j \in dec[m][q]
BY SMTT(30) DEF WipeDec, TransportTypeOK, Table, Clear

\* Every step keeps TwinInv.
LEMMA TwinNext ==
    ASSUME TransportTypeOK, TwinInv, TransportTypeOK', [TransportNext]_transportVars
    PROVE  TwinInv'
<1>1. ASSUME UNCHANGED <<frames, pump, dec, born, accepted, opened>> PROVE TwinInv'
  BY SMTT(30), <1>1, TwinShrink
<1>2. ASSUME NEW n \in Dkms, NEW p \in Dkms,
             \/ TickCountEnc(n, p) \/ TickPlan(n, p)
             \/ \E k \in TransportKey : Reap(n, p, k)
             \/ AckStep(n, p) \/ SessionStep(n, p) \/ CooldownElapses(n, p)
      PROVE  TwinInv'
  <2>1. CASE TickCountEnc(n, p) \/ TickPlan(n, p) \/ CooldownElapses(n, p)
    BY <1>1, <2>1 DEF TickCountEnc, TickPlan, CooldownElapses, network, history
  <2>2. ASSUME NEW k \in TransportKey, Reap(n, p, k) PROVE TwinInv'
    BY <1>1, <2>2 DEF Reap, network, history
  <2>3. CASE AckStep(n, p)
    BY <1>1, <2>3 DEF AckStep, FlushAcks, OnAckPush, network, history
  <2>4. ASSUME NEW k \in TransportKey, PopKey(n, p, k) \/ GiveBack(n, p, k) PROVE TwinInv'
    BY <1>1, <2>4 DEF PopKey, GiveBack, network, history
  <2>5. ASSUME NEW k \in TransportKey, SendEnvelope(n, p, k) PROVE TwinInv'
    BY <1>1, <2>5 DEF SendEnvelope
  <2>6. CASE SessionStep(n, p)
    BY <2>4, <2>5, <2>6 DEF SessionStep
  <2> QED BY <1>2, <2>1, <2>2, <2>3, <2>6
<1>3. ASSUME NEW a \in acks, OnAckTake(a) PROVE TwinInv'
  BY <1>1, <1>3 DEF OnAckTake, history
<1>4. ASSUME NEW r \in rejections, Resync(r) PROVE TwinInv'
  BY <1>1, <1>4 DEF Resync, history
<1>5. CASE UNCHANGED transportVars
  BY <1>1, <1>5 DEF transportVars, node, network, history
<1>6. CASE LoseMessage
  BY <1>6, TwinShrink DEF LoseMessage, node, history
<1>7. ASSUME NEW n \in Dkms, WipeEnc(n) \/ WipeDec(n) \/ WipePending(n)
      PROVE  TwinInv'
  <2>1. \A m \in Dkms : pump'[m].pc # "idle" =>
           /\ pump[m].pc # "idle"
           /\ pump'[m].key = pump[m].key
           /\ pump'[m].peer = pump[m].peer
    <3>1. /\ pump[n].pc # "idle"
          /\ pump'[n].key = pump[n].key
          /\ pump'[n].peer = pump[n].peer
      BY SMTT(30), <1>7 DEF WipeEnc, WipeDec, WipePending, PumpGoto, TransportTypeOK
    <3>2. \A m \in Dkms : m # n => pump'[m] = pump[m]
      BY SMTT(30), <1>7 DEF WipeEnc, WipeDec, WipePending, PumpGoto, TransportTypeOK
    <3> QED BY SMTT(30), <3>1, <3>2
  <2>2. \A m, q \in Dkms, j \in TransportKey : j \in dec'[m][q] => j \in dec[m][q]
    <3>1. CASE WipeDec(n)
      BY <3>1, WipeDecShrinks
    <3>2. CASE WipeEnc(n) \/ WipePending(n)
      BY <3>2 DEF WipeEnc, WipePending
    <3> QED BY SMTT(30), <1>7, <3>1, <3>2
  <2>3. UNCHANGED <<frames, born, accepted, opened>>
    BY <1>7 DEF WipeEnc, WipeDec, WipePending, network, history
  <2> QED BY <2>1, <2>2, <2>3, TwinShrink
<1>8. ASSUME NEW n \in Dkms, RestartDkms(n) PROVE TwinInv'
  <2>1. pump' = [pump EXCEPT ![n] = IdlePump]
    BY <1>8 DEF RestartDkms
  <2>2. DOMAIN pump = Dkms
    BY DEF TransportTypeOK
  <2>3. IdlePump.pc = "idle"
    BY DEF IdlePump
  <2>4. \A m \in Dkms : pump'[m].pc # "idle" => pump'[m] = pump[m]
    BY <2>1, <2>2, <2>3
  <2>5. \A m, q \in Dkms, j \in TransportKey : j \in dec'[m][q] => j \in dec[m][q]
    BY <1>8, SMTT(30) DEF RestartDkms, TransportTypeOK, Table, ForgetNode
  <2>6. frames' \subseteq frames /\ UNCHANGED <<born, accepted, opened>>
    BY <1>8 DEF RestartDkms, network, history
  <2>7. \A m \in Dkms : pump'[m].pc # "idle" =>
           pump[m].pc # "idle" /\ pump'[m].key = pump[m].key /\ pump'[m].peer = pump[m].peer
    BY <2>4
  <2> QED BY ONLY TwinInv, TransportTypeOK', <2>5, <2>6, <2>7, TwinShrink
<1>9. CASE TransportNext
  BY SMTT(30), <1>9, <1>2, <1>3, <1>4, <1>6, <1>7, <1>8,
     TwinEmit, TwinOpen, TwinPush, TwinReceive
     DEF TransportNext, Pairs, GeneratorStep, PumpStep
<1> QED BY <1>5, <1>9

-----------------------------------------------------------------------------
(***************************************************************************)
(* The safety of the cycle.                                                *)
(***************************************************************************)

\* Initially every table is empty and no key was drawn.
LEMMA InvInit == TransportInit => IInv
<1> SUFFICES ASSUME TransportInit PROVE IInv
  OBVIOUS
<1>1. TransportTypeOK
  BY TypeInit
<1>2. PadInv
  BY PadInit
<1>3. TwinInv
  <2>1. WireInv /\ WireOnce
    BY DEF TransportInit, WireInv, WireOnce
  <2>2. PumpInv
    BY DEF TransportInit, PumpInv, IdlePump
  <2>3. StoredInv /\ OpenedOnce
    BY SMTT(30) DEF TransportInit, Empty, StoredInv, OpenedOnce
  <2> QED BY <2>1, <2>2, <2>3 DEF TwinInv
<1>4. AckInv
  BY DEF TransportInit, Empty, AckInv
<1> QED BY <1>1, <1>2, <1>3, <1>4 DEF IInv

\* The strengthened invariant holds in every reachable state.
THEOREM InvCorrect == TransportSpec => []IInv
<1>1. IInv /\ [TransportNext]_transportVars => IInv'
  BY TypeNext, PadNext, TwinNext, AckNext DEF IInv
<1> QED BY <1>1, InvInit, PTL DEF TransportSpec

\* What a node holds was emitted by its running execution for that peer.
THEOREM HeldByEmitterCorrect == TransportSpec => []HeldByEmitter
<1>1. TransportTypeOK /\ PadInv /\ [TransportNext]_transportVars => (TransportTypeOK /\ PadInv)'
  BY TypeNext, PadNext
<1>2. PadInv => HeldByEmitter
  BY DEF PadInv
<1> QED BY <1>1, <1>2, TypeInit, PadInit, PTL DEF TransportSpec

\* No transport key ever wraps two session keys that leave, or opens two: for
\* any number of nodes, keys and restarts and whatever is lost on the way.
THEOREM OneTimePadCorrect == TransportSpec => []OneTimePad
<1>1. IInv => OneTimePad
  BY SMTT(30) DEF IInv, PadInv, SpentOnce, TwinInv, OpenedOnce, OneTimePad
<1> QED BY <1>1, InvCorrect, PTL

\* What a node can serve was stored by the peer first.
THEOREM ServableWasAcceptedCorrect == TransportSpec => []ServableWasAccepted
<1>1. IInv => ServableWasAccepted
  BY ZenonT(30) DEF IInv, AckInv, ServableWasAccepted
<1> QED BY <1>1, InvCorrect, PTL

=============================================================================
