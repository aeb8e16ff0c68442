--------------------------- MODULE OrrEpochsProofs ---------------------------
(***************************************************************************)
(* Proofs about OrrEpochs, for every Keep, MaxEpoch and MaxFaults: the     *)
(* state stays in its types, rotations are hitless (Hitless), and what the *)
(* responder confirms the initiator holds (ConfirmedOpens).                *)
(***************************************************************************)
EXTENDS OrrEpochs, FiniteSetTheorems, TLAPS

\* Most steps are first-order ones.
USE Zenon

-----------------------------------------------------------------------------
(* The inductive invariant.                                                *)

Number == {0} \cup Secret
Requested == 1 .. MaxEpoch + 1
FlagOf == [who : {"none", "bootstrap", "rebootstrap", "passive", "rotation"},
           at : {"none", "fetch", "establish", "req", "fin"},
           epoch : {-1} \cup Requested, key : Number, secret : Number]
MsgOf == [kind : {"none", "establish", "established", "req", "epk", "refused", "fin", "nokey", "ok"},
          epoch : {-1} \cup Requested, key : Number, to : Nat, secret : Number]
TaskOf == [at : {"fetch", "try", "store", "done"}, pk : Nat, secret : Number]

\* master_secrets of one peer.
Table(f) == f \in [DOMAIN f -> Secret] /\ DOMAIN f \subseteq 0 .. MaxEpoch

\* The types of TypeOK, with those of the task, the flags and the calls.
CoreType ==
    /\ run \in [Node -> Nat] /\ pubkeys \in [Node -> Nat]
    /\ faults \in 0 .. MaxFaults
    /\ \A x \in Node : run[x] \in 1 .. faults + 1 /\ pubkeys[x] <= run[Peer(x)]
SecretsType ==
    /\ boot \in [Node -> Number]
    /\ DOMAIN master = Node /\ \A x \in Node : Table(master[x])
    /\ esk \subseteq Requested /\ sendEpoch \in -1 .. MaxEpoch
CallsType == task \in TaskOf /\ op \in [Node -> FlagOf] /\ net \in [Node -> MsgOf]
StateType == CoreType /\ SecretsType /\ CallsType

\* Where the holder of the flag is, and what its call can be.
Stage(x) ==
    \/ op[x] = Idle /\ net[x] = NoMsg
    \/ /\ op[x].who \in {"rebootstrap", "passive"} /\ op[x].at = "fetch" /\ net[x] = NoMsg
    \/ /\ op[x].who \in {"bootstrap", "rebootstrap", "passive"} /\ op[x].at = "establish"
       /\ op[x].secret # 0 /\ net[x].kind \in {"none", "establish", "established"}
    \/ /\ op[x].who = "rotation" /\ op[x].at = "req" /\ op[x].epoch \in Requested
       /\ net[x].kind \in {"none", "req", "epk", "refused"}
    \/ /\ op[x].who = "rotation" /\ op[x].at = "fin" /\ op[x].epoch \in 1 .. MaxEpoch
       /\ net[x].kind \in {"none", "fin", "ok", "nokey", "refused"}

\* Only a bootstraps and rotates, the one before its task has ended and the other
\* after it; what is in a request was made up by its sender.
CallInv ==
    /\ \A x \in Node : Stage(x)
    /\ op["b"].who \in {"none", "passive"}
    /\ op["a"].who = "bootstrap" => task.at = "try"
    /\ op["a"].who \in {"rotation", "rebootstrap"} => task.at = "done"
    /\ op["a"].who = "rotation" => op["a"].key # 0
    /\ task.at = "try" => task.pk \in 1 .. run["b"]
    /\ task.at = "store" => task.secret # 0
    /\ \A x \in Node : net[x].kind = "establish" => net[x].secret # 0
    /\ net["a"].kind \in {"req", "fin"} =>
          net["a"].epoch = op["a"].epoch /\ net["a"].key = op["a"].key

\* What a FIN carries a holds already, unless a's secrets were replaced since.
FinInv ==
    net["a"].kind = "fin" =>
        /\ net["a"].secret # 0
        /\ boot["a"] = net["a"].key =>
             /\ net["a"].epoch \in DOMAIN master["a"]
             /\ master["a"][net["a"].epoch] = net["a"].secret

\* A secret that b is sending is not one a has or is about to have.
SentInv ==
    net["b"].kind = "establish" =>
        net["b"].secret \notin {task.secret, boot["a"], op["a"].key, op["a"].secret, net["a"].key}

\* The pair before and after the first bootstrap, as long as nobody restarts and no
\* passive rebootstrap begins.
Confirmed == IF sendEpoch = -1 THEN 0 ELSE sendEpoch
Negotiated == Confirmed + 1

Unborn == boot["a"] = 0 /\ master["a"] = Empty /\ sendEpoch = -1
Seeded(s) == boot["b"] = s /\ master["b"] = Put(Empty, 0, s) /\ esk = {}

Fetching == Unborn /\ op["a"] = Idle
Trying ==
    /\ Unborn /\ op["a"].who \in {"none", "bootstrap"}
    /\ net["a"].kind = "establish" => net["a"].to = 1 /\ net["a"].secret = op["a"].secret
    /\ net["a"].kind = "established" => Seeded(op["a"].secret)
Storing == Unborn /\ op["a"] = Idle /\ Seeded(task.secret)

Shared(e) ==
    /\ e \in DOMAIN master["a"] \cap DOMAIN master["b"]
    /\ master["a"][e] = master["b"][e]
Rotating ==
    /\ op["a"].epoch = Negotiated /\ op["a"].key = boot["a"]
    /\ net["a"].kind \in {"req", "epk", "fin", "ok"}
    /\ net["a"].kind \in {"epk", "fin"} => Negotiated \in esk
    /\ net["a"].kind = "ok" => Shared(Negotiated)
Bonded ==
    /\ boot["a"] # 0 /\ boot["a"] = boot["b"] /\ Shared(Confirmed)
    /\ op["a"].who \in {"none", "rotation"}
    /\ op["a"].who = "rotation" => Rotating
    /\ DOMAIN master["a"] \subseteq 0 .. Negotiated /\ DOMAIN master["b"] \subseteq 0 .. Negotiated
    /\ Negotiated \in DOMAIN master["a"] => op["a"].at = "fin"
    /\ faults = 0 /\ Negotiated \in DOMAIN master["b"] => net["a"].kind = "ok"

PairInv ==
    run["a"] = 1 /\ run["b"] = 1 /\ ~ passive =>
        /\ op["b"] = Idle
        /\ task.at = "fetch" => Fetching
        /\ task.at = "try" => Trying
        /\ task.at = "store" => Storing
        /\ task.at = "done" => Bonded

IInv == StateType /\ CallInv /\ FinInv /\ SentInv /\ PairInv

-----------------------------------------------------------------------------
(* Operators.                                                              *)

\* Node and Peer: the two ends of the pair.
LEMMA Ends2 ==
    /\ "a" \in Node /\ "b" \in Node /\ "a" # "b"
    /\ Peer("a") = "b" /\ Peer("b") = "a"
    /\ \A x \in Node : x = "a" \/ x = "b"
    /\ \A x \in Node : Peer(x) \in Node /\ Peer(x) # x /\ Peer(Peer(x)) = x
                       /\ \A y \in Node : y = x \/ y = Peer(x)
BY DEF Node, Peer

\* The flag of rebootstrap_inflight is the record of its five parts.
LEMMA FlagIs ==
    ASSUME NEW w, NEW t, NEW e, NEW k, NEW s
    PROVE  /\ Flag(w, t, e, k, s).who = w /\ Flag(w, t, e, k, s).at = t
           /\ Flag(w, t, e, k, s).epoch = e /\ Flag(w, t, e, k, s).key = k
           /\ Flag(w, t, e, k, s).secret = s
BY DEF Flag

\* A flag of well-typed parts is well typed.
LEMMA FlagType ==
    ASSUME NEW w \in {"none", "bootstrap", "rebootstrap", "passive", "rotation"},
           NEW t \in {"none", "fetch", "establish", "req", "fin"},
           NEW e \in {-1} \cup Requested, NEW k \in Number, NEW s \in Number
    PROVE  Flag(w, t, e, k, s) \in FlagOf
BY DEF Flag, FlagOf

\* A request or an answer is the record of its five parts.
LEMMA MsgIs ==
    ASSUME NEW w, NEW e, NEW k, NEW t, NEW s
    PROVE  /\ Msg(w, e, k, t, s).kind = w /\ Msg(w, e, k, t, s).epoch = e
           /\ Msg(w, e, k, t, s).key = k /\ Msg(w, e, k, t, s).to = t
           /\ Msg(w, e, k, t, s).secret = s
BY DEF Msg

\* A message of well-typed parts is well typed.
LEMMA MsgType ==
    ASSUME NEW w \in {"none", "establish", "established", "req", "epk", "refused",
                      "fin", "nokey", "ok"},
           NEW e \in {-1} \cup Requested, NEW k \in Number, NEW t \in Nat, NEW s \in Number
    PROVE  Msg(w, e, k, t, s) \in MsgOf
BY DEF Msg, MsgOf

\* The flag nobody holds.
LEMMA IdleIs ==
    /\ Idle \in FlagOf
    /\ Idle.who = "none" /\ Idle.at = "none" /\ Idle.epoch = -1 /\ Idle.key = 0 /\ Idle.secret = 0
<1>1. 0 \in Number /\ -1 \in {-1} \cup Requested
  BY DEF Number
<1>2. Flag("none", "none", -1, 0, 0) \in FlagOf
  BY <1>1, FlagType
<1>3. QED
  BY <1>2, FlagIs, SMT DEF Idle

\* An answer carries its kind only.
LEMMA AnswerIs ==
    ASSUME NEW w \in {"none", "established", "epk", "refused", "nokey", "ok"}
    PROVE  /\ Answer(w) \in MsgOf /\ Answer(w).kind = w /\ Answer(w).epoch = -1
           /\ Answer(w).key = 0 /\ Answer(w).to = 0 /\ Answer(w).secret = 0
<1>1. 0 \in Number /\ -1 \in {-1} \cup Requested /\ 0 \in Nat
  BY DEF Number
<1>2. Msg(w, -1, 0, 0, 0) \in MsgOf
  BY <1>1, MsgType
<1>3. QED
  BY <1>2, MsgIs, SMT DEF Answer

\* No call under way.
LEMMA NoMsgIs ==
    /\ NoMsg \in MsgOf /\ NoMsg.kind = "none" /\ NoMsg.epoch = -1
    /\ NoMsg.key = 0 /\ NoMsg.to = 0 /\ NoMsg.secret = 0
BY AnswerIs DEF NoMsg

\* The empty history is a table.
LEMMA EmptyIs == Table(Empty) /\ DOMAIN Empty = {}
BY DEF Table, Empty

\* Put adds one entry, or replaces it, and keeps the others.
LEMMA PutIs ==
    ASSUME NEW f, NEW e, NEW v
    PROVE  /\ DOMAIN Put(f, e, v) = DOMAIN f \cup {e}
           /\ Put(f, e, v)[e] = v
           /\ \A d \in DOMAIN f : d # e => Put(f, e, v)[d] = f[d]
BY DEF Put

\* Put keeps tables tables.
LEMMA PutTable ==
    ASSUME NEW f, Table(f), NEW e \in 0 .. MaxEpoch, NEW v \in Secret
    PROVE  Table(Put(f, e, v))
<1>1. f \in [DOMAIN f -> Secret] /\ DOMAIN f \subseteq 0 .. MaxEpoch
  BY DEF Table
<1>2. Put(f, e, v) \in [DOMAIN f \cup {e} -> Secret]
  BY <1>1 DEF Put
<1>3. QED
  BY <1>1, <1>2 DEF Table

\* Restrict keeps tables tables, and the entries it does not drop.
LEMMA RestrictTable ==
    ASSUME NEW f, Table(f), NEW S, S \subseteq DOMAIN f
    PROVE  /\ Table(Restrict(f, S)) /\ DOMAIN Restrict(f, S) = S
           /\ \A d \in S : Restrict(f, S)[d] = f[d]
<1>1. f \in [DOMAIN f -> Secret] /\ DOMAIN f \subseteq 0 .. MaxEpoch
  BY DEF Table
<1>2. Restrict(f, S) \in [S -> Secret] /\ \A d \in S : Restrict(f, S)[d] = f[d]
  BY <1>1 DEF Restrict
<1>3. QED
  BY <1>1, <1>2 DEF Table

\* Removing an entry keeps the others.
LEMMA RemovedIs ==
    ASSUME NEW f, Table(f), NEW e
    PROVE  /\ Table(Removed(f, e)) /\ DOMAIN Removed(f, e) = DOMAIN f \ {e}
           /\ \A d \in DOMAIN f : d # e => Removed(f, e)[d] = f[d]
<1>1. DOMAIN f \ {e} \subseteq DOMAIN f
  OBVIOUS
<1>2. QED
  BY <1>1, RestrictTable DEF Removed

\* drop_old_epochs_for keeps the newest epoch and the one before it, whatever
\* epoch_history_keep is: the clamp to two is what a rotation needs.
LEMMA NewestIs ==
    ASSUME NEW n \in Nat, NEW S \in SUBSET (0 .. n)
    PROVE  /\ Newest(S) \subseteq S
           /\ n \in S => n \in Newest(S)
           /\ n - 1 \in S => n - 1 \in Newest(S)
<1> DEFINE After(e) == {d \in S : d > e}
           k == IF Keep < 2 THEN 2 ELSE Keep
<1>1. k \in Nat /\ k >= 2
  BY OrrAssumption, SMT
<1>2. Newest(S) = {e \in S : Cardinality(After(e)) < k}
  BY DEF Newest
<1>a. \A d \in S : d \in Int /\ d <= n
  BY SMT
<1>c. \A d \in S : ~(d > n)
  BY <1>a, SMT
<1>3. After(n) = {}
  BY <1>c, Zenon
<1>b. \A d \in After(n - 1) : d = n
  BY <1>a, SMT
<1>4. After(n - 1) = {} \/ After(n - 1) = {n}
  <2> HIDE DEF After
  <2> QED BY <1>b, Zenon
<1>5. Cardinality(After(n)) = 0
  BY <1>3, FS_EmptySet
<1>6. Cardinality(After(n - 1)) \in {0, 1}
  BY <1>4, FS_EmptySet, FS_Singleton
<1> HIDE DEF After, k
<1>7. QED
  BY <1>1, <1>2, <1>5, <1>6, SMT

\* Newest takes from what it is given.
LEMMA NewestPart ==
    ASSUME NEW S PROVE Newest(S) \subseteq S
BY DEF Newest

-----------------------------------------------------------------------------
(* A random secret is none of those held.                                  *)

\* What one end holds: at most one secret per epoch and five more.
LEMMA HeldIs ==
    ASSUME StateType, NEW x \in Node
    PROVE  IsFiniteSet(HeldBy(x)) /\ Cardinality(HeldBy(x)) <= MaxEpoch + 6
<1> DEFINE D == DOMAIN master[x]
           R == Range(master[x])
           five == {boot[x], op[x].key, op[x].secret, net[x].key, net[x].secret}
<1>1. D \subseteq 0 .. MaxEpoch
  BY DEF StateType, SecretsType, Table
<1>2. IsFiniteSet(0 .. MaxEpoch) /\ Cardinality(0 .. MaxEpoch) = MaxEpoch + 1
  BY OrrAssumption, FS_Interval, SMT
<1>3. IsFiniteSet(D) /\ Cardinality(D) <= MaxEpoch + 1
  <2>1. IsFiniteSet(D) /\ Cardinality(D) <= Cardinality(0 .. MaxEpoch)
    BY <1>1, <1>2, FS_Subset
  <2> QED BY <1>2, <2>1
<1>4. master[x] \in Surjection(D, R)
  <2>1. master[x] \in [D -> Secret]
    BY DEF StateType, SecretsType, Table
  <2>2. master[x] \in [D -> R]
    BY <2>1 DEF Range
  <2>3. \A t \in R : \E d \in D : master[x][d] = t
    BY DEF Range
  <2>4. QED
    BY <2>2, <2>3 DEF Surjection
<1>5. IsFiniteSet(R) /\ Cardinality(R) <= Cardinality(D)
  BY <1>3, <1>4, FS_Surjection
<1>6. Cardinality(R) \in Nat /\ Cardinality(D) \in Nat
  BY <1>3, <1>5, FS_CardinalityType
<1> DEFINE A(S, v) == S \cup {v}
<1>7. \A S, v : IsFiniteSet(S) =>
          IsFiniteSet(A(S, v)) /\ Cardinality(A(S, v)) \in Nat /\ Cardinality(S) \in Nat
          /\ Cardinality(A(S, v)) <= Cardinality(S) + 1
  <2> SUFFICES ASSUME NEW S, NEW v, IsFiniteSet(S)
               PROVE  IsFiniteSet(A(S, v)) /\ Cardinality(A(S, v)) \in Nat
                      /\ Cardinality(S) \in Nat
                      /\ Cardinality(A(S, v)) <= Cardinality(S) + 1
    OBVIOUS
  <2>1. IsFiniteSet(A(S, v))
        /\ Cardinality(A(S, v)) = IF v \in S THEN Cardinality(S) ELSE Cardinality(S) + 1
    BY FS_AddElement
  <2> HIDE DEF A
  <2>2. Cardinality(A(S, v)) \in Nat /\ Cardinality(S) \in Nat
    BY <2>1, FS_CardinalityType
  <2>3. QED
    BY <2>1, <2>2, SMT
<1>8. HeldBy(x) = A(A(A(A(A(R, boot[x]), op[x].key), op[x].secret), net[x].key), net[x].secret)
  BY DEF HeldBy
<1> HIDE DEF A, R, D
<1>9. QED
  <2> DEFINE R1 == A(R, boot[x])
             R2 == A(R1, op[x].key)
             R3 == A(R2, op[x].secret)
             R4 == A(R3, net[x].key)
             R5 == A(R4, net[x].secret)
  <2>1. IsFiniteSet(R1) /\ Cardinality(R1) \in Nat /\ Cardinality(R1) <= Cardinality(R) + 1
    BY <1>5, <1>7
  <2>2. HeldBy(x) = R5
    BY <1>8
  <2> HIDE DEF R1
  <2>3. IsFiniteSet(R2) /\ Cardinality(R2) \in Nat /\ Cardinality(R2) <= Cardinality(R1) + 1
    BY <2>1, <1>7
  <2> HIDE DEF R2
  <2>4. IsFiniteSet(R3) /\ Cardinality(R3) \in Nat /\ Cardinality(R3) <= Cardinality(R2) + 1
    BY <2>3, <1>7
  <2> HIDE DEF R3
  <2>5. IsFiniteSet(R4) /\ Cardinality(R4) \in Nat /\ Cardinality(R4) <= Cardinality(R3) + 1
    BY <2>4, <1>7
  <2> HIDE DEF R4
  <2>6. IsFiniteSet(R5) /\ Cardinality(R5) \in Nat /\ Cardinality(R5) <= Cardinality(R4) + 1
    BY <2>5, <1>7
  <2> HIDE DEF R5
  <2>7. QED
    BY <2>1, <2>2, <2>3, <2>4, <2>5, <2>6, <1>3, <1>5, <1>6, OrrAssumption, SMT

\* The bound on the secrets is never in the way: there is always a fresh one.
LEMMA FreshIs ==
    ASSUME StateType
    PROVE  Fresh \in Secret /\ Fresh \notin InUse /\ Fresh # 0 /\ Fresh \in Number
<1> DEFINE A == HeldBy("a")
           B == HeldBy("b")
           T == {task.secret}
<1>1. IsFiniteSet(A) /\ Cardinality(A) <= MaxEpoch + 6
  BY HeldIs, Ends2
<1>2. IsFiniteSet(B) /\ Cardinality(B) <= MaxEpoch + 6
  BY HeldIs, Ends2
<1>3. IsFiniteSet(T) /\ Cardinality(T) = 1
  BY FS_Singleton
<1>4. InUse = (T \cup A) \cup B
  BY DEF InUse
<1> HIDE DEF A, B, T
<1>5. \A S, U : IsFiniteSet(S) /\ IsFiniteSet(U) =>
          /\ IsFiniteSet(S \cup U) /\ Cardinality(S \cup U) \in Nat
          /\ Cardinality(S) \in Nat /\ Cardinality(U) \in Nat
          /\ Cardinality(S \cup U) <= Cardinality(S) + Cardinality(U)
  <2> SUFFICES ASSUME NEW S, NEW U, IsFiniteSet(S), IsFiniteSet(U)
               PROVE  /\ IsFiniteSet(S \cup U) /\ Cardinality(S \cup U) \in Nat
                      /\ Cardinality(S) \in Nat /\ Cardinality(U) \in Nat
                      /\ Cardinality(S \cup U) <= Cardinality(S) + Cardinality(U)
    OBVIOUS
  <2>1. IsFiniteSet(S \cup U)
        /\ Cardinality(S \cup U) = Cardinality(S) + Cardinality(U) - Cardinality(S \cap U)
    BY FS_Union
  <2>2. IsFiniteSet(S \cap U)
    BY FS_Subset
  <2>3. Cardinality(S) \in Nat /\ Cardinality(U) \in Nat /\ Cardinality(S \cap U) \in Nat
        /\ Cardinality(S \cup U) \in Nat
    BY <2>1, <2>2, FS_CardinalityType
  <2>4. QED
    BY <2>1, <2>3, SMT
<1>6. IsFiniteSet(T \cup A) /\ Cardinality(T \cup A) \in Nat /\ Cardinality(A) \in Nat
      /\ Cardinality(T \cup A) <= 1 + Cardinality(A)
  BY <1>1, <1>3, <1>5
<1>7. IsFiniteSet(InUse) /\ Cardinality(InUse) \in Nat /\ Cardinality(B) \in Nat
      /\ Cardinality(InUse) <= Cardinality(T \cup A) + Cardinality(B)
  BY <1>2, <1>4, <1>5, <1>6
<1>8. Cardinality(InUse) <= 2 * MaxEpoch + 13
  BY <1>1, <1>2, <1>6, <1>7, OrrAssumption, SMT
<1>9. Cardinality(Secret) = 2 * MaxEpoch + 14
  <2>1. 2 * MaxEpoch + 14 \in Int /\ ~ 1 > 2 * MaxEpoch + 14
    BY OrrAssumption, SMT
  <2>2. QED
    BY <2>1, FS_Interval, SMT DEF Secret
<1>10. ~ Secret \subseteq InUse
  <2> SUFFICES ASSUME Secret \subseteq InUse PROVE FALSE
    OBVIOUS
  <2>1. Cardinality(Secret) <= Cardinality(InUse)
    BY <1>7, FS_Subset
  <2>2. QED
    BY <2>1, <1>7, <1>8, <1>9, OrrAssumption, SMT
<1>11. \E s \in Secret : s \notin InUse
  BY <1>10
<1>12. Fresh \in Secret /\ Fresh \notin InUse
  BY <1>11 DEF Fresh
<1>13. 0 \notin Secret
  BY OrrAssumption, SMT DEF Secret
<1>14. QED
  BY <1>12, <1>13 DEF Number

\* So a random secret is not one the calls and the task have.
LEMMA FreshApart ==
    ASSUME StateType
    PROVE  /\ Fresh # task.secret
           /\ \A x \in Node : Fresh \notin {boot[x], op[x].key, op[x].secret, net[x].key, net[x].secret}
BY FreshIs, Ends2 DEF InUse, HeldBy

-----------------------------------------------------------------------------
(* Types.                                                                  *)

\* clear_peer_secrets and reset_for_bootstrap replace what x has with its peer,
\* and leave the peer's.
LEMMA ReplacedIs ==
    ASSUME SecretsType, NEW x \in Node, NEW s \in Number, Replaced(x, s)
    PROVE  /\ SecretsType'
           /\ boot'[x] = s /\ boot'[Peer(x)] = boot[Peer(x)]
           /\ master'[x] = IF s = 0 THEN Empty ELSE Put(Empty, 0, s)
           /\ master'[Peer(x)] = master[Peer(x)]
           /\ sendEpoch' = (IF x = "a" THEN -1 ELSE sendEpoch)
           /\ esk' = (IF x = "b" THEN {} ELSE esk)
<1> DEFINE m == IF s = 0 THEN Empty ELSE Put(Empty, 0, s)
<1>1. Table(m)
  <2>1. CASE s = 0
    BY <2>1, EmptyIs
  <2>2. CASE s # 0
    <3>1. s \in Secret /\ 0 \in 0 .. MaxEpoch
      BY <2>2, OrrAssumption, SMT DEF Number
    <3>2. QED
      BY <3>1, <2>2, EmptyIs, PutTable
  <2>3. QED
    BY <2>1, <2>2
<1>2. boot' = [boot EXCEPT ![x] = s] /\ master' = [master EXCEPT ![x] = m]
      /\ sendEpoch' = (IF x = "a" THEN -1 ELSE sendEpoch)
      /\ esk' = (IF x = "b" THEN {} ELSE esk)
  BY DEF Replaced
<1>3. /\ boot \in [Node -> Number]
      /\ DOMAIN master = Node /\ \A y \in Node : Table(master[y])
      /\ esk \subseteq Requested /\ sendEpoch \in -1 .. MaxEpoch
  BY DEF SecretsType
<1> HIDE DEF m
<1>4. boot' \in [Node -> Number] /\ boot'[x] = s /\ boot'[Peer(x)] = boot[Peer(x)]
  BY <1>2, <1>3, Ends2
<1>5. DOMAIN master' = Node /\ master'[x] = m /\ \A y \in Node : y # x => master'[y] = master[y]
  BY <1>2, <1>3
<1>6. \A y \in Node : Table(master'[y])
  BY <1>1, <1>3, <1>5
<1>7. esk' \subseteq Requested /\ sendEpoch' \in -1 .. MaxEpoch
  BY <1>2, <1>3, OrrAssumption, SMT
<1>8. SecretsType'
  BY <1>4, <1>5, <1>6, <1>7 DEF SecretsType, Table
<1>9. QED
  BY <1>2, <1>4, <1>5, <1>8, Ends2 DEF m

\* A flag set at one end.
LEMMA OpSet ==
    ASSUME op \in [Node -> FlagOf], NEW x \in Node, NEW f \in FlagOf, op' = [op EXCEPT ![x] = f]
    PROVE  op' \in [Node -> FlagOf] /\ op'[x] = f /\ op'[Peer(x)] = op[Peer(x)]
BY Ends2

\* A call moved on at one end.
LEMMA NetSet ==
    ASSUME net \in [Node -> MsgOf], NEW x \in Node, NEW m \in MsgOf, net' = [net EXCEPT ![x] = m]
    PROVE  net' \in [Node -> MsgOf] /\ net'[x] = m /\ net'[Peer(x)] = net[Peer(x)]
BY Ends2

\* A history changed at one end.
LEMMA MasterSet ==
    ASSUME SecretsType, NEW x \in Node, NEW f, Table(f), master' = [master EXCEPT ![x] = f]
    PROVE  /\ DOMAIN master' = Node /\ \A y \in Node : Table(master'[y])
           /\ master'[x] = f /\ master'[Peer(x)] = master[Peer(x)]
<1>1. DOMAIN master = Node /\ \A y \in Node : Table(master[y])
  BY DEF SecretsType
<1>2. DOMAIN master' = Node /\ master'[x] = f /\ \A y \in Node : y # x => master'[y] = master[y]
  BY <1>1
<1>3. QED
  BY <1>1, <1>2, Ends2

\* Nothing of the executions changes.
LEMMA CoreKept ==
    ASSUME CoreType, UNCHANGED <<run, pubkeys, faults>> PROVE CoreType'
BY DEF CoreType

\* Nothing of the secrets changes.
LEMMA SecretsKept ==
    ASSUME SecretsType, UNCHANGED <<boot, master, esk, sendEpoch>> PROVE SecretsType'
BY DEF SecretsType, Table

\* The parts of the types.
LEMMA Types ==
    ASSUME StateType
    PROVE  /\ CoreType /\ SecretsType /\ CallsType
           /\ task \in TaskOf /\ op \in [Node -> FlagOf] /\ net \in [Node -> MsgOf]
BY DEF StateType, CallsType

\* The fields of flags, messages and the task.
LEMMA Fields ==
    ASSUME StateType
    PROVE  /\ \A x \in Node :
                 /\ op[x].who \in {"none", "bootstrap", "rebootstrap", "passive", "rotation"}
                 /\ op[x].at \in {"none", "fetch", "establish", "req", "fin"}
                 /\ op[x].epoch \in {-1} \cup Requested
                 /\ op[x].key \in Number /\ op[x].secret \in Number
                 /\ net[x].epoch \in {-1} \cup Requested
                 /\ net[x].key \in Number /\ net[x].secret \in Number /\ net[x].to \in Nat
                 /\ boot[x] \in Number /\ run[x] \in Nat /\ run[x] >= 1
           /\ task.at \in {"fetch", "try", "store", "done"} /\ task.pk \in Nat /\ task.secret \in Number
BY SMT DEF StateType, CallsType, CoreType, SecretsType, FlagOf, MsgOf, TaskOf

\* Attempts of the bootstrap task have the fields they are given.
LEMMA TaskType ==
    ASSUME NEW t \in {"fetch", "try", "store", "done"}, NEW p \in Nat, NEW s \in Number
    PROVE  [at |-> t, pk |-> p, secret |-> s] \in TaskOf
BY DEF TaskOf

\* FetchPubkey keeps the types.
LEMMA FetchPubkeyType ==
    ASSUME StateType, NEW x \in Node, FetchPubkey(x) PROVE StateType'
<1> DEFINE p == IF pubkeys[x] = 0 THEN run[Peer(x)] ELSE pubkeys[x]
<1>1. pubkeys' = [pubkeys EXCEPT ![x] = p] /\ run' = run /\ faults' = faults
  BY DEF FetchPubkey
<1>2. run \in [Node -> Nat] /\ pubkeys \in [Node -> Nat] /\ faults \in 0 .. MaxFaults
      /\ \A y \in Node : run[y] \in 1 .. faults + 1 /\ pubkeys[y] <= run[Peer(y)]
  BY DEF StateType, CoreType
<1>3. p \in Nat /\ p <= run[Peer(x)]
  BY <1>2, Ends2, SMT
<1> HIDE DEF p
<1>4. pubkeys' \in [Node -> Nat] /\ \A y \in Node : pubkeys'[y] <= run[Peer(y)]
  BY <1>1, <1>2, <1>3
<1>5. CoreType'
  BY <1>1, <1>2, <1>4 DEF CoreType
<1>6. SecretsType'
  BY Types, SecretsKept DEF FetchPubkey
<1>7. task' \in TaskOf
  <2>1. pubkeys'["a"] \in Nat /\ 0 \in Number
    BY <1>4, Ends2 DEF Number
  <2>2. [at |-> "try", pk |-> pubkeys'["a"], secret |-> 0] \in TaskOf
    BY <2>1, TaskType
  <2>3. QED
    BY <2>2, Types DEF FetchPubkey
<1>8. CallsType'
  BY <1>7, Types DEF FetchPubkey, CallsType
<1>9. QED
  BY <1>5, <1>6, <1>8 DEF StateType

\* Encap gives a well-typed request with a secret nobody has.
LEMMA EncapIs ==
    ASSUME StateType, NEW p \in Nat
    PROVE  /\ Encap(p) \in MsgOf /\ Encap(p).kind = "establish" /\ Encap(p).epoch = -1
           /\ Encap(p).key = 0 /\ Encap(p).to = p /\ Encap(p).secret = Fresh
<1>1. Fresh \in Number /\ 0 \in Number
  BY FreshIs DEF Number
<1>2. Msg("establish", -1, 0, p, Fresh) \in MsgOf
  BY <1>1, MsgType
<1>3. QED
  BY <1>2, MsgIs, SMT DEF Encap

\* EstablishSecret, the handler: the peer's history is replaced by a secret that is
\* the one sent or a fresh one.
LEMMA HandleEstablishIs ==
    ASSUME StateType, CallInv, NEW x \in Node, HandleEstablish(x)
    PROVE  LET y == Peer(x)
               s == IF net[x].to = run[y] THEN net[x].secret ELSE Fresh
           IN  /\ StateType' /\ s # 0
               /\ net[x].kind = "establish" /\ net'[x].kind = "established"
               /\ net'[x] = Answer("established") /\ net'[y] = net[y]
               /\ boot'[y] = s /\ boot'[x] = boot[x]
               /\ master'[y] = Put(Empty, 0, s) /\ master'[x] = master[x]
               /\ sendEpoch' = (IF y = "a" THEN -1 ELSE sendEpoch)
               /\ esk' = (IF y = "b" THEN {} ELSE esk)
               /\ UNCHANGED <<run, pubkeys, task, op, passive, faults>>
<1> DEFINE y == Peer(x)
           s == IF net[x].to = run[y] THEN net[x].secret ELSE Fresh
<1>1. y \in Node /\ Peer(y) = x
  BY Ends2
<1>2. net[x].kind = "establish" /\ Replaced(y, s)
      /\ net' = [net EXCEPT ![x] = Answer("established")]
      /\ UNCHANGED <<run, pubkeys, task, op, passive, faults>>
  BY DEF HandleEstablish
<1>3. net[x].secret \in Number /\ net[x].secret # 0
  BY <1>2, Fields DEF CallInv
<1>4. s \in Number /\ s # 0
  BY <1>3, FreshIs
<1> HIDE DEF y, s
<1>5. /\ SecretsType' /\ boot'[y] = s /\ boot'[x] = boot[x]
      /\ master'[y] = Put(Empty, 0, s) /\ master'[x] = master[x]
      /\ sendEpoch' = (IF y = "a" THEN -1 ELSE sendEpoch)
      /\ esk' = (IF y = "b" THEN {} ELSE esk)
  BY <1>1, <1>2, <1>4, ReplacedIs, Types
<1>6. Answer("established") \in MsgOf /\ Answer("established").kind = "established"
  BY AnswerIs
<1>7. net' \in [Node -> MsgOf] /\ net'[x] = Answer("established") /\ net'[y] = net[y]
  BY <1>2, <1>6, NetSet, Types DEF y
<1>8. CoreType' /\ CallsType'
  BY <1>2, <1>7, CoreKept, Types DEF CallsType
<1>9. StateType'
  BY <1>5, <1>8 DEF StateType
<1>10. QED
  BY <1>2, <1>4, <1>5, <1>6, <1>7, <1>9 DEF y, s

\* The bootstrap task's head: it ends, or encapsulates with the flag taken.
LEMMA BootstrapIs ==
    ASSUME StateType, CallInv, Bootstrap
    PROVE  /\ StateType' /\ task.at = "try"
           /\ op["a"].who # "bootstrap"
           /\ op'["b"] = op["b"] /\ net'["b"] = net["b"]
           /\ UNCHANGED <<run, pubkeys, boot, master, esk, sendEpoch, passive, faults>>
           /\ \/ /\ boot["a"] # 0 /\ op' = op /\ net' = net
                 /\ task' = [at |-> "done", pk |-> 0, secret |-> 0]
              \/ /\ boot["a"] = 0 /\ op["a"] = Idle /\ task' = task
                 /\ op'["a"] = Flag("bootstrap", "establish", -1, 0, Fresh)
                 /\ net'["a"] = Encap(task.pk)
<1>1. /\ task.at = "try" /\ op["a"].who # "bootstrap"
      /\ UNCHANGED <<run, pubkeys, boot, master, esk, sendEpoch, passive, faults>>
  BY DEF Bootstrap, registry
<1>2. CoreType' /\ SecretsType'
  BY <1>1, CoreKept, SecretsKept, Types
<1>3. CASE boot["a"] # 0 /\ task' = [at |-> "done", pk |-> 0, secret |-> 0] /\ UNCHANGED <<op, net>>
  <2>1. 0 \in Number /\ 0 \in Nat
    BY DEF Number
  <2>2. task' \in TaskOf
    BY <1>3, <2>1, TaskType
  <2>3. StateType'
    BY <1>2, <1>3, <2>2, Types DEF StateType, CallsType
  <2>4. QED
    BY <1>1, <1>3, <2>3
<1>4. CASE /\ boot["a"] = 0 /\ op["a"] = Idle
           /\ op' = [op EXCEPT !["a"] = Flag("bootstrap", "establish", -1, 0, Fresh)]
           /\ net' = [net EXCEPT !["a"] = Encap(task.pk)]
           /\ UNCHANGED task
  <2>1. Fresh \in Number /\ 0 \in Number /\ task.pk \in Nat
    BY FreshIs, Fields DEF Number
  <2>2. Flag("bootstrap", "establish", -1, 0, Fresh) \in FlagOf
    BY <2>1, FlagType
  <2>3. Encap(task.pk) \in MsgOf
    BY <2>1, EncapIs
  <2>4. op' \in [Node -> FlagOf] /\ op'["a"] = Flag("bootstrap", "establish", -1, 0, Fresh)
        /\ op'["b"] = op["b"]
    BY <1>4, <2>2, OpSet, Types, Ends2, SMT
  <2>5. net' \in [Node -> MsgOf] /\ net'["a"] = Encap(task.pk) /\ net'["b"] = net["b"]
    BY <1>4, <2>3, NetSet, Types, Ends2
  <2>6. StateType'
    BY <1>2, <1>4, <2>4, <2>5, Types DEF StateType, CallsType
  <2>7. QED
    BY <1>1, <1>4, <2>4, <2>5, <2>6
<1>5. QED
  BY <1>3, <1>4 DEF Bootstrap

\* Its attempt was answered.
LEMMA BootstrapAnsweredIs ==
    ASSUME StateType, CallInv, BootstrapAnswered
    PROVE  /\ StateType' /\ op["a"].who = "bootstrap" /\ net["a"].kind = "established"
           /\ task' = [at |-> "store", pk |-> task.pk, secret |-> op["a"].secret]
           /\ op'["a"] = Idle /\ net'["a"] = NoMsg
           /\ op'["b"] = op["b"] /\ net'["b"] = net["b"]
           /\ UNCHANGED <<run, pubkeys, boot, master, esk, sendEpoch, passive, faults>>
<1>1. /\ op["a"].who = "bootstrap" /\ net["a"].kind = "established"
      /\ task' = [at |-> "store", pk |-> task.pk, secret |-> op["a"].secret]
      /\ op' = [op EXCEPT !["a"] = Idle] /\ net' = [net EXCEPT !["a"] = NoMsg]
      /\ UNCHANGED <<run, pubkeys, boot, master, esk, sendEpoch, passive, faults>>
  BY DEF BootstrapAnswered, registry
<1>2. CoreType' /\ SecretsType'
  BY <1>1, CoreKept, SecretsKept, Types
<1>3. task.pk \in Nat /\ op["a"].secret \in Number
  BY Fields, Ends2
<1>4. task' \in TaskOf
  BY <1>1, <1>3, TaskType
<1>5. op' \in [Node -> FlagOf] /\ op'["a"] = Idle /\ op'["b"] = op["b"]
  BY <1>1, IdleIs, OpSet, Types, Ends2
<1>6. net' \in [Node -> MsgOf] /\ net'["a"] = NoMsg /\ net'["b"] = net["b"]
  BY <1>1, NoMsgIs, NetSet, Types, Ends2, SMT
<1>7. StateType'
  BY <1>2, <1>4, <1>5, <1>6 DEF StateType, CallsType
<1>8. QED
  BY <1>1, <1>5, <1>6, <1>7

\* The task's secret becomes a's bootstrap secret.
LEMMA BootstrapStoredIs ==
    ASSUME StateType, CallInv, BootstrapStored
    PROVE  /\ StateType' /\ task.at = "store"
           /\ task' = [at |-> "done", pk |-> 0, secret |-> 0]
           /\ boot'["a"] = task.secret /\ boot'["b"] = boot["b"]
           /\ master'["a"] = Put(Empty, 0, task.secret) /\ master'["b"] = master["b"]
           /\ sendEpoch' = -1 /\ esk' = esk
           /\ UNCHANGED <<run, pubkeys, op, net, passive, faults>>
<1>1. /\ task.at = "store" /\ Replaced("a", task.secret)
      /\ task' = [at |-> "done", pk |-> 0, secret |-> 0]
      /\ UNCHANGED <<run, pubkeys, op, net, passive, faults>>
  BY DEF BootstrapStored
<1>2. task.secret \in Number /\ task.secret # 0 /\ 0 \in Number /\ 0 \in Nat
  BY <1>1, Fields DEF CallInv, Number
<1>3. /\ SecretsType' /\ boot'["a"] = task.secret /\ boot'["b"] = boot["b"]
      /\ master'["a"] = Put(Empty, 0, task.secret) /\ master'["b"] = master["b"]
      /\ sendEpoch' = -1 /\ esk' = esk
  BY <1>1, <1>2, ReplacedIs, Types, Ends2, SMT
<1>4. task' \in TaskOf
  BY <1>1, <1>2, TaskType
<1>5. StateType'
  BY <1>1, <1>3, <1>4, CoreKept, Types DEF StateType, CallsType
<1>6. QED
  BY <1>1, <1>3, <1>5

\* A rebootstrap fetches the peer's public key afresh and encapsulates to it.
LEMMA RefetchIs ==
    ASSUME StateType, CallInv, NEW x \in Node, Refetch(x)
    PROVE  /\ StateType' /\ op[x].at = "fetch"
           /\ op'[x] = Flag(op[x].who, "establish", -1, 0, Fresh)
           /\ net'[x] = Encap(run[Peer(x)])
           /\ op'[Peer(x)] = op[Peer(x)] /\ net'[Peer(x)] = net[Peer(x)]
           /\ UNCHANGED <<run, boot, master, esk, sendEpoch, task, passive, faults>>
<1>1. /\ op[x].at = "fetch"
      /\ pubkeys' = [pubkeys EXCEPT ![x] = run[Peer(x)]]
      /\ op' = [op EXCEPT ![x] = Flag(op[x].who, "establish", -1, 0, Fresh)]
      /\ net' = [net EXCEPT ![x] = Encap(run[Peer(x)])]
      /\ UNCHANGED <<run, boot, master, esk, sendEpoch, task, passive, faults>>
  BY DEF Refetch
<1>2. Fresh \in Number /\ 0 \in Number /\ run[Peer(x)] \in Nat
  BY FreshIs, Fields, Ends2 DEF Number
<1>3. op[x].who \in {"none", "bootstrap", "rebootstrap", "passive", "rotation"}
  BY Fields
<1>4. Flag(op[x].who, "establish", -1, 0, Fresh) \in FlagOf
  BY <1>2, <1>3, FlagType
<1>5. Encap(run[Peer(x)]) \in MsgOf
  BY <1>2, EncapIs
<1>6. op' \in [Node -> FlagOf] /\ op'[x] = Flag(op[x].who, "establish", -1, 0, Fresh)
      /\ op'[Peer(x)] = op[Peer(x)]
  BY <1>1, <1>4, OpSet, Types
<1>7. net' \in [Node -> MsgOf] /\ net'[x] = Encap(run[Peer(x)]) /\ net'[Peer(x)] = net[Peer(x)]
  BY <1>1, <1>5, NetSet, Types
<1>8. CoreType'
  <2>1. run \in [Node -> Nat] /\ pubkeys \in [Node -> Nat] /\ faults \in 0 .. MaxFaults
        /\ \A y \in Node : run[y] \in 1 .. faults + 1 /\ pubkeys[y] <= run[Peer(y)]
    BY DEF StateType, CoreType
  <2>2. pubkeys' \in [Node -> Nat] /\ \A y \in Node : pubkeys'[y] <= run[Peer(y)]
    BY <1>1, <1>2, <2>1, SMT
  <2>3. QED
    BY <1>1, <2>1, <2>2 DEF CoreType
<1>9. StateType'
  BY <1>1, <1>6, <1>7, <1>8, SecretsKept, Types DEF StateType, CallsType
<1>10. QED
  BY <1>1, <1>6, <1>7, <1>9

\* Its answer: x's history is replaced by the secret it sent.
LEMMA RebootstrappedIs ==
    ASSUME StateType, CallInv, NEW x \in Node, Rebootstrapped(x)
    PROVE  /\ StateType' /\ op[x].who \in {"rebootstrap", "passive"} /\ net[x].kind = "established"
           /\ op[x].secret # 0
           /\ op'[x] = Idle /\ net'[x] = NoMsg
           /\ op'[Peer(x)] = op[Peer(x)] /\ net'[Peer(x)] = net[Peer(x)]
           /\ boot'[x] = op[x].secret /\ boot'[Peer(x)] = boot[Peer(x)]
           /\ master'[x] = Put(Empty, 0, op[x].secret) /\ master'[Peer(x)] = master[Peer(x)]
           /\ sendEpoch' = (IF x = "a" THEN -1 ELSE sendEpoch)
           /\ UNCHANGED <<run, pubkeys, task, passive, faults>>
<1>1. /\ op[x].who \in {"rebootstrap", "passive"} /\ net[x].kind = "established"
      /\ Replaced(x, op[x].secret)
      /\ op' = [op EXCEPT ![x] = Idle] /\ net' = [net EXCEPT ![x] = NoMsg]
      /\ UNCHANGED <<run, pubkeys, task, passive, faults>>
  BY DEF Rebootstrapped
<1>2. op[x].secret \in Number
  BY Fields
<1>3. op[x].secret # 0
  BY <1>1, IdleIs, NoMsgIs DEF CallInv, Stage
<1>4. /\ SecretsType' /\ boot'[x] = op[x].secret /\ boot'[Peer(x)] = boot[Peer(x)]
      /\ master'[x] = Put(Empty, 0, op[x].secret) /\ master'[Peer(x)] = master[Peer(x)]
      /\ sendEpoch' = (IF x = "a" THEN -1 ELSE sendEpoch)
  BY <1>1, <1>2, <1>3, ReplacedIs, Types
<1>5. op' \in [Node -> FlagOf] /\ op'[x] = Idle /\ op'[Peer(x)] = op[Peer(x)]
  BY <1>1, IdleIs, OpSet, Types
<1>6. net' \in [Node -> MsgOf] /\ net'[x] = NoMsg /\ net'[Peer(x)] = net[Peer(x)]
  BY <1>1, NoMsgIs, NetSet, Types
<1>7. StateType'
  BY <1>1, <1>4, <1>5, <1>6, CoreKept, Types DEF StateType, CallsType
<1>8. QED
  BY <1>1, <1>3, <1>4, <1>5, <1>6, <1>7

\* An onion frame that finds no epoch starts a passive rebootstrap, or changes
\* nothing when one cannot start.
LEMMA TriggerIs ==
    ASSUME StateType, NEW x \in Node, Trigger(x), UNCHANGED <<run, pubkeys, task, net, faults>>
    PROVE  /\ StateType'
           /\ \/ UNCHANGED <<boot, master, esk, sendEpoch, op, passive>>
              \/ /\ op[x] = Idle /\ op'[x] = Flag("passive", "fetch", -1, 0, 0)
                 /\ op'[Peer(x)] = op[Peer(x)] /\ passive' = TRUE
                 /\ boot'[x] = 0 /\ boot'[Peer(x)] = boot[Peer(x)]
                 /\ master'[x] = Empty /\ master'[Peer(x)] = master[Peer(x)]
<1>1. CASE Triggers(x)
  <2>1. /\ Replaced(x, 0) /\ passive' = TRUE
        /\ op' = [op EXCEPT ![x] = Flag("passive", "fetch", -1, 0, 0)]
    BY <1>1 DEF Trigger
  <2>2. 0 \in Number
    BY DEF Number
  <2>3. /\ SecretsType' /\ boot'[x] = 0 /\ boot'[Peer(x)] = boot[Peer(x)]
        /\ master'[x] = Empty /\ master'[Peer(x)] = master[Peer(x)]
    BY <2>1, <2>2, ReplacedIs, Types
  <2>4. Flag("passive", "fetch", -1, 0, 0) \in FlagOf
    BY <2>2, FlagType
  <2>5. op' \in [Node -> FlagOf] /\ op'[x] = Flag("passive", "fetch", -1, 0, 0)
        /\ op'[Peer(x)] = op[Peer(x)]
    BY <2>1, <2>4, OpSet, Types
  <2>6. StateType'
    BY <2>3, <2>5, CoreKept, Types DEF StateType, CallsType
  <2>7. QED
    BY <1>1, <2>1, <2>3, <2>5, <2>6 DEF Triggers
<1>2. CASE ~ Triggers(x)
  <2>1. UNCHANGED <<boot, master, esk, sendEpoch, op, passive>>
    BY <1>2 DEF Trigger
  <2>2. StateType'
    BY <2>1, CoreKept, SecretsKept, Types DEF StateType, CallsType
  <2>3. QED
    BY <2>1, <2>2
<1>3. QED
  BY <1>1, <1>2

\* Onion frames change the registry by a passive rebootstrap of one end at most.
LEMMA OnionIs ==
    ASSUME StateType, HandleOnionIn \/ \E z \in Node : SendOnion(z)
    PROVE  /\ StateType' /\ UNCHANGED <<run, pubkeys, task, net, faults>>
           /\ \/ UNCHANGED <<boot, master, esk, sendEpoch, op, passive>>
              \/ \E x \in Node :
                 /\ op[x] = Idle /\ op'[x] = Flag("passive", "fetch", -1, 0, 0)
                 /\ op'[Peer(x)] = op[Peer(x)] /\ passive' = TRUE
                 /\ boot'[x] = 0 /\ boot'[Peer(x)] = boot[Peer(x)]
                 /\ master'[x] = Empty /\ master'[Peer(x)] = master[Peer(x)]
<1>1. UNCHANGED <<run, pubkeys, task, net, faults>>
  BY DEF HandleOnionIn, SendOnion
<1>2. \/ UNCHANGED <<boot, master, esk, sendEpoch, op, passive>>
      \/ \E x \in Node : Trigger(x)
  BY DEF HandleOnionIn, SendOnion, Node, Peer
<1>3. CASE UNCHANGED <<boot, master, esk, sendEpoch, op, passive>>
  <2>1. StateType'
    BY <1>1, <1>3, CoreKept, SecretsKept, Types DEF StateType, CallsType
  <2>2. QED
    BY <1>1, <1>3, <2>1
<1>4. CASE \E x \in Node : Trigger(x)
  <2>1. PICK x \in Node : Trigger(x)
    BY <1>4
  <2>2. QED
    BY <1>1, <2>1, TriggerIs
<1>5. QED
  BY <1>2, <1>3, <1>4

\* A rotation is begun for the epoch after the confirmed one, under a's secret.
LEMMA StartRotationIs ==
    ASSUME StateType, CallInv, StartRotation
    PROVE  /\ StateType' /\ task.at = "done" /\ op["a"] = Idle /\ boot["a"] # 0
           /\ Negotiated \in Requested
           /\ op'["a"] = Flag("rotation", "req", Negotiated, boot["a"], 0)
           /\ net'["a"] = Msg("req", Negotiated, boot["a"], 0, 0)
           /\ op'["b"] = op["b"] /\ net'["b"] = net["b"]
           /\ UNCHANGED <<run, pubkeys, boot, master, esk, sendEpoch, task, passive, faults>>
<1>1. /\ task.at = "done" /\ op["a"] = Idle /\ boot["a"] # 0
      /\ op' = [op EXCEPT !["a"] = Flag("rotation", "req", Negotiated, boot["a"], 0)]
      /\ net' = [net EXCEPT !["a"] = Msg("req", Negotiated, boot["a"], 0, 0)]
      /\ UNCHANGED <<run, pubkeys, boot, master, esk, sendEpoch, task, passive, faults>>
  BY DEF StartRotation, registry, Negotiated, Confirmed
<1>2. Negotiated \in Requested
  BY OrrAssumption, SMT DEF StateType, SecretsType, Requested, Negotiated, Confirmed
<1>3. boot["a"] \in Number /\ 0 \in Number /\ 0 \in Nat /\ Negotiated \in {-1} \cup Requested
  BY <1>2, Fields, Ends2 DEF Number
<1>4. Flag("rotation", "req", Negotiated, boot["a"], 0) \in FlagOf
  BY <1>3, FlagType
<1>5. Msg("req", Negotiated, boot["a"], 0, 0) \in MsgOf
  BY <1>3, MsgType
<1>6. op' \in [Node -> FlagOf] /\ op'["b"] = op["b"]
      /\ op'["a"] = Flag("rotation", "req", Negotiated, boot["a"], 0)
  BY <1>1, <1>4, OpSet, Types, Ends2, SMT
<1>7. net' \in [Node -> MsgOf] /\ net'["b"] = net["b"]
      /\ net'["a"] = Msg("req", Negotiated, boot["a"], 0, 0)
  BY <1>1, <1>5, NetSet, Types, Ends2, SMT
<1>8. StateType'
  BY <1>1, <1>6, <1>7, CoreKept, SecretsKept, Types DEF StateType, CallsType
<1>9. QED
  BY <1>1, <1>2, <1>6, <1>7, <1>8

\* What a REQ or FIN under way names.
LEMMA RotationMsg ==
    ASSUME StateType, CallInv
    PROVE  /\ net["a"].kind \in {"req", "epk"} => op["a"].at = "req"
           /\ net["a"].kind \in {"fin", "ok", "nokey"} => op["a"].at = "fin"
           /\ net["a"].kind \in {"req", "epk", "fin", "ok", "nokey", "refused"} =>
                 op["a"].who = "rotation" /\ op["a"].epoch \in Requested
                 /\ op["a"].at \in {"req", "fin"}
           /\ op["a"].at = "fin" => op["a"].epoch \in 1 .. MaxEpoch /\ op["a"].who = "rotation"
           /\ op["a"].at = "req" => op["a"].who = "rotation"
           /\ net["a"].kind \in {"req", "fin"} =>
                 net["a"].epoch = op["a"].epoch /\ net["a"].key = op["a"].key
<1>1. Stage("a")
  BY Ends2 DEF CallInv
<1>2. 1 .. MaxEpoch \subseteq Requested
  BY OrrAssumption, SMT DEF Requested
<1>3. QED
  BY <1>1, <1>2, IdleIs, NoMsgIs DEF Stage, CallInv

\* REQ: refused under another secret, or b files an ephemeral key.
LEMMA HandleRequestIs ==
    ASSUME StateType, CallInv, HandleRequestEphemeralKey
    PROVE  /\ StateType' /\ net["a"].kind = "req" /\ net'["b"] = net["b"]
           /\ \/ boot["b"] # net["a"].key /\ net'["a"] = Answer("refused") /\ esk' = esk
              \/ boot["b"] = net["a"].key /\ net'["a"] = Answer("epk")
                 /\ esk' = esk \cup {net["a"].epoch}
           /\ UNCHANGED <<run, pubkeys, boot, master, sendEpoch, task, op, passive, faults>>
<1>1. /\ net["a"].kind = "req"
      /\ UNCHANGED <<run, pubkeys, boot, master, sendEpoch, task, op, passive, faults>>
      /\ \/ /\ boot["b"] # net["a"].key
            /\ net' = [net EXCEPT !["a"] = Answer("refused")] /\ esk' = esk
         \/ /\ boot["b"] = net["a"].key
            /\ net' = [net EXCEPT !["a"] = Answer("epk")]
            /\ esk' = esk \cup {net["a"].epoch}
  BY DEF HandleRequestEphemeralKey
<1>2. net["a"].epoch \in Requested
  BY <1>1, RotationMsg
<1>3. SecretsType'
  BY <1>1, <1>2 DEF StateType, SecretsType, Table
<1>4. Answer("refused") \in MsgOf /\ Answer("epk") \in MsgOf
  BY AnswerIs
<1>5. /\ net' \in [Node -> MsgOf] /\ net'["b"] = net["b"]
      /\ \/ boot["b"] # net["a"].key /\ net'["a"] = Answer("refused") /\ esk' = esk
         \/ boot["b"] = net["a"].key /\ net'["a"] = Answer("epk")
            /\ esk' = esk \cup {net["a"].epoch}
  BY <1>1, <1>4, NetSet, Types, Ends2, SMT
<1>6. StateType'
  BY <1>1, <1>3, <1>5, CoreKept, Types DEF StateType, CallsType
<1>7. QED
  BY <1>1, <1>5, <1>6

\* The answer to REQ: a stores the epoch provisionally and sends FIN with the secret.
LEMMA EphemeralKeyAnsweredIs ==
    ASSUME StateType, CallInv, EphemeralKeyAnswered
    PROVE  LET e == op["a"].epoch
           IN  /\ StateType' /\ net["a"].kind = "epk" /\ e \in 1 .. MaxEpoch
               /\ op["a"].who = "rotation"
               /\ master'["a"] = Put(master["a"], e, Fresh) /\ master'["b"] = master["b"]
               /\ op'["a"] = Flag("rotation", "fin", e, op["a"].key, 0)
               /\ net'["a"] = Msg("fin", e, op["a"].key, 0, Fresh)
               /\ op'["b"] = op["b"] /\ net'["b"] = net["b"]
               /\ UNCHANGED <<run, pubkeys, boot, esk, sendEpoch, task, passive, faults>>
<1> DEFINE e == op["a"].epoch
           k == op["a"].key
           m == Put(master["a"], e, Fresh)
<1>1. /\ net["a"].kind = "epk" /\ e <= MaxEpoch
      /\ master' = [master EXCEPT !["a"] = m]
      /\ op' = [op EXCEPT !["a"] = Flag("rotation", "fin", e, k, 0)]
      /\ net' = [net EXCEPT !["a"] = Msg("fin", e, k, 0, Fresh)]
      /\ UNCHANGED <<run, pubkeys, boot, esk, sendEpoch, task, passive, faults>>
  BY DEF EphemeralKeyAnswered
<1>2. e \in 1 .. MaxEpoch /\ op["a"].who = "rotation" /\ e \in {-1} \cup Requested
  <2>1. e \in Requested /\ op["a"].who = "rotation"
    BY <1>1, RotationMsg
  <2>2. QED
    BY <1>1, <2>1, OrrAssumption, SMT DEF Requested
<1>3. k \in Number /\ 0 \in Number /\ 0 \in Nat /\ Fresh \in Number /\ Fresh \in Secret
  BY FreshIs, Fields, Ends2 DEF Number
<1>4. Flag("rotation", "fin", e, k, 0) \in FlagOf
  BY <1>2, <1>3, FlagType
<1>5. Msg("fin", e, k, 0, Fresh) \in MsgOf
  BY <1>2, <1>3, MsgType
<1>6. Table(m)
  <2>1. Table(master["a"]) /\ e \in 0 .. MaxEpoch
    BY <1>2, Ends2, SMT DEF StateType, SecretsType
  <2>2. QED
    BY <1>3, <2>1, PutTable
<1> HIDE DEF e, k, m
<1>7. op' \in [Node -> FlagOf] /\ op'["b"] = op["b"]
      /\ op'["a"] = Flag("rotation", "fin", e, k, 0)
  BY <1>1, <1>4, OpSet, Types, Ends2, SMT
<1>8. net' \in [Node -> MsgOf] /\ net'["b"] = net["b"]
      /\ net'["a"] = Msg("fin", e, k, 0, Fresh)
  BY <1>1, <1>5, NetSet, Types, Ends2, SMT
<1>9. /\ DOMAIN master' = Node /\ \A y \in Node : Table(master'[y])
      /\ master'["a"] = m /\ master'["b"] = master["b"]
  BY <1>1, <1>6, MasterSet, Types, Ends2
<1>10. SecretsType'
  BY <1>1, <1>9 DEF StateType, SecretsType, Table
<1>11. StateType'
  BY <1>1, <1>7, <1>8, <1>10, CoreKept, Types DEF StateType, CallsType
<1>12. QED
  BY <1>1, <1>2, <1>7, <1>8, <1>9, <1>11 DEF e, k, m

\* FIN: refused, or without its key, or b installs the epoch and prunes.
LEMMA HandleFinIs ==
    ASSUME StateType, CallInv, FinInv, HandleEstablishEphemeralSecret
    PROVE  LET e == net["a"].epoch
               P == Put(master["b"], e, net["a"].secret)
               N == Newest(DOMAIN master["b"] \cup {e})
           IN  /\ StateType' /\ net["a"].kind = "fin" /\ net'["b"] = net["b"]
               /\ e = op["a"].epoch /\ e \in 1 .. MaxEpoch
               /\ master'["a"] = master["a"]
               /\ \/ /\ net'["a"] = Answer("refused") /\ boot["b"] # net["a"].key
                     /\ UNCHANGED <<master, esk>>
                  \/ /\ net'["a"] = Answer("nokey") /\ e \notin esk
                     /\ UNCHANGED <<master, esk>>
                  \/ /\ net'["a"] = Answer("ok") /\ boot["b"] = net["a"].key
                     /\ DOMAIN master'["b"] = N
                     /\ \A d \in N : master'["b"][d] = P[d]
               /\ UNCHANGED <<run, pubkeys, boot, sendEpoch, task, op, passive, faults>>
<1> DEFINE e == net["a"].epoch
           P == Put(master["b"], e, net["a"].secret)
           N == Newest(DOMAIN master["b"] \cup {e})
<1>1. /\ net["a"].kind = "fin"
      /\ UNCHANGED <<run, pubkeys, boot, sendEpoch, task, op, passive, faults>>
      /\ \/ /\ boot["b"] # net["a"].key
            /\ net' = [net EXCEPT !["a"] = Answer("refused")] /\ UNCHANGED <<master, esk>>
         \/ /\ e \notin esk
            /\ net' = [net EXCEPT !["a"] = Answer("nokey")] /\ UNCHANGED <<master, esk>>
         \/ /\ boot["b"] = net["a"].key
            /\ master' = [master EXCEPT !["b"] = Restrict(P, N)]
            /\ esk' = Newest(esk \ {e})
            /\ net' = [net EXCEPT !["a"] = Answer("ok")]
  BY DEF HandleEstablishEphemeralSecret
<1>2. e = op["a"].epoch /\ e \in 1 .. MaxEpoch /\ e \in 0 .. MaxEpoch
  BY <1>1, RotationMsg, SMT
<1>3. net["a"].secret \in Number
  BY Fields, Ends2
<1>4. Answer("refused") \in MsgOf /\ Answer("nokey") \in MsgOf /\ Answer("ok") \in MsgOf
  BY AnswerIs
<1>5. net' \in [Node -> MsgOf] /\ net'["b"] = net["b"]
      /\ (net' = [net EXCEPT !["a"] = Answer("refused")] => net'["a"] = Answer("refused"))
      /\ (net' = [net EXCEPT !["a"] = Answer("nokey")] => net'["a"] = Answer("nokey"))
      /\ (net' = [net EXCEPT !["a"] = Answer("ok")] => net'["a"] = Answer("ok"))
  BY <1>1, <1>4, NetSet, Types, Ends2, SMT
<1> HIDE DEF e, P, N
<1>6. CASE /\ UNCHANGED <<master, esk>>
           /\ \/ net'["a"] = Answer("refused") /\ boot["b"] # net["a"].key
              \/ net'["a"] = Answer("nokey") /\ e \notin esk
  <2>1. StateType'
    BY <1>1, <1>5, <1>6, CoreKept, SecretsKept, Types DEF StateType, CallsType
  <2>2. master'["a"] = master["a"]
    BY <1>6
  <2>3. QED
    BY <1>1, <1>2, <1>5, <1>6, <2>1, <2>2 DEF P, N, e
<1>7. CASE /\ boot["b"] = net["a"].key /\ net'["a"] = Answer("ok")
           /\ master' = [master EXCEPT !["b"] = Restrict(P, N)] /\ esk' = Newest(esk \ {e})
  <2>1. Table(master["b"]) /\ net["a"].secret \in Secret
    BY <1>1, <1>3, Ends2 DEF FinInv, StateType, SecretsType, Number
  <2>a. Table(P)
    BY <1>2, <2>1, PutTable DEF P
  <2>b. DOMAIN P = DOMAIN master["b"] \cup {e}
    BY PutIs DEF P
  <2>2. Table(P) /\ DOMAIN P = DOMAIN master["b"] \cup {e}
    BY <2>a, <2>b
  <2>3. N \subseteq DOMAIN P
    BY <2>2, NewestPart DEF N
  <2>4. Table(Restrict(P, N)) /\ DOMAIN Restrict(P, N) = N /\ \A d \in N : Restrict(P, N)[d] = P[d]
    BY <2>2, <2>3, RestrictTable
  <2>5. /\ DOMAIN master' = Node /\ \A y \in Node : Table(master'[y])
        /\ master'["b"] = Restrict(P, N) /\ master'["a"] = master["a"]
    BY <1>7, <2>4, MasterSet, Types, Ends2
  <2>6. esk \subseteq Requested /\ esk' \subseteq esk \ {e}
    BY <1>7, NewestPart DEF StateType, SecretsType
  <2>7. SecretsType'
    BY <1>1, <2>5, <2>6 DEF StateType, SecretsType, Table
  <2>8. StateType'
    BY <1>1, <1>5, <2>7, CoreKept, Types DEF StateType, CallsType
  <2>9. DOMAIN master'["b"] = N /\ \A d \in N : master'["b"][d] = P[d]
    BY <2>4, <2>5
  <2>10. QED
    BY <1>1, <1>2, <1>5, <1>7, <2>5, <2>8, <2>9 DEF P, N, e
<1>8. QED
  BY <1>1, <1>5, <1>6, <1>7

\* The answer to FIN confirms the epoch, and a prunes its history.
LEMMA RotationDoneIs ==
    ASSUME StateType, CallInv, RotationDone
    PROVE  /\ StateType' /\ net["a"].kind = "ok"
           /\ sendEpoch' = op["a"].epoch /\ op["a"].epoch \in 1 .. MaxEpoch
           /\ DOMAIN master'["a"] = Newest(DOMAIN master["a"])
           /\ \A d \in DOMAIN master'["a"] : master'["a"][d] = master["a"][d]
           /\ master'["b"] = master["b"]
           /\ op'["a"] = Idle /\ net'["a"] = NoMsg
           /\ op'["b"] = op["b"] /\ net'["b"] = net["b"]
           /\ UNCHANGED <<run, pubkeys, boot, esk, task, passive, faults>>
<1> DEFINE N == Newest(DOMAIN master["a"])
           R == Restrict(master["a"], N)
<1>1. /\ net["a"].kind = "ok" /\ sendEpoch' = op["a"].epoch
      /\ master' = [master EXCEPT !["a"] = R]
      /\ op' = [op EXCEPT !["a"] = Idle] /\ net' = [net EXCEPT !["a"] = NoMsg]
      /\ UNCHANGED <<run, pubkeys, boot, esk, task, passive, faults>>
  BY DEF RotationDone, Ends
<1>2. op["a"].epoch \in 1 .. MaxEpoch
  BY <1>1, RotationMsg
<1>3. Table(master["a"])
  BY Ends2 DEF StateType, SecretsType
<1>4. N \subseteq DOMAIN master["a"]
  BY NewestPart
<1> HIDE DEF N
<1>5. Table(R) /\ DOMAIN R = N /\ \A d \in N : R[d] = master["a"][d]
  BY <1>3, <1>4, RestrictTable
<1> HIDE DEF R
<1>6. /\ DOMAIN master' = Node /\ \A y \in Node : Table(master'[y])
      /\ master'["a"] = R /\ master'["b"] = master["b"]
  BY <1>1, <1>5, MasterSet, Types, Ends2
<1>7. op' \in [Node -> FlagOf] /\ op'["a"] = Idle /\ op'["b"] = op["b"]
  BY <1>1, IdleIs, OpSet, Types, Ends2, SMT
<1>8. net' \in [Node -> MsgOf] /\ net'["a"] = NoMsg /\ net'["b"] = net["b"]
  BY <1>1, NoMsgIs, NetSet, Types, Ends2
<1>9. sendEpoch' \in -1 .. MaxEpoch
  BY <1>1, <1>2, SMT
<1>10. SecretsType'
  BY <1>1, <1>6, <1>9 DEF StateType, SecretsType, Table
<1>11. StateType'
  BY <1>1, <1>7, <1>8, <1>10, CoreKept, Types DEF StateType, CallsType
<1>12. QED
  BY <1>1, <1>2, <1>5, <1>6, <1>7, <1>8, <1>11 DEF N

\* A rotation refused: the provisional epoch goes, and the flag is cleared or kept
\* for a rebootstrap.
LEMMA RotationRefusedIs ==
    ASSUME StateType, CallInv, RotationRefused
    PROVE  /\ StateType' /\ net["a"].kind \in {"refused", "nokey"} /\ op["a"].who = "rotation"
           /\ op'["a"] \in {Idle, Flag("rebootstrap", "fetch", -1, 0, 0)} /\ net'["a"] = NoMsg
           /\ op'["b"] = op["b"] /\ net'["b"] = net["b"] /\ master'["b"] = master["b"]
           /\ UNCHANGED <<run, pubkeys, boot, esk, sendEpoch, task, passive, faults>>
<1> DEFINE m == IF op["a"].at = "fin" THEN Removed(master["a"], op["a"].epoch) ELSE master["a"]
           f == IF net["a"].kind = "refused" THEN Flag("rebootstrap", "fetch", -1, 0, 0) ELSE Idle
<1>1. /\ net["a"].kind \in {"refused", "nokey"}
      /\ master' = [master EXCEPT !["a"] = m]
      /\ op' = [op EXCEPT !["a"] = f] /\ net' = [net EXCEPT !["a"] = NoMsg]
      /\ UNCHANGED <<run, pubkeys, boot, esk, sendEpoch, task, passive, faults>>
  BY DEF RotationRefused, Ends
<1>2. Table(master["a"])
  BY Ends2 DEF StateType, SecretsType
<1>3. Table(m)
  BY <1>2, RemovedIs
<1>4. 0 \in Number
  BY DEF Number
<1>5. Flag("rebootstrap", "fetch", -1, 0, 0) \in FlagOf
  BY <1>4, FlagType
<1>6. f \in FlagOf /\ f \in {Idle, Flag("rebootstrap", "fetch", -1, 0, 0)}
  BY <1>5, IdleIs
<1> HIDE DEF m, f
<1>7. /\ DOMAIN master' = Node /\ \A y \in Node : Table(master'[y]) /\ master'["b"] = master["b"]
  BY <1>1, <1>3, MasterSet, Types, Ends2, ZenonT(30)
<1>8. op' \in [Node -> FlagOf] /\ op'["a"] = f /\ op'["b"] = op["b"]
  BY <1>1, <1>6, OpSet, Types, Ends2
<1>9. net' \in [Node -> MsgOf] /\ net'["a"] = NoMsg /\ net'["b"] = net["b"]
  BY <1>1, NoMsgIs, NetSet, Types, Ends2
<1>10. SecretsType'
  BY <1>1, <1>7 DEF StateType, SecretsType, Table
<1>11. StateType'
  BY <1>1, <1>8, <1>9, <1>10, CoreKept, Types DEF StateType, CallsType
<1>12. op["a"].who = "rotation"
  BY <1>1, RotationMsg
<1>13. QED
  BY <1>1, <1>6, <1>7, <1>8, <1>9, <1>11, <1>12, SMT

\* A call of x that fails: the flag is cleared, a provisional epoch taken back.
LEMMA BreakIs ==
    ASSUME StateType, CallInv, NEW x \in Node, Break(x)
    PROVE  /\ StateType' /\ op[x] # Idle
           /\ op'[x] = Idle /\ net'[x] = NoMsg
           /\ op'[Peer(x)] = op[Peer(x)] /\ net'[Peer(x)] = net[Peer(x)]
           /\ master'[Peer(x)] = master[Peer(x)]
           /\ \/ op[x].at = "fin" /\ master'[x] = Removed(master[x], op[x].epoch)
              \/ op[x].at # "fin" /\ master'[x] = master[x]
           /\ \/ faults' = faults + 1
              \/ faults' = faults /\ \/ net[x] = NoMsg
                                     \/ net[x].kind = "epk" /\ op[x].epoch > MaxEpoch
           /\ UNCHANGED <<run, pubkeys, boot, esk, sendEpoch, task, passive>>
<1> DEFINE m == IF op[x].at = "fin" THEN Removed(master[x], op[x].epoch) ELSE master[x]
<1>1. /\ op[x] # Idle
      /\ \/ net[x] = NoMsg /\ faults' = faults
         \/ net[x].kind = "epk" /\ op[x].epoch > MaxEpoch /\ faults' = faults
         \/ faults < MaxFaults /\ faults' = faults + 1
      /\ master' = [master EXCEPT ![x] = m]
      /\ op' = [op EXCEPT ![x] = Idle] /\ net' = [net EXCEPT ![x] = NoMsg]
      /\ UNCHANGED <<run, pubkeys, boot, esk, sendEpoch, task, passive>>
  BY DEF Break
<1>2. Table(master[x])
  BY DEF StateType, SecretsType
<1>3. Table(m)
  BY <1>2, RemovedIs
<1>4. \/ op[x].at = "fin" /\ m = Removed(master[x], op[x].epoch)
      \/ op[x].at # "fin" /\ m = master[x]
  OBVIOUS
<1> HIDE DEF m
<1>5. /\ DOMAIN master' = Node /\ \A y \in Node : Table(master'[y])
      /\ master'[x] = m /\ master'[Peer(x)] = master[Peer(x)]
  BY <1>1, <1>3, MasterSet, Types
<1>6. op' \in [Node -> FlagOf] /\ op'[x] = Idle /\ op'[Peer(x)] = op[Peer(x)]
  BY <1>1, IdleIs, OpSet, Types
<1>7. net' \in [Node -> MsgOf] /\ net'[x] = NoMsg /\ net'[Peer(x)] = net[Peer(x)]
  BY <1>1, NoMsgIs, NetSet, Types
<1>8. CoreType'
  BY <1>1, OrrAssumption, SMT DEF StateType, CoreType
<1>9. SecretsType'
  BY <1>1, <1>5 DEF StateType, SecretsType, Table
<1>10. StateType'
  BY <1>1, <1>6, <1>7, <1>8, <1>9, Types DEF StateType, CallsType
<1>11. QED
  BY <1>1, <1>4, <1>5, <1>6, <1>7, <1>10

\* A restart of x loses its registry; a request the peer had under way is lost.
LEMMA RestartIs ==
    ASSUME StateType, NEW x \in Node, Restart(x)
    PROVE  /\ StateType' /\ run'[x] # 1
           /\ run'[Peer(x)] = run[Peer(x)]
           /\ boot'[x] = 0 /\ boot'[Peer(x)] = boot[Peer(x)]
           /\ master'[x] = Empty /\ master'[Peer(x)] = master[Peer(x)]
           /\ op'[x] = Idle /\ net'[x] = NoMsg /\ op'[Peer(x)] = op[Peer(x)]
           /\ \/ net'[Peer(x)] = NoMsg
              \/ net'[Peer(x)] = net[Peer(x)]
                 /\ net[Peer(x)].kind \notin {"establish", "req", "fin"}
           /\ run[x] <= run'[x]
           /\ \/ x = "a" /\ task' = [at |-> "fetch", pk |-> 0, secret |-> 0]
              \/ x = "b" /\ task' = task
<1> DEFINE y == Peer(x)
           n == IF net[y].kind \in {"establish", "req", "fin"} THEN NoMsg ELSE net[y]
<1>1. /\ faults < MaxFaults /\ faults' = faults + 1
      /\ run' = [run EXCEPT ![x] = run[x] + 1]
      /\ pubkeys' = [pubkeys EXCEPT ![x] = 0]
      /\ Replaced(x, 0)
      /\ task' = IF x = "a" THEN [at |-> "fetch", pk |-> 0, secret |-> 0] ELSE task
      /\ op' = [op EXCEPT ![x] = Idle]
      /\ net' = [net EXCEPT ![x] = NoMsg,
                  ![y] = IF @.kind \in {"establish", "req", "fin"} THEN NoMsg ELSE @]
  BY DEF Restart
<1>2. y \in Node /\ y # x /\ \A z \in Node : z = x \/ z = y
  BY Ends2
<1>3. 0 \in Number /\ 0 \in Nat
  BY DEF Number
<1>4. /\ SecretsType' /\ boot'[x] = 0 /\ boot'[y] = boot[y]
      /\ master'[x] = Empty /\ master'[y] = master[y]
  BY <1>1, <1>3, ReplacedIs, Types
<1>5. op' \in [Node -> FlagOf] /\ op'[x] = Idle /\ op'[y] = op[y]
  BY <1>1, IdleIs, OpSet, Types
<1>6. n \in MsgOf /\ \/ n = NoMsg
                     \/ n = net[y] /\ net[y].kind \notin {"establish", "req", "fin"}
  <2>1. net[y] \in MsgOf
    BY <1>2, Types
  <2>2. QED
    BY <2>1, NoMsgIs
<1>7. net' \in [Node -> MsgOf] /\ net'[x] = NoMsg /\ net'[y] = n
  <2>1. net' = [[net EXCEPT ![x] = NoMsg] EXCEPT ![y] = n]
    BY <1>1, <1>2, Types
  <2> HIDE DEF n, y
  <2>2. QED
    BY <2>1, <1>2, <1>6, NoMsgIs, Types
<1>8. task' \in TaskOf
  BY <1>1, <1>3, TaskType, Types
<1>9. /\ run \in [Node -> Nat] /\ pubkeys \in [Node -> Nat] /\ faults \in 0 .. MaxFaults
      /\ \A z \in Node : run[z] \in 1 .. faults + 1 /\ pubkeys[z] <= run[Peer(z)]
  BY DEF StateType, CoreType
<1>10. /\ run' \in [Node -> Nat] /\ run'[x] = run[x] + 1 /\ run'[y] = run[y]
       /\ pubkeys' \in [Node -> Nat] /\ pubkeys'[x] = 0 /\ pubkeys'[y] = pubkeys[y]
       /\ faults' \in 0 .. MaxFaults
  BY <1>1, <1>2, <1>9, OrrAssumption, SMT
<1>11. \A z \in Node : run'[z] \in 1 .. faults' + 1 /\ pubkeys'[z] <= run'[Peer(z)]
  <2>1. run'[x] \in 1 .. faults' + 1 /\ pubkeys'[x] <= run'[y]
    BY <1>1, <1>2, <1>9, <1>10, SMT
  <2>2. run'[y] \in 1 .. faults' + 1 /\ pubkeys'[y] <= run'[x]
    BY <1>1, <1>2, <1>9, <1>10, Ends2, SMT
  <2>3. QED
    BY <1>2, <2>1, <2>2, Ends2
<1>12. StateType'
  BY <1>4, <1>5, <1>7, <1>8, <1>10, <1>11 DEF StateType, CoreType, CallsType
<1>13. x = "a" \/ x = "b"
  BY Ends2
<1>14. run'[x] # 1 /\ run[x] <= run'[x]
  BY <1>9, <1>10, SMT
<1> HIDE DEF n
<1>15. QED
  BY <1>1, <1>4, <1>5, <1>6, <1>7, <1>10, <1>12, <1>13, <1>14

-----------------------------------------------------------------------------
(* The calls.                                                              *)

\* A call and a flag left alone.
LEMMA StageKept ==
    ASSUME NEW x, Stage(x), op'[x] = op[x], net'[x] = net[x]
    PROVE  Stage(x)'
BY DEF Stage

\* A flag cleared.
LEMMA StageIdle ==
    ASSUME NEW x, op'[x] = Idle, net'[x] = NoMsg
    PROVE  Stage(x)'
BY DEF Stage

\* A rebootstrap before its call.
LEMMA StageFetch ==
    ASSUME NEW x, NEW w \in {"rebootstrap", "passive"}, op'[x] = Flag(w, "fetch", -1, 0, 0),
           net'[x] = NoMsg
    PROVE  Stage(x)'
<1>1. op'[x].who = w /\ op'[x].at = "fetch"
  BY FlagIs, SMT
<1>2. QED
  BY <1>1 DEF Stage

\* A handshake begun.
LEMMA StageEstablish ==
    ASSUME StateType, NEW x, NEW w \in {"bootstrap", "rebootstrap", "passive"}, NEW p \in Nat,
           op'[x] = Flag(w, "establish", -1, 0, Fresh), net'[x] = Encap(p)
    PROVE  Stage(x)'
<1>1. op'[x].who = w /\ op'[x].at = "establish" /\ op'[x].secret = Fresh
  BY FlagIs, SMT
<1>2. net'[x].kind = "establish" /\ Fresh # 0
  BY EncapIs, FreshIs
<1>3. QED
  BY <1>1, <1>2 DEF Stage

\* FetchPubkey: the bootstrap task has the key of an execution of b's.
LEMMA FetchPubkeyCall ==
    ASSUME StateType, CallInv, NEW x \in Node, FetchPubkey(x) PROVE CallInv'
<1>1. op' = op /\ net' = net /\ run' = run
  BY DEF FetchPubkey
<1>2. \A y \in Node : Stage(y)'
  BY <1>1, StageKept DEF CallInv
<1>3. CASE x = "a"
  <2>1. task.at = "fetch" /\ task' = [at |-> "try", pk |-> pubkeys'["a"], secret |-> 0]
    BY <1>3 DEF FetchPubkey
  <2>2. pubkeys'["a"] \in 1 .. run["b"]
    <3>1. pubkeys \in [Node -> Nat] /\ run \in [Node -> Nat] /\ run["b"] >= 1
          /\ pubkeys["a"] <= run["b"]
      BY Ends2, SMT DEF StateType, CoreType
    <3>2. pubkeys'["a"] = IF pubkeys["a"] = 0 THEN run["b"] ELSE pubkeys["a"]
      BY <1>3, <3>1, Ends2 DEF FetchPubkey
    <3>3. QED
      BY <3>1, <3>2, Ends2, SMT
  <2>3. QED
    BY <1>1, <1>2, <2>1, <2>2 DEF CallInv
<1>4. CASE x = "b"
  <2>1. task' = task
    BY <1>4, Ends2 DEF FetchPubkey
  <2>2. QED
    BY <1>1, <1>2, <2>1 DEF CallInv
<1>5. QED
  BY <1>3, <1>4, Ends2

\* HandleEstablish answers a handshake.
LEMMA HandleEstablishCall ==
    ASSUME StateType, CallInv, NEW x \in Node, HandleEstablish(x) PROVE CallInv'
<1>1. /\ net[x].kind = "establish" /\ net'[x].kind = "established"
      /\ net'[Peer(x)] = net[Peer(x)] /\ op' = op /\ task' = task /\ run' = run
  BY HandleEstablishIs
<1>2. Stage(x) /\ Stage(Peer(x))
  BY Ends2 DEF CallInv
<1>3. Stage(Peer(x))'
  BY <1>1, <1>2, StageKept
<1>4. Stage(x)'
  BY <1>1, <1>2, NoMsgIs DEF Stage
<1>5. \A y \in Node : Stage(y)'
  BY <1>3, <1>4, Ends2
<1>6. \A y \in Node : net'[y].kind = "establish" => net'[y].secret # 0
  BY <1>1, Ends2, SMT DEF CallInv
<1>7. net'["a"].kind \in {"req", "fin"} => net'["a"] = net["a"]
  BY <1>1, Ends2
<1>8. QED
  BY <1>1, <1>5, <1>6, <1>7 DEF CallInv

\* The task's attempt begins, or the task ends.
LEMMA BootstrapCall ==
    ASSUME StateType, CallInv, Bootstrap PROVE CallInv'
<1>1. /\ task.at = "try" /\ op'["b"] = op["b"] /\ net'["b"] = net["b"] /\ run' = run
      /\ op["a"].who # "bootstrap"
  BY BootstrapIs
<1>2. Stage("a") /\ Stage("b")
  BY Ends2 DEF CallInv
<1>3. Stage("b")'
  BY <1>1, <1>2, StageKept
<1>4. CASE op' = op /\ net' = net /\ task' = [at |-> "done", pk |-> 0, secret |-> 0]
  <2>1. Stage("a")'
    BY <1>2, <1>4, StageKept
  <2>2. \A y \in Node : Stage(y)'
    BY <1>3, <2>1, Ends2
  <2>3. task'.at = "done"
    BY <1>4
  <2>4. QED
    BY <1>1, <1>4, <2>2, <2>3 DEF CallInv
<1>5. CASE /\ task' = task /\ op'["a"] = Flag("bootstrap", "establish", -1, 0, Fresh)
           /\ net'["a"] = Encap(task.pk)
  <2>1. task.pk \in Nat
    BY Fields
  <2>2. Stage("a")'
    BY <1>5, <2>1, StageEstablish
  <2>3. \A y \in Node : Stage(y)'
    BY <1>3, <2>2, Ends2
  <2>4. op'["a"].who = "bootstrap"
    BY <1>5, FlagIs, SMT
  <2>5. net'["a"].kind = "establish" /\ net'["a"].secret # 0
    BY <1>5, <2>1, EncapIs, FreshIs
  <2>6. \A y \in Node : net'[y].kind = "establish" => net'[y].secret # 0
    BY <1>1, <2>5, Ends2, SMT DEF CallInv
  <2>7. QED
    BY <1>1, <1>5, <2>3, <2>4, <2>5, <2>6 DEF CallInv
<1>6. QED
  BY <1>4, <1>5, BootstrapIs

\* The task's attempt answered.
LEMMA BootstrapAnsweredCall ==
    ASSUME StateType, CallInv, BootstrapAnswered PROVE CallInv'
<1>1. /\ op["a"].who = "bootstrap" /\ net["a"].kind = "established" /\ run' = run
      /\ task' = [at |-> "store", pk |-> task.pk, secret |-> op["a"].secret]
      /\ op'["a"] = Idle /\ net'["a"] = NoMsg
      /\ op'["b"] = op["b"] /\ net'["b"] = net["b"]
  BY BootstrapAnsweredIs
<1>2. Stage("a") /\ Stage("b")
  BY Ends2 DEF CallInv
<1>3. \A y \in Node : Stage(y)'
  BY <1>1, <1>2, StageKept, StageIdle, Ends2
<1>4. op["a"].secret # 0
  BY <1>1, <1>2, IdleIs DEF Stage
<1>5. task'.at = "store" /\ task'.secret = op["a"].secret
  BY <1>1
<1>6. \A y \in Node : net'[y].kind = "establish" => net'[y].secret # 0
  BY <1>1, NoMsgIs, Ends2, SMT DEF CallInv
<1>7. QED
  BY <1>1, <1>3, <1>4, <1>5, <1>6, IdleIs, NoMsgIs DEF CallInv

\* The task's secret stored.
LEMMA BootstrapStoredCall ==
    ASSUME StateType, CallInv, BootstrapStored PROVE CallInv'
<1>1. /\ task.at = "store" /\ task' = [at |-> "done", pk |-> 0, secret |-> 0]
      /\ op' = op /\ net' = net /\ run' = run
  BY BootstrapStoredIs
<1>2. \A y \in Node : Stage(y)'
  BY <1>1, StageKept DEF CallInv
<1>3. task'.at = "done"
  BY <1>1
<1>4. QED
  BY <1>1, <1>2, <1>3 DEF CallInv

\* A rebootstrap's handshake begins.
LEMMA RefetchCall ==
    ASSUME StateType, CallInv, NEW x \in Node, Refetch(x) PROVE CallInv'
<1>1. /\ op[x].at = "fetch" /\ op'[x] = Flag(op[x].who, "establish", -1, 0, Fresh)
      /\ net'[x] = Encap(run[Peer(x)]) /\ task' = task /\ run' = run
      /\ op'[Peer(x)] = op[Peer(x)] /\ net'[Peer(x)] = net[Peer(x)]
  BY RefetchIs
<1>2. Stage(x) /\ Stage(Peer(x))
  BY Ends2 DEF CallInv
<1>3. op[x].who \in {"rebootstrap", "passive"} /\ run[Peer(x)] \in Nat
  BY <1>1, <1>2, IdleIs, Fields, Ends2 DEF Stage
<1>4. Stage(x)'
  BY <1>1, <1>3, StageEstablish
<1>5. \A y \in Node : Stage(y)'
  BY <1>1, <1>2, <1>4, StageKept, Ends2
<1>6. op'[x].who = op[x].who
  BY <1>1, FlagIs, SMT
<1>7. net'[x].kind = "establish" /\ net'[x].secret # 0
  BY <1>1, <1>3, EncapIs, FreshIs
<1>8. \A y \in Node : net'[y].kind = "establish" => net'[y].secret # 0
  BY <1>1, <1>7, Ends2, SMT DEF CallInv
<1>9. op'["a"].who = op["a"].who /\ op'["b"].who = op["b"].who
  BY <1>1, <1>6, Ends2
<1>10. op'["a"].who = "rotation" => op'["a"] = op["a"]
  BY <1>1, <1>3, <1>6, Ends2
<1>11. net'["a"].kind \in {"req", "fin"} => net'["a"] = net["a"] /\ op'["a"] = op["a"]
  BY <1>1, <1>7, Ends2
<1>12. QED
  BY <1>1, <1>5, <1>8, <1>9, <1>10, <1>11 DEF CallInv

\* A flag cleared at x and its call forgotten: a rebootstrap answered, a rotation
\* confirmed, a call broken.
LEMMA ClearedCall ==
    ASSUME CallInv, NEW x \in Node, op'[x] = Idle, net'[x] = NoMsg,
           op'[Peer(x)] = op[Peer(x)], net'[Peer(x)] = net[Peer(x)],
           task' = task, run' = run
    PROVE  CallInv'
<1>1. Stage(Peer(x))
  BY Ends2 DEF CallInv
<1>2. \A y \in Node : Stage(y)'
  BY <1>1, StageKept, StageIdle, Ends2
<1>3. \A y \in Node : (op'[y] = op[y] /\ net'[y] = net[y]) \/ (op'[y] = Idle /\ net'[y] = NoMsg)
  BY Ends2
<1>4. \A y \in Node : net'[y].kind = "establish" => net'[y].secret # 0
  BY <1>3, NoMsgIs DEF CallInv
<1>5. QED
  BY <1>2, <1>3, <1>4, IdleIs, NoMsgIs, Ends2 DEF CallInv

\* Onion frames: a passive rebootstrap takes the flag.
LEMMA OnionCall ==
    ASSUME StateType, CallInv, HandleOnionIn \/ \E z \in Node : SendOnion(z) PROVE CallInv'
<1>1. net' = net /\ task' = task /\ run' = run
  BY OnionIs
<1>2. CASE op' = op
  <2>1. \A y \in Node : Stage(y)'
    BY <1>1, <1>2, StageKept DEF CallInv
  <2>2. QED
    BY <1>1, <1>2, <2>1 DEF CallInv
<1>3. ASSUME NEW x \in Node, op[x] = Idle, op'[x] = Flag("passive", "fetch", -1, 0, 0),
             op'[Peer(x)] = op[Peer(x)]
      PROVE  CallInv'
  <2>1. Stage(x) /\ Stage(Peer(x))
    BY Ends2 DEF CallInv
  <2>2. net'[x] = NoMsg
    BY <1>1, <1>3, <2>1, IdleIs DEF Stage
  <2>3. Stage(x)'
    BY <1>3, <2>2, StageFetch
  <2>4. \A y \in Node : Stage(y)'
    BY <1>1, <1>3, <2>1, <2>3, StageKept, Ends2, SMT
  <2>5. op'[x].who = "passive"
    BY <1>3, FlagIs, SMT
  <2>6. net["a"].kind \in {"req", "fin"} => x # "a"
    BY <1>1, <2>2, NoMsgIs
  <2>7. op'["a"] = op["a"] \/ (op'["a"].who = "passive" /\ x = "a")
    BY <1>3, <2>5, Ends2
  <2>8. op'["b"] = op["b"] \/ op'["b"].who = "passive"
    BY <1>3, <2>5, Ends2
  <2>9. QED
    BY <1>1, <2>4, <2>6, <2>7, <2>8 DEF CallInv
<1>4. QED
  BY <1>2, <1>3, OnionIs

\* A rotation begins: REQ names the flag's epoch and secret.
LEMMA StartRotationCall ==
    ASSUME StateType, CallInv, StartRotation PROVE CallInv'
<1>1. /\ task.at = "done" /\ boot["a"] # 0 /\ Negotiated \in Requested
      /\ op'["a"] = Flag("rotation", "req", Negotiated, boot["a"], 0)
      /\ net'["a"] = Msg("req", Negotiated, boot["a"], 0, 0)
      /\ op'["b"] = op["b"] /\ net'["b"] = net["b"] /\ task' = task /\ run' = run
  BY StartRotationIs
<1>2. /\ op'["a"].who = "rotation" /\ op'["a"].at = "req" /\ op'["a"].epoch = Negotiated
      /\ op'["a"].key = boot["a"]
  BY <1>1, FlagIs, SMT
<1>3. net'["a"].kind = "req" /\ net'["a"].epoch = Negotiated /\ net'["a"].key = boot["a"]
  BY <1>1, MsgIs, SMT
<1>4. Stage("a")'
  BY <1>1, <1>2, <1>3 DEF Stage
<1>5. Stage("b")
  BY Ends2 DEF CallInv
<1>6. \A y \in Node : Stage(y)'
  BY <1>1, <1>4, <1>5, StageKept, Ends2
<1>7. \A y \in Node : net'[y].kind = "establish" => net'[y].secret # 0
  BY <1>1, <1>3, Ends2, SMT DEF CallInv
<1>8. QED
  BY <1>1, <1>2, <1>3, <1>6, <1>7 DEF CallInv

\* b's answer to REQ or FIN.
LEMMA AnsweredCall ==
    ASSUME StateType, CallInv, NEW w \in {"epk", "refused", "nokey", "ok"},
           (net["a"].kind = "req" /\ w \in {"epk", "refused"})
           \/ (net["a"].kind = "fin" /\ w # "epk"),
           net'["a"] = Answer(w), net'["b"] = net["b"], op' = op, task' = task, run' = run
    PROVE  CallInv'
<1>1. net'["a"].kind = w
  BY AnswerIs
<1>2. Stage("a") /\ Stage("b")
  BY Ends2 DEF CallInv
<1>3. Stage("a")'
  BY <1>1, <1>2, NoMsgIs DEF Stage
<1>4. \A y \in Node : Stage(y)'
  BY <1>2, <1>3, StageKept, Ends2
<1>5. \A y \in Node : net'[y].kind = "establish" => net'[y].secret # 0
  BY <1>1, Ends2, SMT DEF CallInv
<1>6. QED
  BY <1>1, <1>4, <1>5 DEF CallInv

\* a sends FIN.
LEMMA EphemeralKeyAnsweredCall ==
    ASSUME StateType, CallInv, EphemeralKeyAnswered PROVE CallInv'
<1> DEFINE e == op["a"].epoch
           k == op["a"].key
<1>1. /\ e \in 1 .. MaxEpoch /\ op["a"].who = "rotation"
      /\ op'["a"] = Flag("rotation", "fin", e, k, 0)
      /\ net'["a"] = Msg("fin", e, k, 0, Fresh)
      /\ op'["b"] = op["b"] /\ net'["b"] = net["b"] /\ task' = task /\ run' = run
  BY EphemeralKeyAnsweredIs
<1> HIDE DEF e, k
<1>2. op'["a"].who = "rotation" /\ op'["a"].at = "fin" /\ op'["a"].epoch = e /\ op'["a"].key = k
  BY <1>1, FlagIs, SMT
<1>3. net'["a"].kind = "fin" /\ net'["a"].epoch = e /\ net'["a"].key = k
  BY <1>1, MsgIs, SMT
<1>4. Stage("a")'
  BY <1>1, <1>2, <1>3 DEF Stage
<1>5. Stage("b")
  BY Ends2 DEF CallInv
<1>6. \A y \in Node : Stage(y)'
  BY <1>1, <1>4, <1>5, StageKept, Ends2
<1>7. \A y \in Node : net'[y].kind = "establish" => net'[y].secret # 0
  BY <1>1, <1>3, Ends2, SMT DEF CallInv
<1>8. QED
  BY <1>1, <1>2, <1>3, <1>6, <1>7 DEF CallInv, k

\* A rotation refused: the flag is cleared, or passes to a rebootstrap.
LEMMA RotationRefusedCall ==
    ASSUME StateType, CallInv, RotationRefused PROVE CallInv'
<1>1. /\ op["a"].who = "rotation" /\ net'["a"] = NoMsg
      /\ op'["a"] \in {Idle, Flag("rebootstrap", "fetch", -1, 0, 0)}
      /\ op'["b"] = op["b"] /\ net'["b"] = net["b"] /\ task' = task /\ run' = run
  BY RotationRefusedIs
<1>2. CASE op'["a"] = Idle
  BY <1>1, <1>2, ClearedCall, Ends2
<1>3. CASE op'["a"] = Flag("rebootstrap", "fetch", -1, 0, 0)
  <2>1. Stage("a")'
    BY <1>1, <1>3, StageFetch
  <2>2. Stage("b")
    BY Ends2 DEF CallInv
  <2>3. \A y \in Node : Stage(y)'
    BY <1>1, <2>1, <2>2, StageKept, Ends2
  <2>4. op'["a"].who = "rebootstrap"
    BY <1>3, FlagIs, SMT
  <2>5. \A y \in Node : net'[y].kind = "establish" => net'[y].secret # 0
    BY <1>1, NoMsgIs, Ends2, SMT DEF CallInv
  <2>6. QED
    BY <1>1, <2>3, <2>4, <2>5, NoMsgIs DEF CallInv
<1>4. QED
  BY <1>1, <1>2, <1>3

\* A restart ends the call of x, and may lose the peer's.
LEMMA RestartCall ==
    ASSUME StateType, CallInv, NEW x \in Node, Restart(x) PROVE CallInv'
<1>1. /\ op'[x] = Idle /\ net'[x] = NoMsg /\ op'[Peer(x)] = op[Peer(x)]
      /\ \/ net'[Peer(x)] = NoMsg
         \/ net'[Peer(x)] = net[Peer(x)]
            /\ net[Peer(x)].kind \notin {"establish", "req", "fin"}
      /\ run[x] <= run'[x] /\ run'[Peer(x)] = run[Peer(x)]
      /\ \/ x = "a" /\ task' = [at |-> "fetch", pk |-> 0, secret |-> 0]
         \/ x = "b" /\ task' = task
  BY RestartIs
<1>2. Stage(Peer(x))
  BY Ends2 DEF CallInv
<1>3. Stage(Peer(x))'
  BY <1>1, <1>2, NoMsgIs DEF Stage
<1>4. \A y \in Node : Stage(y)'
  BY <1>1, <1>3, StageIdle, Ends2
<1>5. \A y \in Node : net'[y].kind \notin {"establish", "req", "fin"}
  BY <1>1, NoMsgIs, Ends2
<1>6. CASE x = "a"
  <2>1. task'.at = "fetch" /\ op'["a"].who = "none" /\ op'["b"] = op["b"]
    BY <1>1, <1>6, IdleIs, Ends2, SMT
  <2>2. QED
    BY <1>4, <1>5, <2>1, Ends2 DEF CallInv
<1>7. CASE x = "b"
  <2>1. task' = task /\ op'["a"] = op["a"] /\ op'["b"].who = "none" /\ run["b"] <= run'["b"]
    BY <1>1, <1>7, IdleIs, Ends2
  <2>2. run["b"] \in Nat /\ run'["b"] \in Nat
    BY Fields, RestartIs, Ends2, SMT DEF StateType, CoreType
  <2>3. task.pk \in 1 .. run["b"] => task.pk \in 1 .. run'["b"]
    BY <2>1, <2>2, SMT
  <2>4. QED
    BY <1>4, <1>5, <2>1, <2>3, Ends2 DEF CallInv
<1>8. QED
  BY <1>6, <1>7, Ends2

\* The calls stay as CallInv says, whatever the step.
LEMMA CallStep ==
    ASSUME StateType, CallInv, FinInv, Next PROVE StateType' /\ CallInv'
<1>1. ASSUME NEW x \in Node, FetchPubkey(x) PROVE StateType' /\ CallInv'
  BY <1>1, FetchPubkeyType, FetchPubkeyCall
<1>2. ASSUME NEW x \in Node, HandleEstablish(x) PROVE StateType' /\ CallInv'
  BY <1>2, HandleEstablishIs, HandleEstablishCall
<1>3. ASSUME NEW x \in Node, Refetch(x) PROVE StateType' /\ CallInv'
  BY <1>3, RefetchIs, RefetchCall
<1>4. ASSUME NEW x \in Node, Rebootstrapped(x) PROVE StateType' /\ CallInv'
  <2>1. /\ StateType' /\ op'[x] = Idle /\ net'[x] = NoMsg /\ task' = task /\ run' = run
        /\ op'[Peer(x)] = op[Peer(x)] /\ net'[Peer(x)] = net[Peer(x)]
    BY <1>4, RebootstrappedIs
  <2>2. QED
    BY <2>1, ClearedCall
<1>5. ASSUME HandleOnionIn \/ \E z \in Node : SendOnion(z) PROVE StateType' /\ CallInv'
  BY <1>5, OnionIs, OnionCall
<1>6. ASSUME NEW x \in Node, Break(x) PROVE StateType' /\ CallInv'
  <2>1. /\ StateType' /\ op'[x] = Idle /\ net'[x] = NoMsg /\ task' = task /\ run' = run
        /\ op'[Peer(x)] = op[Peer(x)] /\ net'[Peer(x)] = net[Peer(x)]
    BY <1>6, BreakIs
  <2>2. QED
    BY <2>1, ClearedCall
<1>7. ASSUME NEW x \in Node, Restart(x) PROVE StateType' /\ CallInv'
  BY <1>7, RestartIs, RestartCall
<1>8. CASE Bootstrap
  BY <1>8, BootstrapIs, BootstrapCall
<1>9. CASE BootstrapAnswered
  BY <1>9, BootstrapAnsweredIs, BootstrapAnsweredCall
<1>10. CASE BootstrapStored
  BY <1>10, BootstrapStoredIs, BootstrapStoredCall
<1>11. CASE StartRotation
  BY <1>11, StartRotationIs, StartRotationCall
<1>12. CASE HandleRequestEphemeralKey
  <2>1. /\ StateType' /\ net["a"].kind = "req" /\ net'["b"] = net["b"]
        /\ net'["a"] = Answer("refused") \/ net'["a"] = Answer("epk")
        /\ op' = op /\ task' = task /\ run' = run
    BY <1>12, HandleRequestIs
  <2>2. QED
    BY <2>1, AnsweredCall
<1>13. CASE EphemeralKeyAnswered
  BY <1>13, EphemeralKeyAnsweredIs, EphemeralKeyAnsweredCall
<1>14. CASE HandleEstablishEphemeralSecret
  <2>1. /\ StateType' /\ net["a"].kind = "fin" /\ net'["b"] = net["b"]
        /\ net'["a"] = Answer("refused") \/ net'["a"] = Answer("nokey") \/ net'["a"] = Answer("ok")
        /\ op' = op /\ task' = task /\ run' = run
    BY <1>14, HandleFinIs
  <2>2. QED
    BY <2>1, AnsweredCall
<1>15. CASE RotationDone
  <2>1. /\ StateType' /\ op'["a"] = Idle /\ net'["a"] = NoMsg /\ task' = task /\ run' = run
        /\ op'["b"] = op["b"] /\ net'["b"] = net["b"]
    BY <1>15, RotationDoneIs
  <2>2. QED
    BY <2>1, ClearedCall, Ends2
<1>16. CASE RotationRefused
  BY <1>16, RotationRefusedIs, RotationRefusedCall
<1>17. QED
  BY <1>1, <1>2, <1>3, <1>4, <1>5, <1>6, <1>7, <1>8, <1>9, <1>10, <1>11, <1>12, <1>13, <1>14,
     <1>15, <1>16 DEF Next

-----------------------------------------------------------------------------
(* FIN and the secrets b sends.                                            *)

\* a's call and history left alone.
LEMMA FinKept ==
    ASSUME FinInv, net'["a"] = net["a"], boot'["a"] = boot["a"], master'["a"] = master["a"]
    PROVE  FinInv'
BY DEF FinInv

\* No FIN under way.
LEMMA FinNone ==
    ASSUME net'["a"].kind # "fin" PROVE FinInv'
BY DEF FinInv

\* A FIN is a's rotation, after its task has ended.
LEMMA FinIsRotation ==
    ASSUME StateType, CallInv, net["a"].kind = "fin"
    PROVE  op["a"].who = "rotation" /\ task.at = "done" /\ op["a"] # Idle
BY RotationMsg, IdleIs DEF CallInv

\* The five secrets of a that b's may not be: each is one of those, fresh, or none.
Five == {task.secret, boot["a"], op["a"].key, op["a"].secret, net["a"].key}

\* b's call left alone while a's secrets are of those it had, or fresh, or none.
LEMMA SentKept ==
    ASSUME StateType, CallInv, SentInv, net'["b"] = net["b"],
           task'.secret \in Five \cup {0, Fresh}, boot'["a"] \in Five \cup {0, Fresh},
           op'["a"].key \in Five \cup {0, Fresh}, op'["a"].secret \in Five \cup {0, Fresh},
           net'["a"].key \in Five \cup {0, Fresh}
    PROVE  SentInv'
<1> SUFFICES ASSUME net["b"].kind = "establish"
             PROVE  net["b"].secret \notin Five \cup {0, Fresh}
  BY DEF SentInv
<1>1. net["b"].secret \notin Five
  BY DEF SentInv, Five
<1>2. net["b"].secret # 0
  BY Ends2 DEF CallInv
<1>3. net["b"].secret # Fresh
  BY FreshApart, Ends2
<1>4. QED
  BY <1>1, <1>2, <1>3

\* No handshake of b's under way.
LEMMA SentNone ==
    ASSUME net'["b"].kind # "establish" PROVE SentInv'
BY DEF SentInv

\* FIN's secret is held, and b's secret is apart from a's, after every step.
LEMMA FinSentStep ==
    ASSUME StateType, CallInv, FinInv, SentInv, Next PROVE FinInv' /\ SentInv'
<1>0. 0 \in Five \cup {0, Fresh} /\ Fresh \in Five \cup {0, Fresh}
      /\ \A v \in Five : v \in Five \cup {0, Fresh}
  OBVIOUS
<1>f. /\ task.secret \in Five /\ boot["a"] \in Five /\ op["a"].key \in Five
      /\ op["a"].secret \in Five /\ net["a"].key \in Five
  BY DEF Five
<1>1. ASSUME NEW x \in Node, FetchPubkey(x) PROVE FinInv' /\ SentInv'
  <2>1. net' = net /\ boot' = boot /\ master' = master /\ op' = op
        /\ (task' = task \/ task'.secret = 0)
    BY <1>1 DEF FetchPubkey
  <2>2. QED
    BY <1>0, <1>f, <2>1, FinKept, SentKept
<1>2. ASSUME NEW x \in Node, HandleEstablish(x) PROVE FinInv' /\ SentInv'
  <2>1. CASE x = "a"
    <3>1. net'["a"] = Answer("established") /\ net'["b"] = net["b"] /\ boot'["a"] = boot["a"]
          /\ op' = op /\ task' = task
      BY <1>2, <2>1, HandleEstablishIs, Ends2, SMT
    <3>2. net'["a"].kind # "fin" /\ net'["a"].key = 0
      BY <3>1, AnswerIs
    <3>3. QED
      BY <1>0, <1>f, <3>1, <3>2, FinNone, SentKept
  <2>2. CASE x = "b"
    <3> DEFINE s == IF net["b"].to = run["a"] THEN net["b"].secret ELSE Fresh
    <3>1. /\ net["b"].kind = "establish" /\ net'["b"].kind = "established"
          /\ net'["a"] = net["a"] /\ boot'["a"] = s
      BY <1>2, <2>2, HandleEstablishIs, Ends2, SMT
    <3>2. s # net["a"].key
      BY <3>1, FreshApart, Ends2 DEF SentInv
    <3> HIDE DEF s
    <3>3. FinInv'
      BY <3>1, <3>2 DEF FinInv
    <3>4. SentInv'
      BY <3>1, SentNone
    <3>5. QED
      BY <3>3, <3>4
  <2>3. QED
    BY <2>1, <2>2, Ends2
<1>3. ASSUME NEW x \in Node, Refetch(x) PROVE FinInv' /\ SentInv'
  <2>1. /\ op'[x] = Flag(op[x].who, "establish", -1, 0, Fresh)
        /\ net'[x] = Encap(run[Peer(x)])
        /\ op'[Peer(x)] = op[Peer(x)] /\ net'[Peer(x)] = net[Peer(x)]
        /\ boot' = boot /\ master' = master /\ task' = task
    BY <1>3, RefetchIs
  <2>2. op'[x].key = 0 /\ op'[x].secret = Fresh
    BY <2>1, FlagIs, SMTT(30)
  <2>3. run[Peer(x)] \in Nat
    BY Fields, Ends2
  <2>4. net'[x].kind = "establish" /\ net'[x].key = 0 /\ net'[x].secret = Fresh
    BY <2>1, <2>3, EncapIs
  <2>5. CASE x = "a"
    <3>1. FinInv'
      BY <2>4, <2>5, FinNone
    <3>2. SentInv'
      BY <1>0, <1>f, <2>1, <2>2, <2>4, <2>5, SentKept, Ends2
    <3>3. QED
      BY <3>1, <3>2
  <2>6. CASE x = "b"
    <3>1. net'["a"] = net["a"] /\ op'["a"] = op["a"]
      BY <2>1, <2>6, Ends2
    <3>2. FinInv'
      BY <2>1, <3>1, FinKept
    <3>3. SentInv'
      BY <2>1, <2>4, <2>6, <3>1, FreshApart, Ends2, SMTT(30) DEF SentInv
    <3>4. QED
      BY <3>2, <3>3
  <2>7. QED
    BY <2>5, <2>6, Ends2
<1>4. ASSUME NEW x \in Node, Rebootstrapped(x) PROVE FinInv' /\ SentInv'
  <2>1. /\ op'[x] = Idle /\ net'[x] = NoMsg
        /\ op'[Peer(x)] = op[Peer(x)] /\ net'[Peer(x)] = net[Peer(x)]
        /\ boot'[x] = op[x].secret /\ boot'[Peer(x)] = boot[Peer(x)]
        /\ master'[Peer(x)] = master[Peer(x)] /\ task' = task
    BY <1>4, RebootstrappedIs
  <2>2. CASE x = "a"
    <3>1. FinInv'
      BY <2>1, <2>2, NoMsgIs, FinNone
    <3>2. op'["a"].key = 0 /\ op'["a"].secret = 0 /\ net'["a"].key = 0
      BY <2>1, <2>2, IdleIs, NoMsgIs
    <3>3. QED
      BY <1>0, <1>f, <2>1, <2>2, <3>1, <3>2, SentKept, Ends2
  <2>3. CASE x = "b"
    <3>1. net'["a"] = net["a"] /\ boot'["a"] = boot["a"] /\ master'["a"] = master["a"]
          /\ net'["b"].kind # "establish"
      BY <2>1, <2>3, NoMsgIs, Ends2
    <3>2. QED
      BY <3>1, FinKept, SentNone
  <2>4. QED
    BY <2>2, <2>3, Ends2
<1>5. ASSUME HandleOnionIn \/ \E z \in Node : SendOnion(z) PROVE FinInv' /\ SentInv'
  <2>1. net' = net /\ task' = task
    BY <1>5, OnionIs
  <2>2. CASE UNCHANGED <<boot, master, op>>
    BY <1>0, <1>f, <2>1, <2>2, FinKept, SentKept
  <2>3. ASSUME NEW x \in Node, op[x] = Idle, op'[x] = Flag("passive", "fetch", -1, 0, 0),
               op'[Peer(x)] = op[Peer(x)], boot'[x] = 0, boot'[Peer(x)] = boot[Peer(x)],
               master'[Peer(x)] = master[Peer(x)]
        PROVE  FinInv' /\ SentInv'
    <3>1. op'[x].key = 0 /\ op'[x].secret = 0
      BY <2>3, FlagIs, SMT
    <3>2. CASE x = "a"
      <4>1. net["a"].kind # "fin"
        BY <2>3, <3>2, FinIsRotation
      <4>2. QED
        BY <1>0, <1>f, <2>1, <2>3, <3>1, <3>2, <4>1, FinNone, SentKept
    <3>3. CASE x = "b"
      <4>1. boot'["a"] = boot["a"] /\ master'["a"] = master["a"] /\ op'["a"] = op["a"]
        BY <2>3, <3>3, Ends2
      <4>2. QED
        BY <1>0, <1>f, <2>1, <4>1, FinKept, SentKept
    <3>4. QED
      BY <3>2, <3>3, Ends2
  <2>4. QED
    BY <1>5, <2>2, <2>3, OnionIs
<1>6. ASSUME NEW x \in Node, Break(x) PROVE FinInv' /\ SentInv'
  <2>1. /\ op'[x] = Idle /\ net'[x] = NoMsg /\ task' = task /\ boot' = boot
        /\ op'[Peer(x)] = op[Peer(x)] /\ net'[Peer(x)] = net[Peer(x)]
        /\ master'[Peer(x)] = master[Peer(x)]
    BY <1>6, BreakIs
  <2>2. CASE x = "a"
    <3>1. FinInv'
      BY <2>1, <2>2, NoMsgIs, FinNone
    <3>2. op'["a"].key = 0 /\ op'["a"].secret = 0 /\ net'["a"].key = 0
      BY <2>1, <2>2, IdleIs, NoMsgIs
    <3>3. QED
      BY <1>0, <1>f, <2>1, <2>2, <3>1, <3>2, SentKept, Ends2
  <2>3. CASE x = "b"
    <3>1. net'["a"] = net["a"] /\ master'["a"] = master["a"] /\ net'["b"].kind # "establish"
      BY <2>1, <2>3, NoMsgIs, Ends2
    <3>2. QED
      BY <2>1, <3>1, FinKept, SentNone
  <2>4. QED
    BY <2>2, <2>3, Ends2
<1>7. ASSUME NEW x \in Node, Restart(x) PROVE FinInv' /\ SentInv'
  <2>1. \A y \in Node : net'[y].kind \notin {"establish", "fin"}
    BY <1>7, RestartIs, NoMsgIs, Ends2, SMTT(30)
  <2>2. QED
    BY <2>1, FinNone, SentNone, Ends2
<1>8. CASE Bootstrap
  <2>1. /\ net'["b"] = net["b"] /\ boot' = boot /\ master' = master
        /\ \/ /\ op' = op /\ net' = net
              /\ task' = [at |-> "done", pk |-> 0, secret |-> 0]
           \/ /\ task' = task
              /\ op'["a"] = Flag("bootstrap", "establish", -1, 0, Fresh)
              /\ net'["a"] = Encap(task.pk)
    BY <1>8, BootstrapIs
  <2>2. CASE op' = op /\ net' = net /\ task' = [at |-> "done", pk |-> 0, secret |-> 0]
    <3>1. task'.secret = 0
      BY <2>2
    <3>2. QED
      BY <1>0, <1>f, <2>1, <2>2, <3>1, FinKept, SentKept
  <2>3. CASE /\ task' = task /\ op'["a"] = Flag("bootstrap", "establish", -1, 0, Fresh)
             /\ net'["a"] = Encap(task.pk)
    <3>1. op'["a"].key = 0 /\ op'["a"].secret = Fresh
      BY <2>3, FlagIs, SMT
    <3>2. net'["a"].kind # "fin" /\ net'["a"].key = 0
      BY <2>3, EncapIs, Fields
    <3>3. QED
      BY <1>0, <1>f, <2>1, <2>3, <3>1, <3>2, FinNone, SentKept
  <2>4. QED
    BY <2>1, <2>2, <2>3
<1>9. CASE BootstrapAnswered
  <2>1. /\ task' = [at |-> "store", pk |-> task.pk, secret |-> op["a"].secret]
        /\ op'["a"] = Idle /\ net'["a"] = NoMsg /\ net'["b"] = net["b"] /\ boot' = boot
    BY <1>9, BootstrapAnsweredIs
  <2>2. task'.secret = op["a"].secret /\ op'["a"].key = 0 /\ op'["a"].secret = 0
        /\ net'["a"].key = 0 /\ net'["a"].kind # "fin"
    BY <2>1, IdleIs, NoMsgIs
  <2>3. QED
    BY <1>0, <1>f, <2>1, <2>2, FinNone, SentKept
<1>10. CASE BootstrapStored
  <2>1. /\ task.at = "store" /\ task' = [at |-> "done", pk |-> 0, secret |-> 0]
        /\ boot'["a"] = task.secret /\ op' = op /\ net' = net
    BY <1>10, BootstrapStoredIs
  <2>2. net["a"].kind # "fin"
    BY <2>1, FinIsRotation
  <2>3. task'.secret = 0
    BY <2>1
  <2>4. QED
    BY <1>0, <1>f, <2>1, <2>2, <2>3, FinNone, SentKept
<1>11. CASE StartRotation
  <2>1. /\ op'["a"] = Flag("rotation", "req", Negotiated, boot["a"], 0)
        /\ net'["a"] = Msg("req", Negotiated, boot["a"], 0, 0)
        /\ net'["b"] = net["b"] /\ boot' = boot /\ task' = task
    BY <1>11, StartRotationIs
  <2>2. op'["a"].key = boot["a"] /\ op'["a"].secret = 0
    BY <2>1, FlagIs, SMT
  <2>3. net'["a"].kind # "fin" /\ net'["a"].key = boot["a"]
    BY <2>1, MsgIs, SMT
  <2>4. QED
    BY <1>0, <1>f, <2>1, <2>2, <2>3, FinNone, SentKept
<1>12. CASE HandleRequestEphemeralKey
  <2>1. /\ net'["b"] = net["b"]
        /\ net'["a"] = Answer("refused") \/ net'["a"] = Answer("epk")
        /\ op' = op /\ task' = task /\ boot' = boot
    BY <1>12, HandleRequestIs
  <2>2. net'["a"].kind # "fin" /\ net'["a"].key = 0
    BY <2>1, AnswerIs
  <2>3. QED
    BY <1>0, <1>f, <2>1, <2>2, FinNone, SentKept
<1>13. CASE EphemeralKeyAnswered
  <2> DEFINE e == op["a"].epoch
             k == op["a"].key
  <2>1. /\ master'["a"] = Put(master["a"], e, Fresh)
        /\ op'["a"] = Flag("rotation", "fin", e, k, 0)
        /\ net'["a"] = Msg("fin", e, k, 0, Fresh)
        /\ net'["b"] = net["b"] /\ boot' = boot /\ task' = task
    BY <1>13, EphemeralKeyAnsweredIs
  <2>2. k \in Five
    BY <1>f
  <2> HIDE DEF e, k
  <2>3. op'["a"].key = k /\ op'["a"].secret = 0
    BY <2>1, FlagIs, SMT
  <2>4. net'["a"].key = k /\ net'["a"].epoch = e /\ net'["a"].secret = Fresh
    BY <2>1, MsgIs, SMT
  <2>a. DOMAIN Put(master["a"], e, Fresh) = DOMAIN master["a"] \cup {e}
        /\ Put(master["a"], e, Fresh)[e] = Fresh
    BY DEF Put
  <2>5. e \in DOMAIN master'["a"] /\ master'["a"][e] = Fresh
    BY <2>1, <2>a
  <2>6. FinInv'
    BY <2>4, <2>5, FreshIs DEF FinInv
  <2>7. SentInv'
    BY <1>0, <1>f, <2>1, <2>2, <2>3, <2>4, SentKept
  <2>8. QED
    BY <2>6, <2>7
<1>14. CASE HandleEstablishEphemeralSecret
  <2>1. /\ net'["b"] = net["b"] /\ op' = op /\ task' = task /\ boot' = boot
        /\ net'["a"] = Answer("refused") \/ net'["a"] = Answer("nokey") \/ net'["a"] = Answer("ok")
    BY <1>14, HandleFinIs
  <2>2. net'["a"].kind # "fin" /\ net'["a"].key = 0
    BY <2>1, AnswerIs
  <2>3. QED
    BY <1>0, <1>f, <2>1, <2>2, FinNone, SentKept
<1>15. CASE RotationDone
  <2>1. op'["a"] = Idle /\ net'["a"] = NoMsg /\ net'["b"] = net["b"] /\ boot' = boot /\ task' = task
    BY <1>15, RotationDoneIs
  <2>2. op'["a"].key = 0 /\ op'["a"].secret = 0 /\ net'["a"].key = 0 /\ net'["a"].kind # "fin"
    BY <2>1, IdleIs, NoMsgIs
  <2>3. QED
    BY <1>0, <1>f, <2>1, <2>2, FinNone, SentKept
<1>16. CASE RotationRefused
  <2>1. /\ op'["a"] \in {Idle, Flag("rebootstrap", "fetch", -1, 0, 0)}
        /\ net'["a"] = NoMsg /\ net'["b"] = net["b"] /\ boot' = boot /\ task' = task
    BY <1>16, RotationRefusedIs
  <2>2. op'["a"].key = 0 /\ op'["a"].secret = 0 /\ net'["a"].key = 0 /\ net'["a"].kind # "fin"
    BY <2>1, IdleIs, FlagIs, NoMsgIs, SMT
  <2>3. QED
    BY <1>0, <1>f, <2>1, <2>2, FinNone, SentKept
<1>17. QED
  BY <1>1, <1>2, <1>3, <1>4, <1>5, <1>6, <1>7, <1>8, <1>9, <1>10, <1>11, <1>12, <1>13, <1>14,
     <1>15, <1>16 DEF Next

-----------------------------------------------------------------------------
(* The pair from its first bootstrap on.                                   *)

Young == run["a"] = 1 /\ run["b"] = 1 /\ ~ passive
Pair ==
    /\ op["b"] = Idle
    /\ task.at = "fetch" => Fetching
    /\ task.at = "try" => Trying
    /\ task.at = "store" => Storing
    /\ task.at = "done" => Bonded

\* Before a restart and a passive rebootstrap only a calls, for its task or to rotate.
LEMMA YoungIs ==
    ASSUME StateType, CallInv, PairInv, Young
    PROVE  /\ Pair /\ op["b"] = Idle /\ net["b"] = NoMsg
           /\ op["a"].who \in {"none", "bootstrap", "rotation"} /\ op["a"].at # "fetch"
           /\ op["a"] = Idle => net["a"] = NoMsg
           /\ op["a"].who = "none" => op["a"] = Idle
           /\ op["a"].who = "bootstrap" => task.at = "try" /\ Trying /\ op["a"].at = "establish"
           /\ op["a"].who = "rotation" => task.at = "done" /\ Bonded /\ Rotating
<1>1. Pair
  BY DEF PairInv, Pair, Young
<1>2. Stage("a") /\ Stage("b")
  BY Ends2 DEF CallInv
<1>3. op["b"] = Idle /\ net["b"] = NoMsg
  BY <1>1, <1>2, IdleIs DEF Pair, Stage
<1>4. op["a"].who \in {"none", "bootstrap", "rotation"}
  BY <1>1, IdleIs, Fields DEF Pair, Fetching, Trying, Storing, Bonded
<1>5. op["a"].at # "fetch" /\ (op["a"] = Idle => net["a"] = NoMsg)
      /\ (op["a"].who = "none" => op["a"] = Idle)
      /\ (op["a"].who = "bootstrap" => op["a"].at = "establish")
  BY <1>2, <1>4, IdleIs DEF Stage
<1>6. op["a"].who = "bootstrap" => task.at = "try" /\ Trying
  BY <1>1 DEF Pair, CallInv
<1>7. op["a"].who = "rotation" => task.at = "done" /\ Bonded /\ Rotating
  BY <1>1 DEF Pair, CallInv, Bonded
<1>8. QED
  BY <1>1, <1>3, <1>4, <1>5, <1>6, <1>7

\* The pair is as before when only keys and frames moved.
LEMMA PairKept ==
    ASSUME Pair, UNCHANGED <<boot, master, esk, sendEpoch, task, op, net, faults>>
    PROVE  Pair'
BY DEF Pair, Fetching, Trying, Storing, Bonded, Rotating, Unborn, Seeded, Shared, Confirmed, Negotiated

\* The task has b's key.
LEMMA FetchPubkeyPair ==
    ASSUME StateType, CallInv, PairInv, Young, NEW x \in Node, FetchPubkey(x) PROVE Pair'
<1>1. UNCHANGED <<boot, master, esk, sendEpoch, op, net, faults>>
  BY DEF FetchPubkey
<1>2. CASE task' = task
  BY <1>1, <1>2, YoungIs, PairKept
<1>3. CASE task.at = "fetch" /\ task' = [at |-> "try", pk |-> pubkeys'["a"], secret |-> 0]
  <2>1. Fetching /\ op["b"] = Idle
    BY <1>3, YoungIs DEF Pair
  <2>2. net["a"] = NoMsg
    BY <2>1, YoungIs DEF Fetching
  <2>3. Trying'
    BY <1>1, <2>1, <2>2, IdleIs, NoMsgIs DEF Trying, Fetching, Unborn
  <2>4. task'.at = "try"
    BY <1>3
  <2>5. QED
    BY <1>1, <2>1, <2>3, <2>4 DEF Pair
<1>4. QED
  BY <1>2, <1>3 DEF FetchPubkey

\* b takes the secret of the task's attempt.
LEMMA HandleEstablishPair ==
    ASSUME StateType, CallInv, PairInv, Young, NEW x \in Node, HandleEstablish(x) PROVE Pair'
<1>1. net[x].kind = "establish"
  BY HandleEstablishIs
<1>2. x = "a"
  BY <1>1, YoungIs, NoMsgIs, Ends2
<1>3. op["a"].who = "bootstrap"
  <2>1. Stage("a")
    BY Ends2 DEF CallInv
  <2>2. QED
    BY <1>1, <1>2, <2>1, YoungIs, NoMsgIs DEF Stage
<1>4. task.at = "try" /\ Trying /\ op["b"] = Idle
  BY <1>3, YoungIs
<1>5. net["a"].to = run["b"] /\ net["a"].secret = op["a"].secret
  BY <1>1, <1>2, <1>4 DEF Trying, Young
<1>6. /\ net'["a"].kind = "established" /\ boot'["b"] = op["a"].secret /\ boot'["a"] = boot["a"]
      /\ master'["b"] = Put(Empty, 0, op["a"].secret) /\ master'["a"] = master["a"]
      /\ sendEpoch' = sendEpoch /\ esk' = {} /\ task' = task /\ op' = op
  BY <1>2, <1>5, HandleEstablishIs, Ends2, SMTT(30)
<1>7. Trying'
  BY <1>4, <1>6 DEF Trying, Unborn, Seeded
<1>8. QED
  BY <1>4, <1>6, <1>7 DEF Pair

\* The task's attempt begins.
LEMMA BootstrapPair ==
    ASSUME StateType, CallInv, PairInv, Young, Bootstrap PROVE Pair'
<1>1. task.at = "try" /\ Trying /\ op["b"] = Idle
  BY BootstrapIs, YoungIs DEF Pair
<1>2. /\ boot["a"] = 0 /\ task' = task
      /\ op'["a"] = Flag("bootstrap", "establish", -1, 0, Fresh)
      /\ net'["a"] = Encap(task.pk) /\ op'["b"] = op["b"]
      /\ UNCHANGED <<boot, master, sendEpoch>>
  BY <1>1, BootstrapIs DEF Trying, Unborn
<1>3. task.pk = 1
  BY <1>1, SMT DEF CallInv, Young
<1>4. op'["a"].who = "bootstrap" /\ op'["a"].secret = Fresh
  BY <1>2, FlagIs, SMT
<1>5. net'["a"].kind = "establish" /\ net'["a"].to = 1 /\ net'["a"].secret = Fresh
  BY <1>2, <1>3, EncapIs, SMT
<1>6. Trying'
  BY <1>1, <1>2, <1>4, <1>5 DEF Trying, Unborn
<1>7. QED
  BY <1>1, <1>2, <1>6 DEF Pair

\* The task's attempt answered: b has its secret.
LEMMA BootstrapAnsweredPair ==
    ASSUME StateType, CallInv, PairInv, Young, BootstrapAnswered PROVE Pair'
<1>1. /\ op["a"].who = "bootstrap" /\ net["a"].kind = "established"
      /\ task' = [at |-> "store", pk |-> task.pk, secret |-> op["a"].secret]
      /\ op'["a"] = Idle /\ op'["b"] = op["b"]
      /\ UNCHANGED <<boot, master, esk, sendEpoch>>
  BY BootstrapAnsweredIs
<1>2. Trying /\ op["b"] = Idle
  BY <1>1, YoungIs
<1>3. task'.at = "store" /\ task'.secret = op["a"].secret
  BY <1>1
<1>4. Storing'
  BY <1>1, <1>2, <1>3 DEF Storing, Trying, Unborn, Seeded
<1>5. QED
  BY <1>1, <1>2, <1>3, <1>4 DEF Pair

\* The task's secret stored: the pair shares epoch 0.
LEMMA BootstrapStoredPair ==
    ASSUME StateType, CallInv, PairInv, Young, BootstrapStored PROVE Pair'
<1> DEFINE s == task.secret
           m == Put(Empty, 0, s)
<1>1. /\ task.at = "store" /\ task' = [at |-> "done", pk |-> 0, secret |-> 0]
      /\ boot'["a"] = s /\ boot'["b"] = boot["b"]
      /\ master'["a"] = m /\ master'["b"] = master["b"] /\ sendEpoch' = -1
      /\ op' = op /\ net' = net
  BY BootstrapStoredIs
<1>2. Storing /\ op["b"] = Idle
  BY <1>1, YoungIs DEF Pair
<1>3. boot["b"] = s /\ master["b"] = m /\ op["a"] = Idle
  BY <1>2 DEF Storing, Seeded
<1>4. s # 0
  BY <1>1 DEF CallInv
<1>5. DOMAIN m = {0}
  <2>1. DOMAIN m = DOMAIN Empty \cup {0}
    BY PutIs
  <2>2. QED
    BY <2>1, EmptyIs
<1> HIDE DEF s, m
<1>6. Confirmed' = 0 /\ Negotiated' = 1
  BY <1>1, SMT DEF Confirmed, Negotiated
<1>7. Shared(Confirmed)'
  BY <1>1, <1>3, <1>5, <1>6 DEF Shared
<1>8. Bonded'
  BY <1>1, <1>3, <1>4, <1>5, <1>6, <1>7, IdleIs, SMT DEF Bonded
<1>9. task'.at = "done"
  BY <1>1
<1>10. QED
  BY <1>1, <1>2, <1>8, <1>9 DEF Pair

\* The epochs of a pair: the confirmed one, and the one after it.
LEMMA Epochs ==
    ASSUME StateType
    PROVE  /\ Confirmed \in Nat /\ Confirmed \in 0 .. MaxEpoch /\ Negotiated \in Nat
           /\ Negotiated = Confirmed + 1 /\ Negotiated - 1 = Confirmed /\ Confirmed # Negotiated
BY OrrAssumption, SMT DEF StateType, SecretsType, Confirmed, Negotiated

\* A rotation begins.
LEMMA StartRotationPair ==
    ASSUME StateType, CallInv, PairInv, Young, StartRotation PROVE Pair'
<1>1. /\ task.at = "done" /\ op["a"] = Idle
      /\ op'["a"] = Flag("rotation", "req", Negotiated, boot["a"], 0)
      /\ net'["a"] = Msg("req", Negotiated, boot["a"], 0, 0)
      /\ op'["b"] = op["b"] /\ UNCHANGED <<boot, master, esk, sendEpoch, task, faults>>
  BY StartRotationIs
<1>2. Bonded /\ op["b"] = Idle /\ net["a"].kind = "none"
  BY <1>1, YoungIs, NoMsgIs DEF Pair
<1>3. op'["a"].who = "rotation" /\ op'["a"].epoch = Negotiated /\ op'["a"].key = boot["a"]
  BY <1>1, FlagIs, SMT
<1>4. net'["a"].kind = "req"
  BY <1>1, MsgIs, SMT
<1>5. Confirmed' = Confirmed /\ Negotiated' = Negotiated /\ Shared(Confirmed)'
  BY <1>1, <1>2 DEF Bonded, Shared, Confirmed, Negotiated
<1>6. Rotating'
  BY <1>1, <1>3, <1>4, <1>5 DEF Rotating
<1>7. Negotiated \notin DOMAIN master["a"] /\ ~(faults = 0 /\ Negotiated \in DOMAIN master["b"])
  BY <1>1, <1>2, IdleIs DEF Bonded
<1>8. Bonded'
  BY <1>1, <1>2, <1>3, <1>5, <1>6, <1>7 DEF Bonded
<1>9. QED
  BY <1>1, <1>2, <1>8 DEF Pair

\* b files the ephemeral key of the epoch negotiated.
LEMMA HandleRequestPair ==
    ASSUME StateType, CallInv, PairInv, Young, HandleRequestEphemeralKey PROVE Pair'
<1>1. /\ net["a"].kind = "req"
      /\ \/ boot["b"] # net["a"].key /\ net'["a"] = Answer("refused") /\ esk' = esk
         \/ boot["b"] = net["a"].key /\ net'["a"] = Answer("epk")
            /\ esk' = esk \cup {net["a"].epoch}
      /\ UNCHANGED <<boot, master, sendEpoch, task, op, faults>>
  BY HandleRequestIs
<1>2. op["a"].who = "rotation" /\ net["a"].epoch = op["a"].epoch /\ net["a"].key = op["a"].key
  BY <1>1, RotationMsg
<1>3. task.at = "done" /\ Bonded /\ Rotating /\ op["b"] = Idle
  BY <1>2, YoungIs
<1>4. net'["a"] = Answer("epk") /\ esk' = esk \cup {Negotiated}
  BY <1>1, <1>2, <1>3 DEF Bonded, Rotating
<1>5. net'["a"].kind = "epk"
  BY <1>4, AnswerIs
<1>6. Confirmed' = Confirmed /\ Negotiated' = Negotiated /\ Shared(Confirmed)'
  BY <1>1, <1>3 DEF Bonded, Shared, Confirmed, Negotiated
<1>7. Rotating'
  BY <1>1, <1>3, <1>4, <1>5, <1>6 DEF Rotating
<1>8. ~(faults = 0 /\ Negotiated \in DOMAIN master["b"])
  BY <1>1, <1>3 DEF Bonded
<1>9. Bonded'
  BY <1>1, <1>3, <1>6, <1>7, <1>8 DEF Bonded
<1>10. QED
  BY <1>1, <1>3, <1>9 DEF Pair

\* a stores the epoch and sends FIN.
LEMMA EphemeralKeyAnsweredPair ==
    ASSUME StateType, CallInv, PairInv, Young, EphemeralKeyAnswered PROVE Pair'
<1> DEFINE e == op["a"].epoch
           k == op["a"].key
<1>1. /\ net["a"].kind = "epk" /\ op["a"].who = "rotation"
      /\ master'["a"] = Put(master["a"], e, Fresh) /\ master'["b"] = master["b"]
      /\ op'["a"] = Flag("rotation", "fin", e, k, 0)
      /\ net'["a"] = Msg("fin", e, k, 0, Fresh) /\ op'["b"] = op["b"]
      /\ UNCHANGED <<boot, esk, sendEpoch, task, faults>>
  BY EphemeralKeyAnsweredIs
<1>2. task.at = "done" /\ Bonded /\ Rotating /\ op["b"] = Idle
  BY <1>1, YoungIs
<1>3. e = Negotiated /\ k = boot["a"] /\ Negotiated \in esk
  BY <1>1, <1>2 DEF Rotating
<1> HIDE DEF e, k
<1>4. op'["a"].who = "rotation" /\ op'["a"].at = "fin" /\ op'["a"].epoch = e /\ op'["a"].key = k
  BY <1>1, FlagIs, SMT
<1>5. net'["a"].kind = "fin"
  BY <1>1, MsgIs, SMT
<1>6. Confirmed' = Confirmed /\ Negotiated' = Negotiated
  BY <1>1 DEF Confirmed, Negotiated
<1>7. DOMAIN Put(master["a"], e, Fresh) = DOMAIN master["a"] \cup {e}
      /\ \A d \in DOMAIN master["a"] : d # e => Put(master["a"], e, Fresh)[d] = master["a"][d]
  BY DEF Put
<1>8. Shared(Confirmed)'
  <2>1. Confirmed # e
    BY <1>3, Epochs
  <2>2. Shared(Confirmed)
    BY <1>2 DEF Bonded
  <2>3. QED
    BY <1>1, <1>6, <1>7, <2>1, <2>2 DEF Shared
<1>9. Rotating'
  BY <1>1, <1>3, <1>4, <1>5, <1>6 DEF Rotating
<1>10. DOMAIN master'["a"] \subseteq 0 .. Negotiated
  BY <1>1, <1>2, <1>3, <1>7, Epochs, SMT DEF Bonded
<1>11. ~(faults = 0 /\ Negotiated \in DOMAIN master["b"])
  BY <1>1, <1>2 DEF Bonded
<1>12. Bonded'
  BY <1>1, <1>2, <1>4, <1>6, <1>8, <1>9, <1>10, <1>11 DEF Bonded
<1>13. QED
  BY <1>1, <1>2, <1>12 DEF Pair

\* b installs the epoch a holds, and keeps the confirmed one.
LEMMA HandleFinPair ==
    ASSUME StateType, CallInv, FinInv, PairInv, Young, HandleEstablishEphemeralSecret PROVE Pair'
<1> DEFINE e == net["a"].epoch
           P == Put(master["b"], e, net["a"].secret)
           N == Newest(DOMAIN master["b"] \cup {e})
<1>1. /\ net["a"].kind = "fin" /\ e = op["a"].epoch /\ master'["a"] = master["a"]
      /\ UNCHANGED <<boot, sendEpoch, task, op, faults>>
      /\ \/ boot["b"] # net["a"].key
         \/ e \notin esk
         \/ /\ net'["a"] = Answer("ok")
            /\ DOMAIN master'["b"] = N /\ \A d \in N : master'["b"][d] = P[d]
  BY HandleFinIs
<1>2. op["a"].who = "rotation" /\ op["a"].at = "fin" /\ net["a"].key = op["a"].key
  BY <1>1, RotationMsg
<1>3. task.at = "done" /\ Bonded /\ Rotating /\ op["b"] = Idle
  BY <1>2, YoungIs
<1>4. e = Negotiated /\ net["a"].key = boot["a"] /\ boot["a"] = boot["b"] /\ Negotiated \in esk
  BY <1>1, <1>2, <1>3 DEF Rotating, Bonded
<1>5. Negotiated \in DOMAIN master["a"] /\ master["a"][Negotiated] = net["a"].secret
  BY <1>1, <1>4 DEF FinInv
<1>6. /\ DOMAIN P = DOMAIN master["b"] \cup {e} /\ P[e] = net["a"].secret
      /\ \A d \in DOMAIN master["b"] : d # e => P[d] = master["b"][d]
  BY DEF Put
<1>7. N \subseteq DOMAIN master["b"] \cup {e} /\ Negotiated \in N
      /\ (Confirmed \in DOMAIN master["b"] => Confirmed \in N)
  <2>1. Negotiated \in Nat /\ DOMAIN master["b"] \cup {e} \in SUBSET (0 .. Negotiated)
        /\ Negotiated \in DOMAIN master["b"] \cup {e} /\ Negotiated - 1 = Confirmed
    BY <1>3, <1>4, Epochs, SMT DEF Bonded
  <2>2. QED
    BY <2>1, NewestIs, SMT
<1> HIDE DEF e, P, N
<1>8. net'["a"] = Answer("ok") /\ DOMAIN master'["b"] = N /\ \A d \in N : master'["b"][d] = P[d]
  BY <1>1, <1>4
<1>9. net'["a"].kind = "ok"
  BY <1>8, AnswerIs
<1>10. Confirmed' = Confirmed /\ Negotiated' = Negotiated
  BY <1>1 DEF Confirmed, Negotiated
<1>11. Shared(Confirmed)'
  <2>1. Confirmed # e /\ Shared(Confirmed)
    BY <1>3, <1>4, Epochs DEF Bonded
  <2>2. QED
    BY <1>1, <1>6, <1>7, <1>8, <1>10, <2>1 DEF Shared
<1>12. Shared(Negotiated)'
  BY <1>1, <1>4, <1>5, <1>6, <1>7, <1>8, <1>10 DEF Shared
<1>13. Rotating'
  BY <1>1, <1>3, <1>9, <1>10, <1>12 DEF Rotating
<1>14. DOMAIN master'["b"] \subseteq 0 .. Negotiated
  BY <1>3, <1>4, <1>7, <1>8, Epochs, SMT DEF Bonded
<1>15. Bonded'
  BY <1>1, <1>2, <1>3, <1>9, <1>10, <1>11, <1>13, <1>14 DEF Bonded
<1>16. QED
  BY <1>1, <1>3, <1>15 DEF Pair

\* a confirms the epoch both hold.
LEMMA RotationDonePair ==
    ASSUME StateType, CallInv, PairInv, Young, RotationDone PROVE Pair'
<1>1. /\ net["a"].kind = "ok" /\ sendEpoch' = op["a"].epoch /\ op["a"].epoch \in 1 .. MaxEpoch
      /\ DOMAIN master'["a"] = Newest(DOMAIN master["a"])
      /\ \A d \in DOMAIN master'["a"] : master'["a"][d] = master["a"][d]
      /\ master'["b"] = master["b"] /\ op'["a"] = Idle /\ net'["a"] = NoMsg
      /\ op'["b"] = op["b"] /\ UNCHANGED <<boot, task, faults>>
  BY RotationDoneIs
<1>2. op["a"].who = "rotation"
  BY <1>1, RotationMsg
<1>3. task.at = "done" /\ Bonded /\ Rotating /\ op["b"] = Idle
  BY <1>2, YoungIs
<1>4. op["a"].epoch = Negotiated /\ Shared(Negotiated)
  BY <1>1, <1>3 DEF Rotating
<1>5. Confirmed' = Negotiated /\ Negotiated' = Negotiated + 1
  BY <1>1, <1>4, SMT DEF Confirmed, Negotiated
<1>6. DOMAIN master["a"] \in SUBSET (0 .. Negotiated) /\ DOMAIN master["b"] \in SUBSET (0 .. Negotiated)
  BY <1>3 DEF Bonded
<1>7. DOMAIN master'["a"] \subseteq DOMAIN master["a"] /\ Negotiated \in DOMAIN master'["a"]
  <2>1. Negotiated \in DOMAIN master["a"] /\ Negotiated \in Nat
    BY <1>4, Epochs DEF Shared
  <2>2. Newest(DOMAIN master["a"]) \subseteq DOMAIN master["a"]
        /\ Negotiated \in Newest(DOMAIN master["a"])
    BY <1>6, <2>1, NewestIs
  <2>3. QED
    BY <1>1, <2>2
<1>8. Shared(Confirmed)'
  BY <1>1, <1>4, <1>5, <1>7 DEF Shared
<1>9. /\ DOMAIN master'["a"] \subseteq 0 .. Negotiated' /\ DOMAIN master'["b"] \subseteq 0 .. Negotiated'
      /\ Negotiated' \notin DOMAIN master'["a"] /\ Negotiated' \notin DOMAIN master'["b"]
  BY <1>1, <1>5, <1>6, <1>7, Epochs, SMT
<1>10. Bonded'
  BY <1>1, <1>3, <1>8, <1>9, IdleIs DEF Bonded
<1>11. QED
  BY <1>1, <1>3, <1>10 DEF Pair

\* A call of a's that fails leaves the pair as it was before the call.
LEMMA BreakPair ==
    ASSUME StateType, CallInv, PairInv, Young, NEW x \in Node, Break(x) PROVE Pair'
<1>1. x = "a"
  BY BreakIs, YoungIs, Ends2, SMT
<1>2. /\ op["a"] # Idle /\ op'["a"] = Idle /\ net'["a"] = NoMsg /\ op'["b"] = op["b"]
      /\ master'["b"] = master["b"]
      /\ \/ op["a"].at = "fin" /\ master'["a"] = Removed(master["a"], op["a"].epoch)
         \/ op["a"].at # "fin" /\ master'["a"] = master["a"]
      /\ \/ faults' = faults + 1
         \/ faults' = faults /\ net["a"].kind \in {"none", "epk"}
      /\ UNCHANGED <<boot, esk, sendEpoch, task>>
  BY <1>1, BreakIs, NoMsgIs, Ends2, SMT
<1>3. op["b"] = Idle /\ op["a"].who \in {"bootstrap", "rotation"}
  BY <1>2, YoungIs
<1>4. CASE op["a"].who = "bootstrap"
  <2>1. task.at = "try" /\ Trying /\ op["a"].at # "fin"
    BY <1>4, YoungIs
  <2>2. Trying'
    BY <1>2, <2>1, IdleIs, NoMsgIs DEF Trying, Unborn
  <2>3. QED
    BY <1>2, <1>3, <2>1, <2>2 DEF Pair
<1>5. CASE op["a"].who = "rotation"
  <2>1. task.at = "done" /\ Bonded /\ Rotating
    BY <1>5, YoungIs
  <2>2. op["a"].epoch = Negotiated /\ Confirmed # Negotiated
    BY <2>1, Epochs DEF Rotating
  <2>3. Confirmed' = Confirmed /\ Negotiated' = Negotiated
    BY <1>2 DEF Confirmed, Negotiated
  <2>4. Table(master["a"]) /\ Shared(Confirmed)
    BY <2>1, Ends2 DEF StateType, SecretsType, Bonded
  <2>5. /\ DOMAIN master'["a"] \subseteq DOMAIN master["a"] /\ Negotiated \notin DOMAIN master'["a"]
        /\ Confirmed \in DOMAIN master'["a"] /\ master'["a"][Confirmed] = master["a"][Confirmed]
    <3>1. Confirmed \in DOMAIN master["a"]
      BY <2>4 DEF Shared
    <3>2. CASE op["a"].at = "fin"
      <4>1. /\ DOMAIN Removed(master["a"], Negotiated) = DOMAIN master["a"] \ {Negotiated}
            /\ \A d \in DOMAIN master["a"] :
                  d # Negotiated => Removed(master["a"], Negotiated)[d] = master["a"][d]
        BY <2>4, RemovedIs
      <4>2. QED
        BY <1>2, <2>2, <3>1, <3>2, <4>1
    <3>3. CASE op["a"].at # "fin"
      BY <1>2, <2>1, <3>1, <3>3 DEF Bonded
    <3>4. QED
      BY <3>2, <3>3
  <2>6. Shared(Confirmed)'
    BY <1>2, <2>3, <2>4, <2>5 DEF Shared
  <2>7. ~(faults' = 0 /\ Negotiated \in DOMAIN master["b"])
    <3>1. faults \in Nat
      BY SMT DEF StateType, CoreType
    <3>2. faults' = 0 => faults = 0 /\ net["a"].kind \in {"none", "epk"}
      BY <1>2, <3>1, SMT
    <3>3. QED
      BY <2>1, <3>2 DEF Bonded
  <2>8. Bonded'
    BY <1>2, <2>1, <2>3, <2>5, <2>6, <2>7, IdleIs DEF Bonded
  <2>9. QED
    BY <1>2, <1>3, <2>1, <2>8 DEF Pair
<1>6. QED
  BY <1>3, <1>4, <1>5

\* While nobody restarts and no passive rebootstrap begins, the pair stays as it
\* must be, whatever the step.
LEMMA PairStep ==
    ASSUME StateType, CallInv, FinInv, PairInv, Next PROVE PairInv'
<1> SUFFICES ASSUME Young' PROVE Pair'
  BY DEF PairInv, Young, Pair
<1>1. ASSUME NEW x \in Node, Restart(x) PROVE FALSE
  BY <1>1, RestartIs, Ends2 DEF Young
<1>2. ASSUME run' = run, passive' = passive PROVE Young
  BY <1>2 DEF Young
<1>3. ASSUME NEW x \in Node, FetchPubkey(x) PROVE Pair'
  BY <1>2, <1>3, FetchPubkeyPair DEF FetchPubkey
<1>4. ASSUME NEW x \in Node, HandleEstablish(x) PROVE Pair'
  BY <1>2, <1>4, HandleEstablishPair DEF HandleEstablish
<1>5. ASSUME NEW x \in Node, Refetch(x) PROVE Pair'
  <2>1. Young /\ op[x].at = "fetch"
    BY <1>2, <1>5 DEF Refetch
  <2>2. QED
    BY <2>1, YoungIs, IdleIs, Ends2
<1>6. ASSUME NEW x \in Node, Rebootstrapped(x) PROVE Pair'
  <2>1. Young /\ op[x].who \in {"rebootstrap", "passive"}
    BY <1>2, <1>6 DEF Rebootstrapped
  <2>2. QED
    BY <2>1, YoungIs, IdleIs, Ends2
<1>7. ASSUME HandleOnionIn \/ \E z \in Node : SendOnion(z) PROVE Pair'
  <2>1. ~ passive'
    BY DEF Young
  <2>2. run' = run /\ UNCHANGED <<boot, master, esk, sendEpoch, op, passive, task, net, faults>>
    BY <1>7, <2>1, OnionIs
  <2>3. Young
    BY <1>2, <2>2
  <2>4. QED
    BY <2>2, <2>3, YoungIs, PairKept
<1>8. ASSUME NEW x \in Node, Break(x) PROVE Pair'
  BY <1>2, <1>8, BreakPair DEF Break
<1>9. CASE Bootstrap
  BY <1>2, <1>9, BootstrapPair DEF Bootstrap, registry
<1>10. CASE BootstrapAnswered
  BY <1>2, <1>10, BootstrapAnsweredPair DEF BootstrapAnswered, registry
<1>11. CASE BootstrapStored
  BY <1>2, <1>11, BootstrapStoredPair DEF BootstrapStored
<1>12. CASE StartRotation
  BY <1>2, <1>12, StartRotationPair DEF StartRotation, registry
<1>13. CASE HandleRequestEphemeralKey
  BY <1>2, <1>13, HandleRequestPair DEF HandleRequestEphemeralKey
<1>14. CASE EphemeralKeyAnswered
  BY <1>2, <1>14, EphemeralKeyAnsweredPair DEF EphemeralKeyAnswered
<1>15. CASE HandleEstablishEphemeralSecret
  BY <1>2, <1>15, HandleFinPair DEF HandleEstablishEphemeralSecret
<1>16. CASE RotationDone
  BY <1>2, <1>16, RotationDonePair DEF RotationDone
<1>17. CASE RotationRefused
  <2>1. Young /\ net["a"].kind \in {"refused", "nokey"} /\ op["a"].who = "rotation"
    BY <1>2, <1>17, RotationRefusedIs
  <2>2. QED
    BY <2>1, YoungIs DEF Rotating
<1>18. QED
  BY <1>1, <1>3, <1>4, <1>5, <1>6, <1>7, <1>8, <1>9, <1>10, <1>11, <1>12, <1>13, <1>14, <1>15,
     <1>16, <1>17 DEF Next

-----------------------------------------------------------------------------
(* The theorems.                                                           *)

\* Two ORRs that have just started: nothing shared, nothing under way.
LEMMA InitInv == Init => IInv
<1> SUFFICES ASSUME Init PROVE IInv
  OBVIOUS
<1>1. /\ \A x \in Node : run[x] = 1 /\ pubkeys[x] = 0 /\ boot[x] = 0 /\ master[x] = Empty
                         /\ op[x] = Idle /\ net[x] = NoMsg
      /\ run \in [Node -> Nat] /\ pubkeys \in [Node -> Nat] /\ boot \in [Node -> Number]
      /\ DOMAIN master = Node /\ faults = 0 /\ esk = {} /\ sendEpoch = -1
  BY DEF Init, Number
<1>2. CoreType
  BY <1>1, OrrAssumption, Ends2, SMT DEF CoreType
<1>3. SecretsType
  BY <1>1, EmptyIs, OrrAssumption, SMT DEF SecretsType
<1>4. task \in TaskOf /\ task.at = "fetch"
  BY DEF Init, TaskOf, Number
<1>5. op \in [Node -> FlagOf] /\ net \in [Node -> MsgOf]
  BY IdleIs, NoMsgIs DEF Init
<1>6. StateType
  BY <1>2, <1>3, <1>4, <1>5 DEF StateType, CallsType
<1>7. \A x \in Node : Stage(x)
  BY <1>1 DEF Stage
<1>8. CallInv
  BY <1>1, <1>4, <1>7, IdleIs, NoMsgIs, Ends2 DEF CallInv
<1>9. FinInv /\ SentInv
  BY <1>1, NoMsgIs, Ends2 DEF FinInv, SentInv
<1>10. PairInv
  BY <1>1, <1>4, Ends2 DEF PairInv, Fetching, Unborn
<1>11. QED
  BY <1>6, <1>8, <1>9, <1>10 DEF IInv

\* Every step of either ORR keeps the invariant.
LEMMA NextInv == IInv /\ [Next]_vars => IInv'
<1> SUFFICES ASSUME IInv, [Next]_vars PROVE IInv'
  OBVIOUS
<1>1. CASE Next
  <2>1. StateType' /\ CallInv'
    BY <1>1, CallStep DEF IInv
  <2>2. FinInv' /\ SentInv'
    BY <1>1, FinSentStep DEF IInv
  <2>3. PairInv'
    BY <1>1, PairStep DEF IInv
  <2>4. QED
    BY <2>1, <2>2, <2>3 DEF IInv
<1>2. CASE UNCHANGED vars
  <2>1. UNCHANGED <<run, pubkeys, boot, master, esk, sendEpoch, task, op, net, passive, faults>>
    BY <1>2 DEF vars, registry
  <2>2. StateType'
    BY <2>1, CoreKept, SecretsKept, Types DEF IInv, StateType, CallsType
  <2>3. CallInv'
    <3>1. \A x \in Node : Stage(x)'
      BY <2>1, StageKept DEF IInv, CallInv
    <3>2. QED
      BY <2>1, <3>1 DEF IInv, CallInv
  <2>4. FinInv' /\ SentInv'
    BY <2>1 DEF IInv, FinInv, SentInv
  <2>5. PairInv'
    <3> SUFFICES ASSUME Young' PROVE Pair'
      BY DEF PairInv, Young, Pair
    <3>1. Young
      BY <2>1 DEF Young
    <3>2. QED
      BY <2>1, <3>1, YoungIs, PairKept DEF IInv
  <2>6. QED
    BY <2>2, <2>3, <2>4, <2>5 DEF IInv
<1>3. QED
  BY <1>1, <1>2

\* The inductive invariant holds of every behaviour.
THEOREM InvCorrect == Spec => []IInv
BY InitInv, NextInv, PTL DEF Spec

\* The types of TypeOK are among those of the invariant.
LEMMA InvType == IInv => TypeOK
<1> SUFFICES ASSUME IInv PROVE TypeOK
  OBVIOUS
<1>1. CoreType /\ SecretsType
  BY DEF IInv, StateType
<1>2. run \in [Node -> 1 .. MaxFaults + 1] /\ pubkeys \in [Node -> 0 .. MaxFaults + 1]
  BY <1>1, OrrAssumption, Ends2, SMT DEF CoreType
<1>3. boot \in [Node -> {0} \cup Secret] /\ esk \subseteq 1 .. MaxEpoch + 1
      /\ sendEpoch \in -1 .. MaxEpoch /\ faults \in 0 .. MaxFaults
  BY <1>1 DEF CoreType, SecretsType, Number, Requested
<1>4. \A x \in Node : DOMAIN master[x] \subseteq 0 .. MaxEpoch /\ Range(master[x]) \subseteq Secret
  BY <1>1 DEF SecretsType, Table, Range
<1>5. QED
  BY <1>2, <1>3, <1>4 DEF TypeOK

\* The registry's epochs, secrets and executions stay in their ranges, whatever the
\* bounds: peers.rs never holds an epoch that was not negotiated.
THEOREM TypeCorrect == Spec => []TypeOK
BY InvCorrect, InvType, PTL

\* Max of a set of epochs whose largest is known.
LEMMA MaxIs ==
    ASSUME NEW n \in Nat, NEW S \in SUBSET (0 .. n), n \in S PROVE Max(S) = n
<1>1. \A y \in S : y \in Int /\ n >= y
  BY SMT
<1>2. \E x \in S : \A y \in S : x >= y
  BY <1>1
<1>3. Max(S) \in S /\ \A y \in S : Max(S) >= y
  BY <1>2 DEF Max
<1>4. Max(S) \in Int /\ n >= Max(S) /\ Max(S) >= n
  BY <1>1, <1>3, Zenon
<1>5. QED
  BY <1>4, SMT

\* Of a bonded pair, what a sends b opens unless the first FIN is on its way: a sends
\* with the confirmed epoch, which b kept; before any is confirmed, with the epoch 0 of
\* the bootstrap, or with epoch 1 once b has answered its FIN.
LEMMA ConfirmedOpen ==
    ASSUME IInv, Young, Booted
    PROVE  Bonded /\ (FirstFin \/ Opens("a"))
<1>1. Bonded /\ StateType
  BY YoungIs DEF IInv, Booted, Pair
<1>2. CASE sendEpoch # -1
  <2>1. Confirmed = sendEpoch /\ SendEpoch("a") = sendEpoch
    BY <1>2 DEF Confirmed, SendEpoch
  <2>2. QED
    BY <1>1, <2>1, Ends2 DEF Bonded, Shared, Opens
<1>3. CASE sendEpoch = -1
  <2> DEFINE S == DOMAIN master["a"]
  <2>1. Confirmed \in S /\ S \in SUBSET (0 .. Negotiated)
    BY <1>1 DEF Bonded, Shared
  <2>2. S # {} /\ SendEpoch("a") = Max(S)
    BY <1>3, <2>1 DEF SendEpoch
  <2>3. CASE Negotiated \in S
    <3>1. op["a"].at = "fin"
      BY <1>1, <2>3 DEF Bonded
    <3>2. op["a"].who = "rotation" /\ net["a"].kind \in {"none", "fin", "ok", "nokey", "refused"}
      BY <3>1, IdleIs, Ends2 DEF IInv, CallInv, Stage
    <3>3. Rotating
      BY <1>1, <3>2 DEF Bonded
    <3>4. net["a"].kind = "fin" \/ Shared(Negotiated)
      BY <3>2, <3>3 DEF Rotating
    <3>5. Max(S) = Negotiated
      BY <1>1, <2>1, <2>3, Epochs, MaxIs
    <3>6. QED
      BY <1>1, <1>3, <2>2, <3>4, <3>5, Ends2 DEF Opens, Shared, FirstFin
  <2>4. CASE Negotiated \notin S
    <3>1. S \in SUBSET (0 .. Confirmed) /\ Confirmed \in Nat
      BY <1>1, <2>1, <2>4, Epochs, SMT
    <3>2. Max(S) = Confirmed
      BY <2>1, <3>1, MaxIs
    <3>3. QED
      BY <1>1, <2>2, <3>2, Ends2 DEF Opens, Shared, Bonded
  <2>5. QED
    BY <2>3, <2>4
<1>4. QED
  BY <1>2, <1>3

\* What b sends a opens, and what a sends b opens but for the first FIN.
LEMMA InvHitless == IInv => Hitless
<1> SUFFICES ASSUME IInv, faults = 0, Booted PROVE Opens("b") /\ (FirstFin \/ Opens("a"))
  BY DEF Hitless
<1>1. Young
  BY Ends2, SMT DEF IInv, StateType, CoreType, Young, Booted
<1>2. Bonded /\ (FirstFin \/ Opens("a")) /\ StateType
  BY <1>1, ConfirmedOpen DEF IInv
<1>3. Opens("b")
  <2> DEFINE S == DOMAIN master["b"]
  <2>1. Confirmed \in S /\ S \in SUBSET (0 .. Negotiated)
    BY <1>2 DEF Bonded, Shared
  <2>2. S # {} /\ SendEpoch("b") = Max(S)
    BY <2>1 DEF SendEpoch
  <2>3. CASE Negotiated \in S
    <3>1. net["a"].kind = "ok"
      BY <1>2, <2>3 DEF Bonded
    <3>2. op["a"].who = "rotation"
      BY <3>1, RotationMsg DEF IInv
    <3>3. Shared(Negotiated)
      BY <1>2, <3>1, <3>2 DEF Bonded, Rotating
    <3>4. Max(S) = Negotiated
      BY <1>2, <2>1, <2>3, Epochs, MaxIs
    <3>5. QED
      BY <2>2, <3>3, <3>4, Ends2 DEF Opens, Shared
  <2>4. CASE Negotiated \notin S
    <3>1. S \in SUBSET (0 .. Confirmed) /\ Confirmed \in Nat
      BY <1>2, <2>1, <2>4, Epochs, SMT
    <3>2. Max(S) = Confirmed
      BY <2>1, <3>1, MaxIs
    <3>3. QED
      BY <1>2, <2>2, <3>2, Ends2 DEF Opens, Shared, Bonded
  <2>5. QED
    BY <2>3, <2>4
<1>4. QED
  BY <1>2, <1>3

\* Rotations are hitless but for the first FIN (rotation.rs, send_epoch_for): once the
\* bootstrap is complete, and while no call breaks, nothing restarts and no passive
\* rebootstrap begins, what b sends a opens at any moment, and what a sends b opens
\* except between the provisional commit of the first rotation after a bootstrap and
\* b's handling of its FIN; for every epoch_history_keep and any number of rotations.
THEOREM HitlessCorrect == Spec => []Hitless
BY InvCorrect, InvHitless, PTL

\* Only the handler of FIN gives b an epoch other than 0.
LEMMA OnlyFinInstalls ==
    ASSUME IInv, Next, ~ HandleEstablishEphemeralSecret
    PROVE  DOMAIN master'["b"] \subseteq DOMAIN master["b"] \cup {0}
<1>0. StateType /\ CallInv /\ FinInv
  BY DEF IInv
<1>a. \A s : DOMAIN Put(Empty, 0, s) = {0}
  <2>1. \A s : DOMAIN Put(Empty, 0, s) = DOMAIN Empty \cup {0}
    BY DEF Put
  <2>2. QED
    BY <2>1, EmptyIs
<1>b. DOMAIN Empty = {}
  BY EmptyIs
<1>1. ASSUME NEW x \in Node, FetchPubkey(x) \/ Refetch(x) PROVE master' = master
  BY <1>1 DEF FetchPubkey, Refetch
<1>2. ASSUME NEW x \in Node, HandleEstablish(x) PROVE DOMAIN master'["b"] \subseteq DOMAIN master["b"] \cup {0}
  <2>1. master'["b"] = master["b"] \/ \E s : master'["b"] = Put(Empty, 0, s)
    BY <1>0, <1>2, HandleEstablishIs, Ends2, SMTT(30)
  <2>2. QED
    BY <1>a, <2>1
<1>3. ASSUME NEW x \in Node, Rebootstrapped(x) PROVE DOMAIN master'["b"] \subseteq DOMAIN master["b"] \cup {0}
  <2>1. master'["b"] = master["b"] \/ \E s : master'["b"] = Put(Empty, 0, s)
    BY <1>0, <1>3, RebootstrappedIs, Ends2, SMT
  <2>2. QED
    BY <1>a, <2>1
<1>4. ASSUME HandleOnionIn \/ \E z \in Node : SendOnion(z)
      PROVE  DOMAIN master'["b"] \subseteq DOMAIN master["b"] \cup {0}
  <2>1. master'["b"] = master["b"] \/ master'["b"] = Empty
    BY <1>0, <1>4, OnionIs, Ends2
  <2>2. QED
    BY <1>b, <2>1
<1>5. ASSUME NEW x \in Node, Break(x) PROVE DOMAIN master'["b"] \subseteq DOMAIN master["b"] \cup {0}
  <2>2. \A e : DOMAIN Removed(master["b"], e) \subseteq DOMAIN master["b"]
    BY DEF Removed, Restrict
  <2>3. master'["b"] = master["b"] \/ \E e : master'["b"] = Removed(master["b"], e)
    BY <1>0, <1>5, BreakIs, Ends2, SMTT(30)
  <2>4. QED
    BY <2>2, <2>3
<1>6. ASSUME NEW x \in Node, Restart(x) PROVE DOMAIN master'["b"] \subseteq DOMAIN master["b"] \cup {0}
  <2>1. master'["b"] = master["b"] \/ master'["b"] = Empty
    BY <1>0, <1>6, RestartIs, Ends2
  <2>2. QED
    BY <1>b, <2>1
<1>7. CASE Bootstrap \/ BootstrapAnswered \/ StartRotation \/ HandleRequestEphemeralKey
  BY <1>7 DEF Bootstrap, BootstrapAnswered, StartRotation, HandleRequestEphemeralKey, registry
<1>8. CASE BootstrapStored \/ EphemeralKeyAnswered \/ RotationDone \/ RotationRefused
  <2>1. master'["b"] = master["b"]
    BY <1>0, <1>8, BootstrapStoredIs, EphemeralKeyAnsweredIs, RotationDoneIs, RotationRefusedIs
  <2>2. QED
    BY <2>1
<1>9. QED
  BY <1>1, <1>2, <1>3, <1>4, <1>5, <1>6, <1>7, <1>8 DEF Next

\* The epoch b installs, a holds with the same secret.
LEMMA FinInstalls ==
    ASSUME IInv, HandleEstablishEphemeralSecret,
           NEW e \in DOMAIN master'["b"] \ DOMAIN master["b"], boot["a"] = net["a"].key
    PROVE  e \in DOMAIN master["a"] /\ master["a"][e] = master'["b"][e]
<1> DEFINE d == net["a"].epoch
           P == Put(master["b"], d, net["a"].secret)
           N == Newest(DOMAIN master["b"] \cup {d})
<1>1. /\ net["a"].kind = "fin"
      /\ master' = master \/ (DOMAIN master'["b"] = N /\ \A c \in N : master'["b"][c] = P[c])
  BY HandleFinIs DEF IInv
<1>2. N \subseteq DOMAIN master["b"] \cup {d}
  BY NewestPart
<1>3. P[d] = net["a"].secret
  BY DEF Put
<1>4. d \in DOMAIN master["a"] /\ master["a"][d] = net["a"].secret
  BY <1>1 DEF IInv, FinInv
<1> HIDE DEF d, P, N
<1>5. e = d /\ e \in N /\ master'["b"][e] = P[e]
  BY <1>1, <1>2
<1>6. QED
  BY <1>3, <1>4, <1>5

\* The responder confirms what the initiator holds: an epoch b installs on a FIN a
\* already holds with the same secret unless a's history was replaced since, and from
\* the end of the bootstrap to a restart or a passive rebootstrap what a sends b
\* opens, with calls broken at any point, except while the first FIN is on its way.
THEOREM ConfirmedOpensCorrect == Spec => ConfirmedOpens
<1> DEFINE Installed ==
             \A e \in DOMAIN master'["b"] \ DOMAIN master["b"] :
                e > 0 /\ boot["a"] = net["a"].key
                   => e \in DOMAIN master["a"] /\ master["a"][e] = master'["b"][e]
           Confirms == TypeOK /\ (run = [x \in Node |-> 1] /\ Booted => FirstFin \/ Opens("a"))
<1>1. IInv => Confirms
  <2> SUFFICES ASSUME IInv, run = [x \in Node |-> 1], Booted
               PROVE  FirstFin \/ Opens("a")
    BY InvType
  <2>1. Young
    BY Ends2 DEF Young, Booted
  <2>2. QED
    BY <2>1, ConfirmedOpen
<1>2. IInv /\ [Next]_vars => [Installed]_vars
  <2> SUFFICES ASSUME IInv, Next,
                      NEW e \in DOMAIN master'["b"] \ DOMAIN master["b"], e > 0,
                      boot["a"] = net["a"].key
               PROVE  e \in DOMAIN master["a"] /\ master["a"][e] = master'["b"][e]
    OBVIOUS
  <2>1. HandleEstablishEphemeralSecret
    <3>1. ~(0 > 0)
      BY SMT
    <3>2. QED
      BY <3>1, OnlyFinInstalls
  <2>2. QED
    BY <2>1, FinInstalls
<1> HIDE DEF Installed, Confirms
<1>3. Spec => []Confirms /\ [][Installed]_vars
  BY <1>1, <1>2, InvCorrect, PTL DEF Spec
<1>4. QED
  BY <1>3 DEF ConfirmedOpens, Installed, Confirms
==============================================================================
