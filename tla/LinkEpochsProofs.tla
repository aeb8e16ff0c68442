-------------------------- MODULE LinkEpochsProofs --------------------------
(***************************************************************************)
(* Proofs about LinkEpochs, for any lookahead, window, jump and queue, and *)
(* any number of rotations and faults.                                     *)
(***************************************************************************)
EXTENDS LinkEpochs, FiniteSetTheorems, SequenceTheorems, WellFoundedInduction, TLAPS

\* Most steps are first-order ones.
USE Zenon

-----------------------------------------------------------------------------
(* The inductive invariant.                                                *)

FrameOf == [kind : {"init", "resp", "resync"}, epoch : Epoch,
            body : Nat \cup Secret \cup {None}, run : [End -> Nat]]
LoopOf == [pc : {"boot", "select", "retry", "relink"}, epoch : 0 .. MaxEpoch + 1,
           last : Epoch, sent : BOOLEAN, target : Epoch, needWork : BOOLEAN,
           pruneAfter : Epoch \cup {None}]

\* A table from epochs: a store, the pending keypairs, resp_cache.
Table(f, V) == f \in [DOMAIN f -> V] /\ DOMAIN f \subseteq Epoch

\* A window keeps to its size.
Window(f) == Table(f, Secret) /\ Cardinality(DOMAIN f) <= Keep

\* The types of TypeOK, with those of the frames, the keypairs and the ciphertexts.
StoreType == DOMAIN store = End /\ \A x \in End : Window(store[x])
TableType == Table(pending, Nat) /\ Table(cache, Secret)
WireType == wire \in [End -> Seq(FrameOf)] /\ \A x \in End : Len(wire[x]) <= QueueMax
RestType ==
    /\ resync \in Epoch /\ permit \in BOOLEAN /\ recent \in [End -> BOOLEAN]
    /\ batch \in [to : End \cup {"none"}, epoch : Epoch \cup {None}]
    /\ fresh \in Nat /\ run \in [End -> Nat] /\ crossed \in BOOLEAN
StateType == StoreType /\ TableType /\ WireType /\ RestType /\ loop \in LoopOf

\* The frames on their way to x, and those of them that were sent since the last restart.
Frames(x) == Range(wire[x])
Current(x, kind) == {f \in Frames(x) : f.kind = kind /\ f.run = run}

\* INITs carry a public key and RESPs a ciphertext, and none comes from the future.
FrameInv ==
    \A x \in End : \A f \in Frames(x) :
        /\ f.kind = "init" => f.body \in Nat
        /\ f.kind = "resp" => f.body \in Secret
        /\ \A y \in End : f.run[y] <= run[y]

\* r's window holds what it answered last.
AnsweredInv ==
    \A e \in DOMAIN store["r"] : e \in DOMAIN cache /\ cache[e] = store["r"][e]

\* The loop waits for an epoch whose keypair it has, has passed only epochs below the
\* top of i's window, and prunes below that top.
LoopInv ==
    /\ loop.sent => Establishing /\ loop.epoch \in DOMAIN pending
    /\ loop.pc \in {"boot", "retry"} => loop.epoch <= Highest("i") + 1
    /\ loop.pc = "retry" => loop.last = loop.target
    /\ loop.pc = "relink" =>
          /\ loop.last - Lookahead \in Epoch
          /\ loop.epoch = loop.last - Lookahead \/ loop.epoch <= Highest("i") + 1
    /\ loop.pruneAfter <= loop.target

\* Epoch e will not be given another keypair in this execution of i.
Settled(e) ==
    /\ e <= Highest("i")
    /\ loop.pc # "select" => e < loop.epoch \/ e = MaxEpoch

\* An epoch that frames speak of has its keypair still, or is settled.
SettledInv ==
    \A f \in Current("r", "init") \cup Current("i", "resp") :
        f.epoch \in DOMAIN pending \/ Settled(f.epoch)

\* An INIT under way carries the public key of the pending keypair.
KeypairInv ==
    \A f \in Current("r", "init") :
        f.epoch \in DOMAIN pending => f.body = pending[f.epoch]

\* The secrets of i are the ones r answered last, no INIT under way makes r answer with
\* another, and a RESP under way brings the one r has.
AgreeInv ==
    ~ crossed =>
        /\ \A e \in DOMAIN store["i"] \cap DOMAIN cache : store["i"][e] = cache[e]
        /\ \A f \in Current("r", "init") : f.epoch \in DOMAIN store["i"] =>
              f.epoch \in DOMAIN cache /\ cache[f.epoch].pk = f.body
        /\ \A f \in Current("i", "resp") : f.epoch \in DOMAIN pending =>
              /\ f.body.pk = pending[f.epoch]
              /\ f.epoch \in DOMAIN cache /\ cache[f.epoch] = f.body

IInv == /\ StateType /\ FrameInv /\ AnsweredInv /\ LoopInv
        /\ SettledInv /\ KeypairInv /\ AgreeInv
-----------------------------------------------------------------------------
(* Greatest and least epochs.                                              *)

\* A set of naturals has a least element,
LEMMA LeastExists ==
    ASSUME NEW S \in SUBSET Nat, S # {}
    PROVE  \E x \in S : \A y \in S : x <= y
<1>1. PICK x \in S : \A y \in S : ~ (<<y, x>> \in OpToRel(<, Nat))
  BY NatLessThanWellFounded, WFMin, Zenon
<1>2. \A y \in S : ~ (y < x)
  BY <1>1, Zenon DEF OpToRel
<1>3. QED
  BY <1>2, SMT

\* and one that is bounded a greatest.
LEMMA GreatestExists ==
    ASSUME NEW N \in Nat, NEW S \in SUBSET (0 .. N), S # {}
    PROVE  \E x \in S : \A y \in S : x >= y
<1> DEFINE T == {N - y : y \in S}
<1>1. T \in SUBSET Nat /\ T # {}
  <2>1. \A y \in S : N - y \in Nat
    BY SMT
  <2>2. \E y \in S : N - y \in T
    OBVIOUS
  <2>3. QED
    BY <2>1, <2>2
<1>2. PICK t \in T : \A u \in T : t <= u
  BY <1>1, LeastExists
<1>3. PICK x \in S : t = N - x
  OBVIOUS
<1>4. ASSUME NEW y \in S PROVE x >= y
  <2>1. N - y \in T
    OBVIOUS
  <2>2. N - x <= N - y
    BY <1>2, <1>3, <2>1
  <2>3. x \in Int /\ y \in Int /\ N \in Int
    BY SMT
  <2>4. QED
    BY <2>2, <2>3, SMT
<1>5. QED
  BY <1>4

\* Max and Min of a set of epochs are what they are called.
LEMMA MaxMin ==
    ASSUME NEW S \in SUBSET Epoch, S # {}
    PROVE  /\ Max(S) \in S /\ \A y \in S : y <= Max(S)
           /\ Min(S) \in S /\ \A y \in S : Min(S) <= y
<1>0. S \in SUBSET Nat /\ S \in SUBSET (0 .. MaxEpoch) /\ MaxEpoch \in Nat
  BY LinkAssumption, SMT DEF Epoch
<1>1. \E x \in S : \A y \in S : x >= y
  BY <1>0, GreatestExists
<1>2. \E x \in S : \A y \in S : x <= y
  BY <1>0, LeastExists
<1>3. Max(S) \in S /\ \A y \in S : Max(S) >= y
  BY <1>1 DEF Max
<1>4. Min(S) \in S /\ \A y \in S : Min(S) <= y
  BY <1>2 DEF Min
<1>5. QED
  BY <1>0, <1>3, <1>4

\* The greater and the lesser of two.
LEMMA MaxOfTwo ==
    ASSUME NEW a \in Int, NEW b \in Int
    PROVE  /\ Max({a, b}) = IF a >= b THEN a ELSE b
           /\ Min({a, b}) = IF a <= b THEN a ELSE b
BY SMT DEF Max, Min

\* The greatest of three, the first of them at least 0.
LEMMA MaxOfThree ==
    ASSUME NEW a \in Epoch, NEW b \in Epoch
    PROVE  Max({a, b, 1}) \in Epoch
<1>1. {a, b, 1} \in SUBSET Epoch
  BY LinkAssumption, SMT DEF Epoch
<1>2. QED
  BY <1>1, MaxMin

\* Arithmetic that saturates.
LEMMA SatIs ==
    ASSUME NEW e \in Int, e >= 0
    PROVE  /\ Sat(e) \in Epoch /\ Sat(e) <= e
           /\ Sat(e) # MaxEpoch => Sat(e) = e
           /\ e <= MaxEpoch => Sat(e) = e
           /\ e > MaxEpoch => Sat(e) = MaxEpoch
BY LinkAssumption, SMT DEF Sat, Epoch

\* The top of a set of epochs.
Top(S) == IF S = {} THEN -1 ELSE Max(S)

LEMMA TopIs ==
    ASSUME NEW S \in SUBSET Epoch
    PROVE  /\ S = {} => Top(S) = -1
           /\ S # {} => Top(S) \in S
           /\ Top(S) \in Int /\ Top(S) >= -1 /\ Top(S) <= MaxEpoch
           /\ \A e \in S : e <= Top(S)
<1>1. CASE S = {}
  BY <1>1, LinkAssumption, SMT DEF Top
<1>2. CASE S # {}
  <2>1. Top(S) = Max(S)
    BY <1>2 DEF Top
  <2>2. Max(S) \in S /\ \A y \in S : y <= Max(S)
    BY <1>2, MaxMin
  <2>3. \A y \in S : y \in Int /\ y >= 0 /\ y <= MaxEpoch
    BY LinkAssumption, SMT DEF Epoch
  <2>4. QED
    BY <1>2, <2>1, <2>2, <2>3, SMT
<1>3. QED
  BY <1>1, <1>2

\* It only moves up when each epoch has one above it.
LEMMA TopGrows ==
    ASSUME NEW S \in SUBSET Epoch, NEW T \in SUBSET Epoch,
           \A e \in S : \E d \in T : e <= d
    PROVE  Top(S) <= Top(T)
<1>0. /\ S = {} => Top(S) = -1
      /\ S # {} => Top(S) \in S
      /\ Top(T) \in Int /\ Top(T) >= -1
      /\ \A e \in T : e <= Top(T)
  BY TopIs
<1>1. CASE S = {}
  BY <1>0, <1>1
<1>2. CASE S # {}
  <2>1. PICK d \in T : Top(S) <= d
    BY <1>0, <1>2
  <2>2. Top(S) \in Int /\ d \in Int /\ d <= Top(T)
    <3>1. S \in SUBSET Int /\ T \in SUBSET Int
      BY LinkAssumption, SMT DEF Epoch
    <3>2. QED
      BY <1>0, <1>2, <2>1, <3>1
  <2>3. QED
    BY <1>0, <2>1, <2>2, SMT
<1>3. QED
  BY <1>1, <1>2

\* Highest and Lowest of a window.
LEMMA HighestIs ==
    ASSUME NEW x \in End
    PROVE  /\ Highest(x) = Top(DOMAIN store[x])
           /\ Highest(x)' = Top(DOMAIN store'[x])
BY DEF Highest, Top, None

LEMMA LowestIs ==
    ASSUME NEW x \in End, DOMAIN store[x] \in SUBSET Epoch, DOMAIN store[x] # {}
    PROVE  Lowest(x) \in Epoch /\ Highest(x) \in Epoch
<1>1. Lowest(x) = Min(DOMAIN store[x]) /\ Highest(x) = Max(DOMAIN store[x])
  BY DEF Lowest, Highest
<1>2. QED
  BY <1>1, MaxMin

-----------------------------------------------------------------------------
(* The windows.                                                            *)

\* Putting an entry in a table.
LEMMA PutIs ==
    ASSUME NEW f, NEW e, NEW v
    PROVE  /\ DOMAIN Put(f, e, v) = DOMAIN f \cup {e}
           /\ Put(f, e, v)[e] = v
           /\ \A d \in DOMAIN f \ {e} : Put(f, e, v)[d] = f[d]
BY DEF Put

\* A table with one entry more is a table.
LEMMA PutTable ==
    ASSUME NEW V, NEW f, Table(f, V), NEW e \in Epoch, NEW v \in V
    PROVE  Table(Put(f, e, v), V)
<1>0. DOMAIN Put(f, e, v) = DOMAIN f \cup {e}
  BY PutIs
<1>1. DOMAIN Put(f, e, v) \subseteq Epoch
  BY <1>0 DEF Table
<1>2. Put(f, e, v) \in [DOMAIN f \cup {e} -> V]
  BY DEF Put, Table
<1>3. QED
  BY <1>0, <1>1, <1>2 DEF Table

\* So is one with entries less.
LEMMA WithoutTable ==
    ASSUME NEW V, NEW f, Table(f, V), NEW S
    PROVE  /\ Table(Without(f, S), V)
           /\ DOMAIN Without(f, S) = DOMAIN f \ S
           /\ \A d \in DOMAIN f \ S : Without(f, S)[d] = f[d]
BY DEF Table, Without, Restrict

\* The window keeps to its size and to the newest epochs.
LEMMA EvictKeeps ==
    ASSUME NEW f, Window(f), NEW e \in Epoch, NEW s \in Secret
    PROVE  LET g == Evict(Put(f, e, s))
           IN  /\ Window(g) /\ DOMAIN g \subseteq DOMAIN f \cup {e}
               /\ \A d \in DOMAIN g : g[d] = IF d = e THEN s ELSE f[d]
               /\ \A d \in DOMAIN f \cup {e} : \E h \in DOMAIN g : d <= h
<1> DEFINE p == Put(f, e, s)
           g == Evict(p)
           D == DOMAIN f \cup {e}
           m == Min(DOMAIN p)
<1>0. /\ Table(p, Secret) /\ DOMAIN p = D /\ p[e] = s
      /\ \A d \in D : p[d] = IF d = e THEN s ELSE f[d]
      /\ D \in SUBSET Epoch /\ D # {}
  <2>0. Table(f, Secret)
    BY DEF Window
  <2>1. Table(p, Secret)
    BY <2>0, PutTable, Zenon
  <2>2. DOMAIN p = D /\ p[e] = s /\ \A d \in DOMAIN f \ {e} : p[d] = f[d]
    BY DEF Put
  <2>3. D \in SUBSET Epoch /\ D # {}
    BY DEF Window, Table
  <2>4. \A d \in D : p[d] = IF d = e THEN s ELSE f[d]
    BY <2>2, Zenon
  <2>5. QED
    BY <2>1, <2>2, <2>3, <2>4
<1> DEFINE Kept(h) == /\ Window(h) /\ DOMAIN h \subseteq D
                      /\ \A d \in DOMAIN h : h[d] = IF d = e THEN s ELSE f[d]
                      /\ \A d \in D : \E c \in DOMAIN h : d <= c
<1> SUFFICES Kept(g)
  OBVIOUS
<1> HIDE DEF p
<1>1. IsFiniteSet(DOMAIN f) /\ IsFiniteSet(D)
  <2>1. IsFiniteSet(0 .. MaxEpoch)
    BY FS_Interval, LinkAssumption, SMT
  <2>2. QED
    BY <1>0, <2>1, FS_Subset DEF Epoch
<1>2. Cardinality(D) \in Nat /\ Cardinality(DOMAIN f) \in Nat /\ Keep \in Nat /\ Keep >= 2
  BY <1>1, FS_CardinalityType, LinkAssumption, SMT
<1>3. CASE Cardinality(D) <= Keep
  <2>1. g = p
    BY <1>0, <1>2, <1>3, SMT DEF Evict
  <2>2. \A d \in D : d <= d
    BY <1>0, SMT DEF Epoch
  <2>3. QED
    BY <1>0, <1>3, <2>1, <2>2 DEF Window
<1>4. CASE Cardinality(D) > Keep
  <2>1. m \in D /\ \A d \in D : m <= d
    BY <1>0, MaxMin
  <2>2. /\ Table(g, Secret) /\ DOMAIN g = D \ {m}
        /\ \A d \in D \ {m} : g[d] = p[d]
    <3>1. g = Without(p, {m})
      BY <1>0, <1>2, <1>4 DEF Evict
    <3>2. Table(Without(p, {m}), Secret)
      BY <1>0, WithoutTable, Zenon
    <3>3. /\ DOMAIN Without(p, {m}) = DOMAIN p \ {m}
          /\ \A d \in DOMAIN p \ {m} : Without(p, {m})[d] = p[d]
      BY DEF Without, Restrict
    <3>4. QED
      BY <1>0, <3>1, <3>2, <3>3
  <2>3. Cardinality(D) <= Cardinality(DOMAIN f) + 1
    BY <1>1, <1>2, FS_AddElement, SMT
  <2>4. Cardinality(D \ {m}) = Cardinality(D) - 1
    BY <1>1, <2>1, FS_RemoveElement
  <2>5. Cardinality(D \ {m}) <= Keep /\ Cardinality(D \ {m}) # 0
    BY <1>2, <1>4, <2>3, <2>4, SMT DEF Window
  <2>6. D \ {m} # {}
    BY <2>5, FS_EmptySet
  <2>7. \A d \in D : \E h \in D \ {m} : d <= h
    <3>1. PICK h \in D \ {m} : TRUE
      BY <2>6
    <3>2. m <= h /\ \A d \in D : d <= d
      BY <1>0, <2>1, SMT DEF Epoch
    <3>3. QED
      BY <3>1, <3>2
  <2>8. QED
    <3>1. Window(g)
      BY <2>2, <2>5 DEF Window
    <3>2. QED
      BY <1>0, <2>2, <2>7, <3>1
<1>5. QED
  BY <1>2, <1>3, <1>4, SMT

\* SecretStore::insert.
LEMMA InsertKeeps ==
    ASSUME NEW f, Window(f), NEW e \in Epoch, NEW s \in Secret
    PROVE  LET g == Insert(f, e, s)
           IN  /\ Window(g) /\ DOMAIN g \subseteq DOMAIN f \cup {e}
               /\ \A d \in DOMAIN g : g[d] = IF d = e /\ e \notin DOMAIN f THEN s ELSE f[d]
               /\ \A d \in DOMAIN f \cup {e} : \E h \in DOMAIN g : d <= h
<1>1. CASE e \in DOMAIN f
  <2>1. Insert(f, e, s) = f
    BY <1>1 DEF Insert
  <2>2. \A d \in DOMAIN f : d <= d
    BY SMT DEF Window, Table, Epoch
  <2>3. QED
    BY <1>1, <2>1, <2>2
<1>2. CASE e \notin DOMAIN f
  <2>1. Insert(f, e, s) = Evict(Put(f, e, s))
    BY <1>2 DEF Insert
  <2>2. QED
    BY <1>2, <2>1, EvictKeeps, SMT
<1>3. QED
  BY <1>1, <1>2

\* SecretStore::prune_below, of a window that reaches base.
LEMMA FromKeeps ==
    ASSUME NEW V, NEW f, Table(f, V), NEW base \in Epoch
    PROVE  /\ Table(From(f, base), V)
           /\ DOMAIN From(f, base) = {d \in DOMAIN f : d >= base}
           /\ \A d \in DOMAIN From(f, base) : From(f, base)[d] = f[d]
<1> DEFINE S == 0 .. base - 1
<1>1. DOMAIN f \ S = {d \in DOMAIN f : d >= base}
  BY SMT DEF Table, Epoch
<1>2. Table(Without(f, S), V)
  BY WithoutTable, Zenon
<1>3. DOMAIN Without(f, S) = DOMAIN f \ S /\ \A d \in DOMAIN f \ S : Without(f, S)[d] = f[d]
  BY DEF Without, Restrict
<1>4. From(f, base) = Without(f, S)
  BY DEF From
<1> HIDE DEF S
<1>5. QED
  BY <1>1, <1>2, <1>3, <1>4

-----------------------------------------------------------------------------
(* The queues.                                                             *)

\* What Append, Tail and SubSeq do to the frames of a queue.
LEMMA QueueIs ==
    ASSUME NEW q \in Seq(FrameOf)
    PROVE  /\ Range(q) \subseteq FrameOf
           /\ \A f \in FrameOf : /\ Append(q, f) \in Seq(FrameOf) /\ Len(Append(q, f)) = Len(q) + 1
                                 /\ Range(Append(q, f)) = Range(q) \cup {f}
           /\ q # <<>> => /\ Head(q) \in Range(q)
                          /\ Tail(q) \in Seq(FrameOf) /\ Len(Tail(q)) < Len(q)
                          /\ Range(Tail(q)) \subseteq Range(q)
           /\ \A m \in 1 .. Len(q) + 1, n \in 0 .. Len(q) :
                 /\ SubSeq(q, m, n) \in Seq(FrameOf) /\ Len(SubSeq(q, m, n)) <= Len(q)
                 /\ Range(SubSeq(q, m, n)) \subseteq Range(q)
<1>0. Len(q) \in Nat /\ DOMAIN q = 1 .. Len(q) /\ \A j \in 1 .. Len(q) : q[j] \in FrameOf
  BY LenProperties, ElementOfSeq
<1>1. \A t \in Seq(FrameOf) : Range(t) = {t[j] : j \in 1 .. Len(t)}
  BY RangeEquality
<1>2. Range(q) \subseteq FrameOf
  BY <1>0, <1>1, SMT
<1>3. ASSUME NEW f \in FrameOf
      PROVE  /\ Append(q, f) \in Seq(FrameOf) /\ Len(Append(q, f)) = Len(q) + 1
             /\ Range(Append(q, f)) = Range(q) \cup {f}
  <2>1. /\ Append(q, f) \in Seq(FrameOf) /\ Len(Append(q, f)) = Len(q) + 1
        /\ \A j \in 1 .. Len(q) : Append(q, f)[j] = q[j]
        /\ Append(q, f)[Len(q) + 1] = f
    BY AppendProperties, SMT
  <2>2. 1 .. Len(q) + 1 = (1 .. Len(q)) \cup {Len(q) + 1}
    BY <1>0, SMT
  <2>3. Range(Append(q, f)) = {Append(q, f)[j] : j \in 1 .. Len(q) + 1} /\ Range(q) = {q[j] : j \in 1 .. Len(q)}
    BY <1>1, <2>1
  <2>4. Range(Append(q, f)) = Range(q) \cup {f}
    BY <2>1, <2>2, <2>3, ZenonT(30)
  <2>5. QED
    BY <2>1, <2>4
<1>4. ASSUME q # <<>>
      PROVE  /\ Head(q) \in Range(q)
             /\ Tail(q) \in Seq(FrameOf) /\ Len(Tail(q)) < Len(q)
             /\ Range(Tail(q)) \subseteq Range(q)
  <2>1. /\ Tail(q) \in Seq(FrameOf) /\ Len(Tail(q)) = Len(q) - 1
        /\ \A j \in 1 .. Len(Tail(q)) : Tail(q)[j] = q[j + 1]
    BY <1>4, HeadTailProperties
  <2>2. Len(q) >= 1 /\ Head(q) = q[1]
    BY <1>0, <1>4, EmptySeq, LenProperties, SMT
  <2>3. Head(q) \in Range(q)
    BY <1>0, <1>1, <2>2, SMT
  <2>4. Range(Tail(q)) \subseteq Range(q)
    <3>1. \A j \in 1 .. Len(Tail(q)) : j + 1 \in 1 .. Len(q)
      BY <1>0, <2>1, SMT
    <3>2. \A j \in 1 .. Len(Tail(q)) : Tail(q)[j] \in Range(q)
      BY <1>1, <2>1, <3>1, Zenon
    <3>3. Range(Tail(q)) = {Tail(q)[j] : j \in 1 .. Len(Tail(q))}
      BY <1>1, <2>1
    <3>4. QED
      BY <3>2, <3>3
  <2>5. QED
    BY <1>0, <2>1, <2>3, <2>4, SMT
<1>5. ASSUME NEW m \in 1 .. Len(q) + 1, NEW n \in 0 .. Len(q)
      PROVE  /\ SubSeq(q, m, n) \in Seq(FrameOf) /\ Len(SubSeq(q, m, n)) <= Len(q)
             /\ Range(SubSeq(q, m, n)) \subseteq Range(q)
  <2>1. /\ SubSeq(q, m, n) \in Seq(FrameOf)
        /\ Len(SubSeq(q, m, n)) = IF m <= n THEN n - m + 1 ELSE 0
        /\ \A j \in 1 .. n - m + 1 : SubSeq(q, m, n)[j] = q[m + j - 1]
    BY <1>0, SubSeqProperties, SMT
  <2>2. \A j \in 1 .. Len(SubSeq(q, m, n)) : SubSeq(q, m, n)[j] \in Range(q)
    <3>1. ASSUME NEW j \in 1 .. Len(SubSeq(q, m, n))
          PROVE  SubSeq(q, m, n)[j] \in Range(q)
      <4>1. m <= n /\ j \in 1 .. n - m + 1
        BY <1>0, <2>1, SMT
      <4>2. m + j - 1 \in 1 .. Len(q) /\ SubSeq(q, m, n)[j] = q[m + j - 1]
        BY <1>0, <2>1, <4>1, SMT
      <4>3. QED
        BY <1>1, <4>2
    <3>2. QED
      BY <3>1
  <2>3. Range(SubSeq(q, m, n)) \subseteq Range(q)
    <3>1. Range(SubSeq(q, m, n)) = {SubSeq(q, m, n)[j] : j \in 1 .. Len(SubSeq(q, m, n))}
      BY <1>1, <2>1
    <3>2. QED
      BY <2>2, <3>1
  <2>4. QED
    BY <1>0, <2>1, <2>3, SMT
<1>6. QED
  BY <1>2, <1>3, <1>4, <1>5

\* A queue that a frame was sent on.
LEMMA QueuedIs ==
    ASSUME WireType, NEW x \in End, NEW f \in FrameOf
    PROVE  /\ Queued(x, f) \in Seq(FrameOf) /\ Len(Queued(x, f)) <= QueueMax
           /\ Range(Queued(x, f)) \subseteq Frames(x) \cup {f}
<1>0. wire[x] \in Seq(FrameOf) /\ Len(wire[x]) <= QueueMax /\ Len(wire[x]) \in Nat
  BY LenProperties DEF WireType
<1>1. CASE Len(wire[x]) < QueueMax
  <2>1. /\ Append(wire[x], f) \in Seq(FrameOf) /\ Len(Append(wire[x], f)) = Len(wire[x]) + 1
        /\ Range(Append(wire[x], f)) = Range(wire[x]) \cup {f}
    BY <1>0, QueueIs, Zenon
  <2>2. Queued(x, f) = Append(wire[x], f)
    BY <1>1 DEF Queued
  <2>3. QED
    BY <1>0, <1>1, <2>1, <2>2, LinkAssumption, SMT DEF Frames
<1>2. CASE ~ (Len(wire[x]) < QueueMax)
  BY <1>0, <1>2 DEF Queued, Frames
<1>3. QED
  BY <1>1, <1>2

\* What waits in a queue is a frame.
LEMMA FramesAre ==
    ASSUME WireType, NEW x \in End
    PROVE  Frames(x) \subseteq FrameOf
<1>1. wire[x] \in Seq(FrameOf)
  BY DEF WireType
<1>2. QED
  BY <1>1, QueueIs DEF Frames

\* The frame that is handled, and the queue it leaves.
LEMMA HandledIs ==
    ASSUME WireType, NEW x \in End, NEW kind, Handling(x, kind)
    PROVE  /\ Head(wire[x]) \in FrameOf /\ Head(wire[x]) \in Frames(x)
           /\ Head(wire[x]).kind = kind
           /\ Tail(wire[x]) \in Seq(FrameOf) /\ Len(Tail(wire[x])) <= QueueMax
           /\ Range(Tail(wire[x])) \subseteq Frames(x)
<1>0. wire[x] \in Seq(FrameOf) /\ wire[x] # <<>> /\ Len(wire[x]) <= QueueMax
  BY DEF WireType, Handling
<1>1. /\ Range(wire[x]) \subseteq FrameOf /\ Head(wire[x]) \in Range(wire[x])
      /\ Tail(wire[x]) \in Seq(FrameOf) /\ Len(Tail(wire[x])) < Len(wire[x])
      /\ Range(Tail(wire[x])) \subseteq Range(wire[x])
  BY <1>0, QueueIs
<1>2. Len(wire[x]) \in Nat /\ Len(Tail(wire[x])) \in Nat
  BY <1>0, <1>1, LenProperties
<1>3. QED
  BY <1>0, <1>1, <1>2, LinkAssumption, SMT DEF Frames, Handling

\* A queue that a socket or an end took frames from.
LEMMA CutIs ==
    ASSUME WireType, NEW x \in End, NEW n \in 0 .. Len(wire[x])
    PROVE  /\ Cut(wire[x], n) \in Seq(FrameOf) /\ Len(Cut(wire[x], n)) <= QueueMax
           /\ Range(Cut(wire[x], n)) \subseteq Frames(x)
           /\ SubSeq(wire[x], 1, n) \in Seq(FrameOf) /\ Len(SubSeq(wire[x], 1, n)) <= QueueMax
           /\ Range(SubSeq(wire[x], 1, n)) \subseteq Frames(x)
<1>0. wire[x] \in Seq(FrameOf) /\ Len(wire[x]) <= QueueMax /\ Len(wire[x]) \in Nat
  BY LenProperties DEF WireType
<1>1. \A m \in 1 .. Len(wire[x]) + 1, k \in 0 .. Len(wire[x]) :
         /\ SubSeq(wire[x], m, k) \in Seq(FrameOf) /\ Len(SubSeq(wire[x], m, k)) <= Len(wire[x])
         /\ Range(SubSeq(wire[x], m, k)) \subseteq Range(wire[x])
  BY <1>0, QueueIs, Zenon
<1>2. n + 1 \in 1 .. Len(wire[x]) + 1 /\ Len(wire[x]) \in 0 .. Len(wire[x]) /\ 1 \in 1 .. Len(wire[x]) + 1
  BY <1>0, SMT
<1>3. \A q \in Seq(FrameOf) : Len(q) <= Len(wire[x]) => Len(q) <= QueueMax
  BY <1>0, LenProperties, LinkAssumption, SMT
<1>4. QED
  BY <1>1, <1>2, <1>3 DEF Cut, Frames

-----------------------------------------------------------------------------
(* What the steps do.                                                      *)

\* A change of the window of one end.
LEMMA StoreSet ==
    ASSUME StoreType, NEW x \in End, NEW g, Window(g), store' = [store EXCEPT ![x] = g]
    PROVE  StoreType' /\ store'[x] = g /\ \A y \in End \ {x} : store'[y] = store[y]
BY DEF StoreType

\* A change of the queue to one end.
LEMMA WireSet ==
    ASSUME WireType, NEW x \in End, NEW q \in Seq(FrameOf), Len(q) <= QueueMax,
           wire' = [wire EXCEPT ![x] = q]
    PROVE  WireType' /\ Frames(x)' = Range(q) /\ \A y \in End \ {x} : Frames(y)' = Frames(y)
BY DEF WireType, Frames

\* handle_init answers from resp_cache, or with a secret of its own that its window
\* takes, and the RESP is of the execution that the INIT is of.
InitHandled(f, ct) ==
    /\ f \in Frames("r") /\ f \in FrameOf /\ f.kind = "init"
    /\ ct \in Secret
    /\ Frames("r")' \subseteq Frames("r")
    /\ Frames("i")' \subseteq Frames("i") \cup {RespFrame(f.epoch, ct, f)}
    /\ store'["i"] = store["i"] /\ pending' = pending /\ loop' = loop /\ run' = run
    /\ crossed' = (crossed \/ f.run # run)
    /\ \/ /\ f.epoch \in DOMAIN cache /\ cache[f.epoch].pk = f.body /\ ct = cache[f.epoch]
          /\ store' = store /\ cache' = cache
       \/ /\ ~ (f.epoch \in DOMAIN cache /\ cache[f.epoch].pk = f.body) /\ ct.pk = f.body
          /\ DOMAIN cache' = DOMAIN cache \cup {f.epoch} /\ cache'[f.epoch] = ct
          /\ \A d \in DOMAIN cache \ {f.epoch} : cache'[d] = cache[d]
          /\ DOMAIN store'["r"] \subseteq DOMAIN store["r"] \cup {f.epoch}
          /\ \A d \in DOMAIN store'["r"] \ {f.epoch} : store'["r"][d] = store["r"][d]
          /\ f.epoch \in DOMAIN store'["r"] => store'["r"][f.epoch] = ct
          /\ \A d \in DOMAIN store["r"] : \E h \in DOMAIN store'["r"] : d <= h

LEMMA HandleInitDoes ==
    ASSUME StateType, FrameInv, AnsweredInv, HandleInit
    PROVE  StateType' /\ \E f, ct : InitHandled(f, ct)
<1> DEFINE f == Head(wire["r"])
           e == f.epoch
           known == e \in DOMAIN cache
           ct == IF known /\ cache[e].pk = f.body THEN cache[e] ELSE Encap(f.body)
           a == RespFrame(e, ct, f)
           q == Queued("i", a)
           t == Tail(wire["r"])
<1>0. StoreType /\ TableType /\ WireType /\ RestType /\ loop \in LoopOf
  BY DEF StateType
<1>1. "i" \in End /\ "r" \in End /\ End \ {"i"} = {"r"}
  BY DEF End
<1>2. /\ f \in FrameOf /\ f \in Frames("r") /\ f.kind = "init"
      /\ t \in Seq(FrameOf) /\ Len(t) <= QueueMax /\ Range(t) \subseteq Frames("r")
  BY <1>0, <1>1, HandledIs DEF HandleInit
<1>3. e \in Epoch /\ f.body \in Nat /\ f.run \in [End -> Nat]
  BY <1>1, <1>2 DEF FrameOf, FrameInv
<1>4. ct \in Secret
  BY <1>0, <1>3 DEF Encap, Secret, TableType, Table, RestType
<1>5. a \in FrameOf
  BY <1>3, <1>4 DEF RespFrame, FrameOf
<1>6. q \in Seq(FrameOf) /\ Len(q) <= QueueMax /\ Range(q) \subseteq Frames("i") \cup {a}
  BY <1>0, <1>1, <1>5, QueuedIs, SMTT(30)
<1>7. /\ wire' = [wire EXCEPT !["r"] = t, !["i"] = q]
      /\ pending' = pending /\ resync' = resync /\ loop' = loop /\ permit' = permit
      /\ recent' = recent /\ batch' = batch /\ run' = run
      /\ crossed' = (crossed \/ f.run # run)
  BY DEF HandleInit, Handled
<1>8. WireType' /\ Frames("r")' = Range(t) /\ Frames("i")' = Range(q)
  BY <1>0, <1>2, <1>6, <1>7 DEF WireType, Frames, End
<1>9. CASE known /\ cache[e].pk = f.body
  <2>1. store' = store /\ cache' = cache /\ fresh' = fresh
    BY <1>9 DEF HandleInit
  <2>2. StateType'
    BY <1>0, <1>7, <1>8, <2>1 DEF StateType, StoreType, TableType, RestType
  <2>3. ct = cache[e]
    BY <1>9
  <2>4. InitHandled(f, ct)
    BY <1>2, <1>4, <1>6, <1>7, <1>8, <1>9, <2>1, <2>3 DEF InitHandled
  <2>5. QED
    BY <2>2, <2>4
<1>10. CASE ~ (known /\ cache[e].pk = f.body)
  <2> DEFINE g == IF known THEN Replace(store["r"], e, ct) ELSE Insert(store["r"], e, ct)
  <2>1. /\ store' = [store EXCEPT !["r"] = g]
        /\ cache' = Put(cache, e, ct) /\ fresh' = fresh + 1
    BY <1>10 DEF HandleInit
  <2>2. Window(store["r"])
    BY <1>0, <1>1 DEF StoreType
  <2>3. /\ Window(g) /\ DOMAIN g \subseteq DOMAIN store["r"] \cup {e}
        /\ \A d \in DOMAIN g : g[d] = IF d = e THEN ct ELSE store["r"][d]
        /\ \A d \in DOMAIN store["r"] \cup {e} : \E h \in DOMAIN g : d <= h
    <3>1. ~ known => e \notin DOMAIN store["r"]
      BY DEF AnsweredInv
    <3>2. g = Evict(Put(store["r"], e, ct))
      BY <3>1 DEF Replace, Insert
    <3> HIDE DEF ct, e, g
    <3>3. QED
      BY <1>3, <1>4, <2>2, <3>2, EvictKeeps, SMT
  <2> HIDE DEF g
  <2>4. StoreType' /\ store'["r"] = g /\ store'["i"] = store["i"]
    BY <1>0, <1>1, <2>1, <2>3 DEF StoreType
  <2>5. Table(cache', Secret)
    BY <1>0, <1>3, <1>4, <2>1, PutTable DEF TableType
  <2>6. /\ DOMAIN cache' = DOMAIN cache \cup {e} /\ cache'[e] = ct
        /\ \A d \in DOMAIN cache \ {e} : cache'[d] = cache[d]
    BY <2>1 DEF Put
  <2>7. StateType'
    <3>1. fresh' \in Nat
      BY <1>0, <2>1, SMT DEF RestType
    <3>2. QED
      BY <1>0, <1>7, <1>8, <2>4, <2>5, <3>1, Zenon DEF StateType, TableType, RestType
  <2>8. ct.pk = f.body
    BY <1>10 DEF Encap
  <2>9. InitHandled(f, ct)
    BY <1>2, <1>4, <1>6, <1>7, <1>8, <1>10, <2>3, <2>4, <2>6, <2>8 DEF InitHandled
  <2>10. QED
    BY <2>7, <2>9
<1>11. QED
  BY <1>9, <1>10

\* handle_resp leaves the window as it is, or puts the secret of a pending keypair in.
RespHandled(f) ==
    /\ f \in Frames("i") /\ f \in FrameOf /\ f.kind = "resp"
    /\ \A x \in End : Frames(x)' \subseteq Frames(x)
    /\ store'["r"] = store["r"] /\ pending' = pending /\ cache' = cache /\ loop' = loop
    /\ run' = run /\ crossed' = (crossed \/ f.run # run)
    /\ \A d \in DOMAIN store["i"] : \E h \in DOMAIN store'["i"] : d <= h
    /\ \/ store'["i"] = store["i"]
       \/ /\ f.epoch \in DOMAIN pending \ DOMAIN store["i"]
          /\ DOMAIN store'["i"] \subseteq DOMAIN store["i"] \cup {f.epoch}
          /\ \A d \in DOMAIN store'["i"] :
                store'["i"][d] = IF d = f.epoch THEN Decap(pending[d], f.body)
                                 ELSE store["i"][d]

LEMMA HandleRespDoes ==
    ASSUME StateType, FrameInv, HandleResp
    PROVE  StateType' /\ \E f : RespHandled(f)
<1> DEFINE f == Head(wire["i"])
           e == f.epoch
           t == Tail(wire["i"])
<1>0. StoreType /\ TableType /\ WireType /\ RestType /\ loop \in LoopOf
  BY DEF StateType
<1>1. "i" \in End /\ "r" \in End /\ End \ {"i"} = {"r"}
  BY DEF End
<1>2. /\ f \in FrameOf /\ f \in Frames("i") /\ f.kind = "resp"
      /\ t \in Seq(FrameOf) /\ Len(t) <= QueueMax /\ Range(t) \subseteq Frames("i")
  BY <1>0, <1>1, HandledIs DEF HandleResp
<1>3. e \in Epoch /\ f.body \in Secret
  BY <1>1, <1>2 DEF FrameOf, FrameInv
<1>4. /\ wire' = [wire EXCEPT !["i"] = t] /\ crossed' = (crossed \/ f.run # run)
      /\ pending' = pending /\ cache' = cache /\ resync' = resync /\ loop' = loop
      /\ permit' = permit /\ recent' = recent /\ batch' = batch /\ fresh' = fresh /\ run' = run
  BY DEF HandleResp, Handled
<1>5. WireType' /\ Frames("i")' = Range(t) /\ Frames("r")' = Frames("r")
  BY <1>0, <1>1, <1>2, <1>4 DEF WireType, Frames
<1>6. \A x \in End : Frames(x)' \subseteq Frames(x)
  BY <1>1, <1>2, <1>5
<1>7. StoreType' => StateType'
  BY <1>0, <1>4, <1>5, Zenon DEF StateType, TableType, RestType
<1>8. CASE e \in DOMAIN store["i"] \/ e \notin DOMAIN pending
  <2>1. store' = store
    BY <1>8 DEF HandleResp
  <2>2. StoreType'
    BY <1>0, <2>1 DEF StoreType
  <2>3. \A d \in DOMAIN store["i"] : d <= d
    BY <1>0, <1>1, SMT DEF StoreType, Window, Table, Epoch
  <2>4. RespHandled(f)
    BY <1>2, <1>4, <1>6, <2>1, <2>3 DEF RespHandled
  <2>5. QED
    BY <1>7, <2>2, <2>4
<1>9. CASE e \notin DOMAIN store["i"] /\ e \in DOMAIN pending
  <2> DEFINE s == Decap(pending[e], f.body)
             g == Insert(store["i"], e, s)
  <2>1. store' = [store EXCEPT !["i"] = g]
    BY <1>9 DEF HandleResp
  <2>2. Window(store["i"])
    BY <1>0, <1>1 DEF StoreType
  <2>3. s \in Secret
    <3>1. pending[e] \in Nat
      BY <1>0, <1>9 DEF TableType, Table
    <3>2. QED
      BY <1>3, <3>1 DEF Decap, Secret
  <2>4. /\ Window(g) /\ DOMAIN g \subseteq DOMAIN store["i"] \cup {e}
        /\ \A d \in DOMAIN g : g[d] = IF d = e THEN s ELSE store["i"][d]
        /\ \A d \in DOMAIN store["i"] \cup {e} : \E h \in DOMAIN g : d <= h
    <3> HIDE DEF s, e
    <3>1. g = Evict(Put(store["i"], e, s))
      BY <1>9 DEF Insert
    <3> HIDE DEF g
    <3>2. QED
      BY <1>3, <2>2, <2>3, <3>1, EvictKeeps, SMT
  <2> HIDE DEF g
  <2>5. StoreType' /\ store'["i"] = g /\ store'["r"] = store["r"]
    BY <1>0, <1>1, <2>1, <2>4 DEF StoreType
  <2>6. RespHandled(f)
    BY <1>2, <1>4, <1>6, <1>9, <2>4, <2>5 DEF RespHandled
  <2>7. QED
    BY <1>7, <2>5, <2>6
<1>10. QED
  BY <1>8, <1>9

-----------------------------------------------------------------------------
(* Steps that agree on nothing new.                                        *)

\* A table with no entry that the other lacks.
Less(g, f) == DOMAIN g \subseteq DOMAIN f /\ \A d \in DOMAIN g : g[d] = f[d]

\* A step that makes no keypair and no secret, and sends no INIT and no RESP.
Quiet ==
    /\ StateType' /\ cache' = cache /\ run' = run /\ crossed' = crossed
    /\ store'["r"] = store["r"] /\ Less(store'["i"], store["i"]) /\ Less(pending', pending)
    /\ \A x \in End : \A f \in Frames(x)' : f \in Frames(x) \/ (f.kind = "resync" /\ f.run = run)

\* What is settled stays so, and an end that has an epoch to encrypt with keeps one.
Steady ==
    /\ LoopInv'
    /\ \A e \in Epoch : e \in DOMAIN pending \/ Settled(e) =>
          e \in DOMAIN pending' \/ Settled(e)'
    /\ \A x \in End : DOMAIN store[x] # {} => DOMAIN store'[x] # {}

LEMMA LessItself ==
    ASSUME NEW f
    PROVE  Less(f, f)
BY DEF Less

\* A quiet step leaves what the ends agree on alone.
LEMMA QuietKeeps ==
    ASSUME IInv, Quiet
    PROVE  FrameInv' /\ AnsweredInv' /\ KeypairInv' /\ AgreeInv'
<1>0. "i" \in End /\ "r" \in End /\ End = {"i", "r"} /\ run \in [End -> Nat]
  BY DEF End, IInv, StateType, RestType
<1>1. \A x \in End : \A kind \in {"init", "resp"} : Current(x, kind)' \subseteq Current(x, kind)
  BY DEF Quiet, Current
<1>2. FrameInv'
  <2>1. SUFFICES ASSUME NEW x \in End, NEW f \in Frames(x)'
                 PROVE  /\ f.kind = "init" => f.body \in Nat
                        /\ f.kind = "resp" => f.body \in Secret
                        /\ \A y \in End : f.run[y] <= run[y]
    BY DEF FrameInv, Quiet
  <2>2. CASE f \in Frames(x)
    BY <2>2 DEF IInv, FrameInv
  <2>3. CASE f.kind = "resync" /\ f.run = run
    BY <1>0, <2>3, SMT
  <2>4. QED
    BY <2>2, <2>3 DEF Quiet
<1>3. AnsweredInv'
  BY DEF AnsweredInv, IInv, Quiet
<1>4. KeypairInv'
  BY <1>0, <1>1 DEF KeypairInv, IInv, Quiet, Less
<1>5. AgreeInv'
  BY <1>0, <1>1 DEF AgreeInv, IInv, Quiet, Less
<1>6. QED
  BY <1>2, <1>3, <1>4, <1>5

\* And so does what an epoch that frames speak of needs.
LEMMA SettledKeeps ==
    ASSUME IInv, Quiet, Steady
    PROVE  SettledInv'
<1>0. "i" \in End /\ "r" \in End
  BY DEF End
<1>1. \A x \in End : \A kind \in {"init", "resp"} : Current(x, kind)' \subseteq Current(x, kind)
  BY DEF Quiet, Current
<1>2. \A x \in End : \A f \in Frames(x) : f.epoch \in Epoch
  BY FramesAre DEF IInv, StateType, FrameOf
<1>3. QED
  BY <1>0, <1>1, <1>2 DEF SettledInv, IInv, Steady, Current

\* A step that leaves the loop and the tables alone is steady.
LEMMA SteadyIf ==
    ASSUME IInv, store' = store, pending' = pending, loop' = loop
    PROVE  Steady
BY DEF Steady, IInv, LoopInv, Settled, Establishing, Highest

\* HandleResyncRequest only tells the loop.
LEMMA HandleResyncRequestQuiet ==
    ASSUME IInv, HandleResyncRequest
    PROVE  Quiet /\ Steady
<1> DEFINE f == Head(wire["i"])
           t == Tail(wire["i"])
<1>0. StoreType /\ TableType /\ WireType /\ RestType /\ loop \in LoopOf
  BY DEF IInv, StateType
<1>1. "i" \in End /\ "r" \in End /\ End \ {"i"} = {"r"}
  BY DEF End
<1>2. /\ f \in FrameOf
      /\ t \in Seq(FrameOf) /\ Len(t) <= QueueMax /\ Range(t) \subseteq Frames("i")
  BY <1>0, <1>1, HandledIs DEF HandleResyncRequest
<1>3. f.epoch \in Epoch
  BY <1>2 DEF FrameOf
<1>4. /\ wire' = [wire EXCEPT !["i"] = t] /\ resync' = Max({resync, f.epoch, 1})
      /\ store' = store /\ pending' = pending /\ cache' = cache /\ loop' = loop
      /\ permit' = permit /\ recent' = recent /\ batch' = batch /\ fresh' = fresh /\ run' = run
      /\ crossed' = crossed
  BY DEF HandleResyncRequest, secrets, past
<1>5. WireType' /\ Frames("i")' = Range(t) /\ Frames("r")' = Frames("r")
  BY <1>0, <1>1, <1>2, <1>4 DEF WireType, Frames
<1>6. \A x \in End : Frames(x)' \subseteq Frames(x)
  BY <1>1, <1>2, <1>5
<1>7. resync' \in Epoch
  BY <1>0, <1>3, <1>4, MaxOfThree DEF RestType
<1>8. StateType'
  BY <1>0, <1>4, <1>5, <1>7, Zenon DEF StateType, StoreType, TableType, RestType
<1>9. Quiet
  <2>1. Less(store'["i"], store["i"]) /\ Less(pending', pending) /\ store'["r"] = store["r"]
    BY <1>4, LessItself
  <2>2. \A x \in End : \A h \in Frames(x)' : h \in Frames(x) \/ (h.kind = "resync" /\ h.run = run)
    BY <1>6
  <2>3. QED
    BY <1>4, <1>8, <2>1, <2>2, Zenon DEF Quiet
<1>10. QED
  BY <1>4, <1>9, SteadyIf

\* A step of the loop that touches nothing but its own state, the resync epoch, the
\* permit, the interval, and the tables.
LoopStep ==
    /\ Less(store'["i"], store["i"]) /\ store'["r"] = store["r"] /\ Less(pending', pending)
    /\ StoreType' /\ TableType' /\ resync' \in Epoch /\ permit' \in BOOLEAN
    /\ recent' \in [End -> BOOLEAN] /\ loop' \in LoopOf
    /\ cache' = cache /\ wire' = wire /\ batch' = batch /\ fresh' = fresh /\ run' = run
    /\ crossed' = crossed

LEMMA LoopStepQuiet ==
    ASSUME IInv, LoopStep
    PROVE  Quiet
<1>1. StateType'
  BY Zenon DEF LoopStep, IInv, StateType, WireType, RestType
<1>2. \A x \in End : Frames(x)' = Frames(x)
  BY DEF LoopStep, Frames
<1>3. \A x \in End : \A f \in Frames(x)' : f \in Frames(x) \/ (f.kind = "resync" /\ f.run = run)
  BY <1>2
<1>4. QED
  BY <1>1, <1>3, Zenon DEF Quiet, LoopStep

\* The epoch is there: on to the next.
LEMMA EstablishedQuiet ==
    ASSUME IInv, Established
    PROVE  Quiet /\ Steady
<1> DEFINE e == loop.epoch
<1>0. StoreType /\ TableType /\ RestType /\ loop \in LoopOf /\ LoopInv
  BY DEF IInv, StateType
<1>1. "i" \in End /\ DOMAIN store["i"] \in SUBSET Epoch
  BY <1>0 DEF End, StoreType, Window, Table
<1>2. /\ loop.pc # "select" /\ e <= loop.last /\ e \in DOMAIN store["i"]
      /\ pending' = IF loop.sent THEN Without(pending, {e}) ELSE pending
      /\ loop' = [loop EXCEPT !.epoch = @ + 1, !.sent = FALSE,
                              !.needWork = IF loop.pc = "boot" THEN FALSE ELSE @]
      /\ store' = store /\ cache' = cache /\ resync' = resync /\ permit' = permit
      /\ recent' = recent /\ wire' = wire /\ batch' = batch /\ fresh' = fresh /\ run' = run
      /\ crossed' = crossed
  BY DEF Established, Establishing, Contained, past
<1>3. e \in Epoch /\ e \in Int /\ e <= Highest("i") /\ Highest("i") \in Int
  BY <1>1, <1>2, HighestIs, TopIs, SMT DEF Epoch
<1>4. /\ loop' \in LoopOf /\ loop'.pc = loop.pc /\ loop'.epoch = e + 1 /\ ~ loop'.sent
      /\ loop'.last = loop.last /\ loop'.target = loop.target
      /\ loop'.pruneAfter = loop.pruneAfter
  <2>1. e + 1 \in 0 .. MaxEpoch + 1
    BY <1>3, LinkAssumption, SMT DEF Epoch
  <2>2. (IF loop.pc = "boot" THEN FALSE ELSE loop.needWork) \in BOOLEAN
    BY <1>0 DEF LoopOf
  <2>3. loop' \in LoopOf
    BY <1>0, <1>2, <2>1, <2>2 DEF LoopOf
  <2>4. QED
    BY <1>0, <1>2, <2>3 DEF LoopOf
<1>5. /\ Table(pending', Nat) /\ Less(pending', pending)
      /\ \A d \in DOMAIN pending : d = e \/ d \in DOMAIN pending'
  <2>1. CASE loop.sent
    <3>1. Table(Without(pending, {e}), Nat)
      BY <1>0, WithoutTable, Zenon DEF TableType
    <3>2. /\ DOMAIN Without(pending, {e}) = DOMAIN pending \ {e}
          /\ \A d \in DOMAIN pending \ {e} : Without(pending, {e})[d] = pending[d]
      BY DEF Without, Restrict
    <3>3. QED
      BY <1>2, <2>1, <3>1, <3>2 DEF Less
  <2>2. CASE ~ loop.sent
    BY <1>0, <1>2, <2>2, LessItself DEF TableType
  <2>3. QED
    BY <2>1, <2>2
<1>6. LoopStep
  BY <1>0, <1>2, <1>4, <1>5, LessItself, Zenon DEF LoopStep, StoreType, TableType, RestType
<1>7. Highest("i")' = Highest("i")
  BY <1>2 DEF Highest
<1>8. LoopInv'
  BY <1>0, <1>2, <1>3, <1>4, <1>7, SMT DEF LoopInv
<1>9. ASSUME NEW d \in Epoch, d \in DOMAIN pending \/ Settled(d)
      PROVE  d \in DOMAIN pending' \/ Settled(d)'
  <2>1. CASE d = e
    BY <1>2, <1>3, <1>4, <1>7, <2>1, SMT DEF Settled
  <2>2. CASE d # e /\ Settled(d)
    BY <1>2, <1>3, <1>4, <1>7, <2>2, SMT DEF Settled, Epoch
  <2>3. QED
    BY <1>5, <1>9, <2>1, <2>2
<1>10. QED
  BY <1>2, <1>6, <1>8, <1>9, LoopStepQuiet DEF Steady

\* The loop as establish left it: it is in no INIT when it is in select!, and it has
\* passed no epoch that is above the window.
LEMMA LoopFacts ==
    ASSUME IInv
    PROVE  /\ loop \in LoopOf /\ loop.sent \in BOOLEAN /\ loop.needWork \in BOOLEAN
           /\ loop.last \in Epoch /\ loop.target \in Epoch /\ loop.epoch \in 0 .. MaxEpoch + 1
           /\ loop.pruneAfter \in Epoch \cup {None}
           /\ loop.pc = "select" => ~ loop.sent
           /\ Highest("i") \in Int /\ Highest("i") >= -1 /\ Highest("i") <= MaxEpoch
           /\ DOMAIN store["i"] \in SUBSET Epoch /\ "i" \in End /\ "r" \in End
           /\ MaxEpoch \in Int /\ Epoch \in SUBSET Int
<1>1. "i" \in End /\ "r" \in End
  BY DEF End
<1>2. DOMAIN store["i"] \in SUBSET Epoch
  BY <1>1 DEF IInv, StateType, StoreType, Window, Table
<1>3. Highest("i") \in Int /\ Highest("i") >= -1 /\ Highest("i") <= MaxEpoch
  BY <1>1, <1>2, HighestIs, TopIs
<1>4. loop.pc = "select" => ~ loop.sent
  BY DEF IInv, LoopInv, Establishing
<1>5. MaxEpoch \in Int /\ Epoch \in SUBSET Int
  BY LinkAssumption, SMT DEF Epoch
<1>6. loop \in LoopOf
  BY DEF IInv, StateType
<1>7. /\ loop.sent \in BOOLEAN /\ loop.needWork \in BOOLEAN
      /\ loop.last \in Epoch /\ loop.target \in Epoch /\ loop.epoch \in 0 .. MaxEpoch + 1
      /\ loop.pruneAfter \in Epoch \cup {None}
  BY <1>6 DEF LoopOf
<1>8. QED
  BY <1>1, <1>2, <1>3, <1>4, <1>5, <1>6, <1>7

\* ESTABLISH_TIMEOUT passes.
LEMMA EstablishTimesOutQuiet ==
    ASSUME IInv, EstablishTimesOut
    PROVE  Quiet /\ Steady
<1> DEFINE relink == loop.pc = "relink"
           t == IF relink THEN Max({loop.target, loop.last}) ELSE loop.target
           b == IF relink THEN Max({loop.last - Lookahead, 0}) ELSE loop.pruneAfter
           w == IF relink THEN TRUE ELSE loop.needWork
<1>0. StoreType /\ TableType /\ RestType /\ LoopInv
  BY DEF IInv, StateType
<1>1. /\ loop' = [loop EXCEPT !.pc = "select", !.sent = FALSE, !.epoch = 0, !.last = 0,
                              !.needWork = w, !.target = t, !.pruneAfter = b]
      /\ store' = store /\ pending' = pending /\ cache' = cache
      /\ resync' = resync /\ permit' = permit
      /\ recent' = recent /\ wire' = wire /\ batch' = batch /\ fresh' = fresh /\ run' = run
      /\ crossed' = crossed
  BY DEF EstablishTimesOut, secrets
<1>2. t \in Epoch /\ b \in Epoch \cup {None} /\ b <= t
  <2>1. CASE relink
    <3>1. loop.last - Lookahead \in Epoch
      BY <1>0, <2>1 DEF LoopInv
    <3>2. /\ loop.last \in Int /\ loop.target \in Int /\ loop.last >= 0 /\ loop.target >= 0
          /\ loop.last <= MaxEpoch /\ loop.target <= MaxEpoch /\ MaxEpoch \in Int
      BY LoopFacts, LinkAssumption, SMT DEF Epoch
    <3>3. Lookahead \in Int /\ Lookahead >= 0
      BY LinkAssumption, SMT
    <3>4. t = IF loop.target >= loop.last THEN loop.target ELSE loop.last
      BY <2>1, <3>2, MaxOfTwo
    <3>5. b = loop.last - Lookahead
      BY <2>1, <3>1, MaxOfTwo, SMT DEF Epoch
    <3>6. QED
      BY <3>1, <3>2, <3>3, <3>4, <3>5, SMT DEF Epoch
  <2>2. CASE ~ relink
    BY <1>0, <2>2, LoopFacts DEF LoopInv
  <2>3. QED
    BY <2>1, <2>2
<1>3. w \in BOOLEAN
  BY LoopFacts
<1> HIDE DEF t, b, w
<1>4. /\ loop' \in LoopOf /\ loop'.pc = "select" /\ ~ loop'.sent
      /\ loop'.target = t /\ loop'.pruneAfter = b
  <2>1. 0 \in Epoch /\ 0 \in 0 .. MaxEpoch + 1
    BY LinkAssumption, SMT DEF Epoch
  <2>2. loop' \in LoopOf
    BY <1>1, <1>2, <1>3, <2>1, LoopFacts DEF LoopOf
  <2>3. QED
    BY <1>1, <2>2, LoopFacts DEF LoopOf
<1>5. LoopStep
  BY <1>0, <1>1, <1>4, LessItself, Zenon DEF LoopStep, StoreType, TableType, RestType
<1>6. LoopInv'
  BY <1>2, <1>4 DEF LoopInv
<1>7. Highest("i")' = Highest("i")
  BY <1>1 DEF Highest
<1>8. ASSUME NEW d \in Epoch, d \in DOMAIN pending \/ Settled(d)
      PROVE  d \in DOMAIN pending' \/ Settled(d)'
  BY <1>1, <1>4, <1>7, <1>8 DEF Settled
<1>9. QED
  BY <1>1, <1>5, <1>6, <1>8, LoopStepQuiet DEF Steady

\* The retry timer.
LEMMA RetryQuiet ==
    ASSUME IInv, Retry
    PROVE  Quiet /\ Steady
<1> DEFINE e == Sat(Highest("i") + 1)
<1>0. StoreType /\ TableType /\ RestType /\ LoopInv
  BY DEF IInv, StateType
<1>1. /\ loop.pc = "select"
      /\ loop' = [loop EXCEPT !.pc = "retry", !.last = loop.target, !.epoch = e]
      /\ store' = store /\ pending' = pending /\ cache' = cache
      /\ resync' = resync /\ permit' = permit
      /\ recent' = recent /\ wire' = wire /\ batch' = batch /\ fresh' = fresh /\ run' = run
      /\ crossed' = crossed
  BY DEF Retry, secrets, past
<1>2. /\ e \in Epoch /\ e \in 0 .. MaxEpoch + 1 /\ e <= Highest("i") + 1
      /\ Highest("i") < e \/ e = MaxEpoch
  <2>1. Highest("i") + 1 \in Int /\ Highest("i") + 1 >= 0
    BY LoopFacts, SMT
  <2>2. /\ e \in Epoch /\ e <= Highest("i") + 1
        /\ e # MaxEpoch => e = Highest("i") + 1
    BY <2>1, SatIs
  <2>3. QED
    BY <2>2, LoopFacts, SMT DEF Epoch
<1> HIDE DEF e
<1>3. /\ loop' \in LoopOf /\ loop'.pc = "retry" /\ ~ loop'.sent /\ loop'.epoch = e
      /\ loop'.target = loop.target /\ loop'.pruneAfter = loop.pruneAfter
      /\ loop'.last = loop.target
  <2>2. loop' \in LoopOf
    BY <1>1, <1>2, LoopFacts DEF LoopOf
  <2>3. QED
    BY <1>1, <2>2, LoopFacts DEF LoopOf
<1>4. LoopStep
  BY <1>0, <1>1, <1>3, LessItself, Zenon DEF LoopStep, StoreType, TableType, RestType
<1>5. Highest("i")' = Highest("i")
  BY <1>1 DEF Highest
<1>6. LoopInv'
  BY <1>0, <1>2, <1>3, <1>5 DEF LoopInv
<1>7. ASSUME NEW d \in Epoch, d \in DOMAIN pending \/ Settled(d)
      PROVE  d \in DOMAIN pending' \/ Settled(d)'
  <2>1. CASE Settled(d)
    <3>1. d <= Highest("i") /\ d \in Int /\ d <= MaxEpoch
      BY <2>1, LinkAssumption, SMT DEF Settled, Epoch
    <3>2. d < e \/ d = MaxEpoch
      BY <1>2, <3>1, LoopFacts, SMT DEF Epoch
    <3>3. QED
      BY <1>3, <1>5, <3>1, <3>2 DEF Settled
  <2>2. QED
    BY <1>1, <1>7, <2>1
<1>8. QED
  BY <1>1, <1>4, <1>6, <1>7, LoopStepQuiet DEF Steady

\* A rotation falls due.
LEMMA RotateQuiet ==
    ASSUME IInv, Rotate
    PROVE  Quiet /\ Steady
<1> DEFINE t == IF Highest("i") = None THEN loop.target
                ELSE Max({loop.target, Sat(Highest("i") + 1)})
<1>0. StoreType /\ TableType /\ RestType /\ LoopInv
  BY DEF IInv, StateType
<1>1. /\ loop.pc = "select"
      /\ loop' = [loop EXCEPT !.needWork = TRUE, !.target = t]
      /\ store' = store /\ pending' = pending /\ cache' = cache
      /\ resync' = resync /\ permit' = permit
      /\ recent' = recent /\ wire' = wire /\ batch' = batch /\ fresh' = fresh /\ run' = run
      /\ crossed' = crossed
  BY DEF Rotate, secrets
<1>2. t \in Epoch /\ t >= loop.target
  <2>1. Highest("i") + 1 \in Int /\ Highest("i") + 1 >= 0
    BY LoopFacts, SMT
  <2>2. Sat(Highest("i") + 1) \in Epoch
    BY <2>1, SatIs
  <2>3. loop.target \in Epoch /\ loop.target \in Int /\ Sat(Highest("i") + 1) \in Int
    BY <2>2, LoopFacts
  <2>4. QED
    BY <2>2, <2>3, MaxOfTwo, SMT
<1> HIDE DEF t
<1>3. /\ loop' \in LoopOf /\ loop'.pc = "select" /\ ~ loop'.sent
      /\ loop'.target = t /\ loop'.pruneAfter = loop.pruneAfter
  <2>2. loop' \in LoopOf
    BY <1>1, <1>2, LoopFacts DEF LoopOf
  <2>3. QED
    BY <1>1, <2>2, LoopFacts DEF LoopOf
<1>4. LoopStep
  BY <1>0, <1>1, <1>3, LessItself, Zenon DEF LoopStep, StoreType, TableType, RestType
<1>5. Highest("i")' = Highest("i")
  BY <1>1 DEF Highest
<1>6. LoopInv'
  <2>1. loop.pruneAfter <= loop.target /\ loop.pruneAfter \in Int /\ loop.target \in Int /\ t \in Int
    BY <1>0, <1>2, LoopFacts, SMT DEF LoopInv, None
  <2>2. loop'.pruneAfter <= loop'.target
    BY <1>2, <1>3, <2>1, SMT
  <2>3. QED
    BY <1>3, <2>2 DEF LoopInv
<1>7. ASSUME NEW d \in Epoch, d \in DOMAIN pending \/ Settled(d)
      PROVE  d \in DOMAIN pending' \/ Settled(d)'
  BY <1>1, <1>3, <1>5, <1>7 DEF Settled
<1>8. QED
  BY <1>1, <1>4, <1>6, <1>7, LoopStepQuiet DEF Steady

\* Every epoch up to the last is there: what is pruned is below the top of the window.
LEMMA WorkDoneQuiet ==
    ASSUME IInv, WorkDone
    PROVE  Quiet /\ Steady
<1> DEFINE retry == loop.pc = "retry"
           relink == loop.pc = "relink"
           t == IF relink THEN Max({loop.target, loop.last}) ELSE loop.target
           b == IF retry THEN None ELSE loop.pruneAfter
           w == IF retry THEN FALSE ELSE loop.needWork
           base == IF relink THEN loop.last - Lookahead
                   ELSE IF retry /\ loop.pruneAfter # None THEN loop.pruneAfter ELSE 0
<1>0. StoreType /\ TableType /\ RestType /\ LoopInv
  BY DEF IInv, StateType
<1>1. /\ loop.pc # "select" /\ loop.epoch > loop.last /\ ~ loop.sent
      /\ loop' = [loop EXCEPT !.pc = "select", !.epoch = 0, !.last = 0,
                              !.needWork = w, !.pruneAfter = b, !.target = t]
      /\ cache' = cache /\ resync' = resync /\ permit' = permit
      /\ recent' = recent /\ wire' = wire /\ batch' = batch /\ fresh' = fresh /\ run' = run
      /\ crossed' = crossed
  <2>1. loop.epoch > loop.last => ~ (loop.epoch <= loop.last)
    BY LoopFacts, SMT DEF Epoch
  <2>2. QED
    BY <1>0, <2>1 DEF WorkDone, past, LoopInv, Establishing
<1>2. (store' = store /\ pending' = pending) \/ (base \in Epoch /\ Prune(base))
  BY <1>0, LoopFacts DEF WorkDone, LoopInv, LoopOf
<1>3. /\ base \in Epoch
      /\ base > 0 => base <= Highest("i")
      /\ t \in Epoch /\ t >= loop.target
  <2>0. /\ loop.last \in Int /\ loop.target \in Int /\ loop.last >= 0 /\ loop.target >= 0
        /\ loop.last <= MaxEpoch /\ loop.target <= MaxEpoch /\ MaxEpoch \in Int
        /\ loop.epoch \in Int /\ Highest("i") \in Int /\ Lookahead \in Int /\ Lookahead >= 0
        /\ loop.pruneAfter \in Int
    BY LoopFacts, LinkAssumption, SMT DEF Epoch, None
  <2>1. CASE relink
    <3>1. loop.last - Lookahead \in Epoch
      BY <1>0, <2>1 DEF LoopInv
    <3>2. loop.epoch <= Highest("i") + 1
      BY <1>0, <1>1, <2>0, <2>1, SMT DEF LoopInv
    <3>3. t = IF loop.target >= loop.last THEN loop.target ELSE loop.last
      BY <2>0, <2>1, MaxOfTwo, SMT
    <3>4. base = loop.last - Lookahead
      BY <2>1
    <3>5. QED
      BY <1>1, <2>0, <3>1, <3>2, <3>3, <3>4, SMT DEF Epoch
  <2>2. CASE retry /\ loop.pruneAfter # None
    <3>1. loop.epoch <= Highest("i") + 1 /\ loop.last = loop.target /\ loop.pruneAfter <= loop.target
      BY <1>0, <2>2 DEF LoopInv
    <3>2. loop.pruneAfter \in Epoch
      BY <2>2, LoopFacts
    <3>3. base = loop.pruneAfter /\ t = loop.target
      BY <2>2
    <3>4. base <= Highest("i")
      BY <1>1, <2>0, <3>1, <3>3, SMT
    <3>5. QED
      BY <2>0, <3>2, <3>3, <3>4, SMT DEF Epoch
  <2>3. CASE ~ relink /\ ~ (retry /\ loop.pruneAfter # None)
    BY <2>0, <2>3, SMT DEF Epoch
  <2>4. QED
    BY <2>1, <2>2, <2>3
<1>4. w \in BOOLEAN /\ b \in Epoch \cup {None} /\ b <= t
  <2>1. /\ loop.target \in Int /\ t \in Int /\ t >= 0 /\ loop.pruneAfter \in Int
        /\ loop.pruneAfter <= loop.target /\ loop.pruneAfter \in Epoch \cup {None}
    BY <1>0, <1>3, LoopFacts, SMT DEF LoopInv, Epoch, None
  <2> HIDE DEF t
  <2>2. b <= t /\ b \in Epoch \cup {None}
    BY <1>3, <2>1, SMT DEF None
  <2>3. QED
    BY <2>2, LoopFacts
<1> HIDE DEF t, b, w, base
<1>5. /\ loop' \in LoopOf /\ loop'.pc = "select" /\ ~ loop'.sent
      /\ loop'.target = t /\ loop'.pruneAfter = b
  <2>1. 0 \in Epoch /\ 0 \in 0 .. MaxEpoch + 1
    BY LinkAssumption, SMT DEF Epoch
  <2>2. loop' \in LoopOf
    BY <1>1, <1>3, <1>4, <2>1, LoopFacts DEF LoopOf
  <2>3. QED
    BY <1>1, <2>2, LoopFacts DEF LoopOf
<1>6. LoopInv'
  BY <1>4, <1>5 DEF LoopInv
<1>7. CASE store' = store /\ pending' = pending
  <2>1. LoopStep
    BY <1>0, <1>1, <1>5, <1>7, LessItself, Zenon DEF LoopStep, StoreType, TableType, RestType
  <2>2. Highest("i")' = Highest("i")
    BY <1>7 DEF Highest
  <2>3. ASSUME NEW d \in Epoch, d \in DOMAIN pending \/ Settled(d)
        PROVE  d \in DOMAIN pending' \/ Settled(d)'
    BY <1>5, <1>7, <2>2, <2>3 DEF Settled
  <2>4. QED
    BY <1>6, <1>7, <2>1, <2>3, LoopStepQuiet DEF Steady
<1>8. CASE Prune(base)
  <2> DEFINE S == DOMAIN store["i"]
             g == From(store["i"], base)
             p == From(pending, base)
  <2>1. store' = [store EXCEPT !["i"] = g] /\ pending' = p
    BY <1>8 DEF Prune
  <2>2. Table(store["i"], Secret) /\ Cardinality(S) <= Keep /\ Table(pending, Nat)
    BY <1>0, LoopFacts DEF StoreType, Window, TableType
  <2>3. /\ Table(g, Secret) /\ DOMAIN g = {d \in S : d >= base}
        /\ \A d \in DOMAIN g : g[d] = store["i"][d]
    <3>1. Table(g, Secret)
      BY <1>3, <2>2, FromKeeps, Zenon
    <3>2. DOMAIN g = {d \in S : d >= base}
      BY <1>3, <2>2, FromKeeps, SMT
    <3>3. \A d \in DOMAIN g : g[d] = store["i"][d]
      BY DEF From, Without, Restrict
    <3>4. QED
      BY <3>1, <3>2, <3>3
  <2>4. /\ Table(p, Nat) /\ DOMAIN p = {d \in DOMAIN pending : d >= base}
        /\ \A d \in DOMAIN p : p[d] = pending[d]
    <3>1. Table(p, Nat)
      BY <1>3, <2>2, FromKeeps, Zenon
    <3>2. DOMAIN p = {d \in DOMAIN pending : d >= base}
      BY <1>3, <2>2, FromKeeps, ZenonT(60)
    <3>3. \A d \in DOMAIN p : p[d] = pending[d]
      BY DEF From, Without, Restrict
    <3>4. QED
      BY <3>1, <3>2, <3>3
  <2> HIDE DEF g, p
  <2>5. Less(g, store["i"]) /\ Less(p, pending)
    BY <2>3, <2>4 DEF Less
  <2>6. Cardinality(DOMAIN g) <= Keep
    <3>1. IsFiniteSet(0 .. MaxEpoch) /\ S \subseteq 0 .. MaxEpoch
      <4>1. 0 \in Int /\ MaxEpoch \in Int
        BY LinkAssumption, SMT
      <4>2. IsFiniteSet(0 .. MaxEpoch)
        BY <4>1, FS_Interval
      <4>3. QED
        BY <4>2, LoopFacts DEF Epoch
    <3>2. IsFiniteSet(S)
      BY <3>1, FS_Subset
    <3>3. DOMAIN g \subseteq S
      BY <2>3
    <3>4. /\ IsFiniteSet(DOMAIN g) /\ Cardinality(DOMAIN g) <= Cardinality(S)
      BY <3>2, <3>3, FS_Subset
    <3>5. Cardinality(DOMAIN g) \in Nat /\ Cardinality(S) \in Nat /\ Keep \in Nat
      BY <3>2, <3>4, FS_CardinalityType, LinkAssumption
    <3>6. QED
      BY <2>2, <3>4, <3>5, SMT
  <2>7. Window(g)
    BY <2>3, <2>6 DEF Window
  <2>8. StoreType' /\ store'["i"] = g /\ store'["r"] = store["r"]
    BY <1>0, <2>1, <2>7, LoopFacts DEF StoreType, End
  <2>9. TableType'
    BY <1>0, <1>1, <2>1, <2>4 DEF TableType
  <2>10. LoopStep
    BY <1>0, <1>1, <1>5, <2>1, <2>5, <2>8, <2>9, Zenon DEF LoopStep, RestType
  <2>11. S # {} => Highest("i") \in DOMAIN g
    <3>1. S # {} => Highest("i") \in S
      BY LoopFacts, HighestIs, TopIs
    <3>2. S # {} => Highest("i") >= base
      <4>1. S # {} => Highest("i") >= 0
        BY <3>1, LoopFacts, SMT DEF Epoch
      <4>2. QED
        BY <1>3, <4>1, LoopFacts, SMT DEF Epoch
    <3>3. QED
      BY <2>3, <3>1, <3>2
  <2>12. Highest("i") <= Highest("i")'
    <3>1. DOMAIN g \in SUBSET Epoch
      BY <2>3 DEF Table
    <3>2. /\ \A e \in DOMAIN g : e <= Top(DOMAIN g)
          /\ Top(DOMAIN g) \in Int /\ Top(DOMAIN g) >= -1
      BY <3>1, TopIs
    <3>3. S = {} => Highest("i") = -1
      BY LoopFacts, HighestIs, TopIs
    <3>4. Highest("i")' = Top(DOMAIN g)
      BY <2>8, HighestIs, LoopFacts
    <3>5. QED
      BY <2>11, <3>2, <3>3, <3>4
  <2>13. \A x \in End : DOMAIN store[x] # {} => DOMAIN store'[x] # {}
    BY <2>8, <2>11 DEF End
  <2>14. Highest("i")' \in Int
    <3>1. DOMAIN g \in SUBSET Epoch
      BY <2>3 DEF Table
    <3>2. QED
      BY <2>8, <3>1, HighestIs, TopIs, LoopFacts
  <2>15. ASSUME NEW d \in Epoch, d \in DOMAIN pending \/ Settled(d)
         PROVE  d \in DOMAIN pending' \/ Settled(d)'
    <3>0. d \in Int /\ d >= 0 /\ base \in Int /\ base >= 0
      BY <1>3, SMT DEF Epoch
    <3>1. CASE Settled(d)
      BY <1>5, <2>12, <2>14, <3>0, <3>1, LoopFacts, SMT DEF Settled
    <3>2. CASE d \in DOMAIN pending /\ d >= base
      BY <2>1, <2>4, <3>2
    <3>3. CASE d < base
      <4>1. d <= Highest("i")
        BY <1>3, <3>0, <3>3, LoopFacts, SMT
      <4>2. QED
        BY <1>5, <2>12, <2>14, <3>0, <4>1, LoopFacts, SMT DEF Settled
    <3>4. QED
      BY <2>15, <3>0, <3>1, <3>2, <3>3, SMT
  <2>16. QED
    BY <1>6, <2>10, <2>13, <2>15, LoopStepQuiet DEF Steady
<1>9. QED
  BY <1>2, <1>7, <1>8

\* The base of a relink is above the window of i, unless the numbers are spent.
LEMMA ResyncBaseIs ==
    ASSUME IInv, NEW p \in Epoch
    PROVE  /\ ResyncBase(p) \in Epoch
           /\ Highest("i") < ResyncBase(p) \/ ResyncBase(p) = MaxEpoch
<1> DEFINE mine == Sat(Highest("i") + 1)
           theirs == Sat(p + 1)
           most == Sat(mine + MaxJump)
<1>0. Highest("i") \in Int /\ Highest("i") >= -1 /\ p \in Int /\ p >= 0 /\ MaxJump \in Int /\ MaxJump >= 0
  BY LoopFacts, LinkAssumption, SMT DEF Epoch
<1>1. mine \in Epoch /\ (mine = Highest("i") + 1 \/ mine = MaxEpoch)
  BY <1>0, SatIs, SMT
<1>2. theirs \in Epoch
  BY <1>0, SatIs, SMT
<1>3. most \in Epoch /\ (most = mine + MaxJump \/ most = MaxEpoch)
  <2>1. mine + MaxJump \in Int /\ mine + MaxJump >= 0
    BY <1>0, <1>1, SMT DEF Epoch
  <2>2. QED
    BY <2>1, SatIs
<1>4. ResyncBase(p) = Min({Max({mine, theirs}), most})
  BY DEF ResyncBase
<1> HIDE DEF mine, theirs, most
<1>5. /\ mine \in Int /\ mine >= 0 /\ mine <= MaxEpoch /\ theirs \in Int /\ theirs >= 0 /\ theirs <= MaxEpoch
      /\ most \in Int /\ most >= mine /\ most <= MaxEpoch /\ MaxEpoch \in Int
  BY <1>0, <1>1, <1>2, <1>3, LinkAssumption, SMT DEF Epoch
<1> DEFINE wanted == Max({mine, theirs})
<1>6. wanted \in Int /\ wanted >= mine /\ wanted <= MaxEpoch
  BY <1>5, MaxOfTwo, SMT
<1>7. ResyncBase(p) = Min({wanted, most})
  BY <1>4
<1> HIDE DEF wanted
<1>8. Min({wanted, most}) = IF wanted <= most THEN wanted ELSE most
  BY <1>5, <1>6, MaxOfTwo, SMT
<1>9. ResyncBase(p) \in Int /\ ResyncBase(p) >= mine /\ ResyncBase(p) <= MaxEpoch
  BY <1>5, <1>6, <1>7, <1>8
<1>10. QED
  BY <1>0, <1>1, <1>5, <1>9, SMT DEF Epoch

\* relink begins a block above the window.
LEMMA RelinkQuiet ==
    ASSUME IInv, loop.pc = "select", NEW p \in Epoch, Relink(p),
           store' = store, pending' = pending, cache' = cache, wire' = wire, batch' = batch,
           fresh' = fresh, run' = run, crossed' = crossed, resync' \in Epoch, permit' \in BOOLEAN
    PROVE  Quiet /\ Steady
<1> DEFINE base == ResyncBase(p)
           aim == Sat(base + Lookahead)
<1>0. StoreType /\ TableType /\ RestType /\ LoopInv
  BY DEF IInv, StateType
<1>1. base \in Epoch /\ (Highest("i") < base \/ base = MaxEpoch)
  BY ResyncBaseIs
<1>2. recent' \in [End -> BOOLEAN]
  BY <1>0 DEF Relink, RestType
<1>3. Highest("i")' = Highest("i")
  BY DEF Highest
<1>4. CASE loop' = loop
  <2>1. LoopStep
    BY <1>0, <1>2, <1>4, LessItself, LoopFacts, Zenon DEF LoopStep, StoreType, TableType, RestType
  <2>2. QED
    BY <1>4, <2>1, LoopStepQuiet, SteadyIf
<1>5. CASE loop' # loop
  <2>1. aim # MaxEpoch /\ loop' = [loop EXCEPT !.pc = "relink", !.epoch = base, !.last = aim]
    BY <1>5 DEF Relink
  <2>2. aim \in Epoch /\ aim - Lookahead = base
    <3>1. base \in Int /\ base >= 0 /\ Lookahead \in Int /\ Lookahead >= 0
      BY <1>1, LinkAssumption, SMT DEF Epoch
    <3>2. base + Lookahead \in Int /\ base + Lookahead >= 0
      BY <3>1, SMT
    <3>3. aim \in Epoch /\ aim = base + Lookahead
      BY <2>1, <3>2, SatIs
    <3>4. QED
      BY <3>1, <3>3, SMT
  <2> HIDE DEF base, aim
  <2>3. /\ loop' \in LoopOf /\ loop'.pc = "relink" /\ ~ loop'.sent /\ loop'.epoch = base
        /\ loop'.last = aim /\ loop'.target = loop.target /\ loop'.pruneAfter = loop.pruneAfter
    <3>1. base \in 0 .. MaxEpoch + 1
      BY <1>1, LinkAssumption, SMT DEF Epoch
    <3>2. loop' \in LoopOf
      BY <2>1, <2>2, <3>1, LoopFacts DEF LoopOf
    <3>3. QED
      BY <2>1, <3>2, LoopFacts DEF LoopOf
  <2>4. LoopStep
    BY <1>0, <1>2, <2>3, LessItself, Zenon DEF LoopStep, StoreType, TableType, RestType
  <2>5. LoopInv'
    BY <1>0, <1>1, <2>2, <2>3 DEF LoopInv
  <2>6. ASSUME NEW d \in Epoch, d \in DOMAIN pending \/ Settled(d)
        PROVE  d \in DOMAIN pending' \/ Settled(d)'
    <3>1. CASE Settled(d)
      <4>1. d <= Highest("i") /\ d \in Int /\ d <= MaxEpoch
        BY <3>1, LinkAssumption, SMT DEF Settled, Epoch
      <4>2. d < base \/ d = MaxEpoch
        BY <1>1, <4>1, LoopFacts, SMT DEF Epoch
      <4>3. QED
        BY <1>3, <2>3, <4>1, <4>2 DEF Settled
    <3>2. QED
      BY <2>6, <3>1
  <2>7. QED
    BY <2>4, <2>5, <2>6, LoopStepQuiet DEF Steady
<1>6. QED
  BY <1>4, <1>5

\* The steps that begin one.
LEMMA ReconnectedQuiet ==
    ASSUME IInv, Reconnected \/ ResyncRequested
    PROVE  Quiet /\ Steady
<1>0. RestType
  BY DEF IInv, StateType
<1>1. /\ loop.pc = "select"
      /\ store' = store /\ pending' = pending /\ cache' = cache /\ wire' = wire /\ batch' = batch
      /\ fresh' = fresh /\ run' = run /\ crossed' = crossed
  BY DEF Reconnected, ResyncRequested, secrets, past
<1>2. 0 \in Epoch /\ resync \in Epoch
  BY <1>0, LinkAssumption, SMT DEF Epoch, RestType
<1>3. CASE Reconnected
  <2>1. Relink(0) /\ resync' = resync /\ permit' = FALSE
    BY <1>3 DEF Reconnected
  <2>2. QED
    BY <1>1, <1>2, <2>1, RelinkQuiet, Zenon
<1>4. CASE ResyncRequested
  <2>1. Relink(resync) /\ resync' = 0 /\ permit' = permit /\ permit \in BOOLEAN
    BY <1>0, <1>4 DEF ResyncRequested, RestType
  <2>2. QED
    BY <1>1, <1>2, <2>1, RelinkQuiet, Zenon
<1>5. QED
  BY <1>3, <1>4

\* enc_keys and dec_keys derive, wait, or ask for a resync.
LEMMA KeysQuiet ==
    ASSUME IInv, Keys
    PROVE  Quiet /\ Steady
<1>0. StoreType /\ TableType /\ WireType /\ RestType /\ loop \in LoopOf
  BY DEF IInv, StateType
<1>1. PICK x \in End : EncKeys(x) \/ Derived(x) \/ AwaitTimesOut(x) \/ IntervalElapses(x)
  BY DEF Keys
<1>2. /\ store' = store /\ pending' = pending /\ cache' = cache /\ loop' = loop
      /\ permit' = permit /\ fresh' = fresh /\ run' = run /\ crossed' = crossed
  BY <1>1 DEF EncKeys, Derived, AwaitTimesOut, IntervalElapses, secrets, past
<1>3. \A y \in End : DOMAIN store[y] \in SUBSET Epoch
  BY <1>0 DEF StoreType, Window, Table
<1>4. batch.epoch \in Epoch \cup {None} /\ batch.to \in End \cup {"none"}
  BY <1>0 DEF RestType
<1>5. NoBatch \in [to : End \cup {"none"}, epoch : Epoch \cup {None}]
  BY DEF NoBatch
<1>6. batch' \in [to : End \cup {"none"}, epoch : Epoch \cup {None}]
  <2>1. CASE EncKeys(x)
    <3>1. DOMAIN store[x] # {} /\ batch' = [to |-> Other(x), epoch |-> ActiveEpoch(x)]
      BY <2>1 DEF EncKeys
    <3>2. Lowest(x) \in Epoch /\ Highest(x) \in Epoch
      BY <1>3, <3>1, LowestIs
    <3>3. ActiveEpoch(x) \in Epoch
      BY <3>2, LinkAssumption, SMT DEF ActiveEpoch, Epoch
    <3>4. Other(x) \in End
      BY DEF Other, End
    <3>5. QED
      BY <3>1, <3>3, <3>4
  <2>2. CASE Derived(x) \/ AwaitTimesOut(x)
    BY <1>5, <2>2 DEF Derived, AwaitTimesOut
  <2>3. CASE IntervalElapses(x)
    BY <1>0, <2>3 DEF IntervalElapses, RestType
  <2>4. QED
    BY <1>1, <2>1, <2>2, <2>3
<1>7. /\ resync' \in Epoch /\ recent' \in [End -> BOOLEAN] /\ WireType'
      /\ \A y \in End : \A h \in Frames(y)' : h \in Frames(y) \/ (h.kind = "resync" /\ h.run = run)
  <2>1. CASE wire' = wire
    <3>1. resync' \in Epoch
      <4>1. CASE AwaitTimesOut(x) /\ x = "i"
        <5>1. batch.epoch \in Int /\ resync \in Int /\ resync' = Max({resync, batch.epoch})
          BY <1>0, <1>4, <4>1, LinkAssumption, SMT DEF AwaitTimesOut, Epoch, None, RestType
        <5>2. QED
          BY <1>0, <1>4, <5>1, MaxOfTwo, SMT DEF RestType, Epoch, None
      <4>2. CASE ~ (AwaitTimesOut(x) /\ x = "i")
        BY <1>0, <1>1, <4>2 DEF EncKeys, Derived, AwaitTimesOut, IntervalElapses, RestType
      <4>3. QED
        BY <4>1, <4>2
    <3>2. recent' \in [End -> BOOLEAN]
      BY <1>0, <1>1 DEF EncKeys, Derived, AwaitTimesOut, IntervalElapses, RestType
    <3>3. WireType' /\ \A y \in End : Frames(y)' = Frames(y)
      BY <1>0, <2>1 DEF WireType, Frames
    <3>4. QED
      BY <3>1, <3>2, <3>3
  <2>2. CASE wire' # wire
    <3> DEFINE e == Max({Highest("r"), 0})
               f == ResyncReqFrame(e)
               q == Queued("i", f)
    <3>1. /\ AwaitTimesOut(x) /\ resync' = resync /\ recent' = [recent EXCEPT !["r"] = TRUE]
          /\ wire' = [wire EXCEPT !["i"] = q]
      BY <1>1, <2>2 DEF EncKeys, Derived, AwaitTimesOut, IntervalElapses, SendTo
    <3>2. "i" \in End /\ "r" \in End /\ End = {"i", "r"}
      BY DEF End
    <3>3. e \in Epoch
      <4>1. Highest("r") \in Int /\ Highest("r") <= MaxEpoch /\ 0 \in Int
        BY <1>3, <3>2, HighestIs, TopIs, SMT
      <4>2. e = IF Highest("r") >= 0 THEN Highest("r") ELSE 0
        BY <4>1, MaxOfTwo
      <4>3. QED
        BY <4>1, <4>2, LinkAssumption, SMT DEF Epoch
    <3>4. f \in FrameOf /\ f.kind = "resync" /\ f.run = run
      BY <1>0, <3>3 DEF FrameOf, ResyncReqFrame, RestType, None
    <3>5. q \in Seq(FrameOf) /\ Len(q) <= QueueMax /\ Range(q) \subseteq Frames("i") \cup {f}
      BY <1>0, <3>2, <3>4, QueuedIs
    <3> HIDE DEF q, f
    <3>6. WireType' /\ Frames("i")' = Range(q) /\ Frames("r")' = Frames("r")
      BY <1>0, <3>1, <3>2, <3>5 DEF WireType, Frames
    <3>7. \A y \in End : \A h \in Frames(y)' : h \in Frames(y) \/ (h.kind = "resync" /\ h.run = run)
      BY <3>2, <3>4, <3>5, <3>6
    <3>8. resync' \in Epoch /\ recent' \in [End -> BOOLEAN]
      BY <1>0, <3>1 DEF RestType
    <3>9. QED
      BY <3>6, <3>7, <3>8
  <2>3. QED
    BY <2>1, <2>2
<1>8. StateType'
  BY <1>0, <1>2, <1>6, <1>7, Zenon DEF StateType, StoreType, TableType, RestType
<1>9. Quiet
  <2>1. Less(store'["i"], store["i"]) /\ Less(pending', pending) /\ store'["r"] = store["r"]
    BY <1>2, LessItself
  <2>2. QED
    BY <1>2, <1>7, <1>8, <2>1, Zenon DEF Quiet
<1>10. QED
  BY <1>2, <1>9, SteadyIf

\* A connection that breaks takes frames with it.
LEMMA DisconnectQuiet ==
    ASSUME IInv, NEW lost \in 0 .. Len(wire["r"]), Disconnect(lost)
    PROVE  Quiet /\ Steady
<1> DEFINE q == Cut(wire["r"], lost)
<1>0. StoreType /\ TableType /\ WireType /\ RestType /\ loop \in LoopOf
  BY DEF IInv, StateType
<1>1. "i" \in End /\ "r" \in End /\ End = {"i", "r"}
  BY DEF End
<1>2. q \in Seq(FrameOf) /\ Len(q) <= QueueMax /\ Range(q) \subseteq Frames("r")
  BY <1>0, <1>1, CutIs
<1>3. /\ wire' = [wire EXCEPT !["r"] = q] /\ permit' = TRUE
      /\ store' = store /\ pending' = pending /\ cache' = cache /\ loop' = loop
      /\ resync' = resync /\ recent' = recent /\ batch' = batch /\ fresh' = fresh /\ run' = run
      /\ crossed' = crossed
  BY DEF Disconnect, secrets
<1> HIDE DEF q
<1>4. WireType' /\ Frames("r")' = Range(q) /\ Frames("i")' = Frames("i")
  BY <1>0, <1>1, <1>2, <1>3 DEF WireType, Frames
<1>5. StateType'
  BY <1>0, <1>3, <1>4, Zenon DEF StateType, StoreType, TableType, RestType
<1>6. \A y \in End : \A h \in Frames(y)' : h \in Frames(y) \/ (h.kind = "resync" /\ h.run = run)
  BY <1>1, <1>2, <1>4
<1>7. Quiet
  <2>1. Less(store'["i"], store["i"]) /\ Less(pending', pending) /\ store'["r"] = store["r"]
    BY <1>3, LessItself
  <2>2. QED
    BY <1>3, <1>5, <1>6, <2>1, Zenon DEF Quiet
<1>8. QED
  BY <1>3, <1>7, SteadyIf

\* A step that changes nothing.
LEMMA StutterQuiet ==
    ASSUME IInv, UNCHANGED vars
    PROVE  Quiet /\ Steady
<1>1. /\ store' = store /\ pending' = pending /\ cache' = cache /\ loop' = loop /\ wire' = wire
      /\ permit' = permit /\ resync' = resync /\ recent' = recent /\ batch' = batch
      /\ fresh' = fresh /\ run' = run /\ crossed' = crossed
  BY DEF vars, secrets, past
<1>2. LoopStep
  BY <1>1, LessItself, Zenon DEF LoopStep, IInv, StateType, StoreType, TableType, RestType
<1>3. QED
  BY <1>1, <1>2, LoopStepQuiet, SteadyIf

-----------------------------------------------------------------------------
(* The handshake.                                                          *)

\* An INIT is answered.
LEMMA HandleInitKeeps ==
    ASSUME IInv, HandleInit
    PROVE  IInv' /\ \A x \in End : DOMAIN store[x] # {} => DOMAIN store'[x] # {}
<1>0. /\ StateType /\ FrameInv /\ AnsweredInv /\ LoopInv /\ SettledInv /\ KeypairInv /\ AgreeInv
      /\ "i" \in End /\ "r" \in End /\ End = {"i", "r"}
  BY DEF IInv, End
<1>1. StateType' /\ \E f, ct : InitHandled(f, ct)
  BY <1>0, HandleInitDoes
<1>2. PICK f, ct : InitHandled(f, ct)
  BY <1>1
<1> DEFINE e == f.epoch
           a == RespFrame(e, ct, f)
<1>3. /\ f \in Frames("r") /\ f.kind = "init" /\ ct \in Secret
      /\ Frames("r")' \subseteq Frames("r") /\ Frames("i")' \subseteq Frames("i") \cup {a}
      /\ store'["i"] = store["i"] /\ pending' = pending /\ loop' = loop /\ run' = run
  BY <1>2 DEF InitHandled
<1>4. a.kind = "resp" /\ a.epoch = e /\ a.body = ct /\ a.run = f.run
  BY DEF RespFrame
<1>5. /\ Current("r", "init")' \subseteq Current("r", "init")
      /\ \A h \in Current("i", "resp")' :
            h \in Current("i", "resp") \/ (h = a /\ f \in Current("r", "init"))
  BY <1>3, <1>4 DEF Current
<1> HIDE DEF a
<1>6. FrameInv'
  <2>1. \A y \in End : f.run[y] <= run[y]
    BY <1>0, <1>3 DEF FrameInv
  <2>2. QED
    BY <1>0, <1>3, <1>4, <2>1, SMT DEF FrameInv
<1>7. AnsweredInv'
  <2>1. CASE store' = store /\ cache' = cache
    BY <1>0, <2>1 DEF AnsweredInv
  <2>2. CASE ~ (store' = store /\ cache' = cache)
    <3>1. /\ DOMAIN cache' = DOMAIN cache \cup {e} /\ cache'[e] = ct
          /\ \A d \in DOMAIN cache \ {e} : cache'[d] = cache[d]
          /\ DOMAIN store'["r"] \subseteq DOMAIN store["r"] \cup {e}
          /\ \A d \in DOMAIN store'["r"] \ {e} : store'["r"][d] = store["r"][d]
          /\ e \in DOMAIN store'["r"] => store'["r"][e] = ct
      BY <1>2, <2>2 DEF InitHandled
    <3>2. QED
      BY <1>0, <3>1 DEF AnsweredInv
  <2>3. QED
    BY <2>1, <2>2
<1>8. Highest("i")' = Highest("i")
  BY <1>3 DEF Highest
<1>9. LoopInv'
  BY <1>0, <1>3, <1>8 DEF LoopInv, Establishing
<1>10. SettledInv'
  <2>1. \A d : Settled(d)' = Settled(d)
    BY <1>3, <1>8 DEF Settled
  <2>2. QED
    BY <1>0, <1>3, <1>4, <1>5, <2>1 DEF SettledInv
<1>11. KeypairInv'
  BY <1>0, <1>3, <1>5 DEF KeypairInv
<1>12. AgreeInv'
  <2>1. SUFFICES ASSUME ~ crossed'
                 PROVE  /\ \A d \in DOMAIN store["i"] \cap DOMAIN cache' : store["i"][d] = cache'[d]
                        /\ \A h \in Current("r", "init")' : h.epoch \in DOMAIN store["i"] =>
                              h.epoch \in DOMAIN cache' /\ cache'[h.epoch].pk = h.body
                        /\ \A h \in Current("i", "resp")' : h.epoch \in DOMAIN pending =>
                              /\ h.body.pk = pending[h.epoch]
                              /\ h.epoch \in DOMAIN cache' /\ cache'[h.epoch] = h.body
    BY <1>3 DEF AgreeInv
  <2>2. ~ crossed /\ f.run = run
    BY <1>2, <2>1 DEF InitHandled
  <2>3. f \in Current("r", "init")
    BY <1>3, <2>2 DEF Current
  <2>4. e \in DOMAIN pending => f.body = pending[e]
    BY <1>0, <2>3 DEF KeypairInv
  <2>5. /\ \A d \in DOMAIN store["i"] \cap DOMAIN cache : store["i"][d] = cache[d]
        /\ \A h \in Current("r", "init") : h.epoch \in DOMAIN store["i"] =>
              h.epoch \in DOMAIN cache /\ cache[h.epoch].pk = h.body
        /\ \A h \in Current("i", "resp") : h.epoch \in DOMAIN pending =>
              /\ h.body.pk = pending[h.epoch]
              /\ h.epoch \in DOMAIN cache /\ cache[h.epoch] = h.body
    BY <1>0, <2>2 DEF AgreeInv
  <2>6. CASE e \in DOMAIN cache /\ cache[e].pk = f.body
    <3>1. cache' = cache /\ ct = cache[e]
      BY <1>2, <2>6 DEF InitHandled
    <3>2. QED
      BY <1>4, <1>5, <2>4, <2>5, <2>6, <3>1
  <2>7. CASE ~ (e \in DOMAIN cache /\ cache[e].pk = f.body)
    <3>1. /\ ct.pk = f.body /\ DOMAIN cache' = DOMAIN cache \cup {e} /\ cache'[e] = ct
          /\ \A d \in DOMAIN cache \ {e} : cache'[d] = cache[d]
      BY <1>2, <2>7 DEF InitHandled
    <3>2. e \notin DOMAIN store["i"]
      BY <2>3, <2>5, <2>7
    <3>3. \A h \in Current("i", "resp") : h.epoch = e => e \notin DOMAIN pending
      BY <2>4, <2>5, <2>7, SMT
    <3>4. QED
      BY <1>4, <1>5, <2>4, <2>5, <3>1, <3>2, <3>3
  <2>8. QED
    BY <2>6, <2>7
<1>13. \A x \in End : DOMAIN store[x] # {} => DOMAIN store'[x] # {}
  <2>1. DOMAIN store["r"] # {} => DOMAIN store'["r"] # {}
    BY <1>2 DEF InitHandled
  <2>2. QED
    BY <1>0, <1>3, <2>1
<1>14. QED
  BY <1>1, <1>6, <1>7, <1>9, <1>10, <1>11, <1>12, <1>13 DEF IInv

\* A RESP is taken.
LEMMA HandleRespKeeps ==
    ASSUME IInv, HandleResp
    PROVE  IInv' /\ \A x \in End : DOMAIN store[x] # {} => DOMAIN store'[x] # {}
<1>0. /\ StateType /\ FrameInv /\ AnsweredInv /\ LoopInv /\ SettledInv /\ KeypairInv /\ AgreeInv
      /\ "i" \in End /\ "r" \in End /\ End = {"i", "r"}
  BY DEF IInv, End
<1>1. StateType' /\ \E f : RespHandled(f)
  BY <1>0, HandleRespDoes
<1>2. PICK f : RespHandled(f)
  BY <1>1
<1> DEFINE e == f.epoch
<1>3. /\ f \in Frames("i") /\ f.kind = "resp"
      /\ \A x \in End : Frames(x)' \subseteq Frames(x)
      /\ store'["r"] = store["r"] /\ pending' = pending /\ cache' = cache /\ loop' = loop
      /\ run' = run
      /\ \A d \in DOMAIN store["i"] : \E h \in DOMAIN store'["i"] : d <= h
  BY <1>2 DEF RespHandled
<1>4. \A x \in End, kind \in {"init", "resp"} : Current(x, kind)' \subseteq Current(x, kind)
  BY <1>3 DEF Current
<1>5. FrameInv'
  BY <1>0, <1>3 DEF FrameInv
<1>6. AnsweredInv'
  BY <1>0, <1>3 DEF AnsweredInv
<1>7. Highest("i") <= Highest("i")' /\ Highest("i")' \in Int /\ Highest("i") \in Int
  <2>1. DOMAIN store["i"] \in SUBSET Epoch /\ DOMAIN store'["i"] \in SUBSET Epoch
    BY <1>0, <1>1 DEF StateType, StoreType, Window, Table
  <2>2. Top(DOMAIN store["i"]) <= Top(DOMAIN store'["i"])
    BY <1>3, <2>1, TopGrows
  <2>3. Top(DOMAIN store["i"]) \in Int /\ Top(DOMAIN store'["i"]) \in Int
    BY <2>1, TopIs
  <2>4. QED
    BY <1>0, <2>2, <2>3, HighestIs
<1>8. LoopInv'
  <2>1. loop.epoch \in Int
    BY LoopFacts, SMT
  <2>2. loop.epoch <= Highest("i") + 1 => loop.epoch <= Highest("i")' + 1
    BY <1>7, <2>1, SMT
  <2>3. QED
    BY <1>0, <1>3, <2>2 DEF LoopInv, Establishing
<1>9. SettledInv'
  <2>1. ASSUME NEW d \in Epoch, Settled(d)
        PROVE  Settled(d)'
    <3>1. d \in Int
      BY SMT DEF Epoch
    <3>2. QED
      BY <1>3, <1>7, <2>1, <3>1, SMT DEF Settled
  <2>2. \A x \in End : \A h \in Frames(x) : h.epoch \in Epoch
    BY <1>0, FramesAre DEF StateType, FrameOf
  <2>3. QED
    BY <1>0, <1>3, <1>4, <2>1, <2>2 DEF SettledInv, Current
<1>10. KeypairInv'
  BY <1>0, <1>3, <1>4 DEF KeypairInv
<1>11. AgreeInv'
  <2>1. SUFFICES ASSUME ~ crossed'
                 PROVE  /\ \A d \in DOMAIN store'["i"] \cap DOMAIN cache : store'["i"][d] = cache[d]
                        /\ \A h \in Current("r", "init")' : h.epoch \in DOMAIN store'["i"] =>
                              h.epoch \in DOMAIN cache /\ cache[h.epoch].pk = h.body
                        /\ \A h \in Current("i", "resp")' : h.epoch \in DOMAIN pending =>
                              /\ h.body.pk = pending[h.epoch]
                              /\ h.epoch \in DOMAIN cache /\ cache[h.epoch] = h.body
    BY <1>3 DEF AgreeInv
  <2>2. ~ crossed /\ f.run = run
    BY <1>2, <2>1 DEF RespHandled
  <2>3. f \in Current("i", "resp")
    BY <1>3, <2>2 DEF Current
  <2>4. /\ \A d \in DOMAIN store["i"] \cap DOMAIN cache : store["i"][d] = cache[d]
        /\ \A h \in Current("r", "init") : h.epoch \in DOMAIN store["i"] =>
              h.epoch \in DOMAIN cache /\ cache[h.epoch].pk = h.body
        /\ \A h \in Current("i", "resp") : h.epoch \in DOMAIN pending =>
              /\ h.body.pk = pending[h.epoch]
              /\ h.epoch \in DOMAIN cache /\ cache[h.epoch] = h.body
    BY <1>0, <2>2 DEF AgreeInv
  <2>5. CASE store'["i"] = store["i"]
    BY <1>0, <1>4, <2>4, <2>5
  <2>6. CASE store'["i"] # store["i"]
    <3>1. /\ e \in DOMAIN pending
          /\ DOMAIN store'["i"] \subseteq DOMAIN store["i"] \cup {e}
          /\ \A d \in DOMAIN store'["i"] :
                store'["i"][d] = IF d = e THEN Decap(pending[d], f.body) ELSE store["i"][d]
      BY <1>2, <2>6 DEF RespHandled
    <3>2. f.body.pk = pending[e] /\ e \in DOMAIN cache /\ cache[e] = f.body
      BY <2>3, <2>4, <3>1
    <3>3. Decap(pending[e], f.body) = cache[e]
      BY <3>2 DEF Decap
    <3>4. \A h \in Current("r", "init") : h.epoch = e => h.body = pending[e]
      BY <1>0, <3>1 DEF KeypairInv
    <3>5. QED
      BY <1>0, <1>4, <2>4, <3>1, <3>2, <3>3, <3>4
  <2>7. QED
    BY <2>5, <2>6
<1>12. \A x \in End : DOMAIN store[x] # {} => DOMAIN store'[x] # {}
  BY <1>0, <1>3
<1>13. QED
  BY <1>1, <1>5, <1>6, <1>8, <1>9, <1>10, <1>11, <1>12 DEF IInv

\* An INIT is sent, of a new keypair or of the pending one.
LEMMA SendInitKeeps ==
    ASSUME IInv, Establish \/ ResendInit
    PROVE  IInv' /\ store' = store
<1> DEFINE e == loop.epoch
           a == InitFrame(e, pending'[e])
           q == Queued("r", a)
<1>0. /\ StateType /\ FrameInv /\ AnsweredInv /\ LoopInv /\ SettledInv /\ KeypairInv /\ AgreeInv
      /\ StoreType /\ TableType /\ WireType /\ RestType /\ loop \in LoopOf
      /\ "i" \in End /\ "r" \in End /\ End = {"i", "r"}
  BY DEF IInv, StateType, End
<1>1. /\ loop.pc # "select" /\ e <= loop.last /\ e \notin DOMAIN store["i"]
      /\ wire' = [wire EXCEPT !["r"] = q]
      /\ store' = store /\ cache' = cache /\ resync' = resync /\ permit' = permit
      /\ recent' = recent /\ batch' = batch /\ run' = run /\ crossed' = crossed
  <2>1. CASE Establish
    BY <2>1 DEF Establish, Establishing, Contained, SendTo
  <2>2. CASE ResendInit
    <3>1. pending' = pending
      BY <2>2 DEF ResendInit, secrets
    <3>2. QED
      BY <2>2, <3>1 DEF ResendInit, Establishing, Contained, SendTo, secrets, past
  <2>3. QED
    BY <2>1, <2>2
<1>2. e \in Epoch
  <2>1. loop.last \in Epoch /\ loop.epoch \in 0 .. MaxEpoch + 1
    BY LoopFacts
  <2>2. QED
    BY <1>1, <2>1, LinkAssumption, SMT DEF Epoch
<1>3. /\ Table(pending', Nat) /\ DOMAIN pending' = DOMAIN pending \cup {e}
      /\ fresh' \in Nat
      /\ \A d \in DOMAIN pending : pending'[d] = pending[d]
  <2>1. CASE e \in DOMAIN pending
    <3>1. pending' = pending /\ fresh' = fresh
      BY <2>1 DEF Establish, ResendInit, secrets, past
    <3>2. QED
      BY <1>0, <2>1, <3>1 DEF TableType, RestType
  <2>2. CASE e \notin DOMAIN pending
    <3>1. Establish
      BY <1>0, <2>2 DEF ResendInit, LoopInv
    <3>2. pending' = Put(pending, e, fresh) /\ fresh' = fresh + 1
      BY <2>2, <3>1 DEF Establish
    <3>3. Table(Put(pending, e, fresh), Nat)
      BY <1>0, <1>2, PutTable DEF TableType, RestType
    <3>4. /\ DOMAIN Put(pending, e, fresh) = DOMAIN pending \cup {e}
          /\ \A d \in DOMAIN pending \ {e} : Put(pending, e, fresh)[d] = pending[d]
      BY DEF Put
    <3>5. QED
      BY <1>0, <2>2, <3>2, <3>3, <3>4, SMT DEF RestType
  <2>3. QED
    BY <2>1, <2>2
<1>4. /\ loop' \in LoopOf /\ loop'.pc = loop.pc /\ loop'.epoch = e /\ loop'.last = loop.last
      /\ loop'.target = loop.target /\ loop'.pruneAfter = loop.pruneAfter
  <2>1. loop' = loop \/ loop' = [loop EXCEPT !.sent = TRUE]
    BY DEF Establish, ResendInit
  <2>2. loop' \in LoopOf
    BY <1>0, <2>1 DEF LoopOf
  <2>3. QED
    BY <1>0, <2>1, <2>2 DEF LoopOf
<1>5. /\ a \in FrameOf /\ a.kind = "init" /\ a.epoch = e /\ a.body = pending'[e] /\ a.run = run
      /\ a.body \in Nat
  <2>1. pending'[e] \in Nat
    BY <1>3 DEF Table
  <2>2. run \in [End -> Nat]
    BY <1>0 DEF RestType
  <2>3. QED
    BY <1>2, <2>1, <2>2 DEF InitFrame, FrameOf
<1>6. q \in Seq(FrameOf) /\ Len(q) <= QueueMax /\ Range(q) \subseteq Frames("r") \cup {a}
  BY <1>0, <1>5, QueuedIs
<1> HIDE DEF q, a
<1>7. WireType' /\ Frames("r")' = Range(q) /\ Frames("i")' = Frames("i")
  BY <1>0, <1>1, <1>6 DEF WireType, Frames
<1>8. StateType'
  <2>1. TableType'
    BY <1>0, <1>1, <1>3 DEF TableType
  <2>2. QED
    BY <1>0, <1>1, <1>3, <1>4, <1>7, <2>1, Zenon DEF StateType, StoreType, RestType
<1>9. /\ Current("i", "resp")' = Current("i", "resp")
      /\ \A h \in Current("r", "init")' : h \in Current("r", "init") \/ h = a
  BY <1>1, <1>6, <1>7 DEF Current
<1>10. FrameInv'
  <2>1. \A y \in End : run[y] <= run[y]
    BY <1>0, SMT DEF RestType
  <2>2. QED
    BY <1>0, <1>1, <1>5, <1>6, <1>7, <2>1, SMT DEF FrameInv
<1>11. AnsweredInv'
  BY <1>0, <1>1 DEF AnsweredInv
<1>12. Highest("i")' = Highest("i")
  BY <1>1 DEF Highest
<1>13. LoopInv'
  BY <1>0, <1>1, <1>3, <1>4, <1>12 DEF LoopInv, Establishing
<1>14. SettledInv'
  <2>1. \A d : Settled(d)' <=> Settled(d)
    BY <1>4, <1>12 DEF Settled
  <2>2. QED
    BY <1>0, <1>3, <1>5, <1>9, <2>1 DEF SettledInv
<1>15. \A h \in Current("r", "init") \cup Current("i", "resp") :
          h.epoch = e => e \in DOMAIN pending
  <2>1. SUFFICES ASSUME Settled(e) PROVE FALSE
    BY <1>0 DEF SettledInv
  <2>2. e <= Highest("i") /\ (e < e \/ e = MaxEpoch)
    BY <1>1, <2>1 DEF Settled
  <2>3. Highest("i") = MaxEpoch /\ e = MaxEpoch
    BY <1>2, <2>2, LoopFacts, SMT DEF Epoch
  <2>4. DOMAIN store["i"] # {} => Highest("i") \in DOMAIN store["i"]
    BY LoopFacts, HighestIs, TopIs
  <2>5. DOMAIN store["i"] = {} => Highest("i") = -1
    BY LoopFacts, HighestIs, TopIs
  <2>6. MaxEpoch # -1
    BY LinkAssumption, SMT
  <2>7. QED
    BY <1>1, <2>3, <2>4, <2>5, <2>6
<1>16. KeypairInv'
  BY <1>0, <1>3, <1>5, <1>9, <1>15 DEF KeypairInv
<1>17. AgreeInv'
  BY <1>0, <1>1, <1>3, <1>5, <1>9, <1>15 DEF AgreeInv
<1>18. QED
  BY <1>1, <1>8, <1>10, <1>11, <1>13, <1>14, <1>16, <1>17 DEF IInv

\* After a restart no frame is of the present executions.
LEMMA RestartKeeps ==
    ASSUME IInv, NEW x \in End, NEW sent \in 0 .. Len(wire[Other(x)]),
           NEW lost \in 0 .. Len(wire[x]), Restart(x, sent, lost)
    PROVE  IInv' /\ run'[x] # run[x] /\ \A y \in End \ {x} : store'[y] = store[y]
<1> DEFINE y == Other(x)
           q == Cut(wire[x], lost)
           t == SubSeq(wire[y], 1, sent)
<1>0. /\ StateType /\ FrameInv /\ AnsweredInv /\ LoopInv /\ SettledInv /\ KeypairInv /\ AgreeInv
      /\ StoreType /\ TableType /\ WireType /\ RestType /\ loop \in LoopOf
  BY DEF IInv, StateType
<1>1. "i" \in End /\ "r" \in End /\ End = {"i", "r"} /\ y \in End /\ y # x /\ End = {x, y}
  BY DEF End, Other
<1>2. /\ q \in Seq(FrameOf) /\ Len(q) <= QueueMax /\ Range(q) \subseteq Frames(x)
      /\ t \in Seq(FrameOf) /\ Len(t) <= QueueMax /\ Range(t) \subseteq Frames(y)
  BY <1>0, <1>1, CutIs
<1>3. /\ run' = [run EXCEPT ![x] = @ + 1]
      /\ wire' = [wire EXCEPT ![x] = q, ![y] = t]
      /\ store' = [store EXCEPT ![x] = <<>>]
      /\ recent' = [recent EXCEPT ![x] = FALSE]
      /\ batch' = IF batch.to = x THEN NoBatch ELSE batch
      /\ fresh' = fresh /\ crossed' = crossed
      /\ x = "i" => pending' = <<>> /\ loop' = Booting /\ permit' = FALSE /\ resync' = 0
                    /\ cache' = cache
      /\ x # "i" => cache' = <<>> /\ permit' = TRUE /\ pending' = pending /\ loop' = loop
                    /\ resync' = resync
  BY DEF Restart
<1> HIDE DEF q, t, y
<1>4. WireType' /\ Frames(x)' = Range(q) /\ Frames(y)' = Range(t)
  BY <1>0, <1>1, <1>2, <1>3 DEF WireType, Frames
<1>5. \A z \in End : Frames(z)' \subseteq Frames(z)
  BY <1>1, <1>2, <1>4
<1>6. /\ run' \in [End -> Nat] /\ run[x] < run'[x]
      /\ \A z \in End : run[z] <= run'[z] /\ run[z] \in Nat /\ run'[z] \in Nat
  BY <1>0, <1>3, SMT DEF RestType
<1>7. FrameInv'
  <2>1. SUFFICES ASSUME NEW z \in End, NEW f \in Frames(z)'
                 PROVE  /\ f.kind = "init" => f.body \in Nat
                        /\ f.kind = "resp" => f.body \in Secret
                        /\ \A w \in End : f.run[w] <= run'[w]
    BY DEF FrameInv
  <2>2. f \in Frames(z)
    BY <1>5
  <2>3. f \in FrameOf
    BY <1>0, <2>2, FramesAre
  <2>4. f.run \in [End -> Nat]
    BY <2>3 DEF FrameOf
  <2>5. \A w \in End : f.run[w] <= run'[w]
    <3>1. ASSUME NEW w \in End PROVE f.run[w] <= run'[w]
      <4>1. f.run[w] \in Nat /\ f.run[w] <= run[w]
        BY <1>0, <2>2, <2>4 DEF FrameInv
      <4>2. QED
        BY <1>6, <4>1, SMT
    <3>2. QED
      BY <3>1
  <2>6. QED
    BY <1>0, <2>2, <2>5 DEF FrameInv
<1>8. \A z \in End : \A f \in Frames(z)' : f.run # run'
  <2>1. SUFFICES ASSUME NEW z \in End, NEW f \in Frames(z)', f.run = run' PROVE FALSE
    OBVIOUS
  <2>2. f.run[x] <= run[x]
    BY <1>0, <1>5 DEF FrameInv
  <2>3. QED
    BY <1>6, <2>1, <2>2, SMT
<1>9. \A z \in End, kind \in {"init", "resp"} : Current(z, kind)' = {}
  BY <1>8 DEF Current
<1>10. Window(<<>>) /\ Table(<<>>, Nat) /\ Table(<<>>, Secret) /\ DOMAIN <<>> = {}
  <2>1. DOMAIN <<>> = {} /\ \A V : <<>> \in [{} -> V]
    BY SMT
  <2>2. Cardinality({}) = 0
    BY FS_EmptySet
  <2>3. QED
    BY <2>1, <2>2, LinkAssumption, SMT DEF Window, Table
<1>11. StoreType' /\ store'[x] = <<>> /\ store'[y] = store[y]
  BY <1>0, <1>1, <1>3, <1>10 DEF StoreType
<1>12. TableType'
  <2>1. CASE x = "i"
    BY <1>0, <1>3, <1>10, <2>1 DEF TableType
  <2>2. CASE x # "i"
    BY <1>0, <1>3, <1>10, <2>2 DEF TableType
  <2>3. QED
    BY <2>1, <2>2
<1>13. /\ Booting \in LoopOf /\ Booting.pc = "boot" /\ Booting.epoch = 0 /\ ~ Booting.sent
       /\ Booting.pruneAfter <= Booting.target
  BY LinkAssumption, SMT DEF Booting, LoopOf, Epoch, None
<1>14. loop' \in LoopOf /\ resync' \in Epoch /\ permit' \in BOOLEAN
  <2>1. 0 \in Epoch
    BY LinkAssumption, SMT DEF Epoch
  <2>2. QED
    BY <1>0, <1>3, <1>13, <2>1 DEF RestType
<1>15. StateType'
  <2>1. recent' \in [End -> BOOLEAN]
    BY <1>0, <1>3 DEF RestType
  <2>2. batch' \in [to : End \cup {"none"}, epoch : Epoch \cup {None}]
    BY <1>0, <1>3 DEF RestType, NoBatch
  <2>3. QED
    BY <1>0, <1>3, <1>4, <1>6, <1>11, <1>12, <1>14, <2>1, <2>2, Zenon DEF StateType, RestType
<1>16. AnsweredInv'
  <2>1. CASE x = "r"
    BY <1>10, <1>11, <2>1 DEF AnsweredInv
  <2>2. CASE x = "i"
    <3>1. cache' = cache /\ store'["r"] = store["r"]
      BY <1>1, <1>3, <1>11, <2>2
    <3>2. QED
      BY <1>0, <3>1 DEF AnsweredInv
  <2>3. QED
    BY <1>1, <2>1, <2>2
<1>17. LoopInv'
  <2>1. CASE x = "i"
    <3>1. loop' = Booting /\ DOMAIN store'["i"] = {}
      BY <1>3, <1>10, <1>11, <2>1
    <3>2. Highest("i")' = -1
      BY <3>1 DEF Highest, None
    <3>3. QED
      BY <1>13, <3>1, <3>2, SMT DEF LoopInv
  <2>2. CASE x = "r"
    <3>1. loop' = loop /\ pending' = pending /\ store'["i"] = store["i"]
      BY <1>1, <1>3, <1>11, <2>2
    <3>2. Highest("i")' = Highest("i")
      BY <3>1 DEF Highest
    <3>3. QED
      BY <1>0, <3>1, <3>2 DEF LoopInv, Establishing
  <2>3. QED
    BY <1>1, <2>1, <2>2
<1>18. SettledInv' /\ KeypairInv'
  BY <1>1, <1>9 DEF SettledInv, KeypairInv
<1>19. AgreeInv'
  <2>1. DOMAIN store'["i"] \cap DOMAIN cache' = {}
    BY <1>1, <1>3, <1>10, <1>11
  <2>2. QED
    BY <1>1, <1>9, <2>1 DEF AgreeInv
<1>20. run'[x] # run[x] /\ \A z \in End \ {x} : store'[z] = store[z]
  BY <1>1, <1>6, <1>11, SMT
<1>21. QED
  BY <1>7, <1>15, <1>16, <1>17, <1>18, <1>19, <1>20 DEF IInv

-----------------------------------------------------------------------------
(* The theorems.                                                           *)

\* Two ends that have just started have nothing to disagree on.
LEMMA InitIInv == Init => IInv
<1> SUFFICES ASSUME Init PROVE IInv
  OBVIOUS
<1> USE DEF Init
<1>1. "i" \in End /\ "r" \in End
  BY DEF End
<1>2. <<>> \in Seq(FrameOf) /\ Len(<<>>) = 0 /\ Range(<<>>) = {}
  <2>1. <<>> \in Seq(FrameOf) /\ Len(<<>>) = 0
    BY EmptySeq
  <2>2. DOMAIN <<>> = {}
    BY SMT
  <2>3. QED
    BY <2>1, <2>2 DEF Range
<1>3. Window(<<>>) /\ Table(<<>>, Nat) /\ Table(<<>>, Secret) /\ DOMAIN <<>> = {}
  <2>1. DOMAIN <<>> = {} /\ \A V : <<>> \in [{} -> V]
    BY SMT
  <2>2. Cardinality({}) = 0
    BY FS_EmptySet
  <2>3. QED
    BY <2>1, <2>2, LinkAssumption, SMT DEF Window, Table
<1>4. \A x \in End : Frames(x) = {}
  BY <1>2 DEF Frames
<1>5. \A x \in End, kind \in {"init", "resp"} : Current(x, kind) = {}
  BY <1>4 DEF Current
<1>6. /\ Booting \in LoopOf /\ Booting.pc = "boot" /\ Booting.epoch = 0 /\ ~ Booting.sent
      /\ Booting.pruneAfter <= Booting.target
  BY LinkAssumption, SMT DEF Booting, LoopOf, Epoch, None
<1>7. StateType
  <2>1. StoreType
    BY <1>3 DEF StoreType
  <2>2. TableType
    BY <1>3 DEF TableType
  <2>3. WireType
    BY <1>2, LinkAssumption, SMT DEF WireType
  <2>4. RestType
    <3>1. 0 \in Epoch /\ NoBatch \in [to : End \cup {"none"}, epoch : Epoch \cup {None}]
      BY LinkAssumption, SMT DEF NoBatch, Epoch
    <3>2. QED
      BY <3>1 DEF RestType
  <2>5. QED
    BY <1>6, <2>1, <2>2, <2>3, <2>4 DEF StateType
<1>8. DOMAIN store["i"] = {} /\ DOMAIN store["r"] = {} /\ Highest("i") = -1
  BY <1>1, <1>3 DEF Highest, None
<1>9. FrameInv /\ AnsweredInv /\ LoopInv
  BY <1>4, <1>6, <1>8, SMT DEF FrameInv, AnsweredInv, LoopInv
<1>10. SettledInv /\ KeypairInv /\ AgreeInv
  BY <1>1, <1>5, <1>8 DEF SettledInv, KeypairInv, AgreeInv
<1>11. QED
  BY <1>7, <1>9, <1>10 DEF IInv

\* What every step keeps: the invariant, and an epoch at an end that goes on running.
StepKeeps ==
    /\ IInv'
    /\ \A x \in End : DOMAIN store[x] # {} /\ run'[x] = run[x] => DOMAIN store'[x] # {}

\* Steps that agree on nothing keep it.
LEMMA QuietSteadyKeeps ==
    ASSUME IInv, Quiet, Steady
    PROVE  StepKeeps
<1>1. FrameInv' /\ AnsweredInv' /\ KeypairInv' /\ AgreeInv'
  BY QuietKeeps
<1>2. SettledInv'
  BY SettledKeeps
<1>3. QED
  BY <1>1, <1>2 DEF StepKeeps, IInv, Quiet, Steady

\* One step per action.
LEMMA NextKeeps == IInv /\ [Next]_vars => StepKeeps
<1> SUFFICES ASSUME IInv, [Next]_vars PROVE StepKeeps
  OBVIOUS
<1>1. CASE HandleInit
  BY <1>1, HandleInitKeeps DEF StepKeeps
<1>2. CASE HandleResp
  BY <1>2, HandleRespKeeps DEF StepKeeps
<1>3. CASE HandleResyncRequest
  BY <1>3, HandleResyncRequestQuiet, QuietSteadyKeeps
<1>4. CASE Establish \/ ResendInit
  BY <1>4, SendInitKeeps DEF StepKeeps
<1>5. CASE Established
  BY <1>5, EstablishedQuiet, QuietSteadyKeeps
<1>6. CASE EstablishTimesOut
  BY <1>6, EstablishTimesOutQuiet, QuietSteadyKeeps
<1>7. CASE WorkDone
  BY <1>7, WorkDoneQuiet, QuietSteadyKeeps
<1>8. CASE Retry
  BY <1>8, RetryQuiet, QuietSteadyKeeps
<1>9. CASE Rotate
  BY <1>9, RotateQuiet, QuietSteadyKeeps
<1>10. CASE Reconnected \/ ResyncRequested
  BY <1>10, ReconnectedQuiet, QuietSteadyKeeps
<1>11. CASE Keys
  BY <1>11, KeysQuiet, QuietSteadyKeeps
<1>12. ASSUME NEW lost \in 0 .. Len(wire["r"]), Disconnect(lost)
       PROVE  StepKeeps
  BY <1>12, DisconnectQuiet, QuietSteadyKeeps
<1>13. ASSUME NEW x \in End, NEW lost \in 0 .. Len(wire[x]),
              NEW sent \in 0 .. Len(wire[Other(x)]), Restart(x, sent, lost)
       PROVE  StepKeeps
  <2>1. IInv' /\ run'[x] # run[x] /\ \A y \in End \ {x} : store'[y] = store[y]
    BY <1>13, RestartKeeps
  <2>2. QED
    BY <2>1 DEF StepKeeps
<1>14. CASE UNCHANGED vars
  BY <1>14, StutterQuiet, QuietSteadyKeeps
<1>15. QED
  <2>1. CASE Fault
    BY <1>12, <1>13, <2>1 DEF Fault
  <2>2. CASE Handshake \/ Loop
    BY <1>1, <1>2, <1>3, <1>4, <1>5, <1>6, <1>7, <1>8, <1>9, <1>10, <2>2 DEF Handshake, Loop
  <2>3. QED
    BY <1>11, <1>14, <2>1, <2>2 DEF Next

\* In every state of every behaviour the invariant holds.
THEOREM InvCorrect == Spec => []IInv
<1>1. IInv /\ [Next]_vars => IInv'
  BY NextKeeps DEF StepKeeps
<1>2. QED
  BY <1>1, InitIInv, PTL DEF Spec

\* Every reachable state is of the right shape: windows of at most keep epochs, queues
\* of at most QUEUE_CAPACITY frames, epochs that a u32 can hold.
THEOREM TypeCorrect == Spec => []TypeOK
<1>1. IInv => TypeOK
  <2> SUFFICES ASSUME IInv PROVE TypeOK
    OBVIOUS
  <2>0. StoreType /\ TableType /\ WireType /\ RestType /\ loop \in LoopOf
    BY DEF IInv, StateType
  <2>1. \A x \in End :
          /\ DOMAIN store[x] \subseteq Epoch /\ Cardinality(DOMAIN store[x]) <= Keep
          /\ \A e \in DOMAIN store[x] : store[x][e] \in Secret
    BY <2>0 DEF StoreType, Window, Table
  <2>2. \A x \in End :
          /\ Len(wire[x]) <= QueueMax
          /\ \A m \in 1 .. Len(wire[x]) :
                [kind |-> wire[x][m].kind, epoch |-> wire[x][m].epoch] \in Frame
    <3>1. \A x \in End : wire[x] \in Seq(FrameOf) /\ Len(wire[x]) <= QueueMax
      BY <2>0 DEF WireType
    <3>2. \A x \in End : \A m \in 1 .. Len(wire[x]) : wire[x][m] \in FrameOf
      BY <3>1, ElementOfSeq
    <3>3. QED
      BY <3>1, <3>2 DEF FrameOf, Frame
  <2>3. DOMAIN pending \subseteq Epoch /\ DOMAIN cache \subseteq Epoch
    BY <2>0 DEF TableType, Table
  <2>4. /\ loop.pc \in {"boot", "select", "retry", "relink"}
        /\ {loop.last, loop.target} \subseteq Epoch /\ loop.epoch \in 0 .. MaxEpoch + 1
        /\ loop.pruneAfter \in Epoch \cup {None}
    BY <2>0 DEF LoopOf
  <2>5. /\ resync \in Epoch
        /\ batch.to \in End \cup {"none"} /\ batch.epoch \in Epoch \cup {None}
    BY <2>0 DEF RestType
  <2>6. QED
    BY <2>1, <2>2, <2>3, <2>4, <2>5 DEF TypeOK
<1>2. QED
  BY <1>1, InvCorrect, PTL

\* An epoch that both ends hold has the same secret at both, for any lookahead, window,
\* jump and queue, through any rotations, lost frames, timeouts, relinks and restarts, as
\* long as no INIT or RESP is handled that was sent before a restart of either end.
THEOREM AgreeCorrect == Spec => []Agree
<1>1. IInv => /\ ~ crossed => \A e \in DOMAIN store["i"] \cap DOMAIN store["r"] : SameSecret(e)
  BY DEF IInv, AgreeInv, AnsweredInv, SameSecret
<1>2. IInv /\ TypeOK => Agree
  BY <1>1 DEF Agree
<1>3. QED
  BY <1>2, InvCorrect, TypeCorrect, PTL

\* No rotation, eviction or relink takes the last epoch from an end: it has one to
\* encrypt with until its process ends.
THEOREM NeverEmptiedCorrect == Spec => NeverEmptied
<1> DEFINE Kept == \A x \in End : DOMAIN store[x] # {} /\ run'[x] = run[x] => DOMAIN store'[x] # {}
<1>1. IInv /\ [Next]_vars => [Kept]_vars
  BY NextKeeps DEF StepKeeps
<1>2. NeverEmptied <=> [][Kept]_vars
  BY DEF NeverEmptied
<1> HIDE DEF Kept
<1>3. QED
  BY <1>1, <1>2, InvCorrect, PTL DEF Spec
=============================================================================
