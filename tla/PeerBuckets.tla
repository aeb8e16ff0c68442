---------------------------- MODULE PeerBuckets ----------------------------
(***************************************************************************)
(* The admission of SAE requests by the buffers they would drain           *)
(* (SaeBufferBuckets in dkms/src/control/sae_buffer_bucket.rs): a bucket   *)
(* per peer and SAE, whose capacity and rate are worked out anew at each   *)
(* request from the keys in the buffer, the rate of the link and the       *)
(* number of SAEs active in the last window.  A request for several peers  *)
(* takes from all its buckets or from none.                                *)
(*                                                                         *)
(* Tokens are counted in parts of which Scale make a key, a multiple of    *)
(* every number of SAEs, so that shares are whole; time is in ticks.       *)
(***************************************************************************)
EXTENDS Integers, Sequences, FiniteSets, FiniteSetsExt

CONSTANTS
  Peers,       \* the peers in the order a request visits them
  Asks,        \* the requests: [sae, peers, cost], cost in keys of each peer
  Window,      \* of activity, in ticks; also the burst
  MinCapacity, \* min_capacity, in keys
  LinkRate,    \* link_capacity of each peer, in keys per tick
  Scale,
  MaxKeys,     \* bound: keys in a buffer
  MaxNow       \* bound: ticks

VARIABLES
  now,
  occupancy,   \* the keys in the buffer of each peer
  bucket,      \* of each peer and SAE: [rate, cap, tokens, at], or <<>>
  lastRequest, \* of each peer and SAE: its time, or -1
  lastEviction,
  admitted,    \* the request between its admission and its end, or <<>>
  outcome      \* the request of the last step: [sae, ok], or <<>>

bucketVars == <<now, occupancy, bucket, lastRequest, lastEviction, admitted, outcome>>

Sae == {a.sae : a \in Asks}
Peer == {Peers[i] : i \in DOMAIN Peers}
Key == Peer \X Sae
Never == -1

Least(a, b) == IF a < b THEN a ELSE b
Most(a, b) == IF a > b THEN a ELSE b

-----------------------------------------------------------------------------
(* Bucket *)

Empty == [rate |-> 0, cap |-> 0, tokens |-> 0, at |-> now]

\* refill: at the rate of the last request, up to the capacity of the last request.
Refill(b) ==
  [b EXCEPT !.tokens = IF now > b.at /\ b.rate > 0
                       THEN Least(b.tokens + (now - b.at) * b.rate, b.cap) ELSE b.tokens,
            !.at = now]

\* update_limits: a bucket without limits so far starts full, one above its new
\* capacity is cut to it.
UpdateLimits(b, rate, cap) ==
  LET r == Refill(b)
  IN  [rate |-> rate, cap |-> cap, at |-> now,
       tokens |-> IF (b.cap = 0 /\ b.rate = 0) \/ r.tokens > cap THEN cap ELSE r.tokens]

Refund(b, n) == [b EXCEPT !.tokens = Least(@ + n, b.cap)]

-----------------------------------------------------------------------------
(* SaeBufferBuckets *)

Init ==
  /\ now = 0 /\ lastEviction = 0
  /\ occupancy = [p \in Peer |-> MaxKeys]
  /\ bucket = [k \in Key |-> <<>>] /\ lastRequest = [k \in Key |-> Never]
  /\ admitted = <<>> /\ outcome = <<>>

\* maybe_evict: once per window, the keys that had no request for a window go.
MaybeEvict ==
  [due |-> now - lastEviction >= Window,
   at |-> IF now - lastEviction >= Window THEN now ELSE lastEviction]

Evicted == IF MaybeEvict.due
           THEN {k \in Key : lastRequest[k] # Never /\ now - lastRequest[k] > Window} ELSE {}

\* The SAEs active towards a peer, given the times of the last requests.
ActiveSaeCount(last, p) ==
  Most(1, Cardinality({s \in Sae : last[<<p, s>>] # Never /\ now - last[<<p, s>>] <= Window}))

\* The limits of a bucket: never more than there is in the buffer.
Limits(n, p) ==
  LET rate  == (LinkRate[p] * Scale) \div n
      share == (occupancy[p] * Scale) \div n
  IN  [rate |-> rate,
       cap |-> Least(Most(Most(rate * Window, share), MinCapacity * Scale), occupancy[p] * Scale)]

\* Mutant: what was taken from the peers before stays taken.
RollbackNone(b, n) == b
\* What a failed request gives back to a bucket it charged.
Rollback(b, n) == Refund(b, n)

\* try_admit_many: the peers in order; at the first that cannot pay, the buckets
\* already charged are refunded and the rest are not touched.
TryAdmitMany(s, ps, cost) ==
  LET due    == cost * Scale
      last   == [k \in Key |-> IF k[1] \in ps /\ k[2] = s THEN now
                               ELSE IF k \in Evicted THEN Never ELSE lastRequest[k]]
      kept   == [k \in Key |-> IF k \in Evicted THEN <<>> ELSE bucket[k]]
      fresh(p) == LET l == Limits(ActiveSaeCount(last, p), p)
                      b == kept[<<p, s>>]
                  IN  UpdateLimits(IF b = <<>> THEN Empty ELSE b[1], l.rate, l.cap)
      pays(p) == occupancy[p] * Scale >= due /\ fresh(p).tokens >= due
      stops   == {i \in DOMAIN Peers : Peers[i] \in ps /\ ~pays(Peers[i])}
      ok      == stops = {}
      seen    == {Peers[i] : i \in {j \in DOMAIN Peers : Peers[j] \in ps /\ (ok \/ j <= Min(stops))}}
      charged(p) == [fresh(p) EXCEPT !.tokens = @ - due]
      refunded(p) == IF pays(p) THEN Rollback(charged(p), due) ELSE fresh(p)
  IN  [ok |-> ok, last |-> last,
       bucket |-> [k \in Key |-> IF k[2] = s /\ k[1] \in seen
                                 THEN <<IF ok THEN charged(k[1]) ELSE refunded(k[1])>>
                                 ELSE kept[k]]]
Request(a) ==
  /\ admitted = <<>>
  /\ LET r == TryAdmitMany(a.sae, a.peers, a.cost)
     IN  /\ bucket' = r.bucket /\ lastRequest' = r.last
         /\ outcome' = <<[sae |-> a.sae, ok |-> r.ok]>>
         /\ admitted' = IF r.ok THEN <<a>> ELSE <<>>
  /\ lastEviction' = MaybeEvict.at
  /\ UNCHANGED <<now, occupancy>>

\* The keys of the admitted request leave the buffers.
Served ==
  /\ admitted # <<>>
  /\ occupancy' = [p \in Peer |-> IF p \in admitted[1].peers THEN occupancy[p] - admitted[1].cost
                                 ELSE occupancy[p]]
  /\ admitted' = <<>> /\ outcome' = <<>>
  /\ UNCHANGED <<now, bucket, lastRequest, lastEviction>>

\* refund_many: the request failed after its admission.
RefundMany ==
  /\ admitted # <<>>
  /\ bucket' = [k \in Key |-> IF k[1] \in admitted[1].peers /\ k[2] = admitted[1].sae
                                 /\ bucket[k] # <<>>
                              THEN <<Refund(bucket[k][1], admitted[1].cost * Scale)>> ELSE bucket[k]]
  /\ admitted' = <<>> /\ outcome' = <<>>
  /\ UNCHANGED <<now, occupancy, lastRequest, lastEviction>>

\* The buffer is filled meanwhile.
Replenish(p) ==
  /\ occupancy[p] < MaxKeys
  /\ occupancy' = [occupancy EXCEPT ![p] = MaxKeys] /\ outcome' = <<>>
  /\ UNCHANGED <<now, bucket, lastRequest, lastEviction, admitted>>

Tick ==
  /\ now < MaxNow /\ now' = now + 1 /\ outcome' = <<>>
  /\ UNCHANGED <<occupancy, bucket, lastRequest, lastEviction, admitted>>

Next ==
  \/ \E a \in Asks : Request(a)
  \/ Served \/ RefundMany
  \/ \E p \in Peer : Replenish(p)
  \/ Tick

Spec == Init /\ [][Next]_bucketVars

-----------------------------------------------------------------------------
(* Properties: of a state (TypeOK), of a step (the others) *)

TypeOK ==
  /\ now \in 0 .. MaxNow /\ lastEviction \in 0 .. now
  /\ occupancy \in [Peer -> 0 .. MaxKeys]
  /\ \A k \in Key : bucket[k] # <<>> =>
       0 <= bucket[k][1].tokens /\ bucket[k][1].tokens <= bucket[k][1].cap
  /\ lastRequest \in [Key -> -1 .. now]

\* A request that is refused costs nothing: no bucket of the SAE has less than it
\* had, unless what the buffer now holds allows no more.
RefusedIsFree ==
  \A s \in Sae : outcome' # <<>> /\ outcome'[1].sae = s /\ ~outcome'[1].ok =>
    \A p \in Peer :
      bucket[<<p, s>>] # <<>> /\ bucket'[<<p, s>>] # <<>> =>
        bucket'[<<p, s>>][1].tokens
          >= Least(bucket[<<p, s>>][1].tokens, bucket'[<<p, s>>][1].cap)

\* What is kept for SAEs is bounded by their activity: after a request, no bucket is
\* left of an SAE silent for two windows, and none that eviction cannot find.
SilentForgotten ==
  outcome' # <<>> => \A k \in Key : bucket'[k] # <<>> =>
    lastRequest'[k] # Never /\ now - lastRequest'[k] < 2 * Window
=============================================================================
