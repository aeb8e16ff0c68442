------------------------- MODULE SessionKeysProofs -------------------------
(***************************************************************************)
(* Proofs about SessionKeys, for any DKMSs, SAEs, requests and calls.      *)
(***************************************************************************)
EXTENDS SessionKeys, FiniteSetTheorems, TLAPS

\* Most leaves are first-order; the few that need arithmetic or records cite SMT.
USE Zenon

-----------------------------------------------------------------------------
(* The inductive invariant.                                                *)

\* An envelope goes to a peer of its request, once the request sends, and with keys
\* of the request.
EnvelopeInv ==
    \A r \in Request : \A p \in Node :
        /\ envelope[r][p].toOpen \subseteq KeysOf[r]
        /\ envelope[r][p].pc # "none" => p \in Peers(r)
        /\ pc[r] \in {"idle", "insert", "prepare"} => envelope[r][p].pc = "none"

\* Nobody inserts an entry that was there before: its key is neither to be opened nor
\* to be inserted any more.
StoredInv ==
    \A r \in Request : \A k \in KeysOf[r] :
        /\ \A p \in Node \ {At(r)} : <<p, k>> \in stored =>
              envelope[r][p].pc # "none" /\ k \notin envelope[r][p].toOpen
        /\ <<At(r), k>> \in stored =>
              pc[r] # "idle" /\ (pc[r] = "insert" => k \notin left[r])

\* An entry being counted out has left, and does not come back.
CountedOutInv ==
    /\ IsFiniteSet(held) /\ IsFiniteSet(uncounted)
    /\ uncounted \subseteq stored /\ uncounted \cap held = {}

\* An entry that a thread is about to remove has been there, and is not wanted.
DoomedInv ==
    /\ doomed \subseteq stored
    /\ \A e \in doomed \cap held : e \in expired \/ ~ Wanted(e)

\* An SAE is marked in an entry that is there.
RetrievedInv == \A sk \in retrieved : <<Home[sk[1]], sk[2]>> \in held

\* What a call has taken was for its SAE, is marked as long as the entry is there, and
\* is in no other call of the SAE.
CallInv ==
    \A d \in Call :
        /\ call[d] = NoCall \/ call[d].sae \in Sae
        /\ \A k \in call[d].got :
              /\ <<call[d].sae, k>> \in Intended
              /\ <<Home[call[d].sae], k>> \in stored
              /\ <<Home[call[d].sae], k>> \in held => <<call[d].sae, k>> \in retrieved
              /\ \A c \in Call : c # d /\ call[c].sae = call[d].sae => k \notin call[c].got

\* What a request keeps charged, and what it has retracted.
ChargeInv ==
    \A r \in Request :
        /\ pc[r] \in {"idle", "insert", "prepare"} => \A p \in Node : result[r][p] = "none"
        /\ pc[r] \in {"insert", "prepare", "await", "granted"} => charged[r] = Peers(r)
        /\ pc[r] \in {"retract", "failed"} =>
              charged[r] = {p \in Peers(r) : result[r][p] = "ok"}

\* What a request that failed has retracted is gone.
RetractInv ==
    \A r \in Request :
        /\ pc[r] = "retract" => \A k \in KeysOf[r] \ left[r] : <<At(r), k>> \notin held
        /\ pc[r] = "failed" => \A k \in KeysOf[r] : <<At(r), k>> \notin held

IInv ==
    /\ TypeOK /\ EnvelopeInv /\ StoredInv /\ CountedOutInv /\ OriginAccounted
    /\ DoomedInv /\ RetrievedInv /\ CallInv /\ ChargeInv /\ RetractInv

-----------------------------------------------------------------------------
(* Facts about the constants and about the steps.                          *)

\* A key belongs to one request, and its origin is the DKMS of that request's master.
LEMMA KeyFacts ==
    /\ \A k \in Key : /\ RequestOf(k) \in Request /\ k \in KeysOf[RequestOf(k)]
                      /\ Origin(k) \in Node
    /\ \A r \in Request : /\ At(r) \in Node
                          /\ Peers(r) \subseteq Node \ {At(r)}
                          /\ KeysOf[r] \subseteq Key
    /\ \A r \in Request : \A k \in KeysOf[r] : RequestOf(k) = r /\ Origin(k) = At(r)
<1>1. \A k \in Key : RequestOf(k) \in Request /\ k \in KeysOf[RequestOf(k)]
  BY FreshKeysAssumption DEF RequestOf
<1>2. \A r \in Request : \A k \in KeysOf[r] : RequestOf(k) = r
  BY <1>1, FreshKeysAssumption, RequestAssumption
<1>3. \A r \in Request : At(r) \in Node /\ KeysOf[r] \subseteq Key
  BY HomeAssumption, RequestAssumption DEF At
<1>4. \A r \in Request : Peers(r) \subseteq Node \ {At(r)}
  BY HomeAssumption, RequestAssumption DEF Peers
<1>5. \A k \in Key : Origin(k) = At(RequestOf(k))
  BY DEF Origin, At
<1>6. QED
  BY <1>1, <1>2, <1>3, <1>4, <1>5

\* The state the DKMSs start in satisfies the inductive invariant.
LEMMA InitCorrect == Init => IInv
<1> SUFFICES ASSUME Init PROVE IInv
  OBVIOUS
<1>1. TypeOK
  BY DEF Init, TypeOK, Ended, NoEnvelope, EnvelopePc, NoCall
<1>2. EnvelopeInv /\ StoredInv
  BY DEF Init, EnvelopeInv, StoredInv, NoEnvelope
<1>3. CountedOutInv
  BY FS_EmptySet DEF Init, CountedOutInv
<1>4. OriginAccounted
  <2>1. Cardinality({}) = 0
    BY FS_EmptySet
  <2>2. \A n, o \in Node : {e \in held \cup uncounted : e[1] = n /\ Origin(e[2]) = o} = {}
    BY DEF Init
  <2>3. \A n, o \in Node : perOrigin[n][o] = 0
    BY DEF Init
  <2>4. QED
    BY <2>1, <2>2, <2>3, MaxPendingAssumption, SMT DEF OriginAccounted
<1>5. DoomedInv /\ RetrievedInv
  BY DEF Init, DoomedInv, RetrievedInv
<1>6. CallInv
  BY DEF Init, CallInv, NoCall
<1>7. ChargeInv /\ RetractInv
  BY DEF Init, ChargeInv, RetractInv
<1>8. QED
  BY <1>1, <1>2, <1>3, <1>4, <1>5, <1>6, <1>7 DEF IInv

\* The steps that change the stores.
LEMMA StoreSteps ==
    ASSUME [Next]_vars
    PROVE  \/ UNCHANGED store
           \/ \E n \in Node, k \in Key : RemoveEntry(n, k) \/ NoteRemoved(n, k) \/ Expire(n, k)
           \/ \E n \in Node : SweepExpired(n) \/ Restart(n)
           \/ \E r \in Request : \E k \in KeysOf[r] : InsertLocal(r, k) \/ Retract(r, k)
           \/ \E r \in Request, p \in Node : \E k \in KeysOf[r] : OpenSame(r, p, k)
           \/ \E d \in Call, k \in Key : Take(d, k) \/ TakeFails(d, k)
<1>1. CASE PendingNext
  BY <1>1 DEF PendingNext
<1>2. CASE EncKeysNext
  BY <1>2 DEF EncKeysNext, EncKeys, Send, PrepareFails, Decide, HangUp, SendAnswered, SendTimesOut
<1>3. CASE ExtKeysNext
  BY <1>3, SMT DEF ExtKeysNext, Receive, Lose, OpenOther, OpenFails
<1>4. CASE DecKeysNext
  BY <1>4 DEF DecKeysNext, DecKeys, Answer
<1>5. CASE UNCHANGED vars
  BY <1>5 DEF vars
<1>6. QED
  BY <1>1, <1>2, <1>3, <1>4, <1>5 DEF Next

\* The steps that change where a request is.
LEMMA RequestSteps ==
    ASSUME [Next]_vars
    PROVE  \/ UNCHANGED request
           \/ \E r \in Request : EncKeys(r) \/ Send(r) \/ PrepareFails(r) \/ Decide(r) \/ HangUp(r)
           \/ \E r \in Request : \E k \in KeysOf[r] : InsertLocal(r, k) \/ Retract(r, k)
           \/ \E r \in Request, p \in Node : SendAnswered(r, p) \/ SendTimesOut(r, p)
           \/ \E n \in Node : Restart(n)
<1>1. CASE PendingNext
  BY <1>1 DEF PendingNext, RemoveEntry, NoteRemoved, Expire, SweepExpired
<1>2. CASE EncKeysNext
  BY <1>2 DEF EncKeysNext
<1>3. CASE ExtKeysNext
  BY <1>3, SMT DEF ExtKeysNext, Receive, Lose, OpenSame, OpenOther, OpenFails
<1>4. CASE DecKeysNext
  BY <1>4 DEF DecKeysNext, DecKeys, Take, TakeFails, Answer
<1>5. CASE UNCHANGED vars
  BY <1>5 DEF vars
<1>6. QED
  BY <1>1, <1>2, <1>3, <1>4, <1>5 DEF Next

\* The steps that change an envelope.
LEMMA EnvelopeSteps ==
    ASSUME [Next]_vars
    PROVE  \/ UNCHANGED envelope
           \/ \E r \in Request : Send(r)
           \/ \E r \in Request, p \in Node :
                 \/ Receive(r, p) \/ Lose(r, p)
                 \/ \E k \in KeysOf[r] : OpenSame(r, p, k) \/ OpenOther(r, p, k) \/ OpenFails(r, p, k)
           \/ \E n \in Node : Restart(n)
<1>1. CASE PendingNext
  BY <1>1 DEF PendingNext, RemoveEntry, NoteRemoved, Expire, SweepExpired
<1>2. CASE EncKeysNext
  BY <1>2, ZenonT(60) DEF EncKeysNext, EncKeys, PrepareFails, Decide, HangUp, InsertLocal, Retract,
              SendAnswered, SendTimesOut
<1>3. CASE ExtKeysNext
  BY <1>3 DEF ExtKeysNext
<1>4. CASE DecKeysNext
  BY <1>4 DEF DecKeysNext, DecKeys, Take, TakeFails, Answer
<1>5. CASE UNCHANGED vars
  BY <1>5 DEF vars
<1>6. QED
  BY <1>1, <1>2, <1>3, <1>4, <1>5 DEF Next

\* The steps that change a call or hand keys over.
LEMMA CallSteps ==
    ASSUME [Next]_vars
    PROVE  \/ UNCHANGED <<call, given>>
           \/ \E d \in Call : \E s \in Sae, m \in {Master[r] : r \in Request}, ids \in SUBSET Key :
                 DecKeys(d, s, m, ids)
           \/ \E d \in Call, k \in Key : Take(d, k) \/ TakeFails(d, k)
           \/ \E d \in Call : Answer(d)
           \/ \E n \in Node : Restart(n)
<1>1. CASE PendingNext
  BY <1>1 DEF PendingNext, RemoveEntry, NoteRemoved, Expire, SweepExpired
<1>2. CASE EncKeysNext
  BY <1>2, ZenonT(60) DEF EncKeysNext, EncKeys, Send, PrepareFails, Decide, HangUp, InsertLocal, Retract,
              SendAnswered, SendTimesOut
<1>3. CASE ExtKeysNext
  BY <1>3, SMT DEF ExtKeysNext, Receive, Lose, OpenSame, OpenOther, OpenFails
<1>4. CASE DecKeysNext
  BY <1>4 DEF DecKeysNext
<1>5. CASE UNCHANGED vars
  BY <1>5 DEF vars
<1>6. QED
  BY <1>1, <1>2, <1>3, <1>4, <1>5 DEF Next

-----------------------------------------------------------------------------
(* Type correctness.                                                       *)

\* TypeOK in four parts: the stores, the requests, the envelopes, the calls.
StoreType ==
    /\ held \subseteq Node \X Key /\ expired \subseteq held
    /\ doomed \subseteq Node \X Key /\ uncounted \subseteq Node \X Key
    /\ held \subseteq stored /\ stored \subseteq Node \X Key
    /\ retrieved \subseteq Sae \X Key
    /\ perOrigin \in [Node -> [Node -> Nat]]

RequestType ==
    /\ pc \in [Request -> Ended \cup {"insert", "prepare", "await", "retract"}]
    /\ left \in [Request -> SUBSET Key]
    /\ charged \in [Request -> SUBSET Node]
    /\ result \in [Request -> [Node -> {"none", "ok", "failed"}]]

Envelope == [pc : EnvelopePc, toOpen : SUBSET Key, acked : SUBSET Key]

CallType ==
    /\ call \in [Call -> [sae : Sae \cup {"none"}, master : Sae \cup {"none"},
                          ask : SUBSET Key, got : SUBSET Key]]
    /\ given \in [Sae -> [Key -> Nat]]

\* TypeOK is its four parts, in this state
LEMMA TypeParts ==
    TypeOK <=> StoreType /\ RequestType /\ envelope \in [Request -> [Node -> Envelope]] /\ CallType
BY DEF TypeOK, StoreType, RequestType, Envelope, CallType

\* and in the next.
LEMMA TypePartsNext ==
    TypeOK' <=> StoreType' /\ RequestType' /\ envelope' \in [Request -> [Node -> Envelope]] /\ CallType'
BY DEF TypeOK, StoreType, RequestType, Envelope, CallType

\* Every step of the PendingStores keeps their types.
LEMMA StoreTypeStep ==
    ASSUME TypeOK, CallInv, [Next]_vars
    PROVE  StoreType'
<1> USE TypeParts DEF StoreType
<1>1. CASE UNCHANGED store
  BY <1>1 DEF store
<1>2. ASSUME NEW n \in Node, NEW k \in Key, RemoveEntry(n, k)
      PROVE  StoreType'
  BY <1>2 DEF RemoveEntry, Forget
<1>3. ASSUME NEW n \in Node, NEW k \in Key, NoteRemoved(n, k)
      PROVE  StoreType'
  <2>1. perOrigin' \in [Node -> [Node -> Nat]]
    BY <1>3, KeyFacts, SMT DEF NoteRemoved
  <2>2. QED
    BY <1>3, <2>1 DEF NoteRemoved
<1>4. ASSUME NEW n \in Node, NEW k \in Key, Expire(n, k)
      PROVE  StoreType'
  BY <1>4 DEF Expire
<1>5. ASSUME NEW n \in Node, SweepExpired(n)
      PROVE  StoreType'
  BY <1>5 DEF SweepExpired
<1>6. ASSUME NEW n \in Node, Restart(n)
      PROVE  StoreType'
  <2>1. perOrigin' \in [Node -> [Node -> Nat]]
    BY <1>6 DEF Restart
  <2>2. QED
    BY <1>6, <2>1 DEF Restart
<1>7. ASSUME NEW r \in Request, NEW k \in KeysOf[r], InsertLocal(r, k)
      PROVE  StoreType'
  BY <1>7, KeyFacts, SMT DEF InsertLocal
<1>8. ASSUME NEW r \in Request, NEW k \in KeysOf[r], Retract(r, k)
      PROVE  StoreType'
  BY <1>8 DEF Retract, Forget
<1>9. ASSUME NEW r \in Request, NEW p \in Node, NEW k \in KeysOf[r], OpenSame(r, p, k)
      PROVE  StoreType'
  <2>1. CASE UNCHANGED store
    BY <2>1 DEF store
  <2>2. CASE ~ UNCHANGED store
    <3>1. /\ held' = held \cup {<<p, k>>} /\ stored' = stored \cup {<<p, k>>}
          /\ perOrigin' = [perOrigin EXCEPT ![p][At(r)] = @ + 1]
          /\ UNCHANGED <<expired, retrieved, doomed, uncounted>>
      BY <1>9, <2>2 DEF OpenSame, InsertFromPeer
    <3>2. perOrigin' \in [Node -> [Node -> Nat]]
      BY <3>1, KeyFacts, SMT
    <3>3. QED
      BY <3>1, <3>2, KeyFacts, SMT
  <2>3. QED
    BY <2>1, <2>2
<1>10. ASSUME NEW d \in Call, NEW k \in Key, Take(d, k)
       PROVE  StoreType'
  <2>1. call[d].sae \in Sae
    BY <1>10, RequestAssumption, KeyFacts DEF Take, Servable, Authorized
  <2>2. QED
    BY <1>10, <2>1, HomeAssumption, SMT DEF Take
<1>11. ASSUME NEW d \in Call, NEW k \in Key, TakeFails(d, k)
       PROVE  StoreType'
  BY <1>11 DEF TakeFails
<1>12. QED
  BY <1>1, <1>2, <1>3, <1>4, <1>5, <1>6, <1>7, <1>8, <1>9, <1>10, <1>11, StoreSteps

\* Every step of handle_enc_keys keeps the types of the request.
LEMMA RequestTypeStep ==
    ASSUME TypeOK, [Next]_vars
    PROVE  RequestType'
<1> USE TypeParts DEF RequestType, Ended
<1>1. CASE UNCHANGED request
  BY <1>1 DEF request
<1>2. ASSUME NEW r \in Request, EncKeys(r) \/ Send(r) \/ PrepareFails(r) \/ Decide(r) \/ HangUp(r)
      PROVE  RequestType'
  <2>1. CASE EncKeys(r)
    BY <2>1, KeyFacts DEF EncKeys
  <2>2. CASE Send(r)
    BY <2>2 DEF Send
  <2>3. CASE PrepareFails(r)
    BY <2>3, KeyFacts DEF PrepareFails
  <2>4. CASE Decide(r)
    <3>1. pc' \in [Request -> Ended \cup {"insert", "prepare", "await", "retract"}]
      BY <2>4 DEF Decide
    <3>2. left' \in [Request -> SUBSET Key]
      BY <2>4, KeyFacts DEF Decide
    <3>3. charged' \in [Request -> SUBSET Node] /\ UNCHANGED result
      BY <2>4 DEF Decide
    <3>4. QED
      BY <3>1, <3>2, <3>3
  <2>5. CASE HangUp(r)
    BY <2>5 DEF HangUp
  <2>6. QED
    BY <1>2, <2>1, <2>2, <2>3, <2>4, <2>5
<1>3. ASSUME NEW r \in Request, NEW k \in KeysOf[r], InsertLocal(r, k) \/ Retract(r, k)
      PROVE  RequestType'
  BY <1>3, ZenonT(60) DEF InsertLocal, Retract
<1>4. ASSUME NEW r \in Request, NEW p \in Node, SendAnswered(r, p) \/ SendTimesOut(r, p)
      PROVE  RequestType'
  <2>1. result' \in [Request -> [Node -> {"none", "ok", "failed"}]]
    <3>1. CASE SendAnswered(r, p)
      BY <3>1 DEF SendAnswered
    <3>2. CASE SendTimesOut(r, p)
      BY <3>2 DEF SendTimesOut
    <3>3. QED
      BY <1>4, <3>1, <3>2
  <2>2. UNCHANGED <<pc, left, charged>>
    BY <1>4 DEF SendAnswered, SendTimesOut
  <2>3. QED
    BY <2>1, <2>2
<1>5. ASSUME NEW n \in Node, Restart(n)
      PROVE  RequestType'
  BY <1>5 DEF Restart
<1>6. QED
  BY <1>1, <1>2, <1>3, <1>4, <1>5, RequestSteps

\* An envelope with another pc, and perhaps other keys to open.
LEMMA EnvelopeWith ==
    ASSUME NEW v \in Envelope, NEW c \in EnvelopePc, NEW ks \in SUBSET Key
    PROVE  /\ [v EXCEPT !.pc = c] \in Envelope
           /\ [v EXCEPT !.pc = c, !.toOpen = ks] \in Envelope
BY DEF Envelope

\* Every step of handle_incoming_ext_keys keeps the type of the envelope.
LEMMA EnvelopeTypeStep ==
    ASSUME TypeOK, [Next]_vars
    PROVE  envelope' \in [Request -> [Node -> Envelope]]
<1> USE TypeParts
<1>1. ASSUME NEW r \in Request, Send(r)
      PROVE  envelope' \in [Request -> [Node -> Envelope]]
  <2> DEFINE row == [p \in Node |->
                       IF p \in Peers(r)
                         THEN [pc |-> "sent", toOpen |-> KeysOf[r], acked |-> {}]
                         ELSE NoEnvelope]
  <2>1. row \in [Node -> Envelope]
    BY KeyFacts DEF Envelope, EnvelopePc, NoEnvelope
  <2>2. envelope' = [envelope EXCEPT ![r] = row]
    BY <1>1 DEF Send
  <2>3. QED
    BY <2>1, <2>2
<1>2. ASSUME NEW r \in Request, NEW p \in Node, NEW v \in Envelope,
             envelope' = [envelope EXCEPT ![r][p] = v]
      PROVE  envelope' \in [Request -> [Node -> Envelope]]
  BY <1>2
<1>3. ASSUME NEW r \in Request, NEW p \in Node, Receive(r, p) \/ Lose(r, p)
      PROVE  envelope' \in [Request -> [Node -> Envelope]]
  <2>1. PICK c \in {"open", "lost"} : envelope' = [envelope EXCEPT ![r][p].pc = c]
    BY <1>3 DEF Receive, Lose
  <2>2. [envelope[r][p] EXCEPT !.pc = c] \in Envelope
    BY EnvelopeWith DEF EnvelopePc
  <2>3. QED
    BY <1>2, <2>1, <2>2
<1>4. ASSUME NEW r \in Request, NEW p \in Node, NEW k \in KeysOf[r], NEW ack \in SUBSET {k},
             Opened(r, p, k, ack)
      PROVE  envelope' \in [Request -> [Node -> Envelope]]
  <2> DEFINE v == [pc |-> IF envelope[r][p].toOpen = {k} THEN "acked" ELSE "open",
                   toOpen |-> envelope[r][p].toOpen \ {k},
                   acked |-> envelope[r][p].acked \cup ack]
  <2>1. v \in Envelope
    <3>1. envelope[r][p] \in Envelope /\ ack \in SUBSET Key
      BY KeyFacts, SMT
    <3>2. QED
      BY <3>1 DEF Envelope, EnvelopePc
  <2>2. envelope' = [envelope EXCEPT ![r][p] = v]
    BY <1>4 DEF Opened
  <2>3. QED
    BY <1>2, <2>1, <2>2
<1>5. ASSUME NEW r \in Request, NEW p \in Node, NEW k \in KeysOf[r], OpenFails(r, p, k)
      PROVE  envelope' \in [Request -> [Node -> Envelope]]
  <2>1. [envelope[r][p] EXCEPT !.pc = "rejected", !.toOpen = {}] \in Envelope
    BY EnvelopeWith, ZenonT(60) DEF EnvelopePc
  <2>2. envelope' = [envelope EXCEPT ![r][p] = [@ EXCEPT !.pc = "rejected", !.toOpen = {}]]
    BY <1>5 DEF OpenFails
  <2>3. QED
    BY <1>2, <2>1, <2>2
<1>6. ASSUME NEW n \in Node, Restart(n)
      PROVE  envelope' \in [Request -> [Node -> Envelope]]
  <2>1. ASSUME NEW r \in Request
        PROVE  [envelope[r] EXCEPT ![n].pc = IF @ = "open" THEN "lost" ELSE @] \in [Node -> Envelope]
    <3>1. \A c \in EnvelopePc : [envelope[r][n] EXCEPT !.pc = c] \in Envelope
      BY EnvelopeWith
    <3>2. envelope[r][n].pc \in EnvelopePc
      BY DEF Envelope
    <3>3. QED
      BY <3>1, <3>2 DEF EnvelopePc
  <2>2. QED
    BY <1>6, <2>1 DEF Restart
<1>7. ASSUME NEW r \in Request, NEW p \in Node, NEW k \in KeysOf[r],
             OpenSame(r, p, k) \/ OpenOther(r, p, k)
      PROVE  envelope' \in [Request -> [Node -> Envelope]]
  <2>1. Opened(r, p, k, {}) \/ Opened(r, p, k, {k})
    BY <1>7 DEF OpenSame, InsertFromPeer, OpenOther
  <2>2. QED
    BY <1>4, <2>1
<1>8. CASE UNCHANGED envelope
  BY <1>8
<1>9. QED
  BY <1>1, <1>3, <1>5, <1>6, <1>7, <1>8, EnvelopeSteps

\* Every step of handle_dec_keys keeps the types of the call.
LEMMA CallTypeStep ==
    ASSUME TypeOK, CallInv, [Next]_vars
    PROVE  CallType'
<1> DEFINE C == [sae : Sae \cup {"none"}, master : Sae \cup {"none"},
                 ask : SUBSET Key, got : SUBSET Key]
<1> USE TypeParts DEF CallType
<1>1. NoCall \in C
  BY DEF NoCall
<1>2. CASE UNCHANGED <<call, given>>
  BY <1>2
<1>3. ASSUME NEW d \in Call, NEW s \in Sae, NEW m \in {Master[r] : r \in Request},
             NEW ids \in SUBSET Key, DecKeys(d, s, m, ids)
      PROVE  CallType'
  <2>1. [sae |-> s, master |-> m, ask |-> ids, got |-> {}] \in C
    BY RequestAssumption
  <2>2. QED
    BY <1>3, <2>1 DEF DecKeys
<1>4. ASSUME NEW d \in Call, NEW k \in Key, Take(d, k)
      PROVE  CallType'
  <2>1. call' = [call EXCEPT ![d].ask = @ \ {k}, ![d].got = @ \cup {k}] /\ UNCHANGED given
    BY <1>4 DEF Take
  <2>2. \A v \in C : \A ask, got \in SUBSET Key : [v EXCEPT !.ask = ask, !.got = got] \in C
    OBVIOUS
  <2>3. call[d] \in C /\ call[d].ask \ {k} \in SUBSET Key /\ call[d].got \cup {k} \in SUBSET Key
    OBVIOUS
  <2>4. [call[d] EXCEPT !.ask = call[d].ask \ {k}, !.got = call[d].got \cup {k}] \in C
    BY <2>2, <2>3
  <2>5. QED
    BY <2>1, <2>4
<1>5. ASSUME NEW d \in Call, NEW k \in Key, TakeFails(d, k)
      PROVE  CallType'
  BY <1>1, <1>5 DEF TakeFails
<1>6. ASSUME NEW d \in Call, Answer(d)
      PROVE  CallType'
  <2>1. call[d].sae \in Sae
    BY <1>6 DEF Answer, CallInv
  <2>2. given' \in [Sae -> [Key -> Nat]]
    BY <1>6, <2>1, SMT DEF Answer
  <2>3. call' \in [Call -> C]
    BY <1>1, <1>6 DEF Answer
  <2>4. QED
    BY <2>2, <2>3
<1>7. ASSUME NEW n \in Node, Restart(n)
      PROVE  CallType'
  BY <1>1, <1>7 DEF Restart
<1>8. QED
  BY <1>2, <1>3, <1>4, <1>5, <1>6, <1>7, CallSteps

\* Every step keeps the types.
LEMMA TypeStep ==
    ASSUME TypeOK, CallInv, [Next]_vars
    PROVE  TypeOK'
BY StoreTypeStep, RequestTypeStep, EnvelopeTypeStep, CallTypeStep, TypePartsNext

-----------------------------------------------------------------------------
(* Entries are inserted once.                                              *)

\* Where a request is before it sends.
Early == {"idle", "insert", "prepare"}

\* A request goes forward, and while it inserts it has fewer and fewer keys to insert.
LEMMA RequestMoves ==
    ASSUME TypeOK, [Next]_vars, NEW q \in Request
    PROVE  /\ pc'[q] \in Early => pc[q] \in Early
           /\ pc'[q] = "idle" => pc[q] = "idle"
           /\ pc'[q] = "insert" /\ pc[q] # "idle" => pc[q] = "insert" /\ left'[q] \subseteq left[q]
<1> DEFINE Forward ==
             /\ pc'[q] \in Early => pc[q] \in Early
             /\ pc'[q] = "idle" => pc[q] = "idle"
             /\ pc'[q] = "insert" /\ pc[q] # "idle" => pc[q] = "insert" /\ left'[q] \subseteq left[q]
<1> USE TypeParts DEF RequestType, Early
<1>1. CASE UNCHANGED request
  BY <1>1 DEF request
<1>2. ASSUME NEW r \in Request, EncKeys(r) \/ Send(r) \/ PrepareFails(r) \/ Decide(r) \/ HangUp(r)
      PROVE  Forward
  <2>1. CASE EncKeys(r)
    BY <2>1 DEF EncKeys
  <2>2. CASE Send(r)
    BY <2>2 DEF Send
  <2>3. CASE PrepareFails(r)
    BY <2>3 DEF PrepareFails
  <2>4. CASE Decide(r)
    BY <2>4 DEF Decide
  <2>5. CASE HangUp(r)
    BY <2>5 DEF HangUp
  <2>6. QED
    BY <1>2, <2>1, <2>2, <2>3, <2>4, <2>5
<1>3. ASSUME NEW r \in Request, NEW k \in KeysOf[r], InsertLocal(r, k) \/ Retract(r, k)
      PROVE  Forward
  <2>1. CASE InsertLocal(r, k)
    BY <2>1 DEF InsertLocal
  <2>2. CASE Retract(r, k)
    BY <2>2 DEF Retract
  <2>3. QED
    BY <1>3, <2>1, <2>2
<1>4. ASSUME NEW r \in Request, NEW p \in Node, SendAnswered(r, p) \/ SendTimesOut(r, p)
      PROVE  Forward
  BY <1>4 DEF SendAnswered, SendTimesOut
<1>5. ASSUME NEW n \in Node, Restart(n)
      PROVE  Forward
  BY <1>5 DEF Restart
<1>6. QED
  BY <1>1, <1>2, <1>3, <1>4, <1>5, RequestSteps

\* But for the step that sends it, an envelope never has more keys to open than before.
LEMMA EnvelopeShrinks ==
    ASSUME TypeOK, [Next]_vars, NEW q \in Request, NEW n \in Node, \A r \in Request : ~ Send(r)
    PROVE  /\ envelope'[q][n].toOpen \subseteq envelope[q][n].toOpen
           /\ envelope'[q][n].pc = "none" <=> envelope[q][n].pc = "none"
<1> DEFINE Shrinks ==
             /\ envelope'[q][n].toOpen \subseteq envelope[q][n].toOpen
             /\ envelope'[q][n].pc = "none" <=> envelope[q][n].pc = "none"
<1>0. envelope \in [Request -> [Node -> Envelope]]
  BY TypeParts
<1>1. CASE UNCHANGED envelope
  BY <1>1
<1>2. ASSUME NEW r \in Request, NEW p \in Node, Receive(r, p) \/ Lose(r, p)
      PROVE  Shrinks
  <2>1. CASE Receive(r, p)
    BY <1>0, <2>1, SMT DEF Receive, Envelope
  <2>2. CASE Lose(r, p)
    BY <1>0, <2>2, SMT DEF Lose, Envelope
  <2>3. QED
    BY <1>2, <2>1, <2>2
<1>3. ASSUME NEW r \in Request, NEW p \in Node, NEW k \in KeysOf[r],
             OpenSame(r, p, k) \/ OpenOther(r, p, k)
      PROVE  Shrinks
  <2>1. PICK ack \in SUBSET {k} : Opened(r, p, k, ack) /\ envelope[r][p].pc = "open"
    <3>1. (Opened(r, p, k, {}) \/ Opened(r, p, k, {k})) /\ envelope[r][p].pc = "open"
      BY <1>3 DEF OpenSame, InsertFromPeer, OpenOther, Opening
    <3>2. QED
      BY <3>1
  <2>2. QED
    BY <1>0, <2>1 DEF Opened, Envelope
<1>4. ASSUME NEW r \in Request, NEW p \in Node, NEW k \in KeysOf[r], OpenFails(r, p, k)
      PROVE  Shrinks
  BY <1>0, <1>4, SMT DEF OpenFails, Opening, Envelope
<1>5. ASSUME NEW m \in Node, Restart(m)
      PROVE  Shrinks
  BY <1>0, <1>5, SMT DEF Restart, Envelope
<1>6. QED
  BY <1>1, <1>2, <1>3, <1>4, <1>5, EnvelopeSteps

\* What Send does to the envelopes.
LEMMA SendEffect ==
    ASSUME TypeOK, NEW r \in Request, Send(r), NEW q \in Request, NEW n \in Node
    PROVE  /\ pc[r] = "prepare" /\ pc'[r] = "await" /\ UNCHANGED <<left, stored>>
           /\ q # r => envelope'[q][n] = envelope[q][n] /\ pc'[q] = pc[q]
           /\ q = r => /\ envelope'[q][n].toOpen \subseteq KeysOf[q]
                       /\ envelope'[q][n].pc # "none" => n \in Peers(q)
<1>1. /\ envelope \in [Request -> [Node -> Envelope]]
      /\ pc \in [Request -> Ended \cup {"insert", "prepare", "await", "retract"}]
  BY TypeParts DEF RequestType
<1>2. envelope'[r] = [p \in Node |->
                       IF p \in Peers(r)
                         THEN [pc |-> "sent", toOpen |-> KeysOf[r], acked |-> {}]
                         ELSE NoEnvelope]
  BY <1>1 DEF Send
<1>3. QED
  BY <1>1, <1>2 DEF Send, NoEnvelope, store

\* Envelopes stay within their request and its peers.
LEMMA EnvelopeInvStep ==
    ASSUME TypeOK, EnvelopeInv, [Next]_vars
    PROVE  EnvelopeInv'
<1> SUFFICES ASSUME NEW q \in Request, NEW n \in Node
             PROVE  /\ envelope'[q][n].toOpen \subseteq KeysOf[q]
                    /\ envelope'[q][n].pc # "none" => n \in Peers(q)
                    /\ pc'[q] \in Early => envelope'[q][n].pc = "none"
  BY DEF EnvelopeInv, Early, Peers, At
<1>1. /\ envelope[q][n].toOpen \subseteq KeysOf[q]
      /\ envelope[q][n].pc # "none" => n \in Peers(q)
      /\ pc[q] \in Early => envelope[q][n].pc = "none"
  BY DEF EnvelopeInv, Early
<1>2. CASE \A r \in Request : ~ Send(r)
  BY <1>1, <1>2, EnvelopeShrinks, RequestMoves
<1>3. ASSUME NEW r \in Request, Send(r)
      PROVE  /\ envelope'[q][n].toOpen \subseteq KeysOf[q]
             /\ envelope'[q][n].pc # "none" => n \in Peers(q)
             /\ pc'[q] \in Early => envelope'[q][n].pc = "none"
  BY <1>1, <1>3, SendEffect DEF Early
<1>4. QED
  BY <1>2, <1>3

\* An entry comes into a store by one of two steps, which found it expected.
LEMMA StoredSteps ==
    ASSUME [Next]_vars, UNCHANGED stored => FALSE
    PROVE  \E r \in Request : \E k \in KeysOf[r] :
              \/ InsertLocal(r, k) /\ stored' = stored \cup {<<At(r), k>>}
              \/ \E p \in Node : OpenSame(r, p, k) /\ stored' = stored \cup {<<p, k>>}
<1>1. CASE UNCHANGED store
  BY <1>1 DEF store
<1>2. ASSUME NEW n \in Node, NEW k \in Key, RemoveEntry(n, k) \/ NoteRemoved(n, k) \/ Expire(n, k)
      PROVE  FALSE
  BY <1>2 DEF RemoveEntry, NoteRemoved, Expire
<1>3. ASSUME NEW n \in Node, SweepExpired(n) \/ Restart(n)
      PROVE  FALSE
  BY <1>3 DEF SweepExpired, Restart
<1>4. ASSUME NEW d \in Call, NEW k \in Key, Take(d, k) \/ TakeFails(d, k)
      PROVE  FALSE
  BY <1>4 DEF Take, TakeFails
<1>5. ASSUME NEW r \in Request, NEW k \in KeysOf[r], Retract(r, k)
      PROVE  FALSE
  BY <1>5 DEF Retract
<1>6. ASSUME NEW r \in Request, NEW k \in KeysOf[r], InsertLocal(r, k)
      PROVE  stored' = stored \cup {<<At(r), k>>}
  BY <1>6 DEF InsertLocal
<1>7. ASSUME NEW r \in Request, NEW p \in Node, NEW k \in KeysOf[r], OpenSame(r, p, k)
      PROVE  stored' = stored \cup {<<p, k>>}
  BY <1>7 DEF OpenSame, InsertFromPeer, store
<1>8. QED
  BY <1>1, <1>2, <1>3, <1>4, <1>5, <1>6, <1>7, StoreSteps, SMT

\* Both of them find the entry absent, now and at all times before.
LEMMA InsertedAnew ==
    ASSUME EnvelopeInv, StoredInv, NEW r \in Request, NEW k \in KeysOf[r]
    PROVE  /\ InsertLocal(r, k) => <<At(r), k>> \notin stored
           /\ \A p \in Node : OpenSame(r, p, k) =>
                 p \in Peers(r) /\ p # At(r) /\ <<p, k>> \notin stored
<1>1. InsertLocal(r, k) => <<At(r), k>> \notin stored
  BY DEF InsertLocal, StoredInv
<1>2. ASSUME NEW p \in Node, OpenSame(r, p, k)
      PROVE  p \in Peers(r) /\ p # At(r) /\ <<p, k>> \notin stored
  <2>1. envelope[r][p].pc = "open" /\ k \in envelope[r][p].toOpen
    BY <1>2 DEF OpenSame, Opening
  <2>2. p \in Peers(r) /\ p # At(r)
    BY <2>1, KeyFacts DEF EnvelopeInv
  <2>3. QED
    BY <2>1, <2>2 DEF StoredInv
<1>3. QED
  BY <1>1, <1>2

\* What was inserted stays out of what is to be inserted, locally and at the peers.
LEMMA StoredInvStep ==
    ASSUME TypeOK, EnvelopeInv, StoredInv, [Next]_vars
    PROVE  StoredInv'
<1> DEFINE Remote(q, k) ==
             \A p \in Node \ {At(q)} : <<p, k>> \in stored' =>
                envelope'[q][p].pc # "none" /\ k \notin envelope'[q][p].toOpen
           Locally(q, k) ==
             <<At(q), k>> \in stored' => pc'[q] # "idle" /\ (pc'[q] = "insert" => k \notin left'[q])
<1> SUFFICES ASSUME NEW q \in Request, NEW k \in KeysOf[q]
             PROVE  Remote(q, k) /\ Locally(q, k)
  BY DEF StoredInv, At
<1>1. Locally(q, k)
  <2>1. CASE <<At(q), k>> \in stored
    <3>1. pc[q] # "idle" /\ (pc[q] = "insert" => k \notin left[q])
      BY <2>1 DEF StoredInv
    <3>2. QED
      BY <3>1, RequestMoves
  <2>2. CASE <<At(q), k>> \notin stored
    <3>1. SUFFICES ASSUME <<At(q), k>> \in stored'
                   PROVE  pc'[q] # "idle" /\ (pc'[q] = "insert" => k \notin left'[q])
      OBVIOUS
    <3>2. PICK r \in Request : \E l \in KeysOf[r] :
              \/ InsertLocal(r, l) /\ stored' = stored \cup {<<At(r), l>>}
              \/ \E p \in Node : OpenSame(r, p, l) /\ stored' = stored \cup {<<p, l>>}
      BY <2>2, <3>1, StoredSteps
    <3>3. PICK l \in KeysOf[r] :
              \/ InsertLocal(r, l) /\ stored' = stored \cup {<<At(r), l>>}
              \/ \E p \in Node : OpenSame(r, p, l) /\ stored' = stored \cup {<<p, l>>}
      BY <3>2
    <3>4. l = k /\ r = q
      BY <2>2, <3>1, <3>3, KeyFacts, SMT
    <3>5. InsertLocal(q, k)
      BY <2>2, <3>1, <3>3, <3>4, InsertedAnew, SMT
    <3>6. pc \in [Request -> Ended \cup {"insert", "prepare", "await", "retract"}]
          /\ left \in [Request -> SUBSET Key]
      BY TypeParts DEF RequestType
    <3>7. QED
      BY <3>5, <3>6 DEF InsertLocal
  <2>3. QED
    BY <2>1, <2>2
<1>2. ASSUME NEW p \in Node \ {At(q)}, <<p, k>> \in stored'
      PROVE  envelope'[q][p].pc # "none" /\ k \notin envelope'[q][p].toOpen
  <2>1. CASE <<p, k>> \in stored
    <3>1. envelope[q][p].pc # "none" /\ k \notin envelope[q][p].toOpen
      BY <2>1 DEF StoredInv
    <3>2. CASE \A r \in Request : ~ Send(r)
      BY <3>1, <3>2, EnvelopeShrinks
    <3>3. ASSUME NEW r \in Request, Send(r)
          PROVE  envelope'[q][p].pc # "none" /\ k \notin envelope'[q][p].toOpen
      <4>1. pc[q] # "prepare"
        BY <3>1 DEF EnvelopeInv
      <4>2. QED
        BY <3>1, <3>3, <4>1, SendEffect
    <3>4. QED
      BY <3>2, <3>3
  <2>2. CASE <<p, k>> \notin stored
    <3>1. PICK r \in Request : \E l \in KeysOf[r] :
              \/ InsertLocal(r, l) /\ stored' = stored \cup {<<At(r), l>>}
              \/ \E n \in Node : OpenSame(r, n, l) /\ stored' = stored \cup {<<n, l>>}
      BY <1>2, <2>2, StoredSteps
    <3>2. PICK l \in KeysOf[r] :
              \/ InsertLocal(r, l) /\ stored' = stored \cup {<<At(r), l>>}
              \/ \E n \in Node : OpenSame(r, n, l) /\ stored' = stored \cup {<<n, l>>}
      BY <3>1
    <3>3. l = k /\ r = q
      BY <1>2, <2>2, <3>2, KeyFacts, SMT
    <3>4. OpenSame(q, p, k)
      BY <1>2, <2>2, <3>2, <3>3, SMT
    <3>5. envelope[q][p].pc = "open" /\ (Opened(q, p, k, {}) \/ Opened(q, p, k, {k}))
      BY <3>4 DEF OpenSame, Opening, InsertFromPeer
    <3>6. envelope \in [Request -> [Node -> Envelope]]
      BY TypeParts
    <3>7. QED
      BY <3>5, <3>6, SMT DEF Opened, Envelope
  <2>3. QED
    BY <2>1, <2>2
<1>3. QED
  BY <1>1, <1>2

-----------------------------------------------------------------------------
(* The counters of the origins.                                            *)

\* What is being counted out has left the store and cannot be inserted again.
LEMMA CountedOutStep ==
    ASSUME TypeOK, EnvelopeInv, StoredInv, CountedOutInv, [Next]_vars
    PROVE  CountedOutInv'
<1> USE DEF CountedOutInv
<1>0. held \subseteq stored
  BY TypeParts DEF StoreType
<1>1. CASE UNCHANGED store
  BY <1>1 DEF store
<1>2. ASSUME NEW n \in Node, NEW k \in Key, RemoveEntry(n, k)
      PROVE  CountedOutInv'
  <2>1. IsFiniteSet(held')
    BY <1>2, FS_RemoveElement DEF RemoveEntry, Forget
  <2>2. IsFiniteSet(uncounted')
    BY <1>2, FS_AddElement DEF RemoveEntry
  <2>3. uncounted' \subseteq stored' /\ uncounted' \cap held' = {}
    BY <1>0, <1>2 DEF RemoveEntry, Forget
  <2>4. QED
    BY <2>1, <2>2, <2>3
<1>3. ASSUME NEW n \in Node, NEW k \in Key, NoteRemoved(n, k)
      PROVE  CountedOutInv'
  BY <1>3, FS_RemoveElement DEF NoteRemoved
<1>4. ASSUME NEW n \in Node, NEW k \in Key, Expire(n, k)
      PROVE  CountedOutInv'
  BY <1>4 DEF Expire
<1>5. ASSUME NEW n \in Node, SweepExpired(n)
      PROVE  CountedOutInv'
  BY <1>5 DEF SweepExpired
<1>6. ASSUME NEW n \in Node, Restart(n)
      PROVE  CountedOutInv'
  <2>1. held' \in SUBSET held /\ uncounted' \in SUBSET uncounted /\ UNCHANGED stored
    BY <1>6 DEF Restart
  <2>2. IsFiniteSet(held') /\ IsFiniteSet(uncounted')
    BY <2>1, FS_Subset
  <2>3. QED
    BY <2>1, <2>2
<1>7. ASSUME NEW r \in Request, NEW k \in KeysOf[r], InsertLocal(r, k)
      PROVE  CountedOutInv'
  BY <1>7, InsertedAnew, FS_AddElement DEF InsertLocal
<1>8. ASSUME NEW r \in Request, NEW k \in KeysOf[r], Retract(r, k)
      PROVE  CountedOutInv'
  BY <1>8, FS_RemoveElement DEF Retract, Forget
<1>9. ASSUME NEW r \in Request, NEW p \in Node, NEW k \in KeysOf[r], OpenSame(r, p, k)
      PROVE  CountedOutInv'
  <2>1. CASE ~ UNCHANGED store
    <3>1. /\ held' = held \cup {<<p, k>>} /\ stored' = stored \cup {<<p, k>>}
          /\ UNCHANGED uncounted /\ <<p, k>> \notin stored
      BY <1>9, <2>1, InsertedAnew DEF OpenSame, InsertFromPeer
    <3>2. QED
      BY <3>1, FS_AddElement
  <2>2. QED
    BY <1>1, <2>1
<1>10. ASSUME NEW d \in Call, NEW k \in Key, Take(d, k) \/ TakeFails(d, k)
       PROVE  CountedOutInv'
  BY <1>10 DEF Take, TakeFails
<1>11. QED
  BY <1>1, <1>2, <1>3, <1>4, <1>5, <1>6, <1>7, <1>8, <1>9, <1>10, StoreSteps

Counted(n, o) == {e \in held \cup uncounted : e[1] = n /\ Origin(e[2]) = o}
CountIs(n, o) == perOrigin[n][o] = Cardinality(Counted(n, o)) /\ perOrigin[n][o] <= MaxPending

\* Each step changes per_origin by what it changes the entries counted.
LEMMA OriginStep ==
    ASSUME TypeOK, EnvelopeInv, StoredInv, CountedOutInv, OriginAccounted, [Next]_vars
    PROVE  OriginAccounted'
<1> SUFFICES ASSUME NEW m \in Node, NEW o \in Node, m # o
             PROVE  CountIs(m, o)'
  BY DEF OriginAccounted, CountIs, Counted, Origin, RequestOf
<1>0. /\ perOrigin[m][o] = Cardinality(Counted(m, o)) /\ perOrigin[m][o] <= MaxPending
      /\ perOrigin \in [Node -> [Node -> Nat]]
      /\ held \subseteq Node \X Key /\ uncounted \subseteq Node \X Key
  BY TypeParts DEF OriginAccounted, Counted, StoreType
<1>1. IsFiniteSet(Counted(m, o)) /\ Cardinality(Counted(m, o)) \in Nat
  BY FS_Union, FS_Subset, FS_CardinalityType DEF CountedOutInv, Counted
<1>2. ASSUME Counted(m, o)' = Counted(m, o), perOrigin'[m][o] = perOrigin[m][o]
      PROVE  CountIs(m, o)'
  BY <1>0, <1>2 DEF CountIs
<1>3. ASSUME UNCHANGED <<held, uncounted, perOrigin>>
      PROVE  CountIs(m, o)'
  <2>1. Counted(m, o)' = Counted(m, o)
    BY <1>3 DEF Counted
  <2>2. QED
    BY <1>2, <1>3, <2>1
<1>4. ASSUME NEW n \in Node, NEW k \in Key, RemoveEntry(n, k)
      PROVE  CountIs(m, o)'
  <2>1. Counted(m, o)' = Counted(m, o)
    <3>1. CASE <<n, k>> \in held /\ Origin(k) # n
      BY <1>4, <3>1 DEF RemoveEntry, Forget, Counted
    <3>2. CASE <<n, k>> \in held /\ Origin(k) = n
      BY <1>4, <3>2, SMT DEF RemoveEntry, Forget, Counted
    <3>3. CASE <<n, k>> \notin held
      BY <1>4, <3>3 DEF RemoveEntry, Forget, Counted
    <3>4. QED
      BY <3>1, <3>2, <3>3
  <2>2. QED
    BY <1>2, <1>4, <2>1 DEF RemoveEntry
<1>5. ASSUME NEW n \in Node, NEW k \in Key, NoteRemoved(n, k)
      PROVE  CountIs(m, o)'
  <2>0. <<n, k>> \in uncounted /\ <<n, k>> \notin held
    BY <1>5 DEF NoteRemoved, CountedOutInv
  <2>1. CASE n = m /\ Origin(k) = o
    <3>1. <<n, k>> \in Counted(m, o)
      BY <2>0, <2>1 DEF Counted
    <3>2. Counted(m, o)' = Counted(m, o) \ {<<n, k>>}
      BY <1>5, <2>0 DEF NoteRemoved, Counted
    <3>3. Cardinality(Counted(m, o)') = Cardinality(Counted(m, o)) - 1
      BY <1>1, <3>1, <3>2, FS_RemoveElement, ZenonT(60)
    <3>4. Cardinality(Counted(m, o)) # 0
      BY <1>1, <3>1, FS_EmptySet
    <3>5. perOrigin'[m][o] = perOrigin[m][o] - 1
      BY <1>0, <1>1, <1>5, <2>1, <3>4, SMT DEF NoteRemoved
    <3>6. QED
      BY <1>0, <1>1, <3>3, <3>5, MaxPendingAssumption, SMT DEF CountIs
  <2>2. CASE ~ (n = m /\ Origin(k) = o)
    <3>1. Counted(m, o)' = Counted(m, o)
      BY <1>5, <2>2, SMT DEF NoteRemoved, Counted
    <3>2. perOrigin'[m][o] = perOrigin[m][o]
      BY <1>0, <1>5, <2>2, KeyFacts DEF NoteRemoved
    <3>3. QED
      BY <1>2, <3>1, <3>2
  <2>3. QED
    BY <2>1, <2>2
<1>6. ASSUME NEW n \in Node, Restart(n)
      PROVE  CountIs(m, o)'
  <2>1. CASE n = m
    <3>1. Counted(m, o)' = {}
      BY <1>6, <2>1 DEF Restart, Counted
    <3>2. perOrigin'[m][o] = 0
      BY <1>0, <1>6, <2>1 DEF Restart
    <3>3. QED
      BY <3>1, <3>2, FS_EmptySet, MaxPendingAssumption, SMT DEF CountIs
  <2>2. CASE n # m
    <3>1. Counted(m, o)' = Counted(m, o)
      BY <1>6, <2>2 DEF Restart, Counted
    <3>2. QED
      BY <1>0, <1>2, <1>6, <2>2, <3>1 DEF Restart
  <2>3. QED
    BY <2>1, <2>2
<1>7. ASSUME NEW r \in Request, NEW k \in KeysOf[r], InsertLocal(r, k) \/ Retract(r, k)
      PROVE  CountIs(m, o)'
  <2>1. Origin(k) = At(r)
    BY KeyFacts
  <2>2. Counted(m, o)' = Counted(m, o)
    BY <1>7, <2>1, SMT DEF InsertLocal, Retract, Forget, Counted
  <2>3. QED
    BY <1>2, <1>7, <2>2 DEF InsertLocal, Retract
<1>8. ASSUME NEW r \in Request, NEW p \in Node, NEW k \in KeysOf[r], OpenSame(r, p, k)
      PROVE  CountIs(m, o)'
  <2>1. CASE UNCHANGED store
    BY <1>3, <2>1 DEF store
  <2>2. CASE ~ UNCHANGED store
    <3>1. /\ held' = held \cup {<<p, k>>} /\ UNCHANGED uncounted
          /\ perOrigin' = [perOrigin EXCEPT ![p][At(r)] = @ + 1]
          /\ perOrigin[p][At(r)] < MaxPending
          /\ <<p, k>> \notin stored
      BY <1>8, <2>2, InsertedAnew DEF OpenSame, InsertFromPeer
    <3>2. Origin(k) = At(r) /\ At(r) \in Node
      BY KeyFacts
    <3>3. CASE p = m /\ At(r) = o
      <4>1. Counted(m, o)' = Counted(m, o) \cup {<<p, k>>}
        BY <3>1, <3>2, <3>3, SMT DEF Counted
      <4>2. <<p, k>> \notin Counted(m, o)
        BY <3>1, TypeParts DEF Counted, CountedOutInv, StoreType
      <4>3. Cardinality(Counted(m, o)') = Cardinality(Counted(m, o)) + 1
        BY <1>1, <4>1, <4>2, FS_AddElement
      <4>4. perOrigin'[m][o] = perOrigin[m][o] + 1 /\ perOrigin[m][o] < MaxPending
        BY <1>0, <3>1, <3>2, <3>3
      <4>5. QED
        BY <1>0, <1>1, <4>3, <4>4, MaxPendingAssumption, SMT DEF CountIs
    <3>4. CASE ~ (p = m /\ At(r) = o)
      <4>1. Counted(m, o)' = Counted(m, o)
        BY <3>1, <3>2, <3>4, SMT DEF Counted
      <4>2. perOrigin'[m][o] = perOrigin[m][o]
        BY <1>0, <3>1, <3>2, <3>4
      <4>3. QED
        BY <1>2, <4>1, <4>2
    <3>5. QED
      BY <3>3, <3>4
  <2>3. QED
    BY <2>1, <2>2
<1>9. CASE UNCHANGED store
  BY <1>3, <1>9 DEF store
<1>10. ASSUME NEW n \in Node, NEW k \in Key, Expire(n, k)
       PROVE  CountIs(m, o)'
  BY <1>3, <1>10 DEF Expire
<1>11. ASSUME NEW n \in Node, SweepExpired(n)
       PROVE  CountIs(m, o)'
  BY <1>3, <1>11 DEF SweepExpired
<1>12. ASSUME NEW d \in Call, NEW k \in Key, Take(d, k) \/ TakeFails(d, k)
       PROVE  CountIs(m, o)'
  BY <1>3, <1>12 DEF Take, TakeFails
<1>13. QED
  BY <1>4, <1>5, <1>6, <1>7, <1>8, <1>9, <1>10, <1>11, <1>12, StoreSteps

-----------------------------------------------------------------------------
(* What is removed, and what is marked.                                    *)

\* Forgetting one entry does not touch the marks of another.
LEMMA ForgetEffect ==
    ASSUME NEW e, Forget(e), NEW x \in Node \X Key, x # e
    PROVE  Wanted(x)' <=> Wanted(x)
<1>1. ASSUME NEW s \in Authorized(x[1], x[2])
      PROVE  <<s, x[2]>> \in retrieved' <=> <<s, x[2]>> \in retrieved
  <2>1. <<Home[s], x[2]>> = x
    BY SMT DEF Authorized
  <2>2. QED
    BY <2>1 DEF Forget
<1>2. QED
  BY <1>1 DEF Wanted, Authorized, RequestOf

\* The marks of an entry leave with it.
LEMMA RetrievedStep ==
    ASSUME TypeOK, EnvelopeInv, StoredInv, RetrievedInv, [Next]_vars
    PROVE  RetrievedInv'
<1> USE DEF RetrievedInv
<1>1. CASE UNCHANGED store
  BY <1>1 DEF store
<1>2. ASSUME NEW e, Forget(e)
      PROVE  RetrievedInv'
  BY <1>2 DEF Forget
<1>3. ASSUME NEW n \in Node, NEW k \in Key, RemoveEntry(n, k)
      PROVE  RetrievedInv'
  BY <1>2, <1>3 DEF RemoveEntry
<1>4. ASSUME NEW r \in Request, NEW k \in KeysOf[r], Retract(r, k)
      PROVE  RetrievedInv'
  BY <1>2, <1>4 DEF Retract
<1>5. ASSUME retrieved' = retrieved, held \subseteq held'
      PROVE  RetrievedInv'
  BY <1>5
<1>6. ASSUME NEW n \in Node, NEW k \in Key, NoteRemoved(n, k) \/ Expire(n, k)
      PROVE  RetrievedInv'
  BY <1>5, <1>6 DEF NoteRemoved, Expire
<1>7. ASSUME NEW n \in Node, SweepExpired(n)
      PROVE  RetrievedInv'
  BY <1>5, <1>7 DEF SweepExpired
<1>8. ASSUME NEW r \in Request, NEW k \in KeysOf[r], InsertLocal(r, k)
      PROVE  RetrievedInv'
  BY <1>5, <1>8 DEF InsertLocal
<1>9. ASSUME NEW r \in Request, NEW p \in Node, NEW k \in KeysOf[r], OpenSame(r, p, k)
      PROVE  RetrievedInv'
  <2>1. retrieved' = retrieved /\ held \subseteq held'
    BY <1>9 DEF OpenSame, InsertFromPeer, store
  <2>2. QED
    BY <1>5, <2>1
<1>10. ASSUME NEW d \in Call, NEW k \in Key, TakeFails(d, k)
       PROVE  RetrievedInv'
  BY <1>5, <1>10 DEF TakeFails
<1>11. ASSUME NEW d \in Call, NEW k \in Key, Take(d, k)
       PROVE  RetrievedInv'
  BY <1>11, SMT DEF Take, Servable
<1>12. ASSUME NEW n \in Node, Restart(n)
       PROVE  RetrievedInv'
  BY <1>12 DEF Restart
<1>13. QED
  BY <1>1, <1>3, <1>4, <1>6, <1>7, <1>8, <1>9, <1>10, <1>11, <1>12, StoreSteps

\* An entry that is about to be removed stays unwanted until it is.
LEMMA DoomedStep ==
    ASSUME TypeOK, EnvelopeInv, StoredInv, DoomedInv, [Next]_vars
    PROVE  DoomedInv'
<1>0. /\ held \subseteq Node \X Key /\ expired \subseteq held /\ held \subseteq stored
      /\ doomed \subseteq stored
      /\ \A e \in doomed \cap held : e \in expired \/ ~ Wanted(e)
  BY TypeParts DEF StoreType, DoomedInv
<1> USE DEF DoomedInv
<1>1. ASSUME UNCHANGED <<held, expired, retrieved, doomed, stored>>
      PROVE  DoomedInv'
  BY <1>0, <1>1 DEF Wanted
<1>2. CASE UNCHANGED store
  BY <1>1, <1>2 DEF store
<1>3. ASSUME NEW e, Forget(e), doomed' \subseteq doomed, UNCHANGED stored
      PROVE  DoomedInv'
  <2>1. ASSUME NEW x \in doomed' \cap held'
        PROVE  x \in expired' \/ ~ Wanted(x)'
    <3>1. x \in doomed \cap held /\ x # e /\ x \in Node \X Key
      BY <1>0, <1>3 DEF Forget
    <3>2. CASE x \in expired
      BY <1>3, <3>1, <3>2 DEF Forget
    <3>3. CASE ~ Wanted(x)
      BY <1>3, <3>1, <3>3, ForgetEffect
    <3>4. QED
      BY <1>0, <3>1, <3>2, <3>3
  <2>2. QED
    BY <1>0, <1>3, <2>1
<1>4. ASSUME NEW n \in Node, NEW k \in Key, RemoveEntry(n, k)
      PROVE  DoomedInv'
  BY <1>3, <1>4 DEF RemoveEntry
<1>5. ASSUME NEW r \in Request, NEW k \in KeysOf[r], Retract(r, k)
      PROVE  DoomedInv'
  BY <1>3, <1>5 DEF Retract
<1>6. ASSUME NEW n \in Node, NEW k \in Key, NoteRemoved(n, k)
      PROVE  DoomedInv'
  BY <1>1, <1>6 DEF NoteRemoved
<1>7. ASSUME NEW n \in Node, NEW k \in Key, Expire(n, k)
      PROVE  DoomedInv'
  BY <1>0, <1>7 DEF Expire, Wanted
<1>8. ASSUME NEW n \in Node, SweepExpired(n)
      PROVE  DoomedInv'
  BY <1>0, <1>8 DEF SweepExpired, Wanted
<1>9. ASSUME NEW e, e \notin stored, held' = held \cup {e}, stored' = stored \cup {e},
             UNCHANGED <<expired, retrieved, doomed>>
      PROVE  DoomedInv'
  BY <1>0, <1>9 DEF Wanted
<1>10. ASSUME NEW r \in Request, NEW k \in KeysOf[r], InsertLocal(r, k)
       PROVE  DoomedInv'
  BY <1>9, <1>10, InsertedAnew DEF InsertLocal
<1>11. ASSUME NEW r \in Request, NEW p \in Node, NEW k \in KeysOf[r], OpenSame(r, p, k)
       PROVE  DoomedInv'
  BY <1>2, <1>9, <1>11, InsertedAnew DEF OpenSame, InsertFromPeer
<1>12. ASSUME NEW d \in Call, NEW k \in Key, Take(d, k)
       PROVE  DoomedInv'
  <2> DEFINE s == call[d].sae
             n == Home[s]
  <2>1. /\ <<n, k>> \in held
        /\ retrieved' = retrieved \cup {<<s, k>>}
        /\ doomed' = IF \A a \in Authorized(n, k) : <<a, k>> \in retrieved'
                       THEN doomed \cup {<<n, k>>} ELSE doomed
        /\ UNCHANGED <<held, expired, stored>>
    BY <1>12 DEF Take, Servable
  <2>2. ASSUME NEW x \in doomed' \cap held'
        PROVE  x \in expired' \/ ~ Wanted(x)'
    <3>1. CASE x \in doomed
      BY <1>0, <2>1, <2>2, <3>1 DEF Wanted
    <3>2. CASE x \notin doomed
      <4>1. x = <<n, k>> /\ \A a \in Authorized(n, k) : <<a, k>> \in retrieved'
        BY <2>1, <2>2, <3>2
      <4>2. QED
        BY <4>1 DEF Wanted
    <3>3. QED
      BY <3>1, <3>2
  <2>3. doomed' \subseteq stored'
    BY <1>0, <2>1
  <2>4. QED
    BY <2>2, <2>3
<1>13. ASSUME NEW d \in Call, NEW k \in Key, TakeFails(d, k)
       PROVE  DoomedInv'
  BY <1>0, <1>13 DEF TakeFails, Wanted
<1>14. ASSUME NEW n \in Node, Restart(n)
       PROVE  DoomedInv'
  <2>1. ASSUME NEW x \in doomed' \cap held'
        PROVE  x \in expired' \/ ~ Wanted(x)'
    <3>1. x \in doomed \cap held /\ x[1] # n
      BY <1>14 DEF Restart
    <3>2. CASE x \in expired
      BY <1>14, <3>1, <3>2 DEF Restart
    <3>3. CASE ~ Wanted(x)
      BY <1>14, <3>1, <3>3 DEF Restart, Wanted, Authorized
    <3>4. QED
      BY <1>0, <3>1, <3>2, <3>3
  <2>2. QED
    BY <1>0, <1>14, <2>1 DEF Restart
<1>15. QED
  BY <1>2, <1>4, <1>5, <1>6, <1>7, <1>8, <1>10, <1>11, <1>12, <1>13, <1>14, StoreSteps

-----------------------------------------------------------------------------
(* What the calls hold.                                                    *)

\* An entry that was there once and is there after a step was there before it, and
\* keeps its marks.
LEMMA MarksStay ==
    ASSUME TypeOK, EnvelopeInv, StoredInv, [Next]_vars,
           NEW s \in Sae, NEW k \in Key, <<Home[s], k>> \in stored
    PROVE  /\ <<Home[s], k>> \in stored'
           /\ <<Home[s], k>> \in held' =>
                 /\ <<Home[s], k>> \in held
                 /\ <<s, k>> \in retrieved => <<s, k>> \in retrieved'
<1> DEFINE Stay == /\ <<Home[s], k>> \in stored'
                   /\ <<Home[s], k>> \in held' =>
                         /\ <<Home[s], k>> \in held
                         /\ <<s, k>> \in retrieved => <<s, k>> \in retrieved'
<1>1. ASSUME UNCHANGED <<held, stored, retrieved>>
      PROVE  Stay
  BY <1>1
<1>2. CASE UNCHANGED store
  BY <1>2 DEF store
<1>3. ASSUME NEW e, Forget(e), UNCHANGED stored
      PROVE  Stay
  BY <1>3 DEF Forget
<1>4. ASSUME NEW n \in Node, NEW l \in Key, RemoveEntry(n, l)
      PROVE  Stay
  BY <1>3, <1>4 DEF RemoveEntry
<1>5. ASSUME NEW r \in Request, NEW l \in KeysOf[r], Retract(r, l)
      PROVE  Stay
  BY <1>3, <1>5 DEF Retract
<1>6. ASSUME NEW n \in Node, NEW l \in Key, NoteRemoved(n, l) \/ Expire(n, l)
      PROVE  Stay
  BY <1>1, <1>6 DEF NoteRemoved, Expire
<1>7. ASSUME NEW n \in Node, SweepExpired(n)
      PROVE  Stay
  BY <1>1, <1>7 DEF SweepExpired
<1>8. ASSUME NEW e, e \notin stored, held' = held \cup {e}, stored' = stored \cup {e},
             UNCHANGED retrieved
      PROVE  Stay
  BY <1>8
<1>9. ASSUME NEW r \in Request, NEW l \in KeysOf[r], InsertLocal(r, l)
      PROVE  Stay
  BY <1>8, <1>9, InsertedAnew DEF InsertLocal
<1>10. ASSUME NEW r \in Request, NEW p \in Node, NEW l \in KeysOf[r], OpenSame(r, p, l)
       PROVE  Stay
  BY <1>2, <1>8, <1>10, InsertedAnew DEF OpenSame, InsertFromPeer
<1>11. ASSUME NEW d \in Call, NEW l \in Key, Take(d, l) \/ TakeFails(d, l)
       PROVE  Stay
  BY <1>11 DEF Take, TakeFails
<1>12. ASSUME NEW n \in Node, Restart(n)
       PROVE  Stay
  BY <1>12 DEF Restart
<1>13. QED
  BY <1>2, <1>4, <1>5, <1>6, <1>7, <1>9, <1>10, <1>11, <1>12, StoreSteps

\* But for a take, a step leaves a call as it is, or with nothing in its hands.
LEMMA CallShrinks ==
    ASSUME TypeOK, [Next]_vars, NEW c \in Call, \A d \in Call, k \in Key : ~ Take(d, k)
    PROVE  \/ call'[c] = call[c]
           \/ call'[c].got = {} /\ (call'[c] = NoCall \/ call'[c].sae \in Sae)
<1> DEFINE Shrinks == \/ call'[c] = call[c]
                      \/ call'[c].got = {} /\ (call'[c] = NoCall \/ call'[c].sae \in Sae)
<1>0. DOMAIN call = Call /\ NoCall.got = {}
  BY TypeParts DEF CallType, NoCall
<1>1. CASE UNCHANGED <<call, given>>
  BY <1>1
<1>2. ASSUME NEW d \in Call, NEW s \in Sae, NEW m \in {Master[r] : r \in Request},
             NEW ids \in SUBSET Key, DecKeys(d, s, m, ids)
      PROVE  Shrinks
  BY <1>0, <1>2 DEF DecKeys
<1>3. ASSUME NEW d \in Call, NEW k \in Key, TakeFails(d, k)
      PROVE  Shrinks
  BY <1>0, <1>3 DEF TakeFails
<1>4. ASSUME NEW d \in Call, Answer(d)
      PROVE  Shrinks
  BY <1>0, <1>4 DEF Answer
<1>5. ASSUME NEW n \in Node, Restart(n)
      PROVE  Shrinks
  BY <1>0, <1>5 DEF Restart
<1>6. QED
  BY <1>1, <1>2, <1>3, <1>4, <1>5, CallSteps

\* What a take does: a mark that was not there, and the key in the hands of the call.
LEMMA TakeEffect ==
    ASSUME TypeOK, CallInv, NEW d \in Call, NEW k \in Key, Take(d, k)
    PROVE  /\ call[d].sae \in Sae /\ <<call[d].sae, k>> \in Intended
           /\ <<Home[call[d].sae], k>> \in held \ expired
           /\ <<call[d].sae, k>> \notin retrieved
           /\ retrieved' = retrieved \cup {<<call[d].sae, k>>}
           /\ UNCHANGED <<held, expired, stored, given>>
           /\ call'[d].sae = call[d].sae /\ call'[d].got = call[d].got \cup {k}
           /\ \A c \in Call \ {d} : call'[c] = call[c]
<1>1. Servable(call[d].sae, call[d].master, k)
  BY DEF Take
<1>2. call[d].sae \in Sae /\ call[d].sae \in Targets[RequestOf(k)]
  BY <1>1, RequestAssumption, KeyFacts DEF Servable, Authorized
<1>3. <<call[d].sae, k>> \in Intended
  BY <1>2 DEF Intended
<1>4. call'[d].sae = call[d].sae /\ call'[d].got = call[d].got \cup {k}
  BY TypeParts DEF Take, CallType
<1>5. \A c \in Call \ {d} : call'[c] = call[c]
  BY TypeParts DEF Take, CallType
<1>6. QED
  BY <1>1, <1>2, <1>3, <1>4, <1>5 DEF Take, Servable

\* A key in the hands of call d is of its SAE, and marked as long as its entry is there.
InHandOf(d, k) ==
    /\ call[d].sae \in Sae /\ k \in Key
    /\ <<call[d].sae, k>> \in Intended
    /\ <<Home[call[d].sae], k>> \in stored
    /\ <<Home[call[d].sae], k>> \in held => <<call[d].sae, k>> \in retrieved

\* What a call holds stays marked and stays its own.
LEMMA CallStep ==
    ASSUME TypeOK, EnvelopeInv, StoredInv, CallInv, [Next]_vars
    PROVE  CallInv'
<1>0. \A d \in Call : \A k \in call[d].got : InHandOf(d, k)
  BY TypeParts DEF CallInv, InHandOf, Intended, CallType
<1>1. ASSUME NEW d \in Call, NEW k \in call[d].got, call'[d].sae = call[d].sae
      PROVE  InHandOf(d, k)'
  BY <1>0, <1>1, MarksStay DEF InHandOf, Intended, RequestOf
<1>2. CASE \A d \in Call, k \in Key : ~ Take(d, k)
  <2>1. \A d \in Call : call'[d] = NoCall \/ call'[d].sae \in Sae
    BY <1>2, CallShrinks DEF CallInv
  <2>2. ASSUME NEW d \in Call, NEW k \in call'[d].got
        PROVE  /\ InHandOf(d, k)'
               /\ \A c \in Call : c # d /\ call'[c].sae = call'[d].sae => k \notin call'[c].got
    <3>1. call'[d] = call[d]
      BY <1>2, <2>2, CallShrinks
    <3>2. \A c \in Call : call'[c] = call[c] \/ call'[c].got = {}
      BY <1>2, CallShrinks
    <3>3. QED
      BY <1>1, <2>2, <3>1, <3>2 DEF CallInv
  <2>3. QED
    BY <2>1, <2>2 DEF CallInv, InHandOf
<1>3. ASSUME NEW d \in Call, NEW k \in Key, Take(d, k)
      PROVE  CallInv'
  <2>0. /\ call[d].sae \in Sae /\ <<call[d].sae, k>> \in Intended
        /\ <<Home[call[d].sae], k>> \in held \ expired
        /\ <<call[d].sae, k>> \notin retrieved
        /\ retrieved' = retrieved \cup {<<call[d].sae, k>>}
        /\ UNCHANGED <<held, expired, stored, given>>
        /\ call'[d].sae = call[d].sae /\ call'[d].got = call[d].got \cup {k}
        /\ \A c \in Call \ {d} : call'[c] = call[c]
    BY <1>3, TakeEffect
  <2>1. \A c \in Call : call'[c] = NoCall \/ call'[c].sae \in Sae
    BY <2>0 DEF CallInv
  <2>2. \A c \in Call : call[c].sae = call[d].sae => k \notin call[c].got
    BY <1>0, <2>0 DEF InHandOf
  <2>3. ASSUME NEW c \in Call, NEW l \in call'[c].got
        PROVE  InHandOf(c, l)'
    <3>1. CASE c = d /\ l = k
      <4>1. held \subseteq stored
        BY TypeParts DEF StoreType
      <4>2. QED
        BY <2>0, <3>1, <4>1 DEF InHandOf, Intended, RequestOf
    <3>2. CASE ~ (c = d /\ l = k)
      BY <1>1, <2>0, <2>3, <3>2
    <3>3. QED
      BY <3>1, <3>2
  <2>4. ASSUME NEW c \in Call, NEW l \in call'[c].got,
               NEW b \in Call, b # c, call'[b].sae = call'[c].sae
        PROVE  l \notin call'[b].got
    <3>1. call[b].sae = call[c].sae
      BY <2>0, <2>4
    <3>2. CASE l = k
      BY <2>0, <2>2, <2>4, <3>1, <3>2 DEF CallInv
    <3>3. CASE l # k
      BY <2>0, <2>4, <3>1, <3>3, ZenonT(60) DEF CallInv
    <3>4. QED
      BY <3>2, <3>3
  <2>5. QED
    BY <2>1, <2>3, <2>4 DEF CallInv, InHandOf
<1>4. QED
  BY <1>2, <1>3

-----------------------------------------------------------------------------
(* What a request keeps charged, and what it retracts.                     *)

Charge(r) ==
    /\ pc[r] \in Early => \A p \in Node : result[r][p] = "none"
    /\ pc[r] \in {"insert", "prepare", "await", "granted"} => charged[r] = Peers(r)
    /\ pc[r] \in {"retract", "failed"} => charged[r] = {p \in Peers(r) : result[r][p] = "ok"}

\* Tokens are charged once and given back for the peers that failed.
LEMMA ChargeStep ==
    ASSUME TypeOK, ChargeInv, [Next]_vars
    PROVE  ChargeInv'
<1> SUFFICES ASSUME NEW q \in Request
             PROVE  Charge(q)'
  BY DEF ChargeInv, Charge, Early
<1>0. Charge(q) /\ RequestType /\ Peers(q) \subseteq Node
  BY TypeParts, KeyFacts DEF ChargeInv, Charge, Early
<1>1. ASSUME pc'[q] = pc[q], charged'[q] = charged[q], result'[q] = result[q]
      PROVE  Charge(q)'
  BY <1>0, <1>1 DEF Charge, Peers, At
<1>2. CASE UNCHANGED request
  BY <1>1, <1>2 DEF request
<1>3. ASSUME NEW r \in Request, r # q,
             EncKeys(r) \/ Send(r) \/ PrepareFails(r) \/ Decide(r) \/ HangUp(r)
      PROVE  Charge(q)'
  BY <1>0, <1>1, <1>3 DEF EncKeys, Send, PrepareFails, Decide, HangUp, RequestType
<1>4. CASE EncKeys(q)
  BY <1>0, <1>4 DEF EncKeys, Charge, Early, RequestType, Peers, At
<1>5. CASE Send(q) \/ HangUp(q)
  BY <1>0, <1>5 DEF Send, HangUp, Charge, Early, RequestType, Peers, At
<1>6. CASE PrepareFails(q)
  <2>1. /\ pc'[q] = "retract" /\ charged'[q] = {} /\ result' = result
        /\ \A p \in Node : result[q][p] = "none"
    BY <1>0, <1>6 DEF PrepareFails, Charge, Early, RequestType
  <2>2. QED
    BY <1>0, <2>1 DEF Charge, Early, Peers, At
<1>7. CASE Decide(q)
  <2>1. /\ charged[q] = Peers(q) /\ \A p \in Peers(q) : result[q][p] # "none"
        /\ charged'[q] = charged[q] \ Failed(q) /\ result' = result
        /\ pc'[q] = IF Failed(q) = {} THEN "granted" ELSE "retract"
    BY <1>0, <1>7 DEF Decide, Charge, RequestType
  <2>2. \A p \in Peers(q) : result[q][p] \in {"ok", "failed"}
    BY <1>0, <2>1, SMT DEF RequestType
  <2>3. Peers(q) \ Failed(q) = {p \in Peers(q) : result[q][p] = "ok"}
    BY <2>2 DEF Failed
  <2>4. QED
    BY <2>1, <2>3 DEF Charge, Early, Peers, At
<1>8. ASSUME NEW r \in Request, NEW k \in KeysOf[r], InsertLocal(r, k)
      PROVE  Charge(q)'
  BY <1>0, <1>1, <1>8 DEF InsertLocal, Charge, Early, RequestType, Peers, At
<1>9. ASSUME NEW r \in Request, NEW k \in KeysOf[r], Retract(r, k)
      PROVE  Charge(q)'
  BY <1>0, <1>1, <1>9 DEF Retract, Charge, Early, RequestType, Peers, At
<1>10. ASSUME NEW r \in Request, NEW p \in Node, SendAnswered(r, p) \/ SendTimesOut(r, p)
       PROVE  Charge(q)'
  <2>1. /\ UNCHANGED <<pc, charged>> /\ pc[r] = "await"
        /\ r # q => result'[q] = result[q]
    BY <1>0, <1>10 DEF SendAnswered, SendTimesOut, RequestType
  <2>2. QED
    BY <1>0, <1>1, <2>1 DEF Charge, Early, Peers, At
<1>11. ASSUME NEW n \in Node, Restart(n)
       PROVE  Charge(q)'
  BY <1>0, <1>1, <1>11 DEF Restart, Charge, Early, RequestType, Peers, At
<1>12. QED
  BY <1>2, <1>3, <1>4, <1>5, <1>6, <1>7, <1>8, <1>9, <1>10, <1>11, RequestSteps

\* A retracted entry is not put back.
LEMMA RetractStep ==
    ASSUME TypeOK, EnvelopeInv, RetractInv, [Next]_vars
    PROVE  RetractInv'
<1> DEFINE Out(q, k) == (pc'[q] = "retract" /\ k \notin left'[q]) \/ pc'[q] = "failed"
<1> SUFFICES ASSUME NEW q \in Request, NEW k \in KeysOf[q], Out(q, k)
             PROVE  <<At(q), k>> \notin held'
  BY DEF RetractInv, At
<1>0. RequestType /\ StoreType
  BY TypeParts
<1>1. ASSUME NEW r \in Request, NEW l \in KeysOf[r], Retract(r, l), r = q, l = k
      PROVE  <<At(q), k>> \notin held'
  BY <1>1 DEF Retract, Forget
<1>2. SUFFICES ASSUME ~ Retract(q, k)
               PROVE  <<At(q), k>> \notin held'
  BY <1>1
\* but for its own retraction, the entry was retracted before the step
<1>3. <<At(q), k>> \notin held
  <2> USE <1>0 DEF RequestType
  <2>1. SUFFICES (pc[q] = "retract" /\ k \notin left[q]) \/ pc[q] = "failed"
    BY DEF RetractInv
  <2>2. CASE UNCHANGED request
    BY <2>2 DEF request
  <2>3. ASSUME NEW r \in Request,
               EncKeys(r) \/ Send(r) \/ PrepareFails(r) \/ Decide(r) \/ HangUp(r)
        PROVE  (pc[q] = "retract" /\ k \notin left[q]) \/ pc[q] = "failed"
    BY <2>3 DEF EncKeys, Send, PrepareFails, Decide, HangUp
  <2>4. ASSUME NEW r \in Request, NEW l \in KeysOf[r], InsertLocal(r, l)
        PROVE  (pc[q] = "retract" /\ k \notin left[q]) \/ pc[q] = "failed"
    BY <2>4 DEF InsertLocal
  <2>5. ASSUME NEW r \in Request, NEW l \in KeysOf[r], Retract(r, l)
        PROVE  (pc[q] = "retract" /\ k \notin left[q]) \/ pc[q] = "failed"
    <3>1. CASE r # q
      BY <2>5, <3>1 DEF Retract
    <3>2. CASE r = q
      <4>1. l # k
        BY <1>2, <2>5, <3>2
      <4>2. QED
        BY <2>5, <3>2, <4>1 DEF Retract
    <3>3. QED
      BY <3>1, <3>2
  <2>6. ASSUME NEW r \in Request, NEW p \in Node, SendAnswered(r, p) \/ SendTimesOut(r, p)
        PROVE  (pc[q] = "retract" /\ k \notin left[q]) \/ pc[q] = "failed"
    BY <2>6 DEF SendAnswered, SendTimesOut
  <2>7. ASSUME NEW n \in Node, Restart(n)
        PROVE  (pc[q] = "retract" /\ k \notin left[q]) \/ pc[q] = "failed"
    BY <2>7 DEF Restart
  <2>8. QED
    BY <2>2, <2>3, <2>4, <2>5, <2>6, <2>7, RequestSteps
\* and no step of another request puts it back
<1>4. QED
  <2>1. CASE UNCHANGED store
    BY <1>3, <2>1 DEF store
  <2>2. ASSUME NEW n \in Node, NEW l \in Key, RemoveEntry(n, l) \/ NoteRemoved(n, l) \/ Expire(n, l)
        PROVE  <<At(q), k>> \notin held'
    BY <1>3, <2>2 DEF RemoveEntry, Forget, NoteRemoved, Expire
  <2>3. ASSUME NEW n \in Node, SweepExpired(n) \/ Restart(n)
        PROVE  <<At(q), k>> \notin held'
    BY <1>3, <2>3 DEF SweepExpired, Restart
  <2>4. ASSUME NEW r \in Request, NEW l \in KeysOf[r], InsertLocal(r, l)
        PROVE  <<At(q), k>> \notin held'
    <3>1. r # q
      BY <1>0, <2>4 DEF InsertLocal, RequestType
    <3>2. l # k
      BY <3>1, KeyFacts
    <3>3. QED
      BY <1>3, <2>4, <3>2 DEF InsertLocal
  <2>5. ASSUME NEW r \in Request, NEW l \in KeysOf[r], Retract(r, l)
        PROVE  <<At(q), k>> \notin held'
    BY <1>3, <2>5 DEF Retract, Forget
  <2>6. ASSUME NEW r \in Request, NEW p \in Node, NEW l \in KeysOf[r], OpenSame(r, p, l)
        PROVE  <<At(q), k>> \notin held'
    <3>1. p # At(r)
      BY <2>6, KeyFacts DEF OpenSame, Opening, EnvelopeInv
    <3>2. <<p, l>> # <<At(q), k>>
      BY <3>1, KeyFacts
    <3>3. QED
      BY <1>3, <2>6, <3>2 DEF OpenSame, InsertFromPeer, store
  <2>7. ASSUME NEW d \in Call, NEW l \in Key, Take(d, l) \/ TakeFails(d, l)
        PROVE  <<At(q), k>> \notin held'
    BY <1>3, <2>7 DEF Take, TakeFails
  <2>8. QED
    BY <2>1, <2>2, <2>3, <2>4, <2>5, <2>6, <2>7, StoreSteps

\* Every step keeps the inductive invariant.
LEMMA InvStep == IInv /\ [Next]_vars => IInv'
<1> SUFFICES ASSUME IInv, [Next]_vars PROVE IInv'
  OBVIOUS
<1> USE DEF IInv
<1>1. TypeOK'
  BY TypeStep
<1>2. EnvelopeInv' /\ StoredInv'
  BY EnvelopeInvStep, StoredInvStep
<1>3. CountedOutInv' /\ OriginAccounted'
  BY CountedOutStep, OriginStep
<1>4. DoomedInv' /\ RetrievedInv'
  BY DoomedStep, RetrievedStep
<1>5. CallInv' /\ ChargeInv' /\ RetractInv'
  BY CallStep, ChargeStep, RetractStep
<1>6. QED
  BY <1>1, <1>2, <1>3, <1>4, <1>5

-----------------------------------------------------------------------------
(* The theorems.                                                           *)

\* The inductive invariant holds in every reachable state.
THEOREM InvCorrect == Spec => []IInv
BY InitCorrect, InvStep, PTL DEF Spec

\* The state always has the shape the types of PendingStore and the handlers give it.
THEOREM TypeCorrect == Spec => []TypeOK
<1>1. IInv => TypeOK
  BY DEF IInv
<1>2. QED
  BY <1>1, InvCorrect, PTL

\* Whatever threads insert and remove, per_origin counts the entries of each origin, and
\* stays within MAX_PENDING_PER_ORIGIN.
THEOREM OriginAccountedCorrect == Spec => []OriginAccounted
<1>1. IInv => OriginAccounted
  BY DEF IInv
<1>2. QED
  BY <1>1, InvCorrect, PTL

\* A request answered with an error has left no entry for the local SAEs, and has given
\* back the tokens of the peers that got nothing.
THEOREM FailedLeavesNothingCorrect == Spec => []FailedLeavesNothing
<1>1. IInv => FailedLeavesNothing
  BY DEF IInv, RetractInv, ChargeInv, FailedLeavesNothing
<1>2. QED
  BY <1>1, InvCorrect, PTL

\* No step takes away an entry that an authorised SAE still wants, but the expiry, the
\* retraction of the request and the end of the process.
LEMMA RemovalStep ==
    ASSUME IInv, [Next]_vars, NEW e \in held \ held'
    PROVE  \/ e \in expired \/ ~ Wanted(e)
           \/ e[1] = Origin(e[2]) /\ pc[RequestOf(e[2])] = "retract"
           \/ Restart(e[1])
<1> DEFINE Excused == \/ e \in expired \/ ~ Wanted(e)
                      \/ e[1] = Origin(e[2]) /\ pc[RequestOf(e[2])] = "retract"
                      \/ Restart(e[1])
<1>1. CASE UNCHANGED store
  BY <1>1 DEF store
<1>2. ASSUME NEW n \in Node, NEW k \in Key, RemoveEntry(n, k)
      PROVE  Excused
  <2>1. e = <<n, k>> /\ e \in doomed
    BY <1>2 DEF RemoveEntry, Forget
  <2>2. QED
    BY <2>1 DEF IInv, DoomedInv
<1>3. ASSUME NEW n \in Node, NEW k \in Key, NoteRemoved(n, k) \/ Expire(n, k)
      PROVE  Excused
  BY <1>3 DEF NoteRemoved, Expire
<1>4. ASSUME NEW n \in Node, SweepExpired(n)
      PROVE  Excused
  BY <1>4 DEF SweepExpired
<1>5. ASSUME NEW n \in Node, Restart(n)
      PROVE  Excused
  <2>1. e[1] = n
    BY <1>5 DEF Restart
  <2>2. QED
    BY <1>5, <2>1
<1>6. ASSUME NEW r \in Request, NEW k \in KeysOf[r], InsertLocal(r, k)
      PROVE  Excused
  BY <1>6 DEF InsertLocal
<1>7. ASSUME NEW r \in Request, NEW k \in KeysOf[r], Retract(r, k)
      PROVE  Excused
  <2>1. e = <<At(r), k>> /\ pc[r] = "retract"
    BY <1>7 DEF Retract, Forget
  <2>2. e[1] = Origin(e[2]) /\ RequestOf(e[2]) = r
    BY <2>1, KeyFacts
  <2>3. QED
    BY <2>1, <2>2
<1>8. ASSUME NEW r \in Request, NEW p \in Node, NEW k \in KeysOf[r], OpenSame(r, p, k)
      PROVE  Excused
  BY <1>8 DEF OpenSame, InsertFromPeer, store
<1>9. ASSUME NEW d \in Call, NEW k \in Key, Take(d, k) \/ TakeFails(d, k)
      PROVE  Excused
  BY <1>9 DEF Take, TakeFails
<1>10. QED
  BY <1>1, <1>2, <1>3, <1>4, <1>5, <1>6, <1>7, <1>8, <1>9, StoreSteps

\* An entry that is still wanted leaves the PendingStore only when it has expired, when
\* its request failed, or when the process ends.
THEOREM NotRemovedEarlyCorrect == Spec => NotRemovedEarly
<1> DEFINE Kept == \A e \in held \ held' :
                      \/ e \in expired \/ ~ Wanted(e)
                      \/ e[1] = Origin(e[2]) /\ pc[RequestOf(e[2])] = "retract"
                      \/ Restart(e[1])
<1>1. IInv /\ [Next]_vars => [Kept]_vars
  BY RemovalStep
<1>2. QED
  BY <1>1, InvCorrect, PTL DEF Spec, NotRemovedEarly

-----------------------------------------------------------------------------
(* SessionKeys implements KeyDelivery.                                     *)

\* Nothing that is no longer in a store for its SAE comes back, unless it is inserted.
LEMMA StoreOffersLess ==
    ASSUME IInv, [Next]_vars, UNCHANGED stored
    PROVE  InStore' \subseteq InStore
<1> USE DEF InStore
<1>0. Intended' = Intended
  BY DEF Intended, RequestOf
<1>1. CASE UNCHANGED store
  BY <1>0, <1>1 DEF store
<1>2. ASSUME NEW e, Forget(e)
      PROVE  InStore' \subseteq InStore
  BY <1>0, <1>2 DEF Forget
<1>3. ASSUME NEW n \in Node, NEW k \in Key, RemoveEntry(n, k) \/ NoteRemoved(n, k) \/ Expire(n, k)
      PROVE  InStore' \subseteq InStore
  <2>1. CASE RemoveEntry(n, k)
    BY <1>2, <2>1 DEF RemoveEntry
  <2>2. CASE NoteRemoved(n, k) \/ Expire(n, k)
    BY <1>0, <2>2 DEF NoteRemoved, Expire
  <2>3. QED
    BY <1>3, <2>1, <2>2
<1>4. ASSUME NEW n \in Node, SweepExpired(n) \/ Restart(n)
      PROVE  InStore' \subseteq InStore
  BY <1>0, <1>4, SMT DEF SweepExpired, Restart
<1>5. ASSUME NEW r \in Request, NEW k \in KeysOf[r], InsertLocal(r, k)
      PROVE  InStore' \subseteq InStore
  BY <1>5, InsertedAnew DEF IInv, InsertLocal
<1>6. ASSUME NEW r \in Request, NEW k \in KeysOf[r], Retract(r, k)
      PROVE  InStore' \subseteq InStore
  BY <1>2, <1>6 DEF Retract
<1>7. ASSUME NEW r \in Request, NEW p \in Node, NEW k \in KeysOf[r], OpenSame(r, p, k)
      PROVE  InStore' \subseteq InStore
  BY <1>1, <1>7, InsertedAnew DEF IInv, OpenSame, InsertFromPeer
<1>8. ASSUME NEW d \in Call, NEW k \in Key, Take(d, k) \/ TakeFails(d, k)
      PROVE  InStore' \subseteq InStore
  BY <1>0, <1>8 DEF Take, TakeFails
<1>9. QED
  BY <1>1, <1>3, <1>4, <1>5, <1>6, <1>7, <1>8, StoreSteps

\* An insert offers the key to the SAEs it was made for at that DKMS.
LEMMA InsertOffers ==
    ASSUME IInv, [Next]_vars, UNCHANGED stored => FALSE
    PROVE  \E P \in SUBSET Intended : Delivery!Offer(P)
<1> DEFINE For(e) == {sk \in Intended : <<Home[sk[1]], sk[2]>> = e}
<1>0. Intended' = Intended
  BY DEF Intended, RequestOf
<1>1. ASSUME NEW e, e \notin stored, stored' = stored \cup {e}, held' = held \cup {e},
             UNCHANGED <<expired, retrieved, call, given>>
      PROVE  Delivery!Offer(For(e))
  <2>1. For(e) \cap {sk \in Intended : <<Home[sk[1]], sk[2]>> \in stored} = {}
    BY <1>1
  <2>2. InStore' = InStore \cup For(e)
    <3>1. e \notin expired /\ e \notin held
      BY <1>1 DEF IInv, TypeOK
    <3>2. For(e) \cap retrieved = {}
      BY <3>1 DEF IInv, RetrievedInv
    <3>3. QED
      BY <1>0, <1>1, <3>1, <3>2 DEF InStore
  <2>3. InHand' = InHand
    BY <1>0, <1>1 DEF InHand
  <2>4. {sk \in Intended' : <<Home[sk[1]], sk[2]>> \in stored'} =
           {sk \in Intended : <<Home[sk[1]], sk[2]>> \in stored} \cup For(e)
    BY <1>0, <1>1
  <2>5. QED
    BY <1>1, <2>1, <2>2, <2>3, <2>4 DEF Delivery!Offer
<1>2. PICK r \in Request : \E k \in KeysOf[r] : InsertLocal(r, k) \/ \E p \in Node : OpenSame(r, p, k)
  BY StoredSteps
<1>3. ASSUME NEW k \in KeysOf[r], InsertLocal(r, k)
      PROVE  \E P \in SUBSET Intended : Delivery!Offer(P)
  <2>1. <<At(r), k>> \notin stored
    BY <1>3, InsertedAnew DEF IInv
  <2>2. Delivery!Offer(For(<<At(r), k>>))
    BY <1>1, <1>3, <2>1 DEF InsertLocal
  <2>3. QED
    BY <2>2
<1>4. ASSUME NEW k \in KeysOf[r], NEW p \in Node, OpenSame(r, p, k)
      PROVE  \E P \in SUBSET Intended : Delivery!Offer(P)
  <2>1. <<p, k>> \notin stored
    BY <1>4, InsertedAnew DEF IInv
  <2>2. /\ held' = held \cup {<<p, k>>} /\ stored' = stored \cup {<<p, k>>}
        /\ UNCHANGED <<expired, retrieved, call, given>>
    BY <1>4 DEF OpenSame, InsertFromPeer, store
  <2>3. Delivery!Offer(For(<<p, k>>))
    BY <1>1, <2>1, <2>2
  <2>4. QED
    BY <2>3
<1>5. QED
  BY <1>2, <1>3, <1>4

\* A take moves the key from the store to the hand of the call: still offered.
LEMMA TakeStutters ==
    ASSUME IInv, NEW d \in Call, NEW k \in Key, Take(d, k)
    PROVE  UNCHANGED Delivery!vars
<1> DEFINE sk == <<call[d].sae, k>>
<1>0. Intended' = Intended
  BY DEF Intended, RequestOf
<1>1. /\ sk \in InStore
      /\ retrieved' = retrieved \cup {sk}
      /\ UNCHANGED <<held, expired, stored, given>>
      /\ call'[d].sae = call[d].sae /\ call'[d].got = call[d].got \cup {k}
      /\ \A c \in Call \ {d} : call'[c] = call[c]
  BY TakeEffect DEF IInv, InStore
<1>2. InStore' = InStore \ {sk}
  BY <1>0, <1>1 DEF InStore
<1>3. InHand' = InHand \cup {sk}
  <2>1. sk \in Intended
    BY <1>1 DEF InStore
  <2>2. ASSUME NEW x \in Intended
        PROVE  x \in InHand' <=> x \in InHand \/ x = sk
    <3>1. x[1] = call[d].sae /\ x[2] = k <=> x = sk
      BY SMT DEF Intended
    <3>2. QED
      BY <1>0, <1>1, <3>1, SMT DEF InHand
  <2>3. QED
    BY <1>0, <2>1, <2>2 DEF InHand
<1>4. (InStore \cup InHand)' = InStore \cup InHand
  BY <1>1, <1>2, <1>3
<1>5. QED
  BY <1>0, <1>1, <1>4 DEF Delivery!vars

\* An answer hands over what the call had taken, and no other call had it.
LEMMA AnswerGives ==
    ASSUME IInv, NEW d \in Call, Answer(d)
    PROVE  \E P \in SUBSET Intended : Delivery!Give(P)
<1> DEFINE P == {sk \in Intended : sk[1] = call[d].sae /\ sk[2] \in call[d].got}
<1>0. /\ Intended' = Intended /\ DOMAIN call = Call
      /\ given \in [Sae -> [Key -> Nat]]
      /\ call[d].sae \in Sae
      /\ \A k \in call[d].got : <<call[d].sae, k>> \in Intended
      /\ NoCall.got = {}
  BY DEF Intended, RequestOf, IInv, TypeOK, CallInv, Answer, NoCall
<1>1. call'[d] = NoCall /\ \A c \in Call \ {d} : call'[c] = call[c]
  BY <1>0 DEF Answer
<1>2. InStore' = InStore
  BY <1>0 DEF InStore, Answer, store
<1>3. P \cap InStore = {}
  <2>1. ASSUME NEW x \in P, x \in InStore
        PROVE  FALSE
    <3>1. x = <<call[d].sae, x[2]>> /\ x[2] \in call[d].got
      BY <2>1, SMT DEF Intended
    <3>2. <<Home[call[d].sae], x[2]>> \in held /\ <<call[d].sae, x[2]>> \notin retrieved
      BY <2>1, <3>1 DEF InStore
    <3>3. QED
      BY <3>1, <3>2 DEF IInv, CallInv
  <2>2. QED
    BY <2>1
<1>4. InHand' = InHand \ P
  <2>1. ASSUME NEW x \in Intended, x \in P
        PROVE  x \notin InHand'
    <3>1. \A c \in Call \ {d} : call[c].sae = call[d].sae => x[2] \notin call[c].got
      BY <2>1 DEF IInv, CallInv
    <3>2. QED
      BY <1>0, <1>1, <2>1, <3>1 DEF InHand
  <2>2. ASSUME NEW x \in Intended, x \notin P
        PROVE  x \in InHand' <=> x \in InHand
    BY <1>0, <1>1, <2>2 DEF InHand
  <2>3. QED
    BY <1>0, <2>1, <2>2 DEF InHand
<1>5. given' = [s \in Sae |-> [k \in Key |->
                  IF <<s, k>> \in P THEN given[s][k] + 1 ELSE given[s][k]]]
  <2>1. \A s \in Sae, k \in Key : <<s, k>> \in P <=> s = call[d].sae /\ k \in call[d].got
    BY <1>0
  <2>2. given' = [given EXCEPT ![call[d].sae] =
                    [k \in Key |-> IF k \in call[d].got THEN @[k] + 1 ELSE @[k]]]
    BY DEF Answer
  <2>3. /\ given' \in [Sae -> [Key -> Nat]]
        /\ \A s \in Sae, k \in Key :
              given'[s][k] = IF <<s, k>> \in P THEN given[s][k] + 1 ELSE given[s][k]
    <3> HIDE DEF P
    <3>1. ASSUME NEW s \in Sae, s # call[d].sae
          PROVE  given'[s] = given[s]
      BY <1>0, <2>2, <3>1
    <3>2. given'[call[d].sae] = [k \in Key |-> IF k \in call[d].got
             THEN given[call[d].sae][k] + 1 ELSE given[call[d].sae][k]]
      BY <1>0, <2>2
    <3>3. given' \in [Sae -> [Key -> Nat]]
      BY <1>0, <2>2, SMT
    <3>4. QED
      BY <1>0, <2>1, <3>1, <3>2, <3>3, SMT
  <2>4. QED
    <3> HIDE DEF P
    <3> DEFINE g == [s \in Sae |-> [k \in Key |->
                       IF <<s, k>> \in P THEN given[s][k] + 1 ELSE given[s][k]]]
    <3>1. ASSUME NEW s \in Sae
          PROVE  given'[s] = g[s]
      BY <2>3
    <3>2. QED
      BY <2>3, <3>1
<1>6. P \subseteq InHand
  BY DEF InHand
<1>7. Delivery!Give(P)
  <2>1. (InStore \cup InHand)' = (InStore \cup InHand) \ P
    BY <1>2, <1>3, <1>4
  <2>2. UNCHANGED stored
    BY DEF Answer, store
  <2>3. QED
    BY <1>0, <1>5, <1>6, <2>1, <2>2 DEF Delivery!Give
<1>8. QED
  BY <1>7

\* Every step of the DKMSs is a step of KeyDelivery or leaves it as it is.
LEMMA DeliveryStep == IInv /\ [Next]_vars => [Delivery!Next]_(Delivery!vars)
<1> SUFFICES ASSUME IInv, [Next]_vars
             PROVE  [Delivery!Next]_(Delivery!vars)
  OBVIOUS
<1> USE DEF Delivery!Next
<1>1. CASE UNCHANGED stored => FALSE
  BY <1>1, InsertOffers
<1>2. CASE \E d \in Call, k \in Key : Take(d, k)
  BY <1>2, TakeStutters
<1>3. CASE \E d \in Call : Answer(d)
  BY <1>3, AnswerGives
<1>4. CASE /\ UNCHANGED stored /\ ~ (\E d \in Call, k \in Key : Take(d, k))
           /\ ~ (\E d \in Call : Answer(d))
  <2> DEFINE P == (InStore \cup InHand) \ (InStore \cup InHand)'
  <2>0. Intended' = Intended
    BY DEF Intended, RequestOf
  <2>1. UNCHANGED given
    BY <1>4, CallSteps DEF DecKeys, TakeFails, Restart
  <2>2. InStore' \subseteq InStore
    BY <1>4, StoreOffersLess
  <2>3. InHand' \subseteq InHand
    <3>1. \A c \in Call : call'[c] = call[c] \/ call'[c].got = {}
      BY <1>4, CallShrinks DEF IInv
    <3>2. QED
      BY <2>0, <3>1 DEF InHand
  <2>4. P \in SUBSET Intended
    BY DEF InStore, InHand
  <2>5. Delivery!Withdraw(P)
    BY <1>4, <2>0, <2>1, <2>2, <2>3 DEF Delivery!Withdraw
  <2>6. QED
    BY <2>4, <2>5
<1>5. QED
  BY <1>1, <1>2, <1>3, <1>4

\* The DKMSs keep the promise of KeyDelivery: each SAE is offered a key once and gets
\* it at most once.
THEOREM DeliversOnceCorrect == Spec => DeliversOnce
<1>1. Init => Delivery!Init
  BY SMT DEF Init, Delivery!Init, InStore, InHand, NoCall
<1>2. QED
  BY <1>1, DeliveryStep, InvCorrect, PTL DEF Spec, DeliversOnce, Delivery!Spec
============================================================================
