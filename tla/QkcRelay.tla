------------------------------ MODULE QkcRelay ------------------------------
(***************************************************************************)
(* How one QKC moves data frames: the reader of a neighbour's connection,  *)
(* the bounded intake queue and its dispatcher, the handlers that wait for *)
(* the keys of the incoming and of the outgoing link, the queue and writer *)
(* towards the next neighbour, and the local ORR connection that hands in  *)
(* frames of its own (qkc/src/relay.rs, transport/peer_server.rs,          *)
(* peer_client.rs, local.rs).                                              *)
(*                                                                         *)
(* Frames are numbered; frame i was encrypted by the neighbour with key i, *)
(* which its NOTIFY i announces.  The payload is abstracted to the number  *)
(* of outgoing keys it needs, the destination to what routing says of it.  *)
(* How a key gets from the KME to the DEC map or the ENC ring is DecBuffer *)
(* and EncBuffer; here keys arrive, or do not.                             *)
(***************************************************************************)
EXTENDS Naturals, Sequences, FiniteSets, FiniteSetsExt

CONSTANTS IntakeCap,    \* INTAKE_QUEUE
          MaxInflight,  \* MAX_INFLIGHT_PEER
          MaxLocal,     \* MAX_INFLIGHT_LOCAL_SEND
          MaxChunks,    \* MAX_RELAY_CHUNKS
          OutCap,       \* QUEUE_CAPACITY of the outgoing slot
          NumFrames,    \* bound: frames of the neighbour
          NumLocal,     \* bound: frames of the ORR
          NumKeys       \* bound: keys the outgoing link gets

(* What a frame asks for.  to: "me" local delivery, "next" a routed         *)
(* destination whose link is mounted, "lost" no route or no link.           *)
Ask == {[to |-> "me", need |-> 1], [to |-> "lost", need |-> 1]}
         \cup [to : {"next"}, need : {1, 2, MaxChunks + 1}]

VARIABLES
    stream,     \* what the neighbour wrote and the reader has not read
    announced,  \* dec_announced
    dec,        \* ids in the DEC map
    intake,     \* the mpsc queue between reader and dispatcher
    hand,       \* the dispatcher's frame, <<>> when it waits for one
    tasks,      \* running handle_incoming tasks, each with its permit
    orr,        \* frames of the ORR not read yet from the local connection
    sends,      \* running handle_local_send tasks, each with its permit
    enc,        \* keys in the ENC ring of the outgoing link
    supplied,   \* keys it has received so far
    out,        \* length of the outgoing slot's queue
    up,         \* the writer's connection: "down", "up", or "again" (reconnect)
    stats       \* the counters, and the keys spent and lost
relayVars == <<stream, announced, dec, intake, hand, tasks, orr, sends, enc,
               supplied, out, up, stats>>
readVars == <<stream, announced, intake>>
keyVars == <<enc, supplied>>
localVars == <<orr, sends>>

Init ==
    /\ stream = <<>> /\ announced = {} /\ dec = {}
    /\ intake = <<>> /\ hand = <<>> /\ tasks = {}
    /\ orr = NumLocal /\ sends = {}
    /\ enc = 0 /\ supplied = 0 /\ out = 0 /\ up = "down"
    /\ stats = [sent |-> 0, starts |-> 0, delivered |-> 0, forwarded |-> 0, errs |-> 0,
                refused |-> 0, full |-> 0, localOk |-> 0, localErr |-> 0,
                pads |-> 0, pushed |-> 0, burnt |-> 0]

Count(s, f, n) == [s EXCEPT ![f] = @ + n]

-----------------------------------------------------------------------------
(* The neighbour, external: it writes frame i and the NOTIFY of key i, in   *)
(* either order (absorb_enc_keys wakes a sender before it sends the NOTIFY) *)
(* or without the NOTIFY (its queue was full).                              *)
PeerWrites ==
    /\ stats.sent < NumFrames
    /\ LET i == stats.sent + 1 IN
       \E a \in Ask, auth \in {"ok", "bad", "unknown"},
          order \in {"notified", "late", "never"} :
         LET data == [kind |-> "data", id |-> i, to |-> a.to, need |-> a.need, auth |-> auth]
             note == [kind |-> "notify", id |-> i]
         IN /\ auth # "ok" => a.to = "me" /\ order = "never"
            /\ stream' = stream \o CASE order = "notified" -> <<note, data>>
                                     [] order = "late" -> <<data, note>>
                                     [] OTHER -> <<data>>
            /\ stats' = Count(stats, "sent", 1)
    /\ UNCHANGED <<announced, dec, intake, hand, tasks, localVars, keyVars, out, up>>

(* handle_conn: NOTIFYs are applied on the spot; a data frame is            *)
(* authenticated here, then queued with try_send, dropped when full.  A     *)
(* sender without a link goes through unauthenticated.                      *)
Read ==
    /\ stream # <<>> /\ stream' = Tail(stream)
    /\ LET f == Head(stream) IN
       CASE f.kind = "notify" -> /\ announced' = announced \cup {f.id}
                                 /\ UNCHANGED <<intake, stats>>
         [] f.kind = "data" /\ f.auth = "bad" ->
              stats' = Count(stats, "refused", 1) /\ UNCHANGED <<announced, intake>>
         [] OTHER -> IF Len(intake) < IntakeCap
                     THEN intake' = Append(intake, f) /\ UNCHANGED <<announced, stats>>
                     ELSE stats' = Count(stats, "full", 1) /\ UNCHANGED <<announced, intake>>
    /\ UNCHANGED <<dec, hand, tasks, localVars, keyVars, out, up>>

-----------------------------------------------------------------------------
(* The dispatcher: takes a frame, then waits for a permit, then spawns.     *)
Dispatch ==
    /\ hand = <<>> /\ intake # <<>>
    /\ hand' = <<Head(intake)>> /\ intake' = Tail(intake)
    /\ UNCHANGED <<stream, announced, dec, tasks, localVars, keyVars, out, up, stats>>

\* The beginning of handle_incoming, as far as lookup_or_fetch_dec's first look.
Spawn ==
    /\ hand # <<>> /\ Cardinality(tasks) < MaxInflight
    /\ hand' = <<>>
    /\ LET f == hand[1] IN
       IF f.auth = "unknown" \/ f.id \notin dec \cup announced
       THEN /\ stats' = Count(Count(stats, "starts", 1), "errs", 1)   \* UnknownNeighbor, not announced
            /\ UNCHANGED tasks
       ELSE /\ stats' = Count(stats, "starts", 1)
            /\ tasks' = tasks \cup {[id |-> f.id, to |-> f.to, need |-> f.need, at |-> "dec", got |-> 0]}
    /\ UNCHANGED <<readVars, dec, localVars, keyVars, out, up>>

\* dec_refill_loop inserts an announced key (DecBuffer).
DecArrives(i) ==
    /\ i \in announced
    /\ announced' = announced \ {i} /\ dec' = dec \cup {i}
    /\ UNCHANGED <<stream, intake, hand, tasks, localVars, keyVars, out, up, stats>>

\* wait_dec gives up after DEC_WAIT_TIMEOUT.
DecTimeout(t) ==
    /\ t.at = "dec" /\ t.id \notin dec
    /\ tasks' = tasks \ {t} /\ stats' = Count(stats, "errs", 1)
    /\ UNCHANGED <<readVars, dec, hand, localVars, keyVars, out, up>>

\* forward_plaintext refuses a payload of too many chunks before it takes a key.
Oversize(need) == need > MaxChunks

\* The key is taken from the map; delivered here, refused, or on to the next link.
Decrypted(t) ==
    /\ t.at = "dec" /\ t.id \in dec
    /\ dec' = dec \ {t.id}
    /\ CASE t.to = "me" -> tasks' = tasks \ {t} /\ stats' = Count(stats, "delivered", 1)
         [] t.to = "lost" \/ Oversize(t.need) ->
              tasks' = tasks \ {t} /\ stats' = Count(stats, "errs", 1)
         [] OTHER -> tasks' = (tasks \ {t}) \cup {[t EXCEPT !.at = "enc"]} /\ UNCHANGED stats
    /\ UNCHANGED <<readVars, hand, localVars, keyVars, out, up>>

-----------------------------------------------------------------------------
(* The ORR's frames: the reader takes a permit before it spawns.            *)
LocalSend ==
    /\ orr > 0 /\ Cardinality(sends) < MaxLocal
    /\ orr' = orr - 1
    /\ \E a \in Ask :
         IF a.to # "next" \/ Oversize(a.need)   \* dest is this node, no route, too long
         THEN stats' = Count(stats, "localErr", 1) /\ UNCHANGED sends
         ELSE sends' = sends \cup {[id |-> orr, need |-> a.need, got |-> 0]} /\ UNCHANGED stats
    /\ UNCHANGED <<readVars, dec, hand, tasks, keyVars, out, up>>

-----------------------------------------------------------------------------
(* take_or_fetch_enc, encrypt and send_frame_to_peer, for both kinds of     *)
(* task: ts is the set the task t belongs to.                               *)
EncArrives ==
    /\ supplied < NumKeys
    /\ supplied' = supplied + 1 /\ enc' = enc + 1
    /\ UNCHANGED <<readVars, dec, hand, tasks, localVars, out, up, stats>>

\* wait_enc_batch takes what there is and keeps it while it waits for more.
Taken(t) == IF enc < t.need - t.got THEN enc ELSE t.need - t.got

\* PeerOut::send: the frame is queued or, the queue full, dropped with its keys.
Push(s, o, good, bad, n) ==
    IF o < OutCap THEN out' = o + 1 /\ stats' = Count(Count(s, good, 1), "pushed", n)
    ELSE out' = o /\ stats' = Count(Count(s, bad, 1), "burnt", n)

TakeEnc(t, ts, good, bad) ==
    LET k == Taken(t)
        spent == Count(stats, "pads", k)
    IN /\ k > 0 /\ enc' = enc - k
       /\ IF t.got + k = t.need
          THEN ts' = ts \ {t} /\ Push(spent, out, good, bad, t.need)
          ELSE ts' = (ts \ {t}) \cup {[t EXCEPT !.got = @ + k]} /\ stats' = spent /\ UNCHANGED out

EncTimeoutHolds(t, ts, bad) ==   \* Mutant: the task does not end at its deadline
    /\ enc = 0 /\ ts' = ts /\ UNCHANGED stats

\* ENC_WAIT_TIMEOUT: what the task had taken is lost with it.
EncTimeout(t, ts, bad) ==
    /\ enc = 0 /\ ts' = ts \ {t}
    /\ stats' = Count(Count(stats, bad, 1), "burnt", t.got)

Relay(t) ==
    /\ t.at = "enc"
    /\ \/ TakeEnc(t, tasks, "forwarded", "errs")
       \/ EncTimeout(t, tasks, "errs") /\ UNCHANGED <<enc, out>>
    /\ UNCHANGED <<readVars, dec, hand, localVars, supplied, up>>

LocalRelay(t) ==
    /\ \/ TakeEnc(t, sends, "localOk", "localErr")
       \/ EncTimeout(t, sends, "localErr") /\ UNCHANGED <<enc, out>>
    /\ UNCHANGED <<readVars, dec, hand, tasks, orr, supplied, up>>

-----------------------------------------------------------------------------
(* writer_loop of the outgoing slot.                                        *)
Connects ==
    /\ up \in {"down", "again"} /\ up' = "up"
    /\ UNCHANGED <<readVars, dec, hand, tasks, localVars, keyVars, out, stats>>

\* The frame that was popped goes out or is lost with the connection.
Writes ==
    /\ up = "up" /\ out > 0 /\ out' = out - 1
    /\ up' \in {"up", "again"}
    /\ UNCHANGED <<readVars, dec, hand, tasks, localVars, keyVars, stats>>

\* peer_hung_up: an idle writer notices that the neighbour closed.
HangsUp ==
    /\ up = "up" /\ out = 0 /\ up' = "again"
    /\ UNCHANGED <<readVars, dec, hand, tasks, localVars, keyVars, out, stats>>

Next ==
    \/ PeerWrites \/ Read \/ Dispatch \/ Spawn \/ LocalSend
    \/ \E i \in 1..NumFrames : DecArrives(i)
    \/ \E t \in tasks : DecTimeout(t) \/ Decrypted(t) \/ Relay(t)
    \/ \E t \in sends : LocalRelay(t)
    \/ EncArrives \/ Connects \/ Writes \/ HangsUp

Spec == Init /\ [][Next]_relayVars

(* Readers, dispatcher and writer are loops of their own; every wait of a   *)
(* task has a deadline.  Nothing is assumed of the keys.                    *)
FairSpec ==
    /\ Spec
    /\ WF_relayVars(Read \/ Dispatch \/ Spawn)
    /\ WF_relayVars(\E t \in tasks : DecTimeout(t) \/ Decrypted(t) \/ Relay(t))
    /\ WF_relayVars(LocalSend \/ \E t \in sends : LocalRelay(t))
    /\ WF_relayVars(Connects) /\ SF_relayVars(Writes)

-----------------------------------------------------------------------------
(* Everything has its type: the queues, the permits and the counters stay   *)
(* within their bounds.                                                     *)
TypeOK ==
    /\ Len(stream) <= 2 * NumFrames /\ announced \subseteq 1..NumFrames
    /\ dec \subseteq 1..NumFrames
    /\ Len(intake) <= IntakeCap /\ Len(hand) <= 1
    /\ Cardinality(tasks) <= MaxInflight /\ Cardinality(sends) <= MaxLocal
    /\ orr \in 0..NumLocal /\ enc \in 0..NumKeys /\ supplied \in 0..NumKeys
    /\ out \in 0..OutCap /\ up \in {"down", "up", "again"}
    /\ \A f \in DOMAIN stats : stats[f] \in 0..(NumFrames + NumLocal + NumKeys)

Held(ts) == MapThenSumSet(LAMBDA t : t.got, ts)

Unread == Cardinality({j \in DOMAIN stream : stream[j].kind = "data"})

(* No frame disappears uncounted: what the neighbour wrote is in one of the *)
(* queues, in a task, or in exactly one of the counters an operator sees    *)
(* (delivered, forwarded, errs, intake_dropped_full, refused).              *)
Accounted ==
    /\ stats.sent = Unread + Len(intake) + Len(hand) + stats.refused + stats.full + stats.starts
    /\ stats.starts = Cardinality(tasks) + stats.delivered + stats.forwarded + stats.errs
    /\ NumLocal = orr + Cardinality(sends) + stats.localOk + stats.localErr

(* Keys of the outgoing link are only spent on frames that can be sent: a   *)
(* key that left the ring is held by a waiting task, went out with a frame, *)
(* or was lost to a time-out or a full queue.  A frame that is not routed   *)
(* or is too long costs none.                                               *)
PadsSpent ==
    /\ stats.pads + enc = supplied
    /\ stats.pads = stats.pushed + stats.burnt + Held(tasks) + Held(sends)
    /\ \A t \in tasks \cup sends : t.got < t.need /\ (t.got > 0 => t.need <= MaxChunks)

Ended ==
    /\ stream = <<>> /\ intake = <<>> /\ hand = <<>> /\ tasks = {}
    /\ orr = 0 /\ sends = {} /\ out = 0

(* Whatever keys fail to come, every frame ends and its permit is given     *)
(* back, so a starved link cannot hold the node's intake for ever, and what *)
(* was queued for the neighbour goes out.                                   *)
Ends == <>[]Ended

=============================================================================
