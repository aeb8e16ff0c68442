----------------------------- MODULE OrrStream -----------------------------
(***************************************************************************)
(* How what an ORR delivers reaches its DKMS: OrrService broadcasts to its *)
(* subscribers, one task per StreamDeliveries call forwards to the gRPC    *)
(* stream (orr/src/grpc_server.rs), and the DKMS's pump reads the stream   *)
(* and subscribes again when it breaks (dkms/src/service.rs).              *)
(*                                                                         *)
(* A message is its number.  The broadcast channel keeps the last Cap; a   *)
(* subscriber that is further behind loses the ones in between.  The task  *)
(* of a stream that broke finds out when it has something to send.         *)
(***************************************************************************)
EXTENDS Naturals, Sequences, FiniteSets

CONSTANTS
    Cap,          \* deliver_queue_capacity, of the broadcast and of each stream
    MaxSubs,      \* MAX_DELIVERY_SUBSCRIBERS
    Legacy,       \* messages whose msg_type is not DKMS_BUFFER
    MaxBackoff,   \* the longest wait of the pump, in doublings
    MaxMessages,  \* bound
    MaxBreaks     \* bound

VARIABLES
    sent,      \* messages broadcast so far
    subs,      \* the forwarding tasks: Stream -> [next, hand, out, gone]
               \* gone: sent + 1 when the stream broke, 0 while it is there
    stream,    \* the stream the pump reads, 0 when none
    backoff,   \* the pump's wait
    taken,     \* the messages handle_orr_delivery put into buffer_dec
    breaks
streamVars == <<sent, subs, stream, backoff, taken, breaks>>

Stream == 1..MaxBreaks + 1
Running == DOMAIN subs
Minimum(a, b) == IF a < b THEN a ELSE b

Init ==
    /\ sent = 0 /\ subs = <<>> /\ stream = 0
    /\ backoff = 0 /\ taken = <<>> /\ breaks = 0

----------------------------------------------------------------------------
(* The ORR.                                                                *)

\* broadcast_delivery: without a subscriber nobody will see the message.
Deliver ==
    /\ sent < MaxMessages
    /\ sent' = sent + 1
    /\ UNCHANGED <<subs, stream, backoff, taken, breaks>>

\* The oldest message the channel still has.
Oldest == IF sent > Cap THEN sent - Cap + 1 ELSE 1

\* rx.recv: after Lagged the task goes on with the oldest.
Recv(s) ==
    /\ s \in Running /\ subs[s].hand = <<>> /\ subs[s].next <= sent
    /\ subs' = IF subs[s].next < Oldest
               THEN [subs EXCEPT ![s].next = Oldest]
               ELSE [subs EXCEPT ![s].next = @ + 1, ![s].hand = <<subs[s].next>>]
    /\ UNCHANGED <<sent, stream, backoff, taken, breaks>>

Without(s) == [r \in Running \ {s} |-> subs[r]]

\* tx.send waits for room and fails once the client is gone.
Push(s) ==
    /\ s \in Running /\ subs[s].hand # <<>>
    /\ \/ /\ subs[s].gone = 0 /\ Len(subs[s].out) < Cap
          /\ subs' = [subs EXCEPT ![s].hand = <<>>, ![s].out = @ \o subs[s].hand]
       \/ subs[s].gone # 0 /\ subs' = Without(s)
    /\ UNCHANGED <<sent, stream, backoff, taken, breaks>>

----------------------------------------------------------------------------
(* The DKMS.                                                               *)

Doubled == Minimum(backoff + 1, MaxBackoff)

\* subscribe_deliveries: a new receiver sees what comes after it.
First == sent + 1

Subscribe ==
    /\ stream = 0
    /\ IF Cardinality(Running) < MaxSubs
       THEN LET s == breaks + 1 IN
            /\ subs' = [r \in Running \cup {s} |->
                         IF r = s THEN [next |-> First, hand |-> <<>>, out |-> <<>>, gone |-> 0]
                         ELSE subs[r]]
            /\ stream' = s /\ backoff' = 0
       ELSE backoff' = Doubled /\ UNCHANGED <<subs, stream>>
    /\ UNCHANGED <<sent, taken, breaks>>

\* handle_orr_delivery: anything but a buffer key is discarded.
Taken(m) == IF m \in Legacy THEN taken ELSE Append(taken, m)

HandleOrrDelivery ==
    /\ stream # 0 /\ subs[stream].out # <<>>
    /\ taken' = Taken(Head(subs[stream].out))
    /\ subs' = [subs EXCEPT ![stream].out = Tail(@)]
    /\ UNCHANGED <<sent, stream, backoff, breaks>>

\* The stream breaks: what was in it is lost, and the pump waits.
Break ==
    /\ stream # 0 /\ breaks < MaxBreaks
    /\ subs' = [subs EXCEPT ![stream].gone = sent + 1, ![stream].out = <<>>]
    /\ stream' = 0 /\ backoff' = Doubled /\ breaks' = breaks + 1
    /\ UNCHANGED <<sent, taken>>

Next ==
    \/ Deliver \/ Subscribe \/ HandleOrrDelivery \/ Break
    \/ \E s \in Stream : Recv(s) \/ Push(s)

Spec == Init /\ [][Next]_streamVars

\* The tasks run, and the pump tries again after every wait.
FairSpec ==
    /\ Spec /\ WF_streamVars(Subscribe) /\ WF_streamVars(HandleOrrDelivery)
    /\ \A s \in Stream : WF_streamVars(Recv(s) \/ Push(s))

----------------------------------------------------------------------------
(* Everything has its type, and the subscribers keep to their limit.       *)
TypeOK ==
    /\ sent \in 0..MaxMessages /\ breaks \in 0..MaxBreaks /\ backoff \in 0..MaxBackoff
    /\ Running \subseteq Stream /\ Cardinality(Running) <= MaxSubs
    /\ stream \in Running \cup {0}
    /\ \A s \in Running : subs[s].next \in 1..sent + 1 /\ Len(subs[s].out) <= Cap

(* However often the stream breaks, no key reaches buffer_dec twice or     *)
(* after a later one: a stream that is opened again does not overlap the   *)
(* one before it.                                                          *)
TakenOnce == \A i, j \in 1..Len(taken) : i < j => taken[i] < taken[j]

\* Every place is held by a task whose stream ended after the last message.
Crowded ==
    /\ Cardinality(Running) = MaxSubs
    /\ \A s \in Running : subs[s].gone = sent + 1

(* A DKMS whose stream broke is subscribed again, unless every place is    *)
(* held by a task whose stream is gone and nothing was delivered since:    *)
(* the next delivery, which is then lost, ends those tasks.                *)
Resubscribes == <>[](stream = 0 => Crowded)
============================================================================
