------------------------------ MODULE PathCache ------------------------------
(***************************************************************************)
(* The caches of what the SDN said, and the event stream that clears them: *)
(* Pushers (sdn/src/push.rs), the path cache of an ORR (orr/src/service.rs,*)
(* the topology subscriber and send_onion_path) and the SAE binding cache  *)
(* of a DKMS (dkms/src/main.rs and dkms/src/sae_binding.rs).               *)
(*                                                                         *)
(* One subscriber and one cached answer.  An answer is TRUE while it is    *)
(* what the SDN would answer now, FALSE once the topology has changed.  The*)
(* watcher is reduced to when it broadcasts: after a change of version,    *)
(* and again as long as some QKC does not accept its table (TopologyPush). *)
(* MAX_SUBSCRIBERS is not reached by one subscriber; a refused or unknown  *)
(* SAE, which the DKMS remembers for 5 s, is an answer like the others.    *)
(***************************************************************************)
EXTENDS Naturals

CONSTANTS
  Cap,        \* capacity of a subscriber's channel (64)
  Ttl,        \* whether cached answers expire (the DKMS's do, the ORR's do not)
  MaxBumps,   \* bound: changes of the topology
  MaxFaults,  \* bound: times a stream breaks
  None        \* no value

VARIABLES
  told,       \* the watcher has broadcast the current version for the last time
  client,     \* the subscriber's loop: "off" (sleeping) or "on" (reading)
  tx,         \* Pushers holds a sender for the stream
  queue,      \* events in the channel
  cache,      \* the cached answer, or None
  query,      \* the answer on its way from the SDN, or None
  bumps,      \* changes so far
  faults      \* broken streams so far

vars == <<told, client, tx, queue, cache, query, bumps, faults>>

Init ==
  /\ told = FALSE
  /\ client = "off" /\ tx = FALSE /\ queue = 0
  /\ cache = None /\ query = None
  /\ bumps = 0 /\ faults = 0

Outdated(answer) == IF answer = None THEN None ELSE FALSE

\* The topology changes, and its version with it.
Bump ==
  /\ bumps < MaxBumps /\ bumps' = bumps + 1
  /\ told' = FALSE
  /\ cache' = Outdated(cache) /\ query' = Outdated(query)
  /\ UNCHANGED <<client, tx, queue, faults>>

\* Pushers::broadcast: a subscriber whose channel is full loses its sender.
Broadcast ==
  /\ ~told
  /\ told' \in BOOLEAN
  /\ tx' = (tx /\ queue < Cap)
  /\ queue' = IF tx' THEN queue + 1 ELSE queue
  /\ UNCHANGED <<client, cache, query, bumps, faults>>

-----------------------------------------------------------------------------
(* The subscriber's loop. *)

\* stream_topology and Pushers::subscribe.
Connect ==
  /\ client = "off"
  /\ client' = "on" /\ tx' = TRUE /\ queue' = 0
  /\ UNCHANGED <<told, cache, query, bumps, faults>>

\* Every event clears the cache.
Event ==
  /\ client = "on" /\ queue > 0
  /\ queue' = queue - 1
  /\ cache' = None
  /\ UNCHANGED <<told, client, tx, query, bumps, faults>>

\* The SDN dropped the sender and the channel is drained: sleep and reconnect.
StreamEnds ==
  /\ client = "on" /\ queue = 0 /\ ~tx
  /\ client' = "off"
  /\ UNCHANGED <<told, tx, queue, cache, query, bumps, faults>>

\* The connection breaks, with whatever was in it.
StreamBreaks ==
  /\ client = "on" /\ faults < MaxFaults
  /\ client' = "off" /\ tx' = FALSE /\ queue' = 0
  /\ faults' = faults + 1
  /\ UNCHANGED <<told, cache, query, bumps>>

-----------------------------------------------------------------------------
(* The users of the cache: send_onion_path, SaeBindingCache::resolve. *)

\* A miss asks the SDN, which answers from its current snapshot ...
Ask ==
  /\ cache = None /\ query = None
  /\ query' = TRUE
  /\ UNCHANGED <<told, client, tx, queue, cache, bumps, faults>>

\* ... and the answer is cached when it arrives.
Answered ==
  /\ query # None
  /\ cache' = query /\ query' = None
  /\ UNCHANGED <<told, client, tx, queue, bumps, faults>>

Expire ==
  /\ Ttl /\ cache # None
  /\ cache' = None
  /\ UNCHANGED <<told, client, tx, queue, query, bumps, faults>>

-----------------------------------------------------------------------------

Next ==
  \/ Bump \/ Broadcast
  \/ Connect \/ Event \/ StreamEnds \/ StreamBreaks
  \/ Ask \/ Answered \/ Expire

Spec == Init /\ [][Next]_vars

\* The watcher ticks, the subscriber's loop runs, a query is answered and a
\* time-to-live runs out.
Fairness ==
  /\ WF_vars(Broadcast)
  /\ WF_vars(Connect) /\ WF_vars(Event) /\ WF_vars(StreamEnds)
  /\ WF_vars(Answered) /\ WF_vars(Expire)

FairSpec == Spec /\ Fairness

-----------------------------------------------------------------------------
(* Properties. *)

\* Every variable holds a value of its type; the channel never holds more than
\* Cap events, and its events outlive its sender (broadcast).
TypeOK ==
  /\ told \in BOOLEAN
  /\ client \in {"off", "on"} /\ tx \in BOOLEAN /\ queue \in 0 .. Cap
  /\ client = "off" => ~tx /\ queue = 0
  /\ cache \in BOOLEAN \cup {None} /\ query \in BOOLEAN \cup {None}
  /\ bumps \in 0 .. MaxBumps /\ faults \in 0 .. MaxFaults

Fresh == cache # FALSE

\* Once the topology stops changing no outdated answer is used any more, if answers
\* expire (SaeBindingCache).  The path cache of an ORR has no time-to-live and only its
\* events: it keeps for good an answer that was under way when the event came, and one
\* whose event was sent while it was reconnecting, for a new stream starts with no event
\* and the loop does not clear the cache - though push.rs says that a disconnected
\* subscriber "reconecta y re-sincroniza".
CacheFresh == <>[]Fresh
=============================================================================
