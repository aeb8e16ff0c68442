------------------------------ MODULE E2eEpochs ------------------------------
(***************************************************************************)
(* The end-to-end layer between two DKMSs (dkms/src/e2e.rs): how they agree*)
(* on epochs over POST /kmapi/v1/e2e/kem, with which epoch each seals its  *)
(* transport keys, and what brings them together again after a lost call   *)
(* or a restart.                                                           *)
(*                                                                         *)
(* Whoever lacks an epoch asks; whoever answers names the epoch and adopts *)
(* it at once.  An epoch is named here by the ephemeral key it was agreed  *)
(* with: the code draws a random u32, which is taken not to repeat.        *)
(* Freshness of the single frames is ReplayWindow's.                       *)
(***************************************************************************)
EXTENDS Naturals, Sequences, FiniteSetsExt

CONSTANTS
  Keep,       \* epoch_history_keep
  Burst,      \* respond_burst
  MaxRekeys,  \* bound: agreements asked for by the rekey loop
  MaxFaults   \* bound: calls given up and restarts

Node == {"a", "b"}
Peer(x) == IF x = "a" THEN "b" ELSE "a"

VARIABLES
  epochs,     \* PeerState.epochs: [id, ok], ok unless decapsulated with another key
  send,       \* send_epoch, or 0
  pending,    \* pending_esk: the key of the agreement under way, or 0
  inflight,   \* a task of this node is in request_agreement
  recent,     \* AGREEMENT_MIN_INTERVAL since last_attempt is not over
  quota,      \* answers left before the interval of last_response is over
  calls,      \* POSTs under way: [by, id, at, live]
  rekeys, faults

agreement == <<epochs, send, pending, inflight>>
vars == <<epochs, send, pending, inflight, recent, quota, calls, rekeys, faults>>

Held(x) == {epochs[x][i].id : i \in 1 .. Len(epochs[x])}
InUse == UNION {Held(x) \cup {pending[x]} : x \in Node} \cup {c.id : c \in calls}
Fresh == CHOOSE n \in 1 .. Cardinality(InUse) + 1 :
           n \notin InUse /\ \A m \in 1 .. n - 1 : m \in InUse

Init ==
  /\ epochs = [x \in Node |-> <<>>]
  /\ send = [x \in Node |-> 0] /\ pending = [x \in Node |-> 0]
  /\ inflight = [x \in Node |-> FALSE] /\ recent = [x \in Node |-> FALSE]
  /\ quota = [x \in Node |-> Burst]
  /\ calls = {}
  /\ rekeys = 0 /\ faults = 0

-----------------------------------------------------------------------------
(* PeerState.store: the newest Keep epochs, and the new one is sealed with. *)

Store(x, id, ok) ==
  LET all == Append(epochs[x], [id |-> id, ok |-> ok])
  IN  /\ epochs' = [epochs EXCEPT ![x] = IF Len(all) > Keep THEN Tail(all) ELSE all]
      /\ send' = [send EXCEPT ![x] = id]

-----------------------------------------------------------------------------
(* Asking: request_agreement, begin_request, complete_request. *)

MayAsk(x) == ~inflight[x] /\ ~recent[x]

Asked(x) == [by |-> x, id |-> Fresh, at |-> "sent", live |-> TRUE]

RequestAgreement(x) ==
  IF MayAsk(x)
  THEN /\ inflight' = [inflight EXCEPT ![x] = TRUE]
       /\ recent' = [recent EXCEPT ![x] = TRUE]
       /\ pending' = [pending EXCEPT ![x] = Fresh]
       /\ calls' = calls \cup {Asked(x)}
  ELSE UNCHANGED <<inflight, recent, pending, calls>>

\* The task ends: the flag is cleared, and what is left of the key.
Ended(x) ==
  /\ inflight' = [inflight EXCEPT ![x] = FALSE]
  /\ pending' = [pending EXCEPT ![x] = 0]

Complete(c) ==
  /\ c.at = "answered" /\ c.live
  /\ IF pending[c.by] = 0 THEN UNCHANGED <<epochs, send>>
     ELSE Store(c.by, c.id, pending[c.by] = c.id)
  /\ Ended(c.by)
  /\ calls' = calls \ {c}
  /\ UNCHANGED <<recent, quota, rekeys, faults>>

\* A refusal, or a request the peer never saw.
CallFails(c) ==
  /\ c.live /\ c.at = "refused"
  /\ Ended(c.by)
  /\ calls' = calls \ {c}
  /\ UNCHANGED <<epochs, send, recent, quota, rekeys, faults>>

\* The caller gives up; the peer may still handle the request.
GiveUp(c) ==
  /\ c.live /\ faults < MaxFaults
  /\ Ended(c.by)
  /\ calls' = (calls \ {c}) \cup (IF c.at = "sent" THEN {[c EXCEPT !.live = FALSE]} ELSE {})
  /\ faults' = faults + 1
  /\ UNCHANGED <<epochs, send, recent, quota, rekeys>>

-----------------------------------------------------------------------------
(* Answering: respond, limited to Burst answers in an interval. *)

Respond(c) ==
  LET y == Peer(c.by)
      answer(at) == (calls \ {c}) \cup (IF c.live THEN {[c EXCEPT !.at = at]} ELSE {})
  IN  /\ c.at = "sent"
      /\ IF quota[y] = 0
         THEN calls' = answer("refused") /\ UNCHANGED <<epochs, send, quota>>
         ELSE /\ Store(y, c.id, TRUE)
              /\ quota' = [quota EXCEPT ![y] = @ - 1]
              /\ calls' = answer("answered")
      /\ UNCHANGED <<pending, inflight, recent, rekeys, faults>>

\* Only counts once the agreement is over: until then the flag stands in the way.
IntervalElapses(x) ==
  /\ recent[x] /\ ~inflight[x]
  /\ recent' = [recent EXCEPT ![x] = FALSE]
  /\ UNCHANGED <<agreement, quota, calls, rekeys, faults>>

QuotaRenewed(x) ==
  /\ quota[x] < Burst
  /\ quota' = [quota EXCEPT ![x] = Burst]
  /\ UNCHANGED <<agreement, recent, calls, rekeys, faults>>

-----------------------------------------------------------------------------
(* Transport keys: sealed at the generator, opened at the delivery. *)

\* Without an epoch the sender asks; an epoch the receiver lacks makes it ask.  The
\* way between the two is left out: a frame that took long asks once more at most.
Send(x) ==
  /\ CASE send[x] = 0 -> MayAsk(x) /\ RequestAgreement(x)
       [] send[x] # 0 -> /\ send[x] \notin Held(Peer(x)) /\ MayAsk(Peer(x))
                         /\ RequestAgreement(Peer(x))
  /\ UNCHANGED <<epochs, send, quota, rekeys, faults>>

\* spawn_rekey_loop, by time or by volume.
Rekey(x) ==
  /\ send[x] # 0 /\ MayAsk(x)
  /\ rekeys < MaxRekeys /\ rekeys' = rekeys + 1
  /\ RequestAgreement(x)
  /\ UNCHANGED <<epochs, send, quota, faults>>

\* x starts again: requests it had not answered fail, those it made may be handled.
Restart(x) ==
  /\ faults < MaxFaults /\ faults' = faults + 1
  /\ epochs' = [epochs EXCEPT ![x] = <<>>] /\ send' = [send EXCEPT ![x] = 0]
  /\ Ended(x)
  /\ recent' = [recent EXCEPT ![x] = FALSE]
  /\ quota' = [quota EXCEPT ![x] = Burst]
  /\ calls' = {[c EXCEPT !.live = FALSE] : c \in {d \in calls : d.by = x /\ d.at = "sent"}}
        \cup {[c EXCEPT !.at = IF @ = "sent" THEN "refused" ELSE @] :
                  c \in {d \in calls : d.by # x /\ d.live}}
  /\ UNCHANGED rekeys

Next ==
  \/ \E c \in calls : Respond(c) \/ Complete(c) \/ CallFails(c) \/ GiveUp(c)
  \/ \E x \in Node : \/ Send(x) \/ Rekey(x) \/ Restart(x)
                     \/ IntervalElapses(x) \/ QuotaRenewed(x)

Spec == Init /\ [][Next]_vars

\* Requests are handled and answered, the intervals pass, and both DKMSs keep
\* having keys to send; nothing need be given up, rekeyed or restarted.
Fairness ==
  /\ WF_vars(\E c \in calls : Respond(c))
  /\ \A x \in Node : /\ WF_vars(\E c \in calls : c.by = x /\ (Complete(c) \/ CallFails(c)))
                     /\ WF_vars(Send(x))
                     /\ WF_vars(IntervalElapses(x)) /\ WF_vars(QuotaRenewed(x))

FairSpec == Spec /\ Fairness

-----------------------------------------------------------------------------
(* Properties. *)

TypeOK ==
  /\ \A x \in Node : /\ Len(epochs[x]) <= Keep
                     /\ Cardinality(Held(x)) = Len(epochs[x])
                     /\ send[x] \in Held(x) \cup {0}
                     /\ pending[x] # 0 => inflight[x]
                     /\ quota[x] \in 0 .. Burst
  /\ \A c \in calls : c.at \in {"sent", "answered", "refused"}
  /\ rekeys \in 0 .. MaxRekeys /\ faults \in 0 .. MaxFaults

\* An epoch has one secret: the key a node decapsulates an answer with is the one
\* the answer was made for, however agreements of both nodes cross, are given up
\* and are begun again (request_agreement's flag, complete_request's take).
OneSecret == \A x \in Node : \A i \in 1 .. Len(epochs[x]) : epochs[x][i].ok

Opens(x) == send[x] # 0 /\ send[x] \in Held(Peer(x))

\* After lost answers, requests handled too late and restarts, each direction can be
\* opened again and again: whoever meets an epoch it lacks asks.  (Not both at once:
\* agreements asked for by both sides may keep crossing if answers are slow.)
Reconciles == \A x \in Node : []<>Opens(x)
==============================================================================
