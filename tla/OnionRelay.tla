----------------------------- MODULE OnionRelay -----------------------------
(***************************************************************************)
(* How the ORRs carry a message (orr/src/service.rs, onion.rs,             *)
(* onion_replay.rs, qkc_link.rs): a message leaves with as many onion      *)
(* layers as its mode asks for, every ORR on the way peels one and passes  *)
(* the rest on, and the last one delivers.                                 *)
(*                                                                         *)
(* A layer opens with the secret it was sealed with and with the same hops *)
(* left, epoch, session and counter.  The QKCs between two ORRs may lose,  *)
(* repeat and reorder; how secrets are agreed on is OrrEpochs, how a       *)
(* window forgets is ReplayWindow (here no window ever slides: 65 536).    *)
(***************************************************************************)
EXTENDS Naturals, Sequences, FiniteSetsExt

CONSTANTS
  Orr,        \* the ORRs, all of them peers of each other
  Sends,      \* what the DKMSs ask for: [from, to, mode, hint]
  SdnPath,    \* the SDN's path to the destination, by version of the topology
  QueueCap,   \* SEND_QUEUE_CAPACITY
  MaxMessages,\* bound: messages
  MaxEvents   \* bound: messages, frames lost or repeated, links broken, restarts, rotations

None == 0
NoPath == <<>>
Passthrough == 0
E2e == 1
FullPath == 9   \* max_hops = -1

VARIABLES
  session,    \* onion_session: names the incarnation
  counter,    \* onion_counter
  secret,     \* secret[x][y]: the secrets x holds for y, one for each epoch it keeps
  secrets,    \* secrets agreed on so far
  cache,      \* path_cache of each ORR, for the one destination of Sends
  lookup,     \* GetOrrPath under way: <<[request, path]>>, or nothing
  topo,       \* version of the SDN's topology
  out,        \* frames queued for the QKC
  up,         \* the connection to the QKC is up
  net,        \* frames on their way between the QKCs
  seen,       \* onion_replay of each ORR
  sent, got,  \* history: messages sent; how often and where each was delivered
  faults

vars == <<session, counter, secret, secrets, cache, lookup, topo, out, up, net, seen,
          sent, got, faults>>

Init ==
  /\ session = [x \in Orr |-> 1] /\ counter = [x \in Orr |-> 0]
  /\ secret = [x \in Orr |-> [y \in Orr |-> {1}]] /\ secrets = 1
  /\ cache = [x \in Orr |-> NoPath] /\ lookup = [x \in Orr |-> <<>>]
  /\ topo = 1
  /\ out = [x \in Orr |-> <<>>] /\ up = [x \in Orr |-> TRUE] /\ net = {}
  /\ seen = [x \in Orr |-> {}]
  /\ sent = <<>> /\ got = <<>> /\ faults = 0

-----------------------------------------------------------------------------
(* build_onion: the layers, outermost first. *)

\* send_epoch_for: the newest epoch; a rotation is taken to be complete at both ends.
SendSecret(x, y) == Max(secret[x][y])

Layer(x, path, i) ==
  [orr |-> path[i], secret |-> SendSecret(x, path[i]), hops |-> Len(path) - i]

BuildOnion(x, path) == [i \in 1 .. Len(path) |-> Layer(x, path, i)]

\* The header and the payload of a frame; a passthrough frame has no layers.
OnionFrame(m, path, c) ==
  [msg |-> m.id, from |-> m.from, to |-> m.to, dest |-> path[1], session |-> session[m.from],
   counter |-> c, hops |-> Len(path) - 1, layers |-> BuildOnion(m.from, path)]

PassthroughFrame(m) ==
  [msg |-> m.id, from |-> m.from, to |-> m.to, dest |-> m.to, session |-> None,
   counter |-> None, hops |-> 0, layers |-> <<>>]

-----------------------------------------------------------------------------
(* The path of an onion. *)

\* The destination comes last.
EndAt(path, dest) == IF path[Len(path)] = dest THEN path ELSE Append(path, dest)

\* select_random_hops: n of the hops in their order, the destination among them.
RandomHops(path, n) ==
  IF n >= Len(path) THEN {path}
  ELSE {LET nth(i) == CHOOSE k \in c : Cardinality({j \in c : j <= k}) = i
        IN  [i \in 1 .. n |-> IF i = n THEN path[Len(path)] ELSE path[nth(i)]] :
            c \in {s \in SUBSET (1 .. Len(path) - 1) : Cardinality(s) = n - 1}}

\* The paths a message may take, from a hint of orr_ids.
Paths(m, hint) ==
  LET full == EndAt(SelectSeq(hint, LAMBDA y : y # m.from), m.to)
  IN  IF m.mode = FullPath THEN {full} ELSE RandomHops(full, m.mode)

-----------------------------------------------------------------------------
(* send_message. *)

Fits(x) == Len(out[x]) < QueueCap
Queue(x, f) == out' = [out EXCEPT ![x] = Append(@, f)]
HasSecrets(x, path) == \A i \in 1 .. Len(path) : secret[x][path[i]] # {}

\* Where and how often each message was delivered; refused ones never are.
Record(m, dels) == sent' = Append(sent, m) /\ got' = Append(got, dels)
Refused(m) == Record([m EXCEPT !.accepted = FALSE], <<>>) /\ UNCHANGED <<counter, out>>

\* Sends along one of the paths, or refuses when a hop has no secret.
SendAlong(m, path) ==
  IF HasSecrets(m.from, path)
  THEN /\ Fits(m.from)
       /\ counter' = [counter EXCEPT ![m.from] = @ + 1]
       /\ Queue(m.from, OnionFrame([m EXCEPT !.path = path], path, counter[m.from] + 1))
       /\ Record([m EXCEPT !.path = path], <<>>)
  ELSE Refused(m)

Message(r) == [id |-> Len(sent) + 1, from |-> r.from, to |-> r.to, mode |-> r.mode,
               path |-> <<>>, accepted |-> TRUE]

Asking == {x \in Orr : lookup[x] # <<>>}

\* Bound: the messages sent, and those that wait for the SDN.
MaySend == /\ Len(sent) + Cardinality(Asking) < MaxMessages
           /\ Len(sent) + Cardinality(Asking) + faults < MaxEvents

\* The ways a message is sent that need no answer of the SDN, also while another waits
\* for one.
SendMessage(r) ==
  LET m == Message(r)
      x == r.from
      hint == IF r.hint # NoPath THEN r.hint ELSE cache[x]
  IN  /\ MaySend
      /\ \/ r.to = x /\ Record(m, <<x>>) /\ UNCHANGED <<counter, out>>
         \/ /\ r.to # x /\ r.mode = Passthrough /\ Fits(x)
            /\ Queue(x, PassthroughFrame(m)) /\ Record(m, <<>>) /\ UNCHANGED counter
         \/ r.to # x /\ r.mode = E2e /\ SendAlong(m, <<r.to>>)
         \/ /\ r.to # x /\ r.mode \notin {Passthrough, E2e} /\ hint # NoPath
            /\ \E path \in Paths(m, hint) : SendAlong(m, path)
      /\ UNCHANGED <<session, secret, secrets, cache, lookup, topo, up, net, seen, faults>>

\* Nothing is known of the path: the SDN is asked (bound: one question at a time of an
\* ORR) ...
AskSdn(r) ==
  /\ MaySend /\ r.from \notin Asking
  /\ r.to # r.from /\ r.mode \notin {Passthrough, E2e}
  /\ r.hint = NoPath /\ cache[r.from] = NoPath
  /\ lookup' = [lookup EXCEPT ![r.from] = <<[request |-> r, path |-> SdnPath[topo]]>>]
  /\ UNCHANGED <<session, counter, secret, secrets, cache, topo, out, up, net, seen, sent,
                 got, faults>>

\* ... and its answer is cached, whatever came in between, and used.
SdnAnswers(x) ==
  /\ x \in Asking
  /\ cache' = [cache EXCEPT ![x] = lookup[x][1].path]
  /\ lookup' = [lookup EXCEPT ![x] = <<>>]
  /\ LET m == Message(lookup[x][1].request)
     IN  \E path \in Paths(m, lookup[x][1].path) : SendAlong(m, path)
  /\ UNCHANGED <<session, secret, secrets, topo, up, net, seen, faults>>

\* The topology changes and every ORR hears of it: the caches are emptied.
TopologyEvent ==
  /\ topo < Len(SdnPath)
  /\ topo' = topo + 1
  /\ cache' = [x \in Orr |-> NoPath]
  /\ UNCHANGED <<session, counter, secret, secrets, lookup, out, up, net, seen, sent, got,
                 faults>>

-----------------------------------------------------------------------------
(* handle_incoming: the frame f arrives at the ORR it is addressed to. *)

\* peel: the layer was sealed for this place on the way, with a secret held here.
Opens(y, f) ==
  LET l == f.layers[1] IN
  /\ l.secret \in secret[y][f.from]
  /\ l.hops = f.hops

\* Mutant: what was peeled is taken to be fresh.
IsFreshAlways(y, f) == TRUE

\* OnionReplay.check, by the origin as the header spells it.  The secrets are found by
\* the origin in lower case; an ORR writes its own id in one spelling and the others
\* copy it, so a frame is in one window.
IsFresh(y, f) == <<f.from, f.session, f.counter>> \notin seen[y]

\* forward_onion: the origin's header but for the hops left, and the next layer.
Forward(f) ==
  [f EXCEPT !.dest = f.layers[2].orr, !.layers = Tail(f.layers),
            !.hops = IF @ = 0 THEN 0 ELSE @ - 1]

Deliver(f, y) == got' = [got EXCEPT ![f.msg] = Append(@, y)]

\* Dropped without a secret, with a wrong one, or as seen before; else delivered or
\* passed on.
HandleIncoming(f) ==
  LET y == f.dest
      ok == f.layers # <<>> /\ Opens(y, f) /\ IsFresh(y, f)
  IN  /\ \/ f.layers = <<>> /\ Deliver(f, y) /\ UNCHANGED <<seen, out>>
         \/ f.layers # <<>> /\ ~ok /\ UNCHANGED <<seen, got, out>>
         \/ /\ ok
            /\ seen' = [seen EXCEPT ![y] = @ \cup {<<f.from, f.session, f.counter>>}]
            /\ \/ f.hops = 0 /\ Deliver(f, y) /\ UNCHANGED out
               \/ /\ f.hops > 0 /\ f.layers[2].orr # y /\ Fits(y)
                  /\ Queue(y, Forward(f)) /\ UNCHANGED got
               \/ f.hops > 0 /\ f.layers[2].orr = y /\ UNCHANGED <<got, out>>
      /\ UNCHANGED <<session, counter, secret, secrets, cache, lookup, topo, up, sent>>

Arrives(f) == HandleIncoming(f) /\ net' = net \ {f} /\ UNCHANGED faults

-----------------------------------------------------------------------------
(* QkcLink, and what may go wrong. *)

Written(x) ==
  /\ up[x] /\ out[x] # <<>>
  /\ net' = net \cup {Head(out[x])}
  /\ out' = [out EXCEPT ![x] = Tail(@)]
  /\ UNCHANGED <<session, counter, secret, secrets, cache, lookup, topo, up, seen, sent, got,
                 faults>>

\* supervisor_loop drops what was queued while the session was broken.
LinkBreaks(x) ==
  /\ up[x] /\ Len(sent) + faults < MaxEvents /\ faults' = faults + 1
  /\ up' = [up EXCEPT ![x] = FALSE]
  /\ out' = [out EXCEPT ![x] = <<>>]
  /\ UNCHANGED <<session, counter, secret, secrets, cache, lookup, topo, net, seen, sent, got>>

Reconnects(x) ==
  /\ ~up[x]
  /\ up' = [up EXCEPT ![x] = TRUE]
  /\ UNCHANGED <<session, counter, secret, secrets, cache, lookup, topo, out, net, seen, sent,
                 got, faults>>

Lost(f) ==
  /\ Len(sent) + faults < MaxEvents /\ faults' = faults + 1
  /\ net' = net \ {f}
  /\ UNCHANGED <<session, counter, secret, secrets, cache, lookup, topo, out, up, seen, sent, got>>

\* The frame arrives, and will once more.
Repeated(f) ==
  /\ Len(sent) + faults < MaxEvents /\ faults' = faults + 1
  /\ HandleIncoming(f) /\ UNCHANGED net

\* x starts again: nothing of it was kept.  A call to the SDN fails its caller.
Restart(x) ==
  /\ Len(sent) + faults < MaxEvents /\ faults' = faults + 1
  /\ session' = [session EXCEPT ![x] = @ + 1] /\ counter' = [counter EXCEPT ![x] = 0]
  /\ secret' = [secret EXCEPT ![x] = [y \in Orr |-> {}]]
  /\ cache' = [cache EXCEPT ![x] = NoPath] /\ lookup' = [lookup EXCEPT ![x] = <<>>]
  /\ out' = [out EXCEPT ![x] = <<>>] /\ seen' = [seen EXCEPT ![x] = {}]
  /\ UNCHANGED <<secrets, topo, up, net, sent, got>>

\* EstablishSecret between x, which has nothing, and y: the history starts again.
Bootstrap(x, y) ==
  /\ x # y /\ secret[x][y] = {}
  /\ secrets' = secrets + 1
  /\ secret' = [secret EXCEPT ![x][y] = {secrets + 1}, ![y][x] = {secrets + 1}]
  /\ UNCHANGED <<session, counter, cache, lookup, topo, out, up, net, seen, sent, got, faults>>

\* A rotation adds an epoch; the one before it is kept (epoch_history_keep).
Rotate(x, y) ==
  /\ x # y /\ secret[x][y] # {} /\ secret[y][x] = secret[x][y]
  /\ Len(sent) + faults < MaxEvents /\ faults' = faults + 1
  /\ secrets' = secrets + 1
  /\ LET kept == {Max(secret[x][y]), secrets + 1}
     IN  secret' = [secret EXCEPT ![x][y] = kept, ![y][x] = kept]
  /\ UNCHANGED <<session, counter, cache, lookup, topo, out, up, net, seen, sent, got>>

Next ==
  \/ \E r \in Sends : SendMessage(r) \/ AskSdn(r)
  \/ \E x \in Orr : \/ SdnAnswers(x) \/ Written(x) \/ LinkBreaks(x) \/ Reconnects(x)
                    \/ Restart(x) \/ \E y \in Orr : Bootstrap(x, y) \/ Rotate(x, y)
  \/ \E f \in net : Arrives(f) \/ Repeated(f) \/ Lost(f)
  \/ TopologyEvent

Spec == Init /\ [][Next]_vars

\* Queues are written, frames handled, questions answered and links made again.
Fairness ==
  WF_vars(\/ \E x \in Orr : Written(x) \/ Reconnects(x) \/ SdnAnswers(x)
          \/ \E f \in net : Arrives(f))

FairSpec == Spec /\ Fairness

-----------------------------------------------------------------------------
(* Properties. *)

TypeOK ==
  /\ \A x \in Orr : /\ Len(out[x]) <= QueueCap
                   /\ \A y \in Orr : Cardinality(secret[x][y]) <= 2
                   /\ \A f \in net \cup {out[x][i] : i \in 1 .. Len(out[x])} :
                        /\ f.dest \in Orr /\ f.msg \in 1 .. Len(sent)
                        /\ f.layers # <<>> => f.hops = Len(f.layers) - 1
  /\ Len(sent) = Len(got) /\ Len(sent) <= MaxMessages /\ faults <= MaxEvents

\* A message in an onion is delivered at most once, however its frames are repeated
\* on the way and whichever ORR restarts in between: a window is lost only together
\* with the secrets that open what it had seen (OnionReplay.check, after peel).
AtMostOnce == \A i \in 1 .. Len(got) : sent[i].mode # Passthrough => Len(got[i]) <= 1

\* A message is delivered at its destination only, whatever path it was given, and
\* one that was refused nowhere (send_onion_path appends the destination; peel
\* delivers when no hops are left).
OnlyAtDestination ==
  \A i \in 1 .. Len(got) : \A k \in 1 .. Len(got[i]) :
    got[i][k] = sent[i].to /\ sent[i].accepted

Simple(path) == \A i, j \in 1 .. Len(path) : path[i] = path[j] => i = j

AllArrived ==
  faults = 0 => \A i \in 1 .. Len(sent) :
                  sent[i].accepted /\ Simple(sent[i].path) => Len(got[i]) = 1

\* When nothing breaks, every message accepted is delivered in the end, if its path
\* passes no ORR twice: the header that each ORR writes opens the next layer.
Delivered == <>[]AllArrived
==============================================================================
