------------------------------ MODULE MCNodes -------------------------------
(***************************************************************************)
(* What the tasks of the nodes start comes to an end.  A behaviour is one  *)
(* of one component:                                                       *)
(*   links    the links of a QKC follow the SDN's list (QkcLinks);         *)
(*   relay    frames and pads in a QKC (QkcRelay);                         *)
(*   mixed    a frame of a neighbour and one of the ORR in it (QkcRelay);  *)
(*   kme      the keys of a QKD link, from the KME to both ends (KmeLink); *)
(*   setup    a link between ends of several configurations (LinkSetup);   *)
(*   seals    the frame keys of a link, per epoch (FrameSeals);            *)
(*   orrs     the peers of an ORR follow the SDN's list (OrrPeers);        *)
(*   onions   messages of three ORRs, plain and in onions (OnionRelay);    *)
(*   pairs    two messages of them, and fewer events (OnionRelay);         *)
(*   dkms     the peers of a DKMS follow the SDN's list (DkmsPeers);       *)
(*   e2e      the epochs that two DKMSs agree on (E2eEpochs);              *)
(*   rates    demand reports and the rates that come back (RateLoop);      *)
(*   stream   a DKMS's subscription to its ORR (OrrStream);                *)
(*   acks     the socket of the acknowledgements (AckSocket);              *)
(*   crowd    two connections to it, and one permit (AckSocket);           *)
(*   intake   requests, and the drain that waits for them (DkmsIntake).    *)
(***************************************************************************)
EXTENDS QkcLinks, TLC

CONSTANTS o1, o2, o3, a1, a2, l1, l2, s3, s4, c1, c2, d1, d2

VARIABLES
  which, \* the component that runs
  stream, announced, dec, intake, hand, tasks, orr, sends, enc, supplied, out,
  up, stats,
  pause, batches, minted, due, fresh, delivered, client, kmeEnc, notify,
  pending, kmeDec, encHeld, decHeld, faults, mayLose,
  cfg, state, epoch, flight, setupAnnounced, read, bare, plain, lost,
  secret, sendCache, recvCache, window, heard, resync, sealPending, run,
  sealFresh, restarts,
  orrPeerAnnouncing, orrPeerListed, orrPeerAnswer, byOrr, addr, pubkeys,
  secrets, inflight, rotating, spawned, orrPeerTasks, loops, forgotten,
  orrPeerChanges, orrPeerFaults,
  session, counter, onionSecret, onionSecrets, cache, lookup, topo, onionOut,
  onionUp, net, seen, sent, got, onionFaults,
  dkmsPeerAnnouncing, dkmsPeerListed, dkmsPeerAnswer, inner, dkmsPeerOrr,
  next, target, emits, dkmsPeerChanges, dkmsPeerFaults,
  epochs, send, e2ePending, e2eInflight, recent, quota, calls, rekeys,
  e2eFaults,
  reach, known, registry, snapshot, loopAnswer, rates, report, loopChanges,
  loopFaults,
  streamSent, subs, streamStream, streamBackoff, taken, breaks,
  ackClient, wire, wrote, server, permits, applied,
  conn, req, asked, late, accepting, intakeInflight, drain, woken, entries

relayVars == <<stream, announced, dec, intake, hand, tasks, orr, sends, enc,
               supplied, out, up, stats>>
kmeVars == <<pause, batches, minted, due, fresh, delivered, client, kmeEnc,
             notify, pending, kmeDec, encHeld, decHeld, faults, mayLose>>
setupVars == <<cfg, state, epoch, flight, setupAnnounced, read, bare, plain,
               lost>>
sealVars == <<secret, sendCache, recvCache, window, heard, resync,
              sealPending, run, sealFresh, restarts>>
orrPeerVars == <<orrPeerAnnouncing, orrPeerListed, orrPeerAnswer, byOrr, addr,
                 pubkeys, secrets, inflight, rotating, spawned, orrPeerTasks,
                 loops, forgotten, orrPeerChanges, orrPeerFaults>>
onionVars == <<session, counter, onionSecret, onionSecrets, cache, lookup,
               topo, onionOut, onionUp, net, seen, sent, got, onionFaults>>
dkmsPeerVars == <<dkmsPeerAnnouncing, dkmsPeerListed, dkmsPeerAnswer, inner,
                  dkmsPeerOrr, next, target, emits, dkmsPeerChanges,
                  dkmsPeerFaults>>
e2eVars == <<epochs, send, e2ePending, e2eInflight, recent, quota, calls,
             rekeys, e2eFaults>>
loopVars == <<reach, known, registry, snapshot, loopAnswer, rates, report,
              loopChanges, loopFaults>>
streamVars == <<streamSent, subs, streamStream, streamBackoff, taken, breaks>>
ackVars == <<ackClient, wire, wrote, server, permits, applied>>
intakeVars == <<conn, req, asked, late, accepting, intakeInflight, drain,
                woken, entries>>
allVars == <<which, linkVars, relayVars, kmeVars, setupVars, sealVars,
             orrPeerVars, onionVars, dkmsPeerVars, e2eVars, loopVars,
             streamVars, ackVars, intakeVars>>

\* A node that announces itself, and one that has nothing to announce.
NodeConfigs ==
  {[url |-> TRUE, advertise |-> FALSE, bindsAll |-> b, tls |-> TRUE] : b \in BOOLEAN}
DkmsConfigs ==
  {[url |-> TRUE, orr |-> TRUE, advertise |-> FALSE, bindsAll |-> b, tls |-> TRUE] : b \in BOOLEAN}

\* LinkSetup: two ends alike, and the stages of a rollout.  A seed is read only
\* by an end that signs and has no certificate.
Setup == [qkd : BOOLEAN, tls : BOOLEAN, psk : {"none", "short", "good"},
          auth : {"unset", "require", "sign"}, frame : {"unset", "off", "require"}, seed : BOOLEAN]
Rollout == [qkd : BOOLEAN, tls : {FALSE}, psk : {"none", "good"}, auth : {"off", "prefer"},
            frame : {"prefer", "require"}, seed : {FALSE}]
SetupPairs ==
  {<<c, c>> : c \in {d \in Setup : d.seed => d.auth = "sign" /\ ~d.tls}}
    \cup {p \in Rollout \X Rollout : p[1].qkd = p[2].qkd}

\* OnionRelay
ThreeOrrs == {o1, o2, o3}
Ask(to, mode, hint) == [from |-> o1, to |-> to, mode |-> mode, hint |-> hint]
OneSend == {Ask(o3, 2, <<o2, o3>>)}
OnionSends ==
  OneSend \cup {Ask(o1, 1, <<>>), Ask(o3, 9, <<>>), Ask(o3, 0, <<>>), Ask(o3, 1, <<>>),
                  Ask(o3, 9, <<o3, o2>>), Ask(o3, 2, <<o1, o2, o3, o2, o3>>)}
PathsToO3 == <<<<o1, o2, o3>>, <<o1, o3>>>>

Relays == INSTANCE QkcRelay WITH
  IntakeCap <- 1, MaxInflight <- 1, MaxLocal <- 1, MaxChunks <- 2,
  OutCap <- 1, NumFrames <- 2, NumLocal <- 0, NumKeys <- 2

Mixed == INSTANCE QkcRelay WITH
  IntakeCap <- 1, MaxInflight <- 1, MaxLocal <- 1, MaxChunks <- 2,
  OutCap <- 1, NumFrames <- 1, NumLocal <- 1, NumKeys <- 2
Relaying == which \in {"relay", "mixed"}

Kmes == INSTANCE KmeLink WITH
  NumKeys <- 3, MaxBufferKeys <- 2, Block <- 2, RefillBatch <- 2,
  DecBatchMax <- 2, MaxPerRequest <- 1, MaxFaults <- 1, enc <- kmeEnc,
  dec <- kmeDec

Setups == INSTANCE LinkSetup WITH
  Pairs <- SetupPairs, MaxLost <- 1, announced <- setupAnnounced

Seals == INSTANCE FrameSeals WITH
  MaxEpoch <- 3, Keep <- 2, RestartBelow <- 2, MaxRestarts <- 1,
  pending <- sealPending, fresh <- sealFresh

OrrRegistry == INSTANCE OrrPeers WITH
  Peer <- {l1, s3, s4}, Local <- {l1}, Later <- {s3}, Untrusted <- {s4},
  Addr <- {a1, a2}, Home <- a1, Configs <- NodeConfigs, MaxPeers <- 2,
  MaxChanges <- 3, MaxFaults <- 1, announcing <- orrPeerAnnouncing,
  listed <- orrPeerListed, answer <- orrPeerAnswer, tasks <- orrPeerTasks,
  changes <- orrPeerChanges, faults <- orrPeerFaults

Onions == INSTANCE OnionRelay WITH
  Orr <- ThreeOrrs, Sends <- OneSend, SdnPath <- PathsToO3, QueueCap <- 1,
  MaxMessages <- 1, MaxEvents <- 3, secret <- onionSecret,
  secrets <- onionSecrets, out <- onionOut, up <- onionUp,
  faults <- onionFaults

OnionPairs == INSTANCE OnionRelay WITH
  Orr <- ThreeOrrs, Sends <- OnionSends, SdnPath <- PathsToO3, QueueCap <- 1,
  MaxMessages <- 2, MaxEvents <- 2, secret <- onionSecret,
  secrets <- onionSecrets, out <- onionOut, up <- onionUp,
  faults <- onionFaults

DkmsRegistry == INSTANCE DkmsPeers WITH
  Peer <- {l1, l2, s3}, Local <- {l1, l2}, Direct <- {l2}, Where <- {a1, a2},
  Home <- a1, Configs <- DkmsConfigs, MaxPeers <- 2, MaxChanges <- 2,
  MaxFaults <- 1, announcing <- dkmsPeerAnnouncing, listed <- dkmsPeerListed,
  answer <- dkmsPeerAnswer, orr <- dkmsPeerOrr, changes <- dkmsPeerChanges,
  faults <- dkmsPeerFaults

E2e == INSTANCE E2eEpochs WITH
  Keep <- 4, Burst <- 1, MaxRekeys <- 1, MaxFaults <- 1,
  pending <- e2ePending, inflight <- e2eInflight, faults <- e2eFaults

Loop == INSTANCE RateLoop WITH
  MaxAttempts <- 3, Ttl <- 2, MaxChanges <- 2, MaxFaults <- 2,
  answer <- loopAnswer, changes <- loopChanges, faults <- loopFaults

Streams == INSTANCE OrrStream WITH
  Cap <- 2, MaxSubs <- 2, Legacy <- {2}, MaxBackoff <- 2, MaxMessages <- 4,
  MaxBreaks <- 2, sent <- streamSent, stream <- streamStream,
  backoff <- streamBackoff

AckSockets == INSTANCE AckSocket WITH
  Conn <- {c1}, MaxConns <- 1, MaxLines <- 2, client <- ackClient

Crowd == INSTANCE AckSocket WITH
  Conn <- {c1, c2}, MaxConns <- 1, MaxLines <- 1, client <- ackClient
Acking(c) == which = "crowd" \/ (which = "acks" /\ c = c1)

Intake == INSTANCE DkmsIntake WITH
  Conn <- {c1, c2}, MaxConns <- 2, Drainer <- {d1, d2}, MaxRequests <- 1,
  inflight <- intakeInflight

MCInit ==
  /\ which \in {"links", "relay", "mixed", "kme", "setup", "seals", "orrs",
                 "onions", "pairs", "dkms", "e2e", "rates", "stream", "acks",
                 "crowd", "intake"}
  /\ Init /\ (which = "links" \/ announcing)
  /\ IF which = "mixed" THEN Mixed!Init ELSE Relays!Init
  /\ IF which = "kme" THEN Kmes!Init
     ELSE /\ pause = None /\ batches = None /\ minted = None /\ due = None
          /\ fresh = None /\ delivered = None /\ client = None
          /\ kmeEnc = None /\ notify = None /\ pending = None /\ kmeDec = None
          /\ encHeld = None /\ decHeld = None /\ faults = None
          /\ mayLose = None
  /\ IF which = "setup" THEN Setups!Init
     ELSE /\ cfg = None /\ state = None /\ epoch = None /\ flight = None
          /\ setupAnnounced = None /\ read = None /\ bare = None /\ plain = None
          /\ lost = None
  /\ Seals!Init
  /\ IF which = "orrs" THEN OrrRegistry!Init
     ELSE /\ orrPeerAnnouncing = None /\ orrPeerListed = None
          /\ orrPeerAnswer = None /\ byOrr = None /\ addr = None
          /\ pubkeys = None /\ secrets = None /\ inflight = None
          /\ rotating = None /\ spawned = None /\ orrPeerTasks = None
          /\ loops = None /\ forgotten = None /\ orrPeerChanges = None
          /\ orrPeerFaults = None
  /\ IF which = "onions" THEN Onions!Init ELSE OnionPairs!Init
  /\ IF which = "dkms" THEN DkmsRegistry!Init
     ELSE /\ dkmsPeerAnnouncing = None /\ dkmsPeerListed = None
          /\ dkmsPeerAnswer = None /\ inner = None /\ dkmsPeerOrr = None
          /\ next = None /\ target = None /\ emits = None
          /\ dkmsPeerChanges = None /\ dkmsPeerFaults = None
  /\ E2e!Init
  /\ Loop!Init
  /\ Streams!Init
  /\ IF which = "crowd" THEN Crowd!Init ELSE AckSockets!Init
  /\ Intake!Init

\* The component that runs takes a step, the others keep their initial values.
MCNext ==
  /\ UNCHANGED which
  /\ IF which = "links" THEN Next ELSE UNCHANGED linkVars
  /\ IF which = "relay" THEN Relays!Next ELSE IF which = "mixed" THEN Mixed!Next ELSE UNCHANGED relayVars
  /\ IF which = "kme" THEN Kmes!Next ELSE UNCHANGED kmeVars
  /\ IF which = "setup" THEN Setups!Next ELSE UNCHANGED setupVars
  /\ IF which = "seals" THEN Seals!Next ELSE UNCHANGED sealVars
  /\ IF which = "orrs" THEN OrrRegistry!Next ELSE UNCHANGED orrPeerVars
  /\ IF which = "onions" THEN Onions!Next ELSE IF which = "pairs" THEN OnionPairs!Next ELSE UNCHANGED onionVars
  /\ IF which = "dkms" THEN DkmsRegistry!Next ELSE UNCHANGED dkmsPeerVars
  /\ IF which = "e2e" THEN E2e!Next ELSE UNCHANGED e2eVars
  /\ IF which = "rates" THEN Loop!Next ELSE UNCHANGED loopVars
  /\ IF which = "stream" THEN Streams!Next ELSE UNCHANGED streamVars
  /\ IF which = "acks" THEN AckSockets!Next ELSE IF which = "crowd" THEN Crowd!Next ELSE UNCHANGED ackVars
  /\ IF which = "intake" THEN Intake!Next ELSE UNCHANGED intakeVars

\* The fairness of the component that runs, as its module states it.
QkcFairness ==
  /\ WF_linkVars(which = "links" /\ (Announced \/ Applying))
  \* one condition for two components: only one of them runs
  /\ SF_<<linkVars, relayVars>>(\/ which = "links" /\ ApplyPeers /\ UNCHANGED relayVars
                                \/ Relaying /\ Relays!Writes /\ UNCHANGED linkVars)
  /\ WF_relayVars(Relaying /\ (Relays!Read \/ Relays!Dispatch \/ Relays!Spawn))
  /\ WF_relayVars(/\ Relaying
                  /\ \E t \in tasks : Relays!DecTimeout(t) \/ Relays!Decrypted(t) \/ Relays!Relay(t))
  /\ WF_relayVars(Relaying /\ (Relays!LocalSend \/ \E t \in sends : Relays!LocalRelay(t)))
  /\ WF_relayVars(Relaying /\ Relays!Connects)

LinkFairness ==
  /\ WF_kmeVars(which = "kme" /\ Kmes!Tick)
  /\ \A x \in {"a", "b"} :
       /\ WF_kmeVars(which = "kme" /\ (Kmes!Probe(x) \/ Kmes!EncStarts(x) \/ Kmes!EncKeysOnce(x)))
       /\ WF_kmeVars(which = "kme" /\ (\/ Kmes!NotifyRemoteEnc(x) \/ Kmes!DecStarts(x)
                                       \/ Kmes!DecBatch(x) \/ Kmes!DecSingle(x)))
  /\ WF_sealVars(which = "seals" /\ (Seals!Answered \/ Seals!Installed))
  /\ \A x \in {"i", "r"} : /\ WF_sealVars(which = "seals" /\ Seals!Send(x))
                          /\ WF_sealVars(which = "seals" /\ Seals!QuietPasses(x))
  /\ WF_setupVars(which = "setup" /\ Setups!SendInit)
  /\ WF_setupVars(which = "setup" /\ Setups!HandleInit)
  /\ WF_setupVars(which = "setup" /\ Setups!HandleResp)
  /\ \A e \in {1, 2} : /\ WF_setupVars(which = "setup" /\ Setups!BuildLink(e))
                       /\ WF_setupVars(which = "setup" /\ Setups!SendNotify(e))
                       /\ WF_setupVars(which = "setup" /\ Setups!HandleNotify(e))
                       /\ WF_setupVars(which = "setup" /\ Setups!SendData(e))
                       /\ WF_setupVars(which = "setup" /\ Setups!HandleData(e))

OrrFairness ==
  /\ WF_orrPeerVars(which = "orrs" /\ (OrrRegistry!AnnounceOnce \/ OrrRegistry!ApplyPeers))
  /\ \A p \in {l1, s3, s4} : WF_orrPeerVars(which = "orrs" /\ OrrRegistry!Working(p))
  /\ WF_onionVars(/\ which \in {"onions", "pairs"}
                  /\ \/ \E x \in ThreeOrrs : \/ Onions!Written(x) \/ Onions!Reconnects(x)
                                             \/ Onions!SdnAnswers(x)
                     \/ \E f \in net : Onions!Arrives(f))
  /\ WF_streamVars(which = "stream" /\ Streams!Subscribe)
  /\ WF_streamVars(which = "stream" /\ Streams!HandleOrrDelivery)
  /\ \A s \in Streams!Stream : WF_streamVars(which = "stream" /\ (Streams!Recv(s) \/ Streams!Push(s)))

DkmsFairness ==
  /\ WF_dkmsPeerVars(/\ which = "dkms"
                     /\ \/ DkmsRegistry!AnnounceOnce \/ DkmsRegistry!ApplyFromSdn
                        \/ DkmsRegistry!StoreInner)
  /\ WF_e2eVars(which = "e2e" /\ \E c \in calls : E2e!Respond(c))
  /\ \A x \in {"a", "b"} :
       /\ WF_e2eVars(/\ which = "e2e"
                     /\ \E c \in calls : c.by = x /\ (E2e!Complete(c) \/ E2e!CallFails(c)))
       /\ WF_e2eVars(which = "e2e" /\ E2e!Send(x))
       /\ WF_e2eVars(which = "e2e" /\ E2e!IntervalElapses(x))
       /\ WF_e2eVars(which = "e2e" /\ E2e!QuotaRenewed(x))
  /\ WF_loopVars(which = "rates" /\ Loop!BuildDemandReport)
  /\ WF_loopVars(which = "rates" /\ Loop!PostDemand)
  /\ WF_loopVars(which = "rates" /\ Loop!GetRate)
  /\ WF_loopVars(which = "rates" /\ Loop!RatesRefreshed)
  /\ WF_loopVars(which = "rates" /\ Loop!EvictOlderThan)
  /\ WF_loopVars(which = "rates" /\ Loop!RecomputeMcf)
  /\ WF_loopVars(which = "rates" /\ Loop!Announce)
  \* the one permit is one connection's at a time
  /\ WF_ackVars(\E c \in {c1, c2} : Acking(c) /\ (\/ Crowd!HandleLine(c) \/ Crowd!Eof(c)
                                                  \/ Crowd!IdleTimeout(c)))
  /\ WF_intakeVars(which = "intake" /\ \E c \in {c1, c2} : Intake!Acquire(c) \/ Intake!Handle(c)
                                                            \/ Intake!Ends(c))
  /\ \A d \in {d1, d2} : WF_intakeVars(which = "intake" /\ (\/ Intake!Check(d) \/ Intake!Recheck(d)
                                                            \/ Intake!Awakes(d) \/ Intake!Wipe(d)))

MCSpec == MCInit /\ [][MCNext]_allVars
          /\ QkcFairness /\ LinkFairness /\ OrrFairness /\ DkmsFairness

-----------------------------------------------------------------------------
(* The properties of the components, each stated and explained in its module, *)
(* in groups by what they promise.                                            *)

Types ==
  CASE which = "links" -> TypeOK
    [] which = "relay" -> Relays!TypeOK
    [] which = "mixed" -> Mixed!TypeOK
    [] which = "kme" -> Kmes!TypeOK
    [] which = "setup" -> Setups!TypeOK
    [] which = "seals" -> Seals!TypeOK
    [] which = "orrs" -> OrrRegistry!TypeOK
    [] which = "onions" -> Onions!TypeOK
    [] which = "pairs" -> OnionPairs!TypeOK
    [] which = "dkms" -> DkmsRegistry!TypeOK
    [] which = "e2e" -> E2e!TypeOK
    [] which = "rates" -> Loop!TypeOK
    [] which = "stream" -> Streams!TypeOK
    [] which = "acks" -> AckSockets!TypeOK
    [] which = "crowd" -> Crowd!TypeOK
    [] which = "intake" -> Intake!TypeOK

\* Nothing is used, sent or delivered a second time, whatever is lost, repeated or
\* restarted on the way.  The pads taken of an outgoing link are as many as the chunks
\* sent, waiting and given up (relay.rs); each key of a KME is sent under by one end
\* (kme.rs); an onion is delivered once, at its destination (peel and the replay table);
\* a key enters buffer_dec once and in order, over streams that break (the pump);
\* an epoch has one secret (e2e.rs).
UsedOnce ==
  /\ Relaying => Relays!PadsSpent
  /\ which = "kme" => Kmes!OneSender
  /\ which \in {"onions", "pairs"} => Onions!AtMostOnce /\ Onions!OnlyAtDestination
  /\ which = "stream" => Streams!TakenOnce
  /\ which = "e2e" => E2e!OneSecret

\* What a node gives up it can account for, and what it holds is bounded.  A frame that
\* does not arrive is in a counter of the relay; a key of the KME that is missing at an
\* end was the price of a fault; a batch of acknowledgements is applied in full or not
\* at all; a clean drain leaves only what came too late; an ORR has no more tasks for a
\* peer than times it was listed; and a QKC has no more links of the SDN than its cap
\* and the declared neighbours without an address.
Accounted ==
  /\ Types
  /\ which = "relay" => Relays!Accounted
  /\ which = "mixed" => Mixed!Accounted
  /\ which = "kme" => Kmes!WastePerFault
  /\ which = "acks" => AckSockets!WholeBatches
  /\ which = "crowd" => Crowd!WholeBatches
  /\ which = "intake" => Intake!OnlyLatecomersRemain
  /\ which = "orrs" => OrrRegistry!TasksBounded
  /\ which = "links" => CreatedBounded

\* What the operator configured outlasts what the network says: an end with frame_auth =
\* require, and a PSK or signed handshakes to verify with, works on no unverified frame;
\* the SDN removes no peer of an ORR's node.yml and changes no address in it, and a key
\* goes out under its own peer's policy, before and after every list of peers applied.
AsConfigured ==
  /\ which = "setup" => Setups!RequireVerifies
  /\ which = "orrs" => OrrRegistry!LocalStands
  /\ which = "dkms" => DkmsRegistry!EmittedAsConfigured

\* What the SDN decides reaches the nodes for good once it rests: the links of a QKC,
\* the peers of an ORR and of a DKMS are the listed ones (apply_sdn_peers in each), and
\* the rates in use are those of the grade in use (the demand loop).
NodesFollow ==
  <>[](/\ which = "links" /\ announcing => Settled
       /\ which = "orrs" /\ orrPeerAnnouncing => OrrRegistry!Settled
       /\ which = "dkms" /\ dkmsPeerAnnouncing => DkmsRegistry!Follows
       /\ which = "rates" => Loop!Settled)

\* Two ends that were apart come together: ends configured alike that have keys to
\* announce read each other's data, the seals of a link verify again after a restart
\* (FrameSeals), a stream that broke is subscribed again, and each direction of an
\* end-to-end pair opens again.
EndsRecover ==
  /\ <>[](/\ which = "setup" => Setups!Connected
          /\ which = "seals" => Seals!Recovered
          /\ which = "stream" /\ streamStream = 0 => Streams!Crowded)
  /\ \A x \in {"a", "b"} : []<>(which = "e2e" => E2e!Opens(x))

\* Whatever waits ends: frames in a relay whose keys never come, messages that were
\* accepted when nothing broke, the permits of the ACK socket once its clients have
\* written their lines, the keys on their way from a KME, the drains that wait for
\* requests inside.
WaitsEnd ==
  /\ <>[](/\ Relaying => Relays!Ended
          /\ which \in {"onions", "pairs"} => Onions!AllArrived
          /\ which \in {"acks", "crowd"} => permits = 1)
  /\ []<>(/\ which = "kme" => Kmes!AllSettled
          /\ which = "intake" => Intake!NoneDraining)
=============================================================================
