----------------------------- MODULE LinkSetup -----------------------------
(***************************************************************************)
(* The two ends of a QKC link come up from their own configurations        *)
(* (qkc/src/config.rs, service.rs build_link): each decides how it         *)
(* authenticates the handshake and the frames, with a node certificate, a  *)
(* legacy signing seed or a PSK, and what it accepts from the other        *)
(* (pqc_handshake.rs, frame_auth.rs).  The two decisions have to meet: the *)
(* handshake gives the link its first epoch, a NOTIFY tells the receiver   *)
(* which keys to fetch, and only then can data be read.                    *)
(*                                                                         *)
(* End 1 has the lower qkc_id and initiates.  Frames overtake each other   *)
(* and may be lost; rotation is the subject of LinkEpochs, replay windows  *)
(* of ReplayWindow and MAC bytes of Transcripts.  A PSK that both ends     *)
(* have is the same one.                                                   *)
(***************************************************************************)
EXTENDS Naturals, Sequences

CONSTANTS
    Pairs,      \* the configurations <<c1, c2>> the ends may have
    MaxLost     \* bound: frames lost

(* A configuration: [qkd, tls, psk, auth, frame, seed].  tls says that the *)
(* node's certificate loads, psk is "none", "short" or "good", auth and    *)
(* frame may be "unset", and seed says that the signing seed and the       *)
(* peer's verify key are both there.                                       *)

End == {1, 2}
Other(e) == 3 - e

VARIABLES
    cfg,        \* End -> configuration
    state,      \* End -> "down", "refused" or "up"
    epoch,      \* End -> whether the SecretStore has an epoch
    flight,     \* the frames on their way, [to, kind, seal]
    announced,  \* End -> whether the other's NOTIFY was taken
    read,       \* End -> whether data of the other was read
    bare,       \* End -> whether its epoch came of a handshake taken unverified
    plain,      \* End -> whether a frame came in unverified
    lost

setupVars == <<cfg, state, epoch, flight, announced, read, bare, plain, lost>>

----------------------------------------------------------------------------
(* The effective configuration.                                            *)

\* An explicit value decides; otherwise a node identity turns it on.
EffectivePqcAuth(c) == IF c.auth # "unset" THEN c.auth ELSE IF c.tls THEN "sign" ELSE "off"

EffectiveFrameAuth(c) == IF c.frame # "unset" THEN c.frame ELSE IF c.tls THEN "require" ELSE "off"

Signs(c) == EffectiveFrameAuth(c) \in {"prefer", "require"}

RejectsPlaintext(c) == EffectiveFrameAuth(c) = "require"

\* A PQC link always has a handshake, a QKD one when it can authenticate it.
HasHandshake(c) == ~c.qkd \/ c.tls \/ EffectivePqcAuth(c) # "off"

\* The handshake ignores a PSK of less than 32 bytes; the frames do not.
HandshakePsk(c) == c.psk = "good"

\* The root of the frame MAC: the PSK first, then the epochs.
Root(c) ==
    IF c.psk # "none" THEN "psk" ELSE IF HasHandshake(c) THEN "epoch" ELSE "none"

\* frame_auth = require needs a root.
Builds(c) == ~(RejectsPlaintext(c) /\ Root(c) = "none")

----------------------------------------------------------------------------
Init ==
    /\ \E p \in Pairs : cfg = p
    /\ state = [e \in End |-> "down"]
    /\ epoch = [e \in End |-> FALSE]
    /\ flight = {}
    /\ announced = [e \in End |-> FALSE]
    /\ read = [e \in End |-> FALSE]
    /\ bare = [e \in End |-> FALSE] /\ plain = [e \in End |-> FALSE]
    /\ lost = 0

\* QkcService::new or add_link.
BuildLink(e) ==
    /\ state[e] = "down"
    /\ state' = [state EXCEPT ![e] = IF Builds(cfg[e]) THEN "up" ELSE "refused"]
    /\ UNCHANGED <<cfg, epoch, flight, announced, read, bare, plain, lost>>

----------------------------------------------------------------------------
(* The handshake.                                                          *)

\* send_handshake
SendHandshake(c) ==
    IF EffectivePqcAuth(c) = "sign"
    THEN IF c.tls THEN "cert" ELSE IF c.seed THEN "seed" ELSE "plain"
    ELSE IF HandshakePsk(c) /\ EffectivePqcAuth(c) \in {"prefer", "require"} THEN "hmac"
         ELSE "plain"

\* accept
Accept(c, seal) ==
    CASE seal = "cert" -> c.tls
      [] seal = "seed" -> c.seed
      [] seal = "hmac" -> HandshakePsk(c)
      [] seal = "plain" -> ~(\/ EffectivePqcAuth(c) = "sign"
                             \/ EffectivePqcAuth(c) = "require" /\ HandshakePsk(c))

Frame(e, kind, seal) == [to |-> e, kind |-> kind, seal |-> seal]

\* Bound: of each kind one frame at a time is on its way to an end.
Send(e, kind, seal) ==
    /\ state[e] = "up" /\ ~\E f \in flight : f.to = Other(e) /\ f.kind = kind
    /\ flight' = flight \cup {Frame(Other(e), kind, seal)}
    /\ UNCHANGED <<cfg, state, epoch, announced, read, bare, plain, lost>>

SendInit ==
    HasHandshake(cfg[1]) /\ ~epoch[1] /\ Send(1, "init", SendHandshake(cfg[1]))

Arriving(e, kind) == {f \in flight : f.to = e /\ f.kind = kind}

Heard(e, f) == state[e] = "up" /\ HasHandshake(cfg[e]) /\ Accept(cfg[e], f.seal)

HandleInit ==
    /\ \E f \in Arriving(2, "init") :
         IF Heard(2, f)
         THEN /\ epoch' = [epoch EXCEPT ![2] = TRUE]
              /\ bare' = [bare EXCEPT ![2] = @ \/ f.seal = "plain"]
              /\ flight' = (flight \ {f}) \cup {Frame(1, "resp", SendHandshake(cfg[2]))}
         ELSE flight' = flight \ {f} /\ UNCHANGED <<epoch, bare>>
    /\ UNCHANGED <<cfg, state, announced, read, plain, lost>>

HandleResp ==
    /\ \E f \in Arriving(1, "resp") :
         /\ epoch' = [epoch EXCEPT ![1] = @ \/ Heard(1, f)]
         /\ bare' = [bare EXCEPT ![1] = @ \/ (Heard(1, f) /\ f.seal = "plain")]
         /\ flight' = flight \ {f}
    /\ UNCHANGED <<cfg, state, announced, read, plain, lost>>

----------------------------------------------------------------------------
(* The frames.                                                             *)

\* Mutant: a NOTIFY is sealed when data is.
SealsByMode(c, kind) == Root(c) # "none" /\ Signs(c)

\* seals: a NOTIFY whenever there is a root, data when the mode asks for it.
Seals(c, kind) == Root(c) # "none" /\ (kind = "notify" \/ Signs(c))

\* seal leaves a frame as it is while there is no epoch to seal with.
Seal(e, kind) ==
    IF Seals(cfg[e], kind) /\ (Root(cfg[e]) = "epoch" => epoch[e]) THEN Root(cfg[e]) ELSE "plain"

AcceptPlaintext(c, kind) == kind # "notify" /\ ~RejectsPlaintext(c)

Opens(e, seal) == seal = Root(cfg[e]) /\ (seal = "epoch" => epoch[e])

\* authenticate: without a root the trailer is cut off unread.
Authenticate(e, kind, seal) ==
    CASE Root(cfg[e]) = "none" -> TRUE
      [] seal = "plain" -> AcceptPlaintext(cfg[e], kind)
      [] OTHER -> Opens(e, seal)

\* A MAC under an epoch that anybody may have agreed on verifies nothing.
Unverified(e, f) ==
    Root(cfg[e]) = "none" \/ f.seal = "plain" \/ (f.seal = "epoch" /\ bare[e])

\* The keys: a PQC link derives them from its epoch, a QKD link has its KME.
HasKeys(e) == cfg[e].qkd \/ epoch[e]

\* wait_send_root: the first NOTIFY waits for the epoch, but not for ever.
SendNotify(e) == HasKeys(e) /\ ~announced[Other(e)] /\ Send(e, "notify", Seal(e, "notify"))

SendData(e) ==
    HasKeys(e) /\ announced[Other(e)] /\ ~read[Other(e)] /\ Send(e, "data", Seal(e, "data"))

Take(e, f) == state[e] = "up" /\ Authenticate(e, f.kind, f.seal)

HandleNotify(e) ==
    /\ \E f \in Arriving(e, "notify") :
         /\ announced' = [announced EXCEPT ![e] = @ \/ (Take(e, f) /\ HasKeys(e))]
         /\ plain' = [plain EXCEPT ![e] = @ \/ (Take(e, f) /\ Unverified(e, f))]
         /\ flight' = flight \ {f}
    /\ UNCHANGED <<cfg, state, epoch, read, bare, lost>>

HandleData(e) ==
    /\ \E f \in Arriving(e, "data") :
         /\ read' = [read EXCEPT ![e] = @ \/ Take(e, f)]
         /\ plain' = [plain EXCEPT ![e] = @ \/ (Take(e, f) /\ Unverified(e, f))]
         /\ flight' = flight \ {f}
    /\ UNCHANGED <<cfg, state, epoch, announced, bare, lost>>

Lose ==
    /\ lost < MaxLost /\ lost' = lost + 1
    /\ \E f \in flight : flight' = flight \ {f}
    /\ UNCHANGED <<cfg, state, epoch, announced, read, bare, plain>>

Next ==
    \/ \E e \in End : BuildLink(e) \/ SendNotify(e) \/ SendData(e)
    \/ SendInit \/ HandleInit \/ HandleResp
    \/ \E e \in End : HandleNotify(e) \/ HandleData(e)
    \/ Lose

Spec == Init /\ [][Next]_setupVars

\* Both nodes start, what is due is sent again and again, and frames arrive.
FairSpec ==
    /\ Spec
    /\ WF_setupVars(SendInit) /\ WF_setupVars(HandleInit) /\ WF_setupVars(HandleResp)
    /\ \A e \in End : /\ WF_setupVars(BuildLink(e))
                      /\ WF_setupVars(SendNotify(e)) /\ WF_setupVars(HandleNotify(e))
                      /\ WF_setupVars(SendData(e)) /\ WF_setupVars(HandleData(e))

----------------------------------------------------------------------------
TypeOK ==
    /\ cfg \in Pairs
    /\ state \in [End -> {"down", "refused", "up"}]
    /\ epoch \in [End -> BOOLEAN]
    /\ \A f, g \in flight : f.to = g.to /\ f.kind = g.kind => f = g
    /\ \A e \in End : announced[e] /\ ~cfg[e].qkd => epoch[e]
    /\ lost \in 0..MaxLost

(* An end with frame_auth = require and a root it can trust, a PSK or the  *)
(* epochs of a signed handshake, never works on a frame that was not       *)
(* verified: the checks at start (build_link), of the handshake (accept)   *)
(* and on arrival (authenticate) leave no way in, however the other end is *)
(* configured and whichever frames are lost.  Without signatures the       *)
(* epochs may come of a plain handshake, also under pqc_auth = require     *)
(* when the PSK is missing or short, and a short PSK is a root as well.    *)
RequireVerifies ==
    \A e \in End :
      /\ RejectsPlaintext(cfg[e])
      /\ Root(cfg[e]) = "epoch" => EffectivePqcAuth(cfg[e]) = "sign"
      => ~plain[e]

CanSign(c) == EffectivePqcAuth(c) = "sign" => c.tls \/ c.seed
Connected ==
    cfg[1] = cfg[2] /\ CanSign(cfg[1]) /\ state[1] # "refused" => read[1] /\ read[2]

(* Two ends with the same configuration understand each other: if it       *)
(* starts at all and signing has a key to sign with, both read the other's *)
(* data in the end, whatever order they start in.                          *)
AlikeConnect == <>[]Connected
============================================================================
