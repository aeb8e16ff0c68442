---------------------------- MODULE Transcripts ----------------------------
(***************************************************************************)
(* What the nodes put under a MAC or a signature, and what the other end   *)
(* checks: the handshake of a link (common/crypto/link_mac.rs with a PSK,  *)
(* pqc_sign.rs with a node certificate), the announcement of an ORR's      *)
(* public key (pqc_sign.rs, orr/identity.rs, orr/peers.rs), the rotation   *)
(* between two ORRs (orr/macs.rs) and the frames of a link (frame_mac.rs). *)
(*                                                                         *)
(* A transcript is a sequence of cells.  An integer of fixed width is one  *)
(* cell, a string is the sequence of its bytes, and lp16 writes a length   *)
(* before it.  HMAC and ML-DSA are ideal: a tag matches the key and the    *)
(* transcript it was made from and no other.  The reader's fields may      *)
(* differ from the sender's in any way: another epoch, another end, other  *)
(* suite, or a boundary that moved from one field to its neighbour.        *)
(***************************************************************************)
EXTENDS Naturals, Sequences, SequencesExt

CONSTANTS
    U16,        \* the greatest length two bytes hold
    Messages,   \* the messages the ends may mean, by kind
    Signers,    \* how an ORR signs its announcement: "cert", "seed" or "none"
    Trusts      \* what the ORR that hears it holds: [roots, key, strict]

VARIABLES
    trust,      \* <<t>> for the configuration of the ORR that heard, or <<>>
    said,       \* the message sealed, <<m>>, or <<>> before
    tag,        \* <<key, transcript>> of the tag or signature that travels
    heard,      \* the fields the reader holds, <<m>>, or <<>> before
    verdict     \* "none", "verified", "unverified" or "refused"

transcriptVars == <<trust, said, tag, heard, verdict>>

LinkKinds == {"init", "resp", "resync"}

RotationKinds == {"req", "answer", "fin"}

----------------------------------------------------------------------------
(* The tags are not length-prefixed.  One cell stands for the letters that *)
(* a tag shares with another: RESP and RESYNC, REQ and RESP.               *)

LinkTag(kind) ==
    CASE kind = "init" -> <<1>> [] kind = "resp" -> <<2, 1>> [] kind = "resync" -> <<2, 0, 1>>

RotationTag(kind) ==
    CASE kind = "req" -> <<1, 0>> [] kind = "answer" -> <<1, 1, 1>> [] kind = "fin" -> <<0>>

TagOrrPubkey == <<0, 1>>

TagFrame == <<1, 1>>

Lp16(x) == <<Len(x) % (U16 + 1)>> \o x

\* link_mac: the epoch, the two ends, the blob, the suite and the key size.
LinkBuild(m) ==
    LinkTag(m.kind) \o <<m.epoch, m.from, m.to>> \o Lp16(m.blob) \o Lp16(m.suite) \o <<m.size>>

\* pqc_sign signs the same bytes.
CanonicalMsg(m) ==
    LinkTag(m.kind) \o <<m.epoch, m.from, m.to>> \o <<Len(m.blob) % (U16 + 1)>> \o m.blob
                    \o <<Len(m.suite) % (U16 + 1)>> \o m.suite \o <<m.size>>

AnnouncementMsg(m) == TagOrrPubkey \o Lp16(m.id) \o Lp16(m.suite) \o Lp16(m.pk)

MacReq(m) == RotationTag("req") \o <<m.epoch>> \o Lp16(m.from) \o Lp16(m.peer)

MacResp(m) == RotationTag("answer") \o <<m.epoch>> \o Lp16(m.from) \o Lp16(m.peer) \o Lp16(m.body)

MacFin(m) == RotationTag("fin") \o <<m.epoch>> \o Lp16(m.from) \o Lp16(m.peer) \o Lp16(m.body)

\* frame_mac: m.fixed stands for the fixed-width fields after the counter.
FrameBuild(m) ==
    TagFrame \o <<m.session, m.counter, m.fixed>>
             \o <<Len(m.keyIds)>> \o FlattenSeq([i \in DOMAIN m.keyIds |-> Lp16(m.keyIds[i])])
             \o Lp16(m.orr) \o Lp16(m.dkms) \o <<Len(m.body)>> \o m.body

\* The frame key is derived from the root with the session as salt.
DeriveKey(m) == <<"frame", m.session>>

----------------------------------------------------------------------------
(* The senders.                                                            *)

\* The link's handshake goes under the PSK or under the node's certificate.
TagOf(m) == <<<<"psk", 0>>, LinkBuild(m)>>

SignHandshake(m) == <<<<"node", 0>>, CanonicalMsg(m)>>

\* The certificate's key also signs announcements; a seed is a key apart.
SignOrrPubkey(signer, m) ==
    CASE signer = "cert" -> <<<<"node", 0>>, AnnouncementMsg(m)>>
      [] signer = "seed" -> <<<<"seed", 0>>, AnnouncementMsg(m)>>
      [] signer = "none" -> <<<<"none", 0>>, <<>>>>

SignRotation(m) ==
    <<<<"bootstrap", 0>>, CASE m.kind = "req" -> MacReq(m)
                            [] m.kind = "answer" -> MacResp(m)
                            [] m.kind = "fin" -> MacFin(m)>>

SealFrame(m) == <<DeriveKey(m), FrameBuild(m)>>

Say(m, t) == said = <<>> /\ said' = <<m>> /\ tag' = t /\ UNCHANGED <<trust, heard, verdict>>

SayLink(m) == m.kind \in LinkKinds /\ (Say(m, TagOf(m)) \/ Say(m, SignHandshake(m)))

SayOrrPubkey(m) ==
    m.kind = "pubkey" /\ \E signer \in Signers : Say(m, SignOrrPubkey(signer, m))

SayRotation(m) == m.kind \in RotationKinds /\ Say(m, SignRotation(m))

SayFrame(m) == m.kind = "frame" /\ Say(m, SealFrame(m))

----------------------------------------------------------------------------
(* The readers.  Each rebuilds the transcript from its own fields.         *)

Hear(m, v) ==
    /\ said # <<>>
    /\ heard = <<>>
    /\ heard' = <<m>>
    /\ verdict' = v
    /\ UNCHANGED <<said, tag>>

Result(ok) == IF ok THEN "verified" ELSE "refused"

VerifyMac(m) == Result(tag = <<<<"psk", 0>>, LinkBuild(m)>>)

VerifyHandshake(m) == Result(tag = <<<<"node", 0>>, CanonicalMsg(m)>>)

VerifyRotation(m) ==
    Result(tag = <<<<"bootstrap", 0>>, CASE m.kind = "req" -> MacReq(m)
                                         [] m.kind = "answer" -> MacResp(m)
                                         [] m.kind = "fin" -> MacFin(m)>>)

VerifyFrame(m) == Result(tag = <<DeriveKey(m), FrameBuild(m)>>)

VerifyOrrPubkey(key, m) == tag = <<<<key, 0>>, AnnouncementMsg(m)>>

Unless(t, v) == IF t.strict THEN "refused" ELSE v

\* What accompanies the signature: the chain, a bare signature or nothing.
Under(key) == tag[1][1] = key

\* A chain of certificates is followed to the network's CA; otherwise the
\* key configured for this ORR decides, and without either only strict refuses.
VerifyAnnouncement(t, m) ==
    IF Under("node")
    THEN IF t.roots THEN Result(VerifyOrrPubkey("node", m)) ELSE Unless(t, "unverified")
    ELSE IF t.key /\ ~Under("none") THEN Result(VerifyOrrPubkey("seed", m))
         ELSE Unless(t, "unverified")

HearLink(m) ==
    /\ m.kind \in LinkKinds
    /\ Hear(m, VerifyMac(m)) \/ Hear(m, VerifyHandshake(m))
    /\ UNCHANGED trust

HearOrrPubkey(m) ==
    /\ m.kind = "pubkey"
    /\ \E t \in Trusts : trust' = <<t>> /\ Hear(m, VerifyAnnouncement(t, m))

HearRotation(m) == m.kind \in RotationKinds /\ Hear(m, VerifyRotation(m)) /\ UNCHANGED trust

HearFrame(m) == m.kind = "frame" /\ Hear(m, VerifyFrame(m)) /\ UNCHANGED trust

----------------------------------------------------------------------------
Init ==
    /\ trust = <<>>
    /\ said = <<>>
    /\ tag = <<<<"none", 0>>, <<>>>>
    /\ heard = <<>>
    /\ verdict = "none"

Next ==
    \/ said = <<>> /\ \E m \in Messages :
           SayLink(m) \/ SayOrrPubkey(m) \/ SayRotation(m) \/ SayFrame(m)
    \/ heard = <<>> /\ \E m \in Messages :
           HearLink(m) \/ HearOrrPubkey(m) \/ HearRotation(m) \/ HearFrame(m)

Spec == Init /\ [][Next]_transcriptVars

----------------------------------------------------------------------------
TypeOK ==
    /\ Len(trust) <= 1 /\ Range(trust) \subseteq Trusts
    /\ Len(said) <= 1 /\ Range(said) \subseteq Messages
    /\ Len(heard) <= Len(said) /\ Range(heard) \subseteq Messages
    /\ verdict \in {"none", "verified", "unverified", "refused"}

(* What verifies is what was sealed, field by field: no two messages the   *)
(* ends exchange under one key write the same bytes, whatever moved        *)
(* between neighbouring fields and whichever protocol of the key they      *)
(* belong to.                                                              *)
VerifiedIsSealed == verdict = "verified" => heard = said

(* A signature that can be checked is checked: with the means to verify    *)
(* it, an announcement that differs from the signed one is refused, in     *)
(* tofu mode too, and the signed one is accepted.                          *)
CheckedWhenItCanBe ==
    /\ trust # <<>>
    /\ Head(said).kind = "pubkey"
    /\ (Under("node") /\ Head(trust).roots) \/ (Under("seed") /\ Head(trust).key)
    => verdict = Result(heard = said)
============================================================================
