---------------------------- MODULE WireFormat ----------------------------
(***************************************************************************)
(* The frames on a TCP connection between two QKCs, or a QKC and its ORR   *)
(* (wire/src/lib.rs): a prefix with the kind, the grade and the length of  *)
(* the body, and a body of length-prefixed fields.  The writer checks that *)
(* every field fits its prefix; the reader waits for the prefix without    *)
(* limit and for the body with one, and the connection can end anywhere.   *)
(*                                                                         *)
(* A byte string is a sequence of cells; a number takes one cell.  The     *)
(* five integers of the header that are copied through are one cell.  The  *)
(* widths of the length prefixes are constants, small enough to overflow.  *)
(***************************************************************************)
EXTENDS Integers, Sequences, SequencesExt, FiniteSetsExt

CONSTANTS
  U8,        \* u8::MAX
  U16,       \* u16::MAX
  MaxTotal,  \* MAX_TOTAL_LEN
  Messages,  \* what is to be sent: [kind, auth, grade, ints, key_ids, orr, dkms, body]
  MaxSent    \* bound: frames written

VARIABLES
  sent,      \* history: the messages written, in order
  wire,      \* the cells written and not read
  reader,    \* "prefix", "body", or why it closed: "refused", "cut"
  expect,    \* the prefix read: [kind, grade, len], or <<>>
  received,  \* the frames the reader returned
  heard,     \* what the receiver made of them: [kind, body, counter]
  ended      \* whether the connection takes no more cells

wireVars == <<sent, wire, reader, expect, received, heard, ended>>

Fixed == 4    \* FIXED_PREFIX: magic, kind, grade, length
Magic == 1

Lp(s, max) == <<Len(s) % (max + 1)>> \o s

-----------------------------------------------------------------------------
(* Notifications and trailers *)

Data == 1
Notify == 2
AuthOf(kind) == kind + 2        \* auth_kind_for
IsAuth(kind) == kind > 2        \* is_auth_kind
BaseOf(kind) == IF IsAuth(kind) THEN kind - 2 ELSE kind

TrailerLen == 3                 \* session, counter, tag
AppendAuthTrailer(p, counter) == p \o <<0, counter, 0>>
\* Mutant: the body keeps a cell of the trailer.
SplitAuthTrailerLong(p) ==
  IF Len(p) < TrailerLen THEN <<>>
  ELSE <<[body |-> SubSeq(p, 1, Len(p) - TrailerLen + 1), counter |-> p[Len(p) - 1]]>>
SplitAuthTrailer(p) ==
  IF Len(p) < TrailerLen THEN <<>>
  ELSE <<[body |-> SubSeq(p, 1, Len(p) - TrailerLen), counter |-> p[Len(p) - 1]]>>

EncodeNotifyPayload(ids) == <<Len(ids)>> \o ids
DecodeNotifyPayload(p) ==
  IF p = <<>> \/ Len(p) < 1 + p[1] THEN <<>> ELSE <<SubSeq(p, 2, 1 + p[1])>>

-----------------------------------------------------------------------------
(* Frame *)

KeyIdLen(f) == IF f.key_ids = <<>> THEN 0 ELSE Len(f.key_ids[1])

BodyLen(f) == 3 + Len(FlattenSeq(f.key_ids)) + 1 + Len(f.orr) + 1 + Len(f.dkms) + 1 + Len(f.payload)

ValidateForEncode(f) ==
  /\ Len(f.key_ids) <= U8 /\ KeyIdLen(f) <= U8
  /\ \A i \in DOMAIN f.key_ids : Len(f.key_ids[i]) = KeyIdLen(f)
  /\ Len(f.orr) <= U16 /\ Len(f.dkms) <= U16
  /\ Fixed + BodyLen(f) <= MaxTotal

Encode(f) ==
  <<Magic, f.kind, f.grade, BodyLen(f)>>
    \o <<f.ints, Len(f.key_ids) % (U8 + 1), KeyIdLen(f) % (U8 + 1)>> \o FlattenSeq(f.key_ids)
    \o Lp(f.orr, U16) \o Lp(f.dkms, U16)
    \o <<Len(f.payload)>> \o f.payload

\* read_lp16 at a position: [ok, val, next].
ReadLp(b, at) ==
  IF at > Len(b) \/ at + b[at] > Len(b) THEN [ok |-> FALSE, val |-> <<>>, next |-> at]
  ELSE [ok |-> TRUE, val |-> SubSeq(b, at + 1, at + b[at]), next |-> at + b[at] + 1]

\* decode_body: the frame, or <<>> if a field is cut short.
DecodeBody(b, kind, grade) ==
  IF Len(b) < 3 \/ Len(b) - 3 < b[2] * b[3] + 1 THEN <<>>
  ELSE LET ids  == [i \in 1 .. b[2] |-> SubSeq(b, 4 + (i - 1) * b[3], 3 + i * b[3])]
           orr  == ReadLp(b, 4 + b[2] * b[3])
           dkms == ReadLp(b, orr.next)
           pay  == ReadLp(b, dkms.next)
       IN  IF orr.ok /\ dkms.ok /\ pay.ok
           THEN <<[kind |-> kind, grade |-> grade, ints |-> b[1], key_ids |-> ids,
                   orr |-> orr.val, dkms |-> dkms.val, payload |-> pay.val]>>
           ELSE <<>>

-----------------------------------------------------------------------------
(* What the two ends do with a frame *)

FrameOf(m, counter) ==
  LET p == IF m.kind = Notify THEN EncodeNotifyPayload(m.body) ELSE m.body
  IN  [kind |-> IF m.auth THEN AuthOf(m.kind) ELSE m.kind, grade |-> m.grade, ints |-> m.ints,
       key_ids |-> m.key_ids, orr |-> m.orr, dkms |-> m.dkms,
       payload |-> IF m.auth THEN AppendAuthTrailer(p, counter) ELSE p]

HeardIn(f) ==
  LET s == IF IsAuth(f.kind) THEN SplitAuthTrailer(f.payload)
           ELSE <<[body |-> f.payload, counter |-> 0]>>
      d == IF s = <<>> THEN <<>>
           ELSE IF BaseOf(f.kind) = Notify THEN DecodeNotifyPayload(s[1].body) ELSE <<s[1].body>>
  IN  IF d = <<>> THEN <<>> ELSE <<[kind |-> BaseOf(f.kind), body |-> d[1], counter |-> s[1].counter]>>

-----------------------------------------------------------------------------
(* The connection *)

Init ==
  /\ sent = <<>> /\ wire = <<>> /\ received = <<>> /\ heard = <<>>
  /\ reader = "prefix" /\ expect = <<>> /\ ended = FALSE

\* write_frame; a frame that does not fit is not written at all.
WriteFrame(m) ==
  LET f == FrameOf(m, Len(sent) + 1)
  IN  /\ ~ended /\ Len(sent) < MaxSent /\ ValidateForEncode(f)
      /\ sent' = Append(sent, m) /\ wire' = wire \o Encode(f)
      /\ UNCHANGED <<reader, expect, received, heard, ended>>

\* The connection ends: what is on its way may arrive only in part.
Ends ==
  /\ ~ended /\ ended' = TRUE
  /\ \E n \in 0 .. Len(wire) : wire' = SubSeq(wire, 1, n)
  /\ UNCHANGED <<sent, reader, expect, received, heard>>

ReadPrefix ==
  /\ reader = "prefix" /\ Len(wire) >= Fixed
  /\ wire' = SubSeq(wire, Fixed + 1, Len(wire))
  /\ IF wire[1] # Magic \/ wire[4] > MaxTotal
     THEN reader' = "refused" /\ UNCHANGED expect
     ELSE reader' = "body" /\ expect' = <<[kind |-> wire[2], grade |-> wire[3], len |-> wire[4]]>>
  /\ UNCHANGED <<sent, received, heard, ended>>

\* read_body and decode_body.
ReadBody ==
  /\ reader = "body" /\ Len(wire) >= expect[1].len
  /\ wire' = SubSeq(wire, expect[1].len + 1, Len(wire))
  /\ LET f == DecodeBody(SubSeq(wire, 1, expect[1].len), expect[1].kind, expect[1].grade)
     IN  /\ received' = received \o f
         /\ heard' = IF f = <<>> THEN heard ELSE heard \o HeardIn(f[1])
         /\ reader' = IF f = <<>> THEN "refused" ELSE "prefix"
  /\ expect' = <<>>
  /\ UNCHANGED <<sent, ended>>

\* The body did not come in time, or the connection ended inside a frame.
GiveUp ==
  /\ reader = "body" \/ (reader = "prefix" /\ ended /\ Len(wire) < Fixed)
  /\ reader' = "cut" /\ expect' = <<>>
  /\ UNCHANGED <<sent, wire, received, heard, ended>>

Next == (\E m \in Messages : WriteFrame(m)) \/ Ends \/ ReadPrefix \/ ReadBody \/ GiveUp

Spec == Init /\ [][Next]_wireVars

-----------------------------------------------------------------------------
(* Properties *)

TypeOK ==
  /\ sent \in SeqOf(Messages, MaxSent) /\ Len(received) <= Len(sent)
  /\ reader \in {"prefix", "body", "refused", "cut"} /\ ended \in BOOLEAN
  /\ reader = "body" <=> expect # <<>>

\* Wherever the connection ends, what the reader returned is what was written, in
\* order, without a gap and without a frame made of pieces.
ReadIsWritten ==
  /\ Len(received) <= Len(sent)
  /\ \A i \in DOMAIN received : received[i] = FrameOf(sent[i], i)

\* The reader takes every frame the writer takes: it closes a connection because
\* the rest does not come, never because of what came.
NothingRefused == reader # "refused"

\* The receiver hears what was said, message by message: the identifiers of a
\* notification, the body of a data frame, and the counter it was sealed with.
HeardIsSaid ==
  /\ Len(heard) = Len(received)
  /\ \A i \in DOMAIN heard :
       /\ heard[i].kind = sent[i].kind /\ heard[i].body = sent[i].body
       /\ heard[i].counter = IF sent[i].auth THEN i ELSE 0
=============================================================================
