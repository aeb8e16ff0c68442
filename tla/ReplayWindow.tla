---------------------------- MODULE ReplayWindow ----------------------------
(***************************************************************************)
(* The anti-replay window of common/src/crypto/frame_mac.rs.               *)
(*                                                                         *)
(* One window guards one link and one direction.  Verified frames arrive   *)
(* in any order, any number of times, as (session, counter) pairs.  The    *)
(* window keeps the current session, the previous one, and the last        *)
(* RETIRED_KEPT sessions it retired; three policies decide when an unseen  *)
(* session replaces the current one.                                       *)
(***************************************************************************)
EXTENDS Integers, Sequences, TLAPS

CONSTANTS
    Session,     \* the session numbers that senders may use
    LastCounter, \* bound: the last counter that each session's sender uses
    Width,       \* width of the bitmap (at least 64 in the code)
    RetiredKept  \* RETIRED_KEPT

ASSUME SessionAssumption == Session \subseteq Nat
ASSUME LastAssumption == LastCounter \in [Session -> Nat]
ASSUME WidthAssumption == Width \in Nat \ {0}
ASSUME RetiredKeptAssumption == RetiredKept \in Nat

VARIABLES
    adopt,     \* the policy the window was built with
    session,   \* the session in course, NoSession before the first frame
    win,       \* its window: highest counter and bitmap
    prev,      \* the previous session, NoSession if there is none
    prevWin,   \* its window
    retired,   \* sessions retired, oldest first
    quiet,     \* the current session verified nothing for ADOPT_AFTER_QUIET
    accepted,  \* history: the pairs that were accepted
    forgotten  \* history: the sessions dropped from retired

vars == <<adopt, session, win, prev, prevWin, retired, quiet, accepted, forgotten>>

NoSession == -1
SessionAdopt == {"Any", "Monotonic", "AfterQuiet"}
Counter(s) == 1..LastCounter[s]
Retired == {retired[i] : i \in 1..Len(retired)}

(***************************************************************************)
(* A bitmap: bit i stands for the counter highest - i.                     *)
(***************************************************************************)
EmptyWindow == [highest |-> 0, bits |-> {}]

\* A shift moves every mark up and loses the ones that leave the width.
Shift(bits, by) == {i \in 0..Width - 1 : i - by \in bits}

\* Mutant of Takes: the window is one counter too narrow.
TakesNarrow(w, c) ==
    \/ c > w.highest
    \/ w.highest - c < Width - 1 /\ w.highest - c \notin w.bits

\* The counter is above the window, or inside it and not marked.
Takes(w, c) ==
    \/ c > w.highest
    \/ w.highest - c < Width /\ w.highest - c \notin w.bits

Mark(w, c) ==
    IF c > w.highest
      THEN [highest |-> c, bits |-> Shift(w.bits, c - w.highest) \cup {0}]
      ELSE [highest |-> w.highest, bits |-> w.bits \cup {w.highest - c}]

Init ==
    /\ adopt \in SessionAdopt
    /\ session = NoSession
    /\ win = EmptyWindow
    /\ prev = NoSession
    /\ prevWin = EmptyWindow
    /\ retired = <<>>
    /\ quiet = TRUE
    /\ accepted = {}
    /\ forgotten = {}

-----------------------------------------------------------------------------
(***************************************************************************)
(* check_and_set.  The tests come in this order: retired, previous,        *)
(* current, adoption.                                                      *)
(***************************************************************************)

\* Mutant of CheckPrevious: late frames of the previous session are accepted
\* without a mark.
CheckPreviousUnmarked(s, c) ==
    /\ s \notin Retired
    /\ s = prev
    /\ Takes(prevWin, c)
    /\ accepted' = accepted \cup {<<s, c>>}
    /\ UNCHANGED <<adopt, session, win, prev, prevWin, retired, quiet, forgotten>>

CheckPrevious(s, c) ==
    /\ s \notin Retired
    /\ s = prev
    /\ IF Takes(prevWin, c)
         THEN /\ prevWin' = Mark(prevWin, c)
              /\ accepted' = accepted \cup {<<s, c>>}
         ELSE UNCHANGED <<prevWin, accepted>>
    /\ UNCHANGED <<adopt, session, win, prev, retired, quiet, forgotten>>

\* last_accept is refreshed before the counter is looked at.
CheckCurrent(s, c) ==
    /\ s \notin Retired
    /\ s # prev
    /\ s = session
    /\ quiet' = FALSE
    /\ IF Takes(win, c)
         THEN /\ win' = Mark(win, c)
              /\ accepted' = accepted \cup {<<s, c>>}
         ELSE UNCHANGED <<win, accepted>>
    /\ UNCHANGED <<adopt, session, prev, prevWin, retired, forgotten>>

MayAdopt(s) ==
    \/ session = NoSession
    \/ adopt = "Any"
    \/ adopt = "Monotonic" /\ s > session
    \/ adopt = "AfterQuiet" /\ quiet

\* reset_to: the current session becomes the previous one, which is retired.
Retire ==
    IF prev = NoSession
      THEN UNCHANGED <<retired, forgotten>>
      ELSE LET longer == Append(retired, prev)
           IN  IF Len(longer) > RetiredKept
                 THEN /\ retired' = Tail(longer)
                      /\ forgotten' = forgotten \cup {Head(longer)}
                 ELSE retired' = longer /\ UNCHANGED forgotten

\* Mutant of AdoptSession: the retired sessions are not consulted.
AdoptSessionUnchecked(s, c) ==
    /\ s # prev
    /\ s # session
    /\ MayAdopt(s)
    /\ session' = s
    /\ win' = Mark(EmptyWindow, c)
    /\ prev' = session
    /\ prevWin' = win
    /\ Retire
    /\ quiet' = FALSE
    /\ accepted' = accepted \cup {<<s, c>>}
    /\ UNCHANGED adopt

AdoptSession(s, c) ==
    /\ s \notin Retired
    /\ s # prev
    /\ s # session
    /\ MayAdopt(s)
    /\ session' = s
    /\ win' = Mark(EmptyWindow, c)
    /\ prev' = session
    /\ prevWin' = win
    /\ Retire
    /\ quiet' = FALSE
    /\ accepted' = accepted \cup {<<s, c>>}
    /\ UNCHANGED adopt

QuietElapses ==
    /\ ~quiet
    /\ quiet' = TRUE
    /\ UNCHANGED <<adopt, session, win, prev, prevWin, retired, accepted, forgotten>>

CheckAndSet(s, c) ==
    CheckPrevious(s, c) \/ CheckCurrent(s, c) \/ AdoptSession(s, c)

Next ==
    \/ \E s \in Session : \E c \in Counter(s) : CheckAndSet(s, c)
    \/ QuietElapses

Spec == Init /\ [][Next]_vars

-----------------------------------------------------------------------------
(***************************************************************************)
(* Properties.                                                             *)
(***************************************************************************)

\* check_and_set would answer Ok to the pair.
Fresh(s, c) ==
    /\ s \notin Retired
    /\ \/ s = prev /\ Takes(prevWin, c)
       \/ s # prev /\ s = session /\ Takes(win, c)
       \/ s # prev /\ s # session /\ MayAdopt(s)

Window == [highest : Nat, bits : SUBSET (0..Width - 1)]

\* The sessions, the two windows and the history have their types.
TypeOK ==
    /\ adopt \in SessionAdopt
    /\ session \in Session \cup {NoSession}
    /\ win \in Window
    /\ prev \in Session \cup {NoSession}
    /\ prevWin \in Window
    /\ retired \in Seq(Session)
    /\ quiet \in BOOLEAN
    /\ accepted \subseteq Session \X Nat
    /\ forgotten \subseteq Session

\* No pair is accepted twice, in whatever order frames of several sessions are
\* interleaved: with epochs as sessions (Monotonic) always; under the other
\* policies as long as the session is not among those that fell out of the
\* retired list (the residual risk that RETIRED_KEPT documents).
NoReplay ==
    \A r \in accepted :
        adopt = "Monotonic" \/ r[1] \notin forgotten => ~Fresh(r[1], r[2])

\* "Las sesiones ya vistas (la anterior, las retiradas) nunca se readoptan, en
\* ninguna política": a session change never goes back to a session some frame
\* was accepted in.
NeverReadopted ==
    [][session' # session =>
          \A r \in accepted : r[1] = session' =>
              adopt # "Monotonic" /\ r[1] \in forgotten]_vars

\* The window has no false alarms: a counter of the current session that is
\* inside the width and was never accepted is accepted, also after shifts and
\* after detours through the previous session.
LateFrameAccepted ==
    session # NoSession =>
        \A c \in Counter(session) :
            c + Width > win.highest /\ <<session, c>> \notin accepted
                => Fresh(session, c)

-----------------------------------------------------------------------------
(***************************************************************************)
(* Proofs.  No (session, counter) pair is accepted twice and no fresh one  *)
(* inside the width is refused: proved for every width, every set of       *)
(* sessions and every adoption policy.                                     *)
(***************************************************************************)

\* The current and the previous session differ and neither is retired; under
\* Monotonic the previous one is lower.
OrderInv ==
    /\ prev # NoSession => session # NoSession /\ prev # session
    /\ session \notin Retired
    /\ prev \notin Retired
    /\ session = NoSession => accepted = {}
    /\ adopt = "Monotonic" /\ prev # NoSession => prev < session

\* The session can never be adopted again.
Gone(s) ==
    /\ s # session
    /\ s # prev
    /\ IF adopt = "Monotonic" THEN s < session ELSE s \in Retired

\* Every accepted pair is refused by the window of its session, or its session
\* is gone.
CoverInv ==
    \A r \in accepted : adopt = "Monotonic" \/ r[1] \notin forgotten =>
        \/ r[1] = session /\ ~Takes(win, r[2])
        \/ r[1] = prev /\ ~Takes(prevWin, r[2])
        \/ Gone(r[1])

\* Every mark of the current window is an accepted pair.
MarkInv == \A i \in win.bits : <<session, win.highest - i>> \in accepted

IInv == TypeOK /\ OrderInv /\ CoverInv /\ MarkInv

-----------------------------------------------------------------------------
(***************************************************************************)
(* The bitmap.                                                             *)
(***************************************************************************)

\* The counters of a session are positive.
LEMMA CounterType == \A s \in Session : \A c \in Counter(s) : c \in Nat \ {0}
BY LastAssumption DEF Counter

\* Mark keeps the type of a window.
LEMMA MarkType ==
    ASSUME NEW w \in Window, NEW c \in Nat, Takes(w, c)
    PROVE  Mark(w, c) \in Window
<1>1. CASE c > w.highest
  BY <1>1, WidthAssumption DEF Mark, Window, Shift
<1>2. CASE ~(c > w.highest)
  BY <1>2, WidthAssumption DEF Mark, Window, Takes
<1> QED BY <1>1, <1>2

\* Mark makes the window refuse the marked counter, and every counter that it
\* refused before stays refused: a shift loses only marks that are too old.
LEMMA MarkCovers ==
    ASSUME NEW w \in Window, NEW c \in Nat, Takes(w, c)
    PROVE  /\ ~Takes(Mark(w, c), c)
           /\ \A d \in Nat : ~Takes(w, d) => ~Takes(Mark(w, c), d)
<1>1. CASE c > w.highest
  <2>1. ~Takes(Mark(w, c), c)
    BY <1>1, WidthAssumption DEF Mark, Takes, Window
  <2>2. ASSUME NEW d \in Nat, ~Takes(w, d) PROVE ~Takes(Mark(w, c), d)
    <3>1. d <= w.highest /\ d < c
      BY <1>1, <2>2 DEF Takes, Window
    <3>2. CASE w.highest - d >= Width
      BY <1>1, <3>1, <3>2, WidthAssumption DEF Mark, Takes, Window
    <3>3. CASE w.highest - d \in w.bits
      <4>1. (c - d) - (c - w.highest) = w.highest - d
        BY DEF Window
      <4>2. c - d < Width => c - d \in Shift(w.bits, c - w.highest)
        BY <3>1, <3>3, <4>1, WidthAssumption DEF Shift
      <4> QED BY <1>1, <3>1, <4>2, WidthAssumption DEF Mark, Takes, Window
    <3> QED BY <2>2, <3>1, <3>2, <3>3, WidthAssumption DEF Takes, Window
  <2> QED BY <2>1, <2>2
<1>2. CASE ~(c > w.highest)
  BY <1>2, WidthAssumption DEF Mark, Takes, Window
<1> QED BY <1>1, <1>2

\* Every mark after Mark stands for the counter marked now or for a counter
\* that had a mark before.
LEMMA MarkSound ==
    ASSUME NEW w \in Window, NEW c \in Nat, NEW i \in Mark(w, c).bits
    PROVE  \/ Mark(w, c).highest - i = c
           \/ \E j \in w.bits : Mark(w, c).highest - i = w.highest - j
<1>1. CASE c > w.highest
  <2>1. Mark(w, c) = [highest |-> c, bits |-> Shift(w.bits, c - w.highest) \cup {0}]
    BY <1>1 DEF Mark
  <2>2. CASE i = 0
    BY <2>1, <2>2
  <2>3. CASE i \in Shift(w.bits, c - w.highest)
    <3>1. i \in Int /\ i - (c - w.highest) \in w.bits
      BY <2>3, WidthAssumption DEF Shift
    <3>2. c - i = w.highest - (i - (c - w.highest))
      BY <3>1 DEF Window
    <3> QED BY <2>1, <3>1, <3>2
  <2> QED BY <2>1, <2>2, <2>3
<1>2. CASE ~(c > w.highest)
  BY <1>2 DEF Mark, Window
<1> QED BY <1>1, <1>2

\* A fresh window accepts any counter.
LEMMA EmptyTakes ==
    ASSUME NEW c \in Nat \ {0}
    PROVE  EmptyWindow \in Window /\ Takes(EmptyWindow, c)
BY WidthAssumption DEF EmptyWindow, Window, Takes

-----------------------------------------------------------------------------
(***************************************************************************)
(* The list of retired sessions.                                           *)
(***************************************************************************)

\* reset_to adds at most the previous session to the retired ones, and what it
\* does not keep is recorded as forgotten.
LEMMA RetireSound ==
    ASSUME TypeOK, Retire
    PROVE  /\ retired' \in Seq(Session)
           /\ forgotten' \subseteq Session
           /\ forgotten \subseteq forgotten'
           /\ Retired' \subseteq Retired \cup ({prev} \ {NoSession})
           /\ Retired \cup ({prev} \ {NoSession}) \subseteq Retired' \cup forgotten'
<1>1. CASE prev = NoSession
  BY <1>1 DEF Retire, TypeOK, Retired
<1>2. CASE prev # NoSession
  <2> DEFINE longer == Append(retired, prev)
  <2>1. prev \in Session /\ retired \in Seq(Session)
    BY <1>2 DEF TypeOK
  <2>2. /\ longer \in Seq(Session)
        /\ Len(longer) = Len(retired) + 1
        /\ longer[Len(retired) + 1] = prev
        /\ \A i \in 1..Len(retired) : longer[i] = retired[i]
    BY <2>1
  <2>3. {longer[i] : i \in 1..Len(longer)} = Retired \cup {prev}
    BY <2>1, <2>2 DEF Retired
  <2>4. CASE Len(longer) > RetiredKept
    <3>1. retired' = Tail(longer) /\ forgotten' = forgotten \cup {Head(longer)}
      BY <1>2, <2>4 DEF Retire
    <3>2. /\ Tail(longer) \in Seq(Session)
          /\ Len(Tail(longer)) = Len(longer) - 1
          /\ \A i \in 1..Len(longer) - 1 : Tail(longer)[i] = longer[i + 1]
          /\ Head(longer) = longer[1]
          /\ Head(longer) \in Session
      BY <2>2, <2>1
    <3>3. Retired' = {longer[i] : i \in 2..Len(longer)}
      <4>1. Retired' = {Tail(longer)[i] : i \in 1..Len(longer) - 1}
        BY <3>1, <3>2 DEF Retired
      <4>2. ASSUME NEW i \in 2..Len(longer)
            PROVE  i - 1 \in 1..Len(longer) - 1 /\ Tail(longer)[i - 1] = longer[i]
        BY <3>2, <2>2, <2>1
      <4>3. ASSUME NEW i \in 1..Len(longer) - 1
            PROVE  i + 1 \in 2..Len(longer) /\ Tail(longer)[i] = longer[i + 1]
        BY <3>2, <2>2, <2>1
      <4> HIDE DEF longer
      <4> QED BY <4>1, <4>2, <4>3
    <3>4. {longer[i] : i \in 1..Len(longer)} = Retired' \cup {Head(longer)}
      BY <3>2, <3>3, <2>2, <2>1
    <3> HIDE DEF longer
    <3> QED BY <1>2, <2>3, <3>1, <3>2, <3>4 DEF TypeOK
  <2>5. CASE ~(Len(longer) > RetiredKept)
    <3>1. retired' = longer /\ forgotten' = forgotten
      BY <1>2, <2>5 DEF Retire
    <3>2. Retired' = {longer[i] : i \in 1..Len(longer)}
      BY <3>1 DEF Retired
    <3> HIDE DEF longer
    <3> QED BY <1>2, <2>2, <2>3, <3>1, <3>2 DEF TypeOK
  <2> QED BY <2>4, <2>5
<1> QED BY <1>1, <1>2

-----------------------------------------------------------------------------
(***************************************************************************)
(* The inductive invariant.                                                *)
(***************************************************************************)

\* The window before the first frame satisfies the invariant.
LEMMA InitInv == Init => IInv
<1> SUFFICES ASSUME Init PROVE IInv
  OBVIOUS
<1>1. TypeOK
  BY WidthAssumption DEF Init, TypeOK, Window, EmptyWindow
<1>2. Retired = {}
  BY DEF Init, Retired
<1>3. OrderInv
  BY <1>2 DEF Init, OrderInv, NoSession
<1>4. CoverInv /\ MarkInv
  BY DEF Init, CoverInv, MarkInv, EmptyWindow
<1> QED BY <1>1, <1>3, <1>4 DEF IInv

\* A frame of the previous session.
LEMMA PreviousInv ==
    ASSUME IInv, NEW s \in Session, NEW c \in Nat \ {0}, CheckPrevious(s, c)
    PROVE  IInv'
<1>1. c \in Nat /\ s # NoSession
  BY SessionAssumption DEF NoSession
<1>2. Retired' = Retired /\ adopt' = adopt
  BY DEF CheckPrevious, Retired
<1>3. CASE Takes(prevWin, c)
  <2>1. prevWin' = Mark(prevWin, c) /\ accepted' = accepted \cup {<<s, c>>}
    BY <1>3 DEF CheckPrevious
  <2>2. prevWin \in Window
    BY DEF IInv, TypeOK
  <2>3. prevWin' \in Window
    BY <1>1, <1>3, <2>1, <2>2, MarkType
  <2>4. TypeOK'
    BY <1>1, <2>1, <2>3 DEF IInv, TypeOK, CheckPrevious
  <2>5. OrderInv'
    BY <1>1, <1>2 DEF IInv, OrderInv, CheckPrevious
  <2>6. ASSUME NEW r \in accepted', adopt = "Monotonic" \/ r[1] \notin forgotten'
        PROVE  \/ r[1] = session' /\ ~Takes(win', r[2])
               \/ r[1] = prev' /\ ~Takes(prevWin', r[2])
               \/ Gone(r[1])'
    <3>1. CASE r = <<s, c>>
      BY <1>1, <1>3, <2>1, <2>2, <3>1, MarkCovers DEF CheckPrevious
    <3>2. CASE r \in accepted
      <4>1. r[2] \in Nat
        BY <3>2 DEF IInv, TypeOK
      <4>2. CASE r[1] = prev /\ ~Takes(prevWin, r[2])
        BY <1>1, <1>3, <2>1, <2>2, <4>1, <4>2, MarkCovers DEF CheckPrevious
      <4>3. CASE r[1] = session /\ ~Takes(win, r[2])
        BY <4>3 DEF CheckPrevious
      <4>4. CASE Gone(r[1])
        BY <1>2, <4>4 DEF CheckPrevious, Gone
      <4> QED BY <2>6, <3>2, <4>2, <4>3, <4>4 DEF IInv, CoverInv, CheckPrevious
    <3> QED BY <2>1, <3>1, <3>2
  <2>7. CoverInv'
    BY <1>2, <2>6 DEF CoverInv
  <2>8. MarkInv'
    BY <2>1 DEF IInv, MarkInv, CheckPrevious
  <2> QED BY <2>4, <2>5, <2>7, <2>8 DEF IInv
<1>4. CASE ~Takes(prevWin, c)
  BY <1>4 DEF CheckPrevious, IInv, TypeOK, OrderInv, CoverInv, MarkInv, Gone, Retired
<1> QED BY <1>3, <1>4

\* A frame of the current session.
LEMMA CurrentInv ==
    ASSUME IInv, NEW s \in Session, NEW c \in Nat \ {0}, CheckCurrent(s, c)
    PROVE  IInv'
<1>1. c \in Nat /\ s # NoSession
  BY SessionAssumption DEF NoSession
<1>2. Retired' = Retired /\ adopt' = adopt
  BY DEF CheckCurrent, Retired
<1>3. CASE Takes(win, c)
  <2>1. win' = Mark(win, c) /\ accepted' = accepted \cup {<<s, c>>}
    BY <1>3 DEF CheckCurrent
  <2>2. win \in Window
    BY DEF IInv, TypeOK
  <2>3. win' \in Window
    BY <1>1, <1>3, <2>1, <2>2, MarkType
  <2>4. TypeOK'
    <3>1. quiet' \in BOOLEAN
      BY Zenon DEF CheckCurrent
    <3>2. accepted' \subseteq Session \X Nat
      BY <1>1, <2>1 DEF IInv, TypeOK
    <3>3. UNCHANGED <<session, prev, prevWin, retired, forgotten>>
      BY Zenon DEF CheckCurrent
    <3> QED BY <1>2, <2>3, <3>1, <3>2, <3>3 DEF IInv, TypeOK
  <2>5. OrderInv'
    BY <1>1, <1>2 DEF IInv, OrderInv, CheckCurrent
  <2>6. ASSUME NEW r \in accepted', adopt = "Monotonic" \/ r[1] \notin forgotten'
        PROVE  \/ r[1] = session' /\ ~Takes(win', r[2])
               \/ r[1] = prev' /\ ~Takes(prevWin', r[2])
               \/ Gone(r[1])'
    <3>1. CASE r = <<s, c>>
      BY <1>1, <1>3, <2>1, <2>2, <3>1, MarkCovers DEF CheckCurrent
    <3>2. CASE r \in accepted
      <4>1. r[2] \in Nat
        BY <3>2 DEF IInv, TypeOK
      <4>2. CASE r[1] = session /\ ~Takes(win, r[2])
        BY <1>1, <1>3, <2>1, <2>2, <4>1, <4>2, MarkCovers DEF CheckCurrent
      <4>3. CASE r[1] = prev /\ ~Takes(prevWin, r[2])
        BY <4>3 DEF CheckCurrent
      <4>4. CASE Gone(r[1])
        BY <1>2, <4>4 DEF CheckCurrent, Gone
      <4> QED BY <2>6, <3>2, <4>2, <4>3, <4>4 DEF IInv, CoverInv, CheckCurrent
    <3> QED BY <2>1, <3>1, <3>2
  <2>7. CoverInv'
    BY <1>2, <2>6 DEF CoverInv
  <2>8. ASSUME NEW i \in win'.bits PROVE <<session', win'.highest - i>> \in accepted'
    <3>1. CASE win'.highest - i = c
      BY <2>1, <3>1 DEF CheckCurrent
    <3>2. CASE \E j \in win.bits : win'.highest - i = win.highest - j
      BY <2>1, <3>2 DEF CheckCurrent, IInv, MarkInv
    <3> QED BY <1>1, <2>1, <2>2, <2>8, <3>1, <3>2, MarkSound
  <2>9. MarkInv'
    BY <2>8 DEF MarkInv
  <2> QED BY <2>4, <2>5, <2>7, <2>9 DEF IInv
<1>4. CASE ~Takes(win, c)
  <2>1. UNCHANGED <<session, win, prev, prevWin, retired, accepted, forgotten>>
    BY <1>4 DEF CheckCurrent
  <2>2. quiet' \in BOOLEAN
    BY Zenon DEF CheckCurrent
  <2>3. TypeOK'
    BY <1>2, <2>1, <2>2 DEF IInv, TypeOK
  <2> QED BY <1>2, <2>1, <2>3 DEF IInv, OrderInv, CoverInv, MarkInv, Gone
<1> QED BY <1>3, <1>4

\* A session that is adopted was either never heard, or forgotten under a
\* policy that is not Monotonic.
LEMMA AdoptedIsNew ==
    ASSUME IInv, NEW s \in Session, NEW c \in Nat \ {0}, AdoptSession(s, c),
           NEW r \in accepted, r[1] = s
    PROVE  adopt # "Monotonic" /\ s \in forgotten
<1>1. s # session /\ s # prev /\ s \notin Retired /\ MayAdopt(s)
  BY DEF AdoptSession
<1>2. session # NoSession
  BY DEF IInv, OrderInv
<1>3. s \in Nat /\ session \in Nat
  BY <1>2, SessionAssumption DEF IInv, TypeOK
<1>4. ~(adopt = "Monotonic" /\ s < session)
  BY <1>1, <1>2, <1>3 DEF MayAdopt
<1> QED BY <1>1, <1>4 DEF IInv, CoverInv, Gone

\* A frame of a session that is adopted.
LEMMA AdoptInv ==
    ASSUME IInv, NEW s \in Session, NEW c \in Nat \ {0}, AdoptSession(s, c)
    PROVE  IInv'
<1>1. c \in Nat /\ s \in Nat /\ s # NoSession
  BY SessionAssumption DEF NoSession
<1>2. /\ s # session /\ s # prev /\ s \notin Retired /\ MayAdopt(s) /\ Retire
      /\ session' = s /\ prev' = session /\ prevWin' = win
      /\ win' = Mark(EmptyWindow, c)
      /\ accepted' = accepted \cup {<<s, c>>} /\ adopt' = adopt
  BY DEF AdoptSession
<1>3. /\ retired' \in Seq(Session)
      /\ forgotten' \subseteq Session
      /\ forgotten \subseteq forgotten'
      /\ Retired' \subseteq Retired \cup ({prev} \ {NoSession})
      /\ Retired \cup ({prev} \ {NoSession}) \subseteq Retired' \cup forgotten'
  BY <1>2, RetireSound DEF IInv
<1>4. win' \in Window /\ ~Takes(win', c)
  BY <1>1, <1>2, EmptyTakes, MarkType, MarkCovers
<1>5. TypeOK'
  <2>1. quiet' \in BOOLEAN
    BY Zenon DEF AdoptSession
  <2>2. accepted' \subseteq Session \X Nat
    BY <1>1, <1>2 DEF IInv, TypeOK
  <2> QED BY <1>2, <1>3, <1>4, <2>1, <2>2 DEF IInv, TypeOK
<1>6. OrderInv'
  <2>1. session # NoSession => session \in Nat
    BY SessionAssumption DEF IInv, TypeOK
  <2>2. session # NoSession /\ adopt = "Monotonic" => session < s
    BY <1>1, <1>2, <2>1 DEF MayAdopt
  <2>3. s \notin Retired' /\ session \notin Retired'
    BY <1>2, <1>3 DEF IInv, OrderInv
  <2> QED BY <1>1, <1>2, <2>2, <2>3 DEF OrderInv
<1>7. ASSUME NEW r \in accepted', adopt = "Monotonic" \/ r[1] \notin forgotten'
      PROVE  \/ r[1] = session' /\ ~Takes(win', r[2])
             \/ r[1] = prev' /\ ~Takes(prevWin', r[2])
             \/ Gone(r[1])'
  <2>1. CASE r = <<s, c>>
    BY <1>2, <1>4, <2>1
  <2>2. CASE r \in accepted
    <3>1. adopt = "Monotonic" \/ r[1] \notin forgotten
      BY <1>3, <1>7
    <3>2. r[1] # s
      BY <2>2, <3>1, AdoptedIsNew
    <3>3. session # NoSession /\ session \in Nat /\ r[1] \in Nat
      BY <2>2, SessionAssumption DEF IInv, OrderInv, TypeOK
    <3>4. adopt = "Monotonic" => session < s
      BY <1>1, <1>2, <3>3 DEF MayAdopt
    <3>5. CASE r[1] = session /\ ~Takes(win, r[2])
      BY <1>2, <3>5
    <3>6. CASE r[1] = prev /\ ~Takes(prevWin, r[2])
      <4>1. prev # NoSession /\ prev # session
        BY <3>3, <3>6 DEF IInv, OrderInv, NoSession
      <4>2. r[1] \in Retired' \/ adopt = "Monotonic"
        BY <1>3, <1>7, <3>6, <4>1
      <4>3. adopt = "Monotonic" => r[1] < s
        BY <1>1, <3>3, <3>4, <3>6, <4>1 DEF IInv, OrderInv
      <4> QED BY <1>2, <3>2, <3>6, <4>1, <4>2, <4>3 DEF Gone
    <3>7. CASE Gone(r[1])
      <4>1. CASE adopt # "Monotonic"
        BY <1>2, <1>3, <1>7, <3>2, <3>7, <4>1 DEF Gone
      <4>2. CASE adopt = "Monotonic"
        BY <1>1, <1>2, <3>2, <3>3, <3>4, <3>7, <4>2 DEF Gone
      <4> QED BY <4>1, <4>2
    <3> QED BY <2>2, <3>1, <3>5, <3>6, <3>7 DEF IInv, CoverInv
  <2> QED BY <1>2, <2>1, <2>2
<1>8. CoverInv'
  BY <1>2, <1>7 DEF CoverInv
<1>9. MarkInv'
  <2>1. ASSUME NEW i \in win'.bits PROVE <<session', win'.highest - i>> \in accepted'
    <3>1. win'.highest - i = c
      BY <1>1, <1>2, <2>1, EmptyTakes, MarkSound DEF EmptyWindow
    <3> QED BY <1>2, <3>1
  <2> QED BY <2>1 DEF MarkInv
<1> QED BY <1>5, <1>6, <1>8, <1>9 DEF IInv

\* Time passing changes only the quiet flag.
LEMMA QuietInv ==
    ASSUME IInv, quiet' \in BOOLEAN,
           UNCHANGED <<adopt, session, win, prev, prevWin, retired, accepted, forgotten>>
    PROVE  IInv'
<1>1. Retired' = Retired
  BY DEF Retired
<1>2. TypeOK'
  BY DEF IInv, TypeOK
<1> QED BY <1>1, <1>2 DEF IInv, OrderInv, CoverInv, MarkInv, Gone

\* The invariant holds in every reachable state.
THEOREM InvCorrect == Spec => []IInv
<1>1. Init => IInv
  BY InitInv
<1>2. IInv /\ [Next]_vars => IInv'
  <2> SUFFICES ASSUME IInv, [Next]_vars PROVE IInv'
    OBVIOUS
  <2>1. ASSUME NEW s \in Session, NEW c \in Nat \ {0}, CheckPrevious(s, c) PROVE IInv'
    BY <2>1, PreviousInv
  <2>2. ASSUME NEW s \in Session, NEW c \in Nat \ {0}, CheckCurrent(s, c) PROVE IInv'
    BY <2>2, CurrentInv
  <2>3. ASSUME NEW s \in Session, NEW c \in Nat \ {0}, AdoptSession(s, c) PROVE IInv'
    BY <2>3, AdoptInv
  <2>4. CASE QuietElapses
    <3>1. quiet' \in BOOLEAN
      BY <2>4, Zenon DEF QuietElapses
    <3> QED BY <2>4, <3>1, QuietInv DEF QuietElapses
  <2>5. CASE UNCHANGED vars
    <3>1. quiet' \in BOOLEAN
      BY <2>5 DEF vars, IInv, TypeOK
    <3> QED BY <2>5, <3>1, QuietInv DEF vars
  <2> QED BY <2>1, <2>2, <2>3, <2>4, <2>5, CounterType DEF Next, CheckAndSet
<1> QED BY <1>1, <1>2, PTL DEF Spec

\* The window keeps its types.
THEOREM TypeCorrect == Spec => []TypeOK
<1>1. IInv => TypeOK
  BY DEF IInv
<1> QED BY <1>1, InvCorrect, PTL

\* No (session, counter) pair passes check_and_set twice, for any width, any
\* number of sessions and any order of arrival.
THEOREM NoReplayCorrect == Spec => []NoReplay
<1>1. IInv => NoReplay
  <2> SUFFICES ASSUME IInv, NEW r \in accepted,
                      adopt = "Monotonic" \/ r[1] \notin forgotten
               PROVE  ~Fresh(r[1], r[2])
    BY DEF NoReplay
  <2>1. session # NoSession /\ session \in Nat /\ r[1] \in Nat
    BY SessionAssumption DEF IInv, OrderInv, TypeOK
  <2>2. CASE r[1] = session /\ ~Takes(win, r[2])
    BY <2>1, <2>2 DEF IInv, OrderInv, Fresh, NoSession
  <2>3. CASE r[1] = prev /\ ~Takes(prevWin, r[2])
    BY <2>1, <2>3 DEF IInv, OrderInv, Fresh, NoSession
  <2>4. CASE Gone(r[1])
    BY <2>1, <2>4 DEF Gone, Fresh, MayAdopt
  <2> QED BY <2>2, <2>3, <2>4 DEF IInv, CoverInv
<1> QED BY <1>1, InvCorrect, PTL

\* A counter of the current session inside the width that was never accepted is
\* accepted when it comes.
THEOREM LateFrameAcceptedCorrect == Spec => []LateFrameAccepted
<1>1. IInv => LateFrameAccepted
  <2> SUFFICES ASSUME IInv, session # NoSession, NEW c \in Counter(session),
                      c + Width > win.highest, <<session, c>> \notin accepted
               PROVE  Fresh(session, c)
    BY DEF LateFrameAccepted
  <2>0. c \in Nat \ {0}
    <3>1. session \in Session
      BY DEF IInv, TypeOK
    <3> QED BY <3>1, CounterType
  <2>1. session \notin Retired /\ session # prev
    BY DEF IInv, OrderInv
  <2>2. c \in Nat /\ win.highest \in Nat
    BY <2>0 DEF IInv, TypeOK, Window
  <2>3. win.highest - (win.highest - c) = c
    BY <2>2
  <2>4. win.highest - c \notin win.bits
    BY <2>3 DEF IInv, MarkInv
  <2>5. Takes(win, c)
    BY <2>2, <2>4, WidthAssumption DEF Takes
  <2> QED BY <2>1, <2>5 DEF Fresh
<1> QED BY <1>1, InvCorrect, PTL

\* The session never changes back to one in which a frame was accepted; the only
\* exception is a session forgotten by the list of retired ones, and not under
\* the Monotonic policy.
THEOREM NeverReadoptedCorrect == Spec => NeverReadopted
<1> DEFINE Step ==
      session' # session =>
          \A r \in accepted : r[1] = session' =>
              adopt # "Monotonic" /\ r[1] \in forgotten
<1>1. IInv /\ [Next]_vars => Step
  <2> SUFFICES ASSUME IInv, Next, session' # session PROVE Step
    BY DEF vars
  <2>1. PICK s \in Session, c \in Nat \ {0} : AdoptSession(s, c)
    BY CounterType DEF Next, CheckAndSet, CheckPrevious, CheckCurrent, QuietElapses
  <2>2. session' = s
    BY <2>1 DEF AdoptSession
  <2> QED BY <2>1, <2>2, AdoptedIsNew
<1>2. Spec => [][Step]_vars
  BY <1>1, InvCorrect, PTL DEF Spec
<1> QED BY <1>2 DEF NeverReadopted
=============================================================================
