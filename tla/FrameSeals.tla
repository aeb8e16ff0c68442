----------------------------- MODULE FrameSeals -----------------------------
(***************************************************************************)
(* The per-frame seal of a link whose MAC root is the secret of the link's *)
(* epoch (qkc/src/frame_auth.rs, RootSource::PerEpoch): the sender seals   *)
(* with its highest epoch, the frame's session is that epoch, the receiver *)
(* derives the key from its own secret of the epoch.  Both ends keep the   *)
(* last key they derived, by epoch number.                                 *)
(*                                                                         *)
(* The handshake that fills the SecretStores is LinkEpochs; here it is one *)
(* negotiation of an epoch, the responder's half before the initiator's,   *)
(* in the order of rotation or, after a resync request or when the         *)
(* responder came back, above both windows.  Frames are delivered in order *)
(* (what reordering does to the window is ReplayWindow), so of a counter   *)
(* only the execution of its sender matters: a restarted sender counts     *)
(* from 1 again.                                                           *)
(***************************************************************************)
EXTENDS Naturals, FiniteSets, FiniteSetsExt

CONSTANTS MaxEpoch,    \* bound on epoch numbers
          Keep,        \* SecretStore::keep
          RestartBelow,\* bound: restarts happen while every epoch is below it
          MaxRestarts  \* bound on restarts
None == 0              \* no secret; secrets are 1, 2, ...

End == {"i", "r"}      \* the initiator (lower id) and the responder
Epoch == 0..MaxEpoch
Other(x) == IF x = "i" THEN "r" ELSE "i"

VARIABLES
    secret,    \* SecretStore of each end: Epoch -> secret
    sendCache, \* send_cache: <<epoch, secret>> or <<>>
    recvCache, \* RecvState::cached
    window,    \* the window's session and the execution it counts, <<>> at first
    heard,     \* a frame was verified within RESYNC_SUPPRESS_AFTER_VERIFIED
    resync,    \* the initiator has been asked to negotiate above both windows
    pending,   \* the RESP on its way to the initiator: <<epoch, secret>> or <<>>
    run,       \* executions of each end
    fresh,     \* secrets agreed so far
    restarts
sealVars == <<secret, sendCache, recvCache, window, heard, resync, pending, run, fresh, restarts>>
caches == <<sendCache, recvCache, window, heard>>

EpochsOf(f) == {e \in Epoch : f[e] # None}
Highest(x) == Max(EpochsOf(secret[x]))

\* SecretStore::insert and replace: the lowest epochs go first.
Put(f, e, s) ==
    LET g == [f EXCEPT ![e] = s] IN
    IF Cardinality(EpochsOf(g)) <= Keep THEN g ELSE [g EXCEPT ![Min(EpochsOf(g))] = None]

Nothing == [e \in Epoch |-> None]
BothEnds(v) == [x \in End |-> v]

\* with_source: a link that has just been built, no epoch agreed.
Init ==
    /\ secret = BothEnds(Nothing)
    /\ sendCache = BothEnds(<<>>) /\ recvCache = BothEnds(<<>>)
    /\ window = BothEnds(<<>>) /\ heard = BothEnds(FALSE)
    /\ resync = FALSE /\ pending = <<>>
    /\ run = BothEnds(1) /\ fresh = 0 /\ restarts = 0

-----------------------------------------------------------------------------
(* The handshake (LinkEpochs), as far as the stores are concerned.          *)

\* The next epoch of a rotation, or the first above both windows.
Target ==
    LET mine == EpochsOf(secret["i"])
        theirs == IF resync THEN EpochsOf(secret["r"]) ELSE {}
    IN IF mine \cup theirs = {} THEN 0 ELSE Max(mine \cup theirs) + 1

\* handle_init: the responder stores the secret, over another one if need be.
Answered ==
    /\ pending = <<>> /\ Target <= MaxEpoch
    /\ fresh' = fresh + 1
    /\ pending' = <<Target, fresh + 1>>
    /\ secret' = [secret EXCEPT !["r"] = Put(@, Target, fresh + 1)]
    /\ UNCHANGED <<caches, resync, run, restarts>>

\* handle_resp; a relink drops what is below the new block (prune_below).
Installed ==
    /\ pending # <<>>
    /\ LET e == pending[1]
           kept == IF resync THEN Nothing ELSE secret["i"]
       IN secret' = [secret EXCEPT !["i"] = Put(kept, e, pending[2])]
    /\ pending' = <<>> /\ resync' = FALSE
    /\ UNCHANGED <<caches, run, fresh, restarts>>

(* A process starts again: stores, caches, window and counter are gone.     *)
(* The initiator notices that the responder's connection came back.         *)
Restart(x) ==
    /\ restarts < MaxRestarts /\ restarts' = restarts + 1
    /\ \A y \in End : EpochsOf(secret[y]) \subseteq 0..RestartBelow - 1
    /\ secret' = [secret EXCEPT ![x] = Nothing]
    /\ sendCache' = [sendCache EXCEPT ![x] = <<>>]
    /\ recvCache' = [recvCache EXCEPT ![x] = <<>>]
    /\ window' = [window EXCEPT ![x] = <<>>]
    /\ heard' = [heard EXCEPT ![x] = FALSE]
    /\ run' = [run EXCEPT ![x] = @ + 1]
    /\ pending' = <<>> /\ resync' = (x = "r")
    /\ UNCHANGED fresh

-----------------------------------------------------------------------------
(* Sealing and opening.                                                     *)

\* send_material: the highest epoch, its key from the cache if it is that epoch's.
SealKey(x) ==
    IF sendCache[x] # <<>> /\ sendCache[x][1] = Highest(x) THEN sendCache[x]
    ELSE <<Highest(x), secret[x][Highest(x)]>>

\* peer_key: None when this end has no secret of the session.
OpenKey(y, e) ==
    IF recvCache[y] # <<>> /\ recvCache[y][1] = e THEN recvCache[y][2] ELSE secret[y][e]

\* check_and_set, monotonic: a later session is adopted, an earlier one refused;
\* in the same one, the counters of a restarted sender are below the mark at first.
Fresh(y, e, r) ==
    IF window[y] = <<>> \/ e > window[y][1] THEN {TRUE}
    ELSE IF e < window[y][1] THEN {FALSE}
    ELSE IF r = window[y][2] THEN {TRUE} ELSE {TRUE, FALSE}

\* open without the secret of the epoch: refused, and a resync asked for unless
\* a frame was verified a moment ago.  The responder's request reaches the initiator.
Unknown(y) ==
    /\ resync' = (resync \/ ~heard[y])
    /\ UNCHANGED <<recvCache, window, heard>>

\* open with the secret: the MAC, then the window.
Open(y, e, k, r) ==
    /\ recvCache' = [recvCache EXCEPT ![y] = <<e, OpenKey(y, e)>>]
    /\ IF OpenKey(y, e) # k THEN UNCHANGED <<window, heard>>
       ELSE \E ok \in Fresh(y, e, r) :
              IF ok THEN /\ window' = [window EXCEPT ![y] = <<e, r>>]
                         /\ heard' = [heard EXCEPT ![y] = TRUE]
              ELSE UNCHANGED <<window, heard>>
    /\ UNCHANGED resync

\* seal at one end and authenticate at the other.  Without an epoch the frame
\* goes out plain and a NOTIFY, or any frame in mode require, is refused.
Send(x) ==
    /\ EpochsOf(secret[x]) # {}
    /\ LET y == Other(x)
           m == SealKey(x)
       IN /\ sendCache' = [sendCache EXCEPT ![x] = m]
          /\ IF OpenKey(y, m[1]) = None THEN Unknown(y) ELSE Open(y, m[1], m[2], run[x])
    /\ UNCHANGED <<secret, pending, run, fresh, restarts>>

\* RESYNC_SUPPRESS_AFTER_VERIFIED passes.
QuietPasses(y) ==
    /\ heard[y] /\ heard' = [heard EXCEPT ![y] = FALSE]
    /\ UNCHANGED <<secret, sendCache, recvCache, window, resync, pending, run, fresh, restarts>>

Next ==
    \/ Answered \/ Installed
    \/ \E x \in End : Restart(x) \/ Send(x) \/ QuietPasses(x)

Spec == Init /\ [][Next]_sealVars

(* The rotation loop runs for ever (pqc_rekey_secs at the latest), both     *)
(* ends send (their NOTIFYs at least) and time passes.                      *)
FairSpec ==
    /\ Spec
    /\ WF_sealVars(Answered \/ Installed)
    /\ \A x \in End : WF_sealVars(Send(x)) /\ WF_sealVars(QuietPasses(x))

-----------------------------------------------------------------------------
TypeOK ==
    /\ secret \in [End -> [Epoch -> 0..fresh]]
    /\ \A x \in End : Cardinality(EpochsOf(secret[x])) <= Keep
    /\ \A x \in End : \A c \in {sendCache[x], recvCache[x]} : c = <<>> \/ c \in Epoch \X (1..fresh)
    /\ \A x \in End : window[x] = <<>> \/ window[x] \in Epoch \X (1..MaxRestarts + 1)
    /\ heard \in [End -> BOOLEAN] /\ resync \in BOOLEAN
    /\ pending = <<>> \/ pending \in Epoch \X (1..fresh)
    /\ run \in [End -> 1..MaxRestarts + 1] /\ restarts \in 0..MaxRestarts

\* The next frame of x would be accepted.
Verifies(x) ==
    /\ EpochsOf(secret[x]) # {}
    /\ LET m == SealKey(x) IN
       OpenKey(Other(x), m[1]) = m[2] /\ Fresh(Other(x), m[1], run[x]) = {TRUE}

Recovered == \A x \in End : Verifies(x)

(* Whatever restarts and losses happen, each direction of the link comes to *)
(* verify again: the stores are brought above both windows and what the     *)
(* caches hold of an older execution is left behind by a later epoch.       *)
SealsRecover == <>[]Recovered
=============================================================================
