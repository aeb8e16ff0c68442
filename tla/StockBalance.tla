---------------------------- MODULE StockBalance ----------------------------
(***************************************************************************)
(* How a QKC measures what the fibre of a QKD link produces                *)
(* (RateEstimator::on_stock in qkc/src/rate_estimator.rs, fed by           *)
(* stock_rate_loop and the workers of qkc/src/keystore.rs).                *)
(*                                                                         *)
(* Between two polls of the KME's stock, what was produced is the change   *)
(* of the stock plus what both ends drained.  The drains are counted when  *)
(* their answer or their announcement arrives, the stock is read at the    *)
(* KME before the poll's answer arrives, and keys that dec_keys does not   *)
(* return are discounted later still: the three are never of one instant.  *)
(* Keys are counted, not named.                                            *)
(***************************************************************************)
EXTENDS Naturals, Integers

CONSTANTS
    MaxKeyCount,    \* max_key_count of the KME
    CeilingGuardMin,
    WindowMinKeys,
    MaxMade,        \* keys produced in a run
    MaxPolls,       \* polls in a run
    MaxFaults

VARIABLES
    stored, made,   \* the KME: keys in stock, keys produced
    mine, theirs,   \* keys on their way in an enc_keys answer, to us and to the peer
    wire,           \* keys announced to us, on the wire
    asked,          \* keys announced whose dec_keys has not ended
    pulled,         \* keys counted as drained
    poll,           \* <<>>, or the /status answer on its way
    last,           \* <<>>, or the previous point
    win,            \* win_keys
    closed,         \* <<>>, or the last window that closed and what bounds it
    base,           \* history: what was made and in flight when the window opened
    errStreak, polls, faults

kmeStock     == <<stored, made>>
flows        == <<mine, theirs, wire, asked>>
window       == <<last, win, closed, base, errStreak>>
balanceVars  == <<kmeStock, flows, pulled, poll, window, polls, faults>>

Init ==
    /\ stored = 0 /\ made = 0 /\ mine = 0 /\ theirs = 0 /\ wire = 0 /\ asked = 0
    /\ pulled = 0 /\ poll = <<>> /\ last = <<>> /\ win = 0 /\ closed = <<>>
    /\ base = [made |-> 0, flight |-> 0, short |-> 0]
    /\ errStreak = 0 /\ polls = 0 /\ faults = 0

-----------------------------------------------------------------------------
(***************************************************************************)
(* The keys.                                                               *)
(***************************************************************************)

\* At the ceiling the KME drops or pauses, and the key is not seen.
Produced ==
    /\ made < MaxMade /\ stored < MaxKeyCount
    /\ stored' = stored + 1 /\ made' = made + 1
    /\ UNCHANGED <<flows, pulled, poll, window, polls, faults>>

EncServed ==
    /\ mine = 0 /\ stored > 0
    /\ \E n \in 1..stored : mine' = n /\ stored' = stored - n
    /\ UNCHANGED <<made, theirs, wire, asked, pulled, poll, window, polls, faults>>

PeerEncServed ==
    /\ theirs = 0 /\ stored > 0
    /\ \E n \in 1..stored : theirs' = n /\ stored' = stored - n
    /\ UNCHANGED <<made, mine, wire, asked, pulled, poll, window, polls, faults>>

\* on_delivered, on_peer_drained.
Counted(n) ==
    /\ pulled' = pulled + n
    /\ poll' = IF poll = <<>> THEN poll ELSE [poll EXCEPT ![1].late = @ + n]

\* on_delivered: absorb_enc_keys counts the keys of our own call.
OnDelivered ==
    /\ mine > 0
    /\ Counted(mine) /\ mine' = 0
    /\ UNCHANGED <<kmeStock, theirs, wire, asked, window, polls, faults>>

\* The call fails, or the banking gives it up at BANK_ENC_TIMEOUT: the keys are
\* gone from the stock and never counted.
EncLost ==
    /\ mine > 0 /\ faults < MaxFaults
    /\ mine' = 0 /\ faults' = faults + 1
    /\ UNCHANGED <<kmeStock, theirs, wire, asked, pulled, poll, window, polls>>

PeerAnnounces ==
    /\ theirs > 0 /\ wire = 0
    /\ wire' = theirs /\ theirs' = 0
    /\ UNCHANGED <<kmeStock, mine, asked, pulled, poll, window, polls, faults>>

\* on_peer_drained: notify_remote_enc counts what the peer drained.
OnPeerDrained ==
    /\ wire > 0 /\ asked = 0
    /\ Counted(wire)
    /\ asked' = wire /\ wire' = 0
    /\ UNCHANGED <<kmeStock, mine, theirs, window, polls, faults>>

\* on_peer_drained_shortfall: the keys that dec_keys did not return, all of them
\* if it failed, are discounted.
DecEnded ==
    /\ asked > 0
    /\ \E short \in 0..asked :
         /\ short > 0 => faults < MaxFaults
         /\ faults' = IF short > 0 THEN faults + 1 ELSE faults
         /\ pulled' = IF pulled > short THEN pulled - short ELSE 0
         /\ base' = [base EXCEPT !.short = @ + short]
    /\ asked' = 0
    /\ UNCHANGED <<kmeStock, mine, theirs, wire, poll, last, win, closed, errStreak, polls>>

-----------------------------------------------------------------------------
(***************************************************************************)
(* The polls.                                                              *)
(***************************************************************************)

\* get_status reads the stock.
StatusServed ==
    /\ poll = <<>> /\ polls < MaxPolls
    /\ poll' = <<[stored |-> stored, made |-> made, late |-> 0,
                  flight |-> mine + theirs + wire]>>
    /\ polls' = polls + 1
    /\ UNCHANGED <<kmeStock, flows, pulled, window, faults>>

OnStockError ==
    /\ poll # <<>> /\ faults < MaxFaults
    /\ poll' = <<>> /\ faults' = faults + 1
    /\ errStreak' = errStreak + 1
    /\ last' = <<>> /\ win' = 0
    /\ UNCHANGED <<kmeStock, flows, pulled, closed, base, polls>>

\* ceiling_guard, with the estimate of its minimum.
CeilingGuard ==
    IF CeilingGuardMin < MaxKeyCount \div 4 THEN CeilingGuardMin ELSE MaxKeyCount \div 4

\* The point the next interval starts from.
Point(p, censored) == <<p>>

\* The balance of the interval from prev to the poll s.
Contrib(prev, s) ==
    s.stored - prev.stored + (IF pulled > prev.pulled THEN pulled - prev.pulled ELSE 0)

\* The interval joins the window, unless there is no previous point, it was too
\* long, or the stock came so close to its ceiling that production may have been
\* lost; a window with enough keys, or old enough, closes.
OnStock ==
    LET s == poll[1]
        near(n) == n + CeilingGuard >= MaxKeyCount
        opens == [made |-> s.made, flight |-> s.flight, short |-> 0]
    IN  /\ poll # <<>>
        /\ poll' = <<>> /\ errStreak' = 0
        /\ \E gap \in BOOLEAN, old \in BOOLEAN :
             LET censored == last = <<>> \/ gap \/ near(s.stored) \/ near(last[1].stored)
                 keys     == win + Contrib(last[1], s)
             IN  /\ last' = Point([stored |-> s.stored, pulled |-> pulled,
                                   made |-> s.made, late |-> s.late], censored)
                 /\ IF censored
                      THEN win' = 0 /\ base' = opens /\ closed' = <<>>
                      ELSE IF keys >= WindowMinKeys \/ old
                        THEN /\ win' = 0 /\ base' = opens
                             /\ closed' = <<[keys |-> IF keys > 0 THEN keys ELSE 0,
                                  most |-> s.made - base.made + s.late + base.flight + base.short]>>
                        ELSE win' = keys /\ closed' = <<>> /\ UNCHANGED base
        /\ UNCHANGED <<kmeStock, flows, pulled, polls, faults>>

-----------------------------------------------------------------------------
Next ==
    \/ Produced \/ EncServed \/ PeerEncServed \/ OnDelivered \/ EncLost
    \/ PeerAnnounces \/ OnPeerDrained \/ DecEnded
    \/ StatusServed \/ OnStockError \/ OnStock

Spec == Init /\ [][Next]_balanceVars

-----------------------------------------------------------------------------
(***************************************************************************)
(* Properties.                                                             *)
(***************************************************************************)

TypeOK ==
    /\ stored \in 0..MaxKeyCount /\ made \in 0..MaxMade
    /\ mine \in 0..MaxMade /\ theirs \in 0..MaxMade /\ wire \in 0..MaxMade
    /\ asked \in 0..MaxMade /\ pulled \in 0..MaxMade
    /\ win \in -MaxMade..WindowMinKeys /\ errStreak \in 0..MaxFaults
    /\ polls \in 0..MaxPolls /\ faults \in 0..MaxFaults

\* A window never closes on more keys than were made since it opened, but for
\* those in flight when it opened, those counted between the reading of the
\* stock and the arrival of the last answer, and those discounted since: the
\* skew of one poll is paid back by the next and does not add up, so a window
\* of many polls is off by no more than one of two (on_stock).
NotOverstated == closed # <<>> => closed[1].keys <= closed[1].most

=============================================================================
