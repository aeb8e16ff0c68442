---------------------------- MODULE KeyDelivery ----------------------------
(***************************************************************************)
(* What the DKMSs promise about session keys, wherever they are kept: a    *)
(* key is offered once to each SAE it was made for, and the offer ends     *)
(* with the SAE having it or with the key withdrawn, never with both and   *)
(* never twice.                                                            *)
(***************************************************************************)
EXTENDS Naturals

CONSTANTS Sae, Key,
          Intended   \* <<s, k>>: k was made for s

VARIABLES offered,   \* <<s, k>>: s can still get k
          past,      \* <<s, k>>: k was offered to s at some time
          given      \* per SAE and key, the times it was handed over

vars == <<offered, past, given>>

Init == offered = {} /\ past = {} /\ given = [s \in Sae |-> [k \in Key |-> 0]]

\* Keys that were never offered are offered.
Offer(P) ==
    /\ P \cap past = {}
    /\ offered' = offered \cup P
    /\ past' = past \cup P
    /\ UNCHANGED given

\* Offers end with nothing handed over: expiry, retraction, a call that fails, a restart.
Withdraw(P) ==
    /\ P \subseteq offered
    /\ offered' = offered \ P
    /\ UNCHANGED <<past, given>>

\* Offers end with the keys handed over.
Give(P) ==
    /\ P \subseteq offered
    /\ offered' = offered \ P
    /\ given' = [s \in Sae |-> [k \in Key |->
                    IF <<s, k>> \in P THEN given[s][k] + 1 ELSE given[s][k]]]
    /\ UNCHANGED past

Next == \E P \in SUBSET Intended : Offer(P) \/ Withdraw(P) \/ Give(P)

Spec == Init /\ [][Next]_vars
============================================================================
