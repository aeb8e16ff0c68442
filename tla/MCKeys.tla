------------------------------- MODULE MCKeys -------------------------------
(***************************************************************************)
(* The keys of the DKMSs; each behaviour is one of                         *)
(*                                                                         *)
(*   "session"    two DKMSs and one request for two session keys, for the  *)
(*                master itself and for an SAE of the other DKMS, which    *)
(*                keeps one entry per origin (SessionKeys);                *)
(*   "transport"  two DKMSs, each may restart once, and two transport keys *)
(*                for buffers of one (TransportKeys).                      *)
(*                                                                         *)
(* The other module stays in its initial state.                            *)
(***************************************************************************)
EXTENDS SessionKeys, TransportKeys, TLC

CONSTANTS A, B, a, b, r, k1, k2

VARIABLE which

MCHome == a :> A @@ b :> B
MCMaster == r :> a
MCTargets == r :> {a, b}
MCKeysOf == r :> {k1, k2}

\* The session keys of the request are alike.
KeySymmetry == Permutations({k1, k2})

MCInit == which \in {"session", "transport"} /\ Init /\ TransportInit

MCNext ==
    /\ UNCHANGED which
    /\ \/ which = "session" /\ Next /\ UNCHANGED transportVars
       \/ which = "transport" /\ TransportNext /\ UNCHANGED vars

MCSpec == MCInit /\ [][MCNext]_<<which, vars, transportVars>>
=============================================================================
