----------------------------- MODULE MCBuffers -----------------------------
(***************************************************************************)
(* The key buffers of a QKC link; each behaviour is one of                 *)
(*                                                                         *)
(*   "enc"  the ENC ring between two producers and two tasks that take     *)
(*          from it (EncBuffer);                                           *)
(*   "dec"  two keys announced to the receiving end and the frames that    *)
(*          wait for them (DecBuffer).                                     *)
(*                                                                         *)
(* The other module stays in its initial state.                            *)
(***************************************************************************)
EXTENDS EncBuffer, DecBuffer

VARIABLE which

MCInit == which \in {"enc", "dec"} /\ EncInit /\ DecInit

MCNext ==
    /\ UNCHANGED which
    /\ \/ which = "enc" /\ EncNext /\ UNCHANGED decVars
       \/ which = "dec" /\ DecNext /\ UNCHANGED encVars
       \/ which = "dec" /\ UNCHANGED <<encVars, decVars>>  \* only the ring never stops

\* The tasks of the QKC run and its KME answers; nobody has to ask for a key or send a
\* frame, and no time-out has to come.
MCFairness ==
    /\ WF_encVars(which = "enc" /\ RefillStep)
    /\ WF_encVars(which = "enc" /\ (BankAnswer \/ BankAbsorb))
    /\ \A w \in Waiter : WF_encVars(which = "enc" /\ TaskStep(w))
    /\ WF_decVars(which = "dec" /\ IntakeStep)
    /\ WF_decVars(which = "dec" /\ WorkerStep)
    /\ \A k \in Key : WF_decVars(which = "dec" /\ FrameStep(k))

MCSpec == MCInit /\ [][MCNext]_<<which, encVars, decVars>> /\ MCFairness
=============================================================================
