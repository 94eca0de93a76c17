--------------------------- MODULE FieldHandback ---------------------------
(***************************************************************************)
(* FieldAttachment with a record of who handed the field back: the yield   *)
(* of a demotion (release_writer_keep_claim) and what the driver remembers *)
(* after it.                                                               *)
(***************************************************************************)
EXTENDS FieldAttachment

VARIABLE handedBack  \* handedBack[d]: d yielded, and has claimed nothing since

HandbackInit == Init /\ handedBack = [d \in Drivers |-> FALSE]

Started(d, ops) ==
    \E t \in Threads : /\ ~Busy(d, t)
                       /\ call'[d][t].phase = "ready"
                       /\ call'[d][t].op \in ops

HandbackNext ==
    /\ Next
    /\ handedBack' = [d \in Drivers |->
           \/ Started(d, {"yield"})
           \/ handedBack[d] /\ ~Started(d, Grants)]

HandbackSpec == HandbackInit /\ [][HandbackNext]_<<vars, handedBack>>

FairHandbackSpec == HandbackSpec /\ Fairness

-----------------------------------------------------------------------------
\* Once a demotion's hand-back has run its course the driver remembers no
\* token, so no later re-attach re-asserts the claim it yielded.
HandedBackStaysForgotten ==
    \A d \in Drivers :
        (handedBack[d] /\ \A t \in Threads : ~Busy(d, t)) => owner[d] = NoToken
=============================================================================
