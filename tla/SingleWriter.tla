---------------------------- MODULE SingleWriter ----------------------------
(***************************************************************************)
(* What the field's write-ownership arbitration promises, with no          *)
(* connections, retries or faults in sight: at most one owner token stands *)
(* at a time, and every mutation the plant accepts is that token's.        *)
(***************************************************************************)
CONSTANTS Tokens, NoToken

VARIABLES claimant,  \* the token the field is claimed for
          writer     \* the token behind the last accepted mutation

vars == <<claimant, writer>>

Init == claimant = NoToken /\ writer = NoToken

\* The field changes hands, or opens (a release, a plant restart).
Seize(t) == claimant' = t /\ UNCHANGED writer

Open == claimant' = NoToken /\ UNCHANGED writer

Mutate ==
    /\ claimant # NoToken
    /\ writer' = claimant
    /\ UNCHANGED claimant

Next == (\E t \in Tokens : Seize(t)) \/ Open \/ Mutate

Spec == Init /\ [][Next]_vars
=============================================================================
