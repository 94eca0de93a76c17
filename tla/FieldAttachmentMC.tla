------------------------- MODULE FieldAttachmentMC -------------------------
(* Small instances of FieldAttachment for TLC.                             *)
EXTENDS FieldAttachment, TLC

CONSTANTS a, b, tA, tB, c1, c2, c3

PairTokens == (a :> tA) @@ (b :> tB)

\* The redundant pair: every claiming call is some peer's, and a probe is a's.
PairUses == (a :> Ops \ {"reclaim"})
            @@ (b :> Ops \ {"unlessHeld", "unbound", "probe"})

\* Connection ids are interchangeable: no action tells one from another.
ConnSymmetry == Permutations({c1, c2, c3})
=============================================================================
