---------------------------- MODULE ReviewLaneMC ----------------------------
(***************************************************************************)
(* Instances of ReviewLane with three issues.                                 *)
(***************************************************************************)
EXTENDS ReviewLane

CONSTANTS a, b

\* Improvement a owns issue 1 and, by its key alone, issue 3; b owns issue 2.
Lanes == (1 :> a) @@ (2 :> b) @@ (3 :> None)
LaneKeys == (1 :> {a}) @@ (2 :> {b}) @@ (3 :> {a})
Chain == (1 :> {}) @@ (2 :> {}) @@ (3 :> {1})

\* Improvements a and b, independent of each other or with 3 waiting for b.
Two == (1 :> a) @@ (2 :> b) @@ (3 :> a)
TwoKeys == (1 :> {a}) @@ (2 :> {b}) @@ (3 :> {a})
Apart == (1 :> {}) @@ (2 :> {}) @@ (3 :> {})
Crossing == (1 :> {}) @@ (2 :> {}) @@ (3 :> {2})

\* The key of a is a prefix of the key of b, as foo is of foo-bar.
Nested == (1 :> {a}) @@ (2 :> {a, b}) @@ (3 :> {a})
=============================================================================
