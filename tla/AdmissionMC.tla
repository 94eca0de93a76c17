----------------------------- MODULE AdmissionMC ------------------------------
(* Two groups that share one model: m1 spends a, m2 spends a and b.           *)
EXTENDS Admission, TLC

MCGroupsOf == [m \in Models |-> IF m = "m1" THEN {"a"} ELSE {"a", "b"}]
MCInitial == [g \in Groups |-> 2]
MCCeiling == [g \in Groups |-> 3]
MCMinimum == [g \in Groups |-> 2]
MCExternal == [g \in Groups |-> IF g = "b" THEN 1 ELSE 0]

R(timeout, clean, words, hint) == [timeout |-> timeout, clean |-> clean, words |-> words, hint |-> hint]

\* A clean exit whose output quotes a rate limit, a provider's rate limit with a
\* hint, a rejected credential that also mentions a rate.
MCReceipts == {R(FALSE, TRUE, {"rate"}, 2), R(FALSE, FALSE, {"rate"}, 1),
               R(FALSE, FALSE, {"auth", "rate"}, 0)}

\* A success, a frozen stream that ends in a timeout, an ordinary timeout.
GrowthReceipts == {R(FALSE, TRUE, {}, 0), R(TRUE, FALSE, {"stream", "endpoint"}, 2), R(TRUE, FALSE, {}, 0)}

\* Owners are interchangeable: every property quantifies over all of them.
PoolSymmetry == Permutations(Owners)
================================================================================
