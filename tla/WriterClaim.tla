---------------------------- MODULE WriterClaim ----------------------------
(***************************************************************************)
(* The field's write-ownership claim: the arbitration a plant server runs  *)
(* under its `writer` mutex (crates/dcs-sim-net/src/server.rs).  A claim   *)
(* names one owner token and the live connections holding it.  Every       *)
(* operator here is one arm of `dispatch`: it maps the standing claim, the *)
(* requesting connection and the request to the claim left behind and the  *)
(* verdict answered.  The module has no state of its own; the modules that *)
(* own a claim apply these operators to theirs.                            *)
(*                                                                         *)
(* Left out: the `monitor` endpoint a claim declares (a payload of the     *)
(* verdict that no arbitration decision reads), the points and values of   *)
(* the simulated plant behind the fence.                                   *)
(***************************************************************************)
EXTENDS FiniteSets

CONSTANTS Tokens,   \* owner tokens, one per controller process or tool
          NoToken,  \* "no owner": an unclaimed field, an unrecorded token
          Conns     \* server-side connection ids

ASSUME TokenAssumption == NoToken \notin Tokens

Claims == [owner : Tokens \cup {NoToken}, holders : SUBSET Conns,
           yielded : BOOLEAN, controller : BOOLEAN]

\* `writer: None`: no claim stands, and the field is closed to every mutation.
NoClaim == [owner |-> NoToken, holders |-> {},
            yielded |-> FALSE, controller |-> FALSE]

FreshClaim(owner, holders, controller) ==
    [owner |-> owner, holders |-> holders,
     yielded |-> FALSE, controller |-> controller]

Standing(claim) == claim.owner # NoToken

Verdicts == {"done", "shared", "fenced", "unclaimed"}

Granted(verdict) == verdict \in {"done", "shared"}

-----------------------------------------------------------------------------
(* The grant: preempts a different owner, joins the standing one.          *)

\* Mutant: the preempted owner's holders are carried into the new claim.
GrantKeepsHolders(claim, owner, conn, controller) ==
    [FreshClaim(owner, claim.holders \cup {conn}, controller)
        EXCEPT !.yielded = claim.yielded /\ ~controller]

Grant(claim, owner, conn, controller) ==
    IF claim.owner = owner
    THEN [claim EXCEPT !.holders = @ \cup {conn},
                       !.controller = @ \/ controller,
                       !.yielded = @ /\ ~controller]
    ELSE FreshClaim(owner, {conn}, controller)

\* `ClaimedShared`: another live attachment already holds the same token.
GrantVerdict(claim, owner, conn) ==
    IF claim.owner = owner /\ claim.holders \ {conn} # {}
    THEN "shared" ELSE "done"

-----------------------------------------------------------------------------
(* Which claims refuse which conditional request.                          *)

\* claim_writer_unless_held defers to a live controller that did not yield.
LiveIncumbent(claim, owner) ==
    /\ claim.owner \notin {owner, NoToken}
    /\ claim.controller
    /\ claim.holders # {}
    /\ ~claim.yielded

\* reclaim_writer defers to any live holder of another token, a tool's too.
HeldByOther(claim, owner) ==
    claim.owner \notin {owner, NoToken} /\ claim.holders # {}

\* ensure_writer defers to any other owner, live or not.
OwnedByOther(claim, owner) == claim.owner \notin {owner, NoToken}

-----------------------------------------------------------------------------
(* One operator per request: the claim left behind and the verdict.        *)

Reply(claim, verdict) == [claim |-> claim, verdict |-> verdict]

Refuse(claim) == Reply(claim, "fenced")

GrantReply(claim, owner, conn, controller) ==
    Reply(Grant(claim, owner, conn, controller),
          GrantVerdict(claim, owner, conn))

ClaimWriter(claim, owner, conn, controller) ==
    GrantReply(claim, owner, conn, controller)

\* Mutant: the conditional grant forgets to look for a live incumbent.
ClaimUnlessHeldBlind(claim, owner, conn) ==
    GrantReply(claim, owner, conn, TRUE)

ClaimWriterUnlessHeld(claim, owner, conn) ==
    IF LiveIncumbent(claim, owner) THEN Refuse(claim)
    ELSE GrantReply(claim, owner, conn, TRUE)

ReclaimWriter(claim, owner, conn) ==
    IF HeldByOther(claim, owner) THEN Refuse(claim)
    ELSE GrantReply(claim, owner, conn, TRUE)

\* rebind joins the connection to the holders; without it the request only
\* raises or confirms the claim for the token.
EnsureWriter(claim, owner, conn, rebind, controller) ==
    IF OwnedByOther(claim, owner) THEN Refuse(claim)
    ELSE IF Standing(claim)
         THEN Reply([claim EXCEPT
                        !.holders = IF rebind THEN @ \cup {conn} ELSE @,
                        !.controller = @ \/ controller,
                        !.yielded = @ /\ ~(rebind /\ controller)],
                    IF rebind THEN GrantVerdict(claim, owner, conn) ELSE "done")
         ELSE Reply(FreshClaim(owner, IF rebind THEN {conn} ELSE {}, controller),
                    "done")

\* Mutant: a release from an attachment holding nothing dissolves the claim.
ReleaseUnheld(claim, conn, keep) ==
    LET left == [claim EXCEPT !.holders = @ \ {conn}]
    IN  Reply(IF keep THEN [left EXCEPT !.yielded = Standing(claim)]
              ELSE NoClaim, "done")

\* Mutant: a yield marks the claim and leaves the yielding attachment in it.
ReleaseKeepsHold(claim, conn, keep) ==
    LET left == [claim EXCEPT !.holders = @ \ {conn}]
    IN  Reply(IF conn \notin claim.holders THEN claim
              ELSE IF keep THEN [claim EXCEPT !.yielded = TRUE]
              ELSE IF left.holders = {} THEN NoClaim ELSE left, "done")

\* Only a release that removed a hold yields the claim or, when it removed
\* the last one, dissolves it.
ReleaseWriter(claim, conn, keep) ==
    LET left == [claim EXCEPT !.holders = @ \ {conn}]
    IN  Reply(IF conn \notin claim.holders THEN claim
              ELSE IF keep THEN [left EXCEPT !.yielded = TRUE]
              ELSE IF left.holders = {} THEN NoClaim ELSE left, "done")

\* Mutant: any standing claim lets any attachment mutate.
MutationUnfenced(claim, conn) == IF Standing(claim) THEN "done" ELSE "unclaimed"

\* Write, Step and ProbeWriter meet the same verdict; the probe mutates
\* nothing.
MutationVerdict(claim, conn) ==
    IF ~Standing(claim) THEN "unclaimed"
    ELSE IF conn \in claim.holders THEN "done" ELSE "fenced"

\* Mutant: a connection's end leaves its hold behind.
ReleaseHoldKeeps(claim, conn) == claim

\* A connection's end drops its hold and never the claim.
ReleaseHold(claim, conn) == [claim EXCEPT !.holders = @ \ {conn}]

=============================================================================
