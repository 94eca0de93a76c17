-------------------------------- MODULE Peer --------------------------------
(***************************************************************************)
(* One peer of a redundant pair: crates/dcs-runtime/src/peer.rs.  A peer   *)
(* is a record, and each operator is one of Peer's methods as a function   *)
(* of that record and of what the outside answered: the checkpoint a pull  *)
(* produced, the field's probe, the answer of a claim hook.  The modules   *)
(* that own peers supply those answers.                                    *)
(*                                                                         *)
(* Data left out: the executor's state, the checkpoint's payload, and the  *)
(* tick arithmetic of stream_offset; of an image staged for the divergence *)
(* check only its existence is kept, of a checkpoint only who served it    *)
(* and how its transfer ended.                                             *)
(***************************************************************************)
EXTENDS Naturals

CONSTANT Budget  \* with_failover's miss budget; 0: failover is not armed

ASSUME BudgetAssumption == Budget \in Nat

Roles == {"standby", "promoting", "active", "demoting"}

Syncs == {"unsynchronized", "degraded", "diverged", "tracking", "reinitialized",
          "orphaned", "usurped"}

Peers == [role : Roles, sync : Syncs, misses : Nat, converged : BOOLEAN,
          gate : BOOLEAN,            \* WriteGate.open
          wasOwner : BOOLEAN, yielded : BOOLEAN, fencingLost : BOOLEAN,
          startupPending : BOOLEAN,
          foreign : BOOLEAN,         \* foreign_writer.is_some()
          fieldClaim : {"unknown", "held", "unclaimed"},
          freeSeen : BOOLEAN,        \* unclaimed_observed
          aligned : BOOLEAN,         \* applied_offset.is_some()
          staged : BOOLEAN]          \* staged.is_some()

\* Peer::active, before its activation; Peer::standby.
BornActive ==
    [role |-> "active", sync |-> "unsynchronized", misses |-> 0,
     converged |-> FALSE, gate |-> FALSE, wasOwner |-> TRUE, yielded |-> FALSE,
     fencingLost |-> FALSE, startupPending |-> FALSE, foreign |-> FALSE,
     fieldClaim |-> "unknown", freeSeen |-> FALSE, aligned |-> FALSE,
     staged |-> FALSE]

BornStandby == [BornActive EXCEPT !.role = "standby", !.wasOwner = FALSE]

OwnsField(p) == p.role \in {"active", "promoting"}

LineUnowned(p) == p.sync \in {"orphaned", "usurped"}

Promotable(p) == p.sync \in {"tracking", "reinitialized", "orphaned", "usurped"}

-----------------------------------------------------------------------------
(* The gate                                                                *)

\* Mutant: the hand-off mark of an earlier demotion outlives the new grant.
OpenGateKeepsYield(p) ==
    [p EXCEPT !.gate = TRUE, !.foreign = FALSE, !.fencingLost = FALSE,
              !.wasOwner = TRUE]

OpenGate(p) ==
    [p EXCEPT !.gate = TRUE, !.foreign = FALSE, !.fencingLost = FALSE,
              !.yielded = FALSE, !.wasOwner = TRUE]

\* A granted claim: the gate lifts and the next completed scan is the first
\* one that owns the field.
Take(p) == [OpenGate(p) EXCEPT !.role = "promoting"]

\* What demote_inner and stand_down share.
Relinquish(p) ==
    [p EXCEPT !.gate = FALSE, !.sync = "unsynchronized", !.aligned = FALSE,
              !.staged = FALSE, !.misses = 0, !.converged = FALSE]

\* Mutant: a demotion leaves the gate open.
DemoteOpen(p, origin) ==
    [Relinquish(p) EXCEPT !.gate = p.gate, !.yielded = (origin = "request"),
                          !.role = "demoting"]

\* Mutant: a demotion leaves the old convergence proof standing.
DemoteConverged(p, origin) ==
    [Relinquish(p) EXCEPT !.converged = p.converged,
                          !.yielded = (origin = "request"), !.role = "demoting"]

DemoteInner(p, origin) ==
    [Relinquish(p) EXCEPT !.yielded = (origin = "request"), !.role = "demoting"]

StandDown(p) ==
    [Relinquish(p) EXCEPT !.wasOwner = FALSE, !.role = "standby"]

\* The startup grant's answer.
Activate(p, answer) ==
    IF answer = "granted" THEN OpenGate(p)
    ELSE IF answer = "refused" THEN StandDown([p EXCEPT !.fieldClaim = "held"])
    ELSE [StandDown(p) EXCEPT !.startupPending = TRUE]

-----------------------------------------------------------------------------
(* Promotion                                                               *)

\* The misses matter as zero, below, at and past the budget.
Bump(n) == IF n > Budget THEN n ELSE n + 1

FailoverDue(p) ==
    /\ Budget # 0
    /\ p.misses >= Budget
    /\ p.misses = Budget \/ p.converged

\* Mutant: a promotion does not wait for a startup grant still owed.
MayPromotePending(p) == ~OwnsField(p) /\ Promotable(p)

MayPromote(p) == ~OwnsField(p) /\ ~p.startupPending /\ Promotable(p)

MaySelfPromote(p) ==
    ~OwnsField(p) /\ ~p.startupPending /\ FailoverDue(p) /\ p.converged

\* claim_gate: the claim a promotion asks for, and whether it may ask at all.
\* `skewed` is a basis past the skew bound; a sighting of a free field, or a
\* line that stopped serving, waives it.
ClaimKind(p) == IF p.sync = "orphaned" THEN "unlessHeld" ELSE "claim"

BasisRefuses(p, skewed) ==
    p.sync # "orphaned" /\ skewed /\ ~p.freeSeen /\ p.misses = 0

-----------------------------------------------------------------------------
(* Tracking                                                                *)

\* What a pull produced: whether its source owns the field, how the transfer
\* ended, whether the source's run restarted (its stream regressed across a
\* generation boundary), and what the comparison with the staged image said
\* ("none" when it was staged for another position, or the stream regressed).
Checkpoints ==
    [owns : {"yes", "no", "unknown"},
     transfer : {"applied", "refused", "reinitialized"},
     restarted : BOOLEAN,
     compared : {"none", "match", "partial", "mismatch"}]

Count(p, ck) == [p EXCEPT !.misses = IF ck.owns = "no" THEN Bump(@) ELSE 0]

Comparison(p, ck) == IF p.staged /\ ~ck.restarted THEN ck.compared ELSE "none"

\* The verdict of an apply from a line that owns the field.
Proven(p, ck) ==
    LET c == Comparison(p, ck) IN
    IF c = "mismatch" THEN [p EXCEPT !.sync = "diverged", !.converged = FALSE]
    ELSE IF c = "match" \/ p.sync # "diverged"
    THEN [p EXCEPT !.sync = "tracking", !.converged = TRUE]
    ELSE p

\* Peer::transfer: apply, or reinitialize across a model revision.
Transfer(p, ck) ==
    LET counted == Count(p, ck) IN
    IF ck.transfer = "refused"
    THEN [counted EXCEPT !.sync = "degraded", !.converged = FALSE]
    ELSE IF ck.transfer = "reinitialized"
    THEN [counted EXCEPT !.sync = "reinitialized", !.converged = TRUE,
                         !.aligned = TRUE, !.staged = FALSE]
    ELSE IF ck.owns = "no"
    THEN [counted EXCEPT !.sync = IF p.foreign THEN "usurped" ELSE "orphaned",
                         !.converged = TRUE, !.aligned = TRUE, !.staged = FALSE]
    ELSE [Proven(counted, ck) EXCEPT !.aligned = TRUE, !.staged = FALSE]

NoteTransferFailed(p) ==
    LET n == Bump(p.misses) IN
    [p EXCEPT !.misses = n,
              !.converged = @ /\ ~(Budget # 0 /\ n > Budget),
              !.sync = IF @ = "diverged" \/ LineUnowned(p) THEN @ ELSE "degraded"]

\* Mutant: the final pull's own verdict replaces the proof the promotion
\* stands on.
FinalSyncAdopts(p, ck) ==
    IF OwnsField(p) THEN p ELSE Transfer([p EXCEPT !.staged = FALSE], ck)

\* The promotion boundary's pull: its verdict never replaces the tracked one,
\* and only a restarted source retires the staged image.
FinalSync(p, ck) ==
    LET moved == Transfer([p EXCEPT !.staged = FALSE], ck) IN
    IF OwnsField(p) THEN p
    ELSE [moved EXCEPT !.sync = p.sync, !.converged = p.converged,
                       !.staged = p.staged /\ (ck.restarted => ck.transfer = "refused")]

\* track_once up to its hooks: a produced checkpoint or a miss.
Served(p, ck) ==
    Transfer([p EXCEPT !.fencingLost = @ /\ ck.owns # "yes"], ck)

\* The orphan cycle re-arms the claim for an ex-owner that did not yield.
EnsureAsked(p) == p.wasOwner /\ ~p.yielded

Ensured(p, granted) ==
    IF EnsureAsked(p) /\ granted THEN [p EXCEPT !.fieldClaim = "held"]
    ELSE p

NoteForeignWriter(p, writer) ==
    LET named == writer /\ LineUnowned(p) IN
    IF OwnsField(p) THEN p
    ELSE [p EXCEPT !.foreign = named,
                   !.sync = IF LineUnowned(p)
                            THEN IF named THEN "usurped" ELSE "orphaned"
                            ELSE @]

-----------------------------------------------------------------------------
(* The scan                                                                *)

\* The probe that opens the scan; "silent" when the field did not answer.
Probed(p, seen) == IF seen = "silent" THEN p ELSE [p EXCEPT !.fieldClaim = seen]

\* A field-owning scan whose write was fenced: the loss is recorded and the
\* peer demotes within the scan.
FencedOut(p) == DemoteInner([p EXCEPT !.fencingLost = TRUE], "fenced")

Settled(p) ==
    [p EXCEPT !.role = IF @ = "promoting" THEN "active"
                       ELSE IF @ = "demoting" THEN "standby" ELSE @]

\* Mutant: a deliberate hand-off does not stop the reclaim.
ReclaimAskedAnyway(p, seen) ==
    /\ p.role = "standby"
    /\ p.wasOwner
    /\ p.fencingLost \/ LineUnowned(p)
    /\ seen = "unclaimed" \/ p.converged

ReclaimAsked(p, seen) ==
    /\ p.role = "standby"
    /\ p.wasOwner /\ ~p.yielded
    /\ p.fencingLost \/ LineUnowned(p)
    /\ seen = "unclaimed" \/ p.converged

StartupAsked(p, seen) == p.startupPending /\ seen # "silent"

\* The hook the scan asks, if any, applied; at most one of the two is armed.
Hooked(p, seen, answer) ==
    IF ReclaimAsked(p, seen) /\ answer = "granted"
    THEN [Take(p) EXCEPT !.fieldClaim = "held"]
    ELSE IF StartupAsked(p, seen) /\ answer = "granted"
    THEN [Take(p) EXCEPT !.fieldClaim = "held", !.startupPending = FALSE]
    ELSE IF StartupAsked(p, seen) /\ answer = "refused"
    THEN [p EXCEPT !.fieldClaim = "held", !.startupPending = FALSE]
    ELSE p

\* The scan's last step: the sighting a promotion may stand on, and the image
\* staged for the next comparison.
Closed(p, seen) ==
    [p EXCEPT !.freeSeen = seen # "silent" /\ p.fieldClaim = "unclaimed",
              !.staged = ~OwnsField(p) /\ p.aligned]

-----------------------------------------------------------------------------
(* What every operation leaves true of its peer                            *)

\* The gate is open exactly while the peer owns the field.
GateSound(p) == p.gate <=> OwnsField(p)

\* An owner carries no mark of an earlier loss.
OwnerSound(p) ==
    OwnsField(p) => /\ p.wasOwner
                    /\ ~p.yielded
                    /\ ~p.fencingLost
                    /\ ~p.startupPending
                    /\ ~p.foreign

\* A startup grant still owed belongs to a peer that never owned the field,
\* and so never handed it over.
StartupOwed(p) ==
    p.startupPending => ~p.wasOwner /\ ~p.yielded /\ p.role = "standby"

\* A standing convergence proof is an aligned peer's, and not a diverged one's.
ProofSound(p) ==
    p.converged => p.aligned /\ p.sync \notin {"diverged", "unsynchronized"}

PeerSound(p) ==
    p \in Peers /\ GateSound(p) /\ OwnerSound(p) /\ StartupOwed(p) /\ ProofSound(p)
=============================================================================
