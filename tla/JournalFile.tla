---------------------------- MODULE JournalFile ----------------------------
(***************************************************************************)
(* The durable journal across process lifetimes:                           *)
(* crates/dcs-monitor/src/journal_file.rs (open, replay, write), and the   *)
(* history file beside it, whose open, replay and write are the same.      *)
(*                                                                         *)
(* A run opens the file under an exclusive advisory lock, replays it to    *)
(* learn where seq and run numbering stand, marks its own start with a     *)
(* boundary record and appends entries in seq order; that order is what    *)
(* the drain in front of it keeps (module Drain).  A write may be cut      *)
(* short, by an error or by the death of the process, at any byte: before  *)
(* the record is whole, or just before its newline.  After an error the    *)
(* drain writes nothing more.                                              *)
(*                                                                         *)
(* A line is a record kind, its number and how it was left.  Left out: the *)
(* entries' content and what replay rebuilds from it.                      *)
(***************************************************************************)
EXTENDS Integers, Sequences, FiniteSets

CONSTANTS Procs,    \* processes configured with the same path
          NoProc,   \* "nobody holds the lock"
          Cuts,     \* where a write may be cut: "torn", "bare"
          MaxLines  \* bound: lines in this instance

ASSUME JournalAssumption ==
    /\ NoProc \notin Procs
    /\ Cuts \subseteq {"torn", "bare"}
    /\ MaxLines \in Nat

VARIABLES file,    \* the lines on disk
          holder,  \* who holds the advisory lock
          phase,   \* phase[p]: where process p is in open, or that it runs
          nextSeq, \* nextSeq[p]: the next entry's seq
          nextRun  \* nextRun[p]: the run number of p's boundary

vars == <<file, holder, phase, nextSeq, nextRun>>

Phases == {"down", "locked", "replayed", "up", "failed"}

\* "fused": a record written behind one that has no newline.
Lines == [kind : {"entry", "boundary"}, n : Nat,
          left : {"whole", "torn", "bare", "fused"}]

Line(kind, n, left) == [kind |-> kind, n |-> n, left |-> left]

Init ==
    /\ file = <<>>
    /\ holder = NoProc
    /\ phase = [p \in Procs |-> "down"]
    /\ nextSeq = [p \in Procs |-> 1]
    /\ nextRun = [p \in Procs |-> 1]

-----------------------------------------------------------------------------
(* Replay                                                                  *)

\* serde reads a record whether or not its newline follows.
Parses(line) == line.left \in {"whole", "bare"}

Numbers(f, kind) == {f[i].n : i \in {j \in DOMAIN f : f[j].kind = kind}}

\* Among the lines a reader can parse, a kind's numbers strictly increase.
Ordered(f, kind) ==
    \A i, j \in DOMAIN f :
        (i < j /\ f[i].kind = kind /\ f[j].kind = kind /\ Parses(f[i]) /\ Parses(f[j]))
            => f[i].n < f[j].n

Replays(f) == (\A i \in DOMAIN f : Parses(f[i])) /\ Ordered(f, "entry")

\* seq numbering resumes one past the last entry's.
IsNextSeq(f, n) ==
    /\ n >= 1
    /\ \A m \in Numbers(f, "entry") : m < n
    /\ n > 1 => n - 1 \in Numbers(f, "entry")

\* Mutant: it resumes at the last entry's.
IsLastSeq(f, n) ==
    /\ n >= 1
    /\ \A m \in Numbers(f, "entry") : m <= n
    /\ n > 1 => n \in Numbers(f, "entry")

ResumesAt(f, n) == IsNextSeq(f, n)

\* A run's number is one past the boundaries replay counts.
Runs(f) == Cardinality({i \in DOMAIN f : f[i].kind = "boundary"})

-----------------------------------------------------------------------------
(* write: one record and its newline in one write_all on the append handle *)

Unterminated(f) == Len(f) > 0 /\ f[Len(f)].left = "bare"

Written(f, line) ==
    IF Unterminated(f) THEN [f EXCEPT ![Len(f)].left = "fused"]
    ELSE Append(f, line)

-----------------------------------------------------------------------------
(* open                                                                    *)

\* Mutant: the lock is not waited for.
LockFreeIgnored(p) == TRUE

\* A second opener of a live holder's file is refused.
LockFree(p) == holder = NoProc

Lock(p) ==
    /\ phase[p] = "down"
    /\ LockFree(p)
    /\ holder' = p
    /\ phase' = [phase EXCEPT ![p] = "locked"]
    /\ UNCHANGED <<file, nextSeq, nextRun>>

Free(p) == IF holder = p THEN NoProc ELSE holder

Replay(p) ==
    /\ phase[p] = "locked"
    /\ Replays(file)
    /\ \E seq \in 1..MaxLines + 1 :
          /\ ResumesAt(file, seq)
          /\ nextSeq' = [nextSeq EXCEPT ![p] = seq]
    /\ nextRun' = [nextRun EXCEPT ![p] = Runs(file) + 1]
    /\ phase' = [phase EXCEPT ![p] = "replayed"]
    /\ UNCHANGED <<file, holder>>

\* A record that does not parse, or a seq out of order, fails the startup.
Refuse(p) ==
    /\ phase[p] = "locked"
    /\ ~Replays(file)
    /\ phase' = [phase EXCEPT ![p] = "down"]
    /\ holder' = Free(p)
    /\ UNCHANGED <<file, nextSeq, nextRun>>

\* This run's boundary marker; a failed write fails the open.
MarkBoundary(p, left) ==
    /\ phase[p] = "replayed"
    /\ Len(file) < MaxLines
    /\ file' = Written(file, Line("boundary", nextRun[p], left))
    /\ phase' = [phase EXCEPT ![p] = IF left = "whole" THEN "up" ELSE "down"]
    /\ holder' = IF left = "whole" THEN holder ELSE Free(p)
    /\ UNCHANGED <<nextSeq, nextRun>>

-----------------------------------------------------------------------------
(* The run                                                                 *)

AppendEntry(p, left) ==
    /\ phase[p] = "up"
    /\ Len(file) < MaxLines
    /\ file' = Written(file, Line("entry", nextSeq[p], left))
    /\ nextSeq' = [nextSeq EXCEPT ![p] = @ + 1]
    /\ phase' = [phase EXCEPT ![p] = IF left = "whole" THEN "up" ELSE "failed"]
    /\ UNCHANGED <<holder, nextRun>>

\* A process exits or dies; its descriptor's lock goes with it.
Exit(p) ==
    /\ phase[p] # "down"
    /\ phase' = [phase EXCEPT ![p] = "down"]
    /\ holder' = Free(p)
    /\ UNCHANGED <<file, nextSeq, nextRun>>

Proc(p) ==
    \/ Lock(p) \/ Replay(p) \/ Refuse(p) \/ Exit(p)
    \/ \E left \in Cuts \cup {"whole"} : MarkBoundary(p, left) \/ AppendEntry(p, left)

Next == \E p \in Procs : Proc(p)

Spec == Init /\ [][Next]_vars

-----------------------------------------------------------------------------
(* Properties                                                              *)

TypeOK ==
    /\ file \in Seq(Lines)
    /\ holder \in Procs \cup {NoProc}
    /\ phase \in [Procs -> Phases]
    /\ nextSeq \in [Procs -> Nat]
    /\ nextRun \in [Procs -> Nat]

\* A process past the lock is the holder.
LockSound == \A p \in Procs : phase[p] # "down" => holder = p

\* What a process would append next is past all the file holds.
NumberSound ==
    \A p \in Procs :
        /\ phase[p] \in {"replayed", "up", "failed"} =>
              \A n \in Numbers(file, "entry") : n < nextSeq[p]
        /\ phase[p] = "replayed" => nextRun[p] = Runs(file) + 1

\* No boundary is numbered past the boundaries there are.
RunSound == \A n \in Numbers(file, "boundary") : n <= Runs(file)

\* However many processes are pointed at the path, and wherever their lives
\* and writes end, no seq and no run number a reader can parse repeats or goes
\* back: the audit trail of all runs is one sequence.
OneSequence == Ordered(file, "entry") /\ Ordered(file, "boundary")

\* The inductive invariant.
JournalInv == TypeOK /\ LockSound /\ NumberSound /\ RunSound /\ OneSequence

\* While a run appends to its journal without error, the journal replays: what
\* a startup accepted, it does not make unreadable for the next one.
RunningJournalReplays == \A p \in Procs : phase[p] = "up" => Replays(file)
=============================================================================
