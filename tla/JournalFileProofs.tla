------------------------- MODULE JournalFileProofs -------------------------
(* Proofs about JournalFile, for any processes and any number of lines.    *)
EXTENDS JournalFile, FiniteSetTheorems, TLAPS

\* The lines Runs counts.
Boundaries(f) == {i \in DOMAIN f : f[i].kind = "boundary"}

\* A file has finitely many boundaries, so replay's count is a number.
LEMMA RunsNat ==
  ASSUME NEW f \in Seq(Lines)
  PROVE  IsFiniteSet(Boundaries(f)) /\ Runs(f) \in Nat
<1>1. IsFiniteSet(1..Len(f))
  BY FS_Interval
<1>2. Boundaries(f) \subseteq 1..Len(f)
  BY DEF Boundaries
<1>3. IsFiniteSet(Boundaries(f))
  BY <1>1, <1>2, FS_Subset
<1> QED BY <1>3, FS_CardinalityType DEF Runs, Boundaries

\* Every line's number is one.
LEMMA NumbersNat ==
  ASSUME NEW f \in Seq(Lines), NEW kind, NEW m \in Numbers(f, kind)
  PROVE  m \in Nat
<1>1. PICK i \in DOMAIN f : m = f[i].n
  BY DEF Numbers
<1>2. f[i] \in Lines
  OBVIOUS
<1> QED BY <1>1, <1>2 DEF Lines

\* Appending a boundary adds one to the count, an entry nothing.
LEMMA RunsAppend ==
  ASSUME NEW f \in Seq(Lines), NEW line \in Lines
  PROVE  /\ line.kind = "boundary" => Runs(Append(f, line)) = Runs(f) + 1
         /\ line.kind = "entry" => Runs(Append(f, line)) = Runs(f)
<1> DEFINE g == Append(f, line)
<1>1. /\ DOMAIN g = DOMAIN f \cup {Len(f) + 1}
      /\ DOMAIN f = 1..Len(f)
      /\ \A i \in DOMAIN f : g[i] = f[i]
      /\ g[Len(f) + 1] = line
  OBVIOUS
<1>2. CASE line.kind = "boundary"
  <2>1. Boundaries(g) = Boundaries(f) \cup {Len(f) + 1}
    BY <1>1, <1>2 DEF Boundaries
  <2>2. Len(f) + 1 \notin Boundaries(f)
    BY <1>1 DEF Boundaries
  <2> QED BY <1>2, <2>1, <2>2, RunsNat, FS_AddElement DEF Runs, Boundaries
<1>3. CASE line.kind = "entry"
  <2>1. Boundaries(g) = Boundaries(f)
    BY <1>1, <1>3 DEF Boundaries
  <2> QED BY <1>3, <2>1 DEF Runs, Boundaries
<1> QED BY <1>2, <1>3 DEF Lines

\* A record written behind an unterminated one leaves the file's numbers, and
\* makes no line readable.
LEMMA FusedKeeps ==
  ASSUME NEW f \in Seq(Lines), Unterminated(f)
  PROVE  LET g == [f EXCEPT ![Len(f)].left = "fused"] IN
         /\ g \in Seq(Lines)
         /\ \A kind : Numbers(g, kind) = Numbers(f, kind)
         /\ \A kind : Ordered(f, kind) => Ordered(g, kind)
         /\ Runs(g) = Runs(f)
<1> DEFINE g == [f EXCEPT ![Len(f)].left = "fused"]
<1>1. Len(f) \in DOMAIN f
  BY DEF Unterminated
<1>2. /\ g \in Seq(Lines)
      /\ DOMAIN g = DOMAIN f
  <2> DEFINE x == [f[Len(f)] EXCEPT !.left = "fused"]
  <2>1. f[Len(f)] \in Lines
    BY <1>1
  <2>2. x \in Lines
    BY <2>1 DEF Lines
  <2>3. g = [f EXCEPT ![Len(f)] = x]
    OBVIOUS
  <2> HIDE DEF x
  <2> QED BY <1>1, <2>2, <2>3
<1>3. \A i \in DOMAIN f : /\ g[i].kind = f[i].kind
                          /\ g[i].n = f[i].n
                          /\ Parses(g[i]) => Parses(f[i])
  <2> SUFFICES ASSUME NEW i \in DOMAIN f
               PROVE  /\ g[i].kind = f[i].kind
                      /\ g[i].n = f[i].n
                      /\ Parses(g[i]) => Parses(f[i])
    OBVIOUS
  <2>0. f[i] \in Lines
    OBVIOUS
  <2>1. CASE i = Len(f)
    <3>1. g[i] = [f[i] EXCEPT !.left = "fused"]
      BY <2>1
    <3> QED BY <2>0, <3>1 DEF Lines, Parses
  <2>2. CASE i # Len(f)
    BY <2>2
  <2> QED BY <2>1, <2>2
<1>4. \A kind : Numbers(g, kind) = Numbers(f, kind)
  BY <1>2, <1>3 DEF Numbers
<1>5. \A kind : Ordered(f, kind) => Ordered(g, kind)
  BY <1>2, <1>3 DEF Ordered
<1>6. Runs(g) = Runs(f)
  <2>1. Boundaries(g) = Boundaries(f)
    BY <1>2, <1>3 DEF Boundaries
  <2> QED BY <2>1 DEF Runs, Boundaries
<1> QED BY <1>2, <1>4, <1>5, <1>6

\* A record appended past all of its kind keeps the order.
LEMMA AppendKeeps ==
  ASSUME NEW f \in Seq(Lines), NEW line \in Lines,
         \A m \in Numbers(f, line.kind) : m < line.n
  PROVE  LET g == Append(f, line) IN
         /\ g \in Seq(Lines)
         /\ \A kind : Numbers(g, kind) =
               Numbers(f, kind) \cup (IF kind = line.kind THEN {line.n} ELSE {})
         /\ \A kind : Ordered(f, kind) => Ordered(g, kind)
<1> DEFINE g == Append(f, line)
<1>1. /\ g \in Seq(Lines)
      /\ DOMAIN g = DOMAIN f \cup {Len(f) + 1}
      /\ DOMAIN f = 1..Len(f)
      /\ \A i \in DOMAIN f : g[i] = f[i] /\ f[i] \in Lines
      /\ g[Len(f) + 1] = line
      /\ Len(f) \in Nat
  OBVIOUS
<1>2. \A kind : Numbers(g, kind) =
               Numbers(f, kind) \cup (IF kind = line.kind THEN {line.n} ELSE {})
  BY <1>1 DEF Numbers
<1>3. \A kind : Ordered(f, kind) => Ordered(g, kind)
  <2> SUFFICES ASSUME NEW kind, Ordered(f, kind),
                      NEW i \in DOMAIN g, NEW j \in DOMAIN g,
                      i < j, g[i].kind = kind, g[j].kind = kind,
                      Parses(g[i]), Parses(g[j])
               PROVE  g[i].n < g[j].n
    BY DEF Ordered
  <2>1. i \in DOMAIN f
    BY <1>1
  <2>2. CASE j \in DOMAIN f
    BY <1>1, <2>1, <2>2 DEF Ordered
  <2>3. CASE j = Len(f) + 1
    <3>1. f[i].n \in Numbers(f, line.kind)
      BY <1>1, <2>1, <2>3 DEF Numbers
    <3> QED BY <1>1, <2>1, <2>3, <3>1
  <2> QED BY <1>1, <2>2, <2>3
<1> QED BY <1>1, <1>2, <1>3

-----------------------------------------------------------------------------
\* What a write leaves of the invariant, whichever record and wherever cut.
LEMMA WrittenSound ==
  ASSUME NEW f \in Seq(Lines), NEW line \in Lines,
         \A m \in Numbers(f, line.kind) : m < line.n
  PROVE  /\ Written(f, line) \in Seq(Lines)
         /\ \A kind : Numbers(Written(f, line), kind) \subseteq
               Numbers(f, kind) \cup (IF kind = line.kind THEN {line.n} ELSE {})
         /\ \A kind : Ordered(f, kind) => Ordered(Written(f, line), kind)
<1>1. CASE Unterminated(f)
  BY <1>1, FusedKeeps DEF Written
<1>2. CASE ~Unterminated(f)
  BY <1>2, AppendKeeps DEF Written
<1> QED BY <1>1, <1>2

\* An empty file, nobody running.
LEMMA InitJournal == Init => JournalInv
<1> SUFFICES ASSUME Init PROVE JournalInv
  OBVIOUS
<1>1. TypeOK
  BY JournalAssumption DEF Init, TypeOK, Phases
<1>2. DOMAIN file = {}
  BY DEF Init
<1>3. LockSound /\ NumberSound
  BY DEF Init, LockSound, NumberSound
<1>4. RunSound /\ OneSequence
  BY <1>2 DEF RunSound, OneSequence, Ordered, Numbers
<1> QED BY <1>1, <1>3, <1>4 DEF JournalInv

\* Startup and exit: the lock admits one process, and replay numbers it past
\* all the file holds (journal_file.rs, open and replay).
LEMMA OpenKeeps ==
  ASSUME JournalInv, NEW p \in Procs, Lock(p) \/ Replay(p) \/ Refuse(p) \/ Exit(p)
  PROVE  JournalInv'
<1> USE DEF JournalInv
<1>0. file' = file
  BY DEF Lock, Replay, Refuse, Exit
<1>1. RunSound' /\ OneSequence'
  BY <1>0 DEF RunSound, OneSequence, Ordered, Numbers, Runs, Parses
<1>2. Runs(file) \in Nat
  BY RunsNat DEF TypeOK
<1>3. CASE Lock(p)
  <2>1. TypeOK'
    BY <1>3 DEF Lock, TypeOK, Phases
  <2>2. LockSound'
    BY <1>3, JournalAssumption DEF Lock, LockFree, LockSound, TypeOK
  <2>3. NumberSound'
    BY <1>3 DEF Lock, NumberSound, TypeOK
  <2> QED BY <1>1, <2>1, <2>2, <2>3
<1>4. CASE Replay(p)
  <2>1. PICK seq \in 1..MaxLines + 1 : /\ ResumesAt(file, seq)
                                      /\ nextSeq' = [nextSeq EXCEPT ![p] = seq]
    BY <1>4 DEF Replay
  <2>2. seq \in Nat
    BY JournalAssumption
  <2>3. TypeOK'
    BY <1>2, <1>4, <2>1, <2>2 DEF Replay, TypeOK, Phases
  <2>4. LockSound'
    BY <1>4 DEF Replay, LockSound, TypeOK
  <2>5. NumberSound'
    BY <1>4, <2>1 DEF Replay, NumberSound, TypeOK, ResumesAt, IsNextSeq
  <2> QED BY <1>1, <2>3, <2>4, <2>5
<1>5. CASE Refuse(p)
  <2>1. TypeOK'
    BY <1>5 DEF Refuse, Free, TypeOK, Phases
  <2>2. LockSound'
    BY <1>5 DEF Refuse, Free, LockSound, TypeOK
  <2>3. NumberSound'
    BY <1>5 DEF Refuse, NumberSound, TypeOK
  <2> QED BY <1>1, <2>1, <2>2, <2>3
<1>6. CASE Exit(p)
  <2>1. TypeOK'
    BY <1>6 DEF Exit, Free, TypeOK, Phases
  <2>2. LockSound'
    BY <1>6 DEF Exit, Free, LockSound, TypeOK
  <2>3. NumberSound'
    BY <1>6 DEF Exit, NumberSound, TypeOK
  <2> QED BY <1>1, <2>1, <2>2, <2>3
<1> QED BY <1>3, <1>4, <1>5, <1>6

\* The boundary is numbered past every boundary, and an entry past every entry.
LEMMA WriteKeeps ==
  ASSUME JournalInv, NEW p \in Procs, NEW left \in Cuts \cup {"whole"},
         MarkBoundary(p, left) \/ AppendEntry(p, left)
  PROVE  JournalInv'
<1> USE DEF JournalInv
<1>0. /\ file \in Seq(Lines) /\ nextSeq \in [Procs -> Nat] /\ nextRun \in [Procs -> Nat]
      /\ Runs(file) \in Nat
      /\ left \in {"whole", "torn", "bare"}
  BY RunsNat, JournalAssumption DEF TypeOK
<1>1. \A q \in Procs \ {p} : phase[q] = "down"
  BY DEF LockSound, MarkBoundary, AppendEntry
<1>2. CASE MarkBoundary(p, left)
  <2> DEFINE line == Line("boundary", nextRun[p], left)
  <2>1. /\ line \in Lines /\ line.kind = "boundary" /\ line.n = Runs(file) + 1
    BY <1>0, <1>2 DEF MarkBoundary, NumberSound, Line, Lines
  <2>2. file' = Written(file, line)
    BY <1>2 DEF MarkBoundary
  <2>3. \A m \in Numbers(file, line.kind) : m < line.n
    BY <1>0, <2>1, NumbersNat DEF RunSound
  <2> HIDE DEF line
  <2>4. /\ file' \in Seq(Lines)
        /\ Numbers(file', "entry") \subseteq Numbers(file, "entry")
        /\ OneSequence'
    BY <1>0, <2>1, <2>2, <2>3, WrittenSound DEF OneSequence
  <2>5. RunSound'
    <3>1. CASE Unterminated(file)
      BY <1>0, <2>2, <3>1, FusedKeeps DEF RunSound, Written
    <3>2. CASE ~Unterminated(file)
      <4>1. Runs(file') = Runs(file) + 1
        BY <1>0, <2>1, <2>2, <3>2, RunsAppend DEF Written
      <4>2. Numbers(file', "boundary") \subseteq Numbers(file, "boundary") \cup {line.n}
        BY <1>0, <2>1, <2>2, <2>3, WrittenSound
      <4>3. \A m \in Numbers(file, "boundary") : m \in Nat
        BY <1>0, NumbersNat
      <4> QED BY <1>0, <2>1, <4>1, <4>2, <4>3 DEF RunSound
    <3> QED BY <3>1, <3>2
  <2>6. TypeOK'
    BY <1>2, <2>4 DEF MarkBoundary, TypeOK, Phases, Free
  <2>7. LockSound'
    BY <1>1, <1>2 DEF MarkBoundary, LockSound, TypeOK, Free
  <2>8. NumberSound'
    BY <1>1, <1>2, <2>4 DEF MarkBoundary, NumberSound, TypeOK
  <2> QED BY <2>4, <2>5, <2>6, <2>7, <2>8
<1>3. CASE AppendEntry(p, left)
  <2> DEFINE line == Line("entry", nextSeq[p], left)
  <2>1. /\ line \in Lines /\ line.kind = "entry" /\ line.n = nextSeq[p]
    BY <1>0 DEF Line, Lines
  <2>2. file' = Written(file, line) /\ phase[p] = "up"
    BY <1>3 DEF AppendEntry
  <2>3. \A m \in Numbers(file, line.kind) : m < line.n
    BY <2>1, <2>2 DEF NumberSound
  <2> HIDE DEF line
  <2>4. /\ file' \in Seq(Lines)
        /\ Numbers(file', "boundary") \subseteq Numbers(file, "boundary")
        /\ Numbers(file', "entry") \subseteq Numbers(file, "entry") \cup {line.n}
        /\ OneSequence'
    BY <1>0, <2>1, <2>2, <2>3, WrittenSound DEF OneSequence
  <2>5. RunSound'
    <3>1. Runs(file') = Runs(file)
      BY <1>0, <2>1, <2>2, FusedKeeps, RunsAppend DEF Written
    <3> QED BY <2>4, <3>1 DEF RunSound
  <2>6. TypeOK'
    BY <1>3, <2>4 DEF AppendEntry, TypeOK, Phases
  <2>7. LockSound'
    BY <1>1, <1>3 DEF AppendEntry, LockSound, TypeOK
  <2>8. NumberSound'
    <3>1. nextSeq'[p] = nextSeq[p] + 1 /\ nextSeq[p] \in Nat
      BY <1>0, <1>3 DEF AppendEntry
    <3>2. \A m \in Numbers(file, "entry") : m \in Nat
      BY <1>0, NumbersNat
    <3>3. \A m \in Numbers(file', "entry") : m < nextSeq'[p]
      BY <2>1, <2>3, <2>4, <3>1, <3>2
    <3> QED BY <1>1, <1>3, <3>3 DEF AppendEntry, NumberSound, TypeOK
  <2> QED BY <2>4, <2>5, <2>6, <2>7, <2>8
<1> QED BY <1>2, <1>3

-----------------------------------------------------------------------------
\* For any processes on one path and any cut of any write, the numbers the
\* next write takes are past all the file holds.
THEOREM JournalIsSound == Spec => []JournalInv
<1>1. Init => JournalInv
  BY InitJournal
<1>2. JournalInv /\ [Next]_vars => JournalInv'
  <2> SUFFICES ASSUME JournalInv, [Next]_vars PROVE JournalInv'
    OBVIOUS
  <2>1. CASE Next
    <3>1. PICK p \in Procs : Proc(p)
      BY <2>1 DEF Next
    <3> QED BY <3>1, OpenKeeps, WriteKeeps DEF Proc
  <2>2. CASE UNCHANGED vars
    BY <2>2 DEF vars, JournalInv, TypeOK, LockSound, NumberSound, RunSound,
                OneSequence, Ordered, Numbers, Runs, Parses
  <2> QED BY <2>1, <2>2
<1> QED BY <1>1, <1>2, PTL DEF Spec

\* The audit trail of all runs is one sequence: no seq and no run number that a
\* reader can parse repeats or goes back.
COROLLARY TrailIsOneSequence == Spec => []OneSequence
<1>1. JournalInv => OneSequence
  BY DEF JournalInv
<1> QED BY <1>1, JournalIsSound, PTL
=============================================================================
