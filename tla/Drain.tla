------------------------------- MODULE Drain -------------------------------
(***************************************************************************)
(* The bounded queue between the run's recording point and a durable file: *)
(* crates/dcs-monitor/src/drain.rs, with the durability wait the state     *)
(* sink puts on it (state_file.rs, StateSink::attest).  The journal, the   *)
(* history and the state file each own one.                                *)
(*                                                                         *)
(* Three kinds of thread meet here.  The producer pushes under the         *)
(* executor lock, so there is one push at a time.  The writer thread takes *)
(* records off the channel and writes them.  Request threads wait, off the *)
(* lock, for a record to be durable.  They share sequentially consistent   *)
(* counters and a failure flag, and each load or update is a step here.    *)
(*                                                                         *)
(* A record is its position in push order.  Left out: high_water and the   *)
(* state label (reports that steer nothing), the wording of a failure.     *)
(* try_send's Disconnected arm cannot happen: the writer ends only after   *)
(* the drain dropped its sender.                                           *)
(***************************************************************************)
EXTENDS Integers, Sequences

CONSTANTS Capacity,  \* the queue's declared bound
          Waiters,   \* request threads waiting for durability
          MaxPush,   \* bound: pushes in this instance
          Word       \* the counters wrap at Word (2^64)

ASSUME DrainAssumption ==
    /\ Capacity \in Nat \ {0}
    /\ MaxPush \in Nat
    /\ Word \in Nat \ {0}

VARIABLES
    accepted, taken, drained, lost,  \* DrainShared's counters
    failure,   \* failure.is_some()
    queue,     \* the channel
    sink,      \* what the file took, in order
    pushing,   \* the producer: the step of push it is at
    writing,   \* the writer: the step of its loop it is at
    record,    \* the record the writer has in hand
    waiting    \* waiting[w]: a request thread's wait

counters == <<accepted, taken, drained, lost>>
vars == <<counters, failure, queue, sink, pushing, writing, record, waiting>>

\* "dead": a push was refused, which the run turns fatal; "closed": dropped.
PushSteps == {"idle", "checked", "counted", "full", "dead", "closed"}

WriteSteps == {"recv", "took", "write", "wrote", "failing", "losing", "gone"}

\* The loads of health(), in its order, and the test of the wait's loop.
WaitSteps == {"idle", "accepted", "taken", "drained", "lost", "test", "read"}

\* target is the ordinal wait_through waits for; a wait_drained waits for all
\* it saw accepted.  The rest is the health the wait loaded last.
Waits == [step : WaitSteps, kind : {"through", "drained"}, target : Nat,
          accepted : Nat, taken : Nat, drained : Nat, lost : Nat,
          answer : {"none", "durable", "failed", "stalled", "drained"}]

NoWait == [step |-> "idle", kind |-> "drained", target |-> 0, accepted |-> 0,
           taken |-> 0, drained |-> 0, lost |-> 0, answer |-> "none"]

Init ==
    /\ accepted = 0 /\ taken = 0 /\ drained = 0 /\ lost = 0
    /\ failure = FALSE
    /\ queue = <<>> /\ sink = <<>>
    /\ pushing = "idle" /\ writing = "recv" /\ record = 0
    /\ waiting = [w \in Waiters |-> NoWait]

-----------------------------------------------------------------------------
(* push, and the drop of the drain                                         *)

\* The records push returned an ordinal for.
Queued == IF pushing \in {"counted", "full"} THEN accepted - 1 ELSE accepted

PushCheck ==
    /\ pushing = "idle"
    /\ accepted < MaxPush
    /\ pushing' = IF failure THEN "dead" ELSE "checked"
    /\ UNCHANGED <<counters, failure, queue, sink, writing, record, waiting>>

PushCount ==
    /\ pushing = "checked"
    /\ accepted' = accepted + 1
    /\ pushing' = "counted"
    /\ UNCHANGED <<taken, drained, lost, failure, queue, sink, writing, record,
                   waiting>>

PushSend ==
    /\ pushing = "counted"
    /\ IF Len(queue) < Capacity
       THEN queue' = Append(queue, accepted) /\ pushing' = "idle"
       ELSE queue' = queue /\ pushing' = "full"
    /\ UNCHANGED <<counters, failure, sink, writing, record, waiting>>

\* Mutant: a refused push keeps the count it borrowed.
RefusedKeepsCount == accepted

\* A refused push gives its count back.
RefusedCount == accepted - 1

PushRefused ==
    /\ pushing = "full"
    /\ accepted' = RefusedCount
    /\ pushing' = "dead"
    /\ UNCHANGED <<taken, drained, lost, failure, queue, sink, writing, record,
                   waiting>>

\* Drop closes the channel; it then joins the writer.
Close ==
    /\ pushing \in {"idle", "dead"}
    /\ pushing' = "closed"
    /\ UNCHANGED <<counters, failure, queue, sink, writing, record, waiting>>

-----------------------------------------------------------------------------
(* The writer thread                                                       *)

Recv ==
    /\ writing = "recv"
    /\ queue # <<>>
    /\ record' = Head(queue)
    /\ queue' = Tail(queue)
    /\ writing' = "took"
    /\ UNCHANGED <<counters, failure, sink, pushing, waiting>>

\* Mutant: the writer ends as soon as the channel is closed.
WriterEndsEarly ==
    /\ writing = "recv"
    /\ pushing = "closed"
    /\ writing' = "gone"
    /\ UNCHANGED <<counters, failure, queue, sink, pushing, record, waiting>>

\* recv fails: the channel is closed and empty.
WriterEnds ==
    /\ writing = "recv"
    /\ queue = <<>>
    /\ pushing = "closed"
    /\ writing' = "gone"
    /\ UNCHANGED <<counters, failure, queue, sink, pushing, record, waiting>>

\* Mutant: the writer writes on after a failure.
AfterTakeRetries == "write"

\* A recorded failure turns the standing queue into accounted loss.
AfterTake == IF failure THEN "losing" ELSE "write"

Take ==
    /\ writing = "took"
    /\ taken' = taken + 1
    /\ writing' = AfterTake
    /\ UNCHANGED <<accepted, drained, lost, failure, queue, sink, pushing,
                   record, waiting>>

\* The sink's write ends: the record is durable, or it failed or panicked.
WriteDone ==
    /\ writing = "write"
    /\ sink' = Append(sink, record)
    /\ writing' = "wrote"
    /\ UNCHANGED <<counters, failure, queue, pushing, record, waiting>>

\* Mutant: the loss is counted and no failure recorded.
WriteFailsSilently == "losing"

\* The failure is recorded before the loss is counted.
WriteFails == "failing"

WriteFailed ==
    /\ writing = "write"
    /\ writing' = WriteFails
    /\ UNCHANGED <<counters, failure, queue, sink, pushing, record, waiting>>

CountDrained ==
    /\ writing = "wrote"
    /\ drained' = drained + 1
    /\ writing' = "recv"
    /\ UNCHANGED <<accepted, taken, lost, failure, queue, sink, pushing, record,
                   waiting>>

RecordFailure ==
    /\ writing = "failing"
    /\ failure' = TRUE
    /\ writing' = "losing"
    /\ UNCHANGED <<counters, queue, sink, pushing, record, waiting>>

CountLost ==
    /\ writing = "losing"
    /\ lost' = lost + 1
    /\ writing' = "recv"
    /\ UNCHANGED <<accepted, taken, drained, failure, queue, sink, pushing,
                   record, waiting>>

-----------------------------------------------------------------------------
(* The waits: wait_through under attest, wait_drained                      *)

Waiting(w, step) ==
    /\ waiting[w].step = step
    /\ UNCHANGED <<counters, failure, queue, sink, pushing, writing, record>>

\* attest waits for an ordinal some push returned.
Attest(w, ordinal) ==
    /\ Waiting(w, "idle")
    /\ waiting' = [waiting EXCEPT ![w] =
           [NoWait EXCEPT !.step = "accepted", !.kind = "through",
                          !.target = ordinal]]

Flush(w) ==
    /\ Waiting(w, "idle")
    /\ waiting' = [waiting EXCEPT ![w] = [NoWait EXCEPT !.step = "accepted"]]

LoadAccepted(w) ==
    /\ Waiting(w, "accepted")
    /\ waiting' = [waiting EXCEPT ![w].accepted = accepted, ![w].step = "taken"]

LoadTaken(w) ==
    /\ Waiting(w, "taken")
    /\ waiting' = [waiting EXCEPT ![w].taken = taken, ![w].step = "drained"]

LoadDrained(w) ==
    /\ Waiting(w, "drained")
    /\ waiting' = [waiting EXCEPT ![w].drained = drained, ![w].step = "lost"]

LoadLost(w) ==
    /\ Waiting(w, "lost")
    /\ waiting' = [waiting EXCEPT ![w].lost = lost, ![w].step = "test"]

Target(h) == IF h.kind = "through" THEN h.target ELSE h.accepted

CaughtUp(h) == h.drained + h.lost >= Target(h)

\* Mutant: a record accounted lost passes for a durable one.
DurableOrLost(h) == CaughtUp(h)

Durable(h) == h.drained >= h.target

\* The wait's loop ends caught up; attest then tells a durable record from a
\* loss, for which it reads the recorded failure.
Caught(w) ==
    LET h == waiting[w] IN
    /\ Waiting(w, "test")
    /\ CaughtUp(h)
    /\ waiting' = [waiting EXCEPT
           ![w] = IF h.kind = "drained"
                  THEN [h EXCEPT !.step = "idle", !.answer = "drained"]
                  ELSE IF Durable(h)
                  THEN [h EXCEPT !.step = "idle", !.answer = "durable"]
                  ELSE [h EXCEPT !.step = "read"]]

\* The deadline passed first.
TimedOut(w) ==
    LET h == waiting[w] IN
    /\ Waiting(w, "test")
    /\ ~CaughtUp(h)
    /\ waiting' = [waiting EXCEPT
           ![w] = IF h.kind = "drained"
                  THEN [h EXCEPT !.step = "idle", !.answer = "stalled"]
                  ELSE [h EXCEPT !.step = "read"]]

Again(w) ==
    /\ Waiting(w, "test")
    /\ ~CaughtUp(waiting[w])
    /\ waiting' = [waiting EXCEPT ![w].step = "accepted"]

ReadFailure(w) ==
    /\ Waiting(w, "read")
    /\ waiting' = [waiting EXCEPT ![w].step = "idle",
                      ![w].answer = IF failure THEN "failed" ELSE "stalled"]

-----------------------------------------------------------------------------
Producer == PushCheck \/ PushCount \/ PushSend \/ PushRefused \/ Close

Writer == \/ Recv \/ WriterEnds \/ Take \/ WriteDone \/ WriteFailed
          \/ CountDrained \/ RecordFailure \/ CountLost

\* A wait's own steps, up to the loop's test.
Loads(w) == LoadAccepted(w) \/ LoadTaken(w) \/ LoadDrained(w) \/ LoadLost(w)

Wait(w) ==
    \/ \E ordinal \in 1..Queued : Attest(w, ordinal)
    \/ Flush(w)
    \/ Loads(w) \/ Caught(w) \/ TimedOut(w) \/ Again(w) \/ ReadFailure(w)

Next == Producer \/ Writer \/ \E w \in Waiters : Wait(w)

Spec == Init /\ [][Next]_vars

-----------------------------------------------------------------------------
(* Properties                                                              *)

TypeOK ==
    /\ accepted \in Nat /\ taken \in Nat /\ drained \in Nat /\ lost \in Nat
    /\ failure \in BOOLEAN
    /\ queue \in Seq(Nat) /\ sink \in Seq(Nat)
    /\ pushing \in PushSteps /\ writing \in WriteSteps /\ record \in Nat
    /\ waiting \in [Waiters -> Waits]

\* Records the writer took off the channel, and those it has still to account.
Received == IF writing = "took" THEN taken + 1 ELSE taken

InHand == IF writing \in {"write", "wrote", "failing", "losing"} THEN 1 ELSE 0

\* The channel holds the accepted records past the received ones, in order,
\* within the declared bound.
QueueSound ==
    /\ accepted >= (IF pushing \in {"counted", "full"} THEN 1 ELSE 0)
    /\ Len(queue) <= Capacity
    /\ Received + Len(queue) = Queued
    /\ \A i \in 1..Len(queue) : queue[i] = Received + i
    /\ writing \in {"took", "write", "wrote", "failing", "losing"}
          => record = Received

\* Every record taken is drained, lost or in the writer's hand, and nothing is
\* lost before a failure is recorded.
AccountSound ==
    /\ taken = drained + lost + InHand
    /\ (lost > 0 \/ writing = "losing") => failure
    /\ writing \in {"write", "wrote", "failing"} => ~failure

\* The file holds exactly the drained records, in push order and without a
\* gap: a failed write ends it at the last record that landed.
SinkSound ==
    /\ Len(sink) = (IF writing = "wrote" THEN drained + 1 ELSE drained)
    /\ \A i \in 1..Len(sink) : sink[i] = i

\* A wait's loads are of the past, and its verdict is one they support.
WaitSound ==
    \A w \in Waiters :
        /\ waiting[w].drained <= drained
        /\ waiting[w].lost <= lost
        /\ waiting[w].answer = "durable" => Durable(waiting[w])
        /\ waiting[w].step = "read"
              => waiting[w].kind = "through" /\ waiting[w].drained < waiting[w].target

\* The inductive invariant.
DrainInv == TypeOK /\ QueueSound /\ AccountSound /\ SinkSound /\ WaitSound

\* An answer that attests durability is honest: the record it waited for, and
\* everything pushed before it, is in the file in push order.
AttestHonest ==
    \A w \in Waiters :
        waiting[w].answer = "durable" =>
            \A i \in 1..waiting[w].target : i <= Len(sink) /\ sink[i] = i

\* A wait that ended because its record was accounted lost finds the error it
\* has to name: the failure is recorded before the loss that wakes it.
LossHasItsFailure ==
    \A w \in Waiters :
        (/\ waiting[w].step = "read"
         /\ CaughtUp(waiting[w])) => failure

\* Whatever the producer and the writer do between a wait's loads, the depth
\* its health reports is that of a queue within its bound, give or take the
\* record in the writer's hand and the one being pushed.
Depth(h) == (h.accepted - h.taken) % Word

DepthHonest ==
    \A w \in Waiters : waiting[w].step \in {"drained", "lost", "test"}
                           => Depth(waiting[w]) <= Capacity + 2

-----------------------------------------------------------------------------
(* Liveness                                                                *)

\* Threads run and a write ends, well or badly; a deadline is never relied on.
Fairness ==
    /\ WF_vars(PushCount \/ PushSend \/ PushRefused)
    /\ WF_vars(Writer)
    /\ \A w \in Waiters :
          WF_vars(Loads(w) \/ Caught(w) \/ Again(w) \/ ReadFailure(w))

FairSpec == Spec /\ Fairness

\* Every wait for durability ends of itself, refused pushes and failed writes
\* included.
WaitsEnd == \A w \in Waiters : waiting[w].step # "idle" ~> waiting[w].step = "idle"

\* A dropped drain leaves the file complete through the last accepted record,
\* or the failure that ended it.
DropCompletes ==
    pushing = "closed" ~> (writing = "gone" /\ (failure \/ Len(sink) = accepted))
=============================================================================
