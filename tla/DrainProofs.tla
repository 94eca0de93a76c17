---------------------------- MODULE DrainProofs ----------------------------
(* Proofs about Drain, for every capacity and any set of waiting threads.  *)
EXTENDS Drain, TLAPS

\* The drain starts with nothing accepted.
LEMMA InitHolds == Init => DrainInv
<1> SUFFICES ASSUME Init PROVE DrainInv
  OBVIOUS
<1>1. NoWait \in Waits
  BY DEF NoWait, Waits, WaitSteps
<1>2. TypeOK
  <2>1. waiting \in [Waiters -> Waits]
    BY <1>1 DEF Init
  <2>2. queue \in Seq(Nat) /\ sink \in Seq(Nat)
    BY DEF Init
  <2>3. /\ accepted \in Nat /\ taken \in Nat /\ drained \in Nat /\ lost \in Nat
        /\ failure \in BOOLEAN
        /\ pushing \in PushSteps /\ writing \in WriteSteps /\ record \in Nat
    BY DEF Init, PushSteps, WriteSteps
  <2> QED BY <2>1, <2>2, <2>3 DEF TypeOK
<1>3. QueueSound
  BY DrainAssumption DEF Init, QueueSound, Queued, Received
<1>4. AccountSound /\ SinkSound
  BY DEF Init, AccountSound, SinkSound, InHand
<1>5. WaitSound
  BY DEF Init, WaitSound, NoWait, Durable
<1> QED BY <1>2, <1>3, <1>4, <1>5 DEF DrainInv

\* push and drop keep the queue in push order and within its bound.
LEMMA ProducerKeeps ==
  ASSUME DrainInv, Producer
  PROVE  DrainInv'
<1> USE DrainAssumption DEF DrainInv, TypeOK, PushSteps, WriteSteps, counters
<1>1. CASE PushCheck
  BY <1>1 DEF PushCheck, QueueSound, AccountSound, SinkSound, WaitSound, Queued,
              Received, InHand, Durable
<1>2. CASE PushCount
  BY <1>2 DEF PushCount, QueueSound, AccountSound, SinkSound, WaitSound, Queued,
              Received, InHand, Durable
<1>3. CASE PushSend
  <2>1. CASE Len(queue) < Capacity
    <3>1. /\ queue' = Append(queue, accepted)
          /\ pushing' = "idle"
          /\ UNCHANGED <<counters, failure, sink, writing, record, waiting>>
      BY <1>3, <2>1 DEF PushSend
    <3>2. /\ queue' \in Seq(Nat)
          /\ Len(queue') = Len(queue) + 1
          /\ \A i \in 1..Len(queue) : queue'[i] = queue[i]
          /\ queue'[Len(queue) + 1] = accepted
      BY <3>1
    <3>3. accepted = Received + Len(queue) + 1 /\ Received \in Nat /\ Len(queue) \in Nat
      BY <1>3 DEF PushSend, QueueSound, Queued, Received
    <3>4. TypeOK'
      BY <3>1, <3>2
    <3>5. QueueSound'
      <4>1. Queued' = accepted /\ Received' = Received
        BY <3>1 DEF Queued, Received
      <4>2. \A i \in 1..Len(queue') : queue'[i] = Received + i
        <5>1. \A i \in 1..Len(queue) : queue[i] = Received + i
          BY DEF QueueSound
        <5> SUFFICES ASSUME NEW i \in 1..Len(queue') PROVE queue'[i] = Received + i
          OBVIOUS
        <5>2. CASE i = Len(queue) + 1
          BY <3>2, <3>3, <5>2
        <5>3. CASE i \in 1..Len(queue)
          BY <3>2, <5>1, <5>3
        <5> QED BY <3>2, <3>3, <5>2, <5>3
      <4> QED BY <2>1, <3>1, <3>2, <3>3, <4>1, <4>2 DEF QueueSound
    <3> QED
      BY <3>1, <3>4, <3>5 DEF AccountSound, SinkSound, WaitSound, InHand, Durable
  <2>2. CASE ~(Len(queue) < Capacity)
    BY <1>3, <2>2 DEF PushSend, QueueSound, Queued, Received, AccountSound,
                      SinkSound, WaitSound, InHand, Durable
  <2> QED BY <2>1, <2>2
<1>4. CASE PushRefused
  BY <1>4 DEF PushRefused, RefusedCount, QueueSound, AccountSound, SinkSound,
              WaitSound, Queued, Received, InHand, Durable
<1>5. CASE Close
  BY <1>5 DEF Close, QueueSound, AccountSound, SinkSound, WaitSound, Queued,
              Received, InHand, Durable
<1> QED BY <1>1, <1>2, <1>3, <1>4, <1>5 DEF Producer

\* The writer takes records in order, accounts each once and never writes
\* past a failure.
LEMMA WriterKeeps ==
  ASSUME DrainInv, Writer
  PROVE  DrainInv'
<1> USE DEF DrainInv, TypeOK, PushSteps, WriteSteps, counters
<1>1. CASE Recv
  <2>1. TypeOK'
    BY <1>1 DEF Recv
  <2>2. QueueSound'
    <3>1. /\ Len(queue) > 0
          /\ queue' = Tail(queue)
          /\ record' = queue[1]
          /\ Received' = Received + 1
          /\ Queued' = Queued
      BY <1>1 DEF Recv, Received, Queued
    <3>2. /\ Len(queue') = Len(queue) - 1
          /\ \A i \in 1..Len(queue') : queue'[i] = queue[i + 1]
      BY <3>1
    <3>3. Received \in Nat /\ record' = Received + 1
      BY <3>1 DEF QueueSound, Received
    <3> QED BY <1>1, <3>1, <3>2, <3>3, DrainAssumption DEF Recv, QueueSound
  <2>3. AccountSound' /\ SinkSound' /\ WaitSound'
    BY <1>1 DEF Recv, AccountSound, SinkSound, WaitSound, InHand, Durable
  <2> QED BY <2>1, <2>2, <2>3
<1>2. CASE WriterEnds
  BY <1>2 DEF WriterEnds, QueueSound, AccountSound, SinkSound, WaitSound, Queued,
              Received, InHand, Durable
<1>3. CASE Take
  BY <1>3 DEF Take, AfterTake, QueueSound, AccountSound, SinkSound, WaitSound,
              Queued, Received, InHand, Durable
<1>4. CASE WriteDone
  <2>1. TypeOK' /\ QueueSound' /\ AccountSound' /\ WaitSound'
    BY <1>4 DEF WriteDone, QueueSound, AccountSound, WaitSound, Queued, Received,
                InHand, Durable
  <2>2. SinkSound'
    <3>1. record = taken /\ taken = drained + 1 /\ Len(sink) = drained
      BY <1>4 DEF WriteDone, QueueSound, Received, AccountSound, InHand, SinkSound
    <3> QED BY <1>4, <3>1 DEF WriteDone, SinkSound
  <2> QED BY <2>1, <2>2
<1>5. CASE WriteFailed
  BY <1>5 DEF WriteFailed, WriteFails, QueueSound, AccountSound, SinkSound,
              WaitSound, Queued, Received, InHand, Durable
<1>6. CASE CountDrained
  BY <1>6 DEF CountDrained, QueueSound, AccountSound, SinkSound, WaitSound,
              Queued, Received, InHand, Durable, Waits
<1>7. CASE RecordFailure
  BY <1>7 DEF RecordFailure, QueueSound, AccountSound, SinkSound, WaitSound,
              Queued, Received, InHand, Durable
<1>8. CASE CountLost
  BY <1>8 DEF CountLost, QueueSound, AccountSound, SinkSound, WaitSound, Queued,
              Received, InHand, Durable, Waits
<1> QED BY <1>1, <1>2, <1>3, <1>4, <1>5, <1>6, <1>7, <1>8 DEF Writer

\* A wait reads the counters and changes none.
LEMMA WaitKeeps ==
  ASSUME DrainInv, NEW w \in Waiters, Wait(w)
  PROVE  DrainInv'
<1> USE DEF DrainInv
<1>1. /\ UNCHANGED <<counters, failure, queue, sink, pushing, writing, record>>
      /\ \E h : waiting' = [waiting EXCEPT ![w] = h]
  <2> USE DEF Waiting
  <2>1. CASE \E ordinal \in 1..Queued : Attest(w, ordinal)  BY <2>1 DEF Attest
  <2>2. CASE Flush(w)        BY <2>2 DEF Flush
  <2>3. CASE LoadAccepted(w) BY <2>3 DEF LoadAccepted
  <2>4. CASE LoadTaken(w)    BY <2>4 DEF LoadTaken
  <2>5. CASE LoadDrained(w)  BY <2>5 DEF LoadDrained
  <2>6. CASE LoadLost(w)     BY <2>6 DEF LoadLost
  <2>7. CASE Caught(w)       BY <2>7 DEF Caught
  <2>8. CASE TimedOut(w)     BY <2>8 DEF TimedOut
  <2>9. CASE Again(w)        BY <2>9 DEF Again
  <2>10. CASE ReadFailure(w) BY <2>10 DEF ReadFailure
  <2> QED BY <2>1, <2>2, <2>3, <2>4, <2>5, <2>6, <2>7, <2>8, <2>9, <2>10
          DEF Wait, Loads
<1>2. QueueSound' /\ AccountSound' /\ SinkSound'
  BY <1>1 DEF counters, QueueSound, AccountSound, SinkSound, Queued, Received, InHand
<1>3. /\ waiting'[w] \in Waits
      /\ waiting'[w].drained <= drained
      /\ waiting'[w].lost <= lost
      /\ waiting'[w].answer = "durable" => Durable(waiting'[w])
      /\ waiting'[w].step = "read"
            => waiting'[w].kind = "through" /\ waiting'[w].drained < waiting'[w].target
  <2> DEFINE h == waiting[w]
  <2> DEFINE Good(g) == /\ g \in Waits
                        /\ g.drained <= drained
                        /\ g.lost <= lost
                        /\ g.answer = "durable" => Durable(g)
                        /\ g.step = "read" => g.kind = "through" /\ g.drained < g.target
  <2>0. /\ Good(h)
        /\ waiting \in [Waiters -> Waits]
        /\ accepted \in Nat /\ taken \in Nat /\ drained \in Nat /\ lost \in Nat
    BY DEF TypeOK, WaitSound
  <2> SUFFICES Good(waiting'[w])
    OBVIOUS
  <2> USE DEF Waits, WaitSteps, Durable
  <2>1. CASE \E ordinal \in 1..Queued : Attest(w, ordinal)
    <3>1. PICK ordinal \in 1..Queued : Attest(w, ordinal)
      BY <2>1
    <3>2. ordinal \in Nat
      BY <2>0 DEF Queued
    <3>3. waiting'[w] = [NoWait EXCEPT !.step = "accepted", !.kind = "through",
                                       !.target = ordinal]
      BY <2>0, <3>1 DEF Attest
    <3>4. /\ waiting'[w].drained = 0 /\ waiting'[w].lost = 0
          /\ waiting'[w].answer = "none" /\ waiting'[w].step = "accepted"
      BY <3>3 DEF NoWait
    <3>5. waiting'[w] \in Waits
      <4>1. [NoWait EXCEPT !.step = "accepted"] \in Waits
        BY DEF NoWait
      <4>2. [NoWait EXCEPT !.step = "accepted", !.kind = "through"] \in Waits
        BY <4>1
      <4> QED BY <3>2, <3>3, <4>2
    <3> QED BY <2>0, <3>4, <3>5
  <2>2. CASE Flush(w)
    <3>1. waiting'[w] = [NoWait EXCEPT !.step = "accepted"]
      BY <2>0, <2>2 DEF Flush
    <3>2. waiting'[w] \in Waits
      BY <3>1 DEF NoWait
    <3> QED BY <2>0, <3>1, <3>2 DEF NoWait
  <2>3. CASE LoadAccepted(w)
    <3>1. waiting'[w] = [h EXCEPT !.accepted = accepted, !.step = "taken"]
      BY <2>0, <2>3 DEF LoadAccepted
    <3> QED BY <2>0, <3>1
  <2>4. CASE LoadTaken(w)
    <3>1. waiting'[w] = [h EXCEPT !.taken = taken, !.step = "drained"]
      BY <2>0, <2>4 DEF LoadTaken
    <3> QED BY <2>0, <3>1
  <2>5. CASE LoadDrained(w)
    <3>1. /\ h.step = "drained"
          /\ waiting'[w] = [h EXCEPT !.drained = drained, !.step = "lost"]
      BY <2>0, <2>5 DEF LoadDrained, Waiting
    <3>2. waiting'[w] \in Waits
      BY <2>0, <3>1
    <3> QED BY <2>0, <3>1, <3>2
  <2>6. CASE LoadLost(w)
    <3>1. waiting'[w] = [h EXCEPT !.lost = lost, !.step = "test"]
      BY <2>0, <2>6 DEF LoadLost
    <3>2. waiting'[w] \in Waits
      BY <2>0, <3>1
    <3> QED BY <2>0, <3>1, <3>2
  <2>7. CASE Caught(w)
    <3>1. waiting'[w] = IF h.kind = "drained"
                        THEN [h EXCEPT !.step = "idle", !.answer = "drained"]
                        ELSE IF Durable(h)
                        THEN [h EXCEPT !.step = "idle", !.answer = "durable"]
                        ELSE [h EXCEPT !.step = "read"]
      BY <2>0, <2>7 DEF Caught
    <3>2. CASE h.kind = "drained"
      BY <2>0, <3>1, <3>2
    <3>3. CASE h.kind # "drained" /\ Durable(h)
      BY <2>0, <3>1, <3>3
    <3>4. CASE h.kind # "drained" /\ ~Durable(h)
      <4>1. waiting'[w] = [h EXCEPT !.step = "read"]
        BY <3>1, <3>4
      <4>2. waiting'[w] \in Waits /\ h.kind = "through" /\ h.drained < h.target
        BY <2>0, <3>4, <4>1
      <4> QED BY <2>0, <4>1, <4>2
    <3> QED BY <3>2, <3>3, <3>4
  <2>8. CASE TimedOut(w)
    <3>1. /\ ~CaughtUp(h)
          /\ waiting'[w] = IF h.kind = "drained"
                           THEN [h EXCEPT !.step = "idle", !.answer = "stalled"]
                           ELSE [h EXCEPT !.step = "read"]
      BY <2>0, <2>8 DEF TimedOut
    <3>2. CASE h.kind = "drained"
      BY <2>0, <3>1, <3>2
    <3>3. CASE h.kind # "drained"
      <4>1. waiting'[w] = [h EXCEPT !.step = "read"]
        BY <3>1, <3>3
      <4>2. waiting'[w] \in Waits /\ h.kind = "through"
        BY <2>0, <3>3, <4>1
      <4>3. h.drained < h.target
        BY <2>0, <3>1, <4>2 DEF CaughtUp, Target
      <4> QED BY <2>0, <4>1, <4>2, <4>3
    <3> QED BY <3>2, <3>3
  <2>9. CASE Again(w)
    <3>1. waiting'[w] = [h EXCEPT !.step = "accepted"]
      BY <2>0, <2>9 DEF Again
    <3> QED BY <2>0, <3>1
  <2>10. CASE ReadFailure(w)
    <3>1. waiting'[w] = [h EXCEPT !.step = "idle",
                            !.answer = IF failure THEN "failed" ELSE "stalled"]
      BY <2>0, <2>10 DEF ReadFailure
    <3> QED BY <2>0, <3>1
  <2> QED BY <2>1, <2>2, <2>3, <2>4, <2>5, <2>6, <2>7, <2>8, <2>9, <2>10
          DEF Wait, Loads
<1>4. TypeOK' /\ WaitSound'
  BY <1>1, <1>3 DEF TypeOK, WaitSound, counters
<1> QED BY <1>2, <1>4

-----------------------------------------------------------------------------
\* The drain's inductive invariant: queue, counters and file agree on push
\* order at every step of every thread (drain.rs, push and the writer loop).
THEOREM DrainIsSound == Spec => []DrainInv
<1>1. Init => DrainInv
  BY InitHolds
<1>2. DrainInv /\ [Next]_vars => DrainInv'
  <2> SUFFICES ASSUME DrainInv, [Next]_vars PROVE DrainInv'
    OBVIOUS
  <2>1. CASE Producer  BY <2>1, ProducerKeeps
  <2>2. CASE Writer    BY <2>2, WriterKeeps
  <2>3. CASE \E w \in Waiters : Wait(w)  BY <2>3, WaitKeeps
  <2>4. CASE UNCHANGED vars
    BY <2>4 DEF vars, counters, DrainInv, TypeOK, QueueSound, AccountSound,
                SinkSound, WaitSound, Queued, Received, InHand
  <2> QED BY <2>1, <2>2, <2>3, <2>4 DEF Next
<1> QED BY <1>1, <1>2, PTL DEF Spec

\* An attested record, and all pushed before it, is in the file: StateSink's
\* attest never answers for what the file did not take.
THEOREM AttestsAreHonest == Spec => []AttestHonest
<1>1. DrainInv => AttestHonest
  <2> SUFFICES ASSUME DrainInv, NEW w \in Waiters, waiting[w].answer = "durable",
                      NEW i \in 1..waiting[w].target
               PROVE  i <= Len(sink) /\ sink[i] = i
    BY DEF AttestHonest
  <2>1. waiting[w].target <= drained /\ waiting[w].target \in Nat
    BY DEF DrainInv, TypeOK, Waits, WaitSound, Durable
  <2> QED BY <2>1 DEF DrainInv, TypeOK, SinkSound
<1> QED BY <1>1, DrainIsSound, PTL

\* A wait woken by a loss reads a recorded failure (drain.rs: "The failure
\* lands first").
THEOREM LossesAreNamed == Spec => []LossHasItsFailure
<1>1. DrainInv => LossHasItsFailure
  BY DEF DrainInv, TypeOK, Waits, AccountSound, WaitSound, LossHasItsFailure,
         CaughtUp, Target
<1> QED BY <1>1, DrainIsSound, PTL
=============================================================================
