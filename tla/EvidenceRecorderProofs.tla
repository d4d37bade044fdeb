------------------------- MODULE EvidenceRecorderProofs -------------------------
(* Proofs, for every capacity and every number of records, of the recorder's    *)
(* safety properties and of its refinement of EvidenceLog.                       *)
EXTENDS EvidenceRecorder, SequenceTheorems, TLAPS

--------------------------------------------------------------------------------
(* The inductive invariant. Each conjunct relates neighbours only: an item of   *)
(* the queue to the next one, the oldest to the writer, the newest to the        *)
(* producer. No conjunct counts the records of the queue.                        *)

Healthy == wpc \in {"get", "emit", "write", "compare", "flush"}

\* The number of the first record submitted after an item.
After(i) == IF i.kind = "record" THEN i.n + 1 ELSE i.n

\* The number of the record the writer has not taken yet.
Taken == IF wpc \in {"emit", "write"} THEN Len(stream) + 1 ELSE Len(stream)

QueueOrder ==
    /\ \A i \in 1 .. Len(queue) :
          /\ queue[i].kind \in {"record", "flush", "stop"}
          /\ i < Len(queue) => queue[i + 1].n = After(queue[i])
          /\ i = Len(queue) => After(queue[i]) = Len(accepted)
          /\ queue[i].kind = "record" =>
                queue[i].n < Len(accepted) /\ queue[i].context = accepted[queue[i].n + 1]
    /\ Healthy /\ Len(queue) > 0 => queue[1].n = Taken
    /\ Healthy /\ Len(queue) = 0 => Taken = Len(accepted)

\* The stop marker is the last item, and its submission the producer's last.
StopIsLast ==
    /\ \A i \in 1 .. Len(queue) :
          queue[i].kind = "stop" =>
              i = Len(queue) /\ call = "stop"
              /\ pc \in {"verify", "join", "joined", "release", "done"}
    /\ item.kind = "stop" =>
          Len(queue) = 0 /\ call = "stop"
          /\ pc \in {"verify", "join", "joined", "release", "done"}

WriterInv ==
    /\ adapterSeq = Len(stream)
    /\ wpc \in {"emit", "write"} =>
          /\ item.kind = "record" /\ item.n = Len(stream)
          /\ item.n < Len(accepted) /\ item.context = accepted[item.n + 1]
    /\ wpc = "compare" => item.kind = "record" /\ item.n = Len(stream) - 1
    /\ wpc = "flush" => item.kind \in {"flush", "stop"} /\ item.n <= Len(stream)
    /\ wpc = "get" => item.kind # "stop"
    /\ wpc = "get" /\ item.kind = "flush" => item.n <= flushed
    /\ flushed <= Len(stream)
    /\ error => wpc \in {"finally", "dead"}
    /\ torn => wpc = "raised" \/ error
    /\ wpc \in {"finally", "dead"} /\ ~error =>
          item.kind = "stop" /\ Len(stream) = Len(accepted) /\ flushed = Len(stream)

InRecord == call = "record" /\ pc \in {"check", "put", "blocked", "timed", "verify", "advance"}

InFlush == call = "flush" /\ pc \in {"check", "put", "blocked", "timed", "verify"}

ProducerInv ==
    /\ pc = "idle" => ~closed
    /\ sequence <= Len(accepted)
    /\ InRecord \/ InFlush => ~closed /\ ~interrupted
    /\ pc \in {"idle", "check"} /\ ~interrupted /\ ~error /\ ~closed => Len(accepted) = sequence
    /\ InRecord /\ pc \in {"put", "blocked", "timed"} => Len(accepted) = sequence
    /\ InFlush /\ pc # "check" => Len(accepted) = sequence
    /\ InRecord /\ pc \in {"verify", "advance"} => Len(accepted) = sequence + 1
    /\ InRecord => /\ cur.kind = "record" /\ cur.n = sequence
                   /\ cur.context >= -1 /\ cur.context < sequence
    /\ pc = "verify" => call \in {"record", "flush", "stop"}
    /\ pc \in {"check", "put", "blocked", "timed"} =>
          /\ call \in {"record", "flush", "stop"} /\ cur.kind = call
          /\ call # "record" => cur.n = Len(accepted)
    /\ pc = "advance" => call = "record"
    /\ pc \in {"join", "joined", "release", "entered", "done"} => call = "stop"
    /\ pc = "entered" => cur.kind = "stop" /\ cur.n = Len(accepted)
    /\ pc \notin {"idle"} /\ call = "stop" => closed

CloseInv ==
    /\ pc = "joined" => wpc = "dead"
    /\ raising => pc \in {"release", "done"} /\ (error \/ interrupted)
    /\ pc = "release" /\ ~raising => wpc = "dead" /\ ~error
    /\ outcome # "open" <=> pc = "done"
    /\ outcome = "clean" => wpc = "dead" /\ ~error
    /\ gcEnabled => pc = "done" /\ (interrupted \/ wpc \in {"finally", "dead"})

ContextInv == \A i \in 1 .. Len(accepted) : -1 <= accepted[i] /\ accepted[i] < i - 1

IInv == /\ TypeOK /\ QueueOrder /\ StopIsLast /\ WriterInv
        /\ ProducerInv /\ CloseInv /\ ContextInv /\ StoredInOrder

--------------------------------------------------------------------------------
(* Initial states.                                                              *)

\* A recorder just constructed satisfies the invariant.
LEMMA InitInv == Init => IInv
<1> SUFFICES ASSUME Init PROVE IInv
  OBVIOUS
<1> USE DEF Init, Marker, NoContext
<1>1. TypeOK
  <2>1. cur \in Items /\ item \in Items /\ call \in Kinds BY DEF Items, Kinds
  <2>2. queue \in Seq(Items) /\ Len(queue) <= Capacity BY ConstantsAssumption
  <2>3. stream \in Seq([seq : Nat, context : Int]) /\ accepted \in Seq(Int) OBVIOUS
  <2> QED BY <2>1, <2>2, <2>3 DEF TypeOK
<1>2. QueueOrder BY DEF QueueOrder, Healthy, Taken
<1>3. StopIsLast /\ WriterInv BY DEF StopIsLast, WriterInv
<1>4. ProducerInv /\ CloseInv BY DEF ProducerInv, CloseInv, InRecord, InFlush
<1>5. ContextInv /\ StoredInOrder BY DEF ContextInv, StoredInOrder
<1> QED BY <1>1, <1>2, <1>3, <1>4, <1>5 DEF IInv

--------------------------------------------------------------------------------
(* Steps of the producer that leave the queue alone.                            *)

QuietProducer == \/ \E c \in ReturnedIds \union {NoContext} : Emit(c)
                 \/ SampleComplete \/ Close \/ EnterTry \/ CheckFails \/ CheckPasses
                 \/ PutFull \/ Advance \/ Join \/ Release
                 \/ InterruptEmit \/ InterruptDrain \/ InterruptRelease

\* What they leave alone keeps everything that is said of the queue, the writer and
\* the output.
LEMMA QuietFrame ==
    ASSUME IInv, UNCHANGED <<queue, writerVars, adapterVars, accepted>>
    PROVE  (QueueOrder /\ WriterInv /\ ContextInv /\ StoredInOrder)'
  BY DEF IInv, QueueOrder, WriterInv, ContextInv, StoredInOrder, writerVars, adapterVars,
         Healthy, Taken, After, Frame

\* They keep the type, too.
LEMMA QuietTypes ==
    ASSUME IInv, QuietProducer
    PROVE  TypeOK'
<1> USE DEF IInv, TypeOK, Items, Kinds, writerVars, adapterVars, vars
<1>1. ASSUME NEW c \in ReturnedIds \union {NoContext}, Emit(c) PROVE TypeOK'
  BY <1>1 DEF Emit, Record, ReturnedIds, NoContext
<1>2. CASE SampleComplete BY <1>2 DEF SampleComplete, Marker, NoContext
<1>3. CASE Close BY <1>3 DEF Close, Marker, NoContext
<1>4. CASE EnterTry BY <1>4 DEF EnterTry
<1>5. CASE CheckFails BY <1>5 DEF CheckFails, Raise
<1>6. CASE CheckPasses BY <1>6 DEF CheckPasses, AfterPut
<1>7. CASE PutFull BY <1>7 DEF PutFull
<1>8. CASE Advance BY <1>8 DEF Advance
<1>9. CASE Join BY <1>9 DEF Join
<1>10. CASE Release BY <1>10 DEF Release
<1>11. CASE InterruptEmit BY <1>11 DEF InterruptEmit, Interrupt
<1>12. CASE InterruptDrain BY <1>12 DEF InterruptDrain, Interrupt
<1>13. CASE InterruptRelease BY <1>13 DEF InterruptRelease, Interrupt
<1> QED BY <1>1, <1>2, <1>3, <1>4, <1>5, <1>6, <1>7, <1>8, <1>9, <1>10, <1>11, <1>12,
           <1>13 DEF QuietProducer

\* The producer's steps that leave the queue alone preserve the invariant.
LEMMA QuietStep ==
    ASSUME IInv, QuietProducer
    PROVE  (StopIsLast /\ ProducerInv /\ CloseInv)'
<1> USE DEF IInv, TypeOK, StopIsLast, ProducerInv, CloseInv, InRecord, InFlush, writerVars, adapterVars
<1>1. ASSUME NEW c \in ReturnedIds \union {NoContext}, Emit(c)
      PROVE (StopIsLast /\ ProducerInv /\ CloseInv)'
  BY <1>1 DEF Emit, Record, ReturnedIds, NoContext
<1>2. CASE SampleComplete BY <1>2 DEF SampleComplete, Marker, NoContext
<1>3. CASE Close BY <1>3 DEF Close, Marker, NoContext
<1>4. CASE EnterTry BY <1>4 DEF EnterTry
<1>5. CASE CheckFails BY <1>5 DEF CheckFails, Raise, WriterInv
<1>6. CASE CheckPasses
  <2> USE <1>6 DEF CheckPasses
  <2>1. CASE pc = "check" BY <2>1
  <2>2. CASE pc = "blocked" BY <2>2
  <2>3. CASE pc = "verify"
    <3>1. call \in {"record", "flush", "stop"} BY <2>3
    <3>2. CASE call = "record" BY <2>3, <3>2 DEF AfterPut
    <3>3. CASE call = "flush" BY <2>3, <3>3 DEF AfterPut
    <3>4. CASE call = "stop" BY <2>3, <3>4 DEF AfterPut
    <3> QED BY <3>1, <3>2, <3>3, <3>4
  <2>4. CASE pc = "joined" BY <2>4
  <2> QED BY <2>1, <2>2, <2>3, <2>4
<1>7. CASE PutFull BY <1>7 DEF PutFull
<1>8. CASE Advance BY <1>8 DEF Advance
<1>9. CASE Join BY <1>9 DEF Join
<1>10. CASE Release BY <1>10 DEF Release, WriterInv
<1>11. CASE InterruptEmit BY <1>11 DEF InterruptEmit, Interrupt
<1>12. CASE InterruptDrain BY <1>12 DEF InterruptDrain, Interrupt
<1>13. CASE InterruptRelease BY <1>13 DEF InterruptRelease, Interrupt
<1> QED BY <1>1, <1>2, <1>3, <1>4, <1>5, <1>6, <1>7, <1>8, <1>9, <1>10, <1>11, <1>12,
           <1>13 DEF QuietProducer

--------------------------------------------------------------------------------
(* The one step of the producer that changes the queue.                         *)

\* Putting an item on the queue preserves the invariant: the item continues the
\* numbering of the newest one, or of the writer if the queue was empty.
LEMMA PutStep ==
    ASSUME IInv, Put
    PROVE  IInv'
<1> USE DEF Put, Enqueue, writerVars, adapterVars
<1> DEFINE last == Len(queue) + 1
<1>1. /\ queue' = Append(queue, cur) /\ queue' \in Seq(Items)
      /\ Len(queue') = last /\ queue'[last] = cur
      /\ \A i \in 1 .. Len(queue) : queue'[i] = queue[i]
  BY DEF IInv, TypeOK
<1>2. /\ accepted \in Seq(Int) /\ accepted' \in Seq(Int)
      /\ Len(accepted') = IF call = "record" THEN Len(accepted) + 1 ELSE Len(accepted)
      /\ \A i \in 1 .. Len(accepted) : accepted'[i] = accepted[i]
      /\ call = "record" => accepted'[Len(accepted) + 1] = cur.context
  BY DEF IInv, TypeOK, Items
<1>3. /\ cur \in Items /\ cur.kind = call /\ call \in {"record", "flush", "stop"}
      /\ cur.n = Len(accepted)
      /\ call = "record" => cur.context >= -1 /\ cur.context < Len(accepted)
                            /\ sequence = Len(accepted)
  BY DEF IInv, TypeOK, ProducerInv, InRecord, InFlush
<1>4. TypeOK'
  <2>1. Len(queue') <= Capacity
    BY <1>1, ConstantsAssumption DEF IInv, TypeOK
  <2> QED BY <1>1, <1>2, <2>1 DEF IInv, TypeOK
<1>5. QueueOrder'
  <2>1. ASSUME NEW i \in 1 .. Len(queue')
        PROVE  /\ queue'[i].kind \in {"record", "flush", "stop"}
               /\ i < Len(queue') => queue'[i + 1].n = After(queue'[i])
               /\ i = Len(queue') => After(queue'[i]) = Len(accepted')
               /\ queue'[i].kind = "record" =>
                     /\ queue'[i].n < Len(accepted')
                     /\ queue'[i].context = accepted'[queue'[i].n + 1]
    <3>1. CASE i = last
      BY <3>1, <1>1, <1>2, <1>3 DEF After
    <3>2. CASE i < last
      <4>1. i \in 1 .. Len(queue) /\ queue'[i] = queue[i] /\ queue[i] \in Items
        BY <3>2, <1>1 DEF IInv, TypeOK
      <4>2. i < Len(queue) => queue'[i + 1] = queue[i + 1]
        BY <4>1, <1>1 DEF IInv, TypeOK
      <4>3. i = Len(queue) => queue'[i + 1] = cur
        BY <4>1, <1>1 DEF IInv, TypeOK
      <4>4. queue[i].kind = "record" => queue[i].n + 1 \in 1 .. Len(accepted)
        BY <4>1, <1>2 DEF IInv, QueueOrder, Items
      <4>5. queue'[i].kind = "record" =>
               queue'[i].n < Len(accepted') /\ queue'[i].context = accepted'[queue'[i].n + 1]
        <5>1. queue[i].kind = "record" =>
                 queue[i].n < Len(accepted) /\ queue[i].context = accepted[queue[i].n + 1]
          BY <4>1 DEF IInv, QueueOrder
        <5>2. Len(accepted) <= Len(accepted') /\ Len(accepted) \in Nat /\ Len(accepted') \in Nat
          BY <1>2
        <5>3. queue[i].n \in Nat
          BY <4>1 DEF Items
        <5> QED BY <4>1, <4>4, <5>1, <5>2, <5>3, <1>2
      <4>6. i < Len(queue) => queue[i + 1].n = After(queue[i])
        BY <4>1 DEF IInv, QueueOrder
      <4>7. i = Len(queue) => After(queue[i]) = cur.n
        BY <4>1, <1>3 DEF IInv, QueueOrder
      <4>8. queue'[i + 1].n = After(queue'[i])
        BY <4>1, <4>2, <4>3, <4>6, <4>7 DEF IInv, TypeOK
      <4>9. queue'[i].kind \in {"record", "flush", "stop"}
        BY <4>1 DEF IInv, QueueOrder
      <4>10. i # Len(queue')
        BY <3>2, <4>1, <1>1
      <4> QED BY <4>5, <4>8, <4>9, <4>10
    <3>3. i \in Int /\ i <= last
      BY <1>1 DEF IInv, TypeOK
    <3>4. last \in Int
      BY <1>1 DEF IInv, TypeOK
    <3>5. i = last \/ i < last
      BY <3>3, <3>4
    <3> QED BY <3>1, <3>2, <3>5
  <2>2. Healthy' => queue'[1].n = Taken'
    BY <1>1, <1>3 DEF IInv, TypeOK, QueueOrder, Healthy, Taken
  <2>3. Len(queue') > 0
    BY <1>1 DEF IInv, TypeOK
  <2>4. \A i \in 1 .. Len(queue') :
          /\ queue'[i].kind \in {"record", "flush", "stop"}
          /\ i < Len(queue') => queue'[i + 1].n = After(queue'[i])
          /\ i = Len(queue') => After(queue'[i]) = Len(accepted')
          /\ queue'[i].kind = "record" =>
                queue'[i].n < Len(accepted') /\ queue'[i].context = accepted'[queue'[i].n + 1]
    BY <2>1
  <2> HIDE DEF Put, Enqueue
  <2>5. ~(Len(queue') = 0)
    BY <1>1, <2>3
  <2> QED BY <2>2, <2>4, <2>5 DEF QueueOrder, After
<1>6. StopIsLast'
  <2>1. \A i \in 1 .. Len(queue) : queue[i].kind # "stop"
    BY DEF IInv, TypeOK, StopIsLast
  <2>2. item.kind # "stop"
    BY DEF IInv, StopIsLast
  <2> QED BY <1>1, <1>3, <2>1, <2>2 DEF IInv, TypeOK, StopIsLast
<1>7. WriterInv'
  <2>1. wpc \in {"finally", "dead"} => error
    BY DEF IInv, WriterInv, StopIsLast
  <2>2. wpc \in {"emit", "write"} => item.context = accepted'[item.n + 1] /\ item.n < Len(accepted')
    <3>1. wpc \in {"emit", "write"} => item.n + 1 \in 1 .. Len(accepted)
      <4>1. item.n \in Nat /\ Len(accepted) \in Nat
        BY <1>2 DEF IInv, TypeOK, Items
      <4>2. wpc \in {"emit", "write"} => item.n < Len(accepted)
        BY DEF IInv, WriterInv
      <4> HIDE DEF Put, Enqueue
      <4> QED BY <4>1, <4>2
    <3>2. wpc \in {"emit", "write"} => item.context = accepted[item.n + 1]
      BY DEF IInv, WriterInv
    <3>3. wpc \in {"emit", "write"} => item.n < Len(accepted)
      BY DEF IInv, WriterInv
    <3>4. item.n \in Nat /\ Len(accepted) \in Nat
      BY <1>2 DEF IInv, TypeOK, Items
    <3> HIDE DEF Put, Enqueue
    <3> QED BY <3>1, <3>2, <3>3, <3>4, <1>2
  <2> QED BY <2>1, <2>2 DEF IInv, WriterInv
<1>8. ProducerInv'
  BY <1>2, <1>3 DEF IInv, TypeOK, ProducerInv, InRecord, InFlush
<1>9. CloseInv'
  BY DEF IInv, TypeOK, CloseInv
<1>10. ContextInv'
  BY <1>2, <1>3 DEF IInv, TypeOK, ContextInv, Items
<1>11. StoredInOrder'
  BY <1>2 DEF IInv, TypeOK, StoredInOrder, Frame
<1> QED BY <1>4, <1>5, <1>6, <1>7, <1>8, <1>9, <1>10, <1>11 DEF IInv

--------------------------------------------------------------------------------
(* Steps of the writer.                                                         *)

\* Taking the oldest item preserves the invariant: it is the one the writer expects.
LEMMA GetStep ==
    ASSUME IInv, Get
    PROVE  IInv'
<1> USE DEF Get, producerVars, adapterVars
<1>1. /\ Len(queue) \in Nat /\ Len(queue) >= 1 /\ item' = queue[1] /\ queue[1] \in Items
      /\ queue' \in Seq(Items) /\ Len(queue') = Len(queue) - 1
      /\ \A i \in 1 .. Len(queue') : queue'[i] = queue[i + 1]
  BY DEF IInv, TypeOK
<1>2. queue[1].n = Len(stream) /\ queue[1].kind \in {"record", "flush", "stop"}
  <2>1. 1 \in 1 .. Len(queue) BY <1>1
  <2>2. Healthy /\ Taken = Len(stream) BY DEF Healthy, Taken
  <2> QED BY <2>1, <2>2 DEF IInv, QueueOrder
<1>3. TypeOK'
  BY <1>1, ConstantsAssumption DEF IInv, TypeOK
<1>4. QueueOrder'
  <2>1. ASSUME NEW i \in 1 .. Len(queue')
        PROVE  /\ queue'[i].kind \in {"record", "flush", "stop"}
               /\ i < Len(queue') => queue'[i + 1].n = After(queue'[i])
               /\ i = Len(queue') => After(queue'[i]) = Len(accepted)
               /\ queue'[i].kind = "record" =>
                     /\ queue'[i].n < Len(accepted)
                     /\ queue'[i].context = accepted[queue'[i].n + 1]
    <3>1. i + 1 \in 1 .. Len(queue) /\ queue'[i] = queue[i + 1]
      BY <1>1 DEF IInv, TypeOK
    <3>2. i < Len(queue') => queue'[i + 1] = queue[(i + 1) + 1] /\ i + 1 < Len(queue)
      BY <1>1 DEF IInv, TypeOK
    <3>3. i = Len(queue') => i + 1 = Len(queue)
      BY <1>1
    <3> QED BY <3>1, <3>2, <3>3 DEF IInv, QueueOrder
  <2>2. Healthy' /\ Len(queue') > 0 => queue'[1].n = Taken'
    <3>1. Len(queue') > 0 => queue'[1].n = After(queue[1])
      <4>1. Len(queue') > 0 => 1 \in 1 .. Len(queue) /\ 1 < Len(queue) /\ queue'[1] = queue[1 + 1]
        BY <1>1
      <4> QED BY <4>1 DEF IInv, QueueOrder
    <3> QED BY <3>1, <1>1, <1>2 DEF Taken, After
  <2>3. Healthy' /\ Len(queue') = 0 => Taken' = Len(accepted)
    <3>1. Len(queue') = 0 => 1 \in 1 .. Len(queue) /\ 1 = Len(queue)
      BY <1>1
    <3>2. Len(queue') = 0 => After(queue[1]) = Len(accepted)
      BY <3>1 DEF IInv, QueueOrder
    <3> QED BY <3>2, <1>1, <1>2 DEF Taken, After
  <2> QED BY <2>1, <2>2, <2>3 DEF QueueOrder, After
<1>5. StopIsLast'
  <2>1. ASSUME NEW i \in 1 .. Len(queue'), queue'[i].kind = "stop"
        PROVE  /\ i = Len(queue') /\ call = "stop"
               /\ pc \in {"verify", "join", "joined", "release", "done"}
    <3>1. i + 1 \in 1 .. Len(queue) /\ queue'[i] = queue[i + 1]
      BY <1>1
    <3>2. queue[i + 1].kind = "stop"
      BY <2>1, <3>1
    <3>3. /\ i + 1 = Len(queue) /\ call = "stop"
          /\ pc \in {"verify", "join", "joined", "release", "done"}
      BY <3>1, <3>2 DEF IInv, StopIsLast
    <3> QED BY <3>3, <1>1
  <2>2. queue[1].kind = "stop" =>
          /\ 1 = Len(queue) /\ call = "stop"
          /\ pc \in {"verify", "join", "joined", "release", "done"}
    <3>1. 1 \in 1 .. Len(queue)
      BY <1>1
    <3> QED BY <3>1 DEF IInv, StopIsLast
  <2>3. item'.kind = "stop" => Len(queue') = 0
    BY <2>2, <1>1
  <2>4. pc' = pc /\ call' = call
    OBVIOUS
  <2> QED BY <2>1, <2>2, <2>3, <2>4, <1>1 DEF StopIsLast
<1>6. WriterInv'
  <2>1. queue[1].kind = "record" =>
           queue[1].n < Len(accepted) /\ queue[1].context = accepted[queue[1].n + 1]
    <3>1. 1 \in 1 .. Len(queue)
      BY <1>1
    <3> QED BY <3>1 DEF IInv, QueueOrder
  <2>2. ~error /\ ~torn
    BY DEF IInv, WriterInv
  <2> QED BY <1>1, <1>2, <2>1, <2>2 DEF IInv, TypeOK, WriterInv
<1>7. ProducerInv' /\ CloseInv'
  BY DEF IInv, ProducerInv, InRecord, InFlush, CloseInv
<1>8. ContextInv' /\ StoredInOrder'
  BY DEF IInv, ContextInv, StoredInOrder, Frame
<1> QED BY <1>3, <1>4, <1>5, <1>6, <1>7, <1>8 DEF IInv

\* The steps of the writer that neither take an item nor complete a frame.
QuietWriter == \/ EncodeFails \/ BeginWrite \/ WriteFails \/ Compare
               \/ FinishFlush \/ FlushFails \/ RecordError \/ Exit

\* The writer's steps that neither take an item nor complete a frame preserve the
\* invariant; a write or a flush that fails, and the error made visible, among them.
LEMMA QuietWriterStep ==
    ASSUME IInv, QuietWriter
    PROVE  IInv'
<1>1. UNCHANGED <<producerVars, queue, item, adapterSeq, stream, accepted>>
  BY DEF QuietWriter, EncodeFails, BeginWrite, WriteFails, Compare, FinishFlush, FlushFails,
         RecordError, Exit, adapterVars
<1> USE <1>1 DEF producerVars
<1>2. ProducerInv' /\ ContextInv' /\ StoredInOrder' /\ StopIsLast'
  <2>1. error => error'
    BY DEF QuietWriter, EncodeFails, BeginWrite, WriteFails, Compare, FinishFlush, FlushFails,
           RecordError, Exit
  <2> QED BY <2>1 DEF IInv, ProducerInv, InRecord, InFlush, ContextInv, StoredInOrder, StopIsLast, Frame
<1> USE DEF IInv, TypeOK, QueueOrder, StopIsLast, WriterInv, CloseInv, Healthy, Taken, After,
            adapterVars, Items
<1>3. CASE EncodeFails BY <1>2, <1>3 DEF EncodeFails
<1>4. CASE BeginWrite BY <1>2, <1>4 DEF BeginWrite
<1>5. CASE WriteFails BY <1>2, <1>5 DEF WriteFails
<1>6. CASE Compare BY <1>2, <1>6 DEF Compare
<1>7. CASE FinishFlush BY <1>2, <1>7 DEF FinishFlush
<1>8. CASE FlushFails BY <1>2, <1>8 DEF FlushFails
<1>9. CASE RecordError BY <1>2, <1>9 DEF RecordError
<1>10. CASE Exit BY <1>2, <1>10 DEF Exit
<1> QED BY <1>3, <1>4, <1>5, <1>6, <1>7, <1>8, <1>9, <1>10 DEF QuietWriter

\* Completing a frame preserves the invariant: the stream grows by the next submission.
LEMMA FinishWriteStep ==
    ASSUME IInv, FinishWrite
    PROVE  IInv'
<1> USE DEF FinishWrite, producerVars
<1>1. /\ item.n = Len(stream) /\ item.n < Len(accepted)
      /\ item.context = accepted[item.n + 1] /\ adapterSeq = Len(stream)
      /\ item.kind = "record"
  BY DEF IInv, WriterInv
<1>2. Frame(adapterSeq, item.context) \in [seq : Nat, context : Int]
  BY DEF IInv, TypeOK, Items, Frame
<1>3. /\ stream' \in Seq([seq : Nat, context : Int])
      /\ Len(stream') = Len(stream) + 1
      /\ stream'[Len(stream) + 1] = Frame(Len(stream), accepted[Len(stream) + 1])
      /\ \A i \in 1 .. Len(stream) : stream'[i] = stream[i]
  BY <1>1, <1>2 DEF IInv, TypeOK
<1>4. TypeOK'
  <2>1. stream' \in Seq([seq : Nat, context : Int]) BY <1>3
  <2>2. adapterSeq' \in Nat BY DEF IInv, TypeOK
  <2>3. queue' \in Seq(Items) /\ Len(queue') <= Capacity BY DEF IInv, TypeOK
  <2>4. accepted' \in Seq(Int) /\ flushed' \in Nat /\ torn' \in BOOLEAN /\ item' \in Items /\ error' \in BOOLEAN BY DEF IInv, TypeOK
  <2>5. cur' \in Items /\ call' \in Kinds /\ sequence' \in Nat BY DEF IInv, TypeOK
  <2>6. adapterFailed' \in BOOLEAN BY DEF IInv, TypeOK
  <2> QED BY <2>1, <2>2, <2>3, <2>4, <2>5, <2>6 DEF IInv, TypeOK
<1>5. QueueOrder'
  BY <1>3 DEF IInv, QueueOrder, Healthy, Taken, After
<1>6. StopIsLast' /\ ProducerInv' /\ CloseInv' /\ ContextInv'
  BY DEF IInv, StopIsLast, ProducerInv, InRecord, InFlush, CloseInv, ContextInv
<1>7. WriterInv'
  BY <1>1, <1>3 DEF IInv, TypeOK, WriterInv
<1>8. StoredInOrder'
  <2>1. ASSUME NEW i \in 1 .. Len(stream')
        PROVE  stream'[i] = Frame(i - 1, accepted'[i])
    <3>1. CASE i = Len(stream) + 1 BY <3>1, <1>3 DEF IInv, TypeOK
    <3>2. CASE i \in 1 .. Len(stream) BY <3>2, <1>3 DEF IInv, StoredInOrder
    <3> QED BY <3>1, <3>2, <1>3 DEF IInv, TypeOK
  <2> QED BY <2>1, <1>1, <1>3 DEF IInv, TypeOK, StoredInOrder, Frame
<1> QED BY <1>4, <1>5, <1>6, <1>7, <1>8 DEF IInv

--------------------------------------------------------------------------------
\* Every step of producer or writer, and every stutter, preserves the invariant.
LEMMA NextInv == IInv /\ [Next]_vars => IInv'
<1> SUFFICES ASSUME IInv, [Next]_vars PROVE IInv'
  OBVIOUS
<1>1. CASE QuietProducer
  <2>1. UNCHANGED <<queue, writerVars, adapterVars, accepted>>
    BY <1>1 DEF QuietProducer, Emit, SampleComplete, Close, EnterTry, CheckFails, CheckPasses,
                PutFull, Advance, Join, Release, InterruptEmit, InterruptDrain,
                InterruptRelease, Interrupt
  <2> QED BY <1>1, <2>1, QuietFrame, QuietTypes, QuietStep DEF IInv
<1>2. CASE Put BY <1>2, PutStep
<1>3. CASE Get BY <1>3, GetStep
<1>4. CASE QuietWriter BY <1>4, QuietWriterStep
<1>5. CASE FinishWrite BY <1>5, FinishWriteStep
<1>6. CASE UNCHANGED vars
  <2>1. UNCHANGED <<queue, writerVars, adapterVars, accepted>>
    BY <1>6 DEF vars
  <2>2. (TypeOK /\ StopIsLast /\ ProducerInv /\ CloseInv)'
    BY <1>6 DEF vars, producerVars, writerVars, adapterVars, IInv, TypeOK, StopIsLast,
                ProducerInv, InRecord, InFlush, CloseInv
  <2> QED BY <2>1, <2>2, QuietFrame DEF IInv
<1> QED BY <1>1, <1>2, <1>3, <1>4, <1>5, <1>6
        DEF Next, Producer, InCall, Writer, QuietProducer, QuietWriter

\* The strengthened invariant holds in every reachable state, for every capacity of the
\* queue, every number of records and with or without interruption.
THEOREM Invariance == Spec => []IInv
  BY InitInv, NextInv, PTL DEF Spec

\* Type correctness: the state of recorder, writer and adapter keeps its types, and the
\* queue its bound.
THEOREM TypeCorrect == Spec => []TypeOK
  BY Invariance, PTL DEF IInv

\* The stream is a prefix of the submissions, in order, and the writer never meets a
\* record whose identifier is not its own next one: the AssertionError of _consume is
\* unreachable.
THEOREM PrefixSafety == Spec => []StreamIsPrefix
<1>1. IInv => StreamIsPrefix
  BY DEF IInv, TypeOK, WriterInv, StreamIsPrefix
<1> QED BY <1>1, Invariance, PTL

\* A close that returns has stored and flushed every record: none is lost silently.
THEOREM CleanCloseSafety == Spec => []CleanCloseStoresAll
<1>1. IInv => CleanCloseStoresAll
  <2> SUFFICES ASSUME IInv, outcome = "clean"
               PROVE  /\ sequence <= Len(stream) /\ Len(stream) = Len(accepted)
                      /\ flushed = Len(stream) /\ ~torn
    BY DEF CleanCloseStoresAll
  <2>1. wpc = "dead" /\ ~error
    BY DEF IInv, CloseInv
  <2>2. Len(stream) = Len(accepted) /\ flushed = Len(stream) /\ ~torn
    BY <2>1 DEF IInv, WriterInv
  <2> QED BY <2>2 DEF IInv, ProducerInv
<1> QED BY <1>1, Invariance, PTL

\* A context in the stream names an earlier frame of the stream.
THEOREM ContextSafety == Spec => []ContextsResolve
<1>1. IInv => ContextsResolve
  <2> SUFFICES ASSUME IInv, NEW i \in 1 .. Len(stream)
               PROVE  stream[i].context < stream[i].seq
    BY DEF ContextsResolve
  <2>1. stream[i] = [seq |-> i - 1, context |-> accepted[i]]
    BY DEF IInv, StoredInOrder, Frame
  <2>2. i \in 1 .. Len(accepted)
    BY DEF IInv, TypeOK, StoredInOrder
  <2>3. accepted[i] < i - 1
    BY <2>2 DEF IInv, ContextInv
  <2> QED BY <2>1, <2>3
<1> QED BY <1>1, Invariance, PTL

\* A served sample_complete has flushed every record submitted before it.
THEOREM FlushSafety == Spec => []FlushCoversSample
<1>1. IInv => FlushCoversSample
  BY DEF IInv, TypeOK, Items, WriterInv, FlushCoversSample
<1> QED BY <1>1, Invariance, PTL

\* Without an interruption the collector is off as long as the writer works.
THEOREM CollectorSafety == Spec => []CollectorOff
<1>1. IInv => CollectorOff
  BY DEF IInv, CloseInv, CollectorOff
<1> QED BY <1>1, Invariance, PTL

\* Nothing is ever written behind a torn frame.
THEOREM TornSafety == Spec => TornIsLast
<1>1. IInv /\ [Next]_vars => [torn => stream' = stream]_vars
  <2> SUFFICES ASSUME IInv, Next, torn PROVE stream' = stream
    OBVIOUS
  <2>1. ~FinishWrite
    BY DEF IInv, WriterInv, FinishWrite
  <2> QED
    BY <2>1 DEF Next, Producer, InCall, Writer, Emit, SampleComplete, Close, EnterTry, CheckFails,
                CheckPasses, Put, PutFull, Advance, Join, Release, InterruptEmit, InterruptDrain,
                InterruptRelease, Interrupt, Get, EncodeFails, BeginWrite, WriteFails, Compare,
                FinishFlush, FlushFails, RecordError, Exit, adapterVars
<1> QED BY <1>1, Invariance, PTL DEF Spec, TornIsLast

--------------------------------------------------------------------------------
(* The recorder implements the abstract log.                                    *)

Contexts(s) == [i \in 1 .. Len(s) |-> s[i].context]
Stored == Contexts(stream)

\* The contexts of frames that follow a sequence are its first elements.
LEMMA ContextsPrefix ==
    ASSUME NEW s \in Seq([seq : Nat, context : Int]), NEW a \in Seq(Int),
           Len(s) <= Len(a), \A i \in 1 .. Len(s) : s[i] = Frame(i - 1, a[i])
    PROVE  /\ Contexts(s) \in Seq(Int) /\ Len(Contexts(s)) = Len(s)
           /\ \A i \in 1 .. Len(s) : Contexts(s)[i] = a[i]
<1>1. ASSUME NEW i \in 1 .. Len(s)
      PROVE  s[i].context \in Int /\ s[i].context = a[i]
  <2>1. s[i] = [seq |-> i - 1, context |-> a[i]] BY DEF Frame
  <2>2. a[i] \in Int
    <3>1. i \in 1 .. Len(a) OBVIOUS
    <3> QED BY <3>1
  <2> QED BY <2>1, <2>2
<1>2. Contexts(s) \in [1 .. Len(s) -> Int]
  BY <1>1 DEF Contexts
<1>3. Len(s) \in Nat
  OBVIOUS
<1>4. Contexts(s) \in Seq(Int) /\ Len(Contexts(s)) = Len(s)
  <2>1. \A i \in 1 .. Len(s) : Contexts(s)[i] \in Int
    BY <1>1 DEF Contexts
  <2>2. Contexts(s) = [i \in 1 .. Len(s) |-> Contexts(s)[i]]
    BY DEF Contexts
  <2>3. [i \in 1 .. Len(s) |-> Contexts(s)[i]] \in Seq(Int)
    BY <2>1, <1>3
  <2>4. DOMAIN Contexts(s) = 1 .. Len(s)
    BY DEF Contexts
  <2> QED BY <2>2, <2>3, <2>4, <1>3, LenProperties
<1> QED BY <1>1, <1>4 DEF Contexts

\* Under the invariant, what the log view of the stream holds is what was accepted
\* first.
LEMMA StoredPrefix ==
    ASSUME IInv
    PROVE  /\ Stored \in Seq(Int) /\ Len(Stored) = Len(stream)
           /\ Len(stream) <= Len(accepted)
           /\ \A i \in 1 .. Len(stream) : Stored[i] = accepted[i]
  BY ContextsPrefix DEF IInv, TypeOK, StoredInOrder, Stored

\* Every initial state and every step of the recorder is one of the abstract log, or
\* leaves it unchanged.
THEOREM Refinement == Spec => LogSpec
<1>1. Init => Log!Init
  BY DEF Init, Log!Init
<1>2. IInv /\ [Next]_vars => [Log!Next]_Log!logVars
  <2> SUFFICES ASSUME IInv, [Next]_vars
               PROVE  [Log!Next]_Log!logVars
    OBVIOUS
  <2>1. CASE Put
    <3>1. stream' = stream /\ outcome' = outcome
      BY <2>1 DEF Put, adapterVars
    <3>2. CASE call = "record"
      <4>1. accepted' = Append(accepted, cur.context)
        BY <2>1, <3>2 DEF Put, Enqueue
      <4>2. cur.context \in -1 .. Len(accepted) - 1
        BY <2>1, <3>2 DEF Put, IInv, TypeOK, Items, ProducerInv, InRecord
      <4>3. outcome = "open"
        BY <2>1 DEF Put, IInv, CloseInv
      <4> QED BY <3>1, <4>1, <4>2, <4>3 DEF Log!Next, Log!Submit
    <3>3. CASE call # "record"
      BY <2>1, <3>1, <3>3 DEF Put, Enqueue, Log!logVars
    <3> QED BY <3>2, <3>3
  <2>2. CASE FinishWrite
    <3>1. accepted' = accepted /\ outcome' = outcome
      BY <2>2 DEF FinishWrite, producerVars
    <3>2. Len(stream) < Len(accepted) /\ Len(stream') = Len(stream) + 1
      BY <2>2 DEF FinishWrite, IInv, TypeOK, WriterInv
    <3>3. IInv' 
      BY <2>2, FinishWriteStep
    <3>4. Stored' = Append(Stored, accepted[Len(stream) + 1])
      <4>1. /\ Stored' \in Seq(Int) /\ Len(Stored') = Len(stream) + 1
            /\ \A i \in 1 .. Len(stream) + 1 : Stored'[i] = accepted[i]
        BY <3>1, <3>2, <3>3, ContextsPrefix DEF IInv, TypeOK, StoredInOrder, Stored
      <4>2. accepted \in Seq(Int) /\ Len(stream) \in Nat /\ Len(stream) + 1 \in 1 .. Len(accepted)
        BY <3>2 DEF IInv, TypeOK
      <4> DEFINE longer == Append(Stored, accepted[Len(stream) + 1])
      <4>3. /\ longer \in Seq(Int) /\ Len(longer) = Len(stream) + 1
            /\ \A i \in 1 .. Len(stream) + 1 : longer[i] = accepted[i]
        <5>1. /\ Stored \in Seq(Int) /\ Len(Stored) = Len(stream)
              /\ \A i \in 1 .. Len(stream) : Stored[i] = accepted[i]
          BY StoredPrefix
        <5>2. accepted[Len(stream) + 1] \in Int
          BY <4>2
        <5>3. /\ longer \in Seq(Int) /\ Len(longer) = Len(stream) + 1
              /\ longer[Len(stream) + 1] = accepted[Len(stream) + 1]
              /\ \A i \in 1 .. Len(stream) : longer[i] = Stored[i]
          BY <5>1, <5>2, <4>2, AppendProperties
        <5> HIDE DEF longer
        <5>4. ASSUME NEW i \in 1 .. Len(stream) + 1 PROVE longer[i] = accepted[i]
          <6>1. i = Len(stream) + 1 \/ i \in 1 .. Len(stream)
            BY <4>2
          <6> QED BY <6>1, <5>1, <5>3
        <5> QED BY <5>3, <5>4
      <4> HIDE DEF longer
      <4>4. Stored' = longer
        BY <4>1, <4>3, SeqEqual
      <4> QED BY <4>4 DEF longer
    <3>5. Len(Stored) = Len(stream)
      BY StoredPrefix
    <3> QED BY <3>1, <3>2, <3>4, <3>5 DEF Log!Next, Log!Store, Stored, Contexts
  <2>3. CASE Release
    <3>1. accepted' = accepted /\ stream' = stream /\ outcome = "open"
      BY <2>3 DEF Release, adapterVars, IInv, CloseInv
    <3>2. CASE raising
      BY <2>3, <3>1, <3>2 DEF Release, Log!Next, Log!FinishFailed
    <3>3. CASE ~raising
      <4>1. Len(stream) = Len(accepted)
        BY <2>3, <3>3 DEF Release, IInv, CloseInv, WriterInv
      <4>2. Stored = accepted
        BY <4>1, StoredPrefix, SeqEqual DEF IInv, TypeOK
      <4> QED BY <2>3, <3>1, <3>3, <4>2 DEF Release, Log!Next, Log!FinishClean, Stored, Contexts
    <3> QED BY <3>2, <3>3
  <2>4. CASE InterruptRelease
    <3>1. accepted' = accepted /\ stream' = stream /\ outcome = "open" /\ outcome' = "failed"
      BY <2>4 DEF InterruptRelease, Interrupt, adapterVars, IInv, CloseInv
    <3> QED BY <3>1 DEF Log!Next, Log!FinishFailed
  <2>5. CASE UNCHANGED vars
    BY <2>5 DEF vars, producerVars, adapterVars, Log!logVars
  <2>6. CASE Next /\ ~Put /\ ~FinishWrite /\ ~Release /\ ~InterruptRelease
    <3>1. accepted' = accepted /\ stream' = stream /\ outcome' = outcome
      BY <2>6 DEF Next, Producer, InCall, Writer, Emit, SampleComplete, Close, EnterTry,
                  CheckFails, CheckPasses, PutFull, Advance, Join, InterruptEmit, InterruptDrain,
                  Interrupt, Get, EncodeFails, BeginWrite, WriteFails, Compare, FinishFlush,
                  FlushFails, RecordError, Exit, producerVars, adapterVars
    <3> QED BY <3>1 DEF Log!logVars
  <2> QED BY <2>1, <2>2, <2>3, <2>4, <2>5, <2>6
<1> QED BY <1>1, <1>2, Invariance, PTL DEF Spec, LogSpec, Log!Spec
================================================================================
