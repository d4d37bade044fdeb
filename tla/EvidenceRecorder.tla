---------------------------- MODULE EvidenceRecorder ----------------------------
(* extractor/evidence_recording.py: BackgroundRecorder, its bounded queue and   *)
(* its daemon writer thread, with the EvidenceAdapter of extractor/evidence.py  *)
(* that the writer drives.                                                      *)
(*                                                                              *)
(* Two threads: the producer (the fuzzing or acquiring program), which calls    *)
(* emit, sample_complete and close, and the writer, which runs _consume. One    *)
(* action is one step between two points where the other thread, or a signal    *)
(* handler's KeyboardInterrupt, can be seen.                                    *)
EXTENDS Integers, Sequences

CONSTANTS
    Capacity,       \* the queue's maxsize
    MaxEmits,       \* bound: the program emits at most this many records
    Interruptible   \* whether a signal may raise KeyboardInterrupt in the producer

ASSUME ConstantsAssumption ==
    /\ Capacity \in Nat \ {0}
    /\ MaxEmits \in Nat
    /\ Interruptible \in BOOLEAN

VARIABLES
    pc,          \* the producer's position: "idle" between two calls, "done" after close
    call,        \* the item kind the call in progress submits
    cur,         \* the item the call in progress submits
    sequence,    \* recorder._sequence: the identifiers emit has returned are 0 .. sequence - 1
    closed,      \* recorder._closed
    raising,     \* close is on its way out with an exception
    outcome,     \* how close ended: "open", "clean" (returned) or "failed" (raised)
    interrupted, \* KeyboardInterrupt was raised; the handler then ignores further signals
    gcEnabled,   \* the collector of this interpreter runs
    queue,       \* recorder._queue
    wpc,         \* the writer's position in _consume
    item,        \* the item the writer took last
    error,       \* recorder._error is set
    adapterSeq,  \* adapter._sequence
    adapterFailed, \* adapter._failed
    stream,      \* the complete frames on the output
    torn,        \* the output ends inside a frame
    flushed,     \* how many frames the last flush pushed out
    accepted     \* history: the contexts of the records put on the queue, in order

producerVars == <<pc, call, cur, sequence, closed, raising, outcome, interrupted, gcEnabled>>
adapterVars == <<adapterSeq, adapterFailed, stream, torn, flushed>>
writerVars == <<wpc, item, error>>
vars == <<producerVars, queue, writerVars, adapterVars, accepted>>

--------------------------------------------------------------------------------
\* A record is told apart by the identifier emit gives it and by its context (the
\* identifier of an earlier record). The two markers carry nothing in the code;
\* here "n" notes how many records were submitted before them.
NoContext == -1
Record(n, c) == [kind |-> "record", n |-> n, context |-> c]
Marker(k, n) == [kind |-> k, n |-> n, context |-> NoContext]

Frame(n, c) == [seq |-> n, context |-> c]

Kinds == {"none", "record", "flush", "stop"}
Items == [kind : Kinds, n : Nat, context : Int]

Init ==
    /\ pc = "idle" /\ call = "none" /\ cur = Marker("none", 0)
    /\ sequence = 0 /\ closed = FALSE /\ raising = FALSE /\ outcome = "open"
    /\ interrupted = FALSE
    /\ gcEnabled = FALSE                     \* the constructor disabled it
    /\ queue = <<>>
    /\ wpc = "get" /\ item = Marker("none", 0) /\ error = FALSE
    /\ adapterSeq = 0 /\ adapterFailed = FALSE
    /\ stream = <<>> /\ torn = FALSE /\ flushed = 0
    /\ accepted = <<>>

--------------------------------------------------------------------------------
(* The producer's calls.                                                        *)

\* Mutant of Emit: a handler that records what interrupted it.
EmitAfterInterrupt(c) ==
    /\ pc = "idle" /\ ~closed
    /\ sequence < MaxEmits
    /\ pc' = "check" /\ call' = "record" /\ cur' = Record(sequence, c)
    /\ UNCHANGED <<sequence, closed, raising, outcome, interrupted, gcEnabled,
                   queue, writerVars, adapterVars, accepted>>

\* emit: the identifier is the current sequence; the context is any identifier the
\* program holds, or none. A KeyboardInterrupt unwinds to close: no emit follows it.
Emit(c) ==
    /\ pc = "idle" /\ ~closed /\ ~interrupted
    /\ sequence < MaxEmits
    /\ pc' = "check" /\ call' = "record" /\ cur' = Record(sequence, c)
    /\ UNCHANGED <<sequence, closed, raising, outcome, interrupted, gcEnabled,
                   queue, writerVars, adapterVars, accepted>>

SampleComplete ==
    /\ pc = "idle" /\ ~closed /\ ~interrupted
    /\ pc' = "check" /\ call' = "flush" /\ cur' = Marker("flush", Len(accepted))
    /\ UNCHANGED <<sequence, closed, raising, outcome, interrupted, gcEnabled,
                   queue, writerVars, adapterVars, accepted>>

\* Mutant of Close: the collector is given back before the drain.
CloseReleasingFirst ==
    /\ pc = "idle" /\ ~closed
    /\ closed' = TRUE
    /\ gcEnabled' = TRUE
    /\ pc' = "entered" /\ call' = "stop" /\ cur' = Marker("stop", Len(accepted))
    /\ UNCHANGED <<sequence, raising, outcome, interrupted,
                   queue, writerVars, adapterVars, accepted>>

\* close sets _closed before the try whose finally restores the collector. (A second
\* close only runs _check, which changes nothing.)
Close ==
    /\ pc = "idle" /\ ~closed
    /\ closed' = TRUE
    /\ pc' = "entered" /\ call' = "stop" /\ cur' = Marker("stop", Len(accepted))
    /\ UNCHANGED <<sequence, raising, outcome, interrupted, gcEnabled,
                   queue, writerVars, adapterVars, accepted>>

EnterTry ==
    /\ pc = "entered"
    /\ pc' = "check"
    /\ UNCHANGED <<call, cur, sequence, closed, raising, outcome, interrupted, gcEnabled,
                   queue, writerVars, adapterVars, accepted>>

\* A failed _check raises: emit and sample_complete return to the program, close
\* goes to its finally.
Raise ==
    /\ pc' = IF call = "stop" THEN "release" ELSE "idle"
    /\ raising' = (call = "stop")

\* The _check at the head of _put, inside its retry loop and at its end, and the
\* one that follows the join.
CheckFails ==
    /\ pc \in {"check", "blocked", "verify", "joined"}
    /\ error
    /\ Raise
    /\ UNCHANGED <<call, cur, sequence, closed, outcome, interrupted, gcEnabled,
                   queue, writerVars, adapterVars, accepted>>

\* The record or marker takes a free slot; the put is then verified.
Enqueue ==
    /\ Len(queue) < Capacity
    /\ queue' = Append(queue, cur)
    /\ accepted' = IF call = "record" THEN Append(accepted, cur.context) ELSE accepted
    /\ pc' = "verify"

\* put_nowait, or the timed put of the retry loop, finds a free slot.
Put ==
    /\ pc \in {"put", "timed"}
    /\ Enqueue
    /\ UNCHANGED <<call, cur, sequence, closed, raising, outcome, interrupted, gcEnabled,
                   writerVars, adapterVars>>

\* Mutant of PutFull: the retry loop does not look for a failed writer.
PutFullUnchecked ==
    /\ pc \in {"put", "timed"}
    /\ Len(queue) >= Capacity
    /\ pc' = "timed"
    /\ UNCHANGED <<call, cur, sequence, closed, raising, outcome, interrupted, gcEnabled,
                   queue, writerVars, adapterVars, accepted>>

\* Full: the retry loop runs _check and waits 50 ms for a slot, again and again.
PutFull ==
    /\ pc \in {"put", "timed"}
    /\ Len(queue) >= Capacity
    /\ pc' = "blocked"
    /\ UNCHANGED <<call, cur, sequence, closed, raising, outcome, interrupted, gcEnabled,
                   queue, writerVars, adapterVars, accepted>>

AfterPut == CASE call = "record" -> "advance"
              [] call = "flush"  -> "idle"
              [] OTHER           -> "join"

CheckPasses ==
    /\ ~error
    /\ \/ pc = "check" /\ pc' = "put"
       \/ pc = "blocked" /\ pc' = "timed"
       \/ pc = "verify" /\ pc' = AfterPut
       \/ pc = "joined" /\ pc' = "release"
    /\ UNCHANGED <<call, cur, sequence, closed, raising, outcome, interrupted, gcEnabled,
                   queue, writerVars, adapterVars, accepted>>

\* Only after the put: _sequence += 1, and emit returns the identifier.
Advance ==
    /\ pc = "advance"
    /\ sequence' = sequence + 1
    /\ pc' = "idle"
    /\ UNCHANGED <<call, cur, closed, raising, outcome, interrupted, gcEnabled,
                   queue, writerVars, adapterVars, accepted>>

\* Mutant of Join: close does not wait for the writer.
JoinSkipped ==
    /\ pc = "join"
    /\ pc' = "joined"
    /\ UNCHANGED <<call, cur, sequence, closed, raising, outcome, interrupted, gcEnabled,
                   queue, writerVars, adapterVars, accepted>>


Join ==
    /\ pc = "join" /\ wpc = "dead"
    /\ pc' = "joined"
    /\ UNCHANGED <<call, cur, sequence, closed, raising, outcome, interrupted, gcEnabled,
                   queue, writerVars, adapterVars, accepted>>

\* Mutant of Release: a return in the finally swallows the exception.
ReleaseSwallowing ==
    /\ pc = "release"
    /\ gcEnabled' = TRUE
    /\ outcome' = "clean"
    /\ pc' = "done"
    /\ UNCHANGED <<call, cur, sequence, closed, raising, interrupted,
                   queue, writerVars, adapterVars, accepted>>

\* The finally of close: the last active recorder gives the collector back.
Release ==
    /\ pc = "release"
    /\ gcEnabled' = TRUE
    /\ outcome' = IF raising THEN "failed" ELSE "clean"
    /\ pc' = "done"
    /\ UNCHANGED <<call, cur, sequence, closed, raising, interrupted,
                   queue, writerVars, adapterVars, accepted>>

--------------------------------------------------------------------------------
(* KeyboardInterrupt. The worker's handler (fuzz_runner.py, _worker) raises it in *)
(* the producer between two bytecodes, once: it ignores every later signal.     *)

Interrupt ==
    /\ Interruptible /\ ~interrupted
    /\ interrupted' = TRUE
    /\ UNCHANGED <<call, cur, sequence, closed,
                   queue, writerVars, adapterVars, accepted>>

\* Between two calls, or inside emit or sample_complete, which it leaves at once:
\* after the put, the record is on the queue and its identifier is lost.
InterruptEmit ==
    /\ Interrupt
    /\ (pc = "idle" \/ (pc # "done" /\ call # "stop"))
    /\ pc' = "idle"
    /\ UNCHANGED <<raising, outcome, gcEnabled>>

\* Inside the try of close, the wait for the writer included.
InterruptDrain ==
    /\ Interrupt
    /\ call = "stop" /\ pc \in {"check", "put", "blocked", "timed", "verify", "join", "joined"}
    /\ pc' = "release" /\ raising' = TRUE
    /\ UNCHANGED <<outcome, gcEnabled>>

\* Before the try of close, or in its finally before the collector is given back.
InterruptRelease ==
    /\ Interrupt
    /\ call = "stop" /\ pc \in {"entered", "release"}
    /\ pc' = "done" /\ raising' = TRUE /\ outcome' = "failed"
    /\ UNCHANGED gcEnabled

--------------------------------------------------------------------------------
(* The writer thread.                                                           *)

\* Mutant of Get: LifoQueue.
GetNewest ==
    /\ wpc = "get" /\ queue # <<>>
    /\ item' = queue[Len(queue)] /\ queue' = SubSeq(queue, 1, Len(queue) - 1)
    /\ wpc' = IF queue[Len(queue)].kind = "record" THEN "emit" ELSE "flush"
    /\ UNCHANGED <<producerVars, error, adapterVars, accepted>>


Get ==
    /\ wpc = "get" /\ queue # <<>>
    /\ item' = Head(queue) /\ queue' = Tail(queue)
    /\ wpc' = IF Head(queue).kind = "record" THEN "emit" ELSE "flush"
    /\ UNCHANGED <<producerVars, error, adapterVars, accepted>>

\* Mutant of EncodeFails: the writer skips a value it cannot encode.
EncodeSkips ==
    /\ wpc = "emit"
    /\ wpc' = "get"
    /\ UNCHANGED <<producerVars, queue, item, error, adapterVars, accepted>>

\* The codec rejects the value, or the context is the empty string: nothing written.
EncodeFails ==
    /\ wpc = "emit"
    /\ wpc' = "raised"
    /\ UNCHANGED <<producerVars, queue, item, error, adapterVars, accepted>>

\* adapter._write marks the stream failed until the write is known to be complete.
BeginWrite ==
    /\ wpc = "emit" /\ ~adapterFailed
    /\ adapterFailed' = TRUE
    /\ wpc' = "write"
    /\ UNCHANGED <<producerVars, queue, item, error, adapterSeq, stream, torn, flushed, accepted>>

\* Mutant of WriteFails: the writer clears the failure and goes on.
WriteFailureForgotten ==
    /\ wpc = "write"
    /\ torn' \in BOOLEAN
    /\ adapterFailed' = FALSE
    /\ wpc' = "get"
    /\ UNCHANGED <<producerVars, queue, item, error, adapterSeq, stream, flushed, accepted>>

\* The output raises, or writes less than the frame.
WriteFails ==
    /\ wpc = "write"
    /\ torn' \in BOOLEAN
    /\ wpc' = "raised"
    /\ UNCHANGED <<producerVars, queue, item, error, adapterSeq, adapterFailed, stream, flushed, accepted>>

\* The frame carries the adapter's own sequence number, not the producer's.
FinishWrite ==
    /\ wpc = "write"
    /\ stream' = Append(stream, Frame(adapterSeq, item.context))
    /\ adapterFailed' = FALSE
    /\ adapterSeq' = adapterSeq + 1
    /\ wpc' = "compare"
    /\ UNCHANGED <<producerVars, queue, item, error, torn, flushed, accepted>>

\* "producer/writer record sequences diverged"
Compare ==
    /\ wpc = "compare"
    /\ wpc' = IF item.n = adapterSeq - 1 THEN "get" ELSE "raised"
    /\ UNCHANGED <<producerVars, queue, item, error, adapterVars, accepted>>

\* Mutant of FinishFlush: only the stop marker flushes.
FinishFlushLazily ==
    /\ wpc = "flush" /\ ~adapterFailed
    /\ flushed' = IF item.kind = "stop" THEN Len(stream) ELSE flushed
    /\ wpc' = IF item.kind = "stop" THEN "finally" ELSE "get"
    /\ UNCHANGED <<producerVars, queue, item, error, adapterSeq, adapterFailed, stream, torn, accepted>>

\* A flush marker is followed by the next item, a stop marker by the end of the thread.
FinishFlush ==
    /\ wpc = "flush" /\ ~adapterFailed
    /\ flushed' = Len(stream)
    /\ wpc' = IF item.kind = "stop" THEN "finally" ELSE "get"
    /\ UNCHANGED <<producerVars, queue, item, error, adapterSeq, adapterFailed, stream, torn, accepted>>

FlushFails ==
    /\ wpc = "flush"
    /\ adapterFailed' = TRUE
    /\ wpc' = "raised"
    /\ UNCHANGED <<producerVars, queue, item, error, adapterSeq, stream, torn, flushed, accepted>>

\* Mutant of RecordError: the thread dies without telling the producer.
ErrorDropped ==
    /\ wpc = "raised"
    /\ wpc' = "finally"
    /\ UNCHANGED <<producerVars, queue, item, error, adapterVars, accepted>>

\* The exception is visible to the producer only once the handler has stored it.
RecordError ==
    /\ wpc = "raised"
    /\ error' = TRUE
    /\ wpc' = "finally"
    /\ UNCHANGED <<producerVars, queue, item, adapterVars, accepted>>

Exit ==
    /\ wpc = "finally"
    /\ wpc' = "dead"
    /\ UNCHANGED <<producerVars, queue, item, error, adapterVars, accepted>>

--------------------------------------------------------------------------------
ReturnedIds == 0 .. sequence - 1

\* The steps of a call under way: once called, the producer thread keeps running.
InCall == \/ EnterTry \/ CheckFails \/ CheckPasses \/ Put \/ PutFull
          \/ Advance \/ Join \/ Release

Producer == \/ \E c \in ReturnedIds \union {NoContext} : Emit(c)
            \/ SampleComplete \/ Close
            \/ InCall
            \/ InterruptEmit \/ InterruptDrain \/ InterruptRelease

Writer == \/ Get \/ EncodeFails \/ BeginWrite \/ WriteFails \/ FinishWrite
          \/ Compare \/ FinishFlush \/ FlushFails \/ RecordError \/ Exit

Next == Producer \/ Writer

Spec == Init /\ [][Next]_vars

\* The writer is a daemon thread: when close has returned or raised, the process may end,
\* and the writer with it wherever it is.
WriterWhileOpen == pc # "done" /\ Writer

\* Both threads are scheduled, the writer until close has ended; a write, an encoding and
\* a flush return or raise. Nothing says that the program calls the recorder again.
FairSpec == Spec /\ WF_vars(InCall) /\ WF_vars(WriterWhileOpen)

--------------------------------------------------------------------------------
(* Properties.                                                                  *)

\* The types of the state (evidence_recording.py, __init__; evidence.py, __init__).
TypeOK ==
    /\ pc \in {"idle", "entered", "check", "put", "blocked", "timed", "verify",
               "advance", "join", "joined", "release", "done"}
    /\ call \in Kinds /\ cur \in Items
    /\ sequence \in Nat
    /\ closed \in BOOLEAN /\ raising \in BOOLEAN /\ interrupted \in BOOLEAN
    /\ gcEnabled \in BOOLEAN
    /\ outcome \in {"open", "clean", "failed"}
    /\ queue \in Seq(Items) /\ Len(queue) <= Capacity
    /\ wpc \in {"get", "emit", "write", "compare", "flush", "raised", "finally", "dead"}
    /\ item \in Items /\ error \in BOOLEAN
    /\ adapterSeq \in Nat /\ adapterFailed \in BOOLEAN
    /\ stream \in Seq([seq : Nat, context : Int]) /\ torn \in BOOLEAN
    /\ flushed \in Nat
    /\ accepted \in Seq(Int)

\* A part of the next property, kept by the steps on its own.
StoredInOrder ==
    /\ Len(stream) <= Len(accepted)
    /\ \A i \in 1 .. Len(stream) : stream[i] = Frame(i - 1, accepted[i])

\* A reader finds the records in the order they were submitted, none missing in the
\* middle and none twice, each under the identifier its program was given: the
\* producer's counter and the adapter's never part, not even when an exception
\* strikes between the put and the increment (EvidenceAdapter.emit driven from the
\* queue, and the AssertionError of _consume).
StreamIsPrefix ==
    /\ StoredInOrder
    /\ wpc = "compare" => item.n = adapterSeq - 1

\* When close returns, every identifier that emit returned is in the stream, and the
\* whole stream has been flushed: nothing put on the queue after the writer died, and
\* nothing behind the stop marker, is lost without an exception (close: put, join, _check).
CleanCloseStoresAll ==
    outcome = "clean" =>
        /\ sequence <= Len(stream) /\ Len(stream) = Len(accepted)
        /\ flushed = Len(stream) /\ ~torn

\* A record's context is the identifier of a record that a reader has already met.
ContextsResolve ==
    \A i \in 1 .. Len(stream) : stream[i].context < stream[i].seq

\* Once the writer has served a sample_complete, every record submitted before it is
\* flushed: a worker killed later leaves the sample readable (_FLUSH, sample_complete).
FlushCoversSample == wpc = "get" /\ item.kind = "flush" => flushed >= item.n

\* The collector stays off as long as the writer runs, so that cyclic Z3 objects are
\* never finalized on its thread (_producer_collect's comment). An interrupted close
\* gives it back while the writer still drains.
CollectorOff == gcEnabled /\ ~interrupted => wpc \in {"finally", "dead"}

\* Nothing follows a torn frame: the reader's "earlier yielded records remain usable"
\* (TruncatedRecord) is the whole stream.
TornIsLast == [][torn => stream' = stream]_vars

\* Every call returns or raises, also when the queue is full and the writer dead: the
\* retry loop of _put sees the error, and the join of close always ends.
Returned == pc \in {"idle", "done"}
CallsReturn == ~Returned ~> Returned

\* An accepted record is eventually stored, or the failure that prevents it is
\* eventually visible to the producer. Only a close that was interrupted may lose it: it
\* raises without waiting for the writer, which the end of the process then kills.
RecordsResolve ==
    \A n \in 1 .. MaxEmits :
        (Len(accepted) >= n) ~> (Len(stream) >= n \/ error \/ outcome = "failed")

\* The recorder implements the abstract log.
Log == INSTANCE EvidenceLog WITH
           stored <- [i \in 1 .. Len(stream) |-> stream[i].context]

LogSpec == Log!Spec
================================================================================
