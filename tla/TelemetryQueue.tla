------------------------------ MODULE TelemetryQueue ------------------------------
(***************************************************************************)
(* The class TelemetryQueue (TelemetryQueue.cpp): a ring buffer of         *)
(* kCapacity samples with a change counter.  Every method takes mutex_ for *)
(* its whole body, so that each is one atomic step of its caller; this     *)
(* module holds the state and the steps, and the modules that extend it    *)
(* say who takes them and when.                                            *)
(***************************************************************************)
EXTENDS Integers, Sequences

CONSTANTS
    Capacity,     \* TelemetryQueue::kCapacity, 32 in the build
    Generations,  \* how many values generation_ has: 2^32 for a uint32_t
    NoSample      \* the value-initialized TelemetrySample of samples_{}

ASSUME QueueAssumption ==
    /\ Capacity \in Nat \ {0}
    /\ Generations \in Nat \ {0}

VARIABLES
    samples,      \* samples_, indexed from 0
    head,         \* head_: the index of the oldest sample
    size,         \* size_
    generation    \* generation_

queueVars == <<samples, head, size, generation>>

Index == 0 .. Capacity - 1

\* The index of the sample that stands i places behind the oldest one.
Slot(i) == (head + i) % Capacity

\* The queue as its callers see it, oldest to newest.
Contents == [i \in 1 .. size |-> samples[Slot(i - 1)]]

QueueTypeOK(Sample) ==
    /\ samples \in [Index -> Sample \cup {NoSample}]
    /\ head \in Index
    /\ size \in 0 .. Capacity
    /\ generation \in 0 .. Generations - 1

QueueInit ==
    /\ samples = [i \in Index |-> NoSample]
    /\ head = 0
    /\ size = 0
    /\ generation = 0

\* ++generation_ on a uint32_t.
BumpGeneration == generation' = (generation + 1) % Generations

\* Broken variant: a full buffer is not noticed.
EnqueueNeverFull(s) ==
    /\ size = Capacity
    /\ samples' = [samples EXCEPT ![Slot(size)] = s]
    /\ size' = size + 1
    /\ UNCHANGED head
    /\ BumpGeneration

\* Broken variant: the oldest sample is overwritten, but head_ stays on it.
EnqueueWithoutAdvance(s) ==
    /\ size = Capacity
    /\ samples' = [samples EXCEPT ![head] = s]
    /\ UNCHANGED <<head, size>>
    /\ BumpGeneration

\* enqueue() on a full buffer: the oldest sample is overwritten.
EnqueueOverwriting(s) ==
    /\ size = Capacity
    /\ samples' = [samples EXCEPT ![head] = s]
    /\ head' = (head + 1) % Capacity
    /\ UNCHANGED size
    /\ BumpGeneration

\* Broken variant: generation_ is not incremented.
EnqueueUnnoticed(s) ==
    /\ size # Capacity
    /\ samples' = [samples EXCEPT ![Slot(size)] = s]
    /\ size' = size + 1
    /\ UNCHANGED <<head, generation>>

\* enqueue() with room left.
EnqueueAppending(s) ==
    /\ size # Capacity
    /\ samples' = [samples EXCEPT ![Slot(size)] = s]
    /\ size' = size + 1
    /\ UNCHANGED head
    /\ BumpGeneration

Enqueue(s) == EnqueueOverwriting(s) \/ EnqueueAppending(s)

\* The batch peekAll() returns: the samples (whose number is batch.count)
\* and the generation they were read at.
PeekAll == [samples |-> Contents, generation |-> generation]

\* Broken variant: count is not clamped.
DiscardUnclamped(count, expected) ==
    /\ generation = expected
    /\ head' = (head + count) % Capacity
    /\ size' = size - count
    /\ UNCHANGED samples
    /\ BumpGeneration

\* Broken variant: the generation is not compared.
DiscardAnyway(count, expected) ==
    LET discarded == IF count > size THEN size ELSE count
    IN  /\ head' = (head + discarded) % Capacity
        /\ size' = size - discarded
        /\ UNCHANGED samples
        /\ BumpGeneration

\* discardOldestIfGenerationMatches() when the queue may be trimmed: count
\* is first clamped to size_.
DiscardOldest(count, expected) ==
    /\ generation = expected
    /\ LET discarded == IF count > size THEN size ELSE count
       IN  /\ head' = (head + discarded) % Capacity
           /\ size' = size - discarded
    /\ UNCHANGED samples
    /\ BumpGeneration

\* ... and when it has changed since: false is returned.
DiscardRefused(expected) ==
    /\ generation # expected
    /\ UNCHANGED queueVars
====================================================================================
