------------------------------ MODULE QueueSnapshots ------------------------------
(***************************************************************************)
(* TelemetryQueue with its two callers reduced to the calls they make: the *)
(* collector enqueues, the uploader copies the queue with peekAll() and    *)
(* later hands the count and the generation of its copy back to            *)
(* discardOldestIfGenerationMatches().  The calls interleave freely.       *)
(*                                                                         *)
(* The generation is a counter that wraps, so it can only tell "unchanged" *)
(* from "changed" while the queue changes less than Generations times      *)
(* between the copy and its last use.  MaxChanges bounds those changes; a  *)
(* copy lives for one upload cycle of minutes, a change comes from the     *)
(* collector every two hours or from the discard that ends the cycle.      *)
(***************************************************************************)
EXTENDS TelemetryQueue

CONSTANTS
    Sample,       \* the samples the collector may enqueue
    MaxChanges    \* bound: changes to the queue while one copy is in use

ASSUME SnapshotAssumption ==
    /\ MaxChanges \in Nat
    /\ MaxChanges < Generations

VARIABLES
    batch,        \* the TelemetryBatch the uploader holds
    changes,      \* history: changes to the queue since batch was copied
    verdict       \* what the last discard answered

vars == <<samples, head, size, generation, batch, changes, verdict>>

TypeOK ==
    /\ QueueTypeOK(Sample)
    /\ batch \in [samples : Seq(Sample), generation : 0 .. Generations - 1]
    /\ changes \in 0 .. MaxChanges
    /\ verdict \in {"none", "removed", "refused"}

\* A value-initialized TelemetryBatch is the copy of an empty new queue.
Init ==
    /\ QueueInit
    /\ batch = [samples |-> << >>, generation |-> 0]
    /\ changes = 0
    /\ verdict = "none"

CollectorEnqueues(s) ==
    /\ changes < MaxChanges
    /\ Enqueue(s)
    /\ changes' = changes + 1
    /\ UNCHANGED <<batch, verdict>>

UploaderPeeks ==
    /\ batch' = PeekAll
    /\ changes' = 0
    /\ UNCHANGED <<samples, head, size, generation, verdict>>

\* The method accepts any count: the one that runUploadCycle passes,
\* batch.count, and those that only the clamp makes harmless.
UploaderDiscards(count) ==
    /\ changes < MaxChanges
    /\ DiscardOldest(count, batch.generation)
    /\ changes' = changes + 1
    /\ verdict' = "removed"
    /\ UNCHANGED batch

UploaderIsRefused ==
    /\ DiscardRefused(batch.generation)
    /\ verdict' = "refused"
    /\ UNCHANGED <<batch, changes>>

Next ==
    \/ \E s \in Sample : CollectorEnqueues(s)
    \/ UploaderPeeks
    \/ \E count \in 0 .. Capacity + 1 : UploaderDiscards(count)
    \/ UploaderIsRefused

Spec == Init /\ [][Next]_vars

-------------------------------------------------------------------------------------
\* The generation names the state of the queue: as long as it equals the
\* one in the uploader's copy, the queue holds exactly the samples of that
\* copy, in that order ("a stable snapshot", TelemetryQueue.hpp:21; the
\* test of TelemetryQueue.cpp:74 relies on it).
GenerationNamesContents ==
    generation = batch.generation => Contents = batch.samples

\* The strengthening of GenerationNamesContents that is inductive: the
\* generation is the copy's plus the changes since, modulo its width, and
\* no change at all means the same contents.
GenerationCounts ==
    /\ generation = (batch.generation + changes) % Generations
    /\ changes = 0 => Contents = batch.samples

\* The abstract queue this one implements.
Fifo == INSTANCE BoundedFifo WITH
            contents <- Contents,
            snapshot <- batch.samples,
            fresh <- (generation = batch.generation),
            verdict <- verdict

\* Every call on the ring buffer is the same call on a bounded FIFO that
\* loses its oldest sample when full and removes samples only while it is
\* unchanged since the uploader's copy (TelemetryQueue.hpp:18-25).
ImplementsFifo == Fifo!Spec
=====================================================================================
