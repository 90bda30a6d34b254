------------------------------- MODULE BoundedFifo -------------------------------
(***************************************************************************)
(* What TelemetryQueue promises its two callers (TelemetryQueue.hpp:18-28), *)
(* without the ring buffer and without the generation counter: a bounded   *)
(* first-in first-out sequence that sacrifices its oldest element, of      *)
(* which one caller holds a snapshot, and from which that caller may       *)
(* remove the oldest elements only while the queue is what the snapshot    *)
(* says.                                                                   *)
(***************************************************************************)
EXTENDS Naturals, Sequences

CONSTANTS
    Sample,     \* the telemetry samples that may be queued
    Capacity    \* how many of them fit: TelemetryQueue::kCapacity

VARIABLES
    contents,   \* the queued samples, oldest first
    snapshot,   \* the samples last copied out for the uploader
    fresh,      \* whether the queue is unchanged since that copy
    verdict     \* what the last removal answered: "none", "removed", "refused"

vars == <<contents, snapshot, fresh, verdict>>

TypeOK ==
    /\ contents \in Seq(Sample) /\ Len(contents) <= Capacity
    /\ snapshot \in Seq(Sample)
    /\ fresh \in BOOLEAN
    /\ verdict \in {"none", "removed", "refused"}

Init ==
    /\ contents = << >>
    /\ snapshot = << >>
    /\ fresh = TRUE
    /\ verdict = "none"

\* The oldest sample makes room for the new one when the queue is full.
Put(s) ==
    /\ contents' = Append(IF Len(contents) < Capacity THEN contents ELSE Tail(contents), s)
    /\ fresh' = FALSE
    /\ UNCHANGED <<snapshot, verdict>>

TakeSnapshot ==
    /\ snapshot' = contents
    /\ fresh' = TRUE
    /\ UNCHANGED <<contents, verdict>>

\* At most all of the samples are removed, the oldest first, and none
\* unless the queue still is what the snapshot says.
Remove(count) ==
    /\ fresh
    /\ contents' = SubSeq(contents, count + 1, Len(contents))
    /\ fresh' = FALSE
    /\ verdict' = "removed"
    /\ UNCHANGED snapshot

Refuse ==
    /\ ~fresh
    /\ verdict' = "refused"
    /\ UNCHANGED <<contents, snapshot, fresh>>

Next ==
    \/ \E s \in Sample : Put(s)
    \/ TakeSnapshot
    \/ \E count \in 0 .. Capacity : Remove(count)
    \/ Refuse

Spec == Init /\ [][Next]_vars
===================================================================================
