----------------------------- MODULE MCQueueSnapshots -----------------------------
EXTENDS QueueSnapshots

\* Samples are told apart only by equality.
CONSTANTS s1, s2, s3
MCSample == {s1, s2, s3}
=====================================================================================
