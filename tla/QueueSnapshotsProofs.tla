--------------------------- MODULE QueueSnapshotsProofs ---------------------------
(***************************************************************************)
(* The generation counter names the queue's contents, and the ring buffer  *)
(* implements the bounded FIFO, for every capacity, every sample set and   *)
(* every counter wider than the number of changes it has to tell apart.    *)
(***************************************************************************)
EXTENDS QueueSnapshots, TelemetryQueueLemmas

\* The inductive invariant: the types, the count behind the generation, and
\* that only samples (never the initial filling) are among the contents.
IInv ==
    /\ TypeOK
    /\ GenerationCounts
    /\ Contents \in Seq(Sample)

\* Counting one more change commutes with the wrap of the counter.
LEMMA GenerationStep ==
    ASSUME NEW b \in 0 .. Generations - 1, NEW c \in Nat, c < MaxChanges
    PROVE  (((b + c) % Generations) + 1) % Generations = (b + (c + 1)) % Generations
  BY SnapshotAssumption, QueueAssumption, SMT

\* Fewer changes than the counter has values are told apart from none.
LEMMA GenerationTells ==
    ASSUME NEW b \in 0 .. Generations - 1, NEW c \in 0 .. MaxChanges
    PROVE  (b + c) % Generations = b <=> c = 0
  BY SnapshotAssumption, QueueAssumption, SMT

\* Under the invariant, equal generations and "no change" are the same.
LEMMA FreshIsUnchanged ==
    ASSUME IInv
    PROVE  generation = batch.generation <=> changes = 0
  BY GenerationTells DEF IInv, TypeOK, GenerationCounts

LEMMA InitInvariant == Init => IInv
  <1> SUFFICES ASSUME Init PROVE IInv
    OBVIOUS
  <1>1. QueueTypeOK(Sample)
    BY QueueAssumption DEF Init, QueueInit, QueueTypeOK, Index
  <1>2. Contents = << >>
    BY ContentsIsSequence, <1>1, EmptySeq DEF Init, QueueInit
  <1>3. TypeOK
    BY <1>1, QueueAssumption, SnapshotAssumption DEF Init, TypeOK
  <1>4. GenerationCounts
    BY <1>2, QueueAssumption, SMT DEF Init, QueueInit, GenerationCounts
  <1> QED
    BY <1>2, <1>3, <1>4 DEF IInv

LEMMA EnqueuePreserves ==
    ASSUME IInv, NEW s \in Sample, CollectorEnqueues(s)
    PROVE  /\ IInv'
           /\ Contents' = Append(IF size < Capacity THEN Contents ELSE Tail(Contents), s)
  <1>1. QueueTypeOK(Sample) /\ Contents \in Seq(Sample) /\ Len(Contents) = size
    BY ContentsIsSequence DEF IInv, TypeOK
  <1>2. /\ QueueTypeOK(Sample)'
        /\ Contents' = Append(IF size < Capacity THEN Contents ELSE Tail(Contents), s)
        /\ size = Capacity => Contents # << >>
        /\ generation' = (generation + 1) % Generations
    BY <1>1, EnqueueEffect DEF CollectorEnqueues
  <1>3. Contents' \in Seq(Sample)
    <2>1. CASE size < Capacity
      BY <2>1, <1>1, <1>2
    <2>2. CASE ~(size < Capacity)
      <3>1. Contents # << >>
        BY <2>2, <1>1, <1>2, QueueAssumption DEF QueueTypeOK
      <3> QED
        BY <3>1, <2>2, <1>1, <1>2, HeadTailProperties
    <2> QED
      BY <2>1, <2>2
  <1>4. /\ changes \in 0 .. MaxChanges /\ changes < MaxChanges /\ changes' = changes + 1
        /\ batch' = batch /\ verdict' = verdict
        /\ batch.generation \in 0 .. Generations - 1
        /\ generation = (batch.generation + changes) % Generations
    BY DEF IInv, TypeOK, CollectorEnqueues, GenerationCounts
  <1>5. TypeOK'
    BY <1>2, <1>4, SnapshotAssumption DEF IInv, TypeOK
  <1>6. generation' = (batch.generation + changes') % Generations
    BY <1>2, <1>4, GenerationStep, SnapshotAssumption
  <1>7. changes' # 0
    BY <1>4, SnapshotAssumption
  <1> QED
    BY <1>2, <1>3, <1>4, <1>5, <1>6, <1>7 DEF IInv, GenerationCounts

LEMMA PeekPreserves ==
    ASSUME IInv, UploaderPeeks
    PROVE  IInv' /\ Contents' = Contents
  <1>1. Contents' = Contents
    BY DEF UploaderPeeks, Contents, Slot
  <1>2. /\ batch'.samples = Contents /\ batch'.generation = generation /\ changes' = 0
        /\ batch' \in [samples : Seq(Sample), generation : 0 .. Generations - 1]
    BY DEF UploaderPeeks, PeekAll, IInv, TypeOK, QueueTypeOK
  <1>3. TypeOK'
    BY <1>2, SnapshotAssumption DEF IInv, TypeOK, QueueTypeOK, UploaderPeeks
  <1>4. generation \in 0 .. Generations - 1 /\ generation' = generation
    BY DEF UploaderPeeks, IInv, TypeOK, QueueTypeOK
  <1>5. generation' = (batch'.generation + changes') % Generations
    BY <1>2, <1>4, QueueAssumption, SMT
  <1> QED
    BY <1>1, <1>2, <1>3, <1>5 DEF IInv, GenerationCounts

LEMMA DiscardPreserves ==
    ASSUME IInv, NEW count \in 0 .. Capacity + 1, UploaderDiscards(count)
    PROVE  /\ IInv'
           /\ Contents' = SubSeq(Contents, count + 1, Len(Contents))
  <1>0. count \in Nat
    BY QueueAssumption
  <1>1. QueueTypeOK(Sample) /\ Contents \in Seq(Sample) /\ Len(Contents) = size
    BY ContentsIsSequence DEF IInv, TypeOK
  <1>2. /\ QueueTypeOK(Sample)'
        /\ Contents' = SubSeq(Contents, count + 1, Len(Contents))
        /\ generation' = (generation + 1) % Generations
    BY <1>0, <1>1, DiscardEffect DEF UploaderDiscards
  <1>3. Contents' \in Seq(Sample)
    <2>1. \A i \in count + 1 .. Len(Contents) : Contents[i] \in Sample
      BY <1>1, ElementOfSeq
    <2>2. count + 1 \in Int /\ Len(Contents) \in Int
      BY <1>0, <1>1
    <2> QED
      BY <2>1, <2>2, <1>2, SubSeqProperties
  <1>4. /\ changes \in 0 .. MaxChanges /\ changes < MaxChanges /\ changes' = changes + 1
        /\ batch' = batch /\ verdict' = "removed"
        /\ batch.generation \in 0 .. Generations - 1
        /\ generation = (batch.generation + changes) % Generations
    BY DEF IInv, TypeOK, UploaderDiscards, GenerationCounts
  <1>5. TypeOK'
    BY <1>2, <1>4, SnapshotAssumption DEF IInv, TypeOK
  <1>6. generation' = (batch.generation + changes') % Generations
    <2>1. generation' = (generation + 1) % Generations
      BY <1>2
    <2> QED
      BY <2>1, <1>4, GenerationStep, SnapshotAssumption
  <1>7. changes' # 0
    BY <1>4, SnapshotAssumption
  <1> QED
    BY <1>2, <1>3, <1>4, <1>5, <1>6, <1>7 DEF IInv, GenerationCounts

LEMMA RefusalPreserves ==
    ASSUME IInv, UploaderIsRefused
    PROVE  IInv' /\ Contents' = Contents
  <1>1. UNCHANGED <<samples, head, size, generation, batch, changes>> /\ verdict' = "refused"
    BY DEF UploaderIsRefused, DiscardRefused, queueVars
  <1> QED
    BY <1>1 DEF IInv, TypeOK, QueueTypeOK, GenerationCounts, Contents, Slot

LEMMA StutterPreserves ==
    ASSUME IInv, UNCHANGED vars
    PROVE  IInv' /\ Contents' = Contents
  BY DEF vars, IInv, TypeOK, QueueTypeOK, GenerationCounts, Contents, Slot

LEMMA NextPreserves == IInv /\ [Next]_vars => IInv'
  BY EnqueuePreserves, PeekPreserves, DiscardPreserves, RefusalPreserves, StutterPreserves
     DEF Next

THEOREM Invariance == Spec => []IInv
  <1> QED
    BY InitInvariant, NextPreserves, PTL DEF Spec

\* The fields of the ring buffer, the copy and the counters stay in range.
THEOREM TypeCorrect == Spec => []TypeOK
  <1>1. IInv => TypeOK
    BY DEF IInv
  <1> QED
    BY <1>1, Invariance, PTL

\* As long as the generation equals the one in the uploader's copy, the
\* queue holds exactly the samples of that copy.
THEOREM GenerationIsAName == Spec => []GenerationNamesContents
  <1>1. IInv => GenerationNamesContents
    BY FreshIsUnchanged DEF IInv, GenerationCounts, GenerationNamesContents
  <1> QED
    BY <1>1, Invariance, PTL

-------------------------------------------------------------------------------------
\* The ring buffer with its counter implements the bounded FIFO: every call
\* is the abstract call of the same name, a changed queue is refused, and
\* what is removed is what the uploader's copy said.
THEOREM Refinement == Spec => ImplementsFifo
  <1>1. Init => Fifo!Init
    <2> SUFFICES ASSUME Init PROVE Fifo!Init
      OBVIOUS
    <2>1. QueueTypeOK(Sample) /\ size = 0
      BY InitInvariant DEF IInv, TypeOK, Init, QueueInit
    <2>2. Contents = << >>
      BY <2>1, ContentsIsSequence, EmptySeq
    <2> QED
      BY <2>2 DEF Init, QueueInit, Fifo!Init
  <1>2. IInv /\ IInv' /\ [Next]_vars => [Fifo!Next]_(Fifo!vars)
    <2> SUFFICES ASSUME IInv, IInv', [Next]_vars PROVE [Fifo!Next]_(Fifo!vars)
      OBVIOUS
    <2>1. /\ generation = batch.generation <=> changes = 0
          /\ generation' = batch'.generation <=> changes' = 0
      <3>1. IInv' => (generation' = batch'.generation <=> changes' = 0)
        BY GenerationTells DEF IInv, TypeOK, GenerationCounts
      <3> QED
        BY <3>1, FreshIsUnchanged
    <2>2. /\ changes \in Nat /\ Len(Contents) = size /\ size \in 0 .. Capacity
          /\ changes = 0 => Contents = batch.samples
      <3>1. QueueTypeOK(Sample) /\ changes \in Nat
        BY SnapshotAssumption DEF IInv, TypeOK
      <3>2. Len(Contents) = size
        BY <3>1, ContentsIsSequence
      <3> QED
        BY <3>1, <3>2 DEF IInv, QueueTypeOK, GenerationCounts
    <2>3. ASSUME NEW s \in Sample, CollectorEnqueues(s) PROVE Fifo!Put(s)
      <3>1. Contents' = Append(IF size < Capacity THEN Contents ELSE Tail(Contents), s)
        BY <2>3, EnqueuePreserves
      <3>2. changes' # 0 /\ batch' = batch /\ verdict' = verdict
        BY <2>2, <2>3 DEF CollectorEnqueues
      <3> QED
        BY <3>1, <3>2, <2>1, <2>2 DEF Fifo!Put
    <2>4. CASE UploaderPeeks
      <3>1. Contents' = Contents
        BY <2>4, PeekPreserves
      <3>2. batch'.samples = Contents /\ changes' = 0 /\ verdict' = verdict
        BY <2>4 DEF UploaderPeeks, PeekAll
      <3>3. Fifo!TakeSnapshot
        BY <3>1, <3>2, <2>1 DEF Fifo!TakeSnapshot
      <3> QED
        BY <3>3 DEF Fifo!Next
    <2>5. ASSUME NEW count \in 0 .. Capacity + 1, UploaderDiscards(count)
          PROVE  Fifo!Next
      <3>1. Contents' = SubSeq(Contents, count + 1, Len(Contents))
        BY <2>5, DiscardPreserves
      <3>2. /\ generation = batch.generation /\ changes' # 0
            /\ batch' = batch /\ verdict' = "removed"
        BY <2>2, <2>5 DEF UploaderDiscards, DiscardOldest
      <3> DEFINE n == IF count > Capacity THEN Capacity ELSE count
      <3>3. n \in 0 .. Capacity
        BY QueueAssumption
      <3>4. Contents' = SubSeq(Contents, n + 1, Len(Contents))
        <4>1. CASE count <= Capacity
          <5>1. n = count
            BY <4>1, QueueAssumption
          <5> QED
            BY <5>1, <3>1
        <4>2. CASE count > Capacity
          <5>1. /\ n + 1 \in Int /\ count + 1 \in Int /\ Len(Contents) \in Int
                /\ Len(Contents) < n + 1 /\ Len(Contents) < count + 1
            BY <4>2, <2>2, QueueAssumption
          <5> HIDE DEF n
          <5> QED
            BY <5>1, <3>1, SubSeqEmpty
        <4>3. count <= Capacity \/ count > Capacity
          BY QueueAssumption
        <4> QED
          BY <4>1, <4>2, <4>3
      <3> HIDE DEF n
      <3>5. Fifo!Remove(n)
        BY <3>2, <3>4, <2>1 DEF Fifo!Remove
      <3> QED
        BY <3>3, <3>5 DEF Fifo!Next
    <2>6. CASE UploaderIsRefused
      <3>1. Contents' = Contents
        BY <2>6, RefusalPreserves
      <3>2. /\ generation # batch.generation /\ verdict' = "refused"
            /\ batch' = batch /\ generation' = generation
        BY <2>6 DEF UploaderIsRefused, DiscardRefused, queueVars
      <3>3. Fifo!Refuse
        BY <3>1, <3>2 DEF Fifo!Refuse
      <3> QED
        BY <3>3 DEF Fifo!Next
    <2>7. CASE UNCHANGED vars
      <3>1. Contents' = Contents
        BY <2>7, StutterPreserves
      <3> QED
        BY <3>1, <2>7 DEF vars, Fifo!vars
    <2> QED
      BY <2>3, <2>4, <2>5, <2>6, <2>7 DEF Next, Fifo!Next
  <1> QED
    BY <1>1, <1>2, Invariance, PTL DEF Spec, ImplementsFifo, Fifo!Spec
=====================================================================================
