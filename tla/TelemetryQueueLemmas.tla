--------------------------- MODULE TelemetryQueueLemmas ---------------------------
(***************************************************************************)
(* What the methods of TelemetryQueue do to the queue's contents, for      *)
(* every capacity and every width of the generation counter.               *)
(***************************************************************************)
EXTENDS TelemetryQueue, SequenceTheorems, TLAPS

\* The n elements of ring a that begin at index h: Contents as a function
\* of the three fields, so that the lemmas speak of the next state as well.
Ring(a, h, n) == [i \in 1 .. n |-> a[(h + (i - 1)) % Capacity]]

\* An index behind the head wraps at most once.
LEMMA WrapsOnce ==
    ASSUME NEW h \in Index, NEW i \in 0 .. Capacity
    PROVE  /\ (h + i) % Capacity = IF h + i < Capacity THEN h + i ELSE h + i - Capacity
           /\ (h + i) % Capacity \in Index
  BY QueueAssumption, SMT DEF Index

\* Elements of the ring that are less than a round apart have their own index.
LEMMA SlotsDiffer ==
    ASSUME NEW h \in Index, NEW i \in 0 .. Capacity - 1, NEW j \in 0 .. Capacity - 1, i # j
    PROVE  (h + i) % Capacity # (h + j) % Capacity
  <1>1. i \in 0 .. Capacity /\ j \in 0 .. Capacity
    BY QueueAssumption
  <1>2. (h + i) % Capacity = IF h + i < Capacity THEN h + i ELSE h + i - Capacity
    BY <1>1, WrapsOnce
  <1>3. (h + j) % Capacity = IF h + j < Capacity THEN h + j ELSE h + j - Capacity
    BY <1>1, WrapsOnce
  <1>4. h \in Int /\ i \in Int /\ j \in Int /\ Capacity \in Int
        /\ i < Capacity /\ j < Capacity /\ i >= 0 /\ j >= 0
    BY QueueAssumption DEF Index
  <1> QED
    BY <1>2, <1>3, <1>4

\* A stretch of the ring is a sequence.
LEMMA RingIsSequence ==
    ASSUME NEW T, NEW a \in [Index -> T], NEW h \in Index, NEW n \in 0 .. Capacity
    PROVE  /\ Ring(a, h, n) \in Seq(T)
           /\ Len(Ring(a, h, n)) = n
           /\ \A i \in 1 .. n : Ring(a, h, n)[i] = a[(h + (i - 1)) % Capacity]
  <1>1. ASSUME NEW i \in 1 .. n
        PROVE  a[(h + (i - 1)) % Capacity] \in T
    <2>1. i - 1 \in 0 .. Capacity
      BY QueueAssumption
    <2> QED
      BY <2>1, WrapsOnce
  <1>2. n \in Nat
    BY QueueAssumption
  <1> QED
    BY <1>1, <1>2 DEF Ring

\* Writing behind the newest element appends.
LEMMA RingAppend ==
    ASSUME NEW T, NEW a \in [Index -> T], NEW h \in Index, NEW n \in 0 .. Capacity - 1,
           NEW s \in T
    PROVE  Ring([a EXCEPT ![(h + n) % Capacity] = s], h, n + 1) = Append(Ring(a, h, n), s)
  <1> DEFINE e == (h + n) % Capacity
             b == [a EXCEPT ![e] = s]
             m == n + 1
  <1>0. n \in 0 .. Capacity /\ m \in 0 .. Capacity
    BY QueueAssumption
  <1>1. n \in 0 .. Capacity /\ m = n + 1 /\ n \in Nat
    BY QueueAssumption
  <1>2. e \in Index /\ \A i \in 1 .. n : (h + (i - 1)) % Capacity # e
    BY <1>1, WrapsOnce, SlotsDiffer, QueueAssumption
  <1>3. /\ b \in [Index -> T] /\ b[e] = s
        /\ \A j \in Index : j # e => b[j] = a[j]
    BY <1>2
  <1>4. e = (h + (m - 1)) % Capacity
    BY <1>1
  <1> HIDE DEF e, b, m
  <1>5. /\ Ring(b, h, m) \in Seq(T) /\ Len(Ring(b, h, m)) = m
        /\ \A i \in 1 .. m : Ring(b, h, m)[i] = b[(h + (i - 1)) % Capacity]
    BY <1>0, <1>3, RingIsSequence
  <1>6. /\ Ring(a, h, n) \in Seq(T) /\ Len(Ring(a, h, n)) = n
        /\ \A i \in 1 .. n : Ring(a, h, n)[i] = a[(h + (i - 1)) % Capacity]
    BY <1>1, RingIsSequence
  <1>7. /\ Append(Ring(a, h, n), s) \in Seq(T)
        /\ Len(Append(Ring(a, h, n), s)) = m
        /\ Append(Ring(a, h, n), s)[m] = s
        /\ \A i \in 1 .. n : Append(Ring(a, h, n), s)[i] = Ring(a, h, n)[i]
    BY <1>1, <1>6
  <1>8. ASSUME NEW i \in 1 .. m
        PROVE  Ring(b, h, m)[i] = Append(Ring(a, h, n), s)[i]
    <2>1. CASE i = m
      BY <2>1, <1>3, <1>4, <1>5, <1>7
    <2>2. CASE i # m
      <3>1. i \in 1 .. n /\ i - 1 \in 0 .. Capacity
        BY <2>2, <1>1, QueueAssumption
      <3>2. (h + (i - 1)) % Capacity \in Index
        BY <3>1, WrapsOnce
      <3> DEFINE d == (h + (i - 1)) % Capacity
      <3>3. d \in Index /\ d # e
        BY <3>1, <3>2, <1>2
      <3>4. Ring(b, h, m)[i] = b[d] /\ Ring(a, h, n)[i] = a[d]
        BY <3>1, <1>5, <1>6
      <3> HIDE DEF d
      <3> QED
        BY <3>1, <3>3, <3>4, <1>3, <1>7
    <2> QED
      BY <2>1, <2>2
  <1>9. Ring(b, h, m) = Append(Ring(a, h, n), s)
    BY <1>5, <1>7, <1>8, SeqEqual
  <1> QED
    BY <1>9 DEF b, e, m

\* Skipping the k oldest elements removes them.
LEMMA RingDiscard ==
    ASSUME NEW T, NEW a \in [Index -> T], NEW h \in Index, NEW n \in 0 .. Capacity,
           NEW k \in 0 .. n
    PROVE  Ring(a, (h + k) % Capacity, n - k) = SubSeq(Ring(a, h, n), k + 1, n)
  <1> DEFINE g == (h + k) % Capacity
             m == n - k
             rest == SubSeq(Ring(a, h, n), k + 1, n)
  <1>0. k \in 0 .. Capacity /\ m \in 0 .. Capacity
    BY QueueAssumption
  <1>1. /\ k \in 0 .. Capacity /\ m \in 0 .. Capacity /\ m = n - k
        /\ n \in Nat /\ k \in Nat /\ m \in Nat
    BY QueueAssumption
  <1>2. g = IF h + k < Capacity THEN h + k ELSE h + k - Capacity
    BY <1>0, WrapsOnce
  <1>2a. g \in Index
    BY <1>0, WrapsOnce
  <1> HIDE DEF g, m
  <1>3. /\ Ring(a, g, m) \in Seq(T) /\ Len(Ring(a, g, m)) = m
        /\ \A i \in 1 .. m : Ring(a, g, m)[i] = a[(g + (i - 1)) % Capacity]
    BY <1>0, <1>2a, RingIsSequence
  <1>4. /\ Ring(a, h, n) \in Seq(T) /\ Len(Ring(a, h, n)) = n
        /\ \A i \in 1 .. n : Ring(a, h, n)[i] = a[(h + (i - 1)) % Capacity]
    BY RingIsSequence
  <1>5. /\ rest \in Seq(T) /\ Len(rest) = m
        /\ \A i \in 1 .. m : rest[i] = Ring(a, h, n)[k + i]
    <2>1. \A i \in k + 1 .. n : Ring(a, h, n)[i] \in T
      BY <1>1, <1>4, ElementOfSeq
    <2>2. /\ rest \in Seq(T)
          /\ Len(rest) = IF k + 1 <= n THEN n - (k + 1) + 1 ELSE 0
          /\ \A i \in 1 .. n - (k + 1) + 1 : rest[i] = Ring(a, h, n)[k + 1 + i - 1]
      BY <2>1, <1>1, SubSeqProperties
    <2> QED
      BY <2>2, <1>1
  <1> HIDE DEF rest
  <1>6. ASSUME NEW i \in 1 .. m
        PROVE  Ring(a, g, m)[i] = rest[i]
    <2>1. k + i \in 1 .. n /\ i - 1 \in 0 .. Capacity /\ k + i - 1 \in 0 .. Capacity
      BY <1>1, QueueAssumption
    <2>2. (g + (i - 1)) % Capacity = IF g + (i - 1) < Capacity THEN g + (i - 1)
                                                            ELSE g + (i - 1) - Capacity
      BY <2>1, <1>2a, WrapsOnce
    <2>3. (h + (k + i - 1)) % Capacity = IF h + (k + i - 1) < Capacity THEN h + (k + i - 1)
                                                    ELSE h + (k + i - 1) - Capacity
      BY <2>1, WrapsOnce
    <2>4. (g + (i - 1)) % Capacity = (h + (k + i - 1)) % Capacity
      BY <2>1, <2>2, <2>3, <1>1, <1>2, <1>2a, QueueAssumption DEF Index
    <2>5. Ring(a, h, n)[k + i] = a[(h + (k + i - 1)) % Capacity]
      BY <2>1, <1>4
    <2> QED
      BY <2>4, <2>5, <1>3, <1>5
  <1>7. Ring(a, g, m) = rest
    BY <1>3, <1>5, <1>6, SeqEqual
  <1> QED
    BY <1>7 DEF g, m, rest
\* On a full ring, writing over the oldest element and stepping past it
\* drops that element and appends the new one.
LEMMA RingOverwrite ==
    ASSUME NEW T, NEW a \in [Index -> T], NEW h \in Index, NEW s \in T
    PROVE  /\ Ring([a EXCEPT ![h] = s], (h + 1) % Capacity, Capacity)
                = Append(Tail(Ring(a, h, Capacity)), s)
           /\ Ring(a, h, Capacity) # << >>
           /\ a[h] = Head(Ring(a, h, Capacity))
  <1> DEFINE g == (h + 1) % Capacity
             b == [a EXCEPT ![h] = s]
             m == Capacity - 1
  <1>1. /\ 1 \in 0 .. Capacity /\ Capacity \in 0 .. Capacity
        /\ m \in 0 .. Capacity /\ m \in 0 .. Capacity - 1
        /\ Capacity - 1 \in 0 .. Capacity
    BY QueueAssumption
  <1>2. g \in Index
    BY <1>1, WrapsOnce
  <1>3. Ring(a, g, m) = SubSeq(Ring(a, h, Capacity), 2, Capacity)
    <2>1. Ring(a, (h + 1) % Capacity, Capacity - 1) = SubSeq(Ring(a, h, Capacity), 1 + 1, Capacity)
      <3>1. 1 \in 0 .. Capacity /\ Capacity \in 0 .. Capacity
        BY QueueAssumption
      <3> QED
        BY <3>1, RingDiscard
    <2> QED
      BY <2>1
  <1>4. (g + m) % Capacity = h
    <2>1. g = IF h + 1 < Capacity THEN h + 1 ELSE h + 1 - Capacity
      BY <1>1, WrapsOnce
    <2>2. (g + m) % Capacity = IF g + m < Capacity THEN g + m ELSE g + m - Capacity
      BY <1>1, <1>2, WrapsOnce
    <2> QED
      BY <2>1, <2>2, QueueAssumption DEF Index
  <1>5. Ring([a EXCEPT ![(g + m) % Capacity] = s], g, m + 1) = Append(Ring(a, g, m), s)
    BY <1>1, <1>2, RingAppend
  <1>6. Ring(b, g, Capacity) = Append(Ring(a, g, m), s)
    <2>1. m + 1 = Capacity
      BY QueueAssumption
    <2>2. [a EXCEPT ![(g + m) % Capacity] = s] = b
      BY <1>4
    <2> HIDE DEF g, b, m
    <2> QED
      BY <2>1, <2>2, <1>5
  <1>7. /\ Ring(a, h, Capacity) \in Seq(T) /\ Len(Ring(a, h, Capacity)) = Capacity
        /\ \A i \in 1 .. Capacity : Ring(a, h, Capacity)[i] = a[(h + (i - 1)) % Capacity]
    BY <1>1, RingIsSequence
  <1>8. Ring(a, h, Capacity) # << >>
    BY <1>7, EmptySeq, QueueAssumption
  <1>9. Tail(Ring(a, h, Capacity)) = Ring(a, g, m)
    BY <1>3, <1>7, <1>8, TailIsSubSeq
  <1>10. a[h] = Head(Ring(a, h, Capacity))
    <2>1. (h + (1 - 1)) % Capacity = h
      BY QueueAssumption, SMT DEF Index
    <2>2. 1 \in 1 .. Capacity
      BY QueueAssumption
    <2>3. Ring(a, h, Capacity)[1] = a[h]
      BY <2>1, <2>2, <1>7
    <2> QED
      BY <2>3, <1>7, <1>8
  <1> QED
    BY <1>6, <1>8, <1>9, <1>10

-------------------------------------------------------------------------------------
\* Contents is the stretch of size elements at head, now and next.
LEMMA ContentsIsRing ==
    Contents = Ring(samples, head, size) /\ Contents' = Ring(samples', head', size')
  BY DEF Contents, Slot, Ring

\* Contents is a sequence of size elements.
LEMMA ContentsIsSequence ==
    ASSUME NEW S, QueueTypeOK(S)
    PROVE  Contents \in Seq(S \cup {NoSample}) /\ Len(Contents) = size
  BY RingIsSequence, ContentsIsRing DEF QueueTypeOK

\* Every call of enqueue(), full buffer or not: fields stay in range, the
\* sample becomes the newest one, and the oldest is dropped if need be.
LEMMA EnqueueEffect ==
    ASSUME NEW S, QueueTypeOK(S), NEW s \in S, Enqueue(s)
    PROVE  /\ QueueTypeOK(S)'
           /\ Contents' = Append(IF size < Capacity THEN Contents ELSE Tail(Contents), s)
           /\ size = Capacity => samples[head] = Head(Contents) /\ Contents # << >>
           /\ generation' = (generation + 1) % Generations
  <1> DEFINE T == S \cup {NoSample}
  <1>1. /\ samples \in [Index -> T] /\ head \in Index /\ s \in T
        /\ size \in 0 .. Capacity /\ generation \in 0 .. Generations - 1
    BY DEF QueueTypeOK
  <1>2. /\ generation' = (generation + 1) % Generations
        /\ generation' \in 0 .. Generations - 1
    BY <1>1, QueueAssumption DEF Enqueue, EnqueueOverwriting, EnqueueAppending, BumpGeneration
  <1>3. CASE EnqueueAppending(s)
    <2>1. size < Capacity /\ size \in 0 .. Capacity - 1 /\ size + 1 \in 0 .. Capacity
      BY <1>1, <1>3, QueueAssumption DEF EnqueueAppending
    <2>2. (head + size) % Capacity \in Index
      BY <1>1, WrapsOnce
    <2>3. /\ samples' = [samples EXCEPT ![(head + size) % Capacity] = s]
          /\ size' = size + 1 /\ head' = head
      BY <1>3 DEF EnqueueAppending, Slot
    <2>4. samples' \in [Index -> T]
      BY <1>1, <2>3
    <2>5. QueueTypeOK(S)'
      BY <1>1, <1>2, <2>1, <2>3, <2>4 DEF QueueTypeOK
    <2>6. Contents' = Append(Contents, s)
      BY <1>1, <2>1, <2>3, RingAppend, ContentsIsRing
    <2> QED
      BY <1>2, <2>1, <2>5, <2>6
  <1>4. CASE EnqueueOverwriting(s)
    <2>1. /\ size = Capacity /\ size' = Capacity
          /\ samples' = [samples EXCEPT ![head] = s]
          /\ head' = (head + 1) % Capacity
      BY <1>4 DEF EnqueueOverwriting
    <2>2. head' \in Index
      BY <1>1, <2>1, WrapsOnce, QueueAssumption
    <2>3. QueueTypeOK(S)'
      BY <1>1, <1>2, <2>1, <2>2, QueueAssumption DEF QueueTypeOK
    <2>4. /\ Contents' = Append(Tail(Contents), s)
          /\ samples[head] = Head(Contents) /\ Contents # << >>
      <3>1. /\ Ring([samples EXCEPT ![head] = s], (head + 1) % Capacity, Capacity)
                 = Append(Tail(Ring(samples, head, Capacity)), s)
            /\ Ring(samples, head, Capacity) # << >>
            /\ samples[head] = Head(Ring(samples, head, Capacity))
        <4>1. samples \in [Index -> T] /\ head \in Index /\ s \in T
          BY <1>1
        <4> HIDE DEF T
        <4> QED
          BY <4>1, RingOverwrite
      <3> QED
        BY <3>1, <2>1, ContentsIsRing
    <2> QED
      BY <1>2, <2>1, <2>3, <2>4, QueueAssumption
  <1> QED
    BY <1>3, <1>4 DEF Enqueue

\* A discard that is not refused removes the count oldest samples, or all.
LEMMA DiscardEffect ==
    ASSUME NEW S, QueueTypeOK(S), NEW count \in Nat, NEW expected, DiscardOldest(count, expected)
    PROVE  /\ QueueTypeOK(S)'
           /\ Contents' = SubSeq(Contents, count + 1, Len(Contents))
           /\ generation' = (generation + 1) % Generations
  <1> DEFINE k == IF count > size THEN size ELSE count
  <1>1. /\ samples \in [Index -> S \cup {NoSample}] /\ head \in Index
        /\ size \in 0 .. Capacity /\ generation \in 0 .. Generations - 1
    BY DEF QueueTypeOK
  <1>2. k \in 0 .. size /\ k \in 0 .. Capacity /\ size - k \in 0 .. Capacity
    BY <1>1, QueueAssumption
  <1>3. /\ samples' = samples /\ head' = (head + k) % Capacity /\ size' = size - k
        /\ generation' = (generation + 1) % Generations
        /\ generation' \in 0 .. Generations - 1
    BY <1>1, QueueAssumption DEF DiscardOldest, BumpGeneration
  <1> HIDE DEF k
  <1>4. head' \in Index
    BY <1>1, <1>2, <1>3, WrapsOnce
  <1>5. QueueTypeOK(S)'
    BY <1>1, <1>2, <1>3, <1>4 DEF QueueTypeOK
  <1>6. Contents' = SubSeq(Contents, k + 1, size)
    BY <1>1, <1>2, <1>3, RingDiscard, ContentsIsRing
  <1>7. SubSeq(Contents, k + 1, size) = SubSeq(Contents, count + 1, Len(Contents))
    <2>1. Len(Contents) = size
      BY ContentsIsSequence
    <2>2. CASE count <= size
      <3>1. k = count
        BY <2>2, <1>1, QueueAssumption DEF k
      <3> QED
        BY <3>1, <2>1
    <2>3. CASE count > size
      <3>1. k + 1 \in Int /\ count + 1 \in Int /\ size \in Int
            /\ size < k + 1 /\ size < count + 1
        BY <2>3, <1>1, QueueAssumption DEF k
      <3> QED
        BY <3>1, <2>1, SubSeqEmpty
    <2>4. count <= size \/ count > size
      BY <1>1, QueueAssumption
    <2> QED
      BY <2>2, <2>3, <2>4
  <1> QED
    BY <1>3, <1>5, <1>6, <1>7
====================================================================================
