-------------------------- MODULE TelemetryPipelineProofs --------------------------
(***************************************************************************)
(* No sample vanishes from the pipeline, a failed upload cycle leaves the  *)
(* queue alone, and no message that a failed stop() or a reset has left in *)
(* the modem makes the retained message go back in time before the next    *)
(* start(), for every capacity, every number of samples, resets and        *)
(* collections per upload cycle, as long as the generation counter is      *)
(* wider than the latter.                                                  *)
(***************************************************************************)
EXTENDS TelemetryPipeline, TelemetryQueueLemmas

\* The calls of a cycle during which its copy of the queue still matters.
Active == {"start", "publish", "acknowledge", "discard"}

\* While the copy matters, the generation counts the changes since.
BatchCounts ==
    pc \in Active =>
        /\ generation = (batch.generation + changes) % Generations
        /\ changes = 0 => Contents = batch.samples

\* The copy holds samples that were taken, and ends with one that is not
\* older than the retained message.
BatchIsRecent ==
    /\ Elements(batch.samples) \subseteq 1 .. collected
    /\ Newest(retained) <= collected
    /\ pc # "delay" => Newest(retained) <= Newest(batch.samples)

\* What a modem may still send is not newer than the copy of the next cycle, and
\* not older than the retained message unless it has come through a start().  A
\* cycle that publishes finds nothing else to be sent, and none leaves a message
\* behind that would still count as its own.
UnsentIsRecent ==
    /\ Elements(unsent) \subseteq 1 .. collected
    /\ unsent # << >> /\ origin # "carried" => Newest(retained) <= Newest(unsent)
    /\ unsent # << >> /\ pc # "delay" => Newest(unsent) <= Newest(batch.samples)
    /\ pc \in {"publish", "acknowledge", "discard"} => unsent = << >> \/ origin = "carried"
    /\ pc \in {"delay", "start"} => unsent = << >> \/ origin # "cycle"

\* What the uploader is about to remove has reached the broker.
DiscardIsEarned ==
    /\ pc \in {"acknowledge", "discard"} => Elements(batch.samples) \subseteq delivered
    /\ pc = "discard" => err = "ESP_OK"

\* A sample that was given up is not in the queue any more, and only
\* samples that were taken can be given up.
LossesAreFinal ==
    /\ overwritten \cup wiped \subseteq 1 .. collected
    /\ (overwritten \cup wiped) \cap Queued = {}
    /\ size <= collected

\* No upload cycle begins before app_main has created the upload task.
AppMainIsFirst ==
    "app_main" \in running => running = {"app_main"} /\ pc = "delay"

IInv ==
    /\ TypeOK
    /\ QueueIsNewestRun
    /\ NoSampleVanishes
    /\ BatchCounts
    /\ BatchIsRecent
    /\ UnsentIsRecent
    /\ DiscardIsEarned
    /\ LossesAreFinal
    /\ AppMainIsFirst

\* A sequence of naturals has a natural newest element, and the newest of a
\* non-empty one is among its elements.
LEMMA NewestIsNat ==
    ASSUME NEW q \in Seq(Nat)
    PROVE  /\ Newest(q) \in Nat
           /\ q # << >> => Newest(q) \in Elements(q)
  <1>1. CASE q = << >>
    BY <1>1 DEF Newest
  <1>2. CASE q # << >>
    <2>1. Len(q) \in 1 .. Len(q)
      BY <1>2, EmptySeq
    <2>2. q[Len(q)] \in Nat
      BY <2>1, ElementOfSeq
    <2> QED
      BY <1>2, <2>1, <2>2 DEF Newest, Elements
  <1> QED
    BY <1>1, <1>2

\* The n samples that end with sample c, oldest first.
Run(c, n) == [i \in 1 .. n |-> (c - n) + i]

LEMMA RunIsSequence ==
    ASSUME NEW c \in Nat, NEW n \in Nat, n <= c
    PROVE  /\ Run(c, n) \in Seq(Nat)
           /\ Len(Run(c, n)) = n
           /\ \A i \in 1 .. n : Run(c, n)[i] = (c - n) + i
  <1>1. \A i \in 1 .. n : (c - n) + i \in Nat
    OBVIOUS
  <1> QED
    BY <1>1 DEF Run

LEMMA RunElements ==
    ASSUME NEW c \in Nat, NEW n \in Nat, n <= c
    PROVE  Elements(Run(c, n)) = c - n + 1 .. c
  <1>1. /\ Len(Run(c, n)) = n
        /\ \A i \in 1 .. n : Run(c, n)[i] = (c - n) + i
    BY RunIsSequence
  <1>2. Elements(Run(c, n)) \subseteq c - n + 1 .. c
    BY <1>1 DEF Elements
  <1>3. ASSUME NEW s \in c - n + 1 .. c
        PROVE  s \in Elements(Run(c, n))
    <2>1. s - (c - n) \in 1 .. n
      OBVIOUS
    <2>2. Run(c, n)[s - (c - n)] = s
      BY <1>1, <2>1
    <2> QED
      BY <1>1, <2>1, <2>2 DEF Elements
  <1> QED
    BY <1>2, <1>3

LEMMA RunAppend ==
    ASSUME NEW c \in Nat, NEW n \in Nat, n <= c
    PROVE  Append(Run(c, n), c + 1) = Run(c + 1, n + 1)
  <1> DEFINE d == c + 1
             m == n + 1
  <1>1. d \in Nat /\ m \in Nat /\ m <= d
    OBVIOUS
  <1>2. d = c + 1 /\ m = n + 1
    OBVIOUS
  <1> HIDE DEF d, m
  <1>3. /\ Run(d, m) \in Seq(Nat) /\ Len(Run(d, m)) = m
        /\ \A i \in 1 .. m : Run(d, m)[i] = (d - m) + i
    BY <1>1, RunIsSequence
  <1>4. /\ Run(c, n) \in Seq(Nat) /\ Len(Run(c, n)) = n
        /\ \A i \in 1 .. n : Run(c, n)[i] = (c - n) + i
    BY RunIsSequence
  <1>5. /\ Append(Run(c, n), d) \in Seq(Nat) /\ Len(Append(Run(c, n), d)) = m
        /\ \A i \in 1 .. m : Append(Run(c, n), d)[i] = (d - m) + i
    BY <1>1, <1>2, <1>4
  <1>6. Append(Run(c, n), d) = Run(d, m)
    BY <1>3, <1>5, SeqEqual
  <1> QED
    BY <1>6 DEF d, m

LEMMA RunTail ==
    ASSUME NEW c \in Nat, NEW n \in Nat, n <= c, n > 0
    PROVE  /\ Run(c, n) # << >>
           /\ Head(Run(c, n)) = (c - n) + 1
           /\ Tail(Run(c, n)) = Run(c, n - 1)
  <1> DEFINE m == n - 1
  <1>1. m \in Nat /\ m <= c
    OBVIOUS
  <1>2. m = n - 1
    OBVIOUS
  <1> HIDE DEF m
  <1>3. /\ Run(c, m) \in Seq(Nat) /\ Len(Run(c, m)) = m
        /\ \A i \in 1 .. m : Run(c, m)[i] = (c - m) + i
    BY <1>1, RunIsSequence
  <1>4. /\ Run(c, n) \in Seq(Nat) /\ Len(Run(c, n)) = n
        /\ \A i \in 1 .. n : Run(c, n)[i] = (c - n) + i
    BY RunIsSequence
  <1>5. Run(c, n) # << >>
    BY <1>4, EmptySeq
  <1>6. /\ Tail(Run(c, n)) \in Seq(Nat) /\ Len(Tail(Run(c, n))) = m
        /\ \A i \in 1 .. m : Tail(Run(c, n))[i] = Run(c, n)[i + 1]
    BY <1>2, <1>4, <1>5, HeadTailProperties
  <1>7. \A i \in 1 .. m : Run(c, n)[i + 1] = (c - m) + i
    BY <1>1, <1>2, <1>4
  <1>8. Tail(Run(c, n)) = Run(c, m)
    BY <1>3, <1>6, <1>7, SeqEqual
  <1>9. Head(Run(c, n)) = (c - n) + 1
    BY <1>4, <1>5
  <1> QED
    BY <1>5, <1>8, <1>9 DEF m

\* What the invariant says of the queue, in the form the steps use it.
LEMMA QueueFacts ==
    ASSUME IInv
    PROVE  /\ QueueTypeOK(Nat)
           /\ collected \in 0 .. MaxSamples /\ collected \in Nat
           /\ size \in 0 .. Capacity /\ size \in Nat /\ size <= collected
           /\ Len(Contents) = size
           /\ Contents \in Seq(Nat)
           /\ Queued = collected - size + 1 .. collected
           /\ Contents = Run(collected, size)
  <1>1. QueueTypeOK(Nat) /\ collected \in 0 .. MaxSamples /\ size <= collected
    BY DEF IInv, TypeOK, LossesAreFinal
  <1>2. collected \in Nat /\ size \in 0 .. Capacity /\ size \in Nat
    BY <1>1, PipelineAssumption, QueueAssumption DEF QueueTypeOK
  <1>3. Len(Contents) = size
    BY <1>1, ContentsIsSequence
  <1>4. Contents = Run(collected, size)
    BY DEF IInv, QueueIsNewestRun, Run
  <1> QED
    BY <1>1, <1>2, <1>3, <1>4, RunIsSequence, RunElements DEF Queued

LEMMA QueueUnchanged ==
    ASSUME UNCHANGED queueVars
    PROVE  Contents' = Contents /\ Queued' = Queued /\ PeekAll' = PeekAll
  BY DEF queueVars, Contents, Slot, Queued, Elements, PeekAll

\* A sample taken becomes the newest of the queue; in a full queue the
\* oldest one is overwritten, and no other leaves.
LEMMA CollectEffect ==
    ASSUME IInv, CollectOnce
    PROVE  /\ QueueTypeOK(Nat)'
           /\ collected' = collected + 1 /\ collected' \in 0 .. MaxSamples
           /\ generation' = (generation + 1) % Generations
           /\ QueueIsNewestRun'
           /\ size' \in Nat /\ size' <= collected'
           /\ Queued' = collected' - size' + 1 .. collected'
           /\ overwritten' = overwritten \cup (Queued \ Queued')
  <1> DEFINE s == collected + 1
  <1>1. /\ QueueTypeOK(Nat) /\ collected \in 0 .. MaxSamples /\ collected \in Nat
        /\ size \in 0 .. Capacity /\ size \in Nat /\ size <= collected
        /\ Len(Contents) = size /\ Contents \in Seq(Nat)
        /\ Queued = collected - size + 1 .. collected
    BY QueueFacts
  <1>2. s \in Nat /\ Enqueue(s) /\ collected' = s /\ collected < MaxSamples
    BY <1>1 DEF CollectOnce
  <1>3. /\ QueueTypeOK(Nat)'
        /\ Contents' = Append(IF size < Capacity THEN Contents ELSE Tail(Contents), s)
        /\ size = Capacity => samples[head] = Head(Contents) /\ Contents # << >>
        /\ generation' = (generation + 1) % Generations
    BY <1>1, <1>2, EnqueueEffect
  <1>4. size' = IF size < Capacity THEN size + 1 ELSE size
    BY <1>1, <1>2, QueueAssumption DEF Enqueue, EnqueueOverwriting, EnqueueAppending
  <1>5. size' \in Nat /\ size' <= collected' /\ Capacity \in Nat
    BY <1>1, <1>2, <1>4, QueueAssumption
  <1>6. collected' \in Nat /\ Contents = Run(collected, size)
    BY <1>1, <1>2, QueueFacts
  <1>7. Contents' = Run(collected', size')
    <2>1. CASE size < Capacity
      <3>1. Contents' = Append(Run(collected, size), collected + 1) /\ size' = size + 1
        BY <2>1, <1>3, <1>4, <1>6
      <3>2. Append(Run(collected, size), collected + 1) = Run(collected + 1, size + 1)
        BY <1>1, RunAppend
      <3> QED
        BY <3>1, <3>2, <1>2
    <2>2. CASE ~(size < Capacity)
      <3>1. size' = size /\ size > 0 /\ size - 1 \in Nat /\ size - 1 <= collected
        BY <2>2, <1>1, <1>4, QueueAssumption
      <3>2. Contents' = Append(Run(collected, size - 1), collected + 1)
        <4>1. Tail(Run(collected, size)) = Run(collected, size - 1)
          BY <3>1, <1>1, RunTail
        <4>2. Contents' = Append(Tail(Contents), s)
          BY <2>2, <1>3
        <4> QED
          BY <4>1, <4>2, <1>6
      <3>3. Append(Run(collected, size - 1), collected + 1) = Run(collected + 1, size - 1 + 1)
        BY <3>1, <1>1, RunAppend
      <3>4. size - 1 + 1 = size
        BY <1>1
      <3> QED
        BY <3>1, <3>2, <3>3, <3>4, <1>2
    <2> QED
      BY <2>1, <2>2
  <1>8. Queued' = collected' - size' + 1 .. collected'
    <2>1. Queued' = Elements(Run(collected', size'))
      BY <1>7 DEF Queued, Elements
    <2> QED
      BY <2>1, <1>5, <1>6, RunElements
  <1>9. overwritten' = overwritten \cup (Queued \ Queued')
    <2>1. CASE size < Capacity
      <3>1. Queued \subseteq Queued' /\ size # Capacity
        BY <2>1, <1>1, <1>2, <1>4, <1>8, <1>5
      <3> QED
        BY <3>1 DEF CollectOnce
    <2>2. CASE ~(size < Capacity)
      <3>1. size = Capacity /\ size' = size /\ size > 0
        BY <2>2, <1>1, <1>4, <1>5, QueueAssumption
      <3>2. samples[head] = (collected - size) + 1
        BY <3>1, <1>1, <1>3, <1>6, RunTail
      <3>3. Queued \ Queued' = {(collected - size) + 1}
        BY <3>1, <1>1, <1>2, <1>8
      <3> QED
        BY <3>1, <3>2, <3>3 DEF CollectOnce
    <2> QED
      BY <2>1, <2>2
  <1>10. QueueIsNewestRun'
    BY <1>7 DEF QueueIsNewestRun, Run
  <1>11. collected' = collected + 1 /\ collected' \in 0 .. MaxSamples
    BY <1>1, <1>2, PipelineAssumption
  <1> QED
    BY <1>3, <1>5, <1>8, <1>9, <1>10, <1>11

\* Counting one more change commutes with the wrap of the counter.
LEMMA GenerationStep ==
    ASSUME NEW b \in 0 .. Generations - 1, NEW c \in Nat, c < MaxChanges
    PROVE  (((b + c) % Generations) + 1) % Generations = (b + (c + 1)) % Generations
  BY PipelineAssumption, QueueAssumption, SMT

\* Fewer changes than the counter has values are told apart from none.
LEMMA GenerationTells ==
    ASSUME NEW b \in 0 .. Generations - 1, NEW c \in 0 .. MaxChanges
    PROVE  (b + c) % Generations = b <=> c = 0
  BY PipelineAssumption, QueueAssumption, SMT

-------------------------------------------------------------------------------------
LEMMA InitInvariant == Init => IInv
  <1> SUFFICES ASSUME Init PROVE IInv
    OBVIOUS
  <1>1. QueueTypeOK(Nat) /\ size = 0 /\ collected = 0
    BY QueueAssumption DEF Init, QueueInit, QueueTypeOK, Index
  <1>2. Contents = Run(0, 0)
    BY <1>1 DEF Contents, Run
  <1>3. Queued = {}
    <2>1. Queued = 0 - 0 + 1 .. 0
      BY <1>2, RunElements DEF Queued
    <2> QED
      BY <2>1
  <1>4. << >> \in Seq(Nat) /\ Elements(<< >>) = {} /\ Newest(<< >>) = 0
    BY EmptySeq DEF Elements, Newest
  <1>5. TypeOK
    BY <1>1, <1>4, QueueAssumption, PipelineAssumption DEF Init, TypeOK, NoBatch, Task, Origin
  <1>6. QueueIsNewestRun
    BY <1>1, <1>2 DEF QueueIsNewestRun, Run
  <1>7. NoSampleVanishes /\ LossesAreFinal
    BY <1>1, <1>3 DEF Init, NoSampleVanishes, LossesAreFinal
  <1>8. BatchCounts /\ DiscardIsEarned /\ AppMainIsFirst
    BY DEF Init, BatchCounts, Active, DiscardIsEarned, AppMainIsFirst
  <1>9. BatchIsRecent
    BY <1>1, <1>4 DEF Init, BatchIsRecent, Active, NoBatch
  <1>10. UnsentIsRecent
    BY <1>4 DEF Init, UnsentIsRecent
  <1> QED
    BY <1>5, <1>6, <1>7, <1>8, <1>9, <1>10 DEF IInv

\* The parts of the invariant that no change of the uploader's own state
\* can disturb.
LEMMA QueueFrame ==
    ASSUME IInv, UNCHANGED <<queueVars, collected, overwritten, wiped>>, delivered \subseteq delivered'
    PROVE  /\ QueueIsNewestRun' /\ NoSampleVanishes' /\ LossesAreFinal'
           /\ QueueTypeOK(Nat)' /\ Contents' = Contents
           /\ UNCHANGED <<generation, size>>
  <1>1. Contents' = Contents /\ Queued' = Queued
    BY QueueUnchanged
  <1>2. QueueTypeOK(Nat)' /\ UNCHANGED <<generation, size>>
    BY DEF IInv, TypeOK, QueueTypeOK, queueVars
  <1> QED
    BY <1>1, <1>2 DEF IInv, QueueIsNewestRun, NoSampleVanishes, LossesAreFinal, queueVars

\* Nor does a step disturb what is still to be sent that leaves it, the copy and
\* the retained message alone.
LEMMA UnsentFrame ==
    ASSUME IInv, UNCHANGED <<pc, batch, retained, unsent, origin>>,
           collected' = collected \/ collected' = collected + 1
    PROVE  UnsentIsRecent'
  <1>1. collected \in Nat
    BY QueueFacts
  <1>2. 1 .. collected \subseteq 1 .. collected'
    BY <1>1
  <1>3. Elements(unsent) \subseteq 1 .. collected /\ Elements(unsent') = Elements(unsent)
    BY DEF IInv, UnsentIsRecent
  <1> QED
    BY <1>2, <1>3 DEF IInv, UnsentIsRecent

\* It is a sequence whose newest sample has been taken.
LEMMA UnsentFacts ==
    ASSUME IInv
    PROVE  /\ unsent \in Seq(Nat) /\ Newest(unsent) \in Nat /\ collected \in Nat
           /\ unsent # << >> => Newest(unsent) <= collected
  <1>1. unsent \in Seq(Nat) /\ Elements(unsent) \subseteq 1 .. collected /\ collected \in Nat
    BY QueueFacts DEF IInv, TypeOK, UnsentIsRecent
  <1>2. Newest(unsent) \in Nat /\ (unsent # << >> => Newest(unsent) \in Elements(unsent))
    BY <1>1, NewestIsNat
  <1> QED
    BY <1>1, <1>2

\* Two intervals of newest samples, before and after one more is taken.
LEMMA Intervals ==
    ASSUME NEW c \in Nat, NEW n \in Nat, NEW m \in Nat, m <= n + 1
    PROVE  /\ m # 0 => c + 1 \in (c + 1) - m + 1 .. c + 1
           /\ (c + 1) - m + 1 .. c + 1 \subseteq (c - n + 1 .. c) \cup {c + 1}
           /\ c + 1 \notin 1 .. c
  OBVIOUS

\* A collection, whoever makes it: its effect on the parts of the invariant
\* that speak of the queue and of the losses.
LEMMA CollectFrame ==
    ASSUME IInv, CollectOnce, UNCHANGED <<wiped, delivered>>
    PROVE  /\ QueueIsNewestRun' /\ NoSampleVanishes' /\ LossesAreFinal'
           /\ QueueTypeOK(Nat)' /\ collected' \in 0 .. MaxSamples
           /\ overwritten' \subseteq 1 .. MaxSamples
           /\ collected \in Nat /\ collected' = collected + 1
  <1>1. /\ collected \in 0 .. MaxSamples /\ collected \in Nat
        /\ size \in Nat /\ size <= collected
        /\ Queued = collected - size + 1 .. collected
    BY QueueFacts
  <1>2. /\ QueueTypeOK(Nat)' /\ QueueIsNewestRun'
        /\ collected' = collected + 1 /\ collected' \in 0 .. MaxSamples
        /\ size' \in Nat /\ size' <= collected'
        /\ Queued' = collected' - size' + 1 .. collected'
        /\ overwritten' = overwritten \cup (Queued \ Queued')
    BY CollectEffect
  <1>3. /\ collected' \in Queued' \/ size' = 0
        /\ Queued' \subseteq Queued \cup {collected + 1}
        /\ collected + 1 \notin 1 .. collected
    <2>1. size' <= size + 1
      BY <1>1 DEF CollectOnce, Enqueue, EnqueueOverwriting, EnqueueAppending
    <2>2. /\ size' # 0 => collected + 1 \in (collected + 1) - size' + 1 .. collected + 1
          /\ (collected + 1) - size' + 1 .. collected + 1
                \subseteq (collected - size + 1 .. collected) \cup {collected + 1}
          /\ collected + 1 \notin 1 .. collected
      <3>1. size' \in Nat
        BY <1>2
      <3> QED
        BY <2>1, <3>1, <1>1, Intervals
    <2> QED
      BY <1>1, <1>2, <2>2
  <1>4. size' # 0
    <2>1. Enqueue(collected + 1) /\ QueueTypeOK(Nat)
      BY QueueFacts DEF CollectOnce
    <2> QED
      BY <2>1, QueueAssumption DEF Enqueue, EnqueueOverwriting, EnqueueAppending, QueueTypeOK
  <1>5. NoSampleVanishes'
    <2>1. 1 .. collected' = (1 .. collected) \cup {collected'}
      BY <1>1, <1>2
    <2>2. 1 .. collected \subseteq Queued \cup delivered \cup overwritten \cup wiped
      BY DEF IInv, NoSampleVanishes
    <2> QED
      BY <1>2, <1>3, <1>4, <2>1, <2>2 DEF NoSampleVanishes
  <1>6. LossesAreFinal'
    <2>1. /\ overwritten \cup wiped \subseteq 1 .. collected
          /\ (overwritten \cup wiped) \cap Queued = {}
      BY DEF IInv, LossesAreFinal
    <2>2. Queued \subseteq 1 .. collected
      BY <1>1
    <2>3. overwritten' \cup wiped' \subseteq 1 .. collected'
      BY <1>1, <1>2, <2>1, <2>2
    <2>4. (overwritten' \cup wiped') \cap Queued' = {}
      BY <1>2, <1>3, <2>1
    <2> QED
      BY <1>2, <2>3, <2>4 DEF LossesAreFinal
  <1>7. overwritten' \subseteq 1 .. MaxSamples
    <2>1. Queued \subseteq 1 .. MaxSamples
      BY <1>1, PipelineAssumption
    <2> QED
      BY <1>2, <2>1 DEF IInv, TypeOK
  <1> QED
    BY <1>1, <1>2, <1>5, <1>6, <1>7

-------------------------------------------------------------------------------------
LEMMA AppMainPreserves ==
    ASSUME IInv, NEW created \in SUBSET {"metric_collect", "mqtt_upload"},
           AppMainStartsTasks(created)
    PROVE  IInv'
  <1>1. /\ UNCHANGED <<pc, err, batch, changes, wiped, delivered, retained, unsent, origin, resets>>
        /\ running' = created /\ pc = "delay"
    BY DEF AppMainStartsTasks, worldVars, brokerVars, modemVars, IInv, AppMainIsFirst
  <1>2. CASE CollectOnce
    <2>1. /\ QueueIsNewestRun' /\ NoSampleVanishes' /\ LossesAreFinal' /\ QueueTypeOK(Nat)'
          /\ collected' \in 0 .. MaxSamples /\ overwritten' \subseteq 1 .. MaxSamples
          /\ collected \in Nat /\ collected' = collected + 1
      BY <1>1, <1>2, CollectFrame
    <2>2. TypeOK'
      BY <1>1, <2>1 DEF IInv, TypeOK, Task
    <2>3. BatchCounts' /\ DiscardIsEarned' /\ AppMainIsFirst'
      BY <1>1 DEF BatchCounts, Active, DiscardIsEarned, AppMainIsFirst
    <2>4. BatchIsRecent'
      <3>1. /\ Elements(batch.samples) \subseteq 1 .. collected
            /\ Newest(retained) \in Nat /\ Newest(retained) <= collected
        BY NewestIsNat DEF IInv, TypeOK, BatchIsRecent
      <3>2. 1 .. collected \subseteq 1 .. collected' /\ Newest(retained) <= collected'
        BY <2>1, <3>1
      <3>3. batch' = batch /\ Newest(retained') = Newest(retained) /\ pc' = "delay"
        BY <1>1
      <3> QED
        BY <3>1, <3>2, <3>3 DEF BatchIsRecent
    <2>5. UnsentIsRecent'
      BY <1>1, <2>1, UnsentFrame
    <2> QED
      BY <2>1, <2>2, <2>3, <2>4, <2>5 DEF IInv
  <1>3. CASE UNCHANGED <<queueVars, collected, overwritten>>
    <2>1. /\ QueueIsNewestRun' /\ NoSampleVanishes' /\ LossesAreFinal' /\ QueueTypeOK(Nat)'
      BY <1>1, <1>3, QueueFrame
    <2>2. TypeOK'
      BY <1>1, <1>3, <2>1 DEF IInv, TypeOK, Task
    <2>3. BatchCounts' /\ DiscardIsEarned' /\ AppMainIsFirst'
      BY <1>1 DEF BatchCounts, Active, DiscardIsEarned, AppMainIsFirst
    <2>4. BatchIsRecent'
      BY <1>1, <1>3 DEF IInv, BatchIsRecent, Active
    <2>5. UnsentIsRecent'
      BY <1>1, <1>3, UnsentFrame
    <2> QED
      BY <2>1, <2>2, <2>3, <2>4, <2>5 DEF IInv
  <1> QED
    BY <1>2, <1>3 DEF AppMainStartsTasks

LEMMA CollectPreserves ==
    ASSUME IInv, CollectPeriodically
    PROVE  IInv'
  <1>1. /\ UNCHANGED <<pc, err, batch, running, wiped, delivered, retained, unsent, origin, resets>>
        /\ CollectOnce /\ "metric_collect" \in running
        /\ pc # "delay" => changes < MaxChanges /\ changes' = changes + 1
        /\ pc = "delay" => changes' = changes
    BY DEF CollectPeriodically, worldVars, brokerVars, modemVars
  <1>2. /\ QueueIsNewestRun' /\ NoSampleVanishes' /\ LossesAreFinal' /\ QueueTypeOK(Nat)'
        /\ collected' \in 0 .. MaxSamples /\ overwritten' \subseteq 1 .. MaxSamples
        /\ collected \in Nat /\ collected' = collected + 1
    BY <1>1, CollectFrame
  <1>3. changes \in 0 .. MaxChanges /\ changes' \in 0 .. MaxChanges /\ changes \in Nat
    BY <1>1, PipelineAssumption DEF IInv, TypeOK
  <1>4. TypeOK'
    BY <1>1, <1>2, <1>3 DEF IInv, TypeOK
  <1>5. BatchCounts'
    <2> SUFFICES ASSUME pc \in Active
                 PROVE  /\ generation' = (batch.generation + changes') % Generations
                        /\ changes' # 0
      BY <1>1 DEF BatchCounts
    <2>1. /\ changes < MaxChanges /\ changes' = changes + 1
          /\ generation = (batch.generation + changes) % Generations
          /\ batch.generation \in 0 .. Generations - 1
      BY <1>1 DEF IInv, TypeOK, BatchCounts, Active
    <2>2. generation' = (generation + 1) % Generations
      BY <1>1, CollectEffect
    <2>3. generation' = (batch.generation + changes') % Generations
      BY <1>3, <2>1, <2>2, GenerationStep
    <2> QED
      BY <1>3, <2>1, <2>3
  <1>6. DiscardIsEarned'
    BY <1>1 DEF IInv, DiscardIsEarned
  <1>7. AppMainIsFirst'
    BY <1>1 DEF IInv, AppMainIsFirst
  <1>8. BatchIsRecent'
    <2>1. /\ Elements(batch.samples) \subseteq 1 .. collected
          /\ Newest(retained) \in Nat /\ Newest(retained) <= collected
          /\ pc # "delay" => Newest(retained) <= Newest(batch.samples)
      BY NewestIsNat DEF IInv, TypeOK, BatchIsRecent
    <2>2. 1 .. collected \subseteq 1 .. collected' /\ Newest(retained) <= collected'
      BY <1>2, <2>1
    <2>3. batch' = batch /\ Newest(retained') = Newest(retained) /\ pc' = pc
      BY <1>1
    <2> QED
      BY <2>1, <2>2, <2>3 DEF BatchIsRecent
  <1>9. UnsentIsRecent'
    BY <1>1, <1>2, UnsentFrame
  <1> QED
    BY <1>2, <1>4, <1>5, <1>6, <1>7, <1>8, <1>9 DEF IInv

LEMMA PeekPreserves ==
    ASSUME IInv, PeekQueue
    PROVE  IInv'
  <1>1. /\ UNCHANGED <<queueVars, err, running, delivered, retained, unsent, origin>>
        /\ UNCHANGED <<overwritten, wiped, collected, resets>>
        /\ pc = "delay" /\ size > 0 /\ pc' = "start" /\ changes' = 0
        /\ batch' = [samples |-> Contents, generation |-> generation]
        /\ "mqtt_upload" \in running
    BY DEF PeekQueue, PeekAll, worldVars, brokerVars, modemVars, lossVars
  <1>2. /\ QueueIsNewestRun' /\ NoSampleVanishes' /\ LossesAreFinal' /\ QueueTypeOK(Nat)'
        /\ Contents' = Contents /\ UNCHANGED <<generation, size>>
    BY <1>1, QueueFrame
  <1>3. /\ QueueTypeOK(Nat) /\ collected \in Nat /\ size \in Nat /\ size <= collected
        /\ Len(Contents) = size /\ Contents \in Seq(Nat)
        /\ Contents = Run(collected, size)
    BY QueueFacts
  <1>4. generation \in 0 .. Generations - 1
    BY <1>3 DEF QueueTypeOK
  <1>5. TypeOK'
    BY <1>1, <1>2, <1>3, <1>4, PipelineAssumption DEF IInv, TypeOK
  <1>6. BatchCounts'
    <2>1. generation' = (batch'.generation + changes') % Generations
      <3>1. (generation + 0) % Generations = generation
        BY <1>4, QueueAssumption, SMT
      <3> QED
        BY <3>1, <1>1, <1>2
    <2> QED
      BY <2>1, <1>1, <1>2 DEF BatchCounts
  <1>7. DiscardIsEarned' /\ AppMainIsFirst'
    BY <1>1 DEF IInv, DiscardIsEarned, AppMainIsFirst
  <1>8. BatchIsRecent' /\ UnsentIsRecent'
    <2>1. Elements(Contents) = collected - size + 1 .. collected
      BY <1>3, RunElements
    <2>2. Elements(Contents) \subseteq 1 .. collected
      BY <1>3, <2>1
    <2>3. Newest(Contents) = collected
      <3>1. Contents # << >>
        BY <1>1, <1>3, RunTail
      <3>2. Contents[size] = (collected - size) + size
        BY <1>1, <1>3, RunIsSequence
      <3> QED
        BY <3>1, <3>2, <1>3 DEF Newest
    <2>4. Newest(retained) <= collected
      BY DEF IInv, BatchIsRecent
    <2>5. batch'.samples = Contents /\ retained' = retained /\ collected' = collected
      BY <1>1
    <2>6. BatchIsRecent'
      BY <2>2, <2>3, <2>4, <2>5 DEF BatchIsRecent
    <2>7. UnsentIsRecent'
      BY <1>1, <2>3, UnsentFacts DEF IInv, UnsentIsRecent
    <2> QED
      BY <2>6, <2>7
  <1> QED
    BY <1>2, <1>5, <1>6, <1>7, <1>8 DEF IInv

\* The calls into the modem that neither deliver nor end the cycle.
LEMMA ModemCallPreserves ==
    ASSUME IInv,
           StartModem \/ PublishFails \/ PublishSucceeds \/ PublishFailsAfterReceipt
    PROVE  IInv'
  <1>1. /\ UNCHANGED <<queueVars, batch, running, changes, delivered, retained>>
        /\ UNCHANGED <<overwritten, wiped, collected, resets>>
        /\ \/ pc = "start" /\ pc' = "publish"
              /\ unsent' = unsent /\ origin' = IF origin = "left" THEN "carried" ELSE origin
           \/ pc = "acknowledge" /\ pc' = "discard" /\ err' = "ESP_OK" /\ UNCHANGED <<unsent, origin>>
           \/ pc \in {"publish", "acknowledge"} /\ pc' = "stop" /\ GivenUp
        /\ err' \in {"ESP_OK", "ESP_FAIL"}
    BY DEF StartModem, PublishFails, PublishSucceeds, PublishFailsAfterReceipt, worldVars, brokerVars,
           modemVars, lossVars
  <1>2. /\ QueueIsNewestRun' /\ NoSampleVanishes' /\ LossesAreFinal' /\ QueueTypeOK(Nat)'
        /\ Contents' = Contents /\ UNCHANGED <<generation, size>>
    BY <1>1, QueueFrame
  <1>3. \/ unsent' = << >> /\ origin' \in Origin
        \/ unsent' = unsent /\ unsent # << >> /\ origin' = "carried"
        \/ unsent' = batch.samples /\ origin' = "cycle" /\ pc' = "stop"
    BY <1>1 DEF IInv, TypeOK, UnsentIsRecent, Origin, GivenUp, NothingUnsent, modemVars
  <1>4. /\ << >> \in Seq(Nat) /\ Elements(<< >>) = {}
        /\ batch.samples \in Seq(Nat) /\ Newest(batch.samples) \in Nat
    BY NewestIsNat, EmptySeq DEF IInv, TypeOK, Elements
  <1>5. TypeOK'
    BY <1>1, <1>2, <1>3, <1>4 DEF IInv, TypeOK, Origin
  <1>6. BatchCounts'
    BY <1>1, <1>2 DEF IInv, BatchCounts, Active
  <1>7. BatchIsRecent'
    BY <1>1 DEF IInv, BatchIsRecent, Active
  <1>8. UnsentIsRecent'
    <2>1. CASE unsent' = << >>
      BY <2>1, <1>4 DEF UnsentIsRecent
    <2>2. CASE unsent' = unsent /\ unsent # << >> /\ origin' = "carried"
      BY <2>2, <1>1 DEF IInv, UnsentIsRecent
    <2>3. CASE unsent' = batch.samples /\ origin' = "cycle" /\ pc' = "stop"
      <3>1. /\ Elements(batch.samples) \subseteq 1 .. collected
            /\ Newest(retained) <= Newest(batch.samples)
        BY <1>1 DEF IInv, BatchIsRecent
      <3> QED
        BY <2>3, <3>1, <1>1, <1>4 DEF UnsentIsRecent
    <2> QED
      BY <1>3, <2>1, <2>2, <2>3
  <1>9. DiscardIsEarned' /\ AppMainIsFirst'
    BY <1>1 DEF IInv, DiscardIsEarned, AppMainIsFirst
  <1> QED
    BY <1>2, <1>5, <1>6, <1>7, <1>8, <1>9 DEF IInv

LEMMA ReceiptPreserves ==
    ASSUME IInv, BrokerReceives \/ BrokerReceivesLate
    PROVE  IInv'
  <1> DEFINE message == IF BrokerReceives THEN batch.samples ELSE unsent
  <1>1. /\ UNCHANGED <<queueVars, err, batch, running, changes, overwritten, wiped, collected, resets>>
        /\ \/ pc = "publish" /\ pc' = "acknowledge" /\ message = batch.samples
           \/ pc' = pc /\ message = unsent /\ unsent # << >>
        /\ delivered' = delivered \cup Elements(message)
        /\ retained' = message
    <2>1. CASE BrokerReceives
      BY <2>1 DEF BrokerReceives, lossVars
    <2>2. CASE ~BrokerReceives
      BY <2>2 DEF BrokerReceivesLate, lossVars, taskVars
    <2> QED
      BY <2>1, <2>2
  <1>2. /\ \/ unsent' = << >>
           \/ unsent' = unsent /\ origin' = "carried" /\ pc # "delay" /\ pc' = "acknowledge"
        /\ origin' \in Origin
    BY DEF BrokerReceives, BrokerReceivesLate, NothingUnsent, modemVars, Origin, IInv, TypeOK, UnsentIsRecent
  <1> HIDE DEF message
  <1>3. /\ QueueIsNewestRun' /\ NoSampleVanishes' /\ LossesAreFinal' /\ QueueTypeOK(Nat)'
        /\ Contents' = Contents /\ UNCHANGED <<generation, size>>
    BY <1>1, QueueFrame
  <1>4. /\ collected \in 0 .. MaxSamples /\ collected \in Nat
        /\ message \in Seq(Nat) /\ Elements(message) \subseteq 1 .. collected
        /\ Newest(message) \in Nat /\ Newest(message) <= collected
        /\ pc # "delay" => Newest(message) <= Newest(batch.samples)
    <2>1. /\ collected \in 0 .. MaxSamples /\ collected \in Nat
          /\ batch.samples \in Seq(Nat) /\ Elements(batch.samples) \subseteq 1 .. collected
          /\ Newest(batch.samples) \in Nat /\ Newest(batch.samples) <= Newest(batch.samples)
      BY QueueFacts, NewestIsNat DEF IInv, TypeOK, BatchIsRecent
    <2>2. CASE message = batch.samples
      <3>1. Newest(batch.samples) <= collected
        <4>1. CASE batch.samples = << >>
          BY <4>1, <2>1 DEF Newest
        <4>2. CASE batch.samples # << >>
          BY <4>2, <2>1, NewestIsNat
        <4> QED
          BY <4>1, <4>2
      <3> QED
        BY <2>1, <2>2, <3>1
    <2>3. CASE message = unsent /\ unsent # << >>
      <3>1. /\ Elements(unsent) \subseteq 1 .. collected
            /\ pc # "delay" => Newest(unsent) <= Newest(batch.samples)
        BY <2>3 DEF IInv, UnsentIsRecent
      <3> QED
        BY <2>1, <2>3, <3>1, UnsentFacts
    <2> QED
      BY <1>1, <2>2, <2>3
  <1>5. Elements(message) \subseteq 1 .. MaxSamples
    BY <1>4, PipelineAssumption
  <1>6. << >> \in Seq(Nat) /\ Elements(<< >>) = {}
    BY EmptySeq DEF Elements
  <1>7. TypeOK'
    BY <1>1, <1>2, <1>3, <1>4, <1>5, <1>6 DEF IInv, TypeOK
  <1>8. BatchCounts'
    BY <1>1, <1>3 DEF IInv, BatchCounts, Active
  <1>9. BatchIsRecent'
    <2>1. batch' = batch /\ collected' = collected /\ retained' = message
      BY <1>1
    <2>2. pc' # "delay" => pc # "delay"
      BY <1>1
    <2>3. Elements(batch.samples) \subseteq 1 .. collected
      BY DEF IInv, BatchIsRecent
    <2> QED
      BY <1>4, <2>1, <2>2, <2>3 DEF BatchIsRecent
  <1>10. UnsentIsRecent'
    BY <1>1, <1>2, <1>6 DEF IInv, UnsentIsRecent
  <1>11. DiscardIsEarned' /\ AppMainIsFirst'
    BY <1>1 DEF IInv, DiscardIsEarned, AppMainIsFirst
  <1> QED
    BY <1>3, <1>7, <1>8, <1>9, <1>10, <1>11 DEF IInv

\* A cycle ends: its copy goes out of scope.
LEMMA CycleEndPreserves ==
    ASSUME IInv, StartModemFails \/ StopModem
    PROVE  IInv'
  <1>1. /\ UNCHANGED <<queueVars, running, delivered, retained>>
        /\ UNCHANGED <<overwritten, wiped, collected, resets>>
        /\ pc' = "delay" /\ batch' = NoBatch /\ changes' = 0 /\ err' \in {"ESP_OK", "ESP_FAIL"}
        /\ pc # "delay" /\ origin' \in Origin
        /\ \/ unsent' = << >>
           \/ unsent' = unsent /\ origin' # "cycle" /\ (origin' = "carried") = (origin = "carried")
    BY DEF StartModemFails, StopModem, NothingUnsent, LeftOn, modemVars, brokerVars, lossVars, Origin,
           IInv, TypeOK, UnsentIsRecent
  <1>2. /\ QueueIsNewestRun' /\ NoSampleVanishes' /\ LossesAreFinal' /\ QueueTypeOK(Nat)'
    BY <1>1, QueueFrame
  <1>3. /\ NoBatch \in [samples : Seq(Nat), generation : 0 .. Generations - 1]
        /\ Elements(NoBatch.samples) = {}
        /\ << >> \in Seq(Nat) /\ Elements(<< >>) = {}
    BY QueueAssumption, EmptySeq DEF NoBatch, Elements
  <1>4. TypeOK'
    <2>1. changes' \in 0 .. MaxChanges
      BY <1>1, PipelineAssumption
    <2> QED
      BY <1>1, <1>2, <1>3, <2>1 DEF IInv, TypeOK
  <1>5. BatchCounts' /\ DiscardIsEarned' /\ AppMainIsFirst'
    BY <1>1 DEF IInv, BatchCounts, Active, DiscardIsEarned, AppMainIsFirst
  <1>6. BatchIsRecent'
    BY <1>1, <1>3 DEF IInv, BatchIsRecent, Active
  <1>7. UnsentIsRecent'
    BY <1>1, <1>3 DEF IInv, UnsentIsRecent
  <1> QED
    BY <1>2, <1>4, <1>5, <1>6, <1>7 DEF IInv

\* A trim either removes the whole queue, which then is the copy the broker
\* has, or leaves everything as it is.
LEMMA TrimPreserves ==
    ASSUME IInv, TrimQueue
    PROVE  IInv'
  <1>1. /\ UNCHANGED <<err, batch, running, changes, delivered, retained, unsent, origin>>
        /\ UNCHANGED <<overwritten, wiped, collected, resets>>
        /\ pc = "discard" /\ pc' = "stop"
    BY DEF TrimQueue, worldVars, brokerVars, modemVars, lossVars
  <1>2. BatchCounts' /\ DiscardIsEarned' /\ AppMainIsFirst'
    BY <1>1 DEF IInv, BatchCounts, Active, DiscardIsEarned, AppMainIsFirst
  <1>3. BatchIsRecent' /\ UnsentIsRecent'
    BY <1>1 DEF IInv, BatchIsRecent, UnsentIsRecent, Active
  <1>4. CASE DiscardRefused(batch.generation)
    <2>1. UNCHANGED queueVars
      BY <1>4 DEF DiscardRefused
    <2>2. /\ QueueIsNewestRun' /\ NoSampleVanishes' /\ LossesAreFinal' /\ QueueTypeOK(Nat)'
      BY <1>1, <2>1, QueueFrame
    <2>3. TypeOK'
      BY <1>1, <2>2 DEF IInv, TypeOK
    <2> QED
      BY <1>2, <1>3, <2>2, <2>3 DEF IInv
  <1>5. CASE DiscardOldest(Len(batch.samples), batch.generation)
    <2>1. /\ QueueTypeOK(Nat) /\ collected \in Nat /\ size \in Nat
          /\ Len(Contents) = size /\ Contents \in Seq(Nat)
      BY QueueFacts
    <2>2. /\ batch.generation \in 0 .. Generations - 1 /\ changes \in 0 .. MaxChanges
          /\ generation = (batch.generation + changes) % Generations
          /\ changes = 0 => Contents = batch.samples
      BY <1>1 DEF IInv, TypeOK, BatchCounts, Active
    <2>3. generation = batch.generation
      BY <1>5 DEF DiscardOldest
    <2>4. changes = 0
      BY <2>2, <2>3, GenerationTells
    <2>5. Contents = batch.samples /\ Len(batch.samples) = size
      BY <2>1, <2>2, <2>4
    <2>6. QueueTypeOK(Nat)'
      <3>1. Len(batch.samples) \in Nat
        BY <2>1, <2>5
      <3> QED
        BY <1>5, <2>1, <3>1, DiscardEffect
    <2>7. size' = 0
      BY <1>5, <2>1, <2>5 DEF DiscardOldest
    <2>9. QueueIsNewestRun'
      BY <2>7 DEF QueueIsNewestRun, Contents
    <2>10. Queued' = {}
      <3>1. Len(Contents') = 0
        BY <2>7 DEF Contents
      <3> QED
        BY <3>1 DEF Queued, Elements
    <2>11. Queued \subseteq delivered
      BY <1>1, <2>5 DEF IInv, DiscardIsEarned, Queued
    <2>12. NoSampleVanishes'
      BY <1>1, <2>10, <2>11 DEF IInv, NoSampleVanishes
    <2>13. LossesAreFinal'
      BY <1>1, <2>1, <2>7, <2>10 DEF IInv, LossesAreFinal
    <2>14. TypeOK'
      BY <1>1, <2>6 DEF IInv, TypeOK
    <2> QED
      BY <1>2, <1>3, <2>9, <2>12, <2>13, <2>14 DEF IInv
  <1> QED
    BY <1>4, <1>5 DEF TrimQueue

\* A reset empties the queue, and accounts for what was in it.
LEMMA ResetPreserves ==
    ASSUME IInv, Reset
    PROVE  IInv'
  <1>1. /\ UNCHANGED <<delivered, retained, overwritten, collected>>
        /\ resets' = resets + 1 /\ resets < MaxResets
        /\ wiped' = wiped \cup Queued
        /\ samples' = [i \in Index |-> NoSample] /\ head' = 0 /\ size' = 0 /\ generation' = 0
        /\ pc' = "delay" /\ err' = "ESP_OK" /\ batch' = NoBatch
        /\ running' = {"app_main"} /\ changes' = 0
        /\ origin' \in Origin
        /\ \/ unsent' = << >>
           \/ unsent' = unsent /\ origin' # "cycle" /\ (origin' = "carried") = (origin = "carried")
    BY DEF Reset, NothingUnsent, LeftOn, brokerVars, Origin, IInv, TypeOK, UnsentIsRecent
  <1>2. /\ collected \in 0 .. MaxSamples /\ collected \in Nat /\ size \in Nat /\ size <= collected
        /\ Queued = collected - size + 1 .. collected
    BY QueueFacts
  <1>3. Queued \subseteq 1 .. collected /\ Queued \subseteq 1 .. MaxSamples
    BY <1>2, PipelineAssumption
  <1>4. Len(Contents') = 0
    BY <1>1 DEF Contents
  <1>5. Queued' = {}
    BY <1>4 DEF Queued, Elements
  <1>6. QueueIsNewestRun'
    BY <1>1 DEF QueueIsNewestRun, Contents
  <1>7. NoSampleVanishes' /\ LossesAreFinal'
    BY <1>1, <1>2, <1>3, <1>5 DEF IInv, NoSampleVanishes, LossesAreFinal
  <1>8. BatchCounts' /\ DiscardIsEarned' /\ AppMainIsFirst'
    BY <1>1 DEF BatchCounts, Active, DiscardIsEarned, AppMainIsFirst
  <1>9. /\ NoBatch \in [samples : Seq(Nat), generation : 0 .. Generations - 1]
        /\ Elements(NoBatch.samples) = {}
        /\ << >> \in Seq(Nat) /\ Elements(<< >>) = {}
    BY QueueAssumption, EmptySeq DEF NoBatch, Elements
  <1>10. BatchIsRecent' /\ UnsentIsRecent'
    BY <1>1, <1>9 DEF IInv, BatchIsRecent, UnsentIsRecent, Active
  <1>11. QueueTypeOK(Nat)'
    BY <1>1, QueueAssumption DEF QueueTypeOK, Index
  <1>12. wiped' \subseteq 1 .. MaxSamples /\ resets' \in 0 .. MaxResets /\ changes' \in 0 .. MaxChanges
    BY <1>1, <1>3, PipelineAssumption DEF IInv, TypeOK
  <1>13. TypeOK'
    BY <1>1, <1>9, <1>11, <1>12 DEF IInv, TypeOK, Task
  <1> QED
    BY <1>6, <1>7, <1>8, <1>10, <1>13 DEF IInv

LEMMA StutterPreserves ==
    ASSUME IInv, UNCHANGED vars
    PROVE  IInv'
  <1>1. /\ UNCHANGED <<queueVars, collected, overwritten, wiped, delivered>>
        /\ UNCHANGED <<pc, err, batch, running, changes, retained, unsent, origin, resets>>
    BY DEF vars, taskVars, worldVars, brokerVars, modemVars, lossVars
  <1>2. /\ QueueIsNewestRun' /\ NoSampleVanishes' /\ LossesAreFinal' /\ QueueTypeOK(Nat)'
        /\ Contents' = Contents /\ UNCHANGED <<generation, size>>
    BY <1>1, QueueFrame
  <1>3. TypeOK'
    BY <1>1, <1>2 DEF IInv, TypeOK
  <1>4. BatchCounts'
    BY <1>1, <1>2 DEF IInv, BatchCounts
  <1>5. BatchIsRecent' /\ UnsentIsRecent'
    BY <1>1 DEF IInv, BatchIsRecent, UnsentIsRecent
  <1>6. DiscardIsEarned' /\ AppMainIsFirst'
    BY <1>1 DEF IInv, DiscardIsEarned, AppMainIsFirst
  <1> QED
    BY <1>2, <1>3, <1>4, <1>5, <1>6 DEF IInv

LEMMA ForgetPreserves ==
    ASSUME IInv, ModemForgets
    PROVE  IInv'
  <1>1. /\ UNCHANGED <<queueVars, collected, overwritten, wiped, delivered>>
        /\ UNCHANGED <<pc, err, batch, running, changes, retained, resets>>
        /\ unsent' = << >> /\ origin' \in Origin
    BY DEF ModemForgets, NothingUnsent, Origin, taskVars, brokerVars, lossVars
  <1>2. /\ QueueIsNewestRun' /\ NoSampleVanishes' /\ LossesAreFinal' /\ QueueTypeOK(Nat)'
        /\ Contents' = Contents /\ UNCHANGED <<generation, size>>
    BY <1>1, QueueFrame
  <1>3. << >> \in Seq(Nat) /\ Elements(<< >>) = {}
    BY EmptySeq DEF Elements
  <1>4. TypeOK'
    BY <1>1, <1>2, <1>3 DEF IInv, TypeOK
  <1>5. BatchCounts' /\ DiscardIsEarned' /\ AppMainIsFirst'
    BY <1>1, <1>2 DEF IInv, BatchCounts, DiscardIsEarned, AppMainIsFirst
  <1>6. BatchIsRecent' /\ UnsentIsRecent'
    BY <1>1, <1>3 DEF IInv, BatchIsRecent, UnsentIsRecent
  <1> QED
    BY <1>2, <1>4, <1>5, <1>6 DEF IInv

LEMMA NextPreserves == IInv /\ [Next]_vars => IInv'
  BY AppMainPreserves, CollectPreserves, PeekPreserves, ModemCallPreserves, ReceiptPreserves,
     ForgetPreserves, CycleEndPreserves, TrimPreserves, ResetPreserves, StutterPreserves
     DEF Next, UploadTask

THEOREM Invariance == Spec => []IInv
  BY InitInvariant, NextPreserves, PTL DEF Spec

-------------------------------------------------------------------------------------
\* Every field, counter and history set of the pipeline stays in range.
THEOREM TypeCorrect == Spec => []TypeOK
  <1>1. IInv => TypeOK
    BY DEF IInv
  <1> QED
    BY <1>1, Invariance, PTL

\* Whatever the order of collections, uploads, failures and resets, a sample
\* is queued, delivered, displaced by newer ones or wiped by a reset.
THEOREM SamplesAreAccountedFor == Spec => []NoSampleVanishes
  <1>1. IInv => NoSampleVanishes
    BY DEF IInv
  <1> QED
    BY <1>1, Invariance, PTL

\* The queue always holds the newest samples, gapless and in order.
THEOREM QueueIsGapless == Spec => []QueueIsNewestRun
  <1>1. IInv => QueueIsNewestRun
    BY DEF IInv
  <1> QED
    BY <1>1, Invariance, PTL

\* An uploader that finds the generation of its batch finds its batch.
THEOREM GenerationIsEnough == Spec => []BatchGenerationIsSound
  <1>1. IInv => BatchGenerationIsSound
    <2> SUFFICES ASSUME IInv, pc \notin {"delay", "stop"}, generation = batch.generation
                 PROVE  Contents = batch.samples
      BY DEF BatchGenerationIsSound
    <2>1. pc \in Active
      BY DEF IInv, TypeOK, Active
    <2>2. /\ batch.generation \in 0 .. Generations - 1 /\ changes \in 0 .. MaxChanges
          /\ generation = (batch.generation + changes) % Generations
          /\ changes = 0 => Contents = batch.samples
      BY <2>1 DEF IInv, TypeOK, BatchCounts
    <2>3. changes = 0
      BY <2>2, GenerationTells
    <2> QED
      BY <2>2, <2>3
  <1> QED
    BY <1>1, Invariance, PTL

\* A sample that leaves the queue without having been displaced or wiped
\* leaves it in a cycle whose publish returned ESP_OK, and was in its batch.
THEOREM FailuresKeepTheQueue == Spec => FailedCycleKeepsQueue
  <1> DEFINE Kept ==
        \A s \in Queued \ Queued' :
            \/ s \in (overwritten' \ overwritten) \cup (wiped' \ wiped)
            \/ pc = "discard" /\ err = "ESP_OK" /\ s \in Elements(batch.samples)
  <1>1. IInv /\ [Next]_vars => [Kept]_vars
    <2> SUFFICES ASSUME IInv, Next
                 PROVE  Kept
      OBVIOUS
    <2>1. CASE UNCHANGED queueVars
      BY <2>1, QueueUnchanged
    <2>2. CASE CollectOnce
      <3>1. overwritten' = overwritten \cup (Queued \ Queued')
        BY <2>2, CollectEffect
      <3>2. overwritten \cap Queued = {}
        BY DEF IInv, LossesAreFinal
      <3> QED
        BY <3>1, <3>2
    <2>3. CASE TrimQueue
      <3>1. pc = "discard" /\ err = "ESP_OK"
        BY <2>3 DEF TrimQueue, IInv, DiscardIsEarned
      <3>2. CASE DiscardRefused(batch.generation)
        BY <3>2, QueueUnchanged DEF DiscardRefused
      <3>3. CASE DiscardOldest(Len(batch.samples), batch.generation)
        <4>1. /\ batch.generation \in 0 .. Generations - 1 /\ changes \in 0 .. MaxChanges
              /\ generation = (batch.generation + changes) % Generations
              /\ changes = 0 => Contents = batch.samples
          BY <3>1 DEF IInv, TypeOK, BatchCounts, Active
        <4>2. generation = batch.generation
          BY <3>3 DEF DiscardOldest
        <4>3. changes = 0
          BY <4>1, <4>2, GenerationTells
        <4>4. Queued = Elements(batch.samples)
          BY <4>1, <4>3 DEF Queued
        <4> QED
          BY <3>1, <4>4
      <3> QED
        BY <2>3, <3>2, <3>3 DEF TrimQueue
    <2>4. CASE Reset
      <3>1. wiped' = wiped \cup Queued /\ wiped \cap Queued = {}
        BY <2>4 DEF Reset, IInv, LossesAreFinal
      <3> QED
        BY <3>1
    <2> HIDE DEF Kept
    <2>5. CASE \E created \in SUBSET {"metric_collect", "mqtt_upload"} : AppMainStartsTasks(created)
      BY <2>1, <2>2, <2>5 DEF AppMainStartsTasks
    <2>6. CASE CollectPeriodically
      BY <2>2, <2>6 DEF CollectPeriodically
    <2>7. CASE (UploadTask /\ ~TrimQueue) \/ BrokerReceivesLate \/ ModemForgets
      BY <2>1, <2>7 DEF BrokerReceivesLate, ModemForgets, UploadTask, PeekQueue, StartModem, StartModemFails, BrokerReceives,
                        PublishFails, PublishSucceeds, PublishFailsAfterReceipt, StopModem
    <2> QED
      BY <2>3, <2>4, <2>5, <2>6, <2>7 DEF Next
  <1> QED
    BY <1>1, Invariance, PTL DEF Spec, FailedCycleKeepsQueue

\* The newest sample of the retained message gets older only by a message that
\* a modem left on has carried through a start().
THEOREM RetainedIsMonotonic == Spec => RetainedNeverRegresses
  <1>1. IInv /\ [Next]_vars => [Newest(retained') >= Newest(retained) \/ origin = "carried"]_vars
    <2> SUFFICES ASSUME IInv, Next, origin # "carried"
                 PROVE  Newest(retained') >= Newest(retained)
      OBVIOUS
    <2>1. Newest(retained) \in Nat
      BY NewestIsNat DEF IInv, TypeOK
    <2>2. CASE UNCHANGED retained
      BY <2>1, <2>2
    <2>3. CASE BrokerReceives \/ BrokerReceivesLate
      <3>1. \/ retained' = batch.samples /\ Newest(retained) <= Newest(batch.samples)
            \/ retained' = unsent /\ Newest(retained) <= Newest(unsent)
        BY <2>3 DEF BrokerReceives, BrokerReceivesLate, IInv, BatchIsRecent, UnsentIsRecent
      <3>2. Newest(batch.samples) \in Nat /\ Newest(unsent) \in Nat
        BY NewestIsNat, UnsentFacts DEF IInv, TypeOK
      <3> QED
        BY <2>1, <3>1, <3>2
    <2>4. CASE ~(BrokerReceives \/ BrokerReceivesLate)
      BY <2>2, <2>4 DEF Next, UploadTask, AppMainStartsTasks, CollectPeriodically, PeekQueue,
                        StartModem, StartModemFails, PublishFails, PublishSucceeds,
                        PublishFailsAfterReceipt, TrimQueue, StopModem, ModemForgets, Reset, worldVars,
                        brokerVars
    <2> QED
      BY <2>3, <2>4
  <1> QED
    BY <1>1, Invariance, PTL DEF Spec, RetainedNeverRegresses
=====================================================================================
