----------------------------- MODULE TelemetryPipeline -----------------------------
(***************************************************************************)
(* The path of a sample from the collector to the MQTT broker (main.cpp):  *)
(* app_main collects once and creates the collection task and the upload   *)
(* task, which then share the TelemetryQueue.  An upload cycle copies the  *)
(* queue, starts the modem, publishes the copy, trims the queue if the     *)
(* publish succeeded and the queue has not changed meanwhile, and stops    *)
(* the modem.  Each of those calls takes seconds to minutes, so that a     *)
(* collection, or a reset of the chip, may come between any two of them.   *)
(*                                                                         *)
(* The modem and the broker are seen here through the calls' results:      *)
(* LteConnectionManager.tla and MqttPublisher.tla open those calls.        *)
(* Of what a modem may still send after its publish has failed, the last   *)
(* message is followed.  Samples are numbered in the order they are taken. *)
(***************************************************************************)
EXTENDS TelemetryQueue

CONSTANTS
    MaxSamples,   \* bound: samples taken in a behaviour
    MaxResets,    \* bound: resets of the chip in a behaviour
    MaxChanges    \* bound: collections that fall into one upload cycle

ASSUME PipelineAssumption ==
    /\ MaxSamples \in Nat
    /\ MaxResets \in Nat
    /\ MaxChanges \in Nat
    /\ MaxChanges < Generations

VARIABLES
    collected,    \* how many samples were taken so far
    pc,           \* the call of runUploadCycle the upload task is about to make
    err,          \* the result of its last call into the modem
    batch,        \* its copy of the queue
    running,      \* the tasks that exist; {"app_main"} until app_main returns
    resets,       \* resets so far
    delivered,    \* history: samples the broker has received
    retained,     \* the broker's retained message (SMPUB publishes with retain)
    unsent,       \* the message the modem may still send after its publish failed
    origin,       \* history: where unsent comes from
    overwritten,  \* history: samples that made room for newer ones
    wiped,        \* history: samples that were in RAM when the chip was reset
    changes       \* history: changes to the queue since batch was copied

taskVars == <<pc, err, batch, running, changes>>
brokerVars == <<delivered, retained>>
modemVars == <<unsent, origin>>
worldVars == <<brokerVars, modemVars>>
lossVars == <<overwritten, wiped>>
vars == <<queueVars, taskVars, worldVars, lossVars, collected, resets>>

Task == {"app_main", "metric_collect", "mqtt_upload"}
\* A message of this cycle, or none; of a cycle that left the modem on, by a
\* stop() that failed or a reset; or one that has come through a start() since.
Origin == {"cycle", "left", "carried"}
NoBatch == [samples |-> << >>, generation |-> 0]

Elements(seq) == {seq[i] : i \in 1 .. Len(seq)}
Queued == Elements(Contents)

\* 0 stands for the empty sequence.
Newest(seq) == IF seq = << >> THEN 0 ELSE seq[Len(seq)]

TypeOK ==
    /\ QueueTypeOK(Nat)
    /\ collected \in 0 .. MaxSamples
    /\ pc \in {"delay", "start", "publish", "acknowledge", "discard", "stop"}
    /\ err \in {"ESP_OK", "ESP_FAIL"}
    /\ batch \in [samples : Seq(Nat), generation : 0 .. Generations - 1]
    /\ running \subseteq Task
    /\ resets \in 0 .. MaxResets
    /\ delivered \subseteq 1 .. MaxSamples
    /\ retained \in Seq(Nat)
    /\ unsent \in Seq(Nat)
    /\ origin \in Origin
    /\ overwritten \subseteq 1 .. MaxSamples
    /\ wiped \subseteq 1 .. MaxSamples
    /\ changes \in 0 .. MaxChanges

Init ==
    /\ QueueInit
    /\ collected = 0
    /\ pc = "delay"
    /\ err = "ESP_OK"
    /\ batch = NoBatch
    /\ running = {"app_main"}
    /\ resets = 0
    /\ delivered = {}
    /\ retained = << >>
    /\ unsent = << >>
    /\ origin = "cycle"
    /\ overwritten = {}
    /\ wiped = {}
    /\ changes = 0

-------------------------------------------------------------------------------------
(* Collection.                                                               *)

\* collectOnce() when a source had metrics.  Without any it returns before
\* the queue is touched, and no state changes.
CollectOnce ==
    /\ collected < MaxSamples
    /\ collected' = collected + 1
    /\ Enqueue(collected + 1)
    /\ overwritten' = IF size = Capacity THEN overwritten \cup {samples[head]}
                                         ELSE overwritten

\* app_main's own collection, then the two xTaskCreate() calls, of which
\* either may fail; app_main only logs that and returns.
AppMainStartsTasks(created) ==
    /\ "app_main" \in running
    /\ \/ CollectOnce
       \/ UNCHANGED <<queueVars, collected, overwritten>>
    /\ running' = created
    /\ UNCHANGED <<pc, err, batch, changes, wiped, worldVars, resets>>

\* One turn of periodicCollectionTask.
CollectPeriodically ==
    /\ "metric_collect" \in running
    /\ CollectOnce
    /\ IF pc = "delay" THEN UNCHANGED changes
                       ELSE changes < MaxChanges /\ changes' = changes + 1
    /\ UNCHANGED <<pc, err, batch, running, wiped, worldVars, resets>>

-------------------------------------------------------------------------------------
(* runUploadCycle, one action per call.                                      *)

\* peekAll(), and the early return when there is nothing to upload.
PeekQueue ==
    /\ "mqtt_upload" \in running
    /\ pc = "delay"
    /\ size > 0
    /\ batch' = PeekAll
    /\ changes' = 0
    /\ pc' = "start"
    /\ UNCHANGED <<queueVars, err, running, worldVars, lossVars, collected, resets>>

\* The modem has nothing to send any more.
NothingUnsent == unsent' = << >> /\ origin' = "cycle"

\* A modem that has come through the dip of the rail in start() still has what
\* an earlier cycle gave it; one that has not forgets it (ModemForgets).
StartModem ==
    /\ pc = "start"
    /\ err' = "ESP_OK"
    /\ pc' = "publish"
    /\ origin' = IF origin = "left" THEN "carried" ELSE origin
    /\ UNCHANGED <<queueVars, batch, running, changes, brokerVars, unsent, lossVars, collected, resets>>

\* The cycle ends without a call of stop(); batch goes out of scope.  A modem
\* that was on may stay on.
StartModemFails ==
    /\ pc = "start"
    /\ err' = "ESP_FAIL"
    /\ pc' = "delay"
    /\ batch' = NoBatch /\ changes' = 0
    /\ NothingUnsent \/ UNCHANGED modemVars
    /\ UNCHANGED <<queueVars, running, brokerVars, lossVars, collected, resets>>

\* publishTelemetryBatch(), up to the broker's receipt of the message ...
BrokerReceives ==
    /\ pc = "publish"
    /\ delivered' = delivered \cup Elements(batch.samples)
    /\ retained' = batch.samples
    /\ pc' = "acknowledge"
    /\ UNCHANGED <<queueVars, err, batch, running, changes, modemVars, lossVars, collected, resets>>

\* The modem may have the message, and send it later.
GivenUp ==
    \/ NothingUnsent \/ UNCHANGED modemVars
    \/ unsent' = batch.samples /\ origin' = "cycle"

PublishFails ==
    /\ pc = "publish"
    /\ err' = "ESP_FAIL"
    /\ pc' = "stop"
    /\ GivenUp
    /\ UNCHANGED <<queueVars, batch, running, changes, brokerVars, lossVars, collected, resets>>

\* ... and from there to its return.
PublishSucceeds ==
    /\ pc = "acknowledge"
    /\ err' = "ESP_OK"
    /\ pc' = "discard"
    /\ UNCHANGED <<queueVars, batch, running, changes, worldVars, lossVars, collected, resets>>

\* Broken variant: the result of the publish is not looked at.
PublishFailureIgnored ==
    /\ pc = "acknowledge"
    /\ err' = "ESP_FAIL"
    /\ pc' = "discard"
    /\ UNCHANGED <<queueVars, batch, running, changes, worldVars, lossVars, collected, resets>>

\* The answer to SMPUB comes too late or not at all, or SMDISC fails after
\* a successful SMPUB: the broker has a message that counts as unpublished, and
\* may get it again, as the quality of service is "at least once".
PublishFailsAfterReceipt ==
    /\ pc = "acknowledge"
    /\ err' = "ESP_FAIL"
    /\ pc' = "stop"
    /\ GivenUp
    /\ UNCHANGED <<queueVars, batch, running, changes, brokerVars, lossVars, collected, resets>>

\* Broken variant: a refused discard is tried again until it is accepted.
TrimQueueInsists ==
    /\ pc = "discard"
    /\ DiscardOldest(Len(batch.samples), batch.generation)
    /\ pc' = "stop"
    /\ UNCHANGED <<err, batch, running, changes, worldVars, lossVars, collected, resets>>

\* discardOldestIfGenerationMatches(); a refusal is logged.
TrimQueue ==
    /\ pc = "discard"
    /\ \/ DiscardOldest(Len(batch.samples), batch.generation)
       \/ DiscardRefused(batch.generation)
    /\ pc' = "stop"
    /\ UNCHANGED <<err, batch, running, changes, worldVars, lossVars, collected, resets>>

\* The modem stays on with what it has.
LeftOn ==
    /\ UNCHANGED unsent
    /\ origin' = IF unsent # << >> /\ origin = "cycle" THEN "left" ELSE origin

\* Broken variant: stop() returns ESP_OK and leaves the modem on.
StopModemForgives ==
    /\ pc = "stop"
    /\ err' = "ESP_OK" /\ pc' = "delay"
    /\ batch' = NoBatch /\ changes' = 0
    /\ UNCHANGED <<queueVars, running, worldVars, lossVars, collected, resets>>

\* ESP_OK: the rail is low until the next start(), hours later.  A failure of
\* stop() is only logged: the modem may be on after it.
StopModem ==
    /\ pc = "stop"
    /\ \/ err' = "ESP_OK" /\ NothingUnsent
       \/ err' = "ESP_FAIL" /\ (LeftOn \/ NothingUnsent)
    /\ pc' = "delay"
    /\ batch' = NoBatch /\ changes' = 0
    /\ UNCHANGED <<queueVars, running, brokerVars, lossVars, collected, resets>>

\* A modem with power sends what was given up already: before stop(), or long
\* after it, with the queue changed and the next cycle about to begin.
BrokerReceivesLate ==
    /\ unsent # << >>
    /\ delivered' = delivered \cup Elements(unsent)
    /\ retained' = unsent
    /\ NothingUnsent
    /\ UNCHANGED <<queueVars, taskVars, lossVars, collected, resets>>

\* It loses its power, or gives the message up.
ModemForgets ==
    /\ unsent # << >>
    /\ NothingUnsent
    /\ UNCHANGED <<queueVars, taskVars, brokerVars, lossVars, collected, resets>>

UploadTask ==
    \/ PeekQueue
    \/ StartModem \/ StartModemFails
    \/ BrokerReceives \/ PublishFails
    \/ PublishSucceeds \/ PublishFailsAfterReceipt
    \/ TrimQueue
    \/ StopModem

-------------------------------------------------------------------------------------
\* A watchdog, a brownout or a failed ESP_ERROR_CHECK restarts the program
\* between any two steps.  The queue is in RAM and starts empty again; the modem
\* may keep its power, as its pins float.
Reset ==
    /\ resets < MaxResets
    /\ resets' = resets + 1
    /\ wiped' = wiped \cup Queued
    /\ samples' = [i \in Index |-> NoSample]
    /\ head' = 0
    /\ size' = 0
    /\ generation' = 0
    /\ pc' = "delay"
    /\ err' = "ESP_OK"
    /\ batch' = NoBatch
    /\ running' = {"app_main"}
    /\ changes' = 0
    /\ LeftOn \/ NothingUnsent
    /\ UNCHANGED <<brokerVars, overwritten, collected>>

Next ==
    \/ \E created \in SUBSET {"metric_collect", "mqtt_upload"} : AppMainStartsTasks(created)
    \/ CollectPeriodically
    \/ UploadTask
    \/ BrokerReceivesLate \/ ModemForgets
    \/ Reset

Spec == Init /\ [][Next]_vars

\* The upload task runs whenever it can, since every call it makes is bounded
\* by a timeout.  Of the outside world it is assumed that an upload which is
\* tried over and over gets a modem session, and gets through to the broker,
\* over and over.
Fairness ==
    /\ WF_vars(UploadTask)
    /\ SF_vars(StartModem)
    /\ SF_vars(BrokerReceives)

FairSpec == Spec /\ Fairness

-------------------------------------------------------------------------------------
\* Every sample ever taken is still queued, or the broker has it, or it was
\* given up for a newer one in a full queue, or a reset wiped it: no order of
\* collections, uploads and failures makes the queue drop a sample that was
\* not published (README.md:62-64).
NoSampleVanishes ==
    1 .. collected \subseteq Queued \cup delivered \cup overwritten \cup wiped

\* The queue holds the newest samples, without a gap and in the order they
\* were taken, however enqueues, overwrites and discards follow each other.
QueueIsNewestRun ==
    Contents = [i \in 1 .. size |-> (collected - size) + i]

\* A batch that is still to be trimmed from the queue names the queue's
\* contents through its generation alone (main.cpp:97 passes no samples).
BatchGenerationIsSound ==
    pc \notin {"delay", "stop"} /\ generation = batch.generation
        => Contents = batch.samples

\* A sample leaves the queue by a discard only in a cycle whose publish
\* returned ESP_OK: after a failed start() or a failed publish the queue is
\* intact, even if the broker did receive the batch (README.md:63-64).
FailedCycleKeepsQueue ==
    [][\A s \in Queued \ Queued' :
            \/ s \in (overwritten' \ overwritten) \cup (wiped' \ wiped)
            \/ pc = "discard" /\ err = "ESP_OK" /\ s \in Elements(batch.samples)]_vars

\* A subscriber that joins late reads the retained message: retries, refused
\* discards, resets, and messages sent late, by a modem that stop() or a reset
\* has left on, may repeat it, but not replace it by one that ends with an older
\* sample.  The exception is a modem that was left on, has come through the dip
\* of the rail in the next start() (LteConnectionManager.cpp:241-263 has no delay
\* between low and high) and still holds the message of the earlier cycle.
RetainedNeverRegresses ==
    [][Newest(retained') >= Newest(retained) \/ origin = "carried"]_vars

\* Once queued, and with an upload task to serve it, a sample reaches the
\* broker unless newer samples or a reset displace it first.
EverySampleResolved ==
    \A s \in 1 .. MaxSamples :
        s \in Queued /\ "mqtt_upload" \in running
            ~> s \in delivered \cup overwritten \cup wiped
=====================================================================================
