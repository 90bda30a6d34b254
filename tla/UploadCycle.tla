--------------------------------- MODULE UploadCycle ---------------------------------
(***************************************************************************)
(* The upload cycle of main.cpp with its call into LteConnectionManager    *)
(* opened: the queue and its two tasks, the steps of start() and stop(),   *)
(* the power of the modem, and what a modem with power may still send.     *)
(* TelemetryPipeline sees start() and stop() as one step each and promises *)
(* what comes of their results; here it is shown that the steps keep that  *)
(* promise, on whatever earlier cycles have left behind.                   *)
(*                                                                         *)
(* publishTelemetryBatch() is one step for its effect and one for its      *)
(* return, as in TelemetryPipeline: MqttPublisher opens that call.         *)
(***************************************************************************)
EXTENDS LteConnectionManager, TelemetryQueue

CONSTANTS
    MaxSamples,   \* bound: samples taken in a behaviour
    MaxResets,    \* bound: resets of the chip in a behaviour
    MaxChanges    \* bound: collections that fall into one upload cycle

\* A batch is older than its generation can tell only after as many changes as
\* the counter has values: 2^32 in the build.
ASSUME CycleAssumption ==
    /\ MaxSamples \in Nat
    /\ MaxResets \in Nat
    /\ MaxChanges \in Nat
    /\ MaxChanges < Generations

VARIABLES
    stage,        \* how far the publish has come while pc = "publish"
    collected, err, batch, running, resets, delivered, retained, unsent,
    origin, overwritten, wiped, changes     \* as in TelemetryPipeline

lteVars == <<pc, caller, flag, pins, modem, histories>>
worldVars == <<delivered, retained>>
modemVars == <<unsent, origin>>
lossVars == <<overwritten, wiped>>
collectorVars == <<collected, overwritten>>
cycleVars == <<lteVars, queueVars, worldVars, lossVars,
               stage, collected, err, batch, running, resets, modemVars, changes>>

\* In a call of powerOffModem(), caller tells start() from stop().
InStart == pc \in StartStep \/ (pc \in PowerOffStep /\ caller # "stop")
InStop == pc \in StopStep \/ (pc \in PowerOffStep /\ caller = "stop")

\* The call of runUploadCycle() that the task is in.
Call ==
    IF pc = "publish" THEN stage
    ELSE IF InStart THEN "start"
    ELSE IF InStop THEN "stop"
    ELSE "delay"

Pipeline == INSTANCE TelemetryPipeline WITH pc <- Call

NoBatch == [samples |-> << >>, generation |-> 0]
Elements(seq) == {seq[i] : i \in 1 .. Len(seq)}

CycleInit ==
    /\ Init
    /\ QueueInit
    /\ stage = "publish"
    /\ collected = 0
    /\ err = "ESP_OK"
    /\ batch = NoBatch
    /\ running = {"app_main"}
    /\ resets = 0
    /\ delivered = {} /\ retained = << >> /\ unsent = << >>
    /\ origin = "cycle"
    /\ overwritten = {} /\ wiped = {}
    /\ changes = 0

--------------------------------------------------------------------------------------
(* Collections, by app_main and then by the collection task.                 *)

CollectOnce ==
    /\ collected < MaxSamples
    /\ collected' = collected + 1
    /\ Enqueue(collected + 1)
    /\ overwritten' = IF size = Capacity THEN overwritten \cup {samples[head]} ELSE overwritten

AppMainStartsTasks(created) ==
    /\ "app_main" \in running
    /\ CollectOnce \/ UNCHANGED <<queueVars, collectorVars>>
    /\ running' = created
    /\ UNCHANGED <<lteVars, worldVars, stage, err, batch, resets, modemVars, changes, wiped>>

CollectPeriodically ==
    /\ "metric_collect" \in running
    /\ CollectOnce
    /\ IF pc = "delay" THEN UNCHANGED changes ELSE changes < MaxChanges /\ changes' = changes + 1
    /\ UNCHANGED <<lteVars, worldVars, stage, err, batch, running, resets, modemVars, wiped>>

--------------------------------------------------------------------------------------
(* runUploadCycle().                                                         *)

NothingUnsent == unsent' = << >> /\ origin' = "cycle"

\* What a modem may still send, after a step that makes of its origin what the
\* argument says: a modem that is off has nothing to send any more.
Keeps(itsOrigin) ==
    IF modem'.on /\ unsent # << >> THEN UNCHANGED unsent /\ origin' = itsOrigin
                                   ELSE NothingUnsent

\* It comes through the start() that returns ESP_OK, or is left on by a cycle.
CarriedOrigin == IF pc' = "publish" /\ origin = "left" THEN "carried" ELSE origin
LeftOrigin == IF pc' = "delay" /\ origin = "cycle" THEN "left" ELSE origin

\* The broker is reached only from a modem that runs and has a data context.
Online == modem.on /\ modem.context = "up"

PeekQueue ==
    /\ "mqtt_upload" \in running
    /\ size > 0
    /\ CallStart
    /\ batch' = PeekAll
    /\ changes' = 0
    /\ UNCHANGED <<queueVars, worldVars, lossVars, stage, collected, err, running, resets, modemVars>>

\* The copy of the queue goes out of scope.
NoBatchLeft == batch' = NoBatch /\ changes' = 0

\* start() makes the step.
StartMakes(Step) ==
    /\ InStart
    /\ Step
    /\ Keeps(CarriedOrigin)
    /\ \/ pc' = "publish" /\ err' = "ESP_OK" /\ UNCHANGED <<batch, changes>>
       \/ pc' = "delay" /\ err' = "ESP_FAIL" /\ NoBatchLeft
       \/ pc' \notin {"publish", "delay"} /\ UNCHANGED <<err, batch, changes>>
    /\ UNCHANGED <<queueVars, worldVars, lossVars, stage, collected, running, resets>>

Starts ==
    StartMakes(
       \/ ConfigurePowerEnableGpio \/ ConfigurePowerEnableGpioFails
       \/ ConfigurePwrKeyGpio \/ PowerOnModem \/ PulsePwrKey \/ ConfigureUart
       \/ EnsureResponsive \/ InitializeModem \/ EnsureSimReady \/ ConfigurePacketData
       \/ SelectPreferred \/ SelectFallback
       \/ RegistrationReported \/ RegistrationTimesOut
       \/ ActivateDataConnection \/ ActivateDataConnectionFails
       \/ ReleaseUartPins \/ ReleasePwrKey \/ CutRail \/ CutRailFails)

\* The publish up to its effect ...
BrokerReceives ==
    /\ pc = "publish" /\ stage = "publish"
    /\ Online
    /\ delivered' = delivered \cup Elements(batch.samples)
    /\ retained' = batch.samples
    /\ stage' = "acknowledge"
    /\ UNCHANGED <<lteVars, queueVars, lossVars, collected, err, batch, running, resets, modemVars, changes>>

\* ... and from there to its return, or without the effect.
PublishSucceeds ==
    /\ pc = "publish" /\ stage = "acknowledge"
    /\ err' = "ESP_OK"
    /\ stage' = "discard"
    /\ UNCHANGED <<lteVars, queueVars, worldVars, lossVars, collected, batch, running, resets, modemVars, changes>>

PublishFails ==
    /\ stage \in {"publish", "acknowledge"}
    /\ PublishReturns
    /\ err' = "ESP_FAIL"
    /\ \/ NothingUnsent \/ UNCHANGED modemVars
       \/ unsent' = batch.samples /\ origin' = "cycle"
    /\ stage' = "publish"
    /\ UNCHANGED <<queueVars, worldVars, lossVars, collected, batch, running, resets, changes>>

TrimQueue ==
    /\ stage = "discard"
    /\ PublishReturns
    /\ \/ DiscardOldest(Len(batch.samples), batch.generation)
       \/ DiscardRefused(batch.generation)
    /\ stage' = "publish"
    /\ UNCHANGED <<worldVars, lossVars, collected, err, batch, running, resets, modemVars, changes>>

\* stop() makes the step.
StopMakes(Step) ==
    /\ InStop
    /\ Step
    /\ Keeps(LeftOrigin)
    /\ IF pc' = "delay"
       THEN err' = (IF powerOffFailed' THEN "ESP_FAIL" ELSE "ESP_OK") /\ NoBatchLeft
       ELSE UNCHANGED <<err, batch, changes>>
    /\ UNCHANGED <<queueVars, worldVars, lossVars, stage, collected, running, resets>>

Stops == StopMakes(ShutDown \/ ReleaseUartPins \/ ReleasePwrKey \/ CutRail \/ CutRailFails)

UploadSteps ==
    \/ PeekQueue
    \/ Starts
    \/ BrokerReceives \/ PublishSucceeds \/ PublishFails \/ TrimQueue
    \/ Stops

--------------------------------------------------------------------------------------
(* The modem, and a reset of the chip.                                       *)

BrokerReceivesLate ==
    /\ unsent # << >> /\ Online
    /\ delivered' = delivered \cup Elements(unsent)
    /\ retained' = unsent
    /\ NothingUnsent
    /\ UNCHANGED <<lteVars, queueVars, lossVars, stage, collected, err, batch, running, resets, changes>>

ModemForgets ==
    /\ unsent # << >>
    /\ NothingUnsent
    /\ UNCHANGED <<lteVars, queueVars, worldVars, lossVars, stage, collected, err, batch, running, resets, changes>>

\* RAM is initialized again, the pins float, and the modem may keep its power.
ChipResets ==
    /\ resets < MaxResets
    /\ Reset
    /\ resets' = resets + 1
    /\ Keeps(LeftOrigin)
    /\ wiped' = wiped \cup Elements(Contents)
    /\ samples' = [i \in Index |-> NoSample] /\ head' = 0 /\ size' = 0 /\ generation' = 0
    /\ stage' = "publish" /\ err' = "ESP_OK" /\ batch' = NoBatch
    /\ running' = {"app_main"} /\ changes' = 0
    /\ UNCHANGED <<worldVars, overwritten, collected>>

CycleNext ==
    \/ \E created \in SUBSET {"metric_collect", "mqtt_upload"} : AppMainStartsTasks(created)
    \/ CollectPeriodically
    \/ UploadSteps
    \/ BrokerReceivesLate \/ ModemForgets
    \/ ChipResets

CycleSpec == CycleInit /\ [][CycleNext]_cycleVars

PowerOffMakes(Step) == StartMakes(Step) \/ StopMakes(Step)

\* The upload task runs whenever it can, as each of its calls has a timeout, and
\* the driver of the pins does not refuse the same call for ever.
CycleFairness ==
    /\ WF_cycleVars(UploadSteps)
    /\ SF_pc(StartMakes(ConfigurePowerEnableGpio))
    /\ SF_pc(PowerOffMakes(ReleaseUartPins /\ pc' = "releasePwrKey"))
    /\ SF_pc(PowerOffMakes(ReleasePwrKey /\ pc' = "cutRail"))
    /\ SF_pc(PowerOffMakes(CutRail))

FairCycleSpec == CycleSpec /\ CycleFairness

--------------------------------------------------------------------------------------
\* start(), stop() and a reset, step by step, do to the modem and to what it may
\* still send nothing that TelemetryPipeline does not say of them: whatever is
\* left of earlier cycles and wherever start() fails, a stop() that returns
\* ESP_OK has taken away what the modem had to send, and only after one that
\* failed, or a reset, can a message come through the next start().
ImplementsPipeline == Pipeline!Spec

\* A modem that a failed power-off or a reset has left on does not drain the
\* battery for ever: a later cycle turns it off.  But there is a next cycle only
\* if there is an upload task and a sample to upload, and after a publish that
\* has emptied the queue this takes another collection (main.cpp:83-86).
ModemGoesDown ==
    modem.on ~> \/ ~modem.on
                \/ pc = "delay" /\ (size = 0 \/ "mqtt_upload" \notin running)
======================================================================================
