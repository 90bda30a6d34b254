---------------------------- MODULE UploadCycleProofs -------------------------------
(***************************************************************************)
(* First LteConnectionManager: the publisher only ever runs on a session   *)
(* that start() has seen established, and a cycle leaves the modem off     *)
(* unless the power-off itself failed or a reset cut the cycle short.  The *)
(* invariant says, for each step of start(), stop() and powerOffModem(),   *)
(* what the steps before it have established.                              *)
(*                                                                         *)
(* Then UploadCycle: each of its steps is one of LteConnectionManager or   *)
(* leaves it alone, so that what holds there holds here; and a modem that  *)
(* is off has nothing to send, so that the cycle implements                *)
(* TelemetryPipeline.                                                      *)
(***************************************************************************)
EXTENDS UploadCycle, TLAPS

\* From the first answer of the modem until stop() asks for the power-off.
Answered ==
    {"initializeModem", "ensureSimReady", "configurePacketData",
     "selectPreferred", "awaitPreferred", "selectFallback", "awaitFallback",
     "activateDataConnection", "publish", "shutDown"}

Talking == {"ensureResponsive"} \cup Answered

\* The three methods after whose failure start() does not power off.
Preparing == {"configurePowerEnableGpio", "configurePwrKeyGpio", "powerOnModem"}

PinsAreSet ==
    /\ pc \in {"pulsePwrKey", "configureUart"} \cup Talking => rail = "high"
    /\ pc \in {"powerOnModem", "pulsePwrKey", "configureUart", "cutRail"} \cup Talking => pwrkey = "low"
    /\ pc \in Talking => uart
    /\ pc \in {"releasePwrKey", "cutRail"} => ~uart

PreparingIsHarmless ==
    /\ pc \in {"configurePwrKeyGpio", "powerOnModem"} => rail = "low"
    /\ pc \in {"delay"} \cup Preparing /\ ~powerOffFailed =>
            /\ rail # "high" /\ pwrkey # "high" /\ ~uart
            /\ modem.on => cutShort

SessionIsSeen ==
    /\ pc \in Answered => modem.on
    /\ pc \in {"activateDataConnection", "publish"} => heard
    /\ pc = "publish" => flag

StopHasTried == pc \in PowerOffStep /\ caller = "stop" => powerDown # "none"

IInv ==
    /\ TypeOK
    /\ PinsAreSet
    /\ PreparingIsHarmless
    /\ SessionIsSeen
    /\ StopHasTried

USE DEF StartStep, StopStep, PowerOffStep, Talking, Answered, Preparing, histories, failureVars

\* What the invariant says of the modem record, spelt out for the provers.
LEMMA ContextChanged ==
    ASSUME NEW m \in Modem, NEW context \in {"up", "down"}
    PROVE  /\ [m EXCEPT !.context = context] \in Modem
           /\ [m EXCEPT !.context = context].on = m.on
  BY DEF Modem

LEMMA ModemStates == Off \in Modem /\ ~Off.on /\ Booted \in Modem /\ Booted.on
  BY DEF Modem, Off, Booted

LEMMA InitInvariant == Init => IInv
  BY ModemStates
     DEF Init, IInv, TypeOK, PinsAreSet, PreparingIsHarmless, SessionIsSeen, StopHasTried,
         Level

-----------------------------------------------------------------------------------
\* The steps of start() that touch the power and the pins.
LEMMA PreparationPreserves ==
    ASSUME IInv,
           \/ CallStart
           \/ ConfigurePowerEnableGpio \/ ConfigurePowerEnableGpioFails
           \/ ConfigurePwrKeyGpio \/ PowerOnModem
    PROVE  IInv'
  <1> USE DEF IInv, TypeOK, PinsAreSet, PreparingIsHarmless, SessionIsSeen, StopHasTried,
              Level, pins, ReturnsAtOnce
  <1>1. CASE CallStart
    BY <1>1 DEF CallStart
  <1>2. CASE ConfigurePowerEnableGpio
    BY <1>2, ModemStates DEF ConfigurePowerEnableGpio
  <1>3. CASE ConfigurePowerEnableGpioFails
    BY <1>3, ModemStates DEF ConfigurePowerEnableGpioFails
  <1>4. CASE ConfigurePwrKeyGpio
    BY <1>4, ModemStates DEF ConfigurePwrKeyGpio
  <1>5. CASE PowerOnModem
    BY <1>5, ModemStates DEF PowerOnModem
  <1> QED
    BY <1>1, <1>2, <1>3, <1>4, <1>5

\* The steps from the pulse to the packet data configuration.
LEMMA DialoguePreserves ==
    ASSUME IInv,
           \/ PulsePwrKey \/ ConfigureUart
           \/ EnsureResponsive \/ InitializeModem \/ EnsureSimReady \/ ConfigurePacketData
    PROVE  IInv'
  <1> USE DEF IInv, TypeOK, PinsAreSet, PreparingIsHarmless, SessionIsSeen, StopHasTried,
              Level, pins, PowersOffFirst
  <1>1. CASE PulsePwrKey
    BY <1>1, ModemStates DEF PulsePwrKey
  <1>2. CASE ConfigureUart
    BY <1>2 DEF ConfigureUart
  <1>3. CASE EnsureResponsive
    BY <1>3 DEF EnsureResponsive, Dialogue
  <1>4. CASE InitializeModem
    BY <1>4 DEF InitializeModem, Dialogue
  <1>5. CASE EnsureSimReady
    BY <1>5 DEF EnsureSimReady, Dialogue
  <1>6. CASE ConfigurePacketData
    BY <1>6 DEF ConfigurePacketData, Dialogue
  <1> QED
    BY <1>1, <1>2, <1>3, <1>4, <1>5, <1>6

\* The steps that select a network mode, register and activate the data.
LEMMA RegistrationPreserves ==
    ASSUME IInv,
           \/ SelectPreferred \/ SelectFallback
           \/ RegistrationReported \/ RegistrationTimesOut
           \/ ActivateDataConnection \/ ActivateDataConnectionFails
    PROVE  IInv'
  <1> USE DEF IInv, TypeOK, PinsAreSet, PreparingIsHarmless, SessionIsSeen, StopHasTried,
              Level, pins, PowersOffFirst
  <1>1. CASE SelectPreferred
    BY <1>1 DEF SelectPreferred, Dialogue
  <1>2. CASE SelectFallback
    BY <1>2 DEF SelectFallback, Dialogue
  <1>3. CASE RegistrationReported
    BY <1>3 DEF RegistrationReported
  <1>4. CASE RegistrationTimesOut
    BY <1>4 DEF RegistrationTimesOut
  <1>5. CASE ActivateDataConnection
    <2>1. modem' \in Modem /\ modem'.on
      BY <1>5, ContextChanged DEF ActivateDataConnection
    <2> QED
      BY <1>5, <2>1 DEF ActivateDataConnection
  <1>6. CASE ActivateDataConnectionFails
    <2>1. modem' \in Modem
      BY <1>6, ContextChanged DEF ActivateDataConnectionFails
    <2> QED
      BY <1>6, <2>1 DEF ActivateDataConnectionFails
  <1> QED
    BY <1>1, <1>2, <1>3, <1>4, <1>5, <1>6

\* stop(), powerOffModem() and a reset of the chip.
LEMMA PowerOffPreserves ==
    ASSUME IInv,
           \/ PublishReturns \/ ShutDown
           \/ ReleaseUartPins \/ ReleasePwrKey \/ CutRail \/ CutRailFails
           \/ Reset
    PROVE  IInv'
  <1> USE DEF IInv, TypeOK, PinsAreSet, PreparingIsHarmless, SessionIsSeen, StopHasTried,
              Level, pins, PowerOffFails, CycleEnds
  <1>1. CASE PublishReturns
    BY <1>1 DEF PublishReturns
  <1>2. CASE ShutDown
    <2>1. modem' \in Modem
      BY <1>2, ContextChanged, ModemStates DEF ShutDown, ContextReleased
    <2>2. powerDown' \in {"asked", "unsendable"}
      BY <1>2 DEF ShutDown
    <2>3. /\ pc' = "releaseUartPins" /\ caller' = "stop"
          /\ UNCHANGED <<flag, rail, pwrkey, uart, heard, powerOffFailed, cutShort>>
      BY <1>2 DEF ShutDown
    <2> QED
      BY <2>1, <2>2, <2>3
  <1>3. CASE ReleaseUartPins
    <2>1. UNCHANGED <<rail, pwrkey, modem>> /\ uart' \in BOOLEAN
      BY <1>3 DEF ReleaseUartPins
    <2>2. CASE uart' = FALSE /\ pc' = "releasePwrKey" /\ UNCHANGED <<caller, flag, histories>>
      BY <1>3, <2>1, <2>2 DEF ReleaseUartPins
    <2>3. CASE PowerOffFails
      BY <2>1, <2>3
    <2> QED
      BY <1>3, <2>2, <2>3 DEF ReleaseUartPins
  <1>4. CASE ReleasePwrKey
    BY <1>4 DEF ReleasePwrKey
  <1>5. CASE CutRail
    BY <1>5, ModemStates DEF CutRail
  <1>6. CASE CutRailFails
    BY <1>6 DEF CutRailFails
  <1>7. CASE Reset
    BY <1>7, ModemStates DEF Reset
  <1> QED
    BY <1>1, <1>2, <1>3, <1>4, <1>5, <1>6, <1>7

LEMMA StutterPreserves == IInv /\ UNCHANGED vars => IInv'
  BY DEF vars, IInv, TypeOK, PinsAreSet, PreparingIsHarmless, SessionIsSeen, StopHasTried

LEMMA NextPreserves == IInv /\ [Next]_vars => IInv'
  BY PreparationPreserves, DialoguePreserves, RegistrationPreserves, PowerOffPreserves,
     StutterPreserves DEF Next, UploadTask

THEOREM Invariance == Spec => []IInv
  BY InitInvariant, NextPreserves, PTL DEF Spec

-----------------------------------------------------------------------------------
(* The upload cycles of LteConnectionManager are those of UploadCycle.        *)

\* Whatever the queue and the tasks do, LteConnectionManager makes one of its
\* own steps or none.
LEMMA StepsAreSteps == [CycleNext]_cycleVars => [Next]_vars
  <1> SUFFICES ASSUME [CycleNext]_cycleVars PROVE Next \/ UNCHANGED vars
    OBVIOUS
  <1>1. ASSUME UNCHANGED lteVars PROVE UNCHANGED vars
    BY <1>1 DEF lteVars, vars, pins
  <1>2. CASE \/ \E created \in SUBSET {"metric_collect", "mqtt_upload"} : AppMainStartsTasks(created)
             \/ CollectPeriodically \/ BrokerReceives \/ PublishSucceeds
             \/ BrokerReceivesLate \/ ModemForgets \/ UNCHANGED cycleVars
    <2>1. UNCHANGED lteVars
      BY <1>2 DEF AppMainStartsTasks, CollectPeriodically, BrokerReceives, PublishSucceeds,
                  BrokerReceivesLate, ModemForgets, cycleVars
    <2> QED
      BY <1>1, <2>1
  <1>3. CASE PeekQueue \/ PublishFails \/ TrimQueue
    BY <1>3 DEF PeekQueue, PublishFails, TrimQueue, Next, UploadTask
  <1>4. CASE Starts
    BY <1>4 DEF Starts, StartMakes, Next, UploadTask
  <1>5. CASE Stops
    BY <1>5 DEF Stops, StopMakes, Next, UploadTask
  <1>6. CASE ChipResets
    BY <1>6 DEF ChipResets, Next
  <1> QED
    BY <1>2, <1>3, <1>4, <1>5, <1>6 DEF CycleNext, UploadSteps

LEMMA CyclesAreLte == CycleSpec => Spec
  <1>1. CycleInit => Init
    BY DEF CycleInit
  <1> QED
    BY <1>1, StepsAreSteps, PTL DEF CycleSpec, Spec

\* Whenever the publisher is called, the session it needs is there.
THEOREM SessionIsComplete == CycleSpec => []PublisherHasSession
  <1>1. IInv => PublisherHasSession
    BY DEF IInv, PinsAreSet, SessionIsSeen, PublisherHasSession
  <1> QED
    BY <1>1, Invariance, CyclesAreLte, PTL

\* No cycle, however it ends, leaves the modem on, the key held or the UART
\* driven, except by a failure of powerOffModem() itself; and what a reset that
\* cuts a cycle short leaves on is the modem alone.
THEOREM ModemIsLeftOff == CycleSpec => []CycleLeavesModemOff
  <1>1. IInv => CycleLeavesModemOff
    BY DEF IInv, PreparingIsHarmless, CycleLeavesModemOff
  <1> QED
    BY <1>1, Invariance, CyclesAreLte, PTL

\* stop() cuts the power only after it has sent AT+CPOWD, or has failed to write
\* it to the UART.
THEOREM StopAsksFirst == CycleSpec => StopIsGraceful
  <1>1. IInv /\ [Next]_vars =>
            [pc = "cutRail" /\ caller = "stop" /\ rail' = "low" => powerDown # "none"]_vars
    BY DEF IInv, StopHasTried
  <1> QED
    BY <1>1, Invariance, CyclesAreLte, PTL DEF Spec, StopIsGraceful

\* powerOffModem() never cuts the rail with the UART driven, and start() never
\* switches it so but after a power-off that failed.
THEOREM PinsGoFirst == CycleSpec => PinsReleasedFirst
  <1>1. IInv /\ [Next]_vars => [rail' # rail /\ uart' => powerOffFailed /\ pc # "cutRail"]_vars
    <2> SUFFICES ASSUME IInv, Next, rail' # rail, uart'
                 PROVE  powerOffFailed /\ pc # "cutRail"
      OBVIOUS
    <2>1. CASE ConfigurePowerEnableGpio \/ ConfigurePowerEnableGpioFails \/ PowerOnModem
      BY <2>1 DEF IInv, PreparingIsHarmless, ConfigurePowerEnableGpio, ConfigurePowerEnableGpioFails,
                  PowerOnModem
    <2>2. CASE CutRail
      BY <2>2 DEF IInv, PinsAreSet, CutRail
    <2>3. CASE Reset
      BY <2>3 DEF Reset
    <2> QED
      BY <2>1, <2>2, <2>3
         DEF Next, UploadTask, CallStart, ConfigurePwrKeyGpio, PulsePwrKey, ConfigureUart, Dialogue,
             EnsureResponsive, InitializeModem, EnsureSimReady, ConfigurePacketData,
             SelectPreferred, SelectFallback, RegistrationReported,
             RegistrationTimesOut, ActivateDataConnection, ActivateDataConnectionFails,
             PublishReturns, ShutDown, ReleaseUartPins, ReleasePwrKey, CutRailFails, PowerOffFails,
             CycleEnds, pins
  <1> QED
    BY <1>1, Invariance, CyclesAreLte, PTL DEF Spec, PinsReleasedFirst

-----------------------------------------------------------------------------------
(* A modem that is off has nothing to send.                                   *)

\* The steps of start() that are made at the point they are made at.
StartAction ==
    \/ ConfigurePowerEnableGpio \/ ConfigurePowerEnableGpioFails
    \/ ConfigurePwrKeyGpio \/ PowerOnModem \/ PulsePwrKey \/ ConfigureUart
    \/ EnsureResponsive \/ InitializeModem \/ EnsureSimReady \/ ConfigurePacketData
    \/ SelectPreferred \/ SelectFallback
    \/ RegistrationReported \/ RegistrationTimesOut
    \/ ActivateDataConnection \/ ActivateDataConnectionFails
    \/ ReleaseUartPins \/ ReleasePwrKey \/ CutRail \/ CutRailFails

\* What may still be sent needs a modem that runs; nothing comes from this cycle.
UnsentNeedsPower ==
    /\ ~modem.on => unsent = << >>
    /\ unsent = << >> => origin = "cycle"

LEMMA CycleInitFacts == CycleInit => UnsentNeedsPower
  BY DEF CycleInit, UnsentNeedsPower

\* Where a step of start() leads to.
LEMMA StartFacts ==
    ASSUME IInv, InStart, StartAction
    PROVE  /\ pc' = "publish" => modem'.on
           /\ pc' \notin {"publish", "delay"} => InStart'
  <1> USE DEF IInv, TypeOK, InStart, ReturnsAtOnce, PowersOffFirst, PowerOffFails, CycleEnds, pins
  <1>1. CASE ConfigurePowerEnableGpio \/ ConfigurePowerEnableGpioFails \/ ConfigurePwrKeyGpio
             \/ PowerOnModem \/ PulsePwrKey \/ ConfigureUart
    BY <1>1 DEF ConfigurePowerEnableGpio, ConfigurePowerEnableGpioFails, ConfigurePwrKeyGpio,
                PowerOnModem, PulsePwrKey, ConfigureUart
  <1>2. CASE EnsureResponsive \/ InitializeModem \/ EnsureSimReady \/ ConfigurePacketData
             \/ SelectPreferred \/ SelectFallback
    BY <1>2 DEF EnsureResponsive, InitializeModem, EnsureSimReady, ConfigurePacketData, Dialogue,
                SelectPreferred, SelectFallback
  <1>3. CASE RegistrationReported \/ RegistrationTimesOut \/ ActivateDataConnectionFails
    BY <1>3 DEF RegistrationReported, RegistrationTimesOut, ActivateDataConnectionFails
  <1>4. CASE ActivateDataConnection
    BY <1>4, ContextChanged DEF ActivateDataConnection
  <1>5. CASE ReleaseUartPins \/ ReleasePwrKey \/ CutRail \/ CutRailFails
    BY <1>5 DEF ReleaseUartPins, ReleasePwrKey, CutRail, CutRailFails
  <1> QED
    BY <1>1, <1>2, <1>3, <1>4, <1>5 DEF StartAction

\* Where a step of stop() leads to.
LEMMA StopFacts ==
    ASSUME IInv, InStop, ShutDown \/ ReleaseUartPins \/ ReleasePwrKey \/ CutRail \/ CutRailFails
    PROVE  /\ ~InStart' /\ pc' # "publish"
           /\ pc' # "delay" => InStop'
           /\ pc' = "delay" /\ ~powerOffFailed' => ~modem'.on
  <1> USE DEF IInv, TypeOK, InStart, InStop, PowerOffFails, CycleEnds, pins
  <1>1. CASE ShutDown
    BY <1>1 DEF ShutDown
  <1>2. CASE ReleaseUartPins
    BY <1>2 DEF ReleaseUartPins
  <1>3. CASE ReleasePwrKey
    BY <1>3 DEF ReleasePwrKey
  <1>4. CASE CutRail \/ CutRailFails
    BY <1>4, ModemStates DEF CutRail, CutRailFails
  <1> QED
    BY <1>1, <1>2, <1>3, <1>4

\* A step that keeps what a modem that runs has to send keeps it so.
LEMMA KeepsPreserves ==
    ASSUME NEW o, Keeps(o), UnsentNeedsPower
    PROVE  UnsentNeedsPower'
  BY DEF Keeps, NothingUnsent, UnsentNeedsPower

LEMMA CyclePreserves == IInv /\ UnsentNeedsPower /\ [CycleNext]_cycleVars => UnsentNeedsPower'
  <1> SUFFICES ASSUME IInv, UnsentNeedsPower, [CycleNext]_cycleVars PROVE UnsentNeedsPower'
    OBVIOUS
  <1>1. ASSUME UNCHANGED <<modem, modemVars>> PROVE UnsentNeedsPower'
    BY <1>1 DEF UnsentNeedsPower, modemVars
  <1>2. CASE \/ \E created \in SUBSET {"metric_collect", "mqtt_upload"} : AppMainStartsTasks(created)
             \/ CollectPeriodically \/ BrokerReceives \/ PublishSucceeds
             \/ PeekQueue \/ TrimQueue \/ UNCHANGED cycleVars
    BY <1>1, <1>2 DEF AppMainStartsTasks, CollectPeriodically, BrokerReceives, PublishSucceeds,
                      PeekQueue, CallStart, TrimQueue, PublishReturns, cycleVars, lteVars
  <1>3. CASE Starts
    BY <1>3, KeepsPreserves DEF Starts, StartMakes
  <1>4. CASE PublishFails
    <2>1. modem' = modem /\ modem.on
      BY <1>4 DEF PublishFails, PublishReturns, IInv, SessionIsSeen
    <2> QED
      BY <1>4, <2>1 DEF PublishFails, NothingUnsent, modemVars, UnsentNeedsPower
  <1>5. CASE Stops
    BY <1>5, KeepsPreserves DEF Stops, StopMakes
  <1>6. CASE BrokerReceivesLate \/ ModemForgets
    BY <1>6 DEF BrokerReceivesLate, ModemForgets, NothingUnsent, UnsentNeedsPower
  <1>7. CASE ChipResets
    BY <1>7, KeepsPreserves DEF ChipResets
  <1> QED
    BY <1>2, <1>3, <1>4, <1>5, <1>6, <1>7 DEF CycleNext, UploadSteps

StageOK ==
    /\ stage \in {"publish", "acknowledge", "discard"}
    /\ pc # "publish" => stage = "publish"

LEMMA StagePreserves == StageOK /\ [CycleNext]_cycleVars => StageOK'
  <1> USE DEF StageOK
  <1>1. ASSUME StageOK, PeekQueue \/ Starts \/ Stops
        PROVE  StageOK'
    BY <1>1 DEF PeekQueue, CallStart, Starts, StartMakes, Stops, StopMakes, InStart, InStop
  <1> QED
    BY <1>1 DEF CycleNext, AppMainStartsTasks, CollectPeriodically, UploadSteps, BrokerReceives,
           PublishSucceeds, PublishFails, TrimQueue, PublishReturns, BrokerReceivesLate, ModemForgets,
           ChipResets, Reset, lteVars, cycleVars

CycleInv == IInv /\ StageOK /\ UnsentNeedsPower

\* The inductive invariant of the composition.
THEOREM CycleInvariance == CycleSpec => []CycleInv
  <1>1. CycleInit => CycleInv
    BY InitInvariant, CycleInitFacts DEF CycleInit, CycleInv, StageOK
  <1>2. CycleInv /\ [CycleNext]_cycleVars => CycleInv'
    BY NextPreserves, StepsAreSteps, StagePreserves, CyclePreserves DEF CycleInv
  <1> QED
    BY <1>1, <1>2, PTL DEF CycleSpec

-----------------------------------------------------------------------------------
(* Each step is a step of TelemetryPipeline, or changes nothing it knows of.  *)

\* While a call goes on, what is unsent may be lost with the power.
LEMMA CallGoesOn ==
    ASSUME Call' = Call, UnsentNeedsPower, Keeps(origin),
           UNCHANGED <<queueVars, worldVars, lossVars, collected, err, batch, running, resets, changes>>
    PROVE  [Pipeline!Next]_(Pipeline!vars)
  <1>1. CASE unsent' = unsent
    <2>1. origin' = origin
      BY <1>1 DEF Keeps, NothingUnsent, UnsentNeedsPower
    <2> QED
      BY <1>1, <2>1 DEF Pipeline!vars, Pipeline!taskVars, Pipeline!worldVars, Pipeline!brokerVars,
                Pipeline!modemVars, Pipeline!lossVars, Pipeline!queueVars, queueVars, worldVars, lossVars
  <1>2. CASE unsent' # unsent
    <2>1. Pipeline!ModemForgets
      BY <1>2 DEF Keeps, NothingUnsent, Pipeline!NothingUnsent, Pipeline!ModemForgets,
                Pipeline!taskVars, Pipeline!brokerVars,
                Pipeline!lossVars, Pipeline!queueVars, queueVars, worldVars, lossVars
    <2> QED
      BY <2>1 DEF Pipeline!Next
  <1> QED
    BY <1>1, <1>2

LEMMA CollectionMaps ==
    ASSUME CollectPeriodically \/ \E created \in SUBSET {"metric_collect", "mqtt_upload"} : AppMainStartsTasks(created),
           CycleInv
    PROVE  Pipeline!Next
  <1>1. ASSUME UNCHANGED <<lteVars, stage>> PROVE Call' = Call
    BY <1>1 DEF Call, InStart, InStop, lteVars
  <1>2. (pc = "delay") = (Call = "delay")
    BY DEF Call, InStart, InStop, CycleInv, StageOK, IInv, TypeOK
  <1> USE DEF CollectOnce, Pipeline!CollectOnce, Enqueue, Pipeline!Enqueue,
              EnqueueOverwriting, Pipeline!EnqueueOverwriting, EnqueueAppending, Pipeline!EnqueueAppending,
              BumpGeneration, Pipeline!BumpGeneration, Slot, Pipeline!Slot,
              queueVars, Pipeline!queueVars, collectorVars, worldVars, Pipeline!worldVars, Pipeline!brokerVars,
              modemVars, Pipeline!modemVars
  <1>3. CASE CollectPeriodically
    <2>1. Pipeline!CollectPeriodically
      BY <1>1, <1>2, <1>3 DEF CollectPeriodically, Pipeline!CollectPeriodically
    <2> QED
      BY <2>1 DEF Pipeline!Next
  <1>4. ASSUME NEW created \in SUBSET {"metric_collect", "mqtt_upload"}, AppMainStartsTasks(created)
        PROVE  Pipeline!AppMainStartsTasks(created)
    BY <1>1, <1>4 DEF AppMainStartsTasks, Pipeline!AppMainStartsTasks
  <1> QED
    BY <1>3, <1>4 DEF Pipeline!Next

LEMMA StartMaps ==
    ASSUME CycleInv, Starts
    PROVE  [Pipeline!Next]_(Pipeline!vars)
  <1>1. /\ InStart /\ StartAction /\ Keeps(CarriedOrigin) /\ IInv /\ UnsentNeedsPower
        /\ UNCHANGED <<queueVars, worldVars, lossVars, stage, collected, running, resets>>
    BY DEF Starts, StartMakes, StartAction, CycleInv
  <1>2. Call = "start"
    BY <1>1 DEF Call, InStart
  <1> USE DEF queueVars, Pipeline!queueVars, worldVars, Pipeline!brokerVars, Pipeline!worldVars,
              lossVars, Pipeline!lossVars
  <1>3. CASE pc' = "publish"
    <2>1. err' = "ESP_OK" /\ UNCHANGED <<batch, changes>>
      BY <1>3 DEF Starts, StartMakes
    <2>2. unsent' = unsent /\ origin' = IF origin = "left" THEN "carried" ELSE origin
      BY <1>1, <1>3, StartFacts DEF UnsentNeedsPower, Keeps, NothingUnsent, CarriedOrigin
    <2>3. Call' = "publish"
      BY <1>1, <1>3 DEF Call, CycleInv, StageOK, InStart
    <2>4. Pipeline!StartModem
      BY <1>1, <1>2, <2>1, <2>2, <2>3 DEF Pipeline!StartModem
    <2> QED
      BY <2>4 DEF Pipeline!Next, Pipeline!UploadTask
  <1>4. CASE pc' = "delay"
    <2>1. err' = "ESP_FAIL" /\ batch' = NoBatch /\ changes' = 0
      BY <1>4 DEF Starts, StartMakes, NoBatchLeft
    <2>2. Pipeline!NothingUnsent \/ UNCHANGED Pipeline!modemVars
      BY <1>1, <1>4 DEF Keeps, NothingUnsent, CarriedOrigin, Pipeline!NothingUnsent, Pipeline!modemVars
    <2>3. Call' = "delay"
      BY <1>4 DEF Call, InStart, InStop
    <2>4. Pipeline!StartModemFails
      BY <1>1, <1>2, <2>1, <2>2, <2>3 DEF Pipeline!StartModemFails, NoBatch, Pipeline!NoBatch
    <2> QED
      BY <2>4 DEF Pipeline!Next, Pipeline!UploadTask
  <1>5. CASE pc' \notin {"publish", "delay"}
    <2>1. UNCHANGED <<err, batch, changes>>
      BY <1>5 DEF Starts, StartMakes
    <2>2. InStart'
      BY <1>1, <1>5, StartFacts
    <2>3. Call' = Call
      BY <1>2, <1>5, <2>2 DEF Call
    <2>4. Keeps(origin)
      BY <1>1, <1>5 DEF Keeps, CarriedOrigin
    <2> QED
      BY <1>1, <2>1, <2>3, <2>4, CallGoesOn
  <1> QED
    BY <1>3, <1>4, <1>5

LEMMA StopMaps ==
    ASSUME CycleInv, Stops
    PROVE  [Pipeline!Next]_(Pipeline!vars)
  <1>1. /\ InStop /\ Keeps(LeftOrigin) /\ IInv /\ UnsentNeedsPower
        /\ ShutDown \/ ReleaseUartPins \/ ReleasePwrKey \/ CutRail \/ CutRailFails
        /\ UNCHANGED <<queueVars, worldVars, lossVars, stage, collected, running, resets>>
    BY DEF Stops, StopMakes, CycleInv
  <1>2. Call = "stop"
    BY <1>1 DEF Call, InStart, InStop
  <1> USE DEF queueVars, Pipeline!queueVars, worldVars, Pipeline!brokerVars, Pipeline!worldVars,
              lossVars, Pipeline!lossVars
  <1>3. CASE pc' = "delay"
    <2>1. /\ err' = (IF powerOffFailed' THEN "ESP_FAIL" ELSE "ESP_OK")
          /\ batch' = NoBatch /\ changes' = 0
      BY <1>3 DEF Stops, StopMakes, NoBatchLeft
    <2>2. \/ err' = "ESP_OK" /\ Pipeline!NothingUnsent
          \/ err' = "ESP_FAIL" /\ (Pipeline!LeftOn \/ Pipeline!NothingUnsent)
      <3>1. Pipeline!LeftOn \/ Pipeline!NothingUnsent
        BY <1>1, <1>3 DEF Keeps, NothingUnsent, LeftOrigin, Pipeline!NothingUnsent, Pipeline!LeftOn
      <3>2. ~powerOffFailed' => Pipeline!NothingUnsent
        BY <1>1, <1>3, StopFacts DEF Keeps, NothingUnsent, Pipeline!NothingUnsent
      <3> QED
        BY <2>1, <3>1, <3>2
    <2>3. Call' = "delay"
      BY <1>3 DEF Call, InStart, InStop
    <2>4. Pipeline!StopModem
      BY <1>1, <1>2, <2>1, <2>2, <2>3 DEF Pipeline!StopModem, NoBatch, Pipeline!NoBatch
    <2> QED
      BY <2>4 DEF Pipeline!Next, Pipeline!UploadTask
  <1>4. CASE pc' # "delay"
    <2>1. UNCHANGED <<err, batch, changes>>
      BY <1>4 DEF Stops, StopMakes
    <2>2. Call' = Call
      BY <1>1, <1>2, <1>4, StopFacts DEF Call
    <2>3. Keeps(origin)
      BY <1>1, <1>4 DEF Keeps, LeftOrigin
    <2> QED
      BY <1>1, <2>1, <2>2, <2>3, CallGoesOn
  <1> QED
    BY <1>3, <1>4

\* The copy of the queue, and what becomes of it.
LEMMA PublishMaps ==
    ASSUME CycleInv, PeekQueue \/ BrokerReceives \/ PublishSucceeds \/ PublishFails \/ TrimQueue
    PROVE  Pipeline!Next
  <1> USE DEF queueVars, Pipeline!queueVars, worldVars, Pipeline!brokerVars, Pipeline!worldVars,
              modemVars, Pipeline!modemVars, lossVars, Pipeline!lossVars
  <1>1. CASE PeekQueue
    <2>1. Call = "delay" /\ Call' = "start"
      BY <1>1 DEF PeekQueue, CallStart, Call, InStart, InStop
    <2>2. Pipeline!PeekQueue
      BY <1>1, <2>1 DEF PeekQueue, Pipeline!PeekQueue, PeekAll, Pipeline!PeekAll,
                        Contents, Pipeline!Contents, Slot, Pipeline!Slot
    <2> QED
      BY <2>2 DEF Pipeline!Next, Pipeline!UploadTask
  <1>2. CASE BrokerReceives
    <2>1. Call = "publish" /\ Call' = "acknowledge"
      BY <1>2 DEF BrokerReceives, Call, lteVars
    <2>2. Pipeline!BrokerReceives
      BY <1>2, <2>1 DEF BrokerReceives, Pipeline!BrokerReceives, Elements, Pipeline!Elements
    <2> QED
      BY <2>2 DEF Pipeline!Next, Pipeline!UploadTask
  <1>3. CASE PublishSucceeds
    <2>1. Call = "acknowledge" /\ Call' = "discard"
      BY <1>3 DEF PublishSucceeds, Call, lteVars
    <2>2. Pipeline!PublishSucceeds
      BY <1>3, <2>1 DEF PublishSucceeds, Pipeline!PublishSucceeds
    <2> QED
      BY <2>2 DEF Pipeline!Next, Pipeline!UploadTask
  <1>4. ASSUME PublishReturns PROVE Call = stage /\ Call' = "stop"
    BY <1>4 DEF PublishReturns, Call, InStart, InStop
  <1>5. CASE PublishFails
    <2>1. Pipeline!PublishFails \/ Pipeline!PublishFailsAfterReceipt
      BY <1>4, <1>5 DEF PublishFails, NothingUnsent, Pipeline!PublishFails,
            Pipeline!PublishFailsAfterReceipt, Pipeline!GivenUp, Pipeline!NothingUnsent
    <2> QED
      BY <2>1 DEF Pipeline!Next, Pipeline!UploadTask
  <1>6. CASE TrimQueue
    <2>1. Pipeline!TrimQueue
      BY <1>4, <1>6 DEF TrimQueue, Pipeline!TrimQueue, DiscardOldest, Pipeline!DiscardOldest,
                        DiscardRefused, Pipeline!DiscardRefused, BumpGeneration, Pipeline!BumpGeneration
    <2> QED
      BY <2>1 DEF Pipeline!Next, Pipeline!UploadTask
  <1> QED
    BY <1>1, <1>2, <1>3, <1>5, <1>6

LEMMA WorldMaps ==
    ASSUME CycleInv, BrokerReceivesLate \/ ModemForgets \/ ChipResets
    PROVE  Pipeline!Next
  <1> USE DEF queueVars, Pipeline!queueVars, worldVars, Pipeline!brokerVars, Pipeline!taskVars,
              lossVars, Pipeline!lossVars, Elements, Pipeline!Elements,
              NothingUnsent, Pipeline!NothingUnsent
  <1>1. ASSUME UNCHANGED <<lteVars, stage>> PROVE Call' = Call
    BY <1>1 DEF Call, InStart, InStop, lteVars
  <1>2. CASE BrokerReceivesLate
    <2>1. Pipeline!BrokerReceivesLate
      BY <1>1, <1>2 DEF BrokerReceivesLate, Pipeline!BrokerReceivesLate
    <2> QED
      BY <2>1 DEF Pipeline!Next
  <1>3. CASE ModemForgets
    <2>1. Pipeline!ModemForgets
      BY <1>1, <1>3 DEF ModemForgets, Pipeline!ModemForgets
    <2> QED
      BY <2>1 DEF Pipeline!Next
  <1>4. CASE ChipResets
    <2>1. Call' = "delay"
      BY <1>4 DEF ChipResets, Reset, Call, InStart, InStop
    <2>2. Pipeline!LeftOn \/ Pipeline!NothingUnsent
      BY <1>4 DEF ChipResets, Reset, Keeps, LeftOrigin, Pipeline!LeftOn
    <2>3. Pipeline!Reset
      BY <1>4, <2>1, <2>2 DEF ChipResets, Pipeline!Reset, NoBatch, Pipeline!NoBatch,
            Index, Pipeline!Index, Pipeline!Queued, Contents, Pipeline!Contents, Slot, Pipeline!Slot
    <2> QED
      BY <2>3 DEF Pipeline!Next
  <1> QED
    BY <1>2, <1>3, <1>4

\* start() and stop(), step by step, keep what TelemetryPipeline promises of
\* them as two calls with a result, for a queue and a counter of any size.
THEOREM Refinement == CycleSpec => ImplementsPipeline
  <1>1. CycleInit => Pipeline!Init
    BY DEF CycleInit, Init, Pipeline!Init, QueueInit, Pipeline!QueueInit, Index, Pipeline!Index,
           NoBatch, Pipeline!NoBatch, Call, InStart, InStop
  <1>2. CycleInv /\ [CycleNext]_cycleVars => [Pipeline!Next]_(Pipeline!vars)
    <2> SUFFICES ASSUME CycleInv, [CycleNext]_cycleVars
                 PROVE  [Pipeline!Next]_(Pipeline!vars)
      OBVIOUS
    <2>1. CASE UNCHANGED cycleVars
      BY <2>1 DEF cycleVars, lteVars, queueVars, worldVars, lossVars, Pipeline!vars,
                  Pipeline!queueVars, Pipeline!taskVars, Pipeline!worldVars, Pipeline!brokerVars,
                  modemVars, Pipeline!modemVars, Pipeline!lossVars, Call, InStart, InStop
    <2>2. CASE CycleNext
      BY <2>2, CollectionMaps, StartMaps, StopMaps, PublishMaps, WorldMaps DEF CycleNext, UploadSteps
    <2> QED
      BY <2>1, <2>2
  <1> QED
    BY <1>1, <1>2, CycleInvariance, PTL DEF CycleSpec, ImplementsPipeline, Pipeline!Spec

-------------------------------------------------------------------------------------
(* So what is proved of TelemetryPipeline holds of the cycle step by step.    *)

Proved == INSTANCE TelemetryPipelineProofs WITH pc <- Call

\* The specification those proofs are about is the one that is implemented.
LEMMA SameSpec == Pipeline!Spec => Proved!Spec
  <1> USE DEF Pipeline!queueVars, Proved!queueVars, Pipeline!taskVars, Proved!taskVars,
              Pipeline!brokerVars, Proved!brokerVars, Pipeline!worldVars, Proved!worldVars,
              Pipeline!modemVars, Proved!modemVars, Pipeline!NothingUnsent, Proved!NothingUnsent,
              Pipeline!GivenUp, Proved!GivenUp, Pipeline!LeftOn, Proved!LeftOn,
              Pipeline!lossVars, Proved!lossVars, Pipeline!NoBatch, Proved!NoBatch,
              Pipeline!Index, Proved!Index, Pipeline!Slot, Proved!Slot,
              Pipeline!Contents, Proved!Contents, Pipeline!PeekAll, Proved!PeekAll,
              Pipeline!Elements, Proved!Elements, Pipeline!Queued, Proved!Queued
  <1>1. Pipeline!Init <=> Proved!Init
    BY DEF Pipeline!Init, Proved!Init, Pipeline!QueueInit, Proved!QueueInit
  <1>2. Pipeline!CollectOnce <=> Proved!CollectOnce
    BY DEF Pipeline!CollectOnce, Proved!CollectOnce, Pipeline!Enqueue, Proved!Enqueue,
           Pipeline!EnqueueOverwriting, Proved!EnqueueOverwriting,
           Pipeline!EnqueueAppending, Proved!EnqueueAppending,
           Pipeline!BumpGeneration, Proved!BumpGeneration
  <1>3. \A created : Pipeline!AppMainStartsTasks(created) <=> Proved!AppMainStartsTasks(created)
    BY <1>2 DEF Pipeline!AppMainStartsTasks, Proved!AppMainStartsTasks
  <1>4. Pipeline!CollectPeriodically <=> Proved!CollectPeriodically
    BY <1>2 DEF Pipeline!CollectPeriodically, Proved!CollectPeriodically
  <1>5. Pipeline!TrimQueue <=> Proved!TrimQueue
    BY DEF Pipeline!TrimQueue, Proved!TrimQueue, Pipeline!DiscardOldest, Proved!DiscardOldest,
           Pipeline!DiscardRefused, Proved!DiscardRefused,
           Pipeline!BumpGeneration, Proved!BumpGeneration
  <1>6. Pipeline!UploadTask <=> Proved!UploadTask
    BY <1>5 DEF Pipeline!UploadTask, Proved!UploadTask, Pipeline!PeekQueue, Proved!PeekQueue,
                Pipeline!StartModem, Proved!StartModem,
                Pipeline!StartModemFails, Proved!StartModemFails,
                Pipeline!BrokerReceives, Proved!BrokerReceives,
                Pipeline!PublishFails, Proved!PublishFails,
                Pipeline!PublishSucceeds, Proved!PublishSucceeds,
                Pipeline!PublishFailsAfterReceipt, Proved!PublishFailsAfterReceipt,
                Pipeline!StopModem, Proved!StopModem
  <1>7. Pipeline!BrokerReceivesLate <=> Proved!BrokerReceivesLate
    BY DEF Pipeline!BrokerReceivesLate, Proved!BrokerReceivesLate
  <1>8. Pipeline!ModemForgets <=> Proved!ModemForgets
    BY DEF Pipeline!ModemForgets, Proved!ModemForgets
  <1>9. Pipeline!Reset <=> Proved!Reset
    BY DEF Pipeline!Reset, Proved!Reset
  <1>10. Pipeline!Next <=> Proved!Next
    BY <1>3, <1>4, <1>6, <1>7, <1>8, <1>9 DEF Pipeline!Next, Proved!Next
  <1>11. [Pipeline!Next]_(Pipeline!vars) => [Proved!Next]_(Proved!vars)
    BY <1>10 DEF Pipeline!vars, Proved!vars
  <1> QED
    BY <1>1, <1>11, PTL DEF Pipeline!Spec, Proved!Spec

\* Through every failure of start() and stop() and every reset in them, no sample
\* disappears that was not published, made room for a newer one or was lost by a
\* reset, and the queue keeps the newest samples in their order (README.md:62-64).
THEOREM CycleLosesNoSample ==
    CycleSpec => [](Pipeline!NoSampleVanishes /\ Pipeline!QueueIsNewestRun)
  <1>1. Proved!Spec => []Proved!NoSampleVanishes
    BY Proved!SamplesAreAccountedFor, QueueAssumption, CycleAssumption
  <1>2. Proved!Spec => []Proved!QueueIsNewestRun
    BY Proved!QueueIsGapless, QueueAssumption, CycleAssumption
  <1>3. Proved!NoSampleVanishes /\ Proved!QueueIsNewestRun
            => Pipeline!NoSampleVanishes /\ Pipeline!QueueIsNewestRun
    BY DEF Pipeline!NoSampleVanishes, Proved!NoSampleVanishes, Pipeline!QueueIsNewestRun,
           Proved!QueueIsNewestRun, Pipeline!Queued, Proved!Queued, Pipeline!Elements,
           Proved!Elements, Pipeline!Contents, Proved!Contents, Pipeline!Slot, Proved!Slot
  <1> QED
    BY <1>1, <1>2, <1>3, SameSpec, Refinement, PTL DEF ImplementsPipeline

\* A cycle that fails anywhere in start(), in the publish or in stop() removes
\* nothing from the queue; and what it leaves in the modem never replaces the
\* retained message by an older one unless it comes through a later start(), by
\* way of a stop() that failed or a reset.
THEOREM CycleFailsSafely ==
    CycleSpec => Pipeline!FailedCycleKeepsQueue /\ Pipeline!RetainedNeverRegresses
  <1>1. Proved!Spec => Proved!FailedCycleKeepsQueue
    BY Proved!FailuresKeepTheQueue, QueueAssumption, CycleAssumption
  <1>2. Proved!Spec => Proved!RetainedNeverRegresses
    BY Proved!RetainedIsMonotonic, QueueAssumption, CycleAssumption
  <1>3. Proved!FailedCycleKeepsQueue => Pipeline!FailedCycleKeepsQueue
    BY DEF Pipeline!FailedCycleKeepsQueue, Proved!FailedCycleKeepsQueue, Pipeline!vars, Proved!vars,
           Pipeline!queueVars, Proved!queueVars, Pipeline!taskVars, Proved!taskVars,
           Pipeline!brokerVars, Proved!brokerVars, Pipeline!worldVars, Proved!worldVars,
           Pipeline!modemVars, Proved!modemVars,
           Pipeline!lossVars, Proved!lossVars, Pipeline!Queued, Proved!Queued,
           Pipeline!Elements, Proved!Elements, Pipeline!Contents, Proved!Contents,
           Pipeline!Slot, Proved!Slot
  <1>4. Proved!RetainedNeverRegresses => Pipeline!RetainedNeverRegresses
    BY DEF Pipeline!RetainedNeverRegresses, Proved!RetainedNeverRegresses, Pipeline!vars, Proved!vars,
           Pipeline!queueVars, Proved!queueVars, Pipeline!taskVars, Proved!taskVars,
           Pipeline!brokerVars, Proved!brokerVars, Pipeline!worldVars, Proved!worldVars,
           Pipeline!modemVars, Proved!modemVars,
           Pipeline!lossVars, Proved!lossVars, Pipeline!Newest, Proved!Newest
  <1> QED
    BY <1>1, <1>2, <1>3, <1>4, SameSpec, Refinement, PTL DEF ImplementsPipeline
=====================================================================================
