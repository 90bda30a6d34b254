--------------------------- MODULE LteConnectionManager ---------------------------
(***************************************************************************)
(* The class LteConnectionManager (LteConnectionManager.cpp) under the     *)
(* calls runUploadCycle makes: start(), then a publish if that succeeded,  *)
(* then stop().  Each private method that start() and stop() call is one   *)
(* action with its ways to fail, and the chip may be reset between any two *)
(* of them.  No failure is final: the next upload cycle calls start()      *)
(* again, on whatever the last one has left behind.                        *)
(*                                                                         *)
(* An AT command is seen here through its result; why one fails (no power, *)
(* no SIM, no network, no time) makes no difference to the control flow.   *)
(* What the pins do to the modem is not in the code.  A modem that runs    *)
(* may or may not come through the dip of the rail in start(), which has   *)
(* no delay in it; it does not come through an interval between two cycles *)
(* (kPublishIntervalMs, hours) with the rail driven low.  PWRKEY toggles.  *)
(***************************************************************************)
VARIABLES
    pc,             \* the method that is about to be called
    caller,         \* where powerOffModem(), once called, returns to
    flag,           \* data_connection_active_
    rail,           \* level of kPowerEnableGpio, which switches the modem's 5 V
    pwrkey,         \* level of kPwrKeyGpio
    uart,           \* is the UART driver installed, so that its pins are driven?
    modem,          \* does the modem run, and is its data context up?
    heard,          \* history: was a registration reported in this cycle?
    powerDown,      \* history: what became of AT+CPOWD in this cycle
    powerOffFailed, \* history: has powerOffModem() failed since it last succeeded?
    cutShort        \* history: was that, or a cycle, before a reset of the chip?

failureVars == <<powerOffFailed, cutShort>>
histories == <<heard, powerDown, failureVars>>
vars == <<pc, caller, flag, rail, pwrkey, uart, modem, histories>>
pins == <<rail, pwrkey, uart>>

\* gpio_reset_pin() and a reset of the chip leave a pin undriven.
Level == {"low", "high", "floating"}

Modem == [on : BOOLEAN, context : {"up", "down"}]
Off == [on |-> FALSE, context |-> "down"]
Booted == [on |-> TRUE, context |-> "down"]

StartStep ==
    {"configurePowerEnableGpio", "configurePwrKeyGpio", "powerOnModem", "pulsePwrKey",
     "configureUart", "ensureResponsive", "initializeModem", "ensureSimReady",
     "configurePacketData", "selectPreferred", "awaitPreferred", "selectFallback",
     "awaitFallback", "activateDataConnection"}
StopStep == {"shutDown"}
PowerOffStep == {"releaseUartPins", "releasePwrKey", "cutRail"}

TypeOK ==
    /\ pc \in {"delay", "publish"} \cup StartStep \cup StopStep \cup PowerOffStep
    /\ caller \in {"start", "activate", "stop"}
    /\ flag \in BOOLEAN
    /\ rail \in Level
    /\ pwrkey \in Level
    /\ uart \in BOOLEAN
    /\ modem \in Modem
    /\ heard \in BOOLEAN
    /\ powerDown \in {"none", "asked", "unsendable"}
    /\ powerOffFailed \in BOOLEAN
    /\ cutShort \in BOOLEAN

Init ==
    /\ pc = "delay"
    /\ caller = "start"
    /\ flag = FALSE
    /\ rail = "floating"
    /\ pwrkey = "floating"
    /\ uart = FALSE
    /\ modem = Off
    /\ heard = FALSE
    /\ powerDown = "none"
    /\ powerOffFailed = FALSE
    /\ cutShort = FALSE

-----------------------------------------------------------------------------------
(* start().                                                                  *)

\* The three methods before the pulse: on an error start() returns at once.
ReturnsAtOnce == pc' = "delay" /\ UNCHANGED caller

\* Broken variant: the steps after the pulse return at once as well.
PowersOffNothing == ReturnsAtOnce

\* From the pulse on, an error makes start() call powerOffModem() first.
PowersOffFirst == pc' = "releaseUartPins" /\ caller' = "start"

\* The upload task has waited its interval and found samples to upload.
CallStart ==
    /\ pc = "delay"
    /\ pc' = "configurePowerEnableGpio"
    /\ UNCHANGED <<caller, flag, pins, modem, histories>>

\* Drives the rail low, also when the last cycle has left it high, and goes on
\* without a delay: a modem that runs may notice or not.
ConfigurePowerEnableGpio ==
    /\ pc = "configurePowerEnableGpio"
    /\ rail' = "low"
    /\ modem' \in {modem, Off}
    /\ pc' = "configurePwrKeyGpio"
    /\ UNCHANGED <<caller, flag, pwrkey, uart, histories>>

\* An error on the way may leave the pin reset but not driven.
ConfigurePowerEnableGpioFails ==
    /\ pc = "configurePowerEnableGpio"
    /\ rail' \in {rail, "floating"}
    /\ modem' \in {modem, Off}
    /\ ReturnsAtOnce
    /\ UNCHANGED <<flag, pwrkey, uart, histories>>

\* After an error in the next two methods the rail stays low for the interval.
ConfigurePwrKeyGpio ==
    /\ pc = "configurePwrKeyGpio"
    /\ \/ pwrkey' = "low" /\ pc' = "powerOnModem" /\ UNCHANGED <<caller, modem>>
       \/ pwrkey' \in {pwrkey, "floating"} /\ ReturnsAtOnce /\ modem' = Off
    /\ UNCHANGED <<flag, rail, uart, histories>>

PowerOnModem ==
    /\ pc = "powerOnModem"
    /\ \/ rail' = "high" /\ pc' = "pulsePwrKey" /\ UNCHANGED <<caller, modem>>
       \/ UNCHANGED rail /\ ReturnsAtOnce /\ modem' = Off
    /\ UNCHANGED <<flag, pwrkey, uart, histories>>

\* The key is asserted, held and released; the release may fail.  A modem that
\* is off boots if it notices, one that runs goes off.
PulsePwrKey ==
    /\ pc = "pulsePwrKey"
    /\ \/ pwrkey' = "low" /\ pc' = "configureUart" /\ UNCHANGED caller
       \/ pwrkey' \in {pwrkey, "high"} /\ PowersOffFirst
    /\ modem' \in {modem, IF modem.on THEN Off ELSE Booted}
    /\ UNCHANGED <<flag, rail, uart, histories>>

\* The driver may be installed before a later call of it fails.
ConfigureUart ==
    /\ pc = "configureUart"
    /\ \/ uart' = TRUE /\ pc' = "ensureResponsive" /\ UNCHANGED caller
       \/ uart' \in {uart, TRUE} /\ PowersOffFirst
    /\ UNCHANGED <<flag, rail, pwrkey, modem, histories>>

\* A dialogue of AT commands: only a modem that runs answers, and not always
\* in time.
Dialogue(step, next) ==
    /\ pc = step
    /\ \/ modem.on /\ pc' = next /\ UNCHANGED caller
       \/ PowersOffFirst
    /\ UNCHANGED <<flag, pins, modem, histories>>

EnsureResponsive == Dialogue("ensureResponsive", "initializeModem")
InitializeModem == Dialogue("initializeModem", "ensureSimReady")
EnsureSimReady == Dialogue("ensureSimReady", "configurePacketData")
ConfigurePacketData == Dialogue("configurePacketData", "selectPreferred")
SelectPreferred == Dialogue("selectPreferred", "awaitPreferred")
SelectFallback == Dialogue("selectFallback", "awaitFallback")

\* waitForNetworkRegistration(): +CEREG reports state 1 or 5 in time; nothing
\* in the answer tells for which network mode ...
RegistrationReported ==
    /\ pc \in {"awaitPreferred", "awaitFallback"}
    /\ modem.on
    /\ heard' = TRUE
    /\ pc' = "activateDataConnection"
    /\ UNCHANGED <<caller, flag, pins, modem, powerDown, failureVars>>

\* Broken variant: a registration that is not reported is not missed.
RegistrationTimesOutSilently ==
    /\ \/ pc = "awaitPreferred" /\ pc' = "activateDataConnection" /\ UNCHANGED caller
       \/ pc = "awaitFallback" /\ PowersOffFirst
    /\ UNCHANGED <<flag, pins, modem, histories>>

\* Broken variant: the two modes are tried in turn until one works.
RegistrationAlternates ==
    /\ \/ pc = "awaitPreferred" /\ pc' = "selectFallback"
       \/ pc = "awaitFallback" /\ pc' = "selectPreferred"
    /\ UNCHANGED <<caller, flag, pins, modem, histories>>

\* ... or the deadline passes, which for Cat-M1 is not an error yet.
RegistrationTimesOut ==
    /\ \/ pc = "awaitPreferred" /\ pc' = "selectFallback" /\ UNCHANGED caller
       \/ pc = "awaitFallback" /\ PowersOffFirst
    /\ UNCHANGED <<flag, pins, modem, histories>>

\* activateDataConnection(), and the end of start().  Three commands were
\* answered OK; what AT+CNACT? says of the context is only logged.
ActivateDataConnection ==
    /\ pc = "activateDataConnection"
    /\ modem.on
    /\ \E context \in {"up", "down"} : modem' = [modem EXCEPT !.context = context]
    /\ flag' = TRUE
    /\ pc' = "publish"
    /\ UNCHANGED <<caller, pins, histories>>

ActivateDataConnectionFails ==
    /\ pc = "activateDataConnection"
    /\ modem' \in {modem, [modem EXCEPT !.context = "up"]}
    /\ pc' = "releaseUartPins"
    /\ caller' = "activate"
    /\ UNCHANGED <<flag, pins, histories>>

-----------------------------------------------------------------------------------
\* publishTelemetryBatch() returns; whatever its result, stop() is next.
PublishReturns ==
    /\ pc = "publish"
    /\ pc' = "shutDown"
    /\ UNCHANGED <<caller, flag, pins, modem, histories>>

\* AT+CNACT=0,0 and AT+CGATT=0, whose results are not looked at.
ContextReleased == modem' \in {modem, [modem EXCEPT !.context = "down"]}

\* Broken variant: the context is released, but AT+CPOWD is not sent.
ShutDownUnasked ==
    /\ pc = "shutDown"
    /\ ContextReleased
    /\ pc' = "releaseUartPins"
    /\ caller' = "stop"
    /\ UNCHANGED <<flag, pins, histories>>

\* stop() up to its call of powerOffModem().  AT+CPOWD is sent and may be
\* obeyed, or its write to the UART comes out short; both are only logged.
ShutDown ==
    /\ pc = "shutDown"
    /\ \/ ~uart /\ UNCHANGED <<modem, powerDown>>
       \/ uart /\ powerDown' = "asked" /\ (ContextReleased \/ modem' = Off)
       \/ uart /\ powerDown' = "unsendable" /\ ContextReleased
    /\ pc' = "releaseUartPins"
    /\ caller' = "stop"
    /\ UNCHANGED <<flag, pins, heard, failureVars>>

-----------------------------------------------------------------------------------
(* powerOffModem(), and the return of start() or stop() after it.            *)

CycleEnds == pc' = "delay" /\ caller' = "start" /\ heard' = FALSE /\ powerDown' = "none"

\* stop() returns an error before it resets the flag; start() ignores the
\* result, and resets the flag only if it was to set it.
PowerOffFails ==
    /\ powerOffFailed' = TRUE
    /\ flag' = (flag /\ caller # "activate")
    /\ CycleEnds
    /\ UNCHANGED cutShort

\* Broken variant: a failure to release the pins is not returned.
ReleaseUartPinsForgives ==
    /\ pc = "releaseUartPins"
    /\ uart' \in {uart, FALSE}
    /\ pc' = "releasePwrKey"
    /\ UNCHANGED <<caller, flag, rail, pwrkey, modem, histories>>

\* Broken variant: the driver is deleted without a look at whether it is there.
ReleaseUartPinsUnguarded ==
    /\ pc = "releaseUartPins"
    /\ \/ uart /\ uart' = FALSE /\ pc' = "releasePwrKey" /\ UNCHANGED <<caller, flag, histories>>
       \/ uart' \in {uart, FALSE} /\ PowerOffFails
    /\ UNCHANGED <<rail, pwrkey, modem>>

\* The driver may be deleted before the reset of a pin fails.
ReleaseUartPins ==
    /\ pc = "releaseUartPins"
    /\ \/ uart' = FALSE /\ pc' = "releasePwrKey" /\ UNCHANGED <<caller, flag, histories>>
       \/ uart' \in {uart, FALSE} /\ PowerOffFails
    /\ UNCHANGED <<rail, pwrkey, modem>>

ReleasePwrKey ==
    /\ pc = "releasePwrKey"
    /\ \/ pwrkey' = "low" /\ pc' = "cutRail" /\ UNCHANGED <<caller, flag, histories>>
       \/ UNCHANGED pwrkey /\ PowerOffFails
    /\ UNCHANGED <<rail, uart, modem>>

\* Broken variant: the pin is reset instead of driven low.
CutRailFloats ==
    /\ pc = "cutRail"
    /\ rail' = "floating"
    /\ modem' \in {modem, Off}
    /\ powerOffFailed' = FALSE /\ cutShort' = FALSE
    /\ flag' = (flag /\ caller = "start")
    /\ CycleEnds
    /\ UNCHANGED <<pwrkey, uart>>

\* The rail stays low until the next start(), an interval later.
CutRail ==
    /\ pc = "cutRail"
    /\ rail' = "low"
    /\ modem' = Off
    /\ powerOffFailed' = FALSE /\ cutShort' = FALSE
    /\ flag' = (flag /\ caller = "start")
    /\ CycleEnds
    /\ UNCHANGED <<pwrkey, uart>>

CutRailFails ==
    /\ pc = "cutRail"
    /\ PowerOffFails
    /\ UNCHANGED <<pins, modem>>

-----------------------------------------------------------------------------------
\* A reset of the chip: RAM is initialized again and the pins float, so that
\* the modem may or may not keep its power.
Reset ==
    /\ pc' = "delay"
    /\ caller' = "start"
    /\ flag' = FALSE
    /\ rail' = "floating"
    /\ pwrkey' = "floating"
    /\ uart' = FALSE
    /\ modem' \in {modem, Off}
    /\ heard' = FALSE
    /\ powerDown' = "none"
    /\ cutShort' = (cutShort \/ powerOffFailed \/ pc # "delay")
    /\ powerOffFailed' = FALSE

UploadTask ==
    \/ CallStart
    \/ ConfigurePowerEnableGpio \/ ConfigurePowerEnableGpioFails
    \/ ConfigurePwrKeyGpio \/ PowerOnModem \/ PulsePwrKey \/ ConfigureUart
    \/ EnsureResponsive \/ InitializeModem \/ EnsureSimReady \/ ConfigurePacketData
    \/ SelectPreferred \/ SelectFallback
    \/ RegistrationReported \/ RegistrationTimesOut
    \/ ActivateDataConnection \/ ActivateDataConnectionFails
    \/ PublishReturns
    \/ ShutDown
    \/ ReleaseUartPins \/ ReleasePwrKey \/ CutRail \/ CutRailFails

Next == UploadTask \/ Reset

Spec == Init /\ [][Next]_vars

-----------------------------------------------------------------------------------
\* What publishTelemetryBatch() finds, by whichever way start() has come to
\* ESP_OK and whatever earlier cycles left: a modem that runs and has answered,
\* a UART to talk to it, a registration reported to this very start(), and the
\* flag (MqttPublisher.cpp:267).  Not that the data context is up: start() does
\* not look at the answer that says so.
PublisherHasSession ==
    pc = "publish" =>
        /\ flag /\ heard
        /\ rail = "high" /\ pwrkey = "low" /\ uart
        /\ modem.on

\* Between two cycles the rail and the key of the modem are not driven high and
\* the UART is not driven, unless powerOffModem() itself has failed: no failing
\* step of start() forgets to take back what the steps before it did.  And the
\* modem is off, unless a reset has cut a cycle short, which floats the pins, and
\* no power-off has succeeded since.
CycleLeavesModemOff ==
    pc = "delay" /\ ~powerOffFailed =>
        /\ rail # "high" /\ pwrkey # "high" /\ ~uart
        /\ modem.on => cutShort

\* stop() removes the power "gracefully" (LteConnectionManager.hpp:14): it cuts
\* the rail only after AT+CPOWD was sent, or could not be written to the UART,
\* which it does not look at.  It tries only if it finds the UART driver
\* installed, which is up to start() and to earlier cycles.
StopIsGraceful ==
    [][pc = "cutRail" /\ caller = "stop" /\ rail' = "low" => powerDown # "none"]_vars

\* Every cycle comes to its end, so that the next one can begin.
EveryCycleEnds == pc # "delay" ~> pc = "delay"

\* The rail is switched, on or off, only with the UART released: its pins are
\* "high impedance before modem power removal" (LteConnectionManager.hpp:72).
\* What a failed powerOffModem() leaves driven, start() does not release before
\* it takes the rail down and up again; powerOffModem() itself never cuts it so.
PinsReleasedFirst ==
    [][rail' # rail /\ uart' => powerOffFailed /\ pc # "cutRail"]_vars
===================================================================================
