---------------------------------- MODULE AtCommand ----------------------------------
(***************************************************************************)
(* The AT command channel: runAtCommand() and runPromptedAtCommand() of    *)
(* LteConnectionManager.cpp, the UART they share with the modem, and the   *)
(* modem itself.                                                           *)
(*                                                                         *)
(* Answers carry no name.  They come in the order of the commands, but     *)
(* whenever the modem likes, and the driver waits for each only for a      *)
(* time: an answer that comes later is read in the place of another one.   *)
(* The driver holds two things against that, a flush of the UART before    *)
(* each command and the end of the session after a failure that matters.   *)
(*                                                                         *)
(* An answer is reduced to the token the driver looks for in it.  Other    *)
(* text changes no verdict.                                                *)
(***************************************************************************)
EXTENDS Naturals, Sequences

CONSTANTS
    MaxCommands     \* bound on the commands of one power-on of the modem

ASSUME MaxCommandsAssumption == MaxCommands \in Nat

VARIABLES
    phase,      \* what the driver is doing: nothing, or waiting for which answer
    cmd,        \* the command it runs or has run last
    response,   \* the tokens in the text it has read for that command
    verdict,    \* what the last call returned
    awake,      \* has the modem answered AT, so that ensureResponsive() is over?
    closing,    \* has a failure made the caller give up what it had begun?
    rx,         \* tokens that have arrived at the UART
    line,       \* tokens that the modem has sent or is about to send
    inbox,      \* what the modem has been sent and has not looked at yet
    mode,       \* 0, or the number of the command the modem takes data for
    executed,   \* history: the commands the modem has carried out and confirmed
    swallowed,  \* history: the commands the modem has taken for data
    wanted,     \* history: the commands sent before the caller gave up
    inSync      \* history: was nothing under way when cmd was sent?

driverVars == <<phase, cmd, response, verdict, awake, closing>>
modemVars == <<inbox, mode, executed, swallowed>>
historyVars == <<wanted, inSync>>
vars == <<driverVars, rx, line, modemVars, historyVars>>

\* "probe" is the AT of ensureResponsive(), "prompted" a command with a payload.
Kind == {"probe", "plain", "prompted"}

\* "OK" also stands for "NORMAL POWER DOWN", which is as good for AT+CPOWD=1.
Token == {"OK", "ERROR", ">"}

Command == [id : 0 .. MaxCommands, kind : Kind]

\* A payload goes to the modem under the number of its command.
Item == [id : 1 .. MaxCommands, kind : Kind \cup {"payload"}]

Verdict == {"none", "ESP_OK", "ESP_FAIL", "ESP_ERR_TIMEOUT"}

TypeOK ==
    /\ phase \in {"idle", "prompt", "answer"}
    /\ cmd \in Command
    /\ response \subseteq Token
    /\ verdict \in Verdict
    /\ awake \in BOOLEAN
    /\ closing \in BOOLEAN
    /\ rx \in Seq(Token)
    /\ line \in Seq(Token)
    /\ inbox \in Seq(Item)
    /\ mode \in 0 .. MaxCommands
    /\ executed \subseteq 1 .. MaxCommands
    /\ swallowed \subseteq 1 .. MaxCommands
    /\ wanted \subseteq 1 .. MaxCommands
    /\ inSync \in BOOLEAN

Init ==
    /\ phase = "idle"
    /\ cmd = [id |-> 0, kind |-> "probe"]
    /\ response = {}
    /\ verdict = "none"
    /\ awake = FALSE
    /\ closing = FALSE
    /\ rx = <<>>
    /\ line = <<>>
    /\ inbox = <<>>
    /\ mode = 0
    /\ executed = {}
    /\ swallowed = {}
    /\ wanted = {}
    /\ inSync = TRUE

--------------------------------------------------------------------------------------
(* The driver.                                                               *)

\* Broken variant: a command is sent without flushInput().
Unflushed(kind) == {rx}

\* What the UART holds after the flush.  AT probes but the first are sent
\* without one: what came late for the one before may have been read by
\* logPendingInput(), or flushed by the change of the baud rate, or not.
Flushed(kind) == IF kind = "probe" /\ cmd.id > 0 THEN {rx, <<>>} ELSE {<<>>}

\* The kinds of commands the caller has in the state it is in.  Once it has
\* given up, stop() and the last steps of the publisher send plain ones only.
Sendable ==
    IF ~awake THEN {"probe"}
    ELSE IF closing THEN {"plain"}
    ELSE {"plain", "prompted"}

\* The next command, up to its flush.
Begin(kind) ==
    /\ phase = "idle"
    /\ cmd.id < MaxCommands
    /\ kind \in Sendable
    /\ rx' \in Flushed(kind)
    /\ cmd' = [id |-> cmd.id + 1, kind |-> kind]
    /\ response' = {}
    /\ wanted' = IF closing THEN wanted ELSE wanted \cup {cmd'.id}
    /\ inSync' = (line = <<>> /\ inbox = <<>> /\ mode = 0)

Send(kind) ==
    /\ Begin(kind)
    /\ phase' = IF kind = "prompted" THEN "prompt" ELSE "answer"
    /\ inbox' = Append(inbox, cmd')
    /\ UNCHANGED <<verdict, awake, closing, line, mode, executed, swallowed>>

\* Broken variant: the caller may go on after any failure.
GivesUpAtWill(v, kind) == IF v = "ESP_OK" THEN {closing} ELSE {closing, TRUE}

\* Whether a failure ends what the caller was about to do.  AT+CFSWFILE and
\* AT+SMPUB are the prompted commands, and no caller goes on without them; of
\* the plain ones some may fail and some may not.
GivesUp(v, kind) ==
    IF v = "ESP_OK" \/ kind = "probe" THEN {closing}
    ELSE IF kind = "prompted" THEN {TRUE}
    ELSE {closing, TRUE}

Return(v, kind) ==
    /\ phase' = "idle"
    /\ verdict' = v
    /\ awake' = (awake \/ v = "ESP_OK")
    /\ closing' \in GivesUp(v, kind)

\* uart_write_bytes() writes nothing.
SendFails(kind) ==
    /\ Begin(kind)
    /\ Return("ESP_FAIL", kind)
    /\ UNCHANGED <<line, modemVars>>

KeepsWaiting == UNCHANGED <<phase, verdict, awake, closing>>

\* uart_read_bytes() yields some of what has arrived, maybe less than a whole
\* token, and the verdict is then sought in all the text read so far.
Read ==
    /\ \E n \in 0 .. Len(rx) :
        /\ rx' = SubSeq(rx, n + 1, Len(rx))
        /\ response' = response \cup {rx[i] : i \in 1 .. n}
    /\ UNCHANGED <<cmd, line, mode, executed, swallowed, historyVars>>

\* The verdict that is found in the text, errors first.
Judged(text) == IF "ERROR" \in text THEN "ESP_FAIL" ELSE IF "OK" \in text THEN "ESP_OK" ELSE "none"

\* The loop of runAtCommandInternal(), and the second of runPromptedAtCommand().
ReadAnswer ==
    /\ phase = "answer"
    /\ Read
    /\ IF Judged(response') = "none" THEN KeepsWaiting ELSE Return(Judged(response'), cmd.kind)
    /\ UNCHANGED inbox

\* The first loop of runPromptedAtCommand().  An OK means nothing to it.
ReadNoPrompt ==
    /\ phase = "prompt"
    /\ Read
    /\ IF "ERROR" \in response' THEN Return("ESP_FAIL", cmd.kind) ELSE ">" \notin response' /\ KeepsWaiting
    /\ UNCHANGED inbox

\* Broken variant: the text read up to the prompt is kept.
TextAfter(text) == text

\* response.clear()
TextAfterPrompt(text) == {}

\* The prompt is in the text, and the payload is written; or it is not, for an
\* error of the UART driver.
ReadPrompt ==
    /\ phase = "prompt"
    /\ \E n \in 1 .. Len(rx) :
        LET text == response \cup {rx[i] : i \in 1 .. n} IN
        /\ ">" \in text /\ "ERROR" \notin text
        /\ rx' = SubSeq(rx, n + 1, Len(rx))
        /\ response' = TextAfterPrompt(text)
    /\ \/ /\ phase' = "answer"
          /\ inbox' = Append(inbox, [id |-> cmd.id, kind |-> "payload"])
          /\ UNCHANGED <<verdict, awake, closing>>
       \/ Return("ESP_FAIL", cmd.kind) /\ UNCHANGED inbox
    /\ UNCHANGED <<cmd, line, mode, executed, swallowed, historyVars>>

TimeOut ==
    /\ phase # "idle"
    /\ Return("ESP_ERR_TIMEOUT", cmd.kind)
    /\ UNCHANGED <<cmd, response, rx, line, modemVars, historyVars>>

\* powerOffModem(), and the next start() up to configureUart().  No answer
\* outlives the power of the modem.
PowerCycle ==
    /\ phase = "idle"
    /\ cmd.id > 0
    /\ phase' = "idle" /\ cmd' = [id |-> 0, kind |-> "probe"]
    /\ response' = {} /\ verdict' = "none"
    /\ awake' = FALSE /\ closing' = FALSE
    /\ rx' = <<>> /\ line' = <<>> /\ inbox' = <<>>
    /\ mode' = 0
    /\ executed' = {} /\ swallowed' = {} /\ wanted' = {}
    /\ inSync' = TRUE

--------------------------------------------------------------------------------------
(* The modem, as far as the driver relies on it: it takes what it is sent in *)
(* order and answers in order, at any time or, if it is not ready, never.    *)

\* line with an answer, if there is one.
Answers(tokens) == line' \in {line \o t : t \in tokens}

TakesNext(mayBe) ==
    /\ inbox # <<>>
    /\ mayBe
    /\ inbox' = Tail(inbox)
    /\ UNCHANGED <<driverVars, rx, historyVars>>

ModemExecutes ==
    /\ TakesNext(mode = 0 /\ Head(inbox).kind \in {"probe", "plain"})
    /\ \/ Answers({<<"OK">>}) /\ executed' = executed \cup {Head(inbox).id}
       \/ Answers({<<"ERROR">>, <<>>}) /\ UNCHANGED executed
    /\ UNCHANGED <<mode, swallowed>>

ModemPrompts ==
    /\ TakesNext(mode = 0 /\ Head(inbox).kind = "prompted")
    /\ \/ Answers({<<">">>}) /\ mode' = Head(inbox).id
       \/ Answers({<<"ERROR">>, <<>>}) /\ UNCHANGED mode
    /\ UNCHANGED <<executed, swallowed>>

\* The payload that the modem waits for.
ModemTakesPayload ==
    /\ TakesNext(Head(inbox) = [id |-> mode, kind |-> "payload"])
    /\ mode' = 0
    /\ \/ Answers({<<"OK">>}) /\ executed' = executed \cup {mode}
       \/ Answers({<<"ERROR">>, <<>>}) /\ UNCHANGED executed
    /\ UNCHANGED swallowed

\* Anything else is data, too, and may fill what the modem waits for.
ModemSwallows ==
    /\ TakesNext(mode # 0 /\ Head(inbox) # [id |-> mode, kind |-> "payload"])
    /\ swallowed' = swallowed \cup {Head(inbox).id}
    /\ \/ UNCHANGED <<line, mode>>
       \/ Answers({<<"OK">>, <<"ERROR">>}) /\ mode' = 0
    /\ UNCHANGED executed

\* The modem waits for data only for a time.
ModemGivesUp ==
    /\ mode # 0
    /\ mode' = 0
    /\ Answers({<<"ERROR">>, <<>>})
    /\ UNCHANGED <<driverVars, rx, inbox, executed, swallowed, historyVars>>

\* A payload that comes too late is no command.
ModemIgnores ==
    /\ TakesNext(mode = 0 /\ Head(inbox).kind = "payload")
    /\ Answers({<<"ERROR">>, <<>>})
    /\ UNCHANGED <<mode, executed, swallowed>>

Arrives ==
    /\ line # <<>>
    /\ rx' = Append(rx, Head(line))
    /\ line' = Tail(line)
    /\ UNCHANGED <<driverVars, modemVars, historyVars>>

Driver ==
    \/ \E kind \in Kind : Send(kind) \/ SendFails(kind)
    \/ ReadAnswer \/ ReadNoPrompt \/ ReadPrompt
    \/ TimeOut
    \/ PowerCycle

Modem ==
    \/ ModemExecutes \/ ModemPrompts
    \/ ModemTakesPayload \/ ModemSwallows \/ ModemGivesUp \/ ModemIgnores

Next == Driver \/ Modem \/ Arrives

Spec == Init /\ [][Next]_vars

--------------------------------------------------------------------------------------
\* After a timeout the driver and the modem are in step again as soon as the
\* late answer has come: a command that is sent with nothing under way gets
\* its own verdict, whatever the flush threw away (LteConnectionManager.hpp:75).
\* Not so an AT probe, which any answer to any probe will do for.
VerdictIsOwn ==
    phase = "idle" /\ inSync /\ cmd.kind # "probe" =>
        /\ verdict = "ESP_OK" => cmd.id \in executed
        /\ verdict = "ESP_FAIL" => cmd.id \notin executed

\* ESP_OK of a command with a payload means that the modem took this payload
\* for this command, however many answers to earlier commands are on their way:
\* the batch that the uploader trims from its queue is the one that was sent.
PromptedOkIsOwn ==
    phase = "idle" /\ verdict = "ESP_OK" /\ cmd.kind = "prompted" => cmd.id \in executed

\* A modem left waiting for data by a late prompt takes nothing for data but
\* what stop() and endFilesystemSession() send it on its way to being off.
OnlyClosingIsSwallowed == swallowed \cap wanted = {}
=======================================================================================
