------------------------------ MODULE MqttPublisher ------------------------------
(***************************************************************************)
(* The class MqttPublisher (MqttPublisher.cpp): publishTelemetryBatch()    *)
(* provides the modem with the CA certificate file, configures TLS and the *)
(* modem's MQTT client, connects it, publishes the batch and disconnects,  *)
(* all by AT commands of which each may fail.  Each action is one command, *)
(* or a series of them that fails as one; the chip may be reset, and the   *)
(* power of the modem fail, between and during them.                       *)
(*                                                                         *)
(* The modem and the broker are modelled as far as the code relies on      *)
(* them: an OK is the answer to the last command and means that it was     *)
(* done; any other answer, or none, leaves open whether it was.            *)
(***************************************************************************)
EXTENDS Naturals

VARIABLES
    pc,           \* the command, or series of commands, that comes next
    count,        \* sample_count of the call
    err,          \* the result of publishMessage(), and of the call once it is back
    verdict,      \* the CertificateFileCheckResult of the check being made
    uploaded,     \* has this call uploaded the file?
    configured,   \* are host, username and password of the build not blank?
    probing,      \* does the modem's firmware answer AT+CFSGFIS?
    file,         \* the certificate file in the modem's flash
    session,      \* is a filesystem session open in the modem?
    connected,    \* is the modem's MQTT client connected?
    received,     \* has the broker received the batch of this call?
    sessionFault, \* history: did a command that opens or closes a session fail?
    interrupted   \* history: was an upload of the file cut short?

callVars == <<count, verdict, uploaded>>
buildVars == <<configured, probing>>
vars == <<pc, err, callVars, buildVars, file, session, connected, received,
          sessionFault, interrupted>>

\* The steps whose commands use the certificate file.
TlsStep == {"configureTls", "convert", "bind", "configureClient", "connect", "publish", "disconnect"}

Step ==
    {"begin", "openForCheck", "probe", "closeAfterCheck", "openForUpload", "writeFile",
     "closeAfterUpload", "diagnose", "closeAfterDiagnosis"} \cup TlsStep

TypeOK ==
    /\ pc \in {"idle"} \cup Step
    /\ count \in 0 .. 1
    /\ err \in {"ESP_OK", "ESP_FAIL"}
    /\ verdict \in {"Found", "NotFound", "Unknown"}
    /\ uploaded \in BOOLEAN
    /\ configured \in BOOLEAN
    /\ probing \in BOOLEAN
    /\ file \in {"absent", "truncated", "complete"}
    /\ session \in BOOLEAN
    /\ connected \in BOOLEAN
    /\ received \in BOOLEAN
    /\ sessionFault \in BOOLEAN
    /\ interrupted \in BOOLEAN

\* A modem as it is delivered, without the file.
Init ==
    /\ pc = "idle"
    /\ count = 0
    /\ err = "ESP_OK"
    /\ verdict = "Unknown"
    /\ uploaded = FALSE
    /\ configured \in BOOLEAN
    /\ probing \in BOOLEAN
    /\ file = "absent"
    /\ session = FALSE
    /\ connected = FALSE
    /\ received = FALSE
    /\ sessionFault = FALSE
    /\ interrupted = FALSE

Goto(step) == pc' = step /\ UNCHANGED err
Return(result) == pc' = "idle" /\ err' = result

----------------------------------------------------------------------------------
Call(n) ==
    /\ pc = "idle"
    /\ count' = n
    /\ verdict' = "Unknown"
    /\ uploaded' = FALSE
    /\ session' = FALSE
    /\ connected' = FALSE
    /\ received' = FALSE
    /\ sessionFault' = FALSE
    /\ Goto("begin")
    /\ UNCHANGED <<buildVars, file, interrupted>>

\* Its early returns: a blank setting or no data connection is an error, an
\* empty batch is not.
Begin(active) ==
    /\ pc = "begin"
    /\ \/ ~(configured /\ active) /\ Return("ESP_FAIL")
       \/ configured /\ active /\ count = 0 /\ Return("ESP_OK")
       \/ configured /\ active /\ count > 0 /\ Goto("openForCheck")
    /\ UNCHANGED <<callVars, buildVars, file, session, connected, received, sessionFault, interrupted>>

----------------------------------------------------------------------------------
(* ensureCertificateFilePresent().                                           *)

\* AT+CFSINIT and AT+CFSTERM.  A modem that does not answer may have obeyed.
OpensSession == session' = TRUE /\ UNCHANGED sessionFault
OpenFails == session' \in {session, TRUE} /\ sessionFault' = TRUE
ClosesSession ==
    \/ session' = FALSE /\ UNCHANGED sessionFault
    \/ session' \in {session, FALSE} /\ sessionFault' = TRUE

\* Broken variant: a check without a result passes for Found.
ConcludeTrusting(result) ==
    \/ /\ result # "NotFound"
       /\ Goto("configureTls")
    \/ /\ ~uploaded
       /\ result = "NotFound"
       /\ Goto("openForUpload")
    \/ /\ uploaded
       /\ result = "NotFound"
       /\ Return("ESP_FAIL")

\* What the result of a check leads to: before an upload only Found makes one
\* unnecessary, after it only NotFound is an error.
Conclude(result) ==
    \/ /\ IF uploaded THEN result # "NotFound" ELSE result = "Found"
       /\ Goto("configureTls")
    \/ /\ ~uploaded
       /\ result # "Found"
       /\ Goto("openForUpload")
    \/ /\ uploaded
       /\ result = "NotFound"
       /\ Return("ESP_FAIL")

OpenForCheck ==
    /\ pc = "openForCheck"
    /\ OpensSession
    /\ Goto("probe")
    /\ UNCHANGED <<callVars, buildVars, file, connected, received, interrupted>>

OpenForCheckFails ==
    /\ pc = "openForCheck"
    /\ OpenFails
    /\ verdict' = "Unknown"
    /\ Conclude("Unknown")
    /\ UNCHANGED <<count, uploaded, buildVars, file, connected, received, interrupted>>

\* Broken variant: a file that is found ends the check before the session.
ProbeReturnsEarly ==
    /\ pc = "probe"
    /\ \/ probing /\ file # "absent" /\ verdict' = "Found" /\ Goto("configureTls")
       \/ ~probing /\ verdict' = "Unknown" /\ Goto("closeAfterCheck")
       \/ verdict' = "NotFound" /\ Goto("closeAfterCheck")
    /\ UNCHANGED <<count, uploaded, buildVars, file, session, connected, received,
                   sessionFault, interrupted>>

\* AT+CFSGFIS in the four directories: a file that is not all there is found
\* too, and silence counts as an answer in the negative.
Probe ==
    /\ pc = "probe"
    /\ \/ probing /\ file # "absent" /\ verdict' = "Found"
       \/ ~probing /\ verdict' = "Unknown"
       \/ verdict' = "NotFound"
    /\ Goto("closeAfterCheck")
    /\ UNCHANGED <<count, uploaded, buildVars, file, session, connected, received,
                   sessionFault, interrupted>>

CloseAfterCheck ==
    /\ pc = "closeAfterCheck"
    /\ ClosesSession
    /\ Conclude(verdict)
    /\ UNCHANGED <<callVars, buildVars, file, connected, received, interrupted>>

OpenForUpload ==
    /\ pc = "openForUpload"
    /\ OpensSession
    /\ Goto("writeFile")
    /\ UNCHANGED <<callVars, buildVars, file, connected, received, interrupted>>

OpenForUploadFails ==
    /\ pc = "openForUpload"
    /\ OpenFails
    /\ Return("ESP_FAIL")
    /\ UNCHANGED <<callVars, buildVars, file, connected, received, interrupted>>

WriteFile ==
    /\ pc = "writeFile"
    /\ file' = "complete"
    /\ uploaded' = TRUE
    /\ Goto("closeAfterUpload")
    /\ UNCHANGED <<count, verdict, buildVars, session, connected, received,
                   sessionFault, interrupted>>

\* The write is refused, or ends somewhere after the prompt.
FileIsCutShort ==
    /\ file' \in {"truncated", "complete"}
    /\ interrupted' = TRUE

WriteFileFails ==
    /\ pc = "writeFile"
    /\ UNCHANGED <<file, interrupted>> \/ FileIsCutShort
    /\ Goto("closeAfterUpload")
    /\ UNCHANGED <<callVars, buildVars, session, connected, received, sessionFault>>

\* Broken variant: the check after the upload does not know of it.
CloseAfterUploadForgets ==
    /\ pc = "closeAfterUpload"
    /\ ClosesSession
    /\ IF uploaded THEN Goto("openForCheck") ELSE Return("ESP_FAIL")
    /\ uploaded' = FALSE
    /\ UNCHANGED <<count, verdict, buildVars, file, connected, received, interrupted>>

CloseAfterUpload ==
    /\ pc = "closeAfterUpload"
    /\ ClosesSession
    /\ IF uploaded THEN Goto("openForCheck") ELSE Return("ESP_FAIL")
    /\ UNCHANGED <<callVars, buildVars, file, connected, received, interrupted>>

----------------------------------------------------------------------------------
(* The rest of configureTls(), and connectClient().                          *)

\* A series of settings, of which one that fails ends the call.
Settings(step, next) ==
    /\ pc = step
    /\ Goto(next) \/ Return("ESP_FAIL")
    /\ UNCHANGED <<callVars, buildVars, file, session, connected, received,
                   sessionFault, interrupted>>

ConfigureTls == Settings("configureTls", "convert")
ConvertCertificate == Settings("convert", "bind")
BindCertificate == Settings("bind", "configureClient")
ConfigureClient == Settings("configureClient", "connect")

\* AT+SMCONN: the TLS handshake needs the whole certificate.
Connect ==
    /\ pc = "connect"
    /\ file = "complete"
    /\ connected' = TRUE
    /\ Goto("publish")
    /\ UNCHANGED <<callVars, buildVars, file, session, received, sessionFault, interrupted>>

\* Without an OK in time the client may still get connected.
ConnectFails ==
    /\ pc = "connect"
    /\ connected' \in {FALSE, file = "complete"}
    /\ Goto("diagnose")
    /\ UNCHANGED <<callVars, buildVars, file, session, received, sessionFault, interrupted>>

\* The queries after a failed AT+SMCONN, the last of them in a filesystem
\* session.  The client is left as it is.
Diagnose ==
    /\ pc = "diagnose"
    /\ \/ OpensSession /\ Goto("closeAfterDiagnosis")
       \/ OpenFails /\ Return("ESP_FAIL")
    /\ UNCHANGED <<callVars, buildVars, file, connected, received, interrupted>>

CloseAfterDiagnosis ==
    /\ pc = "closeAfterDiagnosis"
    /\ ClosesSession
    /\ Return("ESP_FAIL")
    /\ UNCHANGED <<callVars, buildVars, file, connected, received, interrupted>>

----------------------------------------------------------------------------------
\* AT+SMPUB with QoS 1: the OK comes after the broker's acknowledgement.
PublishMessage ==
    /\ pc = "publish"
    /\ received' = TRUE
    /\ err' = "ESP_OK"
    /\ pc' = "disconnect"
    /\ UNCHANGED <<callVars, buildVars, file, session, connected, sessionFault, interrupted>>

\* Without an OK in time the broker may have the batch, or get it yet.
PublishMessageFails ==
    /\ pc = "publish"
    /\ received' \in BOOLEAN
    /\ err' = "ESP_FAIL"
    /\ pc' = "disconnect"
    /\ UNCHANGED <<callVars, buildVars, file, session, connected, sessionFault, interrupted>>

\* Broken variant: the result of the publish is lost.
DisconnectForgives ==
    /\ pc = "disconnect"
    /\ connected' = FALSE
    /\ Return("ESP_OK")
    /\ UNCHANGED <<callVars, buildVars, file, session, received, sessionFault, interrupted>>

\* AT+SMDISC; its failure is the result of a call that had no other.
Disconnect ==
    /\ pc = "disconnect"
    /\ connected' = FALSE
    /\ Return(err)
    /\ UNCHANGED <<callVars, buildVars, file, session, received, sessionFault, interrupted>>

\* Broken variant: a failed disconnect is not reported.
DisconnectFailsSilently ==
    /\ pc = "disconnect"
    /\ connected' \in {connected, FALSE}
    /\ Return(err)
    /\ UNCHANGED <<callVars, buildVars, file, session, received, sessionFault, interrupted>>

DisconnectFails ==
    /\ pc = "disconnect"
    /\ connected' \in {connected, FALSE}
    /\ Return("ESP_FAIL")
    /\ UNCHANGED <<callVars, buildVars, file, session, received, sessionFault, interrupted>>

----------------------------------------------------------------------------------
\* A reset of the chip: the call never returns, and a write stops half-way.
Reset ==
    /\ pc \in Step
    /\ Return("ESP_FAIL")
    /\ IF pc = "writeFile" THEN UNCHANGED <<file, interrupted>> \/ FileIsCutShort
                           ELSE UNCHANGED <<file, interrupted>>
    /\ UNCHANGED <<callVars, buildVars, session, connected, received, sessionFault>>

Publisher ==
    \/ \E active \in BOOLEAN : Begin(active)
    \/ OpenForCheck \/ OpenForCheckFails \/ Probe \/ CloseAfterCheck
    \/ OpenForUpload \/ OpenForUploadFails
    \/ WriteFile \/ WriteFileFails \/ CloseAfterUpload
    \/ ConfigureTls \/ ConvertCertificate \/ BindCertificate \/ ConfigureClient
    \/ Connect \/ ConnectFails \/ Diagnose \/ CloseAfterDiagnosis
    \/ PublishMessage \/ PublishMessageFails
    \/ Disconnect \/ DisconnectFails

Next ==
    \/ \E n \in 0 .. 1 : Call(n)
    \/ Publisher
    \/ Reset

Spec == Init /\ [][Next]_vars

\* Every command is answered or times out.  runUploadCycle calls over and
\* over, always with samples and a data connection (main.cpp:83-94), and it is
\* assumed that not every upload of the file fails, nor is hit by a reset.
Fairness ==
    /\ WF_vars(Publisher)
    /\ SF_vars(Call(1))
    /\ SF_vars(count > 0 /\ Begin(TRUE))
    /\ SF_vars(OpenForCheck) /\ SF_vars(Probe) /\ SF_vars(CloseAfterCheck)
    /\ SF_vars(OpenForUpload) /\ SF_vars(WriteFile)

FairSpec == Spec /\ Fairness

----------------------------------------------------------------------------------
Abstract == INSTANCE PublishCall
    WITH outcome <- IF pc = "idle" THEN err ELSE "pending"

\* The call keeps the promise its caller trims the queue on: no way through
\* its errors, early returns and retained err makes it return ESP_OK for a
\* batch the broker has not received.
ImplementsPublishCall == Abstract!Spec

\* No command that needs the certificate is sent to a modem without it, and a
\* modem with half of it owes that to an upload that was cut short: neither
\* the tolerant check nor the firmware that cannot answer it lets a call skip
\* the upload it needs (MqttPublisher.cpp:210-240).
CertificateIsProvided ==
    pc \in TlsStep => file = "complete" \/ (file = "truncated" /\ interrupted)

\* Every path out of the certificate check and the upload closes the
\* filesystem session it has opened, unless the modem did not comply.
SessionsAreClosed ==
    pc \in TlsStep /\ session => sessionFault

\* A call that reports success has left no client connected, and one whose
\* client is still connected reports an error.
SuccessIsDisconnected ==
    pc = "idle" /\ err = "ESP_OK" => ~connected

\* Every call returns, although it may check for the file twice.
EveryCallReturns == pc # "idle" ~> pc = "idle"

\* The firmware uploads the CA file by itself when the modem lacks it, also
\* to a modem that does not answer the question for it (README.md:66-70).
MissingFileIsUploaded == configured ~> file # "absent"
==================================================================================
