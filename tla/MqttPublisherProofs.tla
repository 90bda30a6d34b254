--------------------------- MODULE MqttPublisherProofs ---------------------------
(***************************************************************************)
(* publishTelemetryBatch() implements PublishCall: it reports success only *)
(* for a batch the broker has received.  And no way through its check of   *)
(* the certificate file skips an upload that is needed, or leaves a        *)
(* filesystem session open.                                                *)
(***************************************************************************)
EXTENDS MqttPublisher, TLAPS

\* The file is there once it was found or uploaded, and whole unless an
\* upload was cut short.
FileIsTraced ==
    /\ file = "truncated" => interrupted
    /\ uploaded => file # "absent"
    /\ pc = "closeAfterCheck" /\ verdict = "Found" => file # "absent"
    /\ pc \in TlsStep => file # "absent"

SessionIsTraced ==
    pc \in TlsStep \cup {"begin", "openForCheck", "openForUpload"} /\ session => sessionFault

\* The client is connected by AT+SMCONN only, and disconnected for an ESP_OK.
ConnectionIsTraced ==
    /\ pc \in Step \ {"publish", "disconnect", "diagnose", "closeAfterDiagnosis"} => ~connected
    /\ pc = "idle" /\ err = "ESP_OK" => ~connected

\* Only a batch with samples gets beyond the early returns, and the client
\* is disconnected without an error only after the broker's receipt.
ReceiptIsTraced ==
    /\ pc \in Step \ {"begin"} => count > 0
    /\ pc \in Step \ {"disconnect"} => ~received
    /\ pc = "disconnect" /\ err = "ESP_OK" => received

IInv ==
    /\ TypeOK
    /\ FileIsTraced
    /\ SessionIsTraced
    /\ ConnectionIsTraced
    /\ ReceiptIsTraced

USE DEF TlsStep, Step

\* The commands for the filesystem keep the types of what they touch.
LEMMA SessionTypes ==
    ASSUME TypeOK, OpensSession \/ OpenFails \/ ClosesSession
    PROVE  session' \in BOOLEAN /\ sessionFault' \in BOOLEAN
  BY DEF TypeOK, OpensSession, OpenFails, ClosesSession

LEMMA FileTypes ==
    ASSUME TypeOK, FileIsCutShort \/ UNCHANGED <<file, interrupted>>
    PROVE  file' \in {"absent", "truncated", "complete"} /\ interrupted' \in BOOLEAN
  BY DEF TypeOK, FileIsCutShort

LEMMA InitInvariant == Init => IInv
  <1> SUFFICES ASSUME Init PROVE IInv
    OBVIOUS
  <1>1. TypeOK
    <2>1. count \in 0 .. 1
      BY DEF Init
    <2>2. /\ configured \in BOOLEAN /\ probing \in BOOLEAN
          /\ uploaded \in BOOLEAN /\ session \in BOOLEAN /\ connected \in BOOLEAN
          /\ received \in BOOLEAN /\ sessionFault \in BOOLEAN /\ interrupted \in BOOLEAN
      BY DEF Init
    <2>3. /\ pc \in {"idle"} \cup Step /\ err \in {"ESP_OK", "ESP_FAIL"}
          /\ verdict \in {"Found", "NotFound", "Unknown"}
          /\ file \in {"absent", "truncated", "complete"}
      BY DEF Init
    <2> QED
      BY <2>1, <2>2, <2>3 DEF TypeOK
  <1>2. FileIsTraced /\ SessionIsTraced /\ ConnectionIsTraced
    BY DEF Init, FileIsTraced, SessionIsTraced, ConnectionIsTraced
  <1>3. ReceiptIsTraced
    BY DEF Init, ReceiptIsTraced
  <1> QED
    BY <1>1, <1>2, <1>3 DEF IInv

----------------------------------------------------------------------------------
\* The call, its early returns, and a reset.
LEMMA BoundaryPreserves ==
    ASSUME IInv,
           \/ \E n \in 0 .. 1 : Call(n)
           \/ \E active \in BOOLEAN : Begin(active)
           \/ Reset
    PROVE  IInv'
  <1> USE DEF callVars, buildVars, Goto, Return
  <1>1. ASSUME NEW n \in 0 .. 1, Call(n)
        PROVE  IInv'
    <2>1. TypeOK'
      BY <1>1 DEF Call, IInv, TypeOK
    <2>2. FileIsTraced'
      BY <1>1 DEF Call, IInv, FileIsTraced
    <2>3. SessionIsTraced'
      BY <1>1 DEF Call, IInv, SessionIsTraced
    <2>4. ConnectionIsTraced'
      BY <1>1 DEF Call, IInv, ConnectionIsTraced
    <2>5. ReceiptIsTraced'
      BY <1>1 DEF Call, IInv, ReceiptIsTraced
    <2> QED
      BY <2>1, <2>2, <2>3, <2>4, <2>5 DEF IInv
  <1>2. ASSUME NEW active \in BOOLEAN, Begin(active)
        PROVE  IInv'
    <2>1. TypeOK'
      BY <1>2 DEF Begin, IInv, TypeOK
    <2>2. FileIsTraced'
      BY <1>2 DEF Begin, IInv, FileIsTraced
    <2>3. SessionIsTraced'
      BY <1>2 DEF Begin, IInv, SessionIsTraced
    <2>4. ConnectionIsTraced'
      BY <1>2 DEF Begin, IInv, ConnectionIsTraced
    <2>5. ReceiptIsTraced'
      BY <1>2 DEF Begin, IInv, ReceiptIsTraced
    <2> QED
      BY <2>1, <2>2, <2>3, <2>4, <2>5 DEF IInv
  <1>3. CASE Reset
    <2>1. TypeOK'
      BY <1>3, FileTypes DEF Reset, IInv, TypeOK
    <2>2. FileIsTraced'
      BY <1>3 DEF Reset, FileIsCutShort, IInv, FileIsTraced
    <2>3. SessionIsTraced'
      BY <1>3 DEF Reset, FileIsCutShort, IInv, SessionIsTraced
    <2>4. ConnectionIsTraced'
      BY <1>3 DEF Reset, FileIsCutShort, IInv, ConnectionIsTraced
    <2>5. ReceiptIsTraced'
      BY <1>3 DEF Reset, FileIsCutShort, IInv, ReceiptIsTraced
    <2> QED
      BY <2>1, <2>2, <2>3, <2>4, <2>5 DEF IInv
  <1> QED
    BY <1>1, <1>2, <1>3

\* The check of the certificate file.
LEMMA CheckPreserves ==
    ASSUME IInv,
           OpenForCheck \/ OpenForCheckFails \/ Probe \/ CloseAfterCheck
    PROVE  IInv'
  <1> USE DEF callVars, buildVars, Goto, Return
  <1>1. CASE OpenForCheck
    <2>1. TypeOK'
      BY <1>1, SessionTypes DEF OpenForCheck, IInv, TypeOK
    <2>2. FileIsTraced'
      BY <1>1 DEF OpenForCheck, OpensSession, IInv, FileIsTraced
    <2>3. SessionIsTraced'
      BY <1>1 DEF OpenForCheck, OpensSession, IInv, SessionIsTraced
    <2>4. ConnectionIsTraced'
      BY <1>1 DEF OpenForCheck, OpensSession, IInv, ConnectionIsTraced
    <2>5. ReceiptIsTraced'
      BY <1>1 DEF OpenForCheck, OpensSession, IInv, ReceiptIsTraced
    <2> QED
      BY <2>1, <2>2, <2>3, <2>4, <2>5 DEF IInv
  <1>2. CASE OpenForCheckFails
    <2>1. TypeOK'
      BY <1>2, SessionTypes DEF OpenForCheckFails, Conclude, IInv, TypeOK
    <2>2. FileIsTraced'
      BY <1>2 DEF OpenForCheckFails, OpenFails, Conclude, IInv, FileIsTraced
    <2>3. SessionIsTraced'
      BY <1>2 DEF OpenForCheckFails, OpenFails, Conclude, IInv, SessionIsTraced
    <2>4. ConnectionIsTraced'
      BY <1>2 DEF OpenForCheckFails, OpenFails, Conclude, IInv, ConnectionIsTraced
    <2>5. ReceiptIsTraced'
      BY <1>2 DEF OpenForCheckFails, OpenFails, Conclude, IInv, ReceiptIsTraced
    <2> QED
      BY <2>1, <2>2, <2>3, <2>4, <2>5 DEF IInv
  <1>3. CASE Probe
    <2>1. TypeOK'
      BY <1>3 DEF Probe, IInv, TypeOK
    <2>2. FileIsTraced'
      BY <1>3 DEF Probe, IInv, FileIsTraced
    <2>3. SessionIsTraced'
      BY <1>3 DEF Probe, IInv, SessionIsTraced
    <2>4. ConnectionIsTraced'
      BY <1>3 DEF Probe, IInv, ConnectionIsTraced
    <2>5. ReceiptIsTraced'
      BY <1>3 DEF Probe, IInv, ReceiptIsTraced
    <2> QED
      BY <2>1, <2>2, <2>3, <2>4, <2>5 DEF IInv
  <1>4. CASE CloseAfterCheck
    <2>1. TypeOK'
      BY <1>4, SessionTypes DEF CloseAfterCheck, Conclude, IInv, TypeOK
    <2>2. FileIsTraced'
      BY <1>4 DEF CloseAfterCheck, ClosesSession, Conclude, IInv, FileIsTraced
    <2>3. SessionIsTraced'
      BY <1>4 DEF CloseAfterCheck, ClosesSession, Conclude, IInv, SessionIsTraced
    <2>4. ConnectionIsTraced'
      BY <1>4 DEF CloseAfterCheck, ClosesSession, Conclude, IInv, ConnectionIsTraced
    <2>5. ReceiptIsTraced'
      BY <1>4 DEF CloseAfterCheck, ClosesSession, Conclude, IInv, ReceiptIsTraced
    <2> QED
      BY <2>1, <2>2, <2>3, <2>4, <2>5 DEF IInv
  <1> QED
    BY <1>1, <1>2, <1>3, <1>4

\* Its upload.
LEMMA UploadPreserves ==
    ASSUME IInv,
           \/ OpenForUpload \/ OpenForUploadFails
           \/ WriteFile \/ WriteFileFails \/ CloseAfterUpload
    PROVE  IInv'
  <1> USE DEF callVars, buildVars, Goto, Return
  <1>1. CASE OpenForUpload
    <2>1. TypeOK'
      BY <1>1, SessionTypes DEF OpenForUpload, IInv, TypeOK
    <2>2. FileIsTraced'
      BY <1>1 DEF OpenForUpload, OpensSession, IInv, FileIsTraced
    <2>3. SessionIsTraced'
      BY <1>1 DEF OpenForUpload, OpensSession, IInv, SessionIsTraced
    <2>4. ConnectionIsTraced'
      BY <1>1 DEF OpenForUpload, OpensSession, IInv, ConnectionIsTraced
    <2>5. ReceiptIsTraced'
      BY <1>1 DEF OpenForUpload, OpensSession, IInv, ReceiptIsTraced
    <2> QED
      BY <2>1, <2>2, <2>3, <2>4, <2>5 DEF IInv
  <1>2. CASE OpenForUploadFails
    <2>1. TypeOK'
      BY <1>2, SessionTypes DEF OpenForUploadFails, IInv, TypeOK
    <2>2. FileIsTraced'
      BY <1>2 DEF OpenForUploadFails, OpenFails, IInv, FileIsTraced
    <2>3. SessionIsTraced'
      BY <1>2 DEF OpenForUploadFails, OpenFails, IInv, SessionIsTraced
    <2>4. ConnectionIsTraced'
      BY <1>2 DEF OpenForUploadFails, OpenFails, IInv, ConnectionIsTraced
    <2>5. ReceiptIsTraced'
      BY <1>2 DEF OpenForUploadFails, OpenFails, IInv, ReceiptIsTraced
    <2> QED
      BY <2>1, <2>2, <2>3, <2>4, <2>5 DEF IInv
  <1>3. CASE WriteFile
    <2>1. TypeOK'
      BY <1>3 DEF WriteFile, IInv, TypeOK
    <2>2. FileIsTraced'
      BY <1>3 DEF WriteFile, IInv, FileIsTraced
    <2>3. SessionIsTraced'
      BY <1>3 DEF WriteFile, IInv, SessionIsTraced
    <2>4. ConnectionIsTraced'
      BY <1>3 DEF WriteFile, IInv, ConnectionIsTraced
    <2>5. ReceiptIsTraced'
      BY <1>3 DEF WriteFile, IInv, ReceiptIsTraced
    <2> QED
      BY <2>1, <2>2, <2>3, <2>4, <2>5 DEF IInv
  <1>4. CASE WriteFileFails
    <2>1. TypeOK'
      BY <1>4, FileTypes DEF WriteFileFails, IInv, TypeOK
    <2>2. FileIsTraced'
      BY <1>4 DEF WriteFileFails, FileIsCutShort, IInv, FileIsTraced
    <2>3. SessionIsTraced'
      BY <1>4 DEF WriteFileFails, FileIsCutShort, IInv, SessionIsTraced
    <2>4. ConnectionIsTraced'
      BY <1>4 DEF WriteFileFails, FileIsCutShort, IInv, ConnectionIsTraced
    <2>5. ReceiptIsTraced'
      BY <1>4 DEF WriteFileFails, FileIsCutShort, IInv, ReceiptIsTraced
    <2> QED
      BY <2>1, <2>2, <2>3, <2>4, <2>5 DEF IInv
  <1>5. CASE CloseAfterUpload
    <2>1. TypeOK'
      BY <1>5, SessionTypes DEF CloseAfterUpload, IInv, TypeOK
    <2>2. FileIsTraced'
      BY <1>5 DEF CloseAfterUpload, ClosesSession, IInv, FileIsTraced
    <2>3. SessionIsTraced'
      BY <1>5 DEF CloseAfterUpload, ClosesSession, IInv, SessionIsTraced
    <2>4. ConnectionIsTraced'
      BY <1>5 DEF CloseAfterUpload, ClosesSession, IInv, ConnectionIsTraced
    <2>5. ReceiptIsTraced'
      BY <1>5 DEF CloseAfterUpload, ClosesSession, IInv, ReceiptIsTraced
    <2> QED
      BY <2>1, <2>2, <2>3, <2>4, <2>5 DEF IInv
  <1> QED
    BY <1>1, <1>2, <1>3, <1>4, <1>5

\* The settings, and the connection of the client.
LEMMA ConnectPreserves ==
    ASSUME IInv,
           \/ ConfigureTls \/ ConvertCertificate \/ BindCertificate \/ ConfigureClient
           \/ Connect \/ ConnectFails \/ Diagnose \/ CloseAfterDiagnosis
    PROVE  IInv'
  <1> USE DEF callVars, buildVars, Goto, Return
  <1>1. ASSUME NEW step \in TlsStep \ {"connect", "publish", "disconnect"},
               NEW next \in TlsStep \ {"publish", "disconnect"}, Settings(step, next)
        PROVE  IInv'
    <2>1. TypeOK'
      BY <1>1 DEF Settings, IInv, TypeOK
    <2>2. FileIsTraced'
      BY <1>1 DEF Settings, IInv, FileIsTraced
    <2>3. SessionIsTraced'
      BY <1>1 DEF Settings, IInv, SessionIsTraced
    <2>4. ConnectionIsTraced'
      BY <1>1 DEF Settings, IInv, ConnectionIsTraced
    <2>5. ReceiptIsTraced'
      BY <1>1 DEF Settings, IInv, ReceiptIsTraced
    <2> QED
      BY <2>1, <2>2, <2>3, <2>4, <2>5 DEF IInv
  <1>2. CASE Connect
    <2>1. TypeOK'
      BY <1>2 DEF Connect, IInv, TypeOK
    <2>2. FileIsTraced'
      BY <1>2 DEF Connect, IInv, FileIsTraced
    <2>3. SessionIsTraced'
      BY <1>2 DEF Connect, IInv, SessionIsTraced
    <2>4. ConnectionIsTraced'
      BY <1>2 DEF Connect, IInv, ConnectionIsTraced
    <2>5. ReceiptIsTraced'
      BY <1>2 DEF Connect, IInv, ReceiptIsTraced
    <2> QED
      BY <2>1, <2>2, <2>3, <2>4, <2>5 DEF IInv
  <1>3. CASE ConnectFails
    <2>1. TypeOK'
      <3>1. connected' \in BOOLEAN
        <4>1. connected' \in {FALSE, file = "complete"}
          BY <1>3 DEF ConnectFails
        <4> QED
          BY <4>1, Zenon
      <3>2. UNCHANGED <<err, count, verdict, uploaded, configured, probing, file, session,
                        received, sessionFault, interrupted>>
        BY <1>3 DEF ConnectFails
      <3>3. pc' = "diagnose"
        BY <1>3 DEF ConnectFails
      <3> QED
        BY <3>1, <3>2, <3>3 DEF IInv, TypeOK, Step
    <2>2. FileIsTraced'
      BY <1>3 DEF ConnectFails, IInv, FileIsTraced
    <2>3. SessionIsTraced'
      BY <1>3 DEF ConnectFails, IInv, SessionIsTraced
    <2>4. ConnectionIsTraced'
      BY <1>3 DEF ConnectFails, IInv, ConnectionIsTraced
    <2>5. ReceiptIsTraced'
      BY <1>3 DEF ConnectFails, IInv, ReceiptIsTraced
    <2> QED
      BY <2>1, <2>2, <2>3, <2>4, <2>5 DEF IInv
  <1>4. CASE Diagnose
    <2>1. TypeOK'
      BY <1>4, SessionTypes DEF Diagnose, IInv, TypeOK
    <2>2. FileIsTraced'
      BY <1>4 DEF Diagnose, OpensSession, OpenFails, IInv, FileIsTraced
    <2>3. SessionIsTraced'
      BY <1>4 DEF Diagnose, OpensSession, OpenFails, IInv, SessionIsTraced
    <2>4. ConnectionIsTraced'
      BY <1>4 DEF Diagnose, OpensSession, OpenFails, IInv, ConnectionIsTraced
    <2>5. ReceiptIsTraced'
      BY <1>4 DEF Diagnose, OpensSession, OpenFails, IInv, ReceiptIsTraced
    <2> QED
      BY <2>1, <2>2, <2>3, <2>4, <2>5 DEF IInv
  <1>5. CASE CloseAfterDiagnosis
    <2>1. TypeOK'
      BY <1>5, SessionTypes DEF CloseAfterDiagnosis, IInv, TypeOK
    <2>2. FileIsTraced'
      BY <1>5 DEF CloseAfterDiagnosis, ClosesSession, IInv, FileIsTraced
    <2>3. SessionIsTraced'
      BY <1>5 DEF CloseAfterDiagnosis, ClosesSession, IInv, SessionIsTraced
    <2>4. ConnectionIsTraced'
      BY <1>5 DEF CloseAfterDiagnosis, ClosesSession, IInv, ConnectionIsTraced
    <2>5. ReceiptIsTraced'
      BY <1>5 DEF CloseAfterDiagnosis, ClosesSession, IInv, ReceiptIsTraced
    <2> QED
      BY <2>1, <2>2, <2>3, <2>4, <2>5 DEF IInv
  <1> QED
    BY <1>1, <1>2, <1>3, <1>4, <1>5
       DEF ConfigureTls, ConvertCertificate, BindCertificate, ConfigureClient

\* The publish, and the end of the call.
LEMMA PublishPreserves ==
    ASSUME IInv,
           PublishMessage \/ PublishMessageFails \/ Disconnect \/ DisconnectFails
    PROVE  IInv'
  <1> USE DEF callVars, buildVars, Goto, Return
  <1>1. CASE PublishMessage
    <2>1. TypeOK'
      BY <1>1 DEF PublishMessage, IInv, TypeOK
    <2>2. FileIsTraced'
      BY <1>1 DEF PublishMessage, IInv, FileIsTraced
    <2>3. SessionIsTraced'
      BY <1>1 DEF PublishMessage, IInv, SessionIsTraced
    <2>4. ConnectionIsTraced'
      BY <1>1 DEF PublishMessage, IInv, ConnectionIsTraced
    <2>5. ReceiptIsTraced'
      BY <1>1 DEF PublishMessage, IInv, ReceiptIsTraced
    <2> QED
      BY <2>1, <2>2, <2>3, <2>4, <2>5 DEF IInv
  <1>2. CASE PublishMessageFails
    <2>1. TypeOK'
      BY <1>2 DEF PublishMessageFails, IInv, TypeOK
    <2>2. FileIsTraced'
      BY <1>2 DEF PublishMessageFails, IInv, FileIsTraced
    <2>3. SessionIsTraced'
      BY <1>2 DEF PublishMessageFails, IInv, SessionIsTraced
    <2>4. ConnectionIsTraced'
      BY <1>2 DEF PublishMessageFails, IInv, ConnectionIsTraced
    <2>5. ReceiptIsTraced'
      BY <1>2 DEF PublishMessageFails, IInv, ReceiptIsTraced
    <2> QED
      BY <2>1, <2>2, <2>3, <2>4, <2>5 DEF IInv
  <1>3. CASE Disconnect
    <2>1. TypeOK'
      BY <1>3 DEF Disconnect, IInv, TypeOK
    <2>2. FileIsTraced'
      BY <1>3 DEF Disconnect, IInv, FileIsTraced
    <2>3. SessionIsTraced'
      BY <1>3 DEF Disconnect, IInv, SessionIsTraced
    <2>4. ConnectionIsTraced'
      BY <1>3 DEF Disconnect, IInv, ConnectionIsTraced
    <2>5. ReceiptIsTraced'
      BY <1>3 DEF Disconnect, IInv, ReceiptIsTraced
    <2> QED
      BY <2>1, <2>2, <2>3, <2>4, <2>5 DEF IInv
  <1>4. CASE DisconnectFails
    <2>1. TypeOK'
      <3>1. connected' \in BOOLEAN
        <4>1. connected \in BOOLEAN /\ connected' \in {connected, FALSE}
          BY <1>4 DEF DisconnectFails, IInv, TypeOK
        <4> QED
          BY <4>1, Zenon
      <3>2. UNCHANGED <<count, verdict, uploaded, configured, probing, file, session,
                        received, sessionFault, interrupted>>
        BY <1>4 DEF DisconnectFails
      <3>3. pc' = "idle" /\ err' = "ESP_FAIL"
        BY <1>4 DEF DisconnectFails
      <3> QED
        BY <3>1, <3>2, <3>3 DEF IInv, TypeOK
    <2>2. FileIsTraced'
      BY <1>4 DEF DisconnectFails, IInv, FileIsTraced
    <2>3. SessionIsTraced'
      BY <1>4 DEF DisconnectFails, IInv, SessionIsTraced
    <2>4. ConnectionIsTraced'
      BY <1>4 DEF DisconnectFails, IInv, ConnectionIsTraced
    <2>5. ReceiptIsTraced'
      BY <1>4 DEF DisconnectFails, IInv, ReceiptIsTraced
    <2> QED
      BY <2>1, <2>2, <2>3, <2>4, <2>5 DEF IInv
  <1> QED
    BY <1>1, <1>2, <1>3, <1>4

LEMMA StutterPreserves == IInv /\ UNCHANGED vars => IInv'
  BY DEF vars, callVars, buildVars, IInv, TypeOK, FileIsTraced, SessionIsTraced,
         ConnectionIsTraced, ReceiptIsTraced

LEMMA NextPreserves == IInv /\ [Next]_vars => IInv'
  BY BoundaryPreserves, CheckPreserves, UploadPreserves, ConnectPreserves, PublishPreserves,
     StutterPreserves
     DEF Next, Publisher

THEOREM Invariance == Spec => []IInv
  BY InitInvariant, NextPreserves, PTL DEF Spec

----------------------------------------------------------------------------------
\* The commands that need the certificate find it in the modem.
THEOREM CertificateIsThere == Spec => []CertificateIsProvided
  <1>1. IInv => CertificateIsProvided
    BY DEF IInv, TypeOK, FileIsTraced, CertificateIsProvided
  <1> QED
    BY <1>1, Invariance, PTL

\* The certificate check leaves no filesystem session open by itself.
THEOREM NoSessionIsForgotten == Spec => []SessionsAreClosed
  <1>1. IInv => SessionsAreClosed
    BY DEF IInv, SessionIsTraced, SessionsAreClosed
  <1> QED
    BY <1>1, Invariance, PTL

\* After ESP_OK the client is disconnected.
THEOREM SuccessDisconnects == Spec => []SuccessIsDisconnected
  <1>1. IInv => SuccessIsDisconnected
    BY DEF IInv, ConnectionIsTraced, SuccessIsDisconnected
  <1> QED
    BY <1>1, Invariance, PTL

----------------------------------------------------------------------------------
\* publishTelemetryBatch() keeps the promise its caller trims the queue on.
THEOREM Refinement == Spec => ImplementsPublishCall
  <1> USE DEF Abstract!Next, Abstract!Call, Abstract!Receive, Abstract!ReturnOk,
              Abstract!ReturnError, Abstract!vars
  <1>1. Init => Abstract!Init
    BY DEF Init, Abstract!Init
  <1>2. IInv /\ [Next]_vars => [Abstract!Next]_(Abstract!vars)
    <2> SUFFICES ASSUME IInv, [Next]_vars
                 PROVE  [Abstract!Next]_(Abstract!vars)
      OBVIOUS
    <2> USE DEF callVars, Goto, Return
    <2>1. ASSUME NEW n \in 0 .. 1, Call(n)
          PROVE  Abstract!Call(n)
      BY <2>1 DEF Call, IInv, TypeOK
    <2>2. ASSUME NEW active \in BOOLEAN, Begin(active)
          PROVE  [Abstract!Next]_(Abstract!vars)
      BY <2>2 DEF Begin, IInv, TypeOK
    <2>3. CASE Reset
      BY <2>3 DEF Reset
    <2>4. CASE \/ OpenForCheck \/ OpenForCheckFails \/ Probe \/ CloseAfterCheck
               \/ OpenForUpload \/ OpenForUploadFails
               \/ WriteFile \/ WriteFileFails \/ CloseAfterUpload
      BY <2>4 DEF OpenForCheck, OpenForCheckFails, Probe, CloseAfterCheck, OpenForUpload,
                  OpenForUploadFails, WriteFile, WriteFileFails, CloseAfterUpload, Conclude
    <2>5. CASE \/ ConfigureTls \/ ConvertCertificate \/ BindCertificate \/ ConfigureClient
               \/ Connect \/ ConnectFails \/ Diagnose \/ CloseAfterDiagnosis
      BY <2>5 DEF ConfigureTls, ConvertCertificate, BindCertificate, ConfigureClient, Settings,
                  Connect, ConnectFails, Diagnose, CloseAfterDiagnosis
    <2>6. CASE PublishMessage \/ PublishMessageFails
      <3>1. /\ pc = "publish" /\ pc' = "disconnect" /\ count' = count
            /\ count > 0 /\ received = FALSE /\ received' \in BOOLEAN
        BY <2>6 DEF PublishMessage, PublishMessageFails, IInv, TypeOK, ReceiptIsTraced
      <3>2. CASE received' = TRUE
        BY <3>1, <3>2
      <3>3. CASE received' = FALSE
        BY <3>1, <3>3
      <3> QED
        BY <3>1, <3>2, <3>3
    <2>7. CASE Disconnect \/ DisconnectFails
      BY <2>7 DEF Disconnect, DisconnectFails, IInv, TypeOK, ReceiptIsTraced
    <2>8. CASE UNCHANGED vars
      BY <2>8 DEF vars
    <2> QED
      BY <2>1, <2>2, <2>3, <2>4, <2>5, <2>6, <2>7, <2>8 DEF Next, Publisher
  <1> QED
    BY <1>1, <1>2, Invariance, PTL DEF Spec, ImplementsPublishCall, Abstract!Spec
==================================================================================
