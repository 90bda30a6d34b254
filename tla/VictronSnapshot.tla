------------------------------ MODULE VictronSnapshot -----------------------------
(***************************************************************************)
(* The way of a Victron advertisement into the snapshot that the collector *)
(* copies (BluetoothScanner.cpp).  The NimBLE host task stores the         *)
(* manufacturer data of the advertisement in target_observation_ and       *)
(* decodes them; the dump task decodes the stored data again at every      *)
(* period.  Both run logTargetParsedFrame(), which reads the observation   *)
(* without a lock: first the header with the initialisation vector, later, *)
(* through a pointer into the observation, the ciphertext.  Only the       *)
(* snapshot is guarded by telemetry_mutex_.                                *)
(*                                                                         *)
(* The host task has the highest priority of the three on the one core of  *)
(* the chip: its update of the observation is one step, and it comes       *)
(* between any two steps of the others, which run when it waits, for an    *)
(* event, for the mutex or for the log.                                    *)
(***************************************************************************)
EXTENDS Naturals

CONSTANT MaxAdverts  \* bound: advertisements that carry manufacturer data

ASSUME MaxAdvertsAssumption == MaxAdverts \in Nat \ {0}

VARIABLES
    found,      \* target_found_
    observed,   \* target_observation_.last_mfg_data: which frame, and what it is
    pc,         \* what each task does next
    iv,         \* per decoder: the frame whose header it has parsed
    cipher,     \* per decoder: the frame whose ciphertext it has decrypted
    mutex,      \* who holds telemetry_mutex_
    snapshot,   \* latest_victron_telemetry_, two of its fields
    copy,       \* the collector's copy of them
    overtaken   \* history: did a frame replace the one that the last dump was decoding?

vars == <<found, observed, pc, iv, cipher, mutex, snapshot, copy, overtaken>>

Decoder == {"host", "dump"}
Task == Decoder \cup {"collector"}
Field == {"current", "soc"}
Frame == 0 .. MaxAdverts

\* A frame of another product or of a record without readings is left after its
\* header, a frame for another key at the first byte of its ciphertext.
Kind == {"readout", "foreign", "wrongKey"}

\* What a field holds: the telemetry that the header of one frame and the
\* ciphertext of another give.  They should be one frame.
Readout(header, body) == [iv |-> header, cipher |-> body]
Nothing == Readout(0, 0)

TypeOK ==
    /\ found \in BOOLEAN /\ overtaken \in BOOLEAN
    /\ observed \in [frame : Frame, kind : Kind]
    /\ pc \in [Task -> {"off", "idle", "parse", "decrypt", "wait", "current", "soc"}]
    /\ iv \in [Decoder -> Frame] /\ cipher \in [Decoder -> Frame]
    /\ mutex \in Task \cup {"none"}
    /\ snapshot \in [Field -> [iv : Frame, cipher : Frame]]
    /\ copy \in [Field -> [iv : Frame, cipher : Frame]]
    \* Nothing that was never received is decoded.
    /\ \A d \in Decoder : pc[d] \in {"decrypt", "wait"} => iv[d] # 0

\* The creation of the dump task may have failed.
Init ==
    /\ found = FALSE /\ overtaken = FALSE
    /\ observed = [frame |-> 0, kind |-> "foreign"]
    /\ \E p \in {"idle", "off"} : pc = [t \in Task |-> IF t = "dump" THEN p ELSE "idle"]
    /\ iv = [d \in Decoder |-> 0] /\ cipher = [d \in Decoder |-> 0]
    /\ mutex = "none"
    /\ snapshot = [f \in Field |-> Nothing]
    /\ copy = [f \in Field |-> Nothing]

Goto(t, p) == pc' = [pc EXCEPT ![t] = p]

-----------------------------------------------------------------------------------
(* The host task receives an advertisement of the target: handleGapEvent().  *)

\* The dump task will store what it has read of the frame before this one.
Overtakes == pc["dump"] \in {"decrypt", "wait"}

Observe ==
    /\ pc["host"] = "idle"
    /\ observed.frame < MaxAdverts
    /\ found' = TRUE
    /\ \E k \in Kind : observed' = [frame |-> observed.frame + 1, kind |-> k]
    /\ overtaken' = (overtaken \/ Overtakes)
    /\ UNCHANGED <<iv, cipher, mutex, snapshot, copy>>

\* Broken variant: the host leaves the decoding to the dump task.
AdvertiseOnlyRemembers == Observe /\ UNCHANGED pc

\* With manufacturer data: they are stored, then decoded.
Advertise == Observe /\ Goto("host", "parse")

\* Without: the first one only finds the target.
AdvertiseBare ==
    /\ pc["host"] = "idle"
    /\ found' = TRUE
    /\ UNCHANGED <<observed, pc, iv, cipher, mutex, snapshot, copy, overtaken>>

\* Broken variant: the task stops as soon as the target is found.
DumpPeriodUntilFound ==
    /\ pc["dump"] = "idle"
    /\ Goto("dump", IF found THEN "off" ELSE "parse")
    /\ UNCHANGED <<found, observed, iv, cipher, mutex, snapshot, copy, overtaken>>

\* targetDumpTask() ends when the search has timed out and found nothing.
DumpPeriod ==
    /\ pc["dump"] = "idle"
    /\ Goto("dump", "parse") \/ (~found /\ Goto("dump", "off"))
    /\ UNCHANGED <<found, observed, iv, cipher, mutex, snapshot, copy, overtaken>>

-----------------------------------------------------------------------------------
(* logTargetParsedFrame(), by either decoder.                                *)

\* Broken variant: the test that there is an observation is missing.
HasHeaderUnseen == observed.kind # "foreign" \/ observed.frame = 0

\* The tests of the observation and of the parsed header.
HasHeader == observed.kind # "foreign" /\ observed.frame # 0

ParseFrame(d) ==
    /\ pc[d] = "parse"
    /\ IF HasHeader
         THEN Goto(d, "decrypt") /\ iv' = [iv EXCEPT ![d] = observed.frame]
         ELSE Goto(d, "idle") /\ UNCHANGED iv
    /\ overtaken' = (overtaken /\ d # "dump")
    /\ UNCHANGED <<found, observed, cipher, mutex, snapshot, copy>>

\* decryptVictronPayload() tests the first byte of the ciphertext against the
\* key; a byte of a foreign frame may happen to pass.
Decrypt(d) ==
    /\ pc[d] = "decrypt"
    /\ \/ /\ observed.kind # "wrongKey"
          /\ Goto(d, "wait")
          /\ cipher' = [cipher EXCEPT ![d] = observed.frame]
       \/ /\ observed.kind # "readout"
          /\ Goto(d, "idle")
          /\ UNCHANGED cipher
    /\ UNCHANGED <<found, observed, iv, mutex, snapshot, copy, overtaken>>

-----------------------------------------------------------------------------------
(* storeLatestVictronTelemetry() and getLatestVictronTelemetry().            *)

\* Broken variant: the collector copies without the mutex.
TakesMutexToStore(t) ==
    /\ mutex = "none" \/ t = "collector"
    /\ mutex' = IF t = "collector" THEN mutex ELSE t

TakesMutex(t) == mutex = "none" /\ mutex' = t

TakeMutex(t) ==
    /\ pc[t] = "wait"
    /\ TakesMutex(t)
    /\ Goto(t, "current")
    /\ UNCHANGED <<found, observed, iv, cipher, snapshot, copy, overtaken>>

\* The fields are accessed one after the other; the last access is followed by
\* xSemaphoreGive().
Proceed(t) ==
    IF pc[t] = "current"
      THEN Goto(t, "soc") /\ UNCHANGED mutex
      ELSE Goto(t, "idle") /\ mutex' = IF mutex = t THEN "none" ELSE mutex

Store(d) ==
    /\ pc[d] \in Field
    /\ snapshot' = [snapshot EXCEPT ![pc[d]] = Readout(iv[d], cipher[d])]
    /\ Proceed(d)
    /\ UNCHANGED <<found, observed, iv, cipher, copy, overtaken>>

CollectorAsks ==
    /\ pc["collector"] = "idle"
    /\ Goto("collector", "wait")
    /\ UNCHANGED <<found, observed, iv, cipher, mutex, snapshot, copy, overtaken>>

Copy ==
    /\ pc["collector"] \in Field
    /\ copy' = [copy EXCEPT ![pc["collector"]] = snapshot[pc["collector"]]]
    /\ Proceed("collector")
    /\ UNCHANGED <<found, observed, iv, cipher, snapshot, overtaken>>

-----------------------------------------------------------------------------------
Decode(d) == ParseFrame(d) \/ Decrypt(d) \/ Store(d)

Next ==
    \/ Advertise \/ AdvertiseBare
    \/ DumpPeriod
    \/ \E d \in Decoder : Decode(d)
    \/ \E t \in Task : TakeMutex(t)
    \/ CollectorAsks \/ Copy

Spec == Init /\ [][Next]_vars

\* Tasks that are ready run, and the mutex goes to the tasks that wait for it
\* in turn.  No advertisement need ever come.
Fairness ==
    /\ WF_vars(DumpPeriod)
    /\ \A d \in Decoder : WF_vars(Decode(d))
    /\ \A t \in Task : SF_vars(TakeMutex(t))
    /\ WF_vars(CollectorAsks)
    /\ WF_vars(Copy)

FairSpec == Spec /\ Fairness

-----------------------------------------------------------------------------------
\* The collector never gets one field of one reading and another of the next:
\* the mutex makes stores and copies indivisible (BluetoothScanner.cpp:425).
CopyIsOneStore == pc["collector"] = "idle" => copy["current"] = copy["soc"]

Newest == [f \in Field |-> Readout(observed.frame, observed.frame)]

\* When both decoders rest and the last frame had readings, the snapshot holds
\* the readings of that frame.  The one exception is a dump that was decoding the
\* frame before when this one came; then the snapshot is wrong until the next
\* dump.
OnlyOvertakenDumpsErr ==
    (/\ pc["host"] = "idle" /\ pc["dump"] \in {"idle", "off"}
     /\ observed.kind = "readout"
     /\ ~overtaken) => snapshot = Newest

\* When the target falls silent after a frame with readings, the snapshot comes
\* to hold these readings for good, whatever the dump task was doing.
SnapshotSettles ==
    observed.frame = MaxAdverts /\ observed.kind = "readout" ~> [](snapshot = Newest)

\* "Copies the latest successfully decoded Victron telemetry snapshot"
\* (BluetoothScanner.hpp:32): what is in the snapshot was decoded from one
\* frame.  Does not hold: the dump task may decrypt the ciphertext of a frame
\* with the initialisation vector of the frame before.
SnapshotIsOneFrame ==
    \A f \in Field : snapshot[f].iv = snapshot[f].cipher
===================================================================================
