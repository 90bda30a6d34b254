--------------------------- MODULE VictronSnapshotProofs ---------------------------
(***************************************************************************)
(* Proofs of the safety properties of VictronSnapshot, for every number of *)
(* advertisements.                                                         *)
(***************************************************************************)
EXTENDS VictronSnapshot, TLAPS

-----------------------------------------------------------------------------------
(* Types.                                                                    *)

LEMMA TypeInit == Init => TypeOK
<1> USE DEF Decoder, Task, Field, Frame
<1> SUFFICES ASSUME Init PROVE TypeOK
  OBVIOUS
<1>1. 0 \in Frame
  BY MaxAdvertsAssumption
<1>2. Nothing \in [iv : Frame, cipher : Frame]
  BY <1>1 DEF Nothing, Readout
<1>3. snapshot \in [Field -> [iv : Frame, cipher : Frame]] /\ copy \in [Field -> [iv : Frame, cipher : Frame]]
  BY <1>2 DEF Init
<1>4. observed \in [frame : Frame, kind : Kind]
  BY <1>1 DEF Init, Kind
<1> QED
  BY <1>1, <1>3, <1>4 DEF Init, TypeOK

LEMMA TypeStep == TypeOK /\ [Next]_vars => TypeOK'
<1> USE DEF Decoder, Task, Field, Frame, Goto
<1> SUFFICES ASSUME TypeOK, [Next]_vars PROVE TypeOK'
  OBVIOUS
<1>1. CASE Advertise
  <2>1. observed' \in [frame : Frame, kind : Kind]
    BY <1>1, MaxAdvertsAssumption DEF TypeOK, Advertise, Observe
  <2> QED
    BY <1>1, <2>1 DEF TypeOK, Advertise, Observe
<1>2. CASE AdvertiseBare
  BY <1>2 DEF TypeOK, AdvertiseBare
<1>3. CASE DumpPeriod
  BY <1>3 DEF TypeOK, DumpPeriod
<1>4. ASSUME NEW d \in Decoder, ParseFrame(d) PROVE TypeOK'
  <2>1. CASE HasHeader
    BY <1>4, <2>1 DEF TypeOK, ParseFrame, HasHeader
  <2>2. CASE ~HasHeader
    BY <1>4, <2>2 DEF TypeOK, ParseFrame
  <2> QED
    BY <2>1, <2>2
<1>5. ASSUME NEW d \in Decoder, Decrypt(d) PROVE TypeOK'
  BY <1>5 DEF TypeOK, Decrypt
<1>6. ASSUME NEW d \in Decoder, Store(d) PROVE TypeOK'
  BY <1>6 DEF TypeOK, Store, Proceed, Readout
<1>7. ASSUME NEW t \in Task, TakeMutex(t) PROVE TypeOK'
  BY <1>7 DEF TypeOK, TakeMutex, TakesMutex
<1>8. CASE CollectorAsks
  BY <1>8 DEF TypeOK, CollectorAsks
<1>9. CASE Copy
  BY <1>9 DEF TypeOK, Copy, Proceed
<1>10. CASE UNCHANGED vars
  BY <1>10 DEF TypeOK, vars
<1> QED
  BY <1>1, <1>2, <1>3, <1>4, <1>5, <1>6, <1>7, <1>8, <1>9, <1>10 DEF Next, Decode

\* No task is ever somewhere or with something that it cannot have
\* (BluetoothScanner.cpp:943, 413).
THEOREM TypeCorrect == Spec => []TypeOK
  BY TypeInit, TypeStep, PTL DEF Spec

-----------------------------------------------------------------------------------
(* The mutex.                                                                *)

\* telemetry_mutex_ is held by the task that is at the fields.
MutexIsHeld == \A t \in Task : pc[t] \in Field <=> mutex = t

\* Between two accesses the snapshot is one decoder's, half written at most.
SnapshotIsWhole ==
    /\ (\A d \in Decoder : pc[d] # "soc") => snapshot["current"] = snapshot["soc"]
    /\ \A d \in Decoder : pc[d] = "soc" => snapshot["current"] = Readout(iv[d], cipher[d])

\* The half copied is still that of the snapshot.
CopyIsCurrent == pc["collector"] = "soc" => copy["current"] = snapshot["current"]

CopyInv == TypeOK /\ MutexIsHeld /\ SnapshotIsWhole /\ CopyIsCurrent /\ CopyIsOneStore

LEMMA MutexStep == TypeOK /\ MutexIsHeld /\ [Next]_vars => MutexIsHeld'
<1> USE DEF Decoder, Task, Field, Goto, MutexIsHeld, TypeOK
<1> SUFFICES ASSUME TypeOK, MutexIsHeld, [Next]_vars PROVE MutexIsHeld'
  OBVIOUS
<1>1. CASE Advertise
  BY <1>1 DEF Advertise, Observe
<1>2. CASE AdvertiseBare
  BY <1>2 DEF AdvertiseBare
<1>3. CASE DumpPeriod
  BY <1>3 DEF DumpPeriod
<1>4. ASSUME NEW d \in Decoder, ParseFrame(d) PROVE MutexIsHeld'
  BY <1>4 DEF ParseFrame
<1>5. ASSUME NEW d \in Decoder, Decrypt(d) PROVE MutexIsHeld'
  BY <1>5 DEF Decrypt
<1>6. ASSUME NEW d \in Decoder, Store(d) PROVE MutexIsHeld'
  BY <1>6 DEF Store, Proceed
<1>7. ASSUME NEW t \in Task, TakeMutex(t) PROVE MutexIsHeld'
  BY <1>7 DEF TakeMutex, TakesMutex
<1>8. CASE CollectorAsks
  BY <1>8 DEF CollectorAsks
<1>9. CASE Copy
  BY <1>9 DEF Copy, Proceed
<1>10. CASE UNCHANGED vars
  BY <1>10 DEF vars
<1> QED
  BY <1>1, <1>2, <1>3, <1>4, <1>5, <1>6, <1>7, <1>8, <1>9, <1>10 DEF Next, Decode

LEMMA CopyInit == Init => CopyInv
  BY TypeInit DEF Init, CopyInv, MutexIsHeld, SnapshotIsWhole, CopyIsCurrent, CopyIsOneStore,
     Decoder, Task, Field

LEMMA CopyStep == CopyInv /\ [Next]_vars => CopyInv'
<1> USE DEF Decoder, Task, Field, Goto, TypeOK
<1> SUFFICES ASSUME CopyInv, [Next]_vars
             PROVE SnapshotIsWhole' /\ CopyIsCurrent' /\ CopyIsOneStore'
  BY TypeStep, MutexStep DEF CopyInv
<1> USE DEF CopyInv, SnapshotIsWhole, CopyIsCurrent, CopyIsOneStore
<1>1. CASE Advertise
  BY <1>1 DEF Advertise, Observe
<1>2. CASE AdvertiseBare
  BY <1>2 DEF AdvertiseBare
<1>3. CASE DumpPeriod
  BY <1>3 DEF DumpPeriod
<1>4. ASSUME NEW d \in Decoder, ParseFrame(d)
      PROVE SnapshotIsWhole' /\ CopyIsCurrent' /\ CopyIsOneStore'
  BY <1>4 DEF ParseFrame
<1>5. ASSUME NEW d \in Decoder, Decrypt(d)
      PROVE SnapshotIsWhole' /\ CopyIsCurrent' /\ CopyIsOneStore'
  BY <1>5 DEF Decrypt
<1>6. ASSUME NEW d \in Decoder, Store(d)
      PROVE SnapshotIsWhole' /\ CopyIsCurrent' /\ CopyIsOneStore'
  <2>1. \A t \in Task : t # d => pc[t] \notin Field
    BY <1>6 DEF Store, MutexIsHeld
  <2>2. CASE pc[d] = "current"
    BY <1>6, <2>1, <2>2 DEF Store, Proceed
  <2>3. CASE pc[d] = "soc"
    BY <1>6, <2>1, <2>3 DEF Store, Proceed
  <2> QED
    BY <1>6, <2>2, <2>3 DEF Store
<1>7. ASSUME NEW t \in Task, TakeMutex(t)
      PROVE SnapshotIsWhole' /\ CopyIsCurrent' /\ CopyIsOneStore'
  BY <1>7 DEF TakeMutex
<1>8. CASE CollectorAsks
  BY <1>8 DEF CollectorAsks
<1>9. CASE Copy
  <2>1. snapshot["current"] = snapshot["soc"]
    BY <1>9 DEF Copy, MutexIsHeld
  <2>2. CASE pc["collector"] = "current"
    BY <1>9, <2>2 DEF Copy, Proceed
  <2>3. CASE pc["collector"] = "soc"
    BY <1>9, <2>1, <2>3 DEF Copy, Proceed
  <2> QED
    BY <1>9, <2>2, <2>3 DEF Copy
<1>10. CASE UNCHANGED vars
  BY <1>10 DEF vars
<1> QED
  BY <1>1, <1>2, <1>3, <1>4, <1>5, <1>6, <1>7, <1>8, <1>9, <1>10 DEF Next, Decode

\* The collector copies one store, never a part of the next
\* (BluetoothScanner.cpp:413-434).
THEOREM CopiesAreWhole == Spec => []CopyIsOneStore
<1>1. CopyInv => CopyIsOneStore
  BY DEF CopyInv
<1> QED
  BY CopyInit, <1>1, CopyStep, PTL DEF Spec

-----------------------------------------------------------------------------------
(* What is in the snapshot when nobody decodes.                              *)

\* The host task goes back to its events only after the frame is handled, so it
\* always works on the newest one, and a frame with readings ends in a store.
HostIsCurrent ==
    /\ pc["host"] # "off"
    /\ observed.kind = "readout" => observed.frame # 0
    /\ pc["host"] = "decrypt" => iv["host"] = observed.frame
    /\ pc["host"] \in Field \cup {"wait"} =>
           iv["host"] = observed.frame /\ cipher["host"] = observed.frame

\* Will the host task store the newest frame, if that has readings?
HostWillStore == pc["host"] \in {"parse", "decrypt", "wait"}

DumpHasNewest == iv["dump"] = observed.frame /\ cipher["dump"] = observed.frame

\* So does the dump task, unless it is overtaken; a frame that comes while the
\* dump task stores waits with the host task for the mutex.
DumpIsCurrent ==
    ~overtaken =>
        /\ pc["dump"] = "decrypt" => iv["dump"] = observed.frame
        /\ pc["dump"] = "wait" => DumpHasNewest
        /\ pc["dump"] \in Field /\ observed.kind = "readout" => HostWillStore \/ DumpHasNewest

HasNewest(f) == snapshot[f] = Readout(observed.frame, observed.frame)

\* The snapshot has the newest readings, or will have.
SnapshotCatchesUp ==
    observed.kind = "readout" /\ ~overtaken =>
        \/ HostWillStore
        \/ pc["host"] = "current"
        \/ pc["host"] = "soc" /\ HasNewest("current")
        \/ pc["host"] = "idle" /\ pc["dump"] \in {"decrypt", "wait", "current"}
        \/ pc["host"] = "idle" /\ pc["dump"] = "soc" /\ HasNewest("current")
        \/ pc["host"] = "idle" /\ HasNewest("current") /\ HasNewest("soc")

NewestInv == CopyInv /\ HostIsCurrent /\ DumpIsCurrent /\ SnapshotCatchesUp

LEMMA HostStep == TypeOK /\ HostIsCurrent /\ [Next]_vars => HostIsCurrent'
<1> USE DEF Decoder, Task, Field, Frame, Goto, TypeOK, HostIsCurrent
<1> SUFFICES ASSUME TypeOK, HostIsCurrent, [Next]_vars PROVE HostIsCurrent'
  OBVIOUS
<1>1. CASE Advertise
  BY <1>1, MaxAdvertsAssumption DEF Advertise, Observe
<1>2. CASE AdvertiseBare
  BY <1>2 DEF AdvertiseBare
<1>3. CASE DumpPeriod
  BY <1>3 DEF DumpPeriod
<1>4. ASSUME NEW d \in Decoder, ParseFrame(d) PROVE HostIsCurrent'
  BY <1>4 DEF ParseFrame
<1>5. ASSUME NEW d \in Decoder, Decrypt(d) PROVE HostIsCurrent'
  BY <1>5 DEF Decrypt
<1>6. ASSUME NEW d \in Decoder, Store(d) PROVE HostIsCurrent'
  BY <1>6 DEF Store, Proceed
<1>7. ASSUME NEW t \in Task, TakeMutex(t) PROVE HostIsCurrent'
  BY <1>7 DEF TakeMutex
<1>8. CASE CollectorAsks
  BY <1>8 DEF CollectorAsks
<1>9. CASE Copy
  BY <1>9 DEF Copy, Proceed
<1>10. CASE UNCHANGED vars
  BY <1>10 DEF vars
<1> QED
  BY <1>1, <1>2, <1>3, <1>4, <1>5, <1>6, <1>7, <1>8, <1>9, <1>10 DEF Next, Decode

LEMMA DumpStep == NewestInv /\ [Next]_vars => DumpIsCurrent'
<1> USE DEF Decoder, Task, Field, Frame, Goto, TypeOK, DumpIsCurrent, HostWillStore, DumpHasNewest
<1> SUFFICES ASSUME NewestInv, [Next]_vars PROVE DumpIsCurrent'
  OBVIOUS
<1> USE DEF NewestInv, CopyInv
<1>1. CASE Advertise
  BY <1>1 DEF Advertise, Observe, Overtakes
<1>2. CASE AdvertiseBare
  BY <1>2 DEF AdvertiseBare
<1>3. CASE DumpPeriod
  BY <1>3 DEF DumpPeriod
<1>4. ASSUME NEW d \in Decoder, ParseFrame(d) PROVE DumpIsCurrent'
  <2>1. CASE d = "dump"
    BY <1>4, <2>1 DEF ParseFrame
  <2>2. CASE d = "host"
    BY <1>4, <2>2 DEF ParseFrame, HasHeader, HostIsCurrent
  <2> QED
    BY <2>1, <2>2
<1>5. ASSUME NEW d \in Decoder, Decrypt(d) PROVE DumpIsCurrent'
  BY <1>5 DEF Decrypt
<1>6. ASSUME NEW d \in Decoder, Store(d) PROVE DumpIsCurrent'
  BY <1>6 DEF Store, Proceed
<1>7. ASSUME NEW t \in Task, TakeMutex(t) PROVE DumpIsCurrent'
  BY <1>7 DEF TakeMutex, TakesMutex, MutexIsHeld
<1>8. CASE CollectorAsks
  BY <1>8 DEF CollectorAsks
<1>9. CASE Copy
  BY <1>9 DEF Copy, Proceed
<1>10. CASE UNCHANGED vars
  BY <1>10 DEF vars
<1> QED
  BY <1>1, <1>2, <1>3, <1>4, <1>5, <1>6, <1>7, <1>8, <1>9, <1>10 DEF Next, Decode

LEMMA CatchesUpStep == NewestInv /\ [Next]_vars => SnapshotCatchesUp'
<1> USE DEF Decoder, Task, Field, Frame, Goto, TypeOK, SnapshotCatchesUp, HostWillStore, HasNewest
<1> SUFFICES ASSUME NewestInv, [Next]_vars PROVE SnapshotCatchesUp'
  OBVIOUS
<1> USE DEF NewestInv, CopyInv
<1>1. CASE Advertise
  BY <1>1 DEF Advertise, Observe
<1>2. CASE AdvertiseBare
  BY <1>2 DEF AdvertiseBare
<1>3. CASE DumpPeriod
  BY <1>3 DEF DumpPeriod
<1>4. ASSUME NEW d \in Decoder, ParseFrame(d) PROVE SnapshotCatchesUp'
  <2>1. pc["host"] = "soc" => HasNewest("current")
    BY DEF SnapshotIsWhole, HostIsCurrent
  <2>2. CASE d = "host"
    BY <1>4, <2>2 DEF ParseFrame, HasHeader, HostIsCurrent
  <2>3. CASE d = "dump"
    BY <1>4, <2>1, <2>3 DEF ParseFrame, HasHeader, HostIsCurrent
  <2> QED
    BY <2>2, <2>3
<1>5. ASSUME NEW d \in Decoder, Decrypt(d) PROVE SnapshotCatchesUp'
  BY <1>5 DEF Decrypt
<1>6. ASSUME NEW d \in Decoder, Store(d) PROVE SnapshotCatchesUp'
  <2> USE DEF Store, Proceed
  <2>1. CASE d = "host"
    BY <1>6, <2>1 DEF HostIsCurrent
  <2>2. CASE d = "dump"
    BY <1>6, <2>2 DEF DumpIsCurrent, DumpHasNewest, MutexIsHeld
  <2> QED
    BY <2>1, <2>2
<1>7. ASSUME NEW t \in Task, TakeMutex(t) PROVE SnapshotCatchesUp'
  BY <1>7 DEF TakeMutex, HostIsCurrent
<1>8. CASE CollectorAsks
  BY <1>8 DEF CollectorAsks
<1>9. CASE Copy
  BY <1>9 DEF Copy, Proceed
<1>10. CASE UNCHANGED vars
  BY <1>10 DEF vars
<1> QED
  BY <1>1, <1>2, <1>3, <1>4, <1>5, <1>6, <1>7, <1>8, <1>9, <1>10 DEF Next, Decode

\* With the decoders at rest the snapshot holds the readings of the last frame,
\* if that frame had any and did not overtake a dump (BluetoothScanner.cpp:1281).
THEOREM OnlyRacesErr == Spec => []OnlyOvertakenDumpsErr
<1>1. Init => NewestInv
  BY CopyInit DEF Init, NewestInv, HostIsCurrent, DumpIsCurrent, SnapshotCatchesUp,
     Decoder, Task, Field
<1>2. NewestInv /\ [Next]_vars => NewestInv'
  BY CopyStep, HostStep, DumpStep, CatchesUpStep DEF NewestInv, CopyInv
<1>3. NewestInv => OnlyOvertakenDumpsErr
  <2> SUFFICES ASSUME NewestInv, pc["host"] = "idle", pc["dump"] \in {"idle", "off"},
                      observed.kind = "readout", ~overtaken
               PROVE  snapshot = Newest
    BY DEF OnlyOvertakenDumpsErr
  <2>1. HasNewest("current") /\ HasNewest("soc")
    BY DEF NewestInv, SnapshotCatchesUp, HostWillStore
  <2>2. snapshot = [f \in Field |-> snapshot[f]]
    BY DEF NewestInv, CopyInv, TypeOK
  <2> QED
    BY <2>1, <2>2 DEF HasNewest, Newest, Field
<1> QED
  BY <1>1, <1>2, <1>3, PTL DEF Spec
===================================================================================
