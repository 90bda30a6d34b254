----------------------------- MODULE BluetoothScanner -----------------------------
(***************************************************************************)
(* The control of the scan in the class BluetoothScanner                   *)
(* (BluetoothScanner.cpp).  Three tasks share its flags without a lock:    *)
(* the NimBLE host task runs the callbacks, the search-timeout task gives  *)
(* up a search that has found nothing, and the indicator task blinks.  The *)
(* host task has a higher priority than the two others on the one core of  *)
(* the chip, so that they run while it waits for an event or for the       *)
(* controller's answer to a command, and it runs between any two steps of  *)
(* theirs.                                                                 *)
(*                                                                         *)
(* The BLE stack is modelled as far as the code relies on it: a started    *)
(* discovery goes on until it is cancelled or the controller or a reset of *)
(* the stack ends it; an end that nobody asked for is announced by an      *)
(* event, one that was asked for may be; a reset is followed by a sync.    *)
(***************************************************************************)
VARIABLES
    found,        \* target_found_
    active,       \* scan_active_
    timedOut,     \* search_timeout_reached_
    host,         \* the host task: what it waits for
    timer,        \* searchTimeoutTask: what it does next
    indicator,    \* indicatorTask
    synced,       \* is the host stack in sync with the controller?
    scanning,     \* is a discovery procedure running in the controller?
    completion,   \* is a BLE_GAP_EVENT_DISC_COMPLETE waiting for the host task?
    startFailed,  \* history: did the last attempt to start a scan fail?
    lostFound,    \* history: was a scan cancelled that had found the target?
    notCancelled  \* history: did the timeout leave a scan alone, or one being started?

flags == <<found, active, timedOut>>
stack == <<synced, scanning, completion>>
history == <<startFailed, lostFound, notCancelled>>
vars == <<flags, host, timer, indicator, stack, history>>

TypeOK ==
    /\ found \in BOOLEAN /\ active \in BOOLEAN /\ timedOut \in BOOLEAN
    /\ host \in {"none", "idle", "starting", "started"}
    /\ timer \in {"none", "delay", "expire", "test", "cancel", "done"}
    /\ indicator \in {"none", "blink", "done"}
    /\ synced \in BOOLEAN /\ scanning \in BOOLEAN /\ completion \in BOOLEAN
    /\ startFailed \in BOOLEAN /\ lostFound \in BOOLEAN /\ notCancelled \in BOOLEAN

\* What the constructor and start() leave: the creation of a task may have
\* failed, which is only logged, and an error on the way to the host task
\* leaves the tasks created before it.
Init ==
    /\ found = FALSE /\ active = FALSE /\ timedOut = FALSE
    /\ host \in {"none", "idle"}
    /\ timer \in {"none", "delay"}
    /\ indicator \in {"none", "blink"}
    /\ synced = FALSE /\ scanning = FALSE /\ completion = FALSE
    /\ startFailed = FALSE /\ lostFound = FALSE /\ notCancelled = FALSE

-----------------------------------------------------------------------------------
(* The host task.                                                            *)

\* Broken variant: the search timeout is not looked at.
MayScanAlways == TRUE

\* The test that startScan() and its two callers make of the flags.
MayScan == found \/ ~timedOut

\* Broken variant: only a search is restarted, not a scan that tracks.
SearchesOnly == host' = IF timedOut THEN "idle" ELSE "starting"

\* startScan() up to its call of ble_gap_disc().
StartScan == host' = IF MayScan THEN "starting" ELSE "idle"

\* handleSync(): without an address of its own the host starts no scan.
HandleSync ==
    /\ host = "idle"
    /\ ~synced /\ ~completion
    /\ synced' = TRUE
    /\ \/ StartScan /\ UNCHANGED startFailed
       \/ host' = "idle" /\ startFailed' = TRUE
    /\ UNCHANGED <<flags, timer, indicator, scanning, completion, lostFound, notCancelled>>

\* ble_gap_disc(): the controller scans before the host task is awake again.
BeginScan ==
    /\ host = "starting"
    /\ synced
    /\ scanning' = TRUE
    /\ host' = "started"
    /\ UNCHANGED <<flags, timer, indicator, synced, completion, history>>

\* Broken variant: the flag is left as it was.
ScanBegunUnflagged ==
    /\ host = "started"
    /\ startFailed' = FALSE
    /\ host' = "idle"
    /\ UNCHANGED <<flags, timer, indicator, stack, lostFound, notCancelled>>

ScanBegun ==
    /\ host = "started"
    /\ active' = TRUE
    /\ startFailed' = FALSE
    /\ host' = "idle"
    /\ UNCHANGED <<found, timedOut, timer, indicator, stack, lostFound, notCancelled>>

\* ble_hs_id_infer_auto() or ble_gap_disc() returns an error, which nobody
\* tries to mend.
BeginScanFails ==
    /\ host = "starting"
    /\ active' \in {active, FALSE}
    /\ startFailed' = TRUE
    /\ host' = "idle"
    /\ UNCHANGED <<found, timedOut, timer, indicator, stack, lostFound, notCancelled>>

\* BLE_GAP_EVENT_DISC of the target.
Discovery ==
    /\ host = "idle"
    /\ scanning
    /\ found' = TRUE
    /\ UNCHANGED <<active, timedOut, host, timer, indicator, stack, history>>

\* BLE_GAP_EVENT_DISC_COMPLETE.
DiscoveryComplete ==
    /\ host = "idle"
    /\ completion
    /\ completion' = FALSE
    /\ active' = FALSE
    /\ StartScan
    /\ UNCHANGED <<found, timedOut, timer, indicator, synced, scanning, history>>

HostTask ==
    HandleSync \/ BeginScan \/ ScanBegun \/ BeginScanFails \/ DiscoveryComplete

-----------------------------------------------------------------------------------
(* The BLE stack.                                                            *)

DiscoveryEnds ==
    /\ scanning
    /\ scanning' = FALSE
    /\ completion' = TRUE
    /\ UNCHANGED <<flags, host, timer, indicator, synced, history>>

\* handleReset() only logs the reset of the stack.  The reset ends a
\* discovery, and may deliver its completion before the next sync.
HandleReset ==
    /\ host = "idle"
    /\ synced
    /\ synced' = FALSE
    /\ scanning' = FALSE
    /\ completion' \in {completion, completion \/ scanning}
    /\ UNCHANGED <<flags, host, timer, indicator, history>>

-----------------------------------------------------------------------------------
(* searchTimeoutTask, one action per access to the shared flags.             *)

timerFrame == <<found, active, host, indicator, synced>>

TimerWakes ==
    /\ timer = "delay"
    /\ timer' = IF found THEN "done" ELSE "expire"
    /\ UNCHANGED <<timerFrame, timedOut, scanning, completion, history>>

\* Broken variant: only a scan that is active times out.
TimerExpiresActive ==
    /\ timer = "expire"
    /\ timedOut' = active
    /\ timer' = "test"
    /\ UNCHANGED <<timerFrame, scanning, completion, history>>

TimerExpires ==
    /\ timer = "expire"
    /\ timedOut' = TRUE
    /\ timer' = "test"
    /\ UNCHANGED <<timerFrame, scanning, completion, history>>

BeingStarted == host \in {"starting", "started"}

\* Broken variant: the scan is left to end by itself.
TimerTestsNothing ==
    /\ timer = "test"
    /\ timer' = "done"
    /\ UNCHANGED <<timerFrame, timedOut, scanning, completion, history>>

TimerTests ==
    /\ timer = "test"
    /\ timer' = IF active THEN "cancel" ELSE "done"
    /\ notCancelled' = (~active /\ BeingStarted)
    /\ UNCHANGED <<timerFrame, timedOut, scanning, completion, startFailed, lostFound>>

\* ble_gap_disc_cancel() returns 0.
TimerCancels ==
    /\ timer = "cancel"
    /\ scanning
    /\ scanning' = FALSE
    /\ completion' \in {completion, TRUE}
    /\ lostFound' = found
    /\ timer' = "done"
    /\ UNCHANGED <<timerFrame, timedOut, startFailed, notCancelled>>

\* It returns an error, always if there is nothing to cancel.
TimerCancelFails ==
    /\ timer = "cancel"
    /\ notCancelled' = (scanning \/ BeingStarted)
    /\ timer' = "done"
    /\ UNCHANGED <<timerFrame, timedOut, scanning, completion, startFailed, lostFound>>

TimerTask == TimerWakes \/ TimerExpires \/ TimerTests \/ TimerCancels \/ TimerCancelFails

\* The loop of indicatorTask ends, and with it the blinking.
IndicatorTask ==
    /\ indicator = "blink"
    /\ found \/ timedOut
    /\ indicator' = "done"
    /\ UNCHANGED <<flags, host, timer, stack, history>>

-----------------------------------------------------------------------------------
Next ==
    \/ HostTask
    \/ Discovery
    \/ DiscoveryEnds \/ HandleReset
    \/ TimerTask
    \/ IndicatorTask

Spec == Init /\ [][Next]_vars

\* FreeRTOS runs a task that is ready; the delay of the timeout task ends.
Fairness == WF_vars(HostTask) /\ WF_vars(TimerTask) /\ WF_vars(IndicatorTask)

FairSpec == Spec /\ Fairness

-----------------------------------------------------------------------------------
\* scan_active_ never misses a running scan but while ble_gap_disc() is being
\* called: the timeout task takes it for the truth (BluetoothScanner.cpp:1449).
RadioIsFlagged == scanning => active \/ host = "started"

\* Nothing that concerns the scan is under way or waiting.
Quiet == host = "idle" /\ synced /\ ~completion

\* As long as there is something to scan for, the scan comes back after every
\* end and every reset of the stack.  Only two things stop it for good: a
\* start that fails, and a timeout that cancels the scan in the moment in which
\* the target is found.
ScanComesBack == Quiet /\ MayScan => scanning \/ startFailed \/ lostFound

\* A search that has timed out unsuccessfully does not go on in the controller,
\* unless the cancellation failed or met a scan that was just being started.
SearchIsGivenUp ==
    Quiet /\ timedOut /\ ~found /\ timer = "done" => ~scanning \/ notCancelled

\* A scan given up "to preserve battery" (BluetoothScanner.cpp:1452) stays off:
\* neither a late completion nor a reset of the stack brings it back.
GivenUp == timedOut /\ ~found /\ ~scanning /\ host # "starting"
GivingUpIsFinal == [][GivenUp => GivenUp']_vars

\* The search LED goes off, whether the target is found, the search times out,
\* or the BLE stack never comes up; it only needs a timeout task.
SearchLedGoesOff == indicator = "blink" /\ timer # "none" ~> indicator = "done"

\* "Cancels BLE scanning if the target was not found within the search timeout
\* window" (BluetoothScanner.cpp:1438): the scan that is cancelled has not found
\* it.  Does not hold: the flag is read several steps before the cancellation.
OnlyVainSearchIsCancelled == [][TimerCancels => ~found]_vars
===================================================================================
