# camper-agent: verification project

TLA+ specifications of the firmware in `src/main/`, their model-checking
configurations (TLC) and machine-checked proofs (TLAPS).

The firmware runs on an ESP32-C6 in a camper. It listens to a Victron battery
monitor over Bluetooth LE, takes a telemetry sample every two hours into a
queue in RAM, and every four hours switches on an LTE modem, publishes the queue
to an MQTT broker by AT commands, removes what was published, and switches the
modem off again. Power, coverage and the modem's answers are all unreliable,
and nobody is there to press a button: what matters is that samples are not lost
by a bad order of events, that a failure leaves a state from which the next
cycle works, and that the modem does not drain the battery.

## 1. Inventory

| Component | State | Operations | Interacts with |
|---|---|---|---|
| `TelemetryQueue` | ring buffer `samples_`, `head_`, `size_`, change counter `generation_`, a mutex | `enqueue`, `peekAll`, `discardOldestIfGenerationMatches`, `size` | called by both tasks |
| `TelemetryCollector` | none | `collectOnce` | reads the scanner's snapshot, enqueues |
| tasks of `main.cpp` | the uploader's local batch and `err` | `periodicCollectionTask`, `periodicUploadTask`, `runUploadCycle` | FreeRTOS tasks of equal priority that share the queue |
| `LteConnectionManager`: power and connection | `data_connection_active_`; beyond it the levels of two GPIOs, the UART driver, the modem | `start`, `stop`, `isDataConnectionActive` | called by the uploader |
| `LteConnectionManager`: AT command channel | none of its own; beyond it what is on its way to and from the modem | `runAtCommand`, `runPromptedAtCommand` | used by `start`, `stop` and `MqttPublisher` |
| `MqttPublisher` | none; beyond it the modem's filesystem, TLS and MQTT client | `publishTelemetryBatch` | AT commands through `LteConnectionManager` |
| `BluetoothScanner` | scan mode, target observation, last Victron snapshot | NimBLE callbacks, three tasks, `getLatestVictronTelemetry` | written by the NimBLE host task, read by the collector |
| Victron decoding | address and key of the shunt | `loadConfig` with its parsers, the tests and the bit reader of a frame | from the build's settings and the air to the snapshot |
| modem, SIM, broker | outside the source | answer AT commands, or do not | seen through results |

What is hard, component by component, and what makes each correct:

* **Queue and tasks.** The uploader holds a copy of the queue for minutes while
  the collector may append or overwrite. Between copy and discard only the
  generation stands for the contents. Correct: a discard removes exactly what
  was published; nothing else ever leaves the queue but by overflow or reset;
  the order is kept; failed cycles change nothing.
* **Modem power.** `start()` has a dozen failing steps, each to be undone;
  `powerOffModem()` itself may fail, and its result is ignored by `start()`.
  Correct: the publisher always finds a modem that has answered and registered,
  the modem is off between cycles, asked before it is cut, and one left on is
  turned off later.
* **AT commands.** Answers carry no name, and the driver waits for each only for
  a time, so that one may be read in the place of another; a modem that has
  prompted takes what comes next for data. Correct: a verdict that something
  rests on is that of its own command, and no command that is wanted is taken
  for data.
* **Publishing.** Results are ambiguous: a command without an OK may have been
  carried out. Correct: ESP_OK means received; the certificate file is there
  before TLS needs it; sessions in the modem are closed.
* **Waiting.** Deadlines over a wrapping tick count. Correct: a wait is as long
  as its window and ends.
* **Scanner.** The NimBLE host task, a timeout, an indicator and a dump task share
  flags and the last advertisement without a lock, and each flag lags behind
  what it stands for. Correct: the scan comes back after every end and reset as
  long as there is something to scan for, and stays off once it was given up;
  the collector gets one decoded frame, the last one.
* **Decoding.** Fields of odd widths, packed from the least bit of one byte into the
  next, with signs, units and codes for no value; frames of any length; texts that
  somebody typed. Correct: what is stored is what the shunt measured, and a
  wrong text is refused.

`PROJECT.json` lists every hazard with its line and with the properties that
would catch it.

## 2. Modules

| Module | Models | Notes |
|---|---|---|
| `BoundedFifo` | what `TelemetryQueue.hpp` promises | abstract |
| `TelemetryQueue` | `TelemetryQueue.cpp`: state and steps | extended by the next two |
| `QueueSnapshots` | the queue with its two callers | implements `BoundedFifo` |
| `TelemetryPipeline` | `main.cpp` and the collector: queue, two tasks, calls into the modem as results, broker, resets | composes the queue with the tasks |
| `LteConnectionManager` | `start()`, `stop()` and the private methods they call | extended by the next |
| `UploadCycle` | the queue, the tasks and the steps of `start()` and `stop()` together | composes `TelemetryQueue` and `LteConnectionManager`, implements `TelemetryPipeline` |
| `AtCommand` | `runAtCommand()`, `runPromptedAtCommand()`, the UART and the modem's end of it | |
| `PublishCall` | what a caller of `publishTelemetryBatch()` may rely on | abstract |
| `MqttPublisher` | `publishTelemetryBatch()`, command by command | implements `PublishCall` |
| `TickDeadline` | the deadline loops | |
| `BluetoothScanner` | scan control: host task callbacks, `startScan()`, timeout and indicator task | |
| `VictronSnapshot` | observation, its decoding by host and dump task, the snapshot and its copy | |
| `VictronConfig` | the parsers of the configured address and key | recursive functions |
| `VictronDecode` | the bit reader, its fields, signs, units and codes | recursive functions |
| `VictronReadout` | `loadConfig()`, `start()` and the path of a frame to the snapshot | composes the two |
| `MC...` | model values for TLC | |
| `TelemetryQueueLemmas`, `...Proofs` | lemmas and theorems | section 4 |

### How state and actions correspond to the code

**TelemetryQueue.** `samples`, `head`, `size`, `generation` are the members of
that name. Every method holds `mutex_` from its first to its last access, so each
is one atomic step. `EnqueueOverwriting` and `EnqueueAppending` are the two
branches of `enqueue`; `DiscardOldest` and `DiscardRefused` the two results of
`discardOldestIfGenerationMatches`, the first with its clamp. `Contents` is the
queue as `peekAll` copies it. The counter wraps modulo `Generations`.

**TelemetryPipeline.** `pc` is the next call of `runUploadCycle`; one action per
call and result. A call that takes long is one action per effect: a publish is
`BrokerReceives` followed by its return, and either may be followed or preceded
by collections and resets. `unsent` is the message that the modem may still hold
after a publish that failed: `BrokerReceivesLate` sends it, at once or hours
later, `ModemForgets` drops it. It is one message at a time; a later one replaces
it. `origin` says where it is from: the "cycle" that is running, an earlier cycle
that has "left" it behind, or an earlier one that has been "carried" through a
`start()` since. A `stop()` that returns ESP_OK has driven the rail low for the
interval between cycles and taken `unsent` away; a `stop()` that fails and a reset
may leave it. A `start()` need not take it away, whatever it returns: between its
`configurePowerEnableGpio` and its `powerOnModem` there is no delay. Samples are numbered in the order
they are taken; `delivered`, `overwritten`, `wiped` and `changes` are history
variables no action's guard depends on, except that `changes` is bounded.
`running` is the set of tasks `app_main` managed to create.

**LteConnectionManager.** `pc` is the private method about to be called,
`caller` where `powerOffModem` returns to. `rail`, `pwrkey`, `uart` are the two
GPIOs and the UART driver. Every method may fail in each way its code allows, a
failing method possibly having done a part of its work. An upload cycle is
`start()`, a publish if it succeeded, `stop()`.

`modem` is what the driver cannot see: whether the modem runs, and whether its
data context is up. What the pins do to it is not in the code, and the model
takes of the board as little as it can. A rail that is driven low and stays low
until the next cycle, hours later, turns the modem off. A rail that goes low and high
again in `start()`, without a delay, turns it off or not; so does a floating pin,
in a reset or where `gpio_reset_pin()` is not followed by the rest. PWRKEY
toggles: a pulse that is noticed boots a modem that is off and turns off one that
runs. Only a modem that runs answers; it does not go off by itself while it is
talked to, which the commands of `AtCommand` and `MqttPublisher` would see as
failures. A command is its result: `activateDataConnection` succeeds with
the context up or down, since the answer to `AT+CNACT?` is only logged;
`waitForNetworkRegistration` takes any registration that is reported (`heard`),
since the answer names no network mode; `AT+CPOWD` is sent, or its write comes
out short (`powerDown`), and `stop()` goes on either way.

`powerOffFailed` and `cutShort` are history: what a failed `powerOffModem()`, and
a reset in the middle of a cycle or after such a failure, may have left on. The
module has no run of its own; its steps run in `UploadCycle`.

**UploadCycle.** `pc` is that of `LteConnectionManager`; while it is "publish",
`stage` says how far the publish has come. The steps of `TelemetryPipeline` are
taken up from there, each with its effect on the queue or the broker; `Starts`
and `Stops` add to a step of `start()` and `stop()` what the uploader makes of the
return, and that a modem that is off has nothing to send (`Keeps`).
The broker receives only from a modem that runs and has a data context (`Online`).
`Call` is the call of `runUploadCycle` that a step belongs to, and the refinement
mapping to `TelemetryPipeline`, whose other variables are those of this module.

**AtCommand.** `phase` is the loop the driver is in, `rx` what the UART driver
holds, `line` what the modem has sent, `inbox` what it has been sent. An answer is
reduced to the tokens the code looks for. `Send` is the flush and the write;
`Read` takes some of what has arrived, since `uart_read_bytes` returns what there
is, and judges all the text read so far. AT probes but the first come without a
flush. The modem takes what it is sent in order and answers in order, at any
time or never, and takes for data what comes while it waits for data. `closing`
is what the callers do after a failure that matters: only plain commands
follow. `wanted`, `swallowed`, `executed` and `inSync` are history.

**MqttPublisher.** `pc` is the next command. `configured` (the settings of the
build are not blank) and `probing` (the firmware of the modem answers
`AT+CFSGFIS`) are chosen initially and fixed. `file` is the certificate file in
the modem's flash; it survives power cycles and resets, the rest of the modem
does not. A command without an OK leaves open whether it was carried out.

**TickDeadline.** `uptime` never wraps, `TickCount` does. An iteration is not cut
off by the deadline, as in the code, where it is an AT command or a poll.

**BluetoothScanner.** `found`, `active` and `timedOut` are `target_found_`,
`scan_active_` and `search_timeout_reached_`. `startScan()` is three steps
(`StartScan` up to the call of `ble_gap_disc()`, `BeginScan`, then `ScanBegun` or
`BeginScanFails`), since the host task waits for the controller in it and the
other tasks run meanwhile; `searchTimeoutTask` is one action per access to a
shared flag. `synced`, `scanning` and `completion` are the BLE stack and its
controller, as far as the code relies on them: a discovery runs until it is
cancelled, ends by itself or is ended by a reset of the stack. The ends nobody
asked for are announced, except that a reset may swallow the announcement; a
cancelled discovery may be announced or not, so the model does not depend on
what the NimBLE version does. A reset of the chip starts everything anew and
nothing of the scanner survives it, so it is the initial state. The guards
`task_running_` against starting a task twice never bite, `start()` being called
once.

**VictronSnapshot.** A frame is a number, in the order of reception, with what the
decoder makes of it. `pc` of a decoder follows `logTargetParsedFrame()`: parse the
header, decrypt, take the mutex, write the fields. The snapshot's fields are two,
each remembering which frame gave the initialisation vector and which the
ciphertext. `updateTargetObservation()` is one step because the host task has the
higher priority on the one core of the chip and waits for nothing in it; a dump
task or a collector that runs in the middle of a decoding by the host task, which
waits for the log and for the mutex, is in the model.

**VictronConfig, VictronDecode, VictronReadout.** A character is the value of its
digit, a separator or another one; an array is a function from 0. The parsers
are functions of the number of characters read, one value for each iteration of
the code's loops. A frame has the reading of the shunt, the length of its
manufacturer data and the test, if any, that it fails; its record is laid out by
Victron's table of fields (`Field`), and `Telemetry` reads it back by the code's
sequence of widths. The shunt counts in 10 mV, 1 mA and 0.1 % (`Unit`); the code
divides by 100, 1000 and 10. A float is modelled as the quotient it is rounded
from, so that `StoredIsMeasured` compares volts, amperes and percent exactly and
says nothing of the last bit of a float. `Measurable` is what a record can say: in particular no
current of -1 mA, whose 22 bits are the code for none. AES is external: with the right key the
ciphertext gives the record, and beyond the ciphertext's end, or with a wrong
key, bits that differ from what surrounds the fields.

The operators commented as broken variants are not part of the system: each is
a plausible bug in the definition after it, used to confirm that a property
notices it (`PROJECT.json`, `mutants`).

## 3. Runs

| Run | Bounds | Shows |
|---|---|---|
| `queue_snapshots` | 3 slots, 3 samples, 4 generations, 3 changes per copy | the ring buffer is a bounded FIFO; the generation names the contents |
| `pipeline` | 2 slots, 6 samples, 4 generations, 3 changes per cycle, 1 reset | nothing vanishes, order kept, failed cycles keep the queue, the retained message does not get older but for a message carried through a `start()`; every sample is resolved |
| `upload_cycle` | 1 slot, 2 samples, 3 generations, 2 changes per cycle, 1 reset | the steps of `start()` and `stop()` keep the pipeline's promise; session complete, modem off, graceful stop, pins released first; cycles end, a modem left on goes down |
| `at_command` | 6 commands per power-on | a command sent in a quiet moment gets its own verdict, one with a payload always does; only commands that end the session are swallowed |
| `publish` | none; batches of 0 or 1 sample | success means received; certificate, sessions, disconnect; calls return, the file gets uploaded |
| `tick_deadline` | window 7, iterations up to 3, 56 ticks of a 64-tick counter | waits are bounded and complete before the wrap |
| `ble_scan` | none | the scan comes back, stays off once given up, the LED goes off |
| `victron_snapshot` | 3 advertisements | a copy is one store; the snapshot is that of the last frame |
| `victron_readout` | 2 bytes of address and key; lists of texts, readings and lengths | the scanner runs with what the texts spell or not at all; a stored field is what was measured, in its unit |
| `tick_wrap` | the same with 80 ticks | violation, see below |
| `scan_cancel_race` | none | violation, see below |
| `torn_dump` | 2 advertisements | violation, see below |

Why the bounds suffice. The queue's arithmetic is modulo its capacity, so two
slots have all its cases (empty, partial, full; head at either end) and three
add a head in the middle. `MaxChanges` is the number of changes that fall into
one cycle; one short of `Generations` is the largest sound value, so the boundary
itself is explored, and the proofs cover the rest. Six samples overflow a
two-slot queue several times within one cycle and leave some for the next. One
reset suffices to meet every state of the cycle with a reset; a second would
start from the same initial state. In `upload_cycle` two samples overflow a
queue of one and leave a batch refused; longer batches are for `pipeline`, and the
proofs cover every size. The modem's side of it is not bounded at all: any
number of cycles, with every failure of every step. `MqttPublisher` and
`BluetoothScanner` are finite without any bound. Six commands are the AT
probe, one that times out, a prompted one behind it, and three more for their
late answers to be mistaken for; the proofs cover any number. Two bytes of
address and key have a first, a last and an order, which is all the parsers'
loops distinguish; texts go from empty to one digit too many, with separators
and other characters at every place. The readings are the ends of each field's
range, both signs, and each code for no value; the lengths cut a frame before
and within each field, at its end and beyond. Three advertisements let a dump
of the first be overtaken by the second and that of the second by the third; the
proofs cover any number. `PublishCall` distinguishes an empty batch from
one that is not; the code makes no other use of the count.

The runs of the pipeline, of `UploadCycle` and of `TickDeadline` turn the deadlock
check off: both task creations may fail, and the bounds stop a behaviour. So do
those of `BluetoothScanner`, which stops without a host task or with the search
given up, and of `VictronReadout`, whose scanner stays off if a text is refused.

### Fairness

* `pipeline`: weak fairness of the upload task, since each call is bounded
  by timeouts and the task has nothing else to wait for; strong fairness of a
  successful modem start and of a receipt by the broker, an assumption about the
  world: an upload tried over and over gets through over and over. The collector
  is not assumed to run, nor is a publish assumed to be acknowledged.
* `upload_cycle`: weak fairness of the upload task's steps, each of which ends in a
  timeout at the latest, and strong fairness of four calls succeeding that do
  nothing but set pins and delete the UART driver: `configurePowerEnableGpio`,
  `releaseUartPins`, the release of PWRKEY and the cut of the rail in
  `powerOffModem`. If one of them failed for ever no code could turn the modem off. A
  modem that a failed power-off or a reset has left on is turned off by a later cycle, and
  there is none without a sample: `ModemGoesDown` excepts a modem that is left on
  while the queue is empty, which takes another collection and another upload,
  and one that is left on without an upload task.
* `publish`: weak fairness of the publisher's commands, strong fairness of
  calls with samples and of the commands up to the upload succeeding. None is
  assumed of the modem's answer to the file check.

* `ble_scan`: weak fairness of the three tasks: they are ready, or their delays
  end. Nothing is assumed of the BLE stack.
* `victron_snapshot`: weak fairness of what each task does next, and strong
  fairness of taking the mutex, which is held for a few assignments once in
  minutes or hours by each task. No advertisement need come.

### Disagreements with the documentation

* **`tick_wrap`**: the loops wait "for up to" their window
  (`LteConnectionManager.cpp:578`), but compare tick counts of which one may have
  wrapped: if the iteration that should be the last begins before the wrap of the
  counter and ends after it, the loop runs for another period. At the default
  tick rate of ESP-IDF the counter wraps after 497 days of uptime.

* **`scan_cancel_race`**: the timeout task "cancels BLE scanning if the target was
  not found within the search timeout window" (`BluetoothScanner.cpp:1438`), but
  reads `target_found_` some steps before it cancels. A target found in between
  has its scan stopped. If the controller announces the end, the host task
  restarts it; otherwise nothing does (`ScanComesBack` names this case), and the
  dump task goes on to store the one reading.
* **`torn_dump`**: the snapshot is "the latest successfully decoded" telemetry
  (`BluetoothScanner.hpp:32`), but the dump task may decrypt one frame with the
  initialisation vector of the frame before, as the host task replaces the
  observation under it, and store the result. The window is a few instructions
  wide; the next dump stores the right values again (`SnapshotSettles`).

Consequences of the code that are not findings, but that a reader should know of:

* A certificate upload that is cut short leaves a truncated file, which firmware
  that answers `AT+CFSGFIS` reports as found ever after; nothing replaces it.
  `CertificateIsProvided` shows that this is the only way to reach a TLS command
  without a complete file.
* A publish that the broker received but that counts as failed is repeated.
  `NoSampleVanishes` and `RetainedNeverRegresses` show that it does no more, even
  if the modem sends it hours later because it could not be switched off, with one
  exception: `start()` drives the rail low and high again without a delay
  (`LteConnectionManager.cpp:241-263`), and a modem that was left on and comes
  through that may send its old message after a newer one was published.
  A delay between the two would take the exception away.
* `start()` returns ESP_OK with the data context down if the modem answers OK to
  `AT+CNACT=0,1` all the same: the answer to `AT+CNACT?` is only logged (lines
  783-785). And it takes a registration that was reported for the network mode
  before. The publish then fails and the queue keeps the batch.
* `stop()` cuts the rail also if `AT+CPOWD=1` could not be written to the UART, whose
  result it only logs (lines 224-227): "gracefully"
  (`LteConnectionManager.hpp:14`) is an attempt.
* A reset in the middle of a cycle floats the pins and forgets that the modem may
  be on: it may stay on until a later cycle, or for as long as the queue is empty.
* `stop()` leaves `data_connection_active_` set if `powerOffModem()` fails
  (`LteConnectionManager.hpp:20`). The one caller asks after a successful
  `start()`, where `PublisherHasSession` holds, so the firmware is not affected.
* After a plain command that timed out, and whose failure the caller tolerates,
  the verdicts of plain commands may be off by one for as long as the modem
  stays behind: `VerdictIsOwn` speaks of a command sent with nothing under way.
  AT probes, sent without a flush, take any OK. Commands with a payload are safe
  throughout, since what is late comes before the prompt, and `response.clear()`
  after the prompt throws it away (`PromptedOkIsOwn`).
* The modem is powered down with its pins released (`LteConnectionManager.hpp:72-73`)
  except in a `start()` that follows a power-off that failed to release
  them: it switches the rail with the UART still driven. `PinsReleasedFirst`
  names the case.
* `parseVictronBatteryMonitorTelemetry()` tests the padded length, so that a short
  frame passes and the fields it lacks are stored with what decryption makes of
  the padding. `StoredIsMeasured` is about the fields a frame holds.

## 4. Proofs

Every safety property that a passing run checks, invariant or action property, is
stated by a theorem, and so are both refinements of abstract specifications and
that of `TelemetryPipeline` by `UploadCycle`. They hold for every value of the
constants under the named assumptions of their modules:

| Assumption | Says | Why the code justifies it |
|---|---|---|
| `QueueAssumption` | capacity and number of generations are positive | `kCapacity` and `uint32_t` |
| `SnapshotAssumption`, `PipelineAssumption`, `CycleAssumption` | fewer changes of the queue fall into one copy or cycle than the counter has values | one change in two hours against 2^32 |
| `DeadlineAssumption` | the counter, the window and an iteration are positive numbers of ticks | |
| `MaxAdvertsAssumption`, `MaxCommandsAssumption` | the bounds are numbers | |
| `LengthsAssumption` | an address and a key have bytes | |
| `TextsAssumption` | a configured text is a finite sequence of characters | C strings |
| `NotAvailableAssumption` | the mark of a field that is not available is no quotient | a flag of its own |
| `FramesAssumption` | a frame has a length, and its reading is `Measurable` | the widths of the fields |

* `TelemetryQueueLemmas` proves what the ring buffer's operations do to
  `Contents`: appending, overwriting, discarding, and that slots stay in range.
  They need facts about `%` that are proved there.
* `QueueSnapshotsProofs`: the inductive invariant adds to the types that the
  generation equals the copy's plus the changes since, modulo its width
  (`GenerationCounts`), without which "equal generations" says nothing about the
  past. From it follow `GenerationIsAName` and, action by action, `Refinement`
  of `BoundedFifo`.
* `TelemetryPipelineProofs`: the invariant joins the same counting fact with the
  queue being the run of the newest samples, the batch being a run that was queued
  when it was copied, each control point's knowledge about `err` and
  `delivered`, and that a message the modem still holds ends with no older sample
  than the retained one unless it was carried through a `start()`
  (`UnsentIsRecent`). It gives the four invariants and both action properties.
* `UploadCycleProofs`: the invariant says for each step of `start()` what the steps
  before it have achieved, and what is known in `powerOffModem()`; it is proved of
  `LteConnectionManager` and carries over to `UploadCycle`, each step of which is a
  step of the modem or leaves it alone (`CyclesAreLte`). `PinsGoFirst` follows from
  the order of the steps of `powerOffModem()`. `Refinement` of `TelemetryPipeline`
  adds that a modem that is off has nothing to send (`UnsentNeedsPower`): so a
  `stop()` that returns ESP_OK, after which the modem is off, has taken `unsent`
  away. Nothing of the kind is needed of `start()`. With it the safety
  theorems of `TelemetryPipelineProofs` hold of the composition:
  `CycleLosesNoSample` and `CycleFailsSafely` state them of the queue, the tasks and
  the driver together, with every failure of every step of `start()` and `stop()`.
* `LteDriverProofs` about `AtCommand`: the channel has no names, so the invariant counts what can
  be in it. As long as the caller goes on, no earlier prompted command has left a
  prompt, a waiting modem or a payload (`NoPromptIsLeft`); hence the one prompt
  is the command's own, and whatever is late comes before it (`PromptIsOwn`);
  hence all that is heard after it is about the payload (`AnswerIsOwn`), which is
  `PromptedOkIsOwn`. For `OnlyClosingIsSwallowed`, what is sent while somebody wants
  it is in front of anything that can make the modem wait (`WantedIsAhead`). For
  `VerdictIsOwn`, a command sent with nothing under way is alone in the channel, as
  itself, as its payload or as answers about it, and once it is judged nothing that
  could refute the verdict is left there (`StepsAgree`).
* `LteDriverProofs` about `TickDeadline`: `LoopInv` says that the deadline is the
  tick of entry plus the window, modulo the counter, and that as long as the loop
  has not run into the wrap the tick count tells how long it has waited
  (`CountMovesWithTime`). Whether it can run into the wrap depends on the tick of
  entry alone and not on how often the counter has wrapped before. So at any
  uptime a loop whose deadline does not wrap (`DeadlineIsAhead`) is not left early,
  and one whose last iteration ends below the wrap as well (`ClearOfTheWrap`) stays
  within its window (`WaitsAheadAreComplete`, `ClearWaitsAreBounded`). The
  properties of `tick_deadline` as they stand follow for a time that ends before
  the first wrap (`BeforeTheWrap`); `tick_wrap` shows that `WaitIsBounded` needs it.
* `MqttPublisherProofs`: the invariant says what a verdict of the check means for
  the file, where a session may be open, and that `err` is the publish's result
  until the disconnect. It gives three invariants and the refinement of
  `PublishCall`.
* `VictronSnapshotProofs`: two invariants. `CopyInv` says who holds the mutex and
  which half of snapshot and copy is written; `NewestInv` adds that the host task
  always works on the newest frame, that the dump task does unless it was
  overtaken, and that the snapshot has the newest readings or will get them from
  a task on its way (`SnapshotCatchesUp`): the property alone says nothing about
  the states in which somebody decodes.
* `BluetoothScannerProofs` about the scanner: the flags lag behind the controller in
  both directions, and `ScanInv` says what may be concluded from them where they
  are read. A discovery runs only in a synced stack and with no end left to
  handle (`StackAgrees`); only a search that has timed out is cancelled
  (`TimeoutIsKnown`); a scan that was started and is still wanted when
  `ble_gap_disc()` returns is under way or has an end that the host task will hear
  of (`StartIsSeenThrough`), without which `ScanComesBack` says nothing about the
  state before the host task is quiet; once the timeout task is through with a
  vain search, nobody scans or is about to (`SearchIsOver`), without which
  `SearchIsGivenUp` is not preserved by a late completion. `GivingUpIsFinal` follows
  from the guards alone.
* `BluetoothScannerProofs` about the readout: what a loop over data has computed
  after k iterations is proved by induction on k. The induction is over the set of
  the k for which it is right, and rests on the least element of a set of numbers
  (`LeastElement`, from the well-foundedness of < on the natural numbers);
  `LoopRuns` gives the function that the recursive definitions choose. For the
  parsers the digits taken so far are those of the text so far, or the text is
  already refused (`GatherAgrees`, `WriteAgrees`, half a byte included); so an
  address or a key is taken if and only if the text spells one, and it is that
  one (`AddrIsSpelled`, `KeyIsSpelled`). For the bits, a number is halved and put
  together again (`Halve`, `ReadsBits`), signs come back (`SignsBack`), and no field
  of `Widths` overlaps what Victron puts elsewhere (`BitIndices`,
  `DecryptedFields`). `ReadoutInv` adds what the flags say of the texts and that the
  snapshot is what the last frame decodes to.

Type correctness of `LteConnectionManager`, `MqttPublisher` and `BluetoothScanner` is
proved as a part of their inductive invariants and not run separately.

Only model-checked: the liveness properties (`EverySampleResolved`,
`EveryCycleEnds`, `ModemGoesDown`, `EveryCallReturns`, `MissingFileIsUploaded`,
`SearchLedGoesOff`, `SnapshotSettles`), since liveness under fairness is beyond the
prover, and the violations, on small instances.

## 5. Not modelled, and the plan

Left out: the wording of JSON, logs and AT commands, and with it whether the JSON of
a full queue fits what the modem takes for one `AT+SMPUB`; NVS; build settings
other than the shunt's address and key, except for "blank or not"; AES; the fields of
a frame that are only logged; the electrical behaviour of the modem beyond
being on or off. The metrics of a sample other than Victron's are placeholders in the code.

Planned, in this order:

1. Theorems that join the layers further: what `CycleLosesNoSample` says of the
   queue's contents in terms of `BoundedFifo`, and `PublishCall` in the place of the
   publish in `UploadCycle`, so that the pipeline's promise covers
   `publishTelemetryBatch()` command by command.
2. How `ScanComesBack` and `SnapshotCatchesUp` exclude the states in which their
   liveness would fail: what the disagreements with the documentation leave true.
3. `QueueLocking`: the queue's methods statement by statement under `mutex_`,
   implementing `QueueSnapshots`.
