# A TLA+ development for the drone telemetry monitor

The repository is the firmware of a hand-held drone monitor: an ESP32-S3 that
listens on a LoRa radio (SX1262), Wi-Fi and BLE for drones, decodes what it
hears into a table of aircraft, shows it on a small display, logs it to an SD
card and sounds alerts. It is C on FreeRTOS, with two cores, some ten tasks and
a handful of mutexes and queues; much state is deliberately or accidentally
unlocked. This directory holds TLA+ modules translated from that code, the TLC
runs that check them, and TLAPS proofs about them. `PROJECT.json` maps every
definition to the lines it models and lists runs, hazards, findings and
theorems.

Parse with `tlasany M.tla`, check with `tlc -workers 2 -config X.cfg M`, prove
with `tlapm M.tla`.

## Inventory of the system

`main/` boots the components and owns the tasks; `components/` is layered:
`common`, `domain` (data that outlives a task), `hw_hal` (drivers), `services`
(logic), `ui`.

| Component | State | Operations | Hard behaviour |
|---|---|---|---|
| Data logger (`data_logger.c`) | open CSV file, session id, rotation index, RAM ring, failure counter, card flag | init, log, check_sd, flush, rotate, deinit | card that fails or goes, power cut mid-flush, ring wrap, counter and index limits |
| SD driver (`hal_sd.c`) | mounted, open handles | mount, open, write, close, unmount | unmount under an open file |
| Aircraft registry (`aircraft_registry.c`) | 32 slots, count, total, mutex | find_or_create, update_status, get, count | pointers used after the mutex is given back; eviction of a full table; sweep against writers |
| Telemetry decoder (`telemetry_decoder.c`) | writes registry entries | classify, decode, update_registry | writes through a pointer without the mutex |
| Simulation (`simulation_service.c`) | orbiting drones, enabled, scenario | tick, toggles | ticks in the UI task while the bridge toggles it; second writer of the registry |
| Hardware manager (`hw_manager.c`) | FSM state, radio states, retry count, mutex, poll task | init, deinit, poll, inject_event, handlers | handlers run for seconds without the mutex; delays instead of joins |
| Radio drivers (`hal_lora.c`, `hal_nrf24.c`) | initialised, SPI handle, status | init, deinit, presence, packets | presence answer depends on earlier init |
| Detection service (`detection_service.c`) | flags, available sources, queue, two tasks | init, start, stop, deinit, receive, callbacks | two radios' protocols on one antenna; half-failed start; stop by fixed delay |
| Wi-Fi and BLE scanners | scanning flag, callback | start, stop | share the radio |
| Task manager (`task_manager.c`) | running, stop request, four handles | start, stop, the tasks' loops | a start that fails half-way; delete of tasks that left |
| Data pipeline (`data_pipeline.c`) | log queue, drop counter, UI event bits | enqueue, dequeue, signal, wait | a full queue |
| Alert engine (`alert_engine.c`) | proximity table, sound flag, notification | new_detection, check_proximity, clear, set_silent | full table, entries moved by a clear, silent mode in mid-alert |
| Buzzer (`hal_buzzer.c`) | playing flag, I2S channel, timer, playback task | play, stop, timer callback | three threads, no lock, a 20 ms window |
| GPS, geolocation (`hal_gps.c`, `geolocation_service.c`) | line buffer, position, last valid one, fix, mutex | reader task, init, deinit, get_position, monitor position | damaged and merged sentences; a position stored in two writes; a reader that waits only so long |
| Serial bridge (`serial_bridge.c`) | ready flag, command line | keys, simulation commands, snapshots | core 0 changes UI and simulation state unlocked |
| UI manager and screens (`ui/`) | current and previous screen, and per screen its selection, page, scale, edit mode | handle_key, render, show, update | two cores, selections of lists that shrink |
| Remote ID (`remoteid_decoder.c`) | none; counters while a frame is read | validate, decode, encode | damaged messages, counters that disagree, encodings at their boundary |
| MAVLink and CRSF (`mavlink_decoder.c`, `elrs_decoder.c`) | none | validate, decode | lengths that disagree with the frame |
| Signature table, classifier (`protocol_signatures.c`, `protocol_classifier.c`) | the table | init, load, serialize, find_match, classify | masks shorter than headers, bands in 32 bits, two searches |
| Pilot locator (`pilot_locator.c`) | tracking slots, ring of readings, best position | update, add reading, operator, home, get, reset | slots never freed, evidence that is pushed out |
| Configuration (`config_store.c`) | the fields | load, defaults | fields out of range |
| Boot (`main.c`) | phase | eight phases | a failure leaves parts out; one part is initialised several times |
| Spectrum analyzer, web server, display, keyboard, SDR | their own | | not called by the firmware, or pure I/O and data |

How they interact: the Wi-Fi and BLE driver tasks and the LoRa task put
detections on one queue; the decoder task takes them, updates the registry and
puts a log record on the log queue; the logger task takes those and calls the
data logger; the UI task draws the current screen, from the registry or not,
when an event bit is set or 20 ms have gone by, and ticks the simulation; the serial bridge reads the registry and drives the UI
from the other core; the GPS task publishes the position. The firmware never
calls some parts that are complete and tested (`hw_manager`, the NRF24, the
proximity and new-detection alerts, `registry_update_status`, the pilot locator,
`remoteid_encode`, the `stop` functions): they are modelled by their interface,
called in any order.

The full list of hazards, each at its line with the properties that would catch
it, is in `PROJECT.json`.

## Modules

| Module | Models | Builds on |
|---|---|---|
| `DataLogger` | `data_logger.c` over a failing card | |
| `AircraftRegistry` | the table with its writers (decoder, simulation) and the sweep | |
| `HwManager` | the radio state machine with its threads | |
| `DetectionFeed` | abstract: the queue the decoder relies on | |
| `DetectionService` | `detection_service.c` and the two scanners | implements `DetectionFeed` |
| `Pipeline` | the four tasks, the log queue, start and stop | extends `DetectionFeed` |
| `Buzzer` | `hal_buzzer.c` | |
| `AlertEngine` | `alert_engine.c` | |
| `Signatures` | the signature table, its CSV text, both searches | |
| `RemoteId` | the Remote ID encoder and decoder | |
| `LinkDecoders` | the MAVLink and CRSF decoders | |
| `TelemetryDecoder` | `telemetry_decoder.c`: classify, decode, update the registry | extends the three above |
| `Boot` | `app_main`, then the decoder it has prepared | extends `TelemetryDecoder` |
| `Gps` | `hal_gps.c` and `geolocation_service.c` | |
| `PilotLocator` | `pilot_locator.c` | extends `Gps` |
| `Screens` | what a key does to each screen, what a frame shows | |
| `Console` | the UI task, the serial bridge and the simulation | extends `Screens` |
| `MC*` | the modules as TLC checks them; constants in the cfg of the same name | |
| `DataLoggerProofs`, `AircraftRegistryProofs`, `HwManagerProofs`, `DetectionProofs` (of `DetectionService`, `TelemetryDecoder` and `Boot`), `PipelineProofs`, `AlertEngineProofs` (also of `Buzzer`), `LocatorProofs` (of `Gps` and `PilotLocator`), `ConsoleProofs` | the proofs | |

State variables are commented with the C variable they stand for; an action is
named after its function, or after the part of it between two points where
another task can run. Variables marked *history* are not in the code.
Operators named `X_Y` next to an operator `X` are seeded faults: a plausible bug
in the code of `X`, used to see that a property notices it.

### DataLogger

One task calls the logger, so its calls do not interleave, except that a flush
is taken line by line because the power can be cut between two lines, and the
card can be unmounted by another task. Records are numbered by the call that
carried them. Opens, header writes and line writes each may fail. Abstractions:
a failed write leaves no partial line; a line written survives a power cut (the
code flushes stdio per line only in part, so this favours the code); a line and
the header have the size of one unit. The KML export and CSV formatting change
no state the rest reads.

### AircraftRegistry

Search and creation happen under the mutex in one step; the writers then fill
the entry field by field with the mutex free, as `update_registry` and the
simulation do. The sweep compares times slot by slot. `StatusSweep` says whether
somebody calls `registry_update_status`: it is TRUE in the run, for what the
module promises a caller of its interface (the host tests are one), and the
theorems hold with either value. No task of the firmware makes that call, so no
fairness is assumed of the sweep, and in the firmware nothing is ever evicted: what
`DisplacesLongestSilent` says of evictions, and `EntryHoldsItsOwn` of slots
under a writer's pointer, is about the interface.

### HwManager

Thread 0 is the caller of the API, the others are the poll tasks of each
`hw_manager_init`. A handler is a sequence of steps; between two of them
(a radio's init, a retry delay) anything may happen, including an injected
event. `overlap` and `forced` remember that two handlers ran at once or that an
injected event overrode the state: the code relies on neither happening, and
`ExclusiveRadios` and `StateMatchesRadio` are stated for behaviours in which
neither did. A third one, `probedOver`, remembers a `hw_manager_init` that began
while a radio was up that a failed one had left (see "Disagreements"). A mutex
taken after it was deleted is `crashed`.

### DetectionService, DetectionFeed, Pipeline

A task of `DetectionService` exists once per start, because a start that failed
half-way leaves its scanner task behind and a second start makes another. The
fixed delays of the stop functions are guards (`StopDelayElapsed`,
`TmDelayElapsed`): they elapse after the tasks reached the point from which they
see the request, which is what the lengths of the delays were chosen for;
`TasksLeave` checks that this point is reached. A call back of a driver is three
steps, as the code checks in three places: the driver sees that it scans and
calls (`FrameCalled`), the service sees that it runs and stamps the frame
(`FrameStamped`), and queues it (`FrameQueued`); a stop may fall between any two.
The delay of a stop is taken to outlast a call back that is under way, as it
outlasts a scan phase: 500 ms against a few instructions of a task of higher
priority. The check of the queue for NULL and the send are one step, and the
driver's call through a pointer that a stop has cleared since its check is taken
to be made. `DetectionFeed` is what remains
when the radios, tasks and calls are forgotten; `Pipeline` extends that
abstraction and not the service itself, which keeps it small. In `Pipeline` a
detection is decoded or not (what decoding does is in `AircraftRegistry`), the
increment of the drop counter is atomic (two decoders exist only after a
repeated start). The UI task is there with the event bits it waits for; what it
draws is in `Console`. The watchdog, the queue's creation and deletion and the
GPS position, which nothing reads, are left out.

### Buzzer, AlertEngine

`Buzzer` takes every access of the unlocked driver as a step of its own, with
the alert task, the UI and the timer task interleaved at will. It does not
measure the 20 ms of a stop: any other thread may do anything meanwhile, and a
thread may be held up between two statements for as long as it takes.
`AlertEngine` treats the buzzer as a call that returns sooner or later, because
the engine ignores its result; the two modules need nothing else of each other.
The configuration may change between any two steps: a check reads the repeat
interval once (`call.every`), and the properties are stated with the interval it
read. The threshold is in `near`, which each check judges afresh.

### Signatures, RemoteId, LinkDecoders, TelemetryDecoder, Boot

The first three are operators, `TelemetryDecoder` is the state machine that uses
them. A byte that a mask is applied to is the set of its bits; a frame is the
record of what its bytes say, with a flag for each checksum; integers of the
Remote ID encoding are kept exactly, because their boundaries are what can go
wrong. Transmitters send the data of `Peers` through the encoder of the same
source file, over a channel that drops the last message, damages one or
miscounts them.

Where a payload begins is decided by the drivers, and they are modelled as they
are. `hal_wifi_scanner.c` hands over the 802.11 frame from its MAC header and the
service copies it (`HearWifi`); the decoder wants the OUI first and refuses it,
whatever it carries. `hal_ble_scanner.c` hands over one legacy advertisement, 31
bytes, since `CONFIG_BT_NIMBLE_EXT_ADV` is not set: room for one message
(`HearBle`). An identifier alone makes an entry without a position, a position
alone is incomplete. So over the drivers no position of a Remote ID transmitter
reaches the registry. `CallWithPayload` is a call of `telemetry_decode` with a
payload laid out as `remoteid_decoder.h` documents it, which the host tests make
and no driver does; what is said of the fields of a position is checked with
those. `HeardAsSent` speaks of frames that begin as the decoder asks (`hdrOK`).

`Boot` goes through the eight phases with a set of modules that
fail and the two files of the card, and the decoder then runs on the table that
the phases left. Of the configuration two fields stand for all: the others go
through the same range check.

### Gps, PilotLocator

The UART delivers pieces of lines, so that sentences are damaged, lose their end
or run together; the reader collects them in variables of its own, which is why
a line is one step. Storing a position is two steps, since a stop of the driver
can fall between them. A reader that does not get the mutex in time keeps what
it had. Places are steps along a line: the locator's centroid is known only to
lie between the places of its readings, so the readings are what an answer
carries. An update may come without a measured strength; it makes no reading and
resolves all the same.

### Screens, Console

`Screens` has one operator per key handler, on the record of the state all
screens keep. `Console` says which task reads and writes that record when: the
UI task reads the current screen, and handles the key for it in a later step;
the bridge may change it in between. The loops of `simulation_service_tick` and
`simulation_service_reset` are taken access by access. A frame of the log finds
any number of records, since another task adds them.

The HUD reads the registry three times in a frame, unlocked, and aircraft join
in between (`Register`): it counts the active ones (`CountTargets`), draws the
radar, whose blip is marked when its *slot* is the selection (`DrawRadar`), and
looks for the aircraft of that *rank* among the active ones for its panel
(`FindSelected`), falling back to the first when there is none (`FallBack`). A
selection past the last aircraft therefore has no marked blip in the frame that
corrects it. Slot and rank are the same number because aircraft take the slots
in order and nothing frees a slot or marks it OUT_OF_RANGE; `Register` does just
that. `SelectionShown` is about the lists of the scanner and the log,
`HudMarksShown` about what the HUD marks and what it shows.

## Runs

Bounds are the constants named `Max...`; the others are sizes of the code, made
small. Each run's constants are in its cfg.

| Run | What it shows | Bounds, and why they are enough |
|---|---|---|
| `data_logger` | no record accepted is dropped unseen (`EveryRecordAccounted`); the ring gives up only its oldest (`BufferKeepsNewestInOrder`); giving up leaves the flags recoverable; duplicates come only from torn flushes; rotation names a fresh file; the card is taken back in use | ring of 2, files of 1 record, 2 files per session, 4 records, 3 faults, 2 remounts, 1 power cut: the ring wraps, is torn in its middle, and the rotation index passes its limit |
| `aircraft_registry` | one entry per aircraft, own data, eviction of the longest silent only | 2 slots, 3 aircraft, one of them also the simulation's, timeout of 1 tick, 3 calls: a full table evicts under a writer's pointer |
| `hw_manager` | never both radios, state agrees with the radio, no mutex lost under orderly use, all retries made, no transient state for ever | 2 retries, 2 inits, 2 injected events, 1 plug change: a swap, its rollback and a recovery overlap with a deinit |
| `detection_service` | radios take turns, a stop leaves silence, tasks leave, and the service implements the feed (`ImplementsFeed`, a refinement) | queue of 2, 3 detections, 2 starts: a full queue, a second start over a half-failed one, and a stop between any two steps of a call back (0.8 million states) |
| `pipeline` | every decoded detection is logged once and in order, or counted as dropped; the queue drains | one source, queue of 1 and log queue of 2, 3 detections, 2 starts |
| `buzzer` | the amplifier is never on with nobody left to turn it off (`EndIsOnItsWay`), and every tone ends (`ToneEnds`) | 2 playback tasks; tones and stops are unbounded in number |
| `alert_engine` | a near aircraft is shown at least (`WarnedWhenNear`) and at most (`AlertPace`) once per interval | 3 aircraft for 2 entries, intervals of 1 and 3 that change, 4 ticks: a full table, and a clear that moves another aircraft's entry |
| `decoding` | a table survives being saved and loaded; the two searches agree; what arrives whole, with the header the decoder asks for, is what was sent; the registry holds what its vehicle sent, and nothing of a damaged frame | tables of 7 at most, 5 transmitters at the boundaries of each field, heard over each driver and as documented payloads, 15 frames of the link protocols, 3 calls: two entries at most are filled and overwritten; the 5 starts cover a full, a short, a missing and an unreadable file and a failure of each kind |
| `locating` | the place shown is the last valid one, a fix is supported; the readings are the newest; an answer from signal strength is one from those | 2 places, lines one piece longer than the buffer, 1 slot for 2 aircraft, 3 readings of 4 made: a ring that wraps, and three readings are the least that a position is estimated from |
| `console` | the lists draw what is selected in them, the HUD's blip and panel mean the same aircraft, the screen that stays current is drawn; the simulation follows its mode; a reset is repeatable | up to 3 aircraft, which join during frames, on pages of 2, a log of 2 on pages of 1, 2 drones and 1 tick, 3 keys or commands: a key, a command and a second command cross in every order (0.9 million states) |

Runs that end in a counterexample, each a disagreement between a document and
the code:

| Run | Property | Disagreement |
|---|---|---|
| `dl_session` | `NewFilePerSession` | the session counter restarts at each boot, so the first session overwrites the previous boot's file (requirement 11.1) |
| `boot_signatures` | `CardTableInUse` | the table of `signatures.csv` is read in the configuration phase and replaced by the built-in one in the next, which the comment there says does not happen |

`CHECK_DEADLOCK FALSE` is set where the system may rest: all records logged, all
starts used up, nobody raising alerts.

### Disagreements and hazards without a run

Met while modelling, and either outside a model, or of one step, or waiting for
a run of their own:

- The Wi-Fi driver hands over the whole 802.11 frame (`hal_wifi_scanner.c:208`),
  `detection_service.c:71` copies it, and the decoder compares its first bytes
  with the OUI (`remoteid_decoder.h:200` wants the payload after the MAC header):
  no Remote ID frame over Wi-Fi is ever decoded, where `requirements.md:32` wants
  each decoded. `HearWifi` is that path, and theorem `DriverFramesRefused` shows
  it for every frame.
- No task calls `registry_update_status`: a silent aircraft stays ACTIVE, where
  `requirements.md:185` has it marked after 30 s.
- `count_separated_readings` (`pilot_locator.c:158`) counts a reading that is
  10 m from some other one, so three readings of which two are from one place
  are triangulated; `requirements.md:96` and
  `pilot_locator.c:9` want three places. `SignalAnswersAreCurrent` promises what
  the code's own rule does.
- After repeated write failures the logger opens the same path again with mode
  `w`, which truncates what the file held (`data_logger.c:134`); after fewer
  failures than the limit what was buffered waits for the next opening of a file
  (`data_logger.c:364`).
- A `hw_manager_init` that fails at `xTaskCreate` leaves the radio it brought up
  (`hw_manager.c:494`). With the NRF24 left up, the next one finds it present,
  `hal_nrf24_init` refuses a driver that is initialised, the manager falls back
  to LoRa, and both radios are on the bus, which `src/README.md:55` calls
  mutually exclusive. It was met in the proof of `ExclusiveRadios`, whose
  induction failed there; TLC shows it with `MaxInits = 3` once `~probedOver`
  is taken out of the property, and with 2 not yet.
- `hw_manager` asks for the presence of the NRF24 before its SPI handle exists,
  so the answer is always no (`hal_nrf24.c:627`).
- The simulation sets an aircraft's status before its time
  (`simulation_service.c:198`): a sweep in between takes it for silent.
- `task_manager_stop` deletes tasks by handles that nobody clears when a task
  has left by itself (`task_manager.c:240`), and a task it deletes stays
  subscribed to the watchdog (`task_manager.c:601`).
- A tone started in the 20 ms that the stop callback waits is lost
  (`hal_buzzer.c:223`); `sound_enabled` is read before the tone is played
  (`alert_engine.c:122`).
- The screen `AIRCRAFT_LIST` has a key handler and no drawing function:
  `ShownFollows` leaves it out. BACK leaves a setting in edit mode. The
  settings screen changes values of its own that reach neither the
  configuration nor a file, but for the sound.
- A command that is too long is dropped, but its tail is executed as a command
  of its own (`serial_bridge.c:116`); `Console` has such lines.
- A MAVLink position is not checked against its range, a signature band above
  2^32 Hz wraps, and a vehicle without identifier is named by a hash of its
  payload, so that each frame of it makes a new entry (`telemetry_decoder.c:218`).
- A notification's time of expiry does not survive the wrap of the clock; no
  caller shows one.

### Fairness

Weak fairness only, and only of steps the scheduler or the clock guarantees:

- the logger task calls `data_logger_check_sd` at least every 500 ms, and a
  flush goes on (`DataLogger`); records need not arrive, the card need not work;
- a thread in a handler, and the poll task, go on (`HwManager`); an
  initialisation need not succeed;
- the two tasks of the service go on and a call back returns
  (`DetectionService`), the UI and the decoder
  tasks go on (`Pipeline`). The logger task has a lower priority on the same
  core than the decoder, which blocks only while the detection service is
  initialised: without it `detection_service_receive` returns at once and the
  loop spins. So its fairness is conditional on `open`, and `LogQueueDrains`
  excludes that case;
- a thread inside the buzzer driver leaves it, and a running timer expires
  (`Buzzer`). Nobody has to play or to stop playing;
- the UI task runs its loop for ever, and the bridge finishes a command it has
  begun (`Console`); nobody need press a key or send anything.

`AlertEngine`, `Boot` and `PilotLocator` assume none and claim no liveness.

## Proofs

Every theorem holds for all values of the constants that satisfy the named
`ASSUME` of its module (sizes are positive naturals, bounds are naturals), in
particular for the code's own sizes and for any bound. Each follows one pattern:
an inductive invariant `IInv` stronger than the property, one lemma per action or
group of actions that it survives, and a temporal step.

**DataLoggerProofs.** `TypeCorrect`, `NoRecordUnaccounted`, `GiveUpRecoverable`,
`FileSizesBounded`, `BufferOrder`, `CopiesCounted`, and `RotationIsFresh` (an
action property). None is inductive alone. That no record disappears needs
that a slot of the ring in use holds a record and that until the buffer is full
the used slots are those before the head (`RingShape`), so that the flush index
arithmetic visits each once; that what a flush under way has passed is on the
card (`FlushedPrefix`), because its last step empties the ring; and that `size`
is what the current file holds (`SizeMatches`) for the bound on files. A second
invariant, `HistoryInv`, is about time: what the card holds is older than the
next record (`CardIsOld`), and paths later in the sequence of sessions and
indices hold nothing of this boot (`LaterPathsOld`), whence the freshness of
rotation; a record's copies and its place in the ring ahead of a flush together
are at most one more than the flushes torn (`CopiesBounded`), whence the
explanation of duplicates; and the order of the ring, read from its tail, is
kept by pushes below and at the limit, which `PushKeepsOrder` proves by the
arithmetic of the ring.

**HwManagerProofs.** `TypeCorrect`, `OneRadioOnTheBus`, `StateNamesTheRadio`,
`MutexHolds`, and `AllRetriesMade` (an action property). The invariant says of
each place of each handler what it has done to the two radios (`RadiosAt`), that
with nobody in a handler the state, the statuses and the drivers agree
(`Settled`), and how long a poll task, the mutex and the flag live (`Life`). All
of it is conditional on `~overlap`, and what a rollback relies on, on `~forced`:
both are conditions of the properties, since the code runs its handlers without
the mutex. The proof is what showed that `probedOver` is needed.

**AircraftRegistryProofs.** `TypeCorrect`, `OneEntryEach`, `CountIsRight`,
`OwnData`, and `OnlyTheSilentYield` (an action property). Every step that touches
the table rewrites, claims or replaces a single slot; the three lemmas about that
carry everything. The strengthening is that a writer on its way points to an
occupied slot, its own aircraft's unless recycled (`PointersHold`), and that the
slot a sweep has judged is occupied. The choice of the victim needs a least
`seen` among the slots out of range, from the well-foundedness of the naturals.

**DetectionProofs.** *The service.* `TypeCorrect`, `SilentWhenStopped`, `TurnsTaken`,
`Implements`. The invariant says what a call under way implies (`CallsInOrder`),
that a listening scanner was put on by a task in that phase (`ScannersOwned`),
where a call back is and what it holds (`CallsHeard`),
that a stopped service has no scanner task (`QuietAlone`), and that at most one LoRa task
exists and holds its source's latest packet (`OneRx`). With it every step of the
service maps to a step of `DetectionFeed` or to none: a packet counts as offered
when it leaves the LoRa task for the queue, not when it is stamped.

*Start and decoding.* `SavingIsLossless`, `SearchesNeverDisagree`,
`DecoderInvertsEncoder`, `DriverFramesRefused`, `RegistryIsTrue`,
`RegistryTakesIntactFrames` (an action property), from `DecodingInvariance`.
`DecoderInvertsEncoder` is about payloads that begin as the decoder asks, over
BLE and as documented; `DriverFramesRefused` says what becomes of those the Wi-Fi
driver hands over, whatever they carry: an error, and no change of the registry.
They hold for whatever `signatures.csv`
contains (`StartsAssumption`: a sequence of lines), for every transmitter whose
data the messages can say (`Sendable`: places of the Earth, the ranges of
altitude, speed and direction), for both ways its conversion may round and for
any frames on the LoRa band (`TelemetryAssumption`). Four lines of lemmas lead
there. A loaded table is one of well-formed entries (`LoadedIsTable`), of which
every line written parses to the entry it came from (`LineOfEntry`), so that none
is skipped on the way back (`SavedReloads`). The two searches take the first of
nested sets of matches (`SearchesAgreeOn`, for every header and frequency, where
the run has eight and four). `EncodeMakes` says which messages a frame has and
`LocationSurvives` that the encodings of each field are inverted up to one step;
since the messages of one frame are from one transmitter and each kind overwrites
its fields, `DecodedFields` follows for every subset and order of them that
arrives. `DecodePreserves` carries that into the registry. The strengthening
(`Prepared`) is that the registry is empty until the services are up, and that
from then on the table is the built-in one, which has no Remote ID entry
(`NeverRemoteId`): otherwise a LoRa frame could be named Remote ID and fill an
entry with data no transmitter of it sent.

**LocatorProofs.** `FixSupported`, `LastValidPlace`, `NewestReadings`,
`SignalAnswers` (an action property), `LocTypeCorrect`. Of the driver, `GpsInv` says what holds also while
the mutex is taken: the position between the two writes is the one that was
parsed (`ReaderStores`), and parsing leaves a supported fix whatever the sentence
(`Parsing`). Of the locator, `ReadingsInv` says that an entry exists for every
aircraft with readings and holds the newest of them; `NewestGrows` is the lemma
about sequences behind it, and `Resolving` says what `resolve_best_position`
leaves alone and what it estimates from.

**AlertEngineProofs.** `TypeCorrect`, `NearIsWarned`, `AlertsArePaced`. What an
entry's time means is the strengthening (`EntriesAgree`): it is that of the last
notice shown or, while the buzzer call of a notice runs, of that notice, which
is then later by the interval its check read; an aircraft without an entry has been shown nothing.
Two lemmas say what the search for a slot (`Searching`) and the clear that moves
the last entry (`Removing`) do to the table.

*The buzzer.* `ToneTypeCorrect`, `SomeoneEndsIt`, at the end of the same module,
which extends `Buzzer` too (hence that module's `BuzzerInit`, `BuzzerNext`).
`EndIsOnItsWay` is not
inductive: a timer callback that finds the flag down returns. The strengthening
splits on the flag: on with the flag down, a stop is past its check or a start is
about to raise it (`UnflaggedEnds`); on with the flag up, also a timer, its
callback or a start that has not armed it (`FlaggedEnds`); and a failed start has
left the amplifier off (`FailedIsOff`).

**PipelineProofs.** `TypeCorrect`, `NothingVanishes`, `LogKeepsOrder`. The conservation law
counts sets (what was decoded, what tasks hold) against lengths (the queue, the
log), so a step keeps it only if what it moves is in one place: a detection not
yet decoded is queued or in the hands of one decoder (`OnePlaceBefore`), one
that was decoded is with a decoder, queued or with a logger (`OnePlaceAfter`), no
two tasks hold the same (`OneHolder`), and a source's next detection is newer
than all of its earlier ones. That a start after a half-failed one never reuses
a task (`NotCreatedYet`) keeps a new task from dropping what an old one holds.
`QueueDeleted` and `TmStopEnd` use freed memory, after which nothing is claimed.
The order of the log follows from that of a line of six stages, from the feed's
queue by way of the decoder, the log queue and the logger to the log: whatever
is further on, of one source, is older (`OnTheWay`). A second start of the tasks
may make a second decoder that overtakes the first, so the property and its
proof are about one start.

**ConsoleProofs.** `ResetsRepeat`, `UiInvariance`, `SelectionIsShown` and
`HudMarks` (action properties). Between resets every drone has made as many steps as the counter says,
but in a tick the drones before the one it is at have made one more
(`MidTick`); a reset no tick overlaps finds none under way (`MidReset`). For the
lists, the only thing that must be kept is that the selected row of the log is
visible at its scroll position (`RowIsVisible`), through every key from either
task; the page of the scanner and the rank of the HUD are corrected by the
drawing, and `PageBegins` shows that the corrected page begins at a row there
is. For the HUD, the active aircraft are those of the first slots
(`SlotsInOrder`), and between the readings of one frame what the radar has marked
is the selection, marked if the last frame showed it, and nothing once a search
has failed (`Marking`). `HandleKey` is a chain of disjoint cases: the proof would not go through
while two of its guards overlapped, which only TLC's order of evaluation hid.

Only model-checked:

- every liveness property (`CardRecovered`, `TransitionsEnd`, `TasksLeave`,
  `LogQueueDrains`, `ToneEnds`, `ShownFollows`, `EnabledFollowsMode`), since the prover has no
  rules for fairness and `ENABLED`;
- what TLC's own instances add: that the assumptions of the proofs have
  instances, and that the situations the properties speak of are reached.

## Not modelled, and why

- The spectrum analyzer: no path of the firmware starts it, and it works on
  samples of a radio the hardware no longer has. The web server: never started.
- Display, keyboard and SDR drivers: register I/O with no state others depend
  on. The commands and timing of the SX1262 and the registers and channel scan
  of the NRF24, behind one status each.
- Fonts, layout, the map's drawing, the splash and spectrum screens, and the
  notification overlay.
- The great-circle arithmetic of positions and orbits; the KML export and the
  wording of CSV lines.
- `hal_buzzer_deinit`, `hal_sd_read` and the like, which nothing calls, in
  otherwise complete modules; `PROJECT.json` names them.
- The watchdog, and what the bridge sends to the browser.
- Tests, mocks and tools.

## Plan

Done, in the order of importance: the logger (loss of data), the registry (the
shared table), the hardware manager (exclusive radios), the detection path end
to end, the alerts; then boot and decoding, position and pilot locator, screens
and serial console.

Theorems next: the types of `TelemetryDecoder`'s registry, and a refinement of
`Pipeline`'s log to the order in which the feed handed the detections over.

Runs next, each a counterexample to a document: Remote ID over Wi-Fi, the silent
aircraft, and the three places of an estimate (see the disagreements above).

Modules that would come after those: the SX1262's BUSY and interrupt flags under
`HwManager`, and the spectrum analyzer if the firmware starts it again.
