# ReptiTrack ESP32: TLA+ models and proofs

ReptiTrack is the firmware of an ESP32 board in a terrarium. It turns a food
dispenser on the schedule a mobile app keeps in Firestore, reports to Firestore
that a dose was served, reads a climate and a power sensor and publishes them
over MQTT, and is provisioned over BLE. This directory models the parts of it in
which several tasks, timeouts, failed requests and restarts meet, checks them
with TLC and proves the central invariants with TLAPS.

Paths below are relative to `src/`; `C/` stands for `src/components`, and
`disp/` for `C/actuators/src/dispenser`.

## 1. Inventory

The first-party code is `src/main` and `src/components` (about 5.5k lines of C).
`managed_components`, `external_components` and `build` are vendored or generated.

| Part | State | Operations | Talks to |
|---|---|---|---|
| **Dispenser** `disp/dispenser.c`, `dispenser_motor.c`, `dispenser_firestore.c`, `dispenser_utils.c` | shared table `g_compartimientos_global` (mutex), local copy, current compartment, motor, vane sensor, semaphore `g_fetch_pause_semaphore` | `dispenser_task` (20 ms passes): copy the table, pick the first due compartment, turn, stop by vane or after 1000 ms, mark, update Firestore with retries; `fetch_task`: refresh the table | Firestore client, LED, clock |
| **Dispenser LED** `disp/dispenser_led.c` | pin, `blink_task_handle`, `led_pattern_update_task_handle`, two kinds of pattern task | on, off, blink start/stop, three patterns | called by both dispenser tasks |
| **Actuators manager** `C/actuators/src/actuators_manager.c` | table of actuators | create, init, start all | dispenser; called by the services task |
| **Firestore client** `C/firestore` | `firestore_initialized`, config, one response buffer per request | GET, POST, PUT, PATCH of a document, init from NVS, search of the terrario | NVS, `esp_http_client` |
| **Provisioning** `C/my_wifi_prov` | `s_retry_num`, LED, credentials and ids in NVS | Wi-Fi and provisioning event handlers, `db-config`, `mqtt-config`, button task | NVS, connectivity manager |
| **Connectivity manager** `C/conn_manager` | singleton `s_instance` | `conn_manager_init`, `wifi_services_init_task` | Internet check, MQTT, Firestore, actuators |
| **Clock** `C/rtc_time` | zone and synchronised flag (NVS), system time | get current time, synchronise over HTTP, parsers | NVS, MQTT, dispenser |
| **MQTT client** `C/mqtt_cliente` | client handle, base topic, a listener table nothing fills | init, event handler, publish | NVS, sensors, clock |
| **Sensors** `C/sensors`, the reading of the PZEM in `C/external_components/pzem004tv3` | last readings, two task handles, the receive buffer of the UART | read task (2 s), publish task (3 s) | MQTT, UART |
| **NVS utilities** `C/nvs_utils` | - | save/load of blobs and strings, init (may erase at a boot) | everything |
| **Network utilities** `C/network_utils` | - | DNS and TCP reachability | services task |
| **app_main** `src/main/app_main.c` | - | the boot order | everything |

How they interact at run time:

```
 app_main -> NVS, sensors init, provisioning startup
 BLE task      --db-config / mqtt-config--> NVS
 event loop    --GOT_IP--> conn_manager_init --creates once--> services task
 services task --check Internet--> MQTT init --> firestore_init --> terrario --> actuators
 MQTT task     --CONNECTED--> status message (needs a time), sensors publish task
 read task     --last_values, no lock--> publish task --> MQTT
 services task, dispenser_task --ask for the time--> rtc_time --> time server, NVS
 dispenser_task <--mutex: shared table--> fetch_task
 dispenser_task <--semaphore: pause-----> fetch_task
 both          --HTTP--> Firestore <--edits-- app
 both          --> dispenser_led.c (no lock)
```

What is hard about it, and what must hold:

- *Dispenser.* Two tasks take a mutex and a semaphore in opposite orders and every
  wait has a timeout after which the code goes on. A compartment is chosen by
  position in one copy of the schedule, marked by id in another, recorded by id in
  a third, and all three can be replaced on the way. Requests fail before or after
  the server applied them. Marks live in RAM, so a restart forgets them. It must
  turn each due dose, once, record it, and never keep the locks or the motor.
- *LED.* Four unlocked test-delete-clear sequences on the blink handle, called from two
  tasks. A deleted task must not be deleted again, no blinking task may be lost.
- *Firestore client.* Four near copies of one function with up to four allocations
  and a buffer that grows in a callback that cannot stop the transfer. Every exit
  frees, nothing is written past a buffer, a success is a whole body.
- *Provisioning and connectivity.* Five tasks and NVS. A retry counter that erases
  all configuration, a button that does too, a singleton that is never reset, an
  erase that closes NVS while other tasks go on. It must erase only when asked,
  start the services once, start the dispenser only with what it needs, and offer
  provisioning again when the network is gone.
- *Clock.* The synchronised flag survives a power cut and the time does not; the
  time is asked for again only by an update that succeeded.
- *MQTT.* A status message that needs a valid time and is sent once per connection, a
  topic made once from ids that may not fit their buffers.
- *Sensors.* Readings shared without a lock and zeroed before each request; a receive
  buffer that is never flushed, so that late or lost bytes meet the next reply. A
  reading must be one reply, whole, and not an old one.

`PROJECT.json` lists each of these as a hazard at its line, with the properties
that cover it, or a note.

## 2. Modules

| Module | What it is | Used by |
|---|---|---|
| `CompartmentTable` | pure: entries, slots, the parse, due slots, marks, the update of one entry | `Dispenser` |
| `Dispenser` | both tasks, the mutex, the semaphore, Firestore, the app, time, restarts | `MCDispenser`, `DispenserProofs` |
| `DoseLedger` | abstract: what the dispenser promises about doses, with no task, lock or request | `Dispenser` (`Ledger`), `DoseLedgerProofs` |
| `FirestoreRequest` | one request: allocations, growing buffer, status, copy out | `MCFirestoreRequest`, `FirestoreRequestProofs` |
| `Connectivity` | NVS, provisioning, Wi-Fi events, button, singleton, services task, network, power | `MCConnectivity`, `ConnectivityProofs` |
| `DispenserLed` | LED functions as programs of steps of two callers | `MCDispenserLed`, `DispenserLedProofs` |
| `NvsStore` | pure: load of a blob into a buffer of some size, save | `Sensors`, `Clock`, `MqttClient` |
| `Sensors` | manager, read and publish tasks, the PZEM driver, UART and meter | `MCSensors`, `SensorsProofs` |
| `Clock` | system time, its flag in NVS, a synchronisation step by step | `Telemetry` |
| `MqttClient` | client handle, base topic, event handler, publish | `Telemetry` |
| `Telemetry` | composes `Clock` and `MqttClient` with the services task, the dispenser as far as it uses the clock, restarts | `MCTelemetry`, `TelemetryProofs` |
| `*Proofs` | theorems and proofs (8 modules) | - |

### Dispenser and CompartmentTable

One action per blocking point of the two loops. `dispenser_task` goes
`copy -> check -> (turn) -> ramp -> lock -> pause -> get -> patch -> release -> clean`:

- `CopyTable`/`CopyTimeout`: the copy of the shared table under the mutex, 50 ms.
- `CheckNothingDue`, `CheckDueStart`: `check_scheduled_compartments`, with its mark
  by id and the motor's start; `CheckAspa`, `CheckTimeout`, `KeepTurning`: the vane,
  the 1000 ms limit, neither.
- `BrakeMotor` ... `StopClean`: `dispenser_motor_stop`. The mutex is held from
  `LockForUpdate` to `StopClean`, all network retries included, as in the code.
- `UpdateGet`, `UpdatePatch` and their failures:
  `firestore_fetch_update_dispensed`. `UpdatePatchFails` covers a request the server
  applied and one it did not.

`fetch_task` goes `idle -> get -> lock -> store -> give`. A timeout can happen only
while the resource is unavailable. The semaphore is taken before the GET and the
mutex after it, the opposite of the other task.

Positions are 1-based (position p is index p - 1; 0 stands for
`compartimientoActual = -1`). An entry that lacks a field is `~completo`: the
parser skips it but counts it, so its slot stays zeroed. `rtc` is the dispenser's
view of the clock: `"unset"` (no time), `"epoch"` (the flag in NVS vouches for a
time that a power cut reset to 1970) or `"valid"`. `Restart` resets everything but
Firestore, true time and the flag.

Ghosts: `servings` counts turns per id since the app armed it, or since the last
settled one, `dosing` is the id of a turn not settled yet, `lapses` the ids whose last
turn was not settled (recorded with `fetch_task` paused). `acordes` says that when the slot
of this turn was picked, the tables that stand in for the local one later (the shared one,
and one that `fetch_task` has read and will still store in this turn) had the same id at
that position.

`reciente` is timing. A fetch that stores a table shows its LED pattern between its
read and its lock, 2.9 s of `vTaskDelay` in the same task
(`disp/dispenser_firestore.c:199`, `disp/dispenser_led.c:69`), and a turn, from the
copy to the mark, takes about 1.5 s. So a table that is stored during a turn was read
before it began, and two stores cannot fall into one turn. `FetchLock` has that as its
guard `InTurn => ~reciente`. Without it TLC finds, with three compartments, a second
store that moves the picked position in the shared table only.

### DoseLedger

An id is `Turn`ed; its turn is `Settle`d (Firestore shows it) or `Lapse`s; it is turned
again only after a lapse or when the app `Arm`s it; what is settled stays shown by every
`Publish`. `Dispenser!Ledger` is the instance: `turning` is `dosing`, `doses` is
`servings`, `unsettled` is `lapses`, and `recorded` is the set of ids that
Firestore does not show as pending. A turn settles where `ReleasePause` ends a successful update
under the semaphore. `KeepsLedger` says that both tasks, the app and restarts implement it.

Abstracted: wording of JSON, LED calls (own module), 20 ms pacing (`MaxGiro` passes
for 1000 ms), the motor's ramp and its PWM values. Not modelled: the dose ledger in
NVS, whose reading is commented out (`disp/dispenser.c:58-66`); `deinit`/`destroy`,
which nothing calls.

### FirestoreRequest

The four functions share one control flow: `call -> url -> full -> buffer -> client
-> perform -> judge -> done`. POST and PUT build one URL, GET and PATCH two. Bytes
are counts. Every allocation may fail; `OnData` is `client_event_handler` on a piece
that fits or after a successful `realloc`; `OnDataNoMemory` loses the piece. The HTTP
client is external: it keeps delivering after the handler failed, which is how the
code uses it.

### Connectivity

`nvs` is the set of stored things; `nvsLista` says whether NVS is open, since
`nvs_flash_erase` leaves it closed until the restart. Each save of `db_config_handler`
is an action that may fail as a whole, so other tasks and power cuts come between
them. The event handlers, the polls of the button (HOLD of them make 3 s) and each
stage of `wifi_services_init_task` are actions. `ap` and `internet` change freely.
The erase and the restart it precedes are two steps (the code waits between them).
Every `Restart` may moreover find `nvs` empty (`NvsAtBoot`): `nvs_utils_init`, called by
`app_main` before anything else reads NVS, erases it when `nvs_flash_init` finds no free
page or another version (`C/nvs_utils/src/nvs_utils.c:36`).

### Sensors and NvsStore

`sensors_read_task` goes `delay -> zero -> send -> wait -> check -> store` or `mark`, and
each write of one field of `last_values` is a step, in the order of `PzemZeroValues`,
`PzemGetValues` and `pzem_read`, since the publish task may load between any two. The
publish task loads the fields in any order: they are arguments of one `snprintf`.

A reply is `RESP_BUF_SIZE` bytes; a byte is known by the request it answers and its
place, which is all a CRC tells apart here: `Intact` takes it to refuse every frame that
is not one whole reply. `BytesArrive` moves any prefix of the line into the receive
buffer, `ByteLost` drops one, `ReadTimeout` takes what came within the 100 ms and drops
it. What comes later stays in the buffer for the next request. The line is idle when a
pass begins: passes are 2 s apart and a reply takes 30 ms. The test for 200 ms between
two readings cannot fail after the first 200 ms of a boot, and is left out.

Ghosts: `pasadas` counts the passes that overlap the load of a message, and `antes` is the
reading that stood before the last pass. A load takes microseconds and passes are 2 s
apart, so in practice one pass overlaps a load at most.

`NvsStore!LoadBlob` has the result of `nvs_utils_load_blob` in two parts, the error
value and whether anything was copied, because the code confuses them (section 6).

### Clock, MqttClient, Telemetry

`Clock` cuts `rtc_time_sync_with_timezone` at request, `settimeofday` and the save of
the flag, so that power cuts, restarts and erases come between them. `esp_restart`
keeps the system time, a power cut does not; neither touches the flag, unless the boot
erases NVS (the parameter `borra`, for `nvs_utils_init`). `MqttClient` has
`mqtt_cliente_init`, the base topic, the two steps of `MQTT_EVENT_CONNECTED` (which run
in the MQTT task, beside the services task) and the publish of a reading. An id
is its length, which is all that decides the topic: `db_config_handler` saves any string as
`esp_id`, the empty one too (`C/my_wifi_prov/src/app_prov.c:508`), the loader copies what
fits in 16 bytes, and the path is cut when 13 characters and both ids do not fit in 64
bytes.

`Telemetry` runs them under `wifi_services_init_task`, which asks for the time at three
places and goes on whatever the answer, and `dispenser_task`, reduced to what it asks
of the clock: a dose turns only with some time, and a recorded one asks for the time if
it is not valid. Its boots begin with any content of NVS.

### DispenserLed

`prog[c]` is what caller c has still to do of a LED function. `ReadHandle`,
`DeleteTask`, `ClearHandle` are the three accesses of
`if (h) { vTaskDelete(h); h = NULL; }`, so that the other caller may come between
them. `visto` is the handle read. Motor, table and Firestore are reduced to what
decides the next LED call. The flashes of a fetch run in the
caller; the blink and update patterns are tasks, named by numbers in order of creation.

## 3. Runs

| Run | Shows | Bounds |
|---|---|---|
| `DispenserSafety` | `HolderInv`: the locks are held exactly where the code holds them. `FetchPaused`: no fetch in flight while a dose is recorded under the semaphore. `RecordedEverywhere`: a recorded dose shows in all five copies of the schedule. `AtMostOnce`: a second turn only after one that was not recorded under the pause. `MarkInArray`. `OnlyTurnedRecorded`: a turn is recorded under another id only if an edit was already read and not yet stored everywhere when its slot was picked (`acordes`); with no edits, only compartments that turned get recorded. `LapseCauses`: with no edits, a turn ends unrecorded only because a wait timed out or every attempt failed. `KeepsLedger`: the refinement of `DoseLedger` | 2 compartments listed in either order, 2 attempts, 1 edit (arm or remove), 1 restart |
| `DispenserLive` | `MotorStops`, `LocksReturned`; given `Fortune`, `DueDoseServed` and `TurnRecorded` | 2 attempts, 1 restart, no edits |
| `FirestoreRequest` | `NothingLeaks`, `BufferFits`, `CopyFits`, and `BodyComplete`: a success lacks exactly the pieces that found no memory, and none of a body that fits in the first buffer, for all four requests | capacity 4, pieces 0,1,3,4,9, bodies up to 14, max_len 0,1,5 |
| `Connectivity` | `WipeOnlyWhenAsked`: a running board erases NVS only after the retries or the button, and a boot that erased it is that of a new board. `OneServicesTask`, `ActuatorsReady`, `EventuallyReprovisions` | 1 retry, 2 polls, 1 power cut, an erase at any boot |
| `LedSafety` | `NoOrphans`, `BlinkEnds`, `PatternOnlyAfterFailure` | 2 turns of 2 attempts |
| `Sensors` | `ReadingWhole`: no reading is made of two replies or left half zeroed. `ReadingAge`: a reading that passes for new is one request behind at most, and not behind before the first late reply. `MessageMixesOnePass`: a message loaded between passes is one reading; one that a pass overlaps holds the reading before it, its zeros and its result, and nothing else. `PromptReplyAccepted`. `PassEnds` | replies of 4 bytes, 3 requests, 2 late replies or lost bytes |
| `Telemetry` | `FlagVouches`: a false time behind the flag means a power cut since the time was set, wherever a synchronisation was cut. `StatusDated`: when the status is left out or dated 1970. `TopicOfDevice`: for exactly which lengths of the ids messages go elsewhere. `StuckWithoutTime`: a board left without flag, dose and services task gets no time before a restart. `LostTimeRecovered` (given its `Fortune`): with the flag it does. `ServicesEnd` | user ids of 0, 35, 36, 63 characters, esp_ids of 0, 15, 16, or none, 2 restarts or power cuts, an erase at any boot |

Five runs end in a violation, each of something a comment or the code's own intent
says; TLC's trace shows how the code does otherwise:

| Run | Says | The code |
|---|---|---|
| `DispenserOneEntry` | an update touches the field of one entry | writes back the whole array it read, and undoes an edit made since |
| `DispenserMalformed` | the mark is inside the array | a skipped entry leaves a slot of id 0, due at once, marked at index -1 |
| `DispenserMarks` | only what turned is marked | the mark by id and the one by position differ when entries are not in id order |
| `ConnectivityServices` | an IP brings the services up | a services task that met no Internet ended, and the singleton stops another |
| `LedDelete` | a task is deleted once | both tasks read the handle before either clears it |

The three dispenser ones use `PromptSpec`, in which no wait times out, so that
the traces do not depend on an unlucky timeout.

**Why the bounds are enough.** Two compartments are the fewest in which position
and id can disagree, in which one edit moves another entry, and in which a later dose
waits behind an earlier one. Two attempts give a failed attempt followed by a good
one, and exhaustion. A second turn of the same id needs only one lapse; `servings`
is capped at 2 because no property tells 2 from more. One restart falls between any
two steps. Clock values 1 and 2 make one dose due at first and the other later, 0 is
1970. `MaxGiro` 1 gives a turn stopped in its first pass, and one stopped later. In
`FirestoreRequest` the capacity of 4 makes pieces that fit, that fill the buffer to
the byte, that need one doubling and that need more than a doubling; 0, 1 and 5 are the
boundary lengths of `max_len`. One Wi-Fi retry separates "a retry", "the last
retry" and "reset by an IP". Two LED turns let a leftover of the first meet the second. Four bytes
are a field each, the least with a prefix, a middle and a suffix; of three requests the
first can leave bytes to the second, whose reply is then left to the third; two faults
are a late reply and a lost byte, or one of them twice. Of two restarts the first finds a
clock that was set, the second one that the first lost. An `esp_id` of 15 characters is the
longest that is loaded; with it a user id of 35 is the longest whose path fits and 36 the
shortest that is cut, 63 is what `firestore_t` holds. The proofs
cover any number of compartments.

`CHECK_DEADLOCK FALSE` is set where the modelled thing really ends: a request
returns (`FirestoreRequest`); the LED model stops after `MaxTurns` turns, or
once a task was deleted twice, where what the kernel does is undefined; a board with no
`esp_id`, or past its `MaxRequests`, has no sensor to read (`Sensors`); a board that met
no Internet, with its restarts used up, has nothing left to do (`Telemetry`).

## 4. Fairness

- `Dispenser!TasksRun`: weak fairness of each task. Both have priority 5, so FreeRTOS
  shares the processor among them, and both sleep in every pass. Fairness is on a
  task's disjunction, not on each action: which outcome a step has (vane, timeout,
  failure) is never promised. `MotorStops` and `LocksReturned` need only this: with
  the limits on passes and attempts, every loop ends.
- `Fortune` is stated as a premise inside `DueDoseServed` and `TurnRecorded`, so that
  the other two do not get it: `NetworkAnswers` (a GET or PATCH that is tried again and
  again works again and again; nothing is served with a dead server) and
  `MutexWaitsEnd` (`fetch_task` holds the mutex for the copy of a struct, so waits of
  50 and 100 ms for it do not time out for ever).
- Both properties hold only while the time is valid. A board without time serves
  nothing, not even a manual dose, and only a successful update asks for the time
  again (`disp/dispenser.c:48`), hence the escape `rtc # "valid"`.
- `Connectivity!TasksRun`: tasks that have work run. A disconnection is fair only while
  the access point is away (`~ap`): the driver then reports one for each attempt.
  Nothing is assumed of the app, the button, the network or the power.
- `Sensors!SensorsFairness`: the read task runs, `uart_read_bytes` gives up after its
  100 ms, and what is on the line arrives. The meter may stay silent for ever, and
  nothing is assumed of the publish task.
- `Telemetry!TelemetrySpec`: the services task runs, and a synchronisation ends (its
  requests have time limits) with any outcome. Its `Fortune`, a premise of
  `LostTimeRecovered` alone, adds that doses come and that update and time server
  answer now and then; it is strong fairness, since restarts and edits disable them.

## 5. Proofs

For every value of the constants (under the named `ASSUME`s, which bound nothing: sizes
are positive naturals, and schedules are documents):

| Module and theorem | Property | Argument |
|---|---|---|
| `DispenserProofs!TypeCorrect` | `TypeOK` | `TypeInv` adds that attempts are counted only during an update and that a turn under way has an id; lemmas type the parse, mark, update, arm and remove of a schedule |
| `LocksHeldWhereCodeHoldsThem`, `FetchPausedDuringUpdate` | `HolderInv`, `FetchPaused` | `LockInv` = types of the locks, `HolderInv` and `FetchPaused` together. Neither of the two is inductive alone: that `FetchGive` may raise the semaphore needs that no dose is being recorded under it, and that needs who has it down |
| `DispenserLedgerProofs!SettledDosesShow`, `TurnedAtMostOnce` | `RecordedEverywhere`, `AtMostOnce` | `LedgerInv`, below |
| `DispenserKeepsLedger` | `KeepsLedger` | initial states map to initial states, and under `LedgerInv` each action maps to `Turn`, `Settle`, `Lapse`, `Arm`, `Publish` or a stutter |
| `MarkStaysInArray` | `MarkInArray` | every id in a table comes from a document, so it lies in the array; assumes `Numbered` schedules |
| `RecordsOnlyTurned` | `OnlyTurnedRecorded` | `AgreeInv`: from the pick to the update the tables of `acordes` keep the turning id at the picked position, since no other refresh is stored within a turn, so the id the update reads there is the one that turns. `TurnInv`: without edits every table and document lists the same ids in the same order. Any schedule, incomplete entries included |
| `LapsesHaveCauses`, `PromptLapsesAreFailures` | `LapseCauses` | `TriedInv`: with no edits, an update that got the mutex finds the slot in both tables and its id is the one that turns, and it ends with a success or at the last attempt. The second, with every wait granted in time, leaves the network as the only cause |
| `UneditedUpdateIsExact` | (see "Findings, exactly") | the document read by an attempt is still the one in Firestore |
| `MarksInPlaceAreTurns` | (see "Findings, exactly") | `PlaceInv`: what any copy of the schedule shows as dispensed has turned, and ids keep their places |
| `RepeatedUpdateChangesNothing`, `UpdateMatchesMark` | (of `CompartmentTable`) | for every document and id: the update is idempotent, so one whose answer was lost can be made again; and reading the updated document gives the table with that entry marked, if the entry is the first of its id and has every field. The two ways of recording a dose, by position on the board and by id in Firestore, agree under these two conditions |
| `DispenserProofs!MotorIsWatched` | (of `Dispenser`) | `MotorInv`: the motor is driven from `check_scheduled_compartments` to the brake and nowhere else; from `TypeInv` |
| `TurnsAreBounded`, `RefreshesAreBounded` | (safety core of `MotorStops`, `LocksReturned`) | the variants `TurnRank` and `FetchRank`, below |
| `DoseLedgerProofs!LedgerBalances` | (of `DoseLedger`) | its own invariant |
| `FirestoreRequestProofs!NoExitLeaks` | `NothingLeaks` | `OwnInv`: what is allocated is a function of the program counter |
| `ResponseStaysInBuffer` | `BufferFits` | `GrowInv`: nothing is in a buffer before it is allocated |
| `CopyStaysInCallersBuffer`, `SuccessIsComplete` | `CopyFits`, `BodyComplete` | `CountInv`: past the argument check `max_len` is positive, the bytes stored and lost are the bytes received, and none is lost before the first capacity is used up |
| `BufferStaysProportional` | (of `FirestoreRequest`) | `SizeInv`: the buffer is the first one or at most three times what it holds (a realloc doubles it and adds the piece that did not fit), and holds no byte that was not received |
| `RequestTypeCorrect` | `TypeOK` | `OwnInv`, `GrowInv` and `RestInv`, the types of the rest |
| `ConnectivityProofs!ErasedOnlyWhenAsked` | `WipeOnlyWhenAsked` | `WipeInv`: the retry counter equals the disconnections in a row until the wipe is decided. `EmptyBoot`: a boot that erased NVS is that of a new board. An action property, from `WipeStep` |
| `ServicesStartedOnce` | `OneServicesTask` | `ServicesInv`: no singleton, no task |
| `DispenserStartsReady` | `ActuatorsReady` | `ReadyInv`: what each stage of the services task has established is still stored or NVS is closed |
| `ErasedBoardReprovisions` | (safety core of `EventuallyReprovisions`) | `ErasedInv`: from the erase NVS is empty and closed, so no save of the app or of the services task lands in it before the restart, and the boot that opens it starts provisioning |
| `ServicesEndForGood` | (see "Findings, exactly") | `Stage` orders the places of the services task; with `ServicesInv` |
| `ConnectivityTypeCorrect` | `TypeOK` | `WipeInv` bounds the counter; the types of store, link and services |
| `DispenserLedProofs!LedTypeCorrect` | `TypeOK` | `TypeInv`: every program is a sequence of known steps; lemmas for each program the callers load |
| `PatternEndsWithPatch` | `PatternOnlyAfterFailure` | `ShapeInv` and `PatternInv`: where the stop of the pattern is in a program still to run, and that after a PATCH it has run |
| `NoPatternTaskLost`, `BlinkEndsWithTurn` | `NoOrphans`, `BlinkEnds` | `LedInv`: unless a task was deleted twice, `HandleInv` (a living task is the one a handle names, and a handle read is the current one or null) and `EndInv` (a turn that ends has a stop of the blink ahead of it) |
| `DeletedTwiceOnlyTogether` | (see "Findings, exactly") | `LiveInv`: a handle that is not NULL names a living task, except between a deletion and its reset |
| `SensorsProofs!SensorsTypeCorrect` | `SensorsTypeOK` | `TypeInv` adds what the buffer and the line hold at each place of the read task: at most one reply when no request is open |
| `ReadingIsWhole` | `ReadingWhole` | `WholeInv`: in the middle of a loop over the fields, the fields already written have the new value |
| `MessagesMixOnePass` | `MessageMixesOnePass` | `PassInv`: a field that the pass under way has not given its result is a zero or of the reading before. `LoadedInv`: with no pass the loaded fields are those of `last_values`, with one each is that, a zero or `antes` |
| `PromptReplyIsReading` | `PromptReplyAccepted` | `PromptInv`: the buffer and the line together are exactly the reply, then `respbuff` is |
| `ReadingAtMostOneBehind` | `ReadingAge` | `AgeInv`: what is in the buffer when a request is sent are bytes of the request before it, fewer than the next frame takes, so the rest of that frame and all that is left behind are new; with no late reply nothing is left |
| `PassesAreBounded` | (safety core of `PassEnds`) | the variant `PassRank`, below |
| `TelemetryProofs!TelemetryTypeCorrect` | `TelemetryTypeOK` | `TypeInv` |
| `FlagNeverAheadOfTime` | `FlagVouches` | `FlagInv`: between `settimeofday` and the flag the time is good, whatever the flag says |
| `StatusHasDate` | `StatusDated` | `StatusInv`: the client is started only after the first synchronisation ended, and once it ended well flag and time stay for the boot |
| `TopicIsOfDevice` | `TopicOfDevice` | `TopicInv`: the base topic itself, and what was sent under it. For user ids up to 63 characters (`MqttAssumption`) and an `esp_id` of any length |
| `NoTimeWithoutRestart` | `StuckWithoutTime` | no action but a restart leaves `SinHora`. An action property |
| `OneSynchronisationAtATime` | (of `Telemetry`) | `CallInv`: the services task checks the network with no call under way, the dispenser runs only once the services task has ended, and no dose turns during a call |
| `ClockIsAsDispenserAssumes` | (joins `Telemetry` and `Dispenser`) | `RtcView` reads `Dispenser`'s variable `rtc` off flag and time; it makes only the moves that `Dispenser` gives to `rtc`, except that an erase of NVS by a running board, which `Dispenser` leaves out, forgets the flag |
| `ServicesAreBounded` | (safety core of `ServicesEnd`) | the variant `ServicesRank`, below |

**The ledger.** `RecordedEverywhere` is about five copies of the schedule (Firestore, the
document an attempt has read, the one `fetch_task` has read, the shared table, the local
one), any of which may overwrite another later. `LedgerInv` is, in the order proved:
`Phase`, what the places of the two tasks say of the other variables; `Shape`, in every copy an
id appears once; `Aligned`, during a turn the position picked stands for the turning id in
the local and the shared table (this is where `reciente` is needed); `Marked`, from the
mark on, under the mutex, the shared table shows the dose; `Confirmed`, after a successful
PATCH Firestore shows it, and under the pause no older document is in flight;
`RecordedEverywhere` for the settled ones; and `AtMostOnce`. It assumes
`GoodSchedules`: no id twice, no entry without a field. That is not for comfort:
without it the code does lose count (run `DispenserMalformed`).

**Findings, exactly.** Each of the five runs that end in a violation has a theorem that
says under which condition the same property, or what it is about, does hold, for every
value of the constants. The condition is then the cause, and not one of several:

| Run | Theorem | What the violation needs |
|---|---|---|
| `DispenserOneEntry` | `UneditedUpdateIsExact` | an edit by the app: without one `UpdateTouchesOneEntry` holds, with any timeout, failure or restart |
| `DispenserMalformed` | `MarkStaysInArray` | an entry that lacks a field, an id twice or an id outside the array |
| `DispenserMarks` | `MarksInPlaceAreTurns` | an entry whose id is the position of another one: with every such id in its place (and no edit, and nothing dispensed at first) `OnlyTurnedMarked` holds |
| `ConnectivityServices` | `ServicesEndForGood` | nothing more: whatever state the services task ended in is kept until the restart |
| `LedDelete` | `DeletedTwiceOnlyTogether` | both tasks between the load of `blink_task_handle` and its reset: if they never are (`Alone`, which a lock over these lines would ensure), `NoDoubleDelete` holds |

**The safety core of liveness.** That something ends is, here, that a variant falls. The
variants are proved: they are natural numbers with the stated bound, each step of the task
that does the work makes them smaller, and no step of any other task makes them
larger (a restart begins a boot anew).
`TurnRank` (at most 2 `FIRESTORE_UPDATE_RETRIES` + 2 `MaxGiro` + 8) is positive as long as
the motor is driven or `dispenser_task` has the mutex or the semaphore; `FetchRank` (at
most 4) as long as `fetch_task` has one of them. `PassRank` counts a pass of
the sensors (2 `Fields` + 3), `ServicesRank` the start of the services with its
synchronisations (20). What stays with TLC is the other half: that the step is taken at
all, which is fairness and `ENABLED`.

Only model-checked: all liveness (`MotorStops`, `LocksReturned`, `DueDoseServed`,
`TurnRecorded`, `EventuallyReprovisions`, `PassEnds`, `LostTimeRecovered`,
`ServicesEnd`), which, like ENABLED and induction over data, is out of the prover's
reach; for five of them the part that is safety is proved, as above. No module has a
RECURSIVE operator.

## 6. Seen while modelling, with no run

- A dose whose update failed is turned again after the next fetch. `AtMostOnce` says
  so exactly; the ledger in NVS that would have prevented it is commented out
  (`disp/dispenser.c:58-66`).
- Nothing flushes the UART (`C/external_components/pzem004tv3/pzem004tv3.c:261`). One
  reply that comes after its 100 ms shifts every later reading by one request, 2 s, until
  some request times out. `ReadingAge` says that it is one request and no more.
- `nvs_utils_load_blob` returns `ESP_OK` and copies nothing when the blob is longer than
  the buffer (`C/nvs_utils/src/nvs_utils.c:159`); its header promises
  `ESP_ERR_NVS_INVALID_LENGTH` (`C/nvs_utils/include/nvs_utils.h:129`), and the callers
  rely on that. `TopicOfDevice` has what follows for the MQTT topic.
- A base topic that does not fit is reported as an error and kept, truncated
  (`C/mqtt_cliente/src/mqtt_cliente.c:410`). Each id may fit its own buffer: with an
  `esp_id` of 15 characters a user id of 36 is enough.
- An `esp_id` that was saved empty has a blob of one byte, which passes the test for a
  length of 0 (`mqtt_cliente.c:404`), and so does one longer than 15 characters, which is
  not copied: the messages of the board then go to `reptritrack/<user>/`.
- The board picks a slot in its local table and records the id it finds at that position
  of the shared table at the end of the turn (`disp/dispenser_motor.c:72`). If the app
  removes an entry and `fetch_task` has read that document, but the board has not stored and
  copied it when it picks the slot, the turn is recorded under the id of the entry that
  moved there. `OnlyTurnedRecorded` says that nothing else does it.
- After a failed `realloc` the pieces around the lost one are joined and the request may
  still succeed (`C/firestore/src/firestore.c:60`). `BodyComplete` says what such a success
  lacks; only the log tells the caller.
- A message of the sensors that a pass overlaps may mix two readings, zeros and -1: there
  is no lock, and the values are zeroed before the meter is asked
  (`pzem004tv3.c:249`). `MessageMixesOnePass` bounds the mixture.
- A board that has started without a time serves nothing until a restart, though the
  network works again: only a recorded dose asks for the time (`disp/dispenser.c:48`).
  `StuckWithoutTime` proves it; `LostTimeRecovered` is the other half.
- Two terminators are written behind their buffers: after every whole reply of the meter
  (`pzem004tv3.c:75`), and after an answer of the time server of exactly 2048 bytes
  (`C/rtc_time/src/rtc_time.c:300`).
- `db_config_handler` saves `firestore_t` twice, the second time with a zeroed
  `terrario_id` (`C/my_wifi_prov/src/app_prov.c:475,488`); no code reads that field.
- `blink_stop` runs in the first pass of a turn, so the blink begun by the start of
  the motor hardly shows (`disp/dispenser_motor.c:30,167`), and after a turn ended by
  the vane it turns off the LED that has just shown a recorded dose (`:126,:167`).
- The update pattern is started before the checks of
  `firestore_fetch_update_dispensed` and stopped only after the PATCH
  (`disp/dispenser_firestore.c:27,152`): after an early return in the last attempt it
  blinks until the next update. `PatternOnlyAfterFailure` pins down when.
- That a table is not refreshed twice within a turn rests on the length of an LED
  pattern (section 2, `reciente`), not on a lock.

## 7. Not modelled

- Code that nothing calls in this version: the listeners, subscriptions and `deinit` of
  the MQTT client (so no message is dispatched), the string variants of `nvs_utils`,
  the ledger of doses in NVS, the DHT sensor (its registration is commented out), the other
  commands of the PZEM driver, every `deinit` and `destroy`.
- `rtc_time_init_timezone`, the first call of `app_main`: it sets the time zone of the
  environment to UTC and no state of the models.
- Pure I/O and pure data: network utilities (their answer is an input of
  `Connectivity`), the formatting and parsing functions of `rtc_time` (the times of a
  schedule are numbers), JSON wording, the QR text, the ping endpoint, the BLE scheme
  and its constants.
- Vendored and generated code: ESP-IDF, cJSON, the DHT driver, build output.

`Connectivity` and `Telemetry` both follow `wifi_services_init_task`: the first has its
network and its stages, the second its clock. Joining them would multiply their states
without a property that needs both.

## 8. Plan

Order: what serves food first, then what the food depends on.

1. *Done*: `CompartmentTable`, `Dispenser`, `DoseLedger` and the refinement;
   `FirestoreRequest`, `Connectivity`, `DispenserLed`, `Sensors` with `NvsStore`,
   `Clock`, `MqttClient`, `Telemetry`; every safety property of a passing run proved, with
   the exact cause of each run that ends in a violation and the variants behind the liveness
   properties.
2. Left: the saves of `db_config_handler` with their sizes over `NvsStore`, instead of
   `Connectivity`'s save that fails as a whole; the assumption `reciente` derived from a
   model with durations.
