# libfprint in TLA+

Specifications of the core of libfprint (`src/libfprint/`): what a fingerprint
device may be asked to do at any moment, who answers, and what remains true when
cancellation, suspend, removal, errors and late answers meet.  The TLC runs
check small instances; the proofs, checked by TLAPS, hold for every value of the
constants.

All of libfprint runs on one thread, that of a GLib main loop.  What makes it
hard is not parallelism but the order of callbacks: the application calls into
the library from callbacks of the library, drivers call back from timers, USB
callbacks and vfuncs, a thread detects minutiae and reports through the main
loop, and the library itself defers work to idle sources of various priorities.

## 1. Inventory

| Component | State it keeps | Operations | Talks to |
|---|---|---|---|
| FpDevice (`fp-device.c`, `fpi-device.c`) | current task and action, its cancellables, cancellation reason, idle sources, critical-section depth and queued requests, suspend/resume task, open/suspended/removed, temperature | the async API (open, close, enroll, verify, identify, capture, delete, list, clear, suspend, resume), the driver API (`*_complete`, `critical_enter/leave`, `suspend_complete`, `remove`, ...) | application (GTask callbacks, signals), drivers (vfuncs), main loop |
| FpiSsm (`fpi-ssm.c`) | current state, start of cleanup, error, delayed-action timeout, parent | start, start sub-machine, next, jump, complete, fail, the `_delayed` forms, cancel delayed, the transfer callbacks | drivers, transfers, FpDevice timeouts |
| FpImageDevice (`fp-image-device.c`, `fpi-image-device.c`) | the seven-state machine, active, finger present, enroll stage, scan pending, kept error, captured image | open/close/start/cancel vfuncs; activate/deactivate complete, finger status, image captured, retry scan, session error; end of minutiae detection | FpDevice (completions, progress, reports), image drivers, FpImage |
| FpContext (`fp-context.c`) | devices, pending async inits, driver list, sources | enumerate, USB hotplug, remove, finalize | GUsb, udev, FpDevice |
| Temperature model (`fpi-device.c` 2300-2481) | ratio, current temperature, timeout | update at start and end of an action and from a timer | FpDevice (cancels long actions) |
| Reports (`fpi-device.c` 2050-2296, `fp-device.c` 1120-1560) | per-task match data: result, match, print, error | enroll progress, verify and identify report, the `*_finish` calls | drivers, application |
| FpPrint (`fp-print.c`, `fpi-print.c`) | type, driver, device id, data, finger, metadata | compatible, equal, serialize, deserialize, add, bz3 and sigfm match | drivers, FpImageDevice, storage of the application |
| FpImage (`fp-image.c`, `fpi-image.c`) | pixels, flags, minutiae | detect minutiae (in a thread) | FpImageDevice, NBIS |
| Transfers (`fpi-usb-transfer.c`, `fpi-spi-transfer.c`) | buffer, callback, cancellable, actual length | submit, finish | GUsb, spidev, FpiSsm |
| Image assembling (`fpi-assembling.c`), byte reader and writer | none, a cursor | line and frame assembling; bounds-checked reads and writes | drivers |
| Virtual devices (`drivers/virtual-*.c`) | pending commands, the timeout of the next one, listener, stored prints | the commands of the test-suite (scan, error, retry, sleep, insert, remove, unplug, ...) | FpDevice, FpImageDevice, sockets |
| Image drivers (`drivers/nb1010.c`, `uru4000.c`, `elan.c`, ...) | state machines, pending transfers and timeouts, flags for what is to be done later | open, close, activate, change of state, deactivate | FpImageDevice, FpiSsm, transfers |
| Match-on-chip drivers (`drivers/synaptics/`, ...) | the command that runs, a command to follow, held-back ends, enroll stage | every vfunc of FpDevice | FpDevice, FpiSsm, transfers |
| NBIS, SIGFM, listing tools, logging, examples, demo, tests | - | - | - |

What is hard, and what correctness means, component by component:

* **FpDevice.**  One action at a time, but with up to five deferred things
  attached to it: an idle source that will call `cancel`, a queued request of a
  critical section, the idle source that returns the task, a suspend or resume
  task, and `notify::completed` handlers.  Correct is: none of them is
  lost, none outlives its action and hits the next one, each request is answered
  once, vfuncs are not called inside critical sections, an assertion never fails,
  and a cancelled operation returns.
* **FpiSsm.**  A tree of machines, each moved by exactly one outstanding thing.
  Correct is: it never hangs or is moved twice, cleanup states are entered once
  and in order, the first error is the one reported, everything completes.
* **FpImageDevice.**  Two asynchronous activities (the driver with the sensor,
  the detection thread) end in either order; the action must complete once,
  after both, with the first fatal error.  Correct is: library and driver agree on whose
  turn it is, a stage does not start before the last has ended, nothing is left
  over for the next operation, aborts return.
* **FpContext.**  Probing is asynchronous, devices come and go meanwhile, and a
  removed device stays until it is closed.  Correct is: no device is announced twice
  or after its removal, pending inits are counted right.
* **Temperature model.**  A hysteresis driven by time that is only brought up to
  date at starts, at returns and by a timeout.  Correct is: once a threshold is
  reached the temperature is updated, the model knows when the device works, a hot
  device cancels what it does and becomes usable again.
* **Reports and prints.**  Order of report and completion; consistency of
  result, match and error; a serialized print reads back as itself, a damaged one
  never as a print; a print of several stages is recognised.
* **Assembling.**  Arithmetic on frames and lines with conventions of sign that four
  functions share.  Correct is: the image is what was swiped, in both directions.
* **Virtual devices.**  Commands come from a socket at any time, before or after the
  operation that takes them, and may be delayed.  Correct is: a command belongs to one
  operation, an operation ends.
* **Drivers.**  Several activities of one sensor (interrupts, control and image
  transfers, timeouts, a command next to the one it cancels) end in any order, while
  the library changes its mind.  Correct is: no activity outlives its operation or is
  started twice, no report comes where the library does not foresee one, and what is
  deactivated or cancelled comes to an end.

## 2. Plan

In order of importance.  Built:

1. `FpDevice`, the life of a device, with `DevicePromise`, the abstract contract
   with its user that it implements; theorems in `FpDevice_proofs`.
2. `SsmPromise` (what a run of a machine promises) and `FpiSsm`, which implements
   it; theorems in `FpiSsm_proofs`.
3. `FpImageDevice`, and `ImageDrivers`, its composition with the code of image
   drivers, of which is shown that they behave as FpImageDevice supposes; theorems about
   both in `FpImageDevice_proofs`.
4. `FpContext`: enumeration, hotplug and removal.
5. `FpTemperature`, whose outcome FpDevice takes as `BecomeHot` and `CoolDown`;
   theorems about both in `FpDevice_proofs`.
6. `FpResults`: reports and what the finish calls return.
7. `VirtualDevice`, the command queue of the virtual device with storage.
8. `FpPrint` and `FpiAssembling` as pure operators, and `PrintPath`, the way of a
   print through them; theorems about prints in `PrintPath_proofs`.
9. `Synaptics`, a driver that matches on the chip, with the part of FpDevice that
   it depends on (critical sections, cancellation, suspend).

Left, again in order:

10. Removal and overheating in the image device: its driver meets them as a
    cancellation, which FpImageDevice has, so that only the reason of the error is
    missing from a composition with FpDevice.
11. Further drivers, next those that match on the chip with other ways to cancel.
12. Transfers of SPI devices.

## 3. Modules, state and actions

| Module | Stands for | Used by |
|---|---|---|
| `FpDevice` | `fp-device.c`, `fpi-device.c` | `MCFpDevice`, `FpDevice_proofs` |
| `DevicePromise` | the contract with the user of a device (abstract) | `FpDevice`, by `INSTANCE` |
| `FpiSsm` | `fpi-ssm.c` | `MCFpiSsm`, `FpiSsm_proofs` |
| `SsmPromise` | the contract of one machine (abstract) | `FpiSsm`, by `INSTANCE` per machine |
| `FpImageDevice` | `fp-image-device.c`, `fpi-image-device.c` | `MCFpImageDevice`, `FpImageDevice_proofs` |
| `FpContext` | `fp-context.c` | `MCFpContext`, `FpContext_proofs` |
| `FpTemperature` | `fpi_device_update_temp` and its callers | `MCFpTemperature`, `FpDevice_proofs` |
| `FpResults` | the reports, completions and finish calls | `MCFpResults`, `FpResults_proofs` |
| `ImageDriver` | how library and driver call each other | `Nb1010`, `Uru4000`, `Elan` |
| `Nb1010`, `Uru4000`, `Elan` | `drivers/nb1010.c`, `uru4000.c`, `elan.c` | `ImageDrivers` |
| `ImageDrivers` | FpImageDevice with one of these drivers | `MCImageDrivers`, `FpImageDevice_proofs` |
| `VirtualDevice` | `drivers/virtual-device.c`, `virtual-device-storage.c` | `MCVirtualDevice`, `VirtualDevice_proofs` |
| `FpPrint` | `fp-print.c`, `fpi-print.c` | `PrintPath` |
| `FpiAssembling` | `fpi-assembling.c` | `PrintPath` |
| `PrintPath` | a swipe and a print on their way | `MCPrintPath`, `PrintPath_proofs` |
| `Synaptics` | `drivers/synaptics/synaptics.c` with its part of `fpi-device.c` | `MCSynaptics`, `Synaptics_proofs` |

A step of every module is one dispatch of the main loop, one call of the user, or
one call of the driver into the library, with everything the call does before it
returns.  The code runs on one thread, so no other step falls between; where the
code itself calls out to handlers that may call back (task callbacks, signals), the
step is split there and what is on the stack is a variable (`returning` and
`ret_notify` of FpDevice, `emitting` of FpContext, `updates` of FpTemperature).

Operators named `Bad...` are wrong forms of the operator that follows them.  They
are the mutations that show that a property can fail; no specification uses them.

**FpDevice.**  The variables are the fields of `FpDevicePrivate` under their names,
plus three that belong to the code outside of the library: `external` (the user's
cancellable), `driver`, `drv_cancelled`, `drv_suspend` (what the driver was asked
and has not answered).  An idle source is a Boolean or, for the return source, the
result it carries.  `Next` is split by who acts:

* the user starts an operation, cancels its cancellable, suspends, resumes;
* FpContext starts the asynchronous initialisation, and tells of the removal;
* the main loop dispatches a source in the order of priorities (critical-section
  flush, return, cancel); the return of a task is `ReturnInIdle`, then one
  `TaskNotify` per handler of notify::completed, then `ReturnDone`, because GTask
  runs the user's callback in between;
* the driver enters and leaves critical sections, completes, answers suspend and
  resume; the temperature changes.

What a driver may do is what the library lets it: it completes what it was asked,
leaves the sections it entered, and answers each suspend or resume once.  Taken
from GTask (external): a task is returned once, its callback runs before the
handlers of notify::completed, and cancellables call their handlers at once.
`fp_device_enroll`, verify and the others differ in their data only and are the one
action `Start`.  A start is one step: a handler of notify::temperature that starts
another operation from within the start is modelled in FpTemperature only.

**FpiSsm.**  `ssm` gives each machine's status, state, error, pending delayed action
and whether its state handler still owes a call.  Entering a state obliges the
handler to one call, made at once or from the callback of a transfer; both are a
step of the driver.  `StartSubsm` hands the obligation to the child.  `first`, the
first error since the driver's machine was started, is history that the
properties need.  Drivers do not call a machine that is not theirs to move, do not
jump from the cleanup back into the work and do not jump to `nr_states`; section 6
says what happens if they do.

**FpImageDevice.**  `dev` is `FpImageDevicePrivate` with what the code calls out to:
the vfunc that was last called, the result handed to FpDevice, the match reported.
The helpers of the code (`change_state`, `maybe_complete_action`, `deactivate`, ...)
are functions from `dev` to `dev` and are composed in the order of the calls.  The
warnings and assertions of the code are recorded in `dev.invalid` and `dev.failed`.
The detection thread is the action `MinutiaeDetected`, enabled from the capture of
the image until it is taken.  A driver does not report a lifted finger before it
delivered the image of it, and is quiet while it deactivates.

**FpContext.**  `devices` is the array, `sources` the idle sources that withdraw a
device, `emitting` the device-removed emissions on the stack with the array index
they will use.  A device is its USB presence, the state of its initialisation, and
what of FpDevice matters here: open, operation in progress, removed, whether the
removed signal is still owed.  Which driver wins is the constant `Supported`.
The user does not reopen a device it knows to be removed.

**FpTemperature.**  The code keeps a ratio with exponential decay, and takes the time
to the next threshold from the inverse of the curve.  The module keeps a level that
moves by a fixed step per tick: both move monotonically between the same
thresholds, which is what the control depends on.  An update is two steps, up to
the notify::temperature signal and after it, with its locals (`is_active`, the next
threshold) on the stack `updates`.

**FpResults.**  `data` is `FpMatchData`; `shown` are the calls of the user's match
callback, `returned` what the task carries and `outcome` what the finish call
gave.  The driver reports and completes in any order and contradicts itself; the
module keeps what the code makes of it.  A verify without a verify vfunc is an
identify against a gallery of one.

**ImageDriver, Nb1010, Uru4000, Elan, ImageDrivers.**  Library and driver call each
other, nested, within one dispatch of the main loop.  `calls` holds the calls that are
still to be made, the next one first: a call of the driver has the effect that
FpImageDevice gives it, without the guards that FpImageDevice puts on orderly
drivers, and may put calls of vfuncs in front of the rest.  `drv` is the private data of the
driver: the states of its machines, what transfers and timeouts are pending, its flags.
A transfer ends well or with an error, and if it was submitted with the cancellable of
the action also cancelled.  Drivers that wait for a machine of their own describe it by
its states alone; FpiSsm has shown what a machine does.

**VirtualDevice.**  `pending` is the queue `pending_commands`, a command waits there
until an operation takes it, and an operation that finds none waits for one (`wait`,
the timeout `wait_command_id`) or is delayed (`sleep`).  The socket is a client that
sends commands at any time; what FpDevice does with cancellation, completion and
removal is taken from FpDevice in the form the driver sees.  `Provoked` names six
situations in which the driver does not keep what is claimed of it (section 6).

**FpPrint, FpiAssembling, PrintPath.**  FpPrint and FpiAssembling are operators: a print is a
record, a frame a function of its pixels, and each function of the code an operator.
PrintPath puts them on the way that they are called on: a swipe is assembled, an image
becomes a stage of an enroll, a finished print is stored, read back, perhaps damaged
in between, updated, matched, and kept by a device under a user id.  `UIntSize` is the
width of the error sum, wide enough in the run for the frames of all drivers.  `Damages`
are those after which the data still have the shape of a stored print: no more than three
bytes, for which `fp_print_deserialize` asserts and the program ends (`LoadAborts`), another
header, the type `UNDEFINED` or one that is unknown, for which it gives neither a print nor an
error (`UnknownType`), columns of unequal lengths, and more rows than there is room for.
Left out are data of another shape (GLib puts defaults in place of what it cannot read,
and checks the type of the payload itself) and changes that make another well-formed print,
which no code could find as there is no checksum.  `Score` compares for equality what
bozorth3 compares by a threshold.

**Synaptics.**  `syn` holds the fields of the driver and those of FpDevice that it
depends on; a call of the driver into libfprint is a function from `syn` to `syn`, as one
callback of a command leaves sections, reports and completes.  The flush of a critical
section precedes everything else the main loop has.  `sensor` is what the hardware
has still to say to the command that runs, with a finger that comes and goes.
`Provoked` again names the situations in which the claims fail; in the run none
comes about, and section 6 says what happens then.

## 4. Runs

Each run is a `.cfg` with the MC module that gives the constants their values.  A
passing run has to hold for all its properties; a violation run checks one statement
of a document or comment that the code does not keep (section 6).

| Run | Distinct states | What it shows |
|---|---|---|
| `device_full` | 18,359 | a driver with every request vfunc: no request is lost, reaches the wrong operation, or enters a critical section; each is answered once; the device implements `DevicePromise` |
| `device_plain` | 13,442 | a driver without cancel and suspend vfuncs that verifies by identifying: a suspend cancels what it cannot keep and answers after it; a cancelled operation returns |
| `ssm_tree` | 977 | every machine has exactly one thing that moves it, keeps its promise and completes; the first error reaches the driver |
| `image_orderly` | 2,892 | driver, detection thread, finger and user in every order: one completion, the right result, a clean device |
| `context_hotplug` | 9,294 | devices are announced and withdrawn once, and only when closed; enumeration ends; a finalized context is silent |
| `results` | 13,796 | callback and result tell the user the same, whatever the driver reports, and a cancellation is returned |
| `temperature` | 1,116 | updates happen once a threshold is reached; a hot device cancels, cools down and is usable again |
| `image_drivers` | 121,286 | three drivers with every order of transfers, interrupts, errors and cancellations: they implement FpImageDevice, leave nothing running, and their transitions end |
| `virtual_commands` | 182,719 | commands and operations in every order: no operation takes what is another's, each ends |
| `print_path` | 99,840 | a swipe is restored, a stored print is what it was, a damaged one is no print, an enrolled finger is recognised |
| `synaptics_commands` | 55,122 | commands, critical sections and held-back ends belong to one operation; results are what the sensor said to it; cancelled and short operations and suspend calls are answered |
| `synaptics_suspend` | about 300 | the finding: a suspend finds the driver without a command |

### Bounds, and why they are enough

* **FpDevice.**  `MaxCritical = 2` tells a nested critical section from the outer one,
  leaving from entering, and the last leave, the only one with an effect, from the
  others.  `MaxNesting = 2` lets a callback run a main loop in which the next
  operation returns: what could go wrong between an outer and an inner return needs
  two.  `device_full` offers one operation of each kind that the code tells apart
  (open, close, a long one, a short one, suspend); `device_plain` offers them all but
  with smaller bounds.  What the library knows about operations is only whether they
  are long, short, open or close, so that further ones add nothing but states.  The
  theorems have no such bounds.
* **FpiSsm.**  Three machines in a chain give a machine that is root, one that is
  both child and parent, and one without children; the cleanups have two, one and
  one state, with a jump back, a jump to the own state and one to the start of the
  cleanup.  Two errors tell the first from the last.
* **FpImageDevice.**  Two enroll stages: one that is followed by another and the last.
* **FpContext.**  Three devices, one without a driver, so that removing one moves the
  last into its place and an index may become wrong.  `MaxNesting = 0`: handlers of
  device-removed do not run a main loop.  With one such loop the index kept across the
  signal (`fp-context.c:108`) is stale when it is used and `ListMatchesSignals` fails;
  this is listed among the hazards.
* **FpResults.**  Two prints, so that a gallery has none, one or both of the prints,
  and a scan matches the right, the wrong, or no one.  One progress report of an
  enroll, as those of all stages are alike.
* **FpTemperature.**  Thresholds at 4, 7, 11 and a top of 14 with rates 3 and 2: the
  steps do not divide the distances, thus a threshold is passed and not only met.
  `MaxLag = 2` ticks by which a main loop may be late are more than the `Delay` of 1
  that the code adds.  `HandlerStarts` chooses whether a handler of
  notify::temperature starts an operation; it does not in the run, and section 6 says
  what happens when it does.
* **ImageDrivers.**  Images of two parts or frames, two enroll stages, two readings
  of a register before a machine gives up, two control transfers under way: each
  loop is left at once, after a turn, and at its limit.
* **VirtualDevice.**  Two ids, two stages, four commands in all: a scan with a delay
  behind it, one that comes during the delay, and one that is left for the next
  operation.
* **PrintPath.**  Frames of 2 x 4 pixels over a scene of 3 x 8 that has no two equal
  places, three frames of a swipe: the first, one between and the last, in both
  directions with a sideways move.  Lines of two pixels, up to an image at its height limit.
  Prints of two stages, so that a stage is added to a print that has one.
* **Synaptics.**  A gallery of two (the first print starts the command, the next
  follows it, then there is none), two enroll stages, progress below, at and above a
  stage and at the end.

Deadlock is checked in all runs but `virtual_commands` and `print_path`, where the user
and the client may stop for good.

### Fairness, and why the code justifies it

* The main loop dispatches what is ready: weak fairness of every source.  The cancel
  source and the flush source are strong: a source of lower priority waits while one
  of higher priority is ready, and a flush waits while the driver is in its next
  critical section; neither lasts, as each of the others is used up.
* A driver that is in a critical section leaves it, and is not always in one; it
  answers suspend and resume.  It ends a short operation, one that was cancelled (by
  vfunc, or by the cancellable where there is no vfunc) and one whose device is gone.
  `fpi-device.h` asks for it: "Drivers must eventually call the corresponding
  function to finish the operation" and "must also handle cancellation properly for
  any long running operation".  Nothing is assumed of an uncancelled long operation,
  which may wait for a finger for ever.
* FpiSsm: timeouts are dispatched, callbacks called, and a driver that loops through
  its states completes at some time.  FpImageDevice: the driver answers activation
  and deactivation, the detection thread ends, a finger that was read is lifted;
  nobody has to put one on the sensor.  FpContext: initialisations and operations
  end, and the user closes a device that was removed, as `fp-device.c` requires.
  FpTemperature: time passes, the timeout is dispatched, short and cancelled
  operations return.  FpResults and PrintPath have safety properties only.
* ImageDrivers: transfers with a timeout and delays end; neither a finger nor the image
  that a sensor owes is assumed, only that a uru4000 that is powered up says so before it
  was asked for the third time.  VirtualDevice: sources are dispatched; nobody has
  to send a command, as the operation that waits is cancelled or times out.  Synaptics:
  transfers end, the sensor answers a new command, a cancel command and those that
  need no finger.  The cancel source has an idle priority and is strong.

## 5. Theorems

The theorems hold for every value of the constants that meets the named assumptions
(`OfferedAssumption`, `VfuncsAssumption` and the bounds of FpDevice;
`TreeAssumption`, `StatesAssumption`, ... of FpiSsm), which say no more than the
types of the code: vfuncs and operations are those that exist, every machine is
below the driver's, a cleanup does not start after the last state or at the first.

`FpDevice_proofs`:

* `TypeCorrect`: `TypeOK` is inductive; one lemma per action.
* `DriverWorksForTaskCorrect`, `CancelBelongsToActionCorrect`,
  `QueuedRequestsAreFlushedCorrect` from one invariant, `DeviceInv`.  The three
  properties are not inductive by themselves: that a cancel in the idle source
  reaches the operation it was meant for needs that a result waits only while an
  action is current (`ReturnBelongsToAction`), that a queued cancel belongs to an
  action which has not been returned needs that the flush source is attached only to
  a current action (`FlushBelongsToAction`), and each of the three needs the others.
* `RemovedSignalOwedCorrect`, with `RemovedHandlerOnce`: the handler that will emit is
  connected to the pending task or to one on the stack, never to both.
* `NoVfuncInCriticalSectionCorrect`, an action property, from `DeviceInv`: in a
  critical section the flush source is not attached.
* `SuspendTaskOwnedCorrect` from `AnswerInv`: what each of the five routes an answer
  can take means for the suspend task (`RouteMeaning`), that two routes exclude each
  other (`RoutesExclude`), and that a task has one (`TaskHasRoute`).
* `RequestsAreOwnedCorrect` joins the theorems on queued requests, the removed signal
  and the suspend task into the invariant that the run checks.
* `DeviceKeepsPromise`: FpDevice implements DevicePromise.  Every step maps to a step
  of the contract or leaves its variables alone; `LifeInv` supplies that an operation
  other than open is only current while the device is open.

* `SuspendedWithoutLongActionCorrect` from `SuspendedInv`: a suspend that had to cancel
  its operation is answered by the return of that operation, so between the answer and
  the return the device is suspended with a long operation current, and what is still
  to be notified (`notify`) has to say so.
* `NoAssertionFailsCorrect`, unless `"CLEAR_STORAGE" \in Offered \intersect Vfuncs`.
  `fp_device_clear_storage` is the one operation that does not look whether the device
  is suspended, and `fpi_device_resume` then meets a short operation.

Also there, about FpTemperature, for all thresholds, rates, delays and lags, as long as no
handler of `notify::temperature` starts an operation (`~HandlerStarts`):

* `TemperatureIsKnownCorrect` and the action property `NoCoolingCorrect` from `TempInv`:
  outside of updates the temperature fits the ratio and the timeout is due at the
  latest when the ratio leaves it (`TimeoutIsSet`); in an update, the temperature is
  that of the ratio at its start.  `Ticks` is a division, and the lemmas on it bound
  what the ratio does until the timeout.  That a hot device has cancelled its long
  operation (`HotIsCancelled`) is kept by every step of its own.

`FpiSsm_proofs`:

* `OneMoverCorrect`: a running machine has exactly one of an owed call, a timeout or a
  running sub-machine, and a machine that does not run has none.  It is assumed that
  the driver does not jump from the cleanup back into the work
  (`JumpsFromCleanupStay`), without which the statement is false.  The invariant adds
  that whoever runs with an error is in its cleanup (`WorksWithoutError`), as else
  `fpi_ssm_mark_failed` would do nothing, and that a delayed jump is one that
  may be made (`TimeoutIsJump`).  The operations on one machine are lemmas of
  their own (`MarkCompletedMoves`, `MarkFailedMoves`, `JumpToStateMoves`, ...); a step
  is then one of four changes of the tree (`OneSettles`, `RootSettles`,
  `StartSubsmKeeps`, `SubsmCompleteKeeps`).
* `FirstErrorReportedCorrect`, under the same assumption, from `ErrorInv`: the first
  error is held by a machine all of whose ancestors have no error yet (`ErrorPath`), so
  that on its way up it is overtaken by none, however deep the tree is.
* `KeepsPromiseCorrect`: every machine refines `SsmPromise`.  A step of the tree is for
  each machine one step of its promise or none; `PlaceInv` says that a machine is in one
  of its states.  It is assumed that jumps are made in the work, to another state of it
  or to the start of the cleanup (`JumpsStayInWork`): a jump past cleanup states breaks
  the promise, see section 6.

`FpImageDevice_proofs`, for every number of stages, as long as no error comes
while an enroll stage is scanned (`~ErrorsDuringEnrollScan`, see section 6), from one
invariant, `ImageInv`:

* `StateIsConsistentCorrect`, `NoAssertionFailsCorrect`, `SuccessIsCompleteCorrect` and
  the action property `FirstErrorWinsCorrect`.  None is inductive by itself: an assertion
  holds since the work of driver and detection thread belongs to the current action
  (`WorkBelongsToAction`, `ScanBelongsToAction`), the error of an action is its first
  since nothing is left of the one before (`QuietWhenInactive`), a scan that ends with
  an active device has a stage to count it for (`EnrollGoesOn`), and the image of a
  capture is one of a finger that is there (`FingerIsKnown`).
* `DriverKeepsOrderCorrect` and, the refinement, `DriversAreOrderlyCorrect`: the three
  drivers of ImageDrivers, with their transfers, timeouts and callbacks in any order and
  for every number of image parts, frames, readings and keys, make only those calls that
  FpImageDevice allows an orderly driver, are refused one kind of call only, and have
  nothing under way when an operation has ended.  So the theorems above, which suppose
  orderly drivers, hold with these.
  Both are of a uru4000 whose activation does not fail and whose device reboots within one
  reading (`UruFaults = {}`; section 6 has what happens otherwise).

  Neither is inductive: whether a call fits depends on the calls in front of it that are
  still to be made, what they do to the device, and what the transfer that is under way
  will do when it ends.  `DriversInv` joins `ImageInv` with one invariant per driver, a
  disjunction of its phases: outside of a capture, activated, awaiting or reading, with
  reports to make, told a state, stopped, ending.  A phase fixes
  the list `calls`, the state and the driver part of the device, and what the driver has
  under way (`NbInv`, `ElanInv`, `UruInv`).  One fact spans them: `ErrorInv`, that an
  operation goes on without an error until its image is there, so that a device that runs
  is not deactivated under its driver by an earlier error.  The proof has three parts: what each
  call does to the device as its driver sees it (`ReportMoves`, ... of FpImageDevice,
  `ReportIsMade`, ... of the list of calls), what each function of a driver leaves
  (`ElanScanMakes`, `UruImagingNextMakes`, ...), and, per phase, that every step leads to a
  phase (`NbRunsKeeps`, `ElanReportsKeeps`, `UruStopsKeeps`, ...).  What
  `~ErrorsDuringEnrollScan` supposes is that no transfer fails while an enroll stage is
  detected (`MayFail`); that no driver then reports an error it met before is part of
  the invariant (`Enrolling`).

`FpContext_proofs`, for every set of devices:

* `PendingAreCountedCorrect`, `ClosedBeforeWithdrawalCorrect` and
  `SilentWhenFinalizedCorrect` from `ContextInv`, for any nesting of main loops.  A queued
  withdrawal is not overtaken since the device of every idle source is closed for good
  (`Gone`), which holds since no operation starts on a removed device.  The counter is
  the cardinality of a set, which the steps change by the lemmas on finite sets.
* `DevicesAreAccountedCorrect` from `ListInv`, for `MaxNesting = 0`: when a handler of
  `device-removed` runs a main loop, a second removal moves the entry that the
  first one is about to remove by its index (`fp-context.c:108`).  `RemoveIndexFastRemoves`
  says what `g_ptr_array_remove_index_fast` does to an array without duplicates.

`FpResults_proofs`, for every set of prints and both kinds of drivers:

* `ResultsKeepContractCorrect` and `EmulationAgreesCorrect` from `ResultsInv`: a task is
  worked on, completed and returned in this order (`PhaseInv`), and what is shown to the
  user is at any time what the data hold (`DataInv`), as the result is taken from the
  data at the end and not from what was shown.

`Synaptics_proofs`, for every gallery and number of stages.  Of the situations that
`Provoked` may list, each of those excluded violates the property (TLC shows it
on the instance of the run):

* `CommandsKeepOrderCorrect`, with lost and crossed cancel commands (`Orderly`), from
  `SynInv`: an operation is idle, over, or has a machine that talks to the sensor, waits
  for an interrupt or sleeps (`Idle`, `Over`, `Talks`, `Waits`, `Sleeps`), and in each
  the count of critical sections is one per reason there is for one.  `Base` says where a
  suspend call can be, `Hears` that the sensor runs the command of the operation or
  nothing.  The callbacks are proved to move from phase to phase one by one
  before the steps, which the main loop makes from several of them.
* `AnswersAreOwnCorrect`, with lost cancel commands (`Uncrossed`), from `SynInv` and
  `OwnInv`: a sensor that was told to cancel runs a command of an operation that is to
  be cancelled, and what an enrollment counts is what the sensor said of this one.

`VirtualDevice_proofs`, for all ids, stages and commands, and any number of commands:

* `OperationsAreSeparateCorrect`, as long as neither `late_command` nor `unplug_waiting`
  is provoked, from `Separate`: the result of an action is at most one, no timer runs
  without an action or after its result, of the two timers at most one runs, and a
  match that was reported stands for a report of the current action or a removed
  device.  A vfunc is called with a device that is `Ready`, whether from its start, a
  timer, a command or a cancellation, and every way through it leaves `Separate`
  (`VfuncLeaves`, which joins one lemma per vfunc and part of it).
* `VirtualAssertionsHoldCorrect`, when nothing is provoked, from `Separate` and
  `AssertInv`: while a scan is put back in front of the queue no delay is queued, and when
  a cancellation is due that scan is still at the head, where `dev_cancel` drops it.

`PrintPath_proofs`, for all minutiae, devices, metadata and numbers of stages, and any room
for minutiae:

* `StoredPrintIsKeptCorrect` from `PathInv`: what is in storage is what the stored print is
  written as, or cannot be read.  `PrintIsRestored` follows a print into storage and back:
  its structures have zeros in the rows that are not used (`IsXyt`), and only therefore
  are they equal to those read back.  `DamagesAreFound` says that none of the damages leaves
  what is taken for a print.  That this is said by an error is proved of all but an unknown
  type, and of that the contrary, as the code is.
* `EnrolledIsRecognisedCorrect`, when no two minutiae of an image are at one place
  (`PlacesDiffer`), from `EnrolledInv`: the print holds the structures of exactly the scans
  of its stages, also while it is stored.  It rests on what sorting by place does to the
  minutiae: an order that sorts them exists (`SomeOrderSorts`), in the sorted rows the
  place of a minutia is the number of those before it (`PlaceIsRank`), so that the rows
  depend only on which minutiae were found (`SamePartSameRows`), and the structure tells
  different ones apart (`SameStructureSamePart`).  Of two minutiae at one place `sort_x_y`
  does not say which comes first, and the same finger may then give two structures.

Assumed of the constants is there that minutiae have a place and a direction below 360
degrees (`MinutiaeAssumption`, as `lfs2nist_minutia_XYT` makes them) and that NULL is not a
print (`NoneAssumption`).

Only model-checked: everything about liveness (`RequestsReturn`, `MachinesComplete`,
`UserCancelReturns`, `OperationsReturn`, `HotplugSettles`, `HotCoolsDown`,
`TransitionsEnd`, `OperationsEnd`, `CallsReturn`), which is out of the prover's reach; and
`ImagesAreAssembled` of PrintPath.  The operators of FpiAssembling are sums and folds
over frames and lines, so that what they compute for every input needs induction over
data; and that a swipe is restored holds of a scene whose parts are told
apart by their pixels, as that of the run, and not of all.

## 6. Where the code and what is said of it disagree

Shown by a run: `synaptics_suspend`.  FpDevice calls the suspend vfunc by
`current_action`, also when the driver has already completed the operation and only
its return is pending (`fpi-device.c:1769`).  Synaptics supposes a running command
there and asserts it (`drivers/synaptics/synaptics.c:1485`).

Statements that a module keeps and no run checks, since they do not hold; the
module's other properties are checked where the situation does not come about:

* `NoAssertionFails` of FpDevice, if CLEAR_STORAGE is offered to a suspended device:
  unlike the other operations it does not look at `is_suspended`, and a resume then reaches
  `g_assert_not_reached` (`fp-device.c:1841`, `fpi-device.c:1829`).
* `RemovedDeviceCanBeClosed` of FpDevice: a device removed while suspended can be
  neither resumed nor closed (`fp-device.c:1064`, `fp-device.c:922`; 512 asks the user to
  close it).
* `UnpluggedAreWithdrawn` of FpContext: a device unplugged while it is initialised, by a
  driver that does not probe it, is announced and never withdrawn (`fp-context.c:269`).
* `SessionErrorAborts` of FpImageDevice, with `ErrorsDuringEnrollScan`: a fatal error
  while the minutiae of an enroll stage other than the last are detected leaves the
  operation pending for ever (`fpi-image-device.c:323`; 551 says it is aborted).
* `LoadGivesPrintOrError` of PrintPath: a stored type that is none of FpiPrintType passes
  the switch of `fp_print_deserialize` (`fp-print.c:822`), which then returns NULL and sets
  no error (907; 757 promises a print "on success").  `StoredPrintIsKept` says when
  this happens and that it happens then only.  Too little data ends the program (782).
* FpTemperature with `HandlerStarts`: a handler of notify::temperature that starts an
  operation loses the timeout of that operation (`fpi-device.c:2448`).
* `ActivationEnds` of ImageDrivers with `UruFaults = {"reboot"}`: rebootpwr_run_state
  passes the delay and the state of a delayed jump in the wrong order
  (`drivers/uru4000.c:932`); a sensor that takes more than one reading to reboot is never
  activated.  With `UruFaults = {"init"}` `DriverStateIsSound` fails: a failed
  activation leaves the interrupts running, and the next one asserts that they do not
  (394), or fails a machine whose sub-machine runs (1072).
* VirtualDevice, by situation: `unplug_waiting`, an unplug command leaves the timeout of
  a waiting operation behind, which then asserts (`drivers/virtual-device.c:305`, 61);
  `late_command`, `sleep_again`, `stale_stages`, what a command that an operation did not
  wait for leaves to the next one; `cancel_in_callback`, `cancel_injected`, a
  cancellation that comes while a command is processed.
* Synaptics, by situation: `quiet_interrupt`, an interrupt transfer that announces
  nothing is submitted again without its cancellable (`synaptics.c:262`), so that a
  suspend is not answered; `bad_print`, a print without a valid id ends an identify
  operation that never leaves its starting section (849); `asks_too_many`, the sensor
  asks for one more print than there are; `crossed_cancel` and `late_answer`, an answer
  that comes after its command ended is taken for one to the next command (209);
  `cancel_lost`, nothing repeats a cancel command; `stale_error`, an error held back for
  the removal of the finger is found by a later operation (551).

Met while modelling, and taken into the modules as what the code does:

* A suspend call that waits for a short operation succeeds without setting
  `is_suspended`; the next operation is accepted and the paired resume fails
  (`fpi-device.c:1742`; `fp-device.c:968` says the calls are paired).
* The removed signal may find another operation pending, one that the user's callback
  started (`fpi-device.c:756`; `fp-device.c:508` says that none is).
* `identify_finish` may return a match together with an error.
* `fpi_ssm_jump_to_state` to `nr_states` skips the cleanup (`fpi-ssm.c:540`; the
  realtek driver does so).  A failed machine that jumps from its cleanup back ignores
  its next failure (`fpi-ssm.c:423`).  A completed machine cannot be restarted, as
  `fpi-ssm.c:262` says it can: it is freed.
* A failed activation leaves an image device ACTIVATING (`fpi-image-device.c:625`); a
  retry before the finger was seen makes a transition that is warned about (529); the
  last enroll stage may deactivate before the finger is lifted (319); a cancel while
  activating is ignored (69), and the operation then waits for a finger.  A retry
  while deactivating loses the deactivation (529); FpImageDevice leaves it out as
  drivers that are quiet while they deactivate do not make it.
* The comment at `fpi-image-device.c:350` fears a race of two scans; `StateIsConsistent`
  shows that it does not occur with orderly drivers.
* uru4000: an image that comes while the device is deactivated is reported, and refused
  by the library (`uru4000.c:840`); the deactivation waits for the image, for which there is
  no timeout.  elan reports a lifted finger while it captures, after a cancellation; its
  comment on the calibration gives other thirds than the code.
* Assembling: the comment says that the search covers 8 pixels in both directions, the
  loop goes from -8 to 7; a frame whose overlap is not found keeps the place of the
  estimation in the other direction; the offset of the last line is not filtered.
* Prints: one without a date is read back with a date far away; the user name "nobody" of
  a generated user id is not read back; an identify stops with an error at a print of
  another type.
* VirtualDevice: a scan followed by a sleep counts for two stages; a cancelled
  operation may leave its scan to the next; clearing the storage without a command
  always times out.  A verify operation that has reported, is delayed and loses its
  device keeps `match_reported` (`drivers/virtual-device.c:577` is not reached); the
  next one reports nothing, which no one sees since a removed device answers so
  (`fpi-device.c:1078`).
* Synaptics completes an operation before it leaves its critical section
  (`synaptics.c:363`), where `fpi-device.c:900` asks for the reverse; an open or probe whose
  command was cancelled is reported as a success (1368).

## 7. Not modelled

* Other hardware drivers.  Most of their lines are protocol tables and register
  sequences of individual sensors; what they may do with the library is what FpDevice,
  FpiSsm and FpImageDevice leave open.  Together with the vendored code they are
  nine tenths of the repository's lines.
* NBIS and SIGFM: vendored numeric code; of bozorth3 there is `Score` of FpPrint.
  The pixel processing of FpImage is arithmetic without protocol state; its
  detection thread is an action of FpImageDevice.
* Transfers: the buffers, the synchronous calls and SPI.  What an asynchronous USB
  transfer may end with is `TransferOutcomes` and `ActionOutcomes` of ImageDriver.
* Byte reader and writer: cursors without state between calls.
* virtual-image.c and the socket below the virtual devices.
* The synchronous wrappers (a main loop around the asynchronous call), discovery of
  features, property accessors, quirks, listing tools, logging, examples, tests.
