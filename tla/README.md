# A verification project for the WorkCentre 3119 driver

The repository is a Windows driver, in Rust, for the scanner half of the Xerox
WorkCentre 3119 / Samsung Phaser family: a DLL loaded by the Windows Image
Acquisition (WIA) service that implements `IStiUSD` and `IWiaMiniDrv`, speaks the
scanner's command protocol over one exclusive WinUSB handle, and writes BMP
streams. Beside it stand a command line program that looks for the scanner, a tool that
installs its USB driver and two tools that capture scans. This directory holds TLA+ models of its behaviour, TLC configurations
that check them on small instances, and TLAPS proofs of theorems about them for
every value of their constants.

All paths below are relative to the crate's `src/` directory unless they name a
file such as `ENG.md` or `docs/...`.

## 1. The system

```
  WIA service ── COM ──▶ com_server.rs  (class factory, reference counts, unload)
      │                     │ owns
      │            ┌────────┴─────────┐
      ├──────▶ minidrv.rs          sti.rs ◀────── STI service (LockDevice ...)
      │        lifecycle, locking,  flags, helper
      │        properties, acquire     │ lends
      │            │  IStiDevice lock  ▼
      │            └──────────────▶ session.rs   (one USB handle)
      │                                │ borrowed by
      ◀── callback, stream ── wia_transfer.rs ── bitmap.rs
                                       │ bands
                                    scan.rs ──▶ usb.rs ──▶ scanner
                                       ▲          ▲
            capture_scan, scan_stability        inquiry (main.rs)

  doctor (main.rs) ──▶ windows.rs ──▶ Plug and Play ◀── winusb_setup
```

### 1.1 Components

| Part | State it keeps | Operations | What is hard | What makes it correct |
|---|---|---|---|---|
| **USB session slot** `com_server/session.rs` | one tag (`Unlocked`, `Opening`, `Closing`, `Locked(T)`, `InUse`, `Quarantined`) behind a mutex | `open`, `unlock`, `with_session`, `status`; rollback guard and lease | opening, closing and using happen without the mutex; any of them fails or panics | one handle at most, none leaked or used after its drop, quarantine final, never Busy for ever |
| **Scan job** `scan.rs` | command-stream flag, reservation flag, band and summary, deadlines, the caller's cancel flag | INQUIRY, RESERVE, SET_WINDOW, START, READ / READ_IMAGE per band, consumer, ABORT, RELEASE | replies lost in the stream, Busy polling, cancellation inside a band, another owner's reservation, a failing consumer | commands only at a boundary of the stream and only as owner; delivered bands were drained; success is whole; the verdict on reusability is right |
| **STI device** `com_server/sti.rs` | `initialized`, `sti_locked`, the retained helper, last error; a session slot | `Initialize`, `LockDevice`, `UnLockDevice`, `Diagnostic`, scans, capability queries, final `Release` | every entry point is several critical sections; the slot answers between them | helper references balance; a locked device has its session; the handle outlives STI unlocks |
| **Transfer** `wia_transfer.rs`, `wia_callback.rs`, `bitmap.rs`, `com_stream.rs` | the BMP encoder, two marks (callback cancelled, output failed), progress | ask for a stream, announce, run the core with a sink, settle, finish, announce | four parties can fail or cancel: host, callback, stream, core | the BMP becomes valid last; the reported failure is the first cause; cancelled means reusable |
| **Minidriver lifecycle** `minidrv.rs`, `minidrv/locking.rs` | `Idle`, `Busy`, `Connected` (tree, helper, client count), `Failed` | initialize and uninitialize, lock, unlock, property callbacks, format enumeration | the connection is moved out while Windows is called; entries are concurrent and reentrant; cleanup runs in destructors | one owner of a Busy lifecycle, references and clients counted, own locks given back, `Failed` final |
| **Acquisition and cancel** `minidrv/acquire.rs`, `minidrv/cancel.rs` | the registered job: device and flag | `drvAcquireItemData`, the cancel event | a cancel event races completion, failure and the next job | an event before completion is honoured, one after it harmless |
| **Flatbed item** `minidrv/properties/*`, `wia.rs` | the service's property values and the attributes the driver derives | init, validate, read, delta publication | dependent values, rounding, values the service stored before the driver looks | the item can be scanned; advertised values are accepted; what was written is kept |
| **COM server** `com_server.rs` | module hold and lock counters, a count per object | factory, `CreateInstance`, `AddRef`, `Release`, `LockServer`, `DllCanUnloadNow` | several atomics moved one after the other; saturation | the unload counter covers everything alive |
| **Item tree** `minidrv/tree.rs` | the root item, and through it the flatbed child | create, close, drop | seven calls of Windows, any of which fails; the unwinding is the order of locals | unlinked before it is released, nothing half-built kept |
| **Wire** `protocol.rs`, pure parts of `scan.rs` | – | parse a capability reply, encode a window, decode a band | offsets in inches and hundredths, lines of three colours | what is asked for is what the scanner reads |
| **USB transport** `usb.rs` | file and WinUSB handle | enumerate, choose, open, write, read, drop | lists go stale, nine calls may fail after the first handle | the one scanner, or none; handles released in order |
| **Discovery** `windows.rs`, `main.rs` | – | list, status, service; exit code | the bus changes between any two reads | the exit code is a fact about one bus |
| **WinUSB setup** `examples/winusb_setup.rs` | the target and its driver entry | list, verify, search, install | what was checked is stale when it is used | installs on the one unbound scanner it was told to |
| **Capture tools** `examples/capture_scan.rs`, `examples/scan_stability.rs` | a directory of evidence | create, scan, store, mark | every file operation fails, a timer races the job | a marker stands for a whole scan |
| Formats, capabilities, error texts | static tables | one entry point each | – | tables agree with the headers and with the code |
| Trace log, installer scripts, build script | – | – | – | outside the driver's run time |

### 1.2 How the parts interact

* A host thread enters `minidrv` or `sti`; both live in one COM object, whose count
  and the module's are kept by `com_server`.
* An acquisition borrows the minidriver's connection (lifecycle `Busy`), registers
  with the cancel registry, and asks the STI object for the session; the slot lends
  the USB handle and takes back a verdict: reusable, or quarantined for good.
* The transfer runs the scan job with a sink that appends to the BMP and reports
  progress; the job calls it between reading a band and asking for the next one.
* Property callbacks take the STI lock through the retained `IStiDevice`, query the
  scanner over the same session, give the lock back, and then write into the
  service's item while the connection is still borrowed.
* The cancel event is the only entry that works during `Busy`: it goes through a
  mutex of its own to the flag the scan job polls.
* The capture tools run the same job over a USB session they open themselves; the
  inquiry command opens one for a single command. Both, and the STI device, choose the
  scanner by the same enumeration, while doctor and setup ask Plug and Play directly.

## 2. Modules

| Module | Models | Kind |
|---|---|---|
| `HandleContract` | what callers of the slot rely on | abstract specification |
| `SessionSlot` | `session.rs` | component; implements `HandleContract` |
| `ScanContract` | what one scan job promises to its caller | abstract specification |
| `ScanJob` | `scan.rs`, with an external scanner | component; implements `ScanContract` |
| `ScanJobProofs` | theorems about `ScanJob` | proofs |
| `StiDevice` | `sti.rs` | EXTENDS `SessionSlot`: the slot's steps are the device's steps |
| `StiEntries` | what every entry point of `sti.rs` answers and records | EXTENDS `StiDevice`, and implements it |
| `StiDeviceProofs` | theorems about `SessionSlot`, `StiDevice` and `StiEntries` | proofs |
| `BmpContract` | what the BMP encoder promises to its caller | abstract specification |
| `BmpEncoder` | `bitmap.rs` over the stream of `com_stream.rs` | component; implements `BmpContract` |
| `BmpEncoderProofs` | theorems about `BmpEncoder`, and that it implements `BmpContract` | proofs |
| `Transfer` | `wia_transfer.rs`, `wia_callback.rs` | EXTENDS `ScanContract` and `BmpContract`: job and encoder are any that keep them |
| `TransferProofs` | theorems about `Transfer` | proofs |
| `MiniDriver` | `minidrv.rs`, `locking.rs`, `acquire.rs`, `cancel.rs` | component |
| `DriverTree` | `tree.rs` under `minidrv.rs` | EXTENDS `MiniDriver`, and implements it |
| `MiniDriverProofs` | theorems about `MiniDriver` and `DriverTree` | proofs |
| `ModuleRefs` | the counters of `com_server.rs` | component |
| `ModuleRefsProofs` | theorems about `ModuleRefs` | proofs |
| `FlatbedItem` | `properties/validation.rs`, `validation_entry.rs`, `catalog.rs`, `native.rs`, `wia.rs` | pure functions with a small state machine around them |
| `FlatbedItemProofs` | theorems about `FlatbedItem` and its arithmetic | proofs |
| `ScanWire` | `protocol.rs`, window and band encoding of `scan.rs` | pure functions |
| `PnpBus` | Windows Plug and Play | external |
| `UsbTransport` | `usb.rs` | component over `PnpBus` |
| `Discovery` | `windows.rs`, the doctor of `main.rs` | component over `PnpBus` |
| `WinusbSetup` | `examples/winusb_setup.rs` | component over `PnpBus` |
| `CaptureTools` | `examples/capture_scan.rs`, `scan_stability.rs`, `scan_with_profile` | EXTENDS `UsbTransport`, `ScanContract`, `BmpContract`, `ScanWire` |
| `UsbPrograms` | each program alone against a changing bus | composes the four above |
| `UsbProgramsProofs` | theorems about `UsbPrograms` | proofs |
| `MC*` | constants for TLC | – |

Operators whose name begins with `Bug` are seeded faults: one plausible mistake each,
placed before the definition they spoil. They are used by no specification; putting
one in place of its original shows that the property it is meant for can fail.

### 2.1 SessionSlot

`slot` is the tag of `Connection`, `stored` the resource inside `Locked`, `lease[t]`
the resource caller `t` has on its stack, `live` what is open at the operating
system, `at[t]` the place between two critical sections. One action is one critical
section or one external call:

* `open`: `OpenClaims` → `OpenReturns` | `OpenFails` → `OpenPublishes`
* `unlock`: `UnlockTakes` → `UnlockDrops` | `UnlockDropPanics` → `UnlockPublishes`
* `with_session`: `SessionTakes` → `SessionReusable` | `SessionSpoiled` → `LeaseDrops`
* all early returns: `Refuse`

A reentrant call from inside an operation meets the same tag as a call of another
thread and returns at once, so threads stand for both.

### 2.2 ScanJob

`pc` is the stage. A command and its reply are one action (`Exchange`), because the
host thread is sequential and reads the outside (cancel flag, clock) only at
checkpoints, each of which begins an action. The environment moves between any two
actions: `HostCancels`, `DeadlinePasses`, `DrainDeadlinePasses`, `OtherOwner`. The
scanner is external: a Good reply means that it did what it was told, Busy that it did
not, an error or a lost reply leaves both open. `sync` is the code's own `synchronized`
flag; `pipe` is what that flag estimates, the units of earlier replies still to be read.

| Actions | Code |
|---|---|
| `Preflight` | `scan_in_session` |
| `Inquiry`, `Prepare`, `Reserve` | before ownership: ends without cleanup |
| `Window`, `Start`, `Meta`, `Fetch`, `ImageRead`, `ImageDone`, `Deliver`, `AfterConsumer` | the acquisition closure and `read_image_band` |
| `CleanupSkipped`, `Abort`, `Release` | `finish` and the verdict |

Data are abstracted to what the control looks at: a band is a length in units of one
transfer, a width and the final mark; pixels, framing bytes and geometry are not
represented.

### 2.3 StiDevice and StiEntries

`call[t]` is the entry point's progress, `at[t]` (from `SessionSlot`) the progress of
the slot operation it is inside. `refs[t]` counts references on the helper that caller
`t` passed to `Initialize`. `UsbSession`'s destructor does not panic; the model keeps
the slot's panicking branch, which only adds behaviours. `Diagnostic`, scans and
capability queries are the same operation: both flags, then a loan with a verdict.

`StiEntries` puts the answers around these steps. `entry[t]` is the entry point a caller is
in, `answer[t]` what it has decided to answer, `due[t]` how many records of it are still to
come, because the code records an answer in the device's last error in a critical section
after the one that decided it (`live_capabilities` once, `Diagnostic` once more;
`with_scan_session` not at all when it refuses). Every step of a call is a step of `StiDevice`
together with its bookkeeping: `LockTries`, say, is `LockOpens` or `LockOpened` with the
answer that follows. HRESULTs are told apart as far as callers do (`Codes`). Entry points that
change nothing but the last error (`GetCapabilities`, `GetStatus`, `DeviceReset`, `Escape`, raw
transfers, notifications) are `StatusEnters` and `UnsupportedEnters`. History variables follow
what one caller may rely on: `own[t]` the answer nobody else has recorded over, `granted` the
S_OK answers of `LockDevice` since the last unlock, `raced` whether lock calls overlapped.

### 2.4 Transfer

`stage` is where `transfer()` stands; the encoder is `BmpContract`'s `rows`, `poisoned` and
what the stream holds (`output`); `callbackCancelled` and `outputFailed` are the two locals the
sink sets. The core is not `ScanJob` again but the contract `ScanJob` was shown to
implement: it delivers any number of bands up to a bound and ends in any way the
contract permits. Everything shown here therefore holds for the real core. The same goes
for the encoder, whose contract `BmpEncoder` was shown to implement: `finish` may report
an error over a file the stream has taken completely.

### 2.5 BmpEncoder

`file` and `pos` are the stream, `width` … `bytes` and `poisoned` the fields of the encoder,
`stage` the method that runs. A method first decides what it will write (`HeaderPlan`,
`BandPlan`, `FinishPlan`) and then works off `plan`, one call of the stream per action:
`SeekCall` and `WriteCall`, which succeeds with any positive count or fails after any
number of bytes. `HeaderDone`, `BandDone` and `FinishDone` are the code behind the last
write. Bytes of rows and of the signature are cells of their own, so a short write can
tear them; a header field is one cell, and the fixed header bytes are left out. A pixel's
cell names its row, column and channel, so order, padding and the RGB-to-BGR swap are
what the code makes of them. `push` on a poisoned encoder changes nothing and is not an
action.

### 2.6 MiniDriver and DriverTree

`lifecycle` and `stored` are the enum, `held[t]` the connection a `Borrow` has moved
out, `at[t]` its stage. Taking, calling Windows, quarantining (release the resources,
then write `Failed`, then the destructor writes it again) and returning are separate
actions. `active` and `flag` are the cancel registry. External: `stiLock` (whose lock
the STI service holds), `refs` (references on the helper), `partial` (a publication
that failed half way). History: `clients` (sessions Windows opened), `notified`
(acquisitions a cancel event met). A call that is refused changes nothing and is not an
action. A connection without a helper differs only in that every lock fails, which the
model allows anyway; the entries that only borrow (`drvGetWiaFormatInfo`, a read
that needs no query) are the stage `returns`.

`MiniDriver` sees of the item tree only whether building and closing it succeeded.
`DriverTree` takes these outcomes apart. `step[t]` is where `Tree::create` or
`Tree::disconnect` stands, `roots` and `children` the references the driver has on items,
`attached` whether Windows' tree has the child in it. `CreatesRoot`, `CreatesChild`,
`AddsToFolder` and `Connects` build; `GivesUp` is the drop of a child that could not be
linked; `Unlinks` and `ReleasesRoot` are `disconnect`, called by `close()` of the last
session, by the drop of a half-built tree and by quarantine, of which only the first looks at
its result. A name that cannot be allocated is the failure before the item it is for. The
entry's own step in `MiniDriver` (`InitializeCreates`, `DisconnectCloses`, `Releases`)
happens with the last of these.

### 2.7 ModuleRefs

`holds` and `server_locks` are the module's atomics, `refs` the count in each object;
each atomic update is an action, so a call is interrupted between two of them. Factory
and instance follow the same protocol and are both an object. The limit `MaxCount`
stands for `u32::MAX` and is low enough to be met.

### 2.8 FlatbedItem and ScanWire

`Resolve` is the resolver of `validation.rs`, one operator per idea: `Agrees` is what the
request must not do, `Resolved` what is computed from it (`NewPosition` and `NewExtent` for an
axis), and the last gate is `Scannable` again. `Published` is the delta that reaches the item,
`Limits` the ranges advertised. The machine applies any
sequence of accepted requests. Contrast, brightness, compression and format are left
out: no other value depends on them. `ToRequest` is what `wia.rs` makes of the item and
`ScanWire` what `scan.rs` makes of that on the wire: an offset becomes inches and hundredths
of an inch, and the scanner must read the very position that the item shows.

`ScanWire` also has what a capability reply must be to be parsed (`Parses`), what of it a
request depends on (`Supported`, `Region`), and how the bytes of a band become pixels
(`Decode`); `Verified` is the stability tool's own, opposite way of checking the latter.

### 2.9 The USB programs

`PnpBus` is the world: a node is absent, without driver, bound and stopped, faulty, ready, or
another driver's, and `BusChanges` moves any node at any time. `quiet` remembers whether
something moved since the running program's last look (`Looks`); what a program concludes from
several reads can be held against one bus only while nothing did.

* `UsbTransport`: `usbAt` is the call that comes next, `listed` and `active` the snapshot of
  the device set, `seen` the interfaces whose detail has been read, `file` and `usb` the
  handles. Each call may fail; `UsbFails` unwinds what is open, `DropsSession` drops an open
  session, both in the order that fields and locals give (`DropOrder`).
* `Discovery`: a list or property is read in two calls, its size and then its content, and
  again if it grew (`SizesList`, `ReadsList`, `SizesService`, `ReadsService`), up to `MaxTries`
  times; `Readiness` and `Verdict` are the doctor's conclusions.
* `WinusbSetup`: `round` 1 chooses and verifies the target, round 2 lists the bus afresh and
  verifies it again; `Verifies` reads one property at a time. `Installs` is `DiInstallDevice`.
* `CaptureTools`: both tools, as they share their shape. The job is any that keeps
  `ScanContract`, the BMP any that keeps `BmpContract`; every file operation may fail, the
  timer sets the cancel flag at any time, another program may take the directory's name.
* `UsbPrograms`: one `program` runs against the bus. `AskOpens` … `AskAnswers` are the inquiry,
  and the open that the STI device asks for.

Left out: SetupAPI's buffers, the bytes of descriptors and paths (an endpoint list is a
sequence of records), argument syntax, what is printed.

## 3. Runs

| Run | Module | Distinct states | Bounds | Question |
|---|---|---|---|---|
| `session_slot` | `MCSessionSlot` | 8 203 | 3 callers, 2 handles | do three racing calls keep one handle, and the contract |
| `scan_job` | `MCScanJob` | 73 864 | bands of 1–2 transfers, 2 widths, 2 bands, 3 units | what is sent, delivered and claimed |
| `scan_job_early_cancel` | `MCScanJob` | violation | as above | ENG.md's reconnect rule without exception |
| `sti_device` | `MCStiEntries` | 458 482 | 2 callers, 1 handle | do racing entry points keep helper, lock, handle and last error |
| `sti_device_unlock` | `MCStiDevice` | violation | 2 callers, 2 handles | does an operation in flight keep the lock |
| `bmp_encoder` | `MCBmpEncoder` | 5 102 | bands of 0–4 pixels and 0–2 rows, limits of 6 bytes per row, 6 bytes and 4 bands | what does a file with a signature hold; is the contract kept |
| `transfer` | `MCTransfer` | 1 726 | 3 bands of 1–2 rows, heights 1, 3, 4 | when is the BMP valid, which failure is reported |
| `transfer_late_error` | `MCTransfer` | violation | as above | does every failure leave an incomplete BMP |
| `mini_driver` | `MCDriverTree` | 752 328 | 3 threads, 2 devices, 2 clients | who owns connection, lock, tree and flag |
| `module_refs` | `MCModuleRefs` | 4 236 | 3 threads, 2 objects, counters up to 4, 5 client references | does the unload counter cover what lives |
| `flatbed_item` | `MCFlatbedItem` | 3 346 | 3 resolutions (steps 3, 1, 3), bed of 82×2 pixels at the lowest | what is resolved, kept, advertised, refused and sent |
| `usb_programs` | `MCUsbPrograms` | 464 287 | 2 scanners and the printer half, 2 interfaces, 2 tries, 2 runs, 2 bands | what is opened, installed, reported and marked complete |

Why the bounds are enough for the interesting cases:

* Slot: a race needs the caller inside, the one that intrudes and the one that profits;
  a second handle exists so that an exclusive claim can be broken.
* Job: two bands separate the first (whose wait ignores cancellation) from a later one;
  a band of two transfers can be cut in the middle; three units and two bands make the
  size limit and the count limit bite separately; two widths make a job change width.
* STI device: two callers are the two sides of each check-then-act, and of one caller's
  answer that another records over; the slot's own three-way races, and those for a second
  handle, are covered by its own run.
* Encoder: widths 1, 2 and 4 give rows with and without padding in both modes; the byte
  limit is met by bands of one row and by bands of two, before and after the band limit;
  width 0, rows 0, a wrong mode, a wrong length and a change of width are among the inputs,
  and a resolution of 0 and one too large for the header. The file limit is the smallest
  that `FileFitsAssumption` allows. `MaxInt` bounds the pixels per metre and, as in the
  code, never the height, which the byte limit bounds first.
* Transfer: the heights lie below, at and above the rows the bands deliver.
* Minidriver: one thread owns, one intrudes, one notifies; two devices separate a cancel
  event for this device from one for another; two clients put the counter at its limit.
  One tree exists at a time, so its calls need no bound of their own.
* Module: the limit is met both by references of one object and by holds of all.
* Flatbed: the resolutions have offset steps of 1 and of 3 pixels, so that snapping
  rounds both up and down, and the bed is not a multiple of a step. The bed is a little wider
  than one inch, so that both parts of an offset on the wire are used.
* USB programs: two scanners make a choice ambiguous, the printer half is the interface that
  must not be opened; one node has every state, the others those that make lists differ. Each
  limit (interfaces, tries, devices, candidates) is low enough to be met. The endpoint lists
  break one rule each; the bands have both line orders, one and three channels, and bytes to
  spare. Two runs are the least in which a run follows a run.

Deadlock is checked for the slot, the module counters and the flatbed item, which can
always go on. It is not checked where the system really stops: a job that has
returned, a transfer that is done, an encoder that is closed, a COM object that has been destroyed, and a
minidriver whose lifecycle has failed (every later call is refused), and a program
that has ended while its bus came to rest.

### 3.1 Fairness

Only what the code itself schedules is fair; nobody is ever obliged to call.

* Slot, STI device, minidriver: a call that has started runs on (`WF` on the caller's own
  steps, each caller separately; with `StiEntries` and `DriverTree`, on the steps around them). External calls inside it return: USB transfers time
  out after 5 s, a scan ends (`JobReturns`), `LockDevice` is called with a timeout.
* Scan job: the job's thread runs, and time passes (both deadlines). The host need not
  cancel, and another owner need not give the scanner back: `JobReturns` holds even if
  every reply is Busy for ever, because the deadline is read at each checkpoint.
* Module counters: a started `Release` or `LockServer` finishes.
* USB programs: the running program makes its next call. The bus is not fair: it may change
  for ever or never, and `ProgramsEnd` holds because every repetition is counted.

### 3.2 Where code and documents disagree

* `scan_job_early_cancel`. `ENG.md:59` promises that a cancellation pending while the
  first band's metadata fails always requires a reconnect. The flag behind that rule
  (`scan.rs:1196`) is set when the *wait* fails; metadata that arrives but cannot be used
  (`scan.rs:1205–1220`) ends in a session that is `Ready` after Good replies to ABORT
  and RELEASE, with the first image never drained. `CancelledFirstWait` states the rule
  with that exception, and holds.
* `sti_device_unlock`. The comment at `sti.rs:999` says that an operation in flight keeps
  the lock. `UnLockDevice` reads the slot's status in one critical section and clears
  the flag in another; an operation that starts in between runs on with the lock
  cleared.
* `transfer_late_error`. `ENG.md:151` says that no failure completes the BMP. The last
  status message is sent after `finish`; if it fails, the driver reports an error over a
  complete file. (A `finish` that fails after the stream took the signature does so too,
  but `com_stream.rs` and `bitmap.rs` document that case, and the run excuses it.) `CommitAfterCleanup` states what does hold: a complete file is always
  one of a whole image and a released scanner.

## 4. Proofs

Eight modules prove, for every value of the constants, the safety properties that the runs
check on small instances - every invariant of a passing run is a theorem - and the
refinements: slot, job and encoder implement their contracts, the entry points implement the
device, and the item tree the minidriver. The assumptions are the named `ASSUME`s of the
modules: marker values differ from real callers, handles, objects, nodes and connections;
band sizes, widths, rows and heights are positive naturals, and a band comes with the bytes
it describes; limits are naturals; a bus has finitely many nodes; the resolutions are among
the six the core knows, and the initial item can be scanned, without which the driver creates
none. No theorem assumes a bound, and none assumes that the sets of callers, objects or
requests are finite. Two theorems about the flatbed item have a hypothesis of their own
(`BedIsAddressable`, below).

Each module has an inductive invariant, a conjunction of named parts, that contains the
type invariant; there is one proof step per action. The type invariants are established by
their theorems only, and so are `SyncIsSound` of the job, `QuarantineIsFinal` of the slot
and `FailedIsFinal` of the minidriver; the runs spend their time on the other properties. A
property that is the conjunction of two has a theorem for each and one for both.

| Module | Invariant | Theorems |
|---|---|---|
| `ScanJobProofs` | `JobInv` | `JobTypeCorrect`, `SyncFlagIsSound`, `ReadyIsReusable`, `SuccessIsWhole`, `CommandsAreAtBoundaries`, `CommandsAreOwned`, `CommandsAreAllowed`, `DeliveriesAreDrained`, `CancelDrains`, `JobImplementsContract` |
| `StiDeviceProofs` | `SlotInv` | `SlotTypeCorrect`, `HandleIsExclusive`, `HandlesAreAccounted`, `HandlesAreKept`, `QuarantineStays`, `SlotImplementsContract` |
| | `StiInv` | `StiTypeCorrect`, `HelperStaysBalanced`, `LockImpliesSession`, `FlagsStayTrue`, `HandleStaysOpen`, `DeviceHandleExclusive` |
| | `EntryInv`, `OwnInv`, `HolderInv` | `EntriesImplementDevice`, `EntryTypeCorrect`, `LastErrorStaysOwn`, `LockKeepsOneHolder`, `EntriesKeepDevice` |
| `BmpEncoderProofs` | `EncoderInv` | `EncoderTypeCorrect`, `AcceptedSizesFit` |
| | `FileInv` | `FileStaysAsPromised`, `EncoderImplementsContract` |
| `TransferProofs` | `TransferInv` | `TransferTypeCorrect`, `CommitsAfterCleanup`, `VerdictCorrect`, `ProgressHonest`, `RefusalIsLast` |
| `MiniDriverProofs` | `DriverInv` | `DriverTypeCorrect`, `BusyHasOneOwner`, `SessionsStayCounted`, `OwnLockReturns`, `PartialIsNeverScanned`, `CancelIsAnswered`, `ServiceLockStays`, `LocksAreGivenBack`, `ConnectionIsAccounted`, `FailureIsFinal` |
| | `TreeInv` | `TreeImplementsDriver`, `TreeTypeCorrect`, `TreesAreUnwound`, `ConnectionStaysWhole` |
| `FlatbedItemProofs` | `ItemInv` | `ItemStaysScannable`, `OffersStayHonest`, `WritesAreKept`, `SelectionStaysKept` |
| `ModuleRefsProofs` | `RefsInv` | `RefsTypeCorrect`, `HoldsCoverEverything`, `OwnedStaysAlive`, `CountsCoverUse` |
| `UsbProgramsProofs` | `TransportInv` | `NoHandleOutlivesItsProgram`, `OpenedIsTheScanner`, `EvidenceIsItsOwn` |
| | `SetupInv`, `DocInv`, `CaptureInv` | `OnlyTheNamedIsInstalled`, `DoctorIsRight`, `MarkerIsEvidence` |

**Slot.** `SlotInv` = `SlotTypeOK` ∧ `TagInv` ∧ `ActorInv` ∧ `HandleInv`. The tag alone
does not say why a handle is exclusive. `TagInv` gives the tag that each point of a
call implies; `ActorInv` says that at most one call is past its claim, and that a
transient tag has such a call behind it, so the tag is a lock; `HandleInv` says who has
the handle at each point - the slot while it is Locked, the call otherwise - and that it
is then the only one open. The refinement of `HandleContract` maps the tag to a phase and
the one active caller to the holder; a step that is no critical section of the tag is a
stutter.

**Job.** `JobInv` = `TypeOK` ∧ `StreamInv` ∧ `DeviceInv` ∧ `ImageInv` ∧ `CancelInv`.
`ReadyMeansReusable` is not inductive: that nothing is acquired or reserved after a Good
RELEASE depends on whether ABORT was sent and answered, on whether the final band was read
to its end, and on `sync` at each stage. `StreamInv` says what the pipe can hold at each
stage (in `Image`, exactly what the band has left; nothing while `sync` is up).
`DeviceInv` says whether the scanner is ours and acquiring. `ImageInv` counts drained
against delivered bands and says which failures each stage excludes. `CancelInv` says that
a remembered host cancellation was one. The refinement of `ScanContract` takes the
accepted bands as `delivered`.

**STI device.** Every step is a step of the slot or leaves the slot alone, so `SlotInv`
is inherited (`NextKeepsSlotPart`). `HelperInv` needs that a helper exists only once
`initialized` is set. `PathInv` says which entry point a caller inside the slot came
from: only the final Release, when nobody else is inside, unlocks it. From that,
`OpenedStays` - an opened session is never closed before - carries `LockInv` through the
gap between seeing the session open and setting the lock.

**Entry points.** Every step of `StiEntries` is one of `StiDevice` or leaves the device alone
(`EntryStepIsDeviceStep`), so `StiInv` and all that follows from it holds under them. `EntryInv`
says where in the device a call of each entry point can stand. `OwnInv` is why nobody is
misled: as long as nobody else has recorded, what the device remembers is what the caller was
told; the one call that returns without a record of its own, `Initialize` after its open, has
recorded before, and its step is only taken while that record stands. `HolderInv` is why the
lock has one holder although flag and session are looked at in different critical sections:
while lock calls are serialised, the flag each of them saw is still what it was.

**Transfer.** `CoreInv` is what the job's contract has said at each stage, `SinkInv` that
the core knows of every refusal, `OutputInv` what the stream holds. Progress is honest
because the last percentage sent is at most that of the rows now there, which grows with
them (`PercentGrows`, a fact about integer division by any height).

**Encoder.** `EncoderInv` = `TypeOK` ∧ `CounterInv` ∧ `BandInv`: the byte counter is the
unpadded row times the height, and a band under way has passed the limits. A padded row is at
most four times the row, so the limit on pixel bytes bounds the file size; the assumption
`FileFitsAssumption` is the arithmetic of the code's constants (4·2²⁸ + 1078 < 2³²).

What the file holds needs `FileInv`, because the stream splits the writes of a plan as it
likes, may fail in the middle of any of them, and the next method goes on where the file then
ends. A plan is laid out over the file: `Placed` gives each write the offset at which it will
start, and `Lays` the cell that will land at an index. While `push()` works off its plan, each
cell it is still to write belongs where it will land (`Belongs`: past the header, the pixel
with that row, column and channel, or padding; in the header, no signature), and what is
written already is in place (`InPlace`), after a failure too. `finish()` touches four fields
of the header only, and the signature is the last: `Reached` says which of them are filled
before each of its seeks and writes. So a file either has no signature or has every field and
all its rows (`Ordered`, `OrderedIsWhole`), which is `FileIsAsPromised`. That the cells of a
converted band are the pixels of its rows, padded and swapped, is a lemma about the indices
of nested sequences (`ConvertedIs`, `BandPlanIs`), for any width, mode and number of rows.

The refinement of `BmpContract` maps the file to what a reader would find there. A write that
fails and a band that is refused are `BmpRefuse`, a write of the header or of a row `BmpTouch`,
the end of a band `BmpAppend`; the write that completes the signature is `BmpCommit`, whether or
not the stream then answers with an error; all else is a stutter.

**Flatbed item.** `ItemInv` says that the item is scannable and that its ranges are those of
its values. It is inductive because the last gate of `resolve` is `Scannable` and the delta
leaves exactly what was resolved (`PublishedIsResolved`: its baseline is what the service
holds, so a value it stored and `resolve` snapped back to the old one is written again).
`ItemIsScannable` adds the arithmetic of the wire: at each of the six resolutions a multiple
of the offset step is a whole number of hundredths of an inch, and whole inches and hundredths
put together again are the position. `OffersAreHonest` rests on `SoundIsResolved`: a request
that is sound in what it says - resolutions, mode, and each written range on its axis - always
passes the last gate, because a dependent position is rounded to a step and an extent shrunk
to what is left (`AxisSettles`). A refusal is therefore a contradiction, and a single advertised
value is never one. `SelectionIsKept` needs in addition what the scaling does twice: going to a
higher resolution and back is exact, but from 100 to 150 dpi, where the higher resolution has the
coarser step (1/50 inch against 1/100); there one trip settles it.

`OffersStayHonest` and `SelectionStaysKept` assume `BedIsAddressable`, that the bed is at most
256 inches long and wide. A capability reply may claim more, as its fields are 32 bits wide,
and then the driver would advertise positions that an offset - one byte of whole inches - cannot
name, and refuse them when they are written; the scanner's own bed is 8.5 by 11.7 inches
(`docs/hardware.md:239`).
`ItemStaysScannable` and `WritesAreKept` hold without the assumption.

**Minidriver.** `OwnerInv` says that Busy is exactly one working call's and that the
connection is in the enum or with that call. Everything else uses it: `CountedInv` follows the client counter
through the move; `OuterInv` says that a lock or partial write that is left over has
its call in quarantine or the lifecycle failed; `RegistryInv` says that the registry is
the acquiring call, and that its flag is exactly the cancel events it has met.

**Item tree.** Its calls leave the minidriver's state alone until the last one, which is the
minidriver's own step (`TreeStepIsDriverStep`), so `DriverInv` is inherited. With it, at most
one call is at work (`WorkingAlone`), and `TreeRefsInv` can say where the references are: one
on the root while there is a connection, somewhere, or a half-built tree; one on the child
between its creation and the end of `create`. `AttachedInv` says who may have a child in its
tree, and that a child that is left over was one Windows refused to unlink.

**Module counters.** `ObjectInv` says that an object's count is the references its clients
own or the limit, and that a dying object has no client and one destroyer; then each
action changes both sides of `HoldsCover` alike, by the library's facts about adding an
element to a finite set and removing one.

**USB programs.** `TransportInv` says which handles there are at each call of the transport
(`FileInv`), at which of them each program can be (`StageInv`), and what a snapshot has settled
when the bus may have changed since (`ChoiceInv`): the file that is open is one whose identity
was read, and only on a bus that is quiet does the snapshot equal it. The other invariants are
of one program each and have the same two halves: what holds whatever the bus does, and what a
quiet bus adds. `SetupInv` needs that the target of an install was compared in both rounds;
`DocInv` that listed, located and read nodes together are the list. `CaptureInv` says how far
encoder, count, raster and job agree at each stage; that the check of a band never fails is
`DecodedIsVerified`: decoder and check index the same byte, one by division, one by product.

Only model-checked: liveness (`TransientResolves`, `CancelledFirstWait`, `JobReturns`,
`CallsReturn`, `BusyResolves`, `UnownedDies`, `ProgramsEnd`), which needs `ENABLED` and is out
of the prover's reach.

## 5. Plan

Done, in this order: slot and its contract; job and its contract; their proofs; STI device;
transfer; minidriver; module counters; flatbed item; the proofs of all of these but the last;
encoder and its contract, with the transfer over it; the wire; the USB programs; the entry
points of the STI device and the item tree, with their proofs; the proofs of the USB programs;
the flatbed item's proofs; the encoder's file and its contract.

Next, proofs:

1. `ScanWire`: that a band that is decoded passes the opposite check of the stability tool is
   proved (`DecodedIsVerified`); that the geometry of a window and the rows of its bands agree
   is not yet stated.
2. The composition of `Transfer` with the contracts' implementations: job and encoder each
   implement theirs, and `Transfer` uses the contracts' actions; a theorem could say so of the
   three together.

Next, modelling:

1. Composition of `DriverTree` with `StiEntries`: the helper's lock is the STI device's lock.
   What `MiniDriver` takes for granted of it - a lock that is granted was free - is what
   `LockKeepsOneHolder` shows, as long as the STI service serialises the calls.
2. `init_entry`, `read_entry` and the root item.

### 5.1 Not modelled

* Error vocabulary, capability and event tables, formats, property tables: static data behind
  stateless entries, compared with the headers by unit tests.
* COM identity and aggregation: which interface pointer answers for which is pointer layout,
  without a state that changes after construction.
* Pixel tone, the scanner's framing bytes beyond those named, `PROPVARIANT` layout: pure data.
* `scan/hardware.rs` and `locking/hardware.rs`: tests that need a scanner.
* Trace log, installer scripts and INF files, build script: nothing the driver reads.
