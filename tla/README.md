# A formal model of NWinfo

NWinfo reports hardware information on Windows. `nwinfo.exe` prints one report;
`gnwinfo.exe` keeps a window up to date with a second thread. Both use `libnw`,
which talks to devices through kernel drivers (`ioctl/`) and through the SMBus, a
bus that any number of programs share. This directory holds TLA+ modules of the
parts in which order, ownership and failure matter, the TLC configurations that
check them on small instances, and proofs checked by TLAPS that hold for every
value of the constants.

Contents: [1 the system](#1-the-system), [2 the modules](#2-the-modules),
[3 the runs](#3-the-runs), [4 disagreements](#4-where-the-code-disagrees),
[5 proofs](#5-proofs), [6 limits](#6-what-is-not-modelled),
[7 plan](#7-plan).

## 1 The system

| Component | State it keeps | Operations | What is hard about it |
|---|---|---|---|
| **gnwinfo core** (`gnwinfo/context.c`, `gnwinfo.c`, `systray.c`, `summary.c`) | node trees of `g_ctx`, `update_mask`, two events, an SRW lock, `init_done`, `exit_pending` | `gnwinfo_ctx_init/update/exit`, the update thread, seven handlers, the message loop, frames, tray menu | two threads replace, read and free the same trees; wake-ups; exit while an update is under way; message loops nested in a frame that holds the lock |
| other windows (`gnwinfo/*.c`) | settings, the disk selected | drawing | the SMART window uses libcdi on the UI thread |
| **SMBus memory access** (`libnw/smbus/smbus.c`, `libnw/spd.c`) | the page and address it remembers, the page every device shows | `SM_GetSpd`, `NWL_GetMemSensors`, page selection | several processes, a mutex whose timeout is ignored, a cache nobody updates, processes that end in between |
| **Intel i801 host** (`smbus_i801.c`) | host status, semaphore, command and data registers | `I801Xfer` and its steps | shared registers, bounded waits, a kill that races an answer, state left by a process that ended |
| **AMD PIIX4 host** (`smbus_piix4.c`) | the same without a semaphore | `PIIX4SimpleTransaction` | only the mutex keeps users apart; a command given up is neither aborted nor cleared |
| **Named mutexes** (`ioctl/mutexes.c`) | three system-wide mutexes (PCI, SMBus, ISA bus) | wait with timeout, release | the result of the wait is ignored by nearly every caller |
| **Driver layer** (`ioctl/ioctl.c`, `pawnio.c`, ...) | service, device handle, type of driver | install, open, fall back, uninstall; accesses through register pairs | races with other processes, partial failure, processes that die with a driver installed |
| **Ryzen SMU** (`ioctl/ryzen_smu.c`) | mailbox registers behind an index/data pair | command, poll, answer | late answers, commands left behind, users without the mutex |
| **Super-I/O** (`libnw/lpc/`) | configuration mode, selected device and slot of a chip | `NWL_InitLpc`, four detectors | a chip keeps its mode when a process ends; four drivers try the same ports |
| **Sensor registry** (`libnw/sensors.c`, `libnw/sensor/`) | `enabled` per provider, a static context per provider | init, get, fini of twelve providers | partial failure, arrays that must follow devices |
| **libnw context** (`libnw/libnw.c`) | `NWLIB_CONTEXT`: pointers many collectors create on demand | `NW_Init`, `NW_Print`, `NW_Fini`, the collectors | who creates and who frees a shared resource; who overwrites an option |
| **Disks** (`libnw/disk.c`) | drive list, libcdi's table | `NWL_GetDriveCount`, `NWL_GetDriveInfoList`, `NW_Disk` | devices come and go between two calls |
| **GPU** (`libnw/gpu.c`, `libnw/gpu/`) | list of adapters, one static pointer per driver | init, get, free; five drivers | several interfaces report one adapter; libraries fail; contexts outlive the list |
| **Network** (`libnw/network.c`), audio, battery | adapter map | init, refresh, free | replaced while others use it |
| **Node tree and formats** (`node.c`, `libinfo.c`, `format.c`, `utils.c`) | a tree, an error log, a fixed buffer per escaped text | append, attributes, lists, export | nesting and commas, secrets set twice, texts cut at the end of a buffer |
| **CPU and MSR** (`cpu/`) | none | decode | which reads take the mutex |
| **Name database** (`ids/`) | none | six lookups | where one entry's lines end and the next one's begin |
| **Command line** (`nwinfo.c`) | options stored into the context | parse, run, give back | options that meet each other or the defaults |
| firmware tables, devices and OS | none | decode | sequential |
| libcdi, liblhm, libcpuid, nuklear, stb | | | third-party code |

Components in bold are modelled, at least in part; `PROJECT.json` lists all of
them with their source files and what each model leaves out.

How they interact. The GUI thread asks for updates by setting a bit and an event;
the update thread runs handlers that call collectors of libnw; collectors and sensor
providers share the pointers of `NWLIB_CONTEXT`; the SPD collector and the DIMM
provider use the SMBus through `smbus_t`, whose host driver reads and writes ports
through the kernel driver, under the mutex `Access_SMBUS`. The ZEN provider, the CPU
collector and the SMU mailbox read the system management network through a PCI register pair,
under `Access_PCI` or without it; the Super-I/O detectors share two port pairs under
`Access_ISABUS`. Other processes use the same buses, mutexes and devices. `nwinfo.c` sets
options in the context, `NW_Print` runs the collectors, and what they append to the
tree is printed at the end.

What makes them correct:

* gnwinfo: every tree has exactly one owner and is freed once; a frame sees
  trees that stay; no request is lost; loading ends; exit waits for the update
  thread, serves what was asked and terminates, unless memory runs out; the toolbar is hidden while its
  data is being replaced.
* SMBus access: a byte comes from the page it was asked for, whatever ends or fails, unless a process without the mutex pages in between; a module is taken for
  what it is, page selections write to page registers only, the bus is left at page 0.
* SMBus hosts: the data collected answers the command of the same process, nobody's
  command is killed by another, nothing left in the host blocks the bus.
* Drivers: a service is deleted only by the process that created it, nothing stays behind
  without somebody who will remove it, and whatever an earlier process left, the next gets
  a driver.
* SMN and SMU: a process reads the register it selected, and the answer to its own command; the
  mailbox goes on answering.
* Super-I/O: every chip that is there is found at its address, by its own driver, and
  closed again.
* Sensors and context: each shared resource is created once and freed once,
  counts, lists and arrays agree, and a provider is read only when it is set up.
* GPU: every adapter is listed once, its readings are its own, and the drivers' contexts
  live as long as the list.
* Report: the tree, its lists and the error log hold exactly what was told, what was told as
  a secret is masked; what is printed is well-formed and reads back as what was told; an escaped text fits its buffer and is never cut inside an escape.
* Command line: what was asked for is reported, once, in a fixed order, with the settings
  asked for.
* Names: an identifier is found under its own parent or not at all.

## 2 The modules

Each module comment says what it leaves out; `map` in `PROJECT.json` names the
source lines of every definition.

**`GuiUpdate`** (with **`UpdateQueue`**, **`MCGuiUpdate`**, **`GuiUpdateProofs`**).
`ui` is where the UI thread is: `init` (`gnwinfo_ctx_init`), `pump` (the message
loop of `wWinMain`), `frame` (`nk_input_begin` to `_end`), `draw`/`drawn` (a frame,
under the lock), `dialog` (a modal loop inside a frame), then the steps of
`gnwinfo_ctx_exit`. `PostRequest` and `SignalWorker` are the two halves of
`gnwinfo_ctx_update`: `InterlockedOr`, then `SetEvent`. `worker` is where the update
thread is; `TakeMask` is the `InterlockedExchange` that takes all bits, `todo` what
is left of them, and a handler goes through `hpc`: read flags, reset `init_done`,
gather without the lock, acquire, swap, (store the GPU list), free the old tree. A
tree is a heap address; `Malloc` may return an address that was freed before, so
use after free and double free show up as two owners. `MayFail` lets the creation of the
thread or its events fail; then `Threaded` is false from the start and
`gnwinfo_ctx_update` runs the handlers itself (`context.c:260`). `WaitsForItself` is the state in
which it does so inside a frame, on the thread that already holds the SRW lock.
A handler that cannot allocate its tree ends in `NWL_ErrExit`: `ErrorBox` shows the message box of
`gnwinfo_ctx_error_callback`, and `AnswerBox` ends the process once the box is answered. The box of the update
thread has a window of the UI thread for an owner, so it needs that thread to take messages; `WaitsForBox`
is the state in which the exit waits for the update thread and the box for the exit.
`UpdateQueue` is what the rest of the program may assume of all this: requests form
a set, batches are served one after the other, the server ends only when told to
and with nothing left. `Queue` in `GuiUpdate` is the refinement mapping.

**`SpdPaging`** (with **`MCSpdModules`**, **`MCSpdPaging`**, **`SpdPagingProofs`**, **`NwinfoProofs`**). One step is one SMBus transaction, or a selection that was skipped.
`proc[p]` is the state of one process: its place in `SM_GetSpd`,
`NWL_GetMemSensors` or `ParseSpd`, and its `smbus_context` (`page`, `addr`), which
survives from one operation to the next. `page4` and `reg11` are in the devices and
survive the processes. `Restart` is a process that ends anywhere and starts again;
`Outcome` lets a transaction fail. The constants say what is plugged in: DDR4 (all
devices change page together), DDR5 hubs (each has a page register), older
modules without pages, empty slots. `Wait` takes the mutex or, when it is somebody else's, gives up and goes
on without it, as the code does; `MaxTimeouts` bounds how often. Two history variables tell what that does:
`late` are the processes that gave up, and `disturbed` those about to read for whom another process has just
selected another page, one of the two being outside the mutex (`Outside`: late, or `ParseSpd` asking for a
temperature). `MCSpdModules` has the boards and what the processes do on them; `MCSpdPaging` puts two boards side by side, the one the
configuration names and one with DDR5 modules.

**`I801Host`** (with **`MCSmbusHosts`**, **`SmbusHostProofs`**). The inside of one such transaction on an Intel
host: the actions are the functions of `smbus_i801.c` in the order `I801Xfer` calls
them. A read of `HSTSTS` sets the semaphore `INUSE_STS`, so every action that polls
sets it. Registers are known by the process that wrote them. `Finish` is the host
controller. Bounded waits may give up at any iteration.

**`Piix4Host`** (with **`MCSmbusHosts`**, **`SmbusHostProofs`**). The same for AMD:
`Check`, `Recheck`, `Setup`, `Start`, `Poll` and `Collect` are the parts of
`PIIX4SimpleTransaction`. There is no semaphore and no kill; a wait that gave up leaves the
command running and error flags set, and the next user's check clears them. Waits for
`Access_SMBUS` may time out here: `disturbed` is the set of processes whose session somebody
overlapped, for which nothing is promised.

**`DriverLifecycle`** (with **`MCNwinfo`**, **`DriverLifecycleProofs`**). One action per system
call of `WR0_OpenDriver` and `WR0_CloseDriver`: open the device, create or open the
service, start it, open again, fall back; on the way out close, stop, delete. `svc`, `dev`
and `pawnio` are Windows' (a deleted service stays while somebody holds it; a driver stopped while open
ends with its last handle), `device`, `sch` and `installed` the process's. `Init`
has no service and no running driver, and PawnIO set up or not; what a service's earlier user leaves behind is
what a process of the model leaves that ends or gives up before another begins. `beside` and `blocked` say which driver files are
there and which drivers Windows refuses, `library` that the library of PawnIO is there although its device is not:
`WR0_CheckPawnIO` takes either for a PawnIO that is installed (`pawnio.c:22-31`). `excused` are drivers for which a process died, gave up on
one it had installed, or started a service that was not its own: the code has no
provision for those.

**`SmuMailbox`** (with **`MCRegisters`**, **`RegisterProofs`**). A read is `Select` and
`Read`, two PCI accesses; `WR0_SendSmuCmd` is wait for a response, clear it, write
arguments and command, poll, read back, each step through the same register pair. Arguments,
commands and answers are known by who wrote them for which command. The readers without
the mutex (`smn_init` of the ZEN provider, the IMC provider) and a wait that times out are actions
too; whom they overlap is `disturbed`.

**`SuperIo`** (with **`MCSuperIo`**, **`MCRegisters`**, **`RegisterProofs`**). Per process and slot: `Detect` is one
driver's turn at one slot, step by step as far as chips can tell: enter, read the id, select
the monitor, read its base address twice, unlock, exit. The ITE driver selects the general-purpose i/o before
it exits and reads that base address twice as well (`SelectGpio`, `ReadGpio`, `VerifyGpio`), and refuses the
chip unless both are steady and plausible (`Verified`). A chip keeps its mode and
selected device. The constants are the chips that may be fitted, known or not, each address of
which is steady or not, plausible or not.

**`ReportTree`** (with **`ReportPrint`**, **`MCReport`**, **`MCNwinfo`**, **`ReportProofs`**). Collectors append
nodes, set attributes, lists and sensitive values, build tables and log errors (the functions of
`node.c`), and `NW_Print` chooses the format. Nobody but `NWL_EnumerateDevices` asks whether a node has a
child of a name already, so groups of one name may be many (`AppendGroup`; the sensors of HWiNFO, for instance). `told` is what was told, kept beside the tree;
lists and the error log are multistrings, character by character, as their functions search for two NULs.
`ReportPrint` has the JSON, Lua and YAML printers of the finished tree. JSON and Lua are token streams,
read back by a recursive reader that keeps members of one name apart (the n-th of its name); YAML is lines with columns. It is a module of its own because of that
recursion, which `ReportProofs` must not reach.

**`TextEscape`** (with **`MCReport`**, **`MCNwinfo`**, **`ReportProofs`**). The loop of the five escape
functions of `format.c`, one character a step, with their tables and the room each
wants before a character; `ReadBack` is how the format's readers would read the buffer.

**`GpuDrivers`** (with **`MCNwinfoParts`**, **`MCNwinfo`**, **`NwinfoProofs`**). `NWL_InitGpu`, `NWL_GetGpuInfo`, `NWL_FreeGpu` and the
five drivers' init, get and free in their order. `data[d]` is a driver's static pointer, `info`
the list. A library may fail, an adapter may appear between two lists. `cut` says that the
list was full before the last driver.

**`CommandLine`** (with **`MCNwinfoParts`**, **`MCNwinfo`**, **`NwinfoProofs`**). `main`: one action per option read, then `NW_Init`,
the collectors in the order of `NW_Print`, the export, and both ways out. `--output` and `--driver` store an empty
argument too: no file has that name and no driver. `held` are strings
allocated and not given back.

**`IdsLookup`** (with **`MCReport`**, **`MCNwinfo`**, **`ReportProofs`**). The loops of `ids.c`, one line of
a file a step, with the tables of what ends them; the property compares with the tree the
tabs draw.

**`SensorRegistry`** (with **`MCSensorRegistry`**, **`SensorRegistryProofs`**). One thread calls the library:
`Collect*` are collectors that create a shared pointer when they find NULL, `Init*`
and `Get*` are the functions of the providers in the order of `sensor_list`, `Fini` is
`NW_Fini`. `live[r]` counts allocations not freed, so a leak and a double free are
both visible; `Owned(r)` is what still points to them. `GetDiskIo` and `Relist` are
two steps because the number of disks and their list are two questions to Windows, and
`Plug` may come in between. `host` is what `NW_Init` found and never changes.

### Boundaries between the modules

`SpdPaging` takes a transaction as atomic and the mutex as given; `I801Host` shows
what the first of these rests on: with the mutex held, `OwnAnswer` and `OwnCommand`
hold, so a transaction is answered as if nobody else were there. `GuiUpdate` treats
a collector as one allocation; `SensorRegistry` looks at what collectors
share. The GPU list occurs in both: in `GuiUpdate` as a tree stored without
the lock, in `SensorRegistry` as a resource several users create, in `GpuDrivers` as a list with drivers behind it.
`SensorRegistry` has what providers hold of libnw, `SmuMailbox` and `SuperIo` what two of them do
to registers when they are set up or read. `CommandLine` takes a collector as what it reads of
the settings, `ReportTree` as what it tells; `TextEscape` is what `ReportTree` does to
one text.

The parts of `MCNwinfo`, `MCRegisters` and `MCSmbusHosts` share no state (`nwinfo` takes them in
turn, a machine has one SMBus host), so these modules let a behaviour be one of one part
and freeze the others in one initial state: the product would add no behaviour of any part.
`MCNwinfoParts` and `MCReport` give two and three of them names of their own, so that the proofs speak of the
very properties the run checks and know nothing of the other parts, nor of their recursive readers.

## 3 The runs

| Run | Instance | Distinct states | Shows |
|---|---|---|---|
| `gui_display` | jobs 1M and DISPLAY, 5 addresses, with and without the thread | 675,066 | `HeapOwned`, `LockedMenuSafe`, `DrawSeesStableTrees` |
| `gui_sensors` | jobs 1S and SPD, 6 addresses | 484,082 | `NoLostWakeup`, `ToolbarHidden`, `ExitServesAll`, the refinement `ImplementsQueue` |
| `gui_live` | jobs DISK and SMB, 4 addresses, fairness | 84,994 | `RequestServed`, `LoadingEnds`, `ExitTerminates` |
| `spd` | 2 processes; 3 slots (2 DDR4, 1 empty), 2 crashes and 2 waits given up, or 1 fault; or 2 DDR5 hubs, 5 pages, 1 crash | 1,653,684 | `RightPage`, `Recognised`, `HubsRecognised`, `PagesRestored`, `OnlyHubsWritten` |
| `smbus_hosts` | 3 processes, 2 crashes, either host, fairness | 425,878 | `OwnAnswer`, `OwnCommand`, `OwnTransaction`, `BusesRecover` |
| `registers` | 2 processes, 1 crash; 2 registers and 2 commands, or 2 slots with any chips | 2,043,605 | `OwnRegister`, `OwnAnswer`, `OwnCommand`, `MailboxAlive`, `FoundWhatIsThere`, `ConfigurationClosed` |
| `nwinfo` | 2 processes, 3 drivers, 1 crash; or 4 calls on a tree; or texts of 3 characters; or 2 cards, 2 entries; or 3 options; or files of 5 lines | 1,917,622 | `OneCreator`, `SomebodyRemoves`, `ServedAfterAnything`; `ReadsBack`, `HoldsWhatWasTold`; `EscapesFit`; `ContextsFollowList`, `OneEntryEach`, `EntriesStay`; `DoneAsAsked`; `FindsTheEntry` |
| `sensors` | 2 disks, 2 changes, 7 of 12 providers, allocations fail | 2,438,552 | `IoInBounds`, `OneOfEach`, `EnabledHasContext`, `CrashExplained` |
| `spd_hub`, `lpc_ite`, `options`, `sensors_smart` | see section 4 | | a property is violated |

Why the bounds are enough.

* *Jobs and addresses.* Handlers differ in four ways: whether they read the flags,
  reset `init_done`, build one tree or several, and store the GPU list. DISPLAY and 1S
  are the ones that differ most; 1M is also the job whose tree the menu reads;
  DISK and SPD reset `init_done` with and without reading flags. Two jobs at a time
  let one be requested while the other runs, wherever it is. A run has one address
  per slot its jobs fill, one for the tree being built and one for the tree being
  freed, so no action is ever disabled for want of an address, and the allocator
  reuses the lowest free one, which is the worst case for a stale pointer.
* *Slots and pages.* What differs between slots is equal, lower or higher than the
  remembered one; two occupied slots show it. `HubPages` has page 0 and those the
  report uses after it. The DDR4 board has an empty slot, since selections go to
  all DDR4 devices even when the slot asked for is empty.
* *Crashes and faults.* Two crashes let both processes end in an operation, or one of them end again while it
  repairs what it left behind; two waits given up put both outside the mutex, or one beside one inside, or
  beside the temperature of a report, which is outside already. With one failed transaction each of the error paths
  is taken; every property excepts a failed transaction next to a crash or a wait given up, hence `FaultAlone`.
  Both processes do everything, at the same time; they are alike, hence symmetric.
* *SMBus hosts.* With three processes one may leave something behind, the second find it
  and the third use the bus in between.
* *Registers.* Two registers tell whose index is selected, two commands whose answer is in the
  mailbox; a third process adds nothing to an overlap of two, which already counts as
  disturbed. Chips: every maker in either slot, with each way not to be found (an ITE chip has two more, an
  address of the general-purpose i/o that is implausible or unsteady).
* *Drivers.* PawnIO and two services: one to try first, one to fall back to. Two processes
  and a crash leave every combination of record, running driver and open handle; PawnIO may be
  set up from the start, wholly or by its library alone (with services that Windows accepts).
* *Report.* Four calls build a table with two rows, or nodes two deep with an attribute set
  twice; one-way errors of nesting and separators need two siblings. The two names are one that only groups have
  and one that is also a value's, and a group may come twice. Raw data other than
  base64, which only changes one value, gets three calls.
* *Texts.* Three characters of the kinds the tables tell apart, and buffers from
  1 to larger than the longest escape of all three: every cut of every escape.
* *Adapters.* Two adapters out of five kinds (twins and an NPU among them) and a list of
  two entries, so that it can be full before the last driver; one adapter plugged in later.
* *Options.* Three options: one repeated around another, and the three sources of a
  setting (flags, list, string), with an empty argument for those that store it and for one that does not.
* *Names.* Five lines hold a vendor, device and subsystem, an entry that ends them, and
  a comment anywhere.
* *Disks and changes.* With two disks and two changes the number of disks can go up,
  down, or stay the same while the disks differ. The providers in the run
  are those that share something, hold an array, or stand for the six that have a
  context of their own (`ZEN`); the others behave like it, and their `SkipInit` and
  `SkipGet` turns are in the run. Disks are interchangeable, so they are symmetric.

Deadlock is checked in every run. `Terminated` is the one place a behaviour of `GuiUpdate` or
`SensorRegistry` may stop as it should. `GuiUpdate` has two more, each an action of its own that changes nothing:
`WaitsForItself`, which takes a failing `CreateThread` or `CreateEvent` (`MayFail`), and `WaitsForBox`, which takes
a failing allocation on the update thread while the program exits. So the three runs also show that
nothing else stops the program, in either mode.

### Fairness

`GuiUpdate`: both threads run, so what a thread can do next it does (weak fairness of
its steps). Two waits are stronger: a thread that waits for the SRW lock gets it,
although the lock is taken and released in between (strong fairness of `BeginDraw`,
`ReadView`, `ReadFlags`, `Acquire`). SRW locks promise no order among their waiters;
what justifies it is how rarely this one is contended: after a frame the UI thread
sleeps in `GetMessageW` (`gnwinfo.c:413`) and the update thread in
`WaitForMultipleObjects`, and either is woken a few times a second and holds the
lock for a fraction of that. And the message loop gets to draw although messages go on arriving
(strong fairness of `EndInput`): the loop at `gnwinfo.c:424` ends when `PeekMessageW`
finds the queue empty, which it is again and again with timers of a second or more
and messages that a user causes. Nothing is
assumed of the user: no request, click or exit has to come. Dialogs may stay open, and
then nothing is promised; hence the premise `DialogsClose`. The calls a handler makes return (weak fairness of
`Handler`), but for the one that shows a message box: `AnswerBox` has no fairness, and it cannot even happen
while the UI thread is in `gnwinfo_ctx_exit`. Therefore the three liveness properties end with `OutOfMemory`, the
state in which the box is shown: they say that lack of memory is the only thing on the update thread that can
hold up a request or the exit, not that nothing can.

`I801Host` and `Piix4Host`: a process that is not ended goes on, the device answers or refuses
in the end (`Finish`), and somebody keeps using the bus, as gnwinfo does every second.

## 4 Where the code disagrees

Each is a run that TLC ends with a counterexample, and a finding in `PROJECT.json`.

* `spd_hub`: one process, healthy DDR5 modules. `SetDDR5Page` skips a selection
  that equals the page read by the last probe, but selections do not update that
  page. A probe that finds page 0 makes the final return to page 0 do nothing; the
  next read of the page the hub stayed on is skipped as well and returns bytes of another page.
* `lpc_ite`: the comment wants an ITE chip on 0x4E left alone when it has already been entered;
  the code sends the key exactly then, and not when the chip is closed.
* `options`: `--smart=...` is stored before `NW_Init`, which assigns the default to the
  same member. The option has no effect.
* `sensors_smart`: a disk is plugged in after the SMART provider was initialised, and
  the disk page refreshed. `disk_get` takes over the new count, not the array.

Met while modelling, not claimed by any document, hence no run:

* *SMBus.* A wait for `Access_SMBUS` that gives up is ignored (`smbus.c:315`) and the caller goes on, and
  `ParseSpd` asks for the temperature after the mutex was released (`spd.c:1026`). Either may select page 0
  between another process's selection of page 1 and its read, which then returns a byte of page 0. `RightPage` has
  both in its run and says that no wrong byte comes any other way. On the i801 a wait given up breaks
  `OwnAnswer`; there the run sets `Timeouts` to FALSE. A module without pages counts as absent when its byte
  130 happens to be 0xFF (`smbus.c:394`), since the DDR5 probe accepts whatever answers. Where no DDR4 device is
  there, that probe (`smbus.c:258`) writes 0 to byte 11 of whatever answers; a module without pages
  in which this byte is not 0 (DDR2 with ECC, for instance) is written to, unless
  it is protected. `Exposed` excludes it from `OnlyHubsWritten`. The ids
  of VIA hosts are listed for PIIX4, whose init has no case for them.
* *gnwinfo.* A menu opened outside a frame (`systray.c:71`) reads the battery tree without the
  lock; `LockedMenuSafe` claims only what is shown inside a frame. The flag of the
  notification icon is set and cleared by both threads. A handler that runs out of memory while the program exits hangs it: its message box (`context.c:40`) is
  owned by a window whose thread waits for the handler's thread without taking messages (`context.c:411`;
  `WaitsForBox`). The sensor view refreshes
  the GPU list without the lock (`context.c:77`).
* *GPU.* A list that could not be made again makes the GPU provider read through NULL
  (`gpu_sensors.c:27`); `CrashExplained` allows it after a failed allocation only. Freeing the list leaves
  the drivers' static pointers, so a list that fills up before the last driver has that driver's
  old context freed again (`cut`). Of two adapters with the same ids, D3D's
  readings go to the first; a filled-in reading stays when D3D stops giving it.
* *Drivers.* A process that starts a service it found can have it stopped by the one that
  created it, and a driver installed but not opened stays when the next is tried
  (`excused`). An output file that cannot be opened (`libnw.c:131`) ends the program with the
  driver installed. A library of PawnIO without its running driver counts as installed (`pawnio.c:27`), so
  the setup beside the program is not run and PawnIO is passed over (`library`).
* *SMU.* A refusal counts as an answer with one driver and not with the other. A process that ends between
  clearing the response and writing the command leaves a mailbox in which every later
  command waits in vain (`spoilt`). Results of waiting for `Access_PCI` are ignored except
  in `d3d_gpu.c:119`.
* *Super-I/O.* `lpcio.c:find_bars` compares with an uninitialised value for a device that
  answers only the second time, and has room for 128 addresses.
* *Report.* A list whose first string is empty hides the others. A list is not masked when it is
  sensitive. Raw tables (`--bin`) are not masked at all. YAML reads an empty
  string back as `~` and keeps `\n` inside single quotes as two characters. Attributes
  of a table are dropped by JSON and Lua. `hwinfo_shmem.c:118` appends a child for each sensor of another program under
  that program's name for it, and only its id and instance are unique (`hwinfo_shmem.c:50`): a printed object may have
  two members of one name. `ReadsBack` is about readers that see both; one that fills a map keeps one of them,
  and a strict YAML reader refuses the report.
* *Command line.* The string of an earlier `--net` or `--disk` is lost when a later one replaces it. Items
  after an empty one are ignored, and an unknown value of `--cp` means ANSI.

## 5 Proofs

TLAPS 1.4.5 checks every theorem; `PROJECT.json` lists the ones to know.

**`GuiUpdateProofs`**, for any set of jobs, any heap, any allocator that returns unused
addresses, with and without the update thread (`JobsAssumption`, `NullAssumption`,
`MallocAssumption`, `MayFailAssumption`). The invariants are not inductive on their
own: that a swap leaves one owner depends on who holds the lock, which depends on where
the handler is, which depends on which thread runs it. The inductive invariant
`IInv` is `HeapOwned` with

* `TypeOK`;
* `ThreadShape`: which thread runs handlers, and when `inRun` and `todo` may be set;
* `HandlerShape`: what `job`, `slot`, `fresh` and `old` are at each place of a handler
  (for instance, `fresh` and `old` are NULL between two handlers, so nothing is lost
  when the next one starts);
* `LockShape`: the lock is held by the UI thread exactly in a frame, by the handler
  exactly between acquiring and swapping;
* `ExitShape`: what the steps of the exit have established, `NoLostWakeup` among it.

From it follow `TypeCorrect`, `HeapCorrect`, `WakeupCorrect`, `ExitCorrect`, and with
one more invariant each `ToolbarCorrect` and `MenuCorrect`. `FramesStable` is an action
property: in a state of `IInv` no step moves or frees a tree while the UI thread keeps the lock.
`QueueImplemented` assumes `~MayFail` and shows that every step is a step of
`UpdateQueue` or leaves its variables alone.

**`SmbusHostProofs`**, for any number of processes and crashes. On the Intel host it is assumed
that waits for the mutex do not give up (`~Timeouts`). The inductive invariant is `TypeOK`,
`MutexHeld` (a process inside owns the mutex, so there is at most one) and `Stage(p)` for every
process: what the registers hold at each place of `I801Xfer`; for instance, after `CheckPre` the
host is idle without flags, and while `p` polls it executes `p`'s command or is idle, and `INTR`
alone means that the answer is `p`'s. `AnswersMatch` and `CommandsKeptApart` follow. On the AMD
host waits may give up: for every process nobody overlapped, `Mine(p)` says what the host holds
at each place of the transaction. `UndisturbedIsOwn` is the property of the run,
`Piix4TypeCorrect` its types.

**`SensorRegistryProofs`**, for any finite set of disks, any `SensorFlags` and any number
of changes, with and without failing allocations. `OneOfEach` alone is not inductive: `NW_Fini` frees what the
enabled providers claim, a provider's init overwrites its context, and a second list
would be lost if one were there already. The inductive invariant is `TypeOK`, `OneOfEach`,
`IoInBounds`, `CrashExplained` and

* `PhaseShape`: in which phases the registry can be, and that no provider is enabled
  before `NWL_InitSensors` has passed it (`Passed` compares its place in `sensor_list`
  with the turn);
* `ContextShape`: a provider's context is set up exactly while it is passed and enabled
  (`On`), and between `disk_fini` and `disk_init` of `disk_io.c` nothing is left of its lists.

The lemmas `TurnSwitches` and `OnKept` say which steps switch a provider, so that each action has
only its own resource to account for; `FiniFrees` says that what `NW_Fini` and the fini functions
free is what is owned.
From the invariant follow `OneAllocationEach`, `IoStaysInBounds`, `ProvidersHaveContext` and
`CrashesExplained`.

**`DriverLifecycleProofs`**, for any processes, drivers in any order and any number of crashes
(`DriverAssumption`, `CrashAssumption`). That a service is deleted only by its creator rests on
Windows refusing a second record while one exists, marked for deletion or not. The invariant `Safe` is
`TypeOK`, `Placed` (which driver a process is at, at each place), `Owned` (what it
holds there) and `OneCreator`. `Left` says who answers for what is left: `Busy` for a driver
that runs or is open, `Refused` for one that could not be installed, `Kept` for a record. From `Safe`
follow `TypeCorrect` and `CreatorsAreUnique`, from both `NothingUnattended`.

For `NobodyIsLockedOut` the invariant is `Solitude`: for a process that has had the system to
itself since it began (`alone`), `Lonely` (all others are idle, and `Empty`: who is idle holds
nothing) and `Trying`, what `WR0_OpenDriver` has established at each place, above all that no
driver before the one at hand can be had. Records, running drivers and open PawnIO may be
left in the system in any combination.

**`SpdPagingProofs`**, for any board, any processes, crashes and failing transactions, with and
without time-outs. The invariant `IInv` is `TypeOK` and `Good` for every process: a page is
selected only of a module that was taken for one with pages, and what was taken for DDR5 is
DDR5. `Hubs` adds, as long as no transaction has failed, that the DDR5 functions are used only
where a write of page 0 is `Harmless`, since the DDR4 probe comes first and any DDR4 device
answers it. `SpdTypeCorrect` and `OnlyHubsAreWritten` follow; the mutex plays no part in either.

The pages themselves are right only under hypotheses, which three more theorems state. None of them assumes that the
mutex is waited for: what giving up a wait spoils is in the properties. They assume

* `PagesAreRestored` a board without hubs (`NoHubs`): a hub can be left on another page, as `spd_hub` shows. Its
  invariants are `MutexHeld`, `Uncached` (nothing is remembered of a board with DDR4 modules, so no
  selection on it is skipped) and `Calm` (away from page 0, the process with the mutex is on its way back, until one ends or gives up);
* `ModulesAreRecognised` a board with modules of one kind (`OneKind`; DDR4 and DDR5 do not fit one
  socket). `Telling` says what each probe will answer, at each place of `SM_GetSpd`. `NwinfoProofs` takes this
  theorem for the other board of the run `spd`, all of DDR5 modules: `HubsStayRecognised`;
* `PageIsRight` `NoHubs`, and that a DDR4 module's byte 11, its nominal voltage, is neither 0 nor 1
  (`VoltageIsNoPage`; JEDEC's DDR4 values have bits 0 and 1 set). Any number of processes report and read sensors,
  with the mutex and without. The property claims the page for any number of ended processes and waits given up, or for one
  failed transaction, of every process but those in `disturbed`. `Reading` says that a process about to
  read has its page selected or is disturbed; that two processes with the mutex cannot disturb each other is
  `MutexHeld`, that a selection is never skipped wrongly is `Uncached`. `Culprit` is the hard part: what the one
  probe that failed can have left in the context, and why no later selection is skipped for it.

The board of the run `spd` with DDR4 modules meets all of these hypotheses.

**`RegisterProofs`**, for any processes, registers, commands and crashes (`NoneAssumption`,
`CommandsAssumption`, `CrashAssumption`). For the mailbox the invariant has `TypeOK`, `Halves` (a register
pair is between its two accesses only at certain places), `Clean` (a mailbox that is not
spoilt is idle, or somebody is at a known place of his command) and `Mine(p)` for
undisturbed processes. From it follow `SmuTypeCorrect`, `ReadsOwnRegister`, `ReadsOwnAnswer`,
`SendsOwnCommand` and `MailboxStaysAlive`.

For the Super-I/O chips it is for any chips fitted (`ChipsAssumption`). The invariant says of a process
that holds the mutex (`Looking`): `Slotwise`, the slots it has left are solved, that is
closed and with the right answer; and `Probing`, what the detector at hand knows at each place, above all
that an open chip is one whose key the driver has or an ITE chip, and that the drivers before it had no
reason to find the chip; `ProbingGpio` is the same of the ITE driver's second device. What an ended process leaves needs no case of its own: a chip in any mode with any
device selected is where every detector starts from. From it follow `LpcTypeCorrect`, `ChipsAreFound` and `ChipsAreClosed`.

**`NwinfoProofs`**, first for any finite set of adapters, any makers and ids, any size of the list and
any number of changes (`CardsAssumption`, `CountAssumption`, `NoneAssumption`). Entries have no owner in the
code: `NWL_GetGpuInfo` sets the count to 0 and lets the drivers append in turn, so an entry is the same
adapter's as before only if every driver before it appends as many as it did at first. The invariant
`ListInv` has `Followed` (contexts live exactly as long as the list), `Sounds` (what a context holds), and
`Layout`: there are places, one per driver, such that each driver's adapters, as many as fit, stand
between its place and the next. What D3D adds depends on the entries before it (`Offer`); they are
the same each time, by `Layout` itself. `Apart` and `Owned` keep entries distinct beyond the count of
a list that is being filled. `PointersFollowList`, `ListedOnce` and the action property `EntriesStayTheirs` follow.

Then for any options and command lines of any length. `OptionsInv` says that the context has what the
options so far ask for (`Gathered`: for flags, until the collector of their name completes them),
that strings returned are held and the context points at the last ones (`Holding`), and that the report is what `NW_Print` has got
to (`Reporting`). `MoreFlags`, `OtherString`, `OtherValue` and `MoreStrings` say what one more option changes of
what is asked for; `ReportedAsAsked` follows. What the collectors make of an option's items is left open in these
proofs: they hold for any way to split and filter them.

At last it instantiates `SpdPagingProofs` with the board of DDR5 modules (`Hub`). `HubStarts` and `HubGoesOn`
say that the two readings of `SpdPaging` have the same steps, `HubBoard` that the board meets the assumptions, and
`HubsStayRecognised` is then `ModulesAreRecognised` for it.

**`ReportProofs`**, first for any options, names, messages and number of calls, and so for a tree of any
size: `ReportHoldsWhatWasTold`, and of it `SecretsStayMasked`. It assumes two things of the constants:
`NamesAssumption`, no group but the tables of `NWL_EnumerateDevices` is called "Devices", and `MessagesAssumption`, an error or
a string of a list is not empty and holds no NUL (the callers append C strings and stop at the empty one; section 4 says
what an empty one would do). The inductive invariant `ReportInv` has

* `TreeInv`: the nodes and what they have are sequences (`IsTree`), a child is made after its parent and has no
  other one (`Linked`), and a node that is no table has at most one table of devices (`DevicesApart`), since
  `NWL_NodeGetChild` is asked first. Nothing is said of other names, which may repeat;
* `Told`: what was told was told to nodes of the tree, and no list is a secret;
* `Shown`: a node has one attribute for each key it was told about, and the attribute shows the value told last;
* `Logged`: the log holds the errors, and the root of a report that is written shows them.

Two things matter. `AttributeSet`: after an attribute is set, its one attribute has the new value and form and the others are as
before, so a secret told after a plain value leaves nothing of it. And the lists: `NWL_NodeAppendMultiSz`
finds the end of a multistring by searching for the first two NULs in a row. `OneDouble` shows that in a multistring
of words they are at the very end, so `OneStringMore` can say that an append keeps every string and adds one;
`FirstString` and `Copied` do the same for the first string and for the copy an attribute gets. A list is a fold of appends: `FoldedIsFixed`
lets `ListsAreHeld` unfold the lists a collector tells, of one string or two, without induction. `TreeGrown` and `TreeKept` carry the tree over
a new node and a new attribute; each call has a step of its own (`NodeStays`, `DevicesStay`, `PlainStays`,
`ListStays`, `RawStays`, `ErrorStays`, `PrintStays`).

Then for any text of any characters and any positive size of the buffer (`SizesAssumption`,
`TextsAssumption`): `EscapedTextsFit`. That nothing is written past the buffer rests on `EscapeFits`, what a
character becomes is never longer than the room its format asks for. That what is written reads back rests on the
tables (`EveryTurn`): in each format, what a character becomes is either one or two characters that the reader takes
as they are, or a whole escape (`Stands`) that the reader knows, with no escape among its beginnings, and that has one
meaning. `TurnRead` follows a reader through one turn. For the whole text no induction over data is needed: the loop is
the induction. The invariant `EscapeInv` says that the buffer can be read and the text be kept character by
character (`Reading`, `Keeping`), and that any two ways to do so agree at their ends; `ReadTurn` and `KeepOne` continue
them by a turn, `ReadBefore` and `KeptBefore` cut a turn off, and `After` and `Left` of the model are such ways.

At last for any file and any query (`FilesAssumption`, `QueriesAssumption`): `EntriesAreFound`. `TreeAt` says
where a scan of vendors or of classes stands after so many lines: at the outermost level with nothing found, or
below the first entry that has the code, with lines after it that belong to it or to its own and none of which
is the one (`Searched`), or two levels below, or at the end with exactly the path of the tree. A scan only ever
looks down, and the tree is defined by looking up (`Parent`, the nearest line above that is less deep):
`NotUnder` and `FoundUnder` bring the two together. `BothScans` shows that in a well-formed file the
two loops of the code are one, though they end their lists by different tests; `SpdAt` does the same for JEP106.
That the first of some lines and the last of some lines exist (`FirstOf`, `LastOf`) is taken from
the library's well-founded order on the naturals.

Only model-checked: liveness (`gui_live`, `BusesRecover`), since fairness and ENABLED
are beyond this prover; and what recursive readers make of the printed report (`ReadsBack`), since that
needs induction over data. `ReportHoldsWhatWasTold` proves the half of it that is not about printing. Every other
property of a passing run is a theorem.

## 6 What is not modelled

* *Data*: what a sensor reads, the bytes of an SPD, of SMBIOS and ACPI tables, of EDIDs and
  SMART attributes. Their decoders are long, sequential and without state; a model of them would
  repeat their tables. With the third-party libraries and the generated id tables they are most
  of the lines of the repository, and no definition here maps to them.
* *Drawing*, the registry of the notification icon, hot keys and DPI changes. Of the error message
  box `GuiUpdate` has the one of a handler that cannot make its tree: not one of the UI thread's own code, nor what the
  main window does in the message loop of a box that the UI thread itself shows (without an update thread), nor a
  tree half built when the memory ran out.
* *libcdi and the other third-party libraries*. `SensorRegistry` has the disks in
  libcdi's table and when it is filled, nothing else.
* *A second thread in `SensorRegistry`*: gnwinfo runs collectors on the update thread;
  the SMART window, which uses libcdi on the UI thread, is listed as a hazard.
* *The PawnIO path* of the SMBus hosts and of SMN: a whole transaction is one call of the driver.
* *TREE and HTML reports* but for their escapes: nobody reads them back. Base64 and the
  conversions of `utils.c` other than sizes.
* *Hardware ids*: splitting them into codes, and loading the id files.
* *The sensors of a Super-I/O chip* once it is found, and its embedded-controller bus.

`hazards` in `PROJECT.json` lists what can go wrong in each, at its line, also
where no property covers it yet.

## 7 Plan

1. An abstract bus that both hosts implement and `SpdPaging` assumes, with the refinement proved.
2. `GuiUpdate`: the notification icon and the SMART window.
3. The SMBIOS walk (lengths, the double NUL, handles) against a reference definition.
