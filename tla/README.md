# Verification of the kernel-facilities drivers

TLA+ models of the kernel modules of this repository (character devices, platform
drivers, wait queue, linked list, proc entry), TLC configurations that check them on small instances, and TLAPS
proofs of what matters most for every instance.

## The system

The repository holds independent kernel modules.  Nothing is shared between
them but the kernel, and in it the names they register: all six drivers (002, 003, 004,
006 and the two of spinlock) create a class `pcd_class`, and 002 and 003 are built as
modules of one name.  Inside each, the interaction is between system calls of several
tasks, the module loader, the driver core and the work queues.

| Component | Source | State | Operations | What is hard | What makes it correct |
|---|---|---|---|---|---|
| multi-device driver with a mutex | `src/ldd/spinlock/char_driver_multiple_devices.c` | four buffers, four mutexes, permissions; per file: device, mode, position | open, release, read, write, llseek | concurrent copies, faults half-way, a shared `f_pos`, size_t arithmetic, locks on error paths | copies are atomic, stay inside the buffer, respect permissions; every call returns |
| its module | same file, `pcd_driver_init`, `pcd_driver_exit` | device numbers, class, cdevs, device files | insmod, rmmod | a failure at any of ten calls; devices are usable before init is over; a class name that another driver holds | all or nothing; no file outlives the code |
| single-device driver, interruptible mutex | `src/ldd/spinlock/char_driver.c` | one buffer, one mutex | as above | signals while waiting, a leaked mutex | as above, and a signal ends a wait |
| drivers before the mutex | `src/ldd/002_char_drivers`, `src/ldd/003_char_drivers_multiple_devices` | as above, no mutex | as above, insmod, rmmod | torn copies, calls in flight while init fails | bounds hold, tearing is confined, exit meets no call |
| platform driver and its devices | `src/ldd/004_Platform_drivers`, `src/ldd/006_pcd_sysfs_with_platform_device_file` | per device: memory, cdev, device file, attributes; shared: `pcdrv_data` | probe, remove, init, exit of both modules | parallel probes of two devices, failure after success, removal under an open file, registrations that failed unnoticed, `driver_override` | what probe acquired is there while bound and gone afterwards |
| wait queue | `src/Kernel_facilities_course/Wait_Queues` | `wake_condition`, a queue, a work item | init, work, exit | lost wake-up, signals, unloading under the work item | init ends, the work item is not cut off |
| linked list | `src/Kernel_facilities_course/Linked_List` | a list of two nodes | init, exit | freeing while walking, memory that others reuse at once | the list is whole while the module lives, every node is freed |
| proc entry | `src/ldd/ldd_2_proc_file_read_write` | a position per file, the entry | read, insmod, rmmod | readers inside while the module goes; count and faults ignored | one message per open, no call in freed code |

Hello-world modules, user-space demonstrations of `container_of`, backups and
build files keep no state worth a model.

## Modules

| Module | Models | Reads like |
|---|---|---|
| `MutexCharDevices` | file operations of the multi-device driver | one action per stretch of `pcd_read`, `pcd_write`, `pcd_llseek` between two points where another task can interfere: lock and clamp, one byte of the copy, each way out |
| `AtomicCharDevices` | what a device promises: a request takes effect at one instant | the abstract specification |
| `MutexRefinesAtomic` | the refinement mapping between the two | history variable `committed` and an INSTANCE |
| `UnlockedCharDevices` | the same file operations without the mutex (003, and 002 as the case of one device) | extends `MutexCharDevices`; a mutex never taken stays free, so the unlocks of inherited actions change nothing |
| `InterruptibleCharDevice` | file operations of `spinlock/char_driver.c` | extends `MutexCharDevices`; the steps that differ are defined anew |
| `MultiDeviceModule` | init and exit of the multi-device driver | one action per kernel call, `pc` names the next call, `i` is the loop variable |
| `SingleDeviceModule` | init and exit of the single-device drivers | same, with calls that register or remove one resource |
| `ModuleLifeCycle` | what every driver promises to those who load it and open its devices | abstract specification of loading: coming, live, going, files that pin, files that a failed load orphans |
| `LoadedCharDevice` | the whole driver of 002 | composes `UnlockedCharDevices` and `SingleDeviceModule`: an open is a step of both, and a load that fails cuts calls off |
| `DriverModules` | the drivers of spinlock, 002 and 003 loaded side by side | `MultiDeviceModule` itself, and instances of both loading modules, joined by the class name and the module name; the other three drivers with that class name would meet these as these meet each other, and are left out of the composition |
| `PlatformDevices` | the platform drivers (`sysfs` says which of the two, 004 or 006, is loaded), the module that registers their devices, the driver core, open files | one action per call of init, exit, probe and remove |
| `WaitQueue` | the wait-queue module over several loads | `wait_event_interruptible` by its steps |
| `BookList` | the list module and the slab it shares with the kernel | `next` and `prev` as functions on addresses; `Others` writes anything to any slot that is not the module's |
| `ProcEntry` | the proc entry and its readers | a read is its entry, `LDD_READ` and its return; `ldd_exit` in two steps, before and after it has waited |
| `MC...` | constants of the instances for TLC | |
| `MutexCharDevicesProofs` | proofs about `MutexCharDevices`, `InterruptibleCharDevice` and the refinement | |
| `LoadedCharDeviceProofs`, `MultiDeviceModuleProofs`, `DriverModulesProofs`, `PlatformDevicesProofs`, `WaitQueueProofs`, `BookListProofs`, `ProcEntryProofs` | proofs about the module each is named after | |

Operators named after a planted bug (`EmptyWriteNoUnlock`, `PinnedNoOwner`, ...)
are variants of the definition that follows them.  They are used by no
specification; replacing the definition by the variant makes TLC find the
property violated, which shows that the property has teeth.

### What is taken from the kernel

The kernel is modelled as these drivers meet it:

- `read(2)` and `write(2)` hand the driver a private copy of `f_pos` and store it
  back when the handler succeeded.  For character devices the VFS takes no lock
  around it, so calls on a shared file run concurrently.
- `copy_to_user` and `copy_from_user` may stop at any byte; the latter fills the
  rest of its destination with zeros; both refuse a count above `INT_MAX`
  without touching anything.
- `mutex_lock` waits uninterruptibly, `mutex_lock_interruptible` gives up when it
  has to wait and a signal is pending.  Neither is recursive.
- `open(2)` finds a registered cdev and pins the owner of the cdev and of the
  file operations, also while init still runs; `rmmod` needs the reference count
  to be zero; when init fails the module is freed regardless.
- `device_create` fails when the device exists, `class_create` when the class
  does; every registration may also fail for reasons of its own, and then has no
  effect.
- The driver core matches a device with a driver without locking the device, and locks it
  for the probe; tasks that have matched the same device at once are one in the model.
  Probe and remove of one device exclude each other; those of different devices
  do not.  `platform_driver_unregister` and `platform_device_unregister` return
  when the driver is done with the device.
- A device whose `driver_override` names the driver matches without a look at the id
  table, and its `id_entry` stays what it was; every other match sets it.  Unregistering a
  device that was never registered follows a null pointer.
- What `kfree` gives back may be handed out and overwritten at once.
- A file of /proc does not pin a module: `proc_remove` lets no new call in and waits for
  those inside.  It is a regular file, so that `read(2)` keeps its position to itself.
- `wake_up` takes waiters off the queue; a wait joins the queue before it looks at
  its condition for the last time.

A data race the C standard leaves undefined (the two loads of `f_pos` in
`SEEK_CUR`) is a choice between the outcomes a compiler can produce; so is the
attribute array of 006 that lacks its terminating NULL (`CreateFiles` may end in
"oops", where the model stops for that device), a stale `id_entry`, and what
`dog_exit` finds in a node it has freed.  In `LoadedCharDevice` a call whose code was freed
takes no more steps.

## What is checked

| Run | Shows |
|---|---|
| `MutexSafety` | with two tasks, two files and a device of each permission: `MutualExclusion`, `CopyAgrees` (no torn copy), `TransferInBounds`, `PermissionRespected`, the inductive invariant `IndInv` (with type correctness), `LeakOnlyOnWriteFault` (every other way out releases the mutex), `OnlySeekCurPassesEnd` (the very step that moves `f_pos` beyond the end is the store of a `SEEK_CUR`, and adds no more than the size of the device) |
| `MutexRefinement` | `AtomicSpec`: the byte-wise copies implement `AtomicCharDevices`; `CallsReturn`: every call returns as long as no write faults |
| `LoadedCharDevice` | without the mutex, over several loads: `TransferInBounds` still, and `TornOnlyWhereDisturbed` (bytes differ only where another call wrote after they were copied); `ExitRunsAlone` (no call is in the driver while it unloads, except those that an earlier failed load cut off); no deadlock |
| `Interruptible` | `CopyAgrees`, `LeakOnlyOnEmptyWrite`, `LeakIsFinal`, `SignalEndsWait`; no deadlock, because any waiter can be signalled |
| `DriverModules` | for the locked driver `Layered`, `CleanUnload`, `LiveIsWhole` and `ImplementsLifeCycle` (with it, that only a failed load takes the code from an open file); for the others `OnlyClassLeft` and `OthersImplementLifeCycle`; for all together `OneDriverWhole` (two are never in service at once), `LeakBlocksEveryDriver` (the class that a failed `device_create` of 002 leaves blocks every later load of any of them), `AllLoadsEnd` |
| `Platform` | `MemoryAccounted`, `BoundIsWhole`, `UnboundIsGone` (with it, that a device whose attributes could not be created can never be probed again), `UnloadFreesNothingOpen`, `AstrayOnlyByOverride` (in 004 only a device that was matched by its `driver_override`, possibly cleared before the probe began, makes probe follow a pointer that is null or stale), `UnloadEnds` (both modules can be unloaded, unless a probe went astray or a device was never registered) |
| `WaitQueue` | `InitEnds` (no lost wake-up), `CutOffOnlyByInterrupt` |
| `BookList` | `ListIsWhole` (the loops of init touch nothing that was freed), `NothingLeaks` (wherever init fails, and though exit walks over freed nodes), `StraysOnlyWhenRecycled` and `UnloadEnds` (exit frees something foreign, crashes or runs for ever only when the freed node was overwritten before its `next` was read) |
| `ProcEntry` | `OneMessagePerOpen` (whoever shares the file, and before the end is told), `RunsOnlyLoadedCode`, `UnloadEnds` (rmmod ends however many readers come) |

Runs that end in a counterexample, where a text of the repository and its code
disagree:

| Run | The text | The code |
|---|---|---|
| `MutexReadOnly` | `/*Read only*/` on the first device | `&&` in `check_permission` makes every restricted device refuse every open |
| `PlatformRemove` | "Remove a device that was created with device_create" | two overlapping probes share `device_pcd`; one binds without a device |
| `WaitQueueMessage` | "exited wait state, wake_condition != 0" | a signal ends the wait too |

Other defects found while modelling appear as properties that say exactly how far
they go: the mutex that stays locked after a faulting write
(`LeakOnlyOnWriteFault`) or an empty write (`LeakOnlyOnEmptyWrite`,
`LeakIsFinal`), `SEEK_CUR` adding the position twice (`OnlySeekCurPassesEnd`), the
class that is never destroyed (`OnlyClassLeft`, `LeakBlocksEveryDriver`), files opened,
and calls in flight, while init fails (`ImplementsLifeCycle`, `OthersImplementLifeCycle`),
a node used after it was freed (`StraysOnlyWhenRecycled`), a device module that cannot be
unloaded because a registration had failed (`UnloadEnds` of `Platform`), a struct cdev freed while a file
is open (`UnloadFreesNothingOpen`), and a probe that reports success before its last
step and leaves the device file behind when that step fails (`UnboundIsGone`).

### Bounds

- Two tasks: every property speaks of one call, or of two that overlap.  Two
  files in `MutexSafety` and `ProcEntry` so that calls meet on a device but not on a
  position; one shared file in `MutexRefinement` and `Interruptible`.
- Devices of two bytes and counts up to 2 (in `LoadedCharDevice` only 2): an empty, a
  partial and a full transfer, and a clamp at either byte.  Values 0 and 1: zero is also
  what a fault leaves behind.
- `MaxPos` = 4 is twice the size, the furthest that one `SEEK_CUR` reaches from
  a position inside the device (3 in `Interruptible` and `LoadedCharDevice`); seeks past it
  are not explored.  `IntMax` = 3 (2 in `LoadedCharDevice`) and `CountMod` = 16 keep
  the order of the real ones: sizes below or at `INT_MAX`, a position plus a count below
  2^w, a negative remainder above `INT_MAX` (`WidthAssumption`).  The proofs do
  without these numbers.
- `LoadedCharDevice` offers one seek argument and one count, because every call meets
  every step of init and exit; the other counts and seeks meet in `MutexSafety`.
- Three devices in `DriverModules`: a first, a middle and a last one for the loops (the
  code has four; the proofs hold for any number), and a file for each of the drivers.
- Two platform devices, the two that the device module registers, and one file;
  `driver_override` is written for one of them (`Overridable`), and the other
  shows what happens beside it.
- Three slots in `BookList`: two nodes and one that is never the module's.  Loads and
  unloads are unbounded there, in `ProcEntry` and in the driver modules; two loads of
  the wait-queue module.
- `MutexSafety` and `LoadedCharDevice` use symmetry of tasks and files; no
  temporal property but step properties is checked with it.

The type invariant of a module is checked with one of its invariants; those of the
modules with proofs are part of `IndInv` and `LoadInv`.

Deadlock is checked except where the code can really stop: a leaked mutex
(the `Mutex...` runs), a probe or a removal that ended in undefined behaviour
(`Platform...`), and the wait-queue module after its last load.

### Fairness

Weak fairness of a handler, of init and exit, of the task that probes or removes a
device, and of the work item: a task that can run is scheduled.  `MutexCharDevices` adds strong
fairness of taking the mutex, because waiters of a kernel mutex are queued and the
lock is handed to the first of them after it failed to get it once.
`InterruptibleCharDevice` does not need it: a task with a pending signal can either
take the mutex or give up, so that weak fairness is enough.  Nothing is assumed
of user space: no file is ever closed, no signal sent, no module unloaded for the
sake of a property.

## What is proved

TLAPS checks these for every value of the constants that the named assumptions
allow.

`MutexCharDevicesProofs` (assumptions `ConstantsAssumption`, `WidthAssumption`).
None of the safety invariants is inductive by itself: that a copy stays in bounds
depends on the clamp it went through, that the clamp did so on the position it
started from, and that bytes already copied still agree with the buffer on nobody
else being inside.  `IndInv` adds what the program counter of a task says about the
locals of its call (`CallInv`), that a task inside a copy owns the mutex of its
device (`SectionInv`), and that a file whose open is under way belongs to its
opener alone (`OpenerAlone`).  Ownership by a task that has left the handler with
the mutex is not excluded, which is why exclusion survives the leak.  From `IndInv`
follow `TypeCorrect`, `Exclusion`, `NoTornCopy`, `NoOverrun` and, for each step,
`LeakConfined` and `EndPassedBySeekCur`.  `PermissionKept` needs another invariant, because
permissions are looked at only once, when the file is opened: `RefusalsKept` says that a
device with a restricted permission is never the device of an open file, nor of a call
that came through one.

The same invariant carries `InterruptibleCharDevice`: a wait that a signal ends, an empty
write that keeps the mutex and a fault that returns it are three more ways to leave,
and each keeps `IndInv`.  That gives `InterruptibleExclusion` and
`InterruptibleNoTornCopy`; `LeakConfinedToEmptyWrite` and `LeakForEver` follow from what
each kind of step does to a mutex (`IActionKinds`), the latter because whoever copies
owns the mutex, so that nobody copies on a device whose mutex is owned by a task
outside.  Nothing in these proofs needs the device to be single; `SingleDevice` is a
condition on the instance that TLC checks.

`MutexIsAtomic` proves that the locked devices implement `AtomicCharDevices`, step by step.
The history variable `committed` needs an invariant (`HistInv`): it equals the buffer
of every device on which nobody copies, and elsewhere differs from it only in the bytes
that a write under way has put there.  A step is then one of four kinds: one that does
not show (`HiddenStep`: open, close, seek, lock and clamp, a byte), the start of a
transfer (`BeginInvokes`), a way out of the critical section, at which `committed`
catches up (`FruitlessExit`, `WriteFaultFaults`, `CopyDoneTransfers`: the abstract `Refuse`,
`Fault`, `Read` and `Write`), and the return (`SysReturnReturns`).  That the result of a
read is the memory of one instant is `SectionInv` again, and that the clamp
already gives the request its final count is why the mapping can show it before
the lock is taken.

`LoadedCharDeviceProofs` (assumption `LoadedAssumption`: the two of `MutexCharDevices`, for
one device).  Without a mutex nothing a call knows of the device lasts, so that
`LoadedInv` speaks of one call at a time.  `CallInv` and the first half of `CopyInv` are about
the locals of a call, which no other call can reach; that makes `NoOverrun` hold
without exclusion.  The other half of `CopyInv` puts the history `disturbed` in the
place of exclusion: what others do, during a copy, to the places already copied is
recorded there, and places outside the device never enter, which is why it needs the
bounds (`TornWhereDisturbed`).  Loading a new, zeroed buffer would break it for a call still
under way; `Phase` excludes that, because no file is open when the module is not
coming or live, and a call is on a file that is open or was cut off.
`ExitMeetsNobody` is the same argument for exit.

`MultiDeviceModuleProofs` (assumption `DevicesAssumption`: at least one device).
`LoadInv` says for each kernel call that init or exit is about to make what is held
(`Held`), where the loop is (`Index`), which devices are registered and have a
device file (`Built`), and who runs when (`Phase`).  `CleanUnload`, `Layered` and
`LiveIsWhole` are conjuncts of it; `OrphanOnlyByFailedInit` follows because exit
starts with no file open and none can be opened during it.  `RefinesLifeCycle` proves
that the module implements `ModuleLifeCycle` under the mapping that forgets what is
registered and remembers which files are open: each call of init or exit but the
last is a stutter, the last is `InitSucceeds`, `InitFails` or `ExitReturns`, and the
guard of the abstract `Rmmod`, no file open, is what pinning provides.

`DriverModulesProofs` (assumption `DevicesAssumption`).  `EachAsAlone` proves that the
composition gives every driver only steps it has alone: the others refuse it a name and
never touch its state.  Everything proved of `MultiDeviceModule` is thereby true
of the drivers of spinlock and 003 in the composition, the life cycle included.  `InvAll`
adds what the three share: `Inv002` is to 002 what `LoadInv` is to the others, and
`ClassOnce` says that the class has at most one owner.  `OneInService` follows, and so does
`LeakIsForEver`: an unloaded 002 that holds the class keeps it for ever, because every
load of its own needs the name first.  `OthersRefineLifeCycle` is the refinement for 002
and 003.

`PlatformDevicesProofs` (assumption `PlatformAssumption`).  `PlatformInv` has a part for each
thing that is shared: the driver that is there while devices are bound (`Loading`), the
bus (`Presence`), the match of a device with a driver (`Matched`), the memory of one
device at each step of its probe and removal (`Local`) and, while no two probes
overlapped, who may be between writing and reading `pcdrv_data.device_pcd`
(`Exclusive`).  `OnlyOverrideAstray` needs `Matched` because `id_entry` outlives the
driver whose table it points into, and because `driver_override` may be written between
the match and the probe; `NothingUnaccounted` is local to a device and holds
with any overlap; `BoundHasItsFiles` and `LeftDeviceStaysUnbound` need `Exclusive`.

`WaitQueueProofs` (assumption `LoadsAssumption`).  `CutOffExplained`: the memory of a load is
freed long after its wait ended, so `WaitInv` carries the reason the wait ended (`Ended`)
from the wait, over the life of the module, to every load that was freed.

`BookListProofs` (assumption `SlotAssumption`).  `ListInv` says what the list looks like at
each call of init (`Shape`) and where the walk of exit can be (`Walk`): at its node, at
the head, or anywhere once the freed node was recycled.  `WholeUntilExit`, `NoNodeLeft` and
`StraysExplained` hold for any slab and any writes of the rest of the kernel.

`ProcEntryProofs` (assumption `MsgAssumption`: the message is not empty).
`RunsOnlyLoadedCode` rests on who can get in: `Loaded` adds that only a live module has
an entry, and that no file leads to a module that is going or gone.
`OneMessagePerOpen` rests on `Served`: calls on one file do not overlap, the position of
a file that no call is using says whether its message was reported, and so does the
`*offset` of a call that is inside.

## Only model-checked

- Liveness (`CallsReturn`, `SignalEndsWait`, `AllLoadsEnd`, `UnloadEnds`, `InitEnds`): it
  rests on fairness and so on ENABLED, which the proof system here does not support.
- That the runs above meet no deadlock: ENABLED again.
- The three counterexamples (`ReadOnlyMeansReadable`, `RemoveFindsDevice`,
  `ExitedMeansWoken`): each is a behaviour of an instance.

Every other property of a run is the conclusion of a theorem.  `UnlockedCharDevices` with
several devices (003) has no theorem of its own: the proofs about 002 look at one device,
and calls on different devices share nothing but the files.

## Not modelled

- `total_devices` of the platform driver: written by parallel probes without a
  lock, but read by nobody.
- `pcdevs_ids` without an empty last entry: the table is read past its end for every
  other platform device of the machine, and nothing bounds what follows.
- Reads, writes and seeks of the platform drivers, and show and store of 006: stubs
  that change nothing (`store1` returns 0, so that a program that writes until all is
  written does not end; the loop is the program's).
- Positions that are lost when two transfers share a file: the VFS steps are modelled,
  but nothing promises that they are kept.
- `pread` on the proc entry, which hands `LDD_READ` an offset of the caller's choice and
  uses neither `f_pos` nor its lock: what a file reports is said of `read(2)` alone.
- What a task that has matched a platform device finds when the device is unregistered and
  its module unloaded before it gets the lock: the devices are static data of that module,
  and `pcdev_release` frees nothing.  In the model such a task has its turn first.
- The second load of `device_pcd` when it is an error (`PTR_ERR` after `IS_ERR`): another
  probe may change the number that is returned, but not that the probe failed.
- `count` in `LDD_READ`: the handler ignores it, and so does the model; what the copy
  overwrites in the reader is the reader's.
- `whence` values other than the three, which are refused and change nothing.
- The backups of the platform driver (`pcd_driver_setup_backup.c`,
  `pcd_device_setup_backup.c`): no Makefile builds them, and they differ from 004 in having
  no id table.
- Hello-world modules and the user-space demonstrations of `container_of`: no state.
- Serial numbers, log messages (but those quoted above), `commands.txt`, build files.

## Plan

Done: the modules above, and a proof of every safety property, step property and
refinement that the runs check.  Left:

1. `TransferInBounds` and `TornOnlyWhereDisturbed` for `UnlockedCharDevices` with any number
   of devices (003), along the proofs about 002.
2. More of what `PlatformDevices` says of overlapping probes: what still holds of a
   device once `overlapped` is set.
3. Shorter proofs: the frame lemmas of `MutexCharDevicesProofs` serve three specifications
   and can be stated once.
