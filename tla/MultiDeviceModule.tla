------------------------- MODULE MultiDeviceModule -------------------------
(***************************************************************************)
(* Loading and unloading the driver of                                     *)
(* src/ldd/spinlock/char_driver_multiple_devices.c: pcd_driver_init and    *)
(* pcd_driver_exit, one kernel call per step, while user space opens and   *)
(* closes the devices that are registered already.                         *)
(*                                                                         *)
(* The module loader is modelled as the driver meets it.  open(2) finds a  *)
(* registered cdev and takes a reference on its owner, which succeeds      *)
(* unless the module is going; rmmod needs the reference count to be zero; *)
(* a module whose init function fails is freed whatever its references.    *)
(***************************************************************************)
EXTENDS Integers

CONSTANTS
  N,     \* NO_OF_DEVICES
  File   \* struct files that can be open at once

ASSUME DevicesAssumption == N \in Nat \ {0}

Minor == 0 .. N - 1
Closed == -1

VARIABLES
  module,       \* "absent", "coming", "live" or "going"
  pc,           \* the kernel call that init or exit makes next
  i,            \* the loop variable of init and exit
  held,         \* "region": device numbers; "class": /sys/class/pcd_class
  mutex_ready,  \* devices whose pcd_mutex_lock is initialised
  cdev,         \* devices registered with the VFS
  node,         \* devices that have a device file
  file,         \* file[f]: minor of an open file, or Closed
  orphan        \* open files whose file_operations were freed

driver == <<i, held, mutex_ready, cdev, node>>
vars == <<module, pc, driver, file, orphan>>

Call == {"idle", "alloc_chrdev_region", "class_create", "cdev_init", "cdev_add",
         "device_create", "undo_device", "undo_cdev", "undo_class",
         "undo_region", "out", "exit_device", "exit_cdev", "exit_class",
         "exit_region"}

TypeOK ==
  /\ module \in {"absent", "coming", "live", "going"}
  /\ pc \in Call
  /\ i \in -1 .. N
  /\ held \subseteq {"region", "class"}
  /\ mutex_ready \subseteq Minor /\ cdev \subseteq Minor /\ node \subseteq Minor
  /\ file \in [File -> Minor \cup {Closed}]
  /\ orphan \subseteq File

Init ==
  /\ module = "absent" /\ pc = "idle" /\ i = 0
  /\ held = {} /\ mutex_ready = {} /\ cdev = {} /\ node = {}
  /\ file = [f \in File |-> Closed]
  /\ orphan = {}

-----------------------------------------------------------------------------
(* User space. *)

\* insmod maps a fresh copy of the module's data and calls its init function.
Insmod ==
  /\ module = "absent"
  /\ module' = "coming" /\ pc' = "alloc_chrdev_region"
  /\ i' = 0 /\ mutex_ready' = {}
  /\ UNCHANGED <<held, cdev, node, file, orphan>>

\* A planted bug: the owners are not set.
PinnedNoOwner == FALSE

\* A file pins the module: cdev.owner and file_operations.owner are
\* THIS_MODULE.
Pinned == \E f \in File : file[f] # Closed

Rmmod ==
  /\ module = "live" /\ ~Pinned
  /\ module' = "going" /\ pc' = "exit_device" /\ i' = 0
  /\ UNCHANGED <<held, mutex_ready, cdev, node, file, orphan>>

\* A registered cdev can be opened while init still runs.
Open(f, d) ==
  /\ module \in {"coming", "live"}
  /\ d \in cdev /\ file[f] = Closed /\ f \notin orphan
  /\ file' = [file EXCEPT ![f] = d]
  /\ UNCHANGED <<module, pc, driver, orphan>>

Close(f) ==
  /\ file[f] # Closed
  /\ file' = [file EXCEPT ![f] = Closed]
  /\ UNCHANGED <<module, pc, driver, orphan>>

-----------------------------------------------------------------------------
(* pcd_driver_init. *)

AllocChrdevRegion ==
  /\ pc = "alloc_chrdev_region"
  /\ \/ held' = held \cup {"region"} /\ pc' = "class_create"
     \/ held' = held /\ pc' = "out"
  /\ UNCHANGED <<module, i, mutex_ready, cdev, node, file, orphan>>

ClassCreate ==
  /\ pc = "class_create"
  /\ \/ held' = held \cup {"class"} /\ pc' = "cdev_init"
     \/ held' = held /\ pc' = "undo_region"
  /\ UNCHANGED <<module, i, mutex_ready, cdev, node, file, orphan>>

\* A planted bug: the mutex is initialised too late, after cdev_add.
CdevInitNoMutex ==
  /\ pc = "cdev_init" /\ i < N
  /\ mutex_ready' = mutex_ready \cup {j \in {i - 1} : j >= 0}
  /\ pc' = "cdev_add"
  /\ UNCHANGED <<module, i, held, cdev, node, file, orphan>>

\* The head of the loop, cdev_init and mutex_init.
CdevInit ==
  /\ pc = "cdev_init" /\ i < N
  /\ mutex_ready' = mutex_ready \cup {i}
  /\ pc' = "cdev_add"
  /\ UNCHANGED <<module, i, held, cdev, node, file, orphan>>

\* cdev_add and device_create fail before they have any effect.
CdevAdd ==
  /\ pc = "cdev_add"
  /\ \/ cdev' = cdev \cup {i} /\ pc' = "device_create"
     \/ cdev' = cdev /\ pc' = "undo_device"
  /\ UNCHANGED <<module, i, held, mutex_ready, node, file, orphan>>

DeviceCreate ==
  /\ pc = "device_create"
  /\ \/ node' = node \cup {i} /\ pc' = "cdev_init" /\ i' = i + 1
     \/ node' = node /\ pc' = "undo_device" /\ i' = i
  /\ UNCHANGED <<module, held, mutex_ready, cdev, file, orphan>>

InitSucceeds ==
  /\ pc = "cdev_init" /\ i = N
  /\ module' = "live" /\ pc' = "idle"
  /\ UNCHANGED <<driver, file, orphan>>

-----------------------------------------------------------------------------
(* The labels class_del and unregister_chrdev: the loop counts i down. *)

\* A planted bug: the loop stops before device 0.
UndoDeviceSkipsFirst ==
  /\ pc = "undo_device"
  /\ IF i > 0 THEN node' = node \ {i} /\ pc' = "undo_cdev"
              ELSE node' = node /\ pc' = "undo_class"
  /\ UNCHANGED <<module, i, held, mutex_ready, cdev, file, orphan>>

UndoDevice ==
  /\ pc = "undo_device"
  /\ IF i >= 0 THEN node' = node \ {i} /\ pc' = "undo_cdev"
               ELSE node' = node /\ pc' = "undo_class"
  /\ UNCHANGED <<module, i, held, mutex_ready, cdev, file, orphan>>

UndoCdev ==
  /\ pc = "undo_cdev"
  /\ cdev' = cdev \ {i} /\ i' = i - 1 /\ pc' = "undo_device"
  /\ UNCHANGED <<module, held, mutex_ready, node, file, orphan>>

UndoClass ==
  /\ pc = "undo_class"
  /\ held' = held \ {"class"} /\ pc' = "undo_region"
  /\ UNCHANGED <<module, i, mutex_ready, cdev, node, file, orphan>>

UndoRegion ==
  /\ pc = "undo_region"
  /\ held' = held \ {"region"} /\ pc' = "out"
  /\ UNCHANGED <<module, i, mutex_ready, cdev, node, file, orphan>>

\* init returns an error and the loader frees the module.
InitFails ==
  /\ pc = "out"
  /\ module' = "absent" /\ pc' = "idle"
  /\ orphan' = orphan \cup {f \in File : file[f] # Closed}
  /\ file' = [f \in File |-> Closed]
  /\ UNCHANGED driver

-----------------------------------------------------------------------------
(* pcd_driver_exit. *)

ExitDevice ==
  /\ pc = "exit_device"
  /\ IF i < N THEN node' = node \ {i} /\ pc' = "exit_cdev"
              ELSE node' = node /\ pc' = "exit_class"
  /\ UNCHANGED <<module, i, held, mutex_ready, cdev, file, orphan>>

ExitCdev ==
  /\ pc = "exit_cdev"
  /\ cdev' = cdev \ {i} /\ i' = i + 1 /\ pc' = "exit_device"
  /\ UNCHANGED <<module, held, mutex_ready, node, file, orphan>>

ExitClass ==
  /\ pc = "exit_class"
  /\ held' = held \ {"class"} /\ pc' = "exit_region"
  /\ UNCHANGED <<module, i, mutex_ready, cdev, node, file, orphan>>

\* unregister_chrdev_region; exit returns and the loader frees the module.
ExitRegion ==
  /\ pc = "exit_region"
  /\ held' = held \ {"region"} /\ module' = "absent" /\ pc' = "idle"
  /\ orphan' = orphan \cup {f \in File : file[f] # Closed}
  /\ file' = [f \in File |-> Closed]
  /\ UNCHANGED <<i, mutex_ready, cdev, node>>

-----------------------------------------------------------------------------

InitFunction ==
  AllocChrdevRegion \/ ClassCreate \/ CdevInit \/ CdevAdd \/ DeviceCreate
  \/ InitSucceeds \/ UndoDevice \/ UndoCdev \/ UndoClass \/ UndoRegion \/ InitFails

ExitFunction == ExitDevice \/ ExitCdev \/ ExitClass \/ ExitRegion

UserSpace ==
  Insmod \/ Rmmod \/ \E f \in File : Close(f) \/ \E d \in Minor : Open(f, d)

Next == InitFunction \/ ExitFunction \/ UserSpace

Spec == Init /\ [][Next]_vars

\* The task that called insmod or rmmod is scheduled.
FairSpec == Spec /\ WF_vars(InitFunction \/ ExitFunction)

-----------------------------------------------------------------------------
(* Properties. *)

\* Every device file leads to a registered device with its mutex ready, and
\* no device outlives the class or the device numbers it was made from.
Layered ==
  /\ node \subseteq cdev
  /\ cdev \subseteq mutex_ready
  /\ cdev # {} => held = {"region", "class"}
  /\ \A f \in File : file[f] # Closed => file[f] \in mutex_ready

\* A module that is not loaded has left nothing behind, wherever init failed.
CleanUnload ==
  module = "absent" => held = {} /\ cdev = {} /\ node = {}

\* A loaded driver offers all its devices, and what it offers goes only when
\* nobody has a file of it open.
LiveIsWhole ==
  /\ module = "live" => held = {"region", "class"} /\ cdev = Minor /\ node = Minor
  /\ module = "going" => \A f \in File : file[f] = Closed

\* The one way a file is left with freed operations: it was opened on a
\* device that a failing init had registered already.
OrphanOnlyByFailedInit ==
  [][orphan' # orphan => module = "coming"]_vars

\* init and exit end, whatever fails.
LoadEnds == module \in {"coming", "going"} ~> module \in {"absent", "live"}

\* The strengthening of the invariants that every step keeps.  Who runs when:
Phase ==
  /\ module \in {"absent", "live"} <=> pc = "idle"
  /\ module = "going" <=> pc \in {"exit_device", "exit_cdev", "exit_class",
                                 "exit_region"}
  /\ module = "absent" => \A f \in File : file[f] = Closed

\* what is held at each kernel call:
Held ==
  /\ "region" \in held <=>
       \/ module = "live"
       \/ pc \notin {"idle", "alloc_chrdev_region", "out"}
  /\ "class" \in held <=>
       \/ module = "live"
       \/ pc \notin {"idle", "alloc_chrdev_region", "class_create", "undo_region",
                     "exit_region", "out"}

\* where the loops are:
Index ==
  /\ pc \in {"alloc_chrdev_region", "class_create"} => i = 0
  /\ pc \in {"cdev_add", "device_create", "undo_cdev", "exit_cdev"} => i \in Minor
  /\ pc \in {"cdev_init", "exit_device"} => i >= 0
  /\ pc = "undo_device" => i < N
  /\ pc = "exit_class" => i = N
  /\ pc = "undo_class" => i = -1

\* and which devices are registered and have a file there:
Built ==
  /\ pc \in {"cdev_init", "cdev_add"} =>
       \A d \in Minor : (d \in cdev <=> d < i) /\ (d \in node <=> d < i)
  /\ pc = "cdev_add" => i \in mutex_ready
  /\ pc = "device_create" =>
       \A d \in Minor : (d \in cdev <=> d <= i) /\ (d \in node <=> d < i)
  /\ pc \in {"undo_device", "undo_cdev"} => \A d \in cdev : d <= i
  /\ pc = "undo_cdev" => \A d \in node : d < i
  /\ pc \in {"exit_device", "exit_cdev"} => \A d \in Minor : d \in cdev <=> d >= i
  /\ pc = "exit_device" => \A d \in Minor : d \in node <=> d >= i
  /\ pc = "exit_cdev" => \A d \in Minor : d \in node <=> d > i
  /\ pc \in {"alloc_chrdev_region", "class_create", "undo_class", "undo_region",
             "out", "exit_class", "exit_region"} => cdev = {} /\ node = {}

LoadInv ==
  /\ TypeOK /\ Layered /\ CleanUnload /\ LiveIsWhole
  /\ Phase /\ Held /\ Index /\ Built

Life == INSTANCE ModuleLifeCycle
          WITH open <- {f \in File : file[f] # Closed}

\* However its init and exit interleave with those who open its devices, the
\* driver is a module as ModuleLifeCycle promises: one that is in use stays,
\* and only a load that fails takes the code from a file.
ImplementsLifeCycle == Life!Spec
=============================================================================
