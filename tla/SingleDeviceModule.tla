------------------------ MODULE SingleDeviceModule ------------------------
(***************************************************************************)
(* Loading and unloading the driver of src/ldd/spinlock/char_driver.c      *)
(* (that of src/ldd/002_char_drivers is the same), one kernel call per     *)
(* step, over any number of attempts to load it.  DriverModules and        *)
(* LoadedCharDevice compose it with what can happen meanwhile.             *)
(*                                                                         *)
(* The label class_del of pcd_driver_init destroys the device that could   *)
(* not be created, and not the class: after that failure /sys/class keeps  *)
(* an entry "pcd_class" that no later class_create can take.               *)
(***************************************************************************)
EXTENDS Naturals

CONSTANT File  \* struct files that can be open at once

VARIABLES
  module,  \* "absent", "coming", "live" or "going"
  pc,      \* the kernel call that init or exit makes next
  held,    \* what is registered with the kernel
  open,    \* open files of the device
  orphan   \* open files whose file_operations were freed

vars == <<module, pc, held, open, orphan>>

Resource == {"region", "cdev", "class", "node"}

TypeOK ==
  /\ module \in {"absent", "coming", "live", "going"}
  /\ pc \in {"idle", "alloc_chrdev_region", "cdev_add", "class_create",
             "device_create", "class_del", "cdev_del", "unregister_chrdev", "out",
             "exit_device", "exit_class", "exit_cdev", "exit_region"}
  /\ held \subseteq Resource
  /\ open \subseteq File /\ orphan \subseteq File \ open

Init ==
  /\ module = "absent" /\ pc = "idle"
  /\ held = {} /\ open = {} /\ orphan = {}

-----------------------------------------------------------------------------
(* User space. *)

Insmod ==
  /\ module = "absent"
  /\ module' = "coming" /\ pc' = "alloc_chrdev_region"
  /\ UNCHANGED <<held, open, orphan>>

\* A planted bug: the owners are not set.
PinnedNoOwner == FALSE

\* pcd_cdev.owner and pcd_fops.owner are THIS_MODULE: a file pins the module.
Pinned == open # {}

Rmmod ==
  /\ module = "live" /\ ~Pinned
  /\ module' = "going" /\ pc' = "exit_device"
  /\ UNCHANGED <<held, open, orphan>>

Open(f) ==
  /\ module \in {"coming", "live"} /\ "cdev" \in held
  /\ f \notin open \cup orphan
  /\ open' = open \cup {f}
  /\ UNCHANGED <<module, pc, held, orphan>>

Close(f) ==
  /\ f \in open
  /\ open' = open \ {f}
  /\ UNCHANGED <<module, pc, held, orphan>>

-----------------------------------------------------------------------------
(* A call that registers r and goes on at next, or fails and goes to undo; *)
(* a call that takes r away.                                               *)

Register(call, r, next, undo) ==
  /\ pc = call
  /\ \/ r \notin held /\ held' = held \cup {r} /\ pc' = next
     \/ held' = held /\ pc' = undo
  /\ UNCHANGED <<module, open, orphan>>

Unregister(call, r, next) ==
  /\ pc = call
  /\ held' = held \ {r} /\ pc' = next
  /\ UNCHANGED <<module, open, orphan>>

\* The loader frees the code of the driver.
FreeModule ==
  /\ module' = "absent" /\ pc' = "idle"
  /\ open' = {} /\ orphan' = orphan \cup open

-----------------------------------------------------------------------------
(* pcd_driver_init. *)

AllocChrdevRegion == Register("alloc_chrdev_region", "region", "cdev_add", "out")
CdevAdd == Register("cdev_add", "cdev", "class_create", "unregister_chrdev")

\* A planted bug: IS_ERR(class_pcd) is not looked at.
ClassCreateUnchecked ==
  Register("class_create", "class", "device_create", "device_create")

ClassCreate == Register("class_create", "class", "device_create", "cdev_del")

\* The last call: when it succeeds, so does init.
DeviceCreate ==
  /\ pc = "device_create"
  /\ \/ held' = held \cup {"node"} /\ pc' = "idle" /\ module' = "live"
     \/ UNCHANGED <<held, module>> /\ pc' = "class_del"
  /\ UNCHANGED <<open, orphan>>

ClassDel == Unregister("class_del", "node", "cdev_del")
\* A planted bug: the device numbers are released in the place of the device.
CdevDelWrongCall == Unregister("cdev_del", "region", "unregister_chrdev")

CdevDel == Unregister("cdev_del", "cdev", "unregister_chrdev")

\* A planted bug: the wrong label is taken, back into the undo path.
UnregisterChrdevLoops == Unregister("unregister_chrdev", "region", "cdev_del")

UnregisterChrdev == Unregister("unregister_chrdev", "region", "out")

InitFails ==
  /\ pc = "out"
  /\ FreeModule
  /\ UNCHANGED held

-----------------------------------------------------------------------------
(* pcd_driver_exit. *)

ExitDevice == Unregister("exit_device", "node", "exit_class")
ExitClass == Unregister("exit_class", "class", "exit_cdev")
ExitCdev == Unregister("exit_cdev", "cdev", "exit_region")
ExitRegion ==
  /\ pc = "exit_region"
  /\ held' = held \ {"region"}
  /\ FreeModule

-----------------------------------------------------------------------------

InitFunction ==
  AllocChrdevRegion \/ CdevAdd \/ ClassCreate \/ DeviceCreate
  \/ ClassDel \/ CdevDel \/ UnregisterChrdev \/ InitFails

ExitFunction == ExitDevice \/ ExitClass \/ ExitCdev \/ ExitRegion

Next ==
  \/ InitFunction
  \/ ExitFunction
  \/ Insmod \/ Rmmod
  \/ \E f \in File : Open(f) \/ Close(f)

Spec == Init /\ [][Next]_vars

-----------------------------------------------------------------------------
(* Properties. *)

\* What is registered always rests on what it needs, except that a class left
\* by an earlier load needs nothing.
Ordered ==
  /\ "node" \in held => held = Resource
  /\ "cdev" \in held => "region" \in held

\* Of a module that is not loaded nothing stays but, possibly, the class.
OnlyClassLeft == module = "absent" => held \subseteq {"class"}

\* init and exit end, whatever fails.
LoadEnds == module \in {"coming", "going"} ~> module \in {"absent", "live"}
=============================================================================
