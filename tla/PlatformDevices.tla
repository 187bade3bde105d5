-------------------------- MODULE PlatformDevices --------------------------
(***************************************************************************)
(* The platform drivers of src/ldd/004_Platform_drivers and                *)
(* src/ldd/006_pcd_sysfs_with_platform_device_file, and the module that    *)
(* registers their platform devices.                                       *)
(*                                                                         *)
(* The driver core matches a device with the driver, then locks the device *)
(* and probes it.  It runs probe and remove of one device one at a time,   *)
(* and those of different devices at the same time: the task that loads    *)
(* the driver, the task that registers devices and whoever writes to the   *)
(* driver's bind and unbind files each probe or remove.  The probes share  *)
(* pcdrv_data.device_pcd: each stores there the result of its              *)
(* device_create and loads it again later.                                 *)
(***************************************************************************)
EXTENDS Integers

CONSTANTS
  NDev,        \* platform devices that the device module registers
  Overridable, \* those whose driver_override user space writes to
  File         \* struct files that can be open at once

ASSUME PlatformAssumption == NDev \in Nat /\ Overridable \subseteq 0 .. NDev - 1

Dev == 0 .. NDev - 1
NoDev == -1  \* a file that is not open
Err == -2    \* ERR_PTR in device_pcd
Null == -3   \* device_pcd before the first probe

VARIABLES
  driver,      \* what init or exit of the driver module does next, or "live"
  sysfs,       \* the driver is that of 006: probe creates the attribute group
  on_bus,      \* the driver is registered on the platform bus
  setup,       \* "absent", "init", "live", "exit" or "oops": the device module
  nth,         \* the device that init or exit of the device module deals with
  present,     \* platform devices on the bus
  id_entry,    \* id_entry[d]: the entry that d matched by its name: "null",
               \* "table", or "stale" in the table of a driver unloaded since
  overridden,  \* devices whose driver_override names the driver
  by_override, \* history: devices matched by their driver_override whose probe
               \* has not looked up their configuration yet
  pc,          \* pc[d]: where the driver core is with device d
  res,         \* res[d]: what the driver holds for device d
  device_pcd,  \* pcdrv_data.device_pcd
  file,        \* file[f]: the device of an open file, or NoDev
  dangling,    \* open files whose struct cdev was freed
  overlapped,  \* history: device_pcd was overwritten while still needed
  left         \* history: devices whose probe failed at the attributes before that

module == <<driver, sysfs, on_bus>>
bus == <<setup, nth, present>>
match == <<id_entry, overridden, by_override>>
files == <<file, dangling>>
history == <<overlapped, left>>
vars == <<module, bus, match, pc, res, device_pcd, files, history>>

Memory == {"dev_data", "buffer"}
Resource == Memory \cup {"cdev", "node", "drvdata", "attrs"}

TypeOK ==
  /\ driver \in {"absent", "alloc_chrdev_region", "class_create",
                 "platform_driver_register", "live", "detaching", "class_destroy",
                 "unregister_chrdev_region"}
  /\ sysfs \in BOOLEAN /\ on_bus \in BOOLEAN
  /\ setup \in {"absent", "init", "live", "exit", "oops"} /\ nth \in 0 .. NDev
  /\ present \subseteq Dev
  /\ id_entry \in [Dev -> {"null", "table", "stale"}] /\ overridden \subseteq Dev
  /\ by_override \subseteq Dev
  /\ pc \in [Dev -> {"unbound", "matched", "kzalloc", "cdev_add", "device_create", "check",
                     "sysfs", "cdev_deletion", "buffer_free", "bound",
                     "remove", "remove_cdev", "remove_free", "oops"}]
  /\ res \in [Dev -> SUBSET Resource]
  /\ device_pcd \in Dev \cup {Err, Null}
  /\ file \in [File -> Dev \cup {NoDev}]
  /\ dangling \subseteq {f \in File : file[f] # NoDev}
  /\ overlapped \in BOOLEAN /\ left \subseteq Dev

Init ==
  /\ driver = "absent" /\ sysfs = FALSE /\ on_bus = FALSE
  /\ setup = "absent" /\ nth = 0 /\ present = {}
  /\ id_entry = [d \in Dev |-> "null"] /\ overridden = {} /\ by_override = {}
  /\ pc = [d \in Dev |-> "unbound"] /\ res = [d \in Dev |-> {}]
  /\ device_pcd = Null
  /\ file = [f \in File |-> NoDev] /\ dangling = {}
  /\ overlapped = FALSE /\ left = {}

Goto(d, where) == pc' = [pc EXCEPT ![d] = where]
Gain(d, R) == res' = [res EXCEPT ![d] = @ \cup R]
Lose(d, R) == res' = [res EXCEPT ![d] = @ \ R]

-----------------------------------------------------------------------------
(* The device module: pcdev_platform_init and pcdev_platform_exit.         *)

\* insmod loads fresh data; rmmod calls exit.
SetupStarts(from, to) ==
  /\ setup = from /\ setup' = to
  /\ IF to = "init"
     THEN id_entry' = [d \in Dev |-> "null"] /\ overridden' = {} /\ by_override' = {}
     ELSE UNCHANGED match
  /\ UNCHANGED <<nth, present>>

SetupReturns(from, to) ==
  /\ setup = from /\ setup' = to
  /\ nth = NDev /\ nth' = 0
  /\ UNCHANGED <<present, match>>

\* The result of platform_device_register is not looked at.
RegisterDevice ==
  /\ setup = "init" /\ nth < NDev
  /\ present' \in {present, present \cup {nth}} /\ nth' = nth + 1
  /\ UNCHANGED <<setup, match>>

\* platform_device_unregister returns when the driver is done with the device.
\* A task that has matched the device has its turn before that: what it would
\* find in the memory of a device module unloaded since is not explored.
UnregisterDevice ==
  /\ setup = "exit" /\ nth \in present /\ pc[nth] = "unbound"
  /\ present' = present \ {nth} /\ nth' = nth + 1
  /\ UNCHANGED <<setup, match>>

\* A device that could not be registered has no data in the driver core:
\* device_del follows a null pointer, and rmmod never returns.
UnregisterNothing ==
  /\ setup = "exit" /\ nth < NDev /\ nth \notin present
  /\ setup' = "oops"
  /\ UNCHANGED <<nth, present, match>>

pcdev_platform_init == RegisterDevice \/ SetupReturns("init", "live")

pcdev_platform_exit ==
  UnregisterDevice \/ UnregisterNothing \/ SetupReturns("exit", "absent")

DeviceModule ==
  /\ \/ SetupStarts("absent", "init") \/ pcdev_platform_init
     \/ SetupStarts("live", "exit") \/ pcdev_platform_exit
  /\ UNCHANGED <<module, pc, res, device_pcd, files, history>>

\* User space writes the driver's name to the driver_override file of a device,
\* or clears it: the device matches then without a look at the table, and an
\* entry found before stays where it is.  The file, too, locks the device, so
\* that it waits for a probe, but not for one that has only matched.
DriverOverride(d) ==
  /\ d \in present \cap Overridable /\ pc[d] \in {"unbound", "matched", "bound"}
  /\ overridden' \in {overridden \cup {d}, overridden \ {d}}
  /\ UNCHANGED <<module, bus, id_entry, by_override, pc, res, device_pcd, files, history>>

-----------------------------------------------------------------------------
(* The driver module: pcd_driver_init and pcd_driver_exit.                 *)

\* One of the two drivers, with fresh data; both use the same names, so that
\* they cannot be loaded together.
Insmod ==
  /\ driver = "absent"
  /\ driver' = "alloc_chrdev_region" /\ sysfs' \in BOOLEAN /\ device_pcd' = Null
  /\ UNCHANGED <<on_bus, bus, match, pc, res, files, history>>

Goes(from, to) == driver = from /\ driver' \in to

AllocChrdevRegion ==
  Goes("alloc_chrdev_region", {"class_create", "absent"}) /\ UNCHANGED on_bus

\* A failure undoes the allocation and returns at once.
ClassCreate ==
  Goes("class_create", {"platform_driver_register", "absent"}) /\ UNCHANGED on_bus

\* The result of platform_driver_register is not looked at.
PlatformDriverRegister ==
  Goes("platform_driver_register", {"live"}) /\ on_bus' \in BOOLEAN

pcd_driver_init ==
  /\ AllocChrdevRegion \/ ClassCreate \/ PlatformDriverRegister
  /\ UNCHANGED <<sysfs, bus, match, pc, res, device_pcd, files, history>>

\* A planted bug: the owner is not set.
PinnedNoOwner == FALSE

\* pcd_fops.owner is THIS_MODULE: a file pins the driver module.
Pinned == \E f \in File : file[f] # NoDev

Rmmod ==
  /\ driver = "live" /\ ~Pinned
  /\ driver' = "detaching" /\ on_bus' = FALSE
  /\ UNCHANGED <<sysfs, bus, match, pc, res, device_pcd, files, history>>

\* platform_driver_unregister returns when every device is unbound.
PlatformDriverUnregister ==
  Goes("detaching", {"class_destroy"}) /\ \A d \in Dev : pc[d] = "unbound"

ClassDestroy == Goes("class_destroy", {"unregister_chrdev_region"})

UnregisterRegion == Goes("unregister_chrdev_region", {"absent"})

\* The driver's memory goes, and with it the table that id_entry points into.
Unloaded ==
  id_entry' = [d \in Dev |-> IF id_entry[d] = "null" THEN "null" ELSE "stale"]

pcd_driver_exit ==
  /\ \/ (PlatformDriverUnregister \/ ClassDestroy) /\ UNCHANGED <<sysfs, id_entry, device_pcd>>
     \/ UnregisterRegion /\ Unloaded /\ sysfs' = FALSE /\ device_pcd' = Null
  /\ UNCHANGED <<on_bus, bus, overridden, by_override, pc, res, files, history>>

-----------------------------------------------------------------------------
(* pcd_platform_driver_probe.                                              *)

\* A match by driver_override, and one by a table, which finds entry for d.
MatchBy(d, entry) ==
  IF d \in overridden
  THEN by_override' = by_override \cup {d} /\ UNCHANGED id_entry
  ELSE id_entry' = [id_entry EXCEPT ![d] = entry] /\ UNCHANGED by_override

\* The driver is or becomes registered, the device is or becomes registered,
\* or somebody writes to the bind file.  A device that is being unregistered is
\* not looked at any more.
MayMatch(d) ==
  /\ on_bus /\ d \in present /\ pc[d] = "unbound"
  /\ ~(setup = "exit" /\ d = nth)

\* A planted bug: an entry that was found before is not replaced.
MatchKeepsEntry(d) ==
  /\ MayMatch(d)
  /\ MatchBy(d, IF id_entry[d] = "null" THEN "table" ELSE id_entry[d])
  /\ Goto(d, "matched")
  /\ UNCHANGED <<module, bus, overridden, res, device_pcd, files, history>>

\* The driver core compares names without locking the device.
Match(d) ==
  /\ MayMatch(d)
  /\ MatchBy(d, "table")
  /\ Goto(d, "matched")
  /\ UNCHANGED <<module, bus, overridden, res, device_pcd, files, history>>

\* How d was matched matters no more.
ForgetMatch(d) == by_override' = by_override \ {d}

\* It locks the device and probes it, unless the device is on its way out.
StartProbe(d) ==
  /\ pc[d] = "matched"
  /\ \/ Goto(d, "kzalloc") /\ UNCHANGED by_override
     \/ setup = "exit" /\ d = nth /\ Goto(d, "unbound") /\ ForgetMatch(d)
  /\ UNCHANGED <<module, bus, id_entry, overridden, res, device_pcd, files, history>>

\* Both kzallocs; when the second fails the first is undone.  In between the
\* configuration is looked up through id_entry: a null pointer when the device
\* was matched by its driver_override alone, whatever lies there now when the
\* table went with an earlier driver module.
Kzalloc(d) ==
  /\ pc[d] = "kzalloc"
  /\ \/ id_entry[d] # "null" /\ Gain(d, Memory) /\ Goto(d, "cdev_add") /\ ForgetMatch(d)
     \/ /\ id_entry[d] # "table" /\ Gain(d, {"dev_data"}) /\ Goto(d, "oops")
        /\ UNCHANGED by_override
     \/ UNCHANGED res /\ Goto(d, "unbound") /\ ForgetMatch(d)
  /\ UNCHANGED <<module, bus, id_entry, overridden, device_pcd, files, history>>

CdevAdd(d) ==
  /\ pc[d] = "cdev_add"
  /\ \/ Gain(d, {"cdev"}) /\ Goto(d, "device_create")
     \/ UNCHANGED res /\ Goto(d, "buffer_free")
  /\ UNCHANGED <<module, bus, match, device_pcd, files, history>>

\* Another probe has stored its device in device_pcd and will load it again.
InUse(e) == pc[e] \in {"check", "sysfs"}

Overlap(d) ==
  /\ overlapped' = (overlapped \/ \E e \in Dev \ {d} : InUse(e))
  /\ left' = IF overlapped' THEN {} ELSE left

\* A planted bug: device_pcd is stored only when the device was created.
DeviceCreateKeepsOld(d) ==
  /\ pc[d] = "device_create"
  /\ \/ "node" \notin res[d] /\ Gain(d, {"node"}) /\ device_pcd' = d
     \/ UNCHANGED <<res, device_pcd>>
  /\ Goto(d, "check")
  /\ Overlap(d)
  /\ UNCHANGED <<module, bus, match, files>>

\* device_create fails by itself, or because the device exists already.
DeviceCreate(d) ==
  /\ pc[d] = "device_create"
  /\ \/ "node" \notin res[d] /\ Gain(d, {"node"}) /\ device_pcd' = d
     \/ UNCHANGED res /\ device_pcd' = Err
  /\ Goto(d, "check")
  /\ Overlap(d)
  /\ UNCHANGED <<module, bus, match, files>>

\* A planted bug: IS_ERR(device_pcd) is not looked at.
CheckDeviceNot(d) ==
  /\ pc[d] = "check"
  /\ Gain(d, {"drvdata"}) /\ Goto(d, IF sysfs THEN "sysfs" ELSE "bound")
  /\ UNCHANGED <<module, bus, match, device_pcd, files, history>>

\* IS_ERR(device_pcd) and, if it is not, dev_set_drvdata.  When it is, the code
\* loads device_pcd once more for the error to return; any error is alike.
CheckDevice(d) ==
  /\ pc[d] = "check"
  /\ IF device_pcd = Err
     THEN UNCHANGED res /\ Goto(d, "cdev_deletion")
     ELSE Gain(d, {"drvdata"}) /\ Goto(d, IF sysfs THEN "sysfs" ELSE "bound")
  /\ UNCHANGED <<module, bus, match, device_pcd, files, history>>

\* pcd_sysfs_create_files(device_pcd): the group is created on the device that
\* device_pcd names now.  pcd_attrs has no terminating NULL, so that the call
\* may also run into whatever lies behind it; so it does when device_pcd is an
\* error or a device that is gone.
CreateFiles(d) ==
  /\ pc[d] = "sysfs"
  /\ \/ /\ device_pcd \in Dev /\ "node" \in res[device_pcd]
        /\ "attrs" \notin res[device_pcd]
        /\ Gain(device_pcd, {"attrs"}) /\ Goto(d, "bound")
        /\ UNCHANGED left
     \/ /\ UNCHANGED res /\ Goto(d, "cdev_deletion")
        /\ left' = IF overlapped THEN {} ELSE left \cup {d}
     \/ UNCHANGED <<res, left>> /\ Goto(d, "oops")
  /\ UNCHANGED <<module, bus, match, device_pcd, files, overlapped>>

\* A planted bug: the memory is not freed.
CdevDeletionLeaks(d) ==
  /\ pc[d] = "cdev_deletion"
  /\ Lose(d, {"cdev", "drvdata"}) /\ Goto(d, "unbound")
  /\ UNCHANGED <<module, bus, match, device_pcd, files, history>>

CdevDeletion(d) ==
  /\ pc[d] = "cdev_deletion"
  /\ Lose(d, {"cdev"}) /\ Goto(d, "buffer_free")
  /\ UNCHANGED <<module, bus, match, device_pcd, files, history>>

\* kfree of buffer and dev_data, which holds the struct cdev that open files
\* of the device refer to.  The driver core forgets drvdata.
Free(d) ==
  /\ Lose(d, Memory \cup {"drvdata"}) /\ Goto(d, "unbound")
  /\ dangling' = dangling \cup {f \in File : file[f] = d}

BufferFree(d) ==
  /\ pc[d] = "buffer_free"
  /\ Free(d)
  /\ UNCHANGED <<module, bus, match, device_pcd, file, history>>

-----------------------------------------------------------------------------
(* pcd_platform_driver_remove.                                             *)

\* The driver is unregistered, the device is unregistered, or somebody writes
\* to the unbind file.
StartRemove(d) ==
  /\ pc[d] = "bound"
  /\ Goto(d, "remove")
  /\ UNCHANGED <<module, bus, match, res, device_pcd, files, history>>

DeviceDestroy(d) ==
  /\ pc[d] = "remove"
  /\ Lose(d, {"node", "attrs"}) /\ Goto(d, "remove_cdev")
  /\ UNCHANGED <<module, bus, match, device_pcd, files, history>>

CdevDel(d) ==
  /\ pc[d] = "remove_cdev"
  /\ Lose(d, {"cdev"}) /\ Goto(d, "remove_free")
  /\ UNCHANGED <<module, bus, match, device_pcd, files, history>>

\* A planted bug: remove waits until the files of the device are closed, so as
\* not to free what they refer to.
RemoveFreeWaitsForClose(d) ==
  /\ pc[d] = "remove_free" /\ \A f \in File : file[f] # d
  /\ Free(d)
  /\ UNCHANGED <<module, bus, match, device_pcd, file, history>>

RemoveFree(d) ==
  /\ pc[d] = "remove_free"
  /\ Free(d)
  /\ UNCHANGED <<module, bus, match, device_pcd, file, history>>

-----------------------------------------------------------------------------
(* open(2) and close(2).                                                   *)

Open(f, d) ==
  /\ driver = "live" /\ "cdev" \in res[d] /\ file[f] = NoDev
  /\ file' = [file EXCEPT ![f] = d]
  /\ UNCHANGED <<module, bus, match, pc, res, device_pcd, dangling, history>>

Close(f) ==
  /\ file[f] # NoDev
  /\ file' = [file EXCEPT ![f] = NoDev]
  /\ dangling' = dangling \ {f}
  /\ UNCHANGED <<module, bus, match, pc, res, device_pcd, history>>

-----------------------------------------------------------------------------

Probe(d) ==
  \/ StartProbe(d) \/ Kzalloc(d) \/ CdevAdd(d) \/ DeviceCreate(d) \/ CheckDevice(d)
  \/ CreateFiles(d) \/ CdevDeletion(d) \/ BufferFree(d)

Remove(d) == DeviceDestroy(d) \/ CdevDel(d) \/ RemoveFree(d)

\* The driver is removed from each bound device when it is unregistered, and from
\* a device that is unregistered.
Detach(d) ==
  /\ driver = "detaching" \/ (setup = "exit" /\ d = nth)
  /\ StartRemove(d)

Next ==
  \/ DeviceModule
  \/ Insmod \/ pcd_driver_init \/ Rmmod \/ pcd_driver_exit
  \/ \E d \in Dev : DriverOverride(d) \/ Match(d) \/ Probe(d)
                    \/ StartRemove(d) \/ Remove(d)
  \/ \E f \in File : Close(f) \/ \E d \in Dev : Open(f, d)

Spec == Init /\ [][Next]_vars

\* The tasks that unload the driver and the devices, and those that probe and
\* remove devices, are scheduled.
FairSpec ==
  /\ Spec
  /\ WF_vars(pcd_driver_exit) /\ WF_vars(DeviceModule /\ pcdev_platform_exit)
  /\ \A d \in Dev : WF_vars(Probe(d) \/ Detach(d) \/ Remove(d))

-----------------------------------------------------------------------------
(* Properties. *)

\* In 004 only a device that was matched by its driver_override, be it cleared since,
\* takes a probe astray: every other was matched with the table of the driver that
\* probes it, though its id_entry outlived the tables of drivers unloaded before.
AstrayOnlyByOverride ==
  \A d \in Dev : pc[d] = "oops" => sysfs \/ d \in by_override

\* Memory, cdev and drvdata are there exactly while the driver is bound,
\* wherever a probe fails: nothing leaks and nothing is used or freed twice.
MemoryAccounted ==
  TypeOK /\ \A d \in Dev :
    /\ pc[d] = "unbound" => res[d] \subseteq {"node", "attrs"}
    /\ pc[d] \in {"bound", "remove"} =>
         Memory \cup {"cdev", "drvdata"} \subseteq res[d]
    /\ "cdev" \in res[d] \/ pc[d] \in {"buffer_free", "remove_free"} =>
         Memory \subseteq res[d]

\* As long as no two probes overlapped, a bound device has its device file and
\* its attributes.
BoundIsWhole ==
  ~overlapped => \A d \in Dev : pc[d] = "bound" =>
    "node" \in res[d] /\ (sysfs => "attrs" \in res[d])

\* As long as no two probes overlapped, an unbound device has a device file only
\* when its probe failed at the attributes; that file stays, and the device can
\* never be probed again, however often the driver or the device is registered anew.
UnboundIsGone ==
  ~overlapped => \A d \in Dev :
    IF d \in left THEN pc[d] # "bound" ELSE pc[d] = "unbound" => res[d] = {}

\* Unloading the driver frees nothing that an open file refers to; removing a
\* device under it, or failing to probe it, does.
UnloadFreesNothingOpen ==
  [][\A f \in dangling' \ dangling : driver = "live"]_vars

\* rmmod of the driver and rmmod of the devices end, whatever the other does,
\* unless a probe ran into undefined behaviour or a device was never registered.
UnloadEnds ==
  LET Oops == \E d \in Dev : pc[d] = "oops" IN
  /\ driver = "detaching" ~> driver = "absent" \/ Oops
  /\ setup = "exit" ~> setup \in {"absent", "oops"} \/ Oops

\* The message of remove, "Remove a device that was created with
\* device_create": there is one.
RemoveFindsDevice == \A d \in Dev : pc[d] = "remove" => "node" \in res[d]
=============================================================================
