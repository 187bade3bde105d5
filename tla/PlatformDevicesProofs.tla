----------------------- MODULE PlatformDevicesProofs -----------------------
(***************************************************************************)
(* Proofs about PlatformDevices, for any number of platform devices and    *)
(* open files.                                                             *)
(*                                                                         *)
(* The invariant has one part for each thing that several tasks share: the *)
(* driver (Loading), the bus (Presence), the match of a device with the    *)
(* driver (Matched), the memory of one device (Local) and, while no two    *)
(* probes overlapped, pcdrv_data.device_pcd (Exclusive).                   *)
(***************************************************************************)
EXTENDS PlatformDevices, TLAPS

Where == {"unbound", "matched", "kzalloc", "cdev_add", "device_create", "check", "sysfs",
          "cdev_deletion", "buffer_free", "bound", "remove", "remove_cdev",
          "remove_free", "oops"}

Flags == sysfs \in BOOLEAN /\ on_bus \in BOOLEAN /\ overlapped \in BOOLEAN

\* TypeOK without the flags.
Types ==
  /\ driver \in {"absent", "alloc_chrdev_region", "class_create",
                 "platform_driver_register", "live", "detaching", "class_destroy",
                 "unregister_chrdev_region"}
  /\ setup \in {"absent", "init", "live", "exit", "oops"} /\ nth \in 0 .. NDev
  /\ present \subseteq Dev
  /\ id_entry \in [Dev -> {"null", "table", "stale"}] /\ overridden \subseteq Dev
  /\ by_override \subseteq Dev
  /\ pc \in [Dev -> Where]
  /\ res \in [Dev -> SUBSET Resource]
  /\ device_pcd \in Dev \cup {Err, Null}
  /\ file \in [File -> Dev \cup {NoDev}]
  /\ dangling \subseteq {f \in File : file[f] # NoDev}
  /\ left \subseteq Dev

\* Devices are bound, and files open, only under a driver that is there.
Loading ==
  /\ on_bus => driver = "live"
  /\ driver \notin {"live", "detaching"} => \A d \in Dev : pc[d] = "unbound"
  /\ driver # "live" => \A f \in File : file[f] = NoDev

\* The driver deals with devices on the bus alone, and the device module takes
\* them off one by one.
Presence ==
  /\ setup \in {"absent", "live"} => nth = 0
  /\ setup = "absent" => present = {}
  /\ setup = "exit" => \A d \in present : d >= nth
  /\ \A d \in Dev : pc[d] # "unbound" => d \in present

\* What a probe will find behind id_entry, and where it can go astray.
Matched ==
  /\ \A d \in Dev : pc[d] \in {"matched", "kzalloc"} =>
       id_entry[d] = "table" \/ d \in by_override
  /\ \A d \in Dev : pc[d] = "sysfs" => sysfs
  /\ AstrayOnlyByOverride

\* What R the driver may hold for a device at each step of probe and removal.
Accounts(where, R) ==
  /\ where \in {"unbound", "matched", "kzalloc"} => R \subseteq {"node", "attrs"}
  /\ where \notin {"unbound", "matched", "kzalloc", "oops"} => Memory \subseteq R
  /\ where \in {"device_create", "check", "sysfs", "cdev_deletion", "bound",
                "remove", "remove_cdev"} => "cdev" \in R
  /\ where \in {"cdev_add", "buffer_free", "remove_free"} => "cdev" \notin R
  /\ where \in {"sysfs", "bound", "remove"} => "drvdata" \in R
  /\ "cdev" \in R => Memory \subseteq R

Local(d) == Accounts(pc[d], res[d])

\* The device file and the attributes of d there, if the probes of other devices
\* kept out of its way: once its probe has failed at the attributes ...
Stuck(where, R) ==
  /\ where \notin {"sysfs", "bound", "remove", "remove_cdev", "remove_free"}
  /\ where = "check" => device_pcd = Err
  /\ "node" \in R

\* ... and as long as it has not.
Clean(d, where, R) ==
  /\ where \in {"unbound", "matched", "kzalloc"} => R = {}
  /\ where \in {"cdev_add", "device_create", "cdev_deletion", "buffer_free",
                "remove_cdev", "remove_free"} => R \cap {"node", "attrs"} = {}
  /\ where = "check" =>
       /\ "attrs" \notin R
       /\ \/ device_pcd = d /\ "node" \in R
          \/ device_pcd = Err /\ "node" \notin R
  /\ where = "sysfs" => device_pcd = d /\ "node" \in R /\ "attrs" \notin R
  /\ where \in {"bound", "remove"} => "node" \in R /\ (sysfs => "attrs" \in R)

WholeAt(d, where, R) == IF d \in left THEN Stuck(where, R) ELSE Clean(d, where, R)

Whole(d) == WholeAt(d, pc[d], res[d])

Exclusive ==
  ~overlapped =>
    /\ \A d, e \in Dev : InUse(d) /\ InUse(e) => d = e
    /\ \A d \in Dev : Whole(d)

PlatformInv ==
  /\ Types /\ Flags
  /\ Loading /\ Presence /\ Matched
  /\ \A d \in Dev : Local(d)
  /\ Exclusive

-----------------------------------------------------------------------------

LEMMA TypesAndFlags == TypeOK <=> Types /\ Flags
  BY DEF TypeOK, Types, Flags, Where

LEMMA NotDevices == NoDev \notin Dev /\ Err \notin Dev /\ Null \notin Dev /\ Err # Null
  BY PlatformAssumption DEF NoDev, Err, Null, Dev

LEMMA InitPlatformInv == Init => PlatformInv
  <1> SUFFICES ASSUME Init PROVE PlatformInv
    OBVIOUS
  <1> USE NotDevices, PlatformAssumption DEF Init
  <1>1. Types
    <2>1. nth \in 0 .. NDev
      OBVIOUS
    <2> QED
      BY <2>1 DEF Types, Where
  <1>2. Flags
    BY DEF Flags
  <1>3. Loading /\ Presence /\ Matched
    BY DEF Loading, Presence, Matched, AstrayOnlyByOverride
  <1>4. \A d \in Dev : Local(d)
    BY DEF Local, Accounts, Memory
  <1>5. Exclusive
    BY DEF Exclusive, Whole, WholeAt, Clean, InUse
  <1> QED
    BY <1>1, <1>2, <1>3, <1>4, <1>5 DEF PlatformInv

-----------------------------------------------------------------------------
(* Steps of one device. *)

\* What a step of d towards where leaves as it was.
Moves(d, where) ==
  /\ Goto(d, where)
  /\ UNCHANGED <<module, bus, id_entry, overridden, file>>
  /\ by_override' \in {by_override, by_override \ {d}}

\* Resources of other devices stay, but that a probe may create its attributes
\* on the device of another.
Spares(d) ==
  \A e \in Dev \ {d} : res'[e] = res[e] \/ res'[e] = res[e] \cup {"attrs"}

\* Under way from one step to the next, a device stays on the bus and under its
\* driver, and goes astray only where AstrayOnlyByOverride says.
LEMMA MoveKeeps ==
  ASSUME PlatformInv, NEW d \in Dev, NEW where \in Where, Moves(d, where),
         pc[d] # "unbound", where # "matched",
         where = "kzalloc" => pc[d] = "matched" /\ UNCHANGED by_override,
         where = "sysfs" => sysfs,
         where = "oops" => sysfs \/ d \in by_override'
  PROVE  /\ pc' \in [Dev -> Where]
         /\ pc'[d] = where /\ \A e \in Dev \ {d} : pc'[e] = pc[e]
         /\ Loading' /\ Presence' /\ Matched'
  <1> USE DEF PlatformInv, Moves, Goto
  <1>1. /\ pc' \in [Dev -> Where]
        /\ pc'[d] = where /\ \A e \in Dev \ {d} : pc'[e] = pc[e]
    BY DEF Types
  <1>2. /\ UNCHANGED <<driver, sysfs, on_bus, setup, nth, present, id_entry, overridden, file>>
        /\ \A e \in Dev \ {d} : e \in by_override' <=> e \in by_override
    BY DEF module, bus
  <1>3. Loading'
    BY <1>1, <1>2 DEF Loading
  <1>4. Presence'
    BY <1>1, <1>2 DEF Presence
  <1>5. Matched'
    BY <1>1, <1>2 DEF Matched, AstrayOnlyByOverride
  <1> QED
    BY <1>1, <1>3, <1>4, <1>5

\* The accounts of one device do not depend on the others.
LEMMA LocalKept ==
  ASSUME PlatformInv, NEW d \in Dev, \A e \in Dev \ {d} : pc'[e] = pc[e],
         Spares(d), Local(d)'
  PROVE  \A e \in Dev : Local(e)'
  <1>1. ASSUME NEW e \in Dev \ {d} PROVE Local(e)'
    <2>1. Local(e) /\ pc'[e] = pc[e]
      BY DEF PlatformInv
    <2>2. CASE res'[e] = res[e]
      BY <2>1, <2>2 DEF Local
    <2>3. CASE res'[e] = res[e] \cup {"attrs"}
      BY <2>1, <2>3 DEF Local, Accounts, Memory
    <2> QED
      BY <2>2, <2>3 DEF Spares
  <1> QED
    BY <1>1

\* A step of d that leaves device_pcd and the history alone concerns d only.
LEMMA ExclusiveKept ==
  ASSUME PlatformInv, NEW d \in Dev,
         \A e \in Dev \ {d} : pc'[e] = pc[e] /\ res'[e] = res[e],
         UNCHANGED <<sysfs, device_pcd, history>>,
         InUse(d)' => InUse(d),
         ~overlapped => Whole(d)'
  PROVE  Exclusive'
  <1> SUFFICES ASSUME ~overlapped
               PROVE  /\ \A e, g \in Dev : InUse(e)' /\ InUse(g)' => e = g
                      /\ \A e \in Dev : Whole(e)'
    BY DEF Exclusive, history
  <1>1. \A e \in Dev : InUse(e)' => InUse(e)
    BY DEF InUse
  <1>2. ASSUME NEW e \in Dev \ {d} PROVE Whole(e)'
    <2>1. Whole(e) /\ UNCHANGED <<pc[e], res[e], device_pcd, left, sysfs>>
      BY DEF PlatformInv, Exclusive, history
    <2> QED
      BY <2>1 DEF Whole, WholeAt, Stuck, Clean
  <1> QED
    BY <1>1, <1>2 DEF PlatformInv, Exclusive

\* A step that changes only d and what d holds.
Quiet(d, where, R) ==
  /\ Moves(d, where) /\ res' = [res EXCEPT ![d] = R]
  /\ UNCHANGED <<device_pcd, history>>
  /\ dangling' \subseteq {f \in File : file[f] # NoDev}

\* What is to be shown of it.
LEMMA QuietStep ==
  ASSUME PlatformInv, NEW d \in Dev, NEW where \in Where, NEW R \in SUBSET Resource,
         Quiet(d, where, R),
         pc[d] # "unbound", where # "matched",
         where = "kzalloc" => pc[d] = "matched" /\ UNCHANGED by_override,
         where = "sysfs" => sysfs,
         where = "oops" => sysfs \/ d \in by_override',
         where \in {"check", "sysfs"} => InUse(d),
         Accounts(where, R), ~overlapped => WholeAt(d, where, R)
  PROVE  PlatformInv'
  <1>1. /\ pc' \in [Dev -> Where]
        /\ pc'[d] = where /\ \A e \in Dev \ {d} : pc'[e] = pc[e]
        /\ Loading' /\ Presence' /\ Matched'
    BY MoveKeeps DEF Quiet
  <1>2. /\ res' \in [Dev -> SUBSET Resource] /\ res'[d] = R
        /\ \A e \in Dev \ {d} : res'[e] = res[e]
    BY DEF PlatformInv, Types, Quiet
  <1>3. /\ UNCHANGED <<driver, sysfs, on_bus, setup, nth, present, id_entry, overridden,
                       file, device_pcd, overlapped, left>>
        /\ by_override' \subseteq by_override
    BY DEF Quiet, Moves, module, bus, history
  <1>4. Types'
    BY <1>1, <1>2, <1>3 DEF PlatformInv, Types, Quiet
  <1>5. Flags'
    BY <1>3 DEF PlatformInv, Flags
  <1>6. Local(d)' /\ (~overlapped => Whole(d)')
    BY <1>1, <1>2, <1>3 DEF Local, Accounts, Whole, WholeAt, Stuck, Clean
  <1>7. \A e \in Dev : Local(e)'
    BY <1>1, <1>2, <1>6, LocalKept DEF Spares
  <1>8. Exclusive'
    BY <1>1, <1>2, <1>3, <1>6, ExclusiveKept DEF InUse, history
  <1> QED
    BY <1>1, <1>4, <1>5, <1>7, <1>8 DEF PlatformInv

\* Before the step, d is accounted for.
LEMMA Before ==
  ASSUME PlatformInv, NEW d \in Dev
  PROVE  /\ Accounts(pc[d], res[d]) /\ (~overlapped => WholeAt(d, pc[d], res[d]))
         /\ res[d] \subseteq Resource /\ res = [res EXCEPT ![d] = res[d]]
         /\ dangling \subseteq {f \in File : file[f] # NoDev}
  BY DEF PlatformInv, Local, Exclusive, Whole, Types

\* The configuration is found through the table, or the device was overridden.
LEMMA KzallocInv == ASSUME PlatformInv, NEW d \in Dev, Kzalloc(d) PROVE PlatformInv'
  <1>1. /\ pc[d] = "kzalloc" /\ Accounts("kzalloc", res[d])
        /\ ~overlapped => WholeAt(d, "kzalloc", res[d])
    BY Before DEF Kzalloc
  <1>2. CASE Gain(d, Memory) /\ Goto(d, "cdev_add") /\ ForgetMatch(d)
    <2> DEFINE R == res[d] \cup Memory
    <2>1. Quiet(d, "cdev_add", R) /\ R \in SUBSET Resource
      BY <1>2, Before DEF Kzalloc, ForgetMatch, Quiet, Moves, Gain, files, match, Resource, Memory
    <2>2. Accounts("cdev_add", R)
      BY <1>1 DEF Accounts, Memory
    <2>3. ~overlapped => WholeAt(d, "cdev_add", R)
      BY <1>2, <1>1 DEF WholeAt, Stuck, Clean, Memory
    <2> QED
      BY <1>2, <1>1, <2>1, <2>2, <2>3, QuietStep DEF Where
  <1>3. CASE /\ id_entry[d] # "table" /\ Gain(d, {"dev_data"}) /\ Goto(d, "oops")
             /\ UNCHANGED by_override
    <2> DEFINE R == res[d] \cup {"dev_data"}
    <2>1. d \in by_override'
      BY <1>3, <1>1 DEF PlatformInv, Matched
    <2>2. Quiet(d, "oops", R) /\ R \in SUBSET Resource
      BY <1>3, Before DEF Kzalloc, ForgetMatch, Quiet, Moves, Gain, files, match, Resource, Memory
    <2>3. Accounts("oops", R)
      BY <1>1 DEF Accounts, Memory
    <2>4. ~overlapped => WholeAt(d, "oops", R)
      BY <1>3, <1>1 DEF WholeAt, Stuck, Clean, Memory
    <2> QED
      BY <1>3, <1>1, <2>1, <2>2, <2>3, <2>4, QuietStep DEF Where
  <1>4. CASE UNCHANGED res /\ Goto(d, "unbound") /\ ForgetMatch(d)
    <2>1. Quiet(d, "unbound", res[d]) /\ res[d] \in SUBSET Resource
      BY <1>4, Before DEF Kzalloc, ForgetMatch, Quiet, Moves, files, match, Resource, Memory
    <2>2. Accounts("unbound", res[d])
      BY <1>1 DEF Accounts, Memory
    <2>3. ~overlapped => WholeAt(d, "unbound", res[d])
      BY <1>4, <1>1 DEF WholeAt, Stuck, Clean, Memory
    <2> QED
      BY <1>4, <1>1, <2>1, <2>2, <2>3, QuietStep DEF Where
  <1> QED
    BY <1>2, <1>3, <1>4 DEF Kzalloc

LEMMA CdevAddInv == ASSUME PlatformInv, NEW d \in Dev, CdevAdd(d) PROVE PlatformInv'
  <1>1. /\ pc[d] = "cdev_add" /\ Accounts("cdev_add", res[d])
        /\ ~overlapped => WholeAt(d, "cdev_add", res[d])
    BY Before DEF CdevAdd
  <1>2. CASE Gain(d, {"cdev"}) /\ Goto(d, "device_create")
    <2> DEFINE R == res[d] \cup {"cdev"}
    <2>1. Quiet(d, "device_create", R) /\ R \in SUBSET Resource
      BY <1>2, Before DEF CdevAdd, Quiet, Moves, Gain, files, match, Resource, Memory
    <2>2. Accounts("device_create", R)
      BY <1>1 DEF Accounts, Memory
    <2>3. ~overlapped => WholeAt(d, "device_create", R)
      BY <1>2, <1>1 DEF WholeAt, Stuck, Clean, Memory
    <2> QED
      BY <1>2, <1>1, <2>1, <2>2, <2>3, QuietStep DEF Where
  <1>3. CASE UNCHANGED res /\ Goto(d, "buffer_free")
    <2>1. Quiet(d, "buffer_free", res[d]) /\ res[d] \in SUBSET Resource
      BY <1>3, Before DEF CdevAdd, Quiet, Moves, files, match, Resource, Memory
    <2>2. Accounts("buffer_free", res[d])
      BY <1>1 DEF Accounts, Memory
    <2>3. ~overlapped => WholeAt(d, "buffer_free", res[d])
      BY <1>3, <1>1 DEF WholeAt, Stuck, Clean, Memory
    <2> QED
      BY <1>3, <1>1, <2>1, <2>2, <2>3, QuietStep DEF Where
  <1> QED
    BY <1>2, <1>3 DEF CdevAdd

\* A probe that was not disturbed finds in device_pcd what it stored there.
LEMMA CheckDeviceInv == ASSUME PlatformInv, NEW d \in Dev, CheckDevice(d) PROVE PlatformInv'
  <1>1. /\ pc[d] = "check" /\ Accounts("check", res[d])
        /\ ~overlapped => WholeAt(d, "check", res[d])
    BY Before DEF CheckDevice
  <1>2. CASE device_pcd = Err /\ UNCHANGED res /\ Goto(d, "cdev_deletion")
    <2>1. Quiet(d, "cdev_deletion", res[d]) /\ res[d] \in SUBSET Resource
      BY <1>2, Before DEF CheckDevice, Quiet, Moves, files, match, Resource, Memory
    <2>2. Accounts("cdev_deletion", res[d])
      BY <1>1, NotDevices DEF Accounts, Memory
    <2>3. ~overlapped => WholeAt(d, "cdev_deletion", res[d])
      BY <1>2, <1>1, NotDevices DEF WholeAt, Stuck, Clean, Memory
    <2> QED
      BY <1>2, <1>1, <2>1, <2>2, <2>3, QuietStep, NotDevices DEF Where
  <1>3. CASE device_pcd # Err /\ Gain(d, {"drvdata"}) /\ sysfs /\ Goto(d, "sysfs")
    <2> DEFINE R == res[d] \cup {"drvdata"}
    <2>1. Quiet(d, "sysfs", R) /\ R \in SUBSET Resource
      BY <1>3, Before DEF CheckDevice, Quiet, Moves, Gain, files, match, Resource, Memory
    <2>2. Accounts("sysfs", R)
      BY <1>1, NotDevices DEF Accounts, Memory
    <2>3. ~overlapped => WholeAt(d, "sysfs", R)
      BY <1>3, <1>1, NotDevices DEF WholeAt, Stuck, Clean, Memory
    <2> QED
      BY <1>3, <1>1, <2>1, <2>2, <2>3, QuietStep DEF Where, InUse
  <1>4. CASE device_pcd # Err /\ Gain(d, {"drvdata"}) /\ ~sysfs /\ Goto(d, "bound")
    <2> DEFINE R == res[d] \cup {"drvdata"}
    <2>1. Quiet(d, "bound", R) /\ R \in SUBSET Resource
      BY <1>4, Before DEF CheckDevice, Quiet, Moves, Gain, files, match, Resource, Memory
    <2>2. Accounts("bound", R)
      BY <1>1, NotDevices DEF Accounts, Memory
    <2>3. ~overlapped => WholeAt(d, "bound", R)
      BY <1>4, <1>1, NotDevices DEF WholeAt, Stuck, Clean, Memory
    <2> QED
      BY <1>4, <1>1, <2>1, <2>2, <2>3, QuietStep DEF Where
  <1> QED
    BY <1>2, <1>3, <1>4 DEF CheckDevice

LEMMA CdevDeletionInv == ASSUME PlatformInv, NEW d \in Dev, CdevDeletion(d) PROVE PlatformInv'
  <1>1. /\ pc[d] = "cdev_deletion" /\ Accounts("cdev_deletion", res[d])
        /\ ~overlapped => WholeAt(d, "cdev_deletion", res[d])
    BY Before DEF CdevDeletion
  <1> DEFINE R == res[d] \ {"cdev"}
  <1>2. Quiet(d, "buffer_free", R) /\ R \in SUBSET Resource
    BY Before DEF CdevDeletion, Quiet, Moves, Lose, files, match, Resource, Memory
  <1>3. Accounts("buffer_free", R)
    BY <1>1 DEF Accounts, Memory
  <1>4. ~overlapped => WholeAt(d, "buffer_free", R)
    BY <1>1 DEF WholeAt, Stuck, Clean, Memory
  <1> QED
    BY <1>1, <1>2, <1>3, <1>4, QuietStep DEF Where

\* Without its cdev, a device whose memory is freed leaves no more than a device file.
LEMMA BufferFreeInv == ASSUME PlatformInv, NEW d \in Dev, BufferFree(d) PROVE PlatformInv'
  <1>1. /\ pc[d] = "buffer_free" /\ Accounts("buffer_free", res[d])
        /\ ~overlapped => WholeAt(d, "buffer_free", res[d])
    BY Before DEF BufferFree
  <1> DEFINE R == res[d] \ (Memory \cup {"drvdata"})
  <1>2. Quiet(d, "unbound", R) /\ R \in SUBSET Resource
    BY Before, NotDevices DEF BufferFree, Quiet, Moves, Free, Lose, files, match, Resource, Memory
  <1>3. Accounts("unbound", R)
    BY <1>1, Before DEF Accounts, Memory, Resource
  <1>4. ~overlapped => WholeAt(d, "unbound", R)
    <2>1. ~overlapped /\ d \notin left => \A r \in Resource : r \notin R
      BY <1>1 DEF WholeAt, Clean, Accounts, Memory, Resource
    <2>2. ~overlapped /\ d \notin left => R = {}
      BY <2>1, Before
    <2> QED
      BY <1>1, <2>2 DEF WholeAt, Stuck, Clean, Memory
  <1> QED
    BY <1>1, <1>2, <1>3, <1>4, QuietStep DEF Where

LEMMA StartRemoveInv == ASSUME PlatformInv, NEW d \in Dev, StartRemove(d) PROVE PlatformInv'
  <1>1. /\ pc[d] = "bound" /\ Accounts("bound", res[d])
        /\ ~overlapped => WholeAt(d, "bound", res[d])
    BY Before DEF StartRemove
  <1>2. Quiet(d, "remove", res[d]) /\ res[d] \in SUBSET Resource
    BY Before DEF StartRemove, Quiet, Moves, files, match, Resource, Memory
  <1>3. Accounts("remove", res[d])
    BY <1>1 DEF Accounts, Memory
  <1>4. ~overlapped => WholeAt(d, "remove", res[d])
    BY <1>1 DEF WholeAt, Stuck, Clean, Memory
  <1> QED
    BY <1>1, <1>2, <1>3, <1>4, QuietStep DEF Where

LEMMA DeviceDestroyInv == ASSUME PlatformInv, NEW d \in Dev, DeviceDestroy(d) PROVE PlatformInv'
  <1>1. /\ pc[d] = "remove" /\ Accounts("remove", res[d])
        /\ ~overlapped => WholeAt(d, "remove", res[d])
    BY Before DEF DeviceDestroy
  <1> DEFINE R == res[d] \ {"node", "attrs"}
  <1>2. Quiet(d, "remove_cdev", R) /\ R \in SUBSET Resource
    BY Before DEF DeviceDestroy, Quiet, Moves, Lose, files, match, Resource, Memory
  <1>3. Accounts("remove_cdev", R)
    BY <1>1 DEF Accounts, Memory
  <1>4. ~overlapped => WholeAt(d, "remove_cdev", R)
    BY <1>1 DEF WholeAt, Stuck, Clean, Memory
  <1> QED
    BY <1>1, <1>2, <1>3, <1>4, QuietStep DEF Where

LEMMA CdevDelInv == ASSUME PlatformInv, NEW d \in Dev, CdevDel(d) PROVE PlatformInv'
  <1>1. /\ pc[d] = "remove_cdev" /\ Accounts("remove_cdev", res[d])
        /\ ~overlapped => WholeAt(d, "remove_cdev", res[d])
    BY Before DEF CdevDel
  <1> DEFINE R == res[d] \ {"cdev"}
  <1>2. Quiet(d, "remove_free", R) /\ R \in SUBSET Resource
    BY Before DEF CdevDel, Quiet, Moves, Lose, files, match, Resource, Memory
  <1>3. Accounts("remove_free", R)
    BY <1>1 DEF Accounts, Memory
  <1>4. ~overlapped => WholeAt(d, "remove_free", R)
    BY <1>1 DEF WholeAt, Stuck, Clean, Memory
  <1> QED
    BY <1>1, <1>2, <1>3, <1>4, QuietStep DEF Where

LEMMA RemoveFreeInv == ASSUME PlatformInv, NEW d \in Dev, RemoveFree(d) PROVE PlatformInv'
  <1>1. /\ pc[d] = "remove_free" /\ Accounts("remove_free", res[d])
        /\ ~overlapped => WholeAt(d, "remove_free", res[d])
    BY Before DEF RemoveFree
  <1> DEFINE R == res[d] \ (Memory \cup {"drvdata"})
  <1>2. Quiet(d, "unbound", R) /\ R \in SUBSET Resource
    BY Before, NotDevices DEF RemoveFree, Quiet, Moves, Free, Lose, files, match, Resource, Memory
  <1>3. Accounts("unbound", R)
    BY <1>1, Before DEF Accounts, Memory, Resource
  <1>4. ~overlapped => WholeAt(d, "unbound", R)
    <2>1. ~overlapped /\ d \notin left => \A r \in Resource : r \notin R
      BY <1>1 DEF WholeAt, Clean, Accounts, Memory, Resource
    <2>2. ~overlapped /\ d \notin left => R = {}
      BY <2>1, Before
    <2> QED
      BY <1>1, <2>2 DEF WholeAt, Stuck, Clean, Memory
  <1> QED
    BY <1>1, <1>2, <1>3, <1>4, QuietStep DEF Where

\* A match is one with the table of this driver, or by override.
LEMMA MatchInv == ASSUME PlatformInv, NEW d \in Dev, Match(d) PROVE PlatformInv'
  <1>1. /\ pc[d] = "unbound" /\ Accounts("unbound", res[d])
        /\ ~overlapped => WholeAt(d, "unbound", res[d])
    BY Before DEF Match, MayMatch
  <1>2. /\ pc' \in [Dev -> Where]
        /\ pc'[d] = "matched" /\ \A e \in Dev \ {d} : pc'[e] = pc[e]
    BY DEF PlatformInv, Match, Goto, Types, Where
  <1>3. /\ id_entry' \in [Dev -> {"null", "table", "stale"}]
        /\ by_override' \subseteq Dev /\ by_override \subseteq by_override'
        /\ id_entry'[d] = "table" \/ d \in by_override'
        /\ \A e \in Dev \ {d} : id_entry'[e] = id_entry[e]
    BY DEF PlatformInv, Match, MatchBy, Types
  <1>4. /\ on_bus /\ d \in present
        /\ UNCHANGED <<driver, sysfs, on_bus, setup, nth, present, overridden, res,
                       device_pcd, file, dangling, overlapped, left>>
    BY DEF Match, MayMatch, module, bus, files, history
  <1>5. Types'
    BY <1>2, <1>3, <1>4 DEF PlatformInv, Types
  <1>6. Flags'
    BY <1>4 DEF PlatformInv, Flags
  <1>7. Loading'
    BY <1>2, <1>4 DEF PlatformInv, Loading
  <1>8. Presence'
    BY <1>2, <1>4 DEF PlatformInv, Presence
  <1>9. Matched'
    BY <1>2, <1>3, <1>4 DEF PlatformInv, Matched, AstrayOnlyByOverride
  <1>10. Local(d)' /\ (~overlapped => Whole(d)')
    BY <1>1, <1>2, <1>4 DEF Local, Accounts, Whole, WholeAt, Stuck, Clean
  <1>11. \A e \in Dev : Local(e)'
    BY <1>2, <1>4, <1>10, LocalKept DEF Spares
  <1>12. Exclusive'
    BY <1>2, <1>4, <1>10, ExclusiveKept DEF InUse, history
  <1> QED
    BY <1>5, <1>6, <1>7, <1>8, <1>9, <1>11, <1>12 DEF PlatformInv

\* A device on its way out is not probed; every other is, as it was matched.
LEMMA StartProbeInv == ASSUME PlatformInv, NEW d \in Dev, StartProbe(d) PROVE PlatformInv'
  <1>1. /\ pc[d] = "matched" /\ Accounts("matched", res[d])
        /\ ~overlapped => WholeAt(d, "matched", res[d])
    BY Before DEF StartProbe
  <1>2. PICK where \in {"kzalloc", "unbound"} :
          /\ Goto(d, where)
          /\ where = "kzalloc" => UNCHANGED by_override
          /\ where = "unbound" => ForgetMatch(d)
    BY DEF StartProbe
  <1>3. Quiet(d, where, res[d]) /\ res[d] \in SUBSET Resource
    BY <1>2, Before DEF StartProbe, ForgetMatch, Quiet, Moves, files, Resource
  <1>4. Accounts(where, res[d])
    BY <1>1 DEF Accounts, Memory
  <1>5. ~overlapped => WholeAt(d, where, res[d])
    BY <1>1 DEF WholeAt, Stuck, Clean
  <1> QED
    BY <1>1, <1>2, <1>3, <1>4, <1>5, QuietStep DEF Where

\* device_pcd is overwritten: either nobody else needs it, or the probes overlapped.
LEMMA DeviceCreateInv ==
  ASSUME PlatformInv, NEW d \in Dev, DeviceCreate(d) PROVE PlatformInv'
  <1>1. /\ pc[d] = "device_create" /\ Accounts("device_create", res[d])
        /\ ~overlapped => WholeAt(d, "device_create", res[d])
    BY Before DEF DeviceCreate
  <1>2. PICK R \in SUBSET Resource :
          /\ res' = [res EXCEPT ![d] = R]
          /\ \/ "node" \notin res[d] /\ R = res[d] \cup {"node"} /\ device_pcd' = d
             \/ R = res[d] /\ device_pcd' = Err
    <2>1. CASE "node" \notin res[d] /\ Gain(d, {"node"}) /\ device_pcd' = d
      <3>1. res[d] \cup {"node"} \in SUBSET Resource
        BY Before DEF Resource
      <3> QED
        BY <2>1, <3>1 DEF Gain
    <2>2. CASE UNCHANGED res /\ device_pcd' = Err
      BY <2>2, Before
    <2> QED
      BY <2>1, <2>2 DEF DeviceCreate
  <1>3. Moves(d, "check") /\ UNCHANGED <<sysfs, dangling>>
    BY DEF DeviceCreate, Moves, files, match, module
  <1>4. /\ pc' \in [Dev -> Where]
        /\ pc'[d] = "check" /\ \A e \in Dev \ {d} : pc'[e] = pc[e]
        /\ Loading' /\ Presence' /\ Matched'
    BY <1>1, <1>3, MoveKeeps DEF Where
  <1>5. /\ res' \in [Dev -> SUBSET Resource] /\ res'[d] = R
        /\ \A e \in Dev \ {d} : res'[e] = res[e]
    BY <1>2 DEF PlatformInv, Types
  <1>6. left' \in {{}, left}
    BY DEF DeviceCreate, Overlap
  <1>7. Types'
    BY <1>2, <1>3, <1>4, <1>5, <1>6 DEF PlatformInv, Types, Moves, module, bus
  <1>8. Flags'
    <2>1. overlapped' \in BOOLEAN
      BY DEF DeviceCreate, Overlap
    <2> QED
      BY <1>3, <2>1 DEF PlatformInv, Flags, Moves, module
  <1>9. Accounts("check", R)
    BY <1>1, <1>2 DEF Accounts, Memory
  <1>10. \A e \in Dev : Local(e)'
    BY <1>4, <1>5, <1>9, LocalKept DEF Spares, Local, Accounts
  <1>11. ASSUME ~overlapped'
         PROVE  /\ \A e, g \in Dev : InUse(e)' /\ InUse(g)' => e = g
                /\ \A e \in Dev : Whole(e)'
    <2>1. ~overlapped /\ left' = left /\ \A e \in Dev \ {d} : ~InUse(e)
      BY <1>11 DEF DeviceCreate, Overlap
    <2>2. \A e \in Dev \ {d} : ~InUse(e)'
      BY <1>4, <2>1 DEF InUse
    <2>3. ASSUME NEW e \in Dev \ {d} PROVE Whole(e)'
      <3>1. WholeAt(e, pc[e], res[e]) /\ pc[e] \notin {"check", "sysfs"}
        BY <2>1 DEF PlatformInv, Exclusive, Whole, InUse
      <3> QED
        BY <1>3, <1>4, <1>5, <2>1, <3>1 DEF Whole, WholeAt, Stuck, Clean
    <2>4. Whole(d)'
      BY <1>1, <1>2, <1>4, <1>5, <2>1 DEF Whole, WholeAt, Stuck, Clean
    <2> QED
      BY <2>2, <2>3, <2>4
  <1> QED
    BY <1>4, <1>7, <1>8, <1>10, <1>11 DEF PlatformInv, Exclusive

\* The attributes are created on the device of this probe, unless an overlap was
\* noted before.
LEMMA CreateFilesInv ==
  ASSUME PlatformInv, NEW d \in Dev, CreateFiles(d) PROVE PlatformInv'
  <1>1. /\ pc[d] = "sysfs" /\ Accounts("sysfs", res[d]) /\ sysfs
        /\ ~overlapped => device_pcd = d /\ d \notin left /\ Clean(d, "sysfs", res[d])
    BY Before DEF CreateFiles, PlatformInv, Matched, WholeAt, Stuck, Clean
  <1>2. PICK where \in {"bound", "cdev_deletion", "oops"} :
          /\ Goto(d, where)
          /\ where = "bound" => /\ device_pcd \in Dev /\ "node" \in res[device_pcd]
                                /\ Gain(device_pcd, {"attrs"}) /\ UNCHANGED left
          /\ where # "bound" => UNCHANGED res
          /\ where = "cdev_deletion" => left' = IF overlapped THEN {} ELSE left \cup {d}
          /\ where = "oops" => UNCHANGED left
    BY DEF CreateFiles
  <1>3. Moves(d, where) /\ UNCHANGED <<sysfs, dangling, overlapped, device_pcd>>
    BY <1>2 DEF CreateFiles, Moves, files, match, module
  <1>4. /\ pc' \in [Dev -> Where]
        /\ pc'[d] = where /\ \A e \in Dev \ {d} : pc'[e] = pc[e]
        /\ Loading' /\ Presence' /\ Matched'
    BY <1>1, <1>3, MoveKeeps DEF Where
  <1>5. /\ res' \in [Dev -> SUBSET Resource] /\ Spares(d)
        /\ res'[d] \in {res[d], res[d] \cup {"attrs"}}
        /\ ~overlapped => /\ \A e \in Dev \ {d} : res'[e] = res[e]
                          /\ where = "bound" => res'[d] = res[d] \cup {"attrs"}
    BY <1>1, <1>2 DEF PlatformInv, Types, Spares, Gain, Resource
  <1>6. left' \subseteq Dev
    BY <1>2 DEF PlatformInv, Types
  <1>7. Types'
    BY <1>3, <1>4, <1>5, <1>6 DEF PlatformInv, Types, Moves, module, bus
  <1>8. Flags'
    BY <1>3 DEF PlatformInv, Flags, Moves, module
  <1>9. Local(d)'
    BY <1>1, <1>2, <1>4, <1>5 DEF Local, Accounts, Memory
  <1>10. \A e \in Dev : Local(e)'
    BY <1>4, <1>5, <1>9, LocalKept
  <1>11. ASSUME ~overlapped
         PROVE  /\ \A e, g \in Dev : InUse(e)' /\ InUse(g)' => e = g
                /\ \A e \in Dev : Whole(e)'
    <2>1. \A e \in Dev : InUse(e)' => InUse(e)
      BY <1>4 DEF InUse
    <2>2. ASSUME NEW e \in Dev \ {d} PROVE Whole(e)'
      <3>1. WholeAt(e, pc[e], res[e]) /\ (e \in left' <=> e \in left)
        BY <1>2, <1>11 DEF PlatformInv, Exclusive, Whole
      <3> QED
        BY <1>3, <1>4, <1>5, <1>11, <3>1 DEF Whole, WholeAt, Stuck, Clean
    <2>3. Whole(d)'
      BY <1>1, <1>2, <1>4, <1>5, <1>11 DEF Whole, WholeAt, Stuck, Clean
    <2> QED
      BY <1>11, <2>1, <2>2, <2>3 DEF PlatformInv, Exclusive
  <1> QED
    BY <1>3, <1>4, <1>7, <1>8, <1>10, <1>11 DEF PlatformInv, Exclusive

-----------------------------------------------------------------------------
(* Steps of the modules and of user space, which leave what the driver     *)
(* holds as it is.                                                         *)

\* device_pcd and the driver loaded matter only to devices under way.
LEMMA RestingKept ==
  ASSUME PlatformInv, UNCHANGED <<pc, res, history>>,
         \/ UNCHANGED <<device_pcd, sysfs>>
         \/ \A d \in Dev : pc[d] = "unbound"
  PROVE  (\A d \in Dev : Local(d)') /\ Exclusive'
  <1>1. \A d \in Dev : Local(d)'
    BY DEF PlatformInv, Local
  <1>2. ASSUME ~overlapped, NEW d \in Dev PROVE Whole(d)'
    <2>1. WholeAt(d, pc[d], res[d]) /\ pc'[d] = pc[d] /\ res'[d] = res[d] /\ left' = left
      BY <1>2 DEF PlatformInv, Exclusive, Whole, history
    <2>2. CASE UNCHANGED <<device_pcd, sysfs>>
      BY <2>1, <2>2 DEF Whole, WholeAt, Stuck, Clean
    <2>3. CASE pc[d] = "unbound"
      BY <2>1, <2>3 DEF Whole, WholeAt, Stuck, Clean
    <2> QED
      BY <2>2, <2>3
  <1>3. Exclusive'
    BY <1>2 DEF PlatformInv, Exclusive, InUse, history
  <1> QED
    BY <1>1, <1>3

\* Only the absence of the device module lets its data start afresh.
LEMMA DeviceModuleInv == ASSUME PlatformInv, DeviceModule PROVE PlatformInv'
  <1>1. UNCHANGED <<driver, sysfs, on_bus, pc, res, device_pcd, file, dangling,
                    overlapped, left>>
    BY DEF DeviceModule, module, files, history
  <1>2. (\A d \in Dev : Local(d)') /\ Exclusive' /\ Flags' /\ Loading'
    BY <1>1, RestingKept DEF PlatformInv, Flags, Loading, history
  <1>3. /\ setup' \in {"absent", "init", "live", "exit", "oops"} /\ nth' \in 0 .. NDev
        /\ present' \subseteq Dev
        /\ Presence'
    <2> USE PlatformAssumption DEF PlatformInv, Types, Presence, Dev
    <2>1. CASE SetupStarts("absent", "init")
      BY <1>1, <2>1 DEF SetupStarts
    <2>2. CASE SetupStarts("live", "exit")
      BY <1>1, <2>2 DEF SetupStarts
    <2>3. CASE RegisterDevice
      BY <1>1, <2>3 DEF RegisterDevice
    <2>4. CASE SetupReturns("init", "live")
      BY <1>1, <2>4 DEF SetupReturns
    <2>5. CASE UnregisterDevice
      <3>1. nth \in Dev /\ nth < NDev /\ pc[nth] = "unbound"
        BY <2>5 DEF UnregisterDevice
      <3> QED
        BY <1>1, <2>5, <3>1 DEF UnregisterDevice
    <2>6. CASE UnregisterNothing
      BY <1>1, <2>6 DEF UnregisterNothing
    <2>7. CASE SetupReturns("exit", "absent")
      BY <1>1, <2>7 DEF SetupReturns
    <2> QED
      BY <2>1, <2>2, <2>3, <2>4, <2>5, <2>6, <2>7
         DEF DeviceModule, pcdev_platform_init, pcdev_platform_exit
  <1>4. /\ id_entry' \in [Dev -> {"null", "table", "stale"}] /\ overridden' \subseteq Dev
        /\ by_override' \subseteq Dev
        /\ Matched'
    <2>1. CASE SetupStarts("absent", "init")
      <3>1. \A d \in Dev : pc[d] = "unbound"
        BY <2>1 DEF PlatformInv, Presence, SetupStarts
      <3> QED
        BY <1>1, <2>1, <3>1 DEF SetupStarts, Matched, AstrayOnlyByOverride
    <2>2. CASE UNCHANGED match
      BY <1>1, <2>2 DEF PlatformInv, Types, Matched, AstrayOnlyByOverride, match
    <2> QED
      BY <2>1, <2>2 DEF DeviceModule, SetupStarts, SetupReturns, RegisterDevice,
         UnregisterDevice, UnregisterNothing, pcdev_platform_init, pcdev_platform_exit
  <1>5. Types'
    BY <1>1, <1>3, <1>4 DEF PlatformInv, Types
  <1> QED
    BY <1>2, <1>3, <1>4, <1>5 DEF PlatformInv

\* How a device was matched does not change with its driver_override.
LEMMA DriverOverrideInv ==
  ASSUME PlatformInv, NEW d \in Dev, DriverOverride(d) PROVE PlatformInv'
  <1>1. /\ UNCHANGED <<driver, sysfs, on_bus, setup, nth, present, id_entry, by_override,
                       pc, res, device_pcd, file, dangling, overlapped, left>>
        /\ overridden' \in {overridden \cup {d}, overridden \ {d}}
    BY DEF DriverOverride, module, bus, files, history
  <1>2. (\A e \in Dev : Local(e)') /\ Exclusive' /\ Flags' /\ Loading' /\ Presence'
    BY <1>1, RestingKept DEF PlatformInv, Flags, Loading, Presence, history
  <1>3. Matched'
    BY <1>1 DEF PlatformInv, Matched, AstrayOnlyByOverride
  <1>4. Types'
    BY <1>1 DEF PlatformInv, Types
  <1> QED
    BY <1>2, <1>3, <1>4 DEF PlatformInv

\* A driver comes and goes only while every device is unbound.
LEMMA DriverModuleInv ==
  ASSUME PlatformInv, Insmod \/ pcd_driver_init \/ Rmmod \/ pcd_driver_exit
  PROVE  PlatformInv'
  <1>1. UNCHANGED <<setup, nth, present, overridden, by_override, pc, res, file,
                    dangling, overlapped, left>>
    BY DEF Insmod, pcd_driver_init, Rmmod, pcd_driver_exit, bus, match, files, history
  <1>2. \/ \A d \in Dev : pc[d] = "unbound"
        \/ /\ UNCHANGED <<sysfs, id_entry, device_pcd>>
           /\ driver' \in {"live", "detaching"} /\ driver = "live"
    <2>1. CASE Rmmod
      BY <2>1 DEF Rmmod, match
    <2>2. CASE Insmod \/ pcd_driver_init
      BY <2>2 DEF PlatformInv, Loading, Insmod, pcd_driver_init, Goes, AllocChrdevRegion,
                  ClassCreate, PlatformDriverRegister
    <2>3. CASE pcd_driver_exit
      BY <2>3 DEF PlatformInv, Loading, pcd_driver_exit, Goes, PlatformDriverUnregister,
                  ClassDestroy, UnregisterRegion
    <2> QED
      BY <2>1, <2>2, <2>3
  <1>3. (\A d \in Dev : Local(d)') /\ Exclusive'
    BY <1>1, <1>2, RestingKept DEF history
  <1>4. Presence'
    BY <1>1 DEF PlatformInv, Presence
  <1>5. Matched'
    BY <1>1, <1>2 DEF PlatformInv, Matched, AstrayOnlyByOverride
  <1>6. /\ driver' \in {"absent", "alloc_chrdev_region", "class_create",
                        "platform_driver_register", "live", "detaching", "class_destroy",
                        "unregister_chrdev_region"}
        /\ driver' # "live" => \/ driver # "live"
                               \/ \A f \in File : file[f] = NoDev
        /\ driver' \notin {"live", "detaching"} => \A d \in Dev : pc[d] = "unbound"
    BY DEF PlatformInv, Loading, Types, Insmod, pcd_driver_init, Rmmod, pcd_driver_exit,
           Goes, AllocChrdevRegion, ClassCreate, PlatformDriverRegister,
           PlatformDriverUnregister, ClassDestroy, UnregisterRegion, Pinned
  <1>7. on_bus' \in BOOLEAN /\ sysfs' \in BOOLEAN
    BY DEF PlatformInv, Flags, Insmod, pcd_driver_init, Rmmod, pcd_driver_exit,
           Goes, AllocChrdevRegion, ClassCreate, PlatformDriverRegister
  <1>8. on_bus' => driver' = "live"
    BY DEF PlatformInv, Loading, Insmod, pcd_driver_init, Rmmod, pcd_driver_exit,
           Goes, AllocChrdevRegion, ClassCreate, PlatformDriverRegister,
           PlatformDriverUnregister, ClassDestroy, UnregisterRegion
  <1>9. device_pcd' \in Dev \cup {Err, Null}
    BY DEF PlatformInv, Types, Insmod, pcd_driver_init, Rmmod, pcd_driver_exit
  <1>10. id_entry' \in [Dev -> {"null", "table", "stale"}]
    BY DEF PlatformInv, Types, Insmod, pcd_driver_init, Rmmod, pcd_driver_exit,
           Unloaded, match
  <1>11. Types'
    BY <1>1, <1>6, <1>9, <1>10 DEF PlatformInv, Types
  <1>12. Flags'
    BY <1>1, <1>7 DEF PlatformInv, Flags
  <1>13. Loading'
    BY <1>1, <1>6, <1>8 DEF PlatformInv, Loading
  <1> QED
    BY <1>3, <1>4, <1>5, <1>11, <1>12, <1>13 DEF PlatformInv

LEMMA FileInv ==
  ASSUME PlatformInv, NEW f \in File, Close(f) \/ \E d \in Dev : Open(f, d)
  PROVE  PlatformInv'
  <1>1. UNCHANGED <<driver, sysfs, on_bus, setup, nth, present, id_entry, overridden,
                    by_override, pc, res, device_pcd, overlapped, left>>
    BY DEF Close, Open, module, bus, match, history
  <1>2. (\A d \in Dev : Local(d)') /\ Exclusive' /\ Flags' /\ Presence'
    BY <1>1, RestingKept DEF PlatformInv, Flags, Presence, history
  <1>3. Matched'
    BY <1>1 DEF PlatformInv, Matched, AstrayOnlyByOverride
  <1>4. /\ file' \in [File -> Dev \cup {NoDev}]
        /\ dangling' \subseteq {g \in File : file'[g] # NoDev}
    BY NotDevices DEF PlatformInv, Types, Close, Open
  <1>5. Loading'
    BY <1>1 DEF PlatformInv, Types, Loading, Close, Open
  <1>6. Types'
    BY <1>1, <1>4 DEF PlatformInv, Types
  <1> QED
    BY <1>2, <1>3, <1>5, <1>6 DEF PlatformInv

LEMMA NextPlatformInv == ASSUME PlatformInv, [Next]_vars PROVE PlatformInv'
  <1>1. CASE UNCHANGED vars
    <2>1. UNCHANGED <<driver, sysfs, on_bus, setup, nth, present, id_entry, overridden,
                      by_override, pc, res, device_pcd, file, dangling, overlapped, left>>
      BY <1>1 DEF vars, module, bus, match, files, history
    <2>2. (\A d \in Dev : Local(d)') /\ Exclusive' /\ Flags' /\ Presence' /\ Loading'
      BY <2>1, RestingKept DEF PlatformInv, Flags, Presence, Loading, history
    <2>3. Types' /\ Matched'
      BY <2>1 DEF PlatformInv, Types, Matched, AstrayOnlyByOverride
    <2> QED
      BY <2>2, <2>3 DEF PlatformInv
  <1>2. CASE DeviceModule
    BY <1>2, DeviceModuleInv
  <1>3. CASE Insmod \/ pcd_driver_init \/ Rmmod \/ pcd_driver_exit
    BY <1>3, DriverModuleInv
  <1>4. ASSUME NEW d \in Dev, DriverOverride(d) \/ Match(d) \/ StartRemove(d)
        PROVE  PlatformInv'
    BY <1>4, DriverOverrideInv, MatchInv, StartRemoveInv
  <1>5. ASSUME NEW d \in Dev, Probe(d)
        PROVE  PlatformInv'
    BY <1>5, StartProbeInv, KzallocInv, CdevAddInv, DeviceCreateInv, CheckDeviceInv, CreateFilesInv,
       CdevDeletionInv, BufferFreeInv DEF Probe
  <1>6. ASSUME NEW d \in Dev, Remove(d)
        PROVE  PlatformInv'
    BY <1>6, DeviceDestroyInv, CdevDelInv, RemoveFreeInv DEF Remove
  <1>7. ASSUME NEW f \in File, Close(f) \/ \E d \in Dev : Open(f, d)
        PROVE  PlatformInv'
    BY <1>7, FileInv
  <1> QED
    BY <1>1, <1>2, <1>3, <1>4, <1>5, <1>6, <1>7 DEF Next

-----------------------------------------------------------------------------

\* Whatever the order of loading, probing, removing and unloading, each task
\* finds what the others share with it as it must be.
THEOREM PlatformInvHolds == Spec => []PlatformInv
  BY InitPlatformInv, NextPlatformInv, PTL DEF Spec

\* Without the attributes, a probe goes astray only on a device that was matched by
\* its driver_override, whoever sets or clears it meanwhile: id_entry may point into the table of a driver
\* unloaded before, but never does so when the configuration is looked up.
THEOREM OnlyOverrideAstray == Spec => []AstrayOnlyByOverride
  <1>1. PlatformInv => AstrayOnlyByOverride
    BY DEF PlatformInv, Matched
  <1> QED
    BY <1>1, PlatformInvHolds, PTL

\* Memory, cdev and drvdata of every device are accounted for at each step of a
\* probe that fails anywhere and of a removal: nothing leaks, nothing is freed twice.
THEOREM NothingUnaccounted == Spec => []MemoryAccounted
  <1>1. PlatformInv => TypeOK
    BY TypesAndFlags DEF PlatformInv
  <1>2. ASSUME PlatformInv, NEW d \in Dev
        PROVE  /\ pc[d] = "unbound" => res[d] \subseteq {"node", "attrs"}
               /\ pc[d] \in {"bound", "remove"} =>
                    Memory \cup {"cdev", "drvdata"} \subseteq res[d]
               /\ "cdev" \in res[d] \/ pc[d] \in {"buffer_free", "remove_free"} =>
                    Memory \subseteq res[d]
    BY <1>2 DEF PlatformInv, Local, Accounts, Memory
  <1>3. PlatformInv => MemoryAccounted
    BY <1>1, <1>2 DEF MemoryAccounted
  <1> QED
    BY <1>3, PlatformInvHolds, PTL

\* A device that was bound without another probe overwriting device_pcd has its
\* device file and, under the driver of 006, its attributes.
THEOREM BoundHasItsFiles == Spec => []BoundIsWhole
  <1>1. ASSUME PlatformInv, ~overlapped, NEW d \in Dev, pc[d] = "bound"
        PROVE  "node" \in res[d] /\ (sysfs => "attrs" \in res[d])
    BY <1>1 DEF PlatformInv, Exclusive, Whole, WholeAt, Stuck, Clean
  <1>2. PlatformInv => BoundIsWhole
    BY <1>1 DEF BoundIsWhole
  <1> QED
    BY <1>2, PlatformInvHolds, PTL

\* A device file that a failed probe left behind keeps its device unbound for
\* good; every other unbound device has left nothing.
THEOREM LeftDeviceStaysUnbound == Spec => []UnboundIsGone
  <1>1. ASSUME PlatformInv, ~overlapped, NEW d \in Dev
        PROVE  IF d \in left THEN pc[d] # "bound" ELSE pc[d] = "unbound" => res[d] = {}
    BY <1>1 DEF PlatformInv, Exclusive, Whole, WholeAt, Stuck, Clean
  <1>2. PlatformInv => UnboundIsGone
    BY <1>1 DEF UnboundIsGone
  <1> QED
    BY <1>2, PlatformInvHolds, PTL

\* A struct cdev that open files still refer to is freed only while the driver is
\* live: a driver that is unloading has no open file, since each one pins it.
THEOREM UnloadLeavesOpenFiles == Spec => UnloadFreesNothingOpen
  <1>1. ASSUME PlatformInv, [Next]_vars, NEW f \in dangling' \ dangling
        PROVE  driver = "live"
    <2>1. PICK d \in Dev : BufferFree(d) \/ RemoveFree(d)
      <3>1. ASSUME UNCHANGED dangling PROVE FALSE
        BY <1>1, <3>1
      <3>2. ~UNCHANGED vars /\ ~DeviceModule
        BY <3>1 DEF vars, files, DeviceModule
      <3>3. ~(Insmod \/ pcd_driver_init \/ Rmmod \/ pcd_driver_exit)
        BY <3>1 DEF files, Insmod, pcd_driver_init, Rmmod, pcd_driver_exit
      <3>4. \A g \in File : ~Close(g) /\ \A d \in Dev : ~Open(g, d)
        BY <1>1, <3>1 DEF Close, Open
      <3>5. \A d \in Dev : ~(DriverOverride(d) \/ Match(d) \/ StartProbe(d) \/ StartRemove(d))
        BY <3>1 DEF files, DriverOverride, Match, StartProbe, StartRemove
      <3>6. \A d \in Dev : ~(Kzalloc(d) \/ CdevAdd(d) \/ DeviceCreate(d) \/ CheckDevice(d))
        BY <3>1 DEF files, Kzalloc, CdevAdd, DeviceCreate, CheckDevice
      <3>7. \A d \in Dev : ~(CreateFiles(d) \/ CdevDeletion(d) \/ DeviceDestroy(d) \/ CdevDel(d))
        BY <3>1 DEF files, CreateFiles, CdevDeletion, DeviceDestroy, CdevDel
      <3> QED
        BY <1>1, <3>2, <3>3, <3>4, <3>5, <3>6, <3>7 DEF Next, Probe, Remove
    <2>2. f \in File /\ file[f] # NoDev
      BY <1>1, <2>1, NotDevices DEF BufferFree, RemoveFree, Free
    <2> QED
      BY <1>1, <2>2 DEF PlatformInv, Loading
  <1>2. PlatformInv /\ [Next]_vars => [\A f \in dangling' \ dangling : driver = "live"]_vars
    BY <1>1
  <1> QED
    BY <1>2, PlatformInvHolds, PTL DEF Spec, UnloadFreesNothingOpen
=============================================================================
