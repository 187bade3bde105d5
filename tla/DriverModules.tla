--------------------------- MODULE DriverModules ---------------------------
(***************************************************************************)
(* Drivers of this repository loaded side by side.                         *)
(*                                                                         *)
(* char_driver_multiple_devices.ko (src/ldd/spinlock) is MultiDeviceModule *)
(* itself.  char_driver.ko is built by src/ldd/002_char_drivers, with one  *)
(* device, or by src/ldd/003_char_drivers_multiple_devices, with several;  *)
(* the kernel loads one module of a name at a time.  All of them create a  *)
(* class "pcd_class", and class_create fails for a name that is taken, be  *)
(* it by a class that nobody will destroy any more.  Three more drivers of *)
(* the repository create a class of that name (spinlock/char_driver.c, 004 *)
(* and 006); they meet these as these meet each other and are left out:    *)
(* the failures of class_create in their own models stand for a taken name.*)
(***************************************************************************)
EXTENDS MultiDeviceModule

CONSTANTS File002, File003  \* files of the two builds of char_driver.ko

VARIABLES
  module002, pc002, held002, open002, orphan002,
  module003, pc003, i003, held003, ready003, cdev003, node003, file003, orphan003

D002 == INSTANCE SingleDeviceModule WITH
  File <- File002, module <- module002, pc <- pc002, held <- held002,
  open <- open002, orphan <- orphan002

\* ready003: the devices whose cdev is initialised (there is no mutex).
D003 == INSTANCE MultiDeviceModule WITH
  File <- File003, module <- module003, pc <- pc003, i <- i003,
  held <- held003, mutex_ready <- ready003, cdev <- cdev003, node <- node003,
  file <- file003, orphan <- orphan003

spinlock == <<module, pc, driver, file, orphan>>
vars002 == <<module002, pc002, held002, open002, orphan002>>
vars003 == <<module003, pc003, i003, held003, ready003, cdev003, node003, file003,
             orphan003>>
allvars == <<spinlock, vars002, vars003>>

InitAll == Init /\ D002!Init /\ D003!Init

\* A planted bug: every driver has a class name of its own.
ClassNameAlwaysFree == TRUE

ClassNameFree == "class" \notin held \cup held002 \cup held003

-----------------------------------------------------------------------------
(* The driver of src/ldd/spinlock. *)

Load ==
  /\ InitFunction
  /\ "class" \in held' \ held => ClassNameFree
  /\ UNCHANGED <<vars002, vars003>>

pcd_driver_exit == ExitFunction /\ UNCHANGED <<vars002, vars003>>

Use == UserSpace /\ UNCHANGED <<vars002, vars003>>

-----------------------------------------------------------------------------
(* The driver of src/ldd/002_char_drivers. *)

pcd_driver_init002 ==
  /\ D002!InitFunction
  /\ "class" \in held002' \ held002 => ClassNameFree
  /\ UNCHANGED <<spinlock, vars003>>

pcd_driver_exit002 == D002!ExitFunction /\ UNCHANGED <<spinlock, vars003>>

\* A module of the same name is refused before its init is called.
Use002 ==
  /\ \/ module003 = "absent" /\ D002!Insmod
     \/ D002!Rmmod
     \/ \E f \in File002 : D002!Open(f) \/ D002!Close(f)
  /\ UNCHANGED <<spinlock, vars003>>

-----------------------------------------------------------------------------
(* The driver of src/ldd/003_char_drivers_multiple_devices. *)

pcd_driver_init003 ==
  /\ D003!InitFunction
  /\ "class" \in held003' \ held003 => ClassNameFree
  /\ UNCHANGED <<spinlock, vars002>>

pcd_driver_exit003 == D003!ExitFunction /\ UNCHANGED <<spinlock, vars002>>

Use003 ==
  /\ \/ module002 = "absent" /\ D003!Insmod
     \/ D003!Rmmod
     \/ \E f \in File003 : D003!Close(f) \/ \E d \in Minor : D003!Open(f, d)
  /\ UNCHANGED <<spinlock, vars002>>

-----------------------------------------------------------------------------

NextAll ==
  \/ Load \/ pcd_driver_exit \/ Use
  \/ pcd_driver_init002 \/ pcd_driver_exit002 \/ Use002
  \/ pcd_driver_init003 \/ pcd_driver_exit003 \/ Use003

SpecAll == InitAll /\ [][NextAll]_allvars

\* The tasks that called insmod and rmmod are scheduled.
FairSpecAll ==
  /\ SpecAll
  /\ WF_allvars(Load \/ pcd_driver_exit)
  /\ WF_allvars(pcd_driver_init002 \/ pcd_driver_exit002)
  /\ WF_allvars(pcd_driver_init003 \/ pcd_driver_exit003)

-----------------------------------------------------------------------------
(* Properties, beside those of MultiDeviceModule. *)

Live == {m \in {1, 2, 3} : <<module, module002, module003>>[m] = "live"}

\* Two of the drivers are never in service together, and the one that is has
\* everything it registered, whatever the failed loads of the others undid.
OneDriverWhole ==
  /\ TypeOK /\ D002!TypeOK /\ D003!TypeOK
  /\ \A m, n \in Live : m = n
  /\ module002 = "live" => held002 = D002!Resource
  /\ D003!LiveIsWhole

\* What 002 and 003 registered is undone in order, and nothing of a module that
\* is not loaded stays but, possibly, the class of 002.
OnlyClassLeft ==
  /\ D002!Ordered /\ D002!OnlyClassLeft
  /\ D003!Layered /\ D003!CleanUnload

\* The class that a failed device_create of 002 leaves behind makes every later
\* attempt to load any of the drivers fail.
LeakBlocksEveryDriver ==
  [](module002 = "absent" /\ "class" \in held002 => [](Live = {}))

\* 002 and 003, too, are modules as ModuleLifeCycle promises, whichever is loaded
\* beside them.
Life002 == INSTANCE ModuleLifeCycle WITH
  File <- File002, module <- module002, open <- open002, orphan <- orphan002

OthersImplementLifeCycle == Life002!Spec /\ D003!ImplementsLifeCycle

\* Every init and exit ends, whatever fails and whoever has the class.
AllLoadsEnd == LoadEnds /\ D002!LoadEnds /\ D003!LoadEnds
=============================================================================
