------------------------ MODULE DriverModulesProofs ------------------------
(***************************************************************************)
(* Proofs about DriverModules, for any number of devices and files.        *)
(*                                                                         *)
(* Loaded beside the others, each driver still takes only steps that it    *)
(* could take alone, so that MultiDeviceModuleProofs speaks for the        *)
(* drivers of spinlock and of 003.  What is left is the driver of 002      *)
(* (Inv002), and the name of the class, which the three share (ClassOnce). *)
(***************************************************************************)
EXTENDS DriverModules, MultiDeviceModuleProofs

\* What MultiDeviceModuleProofs proves, of the driver of 003.
P003 == INSTANCE MultiDeviceModuleProofs WITH
  File <- File003, module <- module003, pc <- pc003, i <- i003,
  held <- held003, mutex_ready <- ready003, cdev <- cdev003, node <- node003,
  file <- file003, orphan <- orphan003

-----------------------------------------------------------------------------
(* The two instances of MultiDeviceModule with the variables of 003 are    *)
(* the same specification.                                                 *)

LEMMA Same003Init == D003!Init <=> P003!Init
  BY DEF D003!Init, P003!Init, D003!Closed, P003!Closed

LEMMA Same003Next == D003!Next <=> P003!Next
  <1>1. D003!InitFunction <=> P003!InitFunction
    BY DEF D003!InitFunction, P003!InitFunction,
      D003!AllocChrdevRegion, D003!ClassCreate, D003!CdevInit, D003!CdevAdd,
      D003!DeviceCreate, D003!InitSucceeds, D003!UndoDevice, D003!UndoCdev,
      D003!UndoClass, D003!UndoRegion, D003!InitFails, D003!driver, D003!Closed,
      P003!AllocChrdevRegion, P003!ClassCreate, P003!CdevInit, P003!CdevAdd,
      P003!DeviceCreate, P003!InitSucceeds, P003!UndoDevice, P003!UndoCdev,
      P003!UndoClass, P003!UndoRegion, P003!InitFails, P003!driver, P003!Closed
  <1>2. D003!ExitFunction <=> P003!ExitFunction
    BY DEF D003!ExitFunction, P003!ExitFunction,
      D003!ExitDevice, D003!ExitCdev, D003!ExitClass, D003!ExitRegion, D003!Closed,
      P003!ExitDevice, P003!ExitCdev, P003!ExitClass, P003!ExitRegion, P003!Closed
  <1>3. D003!UserSpace <=> P003!UserSpace
    BY DEF D003!UserSpace, P003!UserSpace, D003!Minor, P003!Minor,
      D003!Insmod, D003!Rmmod, D003!Pinned, D003!Open, D003!Close, D003!driver, D003!Closed,
      P003!Insmod, P003!Rmmod, P003!Pinned, P003!Open, P003!Close, P003!driver, P003!Closed
  <1> QED
    BY <1>1, <1>2, <1>3 DEF D003!Next, P003!Next

LEMMA Same003Spec == D003!Spec <=> P003!Spec
  <1>1. [D003!Next]_(D003!vars) <=> [P003!Next]_(P003!vars)
    BY Same003Next DEF D003!vars, P003!vars, D003!driver, P003!driver
  <1> QED
    BY <1>1, Same003Init, PTL DEF D003!Spec, P003!Spec

LEMMA Invariants003 ==
  P003!LoadInv => D003!TypeOK /\ D003!Layered /\ D003!CleanUnload /\ D003!LiveIsWhole
  <1>1. P003!TypeOK => D003!TypeOK
    BY DEF D003!TypeOK, D003!Call, D003!Minor, D003!Closed,
           P003!TypeOK, P003!Call, P003!Minor, P003!Closed
  <1>2. P003!Layered => D003!Layered
    BY DEF D003!Layered, D003!Closed, P003!Layered, P003!Closed
  <1>3. P003!CleanUnload /\ P003!LiveIsWhole => D003!CleanUnload /\ D003!LiveIsWhole
    BY DEF D003!CleanUnload, D003!LiveIsWhole, D003!Minor, D003!Closed,
           P003!CleanUnload, P003!LiveIsWhole, P003!Minor, P003!Closed
  <1> QED
    BY <1>1, <1>2, <1>3 DEF P003!LoadInv

LEMMA Same003LifeCycle == P003!ImplementsLifeCycle => D003!ImplementsLifeCycle
  <1>1. P003!Life!Init => D003!Life!Init
    BY DEF P003!Life!Init, D003!Life!Init, P003!Closed, D003!Closed
  <1>2. [P003!Life!Next]_(P003!Life!vars) => [D003!Life!Next]_(D003!Life!vars)
    BY DEF P003!Closed, D003!Closed, P003!Life!vars, D003!Life!vars,
      P003!Life!Next, P003!Life!Goes, P003!Life!Insmod, P003!Life!InitSucceeds,
      P003!Life!InitFails, P003!Life!Rmmod, P003!Life!ExitReturns, P003!Life!Open,
      P003!Life!Close,
      D003!Life!Next, D003!Life!Goes, D003!Life!Insmod, D003!Life!InitSucceeds,
      D003!Life!InitFails, D003!Life!Rmmod, D003!Life!ExitReturns, D003!Life!Open,
      D003!Life!Close
  <1> QED
    BY <1>1, <1>2, PTL DEF P003!ImplementsLifeCycle, D003!ImplementsLifeCycle,
                           P003!Life!Spec, D003!Life!Spec

-----------------------------------------------------------------------------
(* Each driver alone. *)

\* A step of one driver leaves the variables of the others as they are.
LEMMA StepsAlone ==
  [NextAll]_allvars =>
    [Next]_vars /\ [D002!Next]_(D002!vars) /\ [D003!Next]_(D003!vars)
  <1> SUFFICES ASSUME [NextAll]_allvars
               PROVE  [Next]_vars /\ [D002!Next]_(D002!vars) /\ [D003!Next]_(D003!vars)
    OBVIOUS
  <1>1. UNCHANGED spinlock => UNCHANGED vars
    BY DEF spinlock, vars
  <1>2. UNCHANGED vars002 => UNCHANGED D002!vars
    BY DEF vars002, D002!vars
  <1>3. UNCHANGED vars003 => UNCHANGED D003!vars
    BY DEF vars003, D003!vars, D003!driver
  <1>4. CASE Load \/ pcd_driver_exit \/ Use
    BY <1>2, <1>3, <1>4 DEF Load, pcd_driver_exit, Use, Next
  <1>5. CASE pcd_driver_init002 \/ pcd_driver_exit002 \/ Use002
    BY <1>1, <1>3, <1>5 DEF pcd_driver_init002, pcd_driver_exit002, Use002, D002!Next
  <1>6. CASE pcd_driver_init003 \/ pcd_driver_exit003 \/ Use003
    BY <1>1, <1>2, <1>6
       DEF pcd_driver_init003, pcd_driver_exit003, Use003, D003!Next, D003!UserSpace,
           Minor, D003!Minor
  <1>7. CASE UNCHANGED allvars
    BY <1>1, <1>2, <1>3, <1>7 DEF allvars
  <1> QED
    BY <1>4, <1>5, <1>6, <1>7 DEF NextAll

\* Whatever is loaded beside it, each driver behaves as it does alone: the others
\* only ever refuse it the class or the name of its module.
THEOREM EachAsAlone == SpecAll => Spec /\ D002!Spec /\ D003!Spec
  <1>1. InitAll => Init /\ D002!Init /\ D003!Init
    BY DEF InitAll
  <1> QED
    BY <1>1, StepsAlone, PTL DEF SpecAll, Spec, D002!Spec, D003!Spec

\* So do the invariants of MultiDeviceModule hold of the drivers of spinlock and
\* of 003.
THEOREM MultiDeviceInvariants == SpecAll => [](LoadInv /\ P003!LoadInv)
  <1>1. P003!Spec => []P003!LoadInv
    BY P003!LoadInvHolds, DevicesAssumption DEF P003!LoadInvHolds
  <1> QED
    BY <1>1, EachAsAlone, Same003Spec, LoadInvHolds, PTL

-----------------------------------------------------------------------------
(* The driver of 002. *)

\* Who runs when:
Phase002 ==
  /\ module002 \in {"absent", "live"} <=> pc002 = "idle"
  /\ module002 = "going" <=> pc002 \in {"exit_device", "exit_class", "exit_cdev",
                                        "exit_region"}
  /\ module002 \in {"absent", "going"} => open002 = {}

\* and what is registered at each kernel call, a class left by an earlier load
\* included.
Keeps(where, R) ==
  /\ where \in {"alloc_chrdev_region", "out"} => R \subseteq {"class"}
  /\ where \in {"cdev_add", "unregister_chrdev"} =>
       "region" \in R /\ R \subseteq {"region", "class"}
  /\ where \in {"class_create", "cdev_del"} =>
       {"region", "cdev"} \subseteq R /\ "node" \notin R
  /\ where \in {"device_create", "class_del", "exit_class"} =>
       R = {"region", "cdev", "class"}
  /\ where = "exit_device" => R = D002!Resource
  /\ where = "exit_cdev" => R = {"region", "cdev"}
  /\ where = "exit_region" => R = {"region"}

Held002 ==
  /\ Keeps(pc002, held002)
  /\ module002 = "live" => held002 = D002!Resource
  /\ module002 = "absent" => held002 \subseteq {"class"}

Inv002 == D002!TypeOK /\ Phase002 /\ Held002

LEMMA InitInv002 == D002!Init => Inv002
  BY DEF D002!Init, Inv002, D002!TypeOK, D002!Resource, Phase002, Held002, Keeps

LEMMA NextInv002 == Inv002 /\ [D002!Next]_(D002!vars) => Inv002'
  <1> SUFFICES ASSUME Inv002, [D002!Next]_(D002!vars) PROVE Inv002'
    OBVIOUS
  <1> USE DEF Inv002
  <1>1. CASE D002!AllocChrdevRegion
    BY <1>1 DEF D002!AllocChrdevRegion, D002!Register, D002!TypeOK, D002!Resource,
                Phase002, Held002, Keeps
  <1>2. CASE D002!CdevAdd
    BY <1>2 DEF D002!CdevAdd, D002!Register, D002!TypeOK, D002!Resource,
                Phase002, Held002, Keeps
  <1>3. CASE D002!ClassCreate
    BY <1>3 DEF D002!ClassCreate, D002!Register, D002!TypeOK, D002!Resource,
                Phase002, Held002, Keeps
  <1>4. CASE D002!DeviceCreate
    BY <1>4 DEF D002!DeviceCreate, D002!TypeOK, D002!Resource, Phase002, Held002, Keeps
  <1>5. CASE D002!ClassDel \/ D002!CdevDel \/ D002!UnregisterChrdev
    BY <1>5 DEF D002!ClassDel, D002!CdevDel, D002!UnregisterChrdev, D002!Unregister,
                D002!TypeOK, D002!Resource, Phase002, Held002, Keeps
  <1>6. CASE D002!InitFails
    BY <1>6 DEF D002!InitFails, D002!FreeModule, D002!TypeOK, D002!Resource,
                Phase002, Held002, Keeps
  <1>7. CASE D002!ExitDevice \/ D002!ExitClass \/ D002!ExitCdev
    BY <1>7 DEF D002!ExitDevice, D002!ExitClass, D002!ExitCdev, D002!Unregister,
                D002!TypeOK, D002!Resource, Phase002, Held002, Keeps
  <1>8. CASE D002!ExitRegion
    BY <1>8 DEF D002!ExitRegion, D002!FreeModule, D002!TypeOK, D002!Resource,
                Phase002, Held002, Keeps
  <1>9. CASE D002!Insmod \/ D002!Rmmod
    BY <1>9 DEF D002!Insmod, D002!Rmmod, D002!Pinned, D002!TypeOK, D002!Resource,
                Phase002, Held002, Keeps
  <1>10. ASSUME NEW f \in File002, D002!Open(f) \/ D002!Close(f) PROVE Inv002'
    BY <1>10 DEF D002!Open, D002!Close, D002!TypeOK, D002!Resource,
                 Phase002, Held002, Keeps
  <1>11. CASE UNCHANGED D002!vars
    BY <1>11 DEF D002!vars, D002!TypeOK, D002!Resource, Phase002, Held002, Keeps
  <1> QED
    BY <1>1, <1>2, <1>3, <1>4, <1>5, <1>6, <1>7, <1>8, <1>9, <1>10, <1>11
       DEF D002!Next, D002!InitFunction, D002!ExitFunction

-----------------------------------------------------------------------------
(* The name of the class. *)

\* /sys/class holds one pcd_class.
ClassOnce ==
  /\ "class" \notin held \cap held002
  /\ "class" \notin held \cap held003
  /\ "class" \notin held002 \cap held003

InvAll == LoadInv /\ P003!LoadInv /\ Inv002 /\ ClassOnce

\* Only init takes the class, and only when nobody has it.
LEMMA ClassTaken ==
  ASSUME [NextAll]_allvars
  PROVE  /\ "class" \in held' \ held => ClassNameFree
         /\ "class" \in held002' \ held002 => ClassNameFree
         /\ "class" \in held003' \ held003 => ClassNameFree
         /\ \/ UNCHANGED <<held002, held003>> \/ UNCHANGED <<held, held003>>
            \/ UNCHANGED <<held, held002>>
  <1>1. UNCHANGED spinlock => UNCHANGED held
    BY DEF spinlock, driver
  <1>2. UNCHANGED vars002 => UNCHANGED held002
    BY DEF vars002
  <1>3. UNCHANGED vars003 => UNCHANGED held003
    BY DEF vars003
  <1>4. CASE Load
    BY <1>2, <1>3, <1>4 DEF Load
  <1>5. CASE pcd_driver_exit \/ Use
    <2>1. "class" \notin held' \ held
      BY <1>5 DEF pcd_driver_exit, Use, ExitFunction, ExitDevice, ExitCdev, ExitClass, ExitRegion,
                  UserSpace, Insmod, Rmmod, Open, Close, driver
    <2> QED
      BY <1>2, <1>3, <1>5, <2>1 DEF pcd_driver_exit, Use
  <1>6. CASE pcd_driver_init002
    BY <1>1, <1>3, <1>6 DEF pcd_driver_init002
  <1>7. CASE pcd_driver_exit002 \/ Use002
    <2>1. "class" \notin held002' \ held002
      BY <1>7 DEF pcd_driver_exit002, Use002, D002!ExitFunction, D002!ExitDevice,
                  D002!ExitClass, D002!ExitCdev, D002!ExitRegion, D002!Unregister,
                  D002!Insmod, D002!Rmmod, D002!Open, D002!Close
    <2> QED
      BY <1>1, <1>3, <1>7, <2>1 DEF pcd_driver_exit002, Use002
  <1>8. CASE pcd_driver_init003
    BY <1>1, <1>2, <1>8 DEF pcd_driver_init003
  <1>9. CASE pcd_driver_exit003 \/ Use003
    <2>1. "class" \notin held003' \ held003
      BY <1>9 DEF pcd_driver_exit003, Use003, D003!ExitFunction, D003!ExitDevice,
                  D003!ExitCdev, D003!ExitClass, D003!ExitRegion,
                  D003!Insmod, D003!Rmmod, D003!Open, D003!Close, D003!driver
    <2> QED
      BY <1>1, <1>2, <1>9, <2>1 DEF pcd_driver_exit003, Use003
  <1>10. CASE UNCHANGED allvars
    BY <1>1, <1>2, <1>3, <1>10 DEF allvars
  <1> QED
    BY <1>4, <1>5, <1>6, <1>7, <1>8, <1>9, <1>10 DEF NextAll

\* The strengthening that all the properties of the composition follow from.
THEOREM InvAllHolds == SpecAll => []InvAll
  <1>1. InitAll => ClassOnce
    BY DEF InitAll, Init, D002!Init, D003!Init, ClassOnce
  <1>2. ClassOnce /\ [NextAll]_allvars => ClassOnce'
    BY ClassTaken DEF ClassOnce, ClassNameFree
  <1>3. SpecAll => []ClassOnce
    BY <1>1, <1>2, PTL DEF SpecAll
  <1>4. SpecAll => []Inv002
    BY EachAsAlone, InitInv002, NextInv002, PTL DEF D002!Spec
  <1> QED
    BY <1>3, <1>4, MultiDeviceInvariants, PTL DEF InvAll

-----------------------------------------------------------------------------

\* A driver in service has the class, which there is once: never are two of them
\* in service together, and what the failed loads of the others undo is not its own.
THEOREM OneInService == SpecAll => []OneDriverWhole
  <1>1. ASSUME InvAll PROVE OneDriverWhole
    <2>1. TypeOK /\ D002!TypeOK /\ D003!TypeOK /\ D003!LiveIsWhole
      BY <1>1, Invariants003 DEF InvAll, Inv002, LoadInv
    <2>2. module002 = "live" => held002 = D002!Resource
      BY <1>1 DEF InvAll, Inv002, Held002
    <2>3. /\ module = "live" => "class" \in held
          /\ module002 = "live" => "class" \in held002
          /\ module003 = "live" => "class" \in held003
      BY <1>1, <2>1, <2>2 DEF InvAll, LoadInv, LiveIsWhole, D003!LiveIsWhole, D002!Resource
    <2>4. \A m, n \in Live : m = n
      BY <1>1, <2>3 DEF InvAll, ClassOnce, Live
    <2> QED
      BY <2>1, <2>2, <2>4 DEF OneDriverWhole
  <1> QED
    BY <1>1, InvAllHolds, PTL

\* Wherever a load of 002 or of 003 fails, what it registered is undone, but for
\* the class of 002.
THEOREM AllButClassUndone == SpecAll => []OnlyClassLeft
  <1>1. ASSUME InvAll PROVE OnlyClassLeft
    <2>1. D002!Ordered
      BY <1>1 DEF InvAll, Inv002, D002!TypeOK, D002!Resource, Phase002, Held002, Keeps,
                  D002!Ordered
    <2>2. D002!OnlyClassLeft
      BY <1>1 DEF InvAll, Inv002, Held002, D002!OnlyClassLeft
    <2>3. D003!Layered /\ D003!CleanUnload
      BY <1>1, Invariants003 DEF InvAll
    <2> QED
      BY <2>1, <2>2, <2>3 DEF OnlyClassLeft
  <1> QED
    BY <1>1, InvAllHolds, PTL

\* The class of 002 is nobody's: no load that would destroy it again succeeds.
Blocked ==
  /\ "class" \in held002 /\ module002 \in {"absent", "coming"}
  /\ pc002 \notin {"device_create", "class_del"}

LEMMA BlockedStays == InvAll /\ Blocked /\ [NextAll]_allvars => Blocked'
  <1> SUFFICES ASSUME InvAll, Blocked, [D002!Next]_(D002!vars) PROVE Blocked'
    BY StepsAlone
  <1>0. pc002 \notin {"exit_device", "exit_class", "exit_cdev", "exit_region"}
    BY DEF InvAll, Inv002, Phase002, Blocked
  <1>1. CASE D002!AllocChrdevRegion \/ D002!CdevAdd
    BY <1>1 DEF Blocked, D002!AllocChrdevRegion, D002!CdevAdd, D002!Register
  <1>2. CASE D002!ClassCreate
    BY <1>2 DEF Blocked, D002!ClassCreate, D002!Register
  <1>3. CASE D002!DeviceCreate \/ D002!ClassDel \/ D002!ExitFunction
    BY <1>0, <1>3 DEF Blocked, D002!DeviceCreate, D002!ClassDel, D002!ExitFunction,
      D002!ExitDevice, D002!ExitClass, D002!ExitCdev, D002!ExitRegion, D002!Unregister
  <1>4. CASE D002!CdevDel \/ D002!UnregisterChrdev
    BY <1>4 DEF Blocked, D002!CdevDel, D002!UnregisterChrdev, D002!Unregister
  <1>5. CASE D002!InitFails
    BY <1>5 DEF Blocked, D002!InitFails, D002!FreeModule
  <1>6. CASE D002!Insmod \/ D002!Rmmod
    BY <1>6 DEF Blocked, D002!Insmod, D002!Rmmod
  <1>7. ASSUME NEW f \in File002, D002!Open(f) \/ D002!Close(f) PROVE Blocked'
    BY <1>7 DEF Blocked, D002!Open, D002!Close
  <1>8. CASE UNCHANGED D002!vars
    BY <1>8 DEF Blocked, D002!vars
  <1> QED
    BY <1>1, <1>2, <1>3, <1>4, <1>5, <1>6, <1>7, <1>8 DEF D002!Next, D002!InitFunction

\* Once 002 has left its class behind, no driver of the three comes into service
\* any more.
THEOREM LeakIsForEver == SpecAll => LeakBlocksEveryDriver
  <1>1. InvAll /\ module002 = "absent" /\ "class" \in held002 => Blocked
    BY DEF InvAll, Inv002, Phase002, Blocked
  <1>2. InvAll /\ Blocked => Live = {}
    <2> SUFFICES ASSUME InvAll, Blocked PROVE Live = {}
      OBVIOUS
    <2>1. /\ module = "live" => "class" \in held
          /\ module003 = "live" => "class" \in held003
      BY Invariants003 DEF InvAll, LoadInv, LiveIsWhole, D003!LiveIsWhole
    <2>2. module # "live" /\ module002 # "live" /\ module003 # "live"
      BY <2>1 DEF InvAll, ClassOnce, Blocked
    <2> QED
      BY <2>2 DEF Live
  <1> QED
    BY <1>1, <1>2, BlockedStays, InvAllHolds, PTL DEF SpecAll, LeakBlocksEveryDriver

-----------------------------------------------------------------------------

\* Each step of the driver of 002 is one of ModuleLifeCycle, or hidden.
LEMMA Step002Refines ==
  Inv002 /\ [D002!Next]_(D002!vars) => [Life002!Next]_(Life002!vars)
  <1> SUFFICES ASSUME Inv002, [D002!Next]_(D002!vars)
               PROVE  [Life002!Next]_(Life002!vars)
    OBVIOUS
  <1> USE DEF Inv002, Life002!vars
  <1>1. CASE D002!AllocChrdevRegion \/ D002!CdevAdd \/ D002!ClassCreate
    BY <1>1 DEF D002!AllocChrdevRegion, D002!CdevAdd, D002!ClassCreate, D002!Register
  <1>2. CASE D002!DeviceCreate
    <2>1. module002 = "coming"
      BY <1>2 DEF D002!DeviceCreate, D002!TypeOK, Phase002
    <2> QED
      BY <1>2, <2>1 DEF D002!DeviceCreate, Life002!Next, Life002!InitSucceeds, Life002!Goes
  <1>3. CASE D002!ClassDel \/ D002!CdevDel \/ D002!UnregisterChrdev
    BY <1>3 DEF D002!ClassDel, D002!CdevDel, D002!UnregisterChrdev, D002!Unregister
  <1>4. CASE D002!InitFails
    <2>1. module002 = "coming"
      BY <1>4 DEF D002!InitFails, D002!TypeOK, Phase002
    <2> QED
      BY <1>4, <2>1 DEF D002!InitFails, D002!FreeModule, Life002!Next, Life002!InitFails,
                        Life002!Goes
  <1>5. CASE D002!ExitDevice \/ D002!ExitClass \/ D002!ExitCdev
    BY <1>5 DEF D002!ExitDevice, D002!ExitClass, D002!ExitCdev, D002!Unregister
  <1>6. CASE D002!ExitRegion
    <2>1. module002 = "going" /\ open002 = {}
      BY <1>6 DEF D002!ExitRegion, Phase002
    <2> QED
      BY <1>6, <2>1 DEF D002!ExitRegion, D002!FreeModule, Life002!Next,
                        Life002!ExitReturns, Life002!Goes
  <1>7. CASE D002!Insmod \/ D002!Rmmod
    BY <1>7 DEF D002!Insmod, D002!Rmmod, D002!Pinned, Life002!Next, Life002!Insmod,
                Life002!Rmmod, Life002!Goes
  <1>8. ASSUME NEW f \in File002, D002!Open(f) \/ D002!Close(f)
        PROVE  Life002!Next
    BY <1>8 DEF D002!Open, D002!Close, Life002!Next, Life002!Open, Life002!Close
  <1>9. CASE UNCHANGED D002!vars
    BY <1>9 DEF D002!vars
  <1> QED
    BY <1>1, <1>2, <1>3, <1>4, <1>5, <1>6, <1>7, <1>8, <1>9
       DEF D002!Next, D002!InitFunction, D002!ExitFunction

\* Loaded beside the others, 002 and 003 implement ModuleLifeCycle: a driver in
\* use stays, and only a load that fails takes the code from a file.
THEOREM OthersRefineLifeCycle == SpecAll => OthersImplementLifeCycle
  <1>1. D002!Init => Life002!Init
    BY DEF D002!Init, Life002!Init
  <1>2. SpecAll => Life002!Spec
    BY <1>1, Step002Refines, EachAsAlone, InitInv002, NextInv002, PTL
       DEF D002!Spec, Life002!Spec
  <1>3. P003!Spec => P003!ImplementsLifeCycle
    BY P003!RefinesLifeCycle, DevicesAssumption DEF P003!RefinesLifeCycle
  <1> QED
    BY <1>2, <1>3, EachAsAlone, Same003Spec, Same003LifeCycle, PTL
       DEF OthersImplementLifeCycle
=============================================================================
