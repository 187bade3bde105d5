---------------------- MODULE MultiDeviceModuleProofs ----------------------
(***************************************************************************)
(* Proofs about MultiDeviceModule, for any number of devices and files.    *)
(* LoadInv is inductive: Phase, Held, Index and Built say what each kernel *)
(* call finds registered, and the properties follow from them.             *)
(***************************************************************************)
EXTENDS MultiDeviceModule, TLAPS

LEMMA InitLoadInv == Init => LoadInv
  <1> SUFFICES ASSUME Init PROVE LoadInv
    OBVIOUS
  <1> USE DevicesAssumption DEF Init, driver, Closed
  <1>1. TypeOK
    BY DEF TypeOK, Call
  <1>2. Layered /\ CleanUnload /\ LiveIsWhole
    BY DEF Layered, CleanUnload, LiveIsWhole
  <1>3. Phase /\ Held /\ Index /\ Built
    BY DEF Phase, Held, Index, Built
  <1> QED
    BY <1>1, <1>2, <1>3 DEF LoadInv

LEMMA InitFunctionLoadInv == LoadInv /\ InitFunction => LoadInv'
  <1> SUFFICES ASSUME LoadInv, InitFunction PROVE LoadInv'
    OBVIOUS
  <1> USE DevicesAssumption DEF LoadInv, driver
  <1>1. CASE AllocChrdevRegion
    <2>1. CASE pc' = "class_create"
      <3>1. TypeOK'
        BY <1>1, <2>1 DEF TypeOK, Call, Minor, Index, AllocChrdevRegion
      <3>2. Layered'
        BY <1>1, <2>1 DEF TypeOK, Layered, Held, Index, Built, Minor, AllocChrdevRegion
      <3>3. CleanUnload' /\ LiveIsWhole'
        BY <1>1, <2>1 DEF TypeOK, CleanUnload, LiveIsWhole, Phase, AllocChrdevRegion
      <3>4. Phase' /\ Held'
        BY <1>1, <2>1 DEF TypeOK, Phase, Held, AllocChrdevRegion
      <3>5. Index'
        BY <1>1, <2>1 DEF TypeOK, Index, Minor, Phase, AllocChrdevRegion
      <3>6. Built'
        BY <1>1, <2>1 DEF TypeOK, Built, Index, Minor, Layered, AllocChrdevRegion
      <3> QED
        BY <3>1, <3>2, <3>3, <3>4, <3>5, <3>6 DEF LoadInv
    <2>2. CASE pc' = "out"
      <3>1. TypeOK'
        BY <1>1, <2>2 DEF TypeOK, Call, Minor, Index, AllocChrdevRegion
      <3>2. Layered'
        BY <1>1, <2>2 DEF TypeOK, Layered, Held, Index, Built, Minor, AllocChrdevRegion
      <3>3. CleanUnload' /\ LiveIsWhole'
        BY <1>1, <2>2 DEF TypeOK, CleanUnload, LiveIsWhole, Phase, AllocChrdevRegion
      <3>4. Phase' /\ Held'
        BY <1>1, <2>2 DEF TypeOK, Phase, Held, AllocChrdevRegion
      <3>5. Index'
        BY <1>1, <2>2 DEF TypeOK, Index, Minor, Phase, AllocChrdevRegion
      <3>6. Built'
        BY <1>1, <2>2 DEF TypeOK, Built, Index, Minor, Layered, AllocChrdevRegion
      <3> QED
        BY <3>1, <3>2, <3>3, <3>4, <3>5, <3>6 DEF LoadInv
    <2> QED
      BY <1>1, <2>1, <2>2 DEF AllocChrdevRegion
  <1>2. CASE ClassCreate
    <2>1. CASE pc' = "cdev_init"
      <3>1. TypeOK'
        BY <1>2, <2>1 DEF TypeOK, Call, Minor, Index, ClassCreate
      <3>2. Layered'
        BY <1>2, <2>1 DEF TypeOK, Layered, Held, Index, Built, Minor, ClassCreate
      <3>3. CleanUnload' /\ LiveIsWhole'
        BY <1>2, <2>1 DEF TypeOK, CleanUnload, LiveIsWhole, Phase, ClassCreate
      <3>4. Phase' /\ Held'
        BY <1>2, <2>1 DEF TypeOK, Phase, Held, ClassCreate
      <3>5. Index'
        BY <1>2, <2>1 DEF TypeOK, Index, Minor, Phase, ClassCreate
      <3>6. Built'
        BY <1>2, <2>1 DEF TypeOK, Built, Index, Minor, Layered, ClassCreate
      <3> QED
        BY <3>1, <3>2, <3>3, <3>4, <3>5, <3>6 DEF LoadInv
    <2>2. CASE pc' = "undo_region"
      <3>1. TypeOK'
        BY <1>2, <2>2 DEF TypeOK, Call, Minor, Index, ClassCreate
      <3>2. Layered'
        BY <1>2, <2>2 DEF TypeOK, Layered, Held, Index, Built, Minor, ClassCreate
      <3>3. CleanUnload' /\ LiveIsWhole'
        BY <1>2, <2>2 DEF TypeOK, CleanUnload, LiveIsWhole, Phase, ClassCreate
      <3>4. Phase' /\ Held'
        BY <1>2, <2>2 DEF TypeOK, Phase, Held, ClassCreate
      <3>5. Index'
        BY <1>2, <2>2 DEF TypeOK, Index, Minor, Phase, ClassCreate
      <3>6. Built'
        BY <1>2, <2>2 DEF TypeOK, Built, Index, Minor, Layered, ClassCreate
      <3> QED
        BY <3>1, <3>2, <3>3, <3>4, <3>5, <3>6 DEF LoadInv
    <2> QED
      BY <1>2, <2>1, <2>2 DEF ClassCreate
  <1>3. CASE CdevInit
    BY <1>3 DEF CdevInit, TypeOK, Layered, CleanUnload, LiveIsWhole, Phase, Held,
       Index, Built, Call, Minor, Closed
  <1>4. CASE CdevAdd
    <2>1. CASE pc' = "device_create"
      <3>1. TypeOK'
        BY <1>4, <2>1 DEF TypeOK, Call, Minor, Index, CdevAdd
      <3>2. Layered'
        <4>1. cdev' = cdev \cup {i} /\ i \in mutex_ready /\ pc = "cdev_add"
          BY <1>4, <2>1 DEF Built, CdevAdd
        <4>2. held = {"region", "class"} /\ module # "live"
          BY <4>1 DEF TypeOK, Held, Phase
        <4> QED
          BY <1>4, <4>1, <4>2 DEF Layered, CdevAdd
      <3>3. CleanUnload' /\ LiveIsWhole'
        BY <1>4, <2>1 DEF TypeOK, CleanUnload, LiveIsWhole, Phase, CdevAdd
      <3>4. Phase' /\ Held'
        BY <1>4, <2>1 DEF TypeOK, Phase, Held, CdevAdd
      <3>5. Index'
        BY <1>4, <2>1 DEF TypeOK, Index, Minor, Phase, CdevAdd
      <3>6. Built'
        BY <1>4, <2>1 DEF TypeOK, Built, Index, Minor, Layered, CdevAdd
      <3> QED
        BY <3>1, <3>2, <3>3, <3>4, <3>5, <3>6 DEF LoadInv
    <2>2. CASE pc' = "undo_device"
      <3>1. TypeOK'
        BY <1>4, <2>2 DEF TypeOK, Call, Minor, Index, CdevAdd
      <3>2. Layered'
        BY <1>4, <2>2 DEF TypeOK, Layered, Held, Index, Built, Minor, CdevAdd
      <3>3. CleanUnload' /\ LiveIsWhole'
        BY <1>4, <2>2 DEF TypeOK, CleanUnload, LiveIsWhole, Phase, CdevAdd
      <3>4. Phase' /\ Held'
        BY <1>4, <2>2 DEF TypeOK, Phase, Held, CdevAdd
      <3>5. Index'
        BY <1>4, <2>2 DEF TypeOK, Index, Minor, Phase, CdevAdd
      <3>6. Built'
        <4>1. \A d \in Minor : d < i => d <= i
          BY DEF TypeOK, Minor
        <4> QED
          BY <1>4, <2>2, <4>1 DEF TypeOK, Built, CdevAdd
      <3> QED
        BY <3>1, <3>2, <3>3, <3>4, <3>5, <3>6 DEF LoadInv
    <2> QED
      BY <1>4, <2>1, <2>2 DEF CdevAdd
  <1>5. CASE DeviceCreate
    <2>1. CASE pc' = "cdev_init"
      <3>1. TypeOK'
        <4>1. i \in Minor /\ i + 1 \in -1 .. N
          BY <1>5 DEF Minor, Index, DeviceCreate
        <4> QED
          BY <1>5, <2>1, <4>1 DEF TypeOK, Call, DeviceCreate
      <3>2. Layered'
        <4>1. i \in Minor /\ i <= i
          BY <1>5 DEF Minor, Index, DeviceCreate
        <4>2. i \in cdev /\ node' = node \cup {i}
          BY <1>5, <2>1, <4>1 DEF Built, DeviceCreate
        <4> QED
          BY <1>5, <4>2 DEF Layered, DeviceCreate
      <3>3. CleanUnload' /\ LiveIsWhole'
        BY <1>5, <2>1 DEF TypeOK, CleanUnload, LiveIsWhole, Phase, DeviceCreate
      <3>4. Phase' /\ Held'
        BY <1>5, <2>1 DEF TypeOK, Phase, Held, DeviceCreate
      <3>5. Index'
        BY <1>5, <2>1 DEF TypeOK, Index, Minor, Phase, DeviceCreate
      <3>6. Built'
        BY <1>5, <2>1 DEF TypeOK, Built, Index, Minor, Layered, DeviceCreate
      <3> QED
        BY <3>1, <3>2, <3>3, <3>4, <3>5, <3>6 DEF LoadInv
    <2>2. CASE pc' = "undo_device"
      <3>1. TypeOK'
        BY <1>5, <2>2 DEF TypeOK, Call, Minor, Index, DeviceCreate
      <3>2. Layered'
        BY <1>5, <2>2 DEF TypeOK, Layered, Held, Index, Built, Minor, DeviceCreate
      <3>3. CleanUnload' /\ LiveIsWhole'
        BY <1>5, <2>2 DEF TypeOK, CleanUnload, LiveIsWhole, Phase, DeviceCreate
      <3>4. Phase' /\ Held'
        BY <1>5, <2>2 DEF TypeOK, Phase, Held, DeviceCreate
      <3>5. Index'
        BY <1>5, <2>2 DEF TypeOK, Index, Minor, Phase, DeviceCreate
      <3>6. Built'
        BY <1>5, <2>2 DEF TypeOK, Built, Index, Minor, Layered, DeviceCreate
      <3> QED
        BY <3>1, <3>2, <3>3, <3>4, <3>5, <3>6 DEF LoadInv
    <2> QED
      BY <1>5, <2>1, <2>2 DEF DeviceCreate
  <1>6. CASE InitSucceeds
    <2>1. pc = "cdev_init" /\ i = N /\ module' = "live" /\ pc' = "idle"
          /\ UNCHANGED <<i, held, mutex_ready, cdev, node, file, orphan>>
      BY <1>6 DEF InitSucceeds
    <2>2. \A d \in Minor : d < i
      BY <2>1 DEF Minor
    <2>3. cdev = Minor /\ node = Minor
      BY <2>1, <2>2 DEF TypeOK, Built
    <2>4. held = {"region", "class"}
      BY <2>1 DEF TypeOK, Held
    <2>5. TypeOK' /\ Layered' /\ CleanUnload' /\ LiveIsWhole'
      BY <2>1, <2>3, <2>4 DEF TypeOK, Call, Layered, CleanUnload, LiveIsWhole
    <2>6. Phase' /\ Held' /\ Index' /\ Built'
      BY <2>1, <2>4 DEF Phase, Held, Index, Built
    <2> QED
      BY <2>5, <2>6
  <1>7. CASE UndoDevice
    <2>1. CASE i >= 0
      <3>1. TypeOK'
        BY <1>7, <2>1 DEF TypeOK, Call, Minor, Index, UndoDevice
      <3>2. Layered'
        BY <1>7, <2>1 DEF TypeOK, Layered, Held, Index, Built, Minor, UndoDevice
      <3>3. CleanUnload' /\ LiveIsWhole'
        BY <1>7, <2>1 DEF TypeOK, CleanUnload, LiveIsWhole, Phase, UndoDevice
      <3>4. Phase' /\ Held'
        BY <1>7, <2>1 DEF TypeOK, Phase, Held, UndoDevice
      <3>5. Index'
        BY <1>7, <2>1 DEF TypeOK, Index, Minor, Phase, UndoDevice
      <3>6. Built'
        <4>1. \A d \in node : d \in cdev /\ (d <= i /\ d # i => d < i)
          BY DEF TypeOK, Layered, Minor
        <4> QED
          BY <1>7, <2>1, <4>1 DEF Built, UndoDevice
      <3> QED
        BY <3>1, <3>2, <3>3, <3>4, <3>5, <3>6 DEF LoadInv
    <2>2. CASE ~(i >= 0)
      <3>1. TypeOK'
        BY <1>7, <2>2 DEF TypeOK, Call, Minor, Index, UndoDevice
      <3>2. Layered'
        BY <1>7, <2>2 DEF TypeOK, Layered, Held, Index, Built, Minor, UndoDevice
      <3>3. CleanUnload' /\ LiveIsWhole'
        BY <1>7, <2>2 DEF TypeOK, CleanUnload, LiveIsWhole, Phase, UndoDevice
      <3>4. Phase' /\ Held'
        BY <1>7, <2>2 DEF TypeOK, Phase, Held, UndoDevice
      <3>5. Index'
        BY <1>7, <2>2 DEF TypeOK, Index, Minor, Phase, UndoDevice
      <3>6. Built'
        <4>1. \A d \in Minor : ~(d <= i)
          BY <2>2 DEF TypeOK, Minor
        <4>2. cdev = {} /\ node = {}
          BY <1>7, <4>1 DEF TypeOK, Layered, Built, UndoDevice
        <4> QED
          BY <1>7, <2>2, <4>2 DEF Built, UndoDevice
      <3> QED
        BY <3>1, <3>2, <3>3, <3>4, <3>5, <3>6 DEF LoadInv
    <2> QED
      BY <1>7, <2>1, <2>2 DEF UndoDevice
  <1>8. CASE UndoCdev
    BY <1>8 DEF UndoCdev, TypeOK, Layered, CleanUnload, LiveIsWhole, Phase, Held,
       Index, Built, Call, Minor, Closed
  <1>9. CASE UndoClass
    BY <1>9 DEF UndoClass, TypeOK, Layered, CleanUnload, LiveIsWhole, Phase, Held,
       Index, Built, Call, Minor, Closed
  <1>10. CASE UndoRegion
    BY <1>10 DEF UndoRegion, TypeOK, Layered, CleanUnload, LiveIsWhole, Phase, Held,
       Index, Built, Call, Minor, Closed
  <1>11. CASE InitFails
    BY <1>11 DEF InitFails, TypeOK, Layered, CleanUnload, LiveIsWhole, Phase, Held,
       Index, Built, Call, Minor, Closed
  <1> QED
    BY <1>1, <1>2, <1>3, <1>4, <1>5, <1>6, <1>7, <1>8, <1>9, <1>10, <1>11
    DEF InitFunction

LEMMA ExitFunctionLoadInv == LoadInv /\ ExitFunction => LoadInv'
  <1> SUFFICES ASSUME LoadInv, ExitFunction PROVE LoadInv'
    OBVIOUS
  <1> USE DevicesAssumption DEF LoadInv, driver
  <1>1. CASE ExitDevice
    <2>1. CASE i < N
      <3>1. TypeOK'
        BY <1>1, <2>1 DEF TypeOK, Call, Minor, Index, ExitDevice
      <3>2. Layered'
        BY <1>1, <2>1 DEF TypeOK, Layered, Held, Index, Built, Minor, ExitDevice
      <3>3. CleanUnload' /\ LiveIsWhole'
        BY <1>1, <2>1 DEF TypeOK, CleanUnload, LiveIsWhole, Phase, ExitDevice
      <3>4. Phase' /\ Held'
        BY <1>1, <2>1 DEF TypeOK, Phase, Held, ExitDevice
      <3>5. Index'
        BY <1>1, <2>1 DEF TypeOK, Index, Minor, Phase, ExitDevice
      <3>6. Built'
        BY <1>1, <2>1 DEF TypeOK, Built, Index, Minor, Layered, ExitDevice
      <3> QED
        BY <3>1, <3>2, <3>3, <3>4, <3>5, <3>6 DEF LoadInv
    <2>2. CASE ~(i < N)
      <3>1. TypeOK'
        BY <1>1, <2>2 DEF TypeOK, Call, Minor, Index, ExitDevice
      <3>2. Layered'
        BY <1>1, <2>2 DEF TypeOK, Layered, Held, Index, Built, Minor, ExitDevice
      <3>3. CleanUnload' /\ LiveIsWhole'
        BY <1>1, <2>2 DEF TypeOK, CleanUnload, LiveIsWhole, Phase, ExitDevice
      <3>4. Phase' /\ Held'
        BY <1>1, <2>2 DEF TypeOK, Phase, Held, ExitDevice
      <3>5. Index'
        BY <1>1, <2>2 DEF TypeOK, Index, Minor, Phase, ExitDevice
      <3>6. Built'
        <4>1. \A d \in Minor : ~(d >= i)
          BY <2>2 DEF TypeOK, Minor
        <4>2. cdev = {} /\ node = {}
          BY <1>1, <4>1 DEF TypeOK, Layered, Built, ExitDevice
        <4> QED
          BY <1>1, <2>2, <4>2 DEF Built, ExitDevice
      <3> QED
        BY <3>1, <3>2, <3>3, <3>4, <3>5, <3>6 DEF LoadInv
    <2> QED
      BY <1>1, <2>1, <2>2 DEF ExitDevice
  <1>2. CASE ExitCdev
    BY <1>2 DEF ExitCdev, TypeOK, Layered, CleanUnload, LiveIsWhole, Phase, Held,
       Index, Built, Call, Minor, Closed
  <1>3. CASE ExitClass
    BY <1>3 DEF ExitClass, TypeOK, Layered, CleanUnload, LiveIsWhole, Phase, Held,
       Index, Built, Call, Minor, Closed
  <1>4. CASE ExitRegion
    BY <1>4 DEF ExitRegion, TypeOK, Layered, CleanUnload, LiveIsWhole, Phase, Held,
       Index, Built, Call, Minor, Closed
  <1> QED
    BY <1>1, <1>2, <1>3, <1>4
    DEF ExitFunction

LEMMA UserSpaceLoadInv == LoadInv /\ UserSpace => LoadInv'
  <1> SUFFICES ASSUME LoadInv, UserSpace PROVE LoadInv'
    OBVIOUS
  <1> USE DevicesAssumption
          DEF LoadInv, TypeOK, Layered, CleanUnload, LiveIsWhole, Phase, Held,
              Index, Built, driver, Call, Minor, Closed
  <1>1. CASE Insmod
    BY <1>1 DEF Insmod
  <1>2. CASE Rmmod
    BY <1>2 DEF Rmmod, Pinned
  <1>3. ASSUME NEW f \in File, Close(f) PROVE LoadInv'
    BY <1>3 DEF Close
  <1>4. ASSUME NEW f \in File, NEW d \in Minor, Open(f, d) PROVE LoadInv'
    BY <1>4 DEF Open
  <1> QED
    BY <1>1, <1>2, <1>3, <1>4 DEF UserSpace

LEMMA NextLoadInv == LoadInv /\ [Next]_vars => LoadInv'
  <1>1. LoadInv /\ UNCHANGED vars => LoadInv'
    BY DEF LoadInv, TypeOK, Layered, CleanUnload, LiveIsWhole, Phase, Held, Index,
           Built, vars, driver
  <1> QED
    BY <1>1, UserSpaceLoadInv, InitFunctionLoadInv, ExitFunctionLoadInv DEF Next

\* The invariant holds in every state of every behaviour.
THEOREM LoadInvHolds == Spec => []LoadInv
  <1> QED
    BY InitLoadInv, NextLoadInv, PTL DEF Spec

\* No device file without its device, no device without an initialised mutex,
\* no device outside the class and the device numbers, at any kernel call.
THEOREM RegistrationLayered == Spec => []Layered
  <1>1. LoadInv => Layered
    BY DEF LoadInv
  <1> QED
    BY LoadInvHolds, <1>1, PTL

\* Wherever init fails, and after every rmmod, nothing stays registered.
THEOREM NothingLeft == Spec => []CleanUnload
  <1>1. LoadInv => CleanUnload
    BY DEF LoadInv
  <1> QED
    BY LoadInvHolds, <1>1, PTL

\* A live driver offers all its devices; exit never runs with a file open.
THEOREM WholeWhileLive == Spec => []LiveIsWhole
  <1>1. LoadInv => LiveIsWhole
    BY DEF LoadInv
  <1> QED
    BY LoadInvHolds, <1>1, PTL

\* A file outlives the driver's code only if init failed while it was open.
THEOREM OrphansConfined == Spec => OrphanOnlyByFailedInit
  <1>1. LoadInv /\ [Next]_vars => [orphan' # orphan => module = "coming"]_vars
    <2> SUFFICES ASSUME LoadInv, Next, orphan' # orphan PROVE module = "coming"
      OBVIOUS
    <2>1. CASE InitFails
      BY <2>1 DEF LoadInv, TypeOK, Phase, InitFails
    <2>2. CASE ExitRegion
      BY <2>2 DEF LoadInv, LiveIsWhole, Phase, ExitRegion
    <2>3. CASE InitFunction /\ ~InitFails
      BY <2>3 DEF InitFunction, AllocChrdevRegion, ClassCreate, CdevInit, CdevAdd,
                  DeviceCreate, InitSucceeds, UndoDevice, UndoCdev, UndoClass,
                  UndoRegion
    <2>4. CASE (ExitFunction /\ ~ExitRegion) \/ UserSpace
      BY <2>4 DEF ExitFunction, ExitDevice, ExitCdev, ExitClass, UserSpace,
                  Insmod, Rmmod, Open, Close
    <2> QED
      BY <2>1, <2>2, <2>3, <2>4 DEF Next
  <1> QED
    BY LoadInvHolds, <1>1, PTL DEF Spec, OrphanOnlyByFailedInit

-----------------------------------------------------------------------------
(* The refinement. *)

LifeStep == Life!Next \/ UNCHANGED Life!vars

\* Kernel calls that only register or take away: nothing that ModuleLifeCycle
\* speaks of changes.
LEMMA DriverStepHidden ==
  ASSUME UNCHANGED <<module, file, orphan>> PROVE LifeStep
  BY DEF LifeStep, Life!vars

LEMMA InitFunctionRefines == LoadInv /\ InitFunction => LifeStep
  <1> SUFFICES ASSUME LoadInv, InitFunction PROVE LifeStep
    OBVIOUS
  <1>1. CASE InitSucceeds
    <2>1. module = "coming"
      BY <1>1 DEF LoadInv, TypeOK, Phase, InitSucceeds
    <2> QED
      BY <1>1, <2>1 DEF InitSucceeds, LifeStep, Life!Next, Life!InitSucceeds, Life!Goes
  <1>2. CASE InitFails
    <2>1. module = "coming"
      BY <1>2 DEF LoadInv, TypeOK, Phase, InitFails
    <2>2. {f \in File : file'[f] # Closed} = {}
      BY <1>2 DEF InitFails
    <2> QED
      BY <1>2, <2>1, <2>2 DEF InitFails, LifeStep, Life!Next, Life!InitFails, Life!Goes
  <1>3. CASE ~InitSucceeds /\ ~InitFails
    BY <1>3, DriverStepHidden
    DEF InitFunction, AllocChrdevRegion, ClassCreate, CdevInit, CdevAdd, DeviceCreate,
        UndoDevice, UndoCdev, UndoClass, UndoRegion
  <1> QED
    BY <1>1, <1>2, <1>3

LEMMA ExitFunctionRefines == LoadInv /\ ExitFunction => LifeStep
  <1> SUFFICES ASSUME LoadInv, ExitFunction PROVE LifeStep
    OBVIOUS
  <1>1. CASE ExitRegion
    <2>1. module = "going"
      BY <1>1 DEF LoadInv, Phase, ExitRegion
    <2>2. \A f \in File : file[f] = Closed
      BY <2>1 DEF LoadInv, LiveIsWhole
    <2>3. orphan' = orphan
      BY <1>1, <2>2 DEF ExitRegion
    <2>4. {f \in File : file'[f] # Closed} = {f \in File : file[f] # Closed}
      BY <1>1, <2>2 DEF ExitRegion
    <2> QED
      BY <1>1, <2>1, <2>3, <2>4
      DEF ExitRegion, LifeStep, Life!Next, Life!ExitReturns, Life!Goes
  <1>2. CASE ~ExitRegion
    BY <1>2, DriverStepHidden DEF ExitFunction, ExitDevice, ExitCdev, ExitClass
  <1> QED
    BY <1>1, <1>2

LEMMA UserSpaceRefines == LoadInv /\ UserSpace => LifeStep
  <1> SUFFICES ASSUME LoadInv, UserSpace PROVE LifeStep
    OBVIOUS
  <1>1. CASE Insmod
    BY <1>1 DEF Insmod, LifeStep, Life!Next, Life!Insmod, Life!Goes
  <1>2. CASE Rmmod
    <2>1. {f \in File : file[f] # Closed} = {}
      BY <1>2 DEF Rmmod, Pinned
    <2> QED
      BY <1>2, <2>1 DEF Rmmod, LifeStep, Life!Next, Life!Rmmod, Life!Goes
  <1>3. ASSUME NEW f \in File, Close(f) PROVE LifeStep
    <2>1. {g \in File : file'[g] # Closed} = {g \in File : file[g] # Closed} \ {f}
      BY <1>3 DEF Close, LoadInv, TypeOK
    <2> QED
      BY <1>3, <2>1 DEF Close, LifeStep, Life!Next, Life!Close
  <1>4. ASSUME NEW f \in File, NEW d \in Minor, Open(f, d) PROVE LifeStep
    <2>1. d # Closed
      BY DevicesAssumption DEF Minor, Closed
    <2>2. {g \in File : file'[g] # Closed} = {g \in File : file[g] # Closed} \cup {f}
      BY <1>4, <2>1 DEF Open, LoadInv, TypeOK
    <2> QED
      BY <1>4, <2>2 DEF Open, LifeStep, Life!Next, Life!Open
  <1> QED
    BY <1>1, <1>2, <1>3, <1>4 DEF UserSpace

\* For any number of devices and files, the driver behaves as ModuleLifeCycle
\* says: who loads it and who opens its devices need to know no more.
THEOREM RefinesLifeCycle == Spec => ImplementsLifeCycle
  <1>1. Init => Life!Init
    BY DEF Init, Life!Init
  <1>2. LoadInv /\ [Next]_vars => [Life!Next]_(Life!vars)
    <2> SUFFICES ASSUME LoadInv, [Next]_vars PROVE LifeStep
      BY DEF LifeStep
    <2>1. CASE UNCHANGED vars
      BY <2>1, DriverStepHidden DEF vars
    <2>2. CASE Next
      BY <2>2, InitFunctionRefines, ExitFunctionRefines, UserSpaceRefines DEF Next
    <2> QED
      BY <2>1, <2>2
  <1> QED
    BY LoadInvHolds, <1>1, <1>2, PTL DEF Spec, ImplementsLifeCycle, Life!Spec
=============================================================================
