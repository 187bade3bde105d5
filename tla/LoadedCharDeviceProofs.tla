----------------------- MODULE LoadedCharDeviceProofs -----------------------
(***************************************************************************)
(* Proofs about LoadedCharDevice, for any number of tasks and files and    *)
(* any size of the buffer.                                                 *)
(*                                                                         *)
(* Nobody owns the device here, so that the invariant speaks of one call   *)
(* at a time: what its program counter says of its locals (CallInv), what  *)
(* it has copied (CopyInv), and that nobody is inside once the code of the *)
(* driver is gone (Phase).                                                 *)
(***************************************************************************)
EXTENDS LoadedCharDevice, TLAPS

Place == 0 .. DEV_MEM_SIZE - 1
ExitCalls == {"exit_device", "exit_class", "exit_cdev", "exit_region"}

\* What the program counter of t says of the locals of its call; a call that
\* was cut off has none.
CallInv(t) ==
  LET c == call[t] IN
  /\ pc[t] = "idle" => c = Files!NoCall
  /\ pc[t] # "idle" => c.file \in open \cup orphan
  /\ c.file \in orphan => pc[t] = "ret" /\ c.op = "none"
  /\ c.op = "open" => pc[t] = "ret" /\ c.ret = "OK"
  /\ pc[t] \in {"lock", "copy"} => c.op \in {"read", "write"} /\ c.offset <= MaxPos
  /\ pc[t] = "lock" => c.count \in Count /\ c.data = <<>>
  /\ pc[t] = "seek" => /\ c.op \in {"SEEK_CUR", "SEEK_END"}
                       /\ c.temp \in 0 .. DEV_MEM_SIZE
  /\ pc[t] = "ret" /\ c.op \in {"read", "write"} /\ c.ret = "OK" =>
       c.offset <= DEV_MEM_SIZE

\* Byte k of the call of t is the device's, or others wrote there since.
Agrees(t, k) ==
  LET at == call[t].offset + k - 1 IN
  call[t].data[k] = buffer["pcd"][at] \/ at \in disturbed[t]

\* A call that copies stays within the device or is refused.
CopyInv(t) ==
  LET c == call[t] IN
  pc[t] = "copy" =>
    /\ Len(c.data) <= c.count
    /\ \/ c.data = <<>> /\ c.count > IntMax
       \/ c.offset + c.count <= DEV_MEM_SIZE
    /\ \A k \in 1 .. Len(c.data) : Agrees(t, k)

\* Files are open only while the module is on its way in, or in.
Phase ==
  /\ module \notin {"coming", "live"} => open = {}
  /\ load \in ExitCalls => module = "going"

\* The types, of the one device.
Types ==
  /\ DOMAIN buffer = Device /\ buffer["pcd"] \in [Place -> Value]
  /\ private_data \in [File -> Device \cup {NoDev}]
  /\ f_mode \in [File -> {ReadWrite, {}}]
  /\ f_pos \in [File -> 0 .. MaxPos]
  /\ pc \in [Task -> {"idle", "lock", "copy", "seek", "ret"}]
  /\ call \in [Task -> Files!Call]
  /\ Load!TypeOK
  /\ {f \in File : private_data[f] # NoDev} = open \cup orphan

LoadedInv ==
  /\ Types /\ Phase
  /\ \A t \in Task : CallInv(t) /\ CopyInv(t)

-----------------------------------------------------------------------------
(* The model has a function of devices where there is one.                 *)

LEMMA TypesAreTypeOK == Types => TypeOK
  <1>1. [d \in Device |-> DEV_MEM_SIZE]["pcd"] = DEV_MEM_SIZE
    BY DEF Device
  <1>2. [d \in Device |-> NoTask] \in [Device -> Task \cup {NoTask}]
    OBVIOUS
  <1> QED
    BY <1>1, <1>2 DEF Types, TypeOK, Files!TypeOK, Device, Place

\* The device of a call that is under way.
LEMMA OnPcd ==
  ASSUME Types, NEW t \in Task, CallInv(t), pc[t] # "idle"
  PROVE  call[t].file \in File /\ Files!DevOf(t) = "pcd"
  BY DEF Types, CallInv, Files!DevOf, Device, Load!TypeOK

\* The record an idle task has, and every one made from it, is a call.
LEMMA NoCallIsCall ==
  /\ Files!NoCall \in Files!Call /\ Files!NoCall.op = "none" /\ Files!NoCall.file = NoFile
  /\ Files!NoCall.data = <<>> /\ Files!NoCall.ret = "none"
  <1>1. <<>> \in Seq(Value)
    OBVIOUS
  <1> QED
    BY <1>1 DEF Files!NoCall, Files!Call, Files!Op, Files!Ret

LEMMA InitLoadedInv == Init => LoadedInv
  <1> SUFFICES ASSUME Init PROVE LoadedInv
    OBVIOUS
  <1>1. Files!NoCall \in Files!Call /\ Files!NoCall.op = "none" /\ Files!NoCall.file = NoFile
    BY NoCallIsCall
  <1>2. buffer = Zeroed /\ Zeroed["pcd"] \in [Place -> Value] /\ DOMAIN Zeroed = Device
    BY LoadedAssumption DEF Init, Files!UInit, Files!Init, Zeroed, Device, Place
  <1>3. Load!TypeOK /\ module = "absent" /\ load = "idle" /\ open = {} /\ orphan = {}
    BY DEF Init, Load!Init, Load!TypeOK
  <1>4. Types
    <2>1. /\ private_data = [f \in File |-> NoDev] /\ f_mode = [f \in File |-> {}]
          /\ f_pos = [f \in File |-> 0] /\ pc = [t \in Task |-> "idle"]
          /\ call = [t \in Task |-> Files!NoCall]
      BY DEF Init, Files!UInit, Files!Init
    <2>2. {f \in File : private_data[f] # NoDev} = open \cup orphan
      BY <1>3, <2>1
    <2> QED
      BY <1>1, <1>2, <1>3, <2>1, <2>2, LoadedAssumption DEF Types
  <1>5. \A t \in Task : pc[t] = "idle" /\ call[t] = Files!NoCall
    BY DEF Init, Files!UInit, Files!Init
  <1>6. Phase
    BY <1>3 DEF Phase, ExitCalls
  <1> QED
    BY <1>1, <1>3, <1>4, <1>5, <1>6 DEF LoadedInv, CallInv, CopyInv

-----------------------------------------------------------------------------
(* A step of one task, seen by the others.                                 *)

\* What happens to a place after it was copied goes into the history of the copy.
LEMMA CopyKept ==
  ASSUME LoadedInv, NEW t \in Task, Files!Disturb(t), NEW u \in Task \ {t},
         pc'[u] = pc[u], call'[u] = call[u]
  PROVE  CopyInv(u)'
  <1> SUFFICES ASSUME pc[u] = "copy" PROVE CopyInv(u)'
    BY DEF CopyInv
  <1> DEFINE c == call[u]
  <1>1. /\ CallInv(u) /\ CopyInv(u) /\ Types
    BY DEF LoadedInv
  <1>2. Files!DevOf(u) = "pcd" /\ c.offset \in Nat /\ c.count \in Nat /\ c.data \in Seq(Value)
        /\ DOMAIN buffer["pcd"] = Place /\ Len(c.data) \in Nat
    BY <1>1, OnPcd DEF Types, Files!Call
  <1>3. disturbed'[u] = disturbed[u] \cup
          ({j \in Place : buffer'["pcd"][j] # buffer["pcd"][j]} \cap Files!Copied(u))
    BY <1>2 DEF Files!Disturb, Files!Changed
  <1>4. ASSUME NEW k \in 1 .. Len(c.data) PROVE Agrees(u, k)'
    <2> DEFINE at == c.offset + k - 1
    <2>1. c.offset + c.count <= DEV_MEM_SIZE /\ Len(c.data) <= c.count
      <3>1. Len(<<>>) = 0
        OBVIOUS
      <3> QED
        BY <1>1, <1>2, <3>1 DEF CopyInv
    <2>2. at \in Place
      <3> DEFINE o == c.offset
                 n == c.count
                 l == Len(c.data)
      <3>1. o \in Nat /\ n \in Nat /\ l \in Nat /\ k \in 1 .. l
        BY <1>2
      <3>2. o + n <= DEV_MEM_SIZE /\ l <= n /\ DEV_MEM_SIZE \in Nat
        BY <2>1, LoadedAssumption
      <3> HIDE DEF o, n, l
      <3>3. o + k - 1 \in 0 .. DEV_MEM_SIZE - 1
        BY <3>1, <3>2
      <3> QED
        BY <3>3 DEF Place, o
    <2>3. at \in Files!Copied(u)
      BY DEF Files!Copied
    <2>4. c.data[k] = buffer["pcd"][at] \/ at \in disturbed[u]
      BY <1>1 DEF CopyInv, Agrees
    <2> HIDE DEF at
    <2>5. c.data[k] = buffer'["pcd"][at] \/ at \in disturbed'[u]
      BY <1>3, <2>2, <2>3, <2>4
    <2> QED
      BY <2>5 DEF Agrees, at
  <1> QED
    BY <1>1, <1>4 DEF CopyInv

LEMMA CallKept ==
  ASSUME LoadedInv, NEW u \in Task, pc'[u] = pc[u], call'[u] = call[u],
         pc[u] # "idle" /\ call[u].file \in open => call[u].file \in open',
         orphan' = orphan
  PROVE  CallInv(u)'
  BY DEF LoadedInv, CallInv

\* The induction step of a call, reduced to what it does to its own task.
LEMMA StepKeeps ==
  ASSUME LoadedInv, NEW t \in Task, Files!Disturb(t),
         pc' \in [Task -> {"idle", "lock", "copy", "seek", "ret"}],
         call' \in [Task -> Files!Call],
         \A u \in Task \ {t} : pc'[u] = pc[u] /\ call'[u] = call[u],
         UNCHANGED <<loading, private_data, f_mode>>,
         DOMAIN buffer' = Device, buffer'["pcd"] \in [Place -> Value],
         f_pos' \in [File -> 0 .. MaxPos],
         CallInv(t)', CopyInv(t)'
  PROVE  LoadedInv'
  <1>1. ASSUME NEW u \in Task \ {t} PROVE CallInv(u)' /\ CopyInv(u)'
    BY CopyKept, CallKept DEF loading
  <1>2. Types' /\ Phase'
    BY DEF LoadedInv, Types, Phase, loading, Load!TypeOK
  <1> QED
    BY <1>1, <1>2 DEF LoadedInv

\* A step that starts or ends outside the copy.
LEMMA PlainStepKeeps ==
  ASSUME LoadedInv, NEW t \in Task, Files!Disturb(t),
         NEW where \in {"idle", "lock", "seek", "ret"}, NEW c \in Files!Call,
         pc' = [pc EXCEPT ![t] = where], call' = [call EXCEPT ![t] = c],
         UNCHANGED <<buffer, loading, private_data, f_mode>>,
         f_pos' \in [File -> 0 .. MaxPos],
         CallInv(t)'
  PROVE  LoadedInv'
  <1>1. Types
    BY DEF LoadedInv
  <1>2. /\ pc' \in [Task -> {"idle", "lock", "copy", "seek", "ret"}]
        /\ call' \in [Task -> Files!Call]
        /\ \A u \in Task \ {t} : pc'[u] = pc[u] /\ call'[u] = call[u]
    BY <1>1 DEF Types
  <1>3. CopyInv(t)'
    BY <1>1 DEF Types, CopyInv
  <1> QED
    BY <1>1, <1>2, <1>3, StepKeeps DEF Types

-----------------------------------------------------------------------------
(* The file operations.                                                    *)

\* A file that a task may pass to a call, its driver still there, is open.
LEMMA UsableIsOpen ==
  ASSUME LoadedInv, NEW f \in File, Files!Usable(f), f \notin orphan
  PROVE  f \in open /\ private_data[f] = "pcd" /\ f_pos[f] \in 0 .. MaxPos /\ f_pos[f] \in Nat
  BY LoadedAssumption DEF LoadedInv, Types, Files!Usable, Device

LEMMA BeginTransferLoadedInv ==
  ASSUME LoadedInv, NEW t \in Task, NEW f \in File, NEW op \in {"read", "write"},
         NEW n \in Count, Files!BeginTransfer(t, f, op, n), Files!Disturb(t),
         UNCHANGED loading, call'[t].file \notin orphan
  PROVE  LoadedInv'
  <1> DEFINE c == [Files!NoCall EXCEPT !.op = op, !.file = f,
                                 !.offset = f_pos[f], !.count = n]
  <1>1. /\ pc' = [pc EXCEPT ![t] = "lock"] /\ call' = [call EXCEPT ![t] = c]
        /\ UNCHANGED <<buffer, private_data, f_mode, f_pos>> /\ Files!Usable(f)
    BY DEF Files!BeginTransfer, Files!Enter
  <1>2. c.file = f /\ c.op = op /\ c.offset = f_pos[f] /\ c.count = n /\ c.data = <<>>
    BY NoCallIsCall DEF Files!Call
  <1>3. pc'[t] = "lock" /\ call'[t] = c
    BY <1>1 DEF LoadedInv, Types
  <1>4. f \in open /\ f_pos[f] \in 0 .. MaxPos /\ f_pos[f] \in Nat /\ f \notin orphan
    BY <1>1, <1>2, <1>3, UsableIsOpen
  <1>5. c \in Files!Call
    BY <1>4, NoCallIsCall, LoadedAssumption DEF Files!Call, Files!Op
  <1> HIDE DEF c
  <1>6. CallInv(t)'
    BY <1>2, <1>3, <1>4 DEF CallInv, loading
  <1> QED
    BY <1>1, <1>5, <1>6, PlainStepKeeps DEF LoadedInv, Types

LEMMA HandlerReturnCall ==
  ASSUME Types, NEW t \in Task, NEW r \in Files!Ret, Files!HandlerReturn(t, r)
  PROVE  /\ pc' = [pc EXCEPT ![t] = "ret"] /\ pc'[t] = "ret"
         /\ call' \in [Task -> Files!Call]
         /\ \A u \in Task \ {t} : call'[u] = call[u]
         /\ call'[t].op = call[t].op /\ call'[t].file = call[t].file
         /\ call'[t].ret = r
  <1> DEFINE c == [call[t] EXCEPT !.ret = r]
  <1>1. /\ call \in [Task -> Files!Call] /\ call' = [call EXCEPT ![t] = c]
        /\ pc' = [pc EXCEPT ![t] = "ret"] /\ pc'[t] = "ret"
    BY DEF Types, Files!HandlerReturn
  <1>2. c \in Files!Call /\ c.op = call[t].op /\ c.file = call[t].file /\ c.ret = r
    BY <1>1 DEF Files!Call
  <1> HIDE DEF c
  <1> QED
    BY <1>1, <1>2

\* A call that succeeded is on an open file, a new one idle.
LEMMA SysReturnLoadedInv ==
  ASSUME LoadedInv, NEW t \in Task, Files!SysReturn(t), Files!Disturb(t),
         UNCHANGED loading
  PROVE  LoadedInv'
  <1> DEFINE c == call[t]
  <1>1. /\ pc[t] = "ret" /\ pc' = [pc EXCEPT ![t] = "idle"]
        /\ call' = [call EXCEPT ![t] = Files!NoCall] /\ UNCHANGED buffer
    BY DEF Files!SysReturn, Files!Enter
  <1>2. Types /\ CallInv(t)
    BY DEF LoadedInv
  <1>3. UNCHANGED <<private_data, f_mode>>
    BY <1>2 DEF CallInv, Files!SysReturn
  <1>4. f_pos' \in [File -> 0 .. MaxPos]
    <2>1. CASE c.op \in {"read", "write"} /\ c.ret = "OK"
      <3>1. c.offset \in Nat /\ c.offset <= DEV_MEM_SIZE /\ f_pos' = [f_pos EXCEPT ![c.file] = c.offset]
        BY <1>1, <1>2, <2>1 DEF CallInv, Types, Files!Call, Files!SysReturn
      <3>2. c.offset \in 0 .. MaxPos
        BY <3>1, LoadedAssumption
      <3> QED
        BY <1>2, <3>1, <3>2 DEF Types
    <2>2. CASE ~(c.op \in {"read", "write"} /\ c.ret = "OK")
      BY <1>2, <2>2 DEF Types, Files!SysReturn
    <2> QED
      BY <2>1, <2>2
  <1>5. pc'[t] = "idle" /\ call'[t] = Files!NoCall /\ NoFile \notin orphan'
    BY <1>1, <1>2, LoadedAssumption DEF Types, loading, Load!TypeOK
  <1>6. CallInv(t)'
    BY <1>5, NoCallIsCall DEF CallInv
  <1> QED
    BY <1>1, <1>3, <1>4, <1>6, NoCallIsCall, PlainStepKeeps

\* Clamping a position inside the device gives a copy inside the device; a
\* position beyond it gives one that is refused.
LEMMA ClampBounds ==
  ASSUME NEW offset \in 0 .. MaxPos, NEW n \in Count
  PROVE  LET m == Files!Clamp(offset, n, DEV_MEM_SIZE)
         IN  m \in Nat /\ (m > IntMax \/ offset + m <= DEV_MEM_SIZE)
  BY LoadedAssumption DEF Files!Clamp, Files!ToSizeT

LEMMA BeginCopyLoadedInv ==
  ASSUME LoadedInv, NEW t \in Task, Files!BeginCopy(t), Files!Disturb(t),
         UNCHANGED loading
  PROVE  LoadedInv'
  <1> DEFINE c == call[t]
             n == Files!Clamp(c.offset, c.count, DEV_MEM_SIZE)
  <1>1. pc[t] = "lock" /\ pc' = [pc EXCEPT ![t] = "copy"]
        /\ UNCHANGED <<buffer, private_data, f_mode, f_pos>>
    BY DEF Files!BeginCopy
  <1>2. Types /\ CallInv(t)
    BY DEF LoadedInv
  <1>3. /\ c \in Files!Call /\ c.op \in {"read", "write"} /\ c.file \in open
        /\ c.file \notin orphan /\ c.count \in Count /\ c.offset \in 0 .. MaxPos
        /\ c.data = <<>> /\ Files!DevOf(t) = "pcd"
    <2>1. c \in Files!Call /\ Files!DevOf(t) = "pcd"
      BY <1>1, <1>2, OnPcd DEF Types
    <2>2. /\ c.op \in {"read", "write"} /\ c.file \in open /\ c.file \notin orphan
          /\ c.count \in Count /\ c.offset <= MaxPos /\ c.data = <<>>
      BY <1>1, <1>2 DEF CallInv
    <2>3. c.offset \in Nat
      BY <2>1 DEF Files!Call
    <2> QED
      BY <2>1, <2>2, <2>3, LoadedAssumption
  <1>4. n \in Nat /\ (n > IntMax \/ c.offset + n <= DEV_MEM_SIZE)
    BY <1>3, ClampBounds
  <1>5. call' = [call EXCEPT ![t].count = n]
    BY <1>3 DEF Files!BeginCopy, Device
  <1> HIDE DEF n
  <1>6. /\ pc' \in [Task -> {"idle", "lock", "copy", "seek", "ret"}]
        /\ call' \in [Task -> Files!Call] /\ pc'[t] = "copy"
        /\ \A u \in Task \ {t} : pc'[u] = pc[u] /\ call'[u] = call[u]
        /\ call'[t].op = c.op /\ call'[t].file = c.file /\ call'[t].data = <<>>
        /\ call'[t].offset = c.offset /\ call'[t].count = n
    BY <1>1, <1>2, <1>3, <1>4, <1>5 DEF Types, Files!Call
  <1>7. CallInv(t)'
    BY <1>3, <1>6, LoadedAssumption DEF CallInv, loading
  <1>8. CopyInv(t)'
    <2>1. Len(<<>>) = 0 /\ 0 <= n
      BY <1>4
    <2> QED
      BY <1>4, <1>6, <2>1 DEF CopyInv
  <1> QED
    BY <1>1, <1>2, <1>6, <1>7, <1>8, StepKeeps DEF Types

\* The ways out of the copy, with whatever they do to the buffer.
LEMMA ExitKeeps ==
  ASSUME LoadedInv, NEW t \in Task, Files!Disturb(t), pc[t] = "copy",
         pc' = [pc EXCEPT ![t] = "ret"],
         call' \in [Task -> Files!Call],
         \A u \in Task \ {t} : call'[u] = call[u],
         call'[t].op = call[t].op /\ call'[t].file = call[t].file,
         call'[t].ret = "OK" => call'[t].offset <= DEV_MEM_SIZE,
         UNCHANGED <<loading, private_data, f_mode, f_pos>>,
         DOMAIN buffer' = Device, buffer'["pcd"] \in [Place -> Value]
  PROVE  LoadedInv'
  <1>1. Types /\ CallInv(t)
    BY DEF LoadedInv
  <1>2. /\ pc' \in [Task -> {"idle", "lock", "copy", "seek", "ret"}] /\ pc'[t] = "ret"
        /\ \A u \in Task \ {t} : pc'[u] = pc[u]
    BY <1>1 DEF Types
  <1>3. CallInv(t)' /\ CopyInv(t)'
    BY <1>1, <1>2 DEF CallInv, CopyInv, loading
  <1> QED
    BY <1>1, <1>2, <1>3, StepKeeps DEF Types

LEMMA FailedExitLoadedInv ==
  ASSUME LoadedInv, NEW t \in Task, Files!Disturb(t), UNCHANGED loading,
         Files!EmptyWrite(t) \/ Files!ReadFault(t) \/ Files!WriteFault(t)
  PROVE  LoadedInv'
  <1>1. /\ pc[t] = "copy" /\ UNCHANGED <<private_data, f_mode, f_pos>>
        /\ \E r \in Files!Ret \ {"OK"} : Files!HandlerReturn(t, r)
    BY DEF Files!EmptyWrite, Files!ReadFault, Files!WriteFault, Files!Copying, Files!Ret
  <1> PICK r \in Files!Ret \ {"OK"} : Files!HandlerReturn(t, r)
    BY <1>1
  <1>2. Types /\ CallInv(t)
    BY DEF LoadedInv
  <1>3. DOMAIN buffer' = Device /\ buffer'["pcd"] \in [Place -> Value]
    <2>1. CASE UNCHANGED buffer
      BY <1>2, <2>1 DEF Types
    <2>2. CASE Files!WriteFault(t)
      <3>1. buffer' = Files!ZeroFill(t) /\ Files!DevOf(t) = "pcd"
        BY <1>1, <1>2, <2>2, OnPcd DEF Files!WriteFault
      <3> DEFINE Filled(i) == /\ ~Files!Refused(t) /\ i >= call[t].offset + Len(call[t].data)
                              /\ i < call[t].offset + call[t].count
      <3>2. buffer' = [buffer EXCEPT !["pcd"] =
                         [i \in DOMAIN buffer["pcd"] |-> IF Filled(i) THEN Zero ELSE buffer["pcd"][i]]]
        BY <3>1 DEF Files!ZeroFill
      <3> HIDE DEF Filled
      <3>3. DOMAIN buffer = Device /\ "pcd" \in Device /\ buffer["pcd"] \in [Place -> Value]
            /\ Zero \in Value
        BY <1>2, LoadedAssumption DEF Types, Device
      <3> QED
        BY <3>2, <3>3
    <2> QED
      BY <2>1, <2>2 DEF Files!EmptyWrite, Files!ReadFault
  <1> QED
    BY <1>1, <1>2, <1>3, HandlerReturnCall, ExitKeeps

LEMMA CopyDoneLoadedInv ==
  ASSUME LoadedInv, NEW t \in Task, Files!CopyDone(t), Files!Disturb(t), UNCHANGED loading
  PROVE  LoadedInv'
  <1> DEFINE c == call[t]
             end == c.offset + c.count
  <1>1. /\ pc[t] = "copy" /\ Len(c.data) = c.count /\ pc' = [pc EXCEPT ![t] = "ret"]
        /\ call' = [call EXCEPT ![t].offset = end, ![t].ret = "OK"]
        /\ UNCHANGED <<buffer, private_data, f_mode, f_pos>>
    BY DEF Files!CopyDone
  <1>2. Types /\ CallInv(t) /\ CopyInv(t)
    BY DEF LoadedInv
  <1>3. c \in Files!Call /\ c.offset \in Nat /\ c.count \in Nat /\ end \in Nat
    BY <1>2 DEF Types, Files!Call
  <1>4. end <= DEV_MEM_SIZE
    <2>1. Len(<<>>) = 0
      OBVIOUS
    <2> QED
      BY <1>1, <1>2, <1>3, <2>1, LoadedAssumption DEF CopyInv
  <1> HIDE DEF end
  <1>5. /\ call' \in [Task -> Files!Call]
        /\ \A u \in Task \ {t} : call'[u] = call[u]
        /\ call'[t].op = c.op /\ call'[t].file = c.file /\ call'[t].offset = end
    BY <1>1, <1>2, <1>3 DEF Types, Files!Call, Files!Ret
  <1> QED
    BY <1>1, <1>2, <1>4, <1>5, ExitKeeps DEF Types

\* The byte lands at the next place of the device, within its buffer, and the
\* places copied before are not touched.
LEMMA CopyByteLoadedInv ==
  ASSUME LoadedInv, NEW t \in Task, Files!CopyByte(t), Files!Disturb(t), UNCHANGED loading
  PROVE  LoadedInv'
  <1> DEFINE c == call[t]
             at == c.offset + Len(c.data)
  <1>1. Types /\ CallInv(t) /\ CopyInv(t)
    BY DEF LoadedInv
  <1>2. /\ pc[t] = "copy" /\ c.count <= IntMax /\ Len(c.data) < c.count
        /\ UNCHANGED <<private_data, f_mode, f_pos, pc>>
    <2>1. c.count \in Nat
      BY <1>1 DEF Types, Files!Call
    <2> QED
      BY <2>1, LoadedAssumption DEF Files!CopyByte, Files!Copying, Files!Refused
  <1>3. /\ c \in Files!Call /\ Files!DevOf(t) = "pcd" /\ c.offset \in Nat /\ c.count \in Nat
        /\ c.data \in Seq(Value) /\ Len(c.data) \in Nat /\ c.op \in {"read", "write"}
    <2>1. c \in Files!Call /\ Files!DevOf(t) = "pcd"
      BY <1>1, <1>2, OnPcd DEF Types
    <2>2. c.op \in {"read", "write"}
      BY <1>1, <1>2 DEF CallInv
    <2>3. c.offset \in Nat /\ c.count \in Nat /\ c.data \in Seq(Value)
      BY <2>1 DEF Files!Call
    <2> QED
      BY <2>1, <2>2, <2>3
  <1>4. c.offset + c.count <= DEV_MEM_SIZE
    BY <1>1, <1>2, <1>3, LoadedAssumption DEF CopyInv
  <1>5. at \in Place /\ \A k \in 1 .. Len(c.data) : c.offset + k - 1 \in Place \ {at}
    <2> DEFINE o == c.offset
               l == Len(c.data)
               n == c.count
               m == DEV_MEM_SIZE
    <2>1. o \in Nat /\ l \in Nat /\ n \in Nat /\ m \in Nat /\ l < n /\ o + n <= m
      BY <1>2, <1>3, <1>4, LoadedAssumption
    <2> HIDE DEF o, l, n, m
    <2>2. o + l \in 0 .. m - 1
      BY <2>1
    <2>3. ASSUME NEW k \in 1 .. l PROVE o + k - 1 \in 0 .. m - 1 /\ o + k - 1 # o + l
      BY <2>1
    <2> QED
      BY <2>2, <2>3 DEF Place, o, l, m
  <1>6. PICK v \in Value :
          /\ IF c.op = "read"
             THEN v = buffer["pcd"][at] /\ UNCHANGED buffer
             ELSE buffer' = [buffer EXCEPT !["pcd"][at] = v]
          /\ call' = [call EXCEPT ![t].data = Append(c.data, v)]
    BY <1>3 DEF Files!CopyByte
  <1>7. /\ DOMAIN buffer' = Device /\ buffer'["pcd"] \in [Place -> Value]
        /\ buffer'["pcd"][at] = v
        /\ \A j \in Place \ {at} : buffer'["pcd"][j] = buffer["pcd"][j]
    <2>1. DOMAIN buffer = Device /\ "pcd" \in Device /\ buffer["pcd"] \in [Place -> Value]
      BY <1>1 DEF Types, Device
    <2> HIDE DEF at
    <2>2. CASE c.op = "read"
      BY <1>6, <2>1, <2>2
    <2>3. CASE c.op = "write"
      <3>1. buffer' = [buffer EXCEPT !["pcd"] = [buffer["pcd"] EXCEPT ![at] = v]]
        BY <1>6, <2>1, <2>3
      <3> QED
        BY <1>5, <2>1, <3>1
    <2> QED
      BY <1>3, <2>2, <2>3
  <1> DEFINE more == Append(c.data, v)
  <1>8. /\ more \in Seq(Value) /\ Len(more) = Len(c.data) + 1
        /\ \A k \in 1 .. Len(more) : more[k] = IF k <= Len(c.data) THEN c.data[k] ELSE v
    BY <1>3
  <1>9. call' = [call EXCEPT ![t].data = more]
    BY <1>6
  <1> HIDE DEF more
  <1>10. /\ call' \in [Task -> Files!Call]
         /\ \A u \in Task \ {t} : call'[u] = call[u]
         /\ call'[t].op = c.op /\ call'[t].file = c.file /\ call'[t].offset = c.offset
         /\ call'[t].count = c.count /\ call'[t].data = more
    BY <1>1, <1>3, <1>8, <1>9 DEF Types, Files!Call
  <1>11. CallInv(t)'
    BY <1>1, <1>2, <1>10 DEF CallInv, loading
  <1>12. disturbed'[t] = disturbed[t]
    BY <1>2 DEF Files!Disturb
  <1>13. ASSUME NEW k \in 1 .. Len(more) PROVE Agrees(t, k)'
    <2> DEFINE place == c.offset + k - 1
    <2>1. CASE k <= Len(c.data)
      <3>1. k \in 1 .. Len(c.data) /\ more[k] = c.data[k]
        BY <1>3, <1>8, <2>1
      <3>2. c.data[k] = buffer["pcd"][place] \/ place \in disturbed[t]
        BY <1>1, <1>2, <3>1 DEF CopyInv, Agrees
      <3>3. place \in Place \ {at}
        BY <1>5, <3>1
      <3> HIDE DEF place, at
      <3>4. more[k] = buffer'["pcd"][place] \/ place \in disturbed'[t]
        BY <1>7, <1>12, <3>1, <3>2, <3>3
      <3> QED
        BY <1>10, <3>4 DEF Agrees, place
    <2>2. CASE k = Len(c.data) + 1
      <3>1. more[k] = v /\ place = at
        BY <1>3, <1>8, <2>2
      <3> HIDE DEF place, at
      <3>2. more[k] = buffer'["pcd"][place]
        BY <1>7, <3>1
      <3> QED
        BY <1>10, <3>2 DEF Agrees, place
    <2> QED
      BY <1>3, <1>8, <2>1, <2>2
  <1>14. CopyInv(t)'
    BY <1>2, <1>3, <1>4, <1>8, <1>10, <1>13 DEF CopyInv
  <1> QED
    BY <1>1, <1>2, <1>7, <1>10, <1>11, <1>14, StepKeeps DEF Types

LEMMA SeekLoadedInv ==
  ASSUME LoadedInv, NEW t \in Task, NEW f \in File, NEW arg \in SeekArg,
         \/ Files!SeekSet(t, f, arg)
         \/ \E whence \in {"SEEK_CUR", "SEEK_END"} : Files!SeekCheck(t, f, whence, arg),
         Files!Disturb(t), UNCHANGED loading, call'[t].file \notin orphan
  PROVE  LoadedInv'
  <1>1. Types /\ Files!Usable(f)
    BY DEF LoadedInv, Files!SeekSet, Files!SeekCheck
  <1>2. f_pos[f] \in 0 .. MaxPos /\ f_pos[f] \in Nat /\ private_data[f] = "pcd"
        /\ (f \notin orphan => f \in open)
    BY <1>1, UsableIsOpen, LoadedAssumption DEF Types, Files!Usable, Device
  <1>3. CASE Files!SeekSet(t, f, arg)
    <2> DEFINE ok == ~Files!SeekRefused(arg, DEV_MEM_SIZE)
               r  == IF ok THEN "OK" ELSE "EINVAL"
               c  == [Files!NoCall EXCEPT !.op = "SEEK_SET", !.file = f, !.ret = r]
    <2>1. ok => arg \in 0 .. MaxPos
      BY LoadedAssumption DEF Files!SeekRefused
    <2>2. /\ f_pos' = IF ok THEN [f_pos EXCEPT ![f] = arg] ELSE f_pos
          /\ pc' = [pc EXCEPT ![t] = "ret"] /\ call' = [call EXCEPT ![t] = c]
          /\ UNCHANGED <<buffer, private_data, f_mode>>
      BY <1>2, <1>3 DEF Files!SeekSet, Files!Enter, Device
    <2>3. r \in {"OK", "EINVAL"}
      OBVIOUS
    <2> HIDE DEF ok, r
    <2>4. c \in Files!Call /\ c.op = "SEEK_SET" /\ c.file = f
      BY <2>3, NoCallIsCall DEF Files!Call, Files!Op, Files!Ret
    <2> HIDE DEF c
    <2>5. pc'[t] = "ret" /\ call'[t] = c /\ f_pos' \in [File -> 0 .. MaxPos]
      BY <1>1, <2>1, <2>2 DEF Types
    <2>6. CallInv(t)'
      BY <1>2, <2>4, <2>5 DEF CallInv, loading
    <2> QED
      BY <2>2, <2>4, <2>5, <2>6, PlainStepKeeps
  <1>4. ASSUME NEW whence \in {"SEEK_CUR", "SEEK_END"}, Files!SeekCheck(t, f, whence, arg)
        PROVE  LoadedInv'
    <2> DEFINE temp == f_pos[f] + arg
               ok == ~Files!SeekRefused(temp, DEV_MEM_SIZE)
               r  == IF ok THEN "none" ELSE "EINVAL"
               where == IF ok THEN "seek" ELSE "ret"
               c  == [Files!NoCall EXCEPT !.op = whence, !.file = f, !.offset = f_pos[f],
                                          !.temp = temp, !.ret = r]
    <2>1. temp \in Int /\ (ok => temp \in 0 .. DEV_MEM_SIZE)
      BY <1>2, LoadedAssumption DEF Files!SeekRefused
    <2>2. /\ pc' = [pc EXCEPT ![t] = where] /\ call' = [call EXCEPT ![t] = c]
          /\ UNCHANGED <<buffer, private_data, f_mode, f_pos>>
      BY <1>2, <1>4 DEF Files!SeekCheck, Files!Enter, Device
    <2>3. r \in {"none", "EINVAL"} /\ where \in {"seek", "ret"} /\ (where = "seek" => ok)
      OBVIOUS
    <2> HIDE DEF ok, r, temp, where
    <2>4. c \in Files!Call /\ c.op = whence /\ c.file = f /\ c.temp = temp
      BY <1>2, <2>1, <2>3, NoCallIsCall DEF Files!Call, Files!Op, Files!Ret
    <2> HIDE DEF c
    <2>5. pc'[t] = where /\ call'[t] = c /\ f_pos' \in [File -> 0 .. MaxPos]
      BY <1>1, <2>2 DEF Types
    <2>6. CallInv(t)'
      BY <1>2, <2>1, <2>3, <2>4, <2>5 DEF CallInv, loading
    <2> QED
      BY <2>2, <2>3, <2>4, <2>5, <2>6, PlainStepKeeps
  <1> QED
    BY <1>3, <1>4

LEMMA SeekStoreLoadedInv ==
  ASSUME LoadedInv, NEW t \in Task, Files!SeekStore(t), Files!Disturb(t), UNCHANGED loading
  PROVE  LoadedInv'
  <1> DEFINE c == call[t]
  <1>1. /\ pc[t] = "seek" /\ Files!HandlerReturn(t, "OK") /\ "OK" \in Files!Ret
        /\ UNCHANGED <<buffer, private_data, f_mode>>
    BY DEF Files!SeekStore, Files!Ret
  <1>2. Types /\ CallInv(t)
    BY DEF LoadedInv
  <1>3. c \in Files!Call /\ c.op \in {"SEEK_CUR", "SEEK_END"} /\ c.file \in File
        /\ c.file \in open /\ c.file \notin orphan /\ c.offset \in Nat /\ c.temp \in Nat
    BY <1>1, <1>2, OnPcd, LoadedAssumption DEF Types, CallInv, Files!Call
  <1>4. f_pos' \in [File -> 0 .. MaxPos]
    <2>1. f_pos[c.file] \in Nat /\ f_pos \in [File -> 0 .. MaxPos]
      BY <1>2, <1>3, LoadedAssumption DEF Types
    <2>2. PICK new \in {c.temp, c.offset + c.temp, f_pos[c.file] + c.temp} :
            new <= MaxPos /\ f_pos' = [f_pos EXCEPT ![c.file] = new]
      BY <1>3 DEF Files!SeekStore
    <2>3. new \in 0 .. MaxPos
      BY <1>3, <2>1, <2>2, LoadedAssumption
    <2> QED
      BY <1>3, <2>1, <2>2, <2>3
  <1>5. /\ pc' = [pc EXCEPT ![t] = "ret"] /\ pc'[t] = "ret" /\ call' \in [Task -> Files!Call]
        /\ \A u \in Task \ {t} : call'[u] = call[u]
        /\ call'[t].op = c.op /\ call'[t].file = c.file
    BY <1>1, <1>2, HandlerReturnCall
  <1>6. CallInv(t)' /\ CopyInv(t)'
    BY <1>3, <1>5 DEF CallInv, CopyInv, loading
  <1> QED
    BY <1>1, <1>2, <1>4, <1>5, <1>6, StepKeeps DEF Types

LEMMA OpenLoadedInv ==
  ASSUME LoadedInv, NEW t \in Task, NEW f \in File, pcd_open(t, f), Files!Disturb(t)
  PROVE  LoadedInv'
  <1> DEFINE c == [Files!NoCall EXCEPT !.op = "open", !.file = f, !.ret = "OK"]
  <1>1. Types /\ Phase
    BY DEF LoadedInv
  <1>2. /\ module \in {"coming", "live"} /\ f \notin open \cup orphan /\ open' = open \cup {f}
        /\ UNCHANGED <<module, load, held, orphan>>
    BY DEF pcd_open, Load!Open
  <1>3. /\ private_data' = [private_data EXCEPT ![f] = "pcd"]
        /\ f_mode' = [f_mode EXCEPT ![f] = ReadWrite] /\ pc' = [pc EXCEPT ![t] = "ret"]
        /\ call' = [call EXCEPT ![t] = c] /\ UNCHANGED <<buffer, f_pos>>
    BY DEF pcd_open, Files!pcd_open, Files!Enter, Files!check_permission, Device
  <1>4. c \in Files!Call /\ c.op = "open" /\ c.file = f /\ c.ret = "OK"
    BY NoCallIsCall DEF Files!Call, Files!Op, Files!Ret
  <1> HIDE DEF c
  <1>5. /\ pc'[t] = "ret" /\ call'[t] = c
        /\ \A u \in Task \ {t} : pc'[u] = pc[u] /\ call'[u] = call[u]
    BY <1>1, <1>3 DEF Types
  <1>6. Types'
    <2>1. Load!TypeOK'
      BY <1>1, <1>2 DEF Types, Load!TypeOK
    <2>2. {g \in File : private_data'[g] # NoDev} = open' \cup orphan'
      BY <1>1, <1>2, <1>3, LoadedAssumption DEF Types, Device
    <2> QED
      BY <1>1, <1>3, <1>4, <2>1, <2>2 DEF Types, Device
  <1>7. Phase'
    BY <1>1, <1>2 DEF Phase
  <1>8. CallInv(t)' /\ CopyInv(t)'
    BY <1>2, <1>4, <1>5 DEF CallInv, CopyInv
  <1>9. ASSUME NEW u \in Task \ {t} PROVE CallInv(u)' /\ CopyInv(u)'
    BY <1>2, <1>5, CopyKept, CallKept
  <1> QED
    BY <1>6, <1>7, <1>8, <1>9 DEF LoadedInv

LEMMA ReleaseLoadedInv ==
  ASSUME LoadedInv, NEW t \in Task, NEW f \in File, pcd_release(t, f), Files!Disturb(t)
  PROVE  LoadedInv'
  <1>1. Types /\ Phase
    BY DEF LoadedInv
  <1>2. /\ f \in open /\ open' = open \ {f} /\ UNCHANGED <<module, load, held, orphan>>
    BY DEF pcd_release, Load!Close
  <1>3. /\ private_data' = [private_data EXCEPT ![f] = NoDev]
        /\ f_mode' = [f_mode EXCEPT ![f] = {}] /\ f_pos' = [f_pos EXCEPT ![f] = 0]
        /\ pc[t] = "idle" /\ UNCHANGED <<buffer, pc, call>>
        /\ \A u \in Task : call[u].file # f
    BY DEF pcd_release, Files!pcd_release, Files!InCall
  <1>4. Types'
    <2>1. Load!TypeOK'
      BY <1>1, <1>2 DEF Types, Load!TypeOK
    <2>2. {g \in File : private_data'[g] # NoDev} = open' \cup orphan'
      BY <1>1, <1>2, <1>3 DEF Types, Load!TypeOK
    <2> QED
      BY <1>1, <1>3, <2>1, <2>2, LoadedAssumption DEF Types
  <1>5. Phase'
    BY <1>1, <1>2 DEF Phase
  <1>6. \A u \in Task : CallInv(u)'
    BY <1>2, <1>3, CallKept
  <1>7. CopyInv(t)'
    BY <1>3 DEF CopyInv
  <1>8. \A u \in Task \ {t} : CopyInv(u)'
    BY <1>3, CopyKept
  <1> QED
    BY <1>4, <1>5, <1>6, <1>7, <1>8 DEF LoadedInv

LEMMA FopsLoadedInv ==
  ASSUME LoadedInv, NEW t \in Task, pcd_fops(t), Files!Disturb(t)
  PROVE  LoadedInv'
  <1>1. CASE \E f \in File : pcd_open(t, f) \/ pcd_release(t, f)
    BY <1>1, OpenLoadedInv, ReleaseLoadedInv
  <1>2. CASE /\ Syscall(t) \/ pcd_read(t) \/ pcd_write(t) \/ pcd_llseek(t)
             /\ call'[t].file \notin orphan /\ UNCHANGED loading
    <2>1. CASE Syscall(t)
      BY <1>2, <2>1, BeginTransferLoadedInv, SysReturnLoadedInv DEF Syscall, Files!Transfer
    <2>2. CASE pcd_read(t) \/ pcd_write(t)
      BY <1>2, <2>2, BeginCopyLoadedInv, CopyByteLoadedInv, FailedExitLoadedInv, CopyDoneLoadedInv
         DEF pcd_read, pcd_write, Files!pcd_read, Files!pcd_write
    <2>3. CASE pcd_llseek(t)
      BY <1>2, <2>3, SeekLoadedInv, SeekStoreLoadedInv DEF pcd_llseek, Files!pcd_llseek
    <2> QED
      BY <1>2, <2>1, <2>2, <2>3
  <1> QED
    BY <1>1, <1>2 DEF pcd_fops

-----------------------------------------------------------------------------
(* Loading and unloading.                                                  *)

\* No call is under way, but for those cut off, when no file is open.
LEMMA NobodyInside ==
  ASSUME LoadedInv, open = {}, NEW t \in Task
  PROVE  pc[t] \in {"idle", "ret"} /\ (pc[t] # "idle" => call[t].file \in orphan)
  BY DEF LoadedInv, CallInv

\* A step of the loader that leaves every call where it is.
LEMMA LoaderKeeps ==
  ASSUME LoadedInv, UNCHANGED <<using, open, orphan>>, Load!TypeOK', Phase',
         DOMAIN buffer' = Device, buffer'["pcd"] \in [Place -> Value],
         buffer' = buffer \/ open = {}
  PROVE  LoadedInv'
  <1>1. Types'
    BY DEF LoadedInv, Types, using
  <1>2. ASSUME NEW t \in Task PROVE CallInv(t)' /\ CopyInv(t)'
    <2>1. CallInv(t)'
      BY DEF LoadedInv, CallInv, using
    <2>2. pc' = pc /\ call' = call /\ disturbed' = disturbed /\ CopyInv(t)
      BY DEF LoadedInv, using
    <2>3. CASE buffer' = buffer
      <3>1. \A k : Agrees(t, k) => Agrees(t, k)'
        BY <2>2, <2>3 DEF Agrees
      <3> QED
        BY <2>1, <2>2, <3>1 DEF CopyInv
    <2>4. CASE open = {}
      <3>1. pc[t] # "copy"
        BY <2>4, NobodyInside
      <3> QED
        BY <2>1, <2>2, <3>1 DEF CopyInv
    <2> QED
      BY <2>1, <2>3, <2>4
  <1> QED
    BY <1>1, <1>2 DEF LoadedInv

LEMMA LoaderTypes ==
  ASSUME Load!TypeOK,
         Load!Insmod \/ Load!Rmmod \/ Load!ExitFunction \/ Load!InitFunction
  PROVE  Load!TypeOK'
  <1>1. CASE Load!Insmod \/ Load!Rmmod
    BY <1>1 DEF Load!TypeOK, Load!Insmod, Load!Rmmod
  <1>2. CASE Load!ExitFunction
    BY <1>2 DEF Load!TypeOK, Load!ExitFunction, Load!ExitDevice, Load!ExitClass, Load!ExitCdev,
                Load!ExitRegion, Load!Unregister, Load!FreeModule, Load!Resource
  <1>3. CASE Load!InitFunction
    BY <1>3 DEF Load!TypeOK, Load!InitFunction, Load!AllocChrdevRegion, Load!CdevAdd,
                Load!ClassCreate, Load!DeviceCreate, Load!ClassDel, Load!CdevDel,
                Load!UnregisterChrdev, Load!InitFails, Load!Register, Load!Unregister,
                Load!FreeModule, Load!Resource
  <1> QED
    BY <1>1, <1>2, <1>3

\* insmod gives the driver a buffer of its own, rmmod finds no file open.
LEMMA InsmodRmmodLoadedInv == ASSUME LoadedInv, Insmod \/ Rmmod PROVE LoadedInv'
  <1>1. Types /\ Phase
    BY DEF LoadedInv
  <1>2. Load!TypeOK'
    BY <1>1, LoaderTypes DEF Types, Insmod, Rmmod
  <1>3. CASE Insmod
    <2>1. open = {} /\ module' = "coming" /\ load' = "alloc_chrdev_region"
          /\ UNCHANGED <<using, open, orphan>> /\ buffer' = Zeroed
      BY <1>1, <1>3 DEF Insmod, Load!Insmod, Phase
    <2>2. DOMAIN Zeroed = Device /\ Zeroed["pcd"] \in [Place -> Value]
      BY LoadedAssumption DEF Zeroed, Device, Place
    <2>3. Phase'
      BY <2>1 DEF Phase, ExitCalls
    <2> QED
      BY <1>2, <2>1, <2>2, <2>3, LoaderKeeps
  <1>4. CASE Rmmod
    <2>1. /\ open = {} /\ module' = "going" /\ UNCHANGED <<using, open, orphan, buffer>>
      BY <1>4 DEF Rmmod, Load!Rmmod, Load!Pinned
    <2>2. Phase'
      BY <2>1 DEF Phase
    <2> QED
      BY <1>1, <1>2, <2>1, <2>2, LoaderKeeps DEF Types
  <1> QED
    BY <1>3, <1>4

LEMMA ExitLoadedInv == ASSUME LoadedInv, pcd_driver_exit PROVE LoadedInv'
  <1>1. Types /\ Phase
    BY DEF LoadedInv
  <1>2. Load!TypeOK'
    BY <1>1, LoaderTypes DEF Types, pcd_driver_exit
  <1>3. load \in ExitCalls /\ module = "going" /\ open = {}
    <2>1. load \in ExitCalls
      BY DEF pcd_driver_exit, Load!ExitFunction, Load!ExitDevice, Load!ExitClass, Load!ExitCdev,
             Load!ExitRegion, Load!Unregister, ExitCalls
    <2> QED
      BY <1>1, <2>1 DEF Phase
  <1>4. UNCHANGED <<using, open, orphan, buffer>>
    BY <1>3 DEF pcd_driver_exit, Load!ExitFunction, Load!ExitDevice, Load!ExitClass, Load!ExitCdev,
                Load!ExitRegion, Load!Unregister, Load!FreeModule
  <1>5. module' = "going" \/ (module' = "absent" /\ load' = "idle")
    BY <1>3 DEF pcd_driver_exit, Load!ExitFunction, Load!ExitDevice, Load!ExitClass, Load!ExitCdev,
                Load!ExitRegion, Load!Unregister, Load!FreeModule
  <1>6. Phase'
    BY <1>3, <1>4, <1>5 DEF Phase, ExitCalls
  <1> QED
    BY <1>1, <1>2, <1>4, <1>6, LoaderKeeps DEF Types

\* What a step of init does to files and module.
LEMMA InitSteps ==
  ASSUME Load!InitFunction
  PROVE  /\ load' \notin ExitCalls
         /\ \/ open' = open /\ orphan' = orphan /\ module' \in {module, "live"}
            \/ open' = {} /\ orphan' = orphan \cup open
  BY DEF Load!InitFunction, Load!AllocChrdevRegion, Load!CdevAdd, Load!ClassCreate,
         Load!DeviceCreate, Load!ClassDel, Load!CdevDel, Load!UnregisterChrdev, Load!InitFails,
         Load!Register, Load!Unregister, Load!FreeModule, ExitCalls

\* An init that fails cuts off every call that is under way.
LEMMA InitFunctionLoadedInv == ASSUME LoadedInv, pcd_driver_init PROVE LoadedInv'
  <1>1. Types /\ Phase
    BY DEF LoadedInv
  <1>2. Load!InitFunction /\ Forget /\ UNCHANGED <<buffer, private_data, f_mode>>
    BY DEF pcd_driver_init
  <1>3. Load!TypeOK'
    BY <1>1, <1>2, LoaderTypes DEF Types
  <1>4. open' \cup orphan' = open \cup orphan /\ orphan \subseteq orphan' /\ orphan' \subseteq File
    BY <1>2, <1>3, InitSteps DEF Load!TypeOK
  <1>5. Phase'
    BY <1>1, <1>2, InitSteps DEF Phase
  <1>6. ASSUME NEW t \in Task
        PROVE  /\ CutOff(t) => /\ pc'[t] = "ret" /\ call'[t] \in Files!Call
                               /\ call'[t].file = call[t].file /\ call'[t].op = "none"
               /\ ~CutOff(t) => /\ pc'[t] = pc[t] /\ call'[t] = call[t]
                                /\ disturbed'[t] = disturbed[t]
    <2>1. call[t].file \in File \cup {NoFile}
      BY <1>1 DEF Types, Files!Call
    <2>2. /\ pc'[t] = IF CutOff(t) THEN "ret" ELSE pc[t]
          /\ call'[t] = IF CutOff(t) THEN [Files!NoCall EXCEPT !.file = call[t].file] ELSE call[t]
          /\ disturbed'[t] = IF CutOff(t) THEN {} ELSE disturbed[t]
      BY <1>2 DEF Forget
    <2> QED
      BY <2>1, <2>2, NoCallIsCall DEF Files!Call
  <1>7. Types'
    <2>1. f_pos' \in [File -> 0 .. MaxPos]
      BY <1>1, <1>2, LoadedAssumption DEF Types, Forget
    <2>2. pc' \in [Task -> {"idle", "lock", "copy", "seek", "ret"}]
      <3>1. pc' = [t \in Task |-> pc'[t]]
        BY <1>2 DEF Forget
      <3> QED
        BY <1>1, <1>6, <3>1 DEF Types
    <2>3. call' \in [Task -> Files!Call]
      <3>1. call' = [t \in Task |-> call'[t]]
        BY <1>2 DEF Forget
      <3> QED
        BY <1>1, <1>6, <3>1 DEF Types
    <2> QED
      BY <1>1, <1>2, <1>3, <1>4, <2>1, <2>2, <2>3 DEF Types
  <1>8. ASSUME NEW t \in Task PROVE CallInv(t)' /\ CopyInv(t)'
    <2>1. CASE CutOff(t)
      <3>1. pc'[t] = "ret" /\ call'[t].op = "none" /\ call'[t].file \in orphan'
        BY <1>6, <2>1 DEF CutOff
      <3> QED
        BY <3>1 DEF CallInv, CopyInv
    <2>2. CASE ~CutOff(t)
      <3>1. /\ pc'[t] = pc[t] /\ call'[t] = call[t] /\ disturbed'[t] = disturbed[t]
            /\ CallInv(t) /\ CopyInv(t) /\ call[t].file \notin orphan' /\ buffer' = buffer
        BY <1>2, <1>6, <2>2 DEF LoadedInv, CutOff
      <3>2. CallInv(t)'
        BY <1>4, <3>1 DEF CallInv
      <3>3. \A k : Agrees(t, k) => Agrees(t, k)'
        BY <3>1 DEF Agrees
      <3>4. CopyInv(t)'
        BY <3>1, <3>3 DEF CopyInv
      <3> QED
        BY <3>2, <3>4
    <2> QED
      BY <2>1, <2>2
  <1> QED
    BY <1>5, <1>7, <1>8 DEF LoadedInv

-----------------------------------------------------------------------------
(* The theorems.                                                           *)

\* Every call is consistent with its program counter, and nobody is inside a driver
\* that is not there, however opens, transfers, loads and unloads interleave.
THEOREM LoadedInvHolds == Spec => []LoadedInv
  <1>1. LoadedInv /\ [Next]_vars => LoadedInv'
    <2> SUFFICES ASSUME LoadedInv, [Next]_vars PROVE LoadedInv'
      OBVIOUS
    <2>1. CASE Insmod \/ Rmmod \/ pcd_driver_init \/ pcd_driver_exit
      BY <2>1, InsmodRmmodLoadedInv, InitFunctionLoadedInv, ExitLoadedInv
    <2>2. ASSUME NEW t \in Task, pcd_fops(t), Files!Disturb(t) PROVE LoadedInv'
      BY <2>2, FopsLoadedInv
    <2>3. CASE UNCHANGED vars
      <3>1. UNCHANGED <<using, open, orphan, buffer, module, load, held>>
        BY <2>3 DEF vars, loading
      <3>2. Load!TypeOK' /\ Phase'
        BY <3>1 DEF LoadedInv, Types, Load!TypeOK, Phase
      <3> QED
        BY <3>1, <3>2, LoaderKeeps DEF LoadedInv, Types
    <2> QED
      BY <2>1, <2>2, <2>3 DEF Next
  <1> QED
    BY InitLoadedInv, <1>1, PTL DEF Spec

\* No copy of pcd_read or pcd_write runs outside device_buffer, though nothing locks
\* the position, the count or the buffer.
THEOREM NoOverrun == Spec => []TransferInBounds
  <1>1. LoadedInv => TransferInBounds
    <2> SUFFICES ASSUME LoadedInv, NEW t \in Task, pc[t] = "copy", ~Files!Refused(t)
                 PROVE  call[t].offset + call[t].count <= [d \in Device |-> DEV_MEM_SIZE][Files!DevOf(t)]
      BY TypesAreTypeOK DEF LoadedInv, TransferInBounds, Files!TransferInBounds
    <2>1. Files!DevOf(t) = "pcd" /\ CopyInv(t)
      BY OnPcd DEF LoadedInv
    <2>2. ~(call[t].count > IntMax)
      BY DEF Files!Refused
    <2> QED
      BY <2>1, <2>2 DEF CopyInv, Device
  <1> QED
    BY LoadedInvHolds, <1>1, PTL

\* A transfer is torn only where another call wrote after the place was
\* copied, for any number of calls that overlap.
THEOREM TornWhereDisturbed == Spec => []TornOnlyWhereDisturbed
  <1>1. LoadedInv => TornOnlyWhereDisturbed
    BY DEF LoadedInv, CopyInv, Agrees, TornOnlyWhereDisturbed
  <1> QED
    BY LoadedInvHolds, <1>1, PTL

\* pcd_driver_exit meets no call but those that an earlier, failed load cut off.
THEOREM ExitMeetsNobody == Spec => []ExitRunsAlone
  <1>1. LoadedInv => ExitRunsAlone
    <2> SUFFICES ASSUME LoadedInv, module = "going", NEW t \in Task, call[t].file # NoFile
                 PROVE  call[t].file \in orphan
      BY DEF ExitRunsAlone
    <2>1. open = {} /\ CallInv(t)
      BY DEF LoadedInv, Phase
    <2>2. pc[t] # "idle"
      BY <2>1, NoCallIsCall DEF CallInv
    <2> QED
      BY <2>1, <2>2 DEF CallInv
  <1> QED
    BY LoadedInvHolds, <1>1, PTL
=============================================================================
