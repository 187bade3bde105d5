---------------------- MODULE MutexCharDevicesProofs ----------------------
(***************************************************************************)
(* Proofs about MutexCharDevices, for any number of tasks, files, devices, *)
(* any buffer sizes and any word width.                                    *)
(*                                                                         *)
(* IndInv is inductive.  An action changes the call of one task t; what it *)
(* must leave alone for the others is Frame(t), and StepPreserves reduces  *)
(* the induction step to Frame(t), TypeOK' and the two conjuncts about t.  *)
(***************************************************************************)
EXTENDS InterruptibleCharDevice, MutexRefinesAtomic, TLAPS

\* The limit applied to a count: the request then ends within the device, or
\* the remainder was negative and, as a size_t, is more than INT_MAX.
LEMMA ClampBounds ==
  ASSUME NEW d \in Dev, NEW offset \in 0 .. MaxPos, NEW n \in Count
  PROVE  LET c == Clamp(offset, n, Size[d])
         IN  c \in Nat /\ (c > IntMax \/ offset + c <= Size[d])
  BY ConstantsAssumption, WidthAssumption DEF Clamp, ToSizeT

\* The record an idle task has, and every one made from it, is a call.
LEMMA NoCallIsCall ==
  NoCall \in Call /\ NoCall.data = <<>> /\ NoCall.ret = "none"
  <1>1. <<>> \in Seq(Value)
    OBVIOUS
  <1> QED
    BY <1>1 DEF NoCall, Call, Op, Ret

\* What a step of t leaves alone for every other task: its locals, the device
\* of its file and, while it copies, the mutex and the buffer of that device.
Frame(t) ==
  \A u \in Task \ {t} :
    /\ UNCHANGED <<pc[u], call[u]>>
    /\ pc[u] # "idle" => UNCHANGED private_data[call[u].file]
    /\ pc[u] = "copy" => /\ pcd_mutex_lock'[DevOf(u)] = pcd_mutex_lock[DevOf(u)]
                         /\ buffer'[DevOf(u)] = buffer[DevOf(u)]

\* The file of a call is known to its opener alone, before and after.
OpenerFrame(t) ==
  \A u \in Task \ {t} :
    call[u].op = "open" \/ call'[t].op = "open" => call'[t].file # call[u].file

\* The induction step, reduced to what an action does to its own task.
LEMMA StepPreserves ==
  ASSUME IndInv, NEW t \in Task, Frame(t), OpenerFrame(t),
         TypeOK', CallInv(t)', SectionInv(t)'
  PROVE  IndInv'
  <1>1. ASSUME NEW u \in Task \ {t} PROVE CallInv(u)' /\ SectionInv(u)'
    <2>1. /\ pc'[u] = pc[u] /\ call'[u] = call[u]
          /\ pc[u] # "idle" => DevOf(u)' = DevOf(u)
      BY DEF Frame, DevOf
    <2>2. pc[u] = "copy" => /\ pcd_mutex_lock'[DevOf(u)] = pcd_mutex_lock[DevOf(u)]
                            /\ buffer'[DevOf(u)] = buffer[DevOf(u)]
      BY DEF Frame
    <2>3. CallInv(u) /\ SectionInv(u)
      BY DEF IndInv
    <2>4. CallInv(u)'
      BY <2>1, <2>3 DEF CallInv, DevOf, NoCall
    <2>5. SectionInv(u)'
      BY <2>1, <2>2, <2>3 DEF SectionInv, Refused
    <2> QED
      BY <2>4, <2>5
  <1>2. OpenerAlone'
    BY DEF IndInv, OpenerAlone, Frame, OpenerFrame
  <1> QED
    BY <1>1, <1>2 DEF IndInv

LEMMA InitIndInv == Init => IndInv
  <1> SUFFICES ASSUME Init PROVE IndInv
    OBVIOUS
  <1>1. TypeOK
    BY NoCallIsCall, ConstantsAssumption DEF Init, TypeOK
  <1>2. \A t \in Task : CallInv(t) /\ SectionInv(t)
    BY DEF Init, CallInv, SectionInv, NoCall
  <1>3. OpenerAlone
    BY DEF Init, OpenerAlone, NoCall
  <1> QED
    BY <1>1, <1>2, <1>3 DEF IndInv

-----------------------------------------------------------------------------
(* open and close. *)

LEMMA OpenIndInv ==
  ASSUME IndInv, NEW t \in Task, NEW f \in File, NEW d \in Dev,
         NEW mode \in OpenMode, pcd_open(t, f, d, mode)
  PROVE  IndInv'
  <1> DEFINE r == check_permission(Perm[d], mode)
             c == [NoCall EXCEPT !.op = "open", !.file = f, !.ret = r]
  <1>1. r \in {"OK", "EPERM"}
    BY DEF check_permission
  <1>2. c \in Call /\ c.op = "open" /\ c.file = f /\ c.ret = r
    BY <1>1, NoCallIsCall DEF NoCall, Call, Op, Ret
  <1>3. /\ pc' = [pc EXCEPT ![t] = "ret"] /\ call' = [call EXCEPT ![t] = c]
        /\ private_data' = [private_data EXCEPT ![f] = d]
        /\ f_mode' = [f_mode EXCEPT ![f] = mode]
        /\ UNCHANGED <<buffer, pcd_mutex_lock, f_pos>>
        /\ pc[t] = "idle" /\ private_data[f] = NoDev
    BY DEF pcd_open, Enter
  <1> HIDE DEF r, c
  <1>4. TypeOK'
    BY <1>2, <1>3 DEF IndInv, TypeOK
  <1>5. \A u \in Task : call[u].file # f
    BY <1>3, ConstantsAssumption DEF IndInv, TypeOK, CallInv, NoCall
  <1>6. Frame(t) /\ OpenerFrame(t)
    BY <1>2, <1>3, <1>5 DEF IndInv, TypeOK, Frame, OpenerFrame
  <1>7. CallInv(t)' /\ SectionInv(t)'
    BY <1>2, <1>3 DEF IndInv, TypeOK, CallInv, SectionInv
  <1> QED
    BY <1>4, <1>6, <1>7, StepPreserves

LEMMA ReleaseIndInv ==
  ASSUME IndInv, NEW t \in Task, NEW f \in File, pcd_release(t, f)
  PROVE  IndInv'
  <1>1. TypeOK'
    BY ConstantsAssumption DEF IndInv, TypeOK, pcd_release
  <1>2. Frame(t) /\ OpenerFrame(t)
    BY DEF IndInv, TypeOK, CallInv, NoCall, OpenerAlone, Frame, OpenerFrame,
           pcd_release, InCall
  <1>3. CallInv(t)' /\ SectionInv(t)'
    BY DEF IndInv, CallInv, SectionInv, NoCall, pcd_release
  <1> QED
    BY <1>1, <1>2, <1>3, StepPreserves

-----------------------------------------------------------------------------
(* read and write. *)

LEMMA BeginTransferIndInv ==
  ASSUME IndInv, NEW t \in Task, NEW f \in File, NEW op \in {"read", "write"},
         NEW n \in Count, BeginTransfer(t, f, op, n)
  PROVE  IndInv'
  <1> DEFINE c == [NoCall EXCEPT !.op = op, !.file = f,
                                 !.offset = f_pos[f], !.count = n]
  <1>1. /\ f_pos[f] \in 0 .. MaxPos /\ f_pos[f] \in Nat /\ n \in Nat
        /\ private_data[f] \in Dev
    BY ConstantsAssumption DEF IndInv, TypeOK, BeginTransfer, Usable
  <1>2. /\ c \in Call /\ c.op = op /\ c.file = f /\ c.offset = f_pos[f]
        /\ c.count = n /\ c.data = <<>> /\ c.ret = "none"
    BY <1>1, NoCallIsCall DEF Call, Op
  <1>3. /\ pc' = [pc EXCEPT ![t] = "lock"] /\ call' = [call EXCEPT ![t] = c]
        /\ UNCHANGED <<buffer, pcd_mutex_lock, private_data, f_mode, f_pos>>
        /\ \A u \in Task : call[u].op = "open" => call[u].file # f
    BY DEF BeginTransfer, Enter, Usable
  <1> HIDE DEF c
  <1>4. TypeOK'
    BY <1>2, <1>3 DEF IndInv, TypeOK
  <1>5. Frame(t) /\ OpenerFrame(t)
    BY <1>2, <1>3 DEF IndInv, TypeOK, Frame, OpenerFrame
  <1>6. CallInv(t)' /\ SectionInv(t)'
    BY <1>1, <1>2, <1>3, ConstantsAssumption
    DEF IndInv, TypeOK, CallInv, SectionInv
  <1> QED
    BY <1>4, <1>5, <1>6, StepPreserves

LEMMA LockAndClampIndInv ==
  ASSUME IndInv, NEW t \in Task, LockAndClamp(t)
  PROVE  IndInv'
  <1> DEFINE d == DevOf(t)
             n == Clamp(call[t].offset, call[t].count, Size[d])
  <1>1. /\ pc[t] = "lock" /\ call[t] \in Call /\ call[t].data = <<>>
        /\ call[t].file \in File /\ d \in Dev /\ call[t].op \in {"read", "write"}
        /\ call[t].offset \in 0 .. MaxPos /\ call[t].count \in Count
    BY ConstantsAssumption DEF IndInv, TypeOK, CallInv, DevOf, LockAndClamp, Call
  <1>2. n \in Nat /\ (n > IntMax \/ call[t].offset + n <= Size[d])
    BY <1>1, ClampBounds
  <1>3. /\ pc' = [pc EXCEPT ![t] = "copy"]
        /\ call' = [call EXCEPT ![t].count = n]
        /\ pcd_mutex_lock[d] = NoTask
        /\ pcd_mutex_lock' = [pcd_mutex_lock EXCEPT ![d] = t]
        /\ UNCHANGED <<buffer, private_data, f_mode, f_pos>>
    BY DEF LockAndClamp, MutexLock
  <1> HIDE DEF n
  <1>4. /\ call'[t] \in Call /\ call'[t].count = n /\ call'[t].data = <<>>
        /\ call'[t].op = call[t].op /\ call'[t].file = call[t].file
        /\ call'[t].offset = call[t].offset /\ pc'[t] = "copy" /\ DevOf(t)' = d
    BY <1>1, <1>2, <1>3 DEF IndInv, TypeOK, Call, DevOf
  <1>5. TypeOK'
    BY <1>1, <1>3, <1>4 DEF IndInv, TypeOK
  <1>6. \A u \in Task : pc[u] = "copy" => DevOf(u) # d /\ DevOf(u) \in Dev
    BY <1>3, ConstantsAssumption DEF IndInv, CallInv, SectionInv, DevOf
  <1>7. Frame(t)
    BY <1>1, <1>3, <1>6 DEF IndInv, TypeOK, Frame
  <1>8. OpenerFrame(t)
    BY <1>1, <1>4 DEF IndInv, OpenerAlone, OpenerFrame
  <1>9. CallInv(t)'
    BY <1>1, <1>3, <1>4 DEF CallInv, DevOf
  <1>10. SectionInv(t)'
    BY <1>1, <1>2, <1>3, <1>4 DEF IndInv, TypeOK, SectionInv, Refused
  <1> QED
    BY <1>5, <1>7, <1>8, <1>9, <1>10, StepPreserves

\* What is known of a call that copies, in the terms the steps below use.
LEMMA CopyFacts ==
  ASSUME IndInv, NEW t \in Task, pc[t] = "copy"
  PROVE  LET c == call[t] IN
         /\ c \in Call /\ c.op \in {"read", "write"} /\ c.file \in File
         /\ DevOf(t) \in Dev /\ Size[DevOf(t)] \in Nat
         /\ c.offset \in Nat /\ c.count \in Nat /\ c.data \in Seq(Value)
         /\ Len(c.data) \in Nat /\ Len(c.data) <= c.count
         /\ pcd_mutex_lock[DevOf(t)] = t
  <1>1. call[t] \in Call /\ CallInv(t) /\ SectionInv(t)
    BY DEF IndInv, TypeOK
  <1>2. /\ call[t].offset \in Nat /\ call[t].count \in Nat
        /\ call[t].data \in Seq(Value)
    BY <1>1 DEF Call
  <1>3. /\ call[t].op \in {"read", "write"} /\ call[t].file \in File
        /\ DevOf(t) \in Dev
    BY <1>1 DEF CallInv, DevOf
  <1>4. Len(call[t].data) \in Nat
    BY <1>2
  <1>5. pcd_mutex_lock[DevOf(t)] = t /\ Len(call[t].data) <= call[t].count
    BY <1>1 DEF SectionInv
  <1> QED
    BY <1>1, <1>2, <1>3, <1>4, <1>5, ConstantsAssumption

\* Two calls that copy are on different devices.
LEMMA SectionsApart ==
  ASSUME IndInv, NEW t \in Task, pc[t] = "copy",
         NEW u \in Task \ {t}, pc[u] = "copy"
  PROVE  DevOf(u) # DevOf(t)
  BY CopyFacts

\* The ways out of the critical section: t returns, with whatever it does to
\* the mutex and to the buffer of its own device.
Leave(t) ==
  /\ pc' = [pc EXCEPT ![t] = "ret"]
  /\ \A u \in Task \ {t} : call'[u] = call[u]
  /\ call' \in [Task -> Call]
  /\ call'[t].op = call[t].op /\ call'[t].file = call[t].file
  /\ call'[t].ret = "OK" => call'[t].offset <= Size[DevOf(t)]
  /\ UNCHANGED <<private_data, f_mode, f_pos>>
  /\ pcd_mutex_lock' \in [Dev -> Task \cup {NoTask}]
  /\ DOMAIN buffer' = Dev
  /\ \A d \in Dev : buffer'[d] \in [0 .. Size[d] - 1 -> Value]
  /\ \A d \in Dev \ {DevOf(t)} : UNCHANGED <<pcd_mutex_lock[d], buffer[d]>>

LEMMA LeaveIndInv ==
  ASSUME IndInv, NEW t \in Task, pc[t] = "copy", Leave(t)
  PROVE  IndInv'
  <1>1. pc'[t] = "ret" /\ DevOf(t)' = DevOf(t)
    BY DEF IndInv, TypeOK, Leave, DevOf
  <1>2. TypeOK'
    BY DEF IndInv, TypeOK, Leave
  <1>3. Frame(t)
    BY SectionsApart, CopyFacts DEF IndInv, TypeOK, Frame, Leave
  <1>4. OpenerFrame(t)
    BY CopyFacts DEF IndInv, OpenerAlone, OpenerFrame, Leave
  <1>5. CallInv(t)' /\ SectionInv(t)'
    BY <1>1, CopyFacts DEF CallInv, SectionInv, DevOf, Leave
  <1> QED
    BY <1>2, <1>3, <1>4, <1>5, StepPreserves

\* The effect of HandlerReturn on the calls.
LEMMA HandlerReturnCall ==
  ASSUME IndInv, NEW t \in Task, NEW r \in Ret, HandlerReturn(t, r)
  PROVE  /\ call' \in [Task -> Call]
         /\ \A u \in Task \ {t} : call'[u] = call[u]
         /\ call'[t].op = call[t].op /\ call'[t].file = call[t].file
         /\ call'[t].ret = r
  <1> DEFINE c == [call[t] EXCEPT !.ret = r]
  <1>1. call \in [Task -> Call] /\ call' = [call EXCEPT ![t] = c]
    BY DEF IndInv, TypeOK, HandlerReturn
  <1>2. c \in Call /\ c.op = call[t].op /\ c.file = call[t].file /\ c.ret = r
    BY <1>1 DEF Call
  <1> HIDE DEF c
  <1> QED
    BY <1>1, <1>2

\* mutex_unlock gives up the mutex of the caller's own device.
LEMMA UnlockType ==
  ASSUME IndInv, NEW t \in Task, pc[t] = "copy", MutexUnlock(t)
  PROVE  /\ pcd_mutex_lock' \in [Dev -> Task \cup {NoTask}]
         /\ \A d \in Dev \ {DevOf(t)} : UNCHANGED pcd_mutex_lock[d]
  BY CopyFacts DEF IndInv, TypeOK, MutexUnlock

LEMMA UnlockingReturnIndInv ==
  ASSUME IndInv, NEW t \in Task, EmptyWrite(t) \/ ReadFault(t)
  PROVE  IndInv'
  <1>1. /\ pc[t] = "copy" /\ MutexUnlock(t)
        /\ UNCHANGED <<buffer, private_data, f_mode, f_pos>>
        /\ \E r \in Ret \ {"OK"} : HandlerReturn(t, r)
    BY DEF EmptyWrite, ReadFault, Copying, Ret
  <1>2. PICK r \in Ret \ {"OK"} : HandlerReturn(t, r)
    BY <1>1
  <1>3. /\ call' \in [Task -> Call]
        /\ \A u \in Task \ {t} : call'[u] = call[u]
        /\ call'[t].op = call[t].op /\ call'[t].file = call[t].file
        /\ call'[t].ret # "OK"
    BY <1>2, HandlerReturnCall
  <1>4. /\ pcd_mutex_lock' \in [Dev -> Task \cup {NoTask}]
        /\ \A d \in Dev \ {DevOf(t)} : UNCHANGED pcd_mutex_lock[d]
    BY <1>1, UnlockType
  <1>5. Leave(t)
    BY <1>1, <1>2, <1>3, <1>4 DEF Leave, HandlerReturn, IndInv, TypeOK
  <1> QED
    BY <1>1, <1>5, LeaveIndInv

\* What copy_from_user zero-fills stays a buffer of its size.
LEMMA ZeroFilled ==
  ASSUME IndInv, NEW t \in Task, pc[t] = "copy", buffer' = ZeroFill(t)
  PROVE  /\ DOMAIN buffer' = Dev
         /\ \A e \in Dev \ {DevOf(t)} : buffer'[e] = buffer[e]
         /\ \A e \in Dev : buffer'[e] \in [0 .. Size[e] - 1 -> Value]
  <1> DEFINE d == DevOf(t)
             c == call[t]
             Filled(i) == /\ ~Refused(t) /\ i >= c.offset + Len(c.data)
                          /\ i < c.offset + c.count
             places == 0 .. Size[d] - 1
  <1>1. d \in Dev
    BY CopyFacts
  <1>2. /\ DOMAIN buffer' = Dev
        /\ \A e \in Dev \ {d} : buffer'[e] = buffer[e]
        /\ buffer'[d] = [i \in DOMAIN buffer[d] |->
                           IF Filled(i) THEN Zero ELSE buffer[d][i]]
    BY <1>1 DEF IndInv, TypeOK, ZeroFill
  <1>3. /\ buffer[d] \in [places -> Value] /\ Zero \in Value
        /\ \A e \in Dev : buffer[e] \in [0 .. Size[e] - 1 -> Value]
    BY <1>1, ConstantsAssumption DEF IndInv, TypeOK
  <1> HIDE DEF Filled, places
  <1>4. buffer'[d] \in [places -> Value]
    BY <1>2, <1>3
  <1> QED
    BY <1>2, <1>3, <1>4 DEF places

LEMMA WriteFaultIndInv ==
  ASSUME IndInv, NEW t \in Task, WriteFault(t)
  PROVE  IndInv'
  <1>1. /\ pc[t] = "copy" /\ HandlerReturn(t, "EFAULT")
        /\ UNCHANGED <<pcd_mutex_lock, private_data, f_mode, f_pos>>
        /\ buffer' = ZeroFill(t)
    BY DEF WriteFault, Copying
  <1>2. Leave(t)
    BY <1>1, HandlerReturnCall, ZeroFilled
    DEF Leave, HandlerReturn, IndInv, TypeOK, Ret
  <1> QED
    BY <1>1, <1>2, LeaveIndInv

LEMMA CopyDoneIndInv ==
  ASSUME IndInv, NEW t \in Task, CopyDone(t)
  PROVE  IndInv'
  <1>1. /\ pc[t] = "copy" /\ MutexUnlock(t)
        /\ Len(call[t].data) = call[t].count
        /\ pc' = [pc EXCEPT ![t] = "ret"]
        /\ UNCHANGED <<buffer, private_data, f_mode, f_pos>>
    BY DEF CopyDone
  <1>2. call[t].offset + call[t].count <= Size[DevOf(t)]
    BY <1>1, CopyFacts, ConstantsAssumption DEF IndInv, SectionInv, Refused
  <1>3. /\ call' \in [Task -> Call]
        /\ \A u \in Task \ {t} : call'[u] = call[u]
        /\ call'[t].op = call[t].op /\ call'[t].file = call[t].file
        /\ call'[t].offset = call[t].offset + call[t].count
    <2> DEFINE end == call[t].offset + call[t].count
    <2>1. call' = [call EXCEPT ![t].offset = end, ![t].ret = "OK"]
      BY DEF CopyDone
    <2>2. call[t] \in Call /\ end \in Nat /\ call \in [Task -> Call]
      BY <1>1, CopyFacts DEF IndInv, TypeOK
    <2> HIDE DEF end
    <2>3. /\ call' \in [Task -> Call]
          /\ \A u \in Task \ {t} : call'[u] = call[u]
          /\ call'[t].op = call[t].op /\ call'[t].file = call[t].file
          /\ call'[t].offset = end
      BY <2>1, <2>2 DEF Call, Ret
    <2> QED
      BY <2>3 DEF end
  <1>4. Leave(t)
    BY <1>1, <1>2, <1>3, UnlockType DEF Leave, IndInv, TypeOK
  <1> QED
    BY <1>1, <1>4, LeaveIndInv

\* The byte lands at the next place of the device, within its buffer, and the
\* places copied before are not touched.
LEMMA CopyByteIndInv ==
  ASSUME IndInv, NEW t \in Task, CopyByte(t)
  PROVE  IndInv'
  <1> DEFINE d == DevOf(t)
             c == call[t]
             at == c.offset + Len(c.data)
  <1>1. /\ pc[t] = "copy" /\ ~Refused(t) /\ Len(c.data) < c.count
        /\ UNCHANGED <<pcd_mutex_lock, private_data, f_mode, f_pos, pc>>
    BY DEF CopyByte, Copying
  <1>2. /\ c \in Call /\ d \in Dev /\ Size[d] \in Nat /\ c.offset \in Nat
        /\ c.count \in Nat /\ c.data \in Seq(Value) /\ Len(c.data) \in Nat
        /\ c.op \in {"read", "write"} /\ pcd_mutex_lock[d] = t
        /\ CallInv(t) /\ SectionInv(t)
    BY <1>1, CopyFacts DEF IndInv
  <1>3. c.offset + c.count <= Size[d] /\ at \in 0 .. Size[d] - 1
    <2> DEFINE s == Size[d]
               o == c.offset
               n == c.count
               l == Len(c.data)
    <2>1. o + n <= s
      BY <1>1, <1>2 DEF SectionInv
    <2>2. s \in Nat /\ o \in Nat /\ n \in Nat /\ l \in Nat /\ l < n
      BY <1>1, <1>2
    <2> HIDE DEF s, o, n, l
    <2>3. o + l \in 0 .. s - 1
      BY <2>1, <2>2
    <2> QED
      BY <2>1, <2>3 DEF s, o, n, l
  <1>4. PICK v \in Value :
          /\ IF c.op = "read"
             THEN v = buffer[d][at] /\ UNCHANGED buffer
             ELSE buffer' = [buffer EXCEPT ![d][at] = v]
          /\ call' = [call EXCEPT ![t].data = Append(c.data, v)]
    BY DEF CopyByte
  <1>5. /\ DOMAIN buffer' = Dev
        /\ \A e \in Dev : buffer'[e] \in [0 .. Size[e] - 1 -> Value]
        /\ \A e \in Dev \ {d} : buffer'[e] = buffer[e]
        /\ \A k \in 0 .. Size[d] - 1 :
             buffer'[d][k] = IF k = at THEN v ELSE buffer[d][k]
    <2>1. /\ DOMAIN buffer = Dev
          /\ \A e \in Dev : buffer[e] \in [0 .. Size[e] - 1 -> Value]
      BY DEF IndInv, TypeOK
    <2> HIDE DEF at
    <2>2. CASE c.op = "read"
      BY <2>1, <2>2, <1>2, <1>3, <1>4
    <2>3. CASE c.op = "write"
      <3>1. buffer' = [buffer EXCEPT ![d] = [buffer[d] EXCEPT ![at] = v]]
        BY <2>1, <2>3, <1>4
      <3>2. buffer[d] \in [0 .. Size[d] - 1 -> Value]
        BY <2>1, <1>2
      <3>3. /\ [buffer[d] EXCEPT ![at] = v] \in [0 .. Size[d] - 1 -> Value]
            /\ \A k \in 0 .. Size[d] - 1 :
                 [buffer[d] EXCEPT ![at] = v][k] =
                   IF k = at THEN v ELSE buffer[d][k]
        BY <3>2, <1>3
      <3> QED
        BY <2>1, <3>1, <3>3, <1>2
    <2> QED
      BY <2>2, <2>3, <1>2
  <1> DEFINE more == Append(c.data, v)
  <1>6. /\ more \in Seq(Value) /\ Len(more) = Len(c.data) + 1
        /\ \A i \in 1 .. Len(more) :
             more[i] = IF i <= Len(c.data) THEN c.data[i] ELSE v
    BY <1>2
  <1>7. call' = [call EXCEPT ![t].data = more]
    BY <1>4
  <1> HIDE DEF more
  <1>8. /\ call' \in [Task -> Call]
        /\ \A u \in Task \ {t} : call'[u] = call[u]
        /\ call'[t].op = c.op /\ call'[t].file = c.file
        /\ call'[t].offset = c.offset /\ call'[t].count = c.count
        /\ call'[t].data = more
    BY <1>2, <1>6, <1>7 DEF IndInv, TypeOK, Call
  <1>9. TypeOK'
    BY <1>1, <1>5, <1>8 DEF IndInv, TypeOK
  <1>10. Frame(t)
    BY <1>1, <1>2, <1>5, <1>8, SectionsApart, CopyFacts DEF IndInv, TypeOK, Frame
  <1>11. OpenerFrame(t)
    BY <1>2, <1>8 DEF IndInv, OpenerAlone, OpenerFrame
  <1>12. CallInv(t)'
    BY <1>1, <1>2, <1>8 DEF CallInv
  <1>13. SectionInv(t)'
    <2>1. DevOf(t)' = d /\ Refused(t)' = Refused(t)
      BY <1>1, <1>8 DEF DevOf, Refused
    <2>2. \A i \in 1 .. Len(more) : more[i] = buffer'[d][c.offset + i - 1]
      <3> SUFFICES ASSUME NEW i \in 1 .. Len(more)
                   PROVE  more[i] = buffer'[d][c.offset + i - 1]
        OBVIOUS
      <3>1. CASE i <= Len(c.data)
        <4> DEFINE o == c.offset
                   l == Len(c.data)
                   s == Size[d]
        <4>1. i \in Nat /\ i >= 1 /\ i <= l
          BY <3>1, <1>2, <1>6
        <4>2. o \in Nat /\ l \in Nat /\ s \in Nat /\ o + l <= s - 1
          BY <1>2, <1>3
        <4> HIDE DEF o, l, s
        <4>3. o + i - 1 \in 0 .. s - 1 /\ o + i - 1 # o + l
          BY <4>1, <4>2
        <4>4. c.data[i] = buffer[d][c.offset + i - 1]
          BY <3>1, <1>1, <1>2, <1>6 DEF SectionInv
        <4> QED
          BY <3>1, <4>3, <4>4, <1>5, <1>6 DEF o, l, s
      <3>2. CASE i = Len(c.data) + 1
        <4>1. ~(i <= Len(c.data)) /\ c.offset + i - 1 = at
          BY <3>2, <1>2
        <4>2. more[i] = v /\ buffer'[d][at] = v
          BY <4>1, <1>3, <1>5, <1>6
        <4> QED
          BY <4>1, <4>2
      <3> QED
        BY <3>1, <3>2, <1>2, <1>6
    <2>3. pcd_mutex_lock'[d] = t /\ Len(more) <= c.count
      BY <1>1, <1>2, <1>3, <1>6 DEF SectionInv
    <2>4. ~Refused(t)' /\ c.offset + c.count <= Size[d]
      BY <2>1, <1>1, <1>2, <1>3
    <2> QED
      BY <2>1, <2>2, <2>3, <2>4, <1>8 DEF SectionInv
  <1> QED
    BY <1>9, <1>10, <1>11, <1>12, <1>13, StepPreserves

-----------------------------------------------------------------------------
(* llseek. *)

LEMMA SeekSetIndInv ==
  ASSUME IndInv, NEW t \in Task, NEW f \in File, NEW arg \in SeekArg,
         SeekSet(t, f, arg)
  PROVE  IndInv'
  <1> DEFINE ok == ~SeekRefused(arg, Size[private_data[f]])
             r  == IF ok THEN "OK" ELSE "EINVAL"
             c  == [NoCall EXCEPT !.op = "SEEK_SET", !.file = f, !.ret = r]
  <1>1. private_data[f] \in Dev
    BY DEF SeekSet, Usable, IndInv, TypeOK
  <1>2. ok => arg \in 0 .. MaxPos
    BY <1>1, ConstantsAssumption, WidthAssumption DEF SeekRefused
  <1>3. r \in {"OK", "EINVAL"}
    OBVIOUS
  <1>4. /\ f_pos' = IF ok THEN [f_pos EXCEPT ![f] = arg] ELSE f_pos
        /\ pc' = [pc EXCEPT ![t] = "ret"] /\ call' = [call EXCEPT ![t] = c]
        /\ UNCHANGED <<buffer, pcd_mutex_lock, private_data, f_mode>>
        /\ \A u \in Task : call[u].op = "open" => call[u].file # f
    BY DEF SeekSet, Enter, Usable
  <1> HIDE DEF ok, r
  <1>5. c \in Call /\ c.op = "SEEK_SET" /\ c.file = f
    BY <1>3, NoCallIsCall DEF Call, Op, Ret
  <1> HIDE DEF c
  <1>6. TypeOK'
    BY <1>2, <1>4, <1>5 DEF IndInv, TypeOK
  <1>7. Frame(t) /\ OpenerFrame(t)
    BY <1>4, <1>5 DEF IndInv, TypeOK, Frame, OpenerFrame
  <1>8. CallInv(t)' /\ SectionInv(t)'
    BY <1>1, <1>4, <1>5 DEF IndInv, TypeOK, CallInv, SectionInv
  <1> QED
    BY <1>6, <1>7, <1>8, StepPreserves

LEMMA SeekCheckIndInv ==
  ASSUME IndInv, NEW t \in Task, NEW f \in File,
         NEW whence \in {"SEEK_CUR", "SEEK_END"}, NEW arg \in SeekArg,
         SeekCheck(t, f, whence, arg)
  PROVE  IndInv'
  <1> DEFINE temp == f_pos[f] + arg
             ok == ~SeekRefused(temp, Size[private_data[f]])
             r  == IF ok THEN "none" ELSE "EINVAL"
             c  == [NoCall EXCEPT !.op = whence, !.file = f,
                                  !.offset = f_pos[f], !.temp = temp,
                                  !.ret = r]
  <1>1. /\ private_data[f] \in Dev /\ f_pos[f] \in 0 .. MaxPos
        /\ f_pos[f] \in Nat /\ temp \in Int
    BY ConstantsAssumption DEF SeekCheck, Usable, IndInv, TypeOK
  <1>2. ok => temp \in 0 .. Size[private_data[f]]
    BY <1>1, ConstantsAssumption DEF SeekRefused
  <1>3. r \in {"none", "EINVAL"}
    OBVIOUS
  <1>4. /\ pc' = [pc EXCEPT ![t] = IF ok THEN "seek" ELSE "ret"]
        /\ call' = [call EXCEPT ![t] = c]
        /\ UNCHANGED <<buffer, pcd_mutex_lock, private_data, f_mode, f_pos>>
        /\ \A u \in Task : call[u].op = "open" => call[u].file # f
    BY DEF SeekCheck, Enter, Usable
  <1> HIDE DEF ok, r, temp
  <1>5. /\ c \in Call /\ c.op = whence /\ c.file = f /\ c.offset = f_pos[f]
        /\ c.temp = temp
    BY <1>1, <1>3, NoCallIsCall DEF Call, Op, Ret
  <1> HIDE DEF c
  <1>6. TypeOK'
    BY <1>4, <1>5 DEF IndInv, TypeOK
  <1>7. Frame(t) /\ OpenerFrame(t)
    BY <1>4, <1>5 DEF IndInv, TypeOK, Frame, OpenerFrame
  <1>8. CallInv(t)' /\ SectionInv(t)'
    BY <1>1, <1>2, <1>4, <1>5 DEF IndInv, TypeOK, CallInv, SectionInv, DevOf
  <1> QED
    BY <1>6, <1>7, <1>8, StepPreserves

LEMMA SeekStoreIndInv ==
  ASSUME IndInv, NEW t \in Task, SeekStore(t)
  PROVE  IndInv'
  <1> DEFINE c == call[t]
  <1>1. /\ pc[t] = "seek" /\ HandlerReturn(t, "OK")
        /\ UNCHANGED <<buffer, pcd_mutex_lock, private_data, f_mode>>
    BY DEF SeekStore
  <1>2. /\ c \in Call /\ CallInv(t) /\ c.op \in {"SEEK_CUR", "SEEK_END"}
        /\ c.file \in File /\ private_data[c.file] \in Dev
        /\ Size[private_data[c.file]] \in Nat
        /\ c.offset \in Nat /\ c.temp \in Nat
    BY <1>1, ConstantsAssumption DEF IndInv, TypeOK, CallInv, Call, DevOf
  <1>3. \E new \in 0 .. MaxPos : f_pos' = [f_pos EXCEPT ![c.file] = new]
    <2>1. f_pos[c.file] \in Nat /\ MaxPos \in Nat
      BY <1>2, ConstantsAssumption DEF IndInv, TypeOK
    <2>2. PICK new \in {c.temp, c.offset + c.temp, f_pos[c.file] + c.temp} :
            new <= MaxPos /\ f_pos' = [f_pos EXCEPT ![c.file] = new]
      BY <1>2 DEF SeekStore
    <2>3. new \in 0 .. MaxPos
      BY <1>2, <2>1, <2>2
    <2> QED
      BY <2>2, <2>3
  <1>4. /\ call' \in [Task -> Call]
        /\ \A u \in Task \ {t} : call'[u] = call[u]
        /\ call'[t].op = c.op /\ call'[t].file = c.file
    BY <1>1, HandlerReturnCall DEF Ret
  <1>5. TypeOK' /\ pc'[t] = "ret"
    BY <1>1, <1>2, <1>3, <1>4 DEF IndInv, TypeOK, HandlerReturn
  <1>6. Frame(t)
    BY <1>1, <1>4 DEF IndInv, TypeOK, Frame, HandlerReturn
  <1>7. OpenerFrame(t)
    BY <1>2, <1>4 DEF IndInv, OpenerAlone, OpenerFrame
  <1>8. CallInv(t)' /\ SectionInv(t)'
    BY <1>1, <1>2, <1>4, <1>5 DEF CallInv, SectionInv, DevOf
  <1> QED
    BY <1>5, <1>6, <1>7, <1>8, StepPreserves

-----------------------------------------------------------------------------
(* Return from the call, and the theorems. *)

LEMMA SysReturnIndInv ==
  ASSUME IndInv, NEW t \in Task, SysReturn(t)
  PROVE  IndInv'
  <1> DEFINE c == call[t]
  <1>1. /\ pc[t] = "ret" /\ pc' = [pc EXCEPT ![t] = "idle"]
        /\ call' = [call EXCEPT ![t] = NoCall]
        /\ UNCHANGED <<buffer, pcd_mutex_lock>>
    BY DEF SysReturn, Enter
  <1>2. /\ c \in Call /\ CallInv(t) /\ c.file \in File
        /\ private_data[c.file] \in Dev /\ c.offset \in Nat
    BY <1>1 DEF IndInv, TypeOK, CallInv, Call
  <1>3. f_pos' \in [File -> 0 .. MaxPos]
    <2>1. CASE c.op \in {"read", "write"} /\ c.ret = "OK"
      <3>1. c.offset \in 0 .. MaxPos
        BY <1>1, <1>2, <2>1, ConstantsAssumption, WidthAssumption
        DEF CallInv, DevOf
      <3> QED
        BY <1>2, <2>1, <3>1 DEF SysReturn, IndInv, TypeOK
    <2>2. CASE ~(c.op \in {"read", "write"} /\ c.ret = "OK")
      BY <2>2 DEF SysReturn, IndInv, TypeOK
    <2> QED
      BY <2>1, <2>2
  <1>4. /\ private_data' \in [File -> Dev \cup {NoDev}]
        /\ f_mode' \in [File -> OpenMode \cup {{}}]
        /\ \A f \in File : \/ f = c.file /\ c.op = "open"
                           \/ private_data'[f] = private_data[f]
    BY DEF SysReturn, IndInv, TypeOK
  <1>5. TypeOK'
    BY <1>1, <1>3, <1>4, NoCallIsCall DEF IndInv, TypeOK
  <1>6. \A u \in Task : CallInv(u)
    BY DEF IndInv
  <1>7. Frame(t)
    <2> SUFFICES ASSUME NEW u \in Task \ {t}
                 PROVE  /\ UNCHANGED <<pc[u], call[u]>>
                        /\ pc[u] # "idle" => UNCHANGED private_data[call[u].file]
      BY <1>1 DEF Frame
    <2>1. UNCHANGED <<pc[u], call[u]>>
      BY <1>1 DEF IndInv, TypeOK
    <2>2. pc[u] # "idle" => call[u].file \in File
      BY <1>6 DEF CallInv
    <2>3. c.op = "open" => call[u].file # c.file
      BY DEF IndInv, OpenerAlone
    <2> QED
      BY <2>1, <2>2, <2>3, <1>4
  <1>8. OpenerFrame(t)
    BY <1>1, <1>6, ConstantsAssumption DEF IndInv, TypeOK, CallInv, NoCall, OpenerFrame
  <1>9. CallInv(t)' /\ SectionInv(t)'
    BY <1>1 DEF IndInv, TypeOK, CallInv, SectionInv, NoCall
  <1> QED
    BY <1>5, <1>7, <1>8, <1>9, StepPreserves

LEMMA StutterIndInv == IndInv /\ UNCHANGED vars => IndInv'
  BY DEF vars, IndInv, TypeOK, CallInv, SectionInv, OpenerAlone, DevOf, Refused

LEMMA NextIndInv == IndInv /\ [Next]_vars => IndInv'
  <1> SUFFICES ASSUME IndInv, [Next]_vars PROVE IndInv'
    OBVIOUS
  <1>1. CASE UNCHANGED vars
    BY <1>1, StutterIndInv
  <1>2. ASSUME NEW t \in Task, Syscall(t) PROVE IndInv'
    <2> PICK f \in File :
          \/ \E d \in Dev, mode \in OpenMode : pcd_open(t, f, d, mode)
          \/ pcd_release(t, f)
          \/ \E op \in {"read", "write"}, n \in Count : BeginTransfer(t, f, op, n)
          \/ \E arg \in SeekArg : SeekSet(t, f, arg)
          \/ \E whence \in {"SEEK_CUR", "SEEK_END"}, arg \in SeekArg :
               SeekCheck(t, f, whence, arg)
      BY <1>2 DEF Syscall
    <2> QED
      BY OpenIndInv, ReleaseIndInv, BeginTransferIndInv, SeekSetIndInv,
         SeekCheckIndInv
  <1>3. ASSUME NEW t \in Task, LockAndClamp(t) PROVE IndInv'
    BY <1>3, LockAndClampIndInv
  <1>4. ASSUME NEW t \in Task, Handler(t) PROVE IndInv'
    BY <1>4, UnlockingReturnIndInv, CopyByteIndInv, WriteFaultIndInv,
       CopyDoneIndInv, SeekStoreIndInv, SysReturnIndInv DEF Handler
  <1> QED
    BY <1>1, <1>2, <1>3, <1>4 DEF Next

\* The invariant holds in every state of every behaviour.
THEOREM IndInvHolds == Spec => []IndInv
  <1> QED
    BY InitIndInv, NextIndInv, PTL DEF Spec

\* The state of the driver and of the calls on it stays well formed: a
\* buffer keeps its size and no position leaves the range of a loff_t.
THEOREM TypeCorrect == Spec => []TypeOK
  <1>1. IndInv => TypeOK
    BY DEF IndInv
  <1> QED
    BY IndInvHolds, <1>1, PTL

\* pcd_mutex_lock works: two calls never copy to or from the same device.
THEOREM Exclusion == Spec => []MutualExclusion
  <1>1. IndInv => MutualExclusion
    BY SectionsApart DEF MutualExclusion, InSection
  <1> QED
    BY IndInvHolds, <1>1, PTL

\* What a call has copied so far is what the device holds there now: nobody
\* writes to a device while a read or write of it is under way.
THEOREM NoTornCopy == Spec => []CopyAgrees
  <1>1. IndInv => CopyAgrees
    BY DEF IndInv, SectionInv, CopyAgrees
  <1> QED
    BY IndInvHolds, <1>1, PTL

\* No copy leaves the buffer, wherever SEEK_CUR has put the position.
THEOREM NoOverrun == Spec => []TransferInBounds
  <1>1. IndInv => TransferInBounds
    BY DEF IndInv, SectionInv, TransferInBounds
  <1> QED
    BY IndInvHolds, <1>1, PTL

\* A step of one task leaves the program counter of the others alone.
LEMMA StepOfOne ==
  ASSUME IndInv, NEW t \in Task, NEW u \in Task, u # t,
         Syscall(u) \/ LockAndClamp(u) \/ Handler(u)
  PROVE  pc'[t] = pc[t]
  BY DEF IndInv, TypeOK, Syscall, Handler, pcd_open, pcd_release, BeginTransfer,
         LockAndClamp, EmptyWrite, CopyByte, ReadFault, WriteFault, CopyDone,
         SeekSet, SeekCheck, SeekStore, SysReturn, Enter, HandlerReturn

\* What leaving the critical section does to the mutex: the formula inside
\* LeakOnlyOnWriteFault.
LeaveUnlocks(t) ==
  pc[t] = "copy" /\ pc'[t] = "ret" =>
    /\ pcd_mutex_lock[DevOf(t)] = t
    /\ \/ pcd_mutex_lock'[DevOf(t)] = NoTask
       \/ call'[t].op = "write" /\ call'[t].ret = "EFAULT"

LEMMA HandlerLeaveUnlocks ==
  ASSUME IndInv, NEW t \in Task, Handler(t)
  PROVE  LeaveUnlocks(t)
  <1> SUFFICES ASSUME pc[t] = "copy", pc'[t] = "ret"
               PROVE  /\ pcd_mutex_lock[DevOf(t)] = t
                      /\ \/ pcd_mutex_lock'[DevOf(t)] = NoTask
                         \/ call'[t].op = "write" /\ call'[t].ret = "EFAULT"
    BY DEF LeaveUnlocks
  <1>1. DevOf(t) \in Dev /\ pcd_mutex_lock[DevOf(t)] = t
    BY CopyFacts
  <1>2. CASE EmptyWrite(t) \/ ReadFault(t) \/ CopyDone(t)
    BY <1>1, <1>2
    DEF IndInv, TypeOK, EmptyWrite, ReadFault, CopyDone, MutexUnlock
  <1>3. CASE WriteFault(t)
    <2>1. "EFAULT" \in Ret /\ HandlerReturn(t, "EFAULT") /\ call[t].op = "write"
      BY <1>3 DEF Ret, WriteFault
    <2> QED
      BY <1>1, <2>1, HandlerReturnCall
  <1>4. CASE CopyByte(t)
    BY <1>4 DEF CopyByte
  <1>5. ~SeekStore(t) /\ ~SysReturn(t)
    BY DEF SeekStore, SysReturn
  <1> QED
    BY <1>2, <1>3, <1>4, <1>5 DEF Handler

\* The mutex is released on every way out of pcd_read and pcd_write but the
\* failed copy_from_user.
THEOREM LeakConfined == Spec => LeakOnlyOnWriteFault
  <1>1. IndInv /\ [Next]_vars => [\A t \in Task : LeaveUnlocks(t)]_vars
    <2> SUFFICES ASSUME IndInv, Next, NEW t \in Task PROVE LeaveUnlocks(t)
      OBVIOUS
    <2> PICK u \in Task : Syscall(u) \/ LockAndClamp(u) \/ Handler(u)
      BY DEF Next
    <2>1. CASE u # t
      BY <2>1, StepOfOne DEF LeaveUnlocks
    <2>2. CASE u = t /\ Handler(t)
      BY <2>2, HandlerLeaveUnlocks
    <2>3. CASE u = t /\ (Syscall(t) \/ LockAndClamp(t))
      BY <2>3 DEF LeaveUnlocks, Syscall, LockAndClamp, pcd_open, pcd_release,
                  BeginTransfer, SeekSet, SeekCheck
    <2> QED
      BY <2>1, <2>2, <2>3
  <1> QED
    BY IndInvHolds, <1>1, PTL DEF Spec, LeakOnlyOnWriteFault, LeaveUnlocks

\* The formula inside OnlySeekCurPassesEnd, for one file.
PassesEndBySeekCur(f) ==
  /\ private_data[f] \in Dev
  /\ f_pos'[f] # f_pos[f]
  /\ f_pos'[f] > Size[private_data[f]]
  => \E t \in Task :
       /\ pc[t] = "seek" /\ pc'[t] = "ret"
       /\ call[t].op = "SEEK_CUR" /\ call[t].file = f
       /\ \E pos \in {call[t].offset, f_pos[f]} : f_pos'[f] <= pos + Size[private_data[f]]

\* f_pos passes the end of its device by the store of a SEEK_CUR alone, and by no
\* more than that adds.
THEOREM EndPassedBySeekCur == Spec => OnlySeekCurPassesEnd
  <1>1. IndInv /\ [Next]_vars => [\A f \in File : PassesEndBySeekCur(f)]_vars
    <2> SUFFICES ASSUME IndInv, Next, NEW f \in File,
                        private_data[f] \in Dev, f_pos'[f] # f_pos[f],
                        f_pos'[f] > Size[private_data[f]]
                 PROVE  \E t \in Task :
                          /\ pc[t] = "seek" /\ pc'[t] = "ret"
                          /\ call[t].op = "SEEK_CUR" /\ call[t].file = f
                          /\ \E pos \in {call[t].offset, f_pos[f]} :
                               f_pos'[f] <= pos + Size[private_data[f]]
      BY DEF PassesEndBySeekCur
    <2>1. Size[private_data[f]] \in Nat /\ f_pos \in [File -> 0 .. MaxPos]
      BY ConstantsAssumption DEF IndInv, TypeOK
    <2> PICK u \in Task : Syscall(u) \/ LockAndClamp(u) \/ Handler(u)
      BY DEF Next
    <2>2. CallInv(u)
      BY DEF IndInv
    <2>3. CASE Syscall(u)
      <3>1. PICK g \in File :
              \/ pcd_release(u, g)
              \/ \E arg \in SeekArg : SeekSet(u, g, arg)
        BY <2>3 DEF Syscall, pcd_open, BeginTransfer, SeekCheck
      <3>2. CASE pcd_release(u, g)
        BY <2>1, <3>2 DEF pcd_release
      <3>3. ASSUME NEW arg \in SeekArg, SeekSet(u, g, arg) PROVE FALSE
        BY <2>1, <3>3, ConstantsAssumption DEF SeekSet, SeekRefused
      <3> QED
        BY <3>1, <3>2, <3>3
    <2>4. CASE SeekStore(u)
      <3>1. /\ pc[u] = "seek" /\ call[u].file = f
            /\ call[u].op \in {"SEEK_CUR", "SEEK_END"}
        BY <2>1, <2>2, <2>4 DEF SeekStore, CallInv
      <3>2. call[u].op # "SEEK_END"
        BY <2>1, <2>2, <2>4, <3>1 DEF SeekStore, CallInv, DevOf
      <3>3. pc'[u] = "ret"
        BY <2>4 DEF IndInv, TypeOK, SeekStore, HandlerReturn
      <3>4. /\ call[u].temp \in Nat /\ call[u].temp <= Size[private_data[f]]
            /\ call[u].offset \in Nat
        BY <2>1, <2>2, <3>1 DEF IndInv, TypeOK, Call, CallInv, DevOf
      <3>5. PICK pos \in {call[u].offset, f_pos[f]} : f_pos'[f] = pos + call[u].temp
        BY <2>1, <2>4, <3>1, <3>2 DEF SeekStore
      <3>6. f_pos'[f] <= pos + Size[private_data[f]]
        BY <2>1, <3>4, <3>5
      <3> QED
        BY <3>1, <3>2, <3>3, <3>5, <3>6
    <2>5. CASE SysReturn(u)
      <3>1. /\ pc[u] = "ret" /\ call[u].op \in {"read", "write"}
            /\ call[u].ret = "OK"
            /\ f_pos' = [f_pos EXCEPT ![call[u].file] = call[u].offset]
        BY <2>5 DEF SysReturn
      <3>2. call[u].offset <= Size[private_data[call[u].file]]
        BY <2>2, <3>1 DEF CallInv, DevOf
      <3>3. call[u].file = f /\ f_pos'[f] = call[u].offset
        BY <2>1, <3>1
      <3>4. call[u].offset \in Nat
        BY DEF IndInv, TypeOK, Call
      <3> QED
        BY <2>1, <3>2, <3>3, <3>4
    <2>6. CASE LockAndClamp(u) \/ (Handler(u) /\ ~SeekStore(u) /\ ~SysReturn(u))
      BY <2>6 DEF LockAndClamp, Handler, EmptyWrite, CopyByte, ReadFault,
                  WriteFault, CopyDone
    <2> QED
      BY <2>3, <2>4, <2>5, <2>6 DEF Handler
  <1> QED
    BY IndInvHolds, <1>1, PTL DEF Spec, OnlySeekCurPassesEnd, PassesEndBySeekCur

-----------------------------------------------------------------------------
(* Permissions. *)

\* The call of t is an open of f that was refused and has not returned.
Refusal(t, f) == call[t].op = "open" /\ call[t].file = f /\ call[t].ret # "OK"

\* The strengthening of PermissionRespected: a file leads to a restricted device
\* only until its open, which was refused, returns.
RestrictedRefused ==
  \A f \in File :
    private_data[f] \in Dev /\ Perm[private_data[f]] # "RDWW"
    => \E t \in Task : Refusal(t, f)

\* && makes both halves of the test one truth value: no mode passes it.
LEMMA RestrictedRefusesAll ==
  ASSUME NEW d \in Dev, Perm[d] # "RDWW", NEW mode
  PROVE  check_permission(Perm[d], mode) = "EPERM"
  BY DEF check_permission, LogicalAnd

\* A step of a task that has no open in flight, and that leaves private_data
\* alone, ends no refusal.
LEMMA RefusalsKept ==
  ASSUME RestrictedRefused, NEW t \in Task, call[t].op # "open",
         private_data' = private_data,
         \A u \in Task \ {t} : call'[u] = call[u]
  PROVE  RestrictedRefused'
  BY DEF RestrictedRefused, Refusal

LEMMA OpenRefused ==
  ASSUME IndInv, RestrictedRefused, NEW t \in Task, NEW f \in File,
         NEW d \in Dev, NEW mode \in OpenMode, pcd_open(t, f, d, mode)
  PROVE  RestrictedRefused'
  <1>1. /\ call[t].op # "open"
        /\ private_data' = [private_data EXCEPT ![f] = d]
        /\ \A u \in Task \ {t} : call'[u] = call[u]
        /\ call'[t] = [NoCall EXCEPT !.op = "open", !.file = f,
                                      !.ret = check_permission(Perm[d], mode)]
    BY DEF pcd_open, Enter, IndInv, TypeOK, CallInv, NoCall
  <1>2. call'[t].op = "open" /\ call'[t].file = f
        /\ call'[t].ret = check_permission(Perm[d], mode)
    BY <1>1 DEF NoCall
  <1>3. SUFFICES ASSUME NEW g \in File, private_data'[g] \in Dev,
                        Perm[private_data'[g]] # "RDWW"
                 PROVE  \E u \in Task : Refusal(u, g)'
    BY DEF RestrictedRefused
  <1>4. CASE g = f
    <2>1. private_data'[g] = d
      BY <1>1, <1>4 DEF IndInv, TypeOK
    <2>2. check_permission(Perm[d], mode) = "EPERM"
      BY <1>3, <2>1, RestrictedRefusesAll
    <2> QED
      BY <1>2, <1>4, <2>2 DEF Refusal
  <1>5. CASE g # f
    <2>1. private_data'[g] = private_data[g]
      BY <1>1, <1>5 DEF IndInv, TypeOK
    <2>2. PICK u \in Task : Refusal(u, g)
      BY <1>3, <2>1 DEF RestrictedRefused
    <2> QED
      BY <1>1, <2>2 DEF Refusal
  <1> QED
    BY <1>4, <1>5

LEMMA SysReturnRefused ==
  ASSUME IndInv, RestrictedRefused, NEW t \in Task, SysReturn(t)
  PROVE  RestrictedRefused'
  <1>1. \A u \in Task \ {t} : call'[u] = call[u]
    BY DEF SysReturn, Enter, IndInv, TypeOK
  <1>2. CASE call[t].op # "open"
    BY <1>1, <1>2, RefusalsKept DEF SysReturn
  <1>3. CASE call[t].op = "open" /\ call[t].ret = "OK"
    <2>1. private_data' = private_data
      BY <1>3 DEF SysReturn
    <2>2. \A f \in File : ~Refusal(t, f)
      BY <1>3 DEF Refusal
    <2> QED
      BY <1>1, <2>1, <2>2 DEF RestrictedRefused, Refusal
  <1>4. CASE call[t].op = "open" /\ call[t].ret # "OK"
    <2>1. \A f \in File : \/ f = call[t].file /\ private_data'[f] = NoDev
                          \/ f # call[t].file /\ private_data'[f] = private_data[f]
      BY <1>4 DEF SysReturn, IndInv, TypeOK
    <2> QED
      BY <1>1, <2>1, ConstantsAssumption DEF RestrictedRefused, Refusal
  <1> QED
    BY <1>2, <1>3, <1>4

LEMMA NextRefused == (IndInv /\ RestrictedRefused /\ [Next]_vars) => RestrictedRefused'
  <1> SUFFICES ASSUME IndInv, RestrictedRefused, [Next]_vars PROVE RestrictedRefused'
    OBVIOUS
  <1>1. CASE UNCHANGED vars
    BY <1>1 DEF vars, RestrictedRefused, Refusal
  <1>2. CASE Next
    <2> PICK t \in Task : Syscall(t) \/ LockAndClamp(t) \/ Handler(t)
      BY <1>2 DEF Next
    <2>1. ASSUME NEW f \in File, pcd_release(t, f) PROVE RestrictedRefused'
      <3>1. /\ call' = call
            /\ private_data' = [private_data EXCEPT ![f] = NoDev]
        BY <2>1 DEF pcd_release
      <3> QED
        BY <3>1, ConstantsAssumption DEF IndInv, TypeOK, RestrictedRefused, Refusal
    <2>2. CASE SysReturn(t)
      BY <2>2, SysReturnRefused
    <2>3. \A f \in File, d \in Dev, mode \in OpenMode :
            pcd_open(t, f, d, mode) => RestrictedRefused'
      BY OpenRefused
    <2>4. CASE /\ Syscall(t)
               /\ \A f \in File : ~pcd_release(t, f)
               /\ \A f \in File, d \in Dev, mode \in OpenMode : ~pcd_open(t, f, d, mode)
      <3>1. /\ pc[t] = "idle" /\ private_data' = private_data
            /\ \A u \in Task \ {t} : call'[u] = call[u]
        BY <2>4 DEF IndInv, TypeOK, Syscall, BeginTransfer, SeekSet, SeekCheck, Enter
      <3>2. call[t].op # "open"
        BY <3>1 DEF IndInv, CallInv, NoCall
      <3> QED
        BY <3>1, <3>2, RefusalsKept
    <2>5. CASE LockAndClamp(t) \/ (Handler(t) /\ ~SysReturn(t))
      <3>1. /\ pc[t] \in {"lock", "copy", "seek"} /\ private_data' = private_data
            /\ \A u \in Task \ {t} : call'[u] = call[u]
        BY <2>5 DEF IndInv, TypeOK, LockAndClamp, Handler, EmptyWrite, CopyByte,
                    ReadFault, WriteFault, CopyDone, SeekStore, Copying, HandlerReturn
      <3>2. call[t].op # "open"
        BY <3>1 DEF IndInv, CallInv
      <3> QED
        BY <3>1, <3>2, RefusalsKept
    <2> QED
      BY <2>1, <2>2, <2>3, <2>4, <2>5 DEF Syscall
  <1> QED
    BY <1>1, <1>2

\* No byte is transferred against the permission of a device, for any set of
\* devices, permissions and open modes.
THEOREM PermissionKept == Spec => []PermissionRespected
  <1>1. Init => RestrictedRefused
    BY ConstantsAssumption DEF Init, RestrictedRefused
  <1>2. IndInv /\ RestrictedRefused => PermissionRespected
    <2> SUFFICES ASSUME IndInv, RestrictedRefused, NEW t \in Task,
                        call[t].op \in {"read", "write"}
                 PROVE  Perm[DevOf(t)] = "RDWW"
      BY DEF PermissionRespected
    <2>1. call[t].file \in File /\ DevOf(t) \in Dev
      BY DEF IndInv, CallInv, DevOf, NoCall
    <2>2. \A u \in Task : ~Refusal(u, call[t].file)
      BY DEF IndInv, OpenerAlone, Refusal
    <2> QED
      BY <2>1, <2>2 DEF RestrictedRefused, DevOf
  <1> QED
    BY IndInvHolds, NextRefused, <1>1, <1>2, PTL DEF Spec

-----------------------------------------------------------------------------
(* The driver of char_driver.c: the mutex is taken interruptibly.  IndInv  *)
(* holds of it too: where that driver differs, a call leaves the critical  *)
(* section, or the wait for it, in one more way.                           *)

LEMMA InterruptedIndInv ==
  ASSUME IndInv, NEW t \in Task, Interrupted(t)
  PROVE  IndInv'
  <1>1. /\ pc[t] = "lock" /\ HandlerReturn(t, "EINTR")
        /\ UNCHANGED <<buffer, pcd_mutex_lock, private_data, f_mode, f_pos>>
    BY DEF Interrupted
  <1>2. /\ call' \in [Task -> Call]
        /\ \A u \in Task \ {t} : call'[u] = call[u]
        /\ call'[t].op = call[t].op /\ call'[t].file = call[t].file
        /\ call'[t].ret = "EINTR"
    BY <1>1, HandlerReturnCall DEF Ret
  <1>3. /\ call[t].op \in {"read", "write"} /\ call[t].file \in File
        /\ private_data[call[t].file] \in Dev
    BY <1>1 DEF IndInv, CallInv
  <1>4. TypeOK' /\ pc'[t] = "ret"
    BY <1>1, <1>2 DEF IndInv, TypeOK, HandlerReturn
  <1>5. Frame(t)
    BY <1>1, <1>2 DEF IndInv, TypeOK, Frame, HandlerReturn
  <1>6. OpenerFrame(t)
    BY <1>2, <1>3 DEF IndInv, OpenerAlone, OpenerFrame
  <1>7. CallInv(t)' /\ SectionInv(t)'
    BY <1>1, <1>2, <1>3, <1>4 DEF CallInv, SectionInv
  <1> QED
    BY <1>4, <1>5, <1>6, <1>7, StepPreserves

LEMMA EmptyWriteKeepsMutexIndInv ==
  ASSUME IndInv, NEW t \in Task, EmptyWriteKeepsMutex(t)
  PROVE  IndInv'
  <1>1. /\ pc[t] = "copy" /\ HandlerReturn(t, "ENOMEM")
        /\ UNCHANGED <<buffer, pcd_mutex_lock, private_data, f_mode, f_pos>>
    BY DEF EmptyWriteKeepsMutex
  <1>2. Leave(t)
    BY <1>1, HandlerReturnCall DEF Leave, HandlerReturn, IndInv, TypeOK, Ret
  <1> QED
    BY <1>1, <1>2, LeaveIndInv

LEMMA WriteFaultUnlocksIndInv ==
  ASSUME IndInv, NEW t \in Task, WriteFaultUnlocks(t)
  PROVE  IndInv'
  <1>1. /\ pc[t] = "copy" /\ HandlerReturn(t, "EFAULT") /\ MutexUnlock(t)
        /\ UNCHANGED <<private_data, f_mode, f_pos>>
        /\ buffer' = ZeroFill(t)
    BY DEF WriteFaultUnlocks, Copying
  <1>2. Leave(t)
    BY <1>1, HandlerReturnCall, ZeroFilled, UnlockType
    DEF Leave, HandlerReturn, IndInv, TypeOK, Ret
  <1> QED
    BY <1>1, <1>2, LeaveIndInv

\* The actions of MutexCharDevices, and those of this driver, which are mostly the
\* same.
Action(t) == Syscall(t) \/ LockAndClamp(t) \/ Handler(t)

IAction(t) ==
  \/ IUser(t) \/ pcd_llseek(t)
  \/ TakeMutex(t) \/ pcd_read(t) \/ pcd_write(t) \/ SeekStore(t) \/ SysReturn(t)

LEMMA IActionIndInv == ASSUME IndInv, NEW t \in Task, IAction(t) PROVE IndInv'
  <1>1. CASE IUser(t)
    <2> PICK f \in File :
          \/ \E d \in Dev, mode \in OpenMode : pcd_open(t, f, d, mode)
          \/ pcd_release(t, f)
          \/ \E op \in {"read", "write"}, n \in Count : BeginTransfer(t, f, op, n)
      BY <1>1 DEF IUser
    <2> QED
      BY OpenIndInv, ReleaseIndInv, BeginTransferIndInv
  <1>2. CASE pcd_llseek(t)
    BY <1>2, SeekSetIndInv, SeekCheckIndInv DEF pcd_llseek
  <1>3. CASE TakeMutex(t)
    BY <1>3, LockAndClampIndInv, InterruptedIndInv DEF TakeMutex, Locked
  <1>4. CASE pcd_read(t) \/ pcd_write(t)
    BY <1>4, CopyByteIndInv, UnlockingReturnIndInv, CopyDoneIndInv,
       EmptyWriteKeepsMutexIndInv, WriteFaultUnlocksIndInv DEF pcd_read, pcd_write
  <1>5. CASE SeekStore(t) \/ SysReturn(t)
    BY <1>5, SeekStoreIndInv, SysReturnIndInv
  <1> QED
    BY <1>1, <1>2, <1>3, <1>4, <1>5 DEF IAction

LEMMA INextActions ==
  ASSUME [INext]_ivars
  PROVE  UNCHANGED vars \/ \E t \in Task : IAction(t)
  BY DEF INext, ivars, IHandler, SendSignal, Deliver, IAction

\* The invariant survives signals, though a call may give up half-way.
THEOREM InterruptibleIndInvHolds == ISpec => []IndInv
  <1>1. IInit => IndInv
    BY InitIndInv DEF IInit
  <1>2. IndInv /\ [INext]_ivars => IndInv'
    BY INextActions, IActionIndInv, StutterIndInv
  <1> QED
    BY <1>1, <1>2, PTL DEF ISpec

\* Two calls never copy at once here either, whoever left the mutex locked.
THEOREM InterruptibleExclusion == ISpec => []MutualExclusion
  <1>1. IndInv => MutualExclusion
    BY SectionsApart DEF MutualExclusion, InSection
  <1> QED
    BY InterruptibleIndInvHolds, <1>1, PTL

\* What a call of char_driver.c has copied so far is what the device holds there,
\* whichever calls gave up or left the mutex locked before.
THEOREM InterruptibleNoTornCopy == ISpec => []CopyAgrees
  <1>1. IndInv => CopyAgrees
    BY DEF IndInv, SectionInv, CopyAgrees
  <1> QED
    BY InterruptibleIndInvHolds, <1>1, PTL

-----------------------------------------------------------------------------
(* What becomes of the mutex of char_driver.c.                             *)

\* A new request changes no device and no call but its own.
LEMMA SyscallEffect ==
  ASSUME IndInv, NEW t \in Task, Syscall(t)
  PROVE  /\ pc[t] = "idle" /\ pc'[t] # "copy" /\ UNCHANGED <<pcd_mutex_lock, buffer>>
         /\ \A u \in Task \ {t} : pc'[u] = pc[u] /\ call'[u] = call[u]
  <1>1. pc \in [Task -> {"idle", "lock", "copy", "seek", "ret"}] /\ call \in [Task -> Call]
    BY DEF IndInv, TypeOK
  <1>2. ASSUME NEW where \in {"idle", "lock", "seek", "ret"}, NEW c, Enter(t, where, c)
        PROVE  /\ pc'[t] # "copy"
               /\ \A u \in Task \ {t} : pc'[u] = pc[u] /\ call'[u] = call[u]
    BY <1>1, <1>2 DEF Enter
  <1>3. PICK f \in File :
          \/ \E d \in Dev, mode \in OpenMode : pcd_open(t, f, d, mode)
          \/ pcd_release(t, f)
          \/ \E op \in {"read", "write"}, n \in Count : BeginTransfer(t, f, op, n)
          \/ \E arg \in SeekArg : SeekSet(t, f, arg)
          \/ \E whence \in {"SEEK_CUR", "SEEK_END"}, arg \in SeekArg :
               SeekCheck(t, f, whence, arg)
    BY DEF Syscall
  <1>4. CASE \E d \in Dev, mode \in OpenMode : pcd_open(t, f, d, mode)
    BY <1>2, <1>4 DEF pcd_open
  <1>5. CASE pcd_release(t, f)
    BY <1>5 DEF pcd_release
  <1>6. CASE \E op \in {"read", "write"}, n \in Count : BeginTransfer(t, f, op, n)
    BY <1>2, <1>6 DEF BeginTransfer
  <1>7. CASE \E arg \in SeekArg : SeekSet(t, f, arg)
    BY <1>2, <1>7 DEF SeekSet
  <1>8. CASE \E whence \in {"SEEK_CUR", "SEEK_END"}, arg \in SeekArg :
               SeekCheck(t, f, whence, arg)
    <2> PICK whence \in {"SEEK_CUR", "SEEK_END"}, arg \in SeekArg :
               SeekCheck(t, f, whence, arg)
      BY <1>8
    <2> DEFINE ok == ~SeekRefused(f_pos[f] + arg, Size[private_data[f]])
    <2>1. /\ pc[t] = "idle" /\ UNCHANGED <<pcd_mutex_lock, buffer>>
          /\ \E c : Enter(t, IF ok THEN "seek" ELSE "ret", c)
      BY DEF SeekCheck
    <2> HIDE DEF ok
    <2> QED
      BY <2>1, <1>2
  <1> QED
    BY <1>3, <1>4, <1>5, <1>6, <1>7, <1>8

\* The requests of both drivers are the same.
LEMMA RequestsAreSyscalls ==
  ASSUME NEW t \in Task, IUser(t) \/ pcd_llseek(t)
  PROVE  Syscall(t)
  BY DEF IUser, pcd_llseek, Syscall

\* A step of t leaves the other calls and their devices alone.
LEMMA OthersKept ==
  ASSUME IndInv, NEW t \in Task, Action(t) \/ IAction(t),
         NEW u \in Task, u # t
  PROVE  /\ pc'[u] = pc[u] /\ call'[u] = call[u]
         /\ pc[u] # "idle" => DevOf(u)' = DevOf(u)
  <1>1. pc'[u] = pc[u] /\ call'[u] = call[u]
    <2>1. pc \in [Task -> {"idle", "lock", "copy", "seek", "ret"}] /\ call \in [Task -> Call]
      BY DEF IndInv, TypeOK
    <2>2. CASE Syscall(t)
      BY <2>2, SyscallEffect
    <2>3. CASE LockAndClamp(t) \/ CopyByte(t) \/ CopyDone(t)
      BY <2>1, <2>3 DEF LockAndClamp, CopyByte, CopyDone
    <2>4. CASE Interrupted(t) \/ EmptyWrite(t) \/ EmptyWriteKeepsMutex(t)
      BY <2>1, <2>4 DEF Interrupted, EmptyWrite, EmptyWriteKeepsMutex, HandlerReturn
    <2>5. CASE ReadFault(t) \/ WriteFault(t) \/ WriteFaultUnlocks(t)
      BY <2>1, <2>5 DEF ReadFault, WriteFault, WriteFaultUnlocks, HandlerReturn
    <2>6. CASE SeekStore(t) \/ SysReturn(t)
      BY <2>1, <2>6 DEF SeekStore, SysReturn, HandlerReturn, Enter
    <2> QED
      BY <2>2, <2>3, <2>4, <2>5, <2>6, RequestsAreSyscalls
         DEF Action, Handler, IAction, TakeMutex, Locked, pcd_read, pcd_write
  <1>2. ASSUME pc[u] # "idle" PROVE private_data'[call[u].file] = private_data[call[u].file]
    <2>1. call[u].file \in File /\ private_data[call[u].file] \in Dev
      BY <1>2 DEF IndInv, CallInv
    <2>2. CASE UNCHANGED private_data
      BY <2>2
    <2>3. ASSUME NEW f \in File, NEW d \in Dev, NEW mode \in OpenMode,
                 pcd_open(t, f, d, mode)
          PROVE  private_data'[call[u].file] = private_data[call[u].file]
      BY <2>1, <2>3, ConstantsAssumption DEF IndInv, TypeOK, pcd_open
    <2>4. ASSUME NEW f \in File, pcd_release(t, f)
          PROVE  private_data'[call[u].file] = private_data[call[u].file]
      BY <2>1, <2>4 DEF IndInv, TypeOK, pcd_release, InCall
    <2>5. CASE SysReturn(t)
      <3>1. call[t].op = "open" => call[u].file # call[t].file
        BY DEF IndInv, OpenerAlone
      <3> QED
        BY <2>1, <2>5, <3>1 DEF IndInv, TypeOK, SysReturn
    <2> QED
      BY <2>2, <2>3, <2>4, <2>5 DEF Action, Syscall, Handler, EmptyWrite, WriteFault,
        IAction, IUser, pcd_llseek, TakeMutex, Locked,
        Interrupted, pcd_read, pcd_write, BeginTransfer, LockAndClamp, CopyByte,
        ReadFault, EmptyWriteKeepsMutex, WriteFaultUnlocks, CopyDone, SeekSet,
        SeekCheck, SeekStore
  <1> QED
    BY <1>1, <1>2 DEF DevOf

\* What a step of t can do to the mutexes, and to whom it concerns.
Apart(t) ==
  pc[t] # "copy" /\ pc'[t] # "copy" /\ UNCHANGED <<pcd_mutex_lock, buffer>>
Enters(t) ==
  /\ pc[t] = "lock" /\ pcd_mutex_lock[DevOf(t)] = NoTask /\ DevOf(t) \in Dev
  /\ pcd_mutex_lock' = [pcd_mutex_lock EXCEPT ![DevOf(t)] = t]
  /\ pc'[t] = "copy" /\ DevOf(t)' = DevOf(t) /\ UNCHANGED buffer
Copies(t) ==
  /\ pc[t] = "copy" /\ pc'[t] = "copy" /\ DevOf(t)' = DevOf(t)
  /\ UNCHANGED pcd_mutex_lock
  /\ \A d \in Dev \ {DevOf(t)} : buffer'[d] = buffer[d]
Leaves(t) ==
  /\ pc[t] = "copy" /\ pc'[t] = "ret" /\ MutexUnlock(t)
  /\ \A d \in Dev \ {DevOf(t)} : buffer'[d] = buffer[d]
LeavesLocked(t) ==
  /\ pc[t] = "copy" /\ pc'[t] = "ret" /\ call'[t].ret = "ENOMEM"
  /\ UNCHANGED <<pcd_mutex_lock, buffer>>

LEMMA IActionKinds ==
  ASSUME IndInv, NEW t \in Task, IAction(t)
  PROVE  Apart(t) \/ Enters(t) \/ Copies(t) \/ Leaves(t) \/ LeavesLocked(t)
  <1> USE DEF IndInv, TypeOK
  <1>1. CASE IUser(t) \/ pcd_llseek(t)
    BY <1>1, RequestsAreSyscalls, SyscallEffect DEF Apart
  <1>2. CASE Interrupted(t) \/ SeekStore(t) \/ SysReturn(t)
    BY <1>2 DEF Apart, Interrupted, SeekStore, SysReturn, HandlerReturn, Enter
  <1>3. CASE LockAndClamp(t)
    <2>1. DevOf(t) \in Dev
      BY <1>3 DEF LockAndClamp, CallInv, DevOf
    <2>2. call'[t].file = call[t].file
      BY <1>3 DEF LockAndClamp, Call
    <2> QED
      BY <1>3, <2>1, <2>2 DEF Enters, LockAndClamp, MutexLock, DevOf
  <1>4. CASE CopyByte(t)
    <2>1. pc[t] = "copy" /\ UNCHANGED <<pcd_mutex_lock, private_data, pc>>
      BY <1>4 DEF CopyByte, Copying
    <2>2. call'[t].file = call[t].file
      BY <1>4 DEF CopyByte, Call
    <2>3. \A d \in Dev \ {DevOf(t)} : buffer'[d] = buffer[d]
      BY <1>4 DEF CopyByte
    <2> QED
      BY <2>1, <2>2, <2>3 DEF Copies, DevOf
  <1>5. CASE ReadFault(t) \/ CopyDone(t)
    BY <1>5 DEF Leaves, ReadFault, CopyDone, Copying, HandlerReturn
  <1>6. CASE WriteFaultUnlocks(t)
    BY <1>6, ZeroFilled DEF Leaves, WriteFaultUnlocks, Copying, HandlerReturn
  <1>7. CASE EmptyWriteKeepsMutex(t)
    BY <1>7, HandlerReturnCall DEF LeavesLocked, EmptyWriteKeepsMutex, HandlerReturn, Ret
  <1> QED
    BY <1>1, <1>2, <1>3, <1>4, <1>5, <1>6, <1>7
       DEF IAction, TakeMutex, Locked, pcd_read, pcd_write

\* A mutex that nobody inside a transfer owns was taken by who owns it now.
LEMMA LeakByEmptyWrite ==
  ASSUME IndInv, NEW t \in Task, IAction(t), NEW d \in Dev, Leaked(d)', ~Leaked(d)
  PROVE  pc[t] = "copy" /\ call'[t].ret = "ENOMEM"
  <1> PICK u \in Task : pcd_mutex_lock'[d] = u /\ ~InSection(u, d)'
    BY DEF Leaked
  <1>1. u # t => (InSection(u, d) => InSection(u, d)')
    BY OthersKept DEF InSection
  <1>2. pcd_mutex_lock[d] = u => InSection(u, d)
    BY DEF Leaked
  <1>3. u # NoTask /\ (pc[t] = "copy" => DevOf(t) \in Dev)
    BY ConstantsAssumption, CopyFacts
  <1>4. CASE Apart(t)
    BY <1>1, <1>2, <1>4 DEF Apart, InSection
  <1>5. CASE Enters(t)
    <2>1. CASE d = DevOf(t)
      BY <1>5, <2>1 DEF Enters, IndInv, TypeOK, InSection
    <2>2. CASE d # DevOf(t)
      BY <1>1, <1>2, <1>5, <2>2 DEF Enters, IndInv, TypeOK, InSection
    <2> QED
      BY <2>1, <2>2
  <1>6. CASE Copies(t)
    BY <1>1, <1>2, <1>6 DEF Copies, InSection
  <1>7. CASE Leaves(t)
    <2>1. CASE d = DevOf(t)
      BY <1>3, <1>7, <2>1 DEF Leaves, MutexUnlock, IndInv, TypeOK
    <2>2. CASE d # DevOf(t)
      BY <1>1, <1>2, <1>7, <2>2 DEF Leaves, MutexUnlock, IndInv, TypeOK, InSection
    <2> QED
      BY <2>1, <2>2
  <1>8. CASE LeavesLocked(t)
    BY <1>8 DEF LeavesLocked
  <1> QED
    BY <1>4, <1>5, <1>6, <1>7, <1>8, IActionKinds

\* Nobody who copies owns a leaked mutex, and nobody else gives it up.
LEMMA LeakStays ==
  ASSUME IndInv, NEW t \in Task, IAction(t), NEW d \in Dev, Leaked(d)
  PROVE  Leaked(d)' /\ buffer'[d] = buffer[d]
  <1> PICK u \in Task : pcd_mutex_lock[d] = u /\ ~InSection(u, d)
    BY DEF Leaked
  <1>1. u # NoTask
    BY ConstantsAssumption
  <1>2. pc[t] = "copy" => DevOf(t) # d
    BY CopyFacts DEF InSection
  <1>3. pcd_mutex_lock'[d] = u /\ buffer'[d] = buffer[d]
    <2>1. CASE Apart(t) \/ LeavesLocked(t)
      BY <2>1 DEF Apart, LeavesLocked
    <2>2. CASE Enters(t)
      BY <1>1, <2>2 DEF Enters, IndInv, TypeOK
    <2>3. CASE Copies(t) \/ Leaves(t)
      BY <1>2, <2>3, CopyFacts DEF Copies, Leaves, MutexUnlock, IndInv, TypeOK
    <2> QED
      BY <2>1, <2>2, <2>3, IActionKinds
  <1>4. ~InSection(u, d)'
    <2>1. CASE u # t
      BY <2>1, OthersKept DEF InSection
    <2>2. CASE u = t
      <3>1. CASE Apart(t)
        BY <2>2, <3>1 DEF Apart, InSection
      <3>2. CASE Enters(t)
        BY <1>1, <2>2, <3>2 DEF Enters, InSection
      <3>3. CASE Copies(t)
        BY <1>2, <2>2, <3>3 DEF Copies, InSection
      <3>4. CASE Leaves(t) \/ LeavesLocked(t)
        BY <2>2, <3>4 DEF Leaves, LeavesLocked, InSection
      <3> QED
        BY <3>1, <3>2, <3>3, <3>4, IActionKinds
    <2> QED
      BY <2>1, <2>2
  <1> QED
    BY <1>3, <1>4 DEF Leaked

\* Every way out of pcd_read and pcd_write of char_driver.c releases the mutex,
\* but for the empty write.
THEOREM LeakConfinedToEmptyWrite == ISpec => LeakOnlyOnEmptyWrite
  <1>1. IndInv /\ [INext]_ivars =>
          [\A d \in Dev : Leaked(d)' /\ ~Leaked(d) =>
             \E t \in Task : pc[t] = "copy" /\ call'[t].ret = "ENOMEM"]_ivars
    <2> SUFFICES ASSUME IndInv, [INext]_ivars, NEW d \in Dev, Leaked(d)', ~Leaked(d)
                 PROVE  \E t \in Task : pc[t] = "copy" /\ call'[t].ret = "ENOMEM"
      OBVIOUS
    <2>1. ~UNCHANGED vars
      BY DEF vars, Leaked, InSection, DevOf
    <2> QED
      BY <2>1, INextActions, LeakByEmptyWrite
  <1> QED
    BY InterruptibleIndInvHolds, <1>1, PTL DEF ISpec, LeakOnlyOnEmptyWrite

\* An empty write leaves the device dead: the mutex is never released and no byte
\* of the buffer changes again, whatever signals and faults come.
THEOREM LeakForEver == ISpec => LeakIsFinal
  <1>1. IndInv /\ [INext]_ivars =>
          [\A d \in Dev : Leaked(d) => Leaked(d)' /\ buffer'[d] = buffer[d]]_ivars
    <2> SUFFICES ASSUME IndInv, [INext]_ivars, NEW d \in Dev, Leaked(d)
                 PROVE  Leaked(d)' /\ buffer'[d] = buffer[d]
      OBVIOUS
    <2>1. CASE UNCHANGED vars
      BY <2>1 DEF vars, Leaked, InSection, DevOf
    <2> QED
      BY <2>1, INextActions, LeakStays
  <1> QED
    BY InterruptibleIndInvHolds, <1>1, PTL DEF ISpec, LeakIsFinal

-----------------------------------------------------------------------------
(* The locked devices implement the atomic ones (MutexRefinesAtomic).      *)

\* What committed says of a device: what is in its buffer, but for the bytes
\* that a write under way has put there.
Pending(t, k) ==
  /\ call[t].op = "write"
  /\ k >= call[t].offset /\ k < call[t].offset + Len(call[t].data)

CommittedFor(t) ==
  pc[t] = "copy" =>
    \A k \in 0 .. Size[DevOf(t)] - 1 :
      committed[DevOf(t)][k] = buffer[DevOf(t)][k] \/ Pending(t, k)

HistInv ==
  /\ committed = [d \in Dev |-> committed[d]]
  /\ \A d \in Dev : committed[d] \in [0 .. Size[d] - 1 -> Value]
  /\ \A d \in Dev : ~Busy(d) => committed[d] = buffer[d]
  /\ \A t \in Task : CommittedFor(t)

LEMMA InitHistInv == HInit => HistInv
  <1> SUFFICES ASSUME HInit PROVE HistInv
    OBVIOUS
  <1>1. IndInv
    BY InitIndInv DEF HInit
  <1>2. \A t \in Task : pc[t] # "copy"
    BY DEF HInit, Init
  <1>3. committed = [d \in Dev |-> committed[d]]
    BY DEF HInit, Init
  <1> QED
    BY <1>1, <1>2, <1>3 DEF HInit, IndInv, TypeOK, HistInv, CommittedFor

\* A call leaves the critical section of its device.
Exits(t) ==
  /\ pc[t] = "copy" /\ pc'[t] = "ret"
  /\ \A d \in Dev \ {DevOf(t)} : buffer'[d] = buffer[d]

LEMMA ActionKinds ==
  ASSUME IndInv, NEW t \in Task, Action(t)
  PROVE  \/ Apart(t)
         \/ Enters(t) /\ LockAndClamp(t)
         \/ Copies(t) /\ CopyByte(t)
         \/ Exits(t) /\ (EmptyWrite(t) \/ ReadFault(t) \/ WriteFault(t) \/ CopyDone(t))
  <1> USE DEF IndInv, TypeOK
  <1>1. CASE Syscall(t)
    BY <1>1, SyscallEffect DEF Apart
  <1>2. CASE SeekStore(t) \/ SysReturn(t)
    BY <1>2 DEF Apart, SeekStore, SysReturn, HandlerReturn, Enter
  <1>3. CASE LockAndClamp(t)
    <2>1. Enters(t)
      BY <1>3, IActionKinds
         DEF IAction, TakeMutex, Locked, Apart, Enters, Copies, Leaves, LeavesLocked,
             LockAndClamp
    <2> QED
      BY <1>3, <2>1
  <1>4. CASE CopyByte(t)
    <2>1. pc[t] = "copy" /\ UNCHANGED <<pcd_mutex_lock, private_data, pc>>
      BY <1>4 DEF CopyByte, Copying
    <2>2. call'[t].file = call[t].file
      BY <1>4 DEF CopyByte, Call
    <2>3. \A d \in Dev \ {DevOf(t)} : buffer'[d] = buffer[d]
      BY <1>4 DEF CopyByte
    <2> QED
      BY <1>4, <2>1, <2>2, <2>3 DEF Copies, DevOf
  <1>5. CASE EmptyWrite(t) \/ ReadFault(t) \/ CopyDone(t)
    BY <1>5 DEF Exits, EmptyWrite, ReadFault, CopyDone, Copying, HandlerReturn
  <1>6. CASE WriteFault(t)
    BY <1>6, ZeroFilled DEF Exits, WriteFault, Copying, HandlerReturn
  <1> QED
    BY <1>1, <1>2, <1>3, <1>4, <1>5, <1>6 DEF Action, Handler

\* The history variable moves only when a call leaves its section.
CommittedStep ==
  committed' = [d \in Dev |-> IF Busy(d)' THEN committed[d] ELSE buffer'[d]]

LEMMA CommittedMoves ==
  ASSUME IndInv, IndInv', HistInv, NEW t \in Task, Action(t), CommittedStep
  PROVE  /\ ~Exits(t) => committed' = committed
         /\ Exits(t) => committed' = [committed EXCEPT ![DevOf(t)] = buffer'[DevOf(t)]]
         /\ HistInv'
  <1>1. /\ \A u \in Task \ {t}, d \in Dev : InSection(u, d)' <=> InSection(u, d)
        /\ \A u \in Task \ {t} : /\ pc'[u] = pc[u] /\ call'[u] = call[u]
                                 /\ pc[u] = "copy" => DevOf(u)' = DevOf(u)
    BY OthersKept DEF InSection
  <1>2. /\ \A d \in Dev : committed'[d] = IF Busy(d)' THEN committed[d] ELSE buffer'[d]
        /\ committed' = [d \in Dev |-> committed'[d]]
    BY DEF CommittedStep
  <1>3. \A d \in Dev : /\ committed[d] \in [0 .. Size[d] - 1 -> Value]
                       /\ buffer'[d] \in [0 .. Size[d] - 1 -> Value]
    BY DEF HistInv, IndInv, TypeOK
  <1>4. \A d \in Dev : committed'[d] \in [0 .. Size[d] - 1 -> Value]
    BY <1>2, <1>3
  <1>5. \A d \in Dev : ~Busy(d)' => committed'[d] = buffer'[d]
    BY <1>2
  <1>6. /\ ~Exits(t) => \A d \in Dev : committed'[d] = committed[d]
        /\ Exits(t) => \A d \in Dev \ {DevOf(t)} : committed'[d] = committed[d]
        /\ Exits(t) => DevOf(t) \in Dev /\ committed'[DevOf(t)] = buffer'[DevOf(t)]
    <2>1. CASE Apart(t)
      <3>1. \A d \in Dev : Busy(d)' <=> Busy(d)
        BY <1>1, <2>1 DEF Apart, Busy, InSection
      <3> QED
        BY <1>2, <2>1, <3>1 DEF Apart, Exits, HistInv
    <2>2. CASE Enters(t)
      <3>1. \A d \in Dev : Busy(d) => Busy(d)'
        BY <1>1, <2>2 DEF Enters, Busy, InSection
      <3> QED
        BY <1>2, <2>2, <3>1 DEF Enters, Exits, HistInv
    <2>3. CASE Copies(t)
      <3>1. \A d \in Dev : Busy(d)' <=> Busy(d)
        BY <1>1, <2>3 DEF Copies, Busy, InSection
      <3>2. \A d \in Dev : ~Busy(d) => buffer'[d] = buffer[d]
        BY <2>3 DEF Copies, Busy, InSection
      <3> QED
        BY <1>2, <2>3, <3>1, <3>2 DEF Copies, Exits, HistInv
    <2>4. CASE Exits(t)
      <3>1. DevOf(t) \in Dev /\ \A u \in Task \ {t} : pc[u] = "copy" => DevOf(u) # DevOf(t)
        BY <2>4, CopyFacts, SectionsApart DEF Exits
      <3>2. ASSUME NEW d \in Dev \ {DevOf(t)} PROVE committed'[d] = committed[d]
        <4>1. Busy(d)' <=> Busy(d)
          BY <1>1, <2>4, <3>2 DEF Exits, Busy, InSection
        <4> QED
          BY <1>2, <2>4, <3>2, <4>1 DEF Exits, HistInv
      <3>3. committed'[DevOf(t)] = buffer'[DevOf(t)]
        <4> PICK d \in Dev : d = DevOf(t)
          BY <3>1
        <4>1. \A u \in Task \ {t} : ~InSection(u, d)'
          BY <1>1, <3>1 DEF InSection
        <4>2. ~InSection(t, d)'
          BY <2>4 DEF Exits, InSection
        <4>3. ~Busy(d)'
          BY <4>1, <4>2 DEF Busy
        <4> QED
          BY <1>5, <4>3
      <3> QED
        BY <2>4, <3>1, <3>2, <3>3
    <2> QED
      BY <2>1, <2>2, <2>3, <2>4, ActionKinds
  <1>7. ASSUME NEW u \in Task \ {t} PROVE CommittedFor(u)'
    <2> SUFFICES ASSUME pc[u] = "copy"
                 PROVE  \A k \in 0 .. Size[DevOf(u)] - 1 :
                          committed'[DevOf(u)][k] = buffer'[DevOf(u)][k] \/ Pending(u, k)'
      BY <1>1 DEF CommittedFor
    <2>1. DevOf(u) \in Dev /\ (pc[t] = "copy" => DevOf(u) # DevOf(t))
      BY CopyFacts, SectionsApart
    <2>2. buffer'[DevOf(u)] = buffer[DevOf(u)]
      BY <2>1, ActionKinds DEF Apart, Enters, Copies, Exits
    <2>3. committed'[DevOf(u)] = committed[DevOf(u)]
      BY <1>6, <2>1 DEF Exits
    <2>4. \A k : Pending(u, k)' <=> Pending(u, k)
      BY <1>1 DEF Pending
    <2>5. CommittedFor(u)
      BY DEF HistInv
    <2> QED
      BY <2>2, <2>3, <2>4, <2>5 DEF CommittedFor
  <1>8. CommittedFor(t)'
    <2>1. CASE Apart(t) \/ Exits(t)
      BY <2>1 DEF Apart, Exits, CommittedFor
    <2>2. CASE Enters(t)
      <3> PICK d \in Dev : d = DevOf(t)
        BY <2>2 DEF Enters
      <3>1. ~Busy(d)
        BY <2>2, CopyFacts, ConstantsAssumption DEF Enters, Busy, InSection
      <3>2. committed[d] = buffer[d] /\ buffer'[d] = buffer[d] /\ committed'[d] = committed[d]
        BY <1>6, <2>2, <3>1 DEF HistInv, Enters, Exits
      <3> QED
        BY <2>2, <3>2 DEF CommittedFor, Enters
    <2>3. CASE Copies(t) /\ CopyByte(t)
      <3> PICK d \in Dev : d = DevOf(t)
        BY <2>3, CopyFacts DEF Copies
      <3> DEFINE c == call[t]
                 at == c.offset + Len(c.data)
      <3>1. PICK v \in Value :
              /\ IF c.op = "read"
                 THEN v = buffer[d][at] /\ UNCHANGED buffer
                 ELSE buffer' = [buffer EXCEPT ![d][at] = v]
              /\ call' = [call EXCEPT ![t].data = Append(c.data, v)]
        BY <2>3 DEF CopyByte
      <3>2. /\ c \in Call /\ c.data \in Seq(Value) /\ c.offset \in Nat
            /\ Len(c.data) \in Nat /\ DOMAIN buffer = Dev
            /\ buffer[d] \in [0 .. Size[d] - 1 -> Value] /\ call \in [Task -> Call]
            /\ Size[d] \in Nat
        BY <2>3, CopyFacts DEF Copies, IndInv, TypeOK
      <3>3. /\ call'[t].op = c.op /\ call'[t].offset = c.offset
            /\ call'[t].data = Append(c.data, v)
            /\ Len(call'[t].data) = Len(c.data) + 1
        BY <3>1, <3>2 DEF Call
      <3>4. \A k \in 0 .. Size[d] - 1 :
              buffer'[d][k] = buffer[d][k] \/ (c.op # "read" /\ k = at)
        BY <3>1, <3>2
      <3>5. c.op \in {"read", "write"} /\ CommittedFor(t) /\ pc[t] = "copy"
            /\ DevOf(t)' = d /\ committed'[d] = committed[d]
        BY <1>6, <2>3, CopyFacts DEF Copies, Exits, HistInv
      <3>6. \A k \in 0 .. Size[d] - 1 : Pending(t, k) => Pending(t, k)'
        BY <3>2, <3>3 DEF Pending
      <3>7. \A k \in 0 .. Size[d] - 1 : c.op # "read" /\ k = at => Pending(t, k)'
        BY <3>2, <3>3, <3>5 DEF Pending
      <3> QED
        BY <3>4, <3>5, <3>6, <3>7 DEF CommittedFor
    <2> QED
      BY <2>1, <2>2, <2>3, ActionKinds
  <1>9. HistInv'
    BY <1>2, <1>4, <1>5, <1>7, <1>8 DEF HistInv
  <1>10. ~Exits(t) => committed' = committed
    BY <1>2, <1>6 DEF HistInv
  <1>11. Exits(t) => committed' = [committed EXCEPT ![DevOf(t)] = buffer'[DevOf(t)]]
    BY <1>2, <1>6 DEF HistInv
  <1> QED
    BY <1>9, <1>10, <1>11

\* The abstract state of a task, in each place of its call.
LEMMA TaskStates ==
  ASSUME NEW t \in Task
  PROVE  /\ pc[t] = "lock" =>
              TaskState(t) = [kind |-> "request", op |-> call[t].op, dev |-> DevOf(t),
                              offset |-> call[t].offset,
                              count |-> Clamp(call[t].offset, call[t].count, Size[DevOf(t)])]
         /\ pc[t] = "copy" =>
              TaskState(t) = [kind |-> "request", op |-> call[t].op, dev |-> DevOf(t),
                              offset |-> call[t].offset, count |-> call[t].count]
         /\ pc[t] = "ret" /\ call[t].op \in {"read", "write"} =>
              TaskState(t) = [kind |-> "response", ret |-> call[t].ret,
                              data |-> IF call[t].ret = "OK" THEN call[t].data ELSE <<>>]
         /\ pc[t] \notin {"lock", "copy"} /\ ~(pc[t] = "ret" /\ call[t].op \in {"read", "write"}) =>
              TaskState(t) = [kind |-> "idle"]
  BY DEF TaskState

Abs == [u \in Task |-> TaskState(u)]

\* A step of t changes the abstract state of t alone.
LEMMA AbsMoves ==
  ASSUME IndInv, NEW t \in Task, Action(t)
  PROVE  Abs' = [Abs EXCEPT ![t] = TaskState(t)'] /\ Abs[t] = TaskState(t)
  <1>1. ASSUME NEW u \in Task \ {t} PROVE TaskState(u)' = TaskState(u)
    <2>1. /\ pc'[u] = pc[u] /\ call'[u] = call[u]
          /\ pc[u] # "idle" => DevOf(u)' = DevOf(u)
      BY OthersKept
    <2>2. CASE pc[u] = "idle"
      BY <2>1, <2>2 DEF TaskState
    <2>3. CASE pc[u] # "idle"
      BY <2>1, <2>3 DEF TaskState
    <2> QED
      BY <2>2, <2>3
  <1> QED
    BY <1>1 DEF Abs

\* The steps of the atomic devices, in the terms of this module.
LEMMA AbsVars == Atomic!vars = <<committed, Abs>>
  BY DEF Atomic!vars, Abs

\* A request that uaccess refuses is one beyond the end of the device.
LEMMA RefusedBeyondEnd ==
  ASSUME IndInv, NEW t \in Task, pc[t] = "copy"
  PROVE  /\ Refused(t) => /\ call[t].data = <<>>
                          /\ call[t].offset + call[t].count > Size[DevOf(t)]
         /\ ~Refused(t) => call[t].offset + call[t].count <= Size[DevOf(t)]
  <1> PICK d \in Dev : d = DevOf(t)
    BY CopyFacts
  <1>1. /\ call[t].offset \in Nat /\ call[t].count \in Nat
        /\ Size[d] \in Nat /\ Size[d] <= IntMax /\ IntMax \in Nat
    BY CopyFacts, ConstantsAssumption, WidthAssumption
  <1>2. SectionInv(t)
    BY DEF IndInv
  <1>3. call[t].count > IntMax => call[t].offset + call[t].count > Size[d]
    BY <1>1
  <1> QED
    BY <1>2, <1>3, <1>1 DEF SectionInv, Refused

\* Opens, closes and seeks, the limit applied to a count and the bytes copied one
\* by one do not show.
LEMMA HiddenStep ==
  ASSUME IndInv, NEW t \in Task, NEW f \in File,
         \/ \E d \in Dev, mode \in OpenMode : pcd_open(t, f, d, mode)
         \/ pcd_release(t, f)
         \/ \E arg \in SeekArg : SeekSet(t, f, arg)
         \/ \E whence \in {"SEEK_CUR", "SEEK_END"}, arg \in SeekArg :
              SeekCheck(t, f, whence, arg)
         \/ SeekStore(t) \/ LockAndClamp(t) \/ CopyByte(t)
  PROVE  TaskState(t)' = TaskState(t) /\ ~Exits(t)
  <1> USE DEF IndInv, TypeOK
  <1>1. ASSUME NEW d \in Dev, NEW mode \in OpenMode, pcd_open(t, f, d, mode)
        PROVE  TaskState(t)' = TaskState(t) /\ ~Exits(t)
    <2>1. pc[t] = "idle" /\ pc'[t] = "ret" /\ call'[t].op = "open"
      BY <1>1 DEF pcd_open, Enter, NoCall
    <2> QED
      BY <2>1 DEF TaskState, Exits
  <1>2. CASE pcd_release(t, f)
    <2>1. pc[t] = "idle" /\ pc'[t] = "idle"
      BY <1>2 DEF pcd_release
    <2> QED
      BY <2>1 DEF TaskState, Exits
  <1>3. ASSUME NEW arg \in SeekArg, SeekSet(t, f, arg)
        PROVE  TaskState(t)' = TaskState(t) /\ ~Exits(t)
    <2>1. pc[t] = "idle" /\ pc'[t] = "ret" /\ call'[t].op = "SEEK_SET"
      BY <1>3 DEF SeekSet, Enter, NoCall
    <2> QED
      BY <2>1 DEF TaskState, Exits
  <1>4. ASSUME NEW whence \in {"SEEK_CUR", "SEEK_END"}, NEW arg \in SeekArg,
               SeekCheck(t, f, whence, arg)
        PROVE  TaskState(t)' = TaskState(t) /\ ~Exits(t)
    <2>1. pc[t] = "idle" /\ pc'[t] \in {"seek", "ret"} /\ call'[t].op = whence
      BY <1>4 DEF SeekCheck, Enter, NoCall
    <2> QED
      BY <2>1 DEF TaskState, Exits
  <1>5. CASE SeekStore(t)
    <2>1. pc[t] = "seek" /\ HandlerReturn(t, "OK") /\ "OK" \in Ret
      BY <1>5 DEF SeekStore, Ret
    <2>2. pc'[t] = "ret" /\ call'[t].op \in {"SEEK_CUR", "SEEK_END"}
      BY <2>1, HandlerReturnCall DEF HandlerReturn, CallInv
    <2> QED
      BY <2>1, <2>2 DEF TaskState, Exits
  <1>6. CASE LockAndClamp(t)
    <2>1. /\ pc[t] = "lock" /\ pc'[t] = "copy" /\ call[t] \in Call
          /\ call' = [call EXCEPT ![t].count =
                        Clamp(call[t].offset, call[t].count, Size[DevOf(t)])]
          /\ UNCHANGED private_data
      BY <1>6 DEF LockAndClamp
    <2> DEFINE n == Clamp(call[t].offset, call[t].count, Size[DevOf(t)])
    <2> HIDE DEF n
    <2>2. /\ call'[t].count = n /\ call'[t].op = call[t].op
          /\ call'[t].file = call[t].file /\ call'[t].offset = call[t].offset
      BY <2>1 DEF Call, n
    <2>3. DevOf(t)' = DevOf(t)
      BY <2>1, <2>2 DEF DevOf
    <2> QED
      BY <2>1, <2>2, <2>3 DEF TaskState, Exits, n
  <1>7. CASE CopyByte(t)
    <2>1. pc[t] = "copy" /\ UNCHANGED <<private_data, pc>> /\ call[t] \in Call
      BY <1>7 DEF CopyByte, Copying
    <2>2. \E data \in Seq(Value) : call' = [call EXCEPT ![t].data = data]
      <3>1. PICK v \in Value : call' = [call EXCEPT ![t].data = Append(call[t].data, v)]
        BY <1>7 DEF CopyByte
      <3>2. Append(call[t].data, v) \in Seq(Value)
        BY <2>1, CopyFacts
      <3> QED
        BY <3>1, <3>2
    <2>3. /\ call'[t].count = call[t].count /\ call'[t].op = call[t].op
          /\ call'[t].file = call[t].file /\ call'[t].offset = call[t].offset
      BY <2>1, <2>2 DEF Call
    <2>4. DevOf(t)' = DevOf(t)
      BY <2>1, <2>3 DEF DevOf
    <2> QED
      BY <2>1, <2>3, <2>4 DEF TaskState, Exits
  <1> QED
    BY <1>1, <1>2, <1>3, <1>4, <1>5, <1>6, <1>7

\* A transfer begins with a request, its count limited to the device.
LEMMA BeginInvokes ==
  ASSUME IndInv, HistInv, NEW t \in Task, NEW f \in File,
         NEW op \in {"read", "write"}, NEW n \in Count, BeginTransfer(t, f, op, n),
         committed' = committed
  PROVE  Atomic!Invoke(t)
  <1> DEFINE d == private_data[f]
             limited == Clamp(f_pos[f], n, Size[d])
             r == [kind |-> "request", op |-> op, dev |-> d, offset |-> f_pos[f],
                   count |-> limited]
  <1>1. /\ pc[t] = "idle" /\ d \in Dev /\ f_pos[f] \in 0 .. MaxPos /\ f_pos[f] \in Nat
        /\ UNCHANGED <<private_data>>
    BY ConstantsAssumption DEF BeginTransfer, Usable, IndInv, TypeOK
  <1>2. limited \in Nat
    BY <1>1, ClampBounds
  <1>3. /\ pc'[t] = "lock" /\ call'[t].op = op /\ call'[t].file = f
        /\ call'[t].offset = f_pos[f] /\ call'[t].count = n
    BY DEF BeginTransfer, Enter, NoCall, IndInv, TypeOK
  <1>4. DevOf(t)' = d
    BY <1>1, <1>3 DEF DevOf
  <1>5. TaskState(t) = [kind |-> "idle"] /\ TaskState(t)' = r
    BY <1>1, <1>3, <1>4 DEF TaskState
  <1>6. r \in Atomic!Request
    BY <1>1, <1>2 DEF Atomic!Request
  <1>7. Action(t)
    BY DEF Action, Syscall
  <1> HIDE DEF r
  <1>8. Abs[t] = [kind |-> "idle"] /\ Abs' = [Abs EXCEPT ![t] = r] /\ Abs'[t] = r
    BY <1>5, <1>7, AbsMoves DEF Abs
  <1> QED
    BY <1>6, <1>8 DEF Atomic!Invoke, Atomic!Idle, Abs

\* A read or write that returns takes its response with it.
LEMMA SysReturnReturns ==
  ASSUME IndInv, HistInv, NEW t \in Task, SysReturn(t), committed' = committed
  PROVE  Atomic!Return(t) \/ UNCHANGED Atomic!vars
  <1>1. pc[t] = "ret" /\ pc'[t] = "idle"
    BY DEF SysReturn, Enter, IndInv, TypeOK
  <1>2. TaskState(t)' = [kind |-> "idle"]
    BY <1>1 DEF TaskState
  <1>3. Action(t)
    BY DEF Action, Handler
  <1>4. Abs[t] = TaskState(t) /\ Abs' = [Abs EXCEPT ![t] = [kind |-> "idle"]]
    BY <1>2, <1>3, AbsMoves
  <1>5. CASE call[t].op \in {"read", "write"}
    <2>1. Abs[t].kind = "response"
      BY <1>1, <1>4, <1>5, TaskStates
    <2> QED
      BY <1>4, <2>1 DEF Atomic!Return, Atomic!Idle, Abs
  <1>6. CASE call[t].op \notin {"read", "write"}
    <2>1. Abs[t] = [kind |-> "idle"]
      BY <1>1, <1>4, <1>6, TaskStates
    <2>2. Abs' = Abs
      BY <1>4, <2>1 DEF Abs
    <2> QED
      BY <2>2, AbsVars DEF Abs, Atomic!vars
  <1> QED
    BY <1>5, <1>6

\* A sequence is the function of its elements.
LEMMA SeqIsFunction ==
  ASSUME NEW s \in Seq(Value)
  PROVE  s \in [1 .. Len(s) -> Value] /\ s = [i \in 1 .. Len(s) |-> s[i]]
  OBVIOUS

\* What is known of a call about to leave its section, and of what it shows.
LEMMA ExitFacts ==
  ASSUME IndInv, HistInv, NEW t \in Task, pc[t] = "copy", Action(t), pc'[t] = "ret"
  PROVE  LET c == call[t] d == DevOf(t) IN
         /\ d \in Dev /\ Size[d] \in Nat /\ c.op \in {"read", "write"}
         /\ c.offset \in Nat /\ c.count \in Nat /\ c.data \in Seq(Value)
         /\ Len(c.data) \in Nat /\ Len(c.data) <= c.count
         /\ committed[d] \in [0 .. Size[d] - 1 -> Value]
         /\ buffer[d] \in [0 .. Size[d] - 1 -> Value]
         /\ \A k \in 0 .. Size[d] - 1 : committed[d][k] = buffer[d][k] \/ Pending(t, k)
         /\ Abs[t] = [kind |-> "request", op |-> c.op, dev |-> d,
                      offset |-> c.offset, count |-> c.count]
         /\ Abs' = [Abs EXCEPT ![t] = TaskState(t)']
         /\ call'[t].op = c.op =>
              TaskState(t)' = [kind |-> "response", ret |-> call'[t].ret,
                               data |-> IF call'[t].ret = "OK" THEN call'[t].data ELSE <<>>]
  <1> DEFINE c == call[t]
             d == DevOf(t)
  <1>1. /\ d \in Dev /\ Size[d] \in Nat /\ c.op \in {"read", "write"}
        /\ c.offset \in Nat /\ c.count \in Nat /\ c.data \in Seq(Value)
        /\ Len(c.data) \in Nat /\ Len(c.data) <= c.count
    BY CopyFacts
  <1>2. /\ committed[d] \in [0 .. Size[d] - 1 -> Value]
        /\ buffer[d] \in [0 .. Size[d] - 1 -> Value]
        /\ \A k \in 0 .. Size[d] - 1 : committed[d][k] = buffer[d][k] \/ Pending(t, k)
    BY <1>1 DEF HistInv, CommittedFor, IndInv, TypeOK
  <1>3. Abs[t] = [kind |-> "request", op |-> c.op, dev |-> d,
                  offset |-> c.offset, count |-> c.count]
    BY TaskStates, AbsMoves
  <1>4. Abs' = [Abs EXCEPT ![t] = TaskState(t)']
    BY AbsMoves
  <1>5. call'[t].op = c.op =>
          TaskState(t)' = [kind |-> "response", ret |-> call'[t].ret,
                           data |-> IF call'[t].ret = "OK" THEN call'[t].data ELSE <<>>]
    BY <1>1 DEF TaskState
  <1> QED
    BY <1>1, <1>2, <1>3, <1>4, <1>5

\* A call that has written nothing leaves the device as it found it.
LEMMA Unwritten ==
  ASSUME IndInv, HistInv, NEW t \in Task, pc[t] = "copy",
         call[t].op = "read" \/ call[t].data = <<>>,
         buffer'[DevOf(t)] = buffer[DevOf(t)],
         committed' = [committed EXCEPT ![DevOf(t)] = buffer'[DevOf(t)]]
  PROVE  committed' = committed
  <1> PICK d \in Dev : d = DevOf(t)
    BY CopyFacts
  <1>1. /\ committed[d] \in [0 .. Size[d] - 1 -> Value]
        /\ buffer[d] \in [0 .. Size[d] - 1 -> Value]
        /\ \A k \in 0 .. Size[d] - 1 : committed[d][k] = buffer[d][k] \/ Pending(t, k)
    BY DEF HistInv, CommittedFor, IndInv, TypeOK
  <1>2. call[t].offset \in Nat /\ Len(<<>>) = 0
    BY CopyFacts
  <1>3. \A k \in 0 .. Size[d] - 1 : ~Pending(t, k)
    BY <1>2 DEF Pending
  <1>4. \A k \in 0 .. Size[d] - 1 : committed[d][k] = buffer[d][k]
    BY <1>1, <1>3
  <1> DEFINE places == 0 .. Size[d] - 1
  <1> HIDE DEF places
  <1>5. committed[d] \in [places -> Value] /\ buffer[d] \in [places -> Value]
        /\ \A k \in places : committed[d][k] = buffer[d][k]
    BY <1>1, <1>4 DEF places
  <1>6. committed[d] = buffer[d]
    BY <1>5
  <1> QED
    BY <1>6 DEF HistInv

\* The three ways out that leave no trace.
LEMMA FruitlessExit ==
  ASSUME IndInv, HistInv, NEW t \in Task,
         EmptyWrite(t) \/ ReadFault(t) \/ (WriteFault(t) /\ Refused(t)),
         committed' = [committed EXCEPT ![DevOf(t)] = buffer'[DevOf(t)]]
  PROVE  Atomic!Refuse(t) \/ Atomic!Fault(t)
  <1> DEFINE c == call[t]
             d == DevOf(t)
  <1>1. /\ pc[t] = "copy" /\ Action(t)
        /\ \/ HandlerReturn(t, "ENOMEM") /\ c.op = "write" /\ c.count = 0
           \/ HandlerReturn(t, "EFAULT") /\ Len(c.data) < c.count
    BY DEF EmptyWrite, ReadFault, WriteFault, Copying, Action, Handler
  <1>2. PICK r \in Ret \ {"OK"} :
          /\ HandlerReturn(t, r)
          /\ \/ r = "ENOMEM" /\ c.op = "write" /\ c.count = 0
             \/ r = "EFAULT" /\ Len(c.data) < c.count
    BY <1>1 DEF Ret
  <1>3. call'[t].op = c.op /\ call'[t].ret = r /\ pc'[t] = "ret"
    BY <1>2, HandlerReturnCall DEF HandlerReturn, IndInv, TypeOK
  <1>4. /\ d \in Dev /\ Size[d] \in Nat /\ c.op \in {"read", "write"} /\ c.count \in Nat
        /\ c.offset \in Nat /\ Len(c.data) \in Nat /\ Len(c.data) <= c.count
        /\ c.data \in Seq(Value)
        /\ Abs[t] = [kind |-> "request", op |-> c.op, dev |-> d,
                     offset |-> c.offset, count |-> c.count]
        /\ Abs' = [Abs EXCEPT ![t] = [kind |-> "response", ret |-> r, data |-> <<>>]]
    BY <1>1, <1>2, <1>3, ExitFacts
  <1>5. c.op = "read" \/ c.data = <<>>
    <2>1. CASE EmptyWrite(t)
      BY <2>1, <1>4 DEF EmptyWrite
    <2>2. CASE ReadFault(t)
      BY <2>2 DEF ReadFault
    <2>3. CASE WriteFault(t) /\ Refused(t)
      BY <1>1, <2>3, RefusedBeyondEnd
    <2> QED
      BY <2>1, <2>2, <2>3
  <1>6. buffer'[d] = buffer[d]
    <2>1. CASE UNCHANGED buffer
      BY <2>1
    <2>2. CASE WriteFault(t) /\ Refused(t)
      <3>1. buffer' = [buffer EXCEPT ![d] = [i \in DOMAIN buffer[d] |-> buffer[d][i]]]
        BY <2>2 DEF WriteFault, ZeroFill
      <3>2. buffer[d] = [i \in DOMAIN buffer[d] |-> buffer[d][i]]
        BY <1>4 DEF IndInv, TypeOK
      <3> QED
        BY <1>4, <3>1, <3>2 DEF IndInv, TypeOK
    <2> QED
      BY <2>1, <2>2 DEF EmptyWrite, ReadFault
  <1>7. committed' = committed
    BY <1>1, <1>5, <1>6, Unwritten
  <1>8. Refused(t) => c.offset + c.count > Size[d]
    BY <1>1, RefusedBeyondEnd
  <1>9. ~Refused(t) => c.offset + c.count <= Size[d]
    BY <1>1, RefusedBeyondEnd
  <1>10. CASE r = "ENOMEM" /\ c.op = "write" /\ c.count = 0
    BY <1>4, <1>7, <1>10 DEF Atomic!Refuse, Atomic!Respond, Atomic!Response, Abs
  <1>11. CASE r = "EFAULT" /\ Refused(t)
    BY <1>4, <1>7, <1>8, <1>11
       DEF Atomic!Refuse, Atomic!Respond, Atomic!Response, Atomic!InRange, Abs
  <1>12. CASE r = "EFAULT" /\ ~Refused(t) /\ Len(c.data) < c.count
    <2>1. c.op = "read" /\ c.count > 0
      <3>1. ReadFault(t)
        BY <1>2, <1>12 DEF EmptyWrite, HandlerReturn, IndInv, TypeOK, Call
      <3> QED
        BY <1>4, <1>12, <3>1 DEF ReadFault
    <2> QED
      BY <1>4, <1>7, <1>9, <1>12, <2>1
         DEF Atomic!Fault, Atomic!Respond, Atomic!Response, Atomic!InRange, Abs
  <1> QED
    BY <1>2, <1>10, <1>11, <1>12

\* A write leaves the bytes it moved, and no others, on the device.
LEMMA WriteOverwrites ==
  ASSUME IndInv, HistInv, NEW t \in Task, pc[t] = "copy", NEW bytes,
         buffer'[DevOf(t)] \in [0 .. Size[DevOf(t)] - 1 -> Value],
         \A k \in 0 .. Size[DevOf(t)] - 1 :
           buffer'[DevOf(t)][k] =
             IF k >= call[t].offset /\ k < call[t].offset + call[t].count
             THEN bytes[k - call[t].offset + 1] ELSE buffer[DevOf(t)][k],
         committed' = [committed EXCEPT ![DevOf(t)] = buffer'[DevOf(t)]]
  PROVE  committed' = Atomic!Overwrite(Abs[t], bytes)
  <1> PICK d \in Dev : d = DevOf(t)
    BY CopyFacts
  <1> PICK c : c = call[t]
    OBVIOUS
  <1> DEFINE In(k) == k >= c.offset /\ k < c.offset + c.count
  <1>1. /\ Size[d] \in Nat /\ c.offset \in Nat /\ c.count \in Nat
        /\ Len(c.data) \in Nat /\ Len(c.data) <= c.count
    BY CopyFacts
  <1>2. /\ committed[d] \in [0 .. Size[d] - 1 -> Value]
        /\ buffer[d] \in [0 .. Size[d] - 1 -> Value]
        /\ \A k \in 0 .. Size[d] - 1 : committed[d][k] = buffer[d][k] \/ Pending(t, k)
    BY DEF HistInv, CommittedFor, IndInv, TypeOK
  <1>3. \A k \in 0 .. Size[d] - 1 : Pending(t, k) => In(k)
    BY <1>1 DEF Pending
  <1>4. \A k \in 0 .. Size[d] - 1 :
          buffer'[d][k] = IF In(k) THEN bytes[k - c.offset + 1] ELSE committed[d][k]
    BY <1>2, <1>3
  <1> DEFINE places == 0 .. Size[d] - 1
             new == [k \in places |-> IF In(k) THEN bytes[k - c.offset + 1] ELSE committed[d][k]]
  <1>5. /\ buffer'[d] \in [places -> Value] /\ DOMAIN committed[d] = places
        /\ \A k \in places :
             buffer'[d][k] = IF In(k) THEN bytes[k - c.offset + 1] ELSE committed[d][k]
    BY <1>2, <1>4
  <1> HIDE DEF places, In
  <1>6. buffer'[d] = new
    BY <1>5
  <1>7. Abs[t] = [kind |-> "request", op |-> c.op, dev |-> d,
                  offset |-> c.offset, count |-> c.count]
    BY TaskStates DEF Abs
  <1>8. Atomic!Overwrite(Abs[t], bytes) =
          [committed EXCEPT ![d] = [k \in DOMAIN committed[d] |->
             IF In(k) THEN bytes[k - c.offset + 1] ELSE committed[d][k]]]
    BY <1>7 DEF Atomic!Overwrite, In
  <1>9. [k \in DOMAIN committed[d] |->
           IF In(k) THEN bytes[k - c.offset + 1] ELSE committed[d][k]] = buffer'[d]
    BY <1>5, <1>6
  <1> HIDE DEF new
  <1>10. Atomic!Overwrite(Abs[t], bytes) = [committed EXCEPT ![d] = buffer'[d]]
    BY <1>8, <1>9
  <1> QED
    BY <1>10

\* Place j of a device is byte j - o + 1 of a request at o for n bytes, k of them
\* copied.
LEMMA PlaceOfByte ==
  ASSUME NEW o \in Nat, NEW n \in Nat, NEW k \in Nat, k <= n, NEW j \in Nat
  PROVE  /\ j >= o + k /\ j < o + n =>
              j - o + 1 \in 1 .. n /\ ~(j - o + 1 <= k) /\ j >= o
         /\ j >= o /\ j < o + k =>
              /\ j - o + 1 \in 1 .. n /\ j - o + 1 <= k /\ j - o + 1 \in 1 .. k
              /\ o + (j - o + 1) - 1 = j /\ j < o + n /\ ~(j >= o + k)
         /\ \/ j >= o + k /\ j < o + n
            \/ j >= o /\ j < o + k
            \/ ~(j >= o /\ j < o + n)
         /\ ~(j >= o /\ j < o + n) => ~(j >= o + k /\ j < o + n)
  OBVIOUS

\* A faulted write leaves what it copied, and zeros for the rest.
LEMMA WriteFaultFaults ==
  ASSUME IndInv, HistInv, NEW t \in Task, WriteFault(t), ~Refused(t),
         committed' = [committed EXCEPT ![DevOf(t)] = buffer'[DevOf(t)]]
  PROVE  Atomic!Fault(t)
  <1> PICK d \in Dev : d = DevOf(t)
    BY CopyFacts DEF WriteFault, Copying
  <1> PICK c : c = call[t]
    OBVIOUS
  <1>1. /\ pc[t] = "copy" /\ Action(t) /\ c.op = "write" /\ Len(c.data) < c.count
        /\ HandlerReturn(t, "EFAULT") /\ buffer' = ZeroFill(t) /\ "EFAULT" \in Ret
    BY DEF WriteFault, Copying, Action, Handler, Ret
  <1>2. call'[t].op = c.op /\ call'[t].ret = "EFAULT" /\ pc'[t] = "ret"
    BY <1>1, HandlerReturnCall DEF HandlerReturn, IndInv, TypeOK
  <1>3. /\ Size[d] \in Nat /\ c.count \in Nat /\ c.offset \in Nat
        /\ c.data \in Seq(Value) /\ Len(c.data) \in Nat
        /\ buffer[d] \in [0 .. Size[d] - 1 -> Value]
        /\ Abs[t] = [kind |-> "request", op |-> c.op, dev |-> d,
                     offset |-> c.offset, count |-> c.count]
        /\ Abs' = [Abs EXCEPT ![t] = TaskState(t)']
    BY <1>1, <1>2, ExitFacts
  <1>4. TaskState(t)' = [kind |-> "response", ret |-> "EFAULT", data |-> <<>>]
    BY <1>1, <1>2, ExitFacts
  <1>5. c.offset + c.count <= Size[d]
    BY <1>1, RefusedBeyondEnd
  <1>6. \A i \in 1 .. Len(c.data) : c.data[i] = buffer[d][c.offset + i - 1]
    BY <1>1 DEF IndInv, SectionInv
  <1> DEFINE k == Len(c.data)
             bytes == [i \in 1 .. c.count |-> IF i <= k THEN c.data[i] ELSE Zero]
  <1>7. \A j \in 0 .. Size[d] - 1 :
          buffer'[d][j] = IF j >= c.offset + k /\ j < c.offset + c.count
                          THEN Zero ELSE buffer[d][j]
    BY <1>1, <1>3 DEF ZeroFill, IndInv, TypeOK
  <1>0. \A i \in 1 .. c.count : bytes[i] = IF i <= k THEN c.data[i] ELSE Zero
    OBVIOUS
  <1> HIDE DEF bytes
  <1>8. \A j \in 0 .. Size[d] - 1 :
          buffer'[d][j] = IF j >= c.offset /\ j < c.offset + c.count
                          THEN bytes[j - c.offset + 1] ELSE buffer[d][j]
    <2> SUFFICES ASSUME NEW j \in 0 .. Size[d] - 1
                 PROVE  buffer'[d][j] = IF j >= c.offset /\ j < c.offset + c.count
                                        THEN bytes[j - c.offset + 1] ELSE buffer[d][j]
      OBVIOUS
    <2>1. j \in Nat /\ k \in Nat /\ k <= c.count
      BY <1>1, <1>3
    <2>2. CASE j >= c.offset + k /\ j < c.offset + c.count
      <3>1. j - c.offset + 1 \in 1 .. c.count /\ ~(j - c.offset + 1 <= k) /\ j >= c.offset
        BY <1>3, <2>1, <2>2, PlaceOfByte
      <3> QED
        BY <1>0, <1>7, <2>2, <3>1
    <2>3. CASE j >= c.offset /\ j < c.offset + k
      <3>1. /\ j - c.offset + 1 \in 1 .. c.count /\ j - c.offset + 1 <= k
            /\ j - c.offset + 1 \in 1 .. k /\ c.offset + (j - c.offset + 1) - 1 = j
            /\ j < c.offset + c.count /\ ~(j >= c.offset + k)
        <4> PICK o \in Nat, n \in Nat : o = c.offset /\ n = c.count
          BY <1>3
        <4>1. k \in Nat /\ k <= n /\ j \in Nat /\ j >= o /\ j < o + k
          BY <2>1, <2>3
        <4> HIDE DEF k
        <4>2. /\ j - o + 1 \in 1 .. n /\ j - o + 1 <= k /\ j - o + 1 \in 1 .. k
              /\ o + (j - o + 1) - 1 = j /\ j < o + n /\ ~(j >= o + k)
          BY <4>1, PlaceOfByte
        <4> QED
          BY <4>2
      <3>2. c.data[j - c.offset + 1] = buffer[d][j]
        BY <1>6, <3>1
      <3> QED
        BY <1>0, <1>7, <2>3, <3>1, <3>2
    <2>4. CASE ~(j >= c.offset /\ j < c.offset + c.count)
      <3>1. ~(j >= c.offset + k /\ j < c.offset + c.count)
        BY <1>3, <2>1, <2>4, PlaceOfByte
      <3> QED
        BY <1>7, <2>4, <3>1
    <2> QED
      BY <1>3, <2>1, <2>2, <2>3, <2>4, PlaceOfByte
  <1>9. buffer'[d] \in [0 .. Size[d] - 1 -> Value]
    BY <1>1, ZeroFilled
  <1>10. committed' = Atomic!Overwrite(Abs[t], bytes)
    <2>1. /\ buffer'[DevOf(t)] \in [0 .. Size[DevOf(t)] - 1 -> Value]
          /\ \A j \in 0 .. Size[DevOf(t)] - 1 :
               buffer'[DevOf(t)][j] =
                 IF j >= call[t].offset /\ j < call[t].offset + call[t].count
                 THEN bytes[j - call[t].offset + 1] ELSE buffer[DevOf(t)][j]
      BY <1>8, <1>9
    <2> QED
      BY <1>1, <2>1, WriteOverwrites
  <1>11. k \in 0 .. c.count - 1 /\ c.data \in [1 .. k -> Value]
    BY <1>1, <1>3, SeqIsFunction
  <1>12. /\ Abs[t].kind = "request" /\ Abs[t].op = "write" /\ Abs[t].count = c.count
         /\ Atomic!InRange(Abs[t]) /\ c.count > 0
    BY <1>1, <1>3, <1>5 DEF Atomic!InRange
  <1>13. Atomic!Respond(t, "EFAULT", <<>>)
    BY <1>3, <1>4 DEF Atomic!Respond, Atomic!Response, Abs
  <1>14. \E k0 \in 0 .. Abs[t].count - 1 : \E b \in [1 .. k0 -> Value] :
           committed' = Atomic!Overwrite(Abs[t],
                          [i \in 1 .. Abs[t].count |-> IF i <= k0 THEN b[i] ELSE Zero])
    <2>1. k \in 0 .. Abs[t].count - 1 /\ c.data \in [1 .. k -> Value]
      BY <1>11, <1>12
    <2>2. committed' = Atomic!Overwrite(Abs[t],
                         [i \in 1 .. Abs[t].count |-> IF i <= k THEN c.data[i] ELSE Zero])
      BY <1>10, <1>12 DEF bytes
    <2> QED
      BY <2>1, <2>2
  <1>15. Abs[t].count > 0
    BY <1>12
  <1> QED
    BY <1>12, <1>13, <1>14, <1>15, Zenon DEF Atomic!Fault, Abs

\* A transfer that copied everything is an atomic read or write.
LEMMA CopyDoneTransfers ==
  ASSUME IndInv, HistInv, NEW t \in Task, CopyDone(t),
         committed' = [committed EXCEPT ![DevOf(t)] = buffer'[DevOf(t)]]
  PROVE  Atomic!Read(t) \/ Atomic!Write(t)
  <1> PICK d \in Dev : d = DevOf(t)
    BY CopyFacts DEF CopyDone
  <1> PICK c : c = call[t]
    OBVIOUS
  <1>1. /\ pc[t] = "copy" /\ Action(t) /\ UNCHANGED buffer /\ Len(c.data) = c.count
        /\ pc' = [pc EXCEPT ![t] = "ret"] /\ (c.op = "write" => c.count # 0)
        /\ call' = [call EXCEPT ![t].offset = c.offset + c.count, ![t].ret = "OK"]
    BY DEF CopyDone, Action, Handler
  <1>2. /\ pc'[t] = "ret" /\ call'[t].op = c.op /\ call'[t].ret = "OK"
        /\ call'[t].data = c.data
    BY <1>1 DEF IndInv, TypeOK, Call
  <1>3. /\ Size[d] \in Nat /\ c.count \in Nat /\ c.offset \in Nat
        /\ c.op \in {"read", "write"} /\ c.data \in Seq(Value)
        /\ buffer[d] \in [0 .. Size[d] - 1 -> Value]
        /\ Abs[t] = [kind |-> "request", op |-> c.op, dev |-> d,
                     offset |-> c.offset, count |-> c.count]
        /\ Abs' = [Abs EXCEPT ![t] = TaskState(t)']
    BY <1>1, <1>2, ExitFacts
  <1>4. TaskState(t)' = [kind |-> "response", ret |-> "OK", data |-> c.data]
    BY <1>1, <1>2, ExitFacts
  <1>5. c.offset + c.count <= Size[d]
    <2>1. Refused(t) => c.data = <<>> /\ c.count > IntMax
      BY <1>1, RefusedBeyondEnd DEF Refused
    <2>2. ~Refused(t)
      BY <1>1, <1>3, <2>1, ConstantsAssumption
    <2> QED
      BY <1>1, <2>2, RefusedBeyondEnd
  <1>6. \A i \in 1 .. c.count : c.data[i] = buffer[d][c.offset + i - 1]
    BY <1>1 DEF IndInv, SectionInv
  <1>7. c.data \in [1 .. c.count -> Value] /\ c.data = [i \in 1 .. c.count |-> c.data[i]]
    BY <1>1, <1>3, SeqIsFunction
  <1>8. /\ Abs[t].kind = "request" /\ Abs[t].op = c.op /\ Abs[t].dev = d
        /\ Abs[t].offset = c.offset /\ Abs[t].count = c.count
        /\ Atomic!InRange(Abs[t])
    BY <1>3, <1>5 DEF Atomic!InRange
  <1>9. Atomic!Respond(t, "OK", c.data)
    BY <1>3, <1>4 DEF Atomic!Respond, Atomic!Response, Abs
  <1>10. CASE c.op = "read"
    <2>1. committed' = committed
      BY <1>1, <1>10, Unwritten
    <2>2. committed[d] = buffer[d]
      <3>1. committed'[d] = buffer[d] /\ committed'[d] = committed[d]
        BY <1>1, <2>1 DEF HistInv
      <3> QED
        BY <3>1
    <2>3. c.data = [i \in 1 .. c.count |-> committed[d][c.offset + i - 1]]
      <3>1. \A i \in 1 .. c.count : c.data[i] = committed[d][c.offset + i - 1]
        BY <1>6, <2>2
      <3>2. [i \in 1 .. c.count |-> c.data[i]]
              = [i \in 1 .. c.count |-> committed[d][c.offset + i - 1]]
        BY <3>1, Zenon
      <3> QED
        BY <1>7, <3>2
    <2>4. Atomic!Slice(Abs[t]) = c.data
      BY <1>8, <2>3 DEF Atomic!Slice
    <2> QED
      BY <1>8, <1>9, <1>10, <2>1, <2>4 DEF Atomic!Read, Abs
  <1>11. CASE c.op = "write"
    <2>1. \A j \in 0 .. Size[d] - 1 :
            j >= c.offset /\ j < c.offset + c.count => c.data[j - c.offset + 1] = buffer[d][j]
      <3> SUFFICES ASSUME NEW j \in 0 .. Size[d] - 1,
                          j >= c.offset /\ j < c.offset + c.count
                   PROVE  c.data[j - c.offset + 1] = buffer[d][j]
        OBVIOUS
      <3>1. j - c.offset + 1 \in 1 .. c.count /\ c.offset + (j - c.offset + 1) - 1 = j
        <4> PICK o \in Nat, n \in Nat : o = c.offset /\ n = c.count
          BY <1>3
        <4>1. j \in Int /\ j >= o /\ j < o + n
          BY <1>3
        <4>2. j - o + 1 \in 1 .. n /\ o + (j - o + 1) - 1 = j
          BY <4>1
        <4> QED
          BY <4>2
      <3> QED
        BY <1>6, <3>1
    <2>2. /\ buffer'[DevOf(t)] \in [0 .. Size[DevOf(t)] - 1 -> Value]
          /\ \A j \in 0 .. Size[DevOf(t)] - 1 :
               buffer'[DevOf(t)][j] =
                 IF j >= call[t].offset /\ j < call[t].offset + call[t].count
                 THEN c.data[j - call[t].offset + 1] ELSE buffer[DevOf(t)][j]
      BY <1>1, <1>3, <2>1
    <2>3. committed' = Atomic!Overwrite(Abs[t], c.data)
      BY <1>1, <2>2, WriteOverwrites
    <2>4. Abs[t].count > 0 /\ c.data \in [1 .. Abs[t].count -> Value]
      BY <1>1, <1>3, <1>7, <1>8, <1>11
    <2> QED
      BY <1>8, <1>9, <1>11, <2>3, <2>4, Zenon DEF Atomic!Write, Abs
  <1> QED
    BY <1>3, <1>10, <1>11

\* Every step of a task is a step of the atomic devices, or none.
LEMMA StepRefines ==
  ASSUME IndInv, HistInv, NEW t \in Task, Action(t), CommittedStep, IndInv'
  PROVE  Atomic!Next \/ UNCHANGED Atomic!vars
  <1>1. /\ ~Exits(t) => committed' = committed
        /\ Exits(t) => committed' = [committed EXCEPT ![DevOf(t)] = buffer'[DevOf(t)]]
    BY CommittedMoves
  <1>2. ASSUME TaskState(t)' = TaskState(t), ~Exits(t)
        PROVE  UNCHANGED Atomic!vars
    <2>1. Abs' = [Abs EXCEPT ![t] = Abs[t]]
      BY <1>2, AbsMoves
    <2>2. Abs' = Abs
      BY <2>1 DEF Abs
    <2> QED
      BY <1>1, <1>2, <2>2, AbsVars DEF Abs, Atomic!vars
  <1>3. ASSUME NEW f \in File,
               \/ \E d \in Dev, mode \in OpenMode : pcd_open(t, f, d, mode)
               \/ pcd_release(t, f)
               \/ \E arg \in SeekArg : SeekSet(t, f, arg)
               \/ \E whence \in {"SEEK_CUR", "SEEK_END"}, arg \in SeekArg :
                    SeekCheck(t, f, whence, arg)
        PROVE  UNCHANGED Atomic!vars
    BY <1>2, <1>3, HiddenStep
  <1>4. ASSUME NEW f \in File, NEW op \in {"read", "write"}, NEW n \in Count,
               BeginTransfer(t, f, op, n)
        PROVE  Atomic!Next
    <2>1. ~Exits(t)
      BY <1>4 DEF BeginTransfer, Exits
    <2>2. Atomic!Invoke(t)
      BY <1>1, <1>4, <2>1, BeginInvokes
    <2> QED
      BY <2>2 DEF Atomic!Next
  <1>5. CASE Syscall(t)
    BY <1>3, <1>4, <1>5 DEF Syscall
  <1>6. CASE SeekStore(t) \/ LockAndClamp(t) \/ CopyByte(t)
    <2>1. PICK f \in File : TRUE
      <3>1. pc[t] # "idle"
        BY <1>6 DEF SeekStore, LockAndClamp, CopyByte, Copying
      <3> QED
        BY <3>1 DEF IndInv, CallInv
    <2> QED
      BY <1>2, <1>6, HiddenStep
  <1>7. CASE SysReturn(t)
    <2>1. ~Exits(t)
      BY <1>7 DEF SysReturn, Exits
    <2> QED
      BY <1>1, <1>7, <2>1, SysReturnReturns DEF Atomic!Next
  <1>8. CASE EmptyWrite(t) \/ ReadFault(t) \/ WriteFault(t) \/ CopyDone(t)
    <2>1. committed' = [committed EXCEPT ![DevOf(t)] = buffer'[DevOf(t)]]
      <3>1. Exits(t)
        <4>1. pc[t] = "copy" /\ pc'[t] = "ret"
          BY <1>8 DEF EmptyWrite, ReadFault, WriteFault, CopyDone, Copying, HandlerReturn,
                      IndInv, TypeOK
        <4> QED
          BY <4>1, ActionKinds DEF Apart, Enters, Copies, Exits
      <3> QED
        BY <1>1, <3>1
    <2>2. CASE EmptyWrite(t) \/ ReadFault(t) \/ (WriteFault(t) /\ Refused(t))
      BY <2>1, <2>2, FruitlessExit DEF Atomic!Next
    <2>3. CASE WriteFault(t) /\ ~Refused(t)
      BY <2>1, <2>3, WriteFaultFaults DEF Atomic!Next
    <2>4. CASE CopyDone(t)
      BY <2>1, <2>4, CopyDoneTransfers DEF Atomic!Next
    <2> QED
      BY <1>8, <2>2, <2>3, <2>4
  <1> QED
    BY <1>5, <1>6, <1>7, <1>8 DEF Action, Handler

\* The history variable says what it should, in every state.
THEOREM HistoryHolds == HSpec => [](IndInv /\ HistInv)
  <1>1. HInit => IndInv /\ HistInv
    BY InitIndInv, InitHistInv DEF HInit
  <1>2. IndInv /\ HistInv /\ [HNext]_hvars => (IndInv /\ HistInv)'
    <2> SUFFICES ASSUME IndInv, HistInv, [HNext]_hvars
                 PROVE  IndInv' /\ HistInv'
      OBVIOUS
    <2>1. CASE UNCHANGED hvars
      <3>1. UNCHANGED vars /\ committed' = committed
        BY <2>1 DEF hvars
      <3>2. IndInv'
        BY <3>1, StutterIndInv
      <3>3. HistInv'
        BY <3>1 DEF vars, HistInv, Busy, InSection, DevOf, CommittedFor, Pending
      <3> QED
        BY <3>2, <3>3
    <2>2. CASE HNext
      <3>1. IndInv'
        BY <2>2, NextIndInv DEF HNext
      <3>2. PICK t \in Task : Action(t)
        BY <2>2 DEF HNext, Next, Action
      <3>3. CommittedStep
        BY <2>2 DEF HNext, CommittedStep
      <3> QED
        BY <3>1, <3>2, <3>3, CommittedMoves
    <2> QED
      BY <2>1, <2>2
  <1> QED
    BY <1>1, <1>2, PTL DEF HSpec

\* The mutex makes the byte-wise copies of pcd_read and pcd_write atomic: every
\* read and write takes effect at one instant between its call and its return, for
\* any number of tasks, files and devices.
THEOREM MutexIsAtomic == HSpec => AtomicSpec
  <1>1. HInit => Atomic!Init
    <2> SUFFICES ASSUME HInit PROVE Atomic!Init
      OBVIOUS
    <2>1. committed = [d \in Dev |-> [i \in 0 .. Size[d] - 1 |-> Zero]]
      BY DEF HInit, Init
    <2>2. \A t \in Task : TaskState(t) = [kind |-> "idle"]
      <3>1. \A t \in Task : pc[t] = "idle"
        BY DEF HInit, Init
      <3> QED
        BY <3>1, TaskStates
    <2> QED
      BY <2>1, <2>2 DEF Atomic!Init, Atomic!Idle
  <1>2. IndInv /\ IndInv' /\ HistInv /\ [HNext]_hvars => [Atomic!Next]_(Atomic!vars)
    <2> SUFFICES ASSUME IndInv, IndInv', HistInv, [HNext]_hvars
                 PROVE  Atomic!Next \/ UNCHANGED Atomic!vars
      OBVIOUS
    <2>1. CASE UNCHANGED hvars
      BY <2>1 DEF hvars, vars, Atomic!vars, TaskState, DevOf
    <2>2. CASE HNext
      <3>1. PICK t \in Task : Action(t)
        BY <2>2 DEF HNext, Next, Action
      <3>2. CommittedStep
        BY <2>2 DEF HNext, CommittedStep
      <3> QED
        BY <3>1, <3>2, StepRefines
    <2> QED
      BY <2>1, <2>2
  <1> QED
    BY <1>1, <1>2, HistoryHolds, PTL DEF HSpec, AtomicSpec, Atomic!Spec
=============================================================================
