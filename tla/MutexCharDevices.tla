-------------------------- MODULE MutexCharDevices --------------------------
(***************************************************************************)
(* The file operations of src/ldd/spinlock/char_driver_multiple_devices.c: *)
(* four pseudo character devices, each with a buffer, a permission and a   *)
(* mutex that pcd_read and pcd_write hold while they copy.                 *)
(*                                                                         *)
(* Tasks issue system calls on struct files.  A file may be shared by      *)
(* several tasks (threads, fork), so every handler runs interleaved with   *)
(* every other one, byte by byte.  The parts of the kernel that call the   *)
(* driver are modelled as the driver sees them: read(2) and write(2) hand  *)
(* it a private copy of f_pos and store it back only when the handler      *)
(* succeeded, and no lock of the VFS serialises calls on a character       *)
(* device.                                                                 *)
(***************************************************************************)
EXTENDS Integers, Sequences

CONSTANTS
  Task,      \* tasks that issue system calls
  File,      \* struct file objects
  Dev,       \* minors of the driver (NO_OF_DEVICES of them)
  Size,      \* Size[d]: the .size field of device d
  Perm,      \* Perm[d]: the .perm field, "RDONLY", "WRONLY" or "RDWW"
  OpenMode,  \* the f_mode values open(2) produces, each a set of flags
  Value,     \* values of a byte
  Zero,      \* the byte a static buffer starts with
  Count,     \* byte counts passed to read(2) and write(2)
  SeekArg,   \* offsets passed to lseek(2)
  MaxPos,    \* largest f_pos explored (LOFF_MAX in the kernel)
  IntMax,    \* INT_MAX: a copy of more bytes is refused by uaccess
  CountMod,  \* 2^w for the w bits of size_t
  NoTask, NoFile, NoDev

ASSUME ConstantsAssumption ==
  /\ Size \in [Dev -> Nat \ {0}]
  /\ Perm \in [Dev -> {"RDONLY", "WRONLY", "RDWW"}]
  /\ OpenMode \subseteq SUBSET {"FMODE_READ", "FMODE_WRITE", "FMODE_LSEEK"}
  /\ \A m \in OpenMode : "FMODE_LSEEK" \in m
  /\ Zero \in Value
  /\ Count \subseteq Nat /\ SeekArg \subseteq Int
  /\ MaxPos \in Nat /\ IntMax \in Nat /\ CountMod \in Nat
  /\ NoTask \notin Task /\ NoFile \notin File /\ NoDev \notin Dev

\* Widths: a device is smaller than INT_MAX, a loff_t plus a count fits in
\* size_t, and a negative remainder read as size_t exceeds INT_MAX.
ASSUME WidthAssumption ==
  /\ \A d \in Dev : Size[d] <= IntMax /\ Size[d] <= MaxPos
  /\ \A n \in Count : MaxPos + n < CountMod
  /\ MaxPos + IntMax < CountMod

VARIABLES
  buffer,          \* buffer[d]: device_buffer_device1 .. 4
  pcd_mutex_lock,  \* pcd_mutex_lock[d]: the task that owns it, or NoTask
  private_data,    \* private_data[f]: device of an open file, or NoDev
  f_mode,          \* f_mode[f]
  f_pos,           \* f_pos[f]
  pc,              \* pc[t]: where t is in its system call
  call             \* call[t]: arguments, locals and result of the call

vars == <<buffer, pcd_mutex_lock, private_data, f_mode, f_pos, pc, call>>

Op == {"none", "open", "read", "write", "SEEK_SET", "SEEK_CUR", "SEEK_END"}
\* -EINTR is returned by InterruptibleCharDevice alone.
Ret == {"none", "OK", "EPERM", "EFAULT", "ENOMEM", "EINVAL", "EINTR"}

\* offset: the handler's *offset (for a seek: f_pos as it was loaded);
\* temp: the local of pcd_llseek; data: the bytes copied so far.
Call == [op : Op, file : File \cup {NoFile}, offset : Nat, count : Nat,
         temp : Int, data : Seq(Value), ret : Ret]

NoCall == [op |-> "none", file |-> NoFile, offset |-> 0, count |-> 0,
           temp |-> 0, data |-> <<>>, ret |-> "none"]

TypeOK ==
  /\ \A d \in Dev : buffer[d] \in [0 .. Size[d] - 1 -> Value]
  /\ DOMAIN buffer = Dev
  /\ pcd_mutex_lock \in [Dev -> Task \cup {NoTask}]
  /\ private_data \in [File -> Dev \cup {NoDev}]
  /\ f_mode \in [File -> OpenMode \cup {{}}]
  /\ f_pos \in [File -> 0 .. MaxPos]
  /\ pc \in [Task -> {"idle", "lock", "copy", "seek", "ret"}]
  /\ call \in [Task -> Call]

Init ==
  /\ buffer = [d \in Dev |-> [i \in 0 .. Size[d] - 1 |-> Zero]]
  /\ pcd_mutex_lock = [d \in Dev |-> NoTask]
  /\ private_data = [f \in File |-> NoDev]
  /\ f_mode = [f \in File |-> {}]
  /\ f_pos = [f \in File |-> 0]
  /\ pc = [t \in Task |-> "idle"]
  /\ call = [t \in Task |-> NoCall]

-----------------------------------------------------------------------------
(* Helpers. *)

\* The device a call works on: pcd_file->private_data.
DevOf(t) == private_data[call[t].file]

\* A file a task may pass to a system call: its open(2) has returned.
Usable(f) ==
  /\ private_data[f] # NoDev
  /\ \A u \in Task : call[u].op = "open" => call[u].file # f

InCall(f) == \E u \in Task : call[u].file = f

\* Start of a system call.
Enter(t, where, c) ==
  /\ pc' = [pc EXCEPT ![t] = where]
  /\ call' = [call EXCEPT ![t] = c]

\* The handler of t returns r.
HandlerReturn(t, r) ==
  /\ pc' = [pc EXCEPT ![t] = "ret"]
  /\ call' = [call EXCEPT ![t].ret = r]

MutexUnlock(t) ==
  pcd_mutex_lock' = [pcd_mutex_lock EXCEPT ![DevOf(t)] = NoTask]

\* A planted bug: only writers take the mutex.
MutexLockWritersOnly(t) ==
  IF call[t].op = "read"
  THEN UNCHANGED pcd_mutex_lock
  ELSE /\ pcd_mutex_lock[DevOf(t)] = NoTask
       /\ pcd_mutex_lock' = [pcd_mutex_lock EXCEPT ![DevOf(t)] = t]

\* A planted bug: the lock is taken whoever holds it.
MutexLockNoWait(t) ==
  pcd_mutex_lock' = [pcd_mutex_lock EXCEPT ![DevOf(t)] = t]

\* mutex_lock: waits, uninterruptibly, until the mutex is free.  It is not
\* recursive: a task that still owns the mutex waits as well.
MutexLock(t) ==
  /\ pcd_mutex_lock[DevOf(t)] = NoTask
  /\ pcd_mutex_lock' = [pcd_mutex_lock EXCEPT ![DevOf(t)] = t]

\* A value of type loff_t read as size_t.
ToSizeT(x) == IF x >= 0 THEN x ELSE x + CountMod

\* A planted bug: the limit is off by one.
ClampOffByOne(offset, count, max_size) ==
  IF offset + count > max_size + 1 THEN ToSizeT(max_size - offset) ELSE count

\* if ((*offset + count) > max_size) count = max_size - *offset;
Clamp(offset, count, max_size) ==
  IF offset + count > max_size THEN ToSizeT(max_size - offset) ELSE count

\* C's && of two flag words: whether both are non-zero.
LogicalAnd(a, b) == a # {} /\ b # {}

\* A planted bug: the flag that must be absent is not looked at.
CheckPermissionPresentOnly(dev_perm, mode) ==
  IF \/ dev_perm = "RDWW"
     \/ dev_perm = "RDONLY" /\ LogicalAnd(mode, {"FMODE_READ"})
     \/ dev_perm = "WRONLY" /\ LogicalAnd(mode, {"FMODE_WRITE"})
  THEN "OK" ELSE "EPERM"

check_permission(dev_perm, mode) ==
  IF \/ dev_perm = "RDWW"
     \/ /\ dev_perm = "RDONLY"
        /\ LogicalAnd(mode, {"FMODE_READ"})
        /\ ~LogicalAnd(mode, {"FMODE_WRITE"})
     \/ /\ dev_perm = "WRONLY"
        /\ LogicalAnd(mode, {"FMODE_WRITE"})
        /\ ~LogicalAnd(mode, {"FMODE_READ"})
  THEN "OK" ELSE "EPERM"

-----------------------------------------------------------------------------
(* open(2) and close(2). *)

pcd_open(t, f, d, mode) ==
  /\ pc[t] = "idle"
  /\ private_data[f] = NoDev
  /\ private_data' = [private_data EXCEPT ![f] = d]
  /\ f_mode' = [f_mode EXCEPT ![f] = mode]
  /\ Enter(t, "ret", [NoCall EXCEPT !.op = "open", !.file = f,
                                    !.ret = check_permission(Perm[d], mode)])
  /\ UNCHANGED <<buffer, pcd_mutex_lock, f_pos>>

\* The last reference to f is dropped; a call in flight holds one.
pcd_release(t, f) ==
  /\ pc[t] = "idle"
  /\ Usable(f) /\ ~InCall(f)
  /\ private_data' = [private_data EXCEPT ![f] = NoDev]
  /\ f_mode' = [f_mode EXCEPT ![f] = {}]
  /\ f_pos' = [f_pos EXCEPT ![f] = 0]
  /\ UNCHANGED <<buffer, pcd_mutex_lock, pc, call>>

-----------------------------------------------------------------------------
(* pcd_read and pcd_write. *)

\* The VFS checks f_mode and passes a copy of f_pos.
BeginTransfer(t, f, op, n) ==
  /\ pc[t] = "idle"
  /\ Usable(f)
  /\ (IF op = "read" THEN "FMODE_READ" ELSE "FMODE_WRITE") \in f_mode[f]
  /\ Enter(t, "lock", [NoCall EXCEPT !.op = op, !.file = f,
                                     !.offset = f_pos[f], !.count = n])
  /\ UNCHANGED <<buffer, pcd_mutex_lock, private_data, f_mode, f_pos>>

LockAndClamp(t) ==
  /\ pc[t] = "lock"
  /\ MutexLock(t)
  /\ pc' = [pc EXCEPT ![t] = "copy"]
  /\ call' = [call EXCEPT ![t].count =
                Clamp(call[t].offset, call[t].count, Size[DevOf(t)])]
  /\ UNCHANGED <<buffer, private_data, f_mode, f_pos>>

\* A planted bug: the mutex stays locked on the -ENOMEM path.
EmptyWriteNoUnlock(t) ==
  /\ pc[t] = "copy" /\ call[t].op = "write" /\ call[t].count = 0
  /\ HandlerReturn(t, "ENOMEM")
  /\ UNCHANGED <<buffer, pcd_mutex_lock, private_data, f_mode, f_pos>>

\* if (count == 0) "No space left on the device".
EmptyWrite(t) ==
  /\ pc[t] = "copy" /\ call[t].op = "write" /\ call[t].count = 0
  /\ MutexUnlock(t)
  /\ HandlerReturn(t, "ENOMEM")
  /\ UNCHANGED <<buffer, private_data, f_mode, f_pos>>

Copying(t) ==
  /\ pc[t] = "copy"
  /\ Len(call[t].data) < call[t].count

\* copy_to_user and copy_from_user refuse a count above INT_MAX untouched.
Refused(t) == call[t].count > IntMax

\* A planted bug: the place is found from f_pos and not from *offset.
CopyByteAtFilePos(t) ==
  LET at == f_pos[call[t].file] + Len(call[t].data)
      d  == DevOf(t)
  IN /\ Copying(t) /\ ~Refused(t) /\ at < Size[d]
     /\ \E v \in Value :
          /\ IF call[t].op = "read"
             THEN v = buffer[d][at] /\ UNCHANGED buffer
             ELSE buffer' = [buffer EXCEPT ![d][at] = v]
          /\ call' = [call EXCEPT ![t].data = Append(call[t].data, v)]
     /\ UNCHANGED <<pcd_mutex_lock, private_data, f_mode, f_pos, pc>>

\* One more byte of copy_to_user or copy_from_user; the byte a user writes
\* is arbitrary.
CopyByte(t) ==
  LET at == call[t].offset + Len(call[t].data)
      d  == DevOf(t)
  IN /\ Copying(t) /\ ~Refused(t)
     /\ \E v \in Value :
          /\ IF call[t].op = "read"
             THEN v = buffer[d][at] /\ UNCHANGED buffer
             ELSE buffer' = [buffer EXCEPT ![d][at] = v]
          /\ call' = [call EXCEPT ![t].data = Append(call[t].data, v)]
     /\ UNCHANGED <<pcd_mutex_lock, private_data, f_mode, f_pos, pc>>

\* copy_to_user meets a bad user page.
ReadFault(t) ==
  /\ Copying(t) /\ call[t].op = "read"
  /\ MutexUnlock(t)
  /\ HandlerReturn(t, "EFAULT")
  /\ UNCHANGED <<buffer, private_data, f_mode, f_pos>>

\* copy_from_user zero-fills what it could not copy; nothing when refused.
ZeroFill(t) ==
  LET c == call[t] IN
  [buffer EXCEPT ![DevOf(t)] = [i \in DOMAIN @ |->
     IF ~Refused(t) /\ i >= c.offset + Len(c.data) /\ i < c.offset + c.count
     THEN Zero ELSE @[i]]]

\* copy_from_user fails: -EFAULT is returned with the mutex still locked.
WriteFault(t) ==
  /\ Copying(t) /\ call[t].op = "write"
  /\ buffer' = ZeroFill(t)
  /\ HandlerReturn(t, "EFAULT")
  /\ UNCHANGED <<pcd_mutex_lock, private_data, f_mode, f_pos>>

\* The whole count was copied (a read of 0 bytes copies nothing).
CopyDone(t) ==
  /\ pc[t] = "copy"
  /\ Len(call[t].data) = call[t].count
  /\ call[t].op = "write" => call[t].count # 0
  /\ MutexUnlock(t)
  /\ pc' = [pc EXCEPT ![t] = "ret"]
  /\ call' = [call EXCEPT ![t].offset = call[t].offset + call[t].count,
                          ![t].ret = "OK"]
  /\ UNCHANGED <<buffer, private_data, f_mode, f_pos>>

-----------------------------------------------------------------------------
(* pcd_llseek: takes no lock and loads f_pos more than once. *)

\* A planted bug: the upper bound of a seek is not checked.
SeekRefusedNegativeOnly(pos, max_size) == pos < 0

SeekRefused(pos, max_size) == pos > max_size \/ pos < 0

SeekSet(t, f, arg) ==
  LET ok == ~SeekRefused(arg, Size[private_data[f]]) IN
  /\ pc[t] = "idle"
  /\ Usable(f)
  /\ f_pos' = IF ok THEN [f_pos EXCEPT ![f] = arg] ELSE f_pos
  /\ Enter(t, "ret", [NoCall EXCEPT !.op = "SEEK_SET", !.file = f,
                                    !.ret = IF ok THEN "OK" ELSE "EINVAL"])
  /\ UNCHANGED <<buffer, pcd_mutex_lock, private_data, f_mode>>

\* SEEK_CUR and SEEK_END both start with temp = f_pos + offset.  SEEK_CUR is
\* explored only where f_pos + temp stays within MaxPos.
SeekCheck(t, f, whence, arg) ==
  LET temp == f_pos[f] + arg
      ok   == ~SeekRefused(temp, Size[private_data[f]])
  IN /\ pc[t] = "idle"
     /\ Usable(f)
     /\ whence = "SEEK_CUR" => f_pos[f] + temp <= MaxPos
     /\ Enter(t, IF ok THEN "seek" ELSE "ret",
              [NoCall EXCEPT !.op = whence, !.file = f,
                             !.offset = f_pos[f], !.temp = temp,
                             !.ret = IF ok THEN "none" ELSE "EINVAL"])
     /\ UNCHANGED <<buffer, pcd_mutex_lock, private_data, f_mode, f_pos>>

\* SEEK_END stores temp.  SEEK_CUR does f_pos += temp, a data race when the
\* file is shared: the build may use the value loaded before the check or
\* load f_pos again.
SeekStore(t) ==
  LET c == call[t] IN
  /\ pc[t] = "seek"
  /\ \E new \in IF c.op = "SEEK_END"
                THEN {c.temp}
                ELSE {c.offset + c.temp, f_pos[c.file] + c.temp} :
       /\ new <= MaxPos
       /\ f_pos' = [f_pos EXCEPT ![c.file] = new]
  /\ HandlerReturn(t, "OK")
  /\ UNCHANGED <<buffer, pcd_mutex_lock, private_data, f_mode>>

-----------------------------------------------------------------------------
(* Return from the system call. *)

\* A successful transfer stores its copy of the position back; a file whose
\* open failed is thrown away.
SysReturn(t) ==
  LET c == call[t] IN
  /\ pc[t] = "ret"
  /\ f_pos' = IF c.op \in {"read", "write"} /\ c.ret = "OK"
              THEN [f_pos EXCEPT ![c.file] = c.offset] ELSE f_pos
  /\ IF c.op = "open" /\ c.ret # "OK"
     THEN /\ private_data' = [private_data EXCEPT ![c.file] = NoDev]
          /\ f_mode' = [f_mode EXCEPT ![c.file] = {}]
     ELSE UNCHANGED <<private_data, f_mode>>
  /\ Enter(t, "idle", NoCall)
  /\ UNCHANGED <<buffer, pcd_mutex_lock>>

-----------------------------------------------------------------------------

\* What the kernel does by itself once a call has the mutex or needs none.
Handler(t) ==
  \/ EmptyWrite(t)
  \/ CopyByte(t)
  \/ ReadFault(t)
  \/ WriteFault(t)
  \/ CopyDone(t)
  \/ SeekStore(t)
  \/ SysReturn(t)

\* What user space asks for.
Syscall(t) ==
  \E f \in File :
    \/ \E d \in Dev, mode \in OpenMode : pcd_open(t, f, d, mode)
    \/ pcd_release(t, f)
    \/ \E op \in {"read", "write"}, n \in Count : BeginTransfer(t, f, op, n)
    \/ \E arg \in SeekArg : SeekSet(t, f, arg)
    \/ \E whence \in {"SEEK_CUR", "SEEK_END"}, arg \in SeekArg :
         SeekCheck(t, f, whence, arg)

Next == \E t \in Task : Syscall(t) \/ LockAndClamp(t) \/ Handler(t)

Spec == Init /\ [][Next]_vars

\* A running handler is scheduled.  Waiters of a kernel mutex are queued and
\* the lock is handed off to the first one, so none is passed over for ever.
Fairness ==
  \A t \in Task : WF_vars(Handler(t)) /\ SF_vars(LockAndClamp(t))

FairSpec == Spec /\ Fairness

-----------------------------------------------------------------------------
(* Properties. *)

InSection(t, d) == pc[t] = "copy" /\ DevOf(t) = d

\* Two calls never copy to or from the same device at once, even when one
\* task has walked away from a faulted write with the mutex locked.
MutualExclusion ==
  \A d \in Dev : \A t, u \in Task :
    InSection(t, d) /\ InSection(u, d) => t = u

\* While a call copies, the user's bytes and the device's agree at every
\* place already copied: a read is a snapshot and a write is not overwritten
\* before the mutex is released.
CopyAgrees ==
  \A t \in Task : pc[t] = "copy" =>
    \A i \in 1 .. Len(call[t].data) :
      call[t].data[i] = buffer[DevOf(t)][call[t].offset + i - 1]

\* No copy runs outside the device's buffer, although SEEK_CUR can put f_pos
\* beyond its end: the count then wraps and the copy is refused.
TransferInBounds ==
  \A t \in Task : pc[t] = "copy" /\ ~Refused(t) =>
    call[t].offset + call[t].count <= Size[DevOf(t)]

\* The strengthening of the three invariants above that every step keeps.
\* What the program counter of one task says of the locals of its call:
CallInv(t) ==
  LET c == call[t] IN
  /\ pc[t] = "idle" => c = NoCall
  /\ pc[t] # "idle" => c.file \in File /\ private_data[c.file] \in Dev
  /\ c.op = "open" => pc[t] = "ret"
  /\ pc[t] \in {"lock", "copy"} => c.op \in {"read", "write"}
  /\ pc[t] \in {"lock", "copy", "seek"} => c.offset <= MaxPos
  /\ pc[t] = "lock" => c.count \in Count /\ c.data = <<>>
  /\ pc[t] = "seek" => /\ c.op \in {"SEEK_CUR", "SEEK_END"}
                       /\ c.temp \in 0 .. Size[DevOf(t)]
  /\ pc[t] = "ret" /\ c.op \in {"read", "write"} /\ c.ret = "OK" =>
       c.offset <= Size[DevOf(t)]

\* A call that copies owns the mutex, stays within the device or is refused,
\* and has moved the bytes it says it has:
SectionInv(t) ==
  LET c == call[t] IN
  pc[t] = "copy" =>
    /\ pcd_mutex_lock[DevOf(t)] = t
    /\ Len(c.data) <= c.count
    /\ \/ Refused(t) /\ c.data = <<>>
       \/ c.offset + c.count <= Size[DevOf(t)]
    /\ \A i \in 1 .. Len(c.data) :
         c.data[i] = buffer[DevOf(t)][c.offset + i - 1]

\* A file whose open is under way is known to nobody but its opener.
OpenerAlone ==
  \A t, u \in Task :
    t # u /\ call[t].op = "open" => call[u].file # call[t].file

\* The inductive invariant: every call is consistent with its program
\* counter, and the mutex has the owner the program counters say.
IndInv ==
  /\ TypeOK
  /\ \A t \in Task : CallInv(t) /\ SectionInv(t)
  /\ OpenerAlone

\* Every path out of pcd_read and pcd_write releases the mutex, but for the
\* failed copy_from_user of a write.
LeakOnlyOnWriteFault ==
  [][\A t \in Task : pc[t] = "copy" /\ pc'[t] = "ret" =>
       /\ pcd_mutex_lock[DevOf(t)] = t
       /\ \/ pcd_mutex_lock'[DevOf(t)] = NoTask
          \/ call'[t].op = "write" /\ call'[t].ret = "EFAULT"]_vars

\* f_pos is moved beyond the end of the device by the store of a SEEK_CUR alone, never
\* by a transfer or by another seek, also while a SEEK_CUR on the same file is between
\* its check and its store; and that store goes at most the size of the device beyond
\* a position that the file had at the check or has now.
OnlySeekCurPassesEnd ==
  [][\A f \in File :
       /\ private_data[f] \in Dev
       /\ f_pos'[f] # f_pos[f]
       /\ f_pos'[f] > Size[private_data[f]]
       => \E t \in Task :
            /\ pc[t] = "seek" /\ pc'[t] = "ret"
            /\ call[t].op = "SEEK_CUR" /\ call[t].file = f
            /\ \E pos \in {call[t].offset, f_pos[f]} :
                 f_pos'[f] <= pos + Size[private_data[f]]]_vars

\* As long as no write faults, every system call returns: a task that waits
\* for a device's mutex gets it.
CallsReturn ==
  []~(\E t \in Task : call[t].op = "write" /\ call[t].ret = "EFAULT")
  => \A t \in Task : (pc[t] # "idle") ~> (pc[t] = "idle")

\* No call transfers data against the permission of its device.
PermissionRespected ==
  \A t \in Task :
    /\ call[t].op = "read" => Perm[DevOf(t)] # "WRONLY"
    /\ call[t].op = "write" => Perm[DevOf(t)] # "RDONLY"

\* The comment on a device's .perm field, "Read only": the device grants an
\* open for reading.
ReadOnlyMeansReadable ==
  \A t \in Task :
    /\ call[t].op = "open"
    /\ Perm[DevOf(t)] = "RDONLY"
    /\ "FMODE_READ" \in f_mode[call[t].file]
    /\ "FMODE_WRITE" \notin f_mode[call[t].file]
    => call[t].ret = "OK"
=============================================================================
