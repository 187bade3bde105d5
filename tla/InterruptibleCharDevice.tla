---------------------- MODULE InterruptibleCharDevice ----------------------
(***************************************************************************)
(* The file operations of src/ldd/spinlock/char_driver.c: one device, no   *)
(* permission, and a mutex taken with mutex_lock_interruptible.  The steps *)
(* that are the same as in MutexCharDevices are inherited; what differs is *)
(* that a signal ends the wait for the mutex, that a failed write releases *)
(* it and that an empty write does not.                                    *)
(***************************************************************************)
EXTENDS MutexCharDevices

\* What this driver has; no step depends on it.
SingleDevice ==
  /\ \A d, e \in Dev : d = e
  /\ \A d \in Dev : Perm[d] = "RDWW"

VARIABLE signal  \* signal[t]: a signal is pending for t

ivars == <<vars, signal>>

-----------------------------------------------------------------------------
(* mutex_lock_interruptible. *)

\* The mutex was free: signals are not looked at.
Locked(t) == LockAndClamp(t)

\* Planted bugs: the lock waits regardless of signals; the error path releases the mutex.
InterruptedNever(t) == FALSE

InterruptedUnlocks(t) ==
  /\ pc[t] = "lock" /\ signal[t] /\ pcd_mutex_lock[DevOf(t)] # NoTask
  /\ MutexUnlock(t)
  /\ HandlerReturn(t, "EINTR")
  /\ UNCHANGED <<buffer, private_data, f_mode, f_pos>>

\* A task that has to wait and has a signal pending gives up: -EINTR.
Interrupted(t) ==
  /\ pc[t] = "lock" /\ signal[t] /\ pcd_mutex_lock[DevOf(t)] # NoTask
  /\ HandlerReturn(t, "EINTR")
  /\ UNCHANGED <<buffer, pcd_mutex_lock, private_data, f_mode, f_pos>>

TakeMutex(t) == Locked(t) \/ Interrupted(t)

-----------------------------------------------------------------------------
(* pcd_read, pcd_write and pcd_llseek. *)

\* if (count == 0) return -ENOMEM, with the mutex locked.
EmptyWriteKeepsMutex(t) ==
  /\ pc[t] = "copy" /\ call[t].op = "write" /\ call[t].count = 0
  /\ HandlerReturn(t, "ENOMEM")
  /\ UNCHANGED <<buffer, pcd_mutex_lock, private_data, f_mode, f_pos>>

\* A planted bug: the mutex stays locked on the -EFAULT path as well.
WriteFaultNoUnlock(t) ==
  /\ Copying(t) /\ call[t].op = "write"
  /\ buffer' = ZeroFill(t)
  /\ HandlerReturn(t, "EFAULT")
  /\ UNCHANGED <<pcd_mutex_lock, private_data, f_mode, f_pos>>

\* copy_from_user fails.
WriteFaultUnlocks(t) ==
  /\ Copying(t) /\ call[t].op = "write"
  /\ buffer' = ZeroFill(t)
  /\ MutexUnlock(t)
  /\ HandlerReturn(t, "EFAULT")
  /\ UNCHANGED <<private_data, f_mode, f_pos>>

pcd_read(t) ==
  /\ call[t].op = "read"
  /\ CopyByte(t) \/ ReadFault(t) \/ CopyDone(t)

pcd_write(t) ==
  /\ call[t].op = "write"
  /\ \/ EmptyWriteKeepsMutex(t)
     \/ CopyByte(t) \/ WriteFaultUnlocks(t) \/ CopyDone(t)

\* DEV_MEM_SIZE takes the place of the size of the device.
pcd_llseek(t) ==
  \E f \in File, arg \in SeekArg :
    \/ SeekSet(t, f, arg)
    \/ \E whence \in {"SEEK_CUR", "SEEK_END"} : SeekCheck(t, f, whence, arg)

-----------------------------------------------------------------------------

\* A signal that is pending when the system call returns is delivered then.
Deliver(t) == SysReturn(t) /\ signal' = [signal EXCEPT ![t] = FALSE]

SendSignal(t) ==
  /\ pc[t] # "idle" /\ ~signal[t]
  /\ signal' = [signal EXCEPT ![t] = TRUE]
  /\ UNCHANGED vars

\* What user space asks for.
IUser(t) ==
  \E f \in File :
    \/ \E d \in Dev, mode \in OpenMode : pcd_open(t, f, d, mode)
    \/ pcd_release(t, f)
    \/ \E op \in {"read", "write"}, n \in Count : BeginTransfer(t, f, op, n)

\* What the kernel does by itself for a call in progress.
IHandler(t) ==
  \/ /\ TakeMutex(t) \/ pcd_read(t) \/ pcd_write(t) \/ SeekStore(t)
     /\ UNCHANGED signal
  \/ Deliver(t)

IInit == Init /\ signal = [t \in Task |-> FALSE]

INext ==
  \E t \in Task :
    \/ IHandler(t)
    \/ (IUser(t) \/ pcd_llseek(t)) /\ UNCHANGED signal
    \/ SendSignal(t)

ISpec == IInit /\ [][INext]_ivars

\* A task that can run is scheduled.  Nothing is assumed of the order in which
\* waiters get the mutex.
IFairSpec == ISpec /\ \A t \in Task : WF_ivars(IHandler(t))

-----------------------------------------------------------------------------
(* Properties; MutualExclusion and CopyAgrees of MutexCharDevices hold here  *)
(* too, for all the calls that give up half-way.                             *)

\* The mutex is owned by a task that is not inside a transfer.
Leaked(d) ==
  \E t \in Task : pcd_mutex_lock[d] = t /\ ~InSection(t, d)

\* Every path out of pcd_read and pcd_write releases the mutex, but for the
\* empty write.
LeakOnlyOnEmptyWrite ==
  [][\A d \in Dev : Leaked(d)' /\ ~Leaked(d) =>
       \E t \in Task : pc[t] = "copy" /\ call'[t].ret = "ENOMEM"]_ivars

\* After one empty write nobody transfers a byte again, and giving up the wait
\* does not release the mutex either: the device is dead until it is unloaded.
LeakIsFinal ==
  [][\A d \in Dev : Leaked(d) => Leaked(d)' /\ buffer'[d] = buffer[d]]_ivars

\* A task that waits for the mutex and gets a signal returns, though the
\* mutex may be locked for ever.
SignalEndsWait ==
  \A t \in Task : (pc[t] = "lock" /\ signal[t]) ~> (pc[t] = "idle")
=============================================================================
