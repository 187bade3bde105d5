------------------------ MODULE UnlockedCharDevices ------------------------
(***************************************************************************)
(* The file operations of src/ldd/003_char_drivers_multiple_devices: those *)
(* of MutexCharDevices before the mutex was added.  pcd_read and pcd_write *)
(* go from the system call straight to the copy; a mutex that is never     *)
(* taken stays free, so that the unlocks in the inherited actions change   *)
(* nothing.                                                                *)
(*                                                                         *)
(* The driver of src/ldd/002_char_drivers is the case of one device with   *)
(* permission "RDWW".                                                      *)
(***************************************************************************)
EXTENDS MutexCharDevices

VARIABLE disturbed  \* history: disturbed[t]: places of the device that
                    \* another call changed after t copied them

uvars == <<vars, disturbed>>

\* max_size and count are computed with no lock held.
BeginCopy(t) ==
  /\ pc[t] = "lock"
  /\ pc' = [pc EXCEPT ![t] = "copy"]
  /\ call' = [call EXCEPT ![t].count =
                Clamp(call[t].offset, call[t].count, Size[DevOf(t)])]
  /\ UNCHANGED <<buffer, pcd_mutex_lock, private_data, f_mode, f_pos>>

pcd_read(t) ==
  /\ call[t].op = "read"
  /\ BeginCopy(t) \/ CopyByte(t) \/ ReadFault(t) \/ CopyDone(t)

pcd_write(t) ==
  /\ call[t].op = "write"
  /\ \/ BeginCopy(t) \/ EmptyWrite(t)
     \/ CopyByte(t) \/ WriteFault(t) \/ CopyDone(t)

\* The three cases of the switch: one atomic, two in two steps.
pcd_llseek(t) ==
  \/ \E f \in File, arg \in SeekArg :
       \/ SeekSet(t, f, arg)
       \/ \E whence \in {"SEEK_CUR", "SEEK_END"} : SeekCheck(t, f, whence, arg)
  \/ SeekStore(t)

\* The kernel's side of open, close and a transfer.
OpenClose(t) ==
  \E f \in File :
    \/ \E d \in Dev, mode \in OpenMode : pcd_open(t, f, d, mode)
    \/ pcd_release(t, f)

Transfer(t) ==
  \E f \in File, op \in {"read", "write"}, n \in Count : BeginTransfer(t, f, op, n)

Step(t) ==
  \/ OpenClose(t) \/ Transfer(t) \/ SysReturn(t)
  \/ pcd_read(t) \/ pcd_write(t) \/ pcd_llseek(t)

\* The places of t's device that this step changes.
Changed(t) ==
  {j \in DOMAIN buffer[DevOf(t)] : buffer'[DevOf(t)][j] # buffer[DevOf(t)][j]}

\* The places that u has copied so far.
Copied(u) == {call[u].offset + k - 1 : k \in 1 .. Len(call[u].data)}

\* What a step of t adds to the history.
Disturb(t) ==
  disturbed' = [u \in Task |->
    IF pc'[u] # "copy" THEN {}
    ELSE IF u = t THEN disturbed[u]
    ELSE disturbed[u] \cup (Changed(u) \cap Copied(u))]

UInit == Init /\ disturbed = [t \in Task |-> {}]

UNext == \E t \in Task : Step(t) /\ Disturb(t)

USpec == UInit /\ [][UNext]_uvars

-----------------------------------------------------------------------------
(* Properties; TransferInBounds of MutexCharDevices holds here as well. *)

\* A transfer is torn only where another call wrote after the place was copied:
\* at every other place the user's bytes and the device's agree.
TornOnlyWhereDisturbed ==
  \A t \in Task : pc[t] = "copy" =>
    \A k \in 1 .. Len(call[t].data) :
      LET at == call[t].offset + k - 1 IN
      call[t].data[k] = buffer[DevOf(t)][at] \/ at \in disturbed[t]
=============================================================================
