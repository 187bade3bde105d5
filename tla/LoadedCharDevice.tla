------------------------- MODULE LoadedCharDevice -------------------------
(***************************************************************************)
(* The whole driver of src/ldd/002_char_drivers/char_driver.c: its file    *)
(* operations, called while pcd_driver_init and pcd_driver_exit run.       *)
(*                                                                         *)
(* The file operations are those of UnlockedCharDevices for one device     *)
(* that every open may use and that has no mutex; loading is that of       *)
(* SingleDeviceModule.  A file, and a call on it, can be there as soon as  *)
(* the cdev is registered, before init knows that it will succeed.         *)
(*                                                                         *)
(* What a call or a close does after the code under it was freed is        *)
(* undefined: a file in orphan, and the calls on it, take no more steps    *)
(* and their data is forgotten.                                            *)
(***************************************************************************)
EXTENDS Integers, Sequences

CONSTANTS
  Task, File, Value, Zero, Count, SeekArg, MaxPos, IntMax, CountMod,
  DEV_MEM_SIZE, NoTask, NoFile, NoDev

VARIABLES
  buffer,        \* device_buffer
  private_data, f_mode, f_pos, pc, call, disturbed,  \* as in UnlockedCharDevices
  module, load, held, open, orphan  \* as in SingleDeviceModule; load: its pc

Device == {"pcd"}

\* As in MutexCharDevices, for the one device there is.
ASSUME LoadedAssumption ==
  /\ DEV_MEM_SIZE \in Nat \ {0} /\ DEV_MEM_SIZE <= IntMax /\ DEV_MEM_SIZE <= MaxPos
  /\ Zero \in Value /\ Count \subseteq Nat /\ SeekArg \subseteq Int
  /\ MaxPos \in Nat /\ IntMax \in Nat /\ CountMod \in Nat
  /\ \A n \in Count : MaxPos + n < CountMod
  /\ MaxPos + IntMax < CountMod
  /\ NoTask \notin Task /\ NoFile \notin File /\ NoDev \notin Device

ReadWrite == {"FMODE_LSEEK", "FMODE_READ", "FMODE_WRITE"}

Files == INSTANCE UnlockedCharDevices WITH
  Dev <- Device, OpenMode <- {ReadWrite},
  Size <- [d \in Device |-> DEV_MEM_SIZE], Perm <- [d \in Device |-> "RDWW"],
  pcd_mutex_lock <- [d \in Device |-> NoTask]

Load == INSTANCE SingleDeviceModule WITH pc <- load

loading == <<module, load, held, open, orphan>>
using == <<private_data, f_mode, f_pos, pc, call, disturbed>>
vars == <<buffer, using, loading>>

\* The static buffer of a module that was just loaded.
Zeroed == [d \in Device |-> [i \in 0 .. DEV_MEM_SIZE - 1 |-> Zero]]

Init == Files!UInit /\ Load!Init

-----------------------------------------------------------------------------
(* Loading and unloading, with files open and calls in flight. *)

Insmod == Load!Insmod /\ buffer' = Zeroed /\ UNCHANGED using

\* Calls whose code the loader frees in this step, or freed before.
CutOff(t) == call[t].file \in orphan'

Forget ==
  /\ f_pos' = [f \in File |-> IF f \in orphan' THEN 0 ELSE f_pos[f]]
  /\ pc' = [t \in Task |-> IF CutOff(t) THEN "ret" ELSE pc[t]]
  /\ call' = [t \in Task |->
       IF CutOff(t) THEN [Files!NoCall EXCEPT !.file = call[t].file] ELSE call[t]]
  /\ disturbed' = [t \in Task |-> IF CutOff(t) THEN {} ELSE disturbed[t]]

pcd_driver_init ==
  Load!InitFunction /\ Forget /\ UNCHANGED <<buffer, private_data, f_mode>>

Rmmod == Load!Rmmod /\ UNCHANGED <<buffer, using>>

pcd_driver_exit == Load!ExitFunction /\ UNCHANGED <<buffer, using>>

-----------------------------------------------------------------------------
(* The file operations. *)

pcd_open(t, f) == Load!Open(f) /\ Files!pcd_open(t, f, "pcd", ReadWrite)

pcd_release(t, f) == Load!Close(f) /\ Files!pcd_release(t, f)

\* read(2), write(2) and lseek(2), up to and after the handlers.
Syscall(t) == Files!Transfer(t) \/ Files!SysReturn(t)

pcd_read(t) == Files!pcd_read(t)
pcd_write(t) == Files!pcd_write(t)
pcd_llseek(t) == Files!pcd_llseek(t)

\* A call runs, and begins, only on a file whose operations are still there.
pcd_fops(t) ==
  \/ \E f \in File : pcd_open(t, f) \/ pcd_release(t, f)
  \/ /\ Syscall(t) \/ pcd_read(t) \/ pcd_write(t) \/ pcd_llseek(t)
     /\ call[t].file \notin orphan /\ call'[t].file \notin orphan
     /\ UNCHANGED loading

Next ==
  \/ Insmod \/ pcd_driver_init \/ Rmmod \/ pcd_driver_exit
  \/ \E t \in Task : pcd_fops(t) /\ Files!Disturb(t)

Spec == Init /\ [][Next]_vars

-----------------------------------------------------------------------------
(* Properties. *)

TypeOK ==
  /\ Files!TypeOK /\ Load!TypeOK
  /\ {f \in File : private_data[f] # NoDev} = open \cup orphan

\* No copy runs outside device_buffer.
TransferInBounds == TypeOK /\ Files!TransferInBounds

\* As long as the driver's code is there, a transfer is torn only where another
\* call wrote after the place was copied.
TornOnlyWhereDisturbed ==
  \A t \in Task : pc[t] = "copy" =>
    \A k \in 1 .. Len(call[t].data) :
      LET at == call[t].offset + k - 1 IN
      call[t].data[k] = buffer["pcd"][at] \/ at \in disturbed[t]

\* pcd_driver_exit never runs beside a call: what is in flight then was cut off
\* before, by an earlier load.
ExitRunsAlone ==
  module = "going" =>
    \A t \in Task : call[t].file # NoFile => call[t].file \in orphan
=============================================================================
