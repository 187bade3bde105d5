----------------------------- MODULE ProcEntry -----------------------------
(***************************************************************************)
(* src/ldd/ldd_2_proc_file_read_write/ldd.c: a module that offers one      *)
(* message in /proc/LDD_PROC_MODULE, and tasks that read it, possibly from *)
(* one shared file, while the module is unloaded and loaded again.         *)
(*                                                                         *)
(* procfs is modelled as LDD_READ meets it.  A file of /proc is a regular  *)
(* file, so that read(2) keeps other read(2)s of the file out until it has *)
(* stored f_pos.  An open file does not pin the module: proc_remove lets   *)
(* no new call in, waits for those that are in, and open files are stale   *)
(* from then on.  LDD_READ does not look at count, and neither does the    *)
(* model.                                                                  *)
(***************************************************************************)
EXTENDS Naturals, Sequences

CONSTANTS
  Task, File, NoFile,
  MsgLen  \* sizeof(msg)

ASSUME MsgAssumption == MsgLen \in Nat \ {0} /\ NoFile \notin File

VARIABLES
  module,  \* "absent", "live" or "going"
  entry,   \* the entry can be found under /proc
  file,    \* file[f]: "closed", "open" or "stale"
  f_pos,   \* f_pos[f]
  call,    \* call[t]: the read(2) that t is in
  got      \* history: got[f]: what the calls that reported the message
           \* delivered since f was opened, "whole" or "torn"

vars == <<module, entry, file, f_pos, call, got>>

\* at: where the call is; offset: the handler's *offset; ret: its result.
Call == [at : {"idle", "LDD_READ", "ret"}, file : File \cup {NoFile},
         offset : {0, MsgLen}, ret : {0, MsgLen}]

NoCall == [at |-> "idle", file |-> NoFile, offset |-> 0, ret |-> 0]

TypeOK ==
  /\ module \in {"absent", "live", "going"} /\ entry \in BOOLEAN
  /\ file \in [File -> {"closed", "open", "stale"}]
  /\ f_pos \in [File -> {0, MsgLen}]
  /\ call \in [Task -> Call]
  /\ got \in [File -> Seq({"whole", "torn"})]

Init ==
  /\ module = "absent" /\ entry = FALSE
  /\ file = [f \in File |-> "closed"] /\ f_pos = [f \in File |-> 0]
  /\ call = [t \in Task |-> NoCall] /\ got = [f \in File |-> <<>>]

InUse(f) == \E t \in Task : call[t].file = f

-----------------------------------------------------------------------------
(* The module. *)

\* The result of proc_create is not looked at.
ldd_init ==
  /\ module = "absent" /\ module' = "live" /\ entry' \in BOOLEAN
  /\ UNCHANGED <<file, f_pos, call, got>>

\* rmmod: proc_remove takes the entry away (there may be none) ...
ProcRemove ==
  /\ module = "live" /\ module' = "going" /\ entry' = FALSE
  /\ file' = [f \in File |-> IF file[f] = "open" THEN "stale" ELSE file[f]]
  /\ UNCHANGED <<f_pos, call, got>>

\* Planted bugs: the module does not wait for its readers; it waits until
\* every file is closed.
ldd_exit_at_once ==
  /\ module = "going" /\ module' = "absent"
  /\ UNCHANGED <<entry, file, f_pos, call, got>>

ldd_exit_after_last_close ==
  /\ module = "going" /\ module' = "absent"
  /\ \A f \in File : file[f] = "closed"
  /\ UNCHANGED <<entry, file, f_pos, call, got>>

\* ... and waits for the calls that are inside; then the module is freed.
ldd_exit ==
  /\ module = "going" /\ module' = "absent"
  /\ \A t \in Task : call[t].at # "LDD_READ"
  /\ UNCHANGED <<entry, file, f_pos, call, got>>

-----------------------------------------------------------------------------
(* User space and the VFS. *)

Open(f) ==
  /\ entry /\ file[f] = "closed"
  /\ file' = [file EXCEPT ![f] = "open"]
  /\ UNCHANGED <<module, entry, f_pos, call, got>>

Close(f) ==
  /\ file[f] # "closed" /\ ~InUse(f)
  /\ file' = [file EXCEPT ![f] = "closed"]
  /\ f_pos' = [f_pos EXCEPT ![f] = 0] /\ got' = [got EXCEPT ![f] = <<>>]
  /\ UNCHANGED <<module, entry, call>>

\* A stale file gives -EIO and nothing else happens.
SysRead(t, f) ==
  /\ call[t] = NoCall /\ file[f] = "open" /\ ~InUse(f)
  /\ call' = [call EXCEPT ![t] =
       [at |-> "LDD_READ", file |-> f, offset |-> f_pos[f], ret |-> 0]]
  /\ UNCHANGED <<module, entry, file, f_pos, got>>

SysReturn(t) ==
  /\ call[t].at = "ret"
  /\ f_pos' = [f_pos EXCEPT ![call[t].file] = call[t].offset]
  /\ call' = [call EXCEPT ![t] = NoCall]
  /\ UNCHANGED <<module, entry, file, got>>

-----------------------------------------------------------------------------
(* LDD_READ. *)

Return(t, offset, ret) ==
  call' = [call EXCEPT ![t].at = "ret", ![t].offset = offset, ![t].ret = ret]

EndOfMessage(t) == call[t].offset >= MsgLen

ReadEnd(t) ==
  /\ call[t].at = "LDD_READ" /\ EndOfMessage(t)
  /\ Return(t, call[t].offset, 0)
  /\ UNCHANGED <<module, entry, file, f_pos, got>>

\* A planted bug: *offset stays.
ReadMessageAgain(t) ==
  /\ call[t].at = "LDD_READ" /\ ~EndOfMessage(t)
  /\ Return(t, call[t].offset, MsgLen)
  /\ \E outcome \in {"whole", "torn"} :
       got' = [got EXCEPT ![call[t].file] = Append(@, outcome)]
  /\ UNCHANGED <<module, entry, file, f_pos>>

\* The result of copy_to_user is not looked at.
ReadMessage(t) ==
  /\ call[t].at = "LDD_READ" /\ ~EndOfMessage(t)
  /\ Return(t, call[t].offset + MsgLen, MsgLen)
  /\ \E outcome \in {"whole", "torn"} :
       got' = [got EXCEPT ![call[t].file] = Append(@, outcome)]
  /\ UNCHANGED <<module, entry, file, f_pos>>

LDD_READ(t) == ReadEnd(t) \/ ReadMessage(t)

-----------------------------------------------------------------------------

Next ==
  \/ ldd_init \/ ProcRemove \/ ldd_exit
  \/ \E f \in File : Open(f) \/ Close(f) \/ \E t \in Task : SysRead(t, f)
  \/ \E t \in Task : LDD_READ(t) \/ SysReturn(t)

Spec == Init /\ [][Next]_vars

\* rmmod and the handler are scheduled; nothing makes tasks read or close.
FairSpec == Spec /\ WF_vars(ldd_exit) /\ \A t \in Task : WF_vars(LDD_READ(t))

-----------------------------------------------------------------------------
(* Properties. *)

\* Whoever shares a file, its message is reported once, and the end of the file
\* only after it; a fault of the copy is not reported, and what it tore is not
\* offered again.
OneMessagePerOpen ==
  /\ TypeOK
  /\ \A f \in File : Len(got[f]) <= 1
  /\ \A t \in Task : call[t].at = "ret" /\ call[t].ret = 0 => got[call[t].file] # <<>>

\* No call runs in a module that was freed, though files stay open and no file
\* pins the module.
RunsOnlyLoadedCode ==
  \A t \in Task : call[t].at = "LDD_READ" => module # "absent"

\* rmmod ends, however many readers come.
UnloadEnds == module = "going" ~> module = "absent"
=============================================================================
