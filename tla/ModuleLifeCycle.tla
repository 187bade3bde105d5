-------------------------- MODULE ModuleLifeCycle --------------------------
(***************************************************************************)
(* What every driver of this repository promises to those who load it and  *)
(* open its devices, whatever it registers and in whatever order.          *)
(***************************************************************************)

CONSTANT File

VARIABLES
  module,  \* "absent", "coming", "live" or "going"
  open,    \* open files of the driver
  orphan   \* open files whose file_operations were freed

vars == <<module, open, orphan>>

Init == module = "absent" /\ open = {} /\ orphan = {}

Goes(from, to) == module = from /\ module' = to

Insmod == Goes("absent", "coming") /\ UNCHANGED <<open, orphan>>

InitSucceeds == Goes("coming", "live") /\ UNCHANGED <<open, orphan>>

\* A load that fails takes the code from the files that were opened already.
InitFails ==
  /\ Goes("coming", "absent")
  /\ open' = {} /\ orphan' = orphan \cup open

\* A driver in use stays.
Rmmod == Goes("live", "going") /\ open = {} /\ UNCHANGED <<open, orphan>>

\* Unloading harms nobody.
ExitReturns == Goes("going", "absent") /\ UNCHANGED <<open, orphan>>

Open(f) ==
  /\ module \in {"coming", "live"} /\ f \notin open \cup orphan
  /\ open' = open \cup {f} /\ UNCHANGED <<module, orphan>>

Close(f) ==
  /\ f \in open
  /\ open' = open \ {f} /\ UNCHANGED <<module, orphan>>

Next ==
  \/ Insmod \/ InitSucceeds \/ InitFails \/ Rmmod \/ ExitReturns
  \/ \E f \in File : Open(f) \/ Close(f)

Spec == Init /\ [][Next]_vars
=============================================================================
