------------------------ MODULE MutexRefinesAtomic ------------------------
(***************************************************************************)
(* The locked devices implement the atomic ones.                           *)
(*                                                                         *)
(* A write that is under way has changed some bytes of the buffer already, *)
(* while in the abstract device it has not happened yet.  The history      *)
(* variable committed keeps each device's contents as of the last moment   *)
(* no call was copying; no action of MutexCharDevices depends on it.       *)
(***************************************************************************)
EXTENDS MutexCharDevices

VARIABLE committed

hvars == <<vars, committed>>

Busy(d) == \E t \in Task : InSection(t, d)

HInit == Init /\ committed = buffer

HNext ==
  /\ Next
  /\ committed' = [d \in Dev |-> IF Busy(d)' THEN committed[d] ELSE buffer'[d]]

HSpec == HInit /\ [][HNext]_hvars

HFairSpec == HSpec /\ Fairness

\* The abstract state of a task: the request is complete once the limit of
\* the device is applied to the count, the response once the handler
\* returned.
TaskState(t) ==
  LET c == call[t]
      request(n) == [kind |-> "request", op |-> c.op, dev |-> DevOf(t),
                     offset |-> c.offset, count |-> n]
  IN CASE pc[t] = "lock" -> request(Clamp(c.offset, c.count, Size[DevOf(t)]))
       [] pc[t] = "copy" -> request(c.count)
       [] pc[t] = "ret" /\ c.op \in {"read", "write"} ->
            [kind |-> "response", ret |-> c.ret,
             data |-> IF c.ret = "OK" THEN c.data ELSE <<>>]
       [] OTHER -> [kind |-> "idle"]

Atomic == INSTANCE AtomicCharDevices
            WITH memory <- committed, state <- [t \in Task |-> TaskState(t)]

\* Every read and write takes effect at one instant between its call and its
\* return, with a result the atomic device allows: the mutex makes the
\* byte-wise copies of pcd_read and pcd_write atomic.
AtomicSpec == Atomic!Spec
=============================================================================
