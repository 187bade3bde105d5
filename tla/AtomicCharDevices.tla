------------------------- MODULE AtomicCharDevices -------------------------
(***************************************************************************)
(* What a character device promises to the tasks that read and write it:   *)
(* whatever happens between the start of a call and its return, the call   *)
(* takes effect on the memory of its device at one instant.                *)
(*                                                                         *)
(* A task is idle, has a request outstanding or holds the response to it.  *)
(* How a task comes by its offset (f_pos, lseek) is left open.             *)
(***************************************************************************)
EXTENDS Integers, Sequences

CONSTANTS Task, Dev, Size, Value, Zero

VARIABLES
  memory,  \* memory[d]: the contents of device d
  state    \* state[t]: what t is waiting for

vars == <<memory, state>>

Idle == [kind |-> "idle"]

\* count is the number of bytes left after the limit of the device was
\* applied; offset + count exceeds the device when offset already did.
Request == [kind : {"request"}, op : {"read", "write"}, dev : Dev,
            offset : Nat, count : Nat]

Response(ret, data) == [kind |-> "response", ret |-> ret, data |-> data]

Init ==
  /\ memory = [d \in Dev |-> [i \in 0 .. Size[d] - 1 |-> Zero]]
  /\ state = [t \in Task |-> Idle]

InRange(r) == r.offset + r.count <= Size[r.dev]

\* The bytes of request r, and memory with those bytes replaced.
Slice(r) == [i \in 1 .. r.count |-> memory[r.dev][r.offset + i - 1]]

Overwrite(r, bytes) ==
  [memory EXCEPT ![r.dev] = [i \in DOMAIN @ |->
     IF i >= r.offset /\ i < r.offset + r.count
     THEN bytes[i - r.offset + 1] ELSE @[i]]]

Invoke(t) ==
  /\ state[t] = Idle
  /\ state'[t] \in Request
  /\ state' = [state EXCEPT ![t] = state'[t]]
  /\ UNCHANGED memory

Respond(t, ret, data) == state' = [state EXCEPT ![t] = Response(ret, data)]

Read(t) ==
  /\ state[t].kind = "request" /\ state[t].op = "read" /\ InRange(state[t])
  /\ Respond(t, "OK", Slice(state[t]))
  /\ UNCHANGED memory

Write(t) ==
  /\ state[t].kind = "request" /\ state[t].op = "write" /\ InRange(state[t])
  /\ state[t].count > 0
  /\ \E bytes \in [1 .. state[t].count -> Value] :
       /\ memory' = Overwrite(state[t], bytes)
       /\ Respond(t, "OK", bytes)

\* The user's buffer is bad: a read leaves no trace, a write leaves a prefix
\* of the bytes followed by zeros.
Fault(t) ==
  /\ state[t].kind = "request" /\ InRange(state[t]) /\ state[t].count > 0
  /\ Respond(t, "EFAULT", <<>>)
  /\ \/ state[t].op = "read" /\ UNCHANGED memory
     \/ /\ state[t].op = "write"
        /\ \E k \in 0 .. state[t].count - 1 :
           \E bytes \in [1 .. k -> Value] :
             memory' = Overwrite(state[t],
                         [i \in 1 .. state[t].count |->
                            IF i <= k THEN bytes[i] ELSE Zero])

\* Nothing to write, or a position beyond the end of the device.
Refuse(t) ==
  /\ state[t].kind = "request"
  /\ \/ /\ ~InRange(state[t])
        /\ Respond(t, "EFAULT", <<>>)
     \/ /\ state[t].op = "write" /\ state[t].count = 0
        /\ Respond(t, "ENOMEM", <<>>)
  /\ UNCHANGED memory

Return(t) ==
  /\ state[t].kind = "response"
  /\ state' = [state EXCEPT ![t] = Idle]
  /\ UNCHANGED memory

Next == \E t \in Task :
  Invoke(t) \/ Read(t) \/ Write(t) \/ Fault(t) \/ Refuse(t) \/ Return(t)

Spec == Init /\ [][Next]_vars
=============================================================================
