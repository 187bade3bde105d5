-------------------------- MODULE WaitQueueProofs --------------------------
(***************************************************************************)
(* Proofs about WaitQueue, for any number of loads.                        *)
(*                                                                         *)
(* A work item is cut off by the freeing of its load, long after the wait  *)
(* of dog_init ended: the invariant carries what ended the wait (Ended)    *)
(* from there to the moment the memory goes.                               *)
(***************************************************************************)
EXTENDS WaitQueue, TLAPS

\* Why the wait of load l is over, if it is.
Ended(l) == wake_condition[l] = 1 \/ l \in interrupted

\* dog_init runs exactly while the module is coming, and in a load of its own.
Phase ==
  /\ pc # "idle" <=> module = "coming"
  /\ module # "absent" => load \in Load

WaitInv ==
  /\ TypeOK /\ Phase
  /\ module = "live" \/ pc = "exited" => Ended(load)
  /\ \A l \in freed : Ended(l)
  /\ \A l \in Load : worker[l] = "oops" => l \in freed

LEMMA InitWaitInv == Init => WaitInv
  <1> SUFFICES ASSUME Init PROVE WaitInv
    OBVIOUS
  <1> USE LoadsAssumption DEF Init, Load
  <1>1. {queued, signal, seen} \subseteq BOOLEAN
    OBVIOUS
  <1>2. load = 0 /\ load \in 0 .. Loads
    OBVIOUS
  <1>3. TypeOK
    BY <1>1, <1>2 DEF TypeOK
  <1> QED
    BY <1>3 DEF WaitInv, Phase

\* insmod, rmmod and signals.
LEMMA UserWaitInv == WaitInv /\ (Insmod \/ SendSignal \/ dog_exit) => WaitInv'
  <1> SUFFICES ASSUME WaitInv, Insmod \/ SendSignal \/ dog_exit PROVE WaitInv'
    OBVIOUS
  <1> USE LoadsAssumption DEF WaitInv, Phase, Load, Ended, task
  <1>1. CASE Insmod
    <2>1. ~queued
      BY <1>1 DEF Insmod, TypeOK
    <2>2. queued' = queued /\ {queued', signal', seen'} \subseteq BOOLEAN
      BY <1>1 DEF Insmod, TypeOK
    <2>3. load' \in 0 .. Loads /\ load' \in Load /\ 1 .. load \subseteq 1 .. load'
      BY <1>1 DEF Insmod, TypeOK
    <2>4. TypeOK'
      BY <1>1, <2>1, <2>2, <2>3 DEF Insmod, TypeOK
    <2> QED
      BY <1>1, <2>3, <2>4 DEF Insmod
  <1>2. CASE SendSignal
    BY <1>2 DEF SendSignal, TypeOK
  <1>3. CASE dog_exit
    <2>1. TypeOK'
      BY <1>3 DEF dog_exit, TypeOK
    <2> QED
      BY <1>3, <2>1 DEF dog_exit
  <1> QED
    BY <1>1, <1>2, <1>3

\* The steps of dog_init: it leaves the wait when the condition holds or when a
\* signal was seen, and notes which.
LEMMA InitFunctionWaitInv == WaitInv /\ dog_init => WaitInv'
  <1> SUFFICES ASSUME WaitInv, dog_init PROVE WaitInv'
    OBVIOUS
  <1> USE LoadsAssumption DEF WaitInv, Phase, Load, Ended
  <1>1. CASE Schedule
    BY <1>1 DEF Schedule, TypeOK
  <1>2. CASE Check
    BY <1>2 DEF Check, Condition, TypeOK
  <1>3. CASE Prepare
    BY <1>3 DEF Prepare, TypeOK
  <1>4. CASE Recheck
    BY <1>4 DEF Recheck, Condition, TypeOK
  <1>5. CASE WakeUp
    BY <1>5 DEF WakeUp, TypeOK
  <1>6. CASE InitReturns
    BY <1>6 DEF InitReturns, TypeOK
  <1> QED
    BY <1>1, <1>2, <1>3, <1>4, <1>5, <1>6 DEF dog_init

\* The steps of simulate_io: the condition is set once and stays set.
LEMMA WorkerWaitInv == ASSUME WaitInv, NEW l \in Load, Worker(l) PROVE WaitInv'
  <1> USE LoadsAssumption DEF WaitInv, Phase, Load, Ended
  <1>1. PICK from, to \in {"entry", "msleep", "wake_up", "exit", "set", "none"} : Work(l, from, to)
    BY DEF Worker, Entry, SimulateIo, Exit
  <1>2. /\ wake_condition' \in [Load -> {0, 1}]
        /\ \A k \in Load : wake_condition[k] = 1 => wake_condition'[k] = 1
    BY DEF Worker, Entry, SimulateIo, Exit, SetCondition, TypeOK
  <1>3. queued' \in BOOLEAN /\ (queued' => queued)
    <2>1. queued \in BOOLEAN
      BY DEF TypeOK
    <2>2. queued' = queued \/ Wake(l)
      BY DEF Worker, Entry, SimulateIo, Exit
    <2>3. CASE queued' = queued
      BY <2>1, <2>3
    <2>4. CASE Wake(l)
      <3>1. queued' \in BOOLEAN
        BY <2>4 DEF Wake
      <3>2. queued' => queued
        BY <2>4 DEF Wake
      <3> QED
        BY <3>1, <3>2
    <2> QED
      BY <2>2, <2>3, <2>4
  <1>4. TypeOK'
    <2>1. {queued', signal', seen'} \subseteq BOOLEAN
      BY <1>1, <1>3 DEF Work, TypeOK
    <2>2. worker' \in [Load -> {"none", "entry", "msleep", "set", "wake_up", "exit", "oops"}]
      BY <1>1 DEF Work, TypeOK
    <2> QED
      BY <1>1, <1>2, <1>3, <2>1, <2>2 DEF Work, TypeOK
  <1>5. \A k \in Load : worker'[k] = "oops" => k \in freed
    BY <1>1 DEF Work, TypeOK
  <1> QED
    BY <1>1, <1>2, <1>4, <1>5 DEF Work, TypeOK

LEMMA NextWaitInv == WaitInv /\ [Next]_vars => WaitInv'
  <1>1. WaitInv /\ UNCHANGED vars => WaitInv'
    BY DEF WaitInv, TypeOK, Phase, Ended, vars, task
  <1> QED
    BY <1>1, UserWaitInv, InitFunctionWaitInv, WorkerWaitInv DEF Next

\* The invariant holds in every state of every behaviour.
THEOREM WaitInvHolds == Spec => []WaitInv
  BY InitWaitInv, NextWaitInv, PTL DEF Spec

\* However often the module is loaded, a work item loses its memory before it
\* has set wake_condition only when a signal ended the wait.
THEOREM CutOffExplained == Spec => []CutOffOnlyByInterrupt
  <1>1. WaitInv => CutOffOnlyByInterrupt
    BY DEF WaitInv, CutOffOnlyByInterrupt, Ended
  <1> QED
    BY <1>1, WaitInvHolds, PTL
=============================================================================
