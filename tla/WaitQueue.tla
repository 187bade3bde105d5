----------------------------- MODULE WaitQueue -----------------------------
(***************************************************************************)
(* src/Kernel_facilities_course/Wait_Queues/driver.c: a module whose init  *)
(* function schedules a work item and waits until it has run.              *)
(*                                                                         *)
(* simulate_io runs in a kernel thread while insmod sleeps in dog_init.    *)
(* wait_event_interruptible is modelled by its steps: check the condition, *)
(* join the queue, check again, sleep.  Nothing in dog_exit waits for the  *)
(* work item; every load has memory of its own, and a work item that goes  *)
(* on after its memory was freed ends in "oops".                           *)
(***************************************************************************)
EXTENDS Naturals

CONSTANT Loads  \* how often the module is loaded

ASSUME LoadsAssumption == Loads \in Nat

VARIABLES
  load,            \* the present or last load of the module
  module,          \* "absent", "coming" or "live"
  pc,              \* where dog_init is
  queued,          \* the task in dog_init is on dogg_wait_queue
  signal,          \* a signal is pending for it
  seen,            \* whether prepare_to_wait_event saw a signal
  worker,          \* worker[l]: where simulate_io is
  wake_condition,  \* wake_condition[l]
  freed,           \* loads whose memory was freed
  interrupted      \* history: loads whose wait a signal ended

task == <<pc, queued, signal, seen>>
vars == <<load, module, task, worker, wake_condition, freed, interrupted>>

Load == 1 .. Loads

TypeOK ==
  /\ load \in 0 .. Loads
  /\ module \in {"absent", "coming", "live"}
  /\ pc \in {"idle", "INIT_WORK", "check", "prepare", "recheck", "sleep", "exited"}
  /\ {queued, signal, seen} \subseteq BOOLEAN
  /\ worker \in [Load -> {"none", "entry", "msleep", "set", "wake_up", "exit", "oops"}]
  /\ wake_condition \in [Load -> {0, 1}]
  /\ freed \subseteq 1 .. load /\ interrupted \subseteq 1 .. load
  /\ queued => pc \in {"recheck", "sleep", "prepare", "exited"}

Init ==
  /\ load = 0 /\ module = "absent" /\ pc = "idle"
  /\ queued = FALSE /\ signal = FALSE /\ seen = FALSE
  /\ worker = [l \in Load |-> "none"]
  /\ wake_condition = [l \in Load |-> 0]
  /\ freed = {} /\ interrupted = {}

-----------------------------------------------------------------------------
(* insmod, rmmod and signals. *)

Insmod ==
  /\ module = "absent" /\ load < Loads
  /\ load' = load + 1 /\ module' = "coming" /\ pc' = "INIT_WORK"
  /\ signal' = FALSE /\ seen' = FALSE
  /\ UNCHANGED <<queued, worker, wake_condition, freed, interrupted>>

SendSignal ==
  /\ module = "coming" /\ ~signal
  /\ signal' = TRUE
  /\ UNCHANGED <<load, module, pc, queued, seen, worker, wake_condition, freed,
                 interrupted>>

\* dog_exit does nothing, and the loader frees the module.
dog_exit ==
  /\ module = "live"
  /\ module' = "absent" /\ freed' = freed \cup {load}
  /\ UNCHANGED <<load, task, worker, wake_condition, interrupted>>

-----------------------------------------------------------------------------
(* dog_init. *)

Schedule ==
  /\ pc = "INIT_WORK"
  /\ worker' = [worker EXCEPT ![load] = "entry"] /\ pc' = "check"
  /\ UNCHANGED <<load, module, queued, signal, seen, wake_condition, freed,
                 interrupted>>

\* A planted bug: the condition is the other way round.
ConditionInverted == wake_condition[load] = 0

Condition == wake_condition[load] # 0

\* The first look at the condition, without the queue.
Check ==
  /\ pc = "check"
  /\ pc' = IF Condition THEN "exited" ELSE "prepare"
  /\ UNCHANGED <<load, module, queued, signal, seen, worker, wake_condition, freed,
                 interrupted>>

\* prepare_to_wait_event: joins the queue, or leaves it on a signal.
Prepare ==
  /\ pc = "prepare"
  /\ queued' = ~signal /\ seen' = signal /\ pc' = "recheck"
  /\ UNCHANGED <<load, module, signal, worker, wake_condition, freed, interrupted>>

\* The condition is looked at first, then the signal that Prepare saw.
Recheck ==
  /\ pc = "recheck"
  /\ pc' = IF Condition \/ seen THEN "exited" ELSE "sleep"
  /\ interrupted' = IF ~Condition /\ seen THEN interrupted \cup {load}
                                            ELSE interrupted
  /\ UNCHANGED <<load, module, queued, signal, seen, worker, wake_condition, freed>>

\* Woken, that is taken off the queue by wake_up, or interrupted.
WakeUp ==
  /\ pc = "sleep" /\ (~queued \/ signal)
  /\ pc' = "prepare"
  /\ UNCHANGED <<load, module, queued, signal, seen, worker, wake_condition, freed,
                 interrupted>>

\* finish_wait; the result of the wait is not looked at: init succeeds.
InitReturns ==
  /\ pc = "exited"
  /\ queued' = FALSE /\ pc' = "idle" /\ module' = "live"
  /\ UNCHANGED <<load, signal, seen, worker, wake_condition, freed, interrupted>>

-----------------------------------------------------------------------------
(* simulate_io. *)

\* Only memory that is still there can be used.
Work(l, from, to) ==
  /\ worker[l] = from
  /\ worker' = [worker EXCEPT ![l] = IF l \in freed THEN "oops" ELSE to]
  /\ UNCHANGED <<load, module, pc, signal, seen, freed, interrupted>>

SetCondition(l) ==
  IF l \in freed THEN UNCHANGED wake_condition
  ELSE wake_condition' = [wake_condition EXCEPT ![l] = 1]

\* Every waiter of this load that is on the queue is made runnable.
Wake(l) == queued' = (queued /\ (l # load \/ l \in freed))

Entry(l) == Work(l, "entry", "msleep") /\ UNCHANGED <<queued, wake_condition>>

\* A planted bug: the waiters are woken before the condition is set.
SimulateIoWakesFirst(l) ==
  \/ Work(l, "msleep", "set") /\ Wake(l) /\ UNCHANGED wake_condition
  \/ Work(l, "set", "exit") /\ SetCondition(l) /\ UNCHANGED queued

\* After the msleep: wake_condition = 1, then wake_up_interruptible.
SimulateIo(l) ==
  \/ Work(l, "msleep", "wake_up") /\ SetCondition(l) /\ UNCHANGED queued
  \/ Work(l, "wake_up", "exit") /\ Wake(l) /\ UNCHANGED wake_condition

Exit(l) == Work(l, "exit", "none") /\ UNCHANGED <<queued, wake_condition>>

Worker(l) == Entry(l) \/ SimulateIo(l) \/ Exit(l)

-----------------------------------------------------------------------------

dog_init == Schedule \/ Check \/ Prepare \/ Recheck \/ WakeUp \/ InitReturns

Next ==
  \/ Insmod \/ SendSignal \/ dog_init \/ dog_exit
  \/ \E l \in Load : Worker(l)

Spec == Init /\ [][Next]_vars

\* insmod and the work queue's threads are scheduled.
FairSpec == Spec /\ WF_vars(dog_init) /\ \A l \in Load : WF_vars(Worker(l))

-----------------------------------------------------------------------------
(* Properties. *)

\* No wake-up is lost: init ends without a signal, wherever the work item is
\* when init looks at the condition.
InitEnds == pc # "idle" ~> pc = "idle"

\* A work item is cut off before it has set wake_condition only when a signal
\* ended the wait of init; one that has set it may be cut off at any time.
CutOffOnlyByInterrupt ==
  TypeOK /\ \A l \in Load :
    worker[l] = "oops" /\ wake_condition[l] = 0 => l \in interrupted

\* The message behind the wait, "exited wait state, wake_condition != 0".
ExitedMeansWoken == pc = "exited" => Condition
=============================================================================
