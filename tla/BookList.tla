------------------------------ MODULE BookList ------------------------------
(***************************************************************************)
(* src/Kernel_facilities_course/Linked_List/driver.c: a module whose init  *)
(* function builds a kernel list of two nodes and takes one off again, and *)
(* whose exit function frees what is left while it walks over it.          *)
(*                                                                         *)
(* The memory is shared with the rest of the kernel: what kfree gives back *)
(* may be overwritten by the allocator, or allocated and written by        *)
(* somebody else, at once.  A node is known by its slot, and next and prev *)
(* are those of its list_meta.  The loops of dog_init that print the list  *)
(* change nothing; ListIsWhole says that they are safe.                    *)
(***************************************************************************)
EXTENDS Naturals

CONSTANTS
  Slot,  \* slots of the slab that kmalloc takes the nodes from
  Head,  \* &head, in the data of the module
  Wild   \* a pointer that leads to no list_head

ASSUME SlotAssumption == Head \notin Slot /\ Wild \notin Slot \cup {Head}

Addr == Slot \cup {Head, Wild}

VARIABLES
  module,      \* "absent", "coming", "live", "going" or "oops"
  pc,          \* what dog_init or dog_exit does next
  node,        \* the locals node1 and node2 of dog_init
  pos,         \* temp_node, the cursor of dog_exit
  owner,       \* owner[s]: "free", "module" or "other"
  next, prev,  \* next[a], prev[a]: the list_head at address a
  recycled,    \* history: others wrote to the entry the cursor is at
  strayed      \* history: dog_exit freed what was not the module's

memory == <<owner, next, prev>>
history == <<recycled, strayed>>
vars == <<module, pc, node, pos, memory, history>>

Own == {s \in Slot : owner[s] = "module"}

TypeOK ==
  /\ module \in {"absent", "coming", "live", "going", "oops"}
  /\ pc \in {"idle", "node1", "node2", "remove", "kfree", "advance"}
  /\ node \in [1 .. 2 -> Addr] /\ pos \in Addr
  /\ pc = "advance" => pos \in Slot
  /\ owner \in [Slot -> {"free", "module", "other"}]
  /\ {next, prev} \subseteq [Slot \cup {Head} -> Addr]
  /\ recycled \in BOOLEAN /\ strayed \in BOOLEAN

Init ==
  /\ module = "absent" /\ pc = "idle"
  /\ node = [i \in 1 .. 2 |-> Wild] /\ pos = Wild
  /\ owner = [s \in Slot |-> "free"]
  /\ next = [a \in Slot \cup {Head} |-> Wild] /\ prev = next
  /\ recycled = FALSE /\ strayed = FALSE

-----------------------------------------------------------------------------
(* list.h and slab.h. *)

list_add(new) ==
  /\ next' = [next EXCEPT ![new] = next[Head], ![Head] = new]
  /\ prev' = [prev EXCEPT ![new] = Head, ![next[Head]] = new]

\* A planted bug: the successor is not told.
list_del_forward_only(entry) ==
  /\ next' = [next EXCEPT ![prev[entry]] = next[entry], ![entry] = Wild]
  /\ prev' = [prev EXCEPT ![entry] = Wild]

\* The neighbours are joined, the entry's pointers poisoned.
list_del(entry) ==
  /\ next' = [next EXCEPT ![prev[entry]] = next[entry], ![entry] = Wild]
  /\ prev' = [prev EXCEPT ![next[entry]] = prev[entry], ![entry] = Wild]

kmalloc(s) == owner[s] = "free" /\ owner' = [owner EXCEPT ![s] = "module"]

kfree(s) == owner' = [owner EXCEPT ![s] = "free"]

\* Everybody else: a slot that is not the module's is allocated, freed, or
\* written; what it holds afterwards is arbitrary.
Others(s) ==
  /\ owner[s] # "module"
  /\ \E o \in {"free", "other"}, a \in Addr :
       owner' = [owner EXCEPT ![s] = o] /\ next' = [next EXCEPT ![s] = a]
  /\ prev' = [prev EXCEPT ![s] = Wild]
  /\ recycled' = (recycled \/ s = pos)
  /\ UNCHANGED <<module, pc, node, pos, strayed>>

-----------------------------------------------------------------------------
(* dog_init. *)

\* insmod loads a fresh copy of the module's data, LIST_HEAD(head).
Insmod ==
  /\ module = "absent"
  /\ module' = "coming" /\ pc' = "node1"
  /\ next' = [next EXCEPT ![Head] = Head] /\ prev' = [prev EXCEPT ![Head] = Head]
  /\ recycled' = FALSE /\ strayed' = FALSE
  /\ UNCHANGED <<node, pos, owner>>

\* init or exit returns; the locals are gone.
Return(result) ==
  /\ module' = result /\ pc' = "idle"
  /\ node' = [i \in 1 .. 2 |-> Wild] /\ pos' = Wild

\* kmalloc and list_add of node i.
AddNode(i, then) ==
  /\ \E s \in Slot : kmalloc(s) /\ list_add(s) /\ node' = [node EXCEPT ![i] = s]
  /\ pc' = then
  /\ UNCHANGED <<module, pos>>

AllocNode1 ==
  /\ pc = "node1"
  /\ AddNode(1, "node2") \/ (Return("absent") /\ UNCHANGED memory)
  /\ UNCHANGED history

\* A planted bug: node1 is not freed when node2 cannot be allocated.
AllocNode2Leaks ==
  /\ pc = "node2"
  /\ AddNode(2, "remove") \/ (Return("absent") /\ UNCHANGED memory)
  /\ UNCHANGED history

\* When there is no node2, node1 is freed and stays on the list, whose head
\* goes with the module.
AllocNode2 ==
  /\ pc = "node2"
  /\ \/ AddNode(2, "remove")
     \/ kfree(node[1]) /\ Return("absent") /\ UNCHANGED <<next, prev>>
  /\ UNCHANGED history

\* list_del and kfree of node2; init succeeds.
Remove ==
  /\ pc = "remove"
  /\ list_del(node[2]) /\ kfree(node[2])
  /\ Return("live")
  /\ UNCHANGED history

-----------------------------------------------------------------------------
(* dog_exit: list_for_each_entry(temp_node, &head, list_meta) kfree. *)

Rmmod ==
  /\ module = "live"
  /\ module' = "going" /\ pc' = "kfree" /\ pos' = next[Head]
  /\ UNCHANGED <<node, memory, history>>

FreeEntry ==
  /\ pc = "kfree" /\ pos \in Slot
  /\ kfree(pos) /\ pc' = "advance" /\ strayed' = (strayed \/ pos \notin Own)
  /\ UNCHANGED <<module, node, pos, next, prev, recycled>>

\* A planted bug: the cursor stays on the entry.
AdvanceNot ==
  /\ pc = "advance" /\ pc' = "kfree"
  /\ UNCHANGED <<module, node, pos, memory, history>>

\* The next entry is loaded from the one that was freed.
Advance ==
  /\ pc = "advance" /\ pc' = "kfree"
  /\ pos' = next[pos]
  /\ UNCHANGED <<module, node, memory, history>>

\* Back at the head, or at a pointer that kfree cannot take.
ExitEnds ==
  /\ pc = "kfree" /\ pos \notin Slot
  /\ Return(IF pos = Head THEN "absent" ELSE "oops")
  /\ UNCHANGED <<memory, history>>

-----------------------------------------------------------------------------

dog_init == AllocNode1 \/ AllocNode2 \/ Remove

dog_exit == FreeEntry \/ Advance \/ ExitEnds

Next == Insmod \/ Rmmod \/ dog_init \/ dog_exit \/ \E s \in Slot : Others(s)

Spec == Init /\ [][Next]_vars

\* The task that called insmod or rmmod is scheduled.
FairSpec == Spec /\ WF_vars(dog_init \/ dog_exit)

-----------------------------------------------------------------------------
(* Properties. *)

\* Until exit starts, the list holds exactly the nodes the module owns, each
\* linked both ways, whatever others do with the slots around it: the loops
\* over it in dog_init touch no memory that was given back.
ListIsWhole ==
  TypeOK /\ (module \in {"coming", "live"} =>
    /\ \A a \in Own \cup {Head} : next[a] \in Own \cup {Head} /\ prev[next[a]] = a
    /\ Own \subseteq {next[Head], next[next[Head]]})

\* Every node is freed wherever init fails, and by exit though it goes on from
\* a node it has freed.
NothingLeaks == module \in {"absent", "oops"} => Own = {}

\* dog_exit frees what is not its own, or follows a wild pointer, only when the
\* entry was written by others between its kfree and the load of its next.
StraysOnlyWhenRecycled == strayed \/ module = "oops" => recycled

\* rmmod ends, unless such a write led the walk in a circle.
UnloadEnds == module = "going" ~> module # "going" \/ recycled
=============================================================================
