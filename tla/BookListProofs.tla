--------------------------- MODULE BookListProofs ---------------------------
(***************************************************************************)
(* Proofs about BookList, for any slab, and for whatever the rest of the   *)
(* kernel does with its slots.                                             *)
(*                                                                         *)
(* ListIsWhole is not inductive: which nodes there are, and in what order, *)
(* depends on how far init or exit came.  Shape says it for every step, to *)
(* the walk of dog_exit that has freed the node it stands on.              *)
(***************************************************************************)
EXTENDS BookList, TLAPS

\* Who runs when.
Phase ==
  /\ module \in {"absent", "live", "oops"} => pc = "idle"
  /\ module = "coming" => pc \in {"node1", "node2", "remove"}
  /\ module = "going" => pc \in {"kfree", "advance"}

\* The list leads from a to b and back.
Linked(a, b) == next[a] = b /\ prev[b] = a

\* The list is s alone, and s all that the module owns.
Single(s) == Own = {s} /\ Linked(Head, s) /\ Linked(s, Head)

Shape ==
  /\ module \in {"absent", "oops"} => Own = {}
  /\ pc = "node1" => Own = {} /\ Linked(Head, Head)
  /\ pc = "node2" => Single(node[1])
  /\ pc = "remove" =>
       /\ node[1] # node[2] /\ Own = {node[1], node[2]}
       /\ Linked(Head, node[2]) /\ Linked(node[2], node[1]) /\ Linked(node[1], Head)
  /\ module = "live" => \E s \in Slot : Single(s)

\* The walk frees the one node there is; then it is at the head again, or it
\* was led astray by others.
Walk ==
  /\ pc = "kfree" => \/ Own = {pos} /\ next[pos] = Head
                     \/ Own = {} /\ (pos = Head \/ recycled)
  /\ pc = "advance" => Own = {} /\ (next[pos] = Head \/ recycled)

ListInv ==
  TypeOK /\ Phase /\ Shape /\ Walk /\ StraysOnlyWhenRecycled

LEMMA InitListInv == Init => ListInv
  <1> SUFFICES ASSUME Init PROVE ListInv
    OBVIOUS
  <1> USE SlotAssumption DEF Init, Addr
  <1>1. TypeOK
    BY DEF TypeOK
  <1>2. Own = {}
    BY DEF Own
  <1> QED
    BY <1>1, <1>2 DEF ListInv, Phase, Shape, Walk, StraysOnlyWhenRecycled

\* What the module owns, and the list it built from that, is out of reach for
\* everybody else.
LEMMA OthersListInv == ASSUME ListInv, NEW s \in Slot, Others(s) PROVE ListInv'
  <1> USE SlotAssumption DEF ListInv
  <1>1. PICK o \in {"free", "other"}, a \in Addr :
          owner' = [owner EXCEPT ![s] = o] /\ next' = [next EXCEPT ![s] = a]
    BY DEF Others
  <1>2. s \notin Own /\ s # Head
    BY DEF Others, Own
  <1>3. owner' \in [Slot -> {"free", "module", "other"}] /\ Own' = Own
    BY <1>1, <1>2 DEF TypeOK, Own
  <1>4. /\ \A b \in Own \cup {Head} : next'[b] = next[b] /\ prev'[b] = prev[b]
        /\ {next', prev'} \subseteq [Slot \cup {Head} -> Addr]
    BY <1>1, <1>2 DEF Others, TypeOK, Own, Addr
  <1>5. UNCHANGED <<module, pc, node, pos, strayed>>
    BY DEF Others
  <1>6. recycled' \in BOOLEAN /\ (recycled => recycled') /\ (s = pos => recycled')
    BY DEF Others, TypeOK
  <1>7. TypeOK'
    BY <1>3, <1>4, <1>5, <1>6 DEF TypeOK
  <1>8. Phase' /\ StraysOnlyWhenRecycled'
    BY <1>5, <1>6 DEF Phase, StraysOnlyWhenRecycled
  <1>9. \A x, y : Linked(x, y) /\ x \in Own \cup {Head} /\ y \in Own \cup {Head}
                  => Linked(x, y)'
    BY <1>4 DEF Linked
  <1>10. Shape'
    BY <1>3, <1>5, <1>9 DEF Shape, Single
  <1>11. Walk'
    <2>1. CASE s = pos
      BY <1>2, <1>3, <1>5, <1>6, <2>1 DEF Walk
    <2>2. CASE s # pos
      <3>1. next'[pos] = next[pos]
        BY <1>1, <2>2 DEF TypeOK
      <3> QED
        BY <1>3, <1>5, <1>6, <3>1 DEF Walk
    <2> QED
      BY <2>1, <2>2
  <1> QED
    BY <1>7, <1>8, <1>10, <1>11

LEMMA InsmodListInv == ListInv /\ Insmod => ListInv'
  <1> SUFFICES ASSUME ListInv, Insmod PROVE ListInv'
    OBVIOUS
  <1> USE SlotAssumption DEF ListInv, Insmod
  <1>1. Linked(Head, Head)' /\ {next', prev'} \subseteq [Slot \cup {Head} -> Addr]
    BY DEF TypeOK, Linked, Addr
  <1>2. Own' = {}
    BY DEF Shape, Own
  <1>3. TypeOK'
    BY <1>1 DEF TypeOK
  <1> QED
    BY <1>1, <1>2, <1>3 DEF Phase, Shape, Walk, StraysOnlyWhenRecycled

\* Taking a slot makes it the module's; giving one back takes it from the module.
LEMMA Allocated ==
  ASSUME TypeOK, NEW s \in Slot, kmalloc(s)
  PROVE  /\ s \notin Own /\ Own' = Own \cup {s}
         /\ owner' \in [Slot -> {"free", "module", "other"}]
  BY DEF TypeOK, kmalloc, Own

LEMMA Freed ==
  ASSUME TypeOK, NEW s \in Slot, kfree(s)
  PROVE  Own' = Own \ {s} /\ owner' \in [Slot -> {"free", "module", "other"}]
  BY DEF TypeOK, kfree, Own

\* list_add puts the new entry between the head and what was first.
LEMMA Added ==
  ASSUME TypeOK, NEW s \in Slot, NEW a \in (Slot \cup {Head}) \ {s},
         Linked(Head, a), list_add(s)
  PROVE  /\ {next', prev'} \subseteq [Slot \cup {Head} -> Addr]
         /\ Linked(Head, s)' /\ Linked(s, a)'
         /\ \A x, y \in Slot \cup {Head} :
              Linked(x, y) /\ x \notin {Head, s} /\ y \notin {a, s} => Linked(x, y)'
  BY SlotAssumption DEF TypeOK, list_add, Linked, Addr

\* list_del joins the neighbours of the entry.
LEMMA Deleted ==
  ASSUME TypeOK, NEW s \in Slot, NEW a \in (Slot \cup {Head}) \ {s},
         NEW b \in (Slot \cup {Head}) \ {s},
         Linked(a, s), Linked(s, b), list_del(s)
  PROVE  /\ {next', prev'} \subseteq [Slot \cup {Head} -> Addr]
         /\ Linked(a, b)'
         /\ \A x, y \in Slot \cup {Head} :
              Linked(x, y) /\ x \notin {a, s} /\ y \notin {b, s} => Linked(x, y)'
  BY SlotAssumption DEF TypeOK, list_del, Linked, Addr

LEMMA AllocNode1ListInv == ListInv /\ AllocNode1 => ListInv'
  <1> SUFFICES ASSUME ListInv, AllocNode1 PROVE ListInv'
    OBVIOUS
  <1> USE SlotAssumption DEF ListInv, AllocNode1
  <1>1. CASE AddNode(1, "node2")
    <2>1. PICK s \in Slot : kmalloc(s) /\ list_add(s) /\ node' = [node EXCEPT ![1] = s]
      BY <1>1 DEF AddNode
    <2>2. pc = "node1" /\ Own = {} /\ Linked(Head, Head) /\ module = "coming"
      BY DEF Shape, Phase, TypeOK
    <2>3. s # Head /\ Linked(Head, s)' /\ Linked(s, Head)'
          /\ {next', prev'} \subseteq [Slot \cup {Head} -> Addr]
      BY <2>1, <2>2, Added
    <2>4. Own' = {s} /\ owner' \in [Slot -> {"free", "module", "other"}]
      BY <2>1, <2>2, Allocated
    <2>5. node' \in [1 .. 2 -> Addr] /\ node'[1] = s
      BY <2>1 DEF TypeOK, Addr
    <2>6. TypeOK'
      BY <1>1, <2>3, <2>4, <2>5 DEF AddNode, TypeOK, history
    <2> QED
      BY <1>1, <2>2, <2>3, <2>4, <2>5, <2>6
      DEF AddNode, Phase, Shape, Single, Walk, StraysOnlyWhenRecycled, history
  <1>2. CASE Return("absent") /\ UNCHANGED memory
    <2>1. Own' = Own /\ Own = {}
      BY <1>2 DEF memory, Own, Shape
    <2>2. TypeOK'
      BY <1>2 DEF Return, memory, history, TypeOK, Addr
    <2> QED
      BY <1>2, <2>1, <2>2
      DEF Return, history, Phase, Shape, Walk, StraysOnlyWhenRecycled
  <1> QED
    BY <1>1, <1>2

LEMMA AllocNode2ListInv == ListInv /\ AllocNode2 => ListInv'
  <1> SUFFICES ASSUME ListInv, AllocNode2 PROVE ListInv'
    OBVIOUS
  <1> USE SlotAssumption DEF ListInv, AllocNode2
  <1>0. PICK n \in Slot : n = node[1]
    BY DEF Shape, Single, Own
  <1>1. pc = "node2" /\ Single(n) /\ module = "coming"
    BY <1>0 DEF Shape, Phase, TypeOK
  <1>2. CASE AddNode(2, "remove")
    <2>1. PICK s \in Slot : kmalloc(s) /\ list_add(s) /\ node' = [node EXCEPT ![2] = s]
      BY <1>2 DEF AddNode
    <2>2. s # n /\ Own' = {n, s} /\ owner' \in [Slot -> {"free", "module", "other"}]
      BY <1>1, <2>1, Allocated DEF Single
    <2>3. /\ Linked(Head, s)' /\ Linked(s, n)' /\ Linked(n, Head)'
          /\ {next', prev'} \subseteq [Slot \cup {Head} -> Addr]
      BY <1>1, <2>1, <2>2, Added DEF Single
    <2>4. node' \in [1 .. 2 -> Addr] /\ node'[1] = n /\ node'[2] = s
      BY <1>0, <2>1 DEF TypeOK, Addr
    <2>5. TypeOK'
      BY <1>2, <2>2, <2>3, <2>4 DEF AddNode, TypeOK, history
    <2> QED
      BY <1>1, <1>2, <2>2, <2>3, <2>4, <2>5
      DEF AddNode, Phase, Shape, Walk, StraysOnlyWhenRecycled, history
  <1>3. CASE kfree(n) /\ Return("absent") /\ UNCHANGED <<next, prev>>
    <2>1. Own' = {} /\ owner' \in [Slot -> {"free", "module", "other"}]
      BY <1>1, <1>3, Freed DEF Single
    <2>2. TypeOK'
      BY <1>3, <2>1 DEF Return, history, TypeOK, Addr
    <2> QED
      BY <1>3, <2>1, <2>2 DEF Return, history, Phase, Shape, Walk, StraysOnlyWhenRecycled
  <1> QED
    BY <1>0, <1>2, <1>3

LEMMA RemoveListInv == ListInv /\ Remove => ListInv'
  <1> SUFFICES ASSUME ListInv, Remove PROVE ListInv'
    OBVIOUS
  <1> USE SlotAssumption DEF ListInv, Remove
  <1>0. PICK n \in Slot, m \in Slot : n = node[1] /\ m = node[2]
    BY DEF Shape, Own
  <1>1. /\ module = "coming" /\ n # m /\ Own = {n, m}
        /\ Linked(Head, m) /\ Linked(m, n) /\ Linked(n, Head)
    BY <1>0 DEF Shape, Phase, TypeOK
  <1>2. Own' = {n} /\ owner' \in [Slot -> {"free", "module", "other"}]
    BY <1>0, <1>1, Freed
  <1>3. /\ Linked(Head, n)' /\ Linked(n, Head)'
        /\ {next', prev'} \subseteq [Slot \cup {Head} -> Addr]
    BY <1>0, <1>1, Deleted
  <1>4. Single(n)'
    BY <1>2, <1>3 DEF Single
  <1>5. TypeOK'
    BY <1>2, <1>3 DEF Return, history, TypeOK, Addr
  <1>6. Shape'
    BY <1>1, <1>4 DEF Return, Shape
  <1> QED
    BY <1>5, <1>6 DEF Return, history, Phase, Walk, StraysOnlyWhenRecycled

\* The walk starts at the one node there is.
LEMMA RmmodListInv == ListInv /\ Rmmod => ListInv'
  <1> SUFFICES ASSUME ListInv, Rmmod PROVE ListInv'
    OBVIOUS
  <1> USE SlotAssumption DEF ListInv, Rmmod
  <1>1. PICK s \in Slot : Single(s)
    BY DEF Shape
  <1>2. UNCHANGED <<node, owner, next, prev, recycled, strayed>>
    BY DEF memory, history
  <1>3. pos' = s /\ Own' = {s} /\ next'[s] = Head
    BY <1>1, <1>2 DEF Single, Linked, Own
  <1>4. TypeOK'
    BY <1>2, <1>3 DEF TypeOK, Addr
  <1> QED
    BY <1>2, <1>3, <1>4 DEF Phase, Shape, Walk, StraysOnlyWhenRecycled

\* What the walk frees the second time was not the module's any more.
LEMMA FreeEntryListInv == ListInv /\ FreeEntry => ListInv'
  <1> SUFFICES ASSUME ListInv, FreeEntry PROVE ListInv'
    OBVIOUS
  <1> USE SlotAssumption DEF ListInv, FreeEntry
  <1>1. Own' = Own \ {pos} /\ owner' \in [Slot -> {"free", "module", "other"}]
    BY Freed
  <1>2. Own' = {} /\ (next[pos] = Head \/ recycled)
    BY <1>1 DEF Walk
  <1>3. strayed' \in BOOLEAN /\ (strayed' => recycled)
    <2>1. pos \notin Own => recycled
      BY DEF Walk
    <2>2. strayed => recycled
      BY DEF StraysOnlyWhenRecycled
    <2> QED
      BY <2>1, <2>2
  <1>4. TypeOK'
    BY <1>1, <1>3 DEF TypeOK
  <1>5. module = "going"
    BY DEF Phase, TypeOK
  <1> QED
    BY <1>2, <1>3, <1>4, <1>5 DEF Phase, Shape, Walk, StraysOnlyWhenRecycled

LEMMA AdvanceListInv == ListInv /\ Advance => ListInv'
  <1> SUFFICES ASSUME ListInv, Advance PROVE ListInv'
    OBVIOUS
  <1> USE SlotAssumption DEF ListInv, Advance
  <1>1. UNCHANGED <<node, owner, next, prev, recycled, strayed>> /\ Own' = Own
    BY DEF memory, history, Own
  <1>2. pos' \in Addr
    BY DEF TypeOK
  <1>3. TypeOK'
    BY <1>1, <1>2 DEF TypeOK
  <1>4. module = "going"
    BY DEF Phase, TypeOK
  <1> QED
    BY <1>1, <1>3, <1>4 DEF Phase, Shape, Walk, StraysOnlyWhenRecycled

LEMMA ExitEndsListInv == ListInv /\ ExitEnds => ListInv'
  <1> SUFFICES ASSUME ListInv, ExitEnds PROVE ListInv'
    OBVIOUS
  <1> USE SlotAssumption DEF ListInv, ExitEnds
  <1>1. UNCHANGED <<owner, next, prev, recycled, strayed>> /\ Own' = Own
    BY DEF memory, history, Own
  <1>2. Own = {} /\ (pos = Head \/ recycled)
    BY DEF Walk, Own
  <1>3. TypeOK'
    BY <1>1 DEF TypeOK, Return, Addr
  <1> QED
    BY <1>1, <1>2, <1>3 DEF Return, Phase, Shape, Walk, StraysOnlyWhenRecycled

LEMMA NextListInv == ListInv /\ [Next]_vars => ListInv'
  <1>1. ListInv /\ UNCHANGED vars => ListInv'
    BY DEF ListInv, TypeOK, Phase, Shape, Single, Linked, Walk, Own,
           StraysOnlyWhenRecycled, vars, memory, history
  <1> QED
    BY <1>1, OthersListInv, InsmodListInv, AllocNode1ListInv, AllocNode2ListInv,
       RemoveListInv, RmmodListInv, FreeEntryListInv, AdvanceListInv, ExitEndsListInv
    DEF Next, dog_init, dog_exit

-----------------------------------------------------------------------------

\* The invariant holds in every state of every behaviour.
THEOREM ListInvHolds == Spec => []ListInv
  BY InitListInv, NextListInv, PTL DEF Spec

\* Until exit starts, the list is what the module owns, linked both ways.
THEOREM WholeUntilExit == Spec => []ListIsWhole
  <1>1. ListInv => ListIsWhole
    <2> SUFFICES ASSUME ListInv PROVE ListIsWhole
      OBVIOUS
    <2> USE DEF ListInv
    <2>1. CASE pc = "node1"
      BY <2>1 DEF Shape, Linked, ListIsWhole
    <2>2. CASE pc = "node2" \/ module = "live"
      <3>1. PICK s : Single(s)
        BY <2>2 DEF Shape
      <3>2. \A a \in {s, Head} : next[a] \in {s, Head} /\ prev[next[a]] = a
        BY <3>1 DEF Single, Linked
      <3>3. Own = {s} /\ next[Head] = s
        BY <3>1 DEF Single, Linked
      <3> QED
        BY <3>2, <3>3 DEF ListIsWhole
    <2>3. CASE pc = "remove"
      <3>1. PICK n, m : /\ Own = {n, m} /\ Linked(Head, m)
                        /\ Linked(m, n) /\ Linked(n, Head)
        BY <2>3 DEF Shape
      <3>2. \A a \in {n, m, Head} : next[a] \in {n, m, Head} /\ prev[next[a]] = a
        BY <3>1 DEF Linked
      <3>3. Own = {n, m} /\ next[Head] = m /\ next[next[Head]] = n
        BY <3>1 DEF Linked
      <3> QED
        BY <3>2, <3>3 DEF ListIsWhole
    <2>4. CASE module \notin {"coming", "live"}
      BY <2>4 DEF ListIsWhole
    <2> QED
      BY <2>1, <2>2, <2>3, <2>4 DEF Phase
  <1> QED
    BY <1>1, ListInvHolds, PTL

\* Wherever init fails, and after every rmmod, no node is left.
THEOREM NoNodeLeft == Spec => []NothingLeaks
  <1>1. ListInv => NothingLeaks
    BY DEF ListInv, Shape, NothingLeaks
  <1> QED
    BY <1>1, ListInvHolds, PTL

\* The walk that goes on from a freed node does harm only when that node was
\* written to by others in between.
THEOREM StraysExplained == Spec => []StraysOnlyWhenRecycled
  <1>1. ListInv => StraysOnlyWhenRecycled
    BY DEF ListInv
  <1> QED
    BY <1>1, ListInvHolds, PTL
=============================================================================
