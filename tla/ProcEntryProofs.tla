-------------------------- MODULE ProcEntryProofs --------------------------
(***************************************************************************)
(* Proofs about ProcEntry, for any tasks, files and length of the message. *)
(* Neither property is inductive: that no call is inside a freed module    *)
(* depends on who could get in (Loaded), and that a message is reported    *)
(* once on what f_pos and the *offset of a call in progress say about what *)
(* was reported before (Served), which in turn needs calls on one file not *)
(* to overlap.                                                             *)
(***************************************************************************)
EXTENDS ProcEntry, TLAPS

Types ==
  /\ file \in [File -> {"closed", "open", "stale"}]
  /\ f_pos \in [File -> {0, MsgLen}]
  /\ call \in [Task -> Call]
  /\ got \in [File -> Seq({"whole", "torn"})]

\* Only a loaded module has an entry and files that lead to it, and no call is
\* inside a module that was freed.
Loaded ==
  /\ module \in {"absent", "live", "going"} /\ entry \in BOOLEAN
  /\ entry => module = "live"
  /\ module # "live" => \A f \in File : file[f] # "open"
  /\ module = "absent" => \A t \in Task : call[t].at # "LDD_READ"

\* Position 0 of f means that nothing was reported, MsgLen that the message was.
Told(f, pos) == IF pos = 0 THEN got[f] = <<>> ELSE Len(got[f]) = 1

Served ==
  /\ \A t, u \in Task : call[t].file = call[u].file /\ call[t].file # NoFile => t = u
  /\ \A t \in Task : call[t].at = "idle" <=> call[t].file = NoFile
  /\ \A f \in File : ~InUse(f) => Told(f, f_pos[f])
  /\ \A t \in Task : call[t].at = "LDD_READ" =>
       call[t].offset = f_pos[call[t].file] /\ Told(call[t].file, call[t].offset)
  /\ \A t \in Task : call[t].at = "ret" =>
       call[t].offset = MsgLen /\ Len(got[call[t].file]) = 1

IndInv == Types /\ Loaded /\ Served

-----------------------------------------------------------------------------

LEMMA InitInv == Init => IndInv
  <1> SUFFICES ASSUME Init PROVE IndInv
    OBVIOUS
  <1> USE MsgAssumption DEF Init, NoCall
  <1>1. Types
    BY DEF Types, Call
  <1>2. Loaded
    BY DEF Loaded
  <1>3. Served
    BY DEF Served, InUse, Told
  <1> QED
    BY <1>1, <1>2, <1>3 DEF IndInv

\* Loading, unloading, opening: what calls have read is left alone.
LEMMA ModuleInv ==
  IndInv /\ (ldd_init \/ ProcRemove \/ ldd_exit) => IndInv'
  <1> SUFFICES ASSUME IndInv, ldd_init \/ ProcRemove \/ ldd_exit PROVE IndInv'
    OBVIOUS
  <1> USE DEF IndInv, ldd_init, ProcRemove, ldd_exit
  <1>1. Types'
    BY DEF Types
  <1>2. Loaded'
    <2>1. CASE ldd_init
      BY <2>1 DEF Loaded
    <2>2. CASE ProcRemove
      <3>1. \A g \in File : file'[g] # "open"
        BY <2>2
      <3>2. module' = "going" /\ entry' = FALSE
        BY <2>2
      <3> QED
        BY <3>1, <3>2 DEF Loaded
    <2>3. CASE ldd_exit
      BY <2>3 DEF Loaded
    <2> QED
      BY <2>1, <2>2, <2>3
  <1>3. Served'
    BY DEF Served, InUse, Told
  <1> QED
    BY <1>1, <1>2, <1>3

LEMMA OpenInv ==
  ASSUME IndInv, NEW f \in File, Open(f)
  PROVE  IndInv'
  <1> USE DEF IndInv, Open
  <1>1. Types'
    BY DEF Types
  <1>2. Loaded'
    BY DEF Loaded, Types
  <1>3. Served'
    BY DEF Served, InUse, Told
  <1> QED
    BY <1>1, <1>2, <1>3

LEMMA CloseInv ==
  ASSUME IndInv, NEW f \in File, Close(f)
  PROVE  IndInv'
  <1> USE MsgAssumption DEF IndInv, Close
  <1>1. Types'
    BY DEF Types
  <1>2. Loaded'
    BY DEF Loaded, Types
  <1>3. \A t \in Task : call[t].file # f
    BY DEF InUse
  <1>4. Served'
    BY <1>3 DEF Served, Types, InUse, Told, Call
  <1> QED
    BY <1>1, <1>2, <1>4

LEMMA SysReadInv ==
  ASSUME IndInv, NEW f \in File, NEW t \in Task, SysRead(t, f)
  PROVE  IndInv'
  <1> USE MsgAssumption DEF IndInv, SysRead
  <1>1. Types'
    BY DEF Types, Call
  <1>2. module # "absent"
    BY DEF Loaded
  <1>3. Loaded'
    BY <1>2 DEF Loaded
  <1>4. /\ call'[t] = [at |-> "LDD_READ", file |-> f, offset |-> f_pos[f], ret |-> 0]
        /\ \A u \in Task \ {t} : call'[u] = call[u]
    BY DEF Types
  <1>5. \A u \in Task : call[u].file # f
    BY DEF InUse
  <1>6. Told(f, f_pos[f]) /\ f # NoFile /\ f_pos' = f_pos /\ got' = got
    BY <1>5 DEF Served, InUse
  <1>7. call'[t].file = f /\ call'[t].at = "LDD_READ" /\ call'[t].offset = f_pos[f]
    BY <1>4
  <1>8. Served'
    <2>1. \A u, v \in Task :
            call'[u].file = call'[v].file /\ call'[u].file # NoFile => u = v
      BY <1>4, <1>5, <1>7 DEF Served
    <2>2. \A u \in Task : call'[u].at = "idle" <=> call'[u].file = NoFile
      BY <1>4, <1>6, <1>7 DEF Served
    <2>3. ASSUME NEW g \in File, ~InUse(g)' PROVE Told(g, f_pos[g])'
      <3>1. g # f
        BY <2>3, <1>7 DEF InUse
      <3>2. \A u \in Task : call[u].file # g
        BY <2>3, <1>4, <1>6 DEF InUse, NoCall
      <3> QED
        BY <3>2, <1>6 DEF Served, InUse, Told
    <2>4. ASSUME NEW u \in Task, call'[u].at = "LDD_READ"
          PROVE  /\ call'[u].offset = f_pos'[call'[u].file]
                 /\ Told(call[u].file, call[u].offset)'
      BY <2>4, <1>4, <1>6, <1>7 DEF Served, Told
    <2>5. ASSUME NEW u \in Task, call'[u].at = "ret"
          PROVE  call'[u].offset = MsgLen /\ Len(got'[call'[u].file]) = 1
      BY <2>5, <1>4, <1>6, <1>7 DEF Served
    <2> QED
      BY <2>1, <2>2, <2>3, <2>4, <2>5 DEF Served
  <1> QED
    BY <1>1, <1>3, <1>8

LEMMA SysReturnInv ==
  ASSUME IndInv, NEW t \in Task, SysReturn(t)
  PROVE  IndInv'
  <1> USE MsgAssumption DEF IndInv, SysReturn
  <1> DEFINE f == call[t].file
  <1>1. /\ f \in File /\ call[t].offset = MsgLen /\ Len(got[f]) = 1
        /\ \A u \in Task \ {t} : call[u].file # f
    BY DEF Served, Types, Call
  <1>2. Types'
    BY <1>1 DEF Types, Call, NoCall
  <1>3. call'[t] = NoCall /\ \A u \in Task \ {t} : call'[u] = call[u]
    BY DEF Types
  <1>4. Loaded'
    BY <1>3 DEF Loaded, NoCall
  <1>5. f_pos'[f] = MsgLen /\ \A g \in File \ {f} : f_pos'[g] = f_pos[g]
    BY <1>1 DEF Types
  <1>6. Served'
    BY <1>1, <1>3, <1>5 DEF Served, Types, InUse, Told, Call, NoCall
  <1> QED
    BY <1>2, <1>4, <1>6

LEMMA HandlerInv ==
  ASSUME IndInv, NEW t \in Task, LDD_READ(t)
  PROVE  IndInv'
  <1> USE MsgAssumption DEF IndInv
  <1> DEFINE f == call[t].file
  <1>1. /\ call[t].at = "LDD_READ" /\ f \in File
        /\ call[t].offset \in {0, MsgLen} /\ Told(f, call[t].offset)
        /\ \A u \in Task \ {t} : call[u].file # f
    BY DEF LDD_READ, ReadEnd, ReadMessage, Served, Types, Call
  <1>2. /\ UNCHANGED <<module, entry, file, f_pos>>
        /\ \A u \in Task \ {t} : call'[u] = call[u]
        /\ \A g \in File \ {f} : got'[g] = got[g]
    BY DEF LDD_READ, ReadEnd, ReadMessage, Return, Types
  <1>3. /\ call' \in [Task -> Call] /\ got' \in [File -> Seq({"whole", "torn"})]
        /\ call'[t].at = "ret" /\ call'[t].file = f /\ call'[t].offset = MsgLen
        /\ Len(got'[f]) = 1
    <2>1. CASE ReadEnd(t)
      <3>1. call[t].offset = MsgLen /\ Len(got[f]) = 1 /\ got' = got
        BY <1>1, <2>1 DEF ReadEnd, EndOfMessage, Told
      <3>2. call' = [call EXCEPT ![t].at = "ret", ![t].offset = MsgLen, ![t].ret = 0]
        BY <2>1, <3>1 DEF ReadEnd, Return
      <3>3. /\ call' \in [Task -> Call]
            /\ call'[t].at = "ret" /\ call'[t].file = f /\ call'[t].offset = MsgLen
        BY <3>2 DEF Types, Call
      <3> QED
        BY <3>1, <3>3 DEF Types
    <2>2. CASE ReadMessage(t)
      <3>1. call[t].offset = 0 /\ got[f] = <<>>
        BY <1>1, <2>2 DEF ReadMessage, EndOfMessage, Told
      <3> QED
        BY <1>1, <2>2, <3>1 DEF ReadMessage, Return, Types, Call
    <2> QED
      BY <2>1, <2>2 DEF LDD_READ
  <1>4. Types'
    BY <1>2, <1>3 DEF Types
  <1>5. Loaded'
    BY <1>2, <1>3 DEF Loaded
  <1>6. Served'
    <2>1. \A u, v \in Task :
            call'[u].file = call'[v].file /\ call'[u].file # NoFile => u = v
      BY <1>1, <1>2, <1>3 DEF Served
    <2>2. \A u \in Task : call'[u].at = "idle" <=> call'[u].file = NoFile
      BY <1>1, <1>2, <1>3 DEF Served
    <2>3. ASSUME NEW g \in File, ~InUse(g)' PROVE Told(g, f_pos[g])'
      <3>1. g # f /\ \A u \in Task : call[u].file # g
        BY <2>3, <1>2, <1>3 DEF InUse
      <3> QED
        BY <3>1, <1>2 DEF Served, InUse, Told
    <2>4. ASSUME NEW u \in Task, call'[u].at = "LDD_READ"
          PROVE  /\ call'[u].offset = f_pos'[call'[u].file]
                 /\ Told(call[u].file, call[u].offset)'
      <3>1. u # t /\ call'[u] = call[u] /\ call[u].at = "LDD_READ"
        BY <2>4, <1>2, <1>3
      <3>2. call[u].file \in File \ {f}
        BY <3>1, <1>1 DEF Served, Types, Call
      <3> QED
        BY <3>1, <3>2, <1>2 DEF Served, Told
    <2>5. ASSUME NEW u \in Task, call'[u].at = "ret"
          PROVE  call'[u].offset = MsgLen /\ Len(got'[call'[u].file]) = 1
      <3>1. CASE u = t
        BY <3>1, <1>3
      <3>2. CASE u # t
        <4>1. call[u].file \in File \ {f} /\ call'[u] = call[u] /\ call[u].at = "ret"
          BY <2>5, <3>2, <1>1, <1>2 DEF Served, Types, Call
        <4> QED
          BY <4>1, <1>2 DEF Served
      <3> QED
        BY <3>1, <3>2
    <2> QED
      BY <2>1, <2>2, <2>3, <2>4, <2>5 DEF Served
  <1> QED
    BY <1>4, <1>5, <1>6

LEMMA NextInv == IndInv /\ [Next]_vars => IndInv'
  <1> SUFFICES ASSUME IndInv, [Next]_vars PROVE IndInv'
    OBVIOUS
  <1>1. CASE UNCHANGED vars
    BY <1>1 DEF vars, IndInv, Types, Loaded, Served, InUse, Told
  <1>2. CASE Next
    BY <1>2, ModuleInv, OpenInv, CloseInv, SysReadInv, SysReturnInv, HandlerInv DEF Next
  <1> QED
    BY <1>1, <1>2

\* The inductive invariant, for any number of readers and files.
THEOREM IndInvHolds == Spec => []IndInv
  BY InitInv, NextInv, PTL DEF Spec

\* The message of an open file is reported once and before the end of the file,
\* however many tasks share the file.
THEOREM ToldOnce == Spec => []OneMessagePerOpen
  <1>1. IndInv => OneMessagePerOpen
    <2> SUFFICES ASSUME IndInv PROVE OneMessagePerOpen
      OBVIOUS
    <2> USE DEF IndInv
    <2>1. TypeOK
      BY DEF TypeOK, Types, Loaded
    <2>2. ASSUME NEW f \in File PROVE Len(got[f]) <= 1
      <3>1. CASE got[f] = <<>>
        BY <3>1
      <3>2. CASE Len(got[f]) = 1
        BY <3>2
      <3>3. CASE InUse(f)
        <4>1. PICK t \in Task : call[t].file = f
          BY <3>3 DEF InUse
        <4>2. call[t].at \in {"LDD_READ", "ret"}
          BY MsgAssumption, <4>1 DEF Served, Types, Call
        <4>3. Told(f, call[t].offset) \/ Len(got[f]) = 1
          BY <4>1, <4>2 DEF Served
        <4> QED
          BY <3>1, <3>2, <4>3 DEF Told
      <3>4. CASE ~InUse(f)
        <4>1. Told(f, f_pos[f])
          BY <3>4 DEF Served
        <4> QED
          BY <3>1, <3>2, <4>1 DEF Told
      <3> QED
        BY <3>3, <3>4
    <2>3. ASSUME NEW t \in Task, call[t].at = "ret" PROVE got[call[t].file] # <<>>
      BY <2>3 DEF Served
    <2> QED
      BY <2>1, <2>2, <2>3 DEF OneMessagePerOpen
  <1> QED
    BY <1>1, IndInvHolds, PTL

\* LDD_READ never runs in a module that was freed.
THEOREM CodeStays == Spec => []RunsOnlyLoadedCode
  <1>1. IndInv => RunsOnlyLoadedCode
    BY DEF IndInv, Loaded, RunsOnlyLoadedCode
  <1> QED
    BY <1>1, IndInvHolds, PTL
=============================================================================
