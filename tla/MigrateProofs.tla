--------------------------- MODULE MigrateProofs ---------------------------
(***************************************************************************)
(* The migrations for every number of processes and files.  The inductive  *)
(* invariant says what a process that is past some file may rely on, and   *)
(* what the one that holds the write lock may.                             *)
(***************************************************************************)
EXTENDS Migrate, TLAPS

OneEach == \A f \in Files : effects[f] = IF f \in recorded THEN 1 ELSE 0
InOrder == \A f \in recorded, g \in Files : g <= f => g \in recorded

(* What a process has passed over is recorded, and stays so. *)
Behind ==
    \A p \in Processes :
        /\ proc[p].applied \subseteq recorded
        /\ \A g \in Files : g < proc[p].next => g \in recorded
        /\ proc[p].at = "serving" => recorded = Files

(* Whoever has written holds the lock, and its file is not recorded yet. *)
Writing(p) == proc[p].at \in {"executed", "recorded"}
Locking ==
    \A p \in Processes :
        /\ Writing(p) <=> locked = p
        /\ Writing(p) => AtFile(p) \in Files \ recorded

IInv == TypeOK /\ OneEach /\ InOrder /\ Behind /\ Locking

LEMMA InitOK == Init => IInv
<1> SUFFICES ASSUME Init PROVE IInv
  OBVIOUS
<1>1. /\ effects = [f \in Files |-> 0] /\ recorded = {} /\ locked = Nobody
      /\ proc = [p \in Processes |-> Stopped("down")]
  BY DEF Init
<1>2. \A p \in Processes : /\ proc[p] = [at |-> "down", applied |-> {}, next |-> 1]
                              /\ proc[p].at = "down" /\ proc[p].applied = {} /\ proc[p].next = 1
  BY <1>1 DEF Stopped
<1>3. TypeOK
  <2>1. 1 \in 1 .. Last + 1
    BY MigrateAssumption
  <2> QED  BY <1>1, <1>2, <2>1 DEF TypeOK
<1>4. OneEach /\ InOrder
  BY <1>1 DEF OneEach, InOrder
<1>5. Behind
  <2>1. \A g \in Files : ~(g < 1)
    BY MigrateAssumption DEF Files
  <2> QED  BY <1>1, <1>2, <2>1 DEF Behind
<1>6. Locking
  BY <1>1, <1>2, MigrateAssumption DEF Locking, Writing
<1> QED
  BY <1>3, <1>4, <1>5, <1>6 DEF IInv

(* A step that only moves p, neither onto nor away from the lock. *)
LEMMA Moves ==
  ASSUME IInv, UNCHANGED <<effects, recorded, locked>>,
         NEW p \in Processes, NEW r,
         proc' = [proc EXCEPT ![p] = r],
         r \in [at : {"down", "killed", "listing", "choosing", "executed", "recorded", "serving"},
                applied : SUBSET Files, next : 1 .. Last + 1],
         r.applied \subseteq recorded,
         \A g \in Files : g < r.next => g \in recorded,
         r.at = "serving" => recorded = Files,
         r.at \in {"executed", "recorded"} <=> Writing(p),
         Writing(p) => r.next = AtFile(p)
  PROVE  IInv'
<1>1. TypeOK'
  BY DEF IInv, TypeOK
<1>2. OneEach' /\ InOrder'
  BY DEF IInv, OneEach, InOrder
<1>3. proc'[p] = r /\ \A q \in Processes \ {p} : proc'[q] = proc[q]
  BY DEF IInv, TypeOK
<1>4. Behind'
  BY <1>3 DEF IInv, Behind
<1>5. Locking'
  BY <1>3 DEF IInv, Locking, Writing, AtFile
<1> QED
  BY <1>1, <1>2, <1>4, <1>5 DEF IInv

(* Who starts to serve has every file behind it. *)
LEMMA Served ==
  ASSUME IInv, NEW p \in Processes, Serve(p)
  PROVE  recorded = Files
<1>1. /\ proc[p].next \notin 1 .. Last /\ proc[p].next \in 1 .. Last + 1
      /\ \A g \in Files : g < proc[p].next => g \in recorded
  BY DEF Serve, AtFile, Files, IInv, TypeOK, Behind
<1>2. proc[p].next = Last + 1
  BY <1>1, MigrateAssumption
<1>3. \A g \in Files : g \in recorded
  BY <1>1, <1>2, MigrateAssumption DEF Files
<1> QED
  BY <1>3 DEF IInv, TypeOK

LEMMA NextOK == IInv /\ [Next]_vars => IInv'
<1> SUFFICES ASSUME IInv, [Next]_vars PROVE IInv'
  OBVIOUS
<1> USE MigrateAssumption
<1>a. ASSUME NEW p \in Processes
      PROVE  /\ proc[p].at \in {"down", "killed", "listing", "choosing", "executed",
                                "recorded", "serving"}
             /\ proc[p].applied \subseteq recorded
             /\ proc[p].next \in 1 .. Last + 1
             /\ proc[p] \in [at : {"down", "killed", "listing", "choosing", "executed",
                                   "recorded", "serving"},
                             applied : SUBSET Files, next : 1 .. Last + 1]
             /\ \A g \in Files : g < proc[p].next => g \in recorded
  BY <1>a DEF IInv, TypeOK, Behind
<1>b. recorded \subseteq Files
  BY DEF IInv, TypeOK
<1>c. ASSUME NEW p \in Processes, Ends(p, "down") \/ Ends(p, "killed") PROVE IInv'
  <2>1. PICK how \in {"down", "killed"} : Ends(p, how)
    BY <1>c
  <2>2. /\ proc' = [proc EXCEPT ![p] = [at |-> how, applied |-> {}, next |-> 1]]
        /\ locked' = IF locked = p THEN Nobody ELSE locked
        /\ UNCHANGED <<effects, recorded>>
    BY <2>1 DEF Ends, Stopped
  <2>3. /\ proc'[p] = [at |-> how, applied |-> {}, next |-> 1]
        /\ \A q \in Processes \ {p} : proc'[q] = proc[q]
    BY <2>2 DEF IInv, TypeOK
  <2>4. TypeOK'
    BY <2>2 DEF IInv, TypeOK
  <2>5. OneEach' /\ InOrder'
    BY <2>2 DEF IInv, OneEach, InOrder
  <2>6. Behind'
    BY <2>2, <2>3 DEF IInv, Behind, Files
  <2>7. Locking'
    BY <2>2, <2>3 DEF IInv, Locking, Writing, AtFile
  <2> QED  BY <2>4, <2>5, <2>6, <2>7 DEF IInv
<1>d. ASSUME NEW p \in Processes, NEW seen \in SUBSET recorded, Listed(p, seen) PROVE IInv'
  <2> DEFINE r == [at |-> "choosing", applied |-> seen, next |-> 1]
  <2>1. /\ UNCHANGED <<effects, recorded, locked>>
        /\ proc' = [proc EXCEPT ![p] = r] /\ proc[p].at = "listing"
    BY <1>d DEF Listed
  <2>2. /\ r.applied \subseteq recorded /\ r.at = "choosing" /\ r.next = 1
        /\ r \in [at : {"down", "killed", "listing", "choosing", "executed", "recorded",
                        "serving"}, applied : SUBSET Files, next : 1 .. Last + 1]
    BY <1>b
  <2>3. \A g \in Files : ~(g < r.next)
    BY DEF Files
  <2> HIDE DEF r
  <2>4. ~Writing(p)
    BY <2>1 DEF Writing
  <2> QED  BY <2>1, <2>2, <2>3, <2>4, Moves
<1>1. ASSUME NEW p \in Processes, CreateTable(p) PROVE IInv'
  <2> DEFINE r == [proc[p] EXCEPT !.at = "listing"]
  <2>1. /\ UNCHANGED <<effects, recorded, locked>>
        /\ proc' = [proc EXCEPT ![p] = r] /\ ~Writing(p)
    BY <1>1 DEF CreateTable, Goto, Writing
  <2>2. /\ r.applied = proc[p].applied /\ r.at = "listing" /\ r.next = proc[p].next
        /\ r \in [at : {"down", "killed", "listing", "choosing", "executed", "recorded",
                        "serving"}, applied : SUBSET Files, next : 1 .. Last + 1]
    BY <1>a
  <2> HIDE DEF r
  <2> QED  BY <1>a, <2>1, <2>2, Moves
<1>2. ASSUME NEW p \in Processes, ListApplied(p) PROVE IInv'
  BY <1>2, <1>d DEF ListApplied
<1>3. ASSUME NEW p \in Processes, ListCut(p) PROVE IInv'
  BY <1>3, <1>d DEF ListCut
<1>4. ASSUME NEW p \in Processes, Skip(p) PROVE IInv'
  <2> DEFINE r == [proc[p] EXCEPT !.next = @ + 1]
  <2>1. /\ UNCHANGED <<effects, recorded, locked>>
        /\ proc' = [proc EXCEPT ![p] = r] /\ proc[p].at = "choosing"
        /\ proc[p].next \in 1 .. Last /\ proc[p].next \in proc[p].applied
    BY <1>4 DEF Skip, AtFile, Files
  <2>2. /\ r.applied = proc[p].applied /\ r.at = "choosing" /\ r.next = proc[p].next + 1
        /\ r \in [at : {"down", "killed", "listing", "choosing", "executed", "recorded",
                        "serving"}, applied : SUBSET Files, next : 1 .. Last + 1]
    BY <1>a, <2>1
  <2> HIDE DEF r
  <2>3. \A g \in Files : g < r.next => g \in recorded
    BY <1>a, <2>1, <2>2 DEF Files
  <2>4. ~Writing(p)
    BY <2>1 DEF Writing
  <2> QED  BY <1>a, <2>1, <2>2, <2>3, <2>4, Moves
<1>5. ASSUME NEW p \in Processes, Exec(p) PROVE IInv'
  <2> DEFINE r == [proc[p] EXCEPT !.at = "executed"]
  <2>1. /\ UNCHANGED <<effects, recorded>> /\ locked = Nobody /\ locked' = p
        /\ proc' = [proc EXCEPT ![p] = r] /\ proc[p].at = "choosing"
        /\ AtFile(p) \in Files /\ effects[AtFile(p)] = 0
    BY <1>5 DEF Exec, Goto, Applicable
  <2>2. r.applied = proc[p].applied /\ r.at = "executed" /\ r.next = proc[p].next
        /\ r \in [at : {"down", "killed", "listing", "choosing", "executed", "recorded",
                        "serving"}, applied : SUBSET Files, next : 1 .. Last + 1]
    BY <1>a
  <2> HIDE DEF r
  <2>3. proc'[p] = r /\ \A q \in Processes \ {p} : proc'[q] = proc[q]
    BY <2>1 DEF IInv, TypeOK
  <2>4. TypeOK'
    BY <2>1, <2>2 DEF IInv, TypeOK
  <2>5. OneEach' /\ InOrder'
    BY <2>1 DEF IInv, OneEach, InOrder
  <2>6. Behind'
    BY <2>1, <2>2, <2>3 DEF IInv, Behind
  <2>7. AtFile(p) \notin recorded
    BY <2>1 DEF IInv, OneEach
  <2>8. Locking'
    BY <2>1, <2>2, <2>3, <2>7 DEF IInv, Locking, Writing, AtFile
  <2> QED  BY <2>4, <2>5, <2>6, <2>8 DEF IInv
<1>6. ASSUME NEW p \in Processes, Record(p) PROVE IInv'
  <2> DEFINE r == [proc[p] EXCEPT !.at = "recorded"]
  <2>1. /\ UNCHANGED <<effects, recorded, locked>>
        /\ proc' = [proc EXCEPT ![p] = r] /\ Writing(p)
    BY <1>6 DEF Record, Goto, Writing
  <2>2. r.applied = proc[p].applied /\ r.at = "recorded" /\ r.next = proc[p].next
        /\ r \in [at : {"down", "killed", "listing", "choosing", "executed", "recorded",
                        "serving"}, applied : SUBSET Files, next : 1 .. Last + 1]
    BY <1>a
  <2> HIDE DEF r
  <2> QED  BY <1>a, <2>1, <2>2, Moves DEF AtFile
<1>7. ASSUME NEW p \in Processes, Commit(p) PROVE IInv'
  <2> DEFINE f == proc[p].next
  <2>1. /\ effects' = [effects EXCEPT ![f] = @ + 1] /\ recorded' = recorded \cup {f}
        /\ locked' = Nobody
        /\ proc' = [proc EXCEPT ![p].at = "choosing", ![p].next = @ + 1]
        /\ Writing(p)
    BY <1>7 DEF Commit, AtFile, Writing
  <2>2. f \in 1 .. Last /\ f \in Files /\ f \notin recorded /\ locked = p /\ effects[f] = 0
        /\ \A g \in Files : g < f => g \in recorded
    BY <1>a, <2>1 DEF IInv, Locking, OneEach, AtFile, Files
  <2>3. /\ proc'[p].at = "choosing" /\ proc'[p].applied = proc[p].applied
        /\ proc'[p].next = f + 1
        /\ proc'[p] \in [at : {"down", "killed", "listing", "choosing", "executed", "recorded",
                               "serving"}, applied : SUBSET Files, next : 1 .. Last + 1]
        /\ \A q \in Processes \ {p} : proc'[q] = proc[q]
    BY <1>a, <2>1, <2>2 DEF IInv, TypeOK
  <2>4. TypeOK'
    BY <2>1, <2>2, <2>3 DEF IInv, TypeOK
  <2>5. OneEach'
    BY <2>1, <2>2 DEF IInv, TypeOK, OneEach
  <2>6. InOrder'
    BY <2>1, <2>2 DEF IInv, InOrder, Files
  <2>7. Behind'
    <3>1. \A q \in Processes : proc[q].at # "serving"
      BY <2>2 DEF IInv, Behind
    <3>2. ASSUME NEW q \in Processes \ {p}
          PROVE  /\ proc'[q].applied \subseteq recorded'
                 /\ \A g \in Files : g < proc'[q].next => g \in recorded'
                 /\ proc'[q].at # "serving"
      BY <2>1, <2>3, <3>1 DEF IInv, Behind
    <3>3. /\ proc'[p].applied \subseteq recorded'
          /\ \A g \in Files : g < proc'[p].next => g \in recorded'
      <4>1. proc'[p].applied \subseteq recorded'
        BY <1>a, <2>1, <2>3
      <4>2. \A g \in Files : g < f + 1 => g < f \/ g = f
        BY <2>2 DEF Files
      <4>3. \A g \in Files : g < f + 1 => g \in recorded'
        BY <2>1, <2>2, <4>2
      <4> HIDE DEF f
      <4> QED  BY <2>3, <4>1, <4>3
    <3> QED  BY <2>3, <3>2, <3>3 DEF Behind
  <2>8. Locking'
    BY <2>1, <2>2, <2>3 DEF IInv, Locking, Writing, AtFile
  <2> QED  BY <2>4, <2>5, <2>6, <2>7, <2>8 DEF IInv
<1>8. ASSUME NEW p \in Processes, Serve(p) PROVE IInv'
  <2> DEFINE r == [proc[p] EXCEPT !.at = "serving"]
  <2>1. /\ UNCHANGED <<effects, recorded, locked>>
        /\ proc' = [proc EXCEPT ![p] = r] /\ proc[p].at = "choosing"
        /\ proc[p].next \notin 1 .. Last
    BY <1>8 DEF Serve, Goto, AtFile, Files
  <2>2. r.applied = proc[p].applied /\ r.at = "serving" /\ r.next = proc[p].next
        /\ r \in [at : {"down", "killed", "listing", "choosing", "executed", "recorded",
                        "serving"}, applied : SUBSET Files, next : 1 .. Last + 1]
    BY <1>a
  <2> HIDE DEF r
  <2>3. recorded = Files
    BY <1>8, Served
  <2>4. ~Writing(p)
    BY <2>1 DEF Writing
  <2> QED  BY <1>a, <2>1, <2>2, <2>3, <2>4, Moves
<1>9. CASE UNCHANGED vars
  BY <1>9 DEF vars, IInv, TypeOK, OneEach, InOrder, Behind, Locking, Writing, AtFile
<1> QED
  BY <1>c, <1>1, <1>2, <1>3, <1>4, <1>5, <1>6, <1>7, <1>8, <1>9
  DEF Next, Run, Fault, ExecFailed, Crash

THEOREM Inductive == Spec => []IInv
<1> QED  BY InitOK, NextOK, PTL DEF Spec

(* Every variable of the migrations keeps its type. *)
THEOREM Typing == Spec => []TypeOK
<1>1. IInv => TypeOK
  BY DEF IInv
<1> QED  BY <1>1, Inductive, PTL

Abstract == <<effects, recorded, Serving>>

(* A step that leaves the database alone opens or closes at most p. *)
LEMMA ServesOrNot ==
  ASSUME IInv, UNCHANGED <<effects, recorded>>,
         NEW p \in Processes, \A q \in Processes \ {p} : proc'[q].at = proc[q].at,
         proc'[p].at = "serving" => recorded = Files
  PROVE  Versions!Open(p) \/ Versions!Close(p) \/ UNCHANGED Abstract
<1>1. CASE proc'[p].at = "serving"
  <2>1. Serving' = Serving \cup {p}
    BY <1>1 DEF Serving
  <2> QED  BY <1>1, <2>1 DEF Versions!Open, Files
<1>2. CASE proc'[p].at # "serving"
  <2>1. Serving' = Serving \ {p}
    BY <1>2 DEF Serving
  <2> QED  BY <2>1 DEF Versions!Close
<1> QED
  BY <1>1, <1>2

(* Migrate implements the abstract history of the schema.                  *)
THEOREM ImplementsSchemaVersions == Spec => VersionSpec
<1> USE MigrateAssumption
<1>1. Init => Versions!Init
  <2>1. ASSUME Init PROVE Serving = {}
    BY <2>1 DEF Init, Stopped, Serving
  <2> QED  BY <2>1 DEF Init, Versions!Init, Files
<1>2. IInv /\ [Next]_vars => [Versions!Next]_Abstract
  <2> SUFFICES ASSUME IInv, [Next]_vars
               PROVE  Versions!Next \/ UNCHANGED Abstract
    BY DEF Abstract
  <2>1. ASSUME NEW p \in Processes, Commit(p) PROVE Versions!Upgrade(AtFile(p))
    <3> DEFINE f == AtFile(p)
    <3>1. /\ effects' = [effects EXCEPT ![f] = @ + 1] /\ recorded' = recorded \cup {f}
          /\ proc' = [proc EXCEPT ![p].at = "choosing", ![p].next = @ + 1]
          /\ Writing(p)
      BY <2>1 DEF Commit, Writing
    <3>2. f \in 1 .. Last /\ f \notin recorded /\ effects[f] = 0
      BY <3>1 DEF IInv, Locking, OneEach, Files
    <3>3. recorded = 1 .. f - 1
      <4>1. \A g \in Files : g < f => g \in recorded
        BY DEF IInv, Behind, AtFile
      <4>2. \A g \in recorded : g \in Files /\ ~(f <= g)
        BY <3>2 DEF IInv, TypeOK, InOrder, Files
      <4> HIDE DEF f
      <4>3. ASSUME NEW g \in recorded PROVE g \in 1 .. f - 1
        BY <3>2, <4>2 DEF Files
      <4>4. ASSUME NEW g \in 1 .. f - 1 PROVE g \in recorded
        BY <3>2, <4>1 DEF Files
      <4> QED  BY <4>3, <4>4
    <3>4. \A q \in Processes : proc'[q].at = "serving" <=> proc[q].at = "serving"
      BY <3>1 DEF IInv, TypeOK, Writing
    <3>5. UNCHANGED Serving
      BY <3>4 DEF Serving
    <3>6. effects' = [effects EXCEPT ![f] = 1]
      BY <3>1, <3>2 DEF IInv, TypeOK, Files
    <3> HIDE DEF f
    <3> QED  BY <3>1, <3>3, <3>5, <3>6 DEF Versions!Upgrade, f
  <2>2. ASSUME NEW p \in Processes, Serve(p)
        PROVE  recorded = Files
    BY <2>2, Served
  <2>3. ASSUME NEW p \in Processes,
               CreateTable(p) \/ ListApplied(p) \/ ListCut(p) \/ Skip(p) \/ Exec(p)
               \/ Record(p) \/ Serve(p) \/ Ends(p, "down") \/ Ends(p, "killed")
        PROVE  Versions!Next \/ UNCHANGED Abstract
    <3>1. /\ UNCHANGED <<effects, recorded>>
          /\ \A q \in Processes \ {p} : proc'[q].at = proc[q].at
      BY <2>3 DEF IInv, TypeOK, CreateTable, ListApplied, ListCut, Listed, Skip, Exec,
                  Record, Serve, Ends, Goto
    <3>2. proc'[p].at = "serving" => Serve(p)
      BY <2>3 DEF IInv, TypeOK, CreateTable, ListApplied, ListCut, Listed, Skip, Exec,
                  Record, Ends, Goto, Stopped
    <3> QED  BY <2>2, <3>1, <3>2, ServesOrNot DEF Versions!Next
  <2>4. CASE UNCHANGED vars
    BY <2>4 DEF vars, Abstract, Serving
  <2>5. ASSUME NEW p \in Processes, Commit(p) PROVE Versions!Next
    <3>1. AtFile(p) \in 1 .. Last
      BY <2>5 DEF Commit, IInv, Locking, Writing, Files
    <3> QED  BY <2>1, <2>5, <3>1 DEF Versions!Next
  <2> QED
    BY <2>3, <2>4, <2>5 DEF Next, Run, Fault, ExecFailed, Crash
<1> QED
  BY <1>1, <1>2, Inductive, PTL DEF VersionSpec, Versions!Spec, Versions!vars, Spec, Abstract
=============================================================================
