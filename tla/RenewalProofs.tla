--------------------------- MODULE RenewalProofs ---------------------------
(***************************************************************************)
(* What holds of Renewal for every set of subscriptions and goroutines,    *)
(* every bound and every combination of faults.                            *)
(***************************************************************************)
EXTENDS RenewalHistory, RenewalExpiry, FiniteSetTheorems, SequenceTheorems, TLAPS

(* A goroutine's label, operation and row agree with each other.           *)
ClientJobOK ==
  \A c \in Clients :
    /\ pc[c] \in {"idle", "lookup", "create", "adjust", "reread", "record", "fail", "tell"}
    /\ pc[c] = "idle" => job[c] = NoJob
    /\ pc[c] # "idle" => job[c].op = "request" /\ job[c].sub \in Subs
    /\ pc[c] \in {"lookup", "create"} => job[c].id = 0
    /\ pc[c] \in {"adjust", "reread", "record", "fail", "tell"} =>
         job[c].id \in DOMAIN rows /\ rows[job[c].id].sub = job[c].sub

AdminJobOK ==
  \A a \in Admins :
    /\ pc[a] \in {"idle", "check", "adjust", "reread", "resolve", "tell"}
    /\ pc[a] = "idle" => job[a] = NoJob
    /\ pc[a] # "idle" => job[a].op \in {"confirm", "reject"} /\ job[a].id \in DOMAIN rows
    /\ pc[a] \in {"adjust", "reread"} => job[a].op = "reject" /\ job[a].sub \in Subs

(* The strengthening of TypeOK that every step preserves.                  *)
TypeInv == TypeOK /\ ClientJobOK /\ AdminJobOK

-----------------------------------------------------------------------------
(* Facts about the operators.                                              *)

(* A plan of positive length asks the panel for a whole number of days.    *)
LEMMA DaysToAddType ==
  ASSUME NEW d \in Nat, NEW e \in Nat, NEW t \in Nat
  PROVE  DaysToAdd(d, e, t) \in Nat
BY DayAssumption DEF DaysToAdd, CeilDays

(* Reading an expiry gives a natural number.                               *)
LEMMA MsToTimeType ==
  ASSUME NEW e \in Int
  PROVE  MsToTime(e) \in Nat
BY DEF MsToTime

(* An update of one row keeps the table a table of the same length.        *)
LEMMA RowUpdate ==
  ASSUME NEW r \in Seq(RowType), NEW i \in DOMAIN r,
         NEW st \in Statuses, NEW af \in Nat,
         NEW q, q = [r EXCEPT ![i] = WithOutcome(@, st, af)]
  PROVE  /\ q \in Seq(RowType) /\ Len(q) = Len(r) /\ DOMAIN q = DOMAIN r
         /\ \A j \in DOMAIN r : q[j].sub = r[j].sub
         /\ \A j \in DOMAIN r : j # i => q[j] = r[j]
         /\ q[i].status = st
<1> DEFINE e == WithOutcome(r[i], st, af)
<1>1. r[i] \in RowType
  BY ElementOfSeq, LenProperties
<1>2. e \in RowType /\ e.sub = r[i].sub /\ e.status = st
  BY <1>1 DEF RowType, WithOutcome
<1>3. q = [r EXCEPT ![i] = e]
  OBVIOUS
<1> HIDE DEF e, RowType
<1>4. i \in 1 .. Len(r)
  BY LenProperties
<1>5. q \in Seq(RowType) /\ Len(q) = Len(r)
  BY <1>2, <1>3, <1>4, ExceptSeq
<1>6. DOMAIN q = DOMAIN r
  BY <1>5, LenProperties
<1>7. \A j \in DOMAIN r : q[j] = IF j = i THEN e ELSE r[j]
  BY <1>3
<1> QED
  BY <1>2, <1>5, <1>6, <1>7

(* A new row keeps the table a table, one row longer.                      *)
LEMMA RowInsert ==
  ASSUME NEW r \in Seq(RowType), NEW x \in RowType
  PROVE  LET q == Append(r, x) IN
         /\ q \in Seq(RowType) /\ Len(q) = Len(r) + 1
         /\ Len(r) \in Nat /\ DOMAIN q = DOMAIN r \cup {Len(r) + 1}
         /\ Len(r) + 1 \notin DOMAIN r
         /\ \A j \in DOMAIN r : q[j] = r[j]
         /\ q[Len(r) + 1] = x
<1> DEFINE q == Append(r, x)
<1>1. /\ q \in Seq(RowType) /\ Len(q) = Len(r) + 1
      /\ \A j \in 1 .. Len(r) : q[j] = r[j]
      /\ q[Len(r) + 1] = x
  BY AppendProperties
<1>2. Len(r) \in Nat /\ DOMAIN r = 1 .. Len(r) /\ DOMAIN q = 1 .. Len(r) + 1
  BY <1>1, LenProperties
<1> QED
  BY <1>1, <1>2

-----------------------------------------------------------------------------
(* Type correctness.                                                       *)

(* The first state has the types.                                          *)
LEMMA TypingInit == Init => TypeInv
<1> SUFFICES ASSUME Init PROVE TypeInv
  OBVIOUS
<1>1. rows \in Seq(RowType) /\ Len(rows) = 0
  BY EmptySeq DEF Init
<1> QED
  BY <1>1, ConstantsAssumption
  DEF Init, TypeInv, TypeOK, ClientJobOK, AdminJobOK, Procs, Job, NoJob, Labels

(* The steps of a handler that leave the table and the panel alone.        *)
LEMMA TypingLocal ==
  ASSUME TypeInv,
         UNCHANGED <<rows, expiry, wire, ledger, told>>,
         now' \in Nat,
         pc' \in [Procs -> Labels], job' \in [Procs -> Job],
         ClientJobOK', AdminJobOK'
  PROVE  TypeInv'
BY DEF TypeInv, TypeOK

(* What the table holds.                                                   *)
LEMMA RowOf ==
  ASSUME TypeInv, NEW i \in DOMAIN rows
  PROVE  /\ rows \in Seq(RowType) /\ rows[i] \in RowType
         /\ rows[i].sub \in Subs /\ rows[i].applied \in Nat /\ rows[i].after \in Nat
         /\ rows[i].status \in Statuses
<1>1. rows \in Seq(RowType)
  BY DEF TypeInv, TypeOK
<1>2. rows[i] \in RowType
  BY <1>1, ElementOfSeq, LenProperties
<1> QED
  BY <1>1, <1>2 DEF RowType

(* A bulkAdjust, whole or in part, moves one expiry in one direction.      *)
Moves(id, kind, t) ==
  expiry' = [expiry EXCEPT ![rows[id].sub] =
               IF @ = 0 THEN 0 ELSE IF kind = "grant" THEN @ + t ELSE @ - t]

(* A whole number of days is a number of ticks.                            *)
LEMMA Ticks ==
  ASSUME NEW n \in Nat
  PROVE  n * Day \in Nat
BY DayAssumption

(* The whole way is one of the parts.                                      *)
LEMMA ShiftEffect ==
  ASSUME TypeInv, NEW id \in DOMAIN rows, NEW kind \in Kinds,
         ShiftFor(id, kind) \/ ShiftPart(id, kind)
  PROVE  \E t \in Nat : Moves(id, kind, t)
<1>1. rows[id].applied \in Nat /\ rows[id].applied * Day \in Nat
  BY RowOf, Ticks
<1>2. CASE ShiftPart(id, kind)
  <2>1. PICK t \in 0 .. rows[id].applied * Day : Moves(id, kind, t)
    BY <1>2 DEF ShiftPart, Moves
  <2>2. t \in Nat
    BY <1>1, <2>1
  <2> QED  BY <2>1, <2>2
<1>3. CASE ShiftFor(id, kind)
  <2> DEFINE n == rows[id].applied
             t == n * Day
             m == IF kind = "grant" THEN n ELSE -n
             s == rows[id].sub
  <2>1. expiry \in [Subs -> Int] /\ s \in Subs
    BY RowOf DEF TypeInv, TypeOK
  <2>2. m * Day = IF kind = "grant" THEN t ELSE -t
    BY <1>1, DayAssumption
  <2>3. expiry' = [expiry EXCEPT ![s] = Shifted(expiry[s], m)]
    BY <1>3 DEF ShiftFor
  <2>4. t \in Nat /\ expiry[s] \in Int
    BY <1>1, <2>1
  <2> HIDE DEF m, t, n
  <2>5. Shifted(expiry[s], m) =
          IF expiry[s] = 0 THEN 0 ELSE IF kind = "grant" THEN expiry[s] + t ELSE expiry[s] - t
    BY <2>2, <2>4 DEF Shifted
  <2> QED  BY <2>3, <2>4, <2>5 DEF Moves
<1> QED  BY <1>2, <1>3

(* A bulkAdjust leaves an expiry for every subscription.                   *)
LEMMA ShiftType ==
  ASSUME TypeInv, NEW id \in DOMAIN rows, NEW kind \in Kinds,
         ShiftFor(id, kind) \/ ShiftPart(id, kind)
  PROVE  expiry' \in [Subs -> Int]
<1>1. PICK t \in Nat : Moves(id, kind, t)
  BY ShiftEffect
<1> QED  BY <1>1, RowOf DEF Moves, TypeInv, TypeOK

(* The calls orphaned by dead goroutines are counted by a natural number.  *)
LEMMA OrphanedType ==
  ASSUME TypeInv, NEW S \in SUBSET Procs
  PROVE  Orphaned(S) \in [Ids \X Kinds -> Nat]
<1>1. IsFiniteSet(Procs)
  BY ConstantsAssumption, FS_Union DEF ConstantsAssumption, Procs
<1>2. ASSUME NEW k \in Ids \X Kinds
      PROVE  Cardinality({p \in S : pc[p] = "adjust" /\ Key(p) = k}) \in Nat
  <2>1. {p \in S : pc[p] = "adjust" /\ Key(p) = k} \in SUBSET Procs
    OBVIOUS
  <2> QED
    BY <1>1, <2>1, FS_Subset, FS_CardinalityType
<1> QED
  BY <1>2 DEF Orphaned, TypeInv, TypeOK

(* A handler that ends, whatever else happens to the wire.                 *)
LEMMA TypingFinish ==
  ASSUME TypeInv, NEW p \in Procs, Finish(p),
         wire' \in [Ids \X Kinds -> Nat],
         UNCHANGED <<rows, expiry, now, ledger, told>>
  PROVE  TypeInv'
BY ConstantsAssumption DEF ConstantsAssumption, TypeInv, TypeOK, ClientJobOK, AdminJobOK,
   Procs, Job, NoJob, Labels, Finish

(* Where a goroutine stands when it is about to call the panel.            *)
LEMMA AdjustKey ==
  ASSUME TypeInv, NEW p \in Procs, pc[p] \in {"adjust", "reread", "tell"}
  PROVE  /\ job[p].id \in DOMAIN rows /\ job[p].id \in Ids /\ KindOf(p) \in Kinds
         /\ Key(p) \in Ids \X Kinds
<1>1. job[p].id \in DOMAIN rows
  BY DEF TypeInv, ClientJobOK, AdminJobOK, Procs
<1>2. DOMAIN rows \subseteq Ids
  BY LenProperties, ConstantsAssumption DEF ConstantsAssumption, TypeInv, TypeOK, Ids
<1> QED
  BY <1>1, <1>2 DEF KindOf, Key, Kinds

(* A row changes in place and its handler goes on to tell of it, or ends.  *)
LEMMA TypingRows ==
  ASSUME TypeInv, NEW p \in Procs,
         rows' \in Seq(RowType), Len(rows') = Len(rows), DOMAIN rows' = DOMAIN rows,
         \A j \in DOMAIN rows : rows'[j].sub = rows[j].sub,
         \/ Goto(p, "tell") /\ UNCHANGED job /\ pc[p] \in {"record", "resolve"}
         \/ Finish(p),
         UNCHANGED <<expiry, now, wire, ledger, told>>
  PROVE  TypeInv'
<1>1. CASE Goto(p, "tell") /\ UNCHANGED job /\ pc[p] \in {"record", "resolve"}
  <2>1. TypeOK'
    BY <1>1 DEF Goto, TypeInv, TypeOK, Labels
  <2>2. ClientJobOK'
    BY <1>1 DEF Goto, TypeInv, TypeOK, ClientJobOK, AdminJobOK, Procs
  <2>3. AdminJobOK'
    BY <1>1 DEF Goto, TypeInv, TypeOK, ClientJobOK, AdminJobOK, Procs
  <2> QED
    BY <2>1, <2>2, <2>3 DEF TypeInv
<1>2. CASE Finish(p)
  <2>1. TypeOK'
    BY <1>2, ConstantsAssumption
    DEF ConstantsAssumption, Finish, TypeInv, TypeOK, Labels, Job, NoJob
  <2>2. ClientJobOK'
    BY <1>2 DEF Finish, TypeInv, TypeOK, ClientJobOK, NoJob, Procs
  <2>3. AdminJobOK'
    BY <1>2 DEF Finish, TypeInv, TypeOK, AdminJobOK, NoJob, Procs
  <2> QED
    BY <2>1, <2>2, <2>3 DEF TypeInv
<1> QED
  BY <1>1, <1>2

(* Every step keeps the types.                                             *)
LEMMA TypingStep == TypeInv /\ [Next]_vars => TypeInv'
<1> SUFFICES ASSUME TypeInv, [Next]_vars PROVE TypeInv'
  OBVIOUS
<1> USE ConstantsAssumption DEF ConstantsAssumption
<1>1. ASSUME NEW c \in Clients, NEW s \in Subs, NEW d \in Plans, StartRequest(c, s, d)
      PROVE  TypeInv'
  BY <1>1 DEF TypeInv, TypeOK, ClientJobOK, AdminJobOK, Procs, Job, NoJob, Labels, StartRequest, Goto
<1>2. ASSUME NEW c \in Clients, LookupForRequest(c)
      PROVE  TypeInv'
  <2> DEFINE e == MsToTime(expiry[job[c].sub])
  <2>1. CASE Finish(c)
    BY <1>2, <2>1 DEF TypeInv, TypeOK, ClientJobOK, AdminJobOK, Procs, Job, NoJob, Labels, LookupForRequest, Goto, Finish
  <2>2. CASE Goto(c, "create") /\ job' = [job EXCEPT ![c].add   = DaysToAdd(job[c].days, e, now),
                                                   ![c].at    = now,
                                                   ![c].after = e]
    <3> DEFINE j == [job[c] EXCEPT !.add = DaysToAdd(job[c].days, e, now), !.at = now, !.after = e]
    <3>1. job[c] \in Job /\ pc[c] = "lookup" /\ job[c].sub \in Subs /\ c \in Procs
      BY <1>2 DEF TypeInv, TypeOK, ClientJobOK, Procs, LookupForRequest
    <3>2. e \in Nat /\ DaysToAdd(job[c].days, e, now) \in Nat
      BY <3>1, MsToTimeType, DaysToAddType DEF TypeInv, TypeOK, Job
    <3>3. j \in Job /\ j.op = job[c].op /\ j.sub = job[c].sub /\ j.id = job[c].id
      BY <3>1, <3>2 DEF TypeInv, TypeOK, Job
    <3>4. job' = [job EXCEPT ![c] = j]
      BY <2>2
    <3> HIDE DEF j, e
    <3>5. job' \in [Procs -> Job] /\ job'[c] = j /\ \A p \in Procs \ {c} : job'[p] = job[p]
      BY <3>1, <3>3, <3>4 DEF TypeInv, TypeOK
    <3>6. pc' \in [Procs -> Labels] /\ pc'[c] = "create" /\ \A p \in Procs \ {c} : pc'[p] = pc[p]
      BY <2>2, <3>1 DEF TypeInv, TypeOK, Goto, Labels
    <3>7. ClientJobOK' /\ AdminJobOK'
      BY <1>2, <3>1, <3>3, <3>5, <3>6 DEF TypeInv, ClientJobOK, AdminJobOK, Procs, LookupForRequest
    <3> QED
      BY <1>2, <3>5, <3>6, <3>7, TypingLocal DEF TypeInv, TypeOK, LookupForRequest
  <2> QED
    BY <1>2, <2>1, <2>2 DEF LookupForRequest
<1>3. ASSUME NEW c \in Clients, CreateRenewal(c)
      PROVE  TypeInv'
  <2>1. ASSUME rows' = Append(rows, Row(job[c])), pc[c] = "create",
               job'  = [job EXCEPT ![c].id = Len(rows) + 1], Goto(c, "adjust"), Len(rows) < MaxRows,
               UNCHANGED <<expiry, now, wire, ledger, told>>
        PROVE  TypeInv'
    <3>1. Row(job[c]) \in RowType /\ Row(job[c]).sub = job[c].sub
      BY <2>1 DEF TypeInv, TypeOK, ClientJobOK, Row, RowType, Job, Procs, Statuses
    <3>2. /\ rows' \in Seq(RowType) /\ Len(rows') = Len(rows) + 1 /\ Len(rows) \in Nat
          /\ DOMAIN rows' = DOMAIN rows \cup {Len(rows) + 1}
          /\ \A j \in DOMAIN rows : rows'[j] = rows[j]
          /\ rows'[Len(rows) + 1] = Row(job[c]) /\ Len(rows) + 1 \notin DOMAIN rows
      <4>1. rows \in Seq(RowType)
        BY DEF TypeInv, TypeOK
      <4> HIDE DEF RowType
      <4> QED
        BY <2>1, <3>1, <4>1, RowInsert
    <3> DEFINE j == [job[c] EXCEPT !.id = Len(rows) + 1]
    <3>3. job[c] \in Job /\ c \in Procs /\ job[c].sub \in Subs /\ job[c].op = "request"
      BY <2>1 DEF TypeInv, TypeOK, ClientJobOK, Procs
    <3>4. j \in Job /\ j.op = job[c].op /\ j.sub = job[c].sub /\ j.id = Len(rows) + 1
      <4>1. Len(rows) + 1 \in 0 .. MaxRows
        BY <2>1, <3>2
      <4> QED
        BY <3>3, <4>1 DEF Job
    <3> HIDE DEF j
    <3>5. job' \in [Procs -> Job] /\ job'[c] = j /\ \A p \in Procs \ {c} : job'[p] = job[p]
      BY <2>1, <3>3, <3>4 DEF TypeInv, TypeOK, j
    <3>6. pc' \in [Procs -> Labels] /\ pc'[c] = "adjust" /\ \A p \in Procs \ {c} : pc'[p] = pc[p]
      BY <2>1, <3>3 DEF TypeInv, TypeOK, Goto, Labels
    <3>7. TypeOK'
      BY <2>1, <3>2, <3>5, <3>6 DEF TypeInv, TypeOK
    <3>8. ClientJobOK'
      BY <3>1, <3>2, <3>3, <3>4, <3>5, <3>6 DEF TypeInv, ClientJobOK, Procs
    <3>9. AdminJobOK'
      BY <3>2, <3>5, <3>6 DEF TypeInv, AdminJobOK, Procs
    <3> QED
      BY <3>7, <3>8, <3>9 DEF TypeInv
  <2>2. ASSUME Finish(c), UNCHANGED <<rows, expiry, now, wire, ledger, told>>
        PROVE  TypeInv'
    BY <2>2 DEF TypeInv, TypeOK, ClientJobOK, AdminJobOK, Procs, Job, NoJob, Labels, Finish
  <2> QED
    BY <1>3, <2>1, <2>2 DEF CreateRenewal
<1>4. ASSUME NEW c \in Clients, RecordOutcome(c)
      PROVE  TypeInv'
  <2>1. job[c].id \in DOMAIN rows /\ job[c].after \in Nat /\ c \in Procs
    BY <1>4 DEF TypeInv, TypeOK, ClientJobOK, RecordOutcome, Procs, Job
  <2>2. /\ rows' \in Seq(RowType) /\ Len(rows') = Len(rows) /\ DOMAIN rows' = DOMAIN rows
        /\ \A j \in DOMAIN rows : rows'[j].sub = rows[j].sub
    <3>1. rows \in Seq(RowType) /\ "pending" \in Statuses
      BY DEF TypeInv, TypeOK, Statuses
    <3>2. \/ rows' = rows
          \/ rows' = [rows EXCEPT ![job[c].id] = WithOutcome(@, "pending", job[c].after)]
      BY <1>4 DEF RecordOutcome
    <3> QED
      BY <2>1, <3>1, <3>2, RowUpdate
  <2> QED
    BY <1>4, <2>1, <2>2, TypingRows DEF RecordOutcome
<1>5. ASSUME NEW c \in Clients, MarkFailed(c)
      PROVE  TypeInv'
  <2>1. job[c].id \in DOMAIN rows /\ c \in Procs
    BY <1>5 DEF TypeInv, TypeOK, ClientJobOK, MarkFailed, Procs, Job
  <2>2. /\ rows' \in Seq(RowType) /\ Len(rows') = Len(rows) /\ DOMAIN rows' = DOMAIN rows
        /\ \A j \in DOMAIN rows : rows'[j].sub = rows[j].sub
    <3>1. rows \in Seq(RowType) /\ "failed" \in Statuses /\ 0 \in Nat
      BY DEF TypeInv, TypeOK, Statuses
    <3>2. rows' = [rows EXCEPT ![job[c].id] = WithOutcome(@, "failed", 0)]
      BY <1>5 DEF MarkFailed
    <3> DEFINE i == job[c].id
               q == rows'
    <3>3. i \in DOMAIN rows /\ q = [rows EXCEPT ![i] = WithOutcome(@, "failed", 0)]
      BY <2>1, <3>2
    <3> HIDE DEF i, q
    <3>4. /\ q \in Seq(RowType) /\ Len(q) = Len(rows) /\ DOMAIN q = DOMAIN rows
          /\ \A j \in DOMAIN rows : q[j].sub = rows[j].sub
      BY <3>1, <3>3, RowUpdate
    <3> QED
      BY <3>4 DEF q
  <2> QED
    BY <1>5, <2>1, <2>2, TypingRows DEF MarkFailed
<1>6. ASSUME NEW a \in Admins, NEW id \in DOMAIN rows, NEW op \in {"confirm", "reject"},
             StartAdmin(a, id, op)
      PROVE  TypeInv'
  <2>1. id \in 0 .. MaxRows
    BY LenProperties DEF TypeInv, TypeOK
  <2> QED
    BY <1>6, <2>1
    DEF StartAdmin, Goto, TypeInv, TypeOK, ClientJobOK, AdminJobOK, Procs, Labels, NoJob, Job
<1>7. ASSUME NEW a \in Admins, CheckPending(a)
      PROVE  TypeInv'
  <2> DEFINE r == rows[job[a].id]
  <2>1. CASE Finish(a)
    BY <1>7, <2>1, TypingFinish DEF CheckPending, Procs, TypeInv, TypeOK
  <2>2. CASE /\ job' = [job EXCEPT ![a].sub = r.sub, ![a].after = r.after]
             /\ Goto(a, IF job[a].op = "confirm" THEN "resolve"
                        ELSE IF r.applied > 0 THEN "adjust" ELSE "reread")
    <3> DEFINE j == [job[a] EXCEPT !.sub = r.sub, !.after = r.after]
    <3>1. job[a] \in Job /\ job[a].id \in DOMAIN rows /\ a \in Procs
          /\ job[a].op \in {"confirm", "reject"}
      BY <1>7 DEF TypeInv, TypeOK, AdminJobOK, CheckPending, Procs
    <3>2. r.sub \in Subs /\ r.after \in Nat
      BY <3>1, RowOf
    <3>3. j \in Job /\ j.op = job[a].op /\ j.id = job[a].id /\ j.sub \in Subs
      BY <3>1, <3>2 DEF Job
    <3>4. job' = [job EXCEPT ![a] = j]
      BY <2>2
    <3> HIDE DEF j
    <3>5. job' \in [Procs -> Job] /\ job'[a] = j /\ \A p \in Procs \ {a} : job'[p] = job[p]
      BY <3>1, <3>3, <3>4 DEF TypeInv, TypeOK
    <3>6. /\ pc' \in [Procs -> Labels] /\ pc'[a] \in {"resolve", "adjust", "reread"}
          /\ pc'[a] # "resolve" => job[a].op = "reject"
          /\ \A p \in Procs \ {a} : pc'[p] = pc[p]
      BY <2>2, <3>1 DEF TypeInv, TypeOK, Goto, Labels
    <3>7. ClientJobOK' /\ AdminJobOK'
      BY <1>7, <3>1, <3>3, <3>5, <3>6 DEF TypeInv, ClientJobOK, AdminJobOK, Procs, CheckPending
    <3> QED
      BY <1>7, <3>5, <3>6, <3>7, TypingLocal DEF TypeInv, TypeOK, CheckPending
  <2> QED
    BY <1>7, <2>1, <2>2 DEF CheckPending
<1>8. ASSUME NEW a \in Admins, ResolveRenewal(a)
      PROVE  TypeInv'
  <2>1. CASE Finish(a) /\ UNCHANGED rows
    BY <1>8, <2>1, TypingFinish DEF ResolveRenewal, Procs, TypeInv, TypeOK
  <2>2. CASE rows[job[a].id].status = "pending" /\ Goto(a, "tell") /\ UNCHANGED job
    <3> DEFINE i == job[a].id
               af == IF job[a].op = "reject" /\ job[a].after > 0
                     THEN job[a].after ELSE rows[i].after
    <3>1. i \in DOMAIN rows /\ job[a].after \in Nat /\ a \in Procs
      BY <1>8 DEF TypeInv, TypeOK, AdminJobOK, ResolveRenewal, Procs, Job
    <3>2. af \in Nat /\ Verdict(job[a].op) \in Statuses
      BY <3>1, RowOf DEF Verdict, Statuses
    <3>3. rows' = [rows EXCEPT ![i] = WithOutcome(@, Verdict(job[a].op), af)]
      BY <1>8, <2>2 DEF ResolveRenewal, Resolved
    <3> HIDE DEF af
    <3>4. /\ rows' \in Seq(RowType) /\ Len(rows') = Len(rows) /\ DOMAIN rows' = DOMAIN rows
          /\ \A j \in DOMAIN rows : rows'[j].sub = rows[j].sub
      BY <3>1, <3>2, <3>3, RowOf, RowUpdate
    <3> QED
      BY <1>8, <2>2, <3>1, <3>4, TypingRows DEF ResolveRenewal
  <2> QED
    BY <1>8, <2>1, <2>2 DEF ResolveRenewal
<1>9. ASSUME NEW p \in Procs, AdjustOk(p)
      PROVE  TypeInv'
  <2>1. /\ job[p].id \in DOMAIN rows /\ KindOf(p) \in Kinds /\ Key(p) \in Ids \X Kinds
        /\ job[p].sub \in Subs
    BY <1>9, AdjustKey DEF AdjustOk, TypeInv, ClientJobOK, AdminJobOK, Procs
  <2>2. expiry' \in [Subs -> Int]
    BY <1>9, <2>1, ShiftType DEF AdjustOk
  <2>3. ledger' \in [Ids \X Kinds -> Nat]
    BY <1>9, <2>1 DEF AdjustOk, TypeInv, TypeOK
  <2>4. TypeOK'
    BY <1>9, <2>2, <2>3 DEF AdjustOk, Goto, TypeInv, TypeOK, Labels
  <2>5. ClientJobOK' /\ AdminJobOK'
    BY <1>9 DEF AdjustOk, Goto, TypeInv, TypeOK, ClientJobOK, AdminJobOK, Procs
  <2> QED
    BY <2>4, <2>5 DEF TypeInv
<1>10. ASSUME NEW p \in Procs, pc[p] = "adjust", OnError(p),
              wire' \in [Ids \X Kinds -> Nat], ledger' \in [Ids \X Kinds -> Nat],
              expiry' \in [Subs -> Int], UNCHANGED <<rows, now, told>>
       PROVE  TypeInv'
  <2>1. CASE job[p].op = "request"
    <3>1. p \in Clients
      BY <1>10, <2>1 DEF TypeInv, AdminJobOK, Procs
    <3>2. Goto(p, "fail") /\ UNCHANGED job
      BY <1>10, <2>1 DEF OnError
    <3>3. TypeOK'
      BY <1>10, <3>2 DEF Goto, TypeInv, TypeOK, Labels
    <3>4. ClientJobOK' /\ AdminJobOK'
      BY <1>10, <3>1, <3>2 DEF Goto, TypeInv, TypeOK, ClientJobOK, AdminJobOK, Procs
    <3> QED
      BY <3>3, <3>4 DEF TypeInv
  <2>2. CASE job[p].op # "request"
    <3>1. Finish(p)
      BY <1>10, <2>2 DEF OnError
    <3>2. TypeOK'
      BY <1>10, <3>1 DEF Finish, TypeInv, TypeOK, Labels, Job, NoJob
    <3>3. ClientJobOK' /\ AdminJobOK'
      BY <1>10, <3>1 DEF Finish, TypeInv, TypeOK, ClientJobOK, AdminJobOK, Procs
    <3> QED
      BY <3>2, <3>3 DEF TypeInv
  <2> QED
    BY <2>1, <2>2
<1>11. ASSUME NEW p \in Procs, AdjustRefused(p)
       PROVE  TypeInv'
  <2>1. pc[p] = "adjust" /\ OnError(p) /\ UNCHANGED <<rows, now, wire, told>>
    BY <1>11 DEF AdjustRefused
  <2>2. job[p].id \in DOMAIN rows /\ KindOf(p) \in Kinds
    BY <2>1 DEF TypeInv, ClientJobOK, AdminJobOK, Procs, KindOf, Kinds
  <2>3. expiry' \in [Subs -> Int]
    BY <1>11, <2>2, ShiftType DEF AdjustRefused, TypeInv, TypeOK
  <2>4. ledger' \in [Ids \X Kinds -> Nat]
    <3>1. ledger \in [Ids \X Kinds -> Nat] /\ Key(p) \in Ids \X Kinds
      BY <2>1, AdjustKey DEF TypeInv, TypeOK
    <3>2. UNCHANGED ledger \/ ledger' = [ledger EXCEPT ![Key(p)] = @ + 1]
      BY <1>11 DEF AdjustRefused
    <3> QED
      BY <3>1, <3>2
  <2>5. wire' \in [Ids \X Kinds -> Nat]
    BY <2>1 DEF TypeInv, TypeOK
  <2> QED
    BY <1>10, <2>1, <2>3, <2>4, <2>5
<1>12. ASSUME NEW p \in Procs, AdjustLost(p)
       PROVE  TypeInv'
  <2>1. wire' \in [Ids \X Kinds -> Nat]
    BY <1>12, AdjustKey DEF AdjustLost, TypeInv, TypeOK
  <2>2. expiry' \in [Subs -> Int] /\ ledger' \in [Ids \X Kinds -> Nat]
    BY <1>12 DEF AdjustLost, TypeInv, TypeOK
  <2> QED
    BY <1>10, <1>12, <2>1, <2>2 DEF AdjustLost
<1>13. ASSUME NEW id \in DOMAIN rows, NEW kind \in Kinds, LateApply(id, kind)
       PROVE  TypeInv'
  <2>1. <<id, kind>> \in Ids \X Kinds
    BY LenProperties DEF TypeInv, TypeOK, Ids
  <2>2. expiry' \in [Subs -> Int]
    BY <1>13, ShiftType DEF LateApply
  <2>3. wire' \in [Ids \X Kinds -> Nat] /\ ledger' \in [Ids \X Kinds -> Nat]
    BY <1>13, <2>1 DEF LateApply, TypeInv, TypeOK
  <2> QED
    BY <1>13, <2>2, <2>3 DEF LateApply, TypeInv, TypeOK, ClientJobOK, AdminJobOK
<1>14. ASSUME NEW p \in Procs, ReadExpiry(p)
       PROVE  TypeInv'
  <2>1. job[p] \in Job /\ job[p].sub \in Subs /\ job[p].id \in DOMAIN rows
    BY <1>14 DEF ReadExpiry, TypeInv, TypeOK, ClientJobOK, AdminJobOK, Procs
  <2>2. MsToTime(expiry[job[p].sub]) \in Nat
    BY <2>1, MsToTimeType DEF TypeInv, TypeOK
  <2> DEFINE j == [job[p] EXCEPT !.after = MsToTime(expiry[job[p].sub])]
  <2>3. j \in Job /\ j.op = job[p].op /\ j.sub = job[p].sub /\ j.id = job[p].id
    BY <2>1, <2>2 DEF Job
  <2>4. job' = job \/ job' = [job EXCEPT ![p] = j]
    BY <1>14 DEF ReadExpiry
  <2> HIDE DEF j
  <2>5. /\ job' \in [Procs -> Job]
        /\ \A q \in Procs \ {p} : job'[q] = job[q]
        /\ job'[p].op = job[p].op /\ job'[p].sub = job[p].sub /\ job'[p].id = job[p].id
    BY <2>1, <2>3, <2>4 DEF TypeInv, TypeOK
  <2>6. /\ pc' \in [Procs -> Labels] /\ \A q \in Procs \ {p} : pc'[q] = pc[q]
        /\ pc'[p] = IF job[p].op = "request" THEN "record" ELSE "resolve"
    BY <1>14 DEF ReadExpiry, Goto, TypeInv, TypeOK, Labels
  <2>7. ClientJobOK' /\ AdminJobOK'
    BY <1>14, <2>1, <2>5, <2>6 DEF ReadExpiry, TypeInv, ClientJobOK, AdminJobOK, Procs
  <2> QED
    BY <1>14, <2>5, <2>6, <2>7, TypingLocal DEF ReadExpiry, TypeInv, TypeOK
<1>15. ASSUME NEW p \in Procs, Tell(p)
       PROVE  TypeInv'
  <2>1. job[p].id \in Ids
    BY <1>15, AdjustKey DEF Tell
  <2>2. told' \subseteq {"new", "confirmed", "rejected"} \X Ids
    BY <1>15, <2>1 DEF Tell, Verdict, TypeInv, TypeOK
  <2>3. TypeOK'
    BY <1>15, <2>2 DEF Tell, Finish, TypeInv, TypeOK, Labels, Job, NoJob
  <2>4. ClientJobOK' /\ AdminJobOK'
    BY <1>15 DEF Tell, Finish, TypeInv, TypeOK, ClientJobOK, AdminJobOK, Procs, NoJob
  <2> QED
    BY <2>3, <2>4 DEF TypeInv
<1>16. ASSUME NEW p \in Procs, ReadError(p)
       PROVE  TypeInv'
  BY <1>16, TypingFinish DEF ReadError, TypeInv, TypeOK
<1>17. ASSUME NEW p \in Procs, StoreError(p)
       PROVE  TypeInv'
  <2>1. CASE Finish(p)
    BY <1>17, <2>1, TypingFinish DEF StoreError, TypeInv, TypeOK
  <2>2. CASE pc[p] = "record" /\ Goto(p, "tell") /\ UNCHANGED job
    BY <1>17, <2>2, TypingRows DEF StoreError, TypeInv, TypeOK
  <2> QED
    BY <1>17, <2>1, <2>2 DEF StoreError
<1>18. ASSUME NEW p \in Procs, Interrupt(p)
       PROVE  TypeInv'
  <2>1. Orphaned({p}) \in [Ids \X Kinds -> Nat]
    BY <1>18, OrphanedType
  <2>2. wire' = wire \/ wire' = Orphaned({p})
    BY <1>18 DEF Interrupt
  <2>3. wire' \in [Ids \X Kinds -> Nat]
    BY <2>1, <2>2 DEF TypeInv, TypeOK
  <2> QED
    BY <1>18, <2>3, TypingFinish DEF Interrupt
<1>19. CASE Crash
  <2>1. wire' \in [Ids \X Kinds -> Nat]
    BY <1>19, OrphanedType DEF Crash
  <2> QED
    BY <1>19, <2>1 DEF Crash, TypeInv, TypeOK, ClientJobOK, AdminJobOK, Procs, Job, NoJob, Labels
<1>20. CASE Tick
  BY <1>20 DEF Tick, TypeInv, TypeOK, ClientJobOK, AdminJobOK
<1>21. CASE UNCHANGED vars
  BY <1>21 DEF vars, TypeInv, TypeOK, ClientJobOK, AdminJobOK
<1> QED
  BY <1>1, <1>2, <1>3, <1>4, <1>5, <1>6, <1>7, <1>8, <1>9, <1>11, <1>12, <1>13,
     <1>14, <1>15, <1>16, <1>17, <1>18, <1>19, <1>20, <1>21
  DEF Next, ClientStep, AdminStep, SharedStep

(* Every variable keeps its type: TypeOK of the runs, for all constants.   *)
THEOREM Typing == Spec => []TypeOK
<1>1. Spec => []TypeInv
  BY TypingInit, TypingStep, PTL DEF Spec
<1>2. TypeInv => TypeOK
  BY DEF TypeInv
<1> QED
  BY <1>1, <1>2, PTL
-----------------------------------------------------------------------------
(***************************************************************************)
(* The life of a request: one open request per subscription whatever       *)
(* fails, and, when admins wait for the request they act on to finish, one *)
(* settlement per row and one true answer to the client.                   *)
(***************************************************************************)

(* How each statement on the table changes it.                             *)

(* An insert adds one pending row, and the subscription had none.          *)
Inserted(c) ==
  /\ pc[c] = "create" /\ pc' = [pc EXCEPT ![c] = "adjust"]
  /\ job' = [job EXCEPT ![c].id = Len(rows) + 1]
  /\ ~HasPending(job[c].sub, 0)
  /\ rows' = Append(rows, Row(job[c]))
  /\ UNCHANGED <<wire, ledger, told>>
  /\ Len(rows) + 1 \notin DOMAIN rows /\ Len(rows) + 1 # 0 /\ 0 \notin DOMAIN rows
  /\ Len(rows) + 1 \in Ids
  /\ DOMAIN rows' = DOMAIN rows \cup {Len(rows) + 1}
  /\ \A j \in DOMAIN rows : rows'[j] = rows[j]
  /\ rows'[Len(rows) + 1] = Row(job[c])

(* CreateRenewal appends one pending row, or leaves the table alone.       *)
LEMMA InsertEffect ==
  ASSUME TypeInv, NEW c \in Clients, CreateRenewal(c)
  PROVE  Inserted(c) \/ (UNCHANGED rows /\ Finish(c))
<1>1. CASE /\ ~HasPending(job[c].sub, 0) /\ Len(rows) < MaxRows
           /\ rows' = Append(rows, Row(job[c]))
           /\ job'  = [job EXCEPT ![c].id = Len(rows) + 1]
           /\ Goto(c, "adjust")
  <2>1. Row(job[c]) \in RowType /\ rows \in Seq(RowType)
    BY DEF CreateRenewal, TypeInv, TypeOK, ClientJobOK, Row, RowType, Job, Procs, Statuses
  <2>2. /\ Len(rows) \in Nat /\ DOMAIN rows = 1 .. Len(rows)
    BY <2>1, LenProperties
  <2>3. /\ DOMAIN rows' = DOMAIN rows \cup {Len(rows) + 1}
        /\ \A j \in DOMAIN rows : rows'[j] = rows[j]
        /\ rows'[Len(rows) + 1] = Row(job[c])
    BY <1>1, <2>1, RowInsert
  <2>4. Len(rows) + 1 \in Ids
    BY <1>1, <2>2, ConstantsAssumption DEF ConstantsAssumption, Ids
  <2>5. pc[c] = "create" /\ UNCHANGED <<wire, ledger, told>>
    BY DEF CreateRenewal
  <2>6. /\ Len(rows) + 1 \notin DOMAIN rows /\ Len(rows) + 1 # 0 /\ 0 \notin DOMAIN rows
    BY <2>2
  <2> QED
    BY <1>1, <2>3, <2>4, <2>5, <2>6 DEF Inserted, Goto
<1> QED
  BY <1>1 DEF CreateRenewal

(* An update moves one row to a status and keeps its subscription.         *)
Moved(p, st) ==
  /\ job[p].id \in DOMAIN rows
  /\ \E af \in Nat : rows' = [rows EXCEPT ![job[p].id] = WithOutcome(@, st, af)]
  /\ DOMAIN rows' = DOMAIN rows
  /\ \A j \in DOMAIN rows : rows'[j].sub = rows[j].sub
  /\ \A j \in DOMAIN rows : j # job[p].id => rows'[j] = rows[j]
  /\ rows'[job[p].id].status = st

(* A status written to one row leaves every other row as it was.           *)
LEMMA MoveEffect ==
  ASSUME TypeInv, NEW p \in Procs, job[p].id \in DOMAIN rows,
         NEW st \in Statuses, NEW af \in Nat,
         rows' = [rows EXCEPT ![job[p].id] = WithOutcome(@, st, af)]
  PROVE  Moved(p, st)
<1>1. rows \in Seq(RowType)
  BY RowOf
<1>2. /\ DOMAIN rows' = DOMAIN rows
      /\ \A j \in DOMAIN rows : rows'[j].sub = rows[j].sub
      /\ \A j \in DOMAIN rows : j # job[p].id => rows'[j] = rows[j]
      /\ rows'[job[p].id].status = st
  BY <1>1, RowUpdate
<1> QED
  BY <1>2 DEF Moved

(* SetRenewalOutcome(pending) moves the row of its own handler only.       *)
LEMMA RecordEffect ==
  ASSUME TypeInv, NEW c \in Clients, RecordOutcome(c)
  PROVE  \/ UNCHANGED rows
         \/ Moved(c, "pending") /\ ~HasPending(rows[job[c].id].sub, job[c].id)
<1>1. /\ c \in Procs /\ job[c].id \in DOMAIN rows /\ job[c].after \in Nat
      /\ rows[job[c].id].sub = job[c].sub /\ "pending" \in Statuses
  BY DEF RecordOutcome, TypeInv, TypeOK, ClientJobOK, Procs, Job, Statuses
<1> QED
  BY <1>1, MoveEffect DEF RecordOutcome

(* SetRenewalOutcome(failed) moves the row of its own handler only.        *)
LEMMA FailEffect ==
  ASSUME TypeInv, NEW c \in Clients, MarkFailed(c)
  PROVE  Moved(c, "failed")
<1>1. c \in Procs /\ job[c].id \in DOMAIN rows /\ "failed" \in Statuses /\ 0 \in Nat
  BY DEF MarkFailed, TypeInv, ClientJobOK, Procs, Statuses
<1> QED
  BY <1>1, MoveEffect DEF MarkFailed

(* ResolveRenewal moves a pending row to its verdict, or nothing.          *)
LEMMA ResolveEffect ==
  ASSUME TypeInv, NEW a \in Admins, ResolveRenewal(a)
  PROVE  \/ UNCHANGED rows /\ Finish(a)
         \/ /\ Moved(a, Verdict(job[a].op)) /\ rows[job[a].id].status = "pending"
            /\ Goto(a, "tell") /\ UNCHANGED job
<1> DEFINE j  == job[a]
           af == IF j.op = "reject" /\ j.after > 0 THEN j.after ELSE rows[j.id].after
<1>1. /\ a \in Procs /\ job[a].id \in DOMAIN rows /\ job[a].after \in Nat
      /\ Verdict(job[a].op) \in Statuses
  BY DEF ResolveRenewal, TypeInv, TypeOK, AdminJobOK, Procs, Job, Verdict, Statuses
<1>2. af \in Nat
  BY <1>1, RowOf
<1>3. CASE /\ rows[j.id].status = "pending" /\ Goto(a, "tell") /\ UNCHANGED job
           /\ rows' = [rows EXCEPT ![j.id] = Resolved(j)]
  <2>1. Resolved(j) = WithOutcome(rows[j.id], Verdict(j.op), af)
    BY DEF Resolved
  <2> HIDE DEF af
  <2> QED
    BY <1>1, <1>2, <1>3, <2>1, MoveEffect
<1> QED
  BY <1>3 DEF ResolveRenewal

(* Every other step leaves the table alone.                                *)
LEMMA TableSteps ==
  ASSUME [Next]_vars
  PROVE  \/ UNCHANGED rows
         \/ \E c \in Clients : CreateRenewal(c) \/ RecordOutcome(c) \/ MarkFailed(c)
         \/ \E a \in Admins : ResolveRenewal(a)
BY DEF Next, vars, ClientStep, AdminStep, SharedStep, StartRequest, LookupForRequest,
       StartAdmin, CheckPending, AdjustOk, AdjustRefused, AdjustLost, ReadExpiry, Tell,
       ReadError, StoreError, Interrupt, LateApply, Crash, Tick

-----------------------------------------------------------------------------
(* One open request per subscription.                                      *)

(* The unique index guards every statement that could make a row pending.  *)
LEMMA OnePendingStep == TypeInv /\ OnePending /\ [Next]_vars => OnePending'
<1> SUFFICES ASSUME TypeInv, OnePending, [Next]_vars PROVE OnePending'
  OBVIOUS
<1>1. CASE UNCHANGED rows
  BY <1>1 DEF OnePending
<1>2. ASSUME NEW c \in Clients, CreateRenewal(c) PROVE OnePending'
  <2>1. CASE Inserted(c)
    <3>1. Row(job[c]).sub = job[c].sub
      BY DEF Row
    <3>2. \A i \in DOMAIN rows : ~(rows[i].sub = job[c].sub /\ rows[i].status = "pending")
      BY <2>1 DEF Inserted, HasPending
    <3> QED
      BY <2>1, <3>1, <3>2 DEF OnePending, Inserted
  <2> QED
    BY <1>1, <1>2, <2>1, InsertEffect
<1>3. ASSUME NEW c \in Clients, RecordOutcome(c) PROVE OnePending'
  <2>1. CASE Moved(c, "pending") /\ ~HasPending(rows[job[c].id].sub, job[c].id)
    <3>1. \A i \in DOMAIN rows : i # job[c].id =>
            ~(rows[i].sub = rows[job[c].id].sub /\ rows[i].status = "pending")
      BY <2>1 DEF HasPending
    <3> QED
      BY <2>1, <3>1 DEF OnePending, Moved
  <2> QED
    BY <1>1, <1>3, <2>1, RecordEffect
<1>4. ASSUME NEW c \in Clients, MarkFailed(c) PROVE OnePending'
  <2>1. Moved(c, "failed")
    BY <1>4, FailEffect
  <2> QED
    BY <2>1 DEF OnePending, Moved
<1>5. ASSUME NEW a \in Admins, ResolveRenewal(a) PROVE OnePending'
  <2>1. CASE Moved(a, Verdict(job[a].op))
    <3>1. Verdict(job[a].op) # "pending"
      BY DEF Verdict
    <3> QED
      BY <2>1, <3>1 DEF OnePending, Moved
  <2> QED
    BY <1>1, <1>5, <2>1, ResolveEffect
<1> QED
  BY <1>1, <1>2, <1>3, <1>4, <1>5, TableSteps

(* A subscription never has two unconfirmed requests (OnePending of the    *)
(* runs), for any number of goroutines, faults and early admins.           *)
THEOREM OnePendingAlways == Spec => []OnePending
<1>1. Init => OnePending
  BY DEF Init, OnePending
<1>2. Spec => []TypeInv
  BY TypingInit, TypingStep, PTL DEF Spec
<1> QED
  BY <1>1, <1>2, OnePendingStep, PTL DEF Spec

-----------------------------------------------------------------------------
(***************************************************************************)
(* The days of a request reach the panel at most once, for any number of   *)
(* goroutines and every combination of faults: a lost answer, an ended     *)
(* context or a crash may leave the call on its way, but nobody ever sends *)
(* it again.                                                               *)
(***************************************************************************)

(* What the grant of a request has come to: applied, or still on its way.  *)
Spent(id) == ledger[<<id, "grant">>] + wire[<<id, "grant">>]

Asks(c, id) == pc[c] = "adjust" /\ job[c].id = id

SpentOnce  == \A id \in Ids : Spent(id) <= 1
NewUnspent == \A id \in Ids : id \notin DOMAIN rows => Spent(id) = 0

(* Who is about to ask for the grant of a request is the first to do so ... *)
AskedUnspent == \A c \in Clients, id \in Ids : Asks(c, id) => Spent(id) = 0

(* ... and alone.                                                          *)
AskedAlone ==
  \A c, d \in Clients, id \in Ids : Asks(c, id) /\ Asks(d, id) => c = d

GrantInv == SpentOnce /\ NewUnspent /\ AskedUnspent /\ AskedAlone

(* Nobody turns to the panel who was not about to.                         *)
NoNewAsker == \A c \in Clients, id \in Ids : Asks(c, id)' => Asks(c, id)

(* The grant of id is as it was, or its one asker spent it.                *)
AskerSpends(id) ==
  \/ Spent(id)' = Spent(id)
  \/ /\ Spent(id)' <= Spent(id) + 1
     /\ \E c \in Clients : Asks(c, id) /\ pc'[c] # "adjust"

-----------------------------------------------------------------------------
(* Counters are numbers.                                                   *)
LEMMA SpentType ==
  ASSUME TypeInv, NEW id \in Ids
  PROVE  /\ ledger[<<id, "grant">>] \in Nat /\ wire[<<id, "grant">>] \in Nat
         /\ Spent(id) \in Nat
<1>1. <<id, "grant">> \in Ids \X Kinds
  BY DEF Kinds
<1> QED
  BY <1>1 DEF TypeInv, TypeOK, Spent

(* Rows have ids.                                                          *)
LEMMA RowIds ==
  ASSUME TypeInv
  PROVE  DOMAIN rows \subseteq Ids
<1>1. rows \in Seq(RowType) /\ Len(rows) <= MaxRows
  BY DEF TypeInv, TypeOK
<1>2. DOMAIN rows = 1 .. Len(rows) /\ Len(rows) \in Nat
  BY <1>1, LenProperties
<1> QED
  BY <1>1, <1>2, ConstantsAssumption DEF ConstantsAssumption, Ids

(* A handler asking for a grant is a client's Request.                     *)
LEMMA GrantKey ==
  ASSUME TypeInv, NEW p \in Procs, pc[p] = "adjust"
  PROVE  /\ p \in Clients => KindOf(p) = "grant"
         /\ p \in Admins => KindOf(p) = "rollback"
BY DEF TypeInv, ClientJobOK, AdminJobOK, KindOf, Procs

(* What steps that create no asker do to the invariant.                    *)
LEMMA GrantKept ==
  ASSUME TypeInv, TypeInv', GrantInv, DOMAIN rows \subseteq DOMAIN rows', NoNewAsker,
         \A id \in Ids : AskerSpends(id)
  PROVE  GrantInv'
<1>1. \A id \in Ids : Spent(id) \in Nat
  BY SpentType
<1>1a. \A id \in Ids : Spent(id)' \in Nat
  <2>1. \A id \in Ids : <<id, "grant">> \in Ids \X Kinds
    BY DEF Kinds
  <2>2. ledger' \in [Ids \X Kinds -> Nat] /\ wire' \in [Ids \X Kinds -> Nat]
    BY DEF TypeInv, TypeOK, Ids, Kinds
  <2>3. \A id \in Ids : ledger'[<<id, "grant">>] \in Nat /\ wire'[<<id, "grant">>] \in Nat
    BY <2>1, <2>2
  <2>4. ASSUME NEW id \in Ids
        PROVE  Spent(id)' \in Nat
    <3>1. Spent(id)' = ledger'[<<id, "grant">>] + wire'[<<id, "grant">>]
      BY DEF Spent
    <3> QED
      BY <2>3, <3>1
  <2> QED
    BY <2>4
<1>2. \A c \in Clients, id \in Ids : Asks(c, id) => id \in DOMAIN rows
  BY DEF Asks, TypeInv, ClientJobOK
<1>3. SpentOnce'
  BY <1>1, <1>1a DEF GrantInv, SpentOnce, AskedUnspent, AskerSpends
<1>4. NewUnspent'
  BY <1>1, <1>2 DEF GrantInv, NewUnspent, AskerSpends
<1>5. AskedUnspent'
  <2> SUFFICES ASSUME NEW c \in Clients, NEW id \in Ids, Asks(c, id)'
               PROVE  Spent(id)' = 0
    BY DEF AskedUnspent
  <2>1. Asks(c, id) /\ Spent(id) = 0 /\ pc'[c] = "adjust"
    BY DEF NoNewAsker, GrantInv, AskedUnspent, Asks
  <2>2. \A d \in Clients : Asks(d, id) => d = c
    BY <2>1 DEF GrantInv, AskedAlone
  <2> QED
    BY <2>1, <2>2 DEF AskerSpends
<1>6. AskedAlone'
  BY DEF GrantInv, AskedAlone, NoNewAsker
<1> QED
  BY <1>3, <1>4, <1>5, <1>6 DEF GrantInv

(* Steps that leave the panel and its calls alone.                         *)
LEMMA GrantUntouched ==
  ASSUME TypeInv, TypeInv', GrantInv, DOMAIN rows \subseteq DOMAIN rows', NoNewAsker,
         UNCHANGED <<wire, ledger>>
  PROVE  GrantInv'
<1>1. \A id \in Ids : AskerSpends(id)
  BY DEF AskerSpends, Spent
<1> QED
  BY <1>1, GrantKept

(* A handler that moves on asks for nothing.                               *)
LEMMA NobodyAsks ==
  ASSUME TypeInv, NEW p \in Procs,
         \/ Finish(p)
         \/ \E l \in Labels : Goto(p, l) /\ (l = "adjust" => p \notin Clients)
                              /\ \A q \in Procs : q # p => job'[q].id = job[q].id
  PROVE  NoNewAsker /\ (p \in Clients => pc'[p] # "adjust")
<1>1. CASE Finish(p)
  BY <1>1 DEF Finish, NoNewAsker, Asks, TypeInv, TypeOK, Procs
<1>2. CASE \E l \in Labels : Goto(p, l) /\ (l = "adjust" => p \notin Clients)
                             /\ \A q \in Procs : q # p => job'[q].id = job[q].id
  <2>1. PICK l \in Labels : Goto(p, l) /\ (l = "adjust" => p \notin Clients)
                             /\ \A q \in Procs : q # p => job'[q].id = job[q].id
    BY <1>2
  <2>2. \A c \in Clients : c # p \/ pc'[c] # "adjust"
    BY <2>1 DEF Goto, TypeInv, TypeOK, Procs
  <2>3. \A c \in Clients : c # p => pc'[c] = pc[c] /\ job'[c].id = job[c].id
    BY <2>1 DEF Goto, TypeInv, TypeOK, Procs
  <2> QED
    BY <2>2, <2>3 DEF NoNewAsker, Asks
<1> QED
  BY <1>1, <1>2

(* A call cut off on its way adds its one grant, or nothing.               *)
LEMMA OrphanedGrant ==
  ASSUME TypeInv, GrantInv, NEW S \in SUBSET Procs, NEW id \in Ids, wire' = Orphaned(S)
  PROVE  \/ wire'[<<id, "grant">>] = wire[<<id, "grant">>]
         \/ /\ wire'[<<id, "grant">>] = wire[<<id, "grant">>] + 1
            /\ \E c \in Clients : c \in S /\ Asks(c, id)
<1> DEFINE k == <<id, "grant">>
           A == {p \in S : pc[p] = "adjust" /\ Key(p) = k}
<1>1. k \in Ids \X Kinds
  BY DEF Kinds
<1>2. wire'[k] = wire[k] + Cardinality(A)
  BY <1>1 DEF Orphaned
<1>3. ASSUME NEW p \in A
      PROVE  p \in Clients /\ p \in S /\ Asks(p, id)
  <2>1. p \in Procs /\ pc[p] = "adjust" /\ job[p].id = id /\ KindOf(p) = "grant"
    BY DEF Key
  <2> QED
    BY <2>1, GrantKey DEF Asks, Procs
<1>4. CASE A = {}
  <2>1. Cardinality(A) = 0
    BY <1>4, FS_EmptySet
  <2>2. wire[k] \in Nat
    BY SpentType
  <2> HIDE DEF A, k
  <2>3. wire'[k] = wire[k]
    BY <1>2, <2>1, <2>2
  <2> QED
    BY <2>3 DEF k
<1>5. CASE A # {}
  <2>1. PICK c : c \in A
    BY <1>5
  <2>2. A = {c}
    BY <1>3, <2>1 DEF GrantInv, AskedAlone
  <2>3. Cardinality(A) = 1
    BY <2>2, FS_Singleton
  <2> HIDE DEF A
  <2> QED
    BY <1>2, <1>3, <2>1, <2>3
<1> QED
  BY <1>4, <1>5

(* A call the panel takes or loses sight of counts for its own key.        *)
LEMMA CounterStep ==
  ASSUME NEW f \in [Ids \X Kinds -> Nat], NEW k \in Ids \X Kinds, NEW n \in Int,
         NEW g, g = [f EXCEPT ![k] = @ + n], NEW id \in Ids
  PROVE  g[<<id, "grant">>] = IF k = <<id, "grant">> THEN f[<<id, "grant">>] + n
                                                    ELSE f[<<id, "grant">>]
<1>1. <<id, "grant">> \in Ids \X Kinds
  BY DEF Kinds
<1> QED
  BY <1>1

(* AdjustOk and AdjustLost: the asker of a request spends its grant.       *)
LEMMA AdjustSpends ==
  ASSUME TypeInv, NEW p \in Procs, pc[p] = "adjust", Key(p) \in Ids \X Kinds,
         p \in Clients => pc'[p] # "adjust",
         \/ ledger' = [ledger EXCEPT ![Key(p)] = @ + 1] /\ UNCHANGED wire
         \/ wire' = [wire EXCEPT ![Key(p)] = @ + 1] /\ UNCHANGED ledger,
         NEW id \in Ids
  PROVE  AskerSpends(id)
<1>1. wire \in [Ids \X Kinds -> Nat] /\ ledger \in [Ids \X Kinds -> Nat]
  BY DEF TypeInv, TypeOK
<1>2. Spent(id)' = ledger'[<<id, "grant">>] + wire'[<<id, "grant">>]
  BY DEF Spent
<1>2a. Spent(id)' = IF Key(p) = <<id, "grant">> THEN Spent(id) + 1 ELSE Spent(id)
  <2>1. CASE ledger' = [ledger EXCEPT ![Key(p)] = @ + 1] /\ UNCHANGED wire
    <3>1. ledger'[<<id, "grant">>] = IF Key(p) = <<id, "grant">>
                                     THEN ledger[<<id, "grant">>] + 1
                                     ELSE ledger[<<id, "grant">>]
      BY <1>1, <2>1, CounterStep
    <3> QED
      BY <1>2, <2>1, <3>1, SpentType DEF Spent
  <2>2. CASE wire' = [wire EXCEPT ![Key(p)] = @ + 1] /\ UNCHANGED ledger
    <3>1. wire'[<<id, "grant">>] = IF Key(p) = <<id, "grant">>
                                   THEN wire[<<id, "grant">>] + 1
                                   ELSE wire[<<id, "grant">>]
      BY <1>1, <2>2, CounterStep
    <3> QED
      BY <1>2, <2>2, <3>1, SpentType DEF Spent
  <2> QED
    BY <2>1, <2>2
<1>3. CASE Key(p) = <<id, "grant">>
  <2>1. p \in Clients /\ Asks(p, id)
    BY <1>3, GrantKey DEF Key, Asks, Procs
  <2>2. Spent(id)' = Spent(id) + 1
    BY <1>2a, <1>3
  <2>3. Spent(id) \in Nat
    BY SpentType
  <2>4. Spent(id)' <= Spent(id) + 1
    BY <2>2, <2>3
  <2> QED
    BY <2>1, <2>4 DEF AskerSpends
<1>4. CASE Key(p) # <<id, "grant">>
  <2>1. Spent(id)' = Spent(id)
    BY <1>2a, <1>4
  <2> QED
    BY <2>1 DEF AskerSpends
<1> QED
  BY <1>3, <1>4

(* LateApply: what was on its way is applied, and stays spent.             *)
LEMMA LateSpends ==
  ASSUME TypeInv, NEW i \in DOMAIN rows, NEW kind \in Kinds, LateApply(i, kind),
         NEW id \in Ids
  PROVE  Spent(id)' = Spent(id)
<1>1. wire \in [Ids \X Kinds -> Nat] /\ ledger \in [Ids \X Kinds -> Nat]
  BY DEF TypeInv, TypeOK
<1>2. <<i, kind>> \in Ids \X Kinds
  BY RowIds
<1>3. wire'[<<id, "grant">>] = IF <<i, kind>> = <<id, "grant">>
                               THEN wire[<<id, "grant">>] + (-1)
                               ELSE wire[<<id, "grant">>]
  <2>1. wire' = [wire EXCEPT ![<<i, kind>>] = @ + (-1)]
    BY <1>1, <1>2 DEF LateApply
  <2> QED
    BY <1>1, <1>2, <2>1, CounterStep
<1>4. ledger'[<<id, "grant">>] = IF <<i, kind>> = <<id, "grant">>
                                 THEN ledger[<<id, "grant">>] + 1
                                 ELSE ledger[<<id, "grant">>]
  <2>1. ledger' = [ledger EXCEPT ![<<i, kind>>] = @ + 1]
    BY DEF LateApply
  <2> QED
    BY <1>1, <1>2, <2>1, CounterStep
<1>5. Spent(id)' = ledger'[<<id, "grant">>] + wire'[<<id, "grant">>]
  BY DEF Spent
<1> QED
  BY <1>3, <1>4, <1>5, SpentType DEF Spent

(* A cut-off call is spent by its asker, who goes idle.                    *)
LEMMA OrphanSpends ==
  ASSUME TypeInv, GrantInv, NEW S \in SUBSET Procs, wire' = Orphaned(S), UNCHANGED ledger,
         \A c \in Clients : c \in S => pc'[c] # "adjust",
         NEW id \in Ids
  PROVE  AskerSpends(id)
<1>1. Spent(id)' = ledger'[<<id, "grant">>] + wire'[<<id, "grant">>]
  BY DEF Spent
<1>2. CASE wire'[<<id, "grant">>] = wire[<<id, "grant">>]
  BY <1>1, <1>2 DEF AskerSpends, Spent
<1>3. CASE /\ wire'[<<id, "grant">>] = wire[<<id, "grant">>] + 1
           /\ \E c \in Clients : c \in S /\ Asks(c, id)
  <2>1. Spent(id)' = Spent(id) + 1
    BY <1>1, <1>3, SpentType DEF Spent
  <2> QED
    BY <1>3, <2>1, SpentType DEF AskerSpends
<1> QED
  BY <1>2, <1>3, OrphanedGrant

(* An insert makes the one asker of an id nobody has used.                 *)
LEMMA GrantInserted ==
  ASSUME TypeInv, GrantInv, NEW c \in Clients, Inserted(c)
  PROVE  GrantInv'
<1> DEFINE n == Len(rows) + 1
<1>1. /\ n \in Ids /\ n \notin DOMAIN rows /\ DOMAIN rows' = DOMAIN rows \cup {n}
      /\ UNCHANGED <<wire, ledger>>
  BY DEF Inserted
<1>2. \A d \in Clients, id \in Ids :
        Asks(d, id)' => IF d = c THEN id = n ELSE Asks(d, id)
  BY DEF Inserted, Asks, TypeInv, TypeOK, Job, Procs
<1>3. \A d \in Clients, id \in Ids : Asks(d, id) => id \in DOMAIN rows
  BY DEF Asks, TypeInv, ClientJobOK
<1>4. \A id \in Ids : Spent(id)' = Spent(id)
  BY <1>1 DEF Spent
<1> HIDE DEF n
<1>5. SpentOnce' /\ NewUnspent'
  BY <1>1, <1>4 DEF GrantInv, SpentOnce, NewUnspent
<1>6. AskedUnspent'
  BY <1>1, <1>2, <1>4 DEF GrantInv, NewUnspent, AskedUnspent
<1>7. AskedAlone'
  BY <1>1, <1>2, <1>3 DEF GrantInv, AskedAlone
<1> QED
  BY <1>5, <1>6, <1>7 DEF GrantInv

(* A handler that ends or goes on, but not to the panel.                   *)
LEMMA GrantMoved ==
  ASSUME TypeInv, TypeInv', GrantInv, NEW p \in Procs, DOMAIN rows \subseteq DOMAIN rows',
         UNCHANGED <<wire, ledger>>,
         \/ Finish(p)
         \/ \E l \in Labels : Goto(p, l) /\ (l = "adjust" => p \notin Clients)
                              /\ \A q \in Procs : q # p => job'[q].id = job[q].id
  PROVE  GrantInv'
<1>1. NoNewAsker
  BY NobodyAsks
<1> QED
  BY <1>1, GrantUntouched

-----------------------------------------------------------------------------
(* No step sends a grant twice.                                            *)
LEMMA GrantStep == TypeInv /\ TypeInv' /\ GrantInv /\ [Next]_vars => GrantInv'
<1> SUFFICES ASSUME TypeInv, TypeInv', GrantInv, [Next]_vars PROVE GrantInv'
  OBVIOUS
<1> USE DEF Procs
<1>a. /\ Clients \cap Admins = {}
      /\ \A l \in {"idle", "lookup", "create", "adjust", "reread", "record", "fail",
                   "check", "resolve", "tell"} : l \in Labels
  BY ConstantsAssumption DEF ConstantsAssumption, Labels
<1>b. job \in [Procs -> Job]
  BY DEF TypeInv, TypeOK
<1>1. ASSUME NEW c \in Clients, NEW s \in Subs, NEW d \in Plans, StartRequest(c, s, d)
      PROVE  GrantInv'
  <2>1. UNCHANGED <<rows, wire, ledger>> /\ Goto(c, "lookup")
        /\ \A q \in Procs : q # c => job'[q].id = job[q].id
    BY <1>1, <1>b DEF StartRequest
  <2> QED
    BY <2>1, <1>a, GrantMoved
<1>2. ASSUME NEW c \in Clients, LookupForRequest(c)
      PROVE  GrantInv'
  <2>1. UNCHANGED <<rows, wire, ledger>>
        /\ \/ Finish(c)
           \/ Goto(c, "create") /\ \A q \in Procs : q # c => job'[q].id = job[q].id
    BY <1>2, <1>b DEF LookupForRequest
  <2> QED
    BY <2>1, <1>a, GrantMoved
<1>3. ASSUME NEW c \in Clients, CreateRenewal(c)
      PROVE  GrantInv'
  <2>1. CASE UNCHANGED rows /\ Finish(c)
    BY <1>3, <2>1, GrantMoved DEF CreateRenewal
  <2> QED
    BY <1>3, <2>1, InsertEffect, GrantInserted
<1>4. ASSUME NEW c \in Clients, RecordOutcome(c)
      PROVE  GrantInv'
  <2>1. DOMAIN rows' = DOMAIN rows
    BY <1>4, RecordEffect DEF Moved
  <2>2. UNCHANGED <<wire, ledger, job>> /\ Goto(c, "tell")
    BY <1>4 DEF RecordOutcome
  <2> QED
    BY <2>1, <2>2, <1>a, GrantMoved
<1>5. ASSUME NEW c \in Clients, MarkFailed(c)
      PROVE  GrantInv'
  <2>1. DOMAIN rows' = DOMAIN rows
    BY <1>5, FailEffect DEF Moved
  <2> QED
    BY <1>5, <2>1, GrantMoved DEF MarkFailed
<1>6. ASSUME NEW a \in Admins, NEW id \in DOMAIN rows, NEW op \in {"confirm", "reject"},
             StartAdmin(a, id, op)
      PROVE  GrantInv'
  <2>1. UNCHANGED <<rows, wire, ledger>> /\ Goto(a, "check")
        /\ \A q \in Procs : q # a => job'[q].id = job[q].id
    BY <1>6, <1>b DEF StartAdmin
  <2> QED
    BY <2>1, <1>a, GrantMoved
<1>7. ASSUME NEW a \in Admins, CheckPending(a)
      PROVE  GrantInv'
  <2>1. UNCHANGED <<rows, wire, ledger>>
        /\ \/ Finish(a)
           \/ /\ \E l \in {"resolve", "adjust", "reread"} : Goto(a, l)
              /\ \A q \in Procs : q # a => job'[q].id = job[q].id
    BY <1>7, <1>b DEF CheckPending
  <2> QED
    BY <2>1, <1>a, GrantMoved
<1>8. ASSUME NEW a \in Admins, ResolveRenewal(a)
      PROVE  GrantInv'
  <2>1. DOMAIN rows' = DOMAIN rows /\ UNCHANGED <<wire, ledger>>
        /\ (Finish(a) \/ (Goto(a, "tell") /\ UNCHANGED job))
    BY <1>8, ResolveEffect DEF Moved, ResolveRenewal
  <2> QED
    BY <2>1, <1>a, GrantMoved
<1>9. ASSUME NEW p \in Procs, AdjustOk(p) \/ AdjustLost(p)
      PROVE  GrantInv'
  <2>1. pc[p] = "adjust" /\ UNCHANGED rows
    BY <1>9 DEF AdjustOk, AdjustLost
  <2>2. \/ ledger' = [ledger EXCEPT ![Key(p)] = @ + 1] /\ UNCHANGED wire
        \/ wire' = [wire EXCEPT ![Key(p)] = @ + 1] /\ UNCHANGED ledger
    BY <1>9 DEF AdjustOk, AdjustLost
  <2>3. Finish(p) \/ \E l \in {"reread", "fail"} : Goto(p, l) /\ UNCHANGED job
    BY <1>9 DEF AdjustOk, AdjustLost, OnError
  <2>4. NoNewAsker /\ (p \in Clients => pc'[p] # "adjust")
    BY <2>3, <1>a, NobodyAsks
  <2>5. \A id \in Ids : AskerSpends(id)
    BY <2>1, <2>2, <2>4, AdjustKey, AdjustSpends
  <2> QED
    BY <2>1, <2>4, <2>5, GrantKept
<1>10. ASSUME NEW p \in Procs, AdjustRefused(p)
       PROVE  GrantInv'
  <2>1. pc[p] = "adjust" /\ UNCHANGED <<rows, wire>>
        /\ (Finish(p) \/ (Goto(p, "fail") /\ UNCHANGED job))
    BY <1>10 DEF AdjustRefused, OnError
  <2>2. CASE UNCHANGED ledger
    BY <2>1, <2>2, <1>a, GrantMoved
  <2>3. CASE ledger' = [ledger EXCEPT ![Key(p)] = @ + 1]
    <3>1. NoNewAsker /\ (p \in Clients => pc'[p] # "adjust")
      BY <2>1, <1>a, NobodyAsks
    <3>2. \A id \in Ids : AskerSpends(id)
      BY <2>1, <2>3, <3>1, AdjustKey, AdjustSpends
    <3> QED
      BY <2>1, <3>1, <3>2, GrantKept
  <2> QED
    BY <1>10, <2>2, <2>3 DEF AdjustRefused
<1>11. ASSUME NEW p \in Procs, ReadExpiry(p)
       PROVE  GrantInv'
  <2>1. UNCHANGED <<rows, wire, ledger>>
        /\ \E l \in {"record", "resolve"} : Goto(p, l)
        /\ \A q \in Procs : q # p => job'[q].id = job[q].id
    BY <1>11, <1>b DEF ReadExpiry
  <2> QED
    BY <2>1, <1>a, GrantMoved
<1>12. ASSUME NEW p \in Procs, Tell(p) \/ ReadError(p)
       PROVE  GrantInv'
  <2>1. UNCHANGED <<rows, wire, ledger>> /\ Finish(p)
    BY <1>12 DEF Tell, ReadError
  <2> QED
    BY <2>1, GrantMoved
<1>13. ASSUME NEW p \in Procs, StoreError(p)
       PROVE  GrantInv'
  <2>1. UNCHANGED <<rows, wire, ledger>>
        /\ (Finish(p) \/ (Goto(p, "tell") /\ UNCHANGED job))
    BY <1>13 DEF StoreError
  <2> QED
    BY <2>1, <1>a, GrantMoved
<1>14. ASSUME NEW p \in Procs, Interrupt(p)
       PROVE  GrantInv'
  <2>1. UNCHANGED <<rows, ledger>> /\ Finish(p)
    BY <1>14 DEF Interrupt
  <2>2. CASE UNCHANGED wire
    BY <2>1, <2>2, GrantMoved
  <2>3. CASE wire' = Orphaned({p})
    <3>1. NoNewAsker /\ (p \in Clients => pc'[p] # "adjust")
      BY <2>1, NobodyAsks
    <3>2. {p} \in SUBSET Procs /\ \A c \in Clients : c \in {p} => pc'[c] # "adjust"
      BY <3>1
    <3>3. \A id \in Ids : AskerSpends(id)
      BY <2>1, <2>3, <3>2, OrphanSpends
    <3> QED
      BY <2>1, <3>1, <3>3, GrantKept
  <2> QED
    BY <1>14, <2>2, <2>3 DEF Interrupt
<1>15. ASSUME NEW i \in DOMAIN rows, NEW kind \in Kinds, LateApply(i, kind)
       PROVE  GrantInv'
  <2>1. UNCHANGED <<rows, pc, job>>
    BY <1>15 DEF LateApply
  <2>2. NoNewAsker
    BY <2>1 DEF NoNewAsker, Asks
  <2>3. \A id \in Ids : AskerSpends(id)
    BY <1>15, LateSpends DEF AskerSpends
  <2> QED
    BY <2>1, <2>2, <2>3, GrantKept
<1>16. ASSUME Crash
       PROVE  GrantInv'
  <2>1. UNCHANGED <<rows, ledger>> /\ \A p \in Procs : pc'[p] = "idle"
    BY <1>16 DEF Crash
  <2>2. PICK S \in SUBSET Procs : wire' = Orphaned(S)
    BY <1>16 DEF Crash
  <2>3. NoNewAsker
    BY <2>1 DEF NoNewAsker, Asks
  <2>4. \A c \in Clients : pc'[c] # "adjust"
    BY <2>1
  <2>5. \A id \in Ids : AskerSpends(id)
    BY <2>1, <2>2, <2>4, OrphanSpends
  <2> QED
    BY <2>1, <2>3, <2>5, GrantKept
<1>17. CASE Tick \/ UNCHANGED vars
  <2>1. UNCHANGED <<rows, wire, ledger, pc, job>>
    BY <1>17 DEF Tick, vars
  <2>2. NoNewAsker
    BY <2>1 DEF NoNewAsker, Asks
  <2> QED
    BY <2>1, <2>2, GrantUntouched
<1> QED
  BY <1>1, <1>2, <1>3, <1>4, <1>5, <1>6, <1>7, <1>8, <1>9, <1>10, <1>11, <1>12, <1>13,
     <1>14, <1>15, <1>16, <1>17
  DEF Next, ClientStep, AdminStep, SharedStep

(* The days of one request reach the panel at most once, counting a call   *)
(* that is still on its way (GrantedOnce of the runs): BulkAdjust is never *)
(* repeated, whatever answer is lost, context ended or process killed, and *)
(* whoever acts first.                                                     *)
THEOREM GrantedOnceAlways == Spec => []GrantedOnce
<1>1. Init => GrantInv
  <2> SUFFICES ASSUME Init PROVE GrantInv
    OBVIOUS
  <2>1. \A id \in Ids : Spent(id) = 0
    BY DEF Init, Spent, Kinds
  <2>2. \A c \in Clients, id \in Ids : ~Asks(c, id)
    BY DEF Init, Asks, Procs
  <2> QED
    BY <2>1, <2>2 DEF GrantInv, SpentOnce, NewUnspent, AskedUnspent, AskedAlone
<1>2. Init => TypeInv
  BY TypingInit
<1>3. TypeInv /\ [Next]_vars => TypeInv'
  BY TypingStep
<1>4. GrantInv => GrantedOnce
  BY DEF GrantInv, SpentOnce, Spent, GrantedOnce
<1> QED
  BY <1>1, <1>2, <1>3, <1>4, GrantStep, PTL DEF Spec

-----------------------------------------------------------------------------
(***************************************************************************)
(* What is paid for is on the panel once it has answered, for any number   *)
(* of handlers, however old the expiry is that the days were computed      *)
(* from: in between only a rollback can take days away.                    *)
(***************************************************************************)

(* The days a Request asks for cover the plan, counted from its read.      *)
Covers(j) == j.after > 0 /\ j.after + j.add * Day >= j.at + j.days * Day

PaidFor(c) ==
  /\ pc[c] \in {"create", "adjust"} =>
       /\ Covers(job[c])
       /\ NeverRolledBack(job[c].sub) => expiry[job[c].sub] >= job[c].after
  /\ pc[c] = "adjust" => rows[job[c].id].applied = job[c].add
  /\ pc[c] = "reread" /\ NeverRolledBack(job[c].sub) =>
       expiry[job[c].sub] >= job[c].at + job[c].days * Day

PaidInv == \A c \in Clients : PaidFor(c)

(* Without a rollback expiries only rise.                                  *)
Rising ==
  \A s \in Subs :
    NeverRolledBack(s)' => NeverRolledBack(s) /\ expiry'[s] >= expiry[s]

(* Rows keep what they are for.                                            *)
RowsKept ==
  /\ DOMAIN rows \subseteq DOMAIN rows'
  /\ \A i \in DOMAIN rows :
       rows'[i].sub = rows[i].sub /\ rows'[i].applied = rows[i].applied

(* c's Request has not gone on, or is not waiting for the panel.           *)
Waits(c) ==
  pc'[c] \in {"create", "adjust", "reread"} => pc'[c] = pc[c] /\ job'[c] = job[c]

(* The days DaysToAdd asks for reach as far as the plan from now on, and   *)
(* there is at least one.                                                  *)
LEMMA DaysToAddCovers ==
  ASSUME NEW d \in Nat, NEW e \in Nat, NEW t \in Nat
  PROVE  /\ e + DaysToAdd(d, e, t) * Day >= t + d * Day
         /\ DaysToAdd(d, e, t) >= d
<1>1. Day \in Nat /\ Day > 0 /\ d * Day \in Nat
  BY DayAssumption, Ticks
<1>2. CASE e > t
  BY <1>1, <1>2 DEF DaysToAdd
<1>3. CASE e <= t
  <2> DEFINE c == CeilDays(t - e)
  <2>1. t - e \in Nat
    BY <1>3
  <2>2. c \in Nat /\ c * Day >= t - e
    <3> DEFINE a == t - e
               q == (a + Day - 1) \div Day
               r == (a + Day - 1) % Day
    <3>1. a + Day - 1 \in Nat
      BY <1>1, <2>1
    <3>2. q \in Nat /\ r \in 0 .. Day - 1 /\ a + Day - 1 = Day * q + r
      BY <1>1, <3>1
    <3>3. c = q
      BY DEF CeilDays
    <3> HIDE DEF c, q, r
    <3>4. Day * q = q * Day /\ q * Day \in Nat
      BY <1>1, <3>2, Ticks
    <3> QED  BY <1>1, <2>1, <3>2, <3>3, <3>4
  <2>3. DaysToAdd(d, e, t) = d + c
    BY <1>3 DEF DaysToAdd
  <2> HIDE DEF c
  <2>4. (d + c) * Day = d * Day + c * Day /\ c * Day \in Nat
    BY <1>1, <2>2, Ticks
  <2> QED  BY <1>1, <2>1, <2>2, <2>3, <2>4
<1> QED  BY <1>2, <1>3

(* What the others do leaves a waiting Request its claim.                  *)
LEMMA PaidKept ==
  ASSUME TypeInv, TypeInv', NEW c \in Clients, PaidFor(c), Rising, RowsKept, Waits(c)
  PROVE  PaidFor(c)'
<1>1. expiry \in [Subs -> Int] /\ expiry' \in [Subs -> Int] /\ c \in Procs
  BY DEF TypeInv, TypeOK, Procs
<1> SUFFICES ASSUME pc'[c] \in {"create", "adjust", "reread"}
             PROVE  PaidFor(c)'
  BY DEF PaidFor
<1>2. pc'[c] = pc[c] /\ job'[c] = job[c] /\ job[c] \in Job /\ job[c].sub \in Subs
  BY <1>1 DEF Waits, TypeInv, TypeOK, ClientJobOK
<1>3. PICK s \in Subs : s = job[c].sub
  BY <1>2
<1>4. /\ NeverRolledBack(s) => NeverRolledBack(job[c].sub)
      /\ NeverRolledBack(job[c].sub)' => NeverRolledBack(s)'
  BY <1>2, <1>3 DEF NeverRolledBack
<1>5. NeverRolledBack(job[c].sub)' =>
        NeverRolledBack(job[c].sub) /\ expiry'[s] >= expiry[s]
  BY <1>4 DEF Rising
<1>6. expiry'[s] \in Int /\ expiry[s] \in Int
  BY <1>1
<1>7. CASE pc[c] \in {"create", "adjust"}
  <2>1. Covers(job[c])'
    BY <1>2, <1>7 DEF PaidFor, Covers
  <2>2. NeverRolledBack(job[c].sub)' => expiry'[s] >= job[c].after
    <3>1. job[c].after \in Nat
      BY <1>2 DEF Job
    <3> QED  BY <1>3, <1>5, <1>6, <1>7, <3>1 DEF PaidFor
  <2>3. pc[c] = "adjust" => rows'[job[c].id].applied = job[c].add
    BY DEF PaidFor, RowsKept, TypeInv, ClientJobOK
  <2> QED  BY <1>2, <1>3, <1>7, <2>1, <2>2, <2>3 DEF PaidFor
<1>8. CASE pc[c] = "reread"
  <2> DEFINE x == job[c].at + job[c].days * Day
  <2>1. x \in Nat
    BY <1>2, Ticks DEF Job
  <2>2. NeverRolledBack(job[c].sub) => expiry[s] >= x
    BY <1>3, <1>8 DEF PaidFor
  <2> HIDE DEF x
  <2>3. NeverRolledBack(job[c].sub)' => expiry'[s] >= x
    BY <1>5, <1>6, <2>1, <2>2
  <2> QED  BY <1>2, <1>3, <1>8, <2>3 DEF PaidFor, x
<1> QED  BY <1>2, <1>7, <1>8

(* Steps that leave the panel alone.                                       *)
LEMMA RisingUntouched ==
  ASSUME RowsKept, UNCHANGED <<expiry, ledger>>, expiry \in [Subs -> Int]
  PROVE  Rising
BY DEF RowsKept, Rising, NeverRolledBack

(* A call the panel applies: more days, or a rollback to be seen.          *)
LEMMA RisingShift ==
  ASSUME TypeInv, NEW id \in DOMAIN rows, NEW kind \in Kinds,
         ShiftFor(id, kind) \/ ShiftPart(id, kind),
         ledger' = [ledger EXCEPT ![<<id, kind>>] = @ + 1], UNCHANGED rows
  PROVE  Rising
<1> SUFFICES ASSUME NEW s \in Subs, NeverRolledBack(s)'
             PROVE  NeverRolledBack(s) /\ expiry'[s] >= expiry[s]
  BY DEF Rising
<1>1. expiry \in [Subs -> Int] /\ ledger \in [Ids \X Kinds -> Nat]
  BY DEF TypeInv, TypeOK
<1>2. DOMAIN rows \subseteq Ids /\ rows[id].sub \in Subs /\ rows[id].applied \in Nat
  BY RowIds, RowOf
<1>3. \A i \in DOMAIN rows : <<i, "rollback">> \in Ids \X Kinds
  BY <1>2 DEF Kinds
<1>4. \A i \in DOMAIN rows :
        ledger'[<<i, "rollback">>] = IF i = id /\ kind = "rollback"
                                     THEN ledger[<<i, "rollback">>] + 1
                                     ELSE ledger[<<i, "rollback">>]
  BY <1>1, <1>3
<1>5. \A i \in DOMAIN rows : rows[i].sub = s => ledger'[<<i, "rollback">>] = 0
  BY DEF NeverRolledBack
<1>6. \A i \in DOMAIN rows : ledger[<<i, "rollback">>] \in Nat
  BY <1>1, <1>3
<1>7. NeverRolledBack(s)
  BY <1>4, <1>5, <1>6 DEF NeverRolledBack
<1>8. rows[id].sub = s => kind = "grant"
  BY <1>4, <1>5, <1>6 DEF Kinds
<1>9. expiry'[s] >= expiry[s]
  <2>1. PICK t \in Nat : Moves(id, kind, t)
    BY ShiftEffect
  <2>2. CASE rows[id].sub # s
    BY <1>1, <2>1, <2>2 DEF Moves
  <2>3. CASE rows[id].sub = s
    <3>1. expiry'[s] = IF expiry[s] = 0 THEN 0 ELSE expiry[s] + t
      BY <1>1, <1>8, <2>1, <2>3 DEF Moves
    <3> QED  BY <1>1, <3>1
  <2> QED  BY <2>2, <2>3
<1> QED  BY <1>7, <1>9

(* The statements on the table keep what a row is for.                     *)
LEMMA MovedKeeps ==
  ASSUME TypeInv, NEW p \in Procs, NEW st \in Statuses, Moved(p, st)
  PROVE  RowsKept
<1>1. PICK af \in Nat : rows' = [rows EXCEPT ![job[p].id] = WithOutcome(@, st, af)]
  BY DEF Moved
<1>2. rows[job[p].id] \in RowType
  BY RowOf DEF Moved
<1>3. /\ WithOutcome(rows[job[p].id], st, af).applied = rows[job[p].id].applied
      /\ WithOutcome(rows[job[p].id], st, af).sub = rows[job[p].id].sub
  BY <1>2 DEF WithOutcome, RowType
<1> QED  BY <1>1, <1>3 DEF Moved, RowsKept

(* No step takes a row away or changes what it is for.                    *)
LEMMA TableKeeps ==
  ASSUME TypeInv, [Next]_vars
  PROVE  RowsKept
<1>1. CASE UNCHANGED rows
  BY <1>1 DEF RowsKept
<1>2. ASSUME NEW c \in Clients, CreateRenewal(c) PROVE RowsKept
  BY <1>1, <1>2, InsertEffect DEF Inserted, RowsKept
<1>3. ASSUME NEW c \in Clients, RecordOutcome(c) PROVE RowsKept
  <2>1. c \in Procs /\ "pending" \in Statuses
    BY DEF Procs, Statuses
  <2> QED  BY <1>1, <1>3, <2>1, RecordEffect, MovedKeeps
<1>4. ASSUME NEW c \in Clients, MarkFailed(c) PROVE RowsKept
  <2>1. c \in Procs /\ "failed" \in Statuses
    BY DEF Procs, Statuses
  <2> QED  BY <1>4, <2>1, FailEffect, MovedKeeps
<1>5. ASSUME NEW a \in Admins, ResolveRenewal(a) PROVE RowsKept
  <2>1. a \in Procs /\ Verdict(job[a].op) \in Statuses
    BY DEF Procs, Statuses, Verdict
  <2> QED  BY <1>1, <1>5, <2>1, ResolveEffect, MovedKeeps
<1> QED  BY <1>1, <1>2, <1>3, <1>4, <1>5, TableSteps

(* LookupForRequest: the handler comes to ask, with the days computed.     *)
LEMMA PaidLookup ==
  ASSUME TypeInv, NEW c \in Clients, LookupForRequest(c), pc'[c] # "idle"
  PROVE  PaidFor(c)'
<1> DEFINE e == MsToTime(expiry[job[c].sub])
<1>1. c \in Procs /\ job \in [Procs -> Job] /\ pc \in [Procs -> Labels] /\ now \in Nat
      /\ expiry \in [Subs -> Int]
  BY DEF TypeInv, TypeOK, Procs
<1>2. job[c] \in Job /\ job[c].sub \in Subs /\ job[c].days \in Nat
  BY <1>1 DEF Job, TypeInv, ClientJobOK, LookupForRequest
<1>3. e \in Nat
  BY <1>1, <1>2, MsToTimeType
<1>4. /\ ~Unlimited(e) /\ pc' = [pc EXCEPT ![c] = "create"]
      /\ job' = [job EXCEPT ![c].add = DaysToAdd(job[c].days, e, now),
                            ![c].at = now, ![c].after = e]
      /\ UNCHANGED <<rows, expiry, ledger>>
  BY <1>1 DEF LookupForRequest, Finish, Goto
<1> HIDE DEF e
<1>5. /\ pc'[c] = "create" /\ job'[c].add = DaysToAdd(job[c].days, e, now)
      /\ job'[c].at = now /\ job'[c].after = e /\ job'[c].days = job[c].days
      /\ job'[c].sub = job[c].sub
  BY <1>1, <1>2, <1>4 DEF Job
<1>6. Covers(job[c])'
  BY <1>1, <1>2, <1>3, <1>4, <1>5, DaysToAddCovers DEF Covers, Unlimited
<1>7. expiry[job[c].sub] >= e
  BY <1>1, <1>2, <1>3, <1>4 DEF e, MsToTime, Unlimited
<1> QED  BY <1>4, <1>5, <1>6, <1>7 DEF PaidFor

(* CreateRenewal: the new row is for the days the handler asks for.       *)
LEMMA PaidInsert ==
  ASSUME TypeInv, NEW c \in Clients, PaidFor(c), Inserted(c), UNCHANGED expiry
  PROVE  PaidFor(c)'
<1> DEFINE n == Len(rows) + 1
<1>1. c \in Procs /\ job \in [Procs -> Job] /\ pc \in [Procs -> Labels]
  BY DEF TypeInv, TypeOK, Procs
<1>2. /\ pc'[c] = "adjust" /\ job'[c] = [job[c] EXCEPT !.id = n] /\ rows'[n] = Row(job[c])
  BY <1>1 DEF Inserted
<1>3. job[c] \in Job /\ job[c].sub \in Subs
  BY <1>1 DEF TypeInv, ClientJobOK, Inserted
<1> HIDE DEF n
<1>4. /\ job'[c].id = n /\ job'[c].sub = job[c].sub /\ job'[c].add = job[c].add
      /\ job'[c].at = job[c].at /\ job'[c].days = job[c].days /\ job'[c].after = job[c].after
  BY <1>2, <1>3 DEF Job
<1>5. rows'[job'[c].id].applied = job'[c].add
  BY <1>2, <1>4 DEF Row
<1>6. Covers(job[c]) /\ (NeverRolledBack(job[c].sub) => expiry[job[c].sub] >= job[c].after)
  BY DEF PaidFor, Inserted
<1>7. Covers(job[c])'
  BY <1>4, <1>6 DEF Covers
<1>8. NeverRolledBack(job[c].sub)' => NeverRolledBack(job[c].sub)
  BY <1>4 DEF NeverRolledBack, Inserted
<1>9. NeverRolledBack(job[c].sub)' => expiry'[job'[c].sub] >= job'[c].after
  BY <1>4, <1>6, <1>8
<1> QED  BY <1>2, <1>5, <1>7, <1>9 DEF PaidFor

(* The answer of the panel: the days asked for are on the expiry.         *)
LEMMA PaidGranted ==
  ASSUME TypeInv, NEW c \in Clients, PaidFor(c), AdjustOk(c), Rising
  PROVE  PaidFor(c)'
<1>1. /\ c \in Procs /\ job \in [Procs -> Job] /\ pc \in [Procs -> Labels]
      /\ expiry \in [Subs -> Int]
  BY DEF TypeInv, TypeOK, Procs
<1>2. /\ pc[c] = "adjust" /\ pc' = [pc EXCEPT ![c] = "reread"] /\ UNCHANGED <<rows, job>>
      /\ ShiftFor(job[c].id, "grant")
  BY GrantKey, <1>1 DEF AdjustOk, Goto
<1>3. /\ job[c].id \in DOMAIN rows /\ rows[job[c].id].sub = job[c].sub
      /\ job[c] \in Job /\ job[c].sub \in Subs /\ rows[job[c].id].applied = job[c].add
  BY <1>1, <1>2 DEF TypeInv, ClientJobOK, PaidFor
<1>4. PICK s \in Subs : s = job[c].sub
  BY <1>3
<1>5. expiry'[s] = Shifted(expiry[s], job[c].add)
  BY <1>1, <1>2, <1>3, <1>4 DEF ShiftFor
<1>6. NeverRolledBack(job[c].sub)' => expiry[s] >= job[c].after
  <2>1. NeverRolledBack(job[c].sub)' => NeverRolledBack(s)'
    BY <1>2, <1>4 DEF NeverRolledBack
  <2>2. NeverRolledBack(s) => NeverRolledBack(job[c].sub)
    BY <1>4
  <2> QED  BY <1>2, <1>4, <2>1, <2>2 DEF Rising, PaidFor
<1>7. job[c].after \in Nat /\ job[c].add \in Nat /\ job[c].at \in Nat /\ job[c].days \in Nat
  BY <1>3 DEF Job
<1>8. Covers(job[c])
  BY <1>2 DEF PaidFor
<1> DEFINE a == job[c].add * Day
           x == job[c].at + job[c].days * Day
<1>9. a \in Nat /\ x \in Nat /\ expiry[s] \in Int
  BY <1>1, <1>7, Ticks
<1>10. job[c].after > 0 /\ job[c].after + a >= x
  BY <1>8 DEF Covers
<1>11. expiry'[s] = IF expiry[s] = 0 THEN 0 ELSE expiry[s] + a
  BY <1>5 DEF Shifted
<1> HIDE DEF a, x
<1>12. NeverRolledBack(job[c].sub)' => expiry'[s] >= x
  BY <1>6, <1>7, <1>9, <1>10, <1>11
<1>13. pc'[c] = "reread"
  BY <1>1, <1>2
<1> QED  BY <1>2, <1>4, <1>12, <1>13 DEF PaidFor, x

(* Without a call applied, or with one, no step lowers an expiry unseen.   *)
LEMMA AlwaysRising ==
  ASSUME TypeInv, [Next]_vars
  PROVE  Rising
<1>1. CASE UNCHANGED <<expiry, ledger>>
  BY <1>1, TableKeeps, RisingUntouched DEF TypeInv, TypeOK
<1>2. ASSUME NEW p \in Procs, AdjustOk(p) PROVE Rising
  <2>1. job[p].id \in DOMAIN rows
    BY <1>2 DEF AdjustOk, TypeInv, ClientJobOK, AdminJobOK, Procs
  <2>2. KindOf(p) \in Kinds
    BY DEF KindOf, Kinds
  <2> QED  BY <1>2, <2>1, <2>2, RisingShift DEF AdjustOk, Key
<1>3. ASSUME NEW id \in DOMAIN rows, NEW kind \in Kinds, LateApply(id, kind) PROVE Rising
  BY <1>3, RisingShift DEF LateApply
<1>4. ASSUME NEW p \in Procs, AdjustRefused(p) PROVE Rising
  <2>1. job[p].id \in DOMAIN rows
    BY <1>4 DEF AdjustRefused, TypeInv, ClientJobOK, AdminJobOK, Procs
  <2>2. KindOf(p) \in Kinds
    BY DEF KindOf, Kinds
  <2>3. CASE /\ ShiftPart(job[p].id, KindOf(p)) /\ UNCHANGED rows
             /\ ledger' = [ledger EXCEPT ![Key(p)] = @ + 1]
    BY <2>1, <2>2, <2>3, RisingShift DEF Key
  <2> QED  BY <1>1, <1>4, <2>3 DEF AdjustRefused
<1>5. \/ UNCHANGED <<expiry, ledger>>
      \/ \E p \in Procs : AdjustOk(p) \/ AdjustRefused(p)
      \/ \E id \in DOMAIN rows, kind \in Kinds : LateApply(id, kind)
  BY DEF Next, vars, ClientStep, AdminStep, SharedStep, StartRequest, LookupForRequest,
         CreateRenewal, RecordOutcome, MarkFailed, StartAdmin, CheckPending, ResolveRenewal,
         AdjustLost, ReadExpiry, Tell, ReadError, StoreError, Interrupt,
         Crash, Tick
<1> QED  BY <1>1, <1>2, <1>3, <1>4, <1>5

(* No other step makes a Request ask, or read back what it asked for.      *)
LEMMA Askers ==
  ASSUME TypeInv, [Next]_vars, NEW c \in Clients,
         ~LookupForRequest(c), ~CreateRenewal(c), ~AdjustOk(c)
  PROVE  Waits(c)
<1>0. /\ pc \in [Procs -> Labels] /\ job \in [Procs -> Job] /\ c \in Procs /\ c \notin Admins
      /\ Clients \subseteq Procs /\ Admins \subseteq Procs
  BY ConstantsAssumption DEF ConstantsAssumption, TypeInv, TypeOK, Procs
<1>1. ASSUME NEW d \in Clients, NEW s \in Subs, NEW n \in Plans, StartRequest(d, s, n)
      PROVE  Waits(c)
  BY <1>0, <1>1 DEF StartRequest, Goto, Waits
<1>2. ASSUME NEW d \in Clients, ClientStep(d)
      PROVE  Waits(c)
  BY <1>0, <1>2 DEF ClientStep, LookupForRequest, CreateRenewal, RecordOutcome, MarkFailed,
                    Goto, Finish, Waits
<1>3. ASSUME NEW a \in Admins, NEW id \in DOMAIN rows, NEW op \in {"confirm", "reject"},
             StartAdmin(a, id, op)
      PROVE  Waits(c)
  BY <1>0, <1>3 DEF StartAdmin, Goto, Waits
<1>4. ASSUME NEW a \in Admins, AdminStep(a)
      PROVE  Waits(c)
  BY <1>0, <1>4 DEF AdminStep, CheckPending, ResolveRenewal, Goto, Finish, Waits
<1>5. ASSUME NEW p \in Procs, SharedStep(p)
      PROVE  Waits(c)
  <2>1. CASE p = c
    BY <1>0, <1>5, <2>1 DEF SharedStep, AdjustRefused, AdjustLost, ReadExpiry, Tell,
                            OnError, Goto, Finish, Waits
  <2>2. CASE p # c
    BY <1>0, <1>5, <2>2 DEF SharedStep, AdjustOk, AdjustRefused, AdjustLost, ReadExpiry, Tell,
                            OnError, Goto, Finish, Waits
  <2> QED  BY <2>1, <2>2
<1>6. ASSUME NEW p \in Procs, ReadError(p) \/ StoreError(p) \/ Interrupt(p)
      PROVE  Waits(c)
  BY <1>0, <1>6 DEF ReadError, StoreError, Interrupt, Goto, Finish, Waits
<1>7. CASE Crash
  BY <1>0, <1>7 DEF Crash, Waits
<1>8. CASE \/ \E id \in DOMAIN rows, kind \in Kinds : LateApply(id, kind)
           \/ Tick \/ UNCHANGED vars
  BY <1>8 DEF LateApply, Tick, vars, Waits
<1> QED  BY <1>1, <1>2, <1>3, <1>4, <1>5, <1>6, <1>7, <1>8 DEF Next

(* Every step keeps the claims.                                           *)
LEMMA PaidStep == TypeInv /\ TypeInv' /\ PaidInv /\ [Next]_vars => PaidInv'
<1> SUFFICES ASSUME TypeInv, TypeInv', PaidInv, [Next]_vars, NEW c \in Clients
             PROVE  PaidFor(c)'
  BY DEF PaidInv
<1>1. PaidFor(c) /\ Rising /\ RowsKept
  BY AlwaysRising, TableKeeps DEF PaidInv
<1>2. c \in Procs /\ pc \in [Procs -> Labels]
  BY DEF Procs, TypeInv, TypeOK
<1>3. CASE LookupForRequest(c) /\ pc'[c] # "idle"
  BY <1>3, PaidLookup
<1>4. CASE CreateRenewal(c) /\ Inserted(c)
  BY <1>1, <1>4, PaidInsert DEF CreateRenewal
<1>5. CASE AdjustOk(c)
  BY <1>1, <1>5, PaidGranted
<1>6. CASE pc'[c] = "idle"
  BY <1>6 DEF PaidFor
<1>7. CASE Waits(c)
  BY <1>1, <1>7, PaidKept
<1>8. CreateRenewal(c) => Inserted(c) \/ pc'[c] = "idle"
  BY <1>2, InsertEffect DEF Finish
<1> QED  BY <1>3, <1>4, <1>5, <1>6, <1>7, <1>8, Askers

(* "The client never receives less than paid": right after its days are    *)
(* granted a subscription runs for the days paid, counted from the         *)
(* request, unless one of its requests was rolled back meanwhile or before *)
(* (PaidUnlessRolledBack of the runs).  Whoever else renews, confirms or    *)
(* fails, and whatever late call the panel gets to.                        *)
THEOREM PaidUnlessRolledBackAlways == Spec => []PaidUnlessRolledBack
<1>1. Init => PaidInv
  BY DEF Init, PaidInv, PaidFor, Procs
<1>2. PaidInv => PaidUnlessRolledBack
  BY DEF PaidInv, PaidFor, PaidUnlessRolledBack
<1>3. Spec => []TypeInv
  BY TypingInit, TypingStep, PTL DEF Spec
<1> QED  BY <1>1, <1>2, <1>3, PaidStep, PTL DEF Spec

-----------------------------------------------------------------------------
(* How a step moves one goroutine through its handler.                     *)

(* An admin finds the row pending and takes it up.                         *)
Takes(p) ==
  /\ p \in Admins /\ pc[p] = "check" /\ pc'[p] \in {"adjust", "reread", "resolve"}
  /\ job'[p].id = job[p].id /\ job'[p].op = job[p].op
  /\ rows[job[p].id].status = "pending" /\ UNCHANGED rows
  /\ job[p].op = "reject" /\ rows[job[p].id].applied > 0 => pc'[p] = "adjust"
  /\ job[p].op = "reject" => pc'[p] # "resolve"

(* A handler at work on a row goes on.                                     *)
Advances(p) ==
  /\ job'[p].id = job[p].id /\ job'[p].op = job[p].op
  /\ \/ pc[p] = "adjust" /\ pc'[p] = "reread" /\ AdjustOk(p)
     \/ pc[p] = "adjust" /\ pc'[p] = "fail" /\ p \in Clients
     \/ pc[p] = "reread" /\ pc'[p] = (IF job[p].op = "request" THEN "record" ELSE "resolve")
     \/ pc[p] = "record" /\ pc'[p] = "tell" /\ p \in Clients
     \/ pc[p] = "resolve" /\ pc'[p] = "tell" /\ ResolveRenewal(p) /\ p \in Admins

(* It stands still, ends, comes nearer to its row, or works on it.         *)
Stays(p)  == pc'[p] = pc[p] /\ job'[p] = job[p]
Ends(p)   == pc'[p] = "idle" /\ job'[p] = NoJob
Begins(p) == /\ pc[p] \in {"idle", "lookup"} /\ pc'[p] \in {"lookup", "create", "check"}
             /\ p \in Clients =>
                  /\ job'[p].id = 0
                  /\ \/ \E s \in Subs, d \in Plans : StartRequest(p, s, d)
                     \/ LookupForRequest(p)
Actor(p)  == \/ Stays(p) \/ Ends(p) \/ Begins(p) \/ Takes(p) \/ Advances(p)
             \/ p \in Clients /\ Inserted(p)

(* A handler that ends, with everybody else where they were.               *)
LEMMA FinishActor ==
  ASSUME TypeInv, NEW p \in Procs, NEW q \in Procs, Finish(q)
  PROVE  Actor(p)
BY DEF Finish, Actor, Stays, Ends, TypeInv, TypeOK

(* What a step makes of a goroutine.                                       *)
LEMMA ActorSteps ==
  ASSUME TypeInv, [Next]_vars, NEW p \in Procs
  PROVE  Actor(p)
<1>0. /\ pc \in [Procs -> Labels] /\ job \in [Procs -> Job]
      /\ Clients \subseteq Procs /\ Admins \subseteq Procs /\ Clients \cap Admins = {}
  BY ConstantsAssumption DEF ConstantsAssumption, TypeInv, TypeOK, Procs
<1>1. ASSUME NEW c \in Clients, NEW s \in Subs, NEW d \in Plans, StartRequest(c, s, d)
      PROVE  Actor(p)
  <2>1. CASE p = c
    BY <1>0, <1>1, <2>1 DEF StartRequest, Goto, Actor, Begins, NoJob
  <2>2. CASE p # c
    BY <1>0, <1>1, <2>2 DEF StartRequest, Goto, Actor, Stays
  <2> QED  BY <2>1, <2>2
<1>2. ASSUME NEW c \in Clients, LookupForRequest(c)
      PROVE  Actor(p)
  <2>1. CASE Finish(c)
    BY <1>0, <2>1, FinishActor
  <2>2. CASE ~Finish(c)
    <3>1. pc[c] = "lookup" /\ Goto(c, "create")
          /\ \E x, y, z : job' = [job EXCEPT ![c].add = x, ![c].at = y, ![c].after = z]
      BY <1>2, <2>2 DEF LookupForRequest
    <3>2. job[c].id = 0
      BY <3>1 DEF TypeInv, ClientJobOK
    <3>3. p # c => Stays(p)
      BY <1>0, <3>1 DEF Goto, Stays
    <3>4. job'[c].id = 0 /\ pc'[c] = "create"
      BY <1>0, <3>1, <3>2 DEF Goto, Job
    <3> QED  BY <1>0, <1>2, <3>1, <3>3, <3>4 DEF Actor, Begins
  <2> QED  BY <2>1, <2>2
<1>3. ASSUME NEW c \in Clients, CreateRenewal(c)
      PROVE  Actor(p)
  <2>1. CASE Finish(c)
    BY <1>0, <2>1, FinishActor
  <2>2. CASE Inserted(c)
    BY <1>0, <2>2 DEF Inserted, Actor, Stays
  <2> QED  BY <1>3, <2>1, <2>2, InsertEffect
<1>4. ASSUME NEW c \in Clients, RecordOutcome(c)
      PROVE  Actor(p)
  BY <1>0, <1>4 DEF RecordOutcome, Goto, Actor, Stays, Advances
<1>5. ASSUME NEW c \in Clients, MarkFailed(c)
      PROVE  Actor(p)
  BY <1>0, <1>5, FinishActor DEF MarkFailed
<1>6. ASSUME NEW a \in Admins, NEW id \in DOMAIN rows, NEW op \in {"confirm", "reject"},
             StartAdmin(a, id, op)
      PROVE  Actor(p)
  <2>1. CASE p = a
    BY <1>0, <1>6, <2>1 DEF StartAdmin, Goto, Actor, Begins
  <2>2. CASE p # a
    BY <1>0, <1>6, <2>2 DEF StartAdmin, Goto, Actor, Stays
  <2> QED  BY <2>1, <2>2
<1>7. ASSUME NEW a \in Admins, CheckPending(a)
      PROVE  Actor(p)
  <2> DEFINE l == IF job[a].op = "confirm" THEN "resolve"
                  ELSE IF rows[job[a].id].applied > 0 THEN "adjust" ELSE "reread"
  <2>1. CASE Finish(a)
    BY <1>0, <2>1, FinishActor
  <2>2. CASE ~Finish(a)
    <3>1. /\ pc[a] = "check" /\ Goto(a, l) /\ UNCHANGED rows
          /\ rows[job[a].id].status = "pending"
          /\ \E x, y : job' = [job EXCEPT ![a].sub = x, ![a].after = y]
      BY <1>7, <2>2 DEF CheckPending
    <3>2. p # a => Stays(p)
      BY <1>0, <3>1 DEF Goto, Stays
    <3>3. job'[a].id = job[a].id /\ job'[a].op = job[a].op /\ pc'[a] = l
      BY <1>0, <3>1 DEF Goto, Job
    <3>4. Takes(a)
      BY <1>0, <3>1, <3>3 DEF Takes
    <3> QED  BY <3>2, <3>4 DEF Actor
  <2> QED  BY <2>1, <2>2
<1>8. ASSUME NEW a \in Admins, ResolveRenewal(a)
      PROVE  Actor(p)
  <2>1. CASE Finish(a)
    BY <1>0, <2>1, FinishActor
  <2>2. CASE Goto(a, "tell") /\ UNCHANGED job
    <3>1. pc[a] = "resolve"
      BY <1>8 DEF ResolveRenewal
    <3>2. p # a => Stays(p)
      BY <1>0, <2>2 DEF Goto, Stays
    <3>3. Advances(a)
      BY <1>0, <1>8, <2>2, <3>1 DEF Goto, Advances
    <3> QED  BY <3>2, <3>3 DEF Actor
  <2> QED  BY <1>8, <2>1, <2>2, ResolveEffect
<1>9. ASSUME NEW q \in Procs, AdjustOk(q)
      PROVE  Actor(p)
  <2>1. pc[q] = "adjust" /\ Goto(q, "reread") /\ UNCHANGED job
    BY <1>9 DEF AdjustOk
  <2>2. p # q => Stays(p)
    BY <1>0, <2>1 DEF Goto, Stays
  <2>3. Advances(q)
    BY <1>0, <1>9, <2>1 DEF Goto, Advances
  <2> QED  BY <2>2, <2>3 DEF Actor
<1>10. ASSUME NEW q \in Procs, AdjustRefused(q) \/ AdjustLost(q)
       PROVE  Actor(p)
  <2>1. pc[q] = "adjust" /\ OnError(q)
    BY <1>10 DEF AdjustRefused, AdjustLost
  <2>2. CASE Finish(q)
    BY <2>2, FinishActor
  <2>3. CASE job[q].op = "request" /\ Goto(q, "fail") /\ UNCHANGED job
    <3>1. q \in Clients
      BY <2>1, <2>3 DEF TypeInv, AdminJobOK, Procs
    <3>2. p # q => Stays(p)
      BY <1>0, <2>3 DEF Goto, Stays
    <3>3. Advances(q)
      BY <1>0, <2>1, <2>3, <3>1 DEF Goto, Advances
    <3> QED  BY <3>2, <3>3 DEF Actor
  <2> QED  BY <2>1, <2>2, <2>3 DEF OnError
<1>11. ASSUME NEW q \in Procs, ReadExpiry(q)
       PROVE  Actor(p)
  <2> DEFINE l == IF job[q].op = "request" THEN "record" ELSE "resolve"
  <2>1. pc[q] = "reread" /\ Goto(q, l)
        /\ (job' = job \/ \E x : job' = [job EXCEPT ![q].after = x])
    BY <1>11 DEF ReadExpiry
  <2>2. p # q => Stays(p)
    BY <1>0, <2>1 DEF Goto, Stays
  <2>3. job'[q].id = job[q].id /\ job'[q].op = job[q].op /\ pc'[q] = l
    BY <1>0, <2>1 DEF Goto, Job
  <2>4. Advances(q)
    BY <2>1, <2>3 DEF Advances
  <2> QED  BY <2>2, <2>4 DEF Actor
<1>12. ASSUME NEW q \in Procs, Tell(q) \/ ReadError(q) \/ Interrupt(q)
       PROVE  Actor(p)
  BY <1>12, FinishActor DEF Tell, ReadError, Interrupt
<1>13. ASSUME NEW q \in Procs, StoreError(q)
       PROVE  Actor(p)
  <2>1. CASE Finish(q)
    BY <2>1, FinishActor
  <2>2. CASE pc[q] = "record" /\ Goto(q, "tell") /\ UNCHANGED job
    <3>1. q \in Clients
      BY <2>2 DEF TypeInv, AdminJobOK, Procs
    <3>2. p # q => Stays(p)
      BY <1>0, <2>2 DEF Goto, Stays
    <3>3. Advances(q)
      BY <1>0, <2>2, <3>1 DEF Goto, Advances
    <3> QED  BY <3>2, <3>3 DEF Actor
  <2> QED  BY <1>13, <2>1, <2>2 DEF StoreError
<1>14. CASE Crash
  BY <1>0, <1>14 DEF Crash, Actor, Ends
<1>15. CASE Tick \/ UNCHANGED vars \/ \E id \in DOMAIN rows, kind \in Kinds : LateApply(id, kind)
  BY <1>15 DEF Tick, vars, LateApply, Actor, Stays
<1> QED
  BY <1>1, <1>2, <1>3, <1>4, <1>5, <1>6, <1>7, <1>8, <1>9, <1>10, <1>11, <1>12, <1>13,
     <1>14, <1>15
  DEF Next, ClientStep, AdminStep, SharedStep

-----------------------------------------------------------------------------
(* How a step changes a row.                                               *)

(* The last word of its Request: the outcome, or that it failed.           *)
Concluded(c, i) ==
  /\ AtWork(c, i)
  /\ \/ RecordOutcome(c) /\ rows'[i].status = "pending" /\ pc'[c] = "tell"
     \/ MarkFailed(c) /\ rows'[i].status = "failed" /\ pc'[c] = "idle"
(* An admin's verdict.                                                     *)
Settled(a, i) ==
  /\ AtWork(a, i) /\ ResolveRenewal(a) /\ pc[a] = "resolve" /\ pc'[a] = "tell"
  /\ rows[i].status = "pending" /\ rows'[i].status = Verdict(job[a].op)

(* A row stays as it is, or somebody at work on it writes its status.      *)
LEMMA RowSteps ==
  ASSUME TypeInv, [Next]_vars, NEW i \in DOMAIN rows
  PROVE  /\ i \in DOMAIN rows' /\ rows'[i].sub = rows[i].sub
         /\ \/ rows'[i] = rows[i]
            \/ \E c \in Clients : Concluded(c, i)
            \/ \E a \in Admins : Settled(a, i)
<1>0. /\ pc \in [Procs -> Labels] /\ Clients \subseteq Procs /\ Admins \subseteq Procs
  BY DEF TypeInv, TypeOK, Procs
<1>1. i \in DOMAIN rows' /\ rows'[i].sub = rows[i].sub
  BY TableKeeps DEF RowsKept
<1>2. ASSUME NEW c \in Clients, CreateRenewal(c)
      PROVE  rows'[i] = rows[i]
  BY <1>2, InsertEffect DEF Inserted
<1>3. ASSUME NEW c \in Clients, RecordOutcome(c)
      PROVE  rows'[i] = rows[i] \/ Concluded(c, i)
  <2>1. pc[c] = "record" /\ pc'[c] = "tell"
    BY <1>0, <1>3 DEF RecordOutcome, Goto
  <2> QED  BY <1>3, <2>1, RecordEffect DEF Moved, Concluded, AtWork, Working
<1>4. ASSUME NEW c \in Clients, MarkFailed(c)
      PROVE  rows'[i] = rows[i] \/ Concluded(c, i)
  <2>1. pc[c] = "fail" /\ pc'[c] = "idle"
    BY <1>0, <1>4 DEF MarkFailed, Finish
  <2> QED  BY <1>4, <2>1, FailEffect DEF Moved, Concluded, AtWork, Working
<1>5. ASSUME NEW a \in Admins, ResolveRenewal(a)
      PROVE  rows'[i] = rows[i] \/ Settled(a, i)
  <2>1. pc[a] = "resolve"
    BY <1>5 DEF ResolveRenewal
  <2>2. Goto(a, "tell") => pc'[a] = "tell"
    BY <1>0 DEF Goto
  <2> QED  BY <1>5, <2>1, <2>2, ResolveEffect DEF Moved, Settled, AtWork, Working
<1> QED  BY <1>1, <1>2, <1>3, <1>4, <1>5, TableSteps

(* A row whose Request is over leaves pending once, whatever fails and     *)
(* however many admins act at once (FinalOnceOver): after the handler's    *)
(* own last update only ResolveRenewal writes the status, and it asks for  *)
(* a pending row.                                                          *)
THEOREM FinalOnceOverAlways == Spec => FinalOnceOver
<1>1. TypeInv /\ [Next]_vars =>
        [\A i \in DOMAIN rows :
           rows[i].status # "pending" /\ ~Running(i)
             => rows'[i].status = rows[i].status]_vars
  <2> SUFFICES ASSUME TypeInv, [Next]_vars, NEW i \in DOMAIN rows,
                      rows[i].status # "pending", ~Running(i)
               PROVE  rows'[i].status = rows[i].status
    OBVIOUS
  <2> QED  BY RowSteps DEF Concluded, Settled, Running
<1>2. Spec => []TypeInv
  BY TypingInit, TypingStep, PTL DEF Spec
<1> QED  BY <1>1, <1>2, PTL DEF Spec, FinalOnceOver

-----------------------------------------------------------------------------
(* What the client is told.                                                *)

(* It is true, or the row's Request wrote over it.                         *)
SaysOrOver(i, v) == rows[i].status = v \/ Is(i, "overwritten")

(* An admin about to tell the client has settled the row that way.         *)
TellsTruth ==
  \A a \in Admins : pc[a] = "tell" => SaysOrOver(job[a].id, Verdict(job[a].op))

ToldTruth ==
  \A i \in Ids, v \in {"confirmed", "rejected"} :
    <<v, i>> \in told => i \in DOMAIN rows /\ SaysOrOver(i, v)

(* A verdict stands, or the history says who wrote over it.                *)
LEMMA VerdictStands ==
  ASSUME TypeInv, [NextHistory]_hvars, NEW i \in DOMAIN rows,
         NEW v \in {"confirmed", "rejected"}, SaysOrOver(i, v)
  PROVE  SaysOrOver(i, v)'
<1>1. [Next]_vars /\ marks \subseteq marks'
  BY DEF NextHistory, hvars, vars
<1>2. CASE Is(i, "overwritten")
  BY <1>1, <1>2 DEF Is, SaysOrOver
<1>3. CASE rows'[i].status = rows[i].status
  BY <1>1, <1>3 DEF SaysOrOver, Is
<1>4. CASE ~Is(i, "overwritten") /\ rows'[i].status # rows[i].status
  <2>1. rows[i].status = v
    BY <1>4 DEF SaysOrOver
  <2>2. PICK c \in Clients : Concluded(c, i)
    BY <1>1, <1>4, <2>1, RowSteps DEF Settled
  <2>3. Happened(i, "overwritten")
    BY <1>4, <2>1, <2>2 DEF Happened, Overwritten, Concluded, AtWork, Kinds
  <2>4. NextHistory
    BY <1>4 DEF hvars, vars
  <2>5. <<i, "overwritten">> \in {m \in (DOMAIN rows) \X Marks : Happened(m[1], m[2])}
    BY <2>3 DEF Marks
  <2> QED  BY <2>4, <2>5 DEF NextHistory, Is, SaysOrOver
<1> QED  BY <1>2, <1>3, <1>4

(* Only a teller adds to what is told.                                     *)
LEMMA ToldSteps ==
  ASSUME TypeInv, [Next]_vars, NEW i \in Ids, NEW v \in {"confirmed", "rejected"},
         <<v, i>> \in told'
  PROVE  \/ <<v, i>> \in told
         \/ \E a \in Admins : pc[a] = "tell" /\ i = job[a].id /\ v = Verdict(job[a].op)
<1>1. ASSUME NEW p \in Procs, Tell(p)
      PROVE  \/ <<v, i>> \in told
             \/ p \in Admins /\ pc[p] = "tell" /\ i = job[p].id /\ v = Verdict(job[p].op)
  <2>1. p \in Clients => job[p].op = "request"
    BY <1>1 DEF Tell, TypeInv, ClientJobOK
  <2>2. p \in Admins => job[p].op # "request"
    BY <1>1 DEF Tell, TypeInv, AdminJobOK
  <2> QED  BY <1>1, <2>1, <2>2 DEF Tell, Procs
<1>2. UNCHANGED told \/ \E p \in Procs : Tell(p)
  BY DEF Next, vars, ClientStep, AdminStep, SharedStep, StartRequest, LookupForRequest,
         CreateRenewal, RecordOutcome, MarkFailed, StartAdmin, CheckPending, ResolveRenewal,
         AdjustOk, AdjustRefused, AdjustLost, ReadExpiry, ReadError, StoreError, Interrupt,
         LateApply, Crash, Tick
<1> QED  BY <1>1, <1>2

(* No step makes a lie of what is told or about to be told.                *)
LEMMA ToldStep ==
  TypeInv /\ TellsTruth /\ ToldTruth /\ [NextHistory]_hvars => (TellsTruth /\ ToldTruth)'
<1> SUFFICES ASSUME TypeInv, TellsTruth, ToldTruth, [NextHistory]_hvars
             PROVE  TellsTruth' /\ ToldTruth'
  OBVIOUS
<1>1. [Next]_vars
  BY DEF NextHistory, hvars, vars
<1>2. \A op : Verdict(op) \in {"confirmed", "rejected"}
  BY DEF Verdict
<1>3. ASSUME NEW a \in Admins, pc'[a] = "tell"
      PROVE  SaysOrOver(job[a].id, Verdict(job[a].op))' 
  <2>1. Actor(a) /\ a \notin Clients /\ a \in Procs
    BY <1>1, ActorSteps, ConstantsAssumption DEF ConstantsAssumption, Procs
  <2>2. CASE Stays(a)
    <3>1. pc[a] = "tell" /\ job'[a] = job[a] /\ job[a].id \in DOMAIN rows
      BY <1>3, <2>2 DEF Stays, TypeInv, AdminJobOK
    <3>2. SaysOrOver(job[a].id, Verdict(job[a].op))
      BY <3>1 DEF TellsTruth
    <3> DEFINE i == job[a].id
               v == Verdict(job[a].op)
    <3>3. i \in DOMAIN rows /\ v \in {"confirmed", "rejected"} /\ SaysOrOver(i, v)
      BY <1>2, <3>1, <3>2
    <3>4. rows'[i].status = v \/ <<i, "overwritten">> \in marks'
      <4> HIDE DEF i, v
      <4> QED  BY <3>3, VerdictStands DEF SaysOrOver, Is
    <3> QED  BY <3>1, <3>4 DEF SaysOrOver, Is
  <2>3. CASE ~Stays(a)
    <3>1. /\ pc[a] = "resolve" /\ ResolveRenewal(a)
          /\ job'[a].id = job[a].id /\ job'[a].op = job[a].op
      BY <1>3, <2>1, <2>3 DEF Actor, Ends, Begins, Takes, Advances
    <3>2. rows'[job[a].id].status = Verdict(job[a].op)
      <4>1. ~Finish(a)
        BY <1>3, <2>1 DEF Finish, TypeInv, TypeOK
      <4> QED  BY <3>1, <4>1, ResolveEffect DEF Moved
    <3> QED  BY <3>1, <3>2 DEF SaysOrOver
  <2> QED  BY <2>2, <2>3
<1>4. ASSUME NEW i \in Ids, NEW v \in {"confirmed", "rejected"}, <<v, i>> \in told'
      PROVE  i \in DOMAIN rows' /\ SaysOrOver(i, v)'
  <2>1. i \in DOMAIN rows /\ SaysOrOver(i, v)
    <3>1. CASE <<v, i>> \in told
      BY <3>1 DEF ToldTruth
    <3>2. ASSUME NEW a \in Admins, pc[a] = "tell", i = job[a].id, v = Verdict(job[a].op)
          PROVE  i \in DOMAIN rows /\ SaysOrOver(i, v)
      BY <3>2 DEF TellsTruth, TypeInv, AdminJobOK
    <3> QED  BY <1>1, <1>4, <3>1, <3>2, ToldSteps
  <2> QED  BY <1>1, <2>1, VerdictStands, RowSteps
<1> QED  BY <1>3, <1>4 DEF TellsTruth, ToldTruth

(* The client is never told "confirmed" or "rejected" of a row whose       *)
(* status says otherwise, but where the row's own Request has written over *)
(* the verdict (ToldTheOutcome of the runs): for any number of goroutines, *)
(* every fault, and admins who act while the request is still running.     *)
THEOREM ToldTheOutcomeAlways == SpecHistory => []ToldTheOutcome
<1>1. InitHistory => TypeInv /\ TellsTruth /\ ToldTruth
  BY TypingInit DEF InitHistory, Init, TellsTruth, ToldTruth, Procs
<1>2. TypeInv /\ [NextHistory]_hvars => TypeInv'
  <2>1. [NextHistory]_hvars => [Next]_vars
    BY DEF NextHistory, hvars, vars
  <2> QED  BY <2>1, TypingStep
<1>3. TypeInv /\ ToldTruth => ToldTheOutcome
  <2> SUFFICES ASSUME TypeInv, ToldTruth PROVE ToldTheOutcome
    OBVIOUS
  <2> QED  BY RowIds DEF ToldTruth, ToldTheOutcome, SaysOrOver
<1> QED  BY <1>1, <1>2, <1>3, ToldStep, PTL DEF SpecHistory

-----------------------------------------------------------------------------
(* The table implements RequestBook.                                       *)

(* No two Requests work on one row.                                        *)
ClientsOwn ==
  \A c, d \in Clients : c # d /\ job[c].id # 0 => job[d].id # job[c].id

(* A row is made by one Request and for it.                                *)
LEMMA ClientsOwnStep == TypeInv /\ ClientsOwn /\ [Next]_vars => ClientsOwn'
<1> SUFFICES ASSUME TypeInv, ClientsOwn, [Next]_vars,
                    NEW c \in Clients, NEW d \in Clients, c # d,
                    job'[c].id # 0, job'[d].id = job'[c].id
             PROVE  FALSE
  BY DEF ClientsOwn
<1>0. c \in Procs /\ d \in Procs /\ pc \in [Procs -> Labels] /\ job \in [Procs -> Job]
  BY DEF TypeInv, TypeOK, Procs
<1>1. \A p \in Clients : job[p].id \in DOMAIN rows \cup {0}
  BY DEF TypeInv, ClientJobOK, NoJob
<1>2. ASSUME NEW p \in Clients
      PROVE  job'[p].id \in {job[p].id, 0} \/ Inserted(p)
  <2>1. Actor(p) /\ p \notin Admins
    BY ActorSteps, ConstantsAssumption DEF ConstantsAssumption, Procs
  <2> QED  BY <2>1 DEF Actor, Stays, Ends, Begins, Takes, Advances, NoJob
<1>3. ASSUME NEW p \in Clients, Inserted(p)
      PROVE  job'[p].id \notin DOMAIN rows \cup {0}
  <2>1. job'[p].id = Len(rows) + 1
    BY <1>0, <1>3 DEF Inserted, Procs, Job
  <2> QED  BY <1>3, <2>1 DEF Inserted
<1>4. ~(Inserted(c) /\ Inserted(d))
  BY <1>0 DEF Inserted
<1> QED  BY <1>1, <1>2, <1>3, <1>4 DEF ClientsOwn

(* A row that is there is not taken up by a Request any more.              *)
LEMMA RunningKept ==
  ASSUME TypeInv, [Next]_vars, NEW i \in DOMAIN rows, Running(i)'
  PROVE  Running(i)
<1>1. PICK c \in Clients : AtWork(c, i)'
  BY DEF Running
<1>2. c \in Procs /\ c \notin Admins /\ Actor(c) /\ job \in [Procs -> Job]
  BY ActorSteps, ConstantsAssumption DEF ConstantsAssumption, Procs, TypeInv, TypeOK
<1>3. job'[c].id = i /\ pc'[c] \in Working
  BY <1>1 DEF AtWork
<1>4. ~Inserted(c)
  BY <1>2, <1>3 DEF Inserted, Job
<1>5. job[c].id = i /\ pc[c] \in Working
  BY <1>2, <1>3, <1>4 DEF Actor, Stays, Ends, Begins, Takes, Advances, Working
<1> QED  BY <1>5 DEF AtWork, Running

(* The running of rows after a step of one goroutine.                      *)
LEMMA RunningAfter ==
  ASSUME TypeInv, ClientsOwn, NEW q \in Procs, \A p \in Procs : p # q => Stays(p),
         NEW i \in DOMAIN rows
  PROVE  /\ q \in Admins \/ (job[q].id # i /\ job'[q].id # i) => HandlerOf(i)' = HandlerOf(i)
         /\ q \in Clients /\ job[q].id = i /\ pc'[q] \notin Working => HandlerOf(i)' = "over"
<1>0. Clients \subseteq Procs /\ Clients \cap Admins = {} /\ i # 0
  BY ConstantsAssumption, LenProperties DEF ConstantsAssumption, Procs, TypeInv, TypeOK
<1>1. ASSUME q \in Admins \/ (job[q].id # i /\ job'[q].id # i)
      PROVE  HandlerOf(i)' = HandlerOf(i)
  <2>1. \A c \in Clients : AtWork(c, i)' <=> AtWork(c, i)
    BY <1>0, <1>1 DEF Stays, AtWork
  <2> QED  BY <2>1 DEF Running, HandlerOf
<1>2. ASSUME q \in Clients, job[q].id = i, pc'[q] \notin Working
      PROVE  HandlerOf(i)' = "over"
  <2>1. \A c \in Clients : c # q => job[c].id # i
    BY <1>0, <1>2 DEF ClientsOwn
  <2>2. \A c \in Clients : ~AtWork(c, i)'
    BY <1>0, <1>2, <2>1 DEF Stays, AtWork
  <2> QED  BY <2>2 DEF Running, HandlerOf
<1> QED  BY <1>1, <1>2

Entry(i) == [sub |-> rows[i].sub, status |-> rows[i].status, handler |-> HandlerOf(i)]
NewEntry(i) == [sub |-> rows'[i].sub, status |-> rows'[i].status, handler |-> HandlerOf(i)']
BookOf   == [i \in DOMAIN rows |-> Entry(i)]

(* Both pictures have the same fields.                                     *)
LEMMA BookAfter == BookOf' = [i \in DOMAIN rows' |-> NewEntry(i)]
BY DEF BookOf, Entry, NewEntry

(* One entry changes.                                                      *)
LEMMA BookUpdate ==
  ASSUME NEW i \in DOMAIN rows, NEW e, NewEntry(i) = e, DOMAIN rows' = DOMAIN rows,
         \A j \in DOMAIN rows : j # i => NewEntry(j) = Entry(j)
  PROVE  BookOf' = [BookOf EXCEPT ![i] = e]
BY BookAfter DEF BookOf

(* A step that leaves the table alone at most ends handlers.               *)
LEMMA BookQuiet ==
  ASSUME TypeInv, [Next]_vars, UNCHANGED rows
  PROVE  \E S \in SUBSET DOMAIN BookOf : Book!Abandon(S)
<1>a. PICK S : S = {i \in DOMAIN rows : HandlerOf(i) # HandlerOf(i)'}
  OBVIOUS
<1>1. \A i \in DOMAIN rows : i \in S => HandlerOf(i) = "running" /\ HandlerOf(i)' = "over"
  BY <1>a, RunningKept DEF HandlerOf
<1>2. \A i \in DOMAIN rows : i \notin S => HandlerOf(i)' = HandlerOf(i)
  BY <1>a
<1>3. S \in SUBSET DOMAIN rows
  BY <1>a
<1>4. ASSUME NEW i \in DOMAIN rows
      PROVE  NewEntry(i) = IF i \in S THEN [Entry(i) EXCEPT !.handler = "over"] ELSE Entry(i)
  BY <1>1, <1>2 DEF NewEntry, Entry
<1>5. BookOf' = [i \in DOMAIN BookOf |->
                   IF i \in S THEN [BookOf[i] EXCEPT !.handler = "over"] ELSE BookOf[i]]
  BY <1>4, BookAfter DEF BookOf
<1>6. \A i \in S : BookOf[i].handler = "running"
  BY <1>1, <1>3 DEF BookOf, Entry
<1>7. DOMAIN BookOf = DOMAIN rows
  BY DEF BookOf
<1>8. Book!Abandon(S)
  BY <1>5, <1>6 DEF Book!Abandon, BookOf, Entry
<1> QED  BY <1>3, <1>7, <1>8

(* An insert submits a request of a subscription that has none open.       *)
LEMMA BookInsert ==
  ASSUME TypeInv, ClientsOwn, NEW c \in Clients, Inserted(c)
  PROVE  \E s \in Subs : Book!Submit(s)
<1>0. rows \in Seq(RowType) /\ Len(rows) \in Nat /\ DOMAIN rows = 1 .. Len(rows)
  BY LenProperties DEF TypeInv, TypeOK
<1>1. PICK s \in Subs : s = job[c].sub
  BY DEF Inserted, TypeInv, ClientJobOK
<1>b. PICK n \in Nat : n = Len(rows) + 1
  BY <1>0
<1> DEFINE x == [sub |-> s, status |-> "pending", handler |-> "running"]
<1>2. \A i \in DOMAIN rows : rows[i].sub = s => rows[i].status # "pending"
  BY <1>0, <1>1 DEF Inserted, HasPending
<1>3. /\ c \in Procs /\ pc'[c] = "adjust" /\ job'[c].id = n /\ job[c].id = 0
      /\ \A p \in Procs : p # c => Stays(p)
  BY <1>b DEF Inserted, Stays, TypeInv, TypeOK, ClientJobOK, Job, Procs
<1>4. HandlerOf(n)' = "running"
  <2>1. job'[c].id = n /\ pc'[c] \in Working
    BY <1>3 DEF Working
  <2>2. AtWork(c, n)'
    BY <2>1 DEF AtWork
  <2>3. Running(n)'
    BY <2>2 DEF Running
  <2> QED  BY <2>3 DEF HandlerOf
<1>5. \A i \in DOMAIN rows : HandlerOf(i)' = HandlerOf(i)
  <2>1. \A i \in DOMAIN rows : job[c].id # i /\ job'[c].id # i
    BY <1>0, <1>b, <1>3
  <2> QED  BY <1>3, <2>1, RunningAfter
<1>6. /\ DOMAIN rows' = 1 .. n
      /\ \A i \in 1 .. Len(rows) : NewEntry(i) = Entry(i)
      /\ NewEntry(n) = x
  <2>1. DOMAIN rows' = 1 .. n
    BY <1>0, <1>b DEF Inserted
  <2>2. \A i \in 1 .. Len(rows) : rows'[i] = rows[i]
    BY <1>0, <1>b DEF Inserted
  <2>3. rows'[n].sub = s /\ rows'[n].status = "pending"
    BY <1>1, <1>b DEF Inserted, Row
  <2> QED  BY <1>0, <1>b, <1>4, <1>5, <2>1, <2>2, <2>3 DEF Entry, NewEntry
<1>7. BookOf' = Append(BookOf, x)
  <2> DEFINE T == [sub : Subs, status : Statuses, handler : {"running", "over"}]
  <2>1. \A i \in DOMAIN rows : Entry(i) \in T
    <3>1. \A i \in DOMAIN rows : HandlerOf(i) \in {"running", "over"}
      BY DEF HandlerOf
    <3> QED  BY <3>1, RowOf DEF Entry
  <2>2. BookOf \in Seq(T) /\ Len(BookOf) = Len(rows)
    BY <1>0, <2>1 DEF BookOf
  <2>3. x \in T
    BY DEF Statuses
  <2> DEFINE ax == Append(BookOf, x)
  <2> HIDE DEF x, T
  <2>4. /\ ax \in Seq(T) /\ Len(ax) = Len(rows) + 1
        /\ \A i \in 1 .. Len(rows) : ax[i] = BookOf[i]
        /\ ax[n] = x
    BY <1>b, <2>2, <2>3, AppendProperties
  <2>5. ax = [i \in 1 .. n |-> ax[i]]
    BY <1>b, <2>4, LenProperties
  <2> HIDE DEF ax
  <2>6. \A i \in 1 .. n : ax[i] = NewEntry(i)
    BY <1>0, <1>b, <1>6, <2>4 DEF BookOf
  <2>7. BookOf' = [i \in 1 .. n |-> NewEntry(i)]
    BY <1>6, BookAfter
  <2> QED  BY <2>5, <2>6, <2>7 DEF ax
<1>8. \A i \in DOMAIN BookOf : BookOf[i].sub = s => BookOf[i].status # "pending"
  BY <1>2 DEF BookOf, Entry
<1>9. Book!Submit(s)
  BY <1>7, <1>8 DEF Book!Submit, Book!OnlyOpen, BookOf, Entry
<1> QED  BY <1>9

(* A verdict settles an open request.                                      *)
LEMMA BookSettle ==
  ASSUME TypeInv, ClientsOwn, NEW a \in Admins, ResolveRenewal(a), ~UNCHANGED rows
  PROVE  \E i \in DOMAIN BookOf, v \in Book!Verdicts : Book!Settle(i, v)
<1>a. PICK i, v : i = job[a].id /\ v = Verdict(job[a].op)
  OBVIOUS
<1>1. /\ Moved(a, v) /\ rows[i].status = "pending" /\ Goto(a, "tell") /\ UNCHANGED job
  BY <1>a, ResolveEffect
<1>2. a \in Procs /\ v \in Book!Verdicts /\ \A p \in Procs : p # a => Stays(p)
  BY <1>a, <1>1 DEF Goto, Stays, TypeInv, TypeOK, Procs, Verdict, Book!Verdicts
<1>3. ASSUME NEW j \in DOMAIN rows PROVE HandlerOf(j)' = HandlerOf(j)
  BY <1>2, RunningAfter
<1>4. /\ i \in DOMAIN rows /\ DOMAIN rows' = DOMAIN rows
      /\ \A j \in DOMAIN rows : j # i => rows'[j] = rows[j]
      /\ rows'[i].sub = rows[i].sub /\ rows'[i].status = v
  BY <1>a, <1>1 DEF Moved
<1> DEFINE e == [Entry(i) EXCEPT !.status = v]
<1>5. /\ \A j \in DOMAIN rows : j # i => NewEntry(j) = Entry(j)
      /\ NewEntry(i) = e
  BY <1>3, <1>4 DEF Entry, NewEntry
<1>6. BookOf' = [BookOf EXCEPT ![i] = e]
  <2> HIDE DEF e
  <2> QED  BY <1>4, <1>5, BookUpdate
<1>7. BookOf' = [BookOf EXCEPT ![i].status = v]
  BY <1>4, <1>6 DEF BookOf
<1>8. BookOf[i].status = "pending" /\ DOMAIN BookOf = DOMAIN rows
  BY <1>1, <1>4 DEF BookOf, Entry
<1>9. Book!Settle(i, v)
  BY <1>7, <1>8 DEF Book!Settle, BookOf, Entry
<1> QED  BY <1>2, <1>4, <1>8, <1>9

(* The last word of a Request concludes it.                                *)
LEMMA BookConclude ==
  ASSUME TypeInv, ClientsOwn, NEW c \in Clients, NEW v \in {"pending", "failed"},
         Moved(c, v), v = "pending" => ~HasPending(rows[job[c].id].sub, job[c].id),
         AtWork(c, job[c].id), pc'[c] \notin Working, job'[c].id \in {job[c].id, 0},
         \A p \in Procs : p # c => Stays(p)
  PROVE  \E i \in DOMAIN BookOf : Book!Conclude(i, v)
<1>a. PICK i : i = job[c].id
  OBVIOUS
<1>1. /\ i \in DOMAIN rows /\ DOMAIN rows' = DOMAIN rows
      /\ \A j \in DOMAIN rows : j # i => rows'[j] = rows[j]
      /\ rows'[i].sub = rows[i].sub /\ rows'[i].status = v
  BY <1>a DEF Moved
<1>2. c \in Procs /\ 0 \notin DOMAIN rows
  BY LenProperties DEF Procs, TypeInv, TypeOK
<1>3. HandlerOf(i) = "running" /\ HandlerOf(i)' = "over"
  BY <1>a, <1>1, <1>2, RunningAfter DEF Running, HandlerOf
<1>4. \A j \in DOMAIN rows : j # i => HandlerOf(j)' = HandlerOf(j)
  BY <1>a, <1>2, RunningAfter
<1>5. v = "pending" =>
        \A j \in DOMAIN rows : j # i /\ rows[j].sub = rows[i].sub => rows[j].status # "pending"
  BY <1>a DEF HasPending
<1> DEFINE e == [sub |-> rows[i].sub, status |-> v, handler |-> "over"]
           d == [sub |-> rows[i].sub, status |-> v, handler |-> HandlerOf(i)]
<1>6. /\ \A j \in DOMAIN rows : j # i => NewEntry(j) = Entry(j)
      /\ NewEntry(i) = e
  BY <1>1, <1>3, <1>4 DEF Entry, NewEntry
<1>7. BookOf' = [BookOf EXCEPT ![i] = e]
  <2> HIDE DEF e
  <2> QED  BY <1>1, <1>6, BookUpdate
<1>8. BookOf' = [[BookOf EXCEPT ![i].status = v] EXCEPT ![i].handler = "over"]
  <2>1. BookOf[i] = Entry(i) /\ i \in DOMAIN BookOf
    BY <1>1 DEF BookOf
  <2>2. [BookOf[i] EXCEPT !.status = v] = d
    BY <2>1 DEF Entry
  <2>3. [d EXCEPT !.handler = "over"] = e
    OBVIOUS
  <2> HIDE DEF e, d
  <2>4. [BookOf EXCEPT ![i].status = v] = [BookOf EXCEPT ![i] = d]
    BY <2>1, <2>2
  <2>5. [[BookOf EXCEPT ![i] = d] EXCEPT ![i].handler = "over"] = [BookOf EXCEPT ![i] = e]
    BY <2>1, <2>3
  <2> QED  BY <1>7, <2>4, <2>5
<1>9. BookOf[i].handler = "running" /\ DOMAIN BookOf = DOMAIN rows
  BY <1>1, <1>3 DEF BookOf, Entry
<1>10. v = "pending" =>
         \A j \in DOMAIN BookOf :
           j # i /\ BookOf[j].sub = BookOf[i].sub => BookOf[j].status # "pending"
  BY <1>1, <1>5 DEF BookOf, Entry
<1>11. Book!Conclude(i, v)
  BY <1>8, <1>9, <1>10 DEF Book!Conclude, Book!OnlyOpen, BookOf, Entry
<1> QED  BY <1>1, <1>9, <1>11

(* What a step does to the book.                                           *)
LEMMA BookMoves == TypeInv /\ ClientsOwn /\ [Next]_vars => [Book!Next]_BookOf
<1> SUFFICES ASSUME TypeInv, ClientsOwn, [Next]_vars
             PROVE  \/ \E s \in Subs : Book!Submit(s)
                    \/ \E i \in DOMAIN BookOf, v \in Book!Verdicts : Book!Settle(i, v)
                    \/ \E i \in DOMAIN BookOf, v \in {"pending", "failed"} : Book!Conclude(i, v)
                    \/ \E S \in SUBSET DOMAIN BookOf : Book!Abandon(S)
  BY DEF Book!Next, BookOf, Entry
<1>0. /\ pc \in [Procs -> Labels] /\ job \in [Procs -> Job] /\ Clients \subseteq Procs
  BY DEF TypeInv, TypeOK, Procs
<1>1. CASE UNCHANGED rows
  BY <1>1, BookQuiet
<1>2. ASSUME NEW c \in Clients, RecordOutcome(c), ~UNCHANGED rows
      PROVE  \E i \in DOMAIN BookOf : Book!Conclude(i, "pending")
  <2>1. /\ AtWork(c, job[c].id) /\ pc'[c] \notin Working /\ UNCHANGED job
        /\ \A p \in Procs : p # c => Stays(p)
    BY <1>0, <1>2 DEF RecordOutcome, Goto, AtWork, Working, Stays
  <2>2. Moved(c, "pending") /\ ~HasPending(rows[job[c].id].sub, job[c].id)
    BY <1>2, RecordEffect
  <2>3. "pending" \in {"pending", "failed"}
    OBVIOUS
  <2> QED  BY <2>1, <2>2, <2>3, BookConclude
<1>3. ASSUME NEW c \in Clients, MarkFailed(c)
      PROVE  \E i \in DOMAIN BookOf : Book!Conclude(i, "failed")
  <2>1. /\ AtWork(c, job[c].id) /\ pc'[c] \notin Working /\ job'[c].id = 0
        /\ \A p \in Procs : p # c => Stays(p)
    BY <1>0, <1>3 DEF MarkFailed, Finish, AtWork, Working, Stays, NoJob
  <2>2. Moved(c, "failed")
    BY <1>3, FailEffect
  <2>3. "failed" \in {"pending", "failed"} /\ "failed" # "pending"
    OBVIOUS
  <2> QED  BY <2>1, <2>2, <2>3, BookConclude
<1> QED
  BY <1>1, <1>2, <1>3, BookInsert, BookSettle, InsertEffect, TableSteps

(* Seen from outside, the renewal service is a RequestBook (BookSpec of    *)
(* the runs), for any number of goroutines and admins at any time, every   *)
(* fault included: one open request, one settlement, and no change after   *)
(* it but the last word of the request's own handler.                      *)
THEOREM ImplementsRequestBook == Spec => BookSpec
<1>1. Init => Book!Init
  <2>1. Init => [i \in DOMAIN rows |-> Entry(i)] = <<>>
    BY DEF Init
  <2> QED
    BY <2>1 DEF Book!Init, Entry
<1>2. Init => TypeInv /\ ClientsOwn
  BY TypingInit DEF Init, ClientsOwn, NoJob, Procs
<1>3. TypeInv /\ ClientsOwn /\ [Next]_vars => (TypeInv /\ ClientsOwn)'
  BY TypingStep, ClientsOwnStep
<1>4. BookOf = [i \in DOMAIN rows |->
                  [sub |-> rows[i].sub, status |-> rows[i].status, handler |-> HandlerOf(i)]]
  BY DEF BookOf, Entry
<1> QED
  BY <1>1, <1>2, <1>3, <1>4, BookMoves, PTL DEF BookSpec, Book!Spec, Spec, BookOf, Entry

-----------------------------------------------------------------------------
(***************************************************************************)
(* The books of the panel and the table, for any number of goroutines,     *)
(* every fault, and admins at any time.                                    *)
(***************************************************************************)

(* Every request is for days.                                              *)
Positive ==
  /\ \A i \in DOMAIN rows : rows[i].applied > 0
  /\ \A c \in Clients : /\ pc[c] = "lookup" => job[c].days > 0
                        /\ pc[c] = "create" => job[c].add > 0

(* A plan has days, and a debt only adds to them.                          *)
LEMMA PositiveStep == TypeInv /\ Positive /\ [Next]_vars => Positive'
<1> SUFFICES ASSUME TypeInv, Positive, [Next]_vars PROVE Positive'
  OBVIOUS
<1>0. /\ pc \in [Procs -> Labels] /\ job \in [Procs -> Job] /\ Clients \subseteq Procs
      /\ now \in Nat /\ expiry \in [Subs -> Int]
  BY DEF TypeInv, TypeOK, Procs
<1>1. \A i \in DOMAIN rows' : rows'[i].applied > 0
  <2>1. \A i \in DOMAIN rows : i \in DOMAIN rows' /\ rows'[i].applied > 0
    BY TableKeeps DEF Positive, RowsKept
  <2>2. ASSUME NEW c \in Clients, Inserted(c)
        PROVE  \A i \in DOMAIN rows' : rows'[i].applied > 0
    <3>1. Row(job[c]).applied > 0
      BY <2>2 DEF Positive, Row, Inserted
    <3> QED  BY <2>1, <2>2, <3>1 DEF Inserted
  <2>3. CASE DOMAIN rows' = DOMAIN rows
    BY <2>1, <2>3
  <2>4. ASSUME NEW c \in Clients, CreateRenewal(c) \/ RecordOutcome(c) \/ MarkFailed(c)
        PROVE  Inserted(c) \/ DOMAIN rows' = DOMAIN rows
    BY <2>4, InsertEffect, RecordEffect, FailEffect DEF Moved
  <2>5. ASSUME NEW a \in Admins, ResolveRenewal(a)
        PROVE  DOMAIN rows' = DOMAIN rows
    BY <2>5, ResolveEffect DEF Moved
  <2> QED  BY <2>2, <2>3, <2>4, <2>5, TableSteps
<1>2. ASSUME NEW c \in Clients
      PROVE  /\ pc'[c] = "lookup" => job'[c].days > 0
             /\ pc'[c] = "create" => job'[c].add > 0
  <2>1. ASSUME NEW s \in Subs, NEW d \in Plans, StartRequest(c, s, d)
        PROVE  pc'[c] = "lookup" /\ job'[c].days > 0
    <3>1. d > 0
      BY ConstantsAssumption DEF ConstantsAssumption
    <3> QED  BY <1>0, <2>1, <3>1 DEF StartRequest, Goto, NoJob
  <2>2. CASE LookupForRequest(c)
    <3> DEFINE e == MsToTime(expiry[job[c].sub])
    <3>1. /\ job[c] \in Job /\ job[c].sub \in Subs /\ job[c].days \in Nat /\ job[c].days > 0
      BY <1>0, <2>2 DEF Job, TypeInv, ClientJobOK, LookupForRequest, Positive
    <3>2. e \in Nat
      BY <1>0, <3>1, MsToTimeType
    <3>3. DaysToAdd(job[c].days, e, now) >= job[c].days /\ DaysToAdd(job[c].days, e, now) \in Nat
      BY <1>0, <3>1, <3>2, DaysToAddCovers, DaysToAddType
    <3>4. \/ pc'[c] = "idle"
          \/ pc'[c] = "create" /\ job'[c].add = DaysToAdd(job[c].days, e, now)
      BY <1>0, <2>2, <3>1 DEF LookupForRequest, Finish, Goto, Job
    <3> HIDE DEF e
    <3> QED  BY <3>1, <3>3, <3>4
  <2>3. CASE Stays(c)
    BY <2>3 DEF Positive, Stays
  <2>4. CASE pc'[c] \notin {"lookup", "create"}
    BY <2>4
  <2>5. c \notin Admins /\ Actor(c)
    BY <1>0, ActorSteps, ConstantsAssumption DEF ConstantsAssumption
  <2> QED
    BY <1>0, <2>1, <2>2, <2>3, <2>4, <2>5 DEF Actor, Ends, Begins, Takes, Advances, Inserted
<1> QED  BY <1>1, <1>2 DEF Positive

-----------------------------------------------------------------------------
(* The calls made for a request.                                           *)

(* While every call for it was answered yes, a row has none on its way,    *)
(* and the panel applies one only in a handler that is told so.            *)
LEMMA CallSteps ==
  ASSUME TypeInv, [Next]_vars, NEW i \in Ids, NEW kind \in Kinds,
         wire[<<i, kind>>] = 0, ~Unanswered(i, kind)
  PROVE  /\ wire'[<<i, kind>>] = 0
         /\ \/ ledger'[<<i, kind>>] = ledger[<<i, kind>>]
            \/ \E p \in Procs : AtWork(p, i) /\ KindOf(p) = kind /\ AdjustOk(p)
         /\ \A p \in Procs : AdjustOk(p) /\ AtWork(p, i) /\ KindOf(p) = kind
                               => ledger'[<<i, kind>>] = ledger[<<i, kind>>] + 1
<1> DEFINE k == <<i, kind>>
<1>0. /\ k \in Ids \X Kinds /\ wire \in [Ids \X Kinds -> Nat] /\ ledger \in [Ids \X Kinds -> Nat]
      /\ pc \in [Procs -> Labels]
  BY DEF TypeInv, TypeOK
<1>1. ASSUME NEW p \in Procs, pc[p] = "adjust"
      PROVE  /\ Key(p) \in Ids \X Kinds
             /\ Key(p) = k <=> AtWork(p, i) /\ KindOf(p) = kind
             /\ pc'[p] \in {"fail", "idle"} => Key(p) # k
  <2>1. Key(p) = k <=> AtWork(p, i) /\ KindOf(p) = kind
    BY <1>1 DEF Key, AtWork, Working
  <2> QED  BY <1>1, <2>1, AdjustKey DEF Unanswered
<1>2. ASSUME NEW q \in Procs, AdjustOk(q)
      PROVE  /\ wire'[k] = wire[k]
             /\ ledger'[k] = IF Key(q) = k THEN ledger[k] + 1 ELSE ledger[k]
             /\ \A p \in Procs : AdjustOk(p) => p = q
  <2>1. pc[q] = "adjust" /\ UNCHANGED wire /\ ledger' = [ledger EXCEPT ![Key(q)] = @ + 1]
        /\ \A p \in Procs : p # q => pc'[p] = pc[p]
    BY <1>0, <1>2 DEF AdjustOk, Goto
  <2>2. \A p \in Procs : AdjustOk(p) => pc[p] = "adjust" /\ pc'[p] = "reread"
    BY <1>0 DEF AdjustOk, Goto
  <2> QED  BY <1>0, <1>1, <2>1, <2>2
<1>3. ASSUME NEW q \in Procs, AdjustRefused(q) \/ AdjustLost(q)
      PROVE  wire'[k] = wire[k] /\ ledger'[k] = ledger[k]
  <2>1. pc[q] = "adjust" /\ pc'[q] \in {"fail", "idle"}
    BY <1>0, <1>3 DEF AdjustRefused, AdjustLost, OnError, Goto, Finish
  <2>2. Key(q) \in Ids \X Kinds /\ Key(q) # k
    BY <1>1, <2>1
  <2>3. wire' = wire \/ wire' = [wire EXCEPT ![Key(q)] = @ + 1]
    BY <1>3 DEF AdjustRefused, AdjustLost
  <2>4. ledger' = ledger \/ ledger' = [ledger EXCEPT ![Key(q)] = @ + 1]
    BY <1>3 DEF AdjustRefused, AdjustLost
  <2> HIDE DEF k
  <2> QED  BY <1>0, <2>2, <2>3, <2>4
<1>4. ASSUME NEW j \in DOMAIN rows, NEW kd \in Kinds, LateApply(j, kd)
      PROVE  wire'[k] = wire[k] /\ ledger'[k] = ledger[k]
  <2>1. <<j, kd>> # k
    BY <1>4 DEF LateApply
  <2>2. /\ wire' = [wire EXCEPT ![<<j, kd>>] = @ - 1]
        /\ ledger' = [ledger EXCEPT ![<<j, kd>>] = @ + 1]
    BY <1>4 DEF LateApply
  <2> HIDE DEF k
  <2> QED  BY <1>0, <2>1, <2>2
<1>5. ASSUME NEW S \in SUBSET Procs, wire' = Orphaned(S), \A p \in S : pc'[p] = "idle"
      PROVE  wire'[k] = wire[k]
  <2> DEFINE A == {p \in S : pc[p] = "adjust" /\ Key(p) = k}
  <2>1. A = {}
    BY <1>1, <1>5
  <2>2. wire'[k] = wire[k] + Cardinality(A)
    BY <1>0, <1>5 DEF Orphaned
  <2>3. Cardinality(A) = 0
    BY <2>1, FS_EmptySet
  <2> HIDE DEF A, k
  <2> QED  BY <1>0, <2>2, <2>3
<1>6. ASSUME NEW q \in Procs, Interrupt(q)
      PROVE  wire'[k] = wire[k] /\ UNCHANGED ledger
  <2>1. UNCHANGED ledger /\ pc'[q] = "idle" /\ (UNCHANGED wire \/ wire' = Orphaned({q}))
    BY <1>0, <1>6 DEF Interrupt, Finish
  <2> QED  BY <1>5, <2>1
<1>7. CASE Crash
  <2>1. UNCHANGED ledger /\ \A p \in Procs : pc'[p] = "idle"
    BY <1>7 DEF Crash
  <2>2. PICK S \in SUBSET Procs : wire' = Orphaned(S)
    BY <1>7 DEF Crash
  <2>3. wire'[k] = wire[k]
    BY <1>5, <2>1, <2>2
  <2>4. \A p \in Procs : ~AdjustOk(p)
    BY <1>0, <2>1 DEF AdjustOk, Goto
  <2> QED  BY <2>1, <2>3, <2>4
<1>8. \/ UNCHANGED <<wire, ledger>>
      \/ \E q \in Procs : AdjustOk(q) \/ AdjustRefused(q) \/ AdjustLost(q) \/ Interrupt(q)
      \/ \E j \in DOMAIN rows, kd \in Kinds : LateApply(j, kd)
      \/ Crash
  BY DEF Next, vars, ClientStep, AdminStep, SharedStep, StartRequest, LookupForRequest,
         CreateRenewal, RecordOutcome, MarkFailed, StartAdmin, CheckPending, ResolveRenewal,
         ReadExpiry, Tell, ReadError, StoreError, Tick
<1>9. \A p \in Procs : AdjustOk(p) /\ AtWork(p, i) /\ KindOf(p) = kind => Key(p) = k
  BY DEF Key, AtWork
<1>10. CASE \E q \in Procs : AdjustOk(q)
  <2>1. PICK q \in Procs : AdjustOk(q)
    BY <1>10
  <2>2. pc[q] = "adjust"
    BY <2>1 DEF AdjustOk
  <2> QED  BY <1>1, <1>2, <1>9, <2>1, <2>2
<1>11. CASE ~\E q \in Procs : AdjustOk(q)
  BY <1>3, <1>4, <1>6, <1>7, <1>8, <1>11
<1> QED  BY <1>10, <1>11

(* An id that was never given out has no calls.                            *)
Unused ==
  \A i \in Ids, kind \in Kinds :
    i \notin DOMAIN rows => wire[<<i, kind>>] = 0 /\ ledger[<<i, kind>>] = 0

(* ... because a handler calls for its own row only.                       *)
LEMMA UnusedStep == TypeInv /\ Unused /\ [Next]_vars => Unused'
<1> SUFFICES ASSUME TypeInv, Unused, [Next]_vars, NEW i \in Ids, NEW kind \in Kinds,
                    i \notin DOMAIN rows'
             PROVE  wire'[<<i, kind>>] = 0 /\ ledger'[<<i, kind>>] = 0
  BY DEF Unused, Ids, Kinds
<1>1. i \notin DOMAIN rows
  BY TableKeeps DEF RowsKept
<1>2. \A p \in Procs : ~AtWork(p, i)
  BY <1>1 DEF AtWork, Working, TypeInv, ClientJobOK, AdminJobOK, Procs
<1>3. ~Unanswered(i, kind)
  BY <1>2 DEF Unanswered
<1> QED  BY <1>1, <1>2, <1>3, CallSteps DEF Unused


(* What is not in the history has not just happened.                       *)
LEMMA Unmarked ==
  ASSUME [NextHistory]_hvars, NEW i \in DOMAIN rows
  PROVE  /\ \A x \in Marks : ~Is(i, x)' => ~Is(i, x)
         /\ \A kind \in Kinds : ~Is(i, kind)' => ~Unanswered(i, kind)
         /\ ~Is(i, "unwritten")' => ~Unwritten(i)
         /\ ~Is(i, "crossed")' => ~Crossing(i)' \/ UNCHANGED hvars
<1>1. CASE UNCHANGED hvars
  BY <1>1 DEF hvars, vars, Is, Unanswered, Unwritten, AtWork, Working
<1>2. CASE NextHistory
  <2>1. \A x \in Marks : Happened(i, x) => Is(i, x)'
    <3> SUFFICES ASSUME NEW x \in Marks, Happened(i, x) PROVE <<i, x>> \in marks'
      BY DEF Is
    <3>1. <<i, x>> \in {m \in (DOMAIN rows) \X Marks : Happened(m[1], m[2])}
      OBVIOUS
    <3> QED  BY <1>2, <3>1 DEF NextHistory
  <2>2. /\ \A kind \in Kinds : kind \in Marks /\ (Happened(i, kind) <=> Unanswered(i, kind))
        /\ "unwritten" \in Marks /\ (Happened(i, "unwritten") <=> Unwritten(i))
        /\ "crossed" \in Marks /\ (Happened(i, "crossed") <=> Crossing(i)')
    BY DEF Marks, Kinds, Happened
  <2> QED  BY <1>2, <2>1, <2>2 DEF NextHistory, Is
<1> QED  BY <1>1, <1>2

(* Who is at work on a row after a step was before, or has taken it up.    *)
LEMMA Reworked ==
  ASSUME TypeInv, [Next]_vars, NEW i \in DOMAIN rows, NEW p \in Procs, AtWork(p, i)'
  PROVE  /\ job'[p].id = job[p].id /\ job'[p].op = job[p].op /\ job[p].id = i
         /\ AtWork(p, i) \/ Takes(p)
<1>1. Actor(p) /\ job \in [Procs -> Job] /\ i # 0
  BY ActorSteps, LenProperties DEF TypeInv, TypeOK
<1>2. job'[p].id = i /\ pc'[p] \in Working
  BY DEF AtWork
<1>3. ~(p \in Clients /\ Inserted(p)) /\ ~Ends(p) /\ ~Begins(p)
  BY <1>1, <1>2 DEF Inserted, Job, Ends, Begins, Working
<1> QED  BY <1>1, <1>2, <1>3 DEF Actor, Stays, Takes, Advances, AtWork, Working

(* A Request waits for the panel.                                          *)
GrantDue(i) == \E c \in Clients : job[c].id = i /\ pc[c] = "adjust"

(* Every call for the days was answered yes.                               *)
GrantSide(i) ==
  ~Is(i, "grant") =>
    /\ wire[<<i, "grant">>] = 0
    /\ ledger[<<i, "grant">>] = IF GrantDue(i) THEN 0 ELSE 1
    /\ \A c \in Clients : job[c].id = i => pc[c] # "fail"
    /\ rows[i].status # "failed"

(* ... which only a call without a yes undoes.                             *)
LEMMA GrantSideStep ==
  ASSUME TypeInv, ClientsOwn, [NextHistory]_hvars, NEW i \in DOMAIN rows, GrantSide(i)
  PROVE  GrantSide(i)'
<1> SUFFICES ASSUME ~Is(i, "grant")'
             PROVE  /\ wire'[<<i, "grant">>] = 0
                    /\ ledger'[<<i, "grant">>] = IF GrantDue(i)' THEN 0 ELSE 1
                    /\ \A c \in Clients : job'[c].id = i => pc'[c] # "fail"
                    /\ rows'[i].status # "failed"
  BY DEF GrantSide
<1>0. /\ [Next]_vars /\ i \in Ids /\ i # 0 /\ "grant" \in Kinds /\ "grant" \in Marks
      /\ Clients \subseteq Procs /\ Clients \cap Admins = {} /\ pc \in [Procs -> Labels]
  BY RowIds, LenProperties, ConstantsAssumption
     DEF NextHistory, hvars, vars, Kinds, Marks, Procs, ConstantsAssumption, TypeInv, TypeOK
<1>1. ~Is(i, "grant") /\ ~Unanswered(i, "grant")
  BY <1>0, Unmarked
<1>2. /\ wire[<<i, "grant">>] = 0
      /\ ledger[<<i, "grant">>] = IF GrantDue(i) THEN 0 ELSE 1
      /\ \A c \in Clients : job[c].id = i => pc[c] # "fail"
      /\ rows[i].status # "failed"
  BY <1>1 DEF GrantSide
<1>3. ASSUME NEW c \in Clients, job'[c].id = i, pc'[c] \in {"adjust", "fail"}
      PROVE  job[c].id = i /\ pc'[c] = pc[c]
  <2>1. AtWork(c, i)' /\ ~Takes(c)
    BY <1>0, <1>3 DEF AtWork, Working, Takes
  <2>2. job[c].id = i /\ AtWork(c, i)
    BY <1>0, <2>1, Reworked
  <2>3. pc[c] = "adjust" => pc'[c] \notin {"fail", "idle"}
    <3> SUFFICES ASSUME pc[c] = "adjust", pc'[c] \in {"fail", "idle"} PROVE FALSE
      OBVIOUS
    <3>1. KindOf(c) = "grant"
      BY DEF KindOf, TypeInv, ClientJobOK
    <3> QED  BY <1>0, <1>1, <2>2, <3>1 DEF Unanswered
  <2>4. Actor(c)
    BY <1>0, ActorSteps
  <2> QED
    BY <1>0, <1>3, <2>2, <2>3, <2>4
    DEF Actor, Stays, Ends, Begins, Takes, Advances, Inserted, AtWork, Working
<1>4. ASSUME NEW p \in Procs, AtWork(p, i), KindOf(p) = "grant", AdjustOk(p)
      PROVE  p \in Clients /\ job[p].id = i /\ pc[p] = "adjust" /\ pc'[p] = "reread"
  BY <1>0, <1>4 DEF AdjustOk, Goto, AtWork, Working, KindOf, Procs, TypeInv, AdminJobOK
<1>5. ASSUME NEW c \in Clients, job[c].id = i, pc[c] = "adjust"
      PROVE  /\ AtWork(c, i) /\ KindOf(c) = "grant" /\ c \in Procs
             /\ job'[c].id = i
             /\ pc'[c] = "adjust" \/ (pc'[c] = "reread" /\ AdjustOk(c))
  <2>1. AtWork(c, i) /\ KindOf(c) = "grant" /\ c \in Procs
    BY <1>0, <1>5 DEF AtWork, Working, KindOf, TypeInv, ClientJobOK
  <2>2. pc'[c] \notin {"fail", "idle"}
    BY <1>1, <1>5, <2>1 DEF Unanswered
  <2>3. Actor(c)
    BY <1>0, ActorSteps
  <2>4. ~Begins(c) /\ ~Ends(c) /\ ~Takes(c) /\ ~Inserted(c)
    BY <1>0, <1>5, <2>2 DEF Begins, Ends, Takes, Inserted
  <2>5. Stays(c) \/ Advances(c)
    BY <2>3, <2>4 DEF Actor
  <2>6. CASE Stays(c)
    BY <1>5, <2>1, <2>6 DEF Stays
  <2>7. CASE Advances(c)
    BY <1>5, <2>1, <2>2, <2>7 DEF Advances
  <2> QED  BY <2>5, <2>6, <2>7
<1>6. /\ wire'[<<i, "grant">>] = 0
      /\ \/ ledger'[<<i, "grant">>] = ledger[<<i, "grant">>]
         \/ \E p \in Procs : AtWork(p, i) /\ KindOf(p) = "grant" /\ AdjustOk(p)
      /\ \A p \in Procs : AdjustOk(p) /\ AtWork(p, i) /\ KindOf(p) = "grant"
           => ledger'[<<i, "grant">>] = ledger[<<i, "grant">>] + 1
  BY <1>0, <1>1, <1>2, CallSteps
<1>7. ledger'[<<i, "grant">>] = IF GrantDue(i)' THEN 0 ELSE 1
  <2>1. CASE GrantDue(i)
    <3>1. PICK c \in Clients : job[c].id = i /\ pc[c] = "adjust"
      BY <2>1 DEF GrantDue
    <3>2. \A d \in Clients : job[d].id = i => d = c
      BY <1>0, <3>1 DEF ClientsOwn
    <3>3. GrantDue(i)' <=> pc'[c] = "adjust"
      BY <1>3, <1>5, <3>1, <3>2 DEF GrantDue
    <3>4. CASE pc'[c] = "adjust"
      BY <1>2, <1>4, <1>6, <2>1, <3>2, <3>3, <3>4
    <3>5. CASE pc'[c] = "reread" /\ AdjustOk(c)
      BY <1>2, <1>5, <1>6, <2>1, <3>1, <3>3, <3>5
    <3> QED  BY <1>5, <3>1, <3>4, <3>5
  <2>2. CASE ~GrantDue(i)
    <3>1. ~GrantDue(i)'
      BY <1>3, <2>2 DEF GrantDue
    <3> QED  BY <1>2, <1>4, <1>6, <2>2, <3>1 DEF GrantDue
  <2> QED  BY <2>1, <2>2
<1>8. rows'[i].status # "failed"
  <2>1. ~\E c \in Clients : AtWork(c, i) /\ MarkFailed(c)
    BY <1>2 DEF AtWork, MarkFailed
  <2> QED  BY <1>0, <1>2, <2>1, RowSteps DEF Concluded, Settled, Verdict
<1> QED  BY <1>2, <1>3, <1>6, <1>7, <1>8

-----------------------------------------------------------------------------
(* A Reject at work on a row.                                              *)
Rejects(a, i) == job[a].op = "reject" /\ AtWork(a, i)

(* ... that has had the panel's yes.                                       *)
Undoing(i) == \E a \in Admins : Rejects(a, i) /\ pc[a] # "adjust"

(* Every call to take the days back was answered yes, and every Reject     *)
(* that had its yes was alone and wrote its verdict.                       *)
RollbackSide(i) ==
  ~(Is(i, "rollback") \/ Is(i, "unwritten") \/ Is(i, "crossed")) =>
    /\ wire[<<i, "rollback">>] = 0
    /\ ledger[<<i, "rollback">>] =
         IF rows[i].status = "rejected" \/ Undoing(i) THEN 1 ELSE 0
    /\ ~Crossing(i)
    /\ \A a \in Admins : Rejects(a, i) => rows[i].status = "pending"
    /\ Running(i) => rows[i].status # "rejected"

(* A step with a Reject at work.                                           *)
LEMMA RejectStep ==
  ASSUME TypeInv, [Next]_vars, NEW i \in DOMAIN rows, NEW a \in Admins, Rejects(a, i),
         wire[<<i, "rollback">>] = 0, ~Crossing(i), ~Crossing(i)',
         rows[i].status = "pending", ~Unanswered(i, "rollback"), ~Unwritten(i),
         ledger[<<i, "rollback">>] = IF Undoing(i) THEN 1 ELSE 0
  PROVE  /\ ledger'[<<i, "rollback">>] =
              IF rows'[i].status = "rejected" \/ Undoing(i)' THEN 1 ELSE 0
         /\ \A b \in Admins : Rejects(b, i)' => rows'[i].status = "pending"
         /\ Running(i)' => rows'[i].status # "rejected"
<1>0. /\ a \in Procs /\ a \notin Clients /\ i \in Ids /\ "rollback" \in Kinds
      /\ Clients \subseteq Procs /\ Admins \subseteq Procs
      /\ KindOf(a) = "rollback" /\ pc \in [Procs -> Labels] /\ job[a].id = i
  BY RowIds, ConstantsAssumption
     DEF Procs, ConstantsAssumption, Kinds, KindOf, Rejects, AtWork, TypeInv, TypeOK
<1>1. \A p \in Procs : AtWork(p, i) => p = a
  BY <1>0 DEF Crossing, Rejects
<1>2. ~Running(i) /\ ~Running(i)'
  BY <1>0, <1>1, RunningKept DEF Running
<1>3. /\ \/ ledger'[<<i, "rollback">>] = ledger[<<i, "rollback">>]
         \/ AdjustOk(a)
      /\ AdjustOk(a) => ledger'[<<i, "rollback">>] = ledger[<<i, "rollback">>] + 1
  BY <1>0, <1>1, CallSteps DEF Rejects
<1>4. rows'[i] = rows[i] \/ Settled(a, i)
  BY <1>0, <1>1, RowSteps DEF Concluded, Settled
<1>5. pc'[a] # "idle"
  BY <1>0 DEF Unanswered, Unwritten, Rejects
<1>6. Actor(a) /\ pc[a] \in {"adjust", "reread", "resolve"}
  BY <1>0, ActorSteps DEF Rejects, AtWork, Working, TypeInv, AdminJobOK
<1>7. AdjustOk(a) => pc[a] = "adjust" /\ pc'[a] = "reread"
  BY <1>0 DEF AdjustOk, Goto
<1>8. Undoing(i) <=> pc[a] # "adjust"
  BY <1>0, <1>1 DEF Undoing, Rejects
<1>9. /\ job'[a].id = i /\ job'[a].op = "reject"
      /\ \/ pc'[a] = pc[a]
         \/ pc[a] = "adjust" /\ pc'[a] = "reread" /\ AdjustOk(a)
         \/ pc[a] = "reread" /\ pc'[a] = "resolve"
         \/ pc[a] = "resolve" /\ pc'[a] = "tell" /\ ResolveRenewal(a)
  BY <1>0, <1>5, <1>6 DEF Actor, Stays, Ends, Begins, Takes, Advances, Inserted, Rejects
<1>10. CASE pc'[a] \in {"adjust", "reread", "resolve"}
  <2>1. rows'[i] = rows[i]
    BY <1>4, <1>10 DEF Settled
  <2>2. Rejects(a, i)'
    BY <1>9, <1>10 DEF Rejects, AtWork, Working
  <2>3. \A p \in Procs : AtWork(p, i)' => p = a
    BY <1>0, <2>2 DEF Crossing, Rejects
  <2>4. Undoing(i)' <=> pc'[a] # "adjust"
    BY <1>0, <2>2, <2>3 DEF Undoing, Rejects
  <2> QED  BY <1>2, <1>3, <1>7, <1>8, <1>9, <2>1, <2>4
<1>11. CASE pc[a] = "resolve" /\ pc'[a] = "tell" /\ ResolveRenewal(a)
  <2>1. ~Finish(a)
    BY <1>0, <1>11 DEF Finish
  <2>2. rows'[i].status = "rejected"
    BY <1>0, <1>11, <2>1, ResolveEffect DEF Moved, Verdict, Rejects
  <2>3. ASSUME NEW b \in Admins, AtWork(b, i)'
        PROVE  FALSE
    <3>1. b # a
      BY <1>11, <2>3 DEF AtWork, Working
    <3>2. Takes(b)
      BY <1>0, <1>1, <2>3, <3>1, Reworked
    <3> QED  BY <2>2, <3>2 DEF Takes
  <2>4. ~Undoing(i)' /\ \A b \in Admins : ~Rejects(b, i)'
    BY <2>3 DEF Undoing, Rejects
  <2> QED  BY <1>2, <1>3, <1>7, <1>8, <1>11, <2>2, <2>4
<1> QED  BY <1>6, <1>9, <1>10, <1>11

(* A step with none.                                                       *)
LEMMA NoRejectStep ==
  ASSUME TypeInv, Positive, [Next]_vars, NEW i \in DOMAIN rows,
         \A a \in Admins : ~Rejects(a, i),
         wire[<<i, "rollback">>] = 0, ~Unanswered(i, "rollback"),
         ledger[<<i, "rollback">>] = IF rows[i].status = "rejected" THEN 1 ELSE 0,
         Running(i) => rows[i].status # "rejected"
  PROVE  /\ ledger'[<<i, "rollback">>] =
              IF rows'[i].status = "rejected" \/ Undoing(i)' THEN 1 ELSE 0
         /\ \A b \in Admins : Rejects(b, i)' => rows'[i].status = "pending"
         /\ Running(i)' => rows'[i].status # "rejected"
<1>0. /\ i \in Ids /\ "rollback" \in Kinds /\ Clients \subseteq Procs
      /\ Admins \subseteq Procs /\ Clients \cap Admins = {}
  BY RowIds, ConstantsAssumption DEF Procs, ConstantsAssumption, Kinds
<1>1. \A p \in Procs : ~(AtWork(p, i) /\ KindOf(p) = "rollback" /\ AdjustOk(p))
  BY <1>0 DEF AtWork, KindOf, AdjustOk, Rejects, Procs, TypeInv, ClientJobOK, AdminJobOK
<1>2. ledger'[<<i, "rollback">>] = ledger[<<i, "rollback">>]
  BY <1>0, <1>1, CallSteps
<1>3. rows'[i].status = "rejected" <=> rows[i].status = "rejected"
  <2>1. ASSUME NEW c \in Clients, Concluded(c, i)
        PROVE  rows'[i].status # "rejected" /\ rows[i].status # "rejected"
    BY <2>1 DEF Concluded, Running
  <2>2. ASSUME NEW a \in Admins, Settled(a, i)
        PROVE  rows'[i].status # "rejected" /\ rows[i].status # "rejected"
    BY <2>2 DEF Settled, Rejects, AtWork, Verdict, TypeInv, AdminJobOK
  <2> QED  BY <2>1, <2>2, RowSteps
<1>4. ASSUME NEW b \in Admins, Rejects(b, i)'
      PROVE  rows'[i].status = "pending" /\ pc'[b] = "adjust"
  <2>1. Takes(b) /\ job[b].id = i /\ job[b].op = "reject"
    BY <1>0, <1>4, Reworked DEF Rejects
  <2> QED  BY <2>1 DEF Takes, Positive
<1>5. ~Undoing(i)'
  BY <1>4 DEF Undoing
<1> QED  BY <1>2, <1>3, <1>4, <1>5, RunningKept

(* Either way the rejections are counted as RollbackSide says.             *)
LEMMA RollbackSideStep ==
  ASSUME TypeInv, Positive, [NextHistory]_hvars, NEW i \in DOMAIN rows, RollbackSide(i)
  PROVE  RollbackSide(i)'
<1> SUFFICES ASSUME ~Is(i, "rollback")', ~Is(i, "unwritten")', ~Is(i, "crossed")'
             PROVE  /\ wire'[<<i, "rollback">>] = 0
                    /\ ledger'[<<i, "rollback">>] =
                         IF rows'[i].status = "rejected" \/ Undoing(i)' THEN 1 ELSE 0
                    /\ ~Crossing(i)'
                    /\ \A a \in Admins : Rejects(a, i)' => rows'[i].status = "pending"
                    /\ Running(i)' => rows'[i].status # "rejected"
  BY DEF RollbackSide
<1>0. /\ [Next]_vars /\ i \in Ids /\ "rollback" \in Kinds
      /\ {"rollback", "unwritten", "crossed"} \subseteq Marks
  BY RowIds DEF NextHistory, hvars, vars, Kinds, Marks
<1>1. /\ ~Is(i, "rollback") /\ ~Is(i, "unwritten") /\ ~Is(i, "crossed")
      /\ ~Unanswered(i, "rollback") /\ ~Unwritten(i)
  BY <1>0, Unmarked
<1>2. /\ wire[<<i, "rollback">>] = 0
      /\ ledger[<<i, "rollback">>] =
           IF rows[i].status = "rejected" \/ Undoing(i) THEN 1 ELSE 0
      /\ ~Crossing(i)
      /\ \A a \in Admins : Rejects(a, i) => rows[i].status = "pending"
      /\ Running(i) => rows[i].status # "rejected"
  BY <1>1 DEF RollbackSide
<1>3. ~Crossing(i)'
  <2>1. UNCHANGED hvars => (Crossing(i)' <=> Crossing(i))
    BY DEF hvars, vars, Crossing, AtWork
  <2> QED  BY <1>2, <2>1, Unmarked
<1>4. wire'[<<i, "rollback">>] = 0
  BY <1>0, <1>1, <1>2, CallSteps
<1>5. ASSUME NEW a \in Admins, Rejects(a, i)
      PROVE  /\ ledger'[<<i, "rollback">>] =
                  IF rows'[i].status = "rejected" \/ Undoing(i)' THEN 1 ELSE 0
             /\ \A b \in Admins : Rejects(b, i)' => rows'[i].status = "pending"
             /\ Running(i)' => rows'[i].status # "rejected"
  <2>1. rows[i].status = "pending"
    BY <1>2, <1>5
  <2> QED  BY <1>0, <1>1, <1>2, <1>3, <1>5, <2>1, RejectStep
<1>6. CASE \A a \in Admins : ~Rejects(a, i)
  <2>1. ~Undoing(i)
    BY <1>6 DEF Undoing
  <2> QED  BY <1>0, <1>1, <1>2, <1>3, <1>4, <1>6, <2>1, NoRejectStep
<1> QED  BY <1>3, <1>4, <1>5, <1>6

(* A new row has asked for its days and nobody is at work on it but its    *)
(* own Request.                                                            *)
LEMMA SidesOfNew ==
  ASSUME TypeInv, Unused, [Next]_vars, NEW i \in DOMAIN rows', i \notin DOMAIN rows
  PROVE  GrantSide(i)' /\ RollbackSide(i)'
<1>0. /\ Clients \subseteq Procs /\ Admins \subseteq Procs /\ Clients \cap Admins = {}
      /\ pc \in [Procs -> Labels] /\ job \in [Procs -> Job]
  BY ConstantsAssumption DEF Procs, ConstantsAssumption, TypeInv, TypeOK
<1>1. PICK c \in Clients : Inserted(c)
  BY TableSteps, InsertEffect, RecordEffect, FailEffect, ResolveEffect DEF Moved
<1>2. i = Len(rows) + 1 /\ i \in Ids /\ i # 0 /\ rows'[i].status = "pending"
  BY <1>1 DEF Inserted, Row
<1>3. /\ pc'[c] = "adjust" /\ job'[c].id = i
      /\ \A p \in Procs : p # c => pc'[p] = pc[p] /\ job'[p] = job[p]
  BY <1>0, <1>1, <1>2 DEF Inserted, Job
<1>4. \A p \in Procs : AtWork(p, i)' => p = c
  BY <1>0, <1>2, <1>3 DEF AtWork, Working, Procs, TypeInv, ClientJobOK, AdminJobOK
<1>5. /\ wire'[<<i, "grant">>] = 0 /\ ledger'[<<i, "grant">>] = 0
      /\ wire'[<<i, "rollback">>] = 0 /\ ledger'[<<i, "rollback">>] = 0
  BY <1>1, <1>2 DEF Inserted, Unused, Kinds
<1>6. GrantDue(i)' /\ ~Undoing(i)' /\ ~Crossing(i)' /\ \A a \in Admins : ~Rejects(a, i)'
  BY <1>0, <1>3, <1>4 DEF GrantDue, Undoing, Crossing, Rejects
<1>7. \A d \in Clients : job'[d].id = i => pc'[d] # "fail"
  BY <1>0, <1>3, <1>4 DEF AtWork, Working
<1> QED  BY <1>2, <1>5, <1>6, <1>7 DEF GrantSide, RollbackSide

BooksInv ==
  /\ TypeInv /\ ClientsOwn /\ Positive /\ Unused
  /\ \A i \in DOMAIN rows : GrantSide(i) /\ RollbackSide(i)

(* With nobody at work, the panel and the table agree about a row          *)
(* (BooksBalance of the runs): the days are there once the panel has said  *)
(* yes, and taken back exactly when the row says "rejected", but for the   *)
(* rows whose history names the reason.  For any number of goroutines, any *)
(* number of rejections, and every fault.                                  *)
THEOREM BooksBalanceAlways == SpecHistory => []BooksBalance
<1>1. InitHistory => BooksInv
  <2>1. Init => DOMAIN rows = {}
    BY DEF Init
  <2> QED
    BY <2>1, TypingInit
    DEF InitHistory, Init, BooksInv, ClientsOwn, Positive, Unused, Procs, NoJob
<1>2. BooksInv /\ [NextHistory]_hvars => BooksInv'
  <2> SUFFICES ASSUME BooksInv, [NextHistory]_hvars PROVE BooksInv'
    OBVIOUS
  <2>1. [Next]_vars /\ TypeInv /\ ClientsOwn /\ Positive /\ Unused
    BY DEF NextHistory, hvars, vars, BooksInv
  <2>2. TypeInv' /\ ClientsOwn' /\ Positive' /\ Unused'
    BY <2>1, TypingStep, ClientsOwnStep, PositiveStep, UnusedStep
  <2>3. ASSUME NEW i \in DOMAIN rows'
        PROVE  GrantSide(i)' /\ RollbackSide(i)'
    <3>1. CASE i \in DOMAIN rows
      BY <2>1, <3>1, GrantSideStep, RollbackSideStep DEF BooksInv
    <3>2. CASE i \notin DOMAIN rows
      BY <2>1, <3>2, SidesOfNew
    <3> QED  BY <3>1, <3>2
  <2> QED  BY <2>2, <2>3 DEF BooksInv
<1>3. BooksInv => BooksBalance
  <2> SUFFICES ASSUME BooksInv, NEW i \in DOMAIN rows, AtRest(i)
               PROVE  /\ ~Is(i, "grant") =>
                           ledger[<<i, "grant">>] = 1 /\ rows[i].status # "failed"
                      /\ ~(Is(i, "rollback") \/ Is(i, "unwritten") \/ Is(i, "crossed"))
                           => ledger[<<i, "rollback">>] =
                                (IF rows[i].status = "rejected" THEN 1 ELSE 0)
    BY DEF BooksBalance
  <2>1. ~GrantDue(i) /\ ~Undoing(i)
    BY DEF AtRest, AtWork, Working, GrantDue, Undoing, Rejects, Procs
  <2> QED  BY <2>1 DEF BooksInv, GrantSide, RollbackSide
<1> QED  BY <1>1, <1>2, <1>3, PTL DEF SpecHistory

-----------------------------------------------------------------------------
(***************************************************************************)
(* The dates in the table, for any number of goroutines and every fault.   *)
(***************************************************************************)

(* Of a subscription that is not muddled: one handler at a time is at work *)
(* on its panel record, and on the newest row, the only one that may be    *)
(* pending; what the handler has read back is what the panel has, and so   *)
(* is what it has left behind.                                             *)
OnNewest(s) == \A p \in Procs : Adjusting(p, s) => Newest(job[p].id) /\ pc[p] # "fail"
HasRead(s)  == \A p \in Procs :
                 Adjusting(p, s) /\ pc[p] \in {"record", "resolve"} => job[p].after = expiry[s]
PendingNewest(s) == \A i \in RowsOf(s) : rows[i].status = "pending" => Newest(i)
Written(s) ==
  (\A p \in Procs : ~Adjusting(p, s)) =>
    \A i \in RowsOf(s) : Newest(i) => rows[i].after = expiry[s]

Clear(s) ==
  ~Overlapping(s) /\ OnNewest(s) /\ HasRead(s) /\ PendingNewest(s) /\ Written(s)

(* The rows of a subscription change by an insert only.                    *)
LEMMA RenewedBy ==
  ASSUME TypeInv, [Next]_vars, NEW s \in Subs, Renewed(s)
  PROVE  \E c \in Clients : Inserted(c) /\ job[c].sub = s
<1>1. ASSUME NEW p, NEW st, Moved(p, st)
      PROVE  RowsOf(s)' = RowsOf(s)
  BY <1>1 DEF Moved, RowsOf
<1>2. UNCHANGED rows => RowsOf(s)' = RowsOf(s)
  BY DEF RowsOf
<1>3. PICK c \in Clients : Inserted(c)
  BY <1>1, <1>2, TableSteps, InsertEffect, RecordEffect, FailEffect, ResolveEffect DEF Renewed
<1>4. CASE job[c].sub # s
  <2>1. rows'[Len(rows) + 1].sub # s
    BY <1>3, <1>4 DEF Inserted, Row
  <2>2. RowsOf(s)' = RowsOf(s)
    BY <1>3, <2>1 DEF Inserted, RowsOf
  <2> QED  BY <2>2 DEF Renewed
<1> QED  BY <1>3, <1>4

(* A new row finds its subscription at rest.                               *)
LEMMA ClearNew ==
  ASSUME TypeInv, [Next]_vars, NEW s \in Subs, Renewed(s), ~Overlapping(s)'
  PROVE  Clear(s)'
<1>1. PICK c \in Clients : Inserted(c) /\ job[c].sub = s
  BY RenewedBy
<1>2. PICK n : n = Len(rows) + 1
  OBVIOUS
<1>3. /\ c \in Procs /\ pc \in [Procs -> Labels] /\ job \in [Procs -> Job]
      /\ job[c].op = "request"
  BY <1>1 DEF Procs, TypeInv, TypeOK, ClientJobOK, Inserted
<1>4. /\ n \notin DOMAIN rows /\ DOMAIN rows' = DOMAIN rows \cup {n}
      /\ \A j \in DOMAIN rows : rows'[j] = rows[j]
      /\ rows'[n].sub = s /\ ~HasPending(s, 0) /\ 0 \notin DOMAIN rows
      /\ pc'[c] = "adjust" /\ job'[c].id = n /\ job'[c].op = "request"
  BY <1>1, <1>2, <1>3 DEF Inserted, Row, Job
<1>5. \A j \in DOMAIN rows' : j <= n
  <2>1. Len(rows) \in Nat /\ DOMAIN rows = 1 .. Len(rows)
    BY LenProperties DEF TypeInv, TypeOK
  <2> QED  BY <1>2, <1>4, <2>1
<1>6. Newest(n)' /\ n \in RowsOf(s)'
  BY <1>4, <1>5 DEF Newest, RowsOf
<1>7. Adjusting(c, s)'
  BY <1>3, <1>4, <1>6 DEF Adjusting, AtWork, Working
<1>8. \A p \in Procs : Adjusting(p, s)' => p = c
  BY <1>3, <1>7 DEF Overlapping
<1>9. \A i \in RowsOf(s)' : rows'[i].status = "pending" => i = n
  BY <1>4 DEF RowsOf, HasPending
<1>10. OnNewest(s)' /\ HasRead(s)'
  BY <1>4, <1>6, <1>8 DEF OnNewest, HasRead
<1>11. PendingNewest(s)' /\ Written(s)'
  BY <1>3, <1>6, <1>7, <1>9 DEF PendingNewest, Written
<1> QED  BY <1>10, <1>11 DEF Clear

(* The panel's record moves with the yes of a handler at work on it.       *)
LEMMA ExpirySteps ==
  ASSUME TypeInv, [Next]_vars, NEW s \in Subs, ~WithoutYes(s)
  PROVE  \/ expiry'[s] = expiry[s]
         \/ \E p \in Procs : Adjusting(p, s) /\ pc[p] = "adjust" /\ pc'[p] = "reread"
<1>0. expiry \in [Subs -> Int] /\ pc \in [Procs -> Labels]
  BY DEF TypeInv, TypeOK
<1>1. ASSUME NEW p \in Procs, pc[p] = "adjust", rows[job[p].id].sub = s
      PROVE  Adjusting(p, s)
  BY <1>1 DEF Adjusting, AtWork, Working, RowsOf, Procs, TypeInv, ClientJobOK, AdminJobOK
<1>2. ASSUME NEW p \in Procs, AdjustOk(p)
      PROVE  expiry'[s] = expiry[s] \/ (Adjusting(p, s) /\ pc[p] = "adjust" /\ pc'[p] = "reread")
  <2>1. pc[p] = "adjust" /\ pc'[p] = "reread"
    BY <1>0, <1>2 DEF AdjustOk, Goto
  <2>2. rows[job[p].id].sub # s => expiry'[s] = expiry[s]
    BY <1>0, <1>2 DEF AdjustOk, ShiftFor
  <2> QED  BY <1>1, <2>1, <2>2
<1>3. ASSUME NEW p \in Procs, AdjustRefused(p)
      PROVE  expiry'[s] = expiry[s]
  <2>1. pc[p] = "adjust" /\ pc'[p] \in {"fail", "idle"}
    BY <1>0, <1>3 DEF AdjustRefused, OnError, Goto, Finish
  <2>2. rows[job[p].id].sub # s
    BY <1>1, <2>1 DEF WithoutYes
  <2> QED  BY <1>0, <1>3, <2>2 DEF AdjustRefused, ShiftPart
<1>4. ASSUME NEW i \in DOMAIN rows, NEW kind \in Kinds, LateApply(i, kind)
      PROVE  expiry'[s] = expiry[s]
  <2>1. rows[i].sub # s
    BY <1>4 DEF WithoutYes, RowsOf
  <2> QED  BY <1>0, <1>4, <2>1 DEF LateApply, ShiftPart
<1>5. \/ UNCHANGED expiry
      \/ \E p \in Procs : AdjustOk(p) \/ AdjustRefused(p)
      \/ \E i \in DOMAIN rows, kind \in Kinds : LateApply(i, kind)
  BY DEF Next, vars, ClientStep, AdminStep, SharedStep, StartRequest, LookupForRequest,
         CreateRenewal, RecordOutcome, MarkFailed, StartAdmin, CheckPending, ResolveRenewal,
         AdjustLost, ReadExpiry, Tell, ReadError, StoreError, Interrupt, Crash, Tick
<1> QED  BY <1>2, <1>3, <1>4, <1>5

(* A confirmation leaves the date of its row alone.                        *)
LEMMA ConfirmKeeps ==
  ASSUME TypeInv, NEW i \in DOMAIN rows, NEW a \in Admins, Settled(a, i), job[a].op = "confirm"
  PROVE  rows'[i].after = rows[i].after
<1>1. pc \in [Procs -> Labels] /\ a \in Procs /\ job[a].id = i /\ rows[i] \in RowType
  BY RowOf DEF Settled, AtWork, Procs, TypeInv, TypeOK
<1>2. rows' = [rows EXCEPT ![i] = Resolved(job[a])]
  BY <1>1 DEF Settled, ResolveRenewal
<1>3. Resolved(job[a]).after = rows[i].after
  BY <1>1 DEF Resolved, WithOutcome, RowType
<1> QED  BY <1>2, <1>3

(* Who adjusts a record after a step did before, or took the row up.       *)
LEMMA AdjustingAfter ==
  ASSUME TypeInv, [Next]_vars, NEW s \in Subs, ~Renewed(s), ~WithoutYes(s), ~Unread(s),
         Clear(s), NEW p \in Procs, Adjusting(p, s)'
  PROVE  /\ job'[p].id = job[p].id /\ Newest(job[p].id) /\ job[p].id \in RowsOf(s)
         /\ pc'[p] # "fail"
         /\ pc'[p] \in {"record", "resolve"} =>
              Adjusting(p, s) /\ pc[p] # "adjust" /\ job'[p].after = expiry[s]
<1>1. PICK i \in RowsOf(s) : AtWork(p, i)' /\ job'[p].op # "confirm"
  BY DEF Adjusting, Renewed
<1>2. i \in DOMAIN rows
  BY DEF RowsOf
<1>3. /\ job'[p].id = i /\ job[p].id = i /\ job[p].op # "confirm"
      /\ AtWork(p, i) \/ Takes(p)
  BY <1>1, <1>2, Reworked DEF AtWork
<1>4. CASE Takes(p)
  <2>1. job[p].op = "reject" /\ rows[i].status = "pending"
    BY <1>3, <1>4 DEF Takes, TypeInv, AdminJobOK
  <2>2. pc'[p] \in {"adjust", "reread"}
    BY <1>4, <2>1 DEF Takes
  <2> QED  BY <1>3, <2>1, <2>2 DEF Clear, PendingNewest
<1>5. CASE AtWork(p, i)
  <2>1. Adjusting(p, s)
    BY <1>3, <1>5 DEF Adjusting
  <2>2. /\ Newest(i) /\ pc[p] # "fail"
        /\ pc[p] \in {"record", "resolve"} => job[p].after = expiry[s]
    BY <1>3, <2>1 DEF Clear, OnNewest, HasRead
  <2>3. Stays(p) \/ Advances(p)
    <3>1. i # 0 /\ Actor(p) /\ job \in [Procs -> Job]
      BY <1>2, LenProperties, ActorSteps DEF TypeInv, TypeOK
    <3>2. ~Ends(p) /\ ~Begins(p) /\ ~Takes(p) /\ ~Inserted(p)
      BY <1>1, <1>5 DEF Ends, Begins, Takes, Inserted, AtWork, Working
    <3> QED  BY <3>1, <3>2 DEF Actor
  <2>4. CASE Stays(p)
    BY <1>3, <2>1, <2>2, <2>4 DEF Stays
  <2>5. CASE Advances(p)
    <3>1. /\ pc[p] = "adjust" => pc'[p] # "fail"
          /\ pc[p] = "reread" /\ pc'[p] # "reread" => job'[p].after = expiry[s]
      BY <2>1 DEF WithoutYes, Unread
    <3>2. pc'[p] \in Working
      BY <1>1 DEF AtWork
    <3>3. \/ pc[p] = "adjust" /\ pc'[p] \in {"reread", "fail"}
          \/ pc[p] = "reread" /\ pc'[p] \in {"record", "resolve"}
      BY <2>5, <3>2 DEF Advances, Working
    <3> QED  BY <1>3, <2>1, <2>2, <3>1, <3>3
  <2> QED  BY <2>3, <2>4, <2>5
<1> QED  BY <1>3, <1>4, <1>5

(* Who has left a record has left what it read.                            *)
LEMMA AdjustingBefore ==
  ASSUME TypeInv, [Next]_vars, NEW s \in Subs, ~Renewed(s), ~WithoutYes(s), ~Unread(s),
         Clear(s), NEW p \in Procs, Adjusting(p, s), ~Adjusting(p, s)'
  PROVE  /\ pc[p] \in {"record", "resolve"} /\ job[p].id \in RowsOf(s)
         /\ rows'[job[p].id].after = expiry[s]
<1>1. PICK i \in RowsOf(s) : AtWork(p, i) /\ job[p].op # "confirm" /\ job[p].id = i
  BY DEF Adjusting, AtWork
<1>2. i \in DOMAIN rows /\ RowsOf(s)' = RowsOf(s)
  BY DEF RowsOf, Renewed
<1>3. Stays(p) \/ Ends(p) \/ Advances(p)
  <2>1. i # 0 /\ Actor(p) /\ job \in [Procs -> Job]
    BY <1>2, LenProperties, ActorSteps DEF TypeInv, TypeOK
  <2>2. ~Begins(p) /\ ~Takes(p) /\ ~Inserted(p)
    BY <1>1 DEF Begins, Takes, Inserted, AtWork, Working
  <2> QED  BY <2>1, <2>2 DEF Actor
<1>4. Stays(p) \/ Advances(p) => pc'[p] \notin Working
  BY <1>1, <1>2 DEF Adjusting, AtWork, Stays, Advances
<1>5. /\ pc[p] = "adjust" => pc'[p] \notin {"fail", "idle"}
      /\ pc[p] = "reread" => pc'[p] # "idle"
      /\ pc[p] \in {"record", "resolve"} /\ pc'[p] # pc[p] => rows'[i].after = job[p].after
  BY <1>1 DEF WithoutYes, Unread
<1>6. /\ pc[p] \in Working /\ pc[p] # "fail"
      /\ pc[p] \in {"record", "resolve"} => job[p].after = expiry[s]
  BY <1>1 DEF Clear, OnNewest, HasRead, AtWork
<1>7. CASE Stays(p)
  BY <1>4, <1>6, <1>7 DEF Stays
<1>8. CASE Ends(p)
  BY <1>1, <1>5, <1>6, <1>8 DEF Ends, Working
<1>9. CASE Advances(p)
  <2>1. pc[p] \in {"record", "resolve"} /\ pc'[p] = "tell"
    BY <1>4, <1>9 DEF Advances, Working
  <2> QED  BY <1>1, <1>5, <1>6, <2>1
<1> QED  BY <1>3, <1>7, <1>8, <1>9

(* A subscription that nothing muddles stays clear.                        *)
LEMMA ClearKept ==
  ASSUME TypeInv, [Next]_vars, NEW s \in Subs, ~Renewed(s), ~WithoutYes(s), ~Unread(s),
         Clear(s), ~Overlapping(s)'
  PROVE  Clear(s)'
<1>1. RowsOf(s)' = RowsOf(s) /\ \A i \in RowsOf(s) : i \in DOMAIN rows /\ rows[i].sub = s
  BY DEF Renewed, RowsOf
<1>2. \A i \in RowsOf(s) : rows'[i].sub = s /\ i \in DOMAIN rows'
  BY <1>1, RowSteps
<1>3. ASSUME NEW i \in RowsOf(s) PROVE Newest(i)' <=> Newest(i)
  <2>1. Newest(i) <=> \A j \in RowsOf(s) : j <= i
    BY <1>1 DEF Newest, RowsOf
  <2>2. Newest(i)' <=> \A j \in RowsOf(s)' : j <= i
    BY <1>2 DEF Newest, RowsOf
  <2> QED  BY <1>1, <2>1, <2>2
<1>4. \A p, q \in Procs : Adjusting(p, s) /\ Adjusting(q, s) => p = q
  BY DEF Clear, Overlapping
<1>5. ASSUME NEW p \in Procs, Adjusting(p, s), pc[p] # "adjust"
      PROVE  expiry'[s] = expiry[s]
  BY <1>4, <1>5, ExpirySteps
<1>6. OnNewest(s)'
  BY <1>3, AdjustingAfter DEF OnNewest
<1>7. HasRead(s)'
  <2> SUFFICES ASSUME NEW p \in Procs, Adjusting(p, s)', pc'[p] \in {"record", "resolve"}
               PROVE  job'[p].after = expiry'[s]
    BY DEF HasRead
  <2> QED  BY <1>5, AdjustingAfter
<1>8. PendingNewest(s)'
  <2> SUFFICES ASSUME NEW i \in RowsOf(s), rows'[i].status = "pending"
               PROVE  Newest(i)
    BY <1>1, <1>3 DEF PendingNewest
  <2>1. CASE rows'[i] = rows[i]
    BY <2>1 DEF Clear, PendingNewest
  <2>2. ASSUME NEW c \in Clients, Concluded(c, i)
        PROVE  Newest(i)
    <3>1. c \in Procs /\ Adjusting(c, s) /\ job[c].id = i
      BY <2>2 DEF Concluded, Adjusting, AtWork, Working, Procs, TypeInv, ClientJobOK
    <3> QED  BY <3>1 DEF Clear, OnNewest
  <2>3. \A a \in Admins : ~Settled(a, i)
    BY DEF Settled, Verdict
  <2> QED  BY <1>1, <2>1, <2>2, <2>3, RowSteps
<1>9. Written(s)'
  <2> SUFFICES ASSUME \A p \in Procs : ~Adjusting(p, s)', NEW i \in RowsOf(s), Newest(i)
               PROVE  rows'[i].after = expiry'[s]
    BY <1>1, <1>3 DEF Written
  <2>1. ASSUME NEW p \in Procs, Adjusting(p, s)
        PROVE  rows'[i].after = expiry'[s]
    <3>1. /\ pc[p] \in {"record", "resolve"} /\ job[p].id \in RowsOf(s)
          /\ rows'[job[p].id].after = expiry[s]
      BY <2>1, AdjustingBefore
    <3>2. Newest(job[p].id)
      BY <2>1 DEF Clear, OnNewest
    <3>3. \A j \in RowsOf(s) : j \in Int
      BY <1>1, RowIds DEF Ids
    <3>4. job[p].id = i
      BY <1>1, <3>1, <3>2, <3>3 DEF Newest
    <3>5. expiry'[s] = expiry[s]
      BY <1>5, <2>1, <3>1
    <3> QED  BY <3>1, <3>4, <3>5
  <2>2. CASE \A p \in Procs : ~Adjusting(p, s)
    <3>1. expiry'[s] = expiry[s] /\ rows[i].after = expiry[s]
      BY <2>2, ExpirySteps DEF Clear, Written
    <3>2. \A c \in Clients : ~Concluded(c, i)
      BY <2>2 DEF Concluded, Adjusting, AtWork, Working, Procs, TypeInv, ClientJobOK
    <3>3. ASSUME NEW a \in Admins, Settled(a, i)
          PROVE  rows'[i].after = rows[i].after
      <4>1. job[a].op = "confirm"
        BY <2>2, <3>3 DEF Settled, Adjusting, Procs
      <4> QED  BY <1>1, <3>3, <4>1, ConfirmKeeps
    <3> QED  BY <1>1, <3>1, <3>2, <3>3, RowSteps
  <2> QED  BY <2>1, <2>2
<1> QED  BY <1>6, <1>7, <1>8, <1>9 DEF Clear

DatesInv == TypeInv /\ \A s \in Subs : s \notin muddled => Clear(s)

(* expiry_after of the newest row is the panel's expiry once nobody is at  *)
(* work on the subscription (RecordedExpiry of the runs), unless something *)
(* on the list of RenewalExpiry has happened since that row.  For any      *)
(* number of goroutines and rows, every fault, and admins at any time.     *)
THEOREM RecordedExpiryAlways == SpecExp => []RecordedExpiry
<1>1. InitExp => DatesInv
  <2>1. Init => DOMAIN rows = {}
    BY DEF Init
  <2>2. InitExp => \A s \in Subs : RowsOf(s) = {} /\ \A p \in Procs : ~Adjusting(p, s)
    BY <2>1 DEF InitExp, RowsOf, Adjusting
  <2> QED
    BY <2>2, TypingInit
    DEF InitExp, DatesInv, Clear, Overlapping, OnNewest, HasRead, PendingNewest, Written
<1>2. DatesInv /\ [NextExp]_evars => DatesInv'
  <2> SUFFICES ASSUME DatesInv, [NextExp]_evars PROVE DatesInv'
    OBVIOUS
  <2>1. [Next]_vars /\ TypeInv
    BY DEF NextExp, evars, vars, DatesInv
  <2>2. ASSUME NEW s \in Subs, s \notin muddled'
        PROVE  Clear(s)'
    <3>1. CASE UNCHANGED evars
      BY <2>2, <3>1
      DEF evars, vars, DatesInv, Clear, Overlapping, OnNewest, HasRead, PendingNewest,
          Written, Adjusting, AtWork, RowsOf, Newest
    <3>2. CASE NextExp
      <4>1. /\ ~Overlapping(s)' /\ ~WithoutYes(s) /\ ~Unread(s)
            /\ s \in muddled => Renewed(s)
        BY <2>2, <3>2 DEF NextExp
      <4>2. CASE Renewed(s)
        BY <2>1, <4>1, <4>2, ClearNew
      <4>3. CASE ~Renewed(s)
        BY <2>1, <4>1, <4>3, ClearKept DEF DatesInv
      <4> QED  BY <4>2, <4>3
    <3> QED  BY <3>1, <3>2
  <2> QED  BY <2>1, <2>2, TypingStep DEF DatesInv
<1>3. DatesInv => RecordedExpiry
  <2> SUFFICES ASSUME DatesInv, NEW i \in DOMAIN rows, Newest(i), rows[i].sub \notin muddled,
                      \A j \in RowsOf(rows[i].sub) : AtRest(j)
               PROVE  rows[i].after = expiry[rows[i].sub]
    BY DEF RecordedExpiry
  <2>1. rows[i].sub \in Subs /\ i \in RowsOf(rows[i].sub)
    BY RowOf DEF RowsOf, RowType, DatesInv
  <2>2. \A p \in Procs : ~Adjusting(p, rows[i].sub)
    BY DEF AtRest, Adjusting
  <2> QED  BY <2>1, <2>2 DEF DatesInv, Clear, Written
<1> QED  BY <1>1, <1>2, <1>3, PTL DEF SpecExp

============================================================================
