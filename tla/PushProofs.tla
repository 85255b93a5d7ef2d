----------------------------- MODULE PushProofs -----------------------------
(***************************************************************************)
(* The silence clock and the failure counter of the push table for every   *)
(* number of senders and endpoints, every limit and every combination of   *)
(* faults; and, while no two broadcasts overlap and nothing is lost, that  *)
(* no device in reach is given up and failures are counted in a row.       *)
(***************************************************************************)
EXTENDS PushHistory, TLAPS

RowType == [fail : 0 .. MaxFailures, unconfirmed : 0 .. MaxUnconfirmed, age : 0 .. Grace]
JobType == [at : Steps, fail : 0 .. MaxFailures]

(* What a row may hold given the days e was not heard from.                *)
Honest(row, days) == row # NoRow /\ row.unconfirmed > 0 => row.age <= days

(* What TypeOK says of the table, of the goroutines and of the rest.       *)
Table == subs \in [Endpoints -> RowType \cup {NoRow}]
Jobs == job \in [Senders -> [Endpoints -> JobType]]
Rest ==
  /\ phone \in [Endpoints -> {"online", "offline", "removed"}]
  /\ waiting \in [Endpoints -> BOOLEAN]
  /\ heard \in [Endpoints -> 0 .. Grace]
  /\ away \in [Endpoints -> 0 .. Grace]
  /\ streak \in [Endpoints -> 0 .. MaxFailures]

HonestTable == \A e \in Endpoints : Honest(subs[e], heard[e])

(* TypeOK and SilenceClock, in the parts a step disturbs.                  *)
Inv == Table /\ Jobs /\ Rest /\ HonestTable

-----------------------------------------------------------------------------
(* The three limits are positive whole numbers.                            *)
LEMMA Limits ==
  /\ MaxFailures \in Nat /\ MaxFailures > 0
  /\ MaxUnconfirmed \in Nat /\ MaxUnconfirmed > 0
  /\ Grace \in Nat /\ Grace > 0
  /\ NoRow \notin RowType
<1>1. RowType \subseteq [fail : Nat, unconfirmed : Nat, age : Nat]
  BY PushAssumption DEF RowType
<1> QED
  BY <1>1, PushAssumption

(* Counting stops at the limit.                                            *)
LEMMA UpToType ==
  ASSUME NEW m \in Nat, NEW n \in 0 .. m
  PROVE  UpTo(n + 1, m) \in 0 .. m /\ UpTo(n + 1, m) <= n + 1 /\ n <= UpTo(n + 1, m)
BY DEF UpTo

(* The statements keep a row a row; an accepted message never ages the     *)
(* silence, and a receipt or a subscription ends it.                       *)
LEMMA RowStatements ==
  ASSUME NEW row \in RowType
  PROVE  /\ AcceptedRow(row) \in RowType
         /\ AcceptedRow(row).age = IF row.unconfirmed = 0 THEN 0 ELSE row.age
         /\ ReceiptRow(row) \in RowType /\ ReceiptRow(row).unconfirmed = 0
         /\ FreshRow \in RowType /\ FreshRow.unconfirmed = 0
         /\ row.fail \in 0 .. MaxFailures /\ row.unconfirmed \in 0 .. MaxUnconfirmed
         /\ row.age \in 0 .. Grace
<1>1. /\ row.fail \in 0 .. MaxFailures /\ row.unconfirmed \in 0 .. MaxUnconfirmed
      /\ row.age \in 0 .. Grace
  BY DEF RowType
<1>2. UpTo(row.unconfirmed + 1, MaxUnconfirmed) \in 0 .. MaxUnconfirmed
  BY <1>1, Limits, UpToType
<1>3. /\ AcceptedRow(row) \in RowType
      /\ AcceptedRow(row).age = IF row.unconfirmed = 0 THEN 0 ELSE row.age
  <2> DEFINE u == UpTo(row.unconfirmed + 1, MaxUnconfirmed)
             a == IF row.unconfirmed = 0 THEN 0 ELSE row.age
  <2>1. a \in 0 .. Grace /\ u \in 0 .. MaxUnconfirmed /\ 0 \in 0 .. MaxFailures
    BY <1>1, <1>2, Limits
  <2>2. AcceptedRow(row) = [fail |-> 0, unconfirmed |-> u, age |-> a]
    BY DEF AcceptedRow
  <2> HIDE DEF u, a
  <2>3. AcceptedRow(row) \in RowType /\ AcceptedRow(row).age = a
    BY <2>1, <2>2 DEF RowType
  <2> QED  BY <2>3 DEF a
<1>4. ReceiptRow(row) \in RowType /\ ReceiptRow(row).unconfirmed = 0
  <2>1. 0 \in 0 .. MaxUnconfirmed /\ 0 \in 0 .. Grace
    BY Limits
  <2>2. ReceiptRow(row) = [[row EXCEPT !.unconfirmed = 0] EXCEPT !.age = 0]
    BY DEF ReceiptRow
  <2>3. [row EXCEPT !.unconfirmed = 0] \in RowType
    BY <2>1 DEF RowType
  <2> QED  BY <2>1, <2>2, <2>3 DEF RowType
<1>5. FreshRow \in RowType /\ FreshRow.unconfirmed = 0
  BY Limits DEF RowType, FreshRow
<1> QED
  BY <1>1, <1>3, <1>4, <1>5

(* A step of one sendOne leaves every other one where it was.              *)
LEMMA JobStep ==
  ASSUME NEW s \in Senders, NEW e \in Endpoints, NEW step \in Steps,
         job \in [Senders -> [Endpoints -> JobType]],
         Move(s, e, step) \/ End(s, e)
  PROVE  /\ job' \in [Senders -> [Endpoints -> JobType]]
         /\ \A t \in Senders, d \in Endpoints :
              t # s \/ d # e => job'[t][d] = job[t][d]
         /\ End(s, e) => job'[s][e].at = "idle"
         /\ Move(s, e, step) => job'[s][e].at = step /\ job'[s][e].fail = job[s][e].fail
         /\ End(s, e) => job'[s][e] = Idle
<1>1. Idle \in JobType /\ Idle.at = "idle"
  BY Limits DEF Idle, JobType, Steps
<1>2. job[s][e] \in JobType
  OBVIOUS
<1> DEFINE moved == [job[s][e] EXCEPT !.at = step]
<1>3. moved \in JobType /\ moved.at = step /\ moved.fail = job[s][e].fail
  BY <1>2 DEF JobType
<1>4. \E j \in JobType : /\ job' = [job EXCEPT ![s] = [job[s] EXCEPT ![e] = j]]
                         /\ End(s, e) => j = Idle
                         /\ Move(s, e, step) => j = moved
  <2>1. CASE End(s, e)
    <3>1. job' = [job EXCEPT ![s] = [job[s] EXCEPT ![e] = Idle]]
      BY <2>1 DEF End
    <3>2. job'[s][e] = Idle
      BY <3>1
    <3>3. Move(s, e, step) => Idle = moved
      <4>1. Move(s, e, step) => job'[s][e] = moved
        BY DEF Move
      <4> QED  BY <3>2, <4>1
    <3> QED  BY <1>1, <3>1, <3>3
  <2>2. CASE Move(s, e, step) /\ ~End(s, e)
    BY <1>3, <2>2 DEF Move
  <2> QED  BY <2>1, <2>2
<1> HIDE DEF moved
<1>5. PICK j \in JobType : /\ job' = [job EXCEPT ![s] = [job[s] EXCEPT ![e] = j]]
                           /\ End(s, e) => j = Idle
                           /\ Move(s, e, step) => j = moved
  BY <1>4
<1>7. /\ job' \in [Senders -> [Endpoints -> JobType]] /\ job'[s][e] = j
      /\ \A t \in Senders, d \in Endpoints :
              t # s \/ d # e => job'[t][d] = job[t][d]
  <2> HIDE DEF JobType
  <2> QED  BY <1>5
<1>8. (End(s, e) => job'[s][e] = Idle) /\ (Move(s, e, step) => job'[s][e] = moved)
  BY <1>5, <1>7
<1> QED
  BY <1>1, <1>3, <1>7, <1>8

-----------------------------------------------------------------------------
(* A row replaced by an honest one, or deleted, leaves the table honest.   *)
LEMMA OneRow ==
  ASSUME Table, HonestTable,
         NEW e \in Endpoints, NEW row \in RowType \cup {NoRow},
         subs' = [subs EXCEPT ![e] = row],
         Honest(row, heard'[e]),
         \A d \in Endpoints : d # e => heard'[d] = heard[d]
  PROVE  Table' /\ HonestTable'
BY DEF Table, HonestTable, Honest

(* An empty table claims nothing.                                          *)
LEMMA Initially == Init => Inv
<1> SUFFICES ASSUME Init PROVE Inv
  OBVIOUS
<1>1. Idle \in JobType
  BY Limits DEF Idle, JobType, Steps
<1>2. Table /\ Jobs /\ Rest
  BY <1>1, Limits DEF Init, Table, Jobs, Rest
<1>3. HonestTable
  BY DEF Init, Honest, HonestTable
<1> QED
  BY <1>2, <1>3 DEF Inv

(* SendTo and sendOne.                                                     *)
LEMMA SenderKeeps ==
  ASSUME Inv, NEW s \in Senders, NEW e \in Endpoints,
         SendOne(s, e) \/ StoreError(s, e)
  PROVE  Inv'
<1>1. Table /\ Jobs /\ Rest /\ HonestTable /\ \A d \in Endpoints : Honest(subs[d], heard[d])
  BY DEF Inv, HonestTable
<1>2. Jobs'
  <2>1. \E step \in Steps : Move(s, e, step) \/ End(s, e)
    BY DEF SendOne, Answer, Record, Drop, StoreError, Accept, Refuse, Gone, RecordAccepted, DropSilent,
           DropGone, DropFailing, RecordFailure, Steps
  <2> QED  BY <1>1, <2>1, JobStep DEF Jobs
<1>3. Rest' /\ heard' = heard
  <2>1. CASE Accept(s, e)
    <3>1. waiting' \in [Endpoints -> BOOLEAN]
      BY <1>1, <2>1, Zenon DEF Accept, Taken, Rest
    <3>2. streak' \in [Endpoints -> 0 .. MaxFailures]
      BY <1>1, <2>1, Limits DEF Accept, Rest
    <3> QED  BY <1>1, <2>1, <3>1, <3>2 DEF Accept, Rest
  <2>2. CASE Refuse(s, e)
    <3>1. UpTo(streak[e] + 1, MaxFailures) \in 0 .. MaxFailures
      BY <1>1, Limits, UpToType DEF Rest
    <3>2. waiting' \in [Endpoints -> BOOLEAN]
      BY <1>1, <2>2, Zenon DEF Refuse, Taken, Rest
    <3> QED  BY <1>1, <2>2, <3>1, <3>2 DEF Refuse, Rest
  <2>3. CASE UNCHANGED <<device, history>>
    BY <1>1, <2>3 DEF device, history, Rest
  <2> QED
    BY <2>1, <2>2, <2>3 DEF SendOne, Answer, Record, Drop, StoreError, Gone, RecordAccepted, DropSilent,
           DropGone, DropFailing, RecordFailure
<1>4. Table' /\ HonestTable'
  <2>1. CASE UNCHANGED subs
    BY <1>1, <1>3, <2>1 DEF Table, Honest, HonestTable
  <2>2. CASE Delete(e)
    BY <1>1, <1>3, <2>2, OneRow DEF Delete, Honest, HonestTable
  <2>3. CASE RecordAccepted(s, e) /\ subs[e] # NoRow
    <3>1. subs[e] \in RowType /\ Honest(subs[e], heard[e]) /\ heard[e] \in 0 .. Grace
      BY <1>1, <2>3 DEF Table, Rest
    <3>2. subs' = [subs EXCEPT ![e] = AcceptedRow(subs[e])]
      BY <2>3 DEF RecordAccepted
    <3>3. Honest(AcceptedRow(subs[e]), heard'[e])
      <4>1. subs[e].unconfirmed \in 0 .. MaxUnconfirmed
        BY <3>1, RowStatements
      <4>2. AcceptedRow(subs[e]).age = IF subs[e].unconfirmed = 0 THEN 0 ELSE subs[e].age
        BY <3>1, RowStatements
      <4>3. subs[e].unconfirmed > 0 => subs[e].age <= heard[e]
        BY <2>3, <3>1 DEF Honest
      <4>4. 0 <= heard[e]
        BY <3>1, Limits
      <4>5. AcceptedRow(subs[e]).age <= heard[e]
        BY <4>1, <4>2, <4>3, <4>4, Limits
      <4> QED  BY <1>3, <4>5 DEF Honest
    <3> QED  BY <1>1, <1>3, <3>1, <3>2, <3>3, RowStatements, OneRow
  <2>4. CASE MarkFailed(e)
    <3>1. CASE subs[e] = NoRow
      BY <2>1, <2>4, <3>1 DEF MarkFailed
    <3>2. CASE subs[e] # NoRow
      <4> DEFINE f == UpTo(subs[e].fail + 1, MaxFailures)
                 row == [subs[e] EXCEPT !.fail = f]
      <4>1. subs[e] \in RowType /\ Honest(subs[e], heard[e])
        BY <1>1, <3>2 DEF Table
      <4>2. f \in 0 .. MaxFailures
        BY <4>1, Limits, UpToType DEF RowType
      <4>3. subs' = [subs EXCEPT ![e] = row]
        BY <2>4, <3>2 DEF MarkFailed
      <4> HIDE DEF f
      <4>4. row \in RowType /\ row.unconfirmed = subs[e].unconfirmed /\ row.age = subs[e].age
        BY <4>1, <4>2 DEF RowType
      <4>5. Honest(row, heard'[e])
        BY <1>3, <3>2, <4>1, <4>4 DEF Honest
      <4> HIDE DEF row
      <4> QED  BY <1>1, <1>3, <4>3, <4>4, <4>5, OneRow
    <3> QED  BY <3>1, <3>2
  <2> QED
    BY <2>1, <2>2, <2>3, <2>4 DEF SendOne, Answer, Record, Drop, StoreError, Accept, Refuse, Gone, RecordAccepted,
           DropSilent, DropGone, DropFailing, RecordFailure
<1> QED
  BY <1>2, <1>3, <1>4 DEF Inv

(* A broadcast only copies counters the table holds.                       *)
LEMMA BroadcastKeeps ==
  ASSUME Inv, NEW s \in Senders, Broadcast(s)
  PROVE  Inv'
<1>1. Table /\ Jobs /\ Rest
  BY DEF Inv
<1> DEFINE J == [e \in Endpoints |-> IF subs[e] = NoRow THEN Idle
                                     ELSE [at |-> "post", fail |-> subs[e].fail]]
<1>2. J \in [Endpoints -> JobType]
  BY <1>1, Limits DEF Table, RowType, JobType, Idle, Steps
<1>3. job' = [job EXCEPT ![s] = J]
  BY DEF Broadcast
<1> HIDE DEF J
<1>4. Jobs'
  BY <1>1, <1>2, <1>3 DEF Jobs
<1> QED
  BY <1>1, <1>4 DEF Inv, Broadcast, Table, Rest, device, history, HonestTable

(* The owner and the service worker.                                       *)
LEMMA DeviceKeeps ==
  ASSUME Inv, NEW e \in Endpoints, Device(e)
  PROVE  Inv'
<1>1. Table /\ Jobs /\ Rest /\ HonestTable /\ \A d \in Endpoints : Honest(subs[d], heard[d])
  BY DEF Inv, HonestTable
<1>2. job' = job
  BY DEF Device, Receipt, ReceiptLost, Subscribe, Unsubscribe, SwitchOff, SwitchOn, Remove, table
<1>3. /\ phone' \in [Endpoints -> {"online", "offline", "removed"}]
      /\ waiting' \in [Endpoints -> BOOLEAN]
  BY <1>1 DEF Device, Receipt, ReceiptLost, Subscribe, Unsubscribe, SwitchOff, SwitchOn,
              Remove, device, Rest
<1>4. HeardFrom(e) \/ UNCHANGED history
  BY DEF Device, Receipt, ReceiptLost, Subscribe, Unsubscribe, SwitchOff, SwitchOn, Remove
<1>5. /\ heard' \in [Endpoints -> 0 .. Grace] /\ away' \in [Endpoints -> 0 .. Grace]
      /\ streak' = streak
      /\ \A d \in Endpoints : d # e => heard'[d] = heard[d]
  BY <1>1, <1>4, Limits DEF HeardFrom, history, Rest
<1>6. Rest'
  BY <1>1, <1>3, <1>5 DEF Rest
<1>7. Table' /\ HonestTable'
  <2>1. CASE UNCHANGED subs /\ HeardFrom(e) /\ subs[e] = NoRow
    BY <1>1, <1>5, <2>1 DEF Table, Honest, HonestTable
  <2>2. CASE UNCHANGED subs /\ UNCHANGED history
    BY <1>1, <2>2 DEF Table, Honest, HonestTable, history
  <2>3. CASE Delete(e)
    BY <1>1, <1>5, <2>3, OneRow DEF Delete, Honest, HonestTable
  <2>4. CASE Subscribe(e)
    <3>1. FreshRow \in RowType /\ FreshRow.unconfirmed = 0
      BY Limits DEF FreshRow, RowType
    <3>2. subs' = [subs EXCEPT ![e] = FreshRow]
      BY <2>4 DEF Subscribe
    <3>3. Honest(FreshRow, heard'[e])
      BY <3>1 DEF Honest
    <3> QED  BY <1>1, <1>5, <3>1, <3>2, <3>3, OneRow
  <2>5. CASE Receipt(e) /\ subs[e] # NoRow
    <3>1. subs[e] \in RowType
      BY <1>1, <2>5 DEF Table
    <3>2. subs' = [subs EXCEPT ![e] = ReceiptRow(subs[e])]
      BY <2>5 DEF Receipt
    <3>3. ReceiptRow(subs[e]) \in RowType /\ Honest(ReceiptRow(subs[e]), heard'[e])
      BY <3>1, RowStatements DEF Honest
    <3> QED  BY <1>1, <1>5, <3>2, <3>3, OneRow
  <2> QED
    BY <2>1, <2>2, <2>3, <2>4, <2>5 DEF Device, Receipt, ReceiptLost, Subscribe, Unsubscribe,
           SwitchOff, SwitchOn, Remove, table
<1> QED
  BY <1>1, <1>2, <1>6, <1>7 DEF Inv, Jobs

(* A day ages the silence and the time since the last sign of life alike.  *)
LEMMA TickKeeps ==
  ASSUME Inv, Tick
  PROVE  Inv'
<1>1. Table /\ Jobs /\ Rest /\ HonestTable /\ \A d \in Endpoints : Honest(subs[d], heard[d])
  BY DEF Inv, HonestTable
<1>2. \A e \in Endpoints :
        /\ UpTo(heard[e] + 1, Grace) \in 0 .. Grace
        /\ UpTo(away[e] + 1, Grace) \in 0 .. Grace
  BY <1>1, Limits, UpToType DEF Rest
<1>3. Rest'
  BY <1>1, <1>2 DEF Tick, Rest
<1>4. ASSUME NEW e \in Endpoints
      PROVE  subs'[e] \in RowType \cup {NoRow} /\ Honest(subs'[e], heard'[e])
  <2>1. heard[e] \in 0 .. Grace /\ heard'[e] = UpTo(heard[e] + 1, Grace)
    BY <1>1 DEF Rest, Tick
  <2>2. CASE subs[e] = NoRow \/ subs[e].unconfirmed = 0
    <3>1. subs'[e] = subs[e]
      BY <2>2 DEF Tick
    <3> QED  BY <1>1, <2>2, <3>1 DEF Table, Honest
  <2>3. CASE subs[e] # NoRow /\ subs[e].unconfirmed # 0
    <3> DEFINE g == UpTo(subs[e].age + 1, Grace)
               row == [subs[e] EXCEPT !.age = g]
    <3>1. subs[e] \in RowType /\ subs[e].unconfirmed \in 0 .. MaxUnconfirmed /\ subs[e].age \in 0 .. Grace
      BY <1>1, <2>3, RowStatements DEF Table
    <3>2. g \in 0 .. Grace
      BY <3>1, Limits, UpToType
    <3>3. subs[e].age <= heard[e]
      BY <1>1, <2>3, <3>1, Limits DEF Honest
    <3>4. g <= UpTo(heard[e] + 1, Grace)
      BY <2>1, <3>1, <3>3, Limits DEF UpTo
    <3>5. subs'[e] = row
      BY <2>3 DEF Tick
    <3> HIDE DEF g
    <3>6. row \in RowType /\ row.age = g
      BY <3>1, <3>2 DEF RowType
    <3> QED  BY <2>1, <3>4, <3>5, <3>6 DEF Honest
  <2> QED  BY <2>2, <2>3
<1>5. Table'
  BY <1>4 DEF Tick, Table
<1> QED
  BY <1>1, <1>3, <1>4, <1>5 DEF Inv, Jobs, Tick, HonestTable

(* No step of anybody breaks the invariant.                                *)
LEMMA Inductive == Inv /\ [Next]_vars => Inv'
<1> SUFFICES ASSUME Inv, [Next]_vars PROVE Inv'
  OBVIOUS
<1>0. Table /\ Jobs /\ Rest /\ HonestTable
  BY DEF Inv
<1>1. CASE \E s \in Senders : Broadcast(s)
  BY <1>1, BroadcastKeeps
<1>2. CASE \E s \in Senders, e \in Endpoints : SendOne(s, e) \/ StoreError(s, e)
  BY <1>2, SenderKeeps
<1>3. CASE \E e \in Endpoints : Device(e)
  BY <1>3, DeviceKeeps
<1>4. CASE Crash
  <2>1. Idle \in JobType
    BY Limits DEF Idle, JobType, Steps
  <2>2. Jobs'
    BY <1>4, <2>1 DEF Crash, Jobs
  <2> QED
    BY <1>0, <1>4, <2>2 DEF Crash, Inv, Table, Rest, device, history, HonestTable
<1>5. CASE Tick
  BY <1>5, TickKeeps
<1>6. CASE UNCHANGED vars
  BY <1>0, <1>6 DEF vars, Inv, Table, Jobs, Rest, HonestTable
<1> QED
  BY <1>1, <1>2, <1>3, <1>4, <1>5, <1>6 DEF Next

(* The invariant holds in every state of every run.                        *)
LEMMA InvAlways == Spec => []Inv
BY Initially, Inductive, PTL DEF Spec

(* Rows, goroutines and counters stay within their limits.                 *)
THEOREM Typing == Spec => []TypeOK
<1>1. Inv => TypeOK
  BY DEF Inv, Table, Jobs, Rest, TypeOK, RowType, JobType
<1> QED
  BY <1>1, InvAlways, PTL

(* However many senders, receipts and subscriptions interleave, the table  *)
(* never claims a longer silence than there was.                           *)
THEOREM SilenceClockAlways == Spec => []SilenceClock
<1>1. Inv => SilenceClock
  BY DEF Inv, HonestTable, Honest, SilenceClock
<1> QED
  BY <1>1, InvAlways, PTL

(* Only recordAccepted gives the verdict, on the row it has just written.  *)
LEMMA VerdictOnRow ==
  ASSUME Inv, [Next]_vars, NEW s \in Senders, NEW e \in Endpoints, Condemned(s, e)
  PROVE  /\ RecordAccepted(s, e) /\ subs[e] # NoRow /\ subs[e] \in RowType
         /\ IsSilent(AcceptedRow(subs[e]))
<1>1. Table /\ Jobs /\ job[s][e].at # "silent" /\ job'[s][e].at = "silent"
  BY DEF Inv, Condemned
<1>2. CASE RecordAccepted(s, e)
  <2>2. subs[e] # NoRow /\ IsSilent(AcceptedRow(subs[e]))
    <3>1. End(s, e) => job'[s][e].at = "idle"
      <4>1. "idle" \in Steps
        BY DEF Steps
      <4> QED  BY <1>1, <4>1, JobStep DEF Jobs
    <3> QED  BY <1>1, <1>2, <3>1 DEF RecordAccepted
  <2> QED  BY <1>1, <1>2, <2>2 DEF Table
<1>3. CASE \E t \in Senders, d \in Endpoints :
              /\ SendOne(t, d) \/ StoreError(t, d)
              /\ ~(t = s /\ d = e /\ RecordAccepted(s, e))
  <2>1. PICK t \in Senders, d \in Endpoints :
              /\ SendOne(t, d) \/ StoreError(t, d)
              /\ ~(t = s /\ d = e /\ RecordAccepted(s, e))
    BY <1>3
  <2>2. \E step \in Steps : Move(t, d, step) \/ End(t, d)
    BY <2>1 DEF SendOne, Answer, Record, Drop, StoreError, Accept, Refuse, Gone, RecordAccepted, DropSilent,
           DropGone, DropFailing, RecordFailure, Steps
  <2>3. t = s /\ d = e
    BY <1>1, <2>2, JobStep DEF Jobs
  <2>4. \/ \E step \in Steps \ {"silent"} : Move(s, e, step)
        \/ End(s, e)
    BY <2>1, <2>3 DEF SendOne, Answer, Record, Drop, StoreError, Accept, Refuse, Gone, DropSilent,
           DropGone, DropFailing, RecordFailure, Steps
  <2>5. job'[s][e].at # "silent"
    BY <1>1, <2>4, JobStep DEF Jobs, Steps
  <2> QED  BY <1>1, <2>5
<1>4. ~\E t \in Senders : Broadcast(t)
  <2> SUFFICES ASSUME NEW t \in Senders, Broadcast(t) PROVE FALSE
    OBVIOUS
  <2>2. t = s
    BY <1>1 DEF Broadcast, Jobs
  <2>3. job'[s][e] = IF subs[e] = NoRow THEN Idle ELSE [at |-> "post", fail |-> subs[e].fail]
    BY <1>1, <2>2 DEF Broadcast, Jobs
  <2> QED  BY <1>1, <2>3 DEF Idle
<1>5. CASE \E d \in Endpoints : Device(d)
  BY <1>1, <1>5 DEF Device, Receipt, ReceiptLost, Subscribe, Unsubscribe, SwitchOff, SwitchOn,
              Remove, table
<1>6. CASE Crash
  BY <1>1, <1>6 DEF Crash, Idle
<1>7. CASE Tick \/ UNCHANGED vars
  BY <1>1, <1>7 DEF Tick, vars
<1> QED
  BY <1>2, <1>3, <1>4, <1>5, <1>6, <1>7 DEF Next

(* isSilent's verdict is only ever reached about a device that gave no     *)
(* sign of life for the whole grace period.                                *)
LEMMA VerdictUnheard ==
  ASSUME Inv, [Next]_vars, NEW s \in Senders, NEW e \in Endpoints, Condemned(s, e)
  PROVE  heard[e] >= Grace
<1>1. subs[e] # NoRow /\ subs[e] \in RowType /\ AcceptedRow(subs[e]).age >= Grace
  BY VerdictOnRow DEF IsSilent
<1>2. Honest(subs[e], heard[e]) /\ heard[e] \in 0 .. Grace
  BY DEF Inv, HonestTable, Rest
<1>3. /\ AcceptedRow(subs[e]).age = IF subs[e].unconfirmed = 0 THEN 0 ELSE subs[e].age
      /\ subs[e].unconfirmed \in 0 .. MaxUnconfirmed /\ subs[e].age \in 0 .. Grace
  BY <1>1, RowStatements
<1>4. subs[e].unconfirmed > 0 /\ subs[e].age >= Grace
  BY <1>1, <1>3, Limits
<1> QED  BY <1>1, <1>2, <1>3, <1>4, Limits DEF Honest

(* No endpoint is condemned whose device subscribed or sent a receipt      *)
(* within the grace period, whatever else was under way.                   *)
THEOREM CondemnedOnlyUnheardAlways == Spec => CondemnedOnlyUnheard
<1>1. Inv /\ [Next]_vars =>
        [\A s \in Senders, e \in Endpoints : Condemned(s, e) => heard[e] >= Grace]_vars
  BY VerdictUnheard
<1> QED
  BY <1>1, InvAlways, PTL DEF Spec, CondemnedOnlyUnheard

-----------------------------------------------------------------------------
(***************************************************************************)
(* Calm: nothing fails or is lost, and broadcasts do not overlap.  Then at *)
(* most one sendOne at a time works on an endpoint, and what it is about   *)
(* to do says how far the row is behind the device.                        *)
(***************************************************************************)

At(s, e) == job[s][e].at

(* j is at work on a row; held: the push service has a message for the     *)
(* device; near: the device is in reach; n deliveries were refused in a    *)
(* row.  A receipt may come before its message is counted, so one message  *)
(* can stay unconfirmed for ever, but never two.                           *)
Unconfirmed(j, held) ==
  IF j.at = "accepted" THEN IF held THEN 1 ELSE 0
                       ELSE IF held THEN 2 ELSE 1

Sound(j, row, held, near, n) ==
  /\ j.at = "post" => ~held /\ j.fail <= n
  /\ j.at = "refused" => UpTo(j.fail + 1, MaxFailures) <= n
  /\ near /\ row # NoRow => row.unconfirmed <= Unconfirmed(j, held)
  /\ row # NoRow /\ j.at # "accepted" =>
       (IF j.at = "refused" THEN UpTo(row.fail + 1, MaxFailures) ELSE row.fail) <= n

SoundWith(j, e) == Sound(j, subs[e], waiting[e], InReach(e), streak[e])

Alone(e) == \A s, t \in Senders : At(s, e) # "idle" /\ At(t, e) # "idle" => s = t

CalmAt(e) ==
  /\ Alone(e)
  /\ (\A s \in Senders : At(s, e) = "idle") => SoundWith(Idle, e)
  /\ \A s \in Senders : At(s, e) # "idle" => SoundWith(job[s][e], e)

CalmInv == \A e \in Endpoints : CalmAt(e)

-----------------------------------------------------------------------------
(* What each statement and each event leaves of Sound.                     *)

(* A sender lists the row, the push service answers.                       *)
LEMMA SoundAnswers ==
  ASSUME NEW row \in RowType \cup {NoRow}, NEW held \in BOOLEAN, NEW near \in BOOLEAN,
         NEW n \in 0 .. MaxFailures, NEW j \in JobType, NEW k \in JobType
  PROVE  /\ /\ Sound(Idle, row, FALSE, near, n) /\ row # NoRow
            /\ k.at = "post" /\ k.fail = row.fail
            => Sound(k, row, FALSE, near, n)
         /\ /\ Sound(j, row, held, near, n) /\ j.at = "post" /\ k.at = "gone"
            => Sound(k, row, held, near, n)
<1>1. /\ row # NoRow => row.fail \in 0 .. MaxFailures /\ row.unconfirmed \in 0 .. MaxUnconfirmed
      /\ j.fail \in 0 .. MaxFailures /\ Idle.at = "idle"
  BY DEF RowType, JobType, Idle
<1> QED  BY <1>1, Limits DEF Sound, Unconfirmed, UpTo

(* The sending fails; the push service has the message all the same (w) or *)
(* not.                                                                    *)
LEMMA SoundRefused ==
  ASSUME NEW row \in RowType \cup {NoRow}, NEW held \in BOOLEAN, NEW near \in BOOLEAN,
         NEW n \in 0 .. MaxFailures, NEW j \in JobType, NEW k \in JobType, NEW w \in BOOLEAN,
         Sound(j, row, held, near, n), j.at = "post", k.at = "refused", k.fail = j.fail
  PROVE  Sound(k, row, w, near, UpTo(n + 1, MaxFailures))
<1>1. /\ row # NoRow => row.fail \in 0 .. MaxFailures /\ row.unconfirmed \in 0 .. MaxUnconfirmed
      /\ j.fail \in 0 .. MaxFailures
  BY DEF RowType, JobType
<1> QED  BY <1>1, Limits DEF Sound, Unconfirmed, UpTo

(* The push service takes the message, and holds it for a device in reach. *)
LEMMA SoundAccepted ==
  ASSUME NEW row \in RowType \cup {NoRow}, NEW held \in BOOLEAN, NEW near \in BOOLEAN,
         NEW n \in 0 .. MaxFailures, NEW j \in JobType, NEW k \in JobType,
         NEW w \in BOOLEAN, near => w,
         Sound(j, row, held, near, n), j.at = "post", k.at = "accepted"
  PROVE  Sound(k, row, w, near, 0)
<1>1. row # NoRow => row.fail \in 0 .. MaxFailures /\ row.unconfirmed \in 0 .. MaxUnconfirmed
  BY DEF RowType
<1> QED  BY <1>1, Limits DEF Sound, Unconfirmed, UpTo

(* The answer is recorded.                                                 *)
LEMMA SoundRecords ==
  ASSUME NEW row \in RowType, NEW held \in BOOLEAN, NEW near \in BOOLEAN,
         NEW n \in 0 .. MaxFailures, NEW j \in JobType, NEW k \in JobType,
         Sound(j, row, held, near, n)
  PROVE  /\ j.at = "accepted" /\ k.at \in {"idle", "silent"}
            => Sound(k, AcceptedRow(row), held, near, n)
         /\ j.at = "refused"
            => Sound(Idle, [row EXCEPT !.fail = UpTo(@ + 1, MaxFailures)], held, near, n)
         /\ j.at = "accepted" /\ near => AcceptedRow(row).unconfirmed <= 2
<1>1. /\ row.fail \in 0 .. MaxFailures /\ row.unconfirmed \in 0 .. MaxUnconfirmed
      /\ AcceptedRow(row).fail = 0
      /\ AcceptedRow(row).unconfirmed = UpTo(row.unconfirmed + 1, MaxUnconfirmed)
      /\ Idle.at = "idle"
  BY DEF RowType, AcceptedRow, Idle
<1>2. ASSUME j.at = "accepted", k.at \in {"idle", "silent"}
      PROVE  Sound(k, AcceptedRow(row), held, near, n)
  BY <1>1, <1>2, Limits DEF Sound, Unconfirmed, UpTo
<1>3. ASSUME j.at = "refused"
      PROVE  Sound(Idle, [row EXCEPT !.fail = UpTo(@ + 1, MaxFailures)], held, near, n)
  <2> DEFINE r == [row EXCEPT !.fail = UpTo(@ + 1, MaxFailures)]
  <2>1. r.fail = UpTo(row.fail + 1, MaxFailures) /\ r.unconfirmed = row.unconfirmed
    BY DEF RowType
  <2> HIDE DEF r
  <2>2. Sound(Idle, r, held, near, n)
    BY <1>1, <1>3, <2>1, Limits DEF Sound, Unconfirmed
  <2> QED  BY <2>2 DEF r
<1>4. ASSUME j.at = "accepted", near
      PROVE  AcceptedRow(row).unconfirmed <= 2
  BY <1>1, <1>4, Limits DEF Sound, Unconfirmed, UpTo
<1> QED  BY <1>2, <1>3, <1>4

(* A receipt ends the silence, whoever is at work; a device out of reach   *)
(* is not promised anything.                                               *)
LEMMA SoundDevices ==
  ASSUME NEW row \in RowType \cup {NoRow}, NEW held \in BOOLEAN, NEW near \in BOOLEAN,
         NEW n \in 0 .. MaxFailures, NEW j \in JobType,
         Sound(j, row, held, near, n), NEW close \in BOOLEAN
  PROVE  /\ row # NoRow => Sound(j, ReceiptRow(row), FALSE, close, n)
         /\ Sound(j, row, FALSE, FALSE, n)
<1>1. /\ row # NoRow => /\ row.fail \in 0 .. MaxFailures /\ row.unconfirmed \in 0 .. MaxUnconfirmed
                        /\ ReceiptRow(row).unconfirmed = 0 /\ ReceiptRow(row).fail = row.fail
      /\ j.fail \in 0 .. MaxFailures
  BY DEF RowType, JobType, ReceiptRow
<1>2. row # NoRow => Sound(j, ReceiptRow(row), FALSE, close, n)
  BY <1>1, Limits DEF Sound, Unconfirmed, UpTo
<1>3. Sound(j, row, FALSE, FALSE, n)
  BY <1>1, Limits DEF Sound, Unconfirmed, UpTo
<1> QED  BY <1>2, <1>3

-----------------------------------------------------------------------------
(* The steps of PushHistory.                                               *)

(* SoundWith in the state after the step.                                  *)
SoundNext(j, e) == Sound(j, subs'[e], waiting'[e], InReach(e)', streak'[e])

(* An endpoint whose goroutines do not move.                               *)
LEMMA NobodyMoves ==
  ASSUME Jobs, NEW e \in Endpoints, CalmAt(e),
         \A s \in Senders : job'[s][e] = job[s][e],
         \A j \in JobType : SoundWith(j, e) => SoundNext(j, e)
  PROVE  CalmAt(e)'
<1>1. Idle \in JobType /\ \A s \in Senders : job[s][e] \in JobType
  BY Limits DEF Jobs, Idle, JobType, Steps
<1>2. Alone(e)'
  BY DEF CalmAt, Alone, At
<1>3. (\A s \in Senders : At(s, e)' = "idle") => SoundNext(Idle, e)
  BY <1>1 DEF CalmAt, At
<1>4. \A s \in Senders : At(s, e)' # "idle" => SoundNext(job'[s][e], e)
  BY <1>1 DEF CalmAt, At
<1> QED  BY <1>2, <1>3, <1>4 DEF CalmAt, SoundWith, SoundNext

(* Nothing about e changes.                                                *)
LEMMA Untouched ==
  ASSUME Jobs, NEW e \in Endpoints, CalmAt(e),
         \A s \in Senders : job'[s][e] = job[s][e],
         subs'[e] = subs[e], waiting'[e] = waiting[e], streak'[e] = streak[e],
         InReach(e)' = InReach(e)
  PROVE  CalmAt(e)'
<1>1. \A j \in JobType : SoundWith(j, e) => SoundNext(j, e)
  BY DEF SoundWith, SoundNext
<1> QED  BY <1>1, NobodyMoves

(* The one sendOne at work on e, or the first one, moves on.               *)
LEMMA OneMoves ==
  ASSUME NEW s \in Senders, NEW e \in Endpoints,
         \A t \in Senders \ {s} : At(t, e) = "idle" /\ job'[t][e] = job[t][e],
         At(s, e)' = "idle" => SoundNext(Idle, e),
         At(s, e)' # "idle" => SoundNext(job'[s][e], e)
  PROVE  CalmAt(e)'
<1>1. \A t \in Senders : At(t, e)' # "idle" => t = s
  BY DEF At
<1>2. Alone(e)'
  BY <1>1 DEF Alone
<1>3. (\A t \in Senders : At(t, e)' = "idle") => SoundNext(Idle, e)
  OBVIOUS
<1>4. \A t \in Senders : At(t, e)' # "idle" => SoundNext(job'[t][e], e)
  BY <1>1
<1> QED  BY <1>2, <1>3, <1>4 DEF CalmAt, SoundWith, SoundNext

(* SendTo begins when all is quiet.                                        *)
LEMMA BroadcastCalm ==
  ASSUME Inv, CalmInv, Quiet, NEW s \in Senders, Broadcast(s), NEW e \in Endpoints
  PROVE  CalmAt(e)'
<1>1. /\ Table /\ Jobs /\ CalmAt(e) /\ waiting[e] = FALSE /\ streak[e] \in 0 .. MaxFailures
      /\ subs[e] \in RowType \cup {NoRow}
  BY DEF Inv, CalmInv, Rest, Quiet, Table
<1>2. \A t \in Senders : job[t][e] = Idle /\ At(t, e) = "idle"
  BY DEF Quiet, Resting, At, Idle
<1>3. Sound(Idle, subs[e], FALSE, InReach(e), streak[e])
  BY <1>1, <1>2 DEF CalmAt, SoundWith
<1>4. /\ subs' = subs /\ waiting' = waiting /\ streak' = streak /\ InReach(e)' = InReach(e)
  BY DEF Broadcast, device, history, InReach
<1>5. /\ \A t \in Senders \ {s} : job'[t][e] = job[t][e]
      /\ job'[s][e] = IF subs[e] = NoRow THEN Idle ELSE [at |-> "post", fail |-> subs[e].fail]
  BY <1>1 DEF Broadcast, Jobs
<1>6. CASE subs[e] = NoRow
  BY <1>1, <1>2, <1>4, <1>5, <1>6, Untouched
<1>7. CASE subs[e] # NoRow
  <2> DEFINE k == [at |-> "post", fail |-> subs[e].fail]
  <2>1. k \in JobType /\ Idle \in JobType
    BY <1>1, <1>7, Limits DEF RowType, JobType, Steps, Idle
  <2>2. k.at = "post" /\ k.fail = subs[e].fail /\ job'[s][e] = k
    BY <1>5, <1>7
  <2> HIDE DEF k
  <2>3. Sound(k, subs[e], FALSE, InReach(e), streak[e])
    <3>1. InReach(e) \in BOOLEAN
      BY DEF InReach
    <3> QED  BY <1>1, <1>3, <1>7, <2>1, <2>2, <3>1, SoundAnswers
  <2>4. SoundNext(job'[s][e], e) /\ At(s, e)' # "idle"
    BY <1>1, <1>4, <2>2, <2>3 DEF SoundNext, At
  <2> QED  BY <1>2, <1>5, <2>4, OneMoves
<1> QED  BY <1>6, <1>7

(* sendOne, on the row it is about.                                        *)
LEMMA SendOneCalm ==
  ASSUME Inv, CalmInv, NEW s \in Senders, NEW e \in Endpoints, SendOne(s, e)
  PROVE  CalmAt(e)'
<1> DEFINE j == job[s][e]
           k == job'[s][e]
           near == InReach(e)
<1>1. /\ Jobs /\ CalmAt(e) /\ j \in JobType /\ Idle \in JobType
      /\ subs[e] \in RowType \cup {NoRow} /\ waiting[e] \in BOOLEAN
      /\ streak[e] \in 0 .. MaxFailures /\ near \in BOOLEAN
      /\ e \in DOMAIN subs /\ e \in DOMAIN waiting /\ e \in DOMAIN streak
  <2>1. Idle \in JobType
    BY Limits DEF JobType, Idle, Steps
  <2> QED  BY <2>1 DEF Inv, CalmInv, Table, Jobs, Rest, InReach
<1>2. At(s, e) # "idle" /\ j.at # "idle"
  BY DEF SendOne, Answer, Record, Drop, Accept, Refuse, Gone, RecordAccepted, DropSilent,
         DropGone, DropFailing, RecordFailure, At
<1>3. Sound(j, subs[e], waiting[e], near, streak[e])
  BY <1>1, <1>2 DEF CalmAt, SoundWith
<1>4. PICK step \in Steps : Move(s, e, step) \/ End(s, e)
  BY DEF SendOne, Answer, Record, Drop, Accept, Refuse, Gone, RecordAccepted, DropSilent,
         DropGone, DropFailing, RecordFailure, Steps
<1>5. job' \in [Senders -> [Endpoints -> JobType]] /\ k \in JobType
  BY <1>1, <1>4, JobStep DEF Jobs
<1>6. \A t \in Senders \ {s} : At(t, e) = "idle" /\ job'[t][e] = job[t][e]
  <2>1. \A t \in Senders \ {s} : At(t, e) = "idle"
    BY <1>1, <1>2 DEF CalmAt, Alone
  <2> QED  BY <1>1, <1>4, <2>1, JobStep DEF Jobs
<1>7. InReach(e)' = near
  BY DEF SendOne, Answer, Record, Drop, Accept, Refuse, Gone, RecordAccepted, DropSilent,
         DropGone, DropFailing, RecordFailure, InReach, device, history
<1>8. \A new \in Steps : Move(s, e, new) => k.at = new /\ k.fail = j.fail
  BY <1>1, JobStep DEF Jobs
<1>9. End(s, e) => k = Idle /\ k.at = "idle"
  <2>1. "idle" \in Steps /\ Idle.at = "idle"
    BY DEF Steps, Idle
  <2> QED  BY <1>1, <2>1, JobStep DEF Jobs
<1> SUFFICES Sound(k, subs'[e], waiting'[e], near, streak'[e])
  <2>1. Sound(k, subs'[e], waiting'[e], near, streak'[e]) =>
          /\ At(s, e)' # "idle" => SoundNext(job'[s][e], e)
          /\ End(s, e) => SoundNext(Idle, e)
    BY <1>7, <1>9 DEF SoundNext
  <2>2. At(s, e)' = "idle" => End(s, e)
    <3>1. At(s, e)' = k.at
      BY DEF At
    <3>2. (\E new \in Steps \ {"idle"} : Move(s, e, new)) \/ End(s, e)
      BY DEF SendOne, Answer, Record, Drop, Accept, Refuse, Gone, RecordAccepted, DropSilent,
             DropGone, DropFailing, RecordFailure, Steps
    <3> QED  BY <1>8, <3>1, <3>2
  <2> QED  BY <1>6, <2>1, <2>2, OneMoves
<1> HIDE DEF j, k, near
<1>10. CASE Accept(s, e)
  <2>1. /\ k.at = "accepted" /\ k.fail = j.fail /\ j.at = "post"
        /\ subs' = subs /\ streak'[e] = 0
    BY <1>1, <1>8, <1>10 DEF Accept, Steps, j
  <2>2. waiting'[e] \in BOOLEAN /\ (near => waiting'[e])
    BY <1>1, <1>10, Zenon DEF Accept, Taken, near, InReach
  <2>3. Sound(k, subs[e], waiting'[e], near, 0)
    BY <1>1, <1>3, <1>5, <2>1, <2>2, SoundAccepted
  <2> QED  BY <2>1, <2>3
<1>11. CASE Refuse(s, e)
  <2>1. /\ k.at = "refused" /\ k.fail = j.fail /\ j.at = "post"
        /\ subs' = subs /\ streak'[e] = UpTo(streak[e] + 1, MaxFailures)
    BY <1>1, <1>8, <1>11 DEF Refuse, Steps, j
  <2>2. waiting'[e] \in BOOLEAN
    <3>1. waiting' = waiting \/ waiting' = Taken(e)
      BY <1>11 DEF Refuse
    <3>2. Taken(e)[e] \in BOOLEAN
      BY <1>1, Zenon DEF Taken
    <3> QED  BY <1>1, <3>1, <3>2
  <2>3. Sound(k, subs[e], waiting'[e], near, UpTo(streak[e] + 1, MaxFailures))
    BY <1>1, <1>3, <1>5, <2>1, <2>2, SoundRefused
  <2> QED  BY <2>1, <2>3
<1>12. CASE Gone(s, e)
  <2>1. /\ k.at = "gone" /\ j.at = "post" /\ subs' = subs /\ waiting' = waiting
        /\ streak' = streak
    BY <1>8, <1>12 DEF Gone, Steps, j, device, history
  <2>2. Sound(k, subs[e], waiting[e], near, streak[e])
    BY <1>1, <1>3, <1>5, <2>1, SoundAnswers
  <2> QED  BY <2>1, <2>2
<1>13. CASE RecordAccepted(s, e)
  <2>1. j.at = "accepted" /\ waiting' = waiting /\ streak' = streak
    BY <1>13 DEF RecordAccepted, device, history, j
  <2>2. CASE subs[e] = NoRow
    <3>1. k = Idle /\ subs'[e] = NoRow
      BY <1>9, <1>13, <2>2 DEF RecordAccepted
    <3>2. Sound(Idle, NoRow, waiting[e], near, streak[e])
      BY DEF Sound, Idle
    <3> QED  BY <2>1, <3>1, <3>2
  <2>3. CASE subs[e] # NoRow
    <3>1. subs'[e] = AcceptedRow(subs[e]) /\ (Move(s, e, "silent") \/ End(s, e))
      BY <1>1, <1>13, <2>3 DEF RecordAccepted
    <3>2. k.at \in {"idle", "silent"}
      BY <1>8, <1>9, <3>1 DEF Steps
    <3>3. Sound(k, AcceptedRow(subs[e]), waiting[e], near, streak[e])
      BY <1>1, <1>3, <1>5, <2>1, <2>3, <3>2, SoundRecords
    <3> QED  BY <2>1, <3>1, <3>3
  <2> QED  BY <2>2, <2>3
<1>14. CASE RecordFailure(s, e)
  <2>1. j.at = "refused" /\ waiting' = waiting /\ streak' = streak /\ k = Idle /\ MarkFailed(e)
    BY <1>9, <1>14 DEF RecordFailure, device, history, j
  <2>2. CASE subs[e] = NoRow
    <3>1. subs'[e] = NoRow
      BY <2>1, <2>2 DEF MarkFailed
    <3>2. Sound(Idle, NoRow, waiting[e], near, streak[e])
      BY DEF Sound, Idle
    <3> QED  BY <2>1, <3>1, <3>2
  <2>3. CASE subs[e] # NoRow
    <3>1. subs'[e] = [subs[e] EXCEPT !.fail = UpTo(@ + 1, MaxFailures)]
      BY <1>1, <2>1, <2>3 DEF MarkFailed
    <3>2. Sound(Idle, [subs[e] EXCEPT !.fail = UpTo(@ + 1, MaxFailures)],
                waiting[e], near, streak[e])
      BY <1>1, <1>3, <1>5, <2>1, <2>3, SoundRecords
    <3> QED  BY <2>1, <3>1, <3>2
  <2> QED  BY <2>2, <2>3
<1>15. CASE Drop(s, e)
  <2>1. waiting' = waiting /\ streak' = streak /\ k = Idle /\ subs'[e] = NoRow
    BY <1>1, <1>9, <1>15 DEF Drop, DropSilent, DropGone, DropFailing, Delete, device, history
  <2>2. Sound(Idle, NoRow, waiting[e], near, streak[e])
    BY DEF Sound, Idle
  <2> QED  BY <2>1, <2>2
<1> QED
  BY <1>10, <1>11, <1>12, <1>13, <1>14, <1>15 DEF SendOne, Answer, Record

(* The device and its owner, whoever is at work on the row.                *)
LEMMA DeviceCalm ==
  ASSUME Inv, CalmInv, NEW e \in Endpoints, Device(e), ~ReceiptLost(e)
  PROVE  CalmAt(e)'
<1>1. /\ Jobs /\ CalmAt(e) /\ job' = job
      /\ subs[e] \in RowType \cup {NoRow} /\ waiting[e] \in BOOLEAN
      /\ streak[e] \in 0 .. MaxFailures /\ streak' = streak
      /\ e \in DOMAIN subs /\ e \in DOMAIN waiting
  <2>1. job' = job /\ streak' = streak
    BY DEF Device, Receipt, Subscribe, Unsubscribe, SwitchOff, SwitchOn, Remove, table, device,
           history, HeardFrom, ReceiptLost
  <2> QED  BY <2>1 DEF Inv, CalmInv, Table, Jobs, Rest
<1>2. InReach(e) \in BOOLEAN /\ InReach(e)' \in BOOLEAN
  BY DEF InReach
<1> SUFFICES ASSUME NEW j \in JobType, SoundWith(j, e)
             PROVE  SoundNext(j, e)
  BY <1>1, NobodyMoves
<1>3. Sound(j, subs[e], waiting[e], InReach(e), streak[e])
  BY DEF SoundWith
<1>4. CASE Receipt(e)
  <2>1. /\ waiting'[e] = FALSE
        /\ subs'[e] = IF subs[e] = NoRow THEN NoRow ELSE ReceiptRow(subs[e])
    BY <1>1, <1>4 DEF Receipt
  <2>2. CASE subs[e] = NoRow
    <3>1. Sound(j, NoRow, FALSE, InReach(e)', streak[e])
      BY <1>3 DEF Sound
    <3> QED  BY <1>1, <2>1, <2>2, <3>1 DEF SoundNext
  <2>3. CASE subs[e] # NoRow
    <3>1. Sound(j, ReceiptRow(subs[e]), FALSE, InReach(e)', streak[e])
      BY <1>1, <1>2, <1>3, <2>3, SoundDevices
    <3> QED  BY <1>1, <2>1, <2>3, <3>1 DEF SoundNext
  <2> QED  BY <2>2, <2>3
<1>5. CASE Subscribe(e)
  <2>1. waiting' = waiting /\ subs'[e] = FreshRow
    BY <1>1, <1>5 DEF Subscribe, device
  <2>2. FreshRow.fail = 0 /\ FreshRow.unconfirmed = 0 /\ j.fail \in 0 .. MaxFailures
    BY DEF FreshRow, JobType
  <2>3. Sound(j, FreshRow, waiting[e], InReach(e)', streak[e])
    BY <1>1, <1>3, <2>2, Limits DEF Sound, Unconfirmed, UpTo
  <2> QED  BY <1>1, <2>1, <2>3 DEF SoundNext
<1>6. CASE Unsubscribe(e)
  <2>1. waiting' = waiting /\ subs'[e] = NoRow
    BY <1>1, <1>6 DEF Unsubscribe, Delete, device
  <2>2. Sound(j, NoRow, waiting[e], InReach(e)', streak[e])
    BY <1>3 DEF Sound
  <2> QED  BY <1>1, <2>1, <2>2 DEF SoundNext
<1>7. CASE SwitchOff(e) \/ SwitchOn(e)
  <2>1. subs' = subs /\ waiting' = waiting /\ InReach(e)' = InReach(e)
    <3>1. phone \in [Endpoints -> {"online", "offline", "removed"}]
      BY DEF Inv, Rest
    <3> QED  BY <1>7, <3>1 DEF SwitchOff, SwitchOn, table, history, InReach
  <2> QED  BY <1>1, <1>3, <2>1 DEF SoundNext
<1>8. CASE Remove(e)
  <2>1. subs' = subs /\ waiting'[e] = FALSE /\ InReach(e)' = FALSE
    <3>1. phone \in [Endpoints -> {"online", "offline", "removed"}]
      BY DEF Inv, Rest
    <3> QED  BY <1>1, <1>8, <3>1 DEF Remove, table, InReach
  <2>2. Sound(j, subs[e], FALSE, FALSE, streak[e])
    BY <1>1, <1>2, <1>3, SoundDevices
  <2> QED  BY <1>1, <2>1, <2>2 DEF SoundNext
<1> QED  BY <1>4, <1>5, <1>6, <1>7, <1>8 DEF Device

(* A day: only a device that was in reach still is, and it has shown what  *)
(* was waiting.                                                            *)
LEMMA TickCalm ==
  ASSUME Inv, CalmInv, Tick, NEW e \in Endpoints
  PROVE  CalmAt(e)'
<1>1. /\ Jobs /\ CalmAt(e) /\ job' = job /\ streak' = streak /\ phone' = phone
      /\ subs[e] \in RowType \cup {NoRow} /\ waiting[e] \in BOOLEAN
      /\ streak[e] \in 0 .. MaxFailures /\ away[e] \in 0 .. Grace
      /\ phone[e] \in {"online", "offline", "removed"}
      /\ waiting'[e] = FALSE /\ (phone[e] = "online" => waiting[e] = FALSE)
  BY DEF Tick, Inv, CalmInv, Table, Jobs, Rest
<1>2. InReach(e) \in BOOLEAN /\ InReach(e)' \in BOOLEAN
  BY DEF InReach
<1>3. InReach(e)' => InReach(e) /\ waiting[e] = FALSE
  <2>1. away'[e] = IF phone[e] = "online" THEN away[e] ELSE UpTo(away[e] + 1, Grace)
    BY DEF Tick
  <2>2. UpTo(away[e] + 1, Grace) # 0
    BY <1>1, Limits DEF UpTo
  <2> QED  BY <1>1, <2>1, <2>2 DEF InReach
<1>4. \/ subs'[e] = subs[e]
      \/ /\ subs[e] \in RowType /\ subs'[e] # NoRow
         /\ subs'[e].fail = subs[e].fail /\ subs'[e].unconfirmed = subs[e].unconfirmed
  <2>1. subs'[e] = IF subs[e] = NoRow \/ subs[e].unconfirmed = 0 THEN subs[e]
                   ELSE [subs[e] EXCEPT !.age = UpTo(@ + 1, Grace)]
    BY DEF Tick
  <2>2. CASE subs[e] = NoRow \/ subs[e].unconfirmed = 0
    BY <2>1, <2>2
  <2>3. CASE ~(subs[e] = NoRow \/ subs[e].unconfirmed = 0)
    <3> DEFINE g == UpTo(subs[e].age + 1, Grace)
               row == [subs[e] EXCEPT !.age = g]
    <3>1. subs[e] \in RowType
      BY <1>1, <2>3
    <3>2. g \in 0 .. Grace
      BY <3>1, Limits, UpToType DEF RowType
    <3>3. subs'[e] = row
      BY <2>1, <2>3
    <3> HIDE DEF g
    <3>4. row \in RowType /\ row.fail = subs[e].fail /\ row.unconfirmed = subs[e].unconfirmed
      BY <3>1, <3>2 DEF RowType
    <3> QED  BY <3>1, <3>3, <3>4, Limits
  <2> QED  BY <2>2, <2>3
<1> SUFFICES ASSUME NEW j \in JobType, SoundWith(j, e)
             PROVE  SoundNext(j, e)
  BY <1>1, NobodyMoves
<1>5. Sound(j, subs[e], FALSE, InReach(e)', streak[e])
  <2>1. Sound(j, subs[e], waiting[e], InReach(e), streak[e])
    BY DEF SoundWith
  <2>2. CASE InReach(e)' = TRUE
    <3>1. Sound(j, subs[e], FALSE, TRUE, streak[e])
      BY <1>2, <1>3, <2>1, <2>2
    <3> QED  BY <2>2, <3>1
  <2>3. CASE InReach(e)' = FALSE
    <3>1. Sound(j, subs[e], FALSE, FALSE, streak[e])
      BY <1>1, <1>2, <2>1, SoundDevices
    <3> QED  BY <2>3, <3>1
  <2> QED  BY <1>2, <2>2, <2>3
<1>6. Sound(j, subs'[e], FALSE, InReach(e)', streak[e])
  BY <1>4, <1>5, Limits DEF Sound
<1> QED  BY <1>1, <1>6 DEF SoundNext

(* A step that is no storm keeps the calm invariant: what concerns one     *)
(* endpoint leaves the others alone.                                       *)
LEMMA CalmStep ==
  ASSUME Inv, CalmInv, [Next]_vars, ~Storm
  PROVE  CalmInv'
<1> SUFFICES ASSUME NEW e \in Endpoints PROVE CalmAt(e)'
  BY DEF CalmInv
<1>0. Table /\ Jobs /\ Rest /\ CalmAt(e)
  BY DEF Inv, CalmInv
<1>1. CASE \E s \in Senders : Broadcast(s)
  BY <1>1, BroadcastCalm DEF Storm
<1>2. CASE \E s \in Senders, d \in Endpoints : SendOne(s, d)
  <2>1. PICK s \in Senders, d \in Endpoints : SendOne(s, d)
    BY <1>2
  <2>2. CASE d = e
    BY <2>1, <2>2, SendOneCalm
  <2>3. CASE d # e
    <3>1. \E step \in Steps : Move(s, d, step) \/ End(s, d)
      BY <2>1 DEF SendOne, Answer, Record, Drop, Accept, Refuse, Gone, RecordAccepted, DropSilent,
             DropGone, DropFailing, RecordFailure, Steps
    <3>2. \A t \in Senders : job'[t][e] = job[t][e]
      BY <1>0, <2>3, <3>1, JobStep DEF Jobs
    <3>3. waiting'[e] = waiting[e] /\ streak'[e] = streak[e] /\ InReach(e)' = InReach(e)
      BY <1>0, <2>1, <2>3 DEF SendOne, Answer, Record, Drop, Accept, Refuse, Gone, RecordAccepted,
             DropSilent, DropGone, DropFailing, RecordFailure, Taken, device, history, InReach, Rest
    <3>4. subs'[e] = subs[e]
      BY <1>0, <2>1, <2>3 DEF SendOne, Answer, Record, Drop, Accept, Refuse, Gone, RecordAccepted,
             DropSilent, DropGone, DropFailing, RecordFailure, Delete, MarkFailed, Table
    <3> QED  BY <1>0, <3>2, <3>3, <3>4, Untouched
  <2> QED  BY <2>2, <2>3
<1>3. CASE \E d \in Endpoints : Device(d)
  <2>1. PICK d \in Endpoints : Device(d) /\ ~ReceiptLost(d)
    BY <1>3 DEF Storm
  <2>2. CASE d = e
    BY <2>1, <2>2, DeviceCalm
  <2>3. CASE d # e
    <3>1. /\ job' = job /\ streak' = streak /\ subs'[e] = subs[e] /\ waiting'[e] = waiting[e]
          /\ phone'[e] = phone[e] /\ away'[e] = away[e]
      BY <1>0, <2>1, <2>3 DEF Device, Receipt, Subscribe, Unsubscribe, SwitchOff, SwitchOn, Remove,
             Delete, table, device, history, HeardFrom, Table, Rest
    <3> QED  BY <1>0, <3>1, Untouched DEF InReach
  <2> QED  BY <2>2, <2>3
<1>4. CASE Tick
  BY <1>4, TickCalm
<1>5. CASE UNCHANGED vars
  BY <1>0, <1>5, Untouched DEF vars, InReach
<1> QED  BY <1>1, <1>2, <1>3, <1>4, <1>5 DEF Next, Storm

-----------------------------------------------------------------------------
(* As long as it has been calm.                                            *)
CalmSoFar == Inv /\ (calm => CalmInv)

LEMMA CalmAlways == SpecCalm => []CalmSoFar
<1>1. InitCalm => CalmSoFar
  <2> SUFFICES ASSUME InitCalm PROVE CalmSoFar
    OBVIOUS
  <2>1. \A s \in Senders, e \in Endpoints : At(s, e) = "idle"
    BY DEF InitCalm, Init, At, Idle
  <2>2. \A e \in Endpoints : subs[e] = NoRow
    BY DEF InitCalm, Init
  <2>3. CalmInv
    BY <2>1, <2>2 DEF CalmInv, CalmAt, Alone, SoundWith, Sound, Idle
  <2> QED  BY <2>3, Initially DEF InitCalm, CalmSoFar
<1>2. CalmSoFar /\ [NextCalm]_<<vars, calm>> => CalmSoFar'
  <2> SUFFICES ASSUME CalmSoFar, [NextCalm]_<<vars, calm>> PROVE CalmSoFar'
    OBVIOUS
  <2>1. [Next]_vars
    BY DEF NextCalm
  <2>2. Inv'
    BY <2>1, Inductive DEF CalmSoFar
  <2>3. CASE NextCalm
    BY <2>1, <2>2, <2>3, CalmStep DEF CalmSoFar, NextCalm
  <2>4. CASE UNCHANGED <<vars, calm>>
    <3>1. UNCHANGED <<subs, job, phone, waiting, away, streak>>
      BY <2>4 DEF vars
    <3> QED
      BY <2>2, <2>4, <3>1 DEF CalmSoFar, CalmInv, CalmAt, Alone, At, SoundWith, Sound, InReach
  <2> QED  BY <2>3, <2>4
<1> QED  BY <1>1, <1>2, PTL DEF SpecCalm

(* The one sendOne at work on e knows how far its row is behind.           *)
LEMMA AtWork ==
  ASSUME CalmSoFar, calm, NEW s \in Senders, NEW e \in Endpoints, At(s, e) # "idle"
  PROVE  Sound(job[s][e], subs[e], waiting[e], InReach(e), streak[e])
BY DEF CalmSoFar, CalmInv, CalmAt, SoundWith

(* Without overlapping broadcasts, lost receipts and failures, a device in *)
(* reach is never condemned for silence, for any number of senders and     *)
(* endpoints, if more than two messages have to stay unconfirmed; with two *)
(* it is not so, because a receipt that beats its recordAccepted leaves    *)
(* one message counted for good.  push.go's limit is three.                *)
THEOREM CalmReachableKeptAlways ==
  ASSUME MaxUnconfirmed > 2
  PROVE  SpecCalm => CalmReachableKept
<1>1. CalmSoFar /\ [NextCalm]_<<vars, calm>> =>
        [\A s \in Senders, e \in Endpoints :
            calm /\ Condemned(s, e) => ~InReach(e)]_<<vars, calm>>
  <2> SUFFICES ASSUME CalmSoFar, [NextCalm]_<<vars, calm>>, NEW s \in Senders, NEW e \in Endpoints,
                      calm, Condemned(s, e), InReach(e)
               PROVE  FALSE
    OBVIOUS
  <2>1. [Next]_vars /\ Inv
    BY DEF NextCalm, CalmSoFar
  <2>2. /\ RecordAccepted(s, e) /\ subs[e] # NoRow /\ subs[e] \in RowType
        /\ IsSilent(AcceptedRow(subs[e]))
    BY <2>1, VerdictOnRow
  <2>3. job[s][e].at = "accepted" /\ At(s, e) # "idle"
    BY <2>2 DEF RecordAccepted, At
  <2>4. /\ job[s][e] \in JobType /\ waiting[e] \in BOOLEAN /\ InReach(e) \in BOOLEAN
        /\ streak[e] \in 0 .. MaxFailures
    BY <2>1 DEF Inv, Jobs, Rest, InReach
  <2>5. Sound(job[s][e], subs[e], waiting[e], InReach(e), streak[e])
    BY <2>3, AtWork
  <2>6. AcceptedRow(subs[e]).unconfirmed <= 2
    BY <2>2, <2>3, <2>4, <2>5, SoundRecords
  <2>7. AcceptedRow(subs[e]).unconfirmed \in 0 .. MaxUnconfirmed
    BY <2>2, RowStatements DEF RowType
  <2> QED  BY <2>2, <2>6, <2>7, Limits DEF IsSilent
<1> QED  BY <1>1, CalmAlways, PTL DEF SpecCalm, CalmReachableKept

(* And an endpoint dropped for failing was refused maxFailures times with  *)
(* no delivery in between, although recordFailure decides on a copy of the *)
(* counter.                                                                *)
THEOREM CalmFailuresInARowAlways == SpecCalm => CalmFailuresInARow
<1>1. CalmSoFar /\ [NextCalm]_<<vars, calm>> =>
        [\A s \in Senders, e \in Endpoints :
            calm /\ DropFailing(s, e) /\ subs[e] # NoRow
               => streak[e] >= MaxFailures]_<<vars, calm>>
  <2> SUFFICES ASSUME CalmSoFar, NEW s \in Senders, NEW e \in Endpoints,
                      calm, DropFailing(s, e)
               PROVE  streak[e] >= MaxFailures
    OBVIOUS
  <2>1. /\ job[s][e].at = "refused" /\ At(s, e) # "idle" /\ job[s][e] \in JobType
        /\ job[s][e].fail + 1 >= MaxFailures /\ streak[e] \in 0 .. MaxFailures
    BY DEF DropFailing, LastStraw, At, CalmSoFar, Inv, Jobs, Rest
  <2>2. UpTo(job[s][e].fail + 1, MaxFailures) <= streak[e]
    BY <2>1, AtWork DEF Sound
  <2>3. job[s][e].fail \in 0 .. MaxFailures
    BY <2>1 DEF JobType
  <2> QED  BY <2>1, <2>2, <2>3, Limits DEF UpTo
<1> QED  BY <1>1, CalmAlways, PTL DEF SpecCalm, CalmFailuresInARow
=============================================================================
