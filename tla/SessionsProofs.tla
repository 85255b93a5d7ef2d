--------------------------- MODULE SessionsProofs ---------------------------
(***************************************************************************)
(* Sessions for every set of ids and of requests under way, every time to  *)
(* live and every length of the run.                                       *)
(***************************************************************************)
EXTENDS Sessions, TLAPS

RequestType ==
    [step : {"free", "read", "evict", "touch", "in"}, id : Ids \cup {None},
     seen : 0 .. now, at : 0 .. now, age : 0 .. Patience]

(* Rows belong to issued ids and show a use but for a touch's grace.       *)
Recorded ==
    \A id \in Ids : lastSeen[id] # None =>
        id \in issued /\ used[id] <= lastSeen[id] + TouchEvery + Patience

LapsedIsNoted == \A id \in Ids : lapsed[id] \/ now <= used[id] + AlmostTTL

(* What a request under way knows of the row it read.                      *)
Informed(r) ==
    /\ r.step # "free" => r.id \in issued
    /\ r.step = "read" =>
          /\ lastSeen[r.id] # None => r.seen <= lastSeen[r.id] + Patience
          /\ lapsed[r.id] \/ now + Patience <= r.seen + r.age + TTL
    /\ r.step = "evict" => lapsed[r.id]
    /\ r.step = "touch" => now <= r.at + r.age

IInv == TypeOK /\ Recorded /\ LapsedIsNoted /\ \A q \in Requests : Informed(request[q])

-----------------------------------------------------------------------------

LEMMA AlmostNat == /\ AlmostTTL \in Nat /\ TTL \in Nat /\ TouchEvery \in Nat /\ Patience \in Nat
                   /\ AlmostTTL + TouchEvery + Patience + Patience = TTL
BY SessionsAssumption DEF AlmostTTL

LEMMA NoneIs == None \notin Nat
BY SessionsAssumption

LEMMA Fields ==
  ASSUME NEW r \in RequestType, now \in Nat
  PROVE  /\ r.step \in {"free", "read", "evict", "touch", "in"}
         /\ r.id \in Ids \cup {None} /\ r.seen \in 0 .. now /\ r.seen \in Nat
         /\ r.at \in 0 .. now /\ r.at \in Nat
         /\ r.age \in 0 .. Patience /\ r.age \in Nat
         /\ now \in 0 .. now
BY AlmostNat DEF RequestType

(* A step that leaves the clock alone and one request is done with.        *)
LEMMA OneRequest ==
  ASSUME IInv, NEW q \in Requests, NEW r \in RequestType,
         request' = [request EXCEPT ![q] = r], UNCHANGED now
  PROVE  /\ request' \in [Requests -> RequestType]
         /\ RequestType' = RequestType
         /\ request'[q] = r
         /\ \A p \in Requests \ {q} : request'[p] = request[p]
BY DEF IInv, TypeOK, RequestType

LEMMA FreeIs == ASSUME TypeOK PROVE Free \in RequestType /\ Free.step = "free"
BY AlmostNat DEF TypeOK, Free, RequestType

LEMMA InitOK == Init => IInv
<1> SUFFICES ASSUME Init PROVE IInv
  OBVIOUS
<1>1. \A q \in Requests : request[q] = Free
  BY DEF Init
<1>2. Free \in RequestType /\ Free.step = "free"
  BY AlmostNat, SessionsAssumption DEF Init, Free, RequestType
<1>3. TypeOK
  <2>1. request \in [Requests -> RequestType]
    BY <1>2 DEF Init
  <2> QED  BY <2>1, SessionsAssumption DEF Init, TypeOK, RequestType
<1> QED
  BY <1>1, <1>2, <1>3, AlmostNat DEF Init, IInv, Recorded, LapsedIsNoted, Informed

LEMMA CreateOK == ASSUME IInv, NEW id \in Ids, Create(id) PROVE IInv'
<1>1. TypeOK'
  BY DEF Create, IInv, TypeOK
<1>2. /\ \A j \in Ids \ {id} : /\ lastSeen'[j] = lastSeen[j] /\ used'[j] = used[j]
                               /\ lapsed'[j] = lapsed[j]
      /\ lastSeen'[id] = now /\ used'[id] = now /\ id \notin issued
      /\ issued' = issued \cup {id} /\ UNCHANGED <<now, request>> /\ now \in Nat
  BY DEF Create, IInv, TypeOK
<1>3. Recorded' /\ LapsedIsNoted'
  BY <1>2, AlmostNat DEF IInv, TypeOK, Recorded, LapsedIsNoted
<1>4. ASSUME NEW q \in Requests PROVE Informed(request[q])'
  <2>1. Informed(request[q]) /\ request'[q] = request[q] /\ request[q] \in RequestType
    BY <1>2 DEF IInv, TypeOK, RequestType
  <2>2. request[q].step # "free" => request[q].id \in Ids \ {id} /\ request[q].id \in issued'
    BY <1>2, <2>1 DEF IInv, TypeOK, Informed
  <2> QED  BY <1>2, <2>1, <2>2 DEF Informed, RequestType
<1> QED  BY <1>1, <1>3, <1>4 DEF IInv

LEMMA GetSessionOK ==
  ASSUME IInv, NEW q \in Requests, NEW id \in Ids, GetSession(q, id) PROVE IInv'
<1> DEFINE r == [Free EXCEPT !.step = "read", !.id = id, !.seen = lastSeen[id]]
<1>1. /\ lastSeen[id] # None /\ lastSeen[id] \in 0 .. now /\ now \in Nat
      /\ request' = [request EXCEPT ![q] = r]
      /\ UNCHANGED <<now, lastSeen, issued, cookie, used, lapsed>>
  <2> HIDE DEF Free
  <2> QED  BY DEF GetSession, IInv, TypeOK
<1>2. /\ r \in RequestType
      /\ r.step = "read" /\ r.id = id /\ r.seen = lastSeen[id] /\ r.age = 0
  <2>1. Free \in RequestType /\ Free.age = 0
    BY FreeIs DEF IInv, Free
  <2> QED  BY <1>1, <2>1, Fields DEF RequestType
<1> HIDE DEF r
<1>3. TypeOK'
  BY <1>1, <1>2, OneRequest DEF IInv, TypeOK, RequestType
<1>4. Informed(r)
  <2>1. id \in issued /\ used[id] <= lastSeen[id] + TouchEvery + Patience
    BY <1>1 DEF IInv, Recorded
  <2>2. lapsed[id] \/ now <= used[id] + AlmostTTL
    BY DEF IInv, LapsedIsNoted
  <2>3. used[id] \in Nat
    BY DEF IInv, TypeOK
  <2> QED  BY <1>1, <1>2, <2>1, <2>2, <2>3, AlmostNat DEF Informed
<1>5. \A p \in Requests : Informed(request[p])'
  BY <1>1, <1>2, <1>4, OneRequest DEF IInv, Informed
<1> QED  BY <1>1, <1>3, <1>5 DEF IInv, Recorded, LapsedIsNoted

(* Evict, Admit and Serve move one request on and touch nothing else. *)
LEMMA MovedOnOK ==
  ASSUME IInv, NEW q \in Requests, NEW r \in RequestType, Informed(r),
         request' = [request EXCEPT ![q] = r],
         UNCHANGED <<now, lastSeen, issued, cookie, used, lapsed>>
  PROVE  IInv'
<1>1. TypeOK'
  BY OneRequest DEF IInv, TypeOK, RequestType
<1>2. \A p \in Requests : Informed(request[p])'
  BY OneRequest DEF IInv, Informed
<1> QED  BY <1>1, <1>2 DEF IInv, Recorded, LapsedIsNoted

LEMMA EvictOK == ASSUME IInv, NEW q \in Requests, Evict(q) PROVE IInv'
<1> DEFINE r == [request[q] EXCEPT !.step = "evict"]
<1>1. /\ request[q] \in RequestType /\ request[q].step = "read"
      /\ Informed(request[q]) /\ now \in Nat
      /\ now - request[q].seen > TTL
  BY DEF Evict, IInv, TypeOK, Idle, RequestType
<1>2. lapsed[request[q].id]
  BY <1>1, AlmostNat DEF Informed, RequestType
<1>3. /\ r \in RequestType /\ r.step = "evict" /\ r.id = request[q].id
      /\ request' = [request EXCEPT ![q] = r]
  BY <1>1 DEF Evict, Go, RequestType
<1>4. Informed(r)
  BY <1>1, <1>2, <1>3 DEF Informed
<1> QED  BY <1>3, <1>4, MovedOnOK DEF Evict

LEMMA AdmitOK == ASSUME IInv, NEW q \in Requests, Admit(q) PROVE IInv'
<1> DEFINE r == [request[q] EXCEPT !.step = "touch", !.at = now]
<1>1. /\ request[q] \in RequestType /\ request[q].step = "read"
      /\ Informed(request[q]) /\ now \in Nat
  BY DEF Admit, IInv, TypeOK, RequestType
<1>2. /\ r \in RequestType /\ r.step = "touch" /\ r.id = request[q].id /\ r.at = now
      /\ r.age \in Nat
      /\ request' = [request EXCEPT ![q] = r]
  <2>1. r \in RequestType /\ r.age \in Nat
    BY <1>1, Fields DEF RequestType
  <2>2. r.step = "touch" /\ r.id = request[q].id /\ r.at = now
    BY <1>1 DEF RequestType
  <2>3. request \in [Requests -> RequestType]
    BY DEF IInv, TypeOK, RequestType
  <2>4. request' = [request EXCEPT ![q] = r]
    BY <2>3 DEF Admit, Decide
  <2> QED  BY <2>1, <2>2, <2>4
<1>3. Informed(r)
  BY <1>1, <1>2 DEF Informed
<1> QED  BY <1>2, <1>3, MovedOnOK DEF Admit

LEMMA ServeOK == ASSUME IInv, NEW q \in Requests, Serve(q) PROVE IInv'
<1>1. Free \in RequestType /\ Informed(Free)
  BY FreeIs DEF IInv, Informed
<1> QED  BY <1>1, MovedOnOK DEF Serve, Finish

LEMMA AdmitAgainOK == ASSUME IInv, NEW q \in Requests, AdmitAgain(q) PROVE IInv'
<1> DEFINE r == [request[q] EXCEPT !.step = "in", !.at = now]
           id == request[q].id
<1>1. /\ request[q] \in RequestType /\ request[q].step = "read"
      /\ Informed(request[q]) /\ now \in Nat
      /\ now - request[q].seen <= TouchEvery
      /\ used' = [used EXCEPT ![id] = now]
      /\ UNCHANGED <<now, lastSeen, issued, cookie, lapsed>>
  BY DEF AdmitAgain, IInv, TypeOK, Idle, RequestType
<1>2. /\ r \in RequestType /\ r.step = "in" /\ r.id = id
      /\ request' = [request EXCEPT ![q] = r]
  <2>1. r \in RequestType
    BY <1>1, Fields DEF RequestType
  <2>2. r.step = "in" /\ r.id = id
    BY <1>1 DEF RequestType
  <2>3. request \in [Requests -> RequestType]
    BY DEF IInv, TypeOK, RequestType
  <2>4. request' = [request EXCEPT ![q] = r]
    BY <2>3 DEF AdmitAgain, Decide
  <2> QED  BY <2>1, <2>2, <2>4
<1>3. Informed(r)
  BY <1>1, <1>2 DEF Informed
<1>4. \A j \in Ids : /\ j = id => used'[j] = now
                     /\ j # id => used'[j] = used[j]
  BY <1>1 DEF IInv, TypeOK
<1> HIDE DEF r
<1>5. TypeOK'
  <2>0. now \in 0 .. now
    BY <1>1
  <2>1. used' \in [Ids -> 0 .. now] /\ request' \in [Requests -> RequestType]
    BY <1>1, <1>2, <2>0, OneRequest DEF IInv, TypeOK
  <2> QED  BY <1>1, <2>1 DEF IInv, TypeOK, RequestType
<1>6. Recorded'
  <2> SUFFICES ASSUME NEW j \in Ids, lastSeen[j] # None
               PROVE  j \in issued /\ used'[j] <= lastSeen[j] + TouchEvery + Patience
    BY <1>1 DEF Recorded
  <2>1. lastSeen[j] \in Nat /\ j \in issued /\ used[j] <= lastSeen[j] + TouchEvery + Patience
    BY DEF IInv, TypeOK, Recorded
  <2>2. CASE j # id
    BY <2>1, <2>2, <1>4
  <2>3. CASE j = id
    <3>1. request[q].seen <= lastSeen[j] + Patience
      BY <1>1, <2>3 DEF Informed
    <3> QED  BY <1>1, <1>4, <2>1, <2>3, <3>1, AlmostNat DEF RequestType
  <2> QED  BY <2>2, <2>3
<1>7. LapsedIsNoted'
  BY <1>1, <1>4, AlmostNat DEF IInv, LapsedIsNoted
<1>8. \A p \in Requests : Informed(request[p])'
  BY <1>1, <1>2, <1>3, OneRequest DEF IInv, Informed
<1> QED  BY <1>5, <1>6, <1>7, <1>8 DEF IInv

(* Rows that end: nothing that is known of the others changes. *)
LEMMA EndedRowsOK ==
  ASSUME IInv, NEW q \in Requests,
         request' = request \/ Finish(q),
         lastSeen' \in [Ids -> 0 .. now \cup {None}],
         \A id \in Ids : lastSeen'[id] \in {lastSeen[id], None},
         cookie' \in [Ids -> BOOLEAN],
         UNCHANGED <<now, issued, used, lapsed>>
  PROVE  IInv'
<1>1. \A p \in Requests : request'[p] = request[p] \/ request'[p] = Free
  BY DEF Finish, IInv, TypeOK
<1>2. request' \in [Requests -> RequestType] /\ RequestType' = RequestType
  BY FreeIs DEF Finish, IInv, TypeOK, RequestType
<1>3. TypeOK'
  BY <1>2 DEF IInv, TypeOK, RequestType
<1>4. Recorded' /\ LapsedIsNoted'
  BY DEF IInv, Recorded, LapsedIsNoted
<1>5. ASSUME NEW p \in Requests PROVE Informed(request[p])'
  <2>1. CASE request'[p] = Free
    BY <2>1, FreeIs DEF IInv, Informed
  <2>2. CASE request'[p] = request[p]
    <3>1. Informed(request[p]) /\ request[p] \in RequestType /\ issued \subseteq Ids
      BY DEF IInv, TypeOK, RequestType
    <3>2. request[p].step = "read" => request[p].id \in Ids
      BY <3>1 DEF Informed
    <3> QED  BY <2>2, <3>1, <3>2 DEF Informed
  <2> QED  BY <1>1, <2>1, <2>2
<1> QED  BY <1>3, <1>4, <1>5 DEF IInv

LEMMA DeleteSessionOK == ASSUME IInv, NEW q \in Requests, DeleteSession(q) PROVE IInv'
<1>1. /\ lastSeen' \in [Ids -> 0 .. now \cup {None}]
      /\ \A id \in Ids : lastSeen'[id] \in {lastSeen[id], None}
      /\ cookie' \in [Ids -> BOOLEAN]
  BY DEF DeleteSession, IInv, TypeOK
<1> QED  BY <1>1, EndedRowsOK DEF DeleteSession

LEMMA DestroyOK == ASSUME IInv, NEW q \in Requests, Destroy(q) PROVE IInv'
<1>1. /\ lastSeen' \in [Ids -> 0 .. now \cup {None}]
      /\ \A id \in Ids : lastSeen'[id] \in {lastSeen[id], None}
      /\ cookie' \in [Ids -> BOOLEAN]
  BY DEF Destroy, IInv, TypeOK
<1> QED  BY <1>1, EndedRowsOK DEF Destroy

(* The clean-up happens whether or not there are requests. *)
LEMMA CleanupOK == ASSUME IInv, Cleanup PROVE IInv'
<1>1. /\ lastSeen' \in [Ids -> 0 .. now \cup {None}]
      /\ \A id \in Ids : lastSeen'[id] \in {lastSeen[id], None}
      /\ UNCHANGED <<now, issued, cookie, request, used, lapsed>>
  BY DEF Cleanup, IInv, TypeOK
<1>2. TypeOK'
  BY <1>1 DEF IInv, TypeOK
<1>3. Recorded' /\ LapsedIsNoted'
  BY <1>1 DEF IInv, Recorded, LapsedIsNoted
<1>4. ASSUME NEW p \in Requests PROVE Informed(request[p])'
  <2>1. Informed(request[p]) /\ request[p] \in RequestType /\ issued \subseteq Ids
    BY DEF IInv, TypeOK, RequestType
  <2>2. request[p].step = "read" => request[p].id \in Ids
    BY <2>1 DEF Informed
  <2> QED  BY <1>1, <2>1, <2>2 DEF Informed
<1> QED  BY <1>2, <1>3, <1>4 DEF IInv

LEMMA TouchSessionOK == ASSUME IInv, NEW q \in Requests, TouchSession(q) PROVE IInv'
<1> DEFINE r == [request[q] EXCEPT !.step = "in"]
           id == request[q].id
           at == request[q].at
<1>1. /\ request[q] \in RequestType /\ request[q].step = "touch"
      /\ Informed(request[q]) /\ now \in Nat /\ UNCHANGED <<now, issued, lapsed>>
      /\ id \in Ids /\ at \in 0 .. now /\ now <= at + Patience
  <2>1. request[q] \in RequestType /\ Informed(request[q]) /\ now \in Nat /\ issued \subseteq Ids
    BY DEF IInv, TypeOK, RequestType
  <2> QED  BY <2>1, AlmostNat DEF TouchSession, Informed, RequestType
<1>2. /\ r \in RequestType /\ r.step = "in" /\ r.id = id
      /\ request' = [request EXCEPT ![q] = r]
  BY <1>1 DEF TouchSession, Go, RequestType
<1>3. Informed(r)
  BY <1>1, <1>2 DEF Informed
<1> HIDE DEF r
<1>4. CASE UNCHANGED <<lastSeen, cookie, used>>
  BY <1>1, <1>2, <1>3, <1>4, MovedOnOK
<1>5. CASE /\ lastSeen' = [lastSeen EXCEPT ![id] = TouchedRow(id, at)]
           /\ cookie' = [cookie EXCEPT ![id] = TRUE]
           /\ used' = [used EXCEPT ![id] = IF @ < at THEN at ELSE @]
  <2>1. /\ lastSeen'[id] = IF lastSeen[id] = None THEN None ELSE at
        /\ used'[id] = IF used[id] < at THEN at ELSE used[id]
        /\ \A j \in Ids \ {id} : lastSeen'[j] = lastSeen[j] /\ used'[j] = used[j]
        /\ used \in [Ids -> 0 .. now] /\ lastSeen \in [Ids -> 0 .. now \cup {None}]
    BY <1>1, <1>5 DEF TouchedRow, IInv, TypeOK
  <2>2. TypeOK'
    <3>1. lastSeen' \in [Ids -> 0 .. now \cup {None}] /\ used' \in [Ids -> 0 .. now]
      BY <1>1, <1>5, <2>1
    <3>2. cookie' \in [Ids -> BOOLEAN]
      BY <1>5 DEF IInv, TypeOK
    <3> QED  BY <1>1, <1>2, <3>1, <3>2, OneRequest DEF IInv, TypeOK, RequestType
  <2>3. Recorded'
    BY <1>1, <2>1, AlmostNat DEF IInv, Recorded
  <2>4. LapsedIsNoted'
    <3> SUFFICES ASSUME NEW j \in Ids
                 PROVE  lapsed[j] \/ now <= used'[j] + AlmostTTL
      BY <1>1 DEF LapsedIsNoted
    <3>1. lapsed[j] \/ now <= used[j] + AlmostTTL
      BY DEF IInv, LapsedIsNoted
    <3>2. used'[j] \in Nat /\ used[j] \in Nat /\ used[j] <= used'[j]
      BY <1>1, <2>1
    <3> QED  BY <1>1, <3>1, <3>2, AlmostNat
  <2>5. ASSUME NEW p \in Requests PROVE Informed(request[p])'
    <3>1. CASE p = q
      BY <1>1, <1>2, <3>1, OneRequest DEF Informed
    <3>2. CASE p # q
      <4>1. /\ request'[p] = request[p] /\ Informed(request[p])
            /\ request[p] \in RequestType /\ issued \subseteq Ids
        BY <1>1, <1>2, <3>2, OneRequest DEF IInv, TypeOK, RequestType
      <4>2. ASSUME request[p].step = "read", lastSeen'[request[p].id] # None
            PROVE  request[p].seen <= lastSeen'[request[p].id] + Patience
        <5>1. request[p].id \in Ids /\ request[p].seen \in 0 .. now
          BY <4>1, <4>2 DEF Informed, RequestType
        <5>2. CASE request[p].id = id
          BY <1>1, <2>1, <4>2, <5>1, <5>2, AlmostNat
        <5>3. CASE request[p].id # id
          BY <2>1, <4>1, <4>2, <5>1, <5>3 DEF Informed
        <5> QED  BY <5>2, <5>3
      <4> QED  BY <1>1, <4>1, <4>2 DEF Informed
    <3> QED  BY <3>1, <3>2
  <2> QED  BY <2>2, <2>3, <2>4, <2>5 DEF IInv
<1> QED  BY <1>4, <1>5 DEF TouchSession

LEMMA TickOK == ASSUME IInv, Tick PROVE IInv'
<1>1. /\ now \in Nat /\ now' = now + 1 /\ now' \in 0 .. MaxNow
      /\ UNCHANGED <<lastSeen, issued, cookie, used>>
  BY SessionsAssumption DEF Tick, IInv, TypeOK
<1>2. ASSUME NEW q \in Requests, request[q] # Free
      PROVE  /\ request[q] \in RequestType /\ request[q].age < Patience
             /\ request'[q] = [request[q] EXCEPT !.age = @ + 1]
             /\ request'[q] = [step |-> request[q].step, id |-> request[q].id,
                               seen |-> request[q].seen, at |-> request[q].at,
                               age |-> request[q].age + 1]
  BY <1>2 DEF Tick, IInv, TypeOK, RequestType
<1>3. ASSUME NEW q \in Requests, request[q] = Free
      PROVE  request'[q] = Free
  BY <1>3 DEF Tick
<1>4. \A id \in Ids : /\ lapsed[id] => lapsed'[id]
                      /\ now + 1 - used[id] > AlmostTTL => lapsed'[id]
                      /\ used[id] \in Nat
  <2>1. /\ lapsed' = [id \in Ids |-> lapsed[id] \/ now + 1 - used[id] > AlmostTTL]
        /\ used \in [Ids -> 0 .. now]
    BY DEF Tick, IInv, TypeOK
  <2>2. ASSUME NEW id \in Ids PROVE used[id] \in Nat
    BY <1>1, <2>1
  <2>3. ASSUME NEW id \in Ids
        PROVE  lapsed'[id] = (lapsed[id] \/ now + 1 - used[id] > AlmostTTL)
    BY <2>1, Zenon
  <2> QED  BY <2>2, <2>3, Zenon
<1>5. TypeOK'
  <2>1. \A q \in Requests : request'[q] \in RequestType'
    <3> SUFFICES ASSUME NEW q \in Requests PROVE request'[q] \in RequestType'
      OBVIOUS
    <3>1. CASE request[q] = Free
      BY <1>1, <1>3, <3>1, AlmostNat DEF Free, RequestType
    <3>2. CASE request[q] # Free
      <4>1. /\ request[q] \in RequestType /\ request[q].age < Patience
            /\ request'[q] = [step |-> request[q].step, id |-> request[q].id,
                              seen |-> request[q].seen, at |-> request[q].at,
                              age |-> request[q].age + 1]
        BY <1>2, <3>2
      <4>2. /\ request[q].age + 1 \in 0 .. Patience
            /\ request[q].seen \in 0 .. now' /\ request[q].at \in 0 .. now'
        BY <1>1, <4>1, AlmostNat DEF RequestType
      <4> QED  BY <4>1, <4>2 DEF RequestType
    <3> QED  BY <3>1, <3>2
  <2>2. request' = [q \in Requests |-> request'[q]]
    BY DEF Tick
  <2>3. /\ lastSeen' \in [Ids -> 0 .. now' \cup {None}] /\ used' \in [Ids -> 0 .. now']
        /\ cookie' \in [Ids -> BOOLEAN] /\ issued' \subseteq Ids
    BY <1>1 DEF IInv, TypeOK
  <2>4. lapsed' \in [Ids -> BOOLEAN]
    BY DEF Tick, IInv, TypeOK
  <2> QED  BY <1>1, <2>1, <2>2, <2>3, <2>4 DEF TypeOK, RequestType
<1>6. Recorded'
  BY <1>1 DEF IInv, Recorded
<1>7. LapsedIsNoted'
  BY <1>1, <1>4, AlmostNat DEF LapsedIsNoted
<1>8. ASSUME NEW q \in Requests PROVE Informed(request[q])'
  <2>1. CASE request[q] = Free
    BY <1>3, <2>1 DEF Free, Informed
  <2>2. CASE request[q] # Free
    <3>1. /\ request'[q].step = request[q].step /\ request'[q].id = request[q].id
          /\ request'[q].seen = request[q].seen /\ request'[q].at = request[q].at
          /\ request'[q].age = request[q].age + 1
          /\ request[q].age \in Nat /\ request[q].seen \in Nat /\ request[q].at \in Nat
      BY <1>1, <1>2, <2>2, Fields
    <3>2. Informed(request[q]) /\ issued \subseteq Ids
      BY DEF IInv, TypeOK
    <3>3. request[q].step # "free" => request[q].id \in Ids
      BY <3>2 DEF Informed
    <3>4. request[q].step \in {"read", "evict"} /\ lapsed[request[q].id] => lapsed'[request[q].id]
      BY <1>4, <3>3
    <3> QED  BY <1>1, <3>1, <3>2, <3>3, <3>4, AlmostNat DEF Informed
  <2> QED  BY <2>1, <2>2
<1> QED  BY <1>5, <1>6, <1>7, <1>8 DEF IInv

-----------------------------------------------------------------------------

LEMMA StepOK == IInv /\ [Next]_vars => IInv'
<1> SUFFICES ASSUME IInv, [Next]_vars PROVE IInv'
  OBVIOUS
<1>1. CASE \E id \in Ids : Create(id)
  BY <1>1, CreateOK
<1>2. CASE \E q \in Requests, id \in Ids : GetSession(q, id)
  BY <1>2, GetSessionOK
<1>3. CASE \E q \in Requests : Evict(q) \/ Admit(q) \/ AdmitAgain(q)
  BY <1>3, EvictOK, AdmitOK, AdmitAgainOK
<1>4. CASE \E q \in Requests : DeleteSession(q) \/ TouchSession(q) \/ Serve(q) \/ Destroy(q)
  BY <1>4, DeleteSessionOK, TouchSessionOK, ServeOK, DestroyOK
<1>5. CASE Cleanup
  BY <1>5, CleanupOK
<1>6. CASE Tick
  BY <1>6, TickOK
<1>7. CASE UNCHANGED vars
  BY <1>7 DEF vars, IInv, TypeOK, Recorded, LapsedIsNoted, Informed
<1> QED
  BY <1>1, <1>2, <1>3, <1>4, <1>5, <1>6, <1>7 DEF Next

(* Every reachable state satisfies the invariant.                          *)
LEMMA Invariance == Spec => []IInv
BY InitOK, StepOK, PTL DEF Spec

(* Every variable of Sessions keeps its type.                              *)
THEOREM Typing == Spec => []TypeOK
<1>1. IInv => TypeOK
  BY DEF IInv
<1> QED  BY <1>1, Invariance, PTL

-----------------------------------------------------------------------------

(* Neither a late touch nor anything else brings an ended session back     *)
(* (TouchSession updates, it does not insert; ids are not issued twice).   *)
THEOREM EndedStaysEndedAlways == Spec => EndedStaysEnded
<1>1. ASSUME TypeOK, [Next]_vars, NEW id \in issued, lastSeen[id] = None
      PROVE  lastSeen'[id] = None
  <2> USE <1>1
  <2>0. lastSeen \in [Ids -> 0 .. now \cup {None}]
    BY DEF TypeOK
  <2>1. ASSUME NEW j \in Ids, Create(j) PROVE lastSeen'[id] = None
    BY <2>0, <2>1 DEF Create
  <2>2. ASSUME NEW q \in Requests,
               DeleteSession(q) \/ TouchSession(q) \/ Destroy(q)
        PROVE  lastSeen'[id] = None
    <3>1. ASSUME NEW j, NEW v, v = None \/ (v = lastSeen[j] /\ lastSeen[j] = None)
                   \/ lastSeen[j] # None,
                 lastSeen' = [lastSeen EXCEPT ![j] = v]
          PROVE  lastSeen'[id] = None
      BY <2>0, <3>1
    <3>2. CASE DeleteSession(q)
      BY <2>0, <3>1, <3>2 DEF DeleteSession
    <3>3. CASE TouchSession(q)
      BY <2>0, <3>1, <3>3 DEF TouchSession, TouchedRow
    <3>4. CASE Destroy(q)
      BY <2>0, <3>1, <3>4 DEF Destroy
    <3> QED  BY <2>2, <3>2, <3>3, <3>4
  <2>3. CASE Cleanup
    BY <2>0, <2>3 DEF Cleanup, TypeOK
  <2>4. CASE UNCHANGED lastSeen
    BY <2>4
  <2> QED
    BY <2>1, <2>2, <2>3, <2>4
       DEF Next, vars, GetSession, Evict, Admit, AdmitAgain, Serve, Tick
<1>2. TypeOK /\ [Next]_vars =>
        [\A id \in issued : lastSeen[id] = None => lastSeen'[id] = None]_vars
  BY <1>1
<1> QED  BY <1>2, Typing, PTL DEF Spec, EndedStaysEnded

(* A session in regular use is ended by its owner only: the clean-up and   *)
(* an eviction take rows whose session had not been used for AlmostTTL.    *)
THEOREM KeptAlmostTTLAlways == Spec => KeptAlmostTTL
<1>1. ASSUME IInv, [Next]_vars, NEW id \in Ids, Ended(id), cookie'[id]
      PROVE  lapsed[id]
  <2> USE <1>1
  <2>0. /\ lastSeen \in [Ids -> 0 .. now \cup {None}] /\ cookie \in [Ids -> BOOLEAN]
        /\ now \in Nat /\ lastSeen[id] # None /\ lastSeen'[id] = None
    BY DEF Ended, IInv, TypeOK
  <2>1. ASSUME NEW q \in Requests, DeleteSession(q) PROVE lapsed[id]
    <3>1. request[q].id = id /\ request[q].step = "evict"
      BY <2>0, <2>1 DEF DeleteSession
    <3>2. Informed(request[q])
      BY DEF IInv
    <3> QED  BY <3>1, <3>2 DEF Informed
  <2>2. ASSUME NEW q \in Requests, Destroy(q) PROVE FALSE
    <3>1. cookie' = [cookie EXCEPT ![request[q].id] = FALSE]
          /\ lastSeen' = [lastSeen EXCEPT ![request[q].id] = None]
      BY <2>0, <2>2 DEF Destroy
    <3>2. request[q].id = id
      BY <2>0, <3>1
    <3> QED  BY <2>0, <3>1, <3>2
  <2>3. CASE Cleanup
    <3>1. lastSeen[id] \in Nat /\ lastSeen[id] + TTL < now
      BY <2>0, <2>3 DEF Cleanup, Stale
    <3>2. used[id] \in Nat /\ used[id] <= lastSeen[id] + TouchEvery + Patience
      BY <2>0 DEF IInv, TypeOK, Recorded
    <3>3. lapsed[id] \/ now <= used[id] + AlmostTTL
      BY DEF IInv, LapsedIsNoted
    <3> QED  BY <2>0, <3>1, <3>2, <3>3, AlmostNat
  <2>4. ASSUME NEW q \in Requests, TouchSession(q) PROVE FALSE
    <3>1. request[q].at \in Nat
      BY DEF IInv, TypeOK
    <3> QED  BY <2>0, <2>4, <3>1, NoneIs DEF TouchSession, TouchedRow
  <2>5. ASSUME NEW j \in Ids, Create(j) PROVE FALSE
    BY <2>0, <2>5, NoneIs DEF Create
  <2> QED
    BY <2>0, <2>1, <2>2, <2>3, <2>4, <2>5
       DEF Next, vars, GetSession, Evict, Admit, AdmitAgain, Serve, Tick
<1>2. IInv /\ [Next]_vars =>
        [\A id \in Ids : Ended(id) /\ cookie'[id] => lapsed[id]]_vars
  BY <1>1
<1> QED  BY <1>2, Invariance, PTL DEF Spec, KeptAlmostTTL
=============================================================================
