------------------------- MODULE PanelReadersProofs -------------------------
(***************************************************************************)
(* How old and how wrong a cached list can be, for every number of callers *)
(* and of adjustments under way, every time to live and every deadline;    *)
(* and what the two handlers make of it, for every number of devices,      *)
(* readers, addresses, ids and endpoints.                                  *)
(***************************************************************************)
EXTENDS PanelReaders, TLAPS

-----------------------------------------------------------------------------
(* The composition.                                                        *)

(* Every step is a step of one reader of the list and leaves the others.   *)
LEMMA Parts ==
  /\ ReadersInit => Init /\ Login!Init /\ Custom!Init
  /\ [ReadersNext]_allVars => [Next]_vars /\ [Login!Next]_loginVars /\ [Custom!Next]_customVars
BY DEF ReadersInit, ReadersNext, allVars

(* Side by side each reader does what its own module says, so what is      *)
(* proved of a module holds of the composition.                            *)
THEOREM EachByItself == ReadersSpec => Spec /\ Login!Spec /\ Custom!Spec
BY Parts, PTL DEF ReadersSpec, Spec, Login!Spec, Custom!Spec,
                  Login!vars, Custom!vars, loginVars, customVars

-----------------------------------------------------------------------------
(* The list (PanelCache).                                                  *)

ReaderType == {Idle} \cup AskingType \cup AnsweredType

(* A copy is no further behind than it has been travelling, and has missed *)
(* an adjustment that returned only if one returned meanwhile.             *)
Travelled(r) ==
    r.at = "answered" => /\ r.copy.lag <= r.age
                         /\ r.copy.behind => r.overlap

Kept(l, e) ==
    e # None => /\ e.age < TTL[l]
                /\ e.copy.lag <= e.age + Patience
                /\ e.copy.behind => e.overlap

CacheInv ==
    /\ TypeOK
    /\ \A r \in Readers : Travelled(reader[r])
    /\ \A l \in Lists : Kept(l, cache[l])

-----------------------------------------------------------------------------
(* Facts about the records.                                                *)

LEMMA IdleIs == Idle \in ReaderType /\ Idle.at = "idle" /\ Travelled(Idle)
BY DEF Idle, ReaderType, Travelled

LEMMA NotIdle ==
  ASSUME NEW r \in ReaderType
  PROVE  /\ r.at = "idle" => r = Idle
         /\ r.at = "asking" => r \in AskingType
         /\ r.at = "answered" => r \in AnsweredType
         /\ r.at \in {"idle", "asking", "answered"}
         /\ r # Idle => r \in AskingType \cup AnsweredType
BY DEF ReaderType, Idle, AskingType, AnsweredType

LEMMA CurrentIs == Current \in CopyType /\ Current.lag = 0 /\ Current.behind = FALSE
BY DEF Current, CopyType

LEMMA SupersededIs ==
  ASSUME NEW c \in CopyType, NEW ws \in SUBSET Writers
  PROVE  /\ Superseded(c, ws) \in CopyType
         /\ Superseded(c, ws).lag = c.lag /\ Superseded(c, ws).behind = c.behind
BY DEF Superseded, CopyType

LEMMA OvertakenIs ==
  ASSUME NEW c \in CopyType, NEW w
  PROVE  Overtaken(c, w) \in CopyType /\ Overtaken(c, w).lag = c.lag
<1>1. (c.behind \/ w \in c.missed) \in BOOLEAN /\ c.missed \ {w} \in SUBSET Writers
  BY DEF CopyType
<1> QED  BY <1>1 DEF Overtaken, CopyType

LEMMA LaterIs ==
  ASSUME NEW c \in CopyType
  PROVE  /\ Later(c) \in CopyType
         /\ Later(c).lag <= c.lag + 1 /\ Later(c).behind = c.behind
<1>1. CASE c.current
  BY <1>1 DEF Later, CopyType
<1>2. CASE ~c.current
  BY <1>2 DEF Later, CopyType
<1> QED  BY <1>1, <1>2

(* Steps that change one call, or store what it brought.                   *)
LEMMA OneReader ==
  ASSUME CacheInv, NEW q \in Readers, NEW r \in ReaderType, Travelled(r),
         reader' = [reader EXCEPT ![q] = r]
  PROVE  /\ reader' \in [Readers -> ReaderType]
         /\ \A p \in Readers : Travelled(reader'[p])
BY DEF CacheInv, TypeOK, ReaderType

LEMMA OneReaderOK ==
  ASSUME CacheInv, NEW q \in Readers, NEW r \in ReaderType, Travelled(r),
         reader' = [reader EXCEPT ![q] = r], UNCHANGED <<cache, writer>>
  PROVE  CacheInv'
<1>1. /\ reader' \in [Readers -> ReaderType]
      /\ \A p \in Readers : Travelled(reader'[p])
  BY OneReader
<1> QED  BY <1>1 DEF CacheInv, TypeOK, ReaderType, Travelled, Kept

-----------------------------------------------------------------------------

(* Nothing is kept and nobody has called.                                  *)
LEMMA CacheInit == Init => CacheInv
BY IdleIs DEF Init, CacheInv, TypeOK, ReaderType, Kept

(* A miss becomes a call.                                                  *)
LEMMA MissOK == ASSUME CacheInv, NEW q \in Readers, NEW l \in Lists, Miss(q, l) PROVE CacheInv'
<1> DEFINE r == [at |-> "asking", list |-> l, try |-> 1, age |-> 0, overlap |-> FALSE]
<1>1. r \in ReaderType /\ Travelled(r)
  BY CacheAssumption DEF ReaderType, AskingType, Travelled
<1> QED  BY <1>1, OneReaderOK DEF Miss

(* What the panel has just read is current.                                *)
LEMMA AnswerOK == ASSUME CacheInv, NEW q \in Readers, Answer(q) PROVE CacheInv'
<1> DEFINE o == reader[q]
           r == [at |-> "answered", list |-> o.list, try |-> o.try, age |-> o.age,
                 overlap |-> o.overlap, copy |-> Current]
<1>1. o \in AskingType
  BY NotIdle DEF Answer, CacheInv, TypeOK, ReaderType
<1>2. r \in ReaderType
  BY <1>1, CurrentIs DEF ReaderType, AskingType, AnsweredType
<1>3. Travelled(r)
  BY <1>1, CurrentIs, CacheAssumption DEF AskingType, Travelled
<1>4. reader' = [reader EXCEPT ![q] = r] /\ UNCHANGED <<cache, writer>>
  BY DEF Answer
<1> QED  BY <1>2, <1>3, <1>4, OneReaderOK

(* A second attempt forgets what the first one brought, not its age.       *)
LEMMA RetryOK == ASSUME CacheInv, NEW q \in Readers, Retry(q) PROVE CacheInv'
<1> DEFINE o == reader[q]
           r == [at |-> "asking", list |-> o.list, try |-> 2, age |-> o.age,
                 overlap |-> o.overlap]
<1>1. o \in AskingType \cup AnsweredType
  BY NotIdle DEF Retry, CacheInv, TypeOK, ReaderType
<1>2. r \in ReaderType /\ Travelled(r)
  BY <1>1 DEF ReaderType, AskingType, AnsweredType, Travelled
<1>3. reader' = [reader EXCEPT ![q] = r] /\ UNCHANGED <<cache, writer>>
  BY DEF Retry
<1> QED  BY <1>2, <1>3, OneReaderOK

(* A call that fails leaves nothing.                                       *)
LEMMA FailOK == ASSUME CacheInv, NEW q \in Readers, Fail(q) PROVE CacheInv'
BY IdleIs, OneReaderOK DEF Fail

(* An entry is as far behind as its call's copy, at most as old as a call. *)
LEMMA StoreOK == ASSUME CacheInv, NEW q \in Readers, Store(q) PROVE CacheInv'
<1> DEFINE o == reader[q]
           e == Entry(q)
<1>1. o \in AnsweredType /\ Travelled(o) /\ o.at = "answered"
  BY NotIdle DEF Store, CacheInv, TypeOK, ReaderType
<1>2. /\ e \in EntryType /\ e.age = 0 /\ e.overlap = o.overlap /\ e.copy = o.copy
      /\ o.list \in Lists
  BY <1>1 DEF Entry, AnsweredType, EntryType
<1>3. Kept(o.list, e)
  <2>1. /\ o.copy.lag \in Nat /\ o.age \in 0 .. Patience /\ Patience \in Nat
        /\ TTL[o.list] \in Nat \ {0}
    BY <1>1, <1>2, CacheAssumption DEF AnsweredType, CopyType
  <2> QED  BY <1>1, <1>2, <2>1 DEF Travelled, Kept
<1>4. /\ cache' = [cache EXCEPT ![o.list] = e]
      /\ reader' = [reader EXCEPT ![q] = Idle] /\ UNCHANGED writer
  BY DEF Store
<1> HIDE DEF e
<1>5. /\ cache' \in [Lists -> EntryType \cup {None}]
      /\ \A l \in Lists : Kept(l, cache'[l])
  BY <1>2, <1>3, <1>4 DEF CacheInv, TypeOK
<1>6. /\ reader' \in [Readers -> ReaderType]
      /\ \A p \in Readers : Travelled(reader'[p])
  BY <1>4, IdleIs, OneReader
<1> QED  BY <1>4, <1>5, <1>6 DEF CacheInv, TypeOK, ReaderType, Travelled, Kept

(* The panel's list changes under the copies that travel or are kept.      *)
LEMMA ChangedOK ==
  ASSUME CacheInv, NEW l \in Lists, NEW ws \in SUBSET Writers, Changed(l, ws),
         writer' \in [Writers -> {"idle", "posted", "applied"}]
  PROVE  CacheInv'
<1>1. ASSUME NEW k \in Lists
      PROVE  cache'[k] \in EntryType \cup {None} /\ Kept(k, cache'[k])
  <2>1. cache[k] \in EntryType \cup {None} /\ Kept(k, cache[k])
    BY DEF CacheInv, TypeOK
  <2>2. CASE cache'[k] = cache[k]
    BY <2>1, <2>2
  <2>3. CASE cache[k] # None /\ cache'[k] = [cache[k] EXCEPT !.copy = Superseded(@, ws)]
    <3>1. cache[k].copy \in CopyType /\ cache[k] \in EntryType
      BY <2>1, <2>3 DEF EntryType
    <3>2. /\ cache'[k] \in EntryType
          /\ cache'[k].age = cache[k].age /\ cache'[k].overlap = cache[k].overlap
          /\ cache'[k].copy = Superseded(cache[k].copy, ws)
      BY <2>3, <3>1, SupersededIs DEF EntryType
    <3> QED  BY <2>1, <2>3, <3>1, <3>2, SupersededIs DEF Kept
  <2>4. CASE k = l
    <3>1. cache'[k] = IF cache[k] = None THEN None
                      ELSE [cache[k] EXCEPT !.copy = Superseded(@, ws)]
      BY <2>4 DEF Changed, CacheInv, TypeOK
    <3> QED  BY <2>2, <2>3, <3>1
  <2>5. CASE k # l
    BY <2>2, <2>5 DEF Changed, CacheInv, TypeOK
  <2> QED  BY <2>4, <2>5
<1>2. ASSUME NEW q \in Readers
      PROVE  reader'[q] \in ReaderType /\ Travelled(reader'[q])
  <2>1. reader[q] \in ReaderType /\ Travelled(reader[q])
    BY DEF CacheInv, TypeOK, ReaderType
  <2>2. CASE reader'[q] = reader[q]
    BY <2>1, <2>2
  <2>3. CASE q \in Copies(l) /\ reader'[q] = [reader[q] EXCEPT !.copy = Superseded(@, ws)]
    <3>1. reader[q] \in AnsweredType /\ reader[q].copy \in CopyType
      BY <2>1, <2>3, NotIdle DEF Copies, AnsweredType
    <3>2. /\ reader'[q] \in AnsweredType
          /\ reader'[q].age = reader[q].age /\ reader'[q].overlap = reader[q].overlap
          /\ reader'[q].copy = Superseded(reader[q].copy, ws)
      BY <2>3, <3>1, SupersededIs DEF AnsweredType
    <3> QED  BY <2>1, <2>3, <3>1, <3>2, SupersededIs DEF Travelled, Copies, ReaderType
  <2> QED  BY <2>2, <2>3 DEF Changed
<1>3. DOMAIN cache' = Lists /\ cache' = [k \in Lists |-> cache'[k]]
  BY DEF Changed, CacheInv, TypeOK
<1>4. reader' = [q \in Readers |-> reader'[q]]
  BY DEF Changed
<1> QED  BY <1>1, <1>2, <1>3, <1>4 DEF CacheInv, TypeOK, ReaderType, Travelled, Kept

(* Somebody edits the panel.                                               *)
LEMMA EditOK == ASSUME CacheInv, NEW l \in Lists, Edit(l) PROVE CacheInv'
BY ChangedOK DEF Edit, CacheInv, TypeOK

(* An adjustment is sent.                                                  *)
LEMMA PostOK == ASSUME CacheInv, NEW w \in Writers, Post(w) PROVE CacheInv'
BY DEF Post, CacheInv, TypeOK, Travelled, Kept

(* An adjustment takes effect under the copies of the list.                *)
LEMMA AppliedOK == ASSUME CacheInv, NEW w \in Writers, Applied(w) PROVE CacheInv'
<1>1. writer' \in [Writers -> {"idle", "posted", "applied"}]
  BY DEF Applied, CacheInv, TypeOK
<1> QED  BY <1>1, ChangedOK, CacheAssumption DEF Applied

(* Both lists are dropped; what travels was overlapped.                    *)
LEMMA ReturnedOK == ASSUME CacheInv, NEW w \in Writers, Returned(w) PROVE CacheInv'
<1>1. ASSUME NEW q \in Readers
      PROVE  reader'[q] \in ReaderType /\ Travelled(reader'[q])
  <2> DEFINE o == reader[q]
  <2>1. o \in ReaderType /\ Travelled(o) /\ reader'[q] = Outrun(w, q)
    BY DEF Returned, CacheInv, TypeOK, ReaderType
  <2>2. CASE o.at = "idle"
    BY <2>1, <2>2, IdleIs DEF Outrun
  <2>3. CASE o.at = "asking"
    <3>1. o \in AskingType
      BY <2>1, <2>3, NotIdle
    <3>2. reader'[q] = [o EXCEPT !.overlap = TRUE]
      BY <2>1, <2>3 DEF Outrun
    <3>3. reader'[q] \in AskingType
      BY <3>1, <3>2 DEF AskingType
    <3> QED  BY <3>3 DEF ReaderType, AskingType, Travelled
  <2>4. CASE o.at = "answered"
    <3>1. o \in AnsweredType /\ o.copy \in CopyType
      BY <2>1, <2>4, NotIdle DEF AnsweredType
    <3>2. reader'[q] = [o EXCEPT !.overlap = TRUE, !.copy = Overtaken(@, w)]
      BY <2>1, <2>4 DEF Outrun
    <3>3. /\ reader'[q] \in AnsweredType /\ reader'[q].overlap = TRUE
          /\ reader'[q].age = o.age /\ reader'[q].copy.lag = o.copy.lag
      <4> DEFINE c == Overtaken(o.copy, w)
      <4>1. c \in CopyType /\ c.lag = o.copy.lag
        BY <3>1, OvertakenIs
      <4>2. reader'[q] = [o EXCEPT !.overlap = TRUE, !.copy = c]
        BY <3>2
      <4> HIDE DEF c
      <4>3. reader'[q].copy = c /\ reader'[q].overlap = TRUE /\ reader'[q].age = o.age
        BY <3>1, <4>2 DEF AnsweredType
      <4> QED  BY <3>1, <4>1, <4>2, <4>3 DEF AnsweredType
    <3> QED  BY <2>1, <2>4, <3>3 DEF ReaderType, Travelled
  <2> QED  BY <2>1, <2>2, <2>3, <2>4, NotIdle
<1>2. /\ cache' \in [Lists -> EntryType \cup {None}]
      /\ \A l \in Lists : cache'[l] = None
      /\ writer' \in [Writers -> {"idle", "posted", "applied"}]
      /\ reader' = [q \in Readers |-> reader'[q]]
  BY DEF Returned, CacheInv, TypeOK
<1> QED  BY <1>1, <1>2 DEF CacheInv, TypeOK, ReaderType, Travelled, Kept

(* Copies, calls and entries grow older together.                          *)
LEMMA TickOK == ASSUME CacheInv, Tick PROVE CacheInv'
<1>1. ASSUME NEW l \in Lists
      PROVE  cache'[l] \in EntryType \cup {None} /\ Kept(l, cache'[l])
  <2> DEFINE e == cache[l]
  <2>1. cache'[l] = Aged(l) /\ e \in EntryType \cup {None} /\ Kept(l, e)
    BY DEF Tick, CacheInv, TypeOK
  <2>2. CASE e = None \/ e.age + 1 >= TTL[l]
    BY <2>1, <2>2 DEF Aged, Kept
  <2>3. CASE ~(e = None \/ e.age + 1 >= TTL[l])
    <3>1. /\ cache'[l] = [e EXCEPT !.age = @ + 1, !.copy = Later(@)]
          /\ e \in EntryType /\ e.copy \in CopyType /\ e.age \in Nat /\ e.copy.lag \in Nat
          /\ TTL[l] \in Nat /\ Patience \in Nat
      BY <2>1, <2>3, CacheAssumption DEF Aged, EntryType, CopyType
    <3>2. /\ cache'[l] \in EntryType /\ cache'[l].age = e.age + 1
          /\ cache'[l].overlap = e.overlap /\ cache'[l].copy = Later(e.copy)
      <4>1. e.age + 1 \in Nat /\ Later(e.copy) \in CopyType
        BY <3>1, LaterIs
      <4> QED  BY <3>1, <4>1 DEF EntryType
    <3>3. Later(e.copy).lag \in Nat
      BY <3>1, LaterIs DEF CopyType
    <3> QED  BY <2>1, <2>3, <3>1, <3>2, <3>3, LaterIs DEF Kept
  <2> QED  BY <2>2, <2>3
<1>2. ASSUME NEW q \in Readers
      PROVE  reader'[q] \in ReaderType /\ Travelled(reader'[q])
  <2> DEFINE o == reader[q]
  <2>1. /\ o \in ReaderType /\ Travelled(o)
        /\ o # Idle => o.age < Patience
        /\ reader'[q] = CASE o.at = "idle" -> Idle
                          [] o.at = "asking" -> [o EXCEPT !.age = @ + 1]
                          [] OTHER -> [o EXCEPT !.age = @ + 1, !.copy = Later(@)]
    BY DEF Tick, CacheInv, TypeOK, ReaderType
  <2>2. CASE o.at = "idle"
    BY <2>1, <2>2, IdleIs
  <2>3. CASE o.at = "asking"
    <3>1. o \in AskingType /\ o.age < Patience /\ reader'[q] = [o EXCEPT !.age = @ + 1]
      BY <2>1, <2>3, NotIdle, IdleIs
    <3>2. o.age + 1 \in 0 .. Patience
      BY <3>1, CacheAssumption DEF AskingType
    <3>3. reader'[q] \in AskingType
      BY <3>1, <3>2 DEF AskingType
    <3> QED  BY <3>3 DEF ReaderType, AskingType, Travelled
  <2>4. CASE o.at = "answered"
    <3>1. /\ o \in AnsweredType /\ o.age < Patience /\ o.copy \in CopyType
          /\ reader'[q] = [o EXCEPT !.age = @ + 1, !.copy = Later(@)]
      BY <2>1, <2>4, NotIdle, IdleIs DEF AnsweredType
    <3>2. o.age + 1 \in 0 .. Patience /\ o.age \in Nat /\ o.copy.lag \in Nat
      BY <3>1, CacheAssumption DEF AnsweredType, CopyType
    <3>3. /\ reader'[q] \in AnsweredType /\ reader'[q].age = o.age + 1
          /\ reader'[q].overlap = o.overlap /\ reader'[q].copy = Later(o.copy)
      BY <3>1, <3>2, LaterIs DEF AnsweredType
    <3>4. Later(o.copy).lag \in Nat
      BY <3>1, LaterIs DEF CopyType
    <3> QED  BY <2>1, <2>4, <3>1, <3>2, <3>3, <3>4, LaterIs DEF ReaderType, Travelled
  <2> QED  BY <2>1, <2>2, <2>3, <2>4, NotIdle
<1>3. /\ cache' = [l \in Lists |-> cache'[l]]
      /\ reader' = [q \in Readers |-> reader'[q]] /\ UNCHANGED writer
  BY DEF Tick
<1> QED  BY <1>1, <1>2, <1>3 DEF CacheInv, TypeOK, ReaderType, Travelled, Kept

-----------------------------------------------------------------------------

(* No step of a reader, of a writer, of the panel or of time breaks it.    *)
LEMMA CacheStep == CacheInv /\ [Next]_vars => CacheInv'
<1> SUFFICES ASSUME CacheInv, [Next]_vars PROVE CacheInv'
  OBVIOUS
<1>1. CASE \E r \in Readers : (\E l \in Lists : Miss(r, l)) \/ Answer(r) \/ Retry(r)
                              \/ Fail(r) \/ Store(r)
  BY <1>1, MissOK, AnswerOK, RetryOK, FailOK, StoreOK
<1>2. CASE \E w \in Writers : Post(w) \/ Applied(w) \/ Returned(w)
  BY <1>2, PostOK, AppliedOK, ReturnedOK
<1>3. CASE \E l \in Lists : Edit(l)
  BY <1>3, EditOK
<1>4. CASE Tick
  BY <1>4, TickOK
<1>5. CASE UNCHANGED vars
  BY <1>5 DEF vars, CacheInv, TypeOK, Travelled, Kept
<1> QED  BY <1>1, <1>2, <1>3, <1>4, <1>5 DEF Next

(* Every reachable state satisfies the invariant.                          *)
LEMMA CacheInvAlways == Spec => []CacheInv
BY CacheInit, CacheStep, PTL DEF Spec

(* Every variable of PanelCache keeps its type.                            *)
THEOREM CacheTyping == Spec => []TypeOK
<1>1. CacheInv => TypeOK
  BY DEF CacheInv
<1> QED  BY <1>1, CacheInvAlways, PTL

(* What ListClients and Onlines hand out is younger than the time to live  *)
(* and the longest call together.                                          *)
THEOREM BoundedStalenessAlways == Spec => []BoundedStaleness
<1>1. ASSUME CacheInv PROVE BoundedStaleness
  <2>1. ASSUME NEW l \in Lists, cache[l] # None
        PROVE  cache[l].copy.lag < TTL[l] + Patience
    <3>1. /\ cache[l] \in EntryType /\ Kept(l, cache[l])
          /\ TTL[l] \in Nat /\ Patience \in Nat
      BY <1>1, <2>1, CacheAssumption DEF CacheInv, TypeOK
    <3>2. cache[l].age \in Nat /\ cache[l].copy.lag \in Nat
      BY <3>1 DEF EntryType, CopyType
    <3> QED  BY <2>1, <3>1, <3>2 DEF Kept
  <2>2. ASSUME NEW r \in Readers, reader[r].at = "answered"
        PROVE  reader[r].copy.lag <= Patience
    <3>1. reader[r] \in AnsweredType /\ Travelled(reader[r]) /\ Patience \in Nat
      BY <1>1, <2>2, NotIdle, CacheAssumption DEF CacheInv, TypeOK, ReaderType
    <3>2. reader[r].age \in 0 .. Patience /\ reader[r].copy.lag \in Nat
      BY <3>1 DEF AnsweredType, CopyType
    <3> QED  BY <2>2, <3>1, <3>2 DEF Travelled
  <2> QED  BY <2>1, <2>2 DEF BoundedStaleness
<1> QED  BY <1>1, CacheInvAlways, PTL

(* InvalidateCache leaves behind only what a call under way brings later.  *)
THEOREM StaleOnlyByOverlapAlways == Spec => []StaleOnlyByOverlap
<1>1. CacheInv => StaleOnlyByOverlap
  BY DEF CacheInv, Kept, StaleOnlyByOverlap
<1> QED  BY <1>1, CacheInvAlways, PTL

-----------------------------------------------------------------------------
(* A client's page (ClientLogin).                                          *)

CallType == [at : {"idle", "finding", "found", "asking", "answered", "listed"},
             age : Nat, has : BOOLEAN]
KeptType == [has : BOOLEAN, age : 0 .. ListTTL + 1]

LoginType ==
    /\ listed \in BOOLEAN /\ changed \in 0 .. Login!Horizon
    /\ kept \in KeptType \cup {None}
    /\ call \in [Login!Callers -> CallType]

(* How long an answer that differs from the panel may have been wrong: as  *)
(* long as its call, if it has just come; if it is what a page is being    *)
(* made of, as long as a cached list may be wrong and the page has taken,  *)
(* unless it has just come and the page is too late to be made.            *)
Lags(r) ==
    /\ r.at \in {"asking", "answered"} => r.age <= Patience
    /\ r.at = "answered" /\ r.has # listed => changed <= r.age
    /\ r.at = "listed" /\ r.has # listed =>
          \/ changed <= Patience
          \/ changed < ListTTL + Patience + r.age /\ r.age <= PageTime

LoginInv ==
    /\ LoginType
    /\ \A c \in Login!Callers : Lags(call[c])
    /\ kept # None /\ kept.has # listed /\ kept.age < ListTTL => changed <= kept.age + Patience

(* The clocks and the three constants they are compared with.              *)
LEMMA HorizonIs ==
  /\ ListTTL \in Nat \ {0} /\ Patience \in Nat /\ PageTime \in Nat
  /\ Login!Horizon = Patience + ListTTL + PageTime /\ Login!Horizon \in Nat \ {0}
  /\ None \notin KeptType
<1>1. /\ ListTTL \in Nat \ {0} /\ Patience \in Nat /\ PageTime \in Nat
      /\ None \notin [has : BOOLEAN, age : Nat]
  BY ReadersAssumption DEF Login!LoginAssumption
<1>2. KeptType \subseteq [has : BOOLEAN, age : Nat]
  BY <1>1 DEF KeptType
<1> QED  BY <1>1, <1>2 DEF Login!Horizon

(* Between calls a caller is nowhere.                                      *)
LEMMA NoCall == Login!Idle \in CallType /\ Login!Idle.at = "idle"
BY HorizonIs DEF Login!Idle, CallType

(* Nobody has called and nothing is kept.                                  *)
LEMMA LoginInit == Login!Init => LoginInv
<1> SUFFICES ASSUME Login!Init PROVE LoginInv
  OBVIOUS
<1>1. /\ call \in [Login!Callers -> CallType]
      /\ \A c \in Login!Callers : call[c].at = "idle"
  BY NoCall DEF Login!Init
<1>2. changed \in 0 .. Login!Horizon
  BY HorizonIs DEF Login!Init
<1> QED  BY <1>1, <1>2 DEF Login!Init, LoginInv, LoginType, Lags

(* A step of one caller that leaves the panel and the list alone.          *)
LEMMA CallOK ==
  ASSUME LoginInv, NEW c \in Login!Callers, NEW r \in CallType, Lags(r),
         call' = [call EXCEPT ![c] = r], UNCHANGED <<listed, changed, kept>>
  PROVE  LoginInv'
<1>1. call' \in [Login!Callers -> CallType]
  BY DEF LoginInv, LoginType
<1>2. \A d \in Login!Callers : Lags(call'[d])
  BY DEF LoginInv, LoginType
<1> QED  BY <1>1, <1>2 DEF LoginInv, LoginType, Lags

(* The handler is given what the list says.                                *)
LEMMA HitOK == ASSUME LoginInv, NEW c \in Login!Callers, Login!Hit(c) PROVE LoginInv'
<1> DEFINE r == [at |-> "listed", age |-> 0, has |-> kept.has]
<1>1. /\ kept # None /\ kept \in KeptType /\ kept.age < ListTTL
      /\ call' = [call EXCEPT ![c] = r] /\ UNCHANGED <<listed, changed, kept>>
  BY DEF Login!Hit, Login!Fresh, LoginInv, LoginType
<1>2. r \in CallType
  BY <1>1, HorizonIs DEF CallType, KeptType
<1>3. Lags(r)
  <2>1. kept.age \in Nat /\ changed \in Nat
    BY <1>1, HorizonIs DEF KeptType, LoginInv, LoginType
  <2> QED  BY <1>1, <2>1, HorizonIs DEF Lags, LoginInv
<1> QED  BY <1>1, <1>2, <1>3, CallOK

(* What the panel says is right when it says it.                           *)
LEMMA LoginAnswerOK == ASSUME LoginInv, NEW c \in Login!Callers, Login!Answer(c) PROVE LoginInv'
<1> DEFINE r == [call[c] EXCEPT !.at = "answered", !.has = listed]
<1>1. /\ call' = [call EXCEPT ![c] = r] /\ UNCHANGED <<listed, changed, kept>>
      /\ call[c] \in CallType /\ listed \in BOOLEAN
  BY DEF Login!Answer, LoginInv, LoginType
<1>2. r \in CallType /\ r.age = call[c].age /\ r.has = listed /\ r.at = "answered"
  BY <1>1 DEF CallType
<1>3. Lags(r)
  <2>1. call[c].age <= Patience
    BY DEF Login!Answer, LoginInv, Lags
  <2> QED  BY <1>2, <2>1 DEF Lags
<1> QED  BY <1>1, <1>2, <1>3, CallOK

(* A list is stored as old as it is: none of its call's time is counted.   *)
LEMMA LoginStoreOK == ASSUME LoginInv, NEW c \in Login!Callers, Login!Store(c) PROVE LoginInv'
<1> DEFINE r == [call[c] EXCEPT !.at = "listed"]
<1>1. /\ call[c].at = "answered" /\ kept' = [has |-> call[c].has, age |-> 0]
      /\ call' = [call EXCEPT ![c] = r] /\ UNCHANGED <<listed, changed>>
      /\ call[c] \in CallType /\ listed \in BOOLEAN /\ changed \in Nat
  BY HorizonIs DEF Login!Store, Login!Go, LoginInv, LoginType
<1>2. r \in CallType /\ r.at = "listed" /\ r.has = call[c].has
  BY <1>1 DEF CallType
<1> HIDE DEF r
<1>3. call[c].has # listed => changed <= Patience
  <2>1. Lags(call[c]) /\ call[c].age \in Nat
    BY <1>1 DEF LoginInv, CallType
  <2> QED  BY <1>1, <2>1, HorizonIs DEF Lags
<1>4. Lags(r)
  BY <1>1, <1>2, <1>3, HorizonIs DEF Lags
<1>5. call' \in [Login!Callers -> CallType] /\ \A d \in Login!Callers : Lags(call'[d])
  BY <1>1, <1>2, <1>4 DEF LoginInv, LoginType
<1>6. kept' \in KeptType /\ kept'.age = 0 /\ kept'.has = call[c].has
  BY <1>1, HorizonIs DEF KeptType, CallType
<1> QED
  BY <1>1, <1>3, <1>5, <1>6, HorizonIs DEF LoginInv, LoginType, Lags

(* The panel changes: whoever is wrong is so from now on.                  *)
LEMMA LoginEditOK == ASSUME LoginInv, Login!Add \/ Login!Remove PROVE LoginInv'
<1>1. changed' = 0 /\ listed' \in BOOLEAN /\ UNCHANGED <<kept, call>>
  BY DEF Login!Add, Login!Remove
<1>2. \A c \in Login!Callers : call[c].age \in Nat
  BY HorizonIs DEF LoginInv, LoginType, CallType
<1>3. kept # None => kept.age \in Nat
  BY HorizonIs DEF LoginInv, LoginType, KeptType
<1> QED  BY <1>1, <1>2, <1>3, HorizonIs DEF LoginInv, LoginType, Lags

(* Time passes for an answer, for the list and for the panel alike.        *)
LEMMA LoginTickOK == ASSUME LoginInv, Login!Tick PROVE LoginInv'
<1>1. /\ changed \in Nat /\ changed <= Login!Horizon
      /\ changed' \in 0 .. Login!Horizon /\ changed' <= changed + 1
      /\ UNCHANGED listed
  BY HorizonIs DEF Login!Tick, Login!UpTo, LoginInv, LoginType
<1>2. ASSUME NEW c \in Login!Callers
      PROVE  call'[c] \in CallType /\ Lags(call[c])'
  <2>1. /\ call[c] \in CallType /\ Lags(call[c])
        /\ call[c] # Login!Idle => call[c].age < Login!Deadline(c)
        /\ call'[c] = IF call[c] = Login!Idle THEN Login!Idle ELSE [call[c] EXCEPT !.age = @ + 1]
    BY DEF Login!Tick, LoginInv, LoginType
  <2>2. CASE call[c] = Login!Idle
    BY <2>1, <2>2, NoCall DEF Lags
  <2>3. CASE call[c] # Login!Idle
    <3>1. /\ call'[c] = [call[c] EXCEPT !.age = @ + 1] /\ call[c].age \in Nat
          /\ call[c].at \in {"asking", "answered"} => call[c].age + 1 <= Patience
          /\ call[c].at = "listed" => call[c].age + 1 <= PageTime
      BY <2>1, <2>3, HorizonIs DEF CallType, Login!Deadline
    <3>2. /\ call'[c] \in CallType /\ call'[c].age = call[c].age + 1
          /\ call'[c].at = call[c].at /\ call'[c].has = call[c].has
      BY <2>1, <3>1 DEF CallType
    <3> QED  BY <1>1, <2>1, <3>1, <3>2, HorizonIs DEF Lags
  <2> QED  BY <2>2, <2>3
<1>3. /\ kept' \in KeptType \cup {None}
      /\ kept' # None /\ kept'.has # listed /\ kept'.age < ListTTL =>
            changed' <= kept'.age + Patience
  <2>1. CASE kept = None
    BY <2>1 DEF Login!Tick
  <2>2. CASE kept # None
    <3>1. /\ kept \in KeptType /\ kept.age \in Nat /\ kept.age <= ListTTL + 1
          /\ kept' = [kept EXCEPT !.age = Login!UpTo(@ + 1, ListTTL + 1)]
          /\ kept.has # listed /\ kept.age < ListTTL => changed <= kept.age + Patience
      BY <2>2, HorizonIs DEF Login!Tick, LoginInv, LoginType, KeptType
    <3>2. /\ Login!UpTo(kept.age + 1, ListTTL + 1) \in 0 .. ListTTL + 1
          /\ \/ Login!UpTo(kept.age + 1, ListTTL + 1) = kept.age + 1
             \/ Login!UpTo(kept.age + 1, ListTTL + 1) = ListTTL + 1
      BY <3>1, HorizonIs DEF Login!UpTo
    <3>3. /\ kept' \in KeptType /\ kept'.has = kept.has
          /\ kept'.age = kept.age + 1 \/ kept'.age = ListTTL + 1
      BY <3>1, <3>2 DEF KeptType
    <3> QED  BY <1>1, <3>1, <3>3, HorizonIs
  <2> QED  BY <2>1, <2>2
<1>4. call' = [c \in Login!Callers |-> call'[c]]
  BY DEF Login!Tick
<1> QED  BY <1>1, <1>2, <1>3, <1>4 DEF LoginInv, LoginType

(* No step of a device, of another reader or of the panel breaks it.       *)
LEMMA LoginStep == LoginInv /\ [Login!Next]_loginVars => LoginInv'
<1> SUFFICES ASSUME LoginInv, [Login!Next]_loginVars PROVE LoginInv'
  OBVIOUS
<1>0. Devices \subseteq Login!Callers
  BY DEF Login!Callers
<1>1. ASSUME NEW c \in Login!Callers, NEW at \in {"finding", "found"},
             Login!Go(c, at), UNCHANGED <<listed, changed, kept>>
      PROVE  LoginInv'
  <2>1. [call[c] EXCEPT !.at = at] \in CallType /\ Lags([call[c] EXCEPT !.at = at])
    BY DEF LoginInv, LoginType, CallType, Lags
  <2> QED  BY <1>1, <2>1, CallOK DEF Login!Go
<1>2. ASSUME NEW c \in Login!Callers, Login!Finish(c), UNCHANGED <<listed, changed, kept>>
      PROVE  LoginInv'
  BY <1>2, NoCall, CallOK DEF Login!Finish, Lags
<1>3. ASSUME NEW d \in Devices,
             \/ Login!OpenLink(d) \/ Login!Found(d) \/ Login!NotFound(d) \/ Login!CreateSession(d)
             \/ Login!Evict(d)
      PROVE  LoginInv'
  BY <1>0, <1>1, <1>2, <1>3
  DEF Login!OpenLink, Login!Found, Login!NotFound, Login!CreateSession, Login!Evict
<1>4. ASSUME NEW c \in Login!Callers, Login!Fail(c) \/ Login!Show(c)
      PROVE  LoginInv'
  BY <1>2, <1>4 DEF Login!Fail, Login!Show
<1>5. ASSUME NEW c \in Login!Callers, Login!Miss(c)
      PROVE  LoginInv'
  <2> DEFINE r == [call[c] EXCEPT !.at = "asking"]
  <2>1. call[c] = Login!Idle /\ call' = [call EXCEPT ![c] = r]
    BY <1>5 DEF Login!Miss, Login!MayList, Login!Go
  <2>2. call[c].age = 0 /\ call[c] \in CallType
    BY <2>1, NoCall DEF Login!Idle
  <2>3. r \in CallType /\ r.at = "asking" /\ r.age = call[c].age
    BY <2>2 DEF CallType
  <2> HIDE DEF r
  <2>4. Lags(r)
    BY <2>2, <2>3, HorizonIs DEF Lags
  <2> QED  BY <1>5, <2>1, <2>3, <2>4, CallOK DEF Login!Miss
<1>6. CASE \/ \E d \in Devices : Login!Logout(d)
           \/ Login!InvalidateCache \/ UNCHANGED loginVars
  BY <1>6 DEF Login!Logout, Login!InvalidateCache, loginVars, LoginInv, LoginType, Lags
<1> QED
  BY <1>3, <1>4, <1>5, <1>6, HitOK, LoginAnswerOK, LoginStoreOK, LoginEditOK, LoginTickOK DEF Login!Next

(* So it holds throughout.                                                 *)
LEMMA LoginInvAlways == ReadersSpec => []LoginInv
BY LoginInit, LoginStep, Parts, PTL DEF ReadersSpec

(* What a page is made of has been wrong for less than the horizon.        *)
LEMMA ListedLags ==
  ASSUME LoginInv, NEW c \in Login!Callers, call[c].at = "listed", call[c].has # listed
  PROVE  changed < Login!Horizon
<1>1. Lags(call[c]) /\ changed \in Nat /\ call[c].age \in Nat
  BY HorizonIs DEF LoginInv, LoginType, CallType
<1> QED  BY <1>1, HorizonIs DEF Lags

(* Whoever fills the list and whenever, a client removed from the panel is *)
(* shown nothing once one call, a list's lifetime and the making of a page *)
(* have passed (RemovedSeesNothing of the runs).                           *)
THEOREM RemovedSeesNothingAlways == ReadersSpec => []RemovedSeesNothing
<1>1. LoginInv => RemovedSeesNothing
  BY ListedLags DEF RemovedSeesNothing, Login!RemovedSeesNothing, Login!Callers
<1> QED  BY <1>1, LoginInvAlways, PTL

(* And one who has been there for that long is not thrown out by its own   *)
(* page (EstablishedKept of the runs).                                     *)
THEOREM EstablishedKeptAlways == ReadersSpec => EstablishedKept
<1>1. LoginInv /\ [ReadersNext]_allVars =>
        [\A d \in Devices : Login!Evict(d) => ~listed \/ changed < Login!Horizon]_loginVars
  BY ListedLags DEF Login!Evict, Login!Callers, LoginInv, LoginType
<1> QED
  BY <1>1, LoginInvAlways, PTL
  DEF ReadersSpec, EstablishedKept, Login!EstablishedKept, Login!vars, loginVars

-----------------------------------------------------------------------------
(* An admin's notification (Broadcast).                                    *)

IDs == SubIDs \cup {Empty}
ReqType ==
    [at : {"idle", "asked", "resolved", "sending", "refused", "done"},
     target : Custom!Target, subIDs : [every : BOOLEAN, ids : SUBSET IDs],
     unknown : SUBSET Emails, queued : SUBSET Endpoints, sending : SUBSET Endpoints,
     cancelled : BOOLEAN, logged : BOOLEAN]

CustomType ==
    /\ req \in ReqType
    /\ book \in [Emails -> IDs \cup {Absent}] /\ rows \in [Endpoints -> Custom!RowType]
    /\ had \in [Emails -> SUBSET (IDs \cup {Absent})]
    /\ held \in [Endpoints -> SUBSET Custom!RowType]
    /\ told \in SUBSET Endpoints

(* What is there now is among what there has been.                         *)
Witnessed ==
    /\ \A m \in Emails : book[m] \in had[m]
    /\ \A e \in Endpoints : rows[e] \in held[e]

Recipients == told \cup req.queued \cup req.sending

(* Until the rows are listed nobody is a recipient; then only who may be   *)
(* meant, and as long as the page waits, everybody who is.                 *)
RecipientsMeant ==
    \A e \in Recipients : \E r \in held[e] : r # Absent /\ r.role = "client" /\ Custom!MayMean(r.sub)

NobodyPassedOver ==
    req.at \in {"sending", "done"} /\ ~req.cancelled =>
        \A e \in Endpoints, r \in Custom!RowType :
            held[e] = {r} /\ Custom!Means(r) => e \in Recipients

(* The ids picked are meant, and whatever is meant is picked.              *)
IDsMeant ==
    req.at = "resolved" =>
        /\ \A id \in IDs : req.subIDs.every \/ id \in req.subIDs.ids => Custom!MayMean(id)
        /\ \A r \in Custom!RowType : Custom!Means(r) => req.subIDs.every \/ r.sub \in req.subIDs.ids

UnknownNamed ==
    req.at \in {"resolved", "sending", "done"} =>
        \A m \in req.target.emails \ {Empty} : had[m] = {Absent} => m \in req.unknown

CustomInv ==
    /\ CustomType /\ Witnessed
    /\ req.at \notin {"sending", "done"} => Recipients = {}
    /\ req.at = "done" => req.queued = {} /\ req.sending = {}
    /\ RecipientsMeant /\ NobodyPassedOver /\ IDsMeant /\ UnknownNamed

(* The empty string is nobody's subscription id and no address.            *)
LEMMA NamesAre ==
  Empty \notin SubIDs \cup Emails /\ Absent \notin IDs
BY ReadersAssumption DEF Custom!BroadcastAssumption, IDs

(* Before the first request nobody is to be sent anything.                 *)
LEMMA NoRequest ==
  /\ Custom!Idle \in ReqType
  /\ Custom!Idle.queued = {} /\ Custom!Idle.sending = {} /\ Custom!Idle.at = "idle"
BY DEF Custom!Idle, ReqType, Custom!Target, Custom!NoTarget, Custom!These

(* A client's row names a client's id.                                     *)
LEMMA RowIs ==
  ASSUME NEW r \in Custom!RowType, r # Absent
  PROVE  r.sub \in IDs /\ (r.role = "client" => r.sub \in SubIDs)
BY DEF Custom!RowType, Custom!Row, IDs

(* No request has come in.                                                 *)
LEMMA CustomInit == Custom!Init => CustomInv
<1> SUFFICES ASSUME Custom!Init PROVE CustomInv
  OBVIOUS
<1>1. req = Custom!Idle /\ told = {} /\ Recipients = {}
  BY NoRequest DEF Custom!Init, Recipients
<1>2. CustomType
  BY <1>1, NoRequest DEF Custom!Init, CustomType, Custom!RowType
<1>3. Witnessed
  BY DEF Custom!Init, Witnessed
<1> QED
  BY <1>1, <1>2, <1>3, NoRequest
  DEF CustomInv, RecipientsMeant, NobodyPassedOver, IDsMeant, UnknownNamed

(* A request that is refused, or has just come in, has no recipients.      *)
LEMMA NothingYet ==
  ASSUME CustomInv, req' \in ReqType, req'.at \in {"asked", "refused"}, told' = {},
         req'.queued = {}, req'.sending = {},
         UNCHANGED <<book, rows>>,
         had' \in [Emails -> SUBSET (IDs \cup {Absent})] /\ held' \in [Endpoints -> SUBSET Custom!RowType],
         Witnessed'
  PROVE  CustomInv'
<1>1. Recipients' = {}
  BY DEF Recipients
<1>2. CustomType'
  BY DEF CustomInv, CustomType
<1> QED
  BY <1>1, <1>2 DEF CustomInv, RecipientsMeant, NobodyPassedOver, IDsMeant, UnknownNamed

(* A new request starts with what there is now.                            *)
LEMMA AskOK == ASSUME CustomInv, Custom!Ask PROVE CustomInv'
<1>1. PICK target \in Custom!Target : req' = [Custom!Idle EXCEPT !.at = "asked", !.target = target]
  BY DEF Custom!Ask
<1>2. req' \in ReqType /\ req'.at = "asked" /\ req'.queued = {} /\ req'.sending = {}
  BY <1>1, NoRequest DEF ReqType
<1>3. /\ had' \in [Emails -> SUBSET (IDs \cup {Absent})]
      /\ held' \in [Endpoints -> SUBSET Custom!RowType] /\ Witnessed'
      /\ UNCHANGED <<book, rows>> /\ told' = {}
  BY DEF Custom!Ask, CustomInv, CustomType, Witnessed
<1> QED  BY <1>2, <1>3, NothingYet

(* A request refused before the rows are listed has reached nobody.        *)
LEMMA RefusedOK ==
  ASSUME CustomInv, Custom!Refused, UNCHANGED Custom!world, req.at \in {"asked", "resolved"}
  PROVE  CustomInv'
<1>1. req' \in ReqType /\ req'.at = "refused" /\ req'.queued = {} /\ req'.sending = {}
  BY NoRequest DEF Custom!Refused, ReqType
<1>2. told' = {} /\ UNCHANGED <<book, rows, had, held>>
  BY DEF Custom!world, CustomInv, Recipients
<1> QED  BY <1>1, <1>2, NothingYet DEF CustomInv, CustomType, Witnessed

(* The ids are settled: those the admin named, or those the list gives for *)
(* the addresses the admin named.                                          *)
LEMMA ResolvedOK ==
  ASSUME CustomInv, req.at = "asked", UNCHANGED Custom!world,
         NEW s \in [every : BOOLEAN, ids : SUBSET IDs], NEW u \in SUBSET Emails,
         req' = [req EXCEPT !.at = "resolved", !.subIDs = s, !.unknown = u],
         \A id \in IDs : s.every \/ id \in s.ids => Custom!MayMean(id),
         \A r \in Custom!RowType : Custom!Means(r) => s.every \/ r.sub \in s.ids,
         \A m \in req.target.emails \ {Empty} : had[m] = {Absent} => m \in u
  PROVE  CustomInv'
<1>1. /\ req' \in ReqType /\ req'.at = "resolved" /\ req'.subIDs = s /\ req'.unknown = u
      /\ req'.target = req.target /\ req'.queued = req.queued /\ req'.sending = req.sending
  BY DEF CustomInv, CustomType, ReqType
<1>2. UNCHANGED <<book, rows, had, held, told>>
  BY DEF Custom!world
<1>3. Recipients = {} /\ Recipients' = {}
  BY <1>1, <1>2 DEF CustomInv, Recipients
<1>4. IDsMeant' /\ UnknownNamed'
  BY <1>1, <1>2 DEF IDsMeant, UnknownNamed, Custom!MayMean, Custom!Means
<1> QED
  BY <1>1, <1>2, <1>3, <1>4 DEF CustomInv, CustomType, Witnessed, RecipientsMeant, NobodyPassedOver

(* The ids, or everybody, as the request says.                             *)
LEMMA ByIdOK == ASSUME CustomInv, Custom!ById PROVE CustomInv'
<1> DEFINE s == IF req.target.all THEN Custom!Everyone ELSE Custom!These(req.target.ids)
<1>1. /\ req \in ReqType /\ req.target \in Custom!Target /\ req.target.emails = {}
      /\ req.unknown \in SUBSET Emails
      /\ req.target.all => req.target.ids = {}
  BY DEF CustomInv, CustomType, ReqType, Custom!ById, Custom!OneTarget
<1>2. s \in [every : BOOLEAN, ids : SUBSET IDs] /\ s.every = req.target.all /\ s.ids = req.target.ids
  BY <1>1 DEF Custom!Everyone, Custom!These, Custom!Target, IDs
<1>3. req' = [req EXCEPT !.at = "resolved", !.subIDs = s, !.unknown = req.unknown]
  BY <1>1 DEF Custom!ById, ReqType
<1> HIDE DEF s
<1> QED
  BY <1>1, <1>2, <1>3, ResolvedOK DEF Custom!ById, Custom!MayMean, Custom!Means

(* The addresses the list knows, by the ids it gives them.                 *)
LEMMA ByEmailOK == ASSUME CustomInv, Custom!ByEmail PROVE CustomInv'
<1> DEFINE known == Custom!Known(req.target.emails)
           s == Custom!These({book[m] : m \in known})
           u == req.target.emails \ (known \cup {Empty})
<1>1. /\ req \in ReqType /\ req.target \in Custom!Target
      /\ ~req.target.all /\ req.target.ids = {}
      /\ req.target.emails \ {Empty} \subseteq Emails
  BY DEF CustomInv, CustomType, ReqType, Custom!ByEmail, Custom!OneTarget, Custom!Target
<1>2. /\ known \subseteq req.target.emails \ {Empty}
      /\ \A m \in known : book[m] \in SubIDs /\ book[m] \in had[m]
  BY <1>1 DEF Custom!Known, CustomInv, Witnessed
<1>3. /\ s \in [every : BOOLEAN, ids : SUBSET IDs] /\ u \in SUBSET Emails
      /\ s.every = FALSE /\ s.ids = {book[m] : m \in known}
  BY <1>1, <1>2 DEF Custom!These, IDs
<1>4. \A id \in IDs : id \in s.ids => Custom!MayMean(id)
  BY <1>2, <1>3 DEF Custom!MayMean
<1>5. ASSUME NEW r \in Custom!RowType, Custom!Means(r)
      PROVE  r.sub \in s.ids
  <2>1. PICK m \in req.target.emails \ {Empty} : had[m] = {r.sub}
    BY <1>1, <1>5 DEF Custom!Means
  <2>2. book[m] = r.sub /\ r.sub \in SubIDs
    BY <1>1, <1>5, <2>1, RowIs DEF CustomInv, Witnessed, Custom!Means
  <2> QED  BY <1>3, <2>1, <2>2 DEF Custom!Known
<1>6. ASSUME NEW m \in req.target.emails \ {Empty}, had[m] = {Absent}
      PROVE  m \in u
  <2>1. book[m] = Absent
    BY <1>1, <1>6 DEF CustomInv, Witnessed
  <2> QED  BY <1>6, <2>1, NamesAre DEF Custom!Known, IDs
<1>7. CASE known = {} /\ Custom!Refused
  BY <1>7, RefusedOK DEF Custom!ByEmail
<1>8. CASE req' = [req EXCEPT !.at = "resolved", !.subIDs = s, !.unknown = u]
  <2> HIDE DEF s, u
  <2> QED  BY <1>3, <1>4, <1>5, <1>6, <1>8, ResolvedOK DEF Custom!ByEmail
<1> QED  BY <1>7, <1>8 DEF Custom!ByEmail

(* Rows of clients with those ids become the recipients.                   *)
LEMMA ListOK == ASSUME CustomInv, Custom!ListPushSubscriptions PROVE CustomInv'
<1> DEFINE q == Custom!Listed("client", req.subIDs)
<1>1. /\ req.at = "resolved" /\ req' = [req EXCEPT !.at = "sending", !.queued = q]
      /\ UNCHANGED <<book, rows, had, held, told>>
      /\ req \in ReqType
  BY DEF Custom!ListPushSubscriptions, Custom!world, CustomInv, CustomType
<1>2. q \subseteq Endpoints
  BY DEF Custom!Listed
<1>3. /\ req' \in ReqType /\ req'.at = "sending" /\ req'.queued = q /\ req'.sending = req.sending
      /\ req'.target = req.target /\ req'.unknown = req.unknown
  BY <1>1, <1>2 DEF ReqType
<1>4. Recipients' = q
  BY <1>1, <1>3 DEF CustomInv, Recipients
<1>5. ASSUME NEW e \in q
      PROVE  /\ rows[e] \in held[e] /\ rows[e] # Absent /\ rows[e].role = "client"
             /\ Custom!MayMean(rows[e].sub)
  <2>1. /\ e \in Endpoints /\ rows[e] # Absent /\ rows[e].role = "client"
        /\ req.subIDs.every \/ rows[e].sub \in req.subIDs.ids
        /\ rows[e] \in held[e] /\ rows[e] \in Custom!RowType
    BY <1>5 DEF Custom!Listed, Custom!Chosen, CustomInv, CustomType, Witnessed
  <2>2. rows[e].sub \in IDs
    BY <2>1, RowIs
  <2> QED  BY <1>1, <2>1, <2>2 DEF CustomInv, IDsMeant
<1>6. ASSUME NEW e \in Endpoints, NEW r \in Custom!RowType, held[e] = {r}, Custom!Means(r)
      PROVE  e \in q
  <2>1. rows[e] = r
    BY <1>6 DEF CustomInv, Witnessed
  <2>2. r # Absent /\ r.role = "client" /\ (req.subIDs.every \/ r.sub \in req.subIDs.ids)
    BY <1>1, <1>6 DEF CustomInv, IDsMeant, Custom!Means
  <2> QED  BY <2>1, <2>2 DEF Custom!Listed, Custom!Chosen
<1> HIDE DEF q
<1>7. RecipientsMeant' /\ NobodyPassedOver'
  BY <1>1, <1>3, <1>4, <1>5, <1>6
  DEF RecipientsMeant, NobodyPassedOver, Custom!MayMean, Custom!Means
<1>8. UnknownNamed'
  BY <1>1, <1>3 DEF CustomInv, UnknownNamed
<1> QED  BY <1>1, <1>3, <1>7, <1>8 DEF CustomInv, CustomType, Witnessed, IDsMeant

(* The handler goes on to send: nobody is lost, nobody comes in.           *)
LEMMA SendingOK ==
  ASSUME CustomInv, req.at \in {"sending", "done"},
         req' \in ReqType, req'.at \in {"sending", "done"}, req'.target = req.target,
         req'.unknown = req.unknown, req'.cancelled = FALSE => ~req.cancelled,
         req'.at = "done" => req'.queued = {} /\ req'.sending = {},
         told' \in SUBSET Endpoints,
         Recipients' \subseteq Recipients, ~req'.cancelled => Recipients' = Recipients,
         UNCHANGED <<book, had>>, rows' \in [Endpoints -> Custom!RowType],
         held' \in [Endpoints -> SUBSET Custom!RowType],
         \A e \in Endpoints : held[e] \subseteq held'[e] /\ rows'[e] \in held'[e]
  PROVE  CustomInv'
<1>1. \A e \in Endpoints, r \in Custom!RowType : held'[e] = {r} => held[e] = {r}
  BY DEF CustomInv, Witnessed
<1>2. Recipients \subseteq Endpoints
  BY DEF Recipients, CustomInv, CustomType, ReqType
<1>3. RecipientsMeant'
  BY <1>2 DEF CustomInv, RecipientsMeant, Custom!MayMean
<1>4. NobodyPassedOver'
  BY <1>1 DEF CustomInv, NobodyPassedOver, Custom!Means, ReqType
<1>5. UnknownNamed'
  BY DEF CustomInv, UnknownNamed
<1>6. CustomType' /\ Witnessed'
  BY DEF CustomInv, CustomType, Witnessed
<1> QED  BY <1>3, <1>4, <1>5, <1>6 DEF CustomInv, IDsMeant

(* Sends start, are answered or are cut off.                               *)
LEMMA SendOK ==
  ASSUME CustomInv, NEW e \in Endpoints,
         Custom!Start(e) \/ Custom!Sent(e) \/ Custom!CutOff(e)
  PROVE  CustomInv'
<1>0. req \in ReqType /\ told \in SUBSET Endpoints /\ rows \in [Endpoints -> Custom!RowType]
      /\ held \in [Endpoints -> SUBSET Custom!RowType]
      /\ Absent \in Custom!RowType /\ \A x \in Endpoints : rows[x] \in held[x]
  BY DEF CustomInv, CustomType, Witnessed, Custom!RowType
<1>9. e \in req.queued \cup req.sending => req.at = "sending"
  BY <1>0 DEF CustomInv, Recipients, ReqType
<1>1. CASE Custom!Start(e)
  <2>1. /\ req.at = "sending" /\ e \in req.queued
        /\ req' = [req EXCEPT !.queued = @ \ {e}, !.sending = @ \cup {e}]
        /\ UNCHANGED <<book, rows, had, held, told>>
    BY <1>1 DEF Custom!Start, Custom!world
  <2>2. /\ req' \in ReqType /\ req'.at = "sending" /\ req'.target = req.target
        /\ req'.unknown = req.unknown /\ req'.cancelled = req.cancelled
        /\ req'.queued = req.queued \ {e} /\ req'.sending = req.sending \cup {e}
    BY <1>0, <2>1 DEF ReqType
  <2>3. Recipients' = Recipients
    BY <2>1, <2>2 DEF Recipients
  <2> QED  BY <1>0, <2>1, <2>2, <2>3, SendingOK
<1>2. CASE Custom!Sent(e)
  <2>1. /\ req.at = "sending" /\ e \in req.sending
        /\ req' = [req EXCEPT !.sending = @ \ {e}] /\ told' = told \cup {e}
        /\ UNCHANGED <<book, had>>
    BY <1>2, <1>9 DEF Custom!Sent
  <2>2. /\ req' \in ReqType /\ req'.at = "sending" /\ req'.target = req.target
        /\ req'.unknown = req.unknown /\ req'.cancelled = req.cancelled
        /\ req'.queued = req.queued /\ req'.sending = req.sending \ {e}
    BY <1>0, <2>1 DEF ReqType
  <2>3. Recipients' = Recipients /\ told' \in SUBSET Endpoints
    BY <1>0, <2>1, <2>2 DEF Recipients
  <2>4. /\ rows' \in [Endpoints -> Custom!RowType] /\ held' \in [Endpoints -> SUBSET Custom!RowType]
        /\ \A x \in Endpoints : held[x] \subseteq held'[x] /\ rows'[x] \in held'[x]
    BY <1>0, <1>2 DEF Custom!Sent
  <2> QED  BY <2>1, <2>2, <2>3, <2>4, SendingOK
<1>3. CASE Custom!CutOff(e)
  <2>1. /\ req.at = "sending" /\ req.cancelled
        /\ req' = [req EXCEPT !.queued = @ \ {e}, !.sending = @ \ {e}]
        /\ UNCHANGED <<book, rows, had, held, told>>
    BY <1>3, <1>9 DEF Custom!CutOff, Custom!world
  <2>2. /\ req' \in ReqType /\ req'.at = "sending" /\ req'.target = req.target
        /\ req'.unknown = req.unknown /\ req'.cancelled = req.cancelled
        /\ req'.queued = req.queued \ {e} /\ req'.sending = req.sending \ {e}
    BY <1>0, <2>1 DEF ReqType
  <2>3. Recipients' \subseteq Recipients
    BY <2>1, <2>2 DEF Recipients
  <2> QED  BY <1>0, <2>1, <2>2, <2>3, SendingOK
<1> QED  BY <1>1, <1>2, <1>3

(* Everybody has been sent to, or has been given up.                       *)
LEMMA RecordOK == ASSUME CustomInv, Custom!RecordNotification PROVE CustomInv'
<1>1. PICK ok \in BOOLEAN : req' = [req EXCEPT !.at = "done", !.logged = ok]
  BY DEF Custom!RecordNotification
<1>2. /\ req' \in ReqType /\ req'.at = "done" /\ req'.target = req.target
      /\ req'.unknown = req.unknown /\ req'.cancelled = req.cancelled
      /\ req'.queued = req.queued /\ req'.sending = req.sending
  BY <1>1 DEF CustomInv, CustomType, ReqType
<1>3. /\ req.at = "sending" /\ req.queued = {} /\ req.sending = {}
      /\ UNCHANGED <<book, rows, had, held, told>>
  BY DEF Custom!RecordNotification, Custom!world
<1>4. Recipients' = Recipients
  BY <1>2, <1>3 DEF Recipients
<1> QED  BY <1>2, <1>3, <1>4, SendingOK DEF CustomInv, CustomType, Witnessed

(* The page stops waiting; who is a recipient does not change by that.     *)
LEMMA GiveUpOK == ASSUME CustomInv, Custom!GiveUp PROVE CustomInv'
<1>1. /\ req' = [req EXCEPT !.cancelled = TRUE] /\ UNCHANGED <<book, rows, had, held, told>>
      /\ req \in ReqType
  BY DEF Custom!GiveUp, Custom!world, CustomInv, CustomType
<1>2. /\ req' \in ReqType /\ req'.at = req.at /\ req'.target = req.target
      /\ req'.unknown = req.unknown /\ req'.cancelled /\ req'.subIDs = req.subIDs
      /\ req'.queued = req.queued /\ req'.sending = req.sending
  BY <1>1 DEF ReqType
<1>3. Recipients' = Recipients
  BY <1>1, <1>2 DEF Recipients
<1> QED
  BY <1>1, <1>2, <1>3 DEF CustomInv, CustomType, Witnessed, RecipientsMeant, NobodyPassedOver,
     IDsMeant, UnknownNamed, Custom!MayMean, Custom!Means

(* Meanwhile what there has been only grows: more may be meant, and less   *)
(* is meant for sure.                                                      *)
LEMMA WorldOK ==
  ASSUME CustomInv, UNCHANGED <<req, told>>,
         book' \in [Emails -> IDs \cup {Absent}], rows' \in [Endpoints -> Custom!RowType],
         had' \in [Emails -> SUBSET (IDs \cup {Absent})],
         held' \in [Endpoints -> SUBSET Custom!RowType],
         \A m \in Emails : had[m] \subseteq had'[m] /\ book'[m] \in had'[m],
         \A e \in Endpoints : held[e] \subseteq held'[e] /\ rows'[e] \in held'[e]
  PROVE  CustomInv'
<1>1. /\ \A e \in Endpoints : \A r : held'[e] = {r} => held[e] = {r}
      /\ \A m \in Emails : \A id : had'[m] = {id} => had[m] = {id}
  BY DEF CustomInv, Witnessed
<1>2. Recipients' = Recipients /\ Recipients \subseteq Endpoints
      /\ req.target.emails \ {Empty} \subseteq Emails
  BY DEF Recipients, CustomInv, CustomType, ReqType, Custom!Target
<1>3. \A id : Custom!MayMean(id) => Custom!MayMean(id)'
  BY <1>2 DEF Custom!MayMean
<1>4. \A r : Custom!Means(r)' => Custom!Means(r)
  BY <1>1, <1>2 DEF Custom!Means
<1>5. RecipientsMeant' /\ NobodyPassedOver'
  BY <1>1, <1>2, <1>3, <1>4 DEF CustomInv, RecipientsMeant, NobodyPassedOver
<1>6. IDsMeant'
  BY <1>3, <1>4 DEF CustomInv, IDsMeant
<1>7. UnknownNamed'
  BY <1>1, <1>2 DEF CustomInv, UnknownNamed
<1>8. CustomType' /\ Witnessed'
  BY DEF CustomInv, CustomType, Witnessed
<1> QED  BY <1>2, <1>5, <1>6, <1>7, <1>8 DEF CustomInv

(* No step of the handler, of a client or of the panel breaks it.          *)
LEMMA CustomStep == CustomInv /\ [Custom!Next]_customVars => CustomInv'
<1> SUFFICES ASSUME CustomInv, [Custom!Next]_customVars PROVE CustomInv'
  OBVIOUS
<1>1. CASE Custom!NotOneTarget \/ Custom!PanelUnavailable \/ Custom!ListFailed
  BY <1>1, RefusedOK DEF Custom!NotOneTarget, Custom!PanelUnavailable, Custom!ListFailed
<1>3. ASSUME NEW e \in Endpoints, Custom!Subscription(e) PROVE CustomInv'
  <2>1. /\ rows' \in [Endpoints -> Custom!RowType] /\ held' \in [Endpoints -> SUBSET Custom!RowType]
        /\ \A x \in Endpoints : held[x] \subseteq held'[x] /\ rows'[x] \in held'[x]
    BY <1>3 DEF Custom!Subscription, CustomInv, CustomType, Witnessed
  <2> QED  BY <1>3, <2>1, WorldOK DEF Custom!Subscription, CustomInv, CustomType, Witnessed
<1>4. ASSUME NEW m \in Emails, Custom!PanelEdit(m) PROVE CustomInv'
  <2>1. /\ book' \in [Emails -> IDs \cup {Absent}]
        /\ had' \in [Emails -> SUBSET (IDs \cup {Absent})]
        /\ \A x \in Emails : had[x] \subseteq had'[x] /\ book'[x] \in had'[x]
    BY <1>4 DEF Custom!PanelEdit, CustomInv, CustomType, Witnessed, IDs
  <2> QED  BY <1>4, <2>1, WorldOK DEF Custom!PanelEdit, CustomInv, CustomType, Witnessed
<1>5. CASE UNCHANGED customVars
  BY <1>5, WorldOK DEF customVars, CustomInv, CustomType, Witnessed
<1> QED
  BY <1>1, <1>3, <1>4, <1>5, AskOK, ByIdOK, ByEmailOK, ListOK, SendOK, RecordOK, GiveUpOK DEF Custom!Next

(* So it holds throughout.                                                 *)
LEMMA CustomInvAlways == ReadersSpec => []CustomInv
BY CustomInit, CustomStep, Parts, PTL DEF ReadersSpec

(* Whoever subscribes, leaves or is edited meanwhile, the message reaches  *)
(* only devices that were once a client's the admin asked for, and if the  *)
(* page waits, all that were one all along (ExactlyTheAsked of the runs).  *)
THEOREM ExactlyTheAskedAlways == ReadersSpec => []ExactlyTheAsked
<1>1. CustomInv => ExactlyTheAsked
  BY DEF CustomInv, Recipients, RecipientsMeant, NobodyPassedOver, UnknownNamed,
         ExactlyTheAsked, Custom!ExactlyTheAsked
<1> QED  BY <1>1, CustomInvAlways, PTL
=============================================================================
