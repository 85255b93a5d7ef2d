-------------------------- MODULE HandlersProofs --------------------------
(***************************************************************************)
(* What the request handlers of internal/httpapi keep, for every number of *)
(* callers, tabs, endpoints, bases and keys, every interval, patience and  *)
(* rate the assumptions allow.  Liveness stays with the run.               *)
(***************************************************************************)
EXTENDS Handlers, FiniteSetTheorems, TLAPS

-----------------------------------------------------------------------------
(* The composition.                                                        *)

(* Every step is a step of one handler and leaves the others alone.        *)
LEMMA Parts ==
  /\ HandlersInit => Init /\ Link!Init /\ Switching!Init /\ Limiter!Init
  /\ [HandlersNext]_allVars => /\ [Next]_vars
                               /\ [Link!Next]_linkVars
                               /\ [Switching!Next]_switchVars
                               /\ [Limiter!Next]_limiterVars
BY DEF HandlersInit, HandlersNext, allVars, Healthz, SubscriptionURL, PushSubscribe, AllowRequest

(* Side by side each handler does what its own module says, so what is     *)
(* proved of a module holds of the composition.                            *)
THEOREM EachByItself ==
  HandlersSpec => Spec /\ Link!Spec /\ Switching!Spec /\ Limiter!Spec
BY Parts, PTL DEF HandlersSpec, Spec, Link!Spec, Switching!Spec, Limiter!Spec,
                  Link!vars, Switching!vars, Limiter!vars, linkVars, switchVars, limiterVars

-----------------------------------------------------------------------------
(* GET /healthz (HealthProbe).                                             *)

ProbeType == [at : {"idle", "asking", "answered"}, try : 0 .. 2, age : 0 .. Patience,
              ok : BOOLEAN]

(* Whoever probes has raised the flag, alone. *)
OneProbe ==
    \A c \in Callers :
        /\ probe[c].at = "idle" => probe[c] = Idle
        /\ probe[c].at # "idle" =>
              healthProbe /\ \A d \in Callers \ {c} : probe[d] = Idle

(* Between probes nothing is heard of the panel. *)
Quiet == ~healthProbe => \A ok \in BOOLEAN : evidence[ok] >= healthAge

(* An answer is stored before time passes. *)
JustAnswered == \A c \in Callers : probe[c].at = "answered" => evidence[probe[c].ok] = 0

ProbeInv == TypeOK /\ OneProbe /\ Quiet /\ JustAnswered /\ VerdictFounded

(* A capped age.                                                           *)
LEMMA UpToNat ==
  ASSUME NEW n \in Nat, NEW limit \in Nat
  PROVE  UpTo(n, limit) \in 0 .. limit /\ (n <= limit => UpTo(n, limit) = n)
BY DEF UpTo

(* Whoever does not probe.                                                 *)
LEMMA IdleIs == Idle.at = "idle" /\ Idle \in ProbeType
BY ProbeAssumption DEF Idle, ProbeType

(* Changing one probe keeps the type and the other probes. *)
LEMMA OneChanged ==
  ASSUME ProbeInv, NEW c \in Callers, NEW r \in ProbeType, probe' = [probe EXCEPT ![c] = r]
  PROVE  /\ probe' \in [Callers -> ProbeType]
         /\ probe'[c] = r
         /\ \A d \in Callers \ {c} : probe'[d] = probe[d]
BY DEF ProbeInv, TypeOK, ProbeType

(* Nobody probes and nothing is known.                                     *)
LEMMA ProbeInitOK == Init => ProbeInv
<1> SUFFICES ASSUME Init PROVE ProbeInv
  OBVIOUS
<1> USE ProbeAssumption
<1>1. Horizon \in Nat /\ Horizon >= Interval
  BY DEF Horizon
<1>2. \A c \in Callers : probe[c] = Idle
  BY DEF Init
<1>3. TypeOK
  <2>1. probe \in [Callers -> ProbeType]
    BY IdleIs DEF Init
  <2>2. evidence \in [BOOLEAN -> 0 .. Horizon] /\ healthAge \in 0 .. Interval
    BY <1>1 DEF Init
  <2> QED  BY <2>1, <2>2 DEF Init, TypeOK, ProbeType
<1> QED
  BY <1>1, <1>2, <1>3, IdleIs DEF Init, ProbeInv, OneProbe, Quiet, JustAnswered, VerdictFounded

(* The panel answers, or is given up on. *)
LEMMA AnsweredOK ==
  ASSUME ProbeInv, NEW c \in Callers, NEW ok \in BOOLEAN, Answered(c, ok)
  PROVE  ProbeInv'
<1> USE ProbeAssumption
<1> DEFINE r == [probe[c] EXCEPT !.at = "answered", !.ok = ok]
<1>1. /\ probe[c].at = "asking" /\ healthProbe
      /\ probe' = [probe EXCEPT ![c] = r]
      /\ evidence' = [evidence EXCEPT ![ok] = 0]
      /\ UNCHANGED <<up, healthOK, healthAge, healthProbe, told>>
      /\ Horizon \in Nat
  <2>1. Answered(c, ok) /\ probe \in [Callers -> ProbeType]
    BY DEF ProbeInv, TypeOK, ProbeType
  <2>2. probe' = [probe EXCEPT ![c] = r]
    BY <2>1 DEF Answered
  <2>3. Horizon \in Nat
    BY DEF Horizon
  <2> QED  BY <2>1, <2>2, <2>3 DEF Answered, ProbeInv, OneProbe
<1>0. r \in ProbeType /\ r.at = "answered" /\ r.ok = ok
  BY DEF ProbeInv, TypeOK, ProbeType
<1> HIDE DEF r
<1>2. /\ probe'[c].at = "answered" /\ probe'[c].ok = ok
      /\ \A d \in Callers \ {c} : probe'[d] = Idle /\ probe'[d].at = "idle"
  <2>1. \A d \in Callers \ {c} : probe[d] = Idle
    BY <1>1 DEF ProbeInv, OneProbe
  <2> QED  BY <1>0, <1>1, <2>1, OneChanged, IdleIs
<1>3. TypeOK'
  <2>1. evidence' \in [BOOLEAN -> 0 .. Horizon]
    BY <1>1 DEF ProbeInv, TypeOK
  <2>2. probe' \in [Callers -> ProbeType]
    BY <1>0, <1>1, OneChanged
  <2> QED  BY <1>1, <2>1, <2>2 DEF ProbeInv, TypeOK, ProbeType
<1>4. evidence'[ok] = 0 /\ \A v \in BOOLEAN : v # ok => evidence'[v] = evidence[v]
  BY <1>1 DEF ProbeInv, TypeOK
<1>5. VerdictFounded'
  BY <1>1, <1>4 DEF ProbeInv, TypeOK, VerdictFounded
<1> QED
  BY <1>1, <1>2, <1>3, <1>4, <1>5 DEF ProbeInv, OneProbe, Quiet, JustAnswered

(* The verdict is stored with the answer it rests on.                      *)
LEMMA FinishOK ==
  ASSUME ProbeInv, NEW c \in Callers, Finish(c)
  PROVE  ProbeInv'
<1> USE ProbeAssumption
<1>1. /\ probe[c].at = "answered"
      /\ probe' = [probe EXCEPT ![c] = Idle]
      /\ healthOK' = probe[c].ok /\ healthAge' = 0 /\ healthProbe' = FALSE
      /\ told' = probe[c].ok
      /\ UNCHANGED <<up, evidence>>
      /\ evidence[probe[c].ok] = 0 /\ probe[c].ok \in BOOLEAN
  BY DEF Finish, ProbeInv, JustAnswered, TypeOK
<1>2. \A d \in Callers : probe'[d] = Idle /\ probe'[d].at = "idle"
  <2>1. \A d \in Callers \ {c} : probe[d] = Idle
    BY <1>1 DEF ProbeInv, OneProbe
  <2> QED  BY <1>1, <2>1, OneChanged, IdleIs
<1>4. TypeOK'
  <2>1. probe' \in [Callers -> ProbeType]
    BY <1>1, OneChanged, IdleIs
  <2>2. healthAge' \in 0 .. Interval
    BY <1>1
  <2> QED  BY <1>1, <2>1, <2>2 DEF ProbeInv, TypeOK, ProbeType
<1> QED
  BY <1>1, <1>2, <1>4 DEF ProbeInv, TypeOK, OneProbe, Quiet, JustAnswered, VerdictFounded

(* Verdict, evidence and calls grow older together.                        *)
LEMMA ProbeTickOK ==
  ASSUME ProbeInv, Tick
  PROVE  ProbeInv'
<1> USE ProbeAssumption
<1>1. /\ healthAge' = UpTo(healthAge + 1, Interval)
      /\ probe' = [c \in Callers |-> IF probe[c] = Idle THEN Idle
                                     ELSE [probe[c] EXCEPT !.age = @ + 1]]
      /\ evidence' = [ok \in BOOLEAN |-> UpTo(evidence[ok] + 1, Horizon)]
      /\ UNCHANGED <<up, healthOK, healthProbe, told>>
      /\ Horizon \in Nat /\ Horizon >= Interval
  BY DEF Tick, Horizon
<1>2. \A c \in Callers :
        /\ probe[c] = Idle => probe'[c] = Idle
        /\ probe[c] # Idle => probe[c].at = "asking" /\ probe'[c].at = "asking"
  BY <1>1 DEF Tick, ProbeInv, TypeOK
<1>3. ASSUME NEW c \in Callers
      PROVE  probe'[c] \in ProbeType
  <2>1. CASE probe[c] = Idle
    BY <1>1, <2>1 DEF Idle, ProbeType
  <2>2. CASE probe[c] # Idle
    <3>1. probe[c] \in ProbeType /\ probe[c].age + 1 \in 0 .. Patience
      BY <2>2 DEF Tick, ProbeInv, TypeOK, ProbeType
    <3>2. probe'[c] = [probe[c] EXCEPT !.age = @ + 1]
      BY <1>1, <2>2
    <3> QED  BY <3>1, <3>2 DEF ProbeType
  <2> QED  BY <2>1, <2>2
<1>4. /\ healthAge \in Nat /\ healthAge <= Interval
      /\ \A ok \in BOOLEAN : evidence[ok] \in Nat /\ evidence[ok] <= Horizon
  BY DEF ProbeInv, TypeOK, Horizon
<1>5. TypeOK'
  <2>1. healthAge' \in 0 .. Interval
    <3>1. healthAge + 1 \in Nat
      BY <1>4
    <3> QED  BY <1>1, <3>1, UpToNat
  <2>2. evidence' \in [BOOLEAN -> 0 .. Horizon]
    <3>1. ASSUME NEW ok \in BOOLEAN PROVE UpTo(evidence[ok] + 1, Horizon) \in 0 .. Horizon
      <4>1. evidence[ok] + 1 \in Nat
        BY <1>4
      <4> QED  BY <1>1, <4>1, UpToNat
    <3> QED  BY <1>1, <3>1
  <2>3. probe' \in [Callers -> ProbeType]
    BY <1>1, <1>3
  <2> QED  BY <1>1, <2>1, <2>2, <2>3 DEF ProbeInv, TypeOK, ProbeType
<1>6. OneProbe'
  <2>1. \A c \in Callers : Idle.at = "idle" /\ (probe[c] # Idle => probe[c].at # "idle")
    BY DEF ProbeInv, OneProbe, Idle
  <2> QED  BY <1>1, <1>2, <2>1 DEF ProbeInv, OneProbe
<1>7. Quiet'
  <2> SUFFICES ASSUME ~healthProbe, NEW ok \in BOOLEAN PROVE evidence'[ok] >= healthAge'
    BY <1>1 DEF Quiet
  <2>1. evidence[ok] >= healthAge
    BY DEF ProbeInv, Quiet
  <2> QED  BY <1>1, <1>4, <2>1 DEF UpTo
<1>8. JustAnswered'
  BY <1>2 DEF JustAnswered, Idle
<1>9. VerdictFounded'
  <2> SUFFICES ASSUME healthAge' < Interval PROVE evidence'[healthOK] <= healthAge'
    BY <1>1 DEF VerdictFounded
  <2>1. healthAge' = healthAge + 1 /\ healthAge < Interval /\ healthOK \in BOOLEAN
    BY <1>1, <1>4 DEF UpTo, ProbeInv, TypeOK
  <2>2. evidence[healthOK] <= healthAge
    BY <2>1 DEF ProbeInv, VerdictFounded
  <2> QED  BY <1>1, <1>4, <2>1, <2>2 DEF UpTo
<1> QED
  BY <1>5, <1>6, <1>7, <1>8, <1>9 DEF ProbeInv

(* No step of a caller, of the panel or of time breaks it.                 *)
LEMMA ProbeNextOK == ProbeInv /\ [Next]_vars => ProbeInv'
<1> SUFFICES ASSUME ProbeInv, [Next]_vars PROVE ProbeInv'
  OBVIOUS
<1> USE ProbeAssumption
<1>1. ASSUME NEW c \in Callers, LastVerdict(c) PROVE ProbeInv'
  BY <1>1 DEF LastVerdict, ProbeInv, TypeOK, OneProbe, Quiet, JustAnswered, VerdictFounded, Horizon
<1>2. ASSUME NEW c \in Callers, StartProbe(c) PROVE ProbeInv'
  <2>1. /\ probe' = [probe EXCEPT ![c] = [at |-> "asking", try |-> 1, age |-> 0, ok |-> FALSE]]
        /\ healthProbe' = TRUE /\ ~healthProbe
        /\ UNCHANGED <<up, healthOK, healthAge, told, evidence>>
    BY <1>2 DEF StartProbe, Hit
  <2>2. \A d \in Callers : probe[d] = Idle
    BY <2>1 DEF ProbeInv, OneProbe
  <2>3. probe'[c].at = "asking" /\ \A d \in Callers \ {c} : probe'[d] = Idle /\ probe'[d].at = "idle"
    BY <2>1, <2>2 DEF ProbeInv, TypeOK, Idle
  <2>4. TypeOK'
    <3>1. [at |-> "asking", try |-> 1, age |-> 0, ok |-> FALSE] \in ProbeType
      BY DEF ProbeType
    <3> QED  BY <2>1, <3>1 DEF ProbeInv, TypeOK, ProbeType, Horizon
  <2> QED  BY <2>1, <2>3, <2>4 DEF ProbeInv, OneProbe, Quiet, JustAnswered, VerdictFounded
<1>3. ASSUME NEW c \in Callers, Alive(c) \/ Dead(c) PROVE ProbeInv'
  BY <1>3, AnsweredOK DEF Alive, Dead
<1>4. ASSUME NEW c \in Callers, Retry(c) PROVE ProbeInv'
  <2>1. /\ probe[c].at = "asking" /\ probe' = [probe EXCEPT ![c].try = 2]
        /\ UNCHANGED <<up, healthOK, healthAge, healthProbe, told, evidence>>
    BY <1>4 DEF Retry
  <2>2. probe'[c].at = "asking" /\ \A d \in Callers \ {c} : probe'[d] = probe[d]
    BY <2>1 DEF ProbeInv, TypeOK
  <2>3. TypeOK'
    <3> DEFINE r == [probe[c] EXCEPT !.try = 2]
    <3>1. r \in ProbeType /\ probe' = [probe EXCEPT ![c] = r]
      BY <2>1 DEF ProbeInv, TypeOK, ProbeType
    <3> HIDE DEF r
    <3>2. probe' \in [Callers -> ProbeType]
      BY <3>1, OneChanged
    <3> QED  BY <2>1, <3>2 DEF ProbeInv, TypeOK, ProbeType
  <2>4. OneProbe' /\ JustAnswered'
    <3>1. healthProbe /\ \A d \in Callers \ {c} : probe[d] = Idle
      BY <2>1 DEF ProbeInv, OneProbe
    <3>2. \A d \in Callers \ {c} : probe'[d] = Idle /\ probe'[d].at = "idle"
      BY <2>2, <3>1, IdleIs
    <3> QED  BY <2>1, <2>2, <3>1, <3>2 DEF OneProbe, JustAnswered
  <2>5. Quiet' /\ VerdictFounded'
    BY <2>1 DEF ProbeInv, Quiet, VerdictFounded
  <2> QED  BY <2>3, <2>4, <2>5 DEF ProbeInv
<1>5. ASSUME NEW c \in Callers, Finish(c) PROVE ProbeInv'
  BY <1>5, FinishOK
<1>6. CASE Switch
  BY <1>6 DEF Switch, ProbeInv, TypeOK, OneProbe, Quiet, JustAnswered, VerdictFounded, Horizon
<1>7. CASE Tick
  BY <1>7, ProbeTickOK
<1>8. CASE UNCHANGED vars
  BY <1>8 DEF vars, ProbeInv, TypeOK, OneProbe, Quiet, JustAnswered, VerdictFounded, Horizon
<1> QED
  BY <1>1, <1>2, <1>3, <1>4, <1>5, <1>6, <1>7, <1>8 DEF Next, Ask, Probing

(* The flag, the verdict's age and what the panel has been heard to say agree. *)
THEOREM ProbeInductive == Spec => []ProbeInv
<1> QED  BY ProbeInitOK, ProbeNextOK, PTL DEF Spec

(* Every variable of the health probe keeps its type. *)
THEOREM ProbeTyping == Spec => []TypeOK
<1>1. ProbeInv => TypeOK
  BY DEF ProbeInv
<1> QED  BY <1>1, ProbeInductive, PTL

(* However many callers ask, a verdict is never older than it passes for. *)
THEOREM VerdictFoundedAlways == Spec => []VerdictFounded
<1>1. ProbeInv => VerdictFounded
  BY DEF ProbeInv
<1> QED  BY <1>1, ProbeInductive, PTL

(* Whatever the interval, probes never overlap and are never closer. *)
THEOREM ProbesSpacedAlways == Spec => ProbesSpaced
<1>1. ASSUME ProbeInv, [Next]_vars, NEW c \in Callers,
             probe[c].at = "idle", probe'[c].at = "asking"
      PROVE  /\ \A d \in Callers : probe[d].at = "idle"
             /\ \A ok \in BOOLEAN : evidence[ok] >= Interval
  <2>1. \E d \in Callers : StartProbe(d)
    <3>1. ASSUME NEW d \in Callers, Alive(d) \/ Dead(d) \/ Retry(d) \/ Finish(d) PROVE FALSE
      BY <1>1, <3>1 DEF Alive, Dead, Answered, Retry, Finish, ProbeInv, TypeOK, Idle
    <3>2. ASSUME Tick PROVE FALSE
      BY <1>1, <3>2 DEF Tick, ProbeInv, TypeOK, OneProbe, Idle
    <3> QED
      BY <1>1, <3>1, <3>2 DEF Next, Ask, Probing, LastVerdict, Switch, vars
  <2>2. ~healthProbe /\ ~(healthAge < Interval)
    BY <2>1 DEF StartProbe, Hit
  <2>3. healthAge \in Nat /\ healthAge <= Interval /\ Interval \in Nat
    BY <1>1, ProbeAssumption DEF ProbeInv, TypeOK
  <2>4. \A ok \in BOOLEAN : evidence[ok] >= Interval
    BY <1>1, <2>2, <2>3 DEF ProbeInv, Quiet
  <2> QED  BY <1>1, <2>2, <2>4 DEF ProbeInv, OneProbe
<1>2. ProbeInv /\ [Next]_vars =>
        [\A c \in Callers :
            probe[c].at = "idle" /\ probe'[c].at = "asking" =>
                /\ \A d \in Callers : probe[d].at = "idle"
                /\ \A ok \in BOOLEAN : evidence[ok] >= Interval]_vars
  BY <1>1
<1> QED  BY <1>2, ProbeInductive, PTL DEF Spec, ProbesSpaced

-----------------------------------------------------------------------------
(* The link of GET /api/me (SubLink).                                      *)

CallerType == [at : {"ready", "waiting", "loading", "closing", "done"},
               load : Nat, answer : Nat]

LinkType ==
    /\ caller \in [Callers -> CallerType]
    /\ subBase \in Nat
    /\ subLoad \in Link!Channels \cup {None}

(* A channel is named by those who use it, and by nobody else. *)
InUse ==
    \A c \in Callers :
        caller[c].load \in Link!Channels <=> caller[c].at \in {"waiting", "loading", "closing"}

LinkInv == LinkType /\ InUse /\ OneLoad

(* SubLink counts as everybody does. *)
LEMMA LinkCounts ==
  /\ IsFiniteSet(Callers)
  /\ Link!Cardinality(Callers) = Cardinality(Callers) /\ Cardinality(Callers) \in Nat
<1>1. Link!IsFiniteSet(Callers)
  BY HandlersAssumption DEF Link!SubLinkAssumption
<1>2. IsFiniteSet(Callers)
  BY <1>1 DEF Link!IsFiniteSet, IsFiniteSet
<1>3. Link!Cardinality(Callers) = Cardinality(Callers)
  BY DEF Link!Cardinality, Cardinality
<1> QED  BY <1>2, <1>3, FS_CardinalityType

(* Channels are numbered from 1, and None is not a number. *)
LEMMA ChannelsAre == Link!Channels \subseteq Nat /\ None \notin Link!Channels /\ 0 \notin Link!Channels
BY HandlersAssumption, LinkCounts DEF Link!SubLinkAssumption, Link!Channels

(* There is always a channel nobody refers to. *)
LEMMA FreeChannel == \E x \in Link!Channels : \A d \in Callers : caller[d].load # x
<1> SUFFICES ASSUME \A x \in Link!Channels : \E d \in Callers : caller[d].load = x
             PROVE  FALSE
  OBVIOUS
<1> DEFINE f == [x \in Link!Channels |-> CHOOSE d \in Callers : caller[d].load = x]
<1>1. \A x \in Link!Channels : f[x] \in Callers /\ caller[f[x]].load = x
  OBVIOUS
<1>2. f \in [Link!Channels -> Callers]
  BY <1>1
<1> HIDE DEF f
<1>3. IsFiniteSet(Callers) /\ Cardinality(Callers) \in Nat
  BY LinkCounts
<1>4. IsFiniteSet(Link!Channels) /\ Cardinality(Link!Channels) = Cardinality(Callers) + 1
  BY LinkCounts, FS_Interval DEF Link!Channels
<1>5. \E x, y \in Link!Channels : x # y /\ f[x] = f[y]
  BY <1>2, <1>3, <1>4, FS_PigeonHole
<1> QED  BY <1>1, <1>5

(* Nobody has asked yet.                                                   *)
LEMMA LinkInit == Link!Init => LinkInv
BY ChannelsAre DEF Link!Init, Link!Ready, LinkInv, LinkType, CallerType, InUse, OneLoad, Link!OneLoad

(* A new leader takes a channel that nobody refers to.                     *)
LEMMA LeadOK ==
  ASSUME LinkInv, NEW c \in Callers, Link!Lead(c)
  PROVE  LinkInv'
<1> DEFINE n == CHOOSE x \in Link!Channels : \A d \in Callers : caller[d].load # x
<1>1. n \in Link!Channels /\ \A d \in Callers : caller[d].load # n
  BY FreeChannel
<1>2. /\ caller[c].at = "ready" /\ subLoad = None
      /\ subLoad' = n /\ closed' = closed \ {n} /\ UNCHANGED <<subBase, old>>
      /\ caller' = [caller EXCEPT ![c] = [at |-> "loading", load |-> n, answer |-> 0]]
  BY DEF Link!Lead
<1> HIDE DEF n
<1>3. /\ caller'[c] = [at |-> "loading", load |-> n, answer |-> 0]
      /\ \A d \in Callers \ {c} : caller'[d] = caller[d]
      /\ caller' \in [Callers -> CallerType]
  BY <1>1, <1>2, ChannelsAre DEF LinkInv, LinkType, CallerType
<1>4. \A d \in Callers : caller[d].at # "loading"
  BY <1>2, ChannelsAre DEF LinkInv, InUse, OneLoad, Link!OneLoad
<1> QED
  BY <1>1, <1>2, <1>3, <1>4 DEF LinkInv, LinkType, InUse, OneLoad, Link!OneLoad

(* A caller that is not loading and will not be moves on by itself. *)
LEMMA CallerOK ==
  ASSUME LinkInv, NEW c \in Callers, NEW r \in CallerType,
         caller' = [caller EXCEPT ![c] = r],
         caller[c].at \in {"ready", "done", "waiting"},
         UNCHANGED <<subBase, subLoad, closed>>,
         \/ r.at \in {"ready", "done"} /\ r.load = 0
         \/ r.at = "waiting" /\ r.load = subLoad /\ subLoad # None
  PROVE  LinkInv'
<1>1. /\ caller'[c] = r /\ caller' \in [Callers -> CallerType]
      /\ \A d \in Callers \ {c} : caller'[d] = caller[d]
  BY DEF LinkInv, LinkType
<1>2. r.load \in Link!Channels <=> r.at \in {"waiting", "loading", "closing"}
  BY ChannelsAre DEF LinkInv, LinkType
<1> QED
  BY <1>1, <1>2 DEF LinkInv, LinkType, InUse, OneLoad, Link!OneLoad

(* The leader takes the load down before anybody else can lead.            *)
LEMMA PublishOK ==
  ASSUME LinkInv, NEW c \in Callers, Link!Publish(c)
  PROVE  LinkInv'
<1>1. /\ caller[c].at = "loading" /\ subLoad' = None /\ UNCHANGED closed /\ subBase' \in Nat
      /\ caller' = [caller EXCEPT ![c].at = "closing", ![c].answer = subBase']
  BY HandlersAssumption DEF Link!SubLinkAssumption, Link!Publish, LinkInv, LinkType
<1>2. /\ caller' \in [Callers -> CallerType]
      /\ caller'[c].at = "closing" /\ caller'[c].load = caller[c].load
      /\ \A d \in Callers \ {c} : caller'[d] = caller[d]
  BY <1>1 DEF LinkInv, LinkType, CallerType
<1>3. \A d \in Callers : caller'[d].at # "loading"
  BY <1>1, <1>2 DEF LinkInv, OneLoad, Link!OneLoad
<1>4. \A d \in Callers : caller'[d].load = caller[d].load
  BY <1>2
<1>5. \A d \in Callers : caller[d].at \in {"loading", "closing"} <=> caller'[d].at \in {"loading", "closing"}
  BY <1>1, <1>2
<1>6. \A d \in Callers : caller[d].at = "waiting" <=> caller'[d].at = "waiting"
  BY <1>1, <1>2
<1> QED
  BY <1>1, <1>2, <1>3, <1>4, <1>5, <1>6 DEF LinkInv, LinkType, InUse, OneLoad, Link!OneLoad

(* Waiters are let go only after that, through the leader's own channel.   *)
LEMMA CloseOK ==
  ASSUME LinkInv, NEW c \in Callers, Link!Close(c)
  PROVE  LinkInv'
<1> DEFINE r == [at |-> "done", load |-> 0, answer |-> caller[c].answer]
<1>1. /\ caller[c].at = "closing" /\ UNCHANGED <<subBase, old, subLoad>>
      /\ closed' = closed \cup {caller[c].load}
      /\ caller' = [caller EXCEPT ![c] = r]
      /\ r \in CallerType /\ r.at = "done" /\ r.load = 0
  BY DEF Link!Close, Link!Answered, LinkInv, LinkType, CallerType
<1> HIDE DEF r
<1>2. /\ caller' \in [Callers -> CallerType] /\ caller'[c] = r
      /\ \A d \in Callers \ {c} : caller'[d] = caller[d]
  BY <1>1 DEF LinkInv, LinkType
<1> QED
  BY <1>1, <1>2, ChannelsAre DEF LinkInv, LinkType, InUse, OneLoad, Link!OneLoad

(* No step of a caller or of the cache's age breaks the invariant.         *)
LEMMA LinkStep == LinkInv /\ [Link!Next]_linkVars => LinkInv'
<1> SUFFICES ASSUME LinkInv, [Link!Next]_linkVars PROVE LinkInv'
  OBVIOUS
<1>0. subBase \in Nat /\ \A c \in Callers : caller[c] \in CallerType
  BY DEF LinkInv, LinkType
<1>1. ASSUME NEW c \in Callers,
             Link!Hit(c) \/ Link!ServeStale(c) \/ Link!Wake(c) \/ Link!GiveUp(c)
      PROVE  LinkInv'
  <2>1. PICK b \in Nat : Link!Answered(c, b)
    BY <1>0, <1>1 DEF Link!Hit, Link!ServeStale, Link!Wake, Link!GiveUp
  <2>2. [at |-> "done", load |-> 0, answer |-> b] \in CallerType
    BY DEF CallerType
  <2>3. UNCHANGED <<subBase, subLoad, closed>> /\ caller[c].at \in {"ready", "waiting"}
    BY <1>1 DEF Link!Hit, Link!ServeStale, Link!Wake, Link!GiveUp
  <2> QED  BY <2>1, <2>2, <2>3, CallerOK DEF Link!Answered
<1>2. ASSUME NEW c \in Callers, Link!Again(c)
      PROVE  LinkInv'
  <2>1. Link!Ready \in CallerType /\ Link!Ready.at = "ready" /\ Link!Ready.load = 0
    BY DEF CallerType, Link!Ready
  <2> QED  BY <1>2, <2>1, CallerOK DEF Link!Again
<1>3. ASSUME NEW c \in Callers, Link!Wait(c)
      PROVE  LinkInv'
  <2>1. [at |-> "waiting", load |-> subLoad, answer |-> 0] \in CallerType
    BY <1>3, ChannelsAre DEF CallerType, Link!Wait, LinkInv, LinkType
  <2> QED  BY <1>3, <2>1, CallerOK DEF Link!Wait
<1>4. CASE Link!Age \/ UNCHANGED linkVars
  BY <1>4 DEF Link!Age, linkVars, LinkInv, LinkType, InUse, OneLoad, Link!OneLoad
<1> QED
  BY <1>1, <1>2, <1>3, <1>4, LeadOK, PublishOK, CloseOK DEF Link!Next, Link!Progress

(* However many ask for a link at once, fail, give up and come again: the  *)
(* panel's settings are read by one of them at a time, and whoever waits   *)
(* waits for that one or has been answered already (OneLoad of the runs).  *)
THEOREM OneLoadAlways == HandlersSpec => []OneLoad
<1>1. LinkInv => OneLoad
  BY DEF LinkInv
<1> QED  BY <1>1, LinkInit, LinkStep, Parts, PTL DEF HandlersSpec

(* A failing panel leaves the base that was known (BaseSurvives of the     *)
(* runs): no step of a leader, of a waiter or of time forgets it.          *)
THEOREM BaseSurvivesAlways == HandlersSpec => BaseSurvives
<1>1. [HandlersNext]_allVars => [subBase # 0 => subBase' # 0]_linkVars
  <2> SUFFICES ASSUME HandlersNext, subBase # 0, subBase' = 0
               PROVE  UNCHANGED linkVars
    BY DEF allVars, linkVars
  <2>1. 0 \notin Bases
    BY HandlersAssumption DEF Link!SubLinkAssumption
  <2>2. CASE Link!Next
    BY <2>1, <2>2 DEF Link!Next, Link!Progress, Link!Hit, Link!ServeStale, Link!Wait, Link!Lead,
         Link!Publish, Link!Close, Link!Wake, Link!GiveUp, Link!Again, Link!Age
  <2> QED  BY <2>2 DEF HandlersNext, Healthz, PushSubscribe, AllowRequest
<1> QED  BY <1>1, PTL DEF HandlersSpec, BaseSurvives, Link!BaseSurvives, linkVars, Link!vars

-----------------------------------------------------------------------------
(* The page's switch (PushSwitch).                                         *)

(* The only operations on whose account a subscription may be without a    *)
(* row: one about to register it, and one that is taking it back.          *)
InTheMiddle(t) == tab[t].at \in {"posting", "ending"}

TabType ==
    [at : {"loading", "resting", "enabling", "posting", "posted", "deleting", "ending"},
     shown : {"loading", "denied", "off", "on"}, ep : Endpoints \cup {None}]

SwitchInv ==
    /\ tab \in [Tabs -> TabType]
    /\ sub # None /\ sub \notin rows =>
          \/ sub \in trouble
          \/ \E t \in Tabs : tab[t].ep = sub /\ InTheMiddle(t)
    /\ sub \in Endpoints \cup {None}

(* Another step of t than the two that clear up leaves what was explained. *)
LEMMA SwitchMoves ==
  ASSUME SwitchInv, NEW t \in Tabs, NEW r, tab' = [tab EXCEPT ![t] = r],
         r \in TabType,
         UNCHANGED <<sub, rows>>, trouble \subseteq trouble',
         InTheMiddle(t) /\ tab[t].ep = sub => (r.at \in {"posting", "ending"} /\ r.ep = sub) \/ sub \in trouble' \cup rows'
  PROVE  SwitchInv'
<1>1. tab'[t] = r /\ \A u \in Tabs \ {t} : tab'[u] = tab[u]
  BY DEF SwitchInv
<1> QED  BY <1>1 DEF SwitchInv, InTheMiddle

(* No press, request, fault or reload breaks the invariant.                *)
LEMMA SwitchStep == SwitchInv /\ [Switching!Next]_switchVars => SwitchInv'
<1> SUFFICES ASSUME SwitchInv, [Switching!Next]_switchVars PROVE SwitchInv'
  OBVIOUS
<1> USE DEF Switching!Goto, Switching!Shows, Switching!Resting, Switching!OnIts
<1>0. \A t \in Tabs : tab[t] \in TabType
  BY DEF SwitchInv
<1>1. ASSUME NEW t \in Tabs,
             \/ Switching!PushState(t) \/ Switching!Enable(t) \/ Switching!NotSubscribed(t)
             \/ Switching!Enabled(t) \/ Switching!Disable(t)
             \/ Switching!Denied(t) \/ Switching!Refused(t)
      PROVE  SwitchInv'
  <2>1. PICK r \in TabType :
          tab' = [tab EXCEPT ![t] = r]
    <3>1. tab' = [tab EXCEPT ![t] = tab'[t]]
      BY <1>1 DEF Switching!PushState, Switching!Enable, Switching!NotSubscribed,
                  Switching!Enabled, Switching!Disable, Switching!Denied, Switching!Refused, SwitchInv
    <3>2. tab'[t] \in TabType
      BY <1>0, <1>1 DEF Switching!PushState, Switching!Enable, Switching!NotSubscribed,
                        Switching!Enabled, Switching!Disable, Switching!Denied, Switching!Refused, SwitchInv, TabType
    <3> QED  BY <3>1, <3>2
  <2>2. ~InTheMiddle(t) /\ UNCHANGED <<sub, rows, trouble>>
    BY <1>1 DEF Switching!PushState, Switching!Enable, Switching!NotSubscribed,
                Switching!Enabled, Switching!Disable, Switching!Denied, Switching!Refused, InTheMiddle
  <2> QED  BY <2>1, <2>2, SwitchMoves
<1>2. ASSUME NEW t \in Tabs, Switching!Subscribe(t)
      PROVE  SwitchInv'
  <2>1. /\ tab[t].at = "enabling" /\ UNCHANGED rows
        /\ sub' \in Endpoints
        /\ tab' = [tab EXCEPT ![t].at = "posting", ![t].ep = sub']
        /\ sub' = sub => UNCHANGED trouble
    BY <1>2 DEF Switching!Subscribe, Switching!Unused, SwitchInv
  <2>2. /\ tab'[t].at = "posting" /\ tab'[t].ep = sub'
        /\ tab' \in [Tabs -> TabType]
    BY <1>0, <2>1 DEF SwitchInv, TabType
  <2> QED  BY <2>1, <2>2 DEF SwitchInv, InTheMiddle
<1>3. ASSUME NEW t \in Tabs, Switching!Upsert(t)
      PROVE  SwitchInv'
  <2>1. /\ tab[t].at = "posting" /\ UNCHANGED sub /\ rows' = rows \cup {tab[t].ep}
        /\ trouble' = trouble \ {tab[t].ep}
        /\ tab' = [tab EXCEPT ![t].at = "posted", ![t].ep = tab[t].ep]
    BY <1>3 DEF Switching!Upsert
  <2>2. /\ \A u \in Tabs \ {t} : tab'[u] = tab[u]
        /\ tab' \in [Tabs -> TabType]
    BY <1>0, <2>1 DEF SwitchInv, TabType
  <2> QED  BY <2>1, <2>2 DEF SwitchInv, InTheMiddle
<1>4. ASSUME NEW t \in Tabs, Switching!Delete(t)
      PROVE  SwitchInv'
  <2>1. /\ tab[t].at = "deleting" /\ UNCHANGED <<sub, trouble>> /\ rows' = rows \ {tab[t].ep}
        /\ tab' = [tab EXCEPT ![t].at = "ending", ![t].ep = tab[t].ep]
    BY <1>4 DEF Switching!Delete
  <2>2. /\ \A u \in Tabs \ {t} : tab'[u] = tab[u]
        /\ tab'[t].at = "ending" /\ tab'[t].ep = tab[t].ep
        /\ tab' \in [Tabs -> TabType]
    BY <1>0, <2>1 DEF SwitchInv, TabType
  <2> QED  BY <2>1, <2>2 DEF SwitchInv, InTheMiddle
<1>5. ASSUME NEW t \in Tabs, Switching!Disabled(t)
      PROVE  SwitchInv'
  <2>1. /\ UNCHANGED <<rows, trouble>> /\ sub' = IF sub = tab[t].ep THEN None ELSE sub
        /\ \A u \in Tabs \ {t} : tab'[u] = tab[u]
        /\ tab' \in [Tabs -> TabType]
    BY <1>0, <1>5 DEF SwitchInv, Switching!Disabled, TabType
  <2> QED  BY <2>1 DEF SwitchInv, InTheMiddle
<1>6. ASSUME NEW t \in Tabs, Switching!Error(t) \/ Switching!Reload(t)
      PROVE  SwitchInv'
  <2>1. PICK r \in TabType :
          tab' = [tab EXCEPT ![t] = r]
    <3>1. tab' = [tab EXCEPT ![t] = tab'[t]]
      BY <1>6 DEF Switching!Error, Switching!Reload, SwitchInv
    <3>2. tab'[t] \in TabType
      BY <1>0, <1>6 DEF Switching!Error, Switching!Reload, SwitchInv, TabType
    <3> QED  BY <3>1, <3>2
  <2>2. /\ UNCHANGED <<sub, rows>>
        /\ trouble' = trouble \cup ({tab[t].ep} \ (rows \cup {None}))
    BY <1>6 DEF Switching!Error, Switching!Reload, Switching!Abandoned
  <2>3. CASE sub = None
    BY <2>1, <2>2, <2>3 DEF SwitchInv
  <2>4. CASE sub # None
    BY <2>1, <2>2, <2>4, SwitchMoves
  <2> QED  BY <2>3, <2>4
<1>7. CASE \/ Switching!LateRequest \/ Switching!Gone \/ Switching!Silent
           \/ Switching!BrowserDrops \/ Switching!Allow
           \/ UNCHANGED switchVars
  BY <1>7 DEF Switching!LateRequest, Switching!Gone, Switching!Silent, Switching!BrowserDrops,
              Switching!Allow,
              switchVars, SwitchInv, InTheMiddle
<1> QED
  BY <1>1, <1>2, <1>3, <1>4, <1>5, <1>6, <1>7
  DEF Switching!Next, Switching!Press, Switching!Proceed, Switching!Reopen, Switching!Fault

(* A browser that is subscribed without the server knowing is in the       *)
(* middle of an operation, or somebody was shown an error, came late or    *)
(* was cleaned up (UnregisteredExplained of the runs): for any number of   *)
(* tabs, endpoints and requests on their way, and every fault.             *)
THEOREM UnregisteredExplainedAlways == HandlersSpec => []UnregisteredExplained
<1>1. Switching!Init => SwitchInv
  BY DEF Switching!Init, SwitchInv, TabType
<1>2. SwitchInv => UnregisteredExplained
  BY DEF SwitchInv, UnregisteredExplained, Switching!UnregisteredExplained
<1> QED  BY <1>1, <1>2, SwitchStep, Parts, PTL DEF HandlersSpec

-----------------------------------------------------------------------------
(* The limiter (RateLimit).                                                *)

(* What the limiters are built with.                                       *)
LEMMA LimiterBounds ==
  /\ Rate \in Nat \ {0} /\ Burst \in Nat /\ Cost \in Nat \ {0}
  /\ SweepEvery \in Nat \ {0}
  /\ SweepAge \in Nat /\ Rate * SweepAge >= Burst
  /\ MaxWindow \in Nat
  /\ NoBucket \notin [tokens : Nat, age : Nat]
BY HandlersAssumption DEF Limiter!RateAssumption

Bucket == [tokens : Nat, age : Nat]

(* What is, and what is not, a bucket.                                     *)
LEMMA BucketFields ==
  ASSUME NEW b \in Limiter!BucketType
  PROVE  \/ b = NoBucket
         \/ /\ b # NoBucket /\ b \in Bucket
            /\ b.tokens \in Nat /\ b.tokens <= Burst
            /\ b.age \in Nat /\ b.age <= SweepAge + 1
<1>1. CASE b = NoBucket
  BY <1>1
<1>2. CASE b \in [tokens : 0 .. Burst, age : 0 .. SweepAge + 1]
  <2>1. b \in Bucket
    BY <1>2, LimiterBounds DEF Bucket
  <2> QED  BY <1>2, <2>1, LimiterBounds DEF Bucket
<1> QED
  BY <1>1, <1>2 DEF Limiter!BucketType

(* Age times rate is a number that grows by the rate each tick and reaches *)
(* the burst by the time a bucket may be swept.                            *)
LEMMA Earned ==
  ASSUME NEW a \in Nat
  PROVE  /\ a * Rate \in Nat
         /\ (a + 1) * Rate = a * Rate + Rate
         /\ a >= SweepAge => a * Rate >= Burst
<1>1. Rate \in Nat /\ SweepAge \in Nat /\ Burst \in Nat /\ SweepAge * Rate >= Burst
  BY LimiterBounds
<1>2. a * Rate \in Nat /\ (a + 1) * Rate = a * Rate + Rate
  BY <1>1
<1>3. ASSUME a >= SweepAge PROVE a * Rate >= SweepAge * Rate
  <2>1. PICK d \in Nat : a = SweepAge + d
    BY <1>1, <1>3
  <2>2. (SweepAge + d) * Rate = SweepAge * Rate + d * Rate /\ d * Rate \in Nat
    BY <1>1
  <2> QED  BY <1>1, <2>1, <2>2
<1> QED
  BY <1>1, <1>2, <1>3

(* A refill never overfills a bucket.                                      *)
LEMMA RefilledType ==
  ASSUME NEW b \in Limiter!BucketType
  PROVE  Limiter!Refilled(b) \in Nat /\ Limiter!Refilled(b) <= Burst
<1>1. Burst \in Nat
  BY LimiterBounds
<1>2. CASE b = NoBucket
  BY <1>1, <1>2 DEF Limiter!Refilled
<1>3. CASE b # NoBucket
  <2>1. b.tokens \in Nat /\ b.age * Rate \in Nat
    BY <1>3, BucketFields, Earned
  <2> QED  BY <1>1, <1>3, <2>1 DEF Limiter!Refilled, Limiter!Capped
<1> QED
  BY <1>2, <1>3

(* Only what a bucket would hold now matters to a request.                 *)
LEMMA UsedBucket ==
  ASSUME NEW b \in Limiter!BucketType
  PROVE  /\ Limiter!Used(b) \in Limiter!BucketType
         /\ Limiter!Used(b) # NoBucket
         /\ Limiter!Used(b).age = 0
         /\ Limiter!Refilled(Limiter!Used(b)) = IF Limiter!Refilled(b) < Cost THEN Limiter!Refilled(b) ELSE Limiter!Refilled(b) - Cost
<1>1. /\ Burst \in Nat /\ Cost \in Nat /\ SweepAge \in Nat
      /\ NoBucket \notin [tokens : Nat, age : Nat]
  BY LimiterBounds
<1> DEFINE t == IF Limiter!Refilled(b) < Cost THEN Limiter!Refilled(b) ELSE Limiter!Refilled(b) - Cost
<1>2. t \in 0 .. Burst
  BY <1>1, RefilledType
<1>3. Limiter!Used(b) = [tokens |-> t, age |-> 0]
  BY DEF Limiter!Used
<1> HIDE DEF t
<1>4. Limiter!Used(b) \in [tokens : 0 .. Burst, age : 0 .. SweepAge + 1]
  BY <1>1, <1>2, <1>3
<1>5. Limiter!Used(b) # NoBucket
  <2>1. Limiter!Used(b) \in [tokens : Nat, age : Nat]
    BY <1>2, <1>3
  <2> QED  BY <1>1, <2>1
<1>6. Limiter!Used(b).age = 0 /\ Limiter!Used(b).tokens = t
  BY <1>3
<1>7. 0 * Rate = 0
  BY LimiterBounds
<1>8. Limiter!Refilled(Limiter!Used(b)) = t
  BY <1>1, <1>2, <1>5, <1>6, <1>7 DEF Limiter!Refilled, Limiter!Capped
<1> QED
  BY <1>4, <1>5, <1>6, <1>8 DEF Limiter!BucketType, t

(* A tick earns the rate, up to a full bucket.                             *)
LEMMA OlderBucket ==
  ASSUME NEW b \in Limiter!BucketType
  PROVE  /\ Limiter!Older(b) \in Limiter!BucketType
         /\ Limiter!Refilled(Limiter!Older(b)) = Limiter!Capped(Limiter!Refilled(b) + Rate)
<1>1. /\ Burst \in Nat /\ Rate \in Nat /\ SweepAge \in Nat
      /\ NoBucket \notin [tokens : Nat, age : Nat]
  BY LimiterBounds
<1>2. CASE b = NoBucket
  BY <1>1, <1>2 DEF Limiter!Older, Limiter!Refilled, Limiter!Capped
<1>3. CASE b # NoBucket /\ b.age > SweepAge
  <2>1. Limiter!Older(b) = b
    BY <1>3 DEF Limiter!Older
  <2>2. b.tokens \in Nat /\ b.age \in Nat /\ b.age >= SweepAge
    BY <1>1, <1>3, BucketFields
  <2>3. b.age * Rate \in Nat /\ b.age * Rate >= Burst
    BY <2>2, Earned
  <2> QED  BY <1>1, <1>3, <2>1, <2>2, <2>3 DEF Limiter!Refilled, Limiter!Capped
<1>4. CASE b # NoBucket /\ ~(b.age > SweepAge)
  <2>1. b \in [tokens : 0 .. Burst, age : 0 .. SweepAge + 1]
    BY <1>4 DEF Limiter!BucketType
  <2>2. Limiter!Older(b) = [b EXCEPT !.age = b.age + 1]
    BY <1>4 DEF Limiter!Older
  <2>3. Limiter!Older(b) \in [tokens : 0 .. Burst, age : 0 .. SweepAge + 1]
    BY <1>1, <1>4, <2>1, <2>2
  <2>4. Limiter!Older(b) # NoBucket
    <3>1. Limiter!Older(b) \in [tokens : Nat, age : Nat]
      BY <1>1, <2>3
    <3> QED  BY <1>1, <3>1
  <2>5. Limiter!Older(b).tokens = b.tokens /\ Limiter!Older(b).age = b.age + 1
    BY <2>1, <2>2
  <2>6. b.tokens \in Nat /\ b.age * Rate \in Nat /\ (b.age + 1) * Rate = b.age * Rate + Rate
    BY <2>1, Earned
  <2>7. Limiter!Refilled(Limiter!Older(b)) = Limiter!Capped(b.tokens + (b.age * Rate + Rate))
    BY <2>4, <2>5, <2>6 DEF Limiter!Refilled
  <2>8. Limiter!Refilled(b) = Limiter!Capped(b.tokens + b.age * Rate)
    BY <1>4 DEF Limiter!Refilled
  <2>9. Limiter!Older(b) \in Limiter!BucketType
    BY <2>3 DEF Limiter!BucketType
  <2> QED  BY <1>1, <2>6, <2>7, <2>8, <2>9 DEF Limiter!Capped
<1> QED
  BY <1>2, <1>3, <1>4

(* A bucket old enough to be swept is full, so forgetting it changes       *)
(* nothing it would be asked for.                                          *)
LEMMA SweptBucket ==
  ASSUME NEW b \in Limiter!BucketType
  PROVE  LET s == IF Limiter!Forgotten(b) THEN NoBucket ELSE b IN
         s \in Limiter!BucketType /\ Limiter!Refilled(s) = Limiter!Refilled(b)
<1>1. CASE Limiter!Forgotten(b)
  <2>1. b # NoBucket /\ b.age > SweepAge
    BY <1>1 DEF Limiter!Forgotten
  <2>2. b.tokens \in Nat /\ b.age * Rate \in Nat /\ b.age * Rate >= Burst
    BY <2>1, BucketFields, Earned, LimiterBounds
  <2>3. Limiter!Refilled(b) = Burst
    BY <2>1, <2>2, LimiterBounds DEF Limiter!Refilled, Limiter!Capped
  <2> QED  BY <1>1, <2>3 DEF Limiter!Refilled, Limiter!BucketType
<1>2. CASE ~Limiter!Forgotten(b)
  BY <1>2
<1> QED
  BY <1>1, <1>2

-----------------------------------------------------------------------------
LimiterInv == Limiter!TypeOK /\ SweepInvisible /\ WindowBound

(* Nothing has been taken from anybody.                                    *)
LEMMA LimiterInit == Limiter!Init => LimiterInv
BY LimiterBounds DEF Limiter!Init, LimiterInv, Limiter!TypeOK, SweepInvisible, Limiter!SweepInvisible, WindowBound, Limiter!WindowBound, Limiter!BucketType, Limiter!Refilled

(* The buckets after a request of k: k's own is used, and every other one  *)
(* would hold what it would have held.                                     *)
LEMMA AfterAllow ==
  ASSUME LimiterInv, NEW k \in Keys, Limiter!Allow(k)
  PROVE  /\ buckets' \in [Keys -> Limiter!BucketType]
         /\ \A j \in Keys : Limiter!Refilled(buckets'[j]) =
              IF j = k THEN Limiter!Refilled(Limiter!Used(buckets[k])) ELSE Limiter!Refilled(buckets[j])
<1> DEFINE used == [buckets EXCEPT ![k] = Limiter!Used(buckets[k])]
<1>1. buckets \in [Keys -> Limiter!BucketType]
  BY DEF LimiterInv, Limiter!TypeOK
<1>2. used \in [Keys -> Limiter!BucketType]
  BY <1>1, UsedBucket
<1>3. \A j \in Keys : used[j] = IF j = k THEN Limiter!Used(buckets[k]) ELSE buckets[j]
  BY <1>1
<1>4. buckets' = Limiter!Sweep(used) \/ buckets' = used
  BY DEF Limiter!Allow
<1> HIDE DEF used
<1>5. \A j \in Keys : Limiter!Sweep(used)[j] \in Limiter!BucketType /\ Limiter!Refilled(Limiter!Sweep(used)[j]) = Limiter!Refilled(used[j])
  BY <1>2, SweptBucket DEF Limiter!Sweep
<1>6. Limiter!Sweep(used) \in [Keys -> Limiter!BucketType]
  BY <1>5 DEF Limiter!Sweep
<1> QED
  BY <1>2, <1>3, <1>4, <1>5, <1>6

(* A request is accounted for in the bucket and in the window alike.       *)
LEMMA AllowKeeps ==
  ASSUME LimiterInv, NEW k \in Keys, Limiter!Allow(k)
  PROVE  LimiterInv'
<1>1. /\ buckets \in [Keys -> Limiter!BucketType] /\ exact \in [Keys -> Limiter!BucketType]
      /\ calls \in 0 .. SweepEvery - 1
      /\ window \in [Keys -> [age : 0 .. MaxWindow, taken : Nat]]
  BY DEF LimiterInv, Limiter!TypeOK
<1>2. Cost \in Nat /\ SweepEvery \in Nat /\ SweepEvery > 0 /\ Burst \in Nat /\ Rate \in Nat
  BY LimiterBounds
<1>3. calls' \in 0 .. SweepEvery - 1
  BY <1>1, <1>2 DEF Limiter!Allow
<1>4. /\ exact' \in [Keys -> Limiter!BucketType]
      /\ \A j \in Keys : exact'[j] = IF j = k THEN Limiter!Used(exact[k]) ELSE exact[j]
  BY <1>1, UsedBucket DEF Limiter!Allow
<1> DEFINE R(j) == Limiter!Refilled(buckets[j])
<1>5. \A j \in Keys : R(j) \in Nat /\ R(j) <= Burst /\ Limiter!Refilled(exact[j]) = R(j)
  BY <1>1, RefilledType DEF LimiterInv, SweepInvisible, Limiter!SweepInvisible
<1>6. /\ buckets' \in [Keys -> Limiter!BucketType]
      /\ \A j \in Keys : j # k => Limiter!Refilled(buckets'[j]) = R(j)
      /\ Limiter!Refilled(buckets'[k]) = IF R(k) < Cost THEN R(k) ELSE R(k) - Cost
  BY <1>1, AfterAllow, UsedBucket
<1>7. Limiter!Refilled(exact'[k]) = IF R(k) < Cost THEN R(k) ELSE R(k) - Cost
  BY <1>1, <1>4, <1>5, UsedBucket
<1>8. \A j \in Keys : j # k => Limiter!Refilled(exact'[j]) = R(j)
  BY <1>4, <1>5
<1>9. SweepInvisible'
  BY <1>6, <1>7, <1>8 DEF SweepInvisible, Limiter!SweepInvisible
<1>10. \A j \in Keys : window[j].taken \in Nat /\ window[j].age \in Nat /\ window[j].taken + R(j) <= Burst + Rate * window[j].age
  BY <1>1 DEF LimiterInv, WindowBound, Limiter!WindowBound
<1>11. /\ window' \in [Keys -> [age : 0 .. MaxWindow, taken : Nat]]
       /\ \A j \in Keys : /\ window'[j].age = window[j].age
                          /\ j # k => window'[j].taken = window[j].taken
       /\ window'[k].taken = IF R(k) < Cost THEN window[k].taken ELSE window[k].taken + Cost
  <2>1. CASE R(k) < Cost
    BY <1>1, <2>1 DEF Limiter!Allow
  <2>2. CASE ~(R(k) < Cost)
    <3>1. window' = [window EXCEPT ![k] = [window[k] EXCEPT !.taken = window[k].taken + Cost]]
      BY <1>1, <2>2 DEF Limiter!Allow
    <3>2. [window[k] EXCEPT !.taken = window[k].taken + Cost] \in [age : 0 .. MaxWindow, taken : Nat]
      BY <1>1, <1>2
    <3> QED  BY <1>1, <2>2, <3>1, <3>2
  <2> QED  BY <2>1, <2>2
<1> HIDE DEF R
<1>12. ASSUME NEW j \in Keys
       PROVE  window'[j].taken + Limiter!Refilled(buckets'[j]) <= Burst + Rate * window'[j].age
  <2>1. CASE j # k
    BY <1>6, <1>10, <1>11, <2>1
  <2>2. CASE j = k
    <3>1. Rate * window'[k].age = Rate * window[k].age
      BY <1>11
    <3>2. Rate * window[k].age \in Nat
      BY <1>2, <1>10
    <3>3. window'[k].taken + Limiter!Refilled(buckets'[k]) = window[k].taken + R(k)
      BY <1>2, <1>5, <1>6, <1>10, <1>11
    <3> QED  BY <1>10, <2>2, <3>1, <3>3
  <2> QED  BY <2>1, <2>2
<1> QED
  BY <1>3, <1>4, <1>6, <1>9, <1>11, <1>12 DEF LimiterInv, Limiter!TypeOK, WindowBound, Limiter!WindowBound

(* What a bucket earns, its window may spend.                              *)
LEMMA TickKeeps ==
  ASSUME LimiterInv, Limiter!Tick
  PROVE  LimiterInv'
<1>1. /\ buckets \in [Keys -> Limiter!BucketType] /\ exact \in [Keys -> Limiter!BucketType]
      /\ window \in [Keys -> [age : 0 .. MaxWindow, taken : Nat]]
  BY DEF LimiterInv, Limiter!TypeOK
<1>2. MaxWindow \in Nat /\ Burst \in Nat /\ Rate \in Nat
  BY LimiterBounds
<1>3. \A k \in Keys : /\ buckets'[k] \in Limiter!BucketType /\ exact'[k] \in Limiter!BucketType
                      /\ Limiter!Refilled(buckets'[k]) = Limiter!Capped(Limiter!Refilled(buckets[k]) + Rate)
                      /\ Limiter!Refilled(exact'[k]) = Limiter!Capped(Limiter!Refilled(exact[k]) + Rate)
  BY <1>1, OlderBucket DEF Limiter!Tick
<1>4. buckets' \in [Keys -> Limiter!BucketType] /\ exact' \in [Keys -> Limiter!BucketType]
  BY <1>3 DEF Limiter!Tick
<1>5. SweepInvisible'
  BY <1>3 DEF LimiterInv, SweepInvisible, Limiter!SweepInvisible
<1>6. \A k \in Keys : window'[k] = [window[k] EXCEPT !.age = window[k].age + 1]
  BY DEF Limiter!Tick
<1>7. \A k \in Keys : /\ window'[k] \in [age : 0 .. MaxWindow, taken : Nat]
                      /\ window'[k].age = window[k].age + 1
                      /\ window'[k].taken = window[k].taken
  BY <1>1, <1>2, <1>6 DEF Limiter!Tick
<1>8. window' \in [Keys -> [age : 0 .. MaxWindow, taken : Nat]]
  BY <1>7 DEF Limiter!Tick
<1>9. ASSUME NEW k \in Keys
      PROVE  window'[k].taken + Limiter!Refilled(buckets'[k]) <= Burst + Rate * window'[k].age
  <2> DEFINE a == window[k].age
             t == window[k].taken
             r == Limiter!Refilled(buckets[k])
  <2>1. a \in Nat /\ t \in Nat /\ r \in Nat /\ t + r <= Burst + Rate * a
    BY <1>1, RefilledType DEF LimiterInv, WindowBound, Limiter!WindowBound
  <2>2. window'[k].age = a + 1 /\ window'[k].taken = t /\ Limiter!Refilled(buckets'[k]) = Limiter!Capped(r + Rate)
    BY <1>3, <1>7
  <2> HIDE DEF a, t, r
  <2>3. Rate * (a + 1) = Rate * a + Rate /\ Rate * a \in Nat
    BY <1>2, <2>1
  <2>4. Limiter!Capped(r + Rate) <= r + Rate /\ Limiter!Capped(r + Rate) \in Nat
    BY <1>2, <2>1 DEF Limiter!Capped
  <2> QED  BY <1>2, <2>1, <2>2, <2>3, <2>4
<1> QED
  BY <1>4, <1>5, <1>8, <1>9 DEF LimiterInv, Limiter!TypeOK, WindowBound, Limiter!WindowBound, Limiter!Tick

(* A new window starts with at most a full bucket.                         *)
LEMMA ObserveKeeps ==
  ASSUME LimiterInv, NEW k \in Keys, Limiter!Observe(k)
  PROVE  LimiterInv'
<1>1. /\ buckets \in [Keys -> Limiter!BucketType]
      /\ window \in [Keys -> [age : 0 .. MaxWindow, taken : Nat]]
  BY DEF LimiterInv, Limiter!TypeOK
<1>2. MaxWindow \in Nat /\ Burst \in Nat /\ Rate \in Nat
  BY LimiterBounds
<1>3. /\ window' \in [Keys -> [age : 0 .. MaxWindow, taken : Nat]]
      /\ window'[k].age = 0 /\ window'[k].taken = 0
      /\ \A j \in Keys : j # k => window'[j] = window[j]
  BY <1>1, <1>2 DEF Limiter!Observe
<1>4. Limiter!Refilled(buckets[k]) \in Nat /\ Limiter!Refilled(buckets[k]) <= Burst /\ Rate * 0 = 0
  BY <1>1, <1>2, RefilledType
<1> QED
  BY <1>2, <1>3, <1>4 DEF LimiterInv, Limiter!TypeOK, SweepInvisible, Limiter!SweepInvisible, WindowBound, Limiter!WindowBound, Limiter!Observe

(* No step breaks the invariant.                                           *)
LEMMA LimiterStep == LimiterInv /\ [Limiter!Next]_limiterVars => LimiterInv'
<1> SUFFICES ASSUME LimiterInv, [Limiter!Next]_limiterVars PROVE LimiterInv'
  OBVIOUS
<1>1. CASE \E k \in Keys : Limiter!Allow(k) \/ Limiter!Observe(k)
  BY <1>1, AllowKeeps, ObserveKeeps
<1>2. CASE Limiter!Tick
  BY <1>2, TickKeeps
<1>3. CASE UNCHANGED limiterVars
  BY <1>3 DEF limiterVars, LimiterInv, Limiter!TypeOK, SweepInvisible, Limiter!SweepInvisible, WindowBound, Limiter!WindowBound
<1> QED
  BY <1>1, <1>2, <1>3 DEF Limiter!Next

(* The invariant holds in every state of every run.                        *)
LEMMA LimiterInvAlways == HandlersSpec => []LimiterInv
BY LimiterInit, LimiterStep, Parts, PTL DEF HandlersSpec

(* A bucket's tokens and age stay within their bounds.                     *)
THEOREM LimiterTyping == HandlersSpec => []Limiter!TypeOK
<1>1. LimiterInv => Limiter!TypeOK
  BY DEF LimiterInv
<1> QED
  BY <1>1, LimiterInvAlways, PTL

(* Sweeping every so many calls never lets a key do more, or less, than a  *)
(* limiter that remembers every key forever.                               *)
THEOREM SweepInvisibleAlways == HandlersSpec => []SweepInvisible
<1>1. LimiterInv => SweepInvisible
  BY DEF LimiterInv
<1> QED
  BY <1>1, LimiterInvAlways, PTL

(* No key is ever let in for more than a full bucket plus what the time of *)
(* the observation earns.                                                  *)
THEOREM WindowBoundAlways == HandlersSpec => []WindowBound
<1>1. LimiterInv => WindowBound
  BY DEF LimiterInv
<1> QED
  BY <1>1, LimiterInvAlways, PTL
============================================================================
