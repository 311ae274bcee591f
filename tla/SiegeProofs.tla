---------------------------- MODULE SiegeProofs ----------------------------
(***************************************************************************)
(* Proofs about Siege: its safety properties for any number of attackers   *)
(* and players, any garrisons and any fights.  The handlers are operators  *)
(* on scenes, so there is a lemma for each, which says what it leaves as   *)
(* it is and what it makes true.                                           *)
(***************************************************************************)
EXTENDS Siege, FiniteSetTheorems, TLAPS

Men == [st : ManStates, goal : BOOLEAN, home : BOOLEAN]

Scenes ==
  [owner : Players \cup {Nobody}, troops : Nat, need : Needs, ordered : Nat,
   queued : 0..MaxQueue, out : Nat, capturing : BOOLEAN, entering : Nat,
   def : DefenderStates, foe : Attackers \cup {NoFoe}, man : [Attackers -> Men],
   aggr : SUBSET Attackers, far : SUBSET Attackers]

AtFlagStates == {"waiting", "fighting", "first"}
FieldStates == {"walking", "around", "toflag", "free"}

(* Whoever comes is in exactly one list, but perhaps for x, who is about   *)
(* to leave.                                                               *)
ListedBut(s, x) ==
  /\ \A a \in Attackers \ {x} : s.man[a].goal <=> a \in s.aggr \cup s.far
  /\ s.aggr \cap s.far = {}
  /\ s.owner = Nobody => \A a \in Attackers : ~s.man[a].goal
  /\ \A a \in Attackers : s.man[a].st = "away" => ~s.man[a].goal
  /\ \A a \in Attackers \ {x} : s.man[a].st = "toflag" /\ s.man[a].goal => a \in s.aggr
Listed(s) == ListedBut(s, NoFoe)

(* One man has the flag.  If he waits, he is whom the defender comes for;  *)
(* if he waits no longer, the defender has noticed.                        *)
AtTheFlag(s) ==
  /\ \A a, b \in Attackers :
       s.man[a].st \in AtFlagStates /\ s.man[b].st \in AtFlagStates => a = b
  /\ \A a \in Attackers :
       s.man[a].st = "waiting" => s.man[a].goal /\ s.def \in {"to", "from"} /\ s.foe = a
  /\ s.def = "to" => s.foe \in Attackers /\ s.man[s.foe].st = "waiting"
  /\ s.def = "from" => s.foe = NoFoe \/ (s.foe \in Attackers /\ s.man[s.foe].st = "waiting")
  /\ s.def = "waiting" => \A a \in Attackers : s.man[a].st \notin AtFlagStates
  /\ \A a \in Attackers : s.man[a].st = "fighting" => s.def = "fighting"
  /\ \A a \in Attackers :
       s.man[a].st \in {"fighting", "first"} => s.man[a].goal \/ s.owner = Nobody
  /\ \A a \in Attackers : s.man[a].st \in AtFlagStates /\ s.man[a].goal => Party[a] # s.owner

Fought(s) == s.def = "fighting" => \E a \in Attackers : s.man[a].st = "fighting"

(* The building has been taken and calls soldiers in. *)
Filling(s) == s.capturing /\ \A a \in Attackers : s.man[a].st # "first"

(* While it is taken or filled nobody fights; one man at most is called at *)
(* a time, and nobody of the owner's own is still there otherwise.         *)
TakingBut(s, x) ==
  /\ s.capturing => s.def = "none" /\ s.owner # Nobody
  /\ \A a \in Attackers : s.man[a].st = "first" /\ s.man[a].goal => s.capturing
  /\ \A a, b \in Attackers \ {x} :
       s.man[a].st = "next" /\ s.man[a].goal /\ s.man[b].st = "next" /\ s.man[b].goal => a = b
  /\ \A a \in Attackers \ {x} : s.man[a].st = "next" /\ s.man[a].goal => Filling(s)
  /\ \A a \in s.aggr : s.man[a].st \notin {"next", "door"} /\ Party[a] = s.owner => Filling(s)

(* Those who walk in are counted, but perhaps for k of them. *)
WalkIns(s) == {a \in Attackers : s.man[a].goal /\ s.man[a].st \in {"first", "next", "door"}}
CountedBut(s, k) == Cardinality(WalkIns(s)) <= s.entering + k

Held(s) ==
  s.owner # Nobody /\ s.troops = 0 /\ s.def = "none" =>
    \E a \in Attackers : s.man[a].goal /\ s.man[a].st = "first"

GoodBut(s, x, k) ==
  /\ s \in Scenes
  /\ ListedBut(s, x) /\ AtTheFlag(s) /\ Fought(s) /\ TakingBut(s, x) /\ CountedBut(s, k) /\ Held(s)
Good(s) == GoodBut(s, NoFoe, 0)

IInv ==
  /\ Good(Scene) /\ enemies \in Leagues
  /\ capturing_soldiers \in 0..MaxEntering \cup {UnsignedMax}

-----------------------------------------------------------------------------
(* The scene of a state. *)

LEMMA SceneFields ==
  /\ Scene.owner = owner /\ Scene.troops = troops /\ Scene.need = need
  /\ Scene.ordered = ordered /\ Scene.queued = queued /\ Scene.out = out
  /\ Scene.capturing = capturing /\ Scene.entering = capturing_soldiers
  /\ Scene.def = defender /\ Scene.foe = foe /\ Scene.man = man
  /\ Scene.aggr = aggressors /\ Scene.far = far_away_capturers
BY DEF Scene

LEMMA SceneOf ==
  ASSUME NEW s \in Scenes, Becomes(s)
  PROVE  Scene' = s
BY DEF Scenes, Becomes, Scene

(* Who owns the building, and who gets to its door. *)
TakenRightly(s, t) ==
  /\ t.owner \notin {s.owner, Nobody} => s.troops = 0 /\ s.def = "none"
  /\ \A b \in Attackers : s.man[b].st = "walking" /\ t.man[b].st = "door" => b \in s.far

RightStep ==
  /\ owner' \notin {owner, Nobody} => troops = 0 /\ defender = "none"
  /\ \A a \in Attackers :
       man[a].st = "walking" /\ man'[a].st = "door" => a \in far_away_capturers

LEMMA Reached ==
  ASSUME NEW s, Good(s), Scene' = s, TakenRightly(Scene, s),
         capturing_soldiers' \in 0..MaxEntering \cup {UnsignedMax}, enemies' = enemies, enemies \in Leagues
  PROVE  IInv' /\ RightStep
<1>1. Good(Scene)'
  BY DEF Good, GoodBut, Scenes, ListedBut, AtTheFlag, Fought, TakingBut, Filling, CountedBut, WalkIns, Held
<1>2. s.owner = owner' /\ s.man = man'
  BY DEF Scene
<1> QED BY <1>1, <1>2, SceneFields DEF IInv, TakenRightly, RightStep

LEMMA Became ==
  ASSUME NEW s, Good(s), Becomes(s), TakenRightly(Scene, s), enemies' = enemies, enemies \in Leagues
  PROVE  IInv' /\ RightStep
<1>1. Scene' = s
  BY SceneOf DEF Good, GoodBut
<1>2. capturing_soldiers' \in 0..MaxEntering \cup {UnsignedMax}
  BY DEF Becomes
<1> QED BY <1>1, <1>2, Reached

-----------------------------------------------------------------------------
(* Steps which concern nobody at the flag or in the door. *)

StaysPut(s, t) ==
  /\ t.owner = s.owner /\ t.def = s.def /\ t.foe = s.foe
  /\ t.capturing = s.capturing /\ t.entering = s.entering
  /\ s.troops > 0 => t.troops > 0

Calm(s, t) ==
  /\ t \in Scenes /\ StaysPut(s, t)
  /\ t.aggr \subseteq s.aggr
  /\ \A a \in Attackers :
       s.man[a].st \in AtFlagStates \cup {"next", "door"}
         \/ t.man[a].st \in AtFlagStates \cup {"next", "door"} => t.man[a] = s.man[a]

(* They keep everything but the lists. *)
LEMMA CalmKeeps ==
  ASSUME NEW s \in Scenes, NEW t, Calm(s, t), NEW x, NEW k
  PROVE  /\ AtTheFlag(s) => AtTheFlag(t)
         /\ Fought(s) => Fought(t)
         /\ Filling(s) <=> Filling(t)
         /\ TakingBut(s, x) => TakingBut(t, x)
         /\ CountedBut(s, k) => CountedBut(t, k)
         /\ Held(s) => Held(t)
<1> USE DEF Calm, StaysPut, AtFlagStates
<1>1. s.man \in [Attackers -> Men] /\ t.man \in [Attackers -> Men] /\ s.foe \in Attackers \cup {NoFoe}
  BY DEF Scenes
<1>2. AtTheFlag(s) => AtTheFlag(t)
  <2> SUFFICES ASSUME AtTheFlag(s) PROVE AtTheFlag(t)
    OBVIOUS
  <2> USE DEF AtTheFlag
  <2>1. \A a \in Attackers : t.man[a].st \in AtFlagStates => t.man[a] = s.man[a]
    OBVIOUS
  <2>2. \A a \in Attackers : s.man[a].st \in AtFlagStates => t.man[a] = s.man[a]
    OBVIOUS
  <2>3. \A a, b \in Attackers :
          t.man[a].st \in AtFlagStates /\ t.man[b].st \in AtFlagStates => a = b
    BY <2>1
  <2>4. \A a \in Attackers :
          t.man[a].st = "waiting" => t.man[a].goal /\ t.def \in {"to", "from"} /\ t.foe = a
    BY <2>1
  <2>5. t.def = "to" => t.foe \in Attackers /\ t.man[t.foe].st = "waiting"
    BY <2>2
  <2>6. t.def = "from" => t.foe = NoFoe \/ (t.foe \in Attackers /\ t.man[t.foe].st = "waiting")
    BY <2>2
  <2>7. t.def = "waiting" => \A a \in Attackers : t.man[a].st \notin AtFlagStates
    BY <2>1
  <2>8. \A a \in Attackers : t.man[a].st = "fighting" => t.def = "fighting"
    BY <2>1
  <2>9. \A a \in Attackers :
          t.man[a].st \in {"fighting", "first"} => t.man[a].goal \/ t.owner = Nobody
    BY <2>1
  <2>10. \A a \in Attackers : t.man[a].st \in AtFlagStates /\ t.man[a].goal => Party[a] # t.owner
    BY <2>1
  <2> QED BY <2>3, <2>4, <2>5, <2>6, <2>7, <2>8, <2>9, <2>10
<1>3. Fought(s) => Fought(t)
  BY DEF Fought
<1>4. Filling(s) <=> Filling(t)
  BY DEF Filling
<1>5. TakingBut(s, x) => TakingBut(t, x)
  <2> SUFFICES ASSUME TakingBut(s, x) PROVE TakingBut(t, x)
    OBVIOUS
  <2>1. t.aggr \subseteq Attackers
    BY DEF Scenes
  <2> QED BY <1>4, <2>1 DEF TakingBut
<1>6. WalkIns(t) = WalkIns(s)
  BY DEF WalkIns
<1>7. CountedBut(s, k) => CountedBut(t, k)
  BY <1>6 DEF CountedBut
<1>8. Held(s) => Held(t)
  <2> SUFFICES ASSUME Held(s), t.owner # Nobody, t.troops = 0, t.def = "none"
               PROVE  \E a \in Attackers : t.man[a].goal /\ t.man[a].st = "first"
    BY DEF Held
  <2>1. s.troops = 0
    BY DEF Scenes
  <2>2. PICK a \in Attackers : s.man[a].goal /\ s.man[a].st = "first"
    BY <2>1 DEF Held
  <2> QED BY <2>2
<1> QED BY <1>2, <1>3, <1>4, <1>5, <1>7, <1>8

LEMMA CalmTransitive ==
  ASSUME NEW s \in Scenes, NEW t, NEW u, Calm(s, t), Calm(t, u)
  PROVE  Calm(s, u)
BY DEF Calm, StaysPut

LEMMA CalmGood ==
  ASSUME NEW s, NEW t, Good(s), Calm(s, t), Listed(t)
  PROVE  Good(t)
<1>1. s \in Scenes /\ t \in Scenes
  BY DEF Good, GoodBut, Calm
<1> QED BY <1>1, CalmKeeps DEF Good, GoodBut, Listed

(* A man in the field, or on his way, does something else there. *)
LEMMA Strolls ==
  ASSUME NEW s \in Scenes, Listed(s), NEW a \in Attackers, s.man[a].st \in FieldStates,
         NEW st \in FieldStates, st = "toflag" /\ s.man[a].goal => a \in s.aggr
  PROVE  /\ Calm(s, Put(s, a, st)) /\ Listed(Put(s, a, st))
         /\ Put(s, a, st) = [s EXCEPT !.man = [s.man EXCEPT ![a] = [s.man[a] EXCEPT !.st = st]]]
<1> DEFINE m == [s.man[a] EXCEPT !.st = st]
           t == [s EXCEPT !.man = [s.man EXCEPT ![a] = m]]
<1>1. Put(s, a, st) = t
  BY DEF Put, Scenes
<1>2. m \in Men /\ m.st = st /\ m.goal = s.man[a].goal
  BY DEF Scenes, Men, ManStates, FieldStates
<1>3. t \in Scenes /\ t.man = [s.man EXCEPT ![a] = m] /\ t.owner = s.owner /\ t.def = s.def
      /\ t.foe = s.foe /\ t.capturing = s.capturing /\ t.entering = s.entering
      /\ t.troops = s.troops /\ t.aggr = s.aggr /\ t.far = s.far
  BY <1>2 DEF Scenes
<1>4. \A b \in Attackers : t.man[b] = IF b = a THEN m ELSE s.man[b]
  BY <1>3 DEF Scenes
<1> HIDE DEF m, t
<1>5. Calm(s, t)
  BY <1>2, <1>3, <1>4 DEF Calm, StaysPut, AtFlagStates, FieldStates
<1>6. Listed(t)
  BY <1>2, <1>3, <1>4 DEF Listed, ListedBut, FieldStates
<1> QED BY <1>1, <1>5, <1>6 DEF t, m

SameOwner(s, t) ==
  /\ t.owner = s.owner
  /\ \A b \in Attackers : s.man[b].st = "walking" /\ t.man[b].st = "door" => b \in s.far

LEMMA CalmOwner ==
  ASSUME NEW s, NEW t, Calm(s, t)
  PROVE  SameOwner(s, t)
BY DEF Calm, StaysPut, SameOwner

LEMMA OwnerRightly ==
  ASSUME NEW s, NEW t, SameOwner(s, t)
  PROVE  TakenRightly(s, t)
BY DEF SameOwner, TakenRightly

(* Nobody gets to the door. *)
Quiet(s, t) ==
  /\ t.owner = s.owner
  /\ \A b \in Attackers : t.man[b].st = "door" => s.man[b].st = "door"

LEMMA CalmQuiet ==
  ASSUME NEW s, NEW t, Calm(s, t)
  PROVE  Quiet(s, t)
BY DEF Calm, StaysPut, Quiet

LEMMA QuietOwner ==
  ASSUME NEW s, NEW t, Quiet(s, t)
  PROVE  SameOwner(s, t)
BY DEF Quiet, SameOwner

-----------------------------------------------------------------------------
(* The garrison: counts change, and nothing else. *)

Garrisoned(s, t) ==
  /\ t \in Scenes /\ StaysPut(s, t)
  /\ t.man = s.man /\ t.aggr = s.aggr /\ t.far = s.far

LEMMA GarrisonCalm ==
  ASSUME NEW s \in Scenes, NEW t, Garrisoned(s, t), NEW x
  PROVE  Calm(s, t) /\ (ListedBut(s, x) => ListedBut(t, x))
BY DEF Garrisoned, Calm, StaysPut, ListedBut

LEMMA GarrisonGood ==
  ASSUME NEW s, Good(s), NEW t, Garrisoned(s, t)
  PROVE  Good(t)
<1>1. s \in Scenes /\ Listed(s)
  BY DEF Good, GoodBut, Listed
<1> QED BY <1>1, GarrisonCalm, CalmGood DEF Listed

LEMMA ExpectedType ==
  ASSUME NEW s \in Scenes
  PROVE  Expected(s) \in Nat
<1>1. IsFiniteSet(s.far)
  BY FS_Subset, SiegeAssumption DEF Scenes
<1>2. Cardinality(s.far) \in Nat
  BY <1>1, FS_CardinalityType
<1> QED BY <1>2 DEF Expected, Scenes

LEMMA Regulated ==
  ASSUME NEW s \in Scenes, NEW t \in RegulateTroops(s)
  PROVE  Garrisoned(s, t) /\ (t = s \/ ~s.capturing)
<1> DEFINE diff == s.need - Expected(s)
           refused == Least(s.ordered, 0 - diff)
           leave == Least(0 - diff - refused, s.troops - 1)
           fewer == [s EXCEPT !.ordered = @ - refused]
<1>1. s.need \in Nat /\ s.ordered \in Nat /\ s.troops \in Nat /\ Expected(s) \in Nat
  BY ExpectedType, SiegeAssumption DEF Scenes
<1>2. diff \in Int
  BY <1>1
<1> HIDE DEF diff
<1>3. CASE s.capturing \/ diff = 0
  <2>1. t = s
    BY <1>3 DEF RegulateTroops, diff
  <2> QED BY <2>1 DEF Garrisoned, StaysPut
<1>4. CASE ~s.capturing /\ diff > 0
  <2>1. PICK k \in 0..diff : t = [s EXCEPT !.ordered = @ + k]
    BY <1>4 DEF RegulateTroops, diff
  <2>2. t.ordered \in Nat
    BY <2>1, <1>1, <1>2 DEF Scenes
  <2> QED BY <1>4, <2>1, <2>2 DEF Garrisoned, StaysPut, Scenes
<1>5. CASE ~s.capturing /\ diff < 0
  <2>1. refused \in Nat /\ refused <= s.ordered
    BY <1>1, <1>2, <1>5 DEF Least
  <2> HIDE DEF refused
  <2>2. leave \in Int /\ leave <= s.troops - 1
    BY <1>1, <1>2, <2>1 DEF Least
  <2> HIDE DEF leave
  <2>3. t = fewer \/ (leave > 0 /\ t = [fewer EXCEPT !.troops = @ - leave])
    BY <1>2, <1>5 DEF RegulateTroops, diff, refused, leave
  <2>4. fewer \in Scenes /\ Garrisoned(s, fewer) /\ fewer.troops = s.troops
    <3>1. s.ordered - refused \in Nat
      BY <1>1, <2>1
    <3> QED BY <3>1 DEF Garrisoned, StaysPut, Scenes
  <2>5. CASE t = fewer
    BY <2>4, <2>5, <1>5
  <2>6. CASE leave > 0 /\ t = [fewer EXCEPT !.troops = @ - leave]
    <3> HIDE DEF fewer
    <3>1. s.troops - leave \in Nat /\ s.troops - leave > 0
      BY <1>1, <2>2, <2>6
    <3> QED BY <1>5, <2>4, <2>6, <3>1 DEF Garrisoned, StaysPut, Scenes
  <2> QED BY <2>3, <2>5, <2>6
<1> QED BY <1>2, <1>3, <1>4, <1>5

LEMMA AddedSoldier ==
  ASSUME NEW s \in Scenes, NEW t \in AddActiveSoldier(s)
  PROVE  Garrisoned(s, t) /\ t.troops > 0
<1> DEFINE u == [s EXCEPT !.troops = @ + 1]
<1>1. u \in Scenes /\ u.troops > 0 /\ Garrisoned(s, u)
  BY DEF Scenes, Garrisoned, StaysPut
<1>2. t \in RegulateTroops(u)
  BY DEF AddActiveSoldier
<1> HIDE DEF u
<1>3. Garrisoned(u, t)
  BY <1>1, <1>2, Regulated
<1> QED BY <1>1, <1>3 DEF Garrisoned, StaysPut

LEMMA JobsCancelled ==
  ASSUME NEW s \in Scenes, NEW t \in CancelJobs(s)
  PROVE  Garrisoned(s, t)
<1>1. CASE s.queued = 0
  BY <1>1 DEF CancelJobs, Garrisoned, StaysPut
<1>2. CASE s.queued # 0
  <2> DEFINE u == [s EXCEPT !.queued = @ - 1]
  <2>1. s.queued - 1 \in 0..MaxQueue
    <3>1. s.queued \in 0..MaxQueue /\ MaxQueue \in Nat
      BY SiegeAssumption DEF Scenes
    <3> QED BY <3>1, <1>2
  <2>2. u \in Scenes /\ Garrisoned(s, u)
    BY <2>1 DEF Scenes, Garrisoned, StaysPut
  <2>3. t \in AddActiveSoldier(u)
    BY <1>2 DEF CancelJobs
  <2> HIDE DEF u
  <2>4. Garrisoned(u, t)
    BY <2>2, <2>3, AddedSoldier
  <2> QED BY <2>2, <2>4 DEF Garrisoned, StaysPut
<1> QED BY <1>1, <1>2

LEMMA DefenderSent ==
  ASSUME NEW s \in Scenes, NEW t \in SendDefender(s)
  PROVE  Garrisoned(s, t)
<1>1. s.troops > 1 /\ s.queued < MaxQueue /\ t = [s EXCEPT !.troops = @ - 1, !.queued = @ + 1]
  BY DEF SendDefender
<1>2. s.troops - 1 \in Nat /\ s.troops - 1 > 0 /\ s.queued + 1 \in 0..MaxQueue
  <2>1. s.troops \in Nat /\ s.queued \in 0..MaxQueue /\ MaxQueue \in Nat
    BY SiegeAssumption DEF Scenes
  <2> QED BY <1>1, <2>1
<1> QED BY <1>1, <1>2 DEF Scenes, Garrisoned, StaysPut

(* A defender is called out for a: he comes, or the building is empty. *)
LEMMA DefenderCalled ==
  ASSUME NEW s \in Scenes, NEW a \in Attackers, NEW t \in CallDefender(s, a)
  PROVE  /\ t \in Scenes /\ t.owner = s.owner /\ t.capturing = s.capturing
         /\ t.entering = s.entering /\ t.man = s.man /\ t.aggr = s.aggr /\ t.far = s.far
         /\ \/ s.def # "none" /\ t.def = s.def /\ t.foe = a
            \/ s.def = "none" /\ t.def = "to" /\ t.foe = a
            \/ s.def = "none" /\ s.troops = 0 /\ t.def = "none" /\ t.foe = s.foe /\ t.troops = 0
<1>1. CASE s.def # "none"
  <2> DEFINE u == [s EXCEPT !.foe = a]
  <2>1. u \in Scenes /\ u.owner = s.owner /\ u.capturing = s.capturing /\ u.entering = s.entering
        /\ u.man = s.man /\ u.aggr = s.aggr /\ u.far = s.far /\ u.def = s.def /\ u.foe = a
    BY DEF Scenes
  <2>2. t \in CancelJobs(u)
    BY <1>1 DEF CallDefender
  <2> HIDE DEF u
  <2> QED BY <1>1, <2>1, <2>2, JobsCancelled DEF Garrisoned, StaysPut
<1>2. CASE s.def = "none"
  <2> DEFINE inside == IF s.troops = 0 THEN CancelJobs(s) ELSE {s}
             Sent(v) == [v EXCEPT !.troops = @ - 1, !.def = "to", !.foe = a]
             Out(v) == IF v.troops = 0 THEN {v} ELSE CancelJobs(Sent(v))
  <2>1. PICK v \in inside : t \in Out(v)
    <3>1. t \in UNION {Out(v) : v \in inside}
      BY <1>2, Zenon DEF CallDefender
    <3> HIDE DEF Out, inside
    <3> QED BY <3>1
  <2>2. Garrisoned(s, v)
    BY <2>1, JobsCancelled DEF Garrisoned, StaysPut
  <2>3. CASE v.troops = 0
    <3>1. t = v /\ s.troops = 0
      <4>1. s.troops \in Nat
        BY DEF Scenes
      <4> QED BY <2>1, <2>2, <2>3, <4>1 DEF Garrisoned, StaysPut
    <3> QED BY <1>2, <2>2, <2>3, <3>1 DEF Garrisoned, StaysPut
  <2>4. CASE v.troops # 0
    <3>1. v \in Scenes /\ v.troops \in Nat /\ v.troops - 1 \in Nat
      BY <2>2, <2>4 DEF Garrisoned, Scenes
    <3>2. Sent(v) \in Scenes /\ Sent(v).owner = s.owner /\ Sent(v).capturing = s.capturing
          /\ Sent(v).entering = s.entering /\ Sent(v).man = s.man /\ Sent(v).aggr = s.aggr
          /\ Sent(v).far = s.far /\ Sent(v).def = "to" /\ Sent(v).foe = a
      BY <2>2, <3>1 DEF Garrisoned, StaysPut, Scenes, DefenderStates
    <3>3. t \in CancelJobs(Sent(v))
      BY <2>1, <2>4
    <3> HIDE DEF Sent
    <3>4. Garrisoned(Sent(v), t)
      BY <3>2, <3>3, JobsCancelled
    <3> QED BY <1>2, <3>2, <3>4 DEF Garrisoned, StaysPut
  <2> QED BY <2>3, <2>4
<1> QED BY <1>1, <1>2
-----------------------------------------------------------------------------
(* Somebody leaves. *)

LEMMA GoneIs == Gone \in Men /\ Gone.st = "away" /\ ~Gone.goal
BY DEF Gone, Men, ManStates

LEMMA Unlinked ==
  ASSUME NEW s \in Scenes, NEW a \in Attackers, NEW t \in UnlinkAggressor(s, a)
  PROVE  /\ t \in Scenes /\ StaysPut(s, t)
         /\ t.man = s.man /\ t.aggr = s.aggr \ {a} /\ t.far = s.far \ {a}
<1> DEFINE u == [s EXCEPT !.aggr = @ \ {a}, !.far = @ \ {a}]
<1>1. u \in Scenes /\ StaysPut(s, u) /\ u.man = s.man /\ u.aggr = s.aggr \ {a} /\ u.far = s.far \ {a}
  BY DEF Scenes, StaysPut
<1>2. t = u \/ t \in RegulateTroops(u)
  BY DEF UnlinkAggressor
<1> HIDE DEF u
<1>3. CASE t = u
  BY <1>1, <1>3
<1>4. CASE t \in RegulateTroops(u)
  BY <1>1, <1>4, Regulated DEF Garrisoned, StaysPut
<1> QED BY <1>2, <1>3, <1>4

Left(s, a, t) ==
  /\ t \in Scenes /\ StaysPut(s, t)
  /\ t.man = [s.man EXCEPT ![a] = Gone]
  /\ t.aggr = s.aggr \ {a} /\ t.far = s.far \ {a}

LEMMA Departed ==
  ASSUME NEW s \in Scenes, NEW a \in Attackers
  PROVE  /\ Depart(s, a) \in Scenes /\ StaysPut(s, Depart(s, a))
         /\ Depart(s, a).man = [s.man EXCEPT ![a] = Gone]
         /\ Depart(s, a).aggr = s.aggr /\ Depart(s, a).far = s.far
         /\ Depart(s, a).troops = s.troops
BY GoneIs DEF Depart, Scenes, StaysPut

LEMMA Leaves ==
  ASSUME NEW s \in Scenes, NEW a \in Attackers, s.man[a].goal \/ a \notin s.aggr \cup s.far,
         NEW t \in Leave(s, a)
  PROVE  Left(s, a, t)
<1>1. PICK u \in (IF s.man[a].goal THEN UnlinkAggressor(s, a) ELSE {s}) : t = Depart(u, a)
  BY DEF Leave
<1>2. u \in Scenes /\ StaysPut(s, u) /\ u.man = s.man /\ u.aggr = s.aggr \ {a} /\ u.far = s.far \ {a}
  <2>1. CASE s.man[a].goal
    BY <1>1, <2>1, Unlinked
  <2>2. CASE ~s.man[a].goal
    BY <1>1, <2>2 DEF StaysPut
  <2> QED BY <2>1, <2>2
<1> QED BY <1>1, <1>2, Departed DEF Left, StaysPut

LEMMA ListedLeaves ==
  ASSUME NEW s \in Scenes, Listed(s), NEW a \in Attackers, NEW t \in Leave(s, a)
  PROVE  Left(s, a, t)
<1>1. NoFoe # a
  BY SiegeAssumption
<1>2. s.man[a].goal \/ a \notin s.aggr \cup s.far
  BY <1>1 DEF Listed, ListedBut
<1> QED BY <1>2, Leaves

LEMMA LeftMen ==
  ASSUME NEW s \in Scenes, NEW a \in Attackers, NEW t, Left(s, a, t)
  PROVE  \A b \in Attackers : t.man[b] = IF b = a THEN Gone ELSE s.man[b]
BY DEF Left, Scenes

LEMMA LeftListed ==
  ASSUME NEW s \in Scenes, NEW a \in Attackers, ListedBut(s, a), NEW t, Left(s, a, t)
  PROVE  Listed(t)
<1>1. NoFoe \notin Attackers
  BY SiegeAssumption
<1>2. \A b \in Attackers : t.man[b] = IF b = a THEN Gone ELSE s.man[b]
  BY LeftMen
<1>3. t.owner = s.owner /\ t.aggr = s.aggr \ {a} /\ t.far = s.far \ {a}
  BY DEF Left, StaysPut
<1>4. \A b \in Attackers : t.man[b].goal <=> b \in t.aggr \cup t.far
  BY <1>2, <1>3, GoneIs DEF ListedBut
<1>5. \A b \in Attackers : t.man[b].st = "toflag" /\ t.man[b].goal => b \in t.aggr
  BY <1>2, <1>3, GoneIs DEF ListedBut
<1>6. \A b \in Attackers : t.man[b].st = "away" => ~t.man[b].goal
  BY <1>2, GoneIs DEF ListedBut
<1>7. t.owner = Nobody => \A b \in Attackers : ~t.man[b].goal
  BY <1>2, <1>3, GoneIs DEF ListedBut
<1>8. t.aggr \cap t.far = {}
  BY <1>3 DEF ListedBut
<1> QED BY <1>1, <1>4, <1>5, <1>6, <1>7, <1>8 DEF Listed, ListedBut

LEMMA ListedButOne ==
  ASSUME NEW s, Listed(s), NEW x
  PROVE  ListedBut(s, x)
<1>1. NoFoe \notin Attackers
  BY SiegeAssumption
<1> QED BY <1>1 DEF Listed, ListedBut

LEMMA LeftCalm ==
  ASSUME NEW s \in Scenes, NEW a \in Attackers, s.man[a].st \in FieldStates,
         NEW t, Left(s, a, t)
  PROVE  Calm(s, t)
BY LeftMen, GoneIs DEF Left, Calm, StaysPut, AtFlagStates, FieldStates

LEMMA LeftTaking ==
  ASSUME NEW s \in Scenes, NEW a \in Attackers, TakingBut(s, a), CountedBut(s, 0),
         NEW t, Left(s, a, t)
  PROVE  TakingBut(t, NoFoe) /\ CountedBut(t, 0)
<1>1. \A b \in Attackers : t.man[b] = IF b = a THEN Gone ELSE s.man[b]
  BY LeftMen
<1>2. NoFoe \notin Attackers
  BY SiegeAssumption
<1>3. t \in Scenes /\ StaysPut(s, t) /\ t.aggr = s.aggr \ {a} /\ t.far = s.far \ {a}
  BY DEF Left
<1>7. TakingBut(t, NoFoe)
  <2>1. Filling(s) => Filling(t)
    BY <1>1, <1>3, GoneIs DEF Filling, StaysPut
  <2>2. t.owner = s.owner /\ t.def = s.def /\ t.capturing = s.capturing /\ s.aggr \subseteq Attackers
    BY <1>3 DEF StaysPut, Scenes
  <2>3. \A b \in Attackers : t.man[b].st # "away" => b # a /\ t.man[b] = s.man[b]
    BY <1>1, GoneIs
  <2>4. \A b \in t.aggr : b \in s.aggr /\ t.man[b] = s.man[b]
    BY <1>1, <1>3, <2>2
  <2>5. \A b \in Attackers : t.man[b].st = "first" /\ t.man[b].goal => t.capturing
    BY <2>2, <2>3 DEF TakingBut
  <2>6. \A b, c \in Attackers :
          t.man[b].st = "next" /\ t.man[b].goal /\ t.man[c].st = "next" /\ t.man[c].goal => b = c
    BY <2>3 DEF TakingBut
  <2>7. \A b \in Attackers : t.man[b].st = "next" /\ t.man[b].goal => Filling(t)
    BY <2>1, <2>3 DEF TakingBut
  <2>8. \A b \in t.aggr : t.man[b].st \notin {"next", "door"} /\ Party[b] = t.owner => Filling(t)
    BY <2>1, <2>2, <2>4 DEF TakingBut
  <2> QED BY <2>2, <2>5, <2>6, <2>7, <2>8 DEF TakingBut
<1>8. CountedBut(t, 0)
  <2>1. WalkIns(t) \subseteq WalkIns(s)
    BY <1>1, GoneIs DEF WalkIns
  <2>2. IsFiniteSet(WalkIns(s))
    BY FS_Subset, SiegeAssumption DEF WalkIns
  <2>3. Cardinality(WalkIns(t)) <= Cardinality(WalkIns(s)) /\ IsFiniteSet(WalkIns(t))
    BY <2>1, <2>2, FS_Subset
  <2>4. Cardinality(WalkIns(t)) \in Nat /\ Cardinality(WalkIns(s)) \in Nat /\ s.entering \in Nat
    BY <2>2, <2>3, FS_CardinalityType DEF Scenes
  <2> QED BY <1>3, <2>3, <2>4 DEF CountedBut, StaysPut
<1> QED BY <1>7, <1>8

(* Who walks in may leave, and who finds that he has no goal. *)
LEMMA LeftGood ==
  ASSUME NEW s \in Scenes, NEW a \in Attackers,
         s.man[a].st \in FieldStates \cup {"next", "door"} \/ (s.man[a].st = "first" /\ ~s.man[a].goal),
         ListedBut(s, a), AtTheFlag(s), Fought(s), TakingBut(s, a), CountedBut(s, 0), Held(s),
         NEW t, Left(s, a, t)
  PROVE  Good(t)
<1>1. \A b \in Attackers : t.man[b] = IF b = a THEN Gone ELSE s.man[b]
  BY LeftMen
<1>2. NoFoe \notin Attackers
  BY SiegeAssumption
<1>3. t \in Scenes /\ StaysPut(s, t) /\ t.aggr = s.aggr \ {a} /\ t.far = s.far \ {a}
  BY DEF Left
<1>4. Listed(t)
  BY LeftListed
<1>5. AtTheFlag(t)
  <2> USE DEF AtTheFlag, AtFlagStates, StaysPut
  <2>1. \A b \in Attackers : t.man[b].st \in AtFlagStates => t.man[b] = s.man[b]
    BY <1>1, GoneIs
  <2>2. s.def = "to" => t.foe \in Attackers /\ t.man[t.foe].st = "waiting"
    BY <1>1, <1>3 DEF FieldStates
  <2>3. s.def = "from" => t.foe = NoFoe \/ (t.foe \in Attackers /\ t.man[t.foe].st = "waiting")
    BY <1>1, <1>3 DEF FieldStates
  <2> QED BY <1>3, <2>1, <2>2, <2>3
<1>6. Fought(t)
  BY <1>1, <1>3 DEF Fought, StaysPut, FieldStates
<1>7. TakingBut(t, NoFoe) /\ CountedBut(t, 0)
  BY LeftTaking
<1>9. Held(t)
  <2>1. s.troops \in Nat
    BY DEF Scenes
  <2> QED BY <1>1, <1>3, <2>1 DEF Held, StaysPut, FieldStates
<1> QED BY <1>3, <1>4, <1>5, <1>6, <1>7, <1>9 DEF Good, GoodBut, Listed

-----------------------------------------------------------------------------
(* Attackers who look for a place, but do not reach the flag. *)

LEMMA LooksForAPlace ==
  ASSUME NEW s \in Scenes, Listed(s), NEW a \in Attackers, s.man[a].st = "walking",
         NEW at \in {"elsewhere", "spot"}, NEW t \in MissAttackingWalk(s, a, at)
  PROVE  Calm(s, t) /\ Listed(t) /\ \A b \in Attackers \ {a} : t.man[b] = s.man[b]
<1> DEFINE onward == {s, Put(s, a, "free")} \cup SendDefender(s) \cup Leave(s, a)
<1>1. t \in onward \/ t = Put(s, a, "around")
  BY DEF MissAttackingWalk, PlacesFor
<1>2. s.man[a].st \in FieldStates
  BY DEF FieldStates
<1>3. CASE t = s
  BY <1>3 DEF Calm, StaysPut
<1>4. CASE t = Put(s, a, "free") \/ t = Put(s, a, "around")
  <2>1. {"free", "around"} \subseteq FieldStates
    BY DEF FieldStates
  <2>2. PICK st \in FieldStates : st # "toflag" /\ t = Put(s, a, st)
    BY <1>4, <2>1
  <2>3. Calm(s, t) /\ Listed(t)
        /\ t = [s EXCEPT !.man = [s.man EXCEPT ![a] = [s.man[a] EXCEPT !.st = st]]]
    BY <1>2, <2>2, Strolls
  <2> QED BY <2>3 DEF Scenes
<1>5. CASE t \in SendDefender(s)
  BY <1>5, DefenderSent, GarrisonCalm DEF Listed, Garrisoned
<1>6. CASE t \in Leave(s, a)
  <2>1. Left(s, a, t)
    BY <1>6, ListedLeaves
  <2> QED BY <1>2, <2>1, LeftCalm, LeftListed, LeftMen, ListedButOne
<1> QED BY <1>1, <1>3, <1>4, <1>5, <1>6

LEMMA MovesAbout ==
  ASSUME NEW s \in Scenes, Listed(s), NEW a \in Attackers, s.man[a].st \in FieldStates,
         NEW at \in {"elsewhere", "spot"}, NEW t \in Moves(s, a, at)
  PROVE  Calm(s, t) /\ Listed(t) /\ \A b \in Attackers \ {a} : t.man[b] = s.man[b]
<1> DEFINE u == Put(s, a, "walking")
<1>1. Calm(s, u) /\ Listed(u) /\ u = [s EXCEPT !.man = [s.man EXCEPT ![a] = [s.man[a] EXCEPT !.st = "walking"]]]
  <2>1. "walking" \in FieldStates
    BY DEF FieldStates
  <2> QED BY <2>1, Strolls
<1>2. u \in Scenes
  BY <1>1 DEF Calm
<1>3. u.man[a].st = "walking" /\ \A b \in Attackers \ {a} : u.man[b] = s.man[b]
  BY <1>1 DEF Scenes, Men
<1>4. t \in MissAttackingWalk(u, a, at)
  BY DEF Moves
<1> HIDE DEF u
<1>5. Calm(u, t) /\ Listed(t) /\ \A b \in Attackers \ {a} : t.man[b] = u.man[b]
  BY <1>1, <1>2, <1>3, <1>4, LooksForAPlace
<1> QED BY <1>1, <1>3, <1>5, CalmTransitive

LEMMA Succeeded ==
  ASSUME NEW s \in Scenes, Listed(s), NEW t \in SendSuccessor(s)
  PROVE  Calm(s, t) /\ Listed(t)
<1> DEFINE ready == s.aggr \cap In(s, "around")
           After(b) == {s} \cup UNION {Moves(s, c, "spot") : c \in ready \ {b}}
<1>0. Calm(s, s)
  BY DEF Calm, StaysPut
<1>1. CASE t = s
  BY <1>0, <1>1
<1>2. CASE t # s
  <2>1. PICK b \in ready : t \in UNION {Moves(u, b, "spot") : u \in After(b)}
    BY <1>2, Zenon DEF SendSuccessor
  <2>2. PICK u \in After(b) : t \in Moves(u, b, "spot")
    BY <2>1
  <2>3. \A c \in ready : c \in Attackers /\ s.man[c].st = "around"
    BY DEF In
  <2>4. Calm(s, u) /\ Listed(u) /\ u.man[b].st \in FieldStates
    <3>1. CASE u = s
      BY <1>0, <3>1, <2>3 DEF FieldStates
    <3>2. CASE u # s
      <4>1. PICK c \in ready \ {b} : u \in Moves(s, c, "spot")
        BY <2>2, <3>2
      <4>2. Calm(s, u) /\ Listed(u) /\ \A d \in Attackers \ {c} : u.man[d] = s.man[d]
        BY <2>3, <4>1, MovesAbout DEF FieldStates
      <4>3. u.man[b].st \in FieldStates
        BY <2>3, <4>1, <4>2 DEF FieldStates
      <4> QED BY <4>2, <4>3
    <3> QED BY <3>1, <3>2
  <2>5. Calm(u, t) /\ Listed(t)
    <3>1. u \in Scenes
      BY <2>4 DEF Calm
    <3> QED BY <2>2, <2>3, <2>4, <3>1, MovesAbout
  <2> QED BY <2>4, <2>5, CalmTransitive
<1> QED BY <1>1, <1>2
-----------------------------------------------------------------------------
(* The defender waits for somebody who is called to the flag, or goes in. *)

Defending(u, d, f) == [u EXCEPT !.def = d, !.foe = f]

Awaits(u, t) ==
  \E d \in {"from", "waiting"}, f \in Attackers \cup {NoFoe} :
    (d = "from" => f = NoFoe) /\ t = Defending(u, d, f)

LEMMA AttackerFound ==
  ASSUME NEW s \in Scenes, Listed(s), TakingBut(s, NoFoe), CountedBut(s, 0), ~s.capturing,
         \A a \in Attackers : s.man[a].st \notin AtFlagStates,
         NEW t \in FindAttackerNearBuilding(s)
  PROVE  Good(t) /\ Quiet(s, t)
<1> DEFINE ready == s.aggr \cap In(s, "around")
           AttackFlag(b) == {s} \cup SendSuccessor(Put(s, b, "toflag"))
           Told(b) == {[u EXCEPT !.def = "waiting", !.foe = b] : u \in AttackFlag(b)}
<1>1. PICK u : Calm(s, u) /\ Listed(u) /\ Awaits(u, t)
  <2>1. CASE ready = {}
    <3>1. t = Defending(s, "from", NoFoe) /\ Calm(s, s)
      BY <2>1 DEF FindAttackerNearBuilding, Calm, StaysPut, Defending
    <3>2. Awaits(s, t)
      BY <3>1 DEF Awaits
    <3> QED BY <3>1, <3>2
  <2>2. CASE ready # {}
    <3>1. PICK b \in ready : t \in Told(b)
      BY <2>2, Zenon DEF FindAttackerNearBuilding
    <3>2. PICK u \in AttackFlag(b) : t = Defending(u, "waiting", b)
      BY <3>1, Zenon DEF Defending
    <3>3. b \in Attackers /\ b \in s.aggr /\ s.man[b].st = "around"
      BY DEF In
    <3>4. Calm(s, u) /\ Listed(u)
      <4>1. CASE u = s
        BY <4>1 DEF Calm, StaysPut
      <4>2. CASE u \in SendSuccessor(Put(s, b, "toflag"))
        <5>1. Calm(s, Put(s, b, "toflag")) /\ Listed(Put(s, b, "toflag"))
          BY <3>3, Strolls DEF FieldStates
        <5>2. Put(s, b, "toflag") \in Scenes
          BY <5>1 DEF Calm
        <5>3. Calm(Put(s, b, "toflag"), u) /\ Listed(u)
          BY <4>2, <5>1, <5>2, Succeeded
        <5> QED BY <5>1, <5>3, CalmTransitive
      <4> QED BY <3>2, <4>1, <4>2
    <3>5. Awaits(u, t)
      BY <3>2, <3>3 DEF Awaits
    <3> QED BY <3>4, <3>5
  <2> QED BY <2>1, <2>2
<1> HIDE DEF ready, AttackFlag, Told
<1>2. u \in Scenes
  BY <1>1 DEF Calm
<1>0. PICK d \in {"from", "waiting"}, f \in Attackers \cup {NoFoe} :
        (d = "from" => f = NoFoe) /\ t = Defending(u, d, f)
  BY <1>1 DEF Awaits
<1>3. t \in Scenes /\ t.def = d /\ t.foe = f /\ t.man = u.man /\ t.aggr = u.aggr /\ t.far = u.far
      /\ t.owner = u.owner /\ t.capturing = u.capturing /\ t.entering = u.entering
  BY <1>0, <1>2 DEF Defending, Scenes, DefenderStates
<1>4. ~u.capturing /\ \A a \in Attackers : u.man[a].st \notin AtFlagStates
  BY <1>1 DEF Calm, StaysPut
<1>5. TakingBut(u, NoFoe) /\ CountedBut(u, 0)
  BY <1>1, CalmKeeps
<1>6. ListedBut(t, NoFoe)
  BY <1>1, <1>3 DEF Listed, ListedBut
<1>7. AtTheFlag(t)
  BY <1>0, <1>3, <1>4 DEF AtTheFlag, AtFlagStates
<1>8. TakingBut(t, NoFoe)
  <2>1. u.aggr \subseteq Attackers
    BY <1>2 DEF Scenes
  <2> QED BY <1>3, <1>4, <1>5, <2>1 DEF TakingBut, Filling
<1>9. CountedBut(t, 0)
  BY <1>3, <1>5 DEF CountedBut, WalkIns
<1>10. Quiet(s, t)
  BY <1>1, <1>3, CalmQuiet DEF Quiet
<1> QED BY <1>3, <1>6, <1>7, <1>8, <1>9, <1>10 DEF Good, GoodBut, Fought, Held

-----------------------------------------------------------------------------
(* Soldiers are called in, or the rest is dismissed. *)

Filled(s, t) ==
  /\ t.owner = s.owner
  /\ t.aggr \subseteq s.aggr /\ t.far \subseteq s.far \cup s.aggr
  /\ \A b \in Attackers : s.man[b].st \in {"next", "door"} \cup AtFlagStates => t.man[b] = s.man[b]
  /\ \A b \in Attackers : t.man[b].st = "door" => t.man[b] = s.man[b]

(* Nobody with this goal is at the flag, and nobody but x called in. *)
NobodyElse(s, x) ==
  /\ \A a \in Attackers : s.man[a].st \in AtFlagStates => ~s.man[a].goal
  /\ \A a \in Attackers \ {x} : s.man[a].st = "next" => ~s.man[a].goal
  /\ x \in Attackers => s.man[x].st \in {"next", "door"}

LEMMA CalledIn ==
  ASSUME NEW s, NEW x, NEW k \in Nat, GoodBut(s, x, k), NobodyElse(s, x), Filling(s),
         NEW b \in s.aggr, s.man[b].st = "around",
         NEW t, t = [Put(s, b, "next") EXCEPT !.entering = @ + 1]
  PROVE  GoodBut(t, x, k) /\ Filled(s, t)
<1> DEFINE m == [s.man[b] EXCEPT !.st = "next"]
<1>1. s \in Scenes /\ b \in Attackers
  BY DEF GoodBut, Scenes
<1>2. b # x
  BY <1>1 DEF NobodyElse
<1>3. s.man[b].goal /\ m \in Men /\ m.st = "next" /\ m.goal
  BY <1>1, <1>2 DEF GoodBut, ListedBut, Scenes, Men, ManStates
<1>4. t = [s EXCEPT !.man = [s.man EXCEPT ![b] = m], !.entering = @ + 1]
  BY <1>1 DEF Put, Scenes
<1> HIDE DEF m
<1>5. t \in Scenes /\ t.man = [s.man EXCEPT ![b] = m] /\ t.owner = s.owner /\ t.def = s.def
      /\ t.foe = s.foe /\ t.capturing = s.capturing /\ t.entering = s.entering + 1
      /\ t.troops = s.troops /\ t.aggr = s.aggr /\ t.far = s.far
  <2>1. s.entering + 1 \in Nat /\ [s.man EXCEPT ![b] = m] \in [Attackers -> Men]
    BY <1>1, <1>3 DEF Scenes
  <2> QED BY <1>1, <1>4, <2>1 DEF Scenes
<1>6. \A a \in Attackers : t.man[a] = IF a = b THEN m ELSE s.man[a]
  BY <1>1, <1>5 DEF Scenes
<1>7. ListedBut(t, x)
  BY <1>1, <1>3, <1>5, <1>6 DEF GoodBut, ListedBut
<1>8. AtTheFlag(t)
  <2> USE DEF AtTheFlag, AtFlagStates
  <2>1. \A a \in Attackers : t.man[a].st \in AtFlagStates => t.man[a] = s.man[a]
    BY <1>3, <1>6
  <2>2. \A a \in Attackers : s.man[a].st \in AtFlagStates => t.man[a] = s.man[a]
    BY <1>6
  <2> QED BY <1>5, <2>1, <2>2 DEF GoodBut
<1>9. Fought(t)
  BY <1>5, <1>6 DEF GoodBut, Fought
<1>10. Filling(t)
  <2>1. t.capturing
    BY <1>5 DEF Filling
  <2>2. \A a \in Attackers : t.man[a].st # "first"
    BY <1>3, <1>6 DEF Filling
  <2> QED BY <2>1, <2>2 DEF Filling
<1>11. TakingBut(t, x)
  BY <1>1, <1>3, <1>5, <1>6, <1>10 DEF GoodBut, TakingBut, NobodyElse
<1>12. CountedBut(t, k)
  <2>1. WalkIns(t) = WalkIns(s) \cup {b} /\ b \notin WalkIns(s)
    BY <1>1, <1>3, <1>6 DEF WalkIns
  <2>2. IsFiniteSet(WalkIns(s))
    BY FS_Subset, SiegeAssumption DEF WalkIns
  <2>3. Cardinality(WalkIns(t)) = Cardinality(WalkIns(s)) + 1 /\ Cardinality(WalkIns(s)) \in Nat
    BY <2>1, <2>2, FS_AddElement, FS_CardinalityType
  <2>4. s.entering \in Nat
    BY <1>1 DEF Scenes
  <2> QED BY <1>5, <2>3, <2>4 DEF GoodBut, CountedBut
<1>13. Held(t)
  BY <1>5, <1>6 DEF GoodBut, Held
<1>14. Filled(s, t)
  BY <1>3, <1>5, <1>6 DEF Filled, AtFlagStates
<1> QED BY <1>5, <1>7, <1>8, <1>9, <1>11, <1>12, <1>13, <1>14 DEF GoodBut
LEMMA FullMen ==
  ASSUME NEW s \in Scenes, NEW D, NEW b \in Attackers
  PROVE  /\ CapturedBuildingFull(s, D) \in [Attackers -> Men]
         /\ b \notin D => CapturedBuildingFull(s, D)[b] = s.man[b]
         /\ b \in D /\ s.man[b].st \in FieldStates =>
              /\ ~CapturedBuildingFull(s, D)[b].goal
              /\ CapturedBuildingFull(s, D)[b].st \in FieldStates \cup {"away"}
<1> DEFINE full(a) ==
             CASE a \in D /\ s.man[a].st = "around" -> Gone
               [] a \in D /\ s.man[a].st \in {"walking", "waiting", "toflag", "free"} ->
                    [s.man[a] EXCEPT !.goal = FALSE]
               [] OTHER -> s.man[a]
<1>1. CapturedBuildingFull(s, D) = [a \in Attackers |-> full(a)]
  BY DEF CapturedBuildingFull
<1>2. \A a \in Attackers : s.man[a] \in Men
  BY DEF Scenes
<1>3. \A a \in Attackers :
        /\ full(a) \in Men
        /\ a \notin D => full(a) = s.man[a]
        /\ a \in D /\ s.man[a].st \in FieldStates => ~full(a).goal /\ full(a).st \in FieldStates \cup {"away"}
  <2> SUFFICES ASSUME NEW a \in Attackers
               PROVE  /\ full(a) \in Men
                      /\ a \notin D => full(a) = s.man[a]
                      /\ a \in D /\ s.man[a].st \in FieldStates =>
                           ~full(a).goal /\ full(a).st \in FieldStates \cup {"away"}
    OBVIOUS
  <2>1. CASE a \in D /\ s.man[a].st = "around"
    BY <2>1, GoneIs
  <2>2. CASE a \in D /\ s.man[a].st \in {"walking", "waiting", "toflag", "free"}
    <3>1. full(a) = [s.man[a] EXCEPT !.goal = FALSE]
      BY <2>2
    <3> HIDE DEF full
    <3> QED BY <1>2, <2>2, <3>1 DEF Men
  <2>3. CASE ~(a \in D /\ s.man[a].st \in FieldStates \cup {"waiting"})
    <3>1. full(a) = s.man[a]
      BY <2>3 DEF FieldStates
    <3> HIDE DEF full
    <3> QED BY <1>2, <2>3, <3>1
  <2> QED BY <2>1, <2>2, <2>3 DEF FieldStates
<1> HIDE DEF full
<1> QED BY <1>1, <1>3

SentHome(s, kept, t) ==
  /\ t \in Scenes /\ t.owner = s.owner /\ t.def = s.def /\ t.foe = s.foe
  /\ t.entering = s.entering /\ ~t.capturing /\ (s.troops > 0 => t.troops > 0)
  /\ t.aggr = s.aggr \cap Entering(s) /\ t.far = s.far \cup kept
  /\ t.man = CapturedBuildingFull(s, s.aggr \ (kept \cup Entering(s)))

LEMMA DismissIs ==
  ASSUME NEW s \in Scenes, NEW kept \in SUBSET Attackers, NEW t \in Dismiss(s, kept)
  PROVE  SentHome(s, kept, t)
<1> DEFINE men == CapturedBuildingFull(s, s.aggr \ (kept \cup Entering(s)))
           u == [s EXCEPT !.aggr = @ \cap Entering(s), !.far = @ \cup kept, !.man = men]
<1>1. men \in [Attackers -> Men]
  BY FullMen DEF CapturedBuildingFull
<1>2. PICK v : (v = u \/ v \in RegulateTroops(u)) /\ t = [v EXCEPT !.capturing = FALSE]
  BY Zenon DEF Dismiss
<1> HIDE DEF men
<1>3. u \in Scenes /\ u.owner = s.owner /\ u.def = s.def /\ u.foe = s.foe
      /\ u.entering = s.entering /\ u.troops = s.troops
      /\ u.aggr = s.aggr \cap Entering(s) /\ u.far = s.far \cup kept /\ u.man = men
  BY <1>1 DEF Scenes
<1> HIDE DEF u
<1>4. v \in Scenes /\ v.owner = s.owner /\ v.def = s.def /\ v.foe = s.foe
      /\ v.entering = s.entering /\ (s.troops > 0 => v.troops > 0)
      /\ v.aggr = s.aggr \cap Entering(s) /\ v.far = s.far \cup kept /\ v.man = men
  <2>1. CASE v = u
    BY <1>3, <2>1
  <2>2. CASE v \in RegulateTroops(u)
    BY <1>3, <2>2, Regulated DEF Garrisoned, StaysPut
  <2> QED BY <1>2, <2>1, <2>2
<1> QED BY <1>2, <1>4 DEF SentHome, Scenes, men

LEMMA Dismissed ==
  ASSUME NEW s, NEW x, NEW k \in Nat, GoodBut(s, x, k), NobodyElse(s, x),
         NEW kept \in SUBSET FarAwayCapturers(s), NEW t \in Dismiss(s, kept)
  PROVE  GoodBut(t, x, k) /\ Filled(s, t)
<1> DEFINE D == s.aggr \ (kept \cup Entering(s))
<1>1. s \in Scenes /\ s.aggr \subseteq Attackers
  BY DEF GoodBut, Scenes
<1>2. \A b \in kept : b \in s.aggr /\ s.man[b].st \in FieldStates /\ b \notin Entering(s)
  BY DEF FarAwayCapturers, Entering, In, FieldStates
<1>3. kept \in SUBSET Attackers
  BY <1>1, <1>2
<1>4. \A b \in Attackers : b \in Entering(s) <=> s.man[b].st \in {"next", "door"}
  BY DEF Entering, In
<1>5. t \in Scenes /\ t.owner = s.owner /\ t.def = s.def /\ t.foe = s.foe
      /\ t.entering = s.entering /\ ~t.capturing /\ (s.troops > 0 => t.troops > 0)
      /\ t.aggr = s.aggr \cap Entering(s) /\ t.far = s.far \cup kept
      /\ t.man = CapturedBuildingFull(s, D)
  <2>1. SentHome(s, kept, t)
    BY <1>1, <1>3, DismissIs
  <2> QED BY <2>1 DEF SentHome
<1>6. \A b \in D : b \in Attackers /\ s.man[b].st \in FieldStates
  <2> SUFFICES ASSUME NEW b \in D PROVE b \in Attackers /\ s.man[b].st \in FieldStates
    OBVIOUS
  <2>1. b \in Attackers /\ s.man[b].st \notin {"next", "door"}
    BY <1>1, <1>4
  <2>2. b # x
    BY <2>1 DEF NobodyElse
  <2>3. s.man[b].goal
    BY <2>1, <2>2 DEF GoodBut, ListedBut
  <2>4. s.man[b].st \notin AtFlagStates \cup {"away"}
    BY <2>1, <2>3 DEF GoodBut, ListedBut, NobodyElse
  <2>5. s.man[b].st \in ManStates
    BY <1>1, <2>1 DEF Scenes, Men
  <2> QED BY <2>1, <2>4, <2>5 DEF ManStates, AtFlagStates, FieldStates
<1>7. \A b \in Attackers : b \notin D => t.man[b] = s.man[b]
  BY <1>1, <1>5, FullMen
<1>8. \A b \in Attackers : b \in D => ~t.man[b].goal /\ t.man[b].st \in FieldStates \cup {"away"}
  BY <1>1, <1>5, <1>6, FullMen
<1>9. \A b \in Attackers : b \in D <=> b \in s.aggr /\ b \notin kept /\ b \notin Entering(s)
  OBVIOUS
<1> HIDE DEF D
<1>10. \A b \in Attackers :
         s.man[b].st \in {"next", "door"} \cup AtFlagStates
           \/ t.man[b].st \in {"next", "door"} \cup AtFlagStates => t.man[b] = s.man[b]
  BY <1>6, <1>7, <1>8 DEF FieldStates, AtFlagStates
<1>11. x \in Attackers => x \in Entering(s)
  BY <1>4 DEF NobodyElse
<1>12. ListedBut(t, x)
  <2>1. \A b \in Attackers \ {x} : t.man[b].goal <=> b \in t.aggr \cup t.far
    <3> SUFFICES ASSUME NEW b \in Attackers \ {x}
                 PROVE  t.man[b].goal <=> b \in t.aggr \cup t.far
      OBVIOUS
    <3>1. s.man[b].goal <=> b \in s.aggr \cup s.far
      BY DEF GoodBut, ListedBut
    <3>2. b \in D => b \notin s.far
      BY <1>9 DEF GoodBut, ListedBut
    <3>3. CASE b \in D
      BY <1>5, <1>8, <1>9, <3>2, <3>3
    <3>4. CASE b \notin D
      BY <1>2, <1>5, <1>7, <1>9, <3>1, <3>4
    <3> QED BY <3>3, <3>4
  <2>2. t.aggr \cap t.far = {}
    BY <1>2, <1>5 DEF GoodBut, ListedBut
  <2>3. t.owner = Nobody => \A b \in Attackers : ~t.man[b].goal
    BY <1>5, <1>7, <1>8 DEF GoodBut, ListedBut
  <2>4. \A b \in Attackers : t.man[b].st = "away" => ~t.man[b].goal
    BY <1>7, <1>8 DEF GoodBut, ListedBut
  <2>5. \A b \in Attackers \ {x} : t.man[b].st = "toflag" /\ t.man[b].goal => b \in t.aggr
    <3> SUFFICES ASSUME NEW b \in Attackers \ {x}, t.man[b].st = "toflag", t.man[b].goal
                 PROVE  FALSE
      OBVIOUS
    <3>1. b \notin D /\ t.man[b] = s.man[b]
      BY <1>7, <1>8
    <3>2. b \in s.aggr
      BY <3>1 DEF GoodBut, ListedBut
    <3>3. b \in kept
      BY <1>4, <1>9, <3>1, <3>2
    <3> QED BY <3>1, <3>3 DEF FarAwayCapturers
  <2> QED BY <2>1, <2>2, <2>3, <2>4, <2>5 DEF ListedBut
<1>13. AtTheFlag(t)
  <2> USE DEF AtTheFlag, AtFlagStates
  <2>1. \A a \in Attackers : t.man[a].st \in AtFlagStates => t.man[a] = s.man[a]
    BY <1>10
  <2>2. \A a \in Attackers : s.man[a].st \in AtFlagStates => t.man[a] = s.man[a]
    BY <1>10
  <2> QED BY <1>5, <2>1, <2>2 DEF GoodBut
<1>14. Fought(t)
  BY <1>5, <1>10 DEF GoodBut, Fought, AtFlagStates
<1>15. TakingBut(t, x)
  <2>1. \A b \in Attackers : t.man[b].st = "first" => ~t.man[b].goal
    BY <1>10 DEF NobodyElse, AtFlagStates
  <2>2. \A b \in Attackers \ {x} : t.man[b].st = "next" => ~t.man[b].goal
    BY <1>10 DEF NobodyElse
  <2>3. \A b \in t.aggr : t.man[b].st \in {"next", "door"}
    BY <1>1, <1>4, <1>5, <1>10
  <2> QED BY <1>5, <2>1, <2>2, <2>3 DEF TakingBut
<1>16. CountedBut(t, k)
  <2>1. WalkIns(t) = WalkIns(s)
    BY <1>10 DEF WalkIns, AtFlagStates
  <2> QED BY <1>5, <2>1 DEF GoodBut, CountedBut
<1>17. Held(t)
  <2>1. s.troops \in Nat /\ t.troops \in Nat
    BY <1>1, <1>5 DEF Scenes
  <2>2. \A b \in Attackers : s.man[b].st = "first" => ~s.man[b].goal
    BY DEF NobodyElse, AtFlagStates
  <2> QED BY <1>5, <2>1, <2>2 DEF GoodBut, Held
<1>18. Filled(s, t)
  <2>1. \A b \in Attackers : t.man[b].st = "door" => t.man[b] = s.man[b]
    BY <1>10
  <2>2. t.far \subseteq s.far \cup s.aggr
    BY <1>2, <1>5
  <2> QED BY <1>5, <1>10, <2>1, <2>2 DEF Filled
<1> QED BY <1>5, <1>12, <1>13, <1>14, <1>15, <1>16, <1>17, <1>18 DEF GoodBut

(* While the building is filled, or when its owner's man comes in although *)
(* it is not being filled.                                                 *)
LEMMA TroopsNeeded ==
  ASSUME NEW s, NEW x, NEW k \in Nat, GoodBut(s, x, k), NobodyElse(s, x),
         NEW p, Filling(s) \/ (p \in Players /\ p = s.owner),
         NEW t \in NeedOccupyingTroops(s, p)
  PROVE  GoodBut(t, x, k) /\ Filled(s, t)
<1> DEFINE coming == s.troops + s.entering + s.queued + s.out + s.ordered
           ready == {b \in s.aggr \cap In(s, "around") : p \in {Party[b], Anyone}}
           Called(b) == [Put(s, b, "next") EXCEPT !.entering = @ + 1]
           kept == {F \in SUBSET FarAwayCapturers(s) :
                      F = {} \/ Cardinality(F) + coming + Cardinality(s.far) <= s.need}
<1>1. \/ \E b \in ready : t = Called(b)
      \/ \E F \in kept : t \in Dismiss(s, F)
      \/ \E u \in Dismiss(s, {}) : t \in RegulateTroops(u)
  <2>1. CASE s.need > coming
    <3>1. t \in {Called(b) : b \in ready} \cup UNION {Dismiss(s, F) : F \in kept}
      BY <2>1, Zenon DEF NeedOccupyingTroops
    <3> HIDE DEF ready, kept, coming
    <3> QED BY <3>1, Zenon
  <2>2. CASE ~(s.need > coming)
    <3>1. t \in UNION {RegulateTroops(u) : u \in Dismiss(s, {})}
      BY <2>2, Zenon DEF NeedOccupyingTroops
    <3> HIDE DEF ready, kept, coming
    <3> QED BY <3>1, Zenon
  <2> QED BY <2>1, <2>2
<1>2. CASE \E b \in ready : t = Called(b)
  <2>1. PICK b \in ready : t = Called(b)
    BY <1>2
  <2>2. b \in s.aggr /\ b \in Attackers /\ s.man[b].st = "around" /\ p \in {Party[b], Anyone}
    BY <2>1 DEF In
  <2>3. Filling(s)
    <3> SUFFICES ASSUME p \in Players, p = s.owner PROVE Filling(s)
      OBVIOUS
    <3>1. Party[b] = s.owner
      BY <2>2, SiegeAssumption
    <3> QED BY <2>2, <3>1 DEF GoodBut, TakingBut
  <2> HIDE DEF ready
  <2> QED BY <2>1, <2>2, <2>3, CalledIn
<1>3. CASE \E F \in kept : t \in Dismiss(s, F)
  <2>1. PICK F \in SUBSET FarAwayCapturers(s) : t \in Dismiss(s, F)
    BY <1>3
  <2> QED BY <2>1, Dismissed
<1>4. CASE \E u \in Dismiss(s, {}) : t \in RegulateTroops(u)
  <2>1. PICK u \in Dismiss(s, {}) : t \in RegulateTroops(u)
    BY <1>4
  <2>2. GoodBut(u, x, k) /\ Filled(s, u) /\ u \in Scenes
    <3>1. {} \in SUBSET FarAwayCapturers(s)
      OBVIOUS
    <3> QED BY <2>1, <3>1, Dismissed DEF GoodBut
  <2>3. Garrisoned(u, t)
    BY <2>1, <2>2, Regulated
  <2>4. Calm(u, t) /\ ListedBut(t, x)
    BY <2>2, <2>3, GarrisonCalm DEF GoodBut
  <2>5. GoodBut(t, x, k)
    BY <2>2, <2>4, CalmKeeps DEF GoodBut, Calm
  <2>6. Filled(s, t)
    BY <2>2, <2>3 DEF Filled, Garrisoned, StaysPut
  <2> QED BY <2>5, <2>6
<1> QED BY <1>1, <1>2, <1>3, <1>4
-----------------------------------------------------------------------------
(* An attacker reaches the flag. *)

ManPut(s, a, st, t) ==
  /\ t \in Scenes /\ t.owner = s.owner /\ t.def = s.def /\ t.foe = s.foe
  /\ t.capturing = s.capturing /\ t.entering = s.entering /\ t.troops = s.troops
  /\ t.aggr = s.aggr /\ t.far = s.far
  /\ t.man[a].st = st /\ (t.man[a].goal <=> s.man[a].goal)
  /\ \A b \in Attackers \ {a} : t.man[b] = s.man[b]

LEMMA PutIs ==
  ASSUME NEW s \in Scenes, NEW a \in Attackers, NEW st \in ManStates
  PROVE  ManPut(s, a, st, Put(s, a, st))
<1> DEFINE m == [s.man[a] EXCEPT !.st = st]
<1>1. m \in Men /\ m.st = st /\ m.goal = s.man[a].goal
  BY DEF Scenes, Men
<1>2. Put(s, a, st) = [s EXCEPT !.man = [s.man EXCEPT ![a] = m]]
  BY DEF Put, Scenes
<1> HIDE DEF m
<1>3. [s.man EXCEPT ![a] = m] \in [Attackers -> Men] /\ [s.man EXCEPT ![a] = m][a] = m
      /\ \A b \in Attackers \ {a} : [s.man EXCEPT ![a] = m][b] = s.man[b]
  BY <1>1 DEF Scenes
<1> DEFINE men == [s.man EXCEPT ![a] = m]
<1> HIDE DEF men
<1>4. men \in [Attackers -> Men] /\ men[a] = m /\ \A b \in Attackers \ {a} : men[b] = s.man[b]
  BY <1>3 DEF men
<1>5. Put(s, a, st) = [s EXCEPT !.man = men]
  BY <1>2 DEF men
<1>6. Put(s, a, st) \in Scenes /\ Put(s, a, st).man = men
  BY <1>4, <1>5 DEF Scenes
<1> QED BY <1>1, <1>4, <1>5, <1>6 DEF ManPut, Scenes

FlagFree(s) ==
  ~s.capturing /\ s.def \notin {"waiting", "fighting"}
    /\ \A b \in Attackers : s.man[b].st # "waiting"

LEMMA NobodyAtFlag ==
  ASSUME NEW s, Good(s), FlagFree(s), s.owner # Nobody
  PROVE  /\ \A b \in Attackers : s.man[b].st \notin AtFlagStates
         /\ \A b \in Attackers : s.man[b].st = "next" => ~s.man[b].goal
         /\ s.def \in {"none", "from"} /\ (s.def = "from" => s.foe = NoFoe)
         /\ s.troops = 0 => s.def # "none"
<1>1. s \in Scenes /\ NoFoe \notin Attackers
  BY SiegeAssumption DEF Good, GoodBut
<1>2. \A b \in Attackers : s.man[b].st \notin AtFlagStates
  BY DEF FlagFree, Good, GoodBut, AtTheFlag, AtFlagStates, TakingBut
<1>3. \A b \in Attackers : s.man[b].st = "next" => ~s.man[b].goal
  BY <1>1 DEF FlagFree, Good, GoodBut, TakingBut, Filling
<1>4. s.def \in DefenderStates
  BY <1>1 DEF Scenes
<1>5. s.def \in {"none", "from"} /\ (s.def = "from" => s.foe = NoFoe)
  BY <1>4 DEF DefenderStates, FlagFree, Good, GoodBut, AtTheFlag
<1>6. s.troops = 0 => s.def # "none"
  BY <1>2 DEF Good, GoodBut, Held, AtFlagStates
<1> QED BY <1>2, <1>3, <1>5, <1>6

LEMMA HisOwnBuilding ==
  ASSUME NEW s, Good(s), NEW a \in Attackers, s.man[a].st = "walking", s.man[a].goal,
         FlagFree(s), s.owner = Party[a], NEW t \in AtFlag(s, a)
  PROVE  Good(t) /\ SameOwner(s, t)
<1> DEFINE d == Put(s, a, "door")
<1>1. s \in Scenes /\ NoFoe \notin Attackers /\ Nobody \notin Players /\ Party[a] \in Players
  BY SiegeAssumption DEF Good, GoodBut
<1>2. /\ \A b \in Attackers : s.man[b].st \notin AtFlagStates
      /\ \A b \in Attackers : s.man[b].st = "next" => ~s.man[b].goal
      /\ s.def \in {"none", "from"} /\ (s.def = "from" => s.foe = NoFoe)
      /\ s.troops = 0 => s.def # "none"
  BY <1>1, NobodyAtFlag
<1>3. a \in s.far
  BY <1>1 DEF FlagFree, Filling, Good, GoodBut, TakingBut, ListedBut
<1>4. ManPut(s, a, "door", d) /\ d.man[a].goal
  <2>1. "door" \in ManStates
    BY DEF ManStates
  <2>2. ManPut(s, a, "door", d)
    BY <1>1, <2>1, PutIs
  <2> QED BY <2>2 DEF ManPut
<1>5. PICK u \in NeedOccupyingTroops(d, Party[a]) :
        t = [u EXCEPT !.far = @ \ {a}, !.aggr = @ \cup {a}, !.entering = @ + 1]
  BY Zenon DEF AtFlag
<1> HIDE DEF d
<1> USE DEF ManPut
<1>6. GoodBut(d, NoFoe, 1)
  <2>1. ListedBut(d, NoFoe)
    BY <1>4 DEF Good, GoodBut, ListedBut
  <2>2. \A b \in Attackers : d.man[b].st \notin AtFlagStates
    BY <1>2, <1>4 DEF AtFlagStates
  <2>3. AtTheFlag(d)
    BY <1>2, <1>4, <2>2 DEF AtTheFlag, AtFlagStates
  <2>4. Fought(d) /\ Held(d)
    BY <1>2, <1>4 DEF Fought, Held
  <2>5. TakingBut(d, NoFoe)
    <3>1. s.aggr \subseteq Attackers
      BY <1>1 DEF Scenes
    <3>2. \A b \in Attackers : d.man[b].st = "next" => ~d.man[b].goal
      BY <1>2, <1>4
    <3>3. \A b \in d.aggr : d.man[b].st \notin {"next", "door"} /\ Party[b] = d.owner => Filling(d)
      BY <1>4, <3>1 DEF Good, GoodBut, TakingBut, Filling, FlagFree
    <3> QED BY <1>4, <2>2, <3>2, <3>3 DEF TakingBut, AtFlagStates, FlagFree
  <2>6. CountedBut(d, 1)
    <3>1. WalkIns(d) = WalkIns(s) \cup {a} /\ a \notin WalkIns(s)
      BY <1>4 DEF WalkIns
    <3>2. IsFiniteSet(WalkIns(s))
      BY FS_Subset, SiegeAssumption DEF WalkIns
    <3>3. Cardinality(WalkIns(d)) = Cardinality(WalkIns(s)) + 1 /\ Cardinality(WalkIns(s)) \in Nat
      BY <3>1, <3>2, FS_AddElement, FS_CardinalityType
    <3>4. s.entering \in Nat /\ Cardinality(WalkIns(s)) <= s.entering + 0
      BY <1>1 DEF Scenes, Good, GoodBut, CountedBut
    <3> QED BY <1>4, <3>3, <3>4 DEF CountedBut
  <2> QED BY <1>4, <2>1, <2>3, <2>4, <2>5, <2>6 DEF GoodBut
<1>7. NobodyElse(d, NoFoe)
  BY <1>1, <1>2, <1>4 DEF NobodyElse, AtFlagStates
<1>8. GoodBut(u, NoFoe, 1) /\ Filled(d, u)
  BY <1>1, <1>4, <1>5, <1>6, <1>7, TroopsNeeded
<1>9. u.man[a].st = "door" /\ u.man[a].goal
  BY <1>4, <1>8 DEF Filled
<1>10. u \in Scenes /\ u.entering + 1 \in Nat
  BY <1>8 DEF GoodBut, Scenes
<1>11. t \in Scenes /\ t.man = u.man /\ t.owner = u.owner /\ t.def = u.def /\ t.foe = u.foe
       /\ t.capturing = u.capturing /\ t.troops = u.troops /\ t.entering = u.entering + 1
       /\ t.aggr = u.aggr \cup {a} /\ t.far = u.far \ {a}
  BY <1>5, <1>10 DEF Scenes
<1>12. Good(t)
  <2>1. ListedBut(t, NoFoe)
    BY <1>8, <1>9, <1>11 DEF GoodBut, ListedBut
  <2>2. AtTheFlag(t)
    BY <1>8, <1>11 DEF GoodBut, AtTheFlag
  <2>3. Fought(t) /\ Held(t)
    BY <1>8, <1>11 DEF GoodBut, Fought, Held
  <2>4. TakingBut(t, NoFoe)
    BY <1>8, <1>9, <1>11 DEF GoodBut, TakingBut, Filling
  <2>5. CountedBut(t, 0)
    <3>1. WalkIns(t) = WalkIns(u)
      BY <1>11 DEF WalkIns
    <3>2. Cardinality(WalkIns(u)) <= u.entering + 1
      BY <1>8 DEF GoodBut, CountedBut
    <3> QED BY <1>10, <1>11, <3>1, <3>2 DEF CountedBut
  <2> QED BY <1>11, <2>1, <2>2, <2>3, <2>4, <2>5 DEF Good, GoodBut
<1>13. SameOwner(s, t)
  <2>1. t.owner = s.owner
    BY <1>4, <1>8, <1>11 DEF Filled
  <2>2. \A b \in Attackers : t.man[b].st = "door" => b = a \/ t.man[b] = s.man[b]
    BY <1>4, <1>8, <1>11 DEF Filled
  <2> QED BY <1>3, <2>1, <2>2 DEF SameOwner
<1> QED BY <1>12, <1>13

LEMMA EnemyBuilding ==
  ASSUME NEW s, Good(s), NEW a \in Attackers, s.man[a].st = "walking", s.man[a].goal,
         FlagFree(s), s.owner # Party[a], NEW t \in AtFlag(s, a)
  PROVE  Good(t) /\ SameOwner(s, t)
<1> DEFINE Arrived(u) == Put(u, a, IF u.def # "none" THEN "waiting" ELSE "first")
<1>1. s \in Scenes /\ NoFoe \notin Attackers
  BY SiegeAssumption DEF Good, GoodBut
<1>0. s.owner # Nobody
  BY DEF Good, GoodBut, ListedBut
<1>2. /\ \A b \in Attackers : s.man[b].st \notin AtFlagStates
      /\ \A b \in Attackers : s.man[b].st = "next" => ~s.man[b].goal
      /\ s.def \in {"none", "from"} /\ (s.def = "from" => s.foe = NoFoe)
      /\ s.troops = 0 => s.def # "none"
  BY <1>0, NobodyAtFlag
<1>3. PICK u \in CallDefender(s, a) : t = Arrived(u)
  BY Zenon DEF AtFlag
<1> HIDE DEF Arrived
<1>4. /\ u \in Scenes /\ u.owner = s.owner /\ u.capturing = s.capturing
      /\ u.entering = s.entering /\ u.man = s.man /\ u.aggr = s.aggr /\ u.far = s.far
      /\ u.def \in {"to", "from"} /\ u.foe = a
  BY <1>1, <1>2, <1>3, DefenderCalled
<1>5. t = Put(u, a, "waiting")
  BY <1>3, <1>4 DEF Arrived
<1>6. /\ t \in Scenes /\ t.owner = s.owner /\ t.def = u.def /\ t.foe = a
      /\ t.capturing = s.capturing /\ t.entering = s.entering
      /\ t.aggr = s.aggr /\ t.far = s.far /\ t.man[a].st = "waiting" /\ t.man[a].goal
      /\ \A b \in Attackers \ {a} : t.man[b] = s.man[b]
  <2>1. "waiting" \in ManStates
    BY DEF ManStates
  <2>2. ManPut(u, a, "waiting", t)
    BY <1>4, <1>5, <2>1, PutIs
  <2> QED BY <1>4, <2>2 DEF ManPut
<1>7. ListedBut(t, NoFoe)
  BY <1>6 DEF Good, GoodBut, ListedBut
<1>8. AtTheFlag(t)
  BY <1>2, <1>4, <1>6 DEF AtTheFlag, AtFlagStates
<1>9. TakingBut(t, NoFoe)
  <2>1. s.aggr \subseteq Attackers
    BY <1>1 DEF Scenes
  <2>2. \A b \in t.aggr : t.man[b].st \notin {"next", "door"} => Party[b] # t.owner
    BY <1>6, <2>1 DEF Good, GoodBut, TakingBut, Filling, FlagFree
  <2>3. \A b \in Attackers : t.man[b].st = "next" => ~t.man[b].goal
    BY <1>2, <1>6
  <2>4. \A b \in Attackers : t.man[b].st # "first"
    BY <1>2, <1>6 DEF AtFlagStates
  <2> QED BY <1>6, <2>2, <2>3, <2>4 DEF TakingBut, FlagFree
<1>10. CountedBut(t, 0)
  <2>1. WalkIns(t) = WalkIns(s)
    BY <1>6 DEF WalkIns
  <2> QED BY <1>6, <2>1 DEF Good, GoodBut, CountedBut
<1>11. Fought(t) /\ Held(t)
  BY <1>4, <1>6 DEF Fought, Held
<1>12. SameOwner(s, t)
  BY <1>6 DEF SameOwner
<1> QED BY <1>6, <1>7, <1>8, <1>9, <1>10, <1>11, <1>12 DEF Good, GoodBut

LEMMA MissesNothing ==
  ASSUME NEW s, Good(s), NEW a \in Attackers, s.man[a].st = "walking",
         NEW at \in {"elsewhere", "spot", "flag"}, NEW t \in MissAttackingWalk(s, a, at)
  PROVE  Good(t) /\ SameOwner(s, t)
<1>1. s \in Scenes /\ Listed(s)
  BY DEF Good, GoodBut, Listed
<1>2. CASE s.man[a].home /\ s.man[a].goal /\ at = "flag" /\ "flag" \in PlacesFor(s)
  <2>1. FlagFree(s) /\ t \in AtFlag(s, a)
    <3>1. s.def \notin {"waiting", "fighting"} /\ In(s, "waiting") = {} /\ ~s.capturing
      BY <1>2 DEF PlacesFor
    <3>2. PlacesFor(s) = {"flag"}
      BY <3>1 DEF PlacesFor
    <3>3. t \in AtFlag(s, a)
      BY <1>2, <3>2 DEF MissAttackingWalk
    <3> QED BY <3>1, <3>3 DEF FlagFree, In
  <2> QED BY <1>2, <2>1, HisOwnBuilding, EnemyBuilding
<1>3. CASE ~(s.man[a].home /\ s.man[a].goal /\ at = "flag" /\ "flag" \in PlacesFor(s))
  <2>1. t \in MissAttackingWalk(s, a, "elsewhere") \/ t \in MissAttackingWalk(s, a, "spot")
    BY <1>3 DEF MissAttackingWalk, PlacesFor
  <2>2. Calm(s, t) /\ Listed(t)
    BY <1>1, <2>1, LooksForAPlace
  <2> QED BY <2>2, CalmGood, CalmOwner
<1> QED BY <1>2, <1>3
-----------------------------------------------------------------------------
(* The events, on scenes. *)

LEMMA GoodScene ==
  ASSUME NEW s, Good(s), NEW x
  PROVE  /\ s \in Scenes /\ Listed(s) /\ AtTheFlag(s) /\ Fought(s) /\ TakingBut(s, NoFoe)
         /\ CountedBut(s, 0) /\ Held(s) /\ ListedBut(s, x) /\ TakingBut(s, x)
<1>1. Attackers \ {NoFoe} = Attackers
  BY SiegeAssumption
<1> QED BY <1>1 DEF Good, GoodBut, Listed, ListedBut, TakingBut

LEMMA LeftQuiet ==
  ASSUME NEW s \in Scenes, NEW a \in Attackers, NEW t, Left(s, a, t)
  PROVE  Quiet(s, t)
BY LeftMen, GoneIs DEF Left, StaysPut, Quiet

(* Who leaves from the field, or on his way in, or without a goal. *)
LEMMA LeavesGood ==
  ASSUME NEW s, Good(s), NEW a \in Attackers,
         s.man[a].st \in FieldStates \cup {"next", "door"} \/ (s.man[a].st = "first" /\ ~s.man[a].goal),
         NEW t \in Leave(s, a)
  PROVE  Good(t) /\ Quiet(s, t)
<1>1. s \in Scenes /\ Listed(s) /\ AtTheFlag(s) /\ Fought(s) /\ CountedBut(s, 0) /\ Held(s)
      /\ ListedBut(s, a) /\ TakingBut(s, a)
  BY GoodScene
<1>2. Left(s, a, t)
  BY <1>1, ListedLeaves
<1> QED BY <1>1, <1>2, LeftGood, LeftQuiet

(* HomeDestroyed of somebody who stands around. *)
LEMMA SucceededGood ==
  ASSUME NEW s, Good(s), NEW a \in Attackers, s.man[a].st = "around",
         NEW u \in UnlinkAggressor(s, a), NEW t \in SendSuccessor(Depart(u, a))
  PROVE  Good(t) /\ Quiet(s, t)
<1> DEFINE v == Depart(u, a)
<1>1. s \in Scenes /\ Listed(s) /\ ListedBut(s, a)
  BY GoodScene
<1>2. /\ u \in Scenes /\ StaysPut(s, u)
      /\ u.man = s.man /\ u.aggr = s.aggr \ {a} /\ u.far = s.far \ {a}
  BY <1>1, Unlinked
<1>3. Left(s, a, v)
  BY <1>2, Departed DEF Left, StaysPut
<1>4. Calm(s, v) /\ Listed(v) /\ v \in Scenes
  BY <1>1, <1>3, LeftCalm, LeftListed DEF FieldStates, Calm
<1> HIDE DEF v
<1>5. Calm(v, t) /\ Listed(t)
  BY <1>4, Succeeded DEF v
<1>6. Calm(s, t)
  BY <1>1, <1>4, <1>5, CalmTransitive
<1> QED BY <1>5, <1>6, CalmGood, CalmQuiet

(* The home of an attacker is no more. *)
Homeless(s, a) == [s EXCEPT !.man = [s.man EXCEPT ![a] = [s.man[a] EXCEPT !.home = FALSE]]]

LEMMA HomelessGood ==
  ASSUME NEW s, Good(s), NEW a \in Attackers
  PROVE  Good(Homeless(s, a)) /\ Quiet(s, Homeless(s, a))
<1> DEFINE t == Homeless(s, a)
<1>1. s \in Scenes
  BY GoodScene
<1>2. /\ t \in Scenes /\ t.owner = s.owner /\ t.troops = s.troops /\ t.def = s.def /\ t.foe = s.foe
      /\ t.capturing = s.capturing /\ t.entering = s.entering /\ t.aggr = s.aggr /\ t.far = s.far
      /\ t.man = [s.man EXCEPT ![a] = [s.man[a] EXCEPT !.home = FALSE]]
  BY <1>1 DEF Homeless, Scenes, Men
<1>3. \A b \in Attackers : t.man[b].st = s.man[b].st /\ (t.man[b].goal <=> s.man[b].goal)
  BY <1>1, <1>2 DEF Scenes, Men
<1> HIDE DEF t
<1>4. ListedBut(t, NoFoe)
  BY <1>2, <1>3 DEF Good, GoodBut, ListedBut
<1>5. AtTheFlag(t)
  BY <1>1, <1>2, <1>3 DEF Good, GoodBut, AtTheFlag, Scenes
<1>6. TakingBut(t, NoFoe)
  BY <1>1, <1>2, <1>3 DEF Good, GoodBut, TakingBut, Filling, Scenes
<1>7. WalkIns(t) = WalkIns(s)
  BY <1>3 DEF WalkIns
<1>8. Fought(t) /\ Held(t) /\ CountedBut(t, 0)
  BY <1>2, <1>3, <1>7 DEF Good, GoodBut, Fought, Held, CountedBut
<1>9. Good(t) /\ Quiet(s, t)
  BY <1>2, <1>3, <1>4, <1>5, <1>6, <1>8 DEF Good, GoodBut, Quiet
<1> QED BY <1>9 DEF t

(* An attacker and the defender meet at the flag. *)
Fights(s, a) == [Put(s, a, "fighting") EXCEPT !.def = "fighting"]

LEMMA FightsGood ==
  ASSUME NEW s, Good(s), NEW a \in Attackers, s.man[a].st \in {"toflag", "waiting"}, s.man[a].goal,
         ~s.capturing, Party[a] # s.owner,
         \A b \in Attackers \ {a} : s.man[b].st \notin AtFlagStates
  PROVE  Good(Fights(s, a)) /\ Quiet(s, Fights(s, a))
<1> DEFINE t == Fights(s, a)
<1>1. s \in Scenes /\ Listed(s) /\ AtTheFlag(s) /\ TakingBut(s, NoFoe) /\ CountedBut(s, 0)
  BY GoodScene
<1>2. /\ t \in Scenes /\ t.owner = s.owner /\ t.def = "fighting" /\ t.foe = s.foe
      /\ t.capturing = s.capturing /\ t.entering = s.entering /\ t.aggr = s.aggr /\ t.far = s.far
      /\ t.man[a].st = "fighting" /\ t.man[a].goal /\ \A b \in Attackers \ {a} : t.man[b] = s.man[b]
  <2>1. ManPut(s, a, "fighting", Put(s, a, "fighting"))
    BY <1>1, PutIs DEF ManStates
  <2> QED BY <2>1 DEF ManPut, Fights, Scenes, DefenderStates
<1> HIDE DEF t
<1>3. ListedBut(t, NoFoe)
  BY <1>1, <1>2 DEF Listed, ListedBut
<1>4. AtTheFlag(t)
  BY <1>1, <1>2 DEF AtTheFlag, AtFlagStates
<1>5. TakingBut(t, NoFoe)
  <2>1. s.aggr \subseteq Attackers
    BY <1>1 DEF Scenes
  <2> QED BY <1>1, <1>2, <2>1 DEF TakingBut, Filling
<1>6. WalkIns(t) = WalkIns(s)
  BY <1>2 DEF WalkIns
<1>7. Good(t) /\ Quiet(s, t)
  BY <1>1, <1>2, <1>3, <1>4, <1>5, <1>6 DEF Good, GoodBut, Fought, Held, CountedBut, Quiet
<1> QED BY <1>7 DEF t

(* WalkToFlag: he reaches the defender who waits there. *)
LEMMA WaitedFor ==
  ASSUME NEW s, Good(s), NEW a \in Attackers, s.man[a].st = "toflag", s.man[a].goal, s.def = "waiting"
  PROVE  Good(Fights(s, a)) /\ Quiet(s, Fights(s, a))
<1>1. s \in Scenes /\ Listed(s) /\ AtTheFlag(s) /\ TakingBut(s, NoFoe)
  BY GoodScene
<1>2. a \in s.aggr /\ ~s.capturing
  BY <1>1, SiegeAssumption DEF Listed, ListedBut, TakingBut
<1>3. Party[a] # s.owner
  BY <1>1, <1>2 DEF TakingBut, Filling
<1> QED BY <1>1, <1>2, <1>3, FightsGood DEF AtTheFlag

(* DefenderAtFlag: his man waits for him. *)
LEMMA Awaited ==
  ASSUME NEW s, Good(s), s.def = "to"
  PROVE  /\ s.foe \in Attackers
         /\ Good(Fights(s, s.foe)) /\ Quiet(s, Fights(s, s.foe))
<1>1. AtTheFlag(s) /\ TakingBut(s, NoFoe)
  BY GoodScene
<1>2. s.foe \in Attackers /\ s.man[s.foe].st = "waiting" /\ s.man[s.foe].goal /\ Party[s.foe] # s.owner
  BY <1>1 DEF AtTheFlag, AtFlagStates
<1>3. ~s.capturing /\ \A b \in Attackers \ {s.foe} : s.man[b].st \notin AtFlagStates
  BY <1>1, <1>2 DEF AtTheFlag, TakingBut, AtFlagStates
<1> QED BY <1>2, <1>3, FightsGood

(* WalkToFlag: the defender does not wait there any more. *)
LEMMA ToTheFlag ==
  ASSUME NEW s, Good(s), NEW a \in Attackers, s.man[a].st \in FieldStates,
         NEW at \in {"elsewhere", "spot", "flag"}, NEW t \in Moves(s, a, at)
  PROVE  Good(t) /\ (s.man[a].st # "walking" => SameOwner(s, t))
<1> DEFINE u == Put(s, a, "walking")
<1>1. s \in Scenes /\ Listed(s)
  BY GoodScene
<1>2. Calm(s, u) /\ Listed(u)
  BY <1>1, Strolls DEF FieldStates
<1>3. Good(u)
  BY <1>2, CalmGood
<1>4. ManPut(s, a, "walking", u)
  BY <1>1, PutIs DEF ManStates
<1> HIDE DEF u
<1>5. Good(t) /\ SameOwner(u, t)
  BY <1>3, <1>4, MissesNothing DEF Moves, ManPut, u
<1> QED BY <1>4, <1>5 DEF ManPut, SameOwner

(* WalkToFlag: on the way, or without a way, while the defender waits. *)
LEMMA Arrests ==
  ASSUME NEW s, Good(s), NEW a \in Attackers, s.man[a].st \in FieldStates, s.def = "waiting",
         NEW at \in {"elsewhere", "spot"}, NEW u \in Moves(s, a, at),
         NEW t \in FindAttackerNearBuilding(u)
  PROVE  Good(t) /\ Quiet(s, t)
<1>1. s \in Scenes /\ Listed(s) /\ AtTheFlag(s) /\ TakingBut(s, NoFoe) /\ CountedBut(s, 0)
  BY GoodScene
<1>2. Calm(s, u) /\ Listed(u) /\ u \in Scenes
  BY <1>1, MovesAbout DEF Calm
<1>3. TakingBut(u, NoFoe) /\ CountedBut(u, 0) /\ AtTheFlag(u)
  BY <1>1, <1>2, CalmKeeps
<1>4. ~u.capturing /\ \A b \in Attackers : u.man[b].st \notin AtFlagStates
  BY <1>1, <1>2, <1>3 DEF Calm, StaysPut, AtTheFlag, TakingBut
<1>5. Good(t) /\ Quiet(u, t)
  BY <1>2, <1>3, <1>4, AttackerFound
<1> QED BY <1>2, <1>5, CalmQuiet DEF Quiet

LEMMA MovesOn ==
  ASSUME NEW s, Good(s), NEW a \in Attackers, s.man[a].st \in FieldStates,
         NEW at \in {"elsewhere", "spot"}, NEW t \in Moves(s, a, at)
  PROVE  Good(t) /\ Quiet(s, t)
<1>1. s \in Scenes /\ Listed(s)
  BY GoodScene
<1> QED BY <1>1, MovesAbout, CalmGood, CalmQuiet

-----------------------------------------------------------------------------
(* The building is taken and filled. *)

LEMMA HeIsCounted ==
  ASSUME NEW s, Good(s), NEW a \in Attackers, s.man[a].goal, s.man[a].st \in {"first", "next", "door"}
  PROVE  /\ s.entering > 0 /\ IsFiniteSet(WalkIns(s) \ {a})
         /\ Cardinality(WalkIns(s) \ {a}) <= s.entering - 1
<1>1. a \in WalkIns(s) /\ IsFiniteSet(WalkIns(s))
  BY SiegeAssumption, FS_Subset DEF WalkIns
<1>2. /\ Cardinality(WalkIns(s) \ {a}) = Cardinality(WalkIns(s)) - 1
      /\ IsFiniteSet(WalkIns(s) \ {a}) /\ Cardinality(WalkIns(s)) \in Nat
      /\ Cardinality(WalkIns(s) \ {a}) \in Nat
  BY <1>1, FS_RemoveElement, FS_CardinalityType
<1>3. Cardinality(WalkIns(s)) <= s.entering /\ s.entering \in Nat
  BY GoodScene DEF CountedBut, Scenes
<1> QED BY <1>2, <1>3

LEMMA OneWalksIn ==
  ASSUME NEW s, Good(s), NEW a \in Attackers, s.man[a].goal, s.man[a].st \in {"first", "next", "door"},
         NEW t, WalkIns(t) \subseteq WalkIns(s) \ {a}, t.entering = s.entering - 1
  PROVE  CountedBut(t, 0)
<1>1. /\ IsFiniteSet(WalkIns(s) \ {a}) /\ Cardinality(WalkIns(s) \ {a}) <= s.entering - 1
      /\ s.entering \in Nat
  BY HeIsCounted, GoodScene DEF Scenes
<1>2. /\ Cardinality(WalkIns(t)) <= Cardinality(WalkIns(s) \ {a})
      /\ Cardinality(WalkIns(t)) \in Nat /\ Cardinality(WalkIns(s) \ {a}) \in Nat
  BY <1>1, FS_Subset, FS_CardinalityType
<1> QED BY <1>1, <1>2 DEF CountedBut

(* EnterFirst: somebody is inside again. *)
TurnsBack(s, a) == [Put(s, a, "walking") EXCEPT !.capturing = FALSE]

LEMMA TurnedBack ==
  ASSUME NEW s, Good(s), NEW a \in Attackers, s.man[a].st = "first", s.man[a].goal, s.troops > 0
  PROVE  Good(TurnsBack(s, a)) /\ Quiet(s, TurnsBack(s, a))
<1> DEFINE t == TurnsBack(s, a)
<1>1. s \in Scenes /\ Listed(s) /\ AtTheFlag(s) /\ TakingBut(s, NoFoe) /\ CountedBut(s, 0)
  BY GoodScene
<1>2. /\ t \in Scenes /\ t.owner = s.owner /\ t.def = s.def /\ t.foe = s.foe /\ t.troops = s.troops
      /\ ~t.capturing /\ t.entering = s.entering /\ t.aggr = s.aggr /\ t.far = s.far
      /\ t.man[a].st = "walking" /\ t.man[a].goal /\ \A b \in Attackers \ {a} : t.man[b] = s.man[b]
  <2>1. ManPut(s, a, "walking", Put(s, a, "walking"))
    BY <1>1, PutIs DEF ManStates
  <2> QED BY <2>1 DEF ManPut, TurnsBack, Scenes
<1> HIDE DEF t
<1>3. s.capturing /\ s.def = "none" /\ Party[a] # s.owner
  BY <1>1, SiegeAssumption DEF TakingBut, AtTheFlag, AtFlagStates
<1>4. \A b \in Attackers \ {a} : s.man[b].st \notin AtFlagStates
  BY <1>1 DEF AtTheFlag, AtFlagStates
<1>5. ListedBut(t, NoFoe)
  BY <1>1, <1>2 DEF Listed, ListedBut
<1>6. AtTheFlag(t)
  BY <1>2, <1>3, <1>4 DEF AtTheFlag, AtFlagStates
<1>7. TakingBut(t, NoFoe)
  <2>1. s.aggr \subseteq Attackers /\ ~Filling(s)
    BY <1>1 DEF Scenes, Filling
  <2>2. \A b \in Attackers : t.man[b].st = "next" => ~t.man[b].goal
    BY <1>1, <1>2, <2>1, SiegeAssumption DEF TakingBut
  <2>3. \A b \in Attackers : t.man[b].st # "first"
    BY <1>2, <1>4 DEF AtFlagStates
  <2>4. \A b \in t.aggr : t.man[b].st \notin {"next", "door"} => Party[b] # t.owner
    BY <1>1, <1>2, <1>3, <2>1 DEF TakingBut
  <2> QED BY <1>2, <2>2, <2>3, <2>4 DEF TakingBut
<1>8. CountedBut(t, 0)
  <2>1. WalkIns(t) \subseteq WalkIns(s)
    BY <1>2 DEF WalkIns
  <2>2. IsFiniteSet(WalkIns(s))
    BY SiegeAssumption, FS_Subset DEF WalkIns
  <2>3. /\ Cardinality(WalkIns(t)) <= Cardinality(WalkIns(s))
        /\ Cardinality(WalkIns(t)) \in Nat /\ Cardinality(WalkIns(s)) \in Nat /\ s.entering \in Nat
    BY <1>1, <2>1, <2>2, FS_Subset, FS_CardinalityType DEF Scenes
  <2> QED BY <1>1, <1>2, <2>3 DEF CountedBut
<1>9. Good(t) /\ Quiet(s, t)
  BY <1>2, <1>3, <1>5, <1>6, <1>7, <1>8 DEF Good, GoodBut, Fought, Held, Quiet
<1> QED BY <1>9 DEF t

(* EnterFirst: the building is empty. *)
Occupied(s, a, w) ==
  /\ w \in Scenes /\ w.owner = Party[a] /\ w.def = s.def /\ w.foe = s.foe
  /\ w.capturing /\ w.entering = s.entering - 1 /\ w.troops > 0
  /\ w.man = [s.man EXCEPT ![a] = Gone]
  /\ w.aggr = s.aggr \ {a} /\ w.far = s.far \ {a}

Handed(s, n, p) == [s EXCEPT !.out = 0, !.queued = 0, !.ordered = 0, !.owner = p, !.need = n]
Counting(s) == [s EXCEPT !.capturing = TRUE, !.entering = Down(@)]

LEMMA HandedIs ==
  ASSUME NEW s \in Scenes, NEW n \in Needs, NEW p \in Players
  PROVE  /\ Handed(s, n, p) \in Scenes /\ Handed(s, n, p).owner = p /\ Handed(s, n, p).def = s.def
         /\ Handed(s, n, p).foe = s.foe /\ Handed(s, n, p).entering = s.entering
         /\ Handed(s, n, p).man = s.man /\ Handed(s, n, p).aggr = s.aggr /\ Handed(s, n, p).far = s.far
<1>1. MaxQueue \in Nat
  BY SiegeAssumption
<1>2. Handed(s, n, p) \in Scenes
  <2>1. 0 \in 0..MaxQueue /\ 0 \in Nat
    BY <1>1
  <2>2. [s EXCEPT !.queued = 0] \in Scenes
    BY <2>1 DEF Scenes
  <2>3. \A q \in Scenes : [q EXCEPT !.out = 0, !.ordered = 0, !.owner = p, !.need = n] \in Scenes
    BY <2>1 DEF Scenes
  <2>4. Handed(s, n, p)
          = [[s EXCEPT !.queued = 0] EXCEPT !.out = 0, !.ordered = 0, !.owner = p, !.need = n]
    BY DEF Handed, Scenes
  <2> QED BY <2>2, <2>3, <2>4, Zenon
<1> QED BY <1>2 DEF Handed, Scenes

LEMMA CountingIs ==
  ASSUME NEW r \in Scenes, r.entering > 0
  PROVE  /\ Counting(r) \in Scenes /\ Counting(r).owner = r.owner /\ Counting(r).def = r.def
         /\ Counting(r).foe = r.foe /\ Counting(r).capturing /\ Counting(r).entering = r.entering - 1
         /\ Counting(r).man = r.man /\ Counting(r).aggr = r.aggr /\ Counting(r).far = r.far
<1>1. r.entering \in Nat /\ Down(r.entering) = r.entering - 1 /\ r.entering - 1 \in Nat
  BY DEF Down, Scenes
<1> QED BY <1>1 DEF Counting, Scenes

LEMMA OccupiedIs ==
  ASSUME NEW s \in Scenes, NEW a \in Attackers, s.entering > 0,
         NEW c \in Capture(s, Party[a]), NEW u \in UnlinkAggressor(c, a),
         NEW v \in AddActiveSoldier(u)
  PROVE  Occupied(s, a, Depart(v, a))
<1>0. Party[a] \in Players
  BY SiegeAssumption
<1>1. PICK n \in Needs : \E r \in RegulateTroops(Handed(s, n, Party[a])) : c = Counting(r)
  BY Zenon DEF Capture, Handed, Counting
<1>2. PICK r \in RegulateTroops(Handed(s, n, Party[a])) : c = Counting(r)
  BY <1>1
<1> DEFINE h == Handed(s, n, Party[a])
<1>3. /\ h \in Scenes /\ h.owner = Party[a] /\ h.def = s.def /\ h.foe = s.foe /\ h.entering = s.entering
      /\ h.man = s.man /\ h.aggr = s.aggr /\ h.far = s.far
  BY <1>0, HandedIs
<1> HIDE DEF h
<1>4. Garrisoned(h, r)
  BY <1>2, <1>3, Regulated DEF h
<1>5. /\ c \in Scenes /\ c.owner = Party[a] /\ c.def = s.def /\ c.foe = s.foe /\ c.capturing
      /\ c.entering = s.entering - 1 /\ c.man = s.man /\ c.aggr = s.aggr /\ c.far = s.far
  BY <1>2, <1>3, <1>4, CountingIs DEF Garrisoned, StaysPut
<1>6. /\ u \in Scenes /\ StaysPut(c, u)
      /\ u.man = c.man /\ u.aggr = c.aggr \ {a} /\ u.far = c.far \ {a}
  BY <1>5, Unlinked
<1>7. Garrisoned(u, v) /\ v.troops > 0 /\ v \in Scenes
  BY <1>6, AddedSoldier DEF Garrisoned
<1>8. /\ Depart(v, a) \in Scenes /\ StaysPut(v, Depart(v, a))
      /\ Depart(v, a).man = [v.man EXCEPT ![a] = Gone]
      /\ Depart(v, a).aggr = v.aggr /\ Depart(v, a).far = v.far
      /\ Depart(v, a).troops = v.troops
  BY <1>7, Departed
<1> QED BY <1>5, <1>6, <1>7, <1>8 DEF Occupied, Garrisoned, StaysPut

LEMMA OccupiedGood ==
  ASSUME NEW s, Good(s), NEW a \in Attackers, s.man[a].st = "first", s.man[a].goal, s.troops = 0,
         NEW w, Occupied(s, a, w)
  PROVE  Good(w) /\ NobodyElse(w, NoFoe) /\ Filling(w)
<1>1. s \in Scenes /\ Listed(s) /\ AtTheFlag(s) /\ TakingBut(s, NoFoe) /\ CountedBut(s, 0)
  BY GoodScene
<1>2. \A b \in Attackers : w.man[b] = IF b = a THEN Gone ELSE s.man[b]
  BY <1>1 DEF Occupied, Scenes
<1>3. s.capturing /\ s.def = "none" /\ ~Filling(s)
  BY <1>1 DEF TakingBut, Filling
<1>4. \A b \in Attackers : w.man[b].st \notin AtFlagStates
  BY <1>1, <1>2, GoneIs DEF AtTheFlag, AtFlagStates
<1>5. \A b \in Attackers : w.man[b].st = "next" => ~w.man[b].goal
  BY <1>1, <1>2, <1>3, GoneIs, SiegeAssumption DEF TakingBut
<1>6. w.owner \in Players /\ w.owner # Nobody
  BY SiegeAssumption DEF Occupied
<1>7. ListedBut(w, NoFoe)
  BY <1>1, <1>2, <1>6, GoneIs DEF Occupied, Listed, ListedBut
<1>8. AtTheFlag(w)
  BY <1>3, <1>4 DEF Occupied, AtTheFlag, AtFlagStates
<1>9. Filling(w)
  BY <1>4 DEF Filling, Occupied, AtFlagStates
<1>10. TakingBut(w, NoFoe)
  BY <1>3, <1>4, <1>5, <1>6, <1>9 DEF Occupied, TakingBut, AtFlagStates
<1>11. CountedBut(w, 0)
  <2>1. WalkIns(w) \subseteq WalkIns(s) \ {a} /\ w.entering = s.entering - 1
    BY <1>2, GoneIs DEF WalkIns, Occupied
  <2> QED BY <2>1, OneWalksIn
<1>12. NobodyElse(w, NoFoe)
  BY <1>4, <1>5, SiegeAssumption DEF NobodyElse
<1> QED BY <1>3, <1>7, <1>8, <1>9, <1>10, <1>11, <1>12 DEF Good, GoodBut, Fought, Held, Occupied

LEMMA Taken ==
  ASSUME NEW s, Good(s), NEW a \in Attackers, s.man[a].st = "first", s.man[a].goal, s.troops = 0,
         NEW c \in Capture(s, Party[a]), NEW u \in UnlinkAggressor(c, a),
         NEW v \in AddActiveSoldier(u), NEW t \in NeedOccupyingTroops(Depart(v, a), Party[a])
  PROVE  Good(t) /\ TakenRightly(s, t)
<1> DEFINE w == Depart(v, a)
<1>1. s \in Scenes /\ TakingBut(s, NoFoe)
  BY GoodScene
<1>2. s.entering > 0
  BY HeIsCounted
<1>3. Occupied(s, a, w)
  BY <1>1, <1>2, OccupiedIs
<1> HIDE DEF w
<1>4. Good(w) /\ NobodyElse(w, NoFoe) /\ Filling(w)
  BY <1>3, OccupiedGood
<1>5. Good(t) /\ Filled(w, t)
  BY <1>4, TroopsNeeded DEF w, Good
<1>6. \A b \in Attackers : w.man[b] = IF b = a THEN Gone ELSE s.man[b]
  BY <1>1, <1>3 DEF Occupied, Scenes
<1>7. \A b \in Attackers : t.man[b].st = "door" => s.man[b].st = "door"
  BY <1>5, <1>6, GoneIs DEF Filled
<1>8. s.def = "none"
  BY <1>1 DEF TakingBut
<1> QED BY <1>5, <1>7, <1>8 DEF TakenRightly

(* WalkToDoor: he goes in, and another is called. *)
LEMMA Called ==
  ASSUME NEW s, Good(s), NEW a \in Attackers, s.man[a].st = "next", s.man[a].goal
  PROVE  Filling(s) /\ NobodyElse(s, a) /\ s.def = "none"
<1>1. s \in Scenes /\ Listed(s) /\ AtTheFlag(s) /\ TakingBut(s, NoFoe)
  BY GoodScene
<1>2. Filling(s) /\ s.def = "none"
  BY <1>1, SiegeAssumption DEF TakingBut, Filling
<1>3. \A b \in Attackers : s.man[b].st \notin AtFlagStates
  BY <1>1, <1>2 DEF AtTheFlag, AtFlagStates, Filling
<1> QED BY <1>1, <1>2, <1>3, SiegeAssumption DEF NobodyElse, TakingBut

LEMMA AtTheDoor ==
  ASSUME NEW s, Good(s), NEW a \in Attackers, s.man[a].st = "next", s.man[a].goal,
         NEW t \in NeedOccupyingTroops(Put(s, a, "door"), Party[a])
  PROVE  Good(t) /\ SameOwner(s, t)
<1> DEFINE u == Put(s, a, "door")
<1>1. s \in Scenes /\ Listed(s) /\ AtTheFlag(s) /\ TakingBut(s, NoFoe) /\ CountedBut(s, 0) /\ Held(s)
  BY GoodScene
<1>2. ManPut(s, a, "door", u)
  BY <1>1, PutIs DEF ManStates
<1> HIDE DEF u
<1>3. Filling(s) /\ NobodyElse(s, a) /\ s.def = "none"
  BY Called
<1>4. \A b \in Attackers : u.man[b].st \notin AtFlagStates
  BY <1>1, <1>2, <1>3 DEF ManPut, AtTheFlag, AtFlagStates, Filling
<1>5. \A b \in Attackers : u.man[b].st = "next" => ~u.man[b].goal
  BY <1>2, <1>3 DEF ManPut, NobodyElse
<1>6. Filling(u)
  BY <1>2, <1>3, <1>4 DEF ManPut, Filling, AtFlagStates
<1>7. Good(u)
  <2>1. ListedBut(u, NoFoe)
    BY <1>1, <1>2 DEF Listed, ListedBut, ManPut
  <2>2. AtTheFlag(u)
    BY <1>2, <1>3, <1>4 DEF AtTheFlag, ManPut, AtFlagStates
  <2>3. TakingBut(u, NoFoe)
    BY <1>1, <1>2, <1>3, <1>4, <1>5, <1>6 DEF TakingBut, ManPut, AtFlagStates
  <2>4. WalkIns(u) = WalkIns(s)
    BY <1>2 DEF WalkIns, ManPut
  <2>5. CountedBut(u, 0) /\ Fought(u)
    BY <1>1, <1>2, <1>3, <2>4 DEF CountedBut, ManPut, Fought
  <2>6. Held(u)
    BY <1>1, <1>2 DEF Held, ManPut
  <2> QED BY <1>2, <2>1, <2>2, <2>3, <2>5, <2>6 DEF Good, GoodBut, ManPut
<1>8. NobodyElse(u, NoFoe)
  BY <1>4, <1>5, SiegeAssumption DEF NobodyElse
<1>9. Good(t) /\ Filled(u, t)
  BY <1>6, <1>7, <1>8, TroopsNeeded DEF Good, u
<1> QED BY <1>2, <1>9 DEF SameOwner, Filled, ManPut

(* WalkToDoor: he finds no way, and leaves when others have been told ... *)
LEMMA FindsNoWay ==
  ASSUME NEW s, Good(s), NEW a \in Attackers, s.man[a].st = "next", s.man[a].goal,
         NEW u \in NeedOccupyingTroops(s, Anyone), NEW t \in Leave(u, a)
  PROVE  Good(t) /\ Quiet(s, t)
<1>1. s \in Scenes /\ ListedBut(s, a) /\ AtTheFlag(s) /\ Fought(s) /\ TakingBut(s, a)
      /\ CountedBut(s, 0) /\ Held(s)
  BY GoodScene
<1>2. GoodBut(s, a, 0)
  BY <1>1 DEF GoodBut
<1>3. GoodBut(u, a, 0) /\ Filled(s, u)
  BY <1>2, Called, TroopsNeeded
<1>4. u \in Scenes /\ u.man[a] = s.man[a]
  BY <1>3 DEF GoodBut, Filled
<1>5. Left(u, a, t)
  BY <1>4, Leaves
<1>6. Good(t)
  BY <1>3, <1>4, <1>5, LeftGood DEF GoodBut
<1> QED BY <1>3, <1>4, <1>5, <1>6, LeftQuiet DEF Quiet, Filled

(* ... or, without a home, before. *)
LEMMA HasNoHome ==
  ASSUME NEW s, Good(s), NEW a \in Attackers, s.man[a].st = "next", s.man[a].goal,
         NEW v \in UnlinkAggressor(s, a), NEW u \in NeedOccupyingTroops(v, Anyone)
  PROVE  Good(Depart(u, a)) /\ Quiet(s, Depart(u, a))
<1>1. s \in Scenes /\ ListedBut(s, a) /\ AtTheFlag(s) /\ Fought(s) /\ TakingBut(s, a)
      /\ CountedBut(s, 0) /\ Held(s)
  BY GoodScene
<1>2. v \in Scenes /\ StaysPut(s, v) /\ v.man = s.man /\ v.aggr = s.aggr \ {a} /\ v.far = s.far \ {a}
  BY <1>1, Unlinked
<1>3. GoodBut(v, a, 0) /\ NobodyElse(v, a) /\ Filling(v)
  <2>1. Filling(s) /\ NobodyElse(s, a) /\ s.def = "none"
    BY Called
  <2>2. Filling(v) /\ NobodyElse(v, a)
    BY <1>2, <2>1 DEF Filling, NobodyElse, StaysPut
  <2>3. ListedBut(v, a)
    BY <1>1, <1>2 DEF ListedBut, StaysPut
  <2>4. AtTheFlag(v)
    BY <1>1, <1>2 DEF AtTheFlag, StaysPut
  <2>5. TakingBut(v, a)
    BY <1>1, <1>2, <2>2 DEF TakingBut, StaysPut
  <2>6. Fought(v) /\ CountedBut(v, 0)
    BY <1>1, <1>2 DEF Fought, CountedBut, WalkIns, StaysPut
  <2>7. s.troops \in Nat /\ v.troops \in Nat
    BY <1>1, <1>2 DEF Scenes
  <2>8. Held(v)
    BY <1>1, <1>2, <2>7 DEF Held, StaysPut
  <2> QED BY <1>2, <2>2, <2>3, <2>4, <2>5, <2>6, <2>8 DEF GoodBut
<1>4. GoodBut(u, a, 0) /\ Filled(v, u)
  BY <1>3, TroopsNeeded
<1>5. u \in Scenes /\ u.man[a] = s.man[a] /\ a \notin u.aggr /\ a \notin u.far
  BY <1>2, <1>4 DEF GoodBut, Filled
<1>6. Left(u, a, Depart(u, a))
  BY <1>5, Departed DEF Left
<1>7. Good(Depart(u, a))
  BY <1>4, <1>5, <1>6, LeftGood DEF GoodBut
<1> QED BY <1>2, <1>4, <1>5, <1>6, <1>7, LeftQuiet DEF Quiet, Filled, StaysPut

(* EnterNext: he is in. *)
Arrives(s) == [s EXCEPT !.entering = Down(@)]

LEMMA ArrivesIs ==
  ASSUME NEW r \in Scenes, r.entering > 0
  PROVE  /\ Arrives(r) \in Scenes /\ Arrives(r).owner = r.owner /\ Arrives(r).def = r.def
         /\ Arrives(r).foe = r.foe /\ (Arrives(r).capturing <=> r.capturing)
         /\ Arrives(r).entering = r.entering - 1 /\ Arrives(r).troops = r.troops
         /\ Arrives(r).man = r.man /\ Arrives(r).aggr = r.aggr /\ Arrives(r).far = r.far
<1>1. r.entering \in Nat /\ Down(r.entering) = r.entering - 1 /\ r.entering - 1 \in Nat
  BY DEF Down, Scenes
<1> QED BY <1>1 DEF Arrives, Scenes

LEMMA ArrivedGood ==
  ASSUME NEW s, Good(s), NEW a \in Attackers, s.man[a].st = "door", s.man[a].goal,
         NEW g \in AddActiveSoldier(s), NEW u \in UnlinkAggressor(Arrives(g), a)
  PROVE  Good(Depart(u, a)) /\ Quiet(s, Depart(u, a))
<1> DEFINE t == Depart(u, a)
           w == [t EXCEPT !.entering = s.entering]
<1>1. s \in Scenes /\ ListedBut(s, a) /\ AtTheFlag(s) /\ Fought(s) /\ TakingBut(s, a)
      /\ CountedBut(s, 0) /\ Held(s)
  BY GoodScene
<1>2. Garrisoned(s, g) /\ g \in Scenes /\ s.entering > 0
  BY <1>1, AddedSoldier, HeIsCounted DEF Garrisoned
<1>3. /\ Arrives(g) \in Scenes /\ Arrives(g).owner = s.owner /\ Arrives(g).def = s.def
      /\ Arrives(g).foe = s.foe /\ (Arrives(g).capturing <=> s.capturing)
      /\ Arrives(g).entering = s.entering - 1 /\ (s.troops > 0 => Arrives(g).troops > 0)
      /\ Arrives(g).man = s.man /\ Arrives(g).aggr = s.aggr /\ Arrives(g).far = s.far
  BY <1>2, ArrivesIs DEF Garrisoned, StaysPut
<1>4. /\ u \in Scenes /\ StaysPut(Arrives(g), u)
      /\ u.man = s.man /\ u.aggr = s.aggr \ {a} /\ u.far = s.far \ {a}
  BY <1>3, Unlinked
<1>5. /\ t \in Scenes /\ t.owner = s.owner /\ t.def = s.def /\ t.foe = s.foe
      /\ (t.capturing <=> s.capturing) /\ t.entering = s.entering - 1 /\ (s.troops > 0 => t.troops > 0)
      /\ t.man = [s.man EXCEPT ![a] = Gone] /\ t.aggr = s.aggr \ {a} /\ t.far = s.far \ {a}
  BY SMTT(30), <1>3, <1>4, Departed DEF StaysPut
<1> HIDE DEF t
<1>6. /\ w \in Scenes /\ w.owner = t.owner /\ w.def = t.def /\ w.foe = t.foe /\ w.troops = t.troops
      /\ (w.capturing <=> t.capturing) /\ w.entering = s.entering /\ w.man = t.man
      /\ w.aggr = t.aggr /\ w.far = t.far
  BY <1>1, <1>5 DEF Scenes
<1> HIDE DEF w
<1>7. Left(s, a, w)
  <2>1. s.capturing \in BOOLEAN /\ w.capturing \in BOOLEAN
    BY <1>1, <1>6 DEF Scenes
  <2> QED BY <1>5, <1>6, <2>1 DEF Left, StaysPut
<1>8. Good(w)
  BY <1>1, <1>7, LeftGood
<1>9. Good(t)
  <2>1. ListedBut(t, NoFoe) /\ AtTheFlag(t) /\ Fought(t) /\ Held(t)
    BY <1>6, <1>8 DEF Good, GoodBut, ListedBut, AtTheFlag, Fought, Held
  <2>2. TakingBut(t, NoFoe)
    BY <1>6, <1>8 DEF Good, GoodBut, TakingBut, Filling
  <2>3. WalkIns(t) \subseteq WalkIns(s) \ {a}
    BY <1>1, <1>5, GoneIs DEF WalkIns, Scenes
  <2>4. CountedBut(t, 0)
    BY <1>5, <2>3, OneWalksIn
  <2> QED BY <1>5, <2>1, <2>2, <2>4 DEF Good, GoodBut
<1>10. Quiet(s, t)
  BY <1>1, <1>5, GoneIs DEF Quiet, Scenes
<1> QED BY <1>9, <1>10 DEF t

-----------------------------------------------------------------------------
(* A fight at the flag ends, and the defender goes home. *)

LEMMA FightingThere ==
  ASSUME NEW s, Good(s), NEW a \in Attackers, s.man[a].st = "fighting"
  PROVE  /\ s.def = "fighting" /\ ~s.capturing /\ ~Filling(s)
         /\ (s.man[a].goal <=> s.owner # Nobody)
         /\ (s.man[a].goal => Party[a] # s.owner)
         /\ \A b \in Attackers \ {a} : s.man[b].st \notin AtFlagStates
         /\ \A b \in Attackers : s.man[b].st = "next" => ~s.man[b].goal
         /\ \A b \in s.aggr : s.man[b].st \notin {"next", "door"} => Party[b] # s.owner
<1>1. s \in Scenes /\ Listed(s) /\ AtTheFlag(s) /\ TakingBut(s, NoFoe)
  BY GoodScene
<1>2. s.def = "fighting" /\ ~s.capturing /\ ~Filling(s)
  BY <1>1 DEF AtTheFlag, TakingBut, Filling
<1>3. \A b \in Attackers \ {a} : s.man[b].st \notin AtFlagStates
  BY <1>1 DEF AtTheFlag, AtFlagStates
<1>4. (s.man[a].goal <=> s.owner # Nobody) /\ (s.man[a].goal => Party[a] # s.owner)
  BY <1>1 DEF AtTheFlag, Listed, ListedBut, AtFlagStates
<1> QED BY <1>1, <1>2, <1>3, <1>4, SiegeAssumption DEF TakingBut

(* The defender is dead. *)
Dead(s) == [s EXCEPT !.def = "none", !.foe = NoFoe]

LEMMA DeadIs ==
  ASSUME NEW s \in Scenes
  PROVE  /\ Dead(s) \in Scenes /\ Dead(s).owner = s.owner /\ Dead(s).troops = s.troops
         /\ Dead(s).def = "none" /\ Dead(s).foe = NoFoe /\ (Dead(s).capturing <=> s.capturing)
         /\ Dead(s).entering = s.entering /\ Dead(s).man = s.man
         /\ Dead(s).aggr = s.aggr /\ Dead(s).far = s.far
BY DEF Dead, Scenes, DefenderStates

(* Nobody is at the flag of ruins. *)
LEMMA RuinsGood ==
  ASSUME NEW s \in Scenes, s.owner = Nobody, Listed(s), TakingBut(s, NoFoe), CountedBut(s, 0),
         s.def = "none", \A b \in Attackers : s.man[b].st \notin AtFlagStates
  PROVE  Good(s)
<1>1. AtTheFlag(s)
  BY DEF AtTheFlag, AtFlagStates
<1> QED BY <1>1 DEF Good, GoodBut, Listed, Fought, Held

LEMMA WinsForNothing ==
  ASSUME NEW s, Good(s), NEW a \in Attackers, s.man[a].st = "fighting", ~s.man[a].goal,
         NEW t \in Leave(Dead(s), a)
  PROVE  Good(t) /\ Quiet(s, t)
<1> DEFINE d == Dead(s)
<1>1. s \in Scenes /\ Listed(s) /\ TakingBut(s, a) /\ CountedBut(s, 0)
  BY GoodScene
<1>2. /\ d \in Scenes /\ d.owner = s.owner /\ d.def = "none" /\ d.foe = NoFoe
      /\ (d.capturing <=> s.capturing) /\ d.entering = s.entering
      /\ d.man = s.man /\ d.aggr = s.aggr /\ d.far = s.far
  BY <1>1, DeadIs
<1> HIDE DEF d
<1>3. Listed(d) /\ TakingBut(d, a) /\ CountedBut(d, 0)
  BY <1>1, <1>2 DEF Listed, ListedBut, TakingBut, Filling, CountedBut, WalkIns
<1>4. Left(d, a, t)
  BY <1>2, <1>3, ListedLeaves DEF d
<1>5. Listed(t) /\ TakingBut(t, NoFoe) /\ CountedBut(t, 0)
  BY <1>2, <1>3, <1>4, LeftListed, LeftTaking, ListedButOne
<1>6. \A b \in Attackers : t.man[b].st \notin AtFlagStates
  BY <1>2, <1>4, LeftMen, FightingThere, GoneIs DEF AtFlagStates
<1>7. t \in Scenes /\ t.owner = Nobody /\ t.def = "none"
  BY <1>2, <1>4, FightingThere DEF Left, StaysPut
<1>8. Quiet(d, t)
  BY <1>2, <1>4, LeftQuiet
<1> QED BY <1>2, <1>5, <1>6, <1>7, <1>8, RuinsGood DEF Quiet

(* A state after the death of the defender, when the next one was called. *)
NextDefender(s, a, u) ==
  /\ u \in Scenes /\ u.owner = s.owner /\ ~u.capturing /\ u.entering = s.entering
  /\ u.man = s.man /\ u.aggr = s.aggr /\ u.far = s.far
  /\ (u.def = "to" /\ u.foe = a) \/ u.def = "none"

LEMMA NextDefenderIs ==
  ASSUME NEW s, Good(s), NEW a \in Attackers, s.man[a].st = "fighting",
         NEW v, v = Dead(s) \/ v \in RegulateTroops(Dead(s)), NEW u \in CallDefender(v, a)
  PROVE  NextDefender(s, a, u)
<1> DEFINE d == Dead(s)
<1>1. s \in Scenes /\ ~s.capturing
  BY GoodScene, FightingThere
<1>2. /\ d \in Scenes /\ d.owner = s.owner /\ d.def = "none" /\ d.foe = NoFoe
      /\ (d.capturing <=> s.capturing) /\ d.entering = s.entering
      /\ d.man = s.man /\ d.aggr = s.aggr /\ d.far = s.far
  BY <1>1, DeadIs
<1> HIDE DEF d
<1>3. Garrisoned(d, v)
  <2>1. CASE v = d
    BY <1>2, <2>1 DEF Garrisoned, StaysPut
  <2>2. CASE v \in RegulateTroops(d)
    BY <1>2, <2>2, Regulated
  <2> QED BY <2>1, <2>2 DEF d
<1>4. /\ v \in Scenes /\ v.owner = s.owner /\ v.def = "none" /\ ~v.capturing /\ v.entering = s.entering
      /\ v.man = s.man /\ v.aggr = s.aggr /\ v.far = s.far
  BY <1>1, <1>2, <1>3 DEF Garrisoned, StaysPut
<1> QED BY <1>4, DefenderCalled DEF NextDefender

LEMMA FightsTheNext ==
  ASSUME NEW s, Good(s), NEW a \in Attackers, s.man[a].st = "fighting", s.man[a].goal,
         NEW u, NextDefender(s, a, u), u.def # "none"
  PROVE  Good(Put(u, a, "waiting")) /\ Quiet(s, Put(u, a, "waiting"))
<1> DEFINE t == Put(u, a, "waiting")
<1>1. s \in Scenes /\ Listed(s) /\ AtTheFlag(s) /\ TakingBut(s, NoFoe) /\ CountedBut(s, 0)
  BY GoodScene
<1>2. /\ t \in Scenes /\ t.owner = s.owner /\ t.def = "to" /\ t.foe = a /\ ~t.capturing
      /\ t.entering = s.entering /\ t.aggr = s.aggr /\ t.far = s.far
      /\ t.man[a].st = "waiting" /\ t.man[a].goal
      /\ \A b \in Attackers \ {a} : t.man[b] = s.man[b]
  <2>1. ManPut(u, a, "waiting", t)
    BY PutIs DEF ManStates, NextDefender
  <2> QED BY <2>1 DEF ManPut, NextDefender
<1> HIDE DEF t
<1>3. ListedBut(t, NoFoe)
  BY <1>1, <1>2 DEF Listed, ListedBut
<1>4. AtTheFlag(t)
  BY <1>2, FightingThere DEF AtTheFlag, AtFlagStates
<1>5. TakingBut(t, NoFoe)
  <2>1. \A b \in Attackers : t.man[b].st # "first" /\ (t.man[b].st = "next" => ~t.man[b].goal)
    BY <1>2, FightingThere DEF AtFlagStates
  <2>2. \A b \in t.aggr : t.man[b].st \notin {"next", "door"} => Party[b] # t.owner
    <3>1. s.aggr \subseteq Attackers
      BY <1>1 DEF Scenes
    <3> QED BY <1>2, <3>1, FightingThere
  <2> QED BY <1>2, <2>1, <2>2 DEF TakingBut
<1>6. WalkIns(t) = WalkIns(s)
  BY <1>2 DEF WalkIns
<1>7. Good(t) /\ Quiet(s, t)
  BY <1>1, <1>2, <1>3, <1>4, <1>5, <1>6 DEF Good, GoodBut, Fought, Held, CountedBut, Quiet
<1> QED BY <1>7 DEF t

(* nofAttacker::ContinueAtFlag and PrepareCapturing: the building is empty. *)
CountsHim(u) == [u EXCEPT !.capturing = TRUE, !.entering = @ + 1]
Captures(u, a) == CountsHim(Put(u, a, "first"))

LEMMA CountsHimIs ==
  ASSUME NEW u \in Scenes
  PROVE  /\ CountsHim(u) \in Scenes /\ CountsHim(u).owner = u.owner /\ CountsHim(u).def = u.def
         /\ CountsHim(u).foe = u.foe /\ CountsHim(u).capturing /\ CountsHim(u).entering = u.entering + 1
         /\ CountsHim(u).man = u.man /\ CountsHim(u).aggr = u.aggr /\ CountsHim(u).far = u.far
<1>1. u.entering \in Nat /\ u.entering + 1 \in Nat
  BY DEF Scenes
<1> QED BY <1>1 DEF CountsHim, Scenes

LEMMA CapturesGood ==
  ASSUME NEW s, Good(s), NEW a \in Attackers, s.man[a].st = "fighting", s.man[a].goal,
         NEW u, NextDefender(s, a, u), u.def = "none"
  PROVE  Good(Captures(u, a)) /\ Quiet(s, Captures(u, a))
<1> DEFINE t == Captures(u, a)
<1>1. s \in Scenes /\ Listed(s) /\ CountedBut(s, 0)
  BY GoodScene
<1>2. /\ t \in Scenes /\ t.owner = s.owner /\ t.def = "none" /\ t.capturing
      /\ t.entering = s.entering + 1 /\ t.aggr = s.aggr /\ t.far = s.far
      /\ t.man[a].st = "first" /\ t.man[a].goal
      /\ \A b \in Attackers \ {a} : t.man[b] = s.man[b]
  <2>1. ManPut(u, a, "first", Put(u, a, "first"))
    BY PutIs DEF ManStates, NextDefender
  <2> QED BY <2>1, CountsHimIs DEF ManPut, NextDefender, Captures
<1> HIDE DEF t
<1>3. ListedBut(t, NoFoe)
  BY <1>1, <1>2 DEF Listed, ListedBut
<1>4. AtTheFlag(t)
  BY <1>2, FightingThere DEF AtTheFlag, AtFlagStates
<1>5. TakingBut(t, NoFoe)
  <2>1. \A b \in Attackers : t.man[b].st = "next" => ~t.man[b].goal
    BY <1>2, FightingThere
  <2>2. \A b \in t.aggr : t.man[b].st \notin {"next", "door"} => Party[b] # t.owner
    <3>1. s.aggr \subseteq Attackers
      BY <1>1 DEF Scenes
    <3> QED BY <1>2, <3>1, FightingThere
  <2> QED BY <1>2, <2>1, <2>2, FightingThere DEF TakingBut
<1>6. CountedBut(t, 0)
  <2>1. WalkIns(t) = WalkIns(s) \cup {a} /\ a \notin WalkIns(s)
    BY <1>2 DEF WalkIns
  <2>2. IsFiniteSet(WalkIns(s))
    BY SiegeAssumption, FS_Subset DEF WalkIns
  <2>3. Cardinality(WalkIns(t)) = Cardinality(WalkIns(s)) + 1 /\ Cardinality(WalkIns(s)) \in Nat
    BY <2>1, <2>2, FS_AddElement, FS_CardinalityType
  <2>4. s.entering \in Nat
    BY <1>1 DEF Scenes
  <2> QED BY <1>1, <1>2, <2>3, <2>4 DEF CountedBut
<1>7. Good(t) /\ Quiet(s, t)
  BY <1>2, <1>3, <1>4, <1>5, <1>6 DEF Good, GoodBut, Fought, Held, Quiet
<1> QED BY <1>7 DEF t

(* DefenderWins: he looks for the next one. *)
NoFoeIn(s) == [s EXCEPT !.foe = NoFoe]
HeIsHome(s) == [s EXCEPT !.def = "none"]

LEMMA AttackerDies ==
  ASSUME NEW s, Good(s), NEW a \in Attackers, s.man[a].st = "fighting", NEW u \in Leave(s, a)
  PROVE  /\ NoFoeIn(u) \in Scenes /\ NoFoeIn(u).owner = s.owner /\ Listed(NoFoeIn(u))
         /\ TakingBut(NoFoeIn(u), NoFoe) /\ CountedBut(NoFoeIn(u), 0) /\ ~NoFoeIn(u).capturing
         /\ \A b \in Attackers : NoFoeIn(u).man[b].st \notin AtFlagStates
         /\ Quiet(s, NoFoeIn(u))
<1> DEFINE t == NoFoeIn(u)
<1>1. s \in Scenes /\ Listed(s) /\ TakingBut(s, a) /\ CountedBut(s, 0) /\ ListedBut(s, a)
  BY GoodScene
<1>2. Left(s, a, u)
  BY <1>1, ListedLeaves
<1>3. Listed(u) /\ TakingBut(u, NoFoe) /\ CountedBut(u, 0) /\ Quiet(s, u)
  BY <1>1, <1>2, LeftListed, LeftTaking, LeftQuiet
<1>4. \A b \in Attackers : u.man[b].st \notin AtFlagStates
  BY <1>1, <1>2, LeftMen, FightingThere, GoneIs DEF AtFlagStates
<1>5. u \in Scenes /\ u.owner = s.owner /\ ~u.capturing
  BY <1>2, FightingThere DEF Left, StaysPut
<1>6. /\ t \in Scenes /\ t.owner = u.owner /\ t.def = u.def /\ (t.capturing <=> u.capturing)
      /\ t.entering = u.entering /\ t.man = u.man /\ t.aggr = u.aggr /\ t.far = u.far
  BY <1>5 DEF Scenes, NoFoeIn
<1> HIDE DEF t
<1>7. Listed(t) /\ TakingBut(t, NoFoe) /\ CountedBut(t, 0) /\ Quiet(s, t)
  BY <1>3, <1>6 DEF Listed, ListedBut, TakingBut, Filling, CountedBut, WalkIns, Quiet
<1>8. t.owner = s.owner /\ ~t.capturing /\ \A b \in Attackers : t.man[b].st \notin AtFlagStates
  BY <1>4, <1>5, <1>6
<1> QED BY <1>6, <1>7, <1>8 DEF t

LEMMA DefenderSurvives ==
  ASSUME NEW s, Good(s), NEW a \in Attackers, s.man[a].st = "fighting", NEW u \in Leave(s, a),
         NEW t,
         \/ s.owner = Nobody /\ t = HeIsHome(NoFoeIn(u))
         \/ t \in FindAttackerNearBuilding(NoFoeIn(u))
  PROVE  Good(t) /\ Quiet(s, t)
<1> DEFINE v == NoFoeIn(u)
<1>1. /\ v \in Scenes /\ v.owner = s.owner /\ Listed(v) /\ TakingBut(v, NoFoe) /\ CountedBut(v, 0)
      /\ ~v.capturing /\ Quiet(s, v) /\ \A b \in Attackers : v.man[b].st \notin AtFlagStates
  BY AttackerDies
<1> HIDE DEF v
<1>2. CASE s.owner = Nobody /\ t = HeIsHome(v)
  <2>1. /\ t \in Scenes /\ t.owner = Nobody /\ t.def = "none" /\ ~t.capturing
        /\ t.entering = v.entering /\ t.man = v.man /\ t.aggr = v.aggr /\ t.far = v.far
    BY <1>1, <1>2 DEF Scenes, HeIsHome, DefenderStates
  <2>2. Listed(t) /\ TakingBut(t, NoFoe) /\ CountedBut(t, 0)
    BY <1>1, <1>2, <2>1 DEF Listed, ListedBut, TakingBut, Filling, CountedBut, WalkIns
  <2>3. Good(t)
    BY <1>1, <2>1, <2>2, RuinsGood
  <2> QED BY <1>1, <1>2, <2>1, <2>3 DEF Quiet
<1>3. CASE t \in FindAttackerNearBuilding(v)
  <2>1. Good(t) /\ Quiet(v, t)
    BY <1>1, <1>3, AttackerFound
  <2> QED BY <1>1, <2>1 DEF Quiet
<1> QED BY <1>2, <1>3 DEF v

(* DefenderAtHome. *)
ComesOut(s) == [s EXCEPT !.def = "to"]

LEMMA ComesOutGood ==
  ASSUME NEW s, Good(s), s.def = "from", s.foe # NoFoe
  PROVE  Good(ComesOut(s)) /\ Quiet(s, ComesOut(s))
<1> DEFINE t == ComesOut(s)
<1>1. s \in Scenes /\ Listed(s) /\ AtTheFlag(s) /\ TakingBut(s, NoFoe) /\ CountedBut(s, 0)
  BY GoodScene
<1>2. /\ t \in Scenes /\ t.owner = s.owner /\ t.def = "to" /\ t.foe = s.foe
      /\ (t.capturing <=> s.capturing) /\ t.entering = s.entering
      /\ t.man = s.man /\ t.aggr = s.aggr /\ t.far = s.far
  BY <1>1 DEF Scenes, ComesOut, DefenderStates
<1> HIDE DEF t
<1>3. AtTheFlag(t)
  BY <1>1, <1>2 DEF AtTheFlag
<1>4. ~s.capturing
  BY <1>1 DEF TakingBut
<1>5. ListedBut(t, NoFoe) /\ TakingBut(t, NoFoe) /\ CountedBut(t, 0)
  BY <1>1, <1>2, <1>4 DEF Listed, ListedBut, TakingBut, Filling, CountedBut, WalkIns
<1>6. Good(t) /\ Quiet(s, t)
  BY <1>2, <1>3, <1>5 DEF Good, GoodBut, Fought, Held, Quiet
<1> QED BY <1>6 DEF t

LEMMA InsideGood ==
  ASSUME NEW s, Good(s), s.def = "from", s.foe = NoFoe, NEW g \in AddActiveSoldier(s)
  PROVE  Good(HeIsHome(g)) /\ Quiet(s, HeIsHome(g))
<1> DEFINE t == HeIsHome(g)
<1>0. s \in Scenes
  BY GoodScene
<1>1. Garrisoned(s, g) /\ g.troops > 0
  BY <1>0, AddedSoldier
<1>2. Good(g)
  BY <1>1, GarrisonGood
<1>3. g \in Scenes /\ Listed(g) /\ AtTheFlag(g) /\ TakingBut(g, NoFoe) /\ CountedBut(g, 0)
  BY <1>2, GoodScene
<1>4. g.def = "from" /\ g.foe = NoFoe /\ g.owner = s.owner /\ g.man = s.man
  BY <1>1 DEF Garrisoned, StaysPut
<1>5. /\ t \in Scenes /\ t.owner = g.owner /\ t.def = "none" /\ t.foe = NoFoe /\ t.troops > 0
      /\ (t.capturing <=> g.capturing) /\ t.entering = g.entering
      /\ t.man = g.man /\ t.aggr = g.aggr /\ t.far = g.far
  BY <1>1, <1>3, <1>4 DEF Scenes, HeIsHome, DefenderStates
<1> HIDE DEF t
<1>6. AtTheFlag(t)
  BY <1>3, <1>4, <1>5, SiegeAssumption DEF AtTheFlag
<1>7. ~g.capturing
  BY <1>3, <1>4 DEF TakingBut
<1>8. ListedBut(t, NoFoe) /\ TakingBut(t, NoFoe) /\ CountedBut(t, 0)
  BY <1>3, <1>5, <1>7 DEF Listed, ListedBut, TakingBut, Filling, CountedBut, WalkIns
<1>9. Good(t) /\ Quiet(s, t)
  BY <1>4, <1>5, <1>6, <1>8 DEF Good, GoodBut, Fought, Held, Quiet
<1> QED BY <1>9 DEF t

-----------------------------------------------------------------------------
(* The building is no more, and the steps of its garrison. *)

(* nofAttacker::AttackedGoalDestroyed of somebody who is not there. *)
Heard(m) == [m EXCEPT !.goal = FALSE]

LEMMA HeardIs ==
  ASSUME NEW m \in Men
  PROVE  Heard(m) \in Men /\ ~Heard(m).goal /\ Heard(m).st = m.st
BY DEF Heard, Men

LEMMA DestroyIs ==
  ASSUME NEW s \in Scenes
  PROVE  /\ Destroy(s) \in Scenes /\ Destroy(s).owner = Nobody /\ ~Destroy(s).capturing
         /\ Destroy(s).def = (IF s.def = "fighting" THEN s.def ELSE "none")
         /\ Destroy(s).aggr = {} /\ Destroy(s).far = {} /\ Destroy(s).entering = 0
         /\ \A a \in Attackers :
              Destroy(s).man[a] =
                IF a \notin s.aggr \cup s.far THEN s.man[a]
                ELSE IF s.man[a].st \in {"around", "waiting"} THEN Gone
                ELSE Heard(s.man[a])
<1> DEFINE After(a) == IF a \notin s.aggr \cup s.far THEN s.man[a]
                       ELSE IF s.man[a].st \in {"around", "waiting"} THEN Gone
                       ELSE Heard(s.man[a])
           men == [a \in Attackers |-> After(a)]
           def == IF s.def = "fighting" THEN s.def ELSE "none"
<1>1. men \in [Attackers -> Men]
  <2>1. \A a \in Attackers : After(a) \in Men
    BY GoneIs, HeardIs DEF Scenes
  <2> HIDE DEF After
  <2> QED BY <2>1
<1>2. def \in DefenderStates /\ 0 \in 0..MaxQueue /\ 0 \in Nat
  BY SiegeAssumption DEF DefenderStates
<1>3. \A a \in Attackers : men[a] = After(a)
  OBVIOUS
<1>4. Destroy(s) =
        [s EXCEPT !.owner = Nobody, !.troops = 0, !.ordered = 0, !.queued = 0, !.out = 0,
                  !.capturing = FALSE, !.entering = 0, !.foe = NoFoe, !.aggr = {}, !.far = {},
                  !.def = def, !.man = men]
  BY DEF Destroy, Heard
<1> HIDE DEF men, def
<1>5. s.need \in Needs
  BY DEF Scenes
<1>6. Destroy(s) =
        [owner |-> Nobody, troops |-> 0, need |-> s.need, ordered |-> 0, queued |-> 0, out |-> 0,
         capturing |-> FALSE, entering |-> 0, def |-> def, foe |-> NoFoe, man |-> men,
         aggr |-> {}, far |-> {}]
  <2>1. DOMAIN s = {"owner", "troops", "need", "ordered", "queued", "out", "capturing", "entering",
                    "def", "foe", "man", "aggr", "far"}
    BY DEF Scenes
  <2> DEFINE d == [s EXCEPT !.owner = Nobody, !.troops = 0, !.ordered = 0, !.queued = 0, !.out = 0,
                            !.capturing = FALSE, !.entering = 0, !.foe = NoFoe, !.aggr = {}, !.far = {},
                            !.def = def, !.man = men]
  <2>2. d = [x \in DOMAIN s |-> d[x]]
    OBVIOUS
  <2>3. /\ d.owner = Nobody /\ d.troops = 0 /\ d.need = s.need /\ d.ordered = 0 /\ d.queued = 0 /\ d.out = 0
        /\ d.capturing = FALSE /\ d.entering = 0 /\ d.def = def /\ d.foe = NoFoe /\ d.man = men
        /\ d.aggr = {} /\ d.far = {}
    BY <2>1
  <2> HIDE DEF d
  <2> QED BY <1>4, <2>1, <2>2, <2>3 DEF d
<1> QED BY <1>1, <1>2, <1>3, <1>5, <1>6 DEF Scenes, def

LEMMA Destroyed ==
  ASSUME NEW s \in Scenes, Listed(s), AtTheFlag(s), Fought(s)
  PROVE  Good(Destroy(s)) /\ \A b \in Attackers : Destroy(s).man[b].st = "door" => s.man[b].st = "door"
<1> DEFINE t == Destroy(s)
<1>1. /\ t \in Scenes /\ t.owner = Nobody /\ ~t.capturing
      /\ t.def = (IF s.def = "fighting" THEN s.def ELSE "none")
      /\ t.aggr = {} /\ t.far = {} /\ t.entering = 0
      /\ \A a \in Attackers :
           t.man[a] = IF a \notin s.aggr \cup s.far THEN s.man[a]
                      ELSE IF s.man[a].st \in {"around", "waiting"} THEN Gone
                      ELSE Heard(s.man[a])
  BY DestroyIs
<1> HIDE DEF t
<1>2. \A a \in Attackers : s.man[a] \in Men /\ (s.man[a].goal <=> a \in s.aggr \cup s.far)
  BY SiegeAssumption DEF Scenes, Listed, ListedBut
<1>3. \A a \in Attackers : ~t.man[a].goal /\ t.man[a].st \in {s.man[a].st, "away"}
  BY <1>1, <1>2, GoneIs, HeardIs
<1>4. \A a \in Attackers : s.man[a].st = "fighting" => t.man[a].st = "fighting"
  BY <1>1, <1>2, HeardIs
<1>5. \A a \in Attackers : t.man[a].st # "waiting"
  <2>1. \A a \in Attackers : s.man[a].st = "waiting" => t.man[a] = Gone
    BY <1>1, <1>2 DEF AtTheFlag
  <2> QED BY <1>3, <2>1, GoneIs
<1>6. ListedBut(t, NoFoe)
  BY <1>1, <1>3 DEF ListedBut
<1>7. AtTheFlag(t)
  <2>1. \A a, b \in Attackers :
          t.man[a].st \in AtFlagStates /\ t.man[b].st \in AtFlagStates => a = b
    BY <1>3 DEF AtTheFlag, AtFlagStates
  <2>2. \A a \in Attackers : t.man[a].st = "fighting" => t.def = "fighting"
    BY <1>1, <1>3 DEF AtTheFlag
  <2>3. t.def \notin {"to", "from", "waiting"}
    BY <1>1
  <2> QED BY <1>1, <1>3, <1>5, <2>1, <2>2, <2>3 DEF AtTheFlag
<1>8. Fought(t)
  BY <1>1, <1>4 DEF Fought
<1>9. TakingBut(t, NoFoe)
  BY <1>1, <1>3 DEF TakingBut
<1>10. CountedBut(t, 0)
  <2>1. WalkIns(t) = {}
    BY <1>3 DEF WalkIns
  <2> QED BY <1>1, <2>1, FS_EmptySet DEF CountedBut
<1>11. Good(t)
  BY <1>1, <1>6, <1>7, <1>8, <1>9, <1>10 DEF Good, GoodBut, Held
<1> QED BY <1>3, <1>11 DEF t

(* Counts before the building regulates its troops. *)
FewerOut(s) == [s EXCEPT !.out = @ - 1]
FewerOrdered(s) == [s EXCEPT !.ordered = @ - 1]
OthersNeeded(s, n) == [s EXCEPT !.need = n]
Hit(s) == [s EXCEPT !.troops = IF @ > 0 THEN @ - 1 ELSE 0]

LEMMA CountsChange ==
  ASSUME NEW s \in Scenes
  PROVE  /\ s.out > 0 => Garrisoned(s, FewerOut(s))
         /\ s.ordered > 0 => Garrisoned(s, FewerOrdered(s))
         /\ \A n \in Needs : Garrisoned(s, OthersNeeded(s, n))
<1>1. s.out > 0 => Garrisoned(s, FewerOut(s))
  <2>1. HAVE s.out > 0
  <2>2. s.out - 1 \in Nat
    BY <2>1 DEF Scenes
  <2> QED BY <2>2 DEF FewerOut, Garrisoned, StaysPut, Scenes
<1>2. s.ordered > 0 => Garrisoned(s, FewerOrdered(s))
  <2>1. HAVE s.ordered > 0
  <2>2. s.ordered - 1 \in Nat
    BY <2>1 DEF Scenes
  <2> QED BY <2>2 DEF FewerOrdered, Garrisoned, StaysPut, Scenes
<1>3. \A n \in Needs : Garrisoned(s, OthersNeeded(s, n))
  BY DEF OthersNeeded, Garrisoned, StaysPut, Scenes
<1> QED BY <1>1, <1>2, <1>3

LEMMA Regroups ==
  ASSUME NEW s, Good(s), NEW u, Garrisoned(s, u),
         NEW t, t \in RegulateTroops(u) \/ t \in AddActiveSoldier(u)
  PROVE  Good(t) /\ Quiet(s, t)
<1>1. u \in Scenes /\ Good(u)
  BY GarrisonGood DEF Garrisoned
<1>2. Garrisoned(u, t)
  BY <1>1, Regulated, AddedSoldier
<1>3. Good(t)
  BY <1>1, <1>2, GarrisonGood
<1> QED BY <1>2, <1>3 DEF Quiet, Garrisoned, StaysPut

LEMMA GarrisonQuiet ==
  ASSUME NEW s, Good(s), NEW t, Garrisoned(s, t)
  PROVE  Good(t) /\ Quiet(s, t)
BY GarrisonGood DEF Quiet, Garrisoned, StaysPut

LEMMA HitIs ==
  ASSUME NEW s \in Scenes
  PROVE  /\ Hit(s) \in Scenes /\ Hit(s).man = s.man
         /\ Hit(s).troops # 0 => Garrisoned(s, Hit(s))
         /\ Listed(s) => Listed(Hit(s))
         /\ AtTheFlag(s) => AtTheFlag(Hit(s))
         /\ Fought(s) => Fought(Hit(s))
<1> DEFINE t == Hit(s)
           n == IF s.troops > 0 THEN s.troops - 1 ELSE 0
<1>1. n \in Nat
  BY DEF Scenes
<1>2. t = [s EXCEPT !.troops = n]
  BY DEF Hit, Scenes
<1> HIDE DEF n, t
<1>3. /\ t \in Scenes /\ t.owner = s.owner /\ t.def = s.def /\ t.foe = s.foe /\ t.troops = n
      /\ t.capturing = s.capturing /\ t.entering = s.entering
      /\ t.man = s.man /\ t.aggr = s.aggr /\ t.far = s.far
  BY <1>1, <1>2 DEF Scenes
<1>4. t.troops # 0 => Garrisoned(s, t)
  BY <1>1, <1>3 DEF Garrisoned, StaysPut
<1>5. (Listed(s) => Listed(t)) /\ (AtTheFlag(s) => AtTheFlag(t)) /\ (Fought(s) => Fought(t))
  BY <1>3 DEF Listed, ListedBut, AtTheFlag, Fought
<1> QED BY <1>3, <1>4, <1>5 DEF t

LEMMA HitGood ==
  ASSUME NEW s, Good(s),
         NEW t, IF Hit(s).troops = 0 THEN t = Destroy(Hit(s)) ELSE t \in RegulateTroops(Hit(s))
  PROVE  Good(t) /\ TakenRightly(s, t)
<1>1. s \in Scenes /\ Listed(s) /\ AtTheFlag(s) /\ Fought(s)
  BY GoodScene
<1>2. CASE Hit(s).troops = 0
  <2>1. Hit(s) \in Scenes /\ Listed(Hit(s)) /\ AtTheFlag(Hit(s)) /\ Fought(Hit(s))
    BY <1>1, HitIs
  <2>2. Good(t) /\ \A b \in Attackers : t.man[b].st = "door" => Hit(s).man[b].st = "door"
    BY <1>2, <2>1, Destroyed
  <2>3. t.owner = Nobody
    BY <1>2, <2>1, DestroyIs
  <2>4. Hit(s).man = s.man
    BY <1>1, HitIs
  <2> QED BY <2>2, <2>3, <2>4 DEF TakenRightly
<1>3. CASE Hit(s).troops # 0
  <2>1. Garrisoned(s, Hit(s))
    BY <1>1, <1>3, HitIs
  <2> QED BY <1>3, <2>1, Regroups, QuietOwner, OwnerRightly
<1> QED BY <1>2, <1>3

LEMMA PulledDownGood ==
  ASSUME NEW s, Good(s)
  PROVE  Good(Destroy(s)) /\ TakenRightly(s, Destroy(s))
<1>1. s \in Scenes /\ Listed(s) /\ AtTheFlag(s) /\ Fought(s)
  BY GoodScene
<1>2. Good(Destroy(s)) /\ \A b \in Attackers : Destroy(s).man[b].st = "door" => s.man[b].st = "door"
  BY <1>1, Destroyed
<1> QED BY <1>1, <1>2, DestroyIs DEF TakenRightly

(* GameWorldGame::Attack. *)
SentOut(s, a) ==
  [s EXCEPT !.man = [s.man EXCEPT ![a] = [st |-> "walking", goal |-> TRUE, home |-> TRUE]],
            !.aggr = s.aggr \cup {a}]

LEMMA SentOutGood ==
  ASSUME NEW s, Good(s), NEW a \in Attackers, s.man[a].st = "away", s.owner # Nobody, ~s.capturing,
         Party[a] # s.owner
  PROVE  Good(SentOut(s, a)) /\ Quiet(s, SentOut(s, a))
<1> DEFINE t == SentOut(s, a)
           him == [st |-> "walking", goal |-> TRUE, home |-> TRUE]
<1>1. s \in Scenes /\ Listed(s) /\ AtTheFlag(s) /\ Fought(s) /\ TakingBut(s, NoFoe)
      /\ CountedBut(s, 0) /\ Held(s)
  BY GoodScene
<1>2. him \in Men /\ him.st = "walking" /\ him.goal
  BY DEF Men, ManStates
<1> HIDE DEF him
<1>3. /\ t \in Scenes /\ t.owner = s.owner /\ t.def = s.def /\ t.foe = s.foe /\ t.troops = s.troops
      /\ t.capturing = s.capturing /\ t.entering = s.entering
      /\ t.man = [s.man EXCEPT ![a] = him] /\ t.aggr = s.aggr \cup {a} /\ t.far = s.far
  BY <1>1, <1>2 DEF SentOut, Scenes, him
<1> HIDE DEF t
<1>4. t.man[a] = him /\ \A b \in Attackers \ {a} : t.man[b] = s.man[b]
  BY <1>1, <1>3 DEF Scenes
<1>5. ListedBut(t, NoFoe)
  <2>1. ~s.man[a].goal /\ a \notin s.far
    BY <1>1, SiegeAssumption DEF Listed, ListedBut
  <2> QED BY <1>1, <1>2, <1>3, <1>4, <2>1 DEF Listed, ListedBut
<1>6. AtTheFlag(t)
  <2>1. \A b \in Attackers : t.man[b].st \in AtFlagStates => b # a /\ t.man[b] = s.man[b]
    BY <1>2, <1>4 DEF AtFlagStates
  <2>2. \A b \in Attackers : s.man[b].st \in AtFlagStates => t.man[b] = s.man[b]
    BY <1>4 DEF AtFlagStates
  <2> QED BY <1>1, <1>3, <2>1, <2>2 DEF AtTheFlag, AtFlagStates
<1>7. TakingBut(t, NoFoe)
  <2>1. s.aggr \subseteq Attackers
    BY <1>1 DEF Scenes
  <2> QED BY <1>1, <1>2, <1>3, <1>4, <2>1 DEF TakingBut, Filling
<1>8. WalkIns(t) = WalkIns(s)
  BY <1>2, <1>4 DEF WalkIns
<1>9. Fought(t) /\ Held(t) /\ CountedBut(t, 0)
  BY <1>1, <1>2, <1>3, <1>4, <1>8 DEF Fought, Held, CountedBut
<1>10. Good(t) /\ Quiet(s, t)
  BY <1>2, <1>3, <1>4, <1>5, <1>6, <1>7, <1>9 DEF Good, GoodBut, Quiet
<1> QED BY <1>10 DEF t

-----------------------------------------------------------------------------
(* The invariant holds, and every step takes the building by right. *)

LEMMA InitGood == Init => IInv
<1> SUFFICES ASSUME Init PROVE IInv
  OBVIOUS
<1>1. PICK s : s = Scene
  OBVIOUS
<1>2. /\ s.owner = FirstOwner /\ s.troops = 1 /\ s.need \in Needs /\ s.ordered = s.need - 1
      /\ s.queued = 0 /\ s.out = 0 /\ ~s.capturing /\ s.entering = 0
      /\ s.def = "none" /\ s.foe = NoFoe /\ s.man = [a \in Attackers |-> Gone]
      /\ s.aggr = {} /\ s.far = {}
  BY <1>1, SceneFields DEF Init
<1>3. FirstOwner \in Players /\ FirstOwner # Nobody /\ s.need - 1 \in Nat /\ 0 \in 0..MaxQueue
  <2>1. s.need \in Nat /\ s.need # 0
    BY <1>2, SiegeAssumption
  <2>2. s.need - 1 \in Nat
    BY <2>1
  <2>3. FirstOwner \in Players /\ Nobody \notin Players /\ 0 \in 0..MaxQueue
    BY SiegeAssumption
  <2> QED BY <2>2, <2>3
<1>4. s \in Scenes
  <2>1. need \in Needs /\ need - 1 \in Nat /\ owner \in Players
    BY <1>1, <1>2, <1>3, SceneFields
  <2>2. Scene = [owner |-> owner, troops |-> 1, need |-> need, ordered |-> need - 1,
                 queued |-> 0, out |-> 0, capturing |-> FALSE, entering |-> 0, def |-> "none",
                 foe |-> NoFoe, man |-> [a \in Attackers |-> Gone], aggr |-> {}, far |-> {}]
    BY DEF Init, Scene
  <2>3. [a \in Attackers |-> Gone] \in [Attackers -> Men]
    BY GoneIs
  <2> QED BY <1>1, <1>3, <2>1, <2>2, <2>3 DEF Scenes, DefenderStates
<1>5. \A a \in Attackers : s.man[a].st = "away" /\ ~s.man[a].goal
  BY <1>2, GoneIs
<1>6. ListedBut(s, NoFoe) /\ AtTheFlag(s) /\ Fought(s) /\ TakingBut(s, NoFoe) /\ Held(s)
  BY <1>2, <1>3, <1>5 DEF ListedBut, AtTheFlag, AtFlagStates, Fought, TakingBut, Held
<1>7. CountedBut(s, 0)
  <2>1. WalkIns(s) = {}
    BY <1>5 DEF WalkIns
  <2> QED BY <1>2, <2>1, FS_EmptySet DEF CountedBut
<1>8. Good(s)
  BY <1>4, <1>6, <1>7 DEF Good, GoodBut
<1>9. enemies \in Leagues /\ capturing_soldiers \in 0..MaxEntering
  BY SiegeAssumption DEF Init
<1> QED BY <1>1, <1>8, <1>9 DEF IInv

LEMMA Comes ==
  ASSUME IInv, enemies' = enemies, NEW t, Becomes(t), Good(t),
         TakenRightly(Scene, t) \/ SameOwner(Scene, t) \/ Quiet(Scene, t)
  PROVE  IInv' /\ RightStep
BY Became, QuietOwner, OwnerRightly DEF IInv

LEMMA AttackStep ==
  ASSUME IInv, NEW a \in Attackers, Attack(a), enemies' = enemies
  PROVE  IInv' /\ RightStep
<1>1. PICK s : s = Scene
  OBVIOUS
<1>2. PICK t : t = SentOut(s, a)
  OBVIOUS
<1>3. Good(s) /\ s.man[a].st = "away" /\ s.owner # Nobody /\ ~s.capturing
  BY <1>1, SceneFields DEF IInv, Attack
<1>4. Party[a] # s.owner
  <2>1. Party[a] # owner
    BY SiegeAssumption DEF IInv, Attack
  <2> QED BY <1>1, <2>1, SceneFields
<1>5. Good(t) /\ Quiet(s, t)
  BY <1>2, <1>3, <1>4, SentOutGood
<1>6. Scene' = SentOut(Scene, a)
  <2> DEFINE men == [man EXCEPT ![a] = [st |-> "walking", goal |-> TRUE, home |-> TRUE]]
             listed == aggressors \cup {a}
  <2>1. man' = men /\ aggressors' = listed
    BY DEF Attack
  <2>2. SentOut(Scene, a) = [Scene EXCEPT !.man = men, !.aggr = listed]
    BY SceneFields DEF SentOut
  <2> HIDE DEF men, listed
  <2> DEFINE with(m, l) ==
               [owner |-> owner, troops |-> troops, need |-> need, ordered |-> ordered,
                queued |-> queued, out |-> out, capturing |-> capturing,
                entering |-> capturing_soldiers, def |-> defender, foe |-> foe, man |-> m,
                aggr |-> l, far |-> far_away_capturers]
  <2>3. Scene = with(man, aggressors)
    BY DEF Scene
  <2>4. [with(man, aggressors) EXCEPT !.man = men] = with(men, aggressors)
    OBVIOUS
  <2>5. [with(men, aggressors) EXCEPT !.aggr = listed] = with(men, listed)
    OBVIOUS
  <2>6. Scene' = with(men, listed)
    BY <2>1 DEF Attack, Scene
  <2> HIDE DEF with
  <2> QED BY <2>2, <2>3, <2>4, <2>5, <2>6, Zenon
<1>7. capturing_soldiers' = capturing_soldiers
  BY DEF Attack
<1>8. TakenRightly(Scene, t)
  BY <1>1, <1>5, QuietOwner, OwnerRightly
<1> QED BY <1>1, <1>2, <1>5, <1>6, <1>7, <1>8, Reached DEF IInv

LEMMA WalkToFlagStep ==
  ASSUME IInv, NEW a \in Attackers, WalkToFlag(a), enemies' = enemies
  PROVE  IInv' /\ RightStep
<1>1. PICK s : s = Scene
  OBVIOUS
<1>2. Good(s) /\ s.man[a].st = "toflag" /\ s.man = man /\ s.def = defender
  BY <1>1, SceneFields DEF IInv, WalkToFlag
<1>3. CASE ~man[a].goal
  <2>1. PICK t \in Leave(s, a) : Becomes(t)
    BY <1>1, <1>3 DEF WalkToFlag, OneOf
  <2>2. Good(t) /\ Quiet(s, t)
    BY <1>2, LeavesGood DEF FieldStates
  <2> QED BY <1>1, <2>1, <2>2, Comes
<1>4. CASE man[a].goal /\ defender = "waiting" /\ OneOf({Fights(s, a)})
  <2>1. PICK t : t = Fights(s, a) /\ Becomes(t)
    BY <1>4 DEF OneOf
  <2>2. Good(t) /\ Quiet(s, t)
    BY <1>2, <1>4, <2>1, WaitedFor
  <2> QED BY <1>1, <2>1, <2>2, Comes
<1>5. CASE defender # "waiting" /\ \E at \in {"elsewhere", "spot", "flag"} : OneOf(Moves(s, a, at))
  <2>1. PICK at \in {"elsewhere", "spot", "flag"} : \E t \in Moves(s, a, at) : Becomes(t)
    BY <1>5 DEF OneOf
  <2>2. PICK t \in Moves(s, a, at) : Becomes(t)
    BY <2>1
  <2>3. Good(t) /\ SameOwner(s, t)
    BY <1>2, ToTheFlag DEF FieldStates
  <2> QED BY <1>1, <2>2, <2>3, Comes
<1>6. CASE /\ defender = "waiting"
           /\ \E at \in {"elsewhere", "spot"} :
                OneOf(UNION {FindAttackerNearBuilding(t) : t \in Moves(s, a, at)})
  <2>1. PICK at \in {"elsewhere", "spot"} :
          OneOf(UNION {FindAttackerNearBuilding(t) : t \in Moves(s, a, at)})
    BY <1>6
  <2>2. PICK t : Becomes(t) /\ \E u \in Moves(s, a, at) : t \in FindAttackerNearBuilding(u)
    BY <2>1, Zenon DEF OneOf
  <2>3. Good(t) /\ Quiet(s, t)
    BY <1>2, <1>6, <2>2, Arrests DEF FieldStates
  <2> QED BY <1>1, <2>2, <2>3, Comes
<1>7. CASE man[a].goal /\ ~(defender = "waiting" /\ OneOf({Fights(s, a)}))
  <2>1. CASE defender = "waiting"
    <3>1. \E at \in {"elsewhere", "spot"} :
            OneOf(UNION {FindAttackerNearBuilding(t) : t \in Moves(s, a, at)})
      BY <1>1, <1>7, <2>1, Zenon DEF WalkToFlag, Fights
    <3> QED BY <1>6, <2>1, <3>1
  <2>2. CASE defender # "waiting"
    <3>1. ASSUME NEW at \in {"elsewhere", "spot"},
                 OneOf(UNION {IF defender = "waiting" THEN FindAttackerNearBuilding(t) ELSE {t} :
                                t \in Moves(s, a, at)})
          PROVE  OneOf(Moves(s, a, at))
      <4>1. UNION {IF defender = "waiting" THEN FindAttackerNearBuilding(t) ELSE {t} :
                                t \in Moves(s, a, at)} = Moves(s, a, at)
        BY <2>2
      <4> QED BY <3>1, <4>1
    <3>2. \/ OneOf(Moves(s, a, "flag"))
          \/ \E at \in {"elsewhere", "spot"} :
               OneOf(UNION {IF defender = "waiting" THEN FindAttackerNearBuilding(t) ELSE {t} :
                                t \in Moves(s, a, at)})
      BY <1>1, <1>7, <2>2, Zenon DEF WalkToFlag
    <3> QED BY <1>5, <2>2, <3>1, <3>2
  <2> QED BY <2>1, <2>2
<1> QED BY <1>3, <1>4, <1>7

LEMMA EnterFirstStep ==
  ASSUME IInv, NEW a \in Attackers, EnterFirst(a), enemies' = enemies
  PROVE  IInv' /\ RightStep
<1>1. PICK s : s = Scene
  OBVIOUS
<1>2. Good(s) /\ s.man[a].st = "first" /\ s.man = man /\ s.troops = troops
  BY <1>1, SceneFields DEF IInv, EnterFirst
<1>3. CASE ~man[a].goal
  <2>1. PICK t \in Leave(s, a) : Becomes(t)
    BY <1>1, <1>3 DEF EnterFirst, OneOf
  <2>2. Good(t) /\ Quiet(s, t)
    BY <1>2, <1>3, LeavesGood
  <2> QED BY <1>1, <2>1, <2>2, Comes
<1>4. CASE man[a].goal /\ troops > 0
  <2>1. PICK t : t = TurnsBack(s, a) /\ Becomes(t)
    BY <1>1, <1>4 DEF EnterFirst, OneOf, TurnsBack
  <2>2. Good(t) /\ Quiet(s, t)
    BY <1>2, <1>4, <2>1, TurnedBack
  <2> QED BY <1>1, <2>1, <2>2, Comes
<1>5. CASE man[a].goal /\ ~(troops > 0)
  <2> DEFINE Moved(x) == {Depart(y, a) : y \in AddActiveSoldier(x)}
             captured == UNION {UnlinkAggressor(x, a) : x \in Capture(s, Party[a])}
             inside == UNION {Moved(x) : x \in captured}
  <2>1. OneOf(UNION {NeedOccupyingTroops(x, Party[a]) : x \in inside})
    BY <1>1, <1>5 DEF EnterFirst
  <2>2. PICK x \in inside : \E t \in NeedOccupyingTroops(x, Party[a]) : Becomes(t)
    BY <2>1, Zenon DEF OneOf
  <2>3. PICK t \in NeedOccupyingTroops(x, Party[a]) : Becomes(t)
    BY <2>2
  <2>4. PICK u \in captured : \E v \in AddActiveSoldier(u) : x = Depart(v, a)
    BY Zenon
  <2>5. PICK v \in AddActiveSoldier(u) : x = Depart(v, a)
    BY <2>4
  <2>6. PICK c \in Capture(s, Party[a]) : u \in UnlinkAggressor(c, a)
    BY Zenon
  <2>7. s.troops = 0
    BY <1>2, <1>5, GoodScene DEF Scenes
  <2> HIDE DEF captured, inside, Moved
  <2>8. Good(t) /\ TakenRightly(s, t)
    BY <1>2, <1>5, <2>3, <2>5, <2>6, <2>7, Taken
  <2> QED BY <1>1, <2>3, <2>8, Comes
<1> QED BY <1>3, <1>4, <1>5

LEMMA WalkToDoorStep ==
  ASSUME IInv, NEW a \in Attackers, WalkToDoor(a), enemies' = enemies
  PROVE  IInv' /\ RightStep
<1>1. PICK s : s = Scene
  OBVIOUS
<1>2. Good(s) /\ s.man[a].st = "next" /\ s.man = man
  BY <1>1, SceneFields DEF IInv, WalkToDoor
<1>3. CASE ~man[a].goal
  <2>1. PICK t \in Leave(s, a) : Becomes(t)
    BY <1>1, <1>3 DEF WalkToDoor, OneOf
  <2>2. Good(t) /\ Quiet(s, t)
    BY <1>2, LeavesGood
  <2> QED BY <1>1, <2>1, <2>2, Comes
<1>4. CASE man[a].goal /\ OneOf(NeedOccupyingTroops(Put(s, a, "door"), Party[a]))
  <2>1. PICK t \in NeedOccupyingTroops(Put(s, a, "door"), Party[a]) : Becomes(t)
    BY <1>4 DEF OneOf
  <2>2. Good(t) /\ SameOwner(s, t)
    BY <1>2, <1>4, AtTheDoor
  <2> QED BY <1>1, <2>1, <2>2, Comes
<1>5. CASE man[a].goal /\ man[a].home /\ OneOf(UNION {Leave(u, a) : u \in NeedOccupyingTroops(s, Anyone)})
  <2>1. PICK t : /\ Becomes(t)
                 /\ \E u \in NeedOccupyingTroops(s, Anyone) : t \in Leave(u, a)
    BY <1>5, Zenon DEF OneOf
  <2>2. Good(t) /\ Quiet(s, t)
    BY <1>2, <1>5, <2>1, FindsNoWay
  <2> QED BY <1>1, <2>1, <2>2, Comes
<1>6. CASE man[a].goal /\ ~man[a].home
             /\ OneOf({Depart(u, a) : u \in UNION {NeedOccupyingTroops(v, Anyone) :
                                                     v \in UnlinkAggressor(s, a)}})
  <2>1. PICK t : /\ Becomes(t)
                 /\ \E v \in UnlinkAggressor(s, a) :
                      \E u \in NeedOccupyingTroops(v, Anyone) : t = Depart(u, a)
    BY <1>6, Zenon DEF OneOf
  <2>2. Good(t) /\ Quiet(s, t)
    BY <1>2, <1>6, <2>1, HasNoHome
  <2> QED BY <1>1, <2>1, <2>2, Comes
<1> QED BY <1>1, <1>3, <1>4, <1>5, <1>6, Zenon DEF WalkToDoor

LEMMA EnterNextStep ==
  ASSUME IInv, NEW a \in Attackers, EnterNext(a), enemies' = enemies
  PROVE  IInv' /\ RightStep
<1>1. PICK s : s = Scene
  OBVIOUS
<1>2. Good(s) /\ s.man[a].st = "door" /\ s.man = man
  BY <1>1, SceneFields DEF IInv, EnterNext
<1>3. CASE ~man[a].goal
  <2>1. PICK t \in Leave(s, a) : Becomes(t)
    BY <1>1, <1>3 DEF EnterNext, OneOf
  <2>2. Good(t) /\ Quiet(s, t)
    BY <1>2, LeavesGood
  <2> QED BY <1>1, <2>1, <2>2, Comes
<1>4. CASE man[a].goal
  <2> DEFINE inside == {Arrives(g) : g \in AddActiveSoldier(s)}
  <2>1. OneOf({Depart(u, a) : u \in UNION {UnlinkAggressor(v, a) : v \in inside}})
    BY <1>1, <1>4 DEF EnterNext, Arrives
  <2>2. PICK t : /\ Becomes(t)
                 /\ \E g \in AddActiveSoldier(s) :
                      \E u \in UnlinkAggressor(Arrives(g), a) : t = Depart(u, a)
    BY <2>1, Zenon DEF OneOf
  <2>3. Good(t) /\ Quiet(s, t)
    BY <1>2, <1>4, <2>2, ArrivedGood
  <2> QED BY <1>1, <2>2, <2>3, Comes
<1> QED BY <1>3, <1>4

LEMMA AttackerWinsStep ==
  ASSUME IInv, NEW a \in Attackers, AttackerWins(a), enemies' = enemies
  PROVE  IInv' /\ RightStep
<1>1. PICK s : s = Scene
  OBVIOUS
<1>2. Good(s) /\ s.man[a].st = "fighting" /\ s.man = man
  <2>1. man[a].st = "fighting"
    BY Zenon DEF AttackerWins
  <2> QED BY <1>1, <2>1, SceneFields DEF IInv
<1>3. CASE ~man[a].goal
  <2>1. PICK t \in Leave(Dead(s), a) : Becomes(t)
    BY <1>1, <1>3 DEF AttackerWins, OneOf, Dead
  <2>2. Good(t) /\ Quiet(s, t)
    BY <1>2, <1>3, WinsForNothing
  <2> QED BY <1>1, <2>1, <2>2, Comes
<1>4. CASE man[a].goal
  <2> DEFINE Arrival(u) == IF u.def # "none" THEN Put(u, a, "waiting") ELSE Captures(u, a)
             ContinueAtFlag(v) == {Arrival(u) : u \in CallDefender(v, a)}
             Regulate(v) == IF troops > 0 THEN RegulateTroops(v) ELSE {v}
             left == Regulate(Dead(s))
  <2>0. OneOf(IF ~man[a].goal THEN Leave(Dead(Scene), a)
              ELSE UNION {ContinueAtFlag(v) : v \in Regulate(Dead(Scene))})
    BY Zenon DEF AttackerWins, Dead, Captures, CountsHim
  <2> HIDE DEF ContinueAtFlag, Regulate
  <2>1. OneOf(UNION {ContinueAtFlag(v) : v \in left})
    BY <1>1, <1>4, <2>0
  <2> USE DEF ContinueAtFlag, Regulate
  <2>2. PICK v \in left : \E u \in CallDefender(v, a) : \E t : t = Arrival(u) /\ Becomes(t)
    BY <2>1, Zenon DEF OneOf
  <2>3. PICK u \in CallDefender(v, a) : \E t : t = Arrival(u) /\ Becomes(t)
    BY <2>2
  <2>4. PICK t : t = Arrival(u) /\ Becomes(t)
    BY <2>3
  <2>5. v = Dead(s) \/ v \in RegulateTroops(Dead(s))
    BY <2>2
  <2>6. NextDefender(s, a, u)
    BY <1>2, <2>3, <2>5, NextDefenderIs
  <2>7. Good(t) /\ Quiet(s, t)
    BY <1>2, <1>4, <2>4, <2>6, FightsTheNext, CapturesGood
  <2> QED BY <1>1, <2>4, <2>7, Comes
<1> QED BY <1>3, <1>4

LEMMA DefenderWinsStep ==
  ASSUME IInv, NEW a \in Attackers, DefenderWins(a), enemies' = enemies
  PROVE  IInv' /\ RightStep
<1>1. PICK s : s = Scene
  OBVIOUS
<1>2. Good(s) /\ s.man[a].st = "fighting" /\ s.owner = owner
  BY <1>1, SceneFields DEF IInv, DefenderWins
<1> DEFINE won == {NoFoeIn(u) : u \in Leave(s, a)}
<1>3. OneOf(IF owner = Nobody THEN {HeIsHome(v) : v \in won}
            ELSE UNION {FindAttackerNearBuilding(v) : v \in won})
  BY <1>1 DEF DefenderWins, NoFoeIn, HeIsHome
<1>4. PICK t : /\ Becomes(t)
               /\ \E u \in Leave(s, a) :
                    \/ owner = Nobody /\ t = HeIsHome(NoFoeIn(u))
                    \/ t \in FindAttackerNearBuilding(NoFoeIn(u))
  <2>1. CASE owner = Nobody
    BY <1>3, <2>1, Zenon DEF OneOf
  <2>2. CASE owner # Nobody
    BY <1>3, <2>2, Zenon DEF OneOf
  <2> QED BY <2>1, <2>2
<1>5. Good(t) /\ Quiet(s, t)
  BY <1>2, <1>4, DefenderSurvives
<1> QED BY <1>1, <1>4, <1>5, Comes

LEMMA HomeDestroyedStep ==
  ASSUME IInv, NEW a \in Attackers, HomeDestroyed(a), enemies' = enemies
  PROVE  IInv' /\ RightStep
<1>1. PICK s : s = Scene
  OBVIOUS
<1>2. Good(s) /\ s \in Scenes /\ s.man = man
  BY <1>1, SceneFields, GoodScene DEF IInv
<1>3. CASE man[a].st = "around"
  <2> DEFINE gone == {Depart(u, a) : u \in UnlinkAggressor(s, a)}
  <2>1. OneOf(UNION {SendSuccessor(v) : v \in gone})
    BY <1>1, <1>3 DEF HomeDestroyed
  <2>2. PICK t : /\ Becomes(t)
                 /\ \E u \in UnlinkAggressor(s, a) : t \in SendSuccessor(Depart(u, a))
    BY <2>1, Zenon DEF OneOf
  <2>3. Good(t) /\ Quiet(s, t)
    BY <1>2, <1>3, <2>2, SucceededGood
  <2> QED BY <1>1, <2>2, <2>3, Comes
<1>4. CASE man[a].st # "around"
  <2>1. PICK t : t = [s EXCEPT !.man[a].home = FALSE] /\ Becomes(t)
    BY <1>1, <1>4 DEF HomeDestroyed, OneOf
  <2>2. t = Homeless(s, a)
    BY <2>1 DEF Homeless
  <2>3. Good(t) /\ Quiet(s, t)
    BY <1>2, <2>2, HomelessGood
  <2> QED BY <1>1, <2>1, <2>3, Comes
<1> QED BY <1>3, <1>4

LEMMA FieldSteps ==
  ASSUME IInv, NEW a \in Attackers, enemies' = enemies,
         WalkToGoal(a) \/ CancelledAtHome(a) \/ MeetEnemy(a) \/ FreeFightEnds(a)
  PROVE  IInv' /\ RightStep
<1>1. PICK s : s = Scene
  OBVIOUS
<1>2. Good(s) /\ s \in Scenes /\ Listed(s) /\ s.man = man
  BY <1>1, SceneFields, GoodScene DEF IInv
<1>3. CASE WalkToGoal(a)
  <2>1. PICK at \in {"elsewhere", "spot", "flag"} : OneOf(MissAttackingWalk(s, a, at))
    BY <1>1, <1>3 DEF WalkToGoal
  <2>2. PICK t \in MissAttackingWalk(s, a, at) : Becomes(t)
    BY <2>1 DEF OneOf
  <2>3. Good(t) /\ SameOwner(s, t)
    BY <1>2, <1>3, MissesNothing DEF WalkToGoal
  <2> QED BY <1>1, <2>2, <2>3, Comes
<1>4. CASE CancelledAtHome(a) \/ (man[a].st = "free" /\ OneOf(Leave(s, a)))
  <2>1. PICK t \in Leave(s, a) : Becomes(t)
    BY <1>1, <1>4 DEF CancelledAtHome, OneOf
  <2>2. Good(t) /\ Quiet(s, t)
    BY <1>2, <1>4, LeavesGood DEF FieldStates, CancelledAtHome
  <2> QED BY <1>1, <2>1, <2>2, Comes
<1>5. CASE MeetEnemy(a)
  <2>1. PICK t : t = Put(s, a, "free") /\ Becomes(t)
    BY <1>1, <1>5 DEF MeetEnemy
  <2>2. Calm(s, t) /\ Listed(t)
    BY <1>2, <1>5, <2>1, Strolls DEF FieldStates, MeetEnemy
  <2>3. Good(t) /\ Quiet(s, t)
    BY <1>2, <2>2, CalmGood, CalmQuiet
  <2> QED BY <1>1, <2>1, <2>3, Comes
<1>6. CASE man[a].st = "free" /\ OneOf(Moves(s, a, "elsewhere"))
  <2>1. PICK t \in Moves(s, a, "elsewhere") : Becomes(t)
    BY <1>6 DEF OneOf
  <2>2. Good(t) /\ Quiet(s, t)
    BY <1>2, <1>6, MovesOn DEF FieldStates
  <2> QED BY <1>1, <2>1, <2>2, Comes
<1>7. FreeFightEnds(a) => man[a].st = "free" /\ (OneOf(Leave(s, a)) \/ OneOf(Moves(s, a, "elsewhere")))
  BY <1>1 DEF FreeFightEnds, OneOf
<1> QED BY <1>3, <1>4, <1>5, <1>6, <1>7

LEMMA DefendStep ==
  ASSUME IInv, Defend, enemies' = enemies
  PROVE  IInv' /\ RightStep
<1>1. PICK s : s = Scene
  OBVIOUS
<1>2. Good(s) /\ s.def = defender /\ s.foe = foe
  BY <1>1, SceneFields DEF IInv
<1>3. CASE DefenderAtFlag
  <2>1. PICK t : t = Fights(s, s.foe) /\ Becomes(t)
    BY <1>1, <1>2, <1>3 DEF DefenderAtFlag, Fights
  <2>2. Good(t) /\ Quiet(s, t)
    BY <1>2, <1>3, <2>1, Awaited DEF DefenderAtFlag
  <2> QED BY <1>1, <2>1, <2>2, Comes
<1>4. CASE DefenderAtHome /\ foe # NoFoe
  <2>1. PICK t : t = ComesOut(s) /\ Becomes(t)
    BY <1>1, <1>4 DEF DefenderAtHome, OneOf, ComesOut
  <2>2. Good(t) /\ Quiet(s, t)
    BY <1>2, <1>4, <2>1, ComesOutGood DEF DefenderAtHome
  <2> QED BY <1>1, <2>1, <2>2, Comes
<1>5. CASE DefenderAtHome /\ foe = NoFoe
  <2>1. OneOf({HeIsHome(g) : g \in AddActiveSoldier(s)})
    BY <1>1, <1>5 DEF DefenderAtHome, HeIsHome
  <2>2. PICK t : Becomes(t) /\ \E g \in AddActiveSoldier(s) : t = HeIsHome(g)
    BY <2>1, Zenon DEF OneOf
  <2>3. Good(t) /\ Quiet(s, t)
    BY <1>2, <1>5, <2>2, InsideGood DEF DefenderAtHome
  <2> QED BY <1>1, <2>2, <2>3, Comes
<1> QED BY <1>3, <1>4, <1>5 DEF Defend

LEMMA GarrisonStep ==
  ASSUME IInv, Garrison, enemies' = enemies
  PROVE  IInv' /\ RightStep
<1>1. PICK s : s = Scene
  OBVIOUS
<1>2. /\ Good(s) /\ s \in Scenes /\ s.out = out /\ s.ordered = ordered /\ s.queued = queued
      /\ s.troops = troops
  BY <1>1, SceneFields, GoodScene DEF IInv
<1>3. CASE SoldierOnMission
  <2>1. PICK t \in SendDefender(s) : Becomes(t)
    BY <1>1, <1>3 DEF SoldierOnMission, OneOf
  <2>2. Good(t) /\ Quiet(s, t)
    BY <1>2, DefenderSent, GarrisonQuiet
  <2> QED BY <1>1, <2>1, <2>2, Comes
<1>4. CASE MissionLeaves
  <2>1. PICK t : t = [s EXCEPT !.queued = @ - 1, !.out = @ + 1] /\ Becomes(t)
    BY <1>1, <1>4 DEF MissionLeaves
  <2>2. s.queued - 1 \in 0..MaxQueue /\ s.out + 1 \in Nat
    BY <1>2, <1>4, SiegeAssumption DEF MissionLeaves, Scenes
  <2>3. Garrisoned(s, t)
    BY <1>2, <2>1, <2>2 DEF Garrisoned, StaysPut, Scenes
  <2>4. Good(t) /\ Quiet(s, t)
    BY <1>2, <2>3, GarrisonQuiet
  <2> QED BY <1>1, <2>1, <2>4, Comes
<1>5. CASE MissionReturns \/ SoldierLost
  <2>1. \/ out > 0 /\ OneOf(AddActiveSoldier(FewerOut(s)))
        \/ out > 0 /\ OneOf(RegulateTroops(FewerOut(s)))
        \/ ordered > 0 /\ OneOf(RegulateTroops(FewerOrdered(s)))
    BY <1>1, <1>5 DEF MissionReturns, SoldierLost, FewerOut, FewerOrdered
  <2>2. PICK u, t : /\ Garrisoned(s, u) /\ Becomes(t)
                    /\ t \in RegulateTroops(u) \/ t \in AddActiveSoldier(u)
    BY <1>2, <2>1, CountsChange, Zenon DEF OneOf
  <2>3. Good(t) /\ Quiet(s, t)
    BY <1>2, <2>2, Regroups
  <2> QED BY <1>1, <2>2, <2>3, Comes
<1>6. CASE AddPassiveSoldier
  <2>1. PICK t : t = [s EXCEPT !.ordered = @ - 1, !.troops = @ + 1] /\ Becomes(t)
    BY <1>1, <1>6 DEF AddPassiveSoldier
  <2>2. s.ordered - 1 \in Nat /\ s.troops + 1 \in Nat /\ s.troops + 1 > 0
    BY <1>2, <1>6 DEF AddPassiveSoldier, Scenes
  <2>3. Garrisoned(s, t)
    BY <1>2, <2>1, <2>2 DEF Garrisoned, StaysPut, Scenes
  <2>4. Good(t) /\ Quiet(s, t)
    BY <1>2, <2>3, GarrisonQuiet
  <2> QED BY <1>1, <2>1, <2>4, Comes
<1>7. CASE NewEnemyMilitaryBuilding
  <2>1. PICK n \in Needs : OneOf(RegulateTroops(OthersNeeded(s, n)))
    BY <1>1, <1>7 DEF NewEnemyMilitaryBuilding, OthersNeeded
  <2>2. PICK t \in RegulateTroops(OthersNeeded(s, n)) : Becomes(t)
    BY <2>1 DEF OneOf
  <2>3. Good(t) /\ Quiet(s, t)
    BY <1>2, CountsChange, Regroups
  <2> QED BY <1>1, <2>2, <2>3, Comes
<1>8. CASE HitOfCatapultStone
  <2>1. OneOf(IF Hit(s).troops = 0 THEN {Destroy(Hit(s))} ELSE RegulateTroops(Hit(s)))
    BY <1>1, <1>8 DEF HitOfCatapultStone, Hit
  <2>2. PICK t : /\ Becomes(t)
                 /\ IF Hit(s).troops = 0 THEN t = Destroy(Hit(s)) ELSE t \in RegulateTroops(Hit(s))
    BY <2>1 DEF OneOf
  <2>3. Good(t) /\ TakenRightly(s, t)
    BY <1>2, <2>2, HitGood
  <2> QED BY <1>1, <2>2, <2>3, Comes
<1>9. CASE PulledDown
  <2>1. PICK t : t = Destroy(s) /\ Becomes(t)
    BY <1>1, <1>9 DEF PulledDown
  <2>2. Good(t) /\ TakenRightly(s, t)
    BY <1>2, <2>1, PulledDownGood
  <2> QED BY <1>1, <2>1, <2>2, Comes
<1> QED BY <1>3, <1>4, <1>5, <1>6, <1>7, <1>8, <1>9 DEF Garrison

LEMMA Stutters ==
  ASSUME IInv, UNCHANGED vars
  PROVE  IInv' /\ RightStep
<1>1. Scene' = Scene /\ enemies' = enemies /\ capturing_soldiers' = capturing_soldiers
      /\ owner' = owner /\ man' = man
  BY DEF vars, Scene
<1>2. TakenRightly(Scene, Scene)
  BY DEF TakenRightly
<1>3. PICK s : s = Scene
  OBVIOUS
<1> QED BY <1>1, <1>2, <1>3, Reached DEF IInv

LEMMA NextGood ==
  ASSUME IInv, [Next]_vars
  PROVE  IInv' /\ RightStep
<1>1. CASE UNCHANGED vars
  BY <1>1, Stutters
<1>2. CASE Next
  <2>0. enemies' = enemies
    BY <1>2 DEF Next
  <2>1. ASSUME NEW a \in Attackers, Attacker(a)
        PROVE  IInv' /\ RightStep
    BY <2>0, <2>1, WalkToFlagStep, EnterFirstStep, WalkToDoorStep, EnterNextStep,
       AttackerWinsStep, DefenderWinsStep, FieldSteps DEF Attacker
  <2>2. ASSUME NEW a \in Attackers,
               Attack(a) \/ CancelledAtHome(a) \/ MeetEnemy(a) \/ HomeDestroyed(a)
        PROVE  IInv' /\ RightStep
    BY <2>0, <2>2, AttackStep, FieldSteps, HomeDestroyedStep
  <2>3. CASE Over
    BY <2>0, <2>3, Stutters DEF Over
  <2> QED BY <1>2, <2>0, <2>1, <2>2, <2>3, DefendStep, GarrisonStep DEF Next
<1> QED BY <1>1, <1>2

LEMMA Inductive == Spec => []IInv
<1>1. IInv /\ [Next]_vars => IInv'
  BY NextGood
<1> QED BY InitGood, <1>1, PTL DEF Spec

-----------------------------------------------------------------------------
(* The invariant says what the properties say. *)

LEMMA Known == IInv => GoalKnowsAttackers
<1> SUFFICES ASSUME IInv PROVE GoalKnowsAttackers
  OBVIOUS
<1>1. PICK s : s = Scene
  OBVIOUS
<1>2. Good(s) /\ s \in Scenes /\ Listed(s)
  BY <1>1, GoodScene DEF IInv
<1>3. /\ s.owner = owner /\ s.troops = troops /\ s.need = need /\ s.ordered = ordered
      /\ s.queued = queued /\ s.out = out /\ s.capturing = capturing
      /\ s.entering = capturing_soldiers /\ s.def = defender /\ s.foe = foe /\ s.man = man
      /\ s.aggr = aggressors /\ s.far = far_away_capturers
  BY <1>1, SceneFields
<1>4. capturing_soldiers \in 0..UnsignedMax
  BY SiegeAssumption DEF IInv
<1>5. TypeOK
  <2>1. /\ owner \in Players \cup {Nobody} /\ need \in Needs /\ troops \in Nat /\ ordered \in Nat
        /\ queued \in 0..MaxQueue /\ out \in Nat /\ capturing \in BOOLEAN
        /\ defender \in DefenderStates /\ foe \in Attackers \cup {NoFoe}
    BY <1>2, <1>3 DEF Scenes
  <2>2. /\ man \in [Attackers -> Men] /\ aggressors \subseteq Attackers
        /\ far_away_capturers \subseteq Attackers
    BY <1>2, <1>3 DEF Scenes
  <2> QED BY <1>4, <2>1, <2>2 DEF TypeOK, Men
<1>6. \A a \in Attackers : man[a].goal <=> a \in aggressors \cup far_away_capturers
  BY <1>2, <1>3, SiegeAssumption DEF Listed, ListedBut
<1>7. {a \in Attackers : man[a].goal} = aggressors \cup far_away_capturers
  BY <1>5, <1>6 DEF TypeOK
<1>8. aggressors \cap far_away_capturers = {}
  BY <1>2, <1>3 DEF Listed, ListedBut
<1> QED BY <1>5, <1>7, <1>8 DEF GoalKnowsAttackers

LEMMA Counted == IInv => EverybodyCounted
<1> SUFFICES ASSUME IInv PROVE EverybodyCounted
  OBVIOUS
<1>1. PICK s : s = Scene
  OBVIOUS
<1>2. CountedBut(s, 0) /\ s.entering \in Nat /\ s.entering = capturing_soldiers /\ s.man = man
  BY <1>1, GoodScene, SceneFields DEF IInv, Scenes
<1>3. WalkIns(s) = WalkingIn
  BY <1>2 DEF WalkIns, WalkingIn
<1>4. Cardinality(WalkIns(s)) <= s.entering + 0 /\ s.entering + 0 = s.entering
  BY <1>2 DEF CountedBut
<1> QED BY <1>2, <1>3, <1>4 DEF EverybodyCounted

LEMMA Kept == IInv => NeverDeserted
<1> SUFFICES ASSUME IInv PROVE NeverDeserted
  OBVIOUS
<1>1. PICK s : s = Scene
  OBVIOUS
<1>2. Held(s) /\ s.owner = owner /\ s.troops = troops /\ s.def = defender /\ s.man = man
  BY <1>1, GoodScene, SceneFields DEF IInv
<1> QED BY <1>2 DEF Held, NeverDeserted, WalkingIn

(* One man has the flag, and he is not the owner's; the defender who comes *)
(* out finds his man there, and fights whoever fights there.               *)
AloneAtTheFlag ==
  LET there == {a \in Attackers : man[a].st \in {"waiting", "fighting", "first"}}
  IN  /\ Cardinality(there) <= 1
      /\ \A a \in there : man[a].goal => Party[a] # owner
      /\ defender = "to" => foe # NoFoe /\ man[foe].st = "waiting"
      /\ (defender = "fighting") <=> (In(Scene, "fighting") # {})

LEMMA Alone == IInv => AloneAtTheFlag
<1> SUFFICES ASSUME IInv PROVE AloneAtTheFlag
  OBVIOUS
<1> DEFINE there == {a \in Attackers : man[a].st \in {"waiting", "fighting", "first"}}
<1>1. PICK s : s = Scene
  OBVIOUS
<1>2. AtTheFlag(s) /\ Fought(s)
  BY <1>1, GoodScene DEF IInv
<1>3. s.owner = owner /\ s.def = defender /\ s.foe = foe /\ s.man = man
  BY <1>1, SceneFields
<1>4. Cardinality(there) <= 1
  <2>1. \A a, b \in there : a = b
    BY <1>2, <1>3 DEF AtTheFlag, AtFlagStates
  <2>2. there = {} \/ \E a : there = {a}
    BY <2>1
  <2> HIDE DEF there
  <2>3. CASE there = {}
    BY <2>3, FS_EmptySet
  <2>4. CASE \E a : there = {a}
    <3>1. Cardinality(there) = 1
      BY <2>4, FS_Singleton
    <3> QED BY <3>1
  <2> QED BY <2>2, <2>3, <2>4
<1>5. \A a \in there : man[a].goal => Party[a] # owner
  BY <1>2, <1>3 DEF AtTheFlag, AtFlagStates
<1>6. defender = "to" => foe # NoFoe /\ man[foe].st = "waiting"
  BY <1>2, <1>3, SiegeAssumption DEF AtTheFlag
<1>7. (defender = "fighting") <=> (In(Scene, "fighting") # {})
  <2>1. In(Scene, "fighting") = {a \in Attackers : man[a].st = "fighting"}
    BY SceneFields DEF In
  <2> QED BY <1>2, <1>3, <2>1 DEF AtTheFlag, Fought
<1> QED BY <1>4, <1>5, <1>6, <1>7 DEF AloneAtTheFlag

(* There are no alliances, so that everybody may attack everybody else. *)
Unallied == \A E \in Leagues : \A p, q \in Players : p # q => <<p, q>> \in E

LEMMA Enemies ==
  ASSUME Unallied, IInv
  PROVE  OneEnemyAtTheFlag
<1> DEFINE there == {a \in Attackers : man[a].st \in {"waiting", "fighting", "first"}}
<1>1. ASSUME NEW a \in there, man[a].goal
      PROVE  <<Party[a], owner>> \in enemies
  <2>1. Party[a] # owner
    BY <1>1, Alone DEF AloneAtTheFlag
  <2>2. owner \in Players
    <3>1. PICK s : s = Scene
      OBVIOUS
    <3>2. s \in Scenes /\ Listed(s) /\ s.owner = owner /\ s.man = man
      BY <3>1, GoodScene, SceneFields DEF IInv
    <3> QED BY <1>1, <3>2 DEF Scenes, Listed, ListedBut
  <2>3. Party[a] \in Players /\ enemies \in Leagues
    BY SiegeAssumption DEF IInv
  <2> QED BY <2>1, <2>2, <2>3 DEF Unallied
<1> QED BY <1>1, Alone DEF AloneAtTheFlag, OneEnemyAtTheFlag

-----------------------------------------------------------------------------
(* Whoever has the building as his goal is in exactly one of its lists, so *)
(* that nobody is forgotten when it burns down or is full                  *)
(* (nobBaseMilitary::LinkAggressor, nobMilitary::UnlinkAggressor, Destroy  *)
(* and NeedOccupyingTroops); the counts are of their types.                *)
THEOREM GoalsKnown == Spec => []GoalKnowsAttackers
BY Inductive, Known, PTL

(* Nobody walks in who is not counted, so that nobMilitary::Capture and    *)
(* CapturingSoldierArrived never count capturing_soldiers below zero.      *)
THEOREM WalkersCounted == Spec => []EverybodyCounted
BY Inductive, Counted, PTL

(* A building that stands is never empty for good: RegulateTroops keeps    *)
(* one, CallDefender sends the last one only to the flag, and whoever      *)
(* finds it empty is taking it (nofAttacker::ContinueAtFlag).              *)
THEOREM AlwaysHeld == Spec => []NeverDeserted
BY Inductive, Kept, PTL

(* Whatever the alliances: one attacker has the flag, no man of the        *)
(* owner's attacks there, and the defender finds his man                   *)
(* (nobBaseMilitary::FindAnAttackerPlace, nofDefender::Walked).            *)
THEOREM FlagForOne == Spec => []AloneAtTheFlag
BY Inductive, Alone, PTL

(* Without alliances he is an enemy of whoever owns the building now, even *)
(* when it has changed hands while he came (nofAttacker::ReachedDestination).*)
THEOREM EnemiesAtTheFlag ==
  ASSUME Unallied
  PROVE  Spec => []OneEnemyAtTheFlag
<1>1. IInv => OneEnemyAtTheFlag
  BY Enemies
<1> QED BY Inductive, <1>1, PTL

(* Only an empty building whose defender is gone is taken                  *)
(* (nofAttacker::Walked, STATE_ATTACKING_CAPTURINGFIRST), and only who was *)
(* kept as a far-away capturer goes from the road through its door         *)
(* (nofAttacker::ReachedDestination).                                      *)
THEOREM RightlyTaken == Spec => TakenByRight
<1>1. IInv /\ [Next]_vars => [RightStep]_vars
  BY NextGood
<1> QED BY Inductive, <1>1, PTL DEF Spec, TakenByRight, RightStep
=============================================================================
