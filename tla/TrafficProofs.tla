---------------------------- MODULE TrafficProofs ----------------------------
(***************************************************************************)
(* Proofs about Traffic: the events that are known are those of whoever    *)
(* walks, nobody loses what he has walked of a step, nobody walks into a   *)
(* fight, and no figures wait only for each other, for any map of roads    *)
(* and any number of figures, fights and gates.                            *)
(*                                                                         *)
(* The handlers are operators on worlds, so each has lemmas of its own,    *)
(* and an action follows from those of the calls it makes.                 *)
(***************************************************************************)
EXTENDS Traffic, FiniteSetTheorems, TLAPS

Places == Nodes \cup {Nowhere}
Fig == [at : Places, to : Places, road : Roads \cup {Nowhere}, ev : BOOLEAN, waiting : BOOLEAN,
        paused : Nat, plen : Nat, walked : Nat]
Objects == Figures \cup Fights \cup Gates
Events == [obj : Objects, elapsed : Nat, length : Nat]
Guards == [waits : BOOLEAN, ev : BOOLEAN]
Worlds == [fig : [Figures -> Fig], fight : [Fights -> Places], guard : [Gates -> Guards],
           eis : SUBSET Events]

(* The events of an object; one event, which is not overdue, or none. *)
Own(w, o) == {e \in w.eis : e.obj = o}
OneEvent(w, o) == \E e \in Events : Own(w, o) = {e} /\ e.elapsed <= e.length
Timed(w, o, on) == IF on THEN OneEvent(w, o) ELSE Own(w, o) = {}

(* Who walks, who stands, and who is on no road. *)
OnEdge(x, rs) == x.road \in rs /\ <<x.at, x.to>> \in Edges(x.road)
Time(x) == Steps[<<x.at, x.to>>]
Walks(w, f) ==
  LET x == w.fig[f] IN
  /\ x.ev /\ ~x.waiting /\ x.paused = 0 /\ x.walked <= Time(x)
  /\ Own(w, f) = {Event(f, x.walked, Time(x))}
Halted(x) == x.walked = x.paused /\ x.paused <= x.plen
Stands(w, f) ==
  LET x == w.fig[f] IN
  /\ ~x.ev /\ x.waiting /\ Halted(x) /\ (x.paused > 0 => x.plen = Time(x)) /\ Own(w, f) = {}
Away(w, f) == w.fig[f] = Off /\ Own(w, f) = {}
FigOK(w, f, rs) == Away(w, f) \/ (OnEdge(w.fig[f], rs) /\ (Walks(w, f) \/ Stands(w, f)))

(* All is well with some figures, and with all fights and gates. *)
Scenery(w) ==
  /\ w \in Worlds
  /\ \A n \in Gates : (w.guard[n].ev => w.guard[n].waits) /\ Timed(w, n, w.guard[n].ev)
  /\ \A i \in Fights : Timed(w, i, w.fight[i] # Nowhere)
GoodFor(w, rs, fs) ==
  /\ Scenery(w) /\ rs \in SUBSET Roads
  /\ \A f \in fs : FigOK(w, f, rs)
Good(w, rs) == GoodFor(w, rs, Figures)

(* Nobody walks to a node that is blocked. *)
Clear(w) == \A f \in Figures : w.fig[f].ev => IsRoadNodeForFigures(w, w.fig[f].to)

(* Among any who wait there is one who waits for something else: a node that *)
(* is blocked, one of the nodes ns, or somebody who is not among them.       *)
Reason(w, ns, fs) ==
  \E f \in fs : \/ ~IsRoadNodeForFigures(w, w.fig[f].to) \/ w.fig[f].to \in ns
                \/ \E g \in Figures \ fs : w.fig[g].waiting /\ w.fig[g].at = w.fig[f].to
Flows(w, ns) ==
  \A fs \in SUBSET {f \in Figures : w.fig[f].waiting} : fs # {} => Reason(w, ns, fs)

-----------------------------------------------------------------------------
(* Fields of the records. *)
LEMMA Fields ==
  ASSUME NEW w \in Worlds
  PROVE  /\ w.fig \in [Figures -> Fig] /\ w.fight \in [Fights -> Places]
         /\ w.guard \in [Gates -> Guards] /\ w.eis \in SUBSET Events
BY DEF Worlds

LEMMA FigFields ==
  ASSUME NEW x \in Fig
  PROVE  /\ x.at \in Places /\ x.to \in Places /\ x.road \in Roads \cup {Nowhere}
         /\ x.ev \in BOOLEAN /\ x.waiting \in BOOLEAN
         /\ x.paused \in Nat /\ x.plen \in Nat /\ x.walked \in Nat
BY DEF Fig

LEMMA EventFields ==
  ASSUME NEW o, NEW a, NEW b
  PROVE  /\ Event(o, a, b).obj = o /\ Event(o, a, b).elapsed = a /\ Event(o, a, b).length = b
         /\ o \in Objects /\ a \in Nat /\ b \in Nat => Event(o, a, b) \in Events
BY DEF Event, Events

LEMMA OffIs ==
  /\ Off \in Fig /\ Off.at = Nowhere /\ Off.to = Nowhere /\ Off.road = Nowhere
  /\ ~Off.ev /\ ~Off.waiting /\ Off.paused = 0 /\ Off.plen = 0 /\ Off.walked = 0
BY DEF Off, Fig, Places

(* The ends of a step are nodes, and it takes some time. *)
LEMMA EdgeNodes ==
  ASSUME NEW r \in Roads, NEW n, NEW m, <<n, m>> \in Edges(r)
  PROVE  /\ n \in Nodes /\ m \in Nodes /\ n # Nowhere /\ m # Nowhere
         /\ Steps[<<n, m>>] \in Nat \ {0}
         /\ n \in ToSet(Route[r]) /\ m \in ToSet(Route[r])
<1>1. Route[r] \in Seq(Nodes) /\ Len(Route[r]) \in Nat
  BY RoadsAssumption
<1>2. PICK i \in 1..(Len(Route[r]) - 1) :
         (n = Route[r][i] /\ m = Route[r][i + 1]) \/ (n = Route[r][i + 1] /\ m = Route[r][i])
  BY DEF Edges
<1>3. /\ i \in 1..Len(Route[r]) /\ i + 1 \in 1..Len(Route[r])
      /\ DOMAIN Route[r] = 1..Len(Route[r])
  BY <1>1, <1>2
<1>4. Route[r][i] \in Nodes /\ Route[r][i + 1] \in Nodes
  BY <1>1, <1>3
<1>5. n \in Nodes /\ m \in Nodes
  BY <1>2, <1>4
<1>6. Steps[<<n, m>>] \in Nat \ {0} /\ Nowhere \notin Nodes
  BY <1>5, RoadsAssumption
<1>7. n \in ToSet(Route[r]) /\ m \in ToSet(Route[r])
  BY <1>2, <1>3 DEF ToSet
<1> QED BY <1>5, <1>6, <1>7

LEMMA Kinds ==
  ASSUME NEW f \in Figures, NEW o \in Fights \cup Gates
  PROVE  f # o
BY RoadsAssumption

(* A handler that leaves a figure and its events alone leaves it well. *)
LEMMA FigSame ==
  ASSUME NEW w, NEW t, NEW f, NEW rs, FigOK(w, f, rs), t.fig[f] = w.fig[f], Own(t, f) = Own(w, f)
  PROVE  FigOK(t, f, rs)
BY DEF FigOK, Away, Walks, Stands

LEMMA FigMore ==
  ASSUME NEW w, NEW f, NEW rs, NEW qs, FigOK(w, f, rs), w.fig[f].road \in rs => w.fig[f].road \in qs
  PROVE  FigOK(w, f, qs)
BY DEF FigOK, OnEdge

LEMMA ScenerySame ==
  ASSUME NEW w, NEW t \in Worlds, Scenery(w), t.fight = w.fight, t.guard = w.guard,
         \A o \in Fights \cup Gates : Own(t, o) = Own(w, o)
  PROVE  Scenery(t)
BY DEF Scenery, Timed, OneEvent

-----------------------------------------------------------------------------
(* Chains. *)
LEMMA ChainIs ==
  ASSUME NEW A \in SUBSET Figures, NEW B \in [Figures -> SUBSET Figures]
  PROVE  /\ Chain(A, B) \subseteq Figures /\ A \subseteq Chain(A, B)
         /\ \A g \in Chain(A, B) : B[g] \subseteq Chain(A, B)
         /\ \A D \in SUBSET Chain(A, B) :
              D # {} => \E f \in D : f \in A \/ \E g \in Chain(A, B) \ D : f \in B[g]
<1> DEFINE Closed(S) == A \subseteq S /\ \A g \in S : B[g] \subseteq S
           C == Chain(A, B)
<1>1. C = {f \in Figures : \A S \in SUBSET Figures : Closed(S) => f \in S}
  BY DEF Chain
<1> HIDE DEF C
<1>2. C \subseteq Figures /\ A \subseteq C
  BY <1>1
<1>3. ASSUME NEW g \in C PROVE B[g] \subseteq C
  <2> SUFFICES ASSUME NEW f \in B[g], NEW S \in SUBSET Figures, Closed(S) PROVE f \in S
    BY <1>1, <1>2
  <2>1. g \in S
    BY <1>1
  <2> QED BY <2>1
<1>4. ASSUME NEW D \in SUBSET C, D # {}
      PROVE  \E f \in D : f \in A \/ \E g \in C \ D : f \in B[g]
  <2>1. PICK d \in D : TRUE
    BY <1>4
  <2>2. ~Closed(C \ D)
    BY <1>1, <1>2, <2>1
  <2>3. CASE ~(A \subseteq C \ D)
    BY <1>2, <2>3
  <2>4. CASE \E g \in C \ D : ~(B[g] \subseteq C \ D)
    BY <1>3, <2>4
  <2> QED BY <2>2, <2>3, <2>4
<1> QED BY <1>2, <1>3, <1>4 DEF C

-----------------------------------------------------------------------------
(* What a call does to figures, and to nothing else. *)
FigsOnly(w, t, fs) ==
  /\ t \in Worlds /\ t.fight = w.fight /\ t.guard = w.guard
  /\ \A o \in Objects \ fs : Own(t, o) = Own(w, o)
  /\ \A f \in Figures \ fs : t.fig[f] = w.fig[f]

LEMMA FigsOnlyGood ==
  ASSUME NEW w, NEW rs, NEW gs \in SUBSET Figures, GoodFor(w, rs, gs),
         NEW fs \in SUBSET Figures, NEW t, FigsOnly(w, t, fs)
  PROVE  Scenery(t) /\ GoodFor(t, rs, gs \ fs)
<1>1. \A o \in Fights \cup Gates : o \in Objects \ fs
  BY Kinds DEF Objects
<1>2. Scenery(t)
  BY <1>1, ScenerySame DEF FigsOnly, GoodFor
<1>3. ASSUME NEW f \in gs \ fs PROVE FigOK(t, f, rs)
  BY FigSame DEF FigsOnly, GoodFor, Objects
<1> QED BY <1>2, <1>3 DEF GoodFor

LEMMA NodesSame ==
  ASSUME NEW w, NEW t, t.fight = w.fight, t.guard = w.guard
  PROVE  \A n : IsRoadNodeForFigures(t, n) <=> IsRoadNodeForFigures(w, n)
BY DEF IsRoadNodeForFigures

(* Stopping. *)
Halt(x, a, b) == [x EXCEPT !.ev = FALSE, !.waiting = TRUE, !.paused = a, !.plen = b]

LEMMA HaltIs ==
  ASSUME NEW x \in Fig, NEW a \in Nat, NEW b \in Nat
  PROVE  LET y == Halt(x, a, b) IN
           /\ y \in Fig /\ y.at = x.at /\ y.to = x.to /\ y.road = x.road /\ y.walked = x.walked
           /\ ~y.ev /\ y.waiting /\ y.paused = a /\ y.plen = b
BY DEF Halt, Fig

LEMMA PauseGood ==
  ASSUME NEW w, NEW rs, NEW gs \in SUBSET Figures, GoodFor(w, rs, gs),
         NEW fs \in SUBSET {f \in gs : w.fig[f].ev}, NEW t, t = PauseWalking(w, fs)
  PROVE  /\ GoodFor(t, rs, gs) /\ FigsOnly(w, t, fs)
         /\ \A f \in fs : /\ t.fig[f].at = w.fig[f].at /\ t.fig[f].to = w.fig[f].to
                          /\ t.fig[f].waiting /\ ~t.fig[f].ev
<1>1. w \in Worlds /\ rs \in SUBSET Roads
  BY DEF GoodFor, Scenery
<1>2. ASSUME NEW f \in fs
      PROVE  LET x == w.fig[f] IN
               /\ x \in Fig /\ OnEdge(x, rs) /\ Walks(w, f) /\ Time(x) \in Nat \ {0}
               /\ Paused(w, f) = Halt(x, x.walked, Time(x))
  <2> DEFINE x == w.fig[f]
             e == Event(f, x.walked, Time(x))
  <2>1. x \in Fig /\ x.ev /\ FigOK(w, f, rs)
    BY <1>1, Fields DEF GoodFor
  <2>2. OnEdge(x, rs) /\ Walks(w, f)
    BY <2>1, OffIs DEF FigOK, Away, Stands
  <2>3. Time(x) \in Nat \ {0}
    BY <1>1, <2>2, EdgeNodes DEF OnEdge, Time
  <2>4. Own(w, f) = {e}
    BY <2>2 DEF Walks
  <2>5. EventOf(w, f) = e
    BY <2>4 DEF EventOf, Own
  <2>6. Paused(w, f) = [x EXCEPT !.ev = FALSE, !.waiting = TRUE, !.paused = e.elapsed, !.plen = e.length]
    BY <2>5 DEF Paused
  <2>7. e.elapsed = x.walked /\ e.length = Time(x)
    BY EventFields
  <2>8. Paused(w, f) = Halt(x, x.walked, Time(x))
    BY <2>6, <2>7 DEF Halt
  <2> QED BY <2>1, <2>2, <2>3, <2>8
<1>3. /\ t = [w EXCEPT !.fig = [f \in Figures |-> IF f \in fs THEN Paused(w, f) ELSE w.fig[f]],
                       !.eis = {e \in w.eis : e.obj \notin fs}]
  BY DEF PauseWalking
<1>4. ASSUME NEW f \in fs
      PROVE  LET x == w.fig[f]  y == Paused(w, f) IN
               /\ y \in Fig /\ y.at = x.at /\ y.to = x.to /\ y.road = x.road /\ y.walked = x.walked
               /\ ~y.ev /\ y.waiting /\ y.paused = x.walked /\ y.plen = Time(x) /\ x.walked <= Time(x)
  <2> DEFINE x == w.fig[f]
  <2>1. x \in Fig /\ Time(x) \in Nat /\ x.walked \in Nat /\ x.walked <= Time(x)
    BY <1>2, FigFields DEF Walks
  <2>2. Paused(w, f) = Halt(x, x.walked, Time(x))
    BY <1>2
  <2> HIDE DEF x
  <2>3. LET y == Paused(w, f) IN
          /\ y \in Fig /\ y.at = x.at /\ y.to = x.to /\ y.road = x.road /\ y.walked = x.walked
          /\ ~y.ev /\ y.waiting /\ y.paused = x.walked /\ y.plen = Time(x)
    <3>1. PICK a \in Nat, b \in Nat : a = x.walked /\ b = Time(x)
      BY <2>1
    <3>2. x \in Fig /\ Paused(w, f) = Halt(x, a, b)
      BY <2>1, <2>2, <3>1
    <3>3. LET y == Halt(x, a, b) IN
            /\ y \in Fig /\ y.at = x.at /\ y.to = x.to /\ y.road = x.road /\ y.walked = x.walked
            /\ ~y.ev /\ y.waiting /\ y.paused = a /\ y.plen = b
      BY <3>2, HaltIs
    <3> QED BY <3>1, <3>2, <3>3
  <2> QED BY <2>1, <2>3 DEF x
<1>5. /\ t.fig = [f \in Figures |-> IF f \in fs THEN Paused(w, f) ELSE w.fig[f]]
      /\ t.eis = {e \in w.eis : e.obj \notin fs} /\ t.fight = w.fight /\ t.guard = w.guard
  BY <1>1, <1>3 DEF Worlds
<1>6. t \in Worlds
  <2> DEFINE F == [f \in Figures |-> IF f \in fs THEN Paused(w, f) ELSE w.fig[f]]
             S == {e \in w.eis : e.obj \notin fs}
  <2>1. F \in [Figures -> Fig] /\ S \in SUBSET Events
    BY <1>1, <1>4, Fields
  <2>2. t = [w EXCEPT !.fig = F, !.eis = S]
    BY <1>3
  <2> HIDE DEF F, S
  <2> QED BY <1>1, <2>1, <2>2 DEF Worlds
<1>7. FigsOnly(w, t, fs)
  BY <1>5, <1>6 DEF FigsOnly, Own
<1>8. ASSUME NEW f \in fs PROVE FigOK(t, f, rs)
  <2>1. t.fig[f] = Paused(w, f) /\ Own(t, f) = {}
    BY <1>5 DEF Own
  <2>2. OnEdge(t.fig[f], rs) /\ Time(t.fig[f]) = Time(w.fig[f])
    BY <1>2, <1>4, <2>1 DEF OnEdge, Time
  <2>3. Stands(t, f)
    BY <1>4, <2>1, <2>2 DEF Stands, Halted
  <2> QED BY <2>2, <2>3 DEF FigOK
<1>9. GoodFor(t, rs, gs)
  BY <1>7, <1>8, FigsOnlyGood DEF GoodFor
<1> QED BY <1>4, <1>5, <1>7, <1>9

(* Going on. *)
LEMMA MovingIs ==
  ASSUME NEW x \in Fig, NEW m \in Places
  PROVE  LET y == Moving(x, m) IN
           /\ y \in Fig /\ y.at = x.at /\ y.road = x.road /\ y.walked = x.walked
           /\ y.ev /\ y.waiting = x.waiting /\ y.paused = 0 /\ y.plen = x.plen
           /\ y.to = IF x.paused > 0 THEN x.to ELSE m
<1>1. CASE x.paused > 0
  BY <1>1 DEF Moving, Fig
<1>2. CASE ~(x.paused > 0)
  <2>1. x.paused = 0
    BY <1>2, FigFields
  <2> QED BY <1>2, <2>1 DEF Moving, Fig
<1> QED BY <1>1, <1>2

(* A figure that is about to walk from its node. *)
Sets(x, rs, m) ==
  /\ x.road \in rs /\ <<x.at, m>> \in Edges(x.road) /\ Halted(x)
  /\ x.paused > 0 => x.to = m /\ x.plen = Steps[<<x.at, m>>]

LEMMA StepIs ==
  ASSUME NEW x \in Fig, NEW f \in Figures, NEW rs \in SUBSET Roads, NEW m, Sets(x, rs, m),
         NEW y \in Fig, y.at = x.at, y.to = m, y.walked = x.walked
  PROVE  /\ StepOf(f, x, m) = Event(f, y.walked, Time(y)) /\ StepOf(f, x, m) \in Events
         /\ StepOf(f, x, m).obj = f /\ y.walked <= Time(y)
<1>1. Steps[<<x.at, m>>] \in Nat \ {0} /\ Time(y) = Steps[<<x.at, m>>] /\ f \in Objects
  BY EdgeNodes DEF Sets, Time, Objects
<1>2. x.paused \in Nat /\ x.plen \in Nat /\ x.walked = x.paused /\ x.paused <= x.plen
  BY FigFields DEF Sets, Halted
<1>3. CASE x.paused > 0
  <2>1. StepOf(f, x, m) = Event(f, x.paused, x.plen) /\ x.plen = Time(y)
    BY <1>1, <1>3 DEF StepOf, Sets
  <2> QED BY <1>1, <1>2, <2>1, EventFields
<1>4. CASE ~(x.paused > 0)
  <2>1. StepOf(f, x, m) = Event(f, 0, Time(y)) /\ x.paused = 0
    BY <1>1, <1>2, <1>4 DEF StepOf
  <2> QED BY <1>1, <1>2, <2>1, EventFields
<1> QED BY <1>3, <1>4

LEMMA MovedOK ==
  ASSUME NEW x \in Fig, NEW f \in Figures, NEW rs \in SUBSET Roads, NEW m, Sets(x, rs, m), NEW t, t.fig[f] \in Fig,
         t.fig[f].at = x.at, t.fig[f].to = m, t.fig[f].road = x.road, t.fig[f].walked = x.walked,
         t.fig[f].ev, ~t.fig[f].waiting, t.fig[f].paused = 0, Own(t, f) = {StepOf(f, x, m)}
  PROVE  FigOK(t, f, rs)
<1> DEFINE y == t.fig[f]
<1>1. StepOf(f, x, m) = Event(f, y.walked, Time(y)) /\ y.walked <= Time(y)
  <2> HIDE DEF y
  <2>1. y \in Fig /\ y.at = x.at /\ y.to = m /\ y.walked = x.walked
    BY DEF y
  <2> QED BY <2>1, StepIs
<1>2. OnEdge(y, rs)
  BY DEF OnEdge, Sets
<1>3. Walks(t, f)
  BY <1>1 DEF Walks
<1> QED BY <1>2, <1>3 DEF FigOK

LEMMA MoveGood ==
  ASSUME NEW w, NEW rs, NEW gs \in SUBSET Figures, GoodFor(w, rs, gs), NEW f \in Figures, NEW m,
         Own(w, f) = {}, Sets(w.fig[f], rs, m), ~w.fig[f].waiting, NEW t, t = StartMoving(w, f, m)
  PROVE  /\ GoodFor(t, rs, gs \cup {f}) /\ FigsOnly(w, t, {f})
         /\ t.fig[f].at = w.fig[f].at /\ t.fig[f].to = m /\ t.fig[f].ev /\ ~t.fig[f].waiting
<1> DEFINE x == w.fig[f]
           y == Moving(x, m)
           e == StepOf(f, x, m)
<1>1. w \in Worlds /\ rs \in SUBSET Roads
  BY DEF GoodFor, Scenery
<1>2. x \in Fig /\ m \in Places
  BY <1>1, Fields, EdgeNodes DEF Sets, Places
<1>3. /\ y \in Fig /\ y.at = x.at /\ y.road = x.road /\ y.walked = x.walked
      /\ y.ev /\ ~y.waiting /\ y.paused = 0 /\ y.to = m
  <2> HIDE DEF x
  <2>1. (x.paused > 0 => x.to = m) /\ ~x.waiting
    BY DEF Sets, x
  <2> QED BY <1>2, <2>1, MovingIs
<1>4. e \in Events /\ e.obj = f
  <2> HIDE DEF x, y
  <2>1. Sets(x, rs, m)
    BY DEF x
  <2> QED BY <1>1, <1>2, <1>3, <2>1, StepIs
<1>5. t = [w EXCEPT !.fig = [w.fig EXCEPT ![f] = y], !.eis = w.eis \cup {e}]
  BY <1>1 DEF StartMoving, Worlds
<1> HIDE DEF y, e
<1>6. /\ t.fig = [w.fig EXCEPT ![f] = y] /\ t.eis = w.eis \cup {e}
      /\ t.fight = w.fight /\ t.guard = w.guard /\ t \in Worlds
  <2>1. [w.fig EXCEPT ![f] = y] \in [Figures -> Fig] /\ w.eis \cup {e} \in SUBSET Events
    BY <1>1, <1>3, <1>4, Fields
  <2> QED BY <1>1, <1>5, <2>1 DEF Worlds
<1>7. t.fig[f] = y /\ (\A g \in Figures \ {f} : t.fig[g] = w.fig[g])
  BY <1>1, <1>6, Fields
<1>8. FigsOnly(w, t, {f}) /\ Own(t, f) = {e}
  BY <1>4, <1>6, <1>7 DEF FigsOnly, Own
<1>9. FigOK(t, f, rs)
  <2>1. Sets(x, rs, m) /\ Own(t, f) = {StepOf(f, x, m)}
    BY <1>8 DEF e
  <2> HIDE DEF x
  <2> QED BY <1>1, <1>2, <1>3, <1>7, <2>1, MovedOK
<1>10. GoodFor(t, rs, gs \cup {f})
  BY <1>8, <1>9, FigsOnlyGood DEF GoodFor
<1> QED BY <1>3, <1>7, <1>8, <1>10

LEMMA FreedGood ==
  ASSUME NEW w, NEW rs, NEW gs \in SUBSET Figures, GoodFor(w, rs, gs),
         NEW fs \in SUBSET {f \in gs : w.fig[f].waiting}, NEW t, t = NodeFreed(w, fs)
  PROVE  /\ GoodFor(t, rs, gs) /\ FigsOnly(w, t, fs)
         /\ \A f \in fs : /\ t.fig[f].at = w.fig[f].at /\ t.fig[f].to = w.fig[f].to
                          /\ t.fig[f].ev /\ ~t.fig[f].waiting
<1> DEFINE Freed(f) == [Moving(w.fig[f], w.fig[f].to) EXCEPT !.waiting = FALSE]
           Step(f) == StepOf(f, w.fig[f], w.fig[f].to)
<1>1. w \in Worlds /\ rs \in SUBSET Roads
  BY DEF GoodFor, Scenery
<1>2. ASSUME NEW f \in fs
      PROVE  LET x == w.fig[f] IN x \in Fig /\ Sets(x, rs, x.to) /\ Own(w, f) = {}
  <2>1. w.fig[f] \in Fig /\ w.fig[f].waiting /\ FigOK(w, f, rs)
    BY <1>1, Fields DEF GoodFor
  <2>2. OnEdge(w.fig[f], rs) /\ Stands(w, f)
    BY <2>1, OffIs DEF FigOK, Away, Walks
  <2> QED BY <2>1, <2>2 DEF Sets, OnEdge, Stands, Time
<1>3. ASSUME NEW f \in fs
      PROVE  LET x == w.fig[f]  y == Freed(f) IN
               /\ y \in Fig /\ y.at = x.at /\ y.road = x.road /\ y.walked = x.walked /\ y.to = x.to
               /\ y.ev /\ ~y.waiting /\ y.paused = 0
               /\ Step(f) \in Events /\ Step(f).obj = f
  <2> DEFINE x == w.fig[f]
             z == Moving(x, x.to)
             y == [z EXCEPT !.waiting = FALSE]
  <2>1. x \in Fig /\ Sets(x, rs, x.to) /\ x.to \in Places
    BY <1>2, FigFields
  <2> HIDE DEF x
  <2>2. /\ z \in Fig /\ z.at = x.at /\ z.road = x.road /\ z.walked = x.walked /\ z.to = x.to
        /\ z.ev /\ z.paused = 0
    BY <2>1, MovingIs
  <2> HIDE DEF z
  <2>3. /\ y \in Fig /\ y.at = x.at /\ y.road = x.road /\ y.walked = x.walked /\ y.to = x.to
        /\ y.ev /\ ~y.waiting /\ y.paused = 0
    BY <2>2 DEF Fig
  <2>4. y = Freed(f)
    BY DEF z, x
  <2> HIDE DEF y
  <2>5. StepOf(f, x, x.to) \in Events /\ StepOf(f, x, x.to).obj = f
    BY <1>1, <2>1, <2>3, StepIs
  <2> HIDE DEF Freed
  <2> QED BY <2>3, <2>4, <2>5 DEF x
<1>4. t = [w EXCEPT !.fig = [f \in Figures |-> IF f \in fs THEN Freed(f) ELSE w.fig[f]],
                    !.eis = w.eis \cup {Step(f) : f \in fs}]
  BY DEF NodeFreed
<1> HIDE DEF Freed, Step
<1>5. /\ t.fig = [f \in Figures |-> IF f \in fs THEN Freed(f) ELSE w.fig[f]]
      /\ t.eis = w.eis \cup {Step(f) : f \in fs} /\ t.fight = w.fight /\ t.guard = w.guard
      /\ t \in Worlds
  <2> DEFINE F == [f \in Figures |-> IF f \in fs THEN Freed(f) ELSE w.fig[f]]
             S == w.eis \cup {Step(f) : f \in fs}
  <2>1. F \in [Figures -> Fig] /\ S \in SUBSET Events
    BY <1>1, <1>3, Fields
  <2>2. t = [w EXCEPT !.fig = F, !.eis = S]
    BY <1>4
  <2>3. t.fig = F /\ t.eis = S /\ t.fight = w.fight /\ t.guard = w.guard /\ t \in Worlds
    <3> HIDE DEF F, S
    <3> QED BY <1>1, <2>1, <2>2 DEF Worlds
  <2> QED BY <2>3
<1>6. ASSUME NEW f \in fs PROVE t.fig[f] = Freed(f) /\ Own(t, f) = {Step(f)}
  <2>1. Own(w, f) = {} /\ Step(f).obj = f /\ \A g \in fs : Step(g).obj = g
    BY <1>2, <1>3
  <2> QED BY <1>5, <2>1 DEF Own
<1>7. FigsOnly(w, t, fs)
  <2>1. ASSUME NEW o \in Objects \ fs PROVE Own(t, o) = Own(w, o)
    BY <1>3, <1>5 DEF Own
  <2> QED BY <1>5, <2>1 DEF FigsOnly
<1>8. ASSUME NEW f \in fs PROVE FigOK(t, f, rs)
  <2>1. Own(t, f) = {StepOf(f, w.fig[f], w.fig[f].to)}
    BY <1>6 DEF Step
  <2> QED BY <1>1, <1>2, <1>3, <1>6, <2>1, MovedOK
<1>9. GoodFor(t, rs, gs)
  BY <1>7, <1>8, FigsOnlyGood DEF GoodFor
<1> QED BY <1>3, <1>6, <1>7, <1>9

LEMMA LeaveGood ==
  ASSUME NEW w, NEW rs, NEW gs \in SUBSET Figures, GoodFor(w, rs, gs),
         NEW fs \in SUBSET Figures, NEW t, t = LeavesRoads(w, fs)
  PROVE  GoodFor(t, rs, gs \cup fs) /\ FigsOnly(w, t, fs) /\ \A f \in fs : t.fig[f] = Off
<1>1. w \in Worlds /\ rs \in SUBSET Roads
  BY DEF GoodFor, Scenery
<1>2. /\ t.fig = [f \in Figures |-> IF f \in fs THEN Off ELSE w.fig[f]]
      /\ t.eis = {e \in w.eis : e.obj \notin fs} /\ t.fight = w.fight /\ t.guard = w.guard
      /\ t \in Worlds
  <2> DEFINE F == [f \in Figures |-> IF f \in fs THEN Off ELSE w.fig[f]]
             S == {e \in w.eis : e.obj \notin fs}
  <2>1. F \in [Figures -> Fig] /\ S \in SUBSET Events
    BY <1>1, OffIs, Fields
  <2>2. t = [w EXCEPT !.fig = F, !.eis = S]
    BY DEF LeavesRoads
  <2>3. t.fig = F /\ t.eis = S /\ t.fight = w.fight /\ t.guard = w.guard /\ t \in Worlds
    <3> HIDE DEF F, S
    <3> QED BY <1>1, <2>1, <2>2 DEF Worlds
  <2> QED BY <2>3
<1>3. FigsOnly(w, t, fs)
  BY <1>2 DEF FigsOnly, Own
<1>4. \A f \in fs : FigOK(t, f, rs)
  BY <1>2 DEF FigOK, Away, Own
<1>5. GoodFor(t, rs, gs \cup fs)
  BY <1>3, <1>4, FigsOnlyGood DEF GoodFor
<1> QED BY <1>2, <1>3, <1>5

-----------------------------------------------------------------------------
(* Who waits is known, and whoever waits or walks is somewhere.  *)
LEMMA WaitersStand ==
  ASSUME NEW w, NEW rs, Good(w, rs), NEW f \in Figures
  PROVE  /\ ~(w.fig[f].ev /\ w.fig[f].waiting)
         /\ w.fig[f].ev \/ w.fig[f].waiting => OnEdge(w.fig[f], rs)
         /\ w.fig[f].ev => Walks(w, f)
         /\ w.fig[f].waiting => Stands(w, f)
BY OffIs DEF Good, GoodFor, FigOK, Away, Walks, Stands

(* As long as the same wait for the same nodes, these are blocked as before  *)
(* or among those looked at.                                                 *)
LEMMA FlowsSame ==
  ASSUME NEW w, NEW t, NEW rs, Good(w, rs), NEW ns, NEW ms, Flows(w, ns), ns \subseteq ms,
         \A f \in Figures : /\ t.fig[f].waiting <=> w.fig[f].waiting
                            /\ w.fig[f].waiting => /\ t.fig[f].at = w.fig[f].at
                                                   /\ t.fig[f].to = w.fig[f].to,
         \A n \in Nodes : ~IsRoadNodeForFigures(w, n) => ~IsRoadNodeForFigures(t, n) \/ n \in ms
  PROVE  Flows(t, ms)
<1>2. \A f \in Figures : w.fig[f].waiting => w.fig[f].to \in Nodes
  BY WaitersStand, EdgeNodes DEF OnEdge, Good, GoodFor
<1> SUFFICES ASSUME NEW fs \in SUBSET {f \in Figures : t.fig[f].waiting}, fs # {}
             PROVE  Reason(t, ms, fs)
  BY DEF Flows
<1>1. Reason(w, ns, fs)
  BY DEF Flows
<1> QED BY <1>1, <1>2 DEF Reason

LEMMA StopWorks ==
  ASSUME NEW w, NEW rs, Good(w, rs), NEW n, NEW m, NEW t, t = StopOnRoads(w, n, m)
  PROVE  /\ Good(t, rs) /\ FigsOnly(w, t, Figures)
         /\ \A f \in Figures : /\ t.fig[f].at = w.fig[f].at /\ t.fig[f].to = w.fig[f].to
                               /\ t.fig[f].ev => w.fig[f].ev
         /\ \A f \in Coming(w, n, m) : ~t.fig[f].ev
         /\ Clear(w) => Clear(t)
         /\ \A ns : /\ Flows(w, ns)
                    /\ \/ n \in ns
                       \/ \E g \in Figures : /\ w.fig[g].waiting /\ w.fig[g].at = n
                                             /\ ~IsRoadNodeForFigures(w, w.fig[g].to)
                    => Flows(t, ns)
<1> DEFINE A == Coming(w, n, m)
           B == [f \in Figures |-> Coming(w, w.fig[f].at, w.fig[f].to)]
           T == Chain(A, B)
<1>1. A \in SUBSET Figures /\ B \in [Figures -> SUBSET Figures] /\ \A g \in Figures : B[g] \subseteq {f \in Figures : w.fig[f].ev}
  BY DEF Coming
<1>2. t = PauseWalking(w, T)
  BY DEF StopOnRoads, Stopping
<1>3. \A f \in A : w.fig[f].ev /\ w.fig[f].to = n
  BY DEF Coming
<1>4. \A g \in Figures : \A f \in B[g] : w.fig[f].ev /\ w.fig[f].to = w.fig[g].at
  BY DEF Coming
<1> HIDE DEF A, B
<1>5. /\ T \subseteq Figures /\ A \subseteq T
      /\ \A D \in SUBSET T : D # {} => \E f \in D : f \in A \/ \E g \in T \ D : f \in B[g]
  BY <1>1, ChainIs
<1> HIDE DEF T
<1>6. T \in SUBSET {f \in Figures : w.fig[f].ev}
  <2> DEFINE D == {f \in T : ~w.fig[f].ev}
  <2>1. D \in SUBSET T
    OBVIOUS
  <2>2. ASSUME D # {} PROVE FALSE
    <3>1. PICK f \in D : f \in A \/ \E g \in T \ D : f \in B[g]
      BY <1>5, <2>1, <2>2
    <3> QED BY <1>3, <1>4, <1>5, <3>1
  <2> QED BY <1>5, <2>2
<1>7. /\ Good(t, rs) /\ FigsOnly(w, t, T)
      /\ \A f \in T : /\ t.fig[f].at = w.fig[f].at /\ t.fig[f].to = w.fig[f].to
                      /\ t.fig[f].waiting /\ ~t.fig[f].ev
  BY <1>2, <1>6, PauseGood DEF Good
<1>8. \A f \in Figures \ T : t.fig[f] = w.fig[f]
  BY <1>7 DEF FigsOnly
<1>9. t.fight = w.fight /\ t.guard = w.guard /\ FigsOnly(w, t, Figures)
  BY <1>5, <1>7, <1>8 DEF FigsOnly
<1>10. \A f \in Figures : /\ t.fig[f].at = w.fig[f].at /\ t.fig[f].to = w.fig[f].to
                          /\ t.fig[f].ev => w.fig[f].ev
  BY <1>7, <1>8
<1>11. \A k : IsRoadNodeForFigures(t, k) <=> IsRoadNodeForFigures(w, k)
  BY <1>9, NodesSame
<1>12. Clear(w) => Clear(t)
  BY <1>10, <1>11 DEF Clear
<1>13. \A f \in A : ~t.fig[f].ev
  BY <1>5, <1>7
<1>14. ASSUME NEW ns, Flows(w, ns),
              \/ n \in ns
              \/ \E g \in Figures : /\ w.fig[g].waiting /\ w.fig[g].at = n
                                    /\ ~IsRoadNodeForFigures(w, w.fig[g].to)
       PROVE  Flows(t, ns)
  <2> SUFFICES ASSUME NEW fs \in SUBSET {f \in Figures : t.fig[f].waiting}, fs # {}
               PROVE  Reason(t, ns, fs)
    BY DEF Flows
  <2> DEFINE D == fs \cap T
  <2>1. CASE D = {}
    <3>1. fs \in SUBSET {f \in Figures : w.fig[f].waiting}
      BY <1>8, <2>1
    <3>2. Reason(w, ns, fs)
      BY <1>14, <3>1 DEF Flows
    <3>3. \A g \in Figures : w.fig[g].waiting => t.fig[g].waiting
      BY <1>7, <1>8
    <3> QED BY <1>10, <1>11, <3>2, <3>3 DEF Reason
  <2>2. CASE D # {}
    <3>1. PICK f \in D : f \in A \/ \E g \in T \ D : f \in B[g]
      BY <1>5, <2>2
    <3>2. CASE f \in A /\ n \in ns
      <4>1. f \in fs /\ t.fig[f].to \in ns
        BY <1>3, <1>7, <3>1, <3>2
      <4> QED BY <4>1 DEF Reason
    <3>3. CASE f \in A /\ n \notin ns
      <4>1. PICK g \in Figures : w.fig[g].waiting /\ w.fig[g].at = n /\ ~IsRoadNodeForFigures(w, w.fig[g].to)
        BY <1>14, <3>3
      <4>2. t.fig[g].waiting /\ t.fig[g].at = n /\ ~IsRoadNodeForFigures(t, t.fig[g].to)
        BY <1>7, <1>8, <1>10, <1>11, <4>1
      <4>3. f \in fs /\ t.fig[f].to = n
        BY <1>3, <1>7, <3>1, <3>3
      <4>4. g \in fs \/ g \in Figures \ fs
        OBVIOUS
      <4> QED BY <4>2, <4>3, <4>4 DEF Reason
    <3>4. CASE \E g \in T \ D : f \in B[g]
      <4>1. PICK g \in T \ D : f \in B[g]
        BY <3>4
      <4>2. f \in fs /\ t.fig[f].to = t.fig[g].at /\ g \in Figures \ fs /\ t.fig[g].waiting
        BY <1>4, <1>5, <1>7, <3>1, <4>1
      <4> QED BY <4>2 DEF Reason
    <3> QED BY <3>1, <3>2, <3>3, <3>4
  <2> QED BY <2>1, <2>2
<1> QED BY <1>7, <1>9, <1>10, <1>12, <1>13, <1>14 DEF A

LEMMA FreeWorks ==
  ASSUME NEW w, NEW rs, Good(w, rs), NEW ns, NEW t, t = RoadNodesAvailable(w, ns)
  PROVE  /\ Good(t, rs) /\ FigsOnly(w, t, Figures)
         /\ Clear(w) => Clear(t)
         /\ Flows(w, ns) => Flows(t, {})
<1> DEFINE A == UNION {WaitingFor(w, n) : n \in ns}
           B == [f \in Figures |-> WaitingFor(w, w.fig[f].at)]
           T == Chain(A, B)
<1>1. A \in SUBSET Figures /\ B \in [Figures -> SUBSET Figures]
  BY DEF WaitingFor
<1>2. t = NodeFreed(w, T)
  BY DEF RoadNodesAvailable, GoingOn
<1>3. \A f \in Figures : f \in A <=> w.fig[f].waiting /\ w.fig[f].to \in ns /\ IsRoadNodeForFigures(w, w.fig[f].to)
  BY DEF WaitingFor
<1>4. \A g, f \in Figures :
         f \in B[g] <=> w.fig[f].waiting /\ w.fig[f].to = w.fig[g].at /\ IsRoadNodeForFigures(w, w.fig[f].to)
  BY DEF WaitingFor
<1> HIDE DEF A, B
<1>5. /\ T \subseteq Figures /\ A \subseteq T /\ \A g \in T : B[g] \subseteq T
      /\ \A D \in SUBSET T : D # {} => \E f \in D : f \in A \/ \E g \in T \ D : f \in B[g]
  BY <1>1, ChainIs
<1> HIDE DEF T
<1>6. \A f \in T : w.fig[f].waiting /\ IsRoadNodeForFigures(w, w.fig[f].to)
  <2> DEFINE D == {f \in T : ~(w.fig[f].waiting /\ IsRoadNodeForFigures(w, w.fig[f].to))}
  <2>1. D \in SUBSET T
    OBVIOUS
  <2>2. ASSUME D # {} PROVE FALSE
    <3>1. PICK f \in D : f \in A \/ \E g \in T \ D : f \in B[g]
      BY <1>5, <2>1, <2>2
    <3> QED BY <1>3, <1>4, <1>5, <3>1
  <2> QED BY <2>2
<1>7. T \in SUBSET {f \in Figures : w.fig[f].waiting}
  BY <1>5, <1>6
<1>8. /\ Good(t, rs) /\ FigsOnly(w, t, T)
      /\ \A f \in T : /\ t.fig[f].at = w.fig[f].at /\ t.fig[f].to = w.fig[f].to
                      /\ t.fig[f].ev /\ ~t.fig[f].waiting
  BY <1>2, <1>7, FreedGood DEF Good
<1>9. \A f \in Figures \ T : t.fig[f] = w.fig[f]
  BY <1>8 DEF FigsOnly
<1>10. t.fight = w.fight /\ t.guard = w.guard /\ FigsOnly(w, t, Figures)
  BY <1>5, <1>8, <1>9 DEF FigsOnly
<1>11. \A k : IsRoadNodeForFigures(t, k) <=> IsRoadNodeForFigures(w, k)
  BY <1>10, NodesSame
<1>12. Clear(w) => Clear(t)
  BY <1>6, <1>8, <1>9, <1>11 DEF Clear
<1>13. ASSUME Flows(w, ns) PROVE Flows(t, {})
  <2> SUFFICES ASSUME NEW fs \in SUBSET {f \in Figures : t.fig[f].waiting}, fs # {}
               PROVE  Reason(t, {}, fs)
    BY DEF Flows
  <2>1. fs \in SUBSET {f \in Figures : w.fig[f].waiting} /\ fs \cap T = {}
    BY <1>8, <1>9
  <2>2. PICK f \in fs : \/ ~IsRoadNodeForFigures(w, w.fig[f].to) \/ w.fig[f].to \in ns
                        \/ \E g \in Figures \ fs : w.fig[g].waiting /\ w.fig[g].at = w.fig[f].to
    BY <1>13, <2>1 DEF Flows, Reason
  <2>3. f \in Figures \ T /\ t.fig[f] = w.fig[f] /\ w.fig[f].waiting
    BY <1>9, <2>1, <2>2
  <2>4. CASE ~IsRoadNodeForFigures(w, w.fig[f].to)
    BY <1>11, <2>3, <2>4 DEF Reason
  <2>5. CASE IsRoadNodeForFigures(w, w.fig[f].to)
    <3>1. w.fig[f].to \notin ns
      BY <1>3, <1>5, <2>3, <2>5
    <3>2. PICK g \in Figures \ fs : w.fig[g].waiting /\ w.fig[g].at = w.fig[f].to
      BY <2>2, <2>5, <3>1
    <3>3. g \notin T
      BY <1>4, <1>5, <2>3, <2>5, <3>2
    <3>4. t.fig[g] = w.fig[g]
      BY <1>9, <3>3
    <3> QED BY <2>3, <3>2, <3>4 DEF Reason
  <2> QED BY <2>4, <2>5
<1> QED BY <1>8, <1>10, <1>12, <1>13

(* A figure is set on a step. *)
WithFig(w, f, x) == [w EXCEPT !.fig[f] = x]

LEMMA SetFig ==
  ASSUME NEW w \in Worlds, NEW f \in Figures, NEW x \in Fig, NEW t, t = WithFig(w, f, x)
  PROVE  FigsOnly(w, t, {f}) /\ t.fig[f] = x /\ Own(t, f) = Own(w, f)
<1>1. [w.fig EXCEPT ![f] = x] \in [Figures -> Fig] /\ t = [w EXCEPT !.fig = [w.fig EXCEPT ![f] = x]]
  BY Fields DEF WithFig
<1>2. /\ t.fig = [w.fig EXCEPT ![f] = x] /\ t.fight = w.fight /\ t.guard = w.guard /\ t.eis = w.eis
      /\ t \in Worlds
  BY <1>1 DEF Worlds
<1>3. t.fig[f] = x /\ \A g \in Figures \ {f} : t.fig[g] = w.fig[g]
  BY <1>2, Fields
<1> QED BY <1>2, <1>3 DEF FigsOnly, Own

LEMMA StartWorks ==
  ASSUME NEW w, NEW rs, NEW f \in Figures, GoodFor(w, rs, Figures \ {f}), NEW m, Own(w, f) = {},
         Sets(w.fig[f], rs, m), ~w.fig[f].waiting, ~w.fig[f].ev, Clear(w),
         NEW t, t = StartWalking(w, f, m)
  PROVE  /\ Good(t, rs) /\ FigsOnly(w, t, Figures) /\ Clear(t) /\ t.fig[f].at = w.fig[f].at
         /\ \A ns : Flows(w, ns) => Flows(t, ns)
<1> DEFINE x == w.fig[f]
<1>1. w \in Worlds /\ rs \in SUBSET Roads /\ x \in Fig
  BY Fields DEF GoodFor, Scenery
<1>2. m \in Nodes
  BY <1>1, EdgeNodes DEF Sets
<1>3. CASE IsRoadNodeForFigures(w, m)
  <2>1. t = StartMoving(w, f, m)
    BY <1>3 DEF StartWalking
  <2>2. /\ GoodFor(t, rs, (Figures \ {f}) \cup {f}) /\ FigsOnly(w, t, {f})
        /\ t.fig[f].at = w.fig[f].at /\ t.fig[f].to = m /\ t.fig[f].ev /\ ~t.fig[f].waiting
    BY <2>1, MoveGood
  <2>3. (Figures \ {f}) \cup {f} = Figures
    OBVIOUS
  <2>4. Good(t, rs) /\ FigsOnly(w, t, Figures) /\ \A g \in Figures \ {f} : t.fig[g] = w.fig[g]
    BY <2>2, <2>3 DEF Good, FigsOnly
  <2>5. \A k : IsRoadNodeForFigures(t, k) <=> IsRoadNodeForFigures(w, k)
    BY <2>2, NodesSame DEF FigsOnly
  <2>6. Clear(t)
    BY <1>3, <2>2, <2>4, <2>5 DEF Clear
  <2>7. ASSUME NEW ns, Flows(w, ns) PROVE Flows(t, ns)
    <3> SUFFICES ASSUME NEW fs \in SUBSET {g \in Figures : t.fig[g].waiting}, fs # {}
                 PROVE  Reason(t, ns, fs)
      BY DEF Flows
    <3>1. f \notin fs /\ \A g \in Figures : w.fig[g].waiting => g # f
      BY <2>2
    <3>2. Reason(w, ns, fs)
      BY <2>4, <2>7, <3>1 DEF Flows
    <3> QED BY <2>4, <2>5, <3>1, <3>2 DEF Reason
  <2> QED BY <2>2, <2>4, <2>6, <2>7
<1>4. CASE ~IsRoadNodeForFigures(w, m)
  <2> DEFINE y == [x EXCEPT !.to = m, !.waiting = TRUE]
             v == [w EXCEPT !.fig[f] = y]
  <2>1. /\ y \in Fig /\ y.at = x.at /\ y.to = m /\ y.road = x.road /\ y.waiting /\ y.ev = x.ev
        /\ y.paused = x.paused /\ y.plen = x.plen /\ y.walked = x.walked
    <3>1. m \in Places
      BY <1>2 DEF Places
    <3> HIDE DEF x
    <3> QED BY <1>1, <3>1 DEF Fig
  <2>2. t = StopOnRoads(v, x.at, m)
    BY <1>4 DEF StartWalking
  <2> HIDE DEF y
  <2>3. FigsOnly(w, v, {f}) /\ v.fig[f] = y /\ Own(v, f) = {}
    <3>1. v = WithFig(w, f, y)
      BY DEF WithFig
    <3> HIDE DEF v
    <3> QED BY <1>1, <2>1, <3>1, SetFig
  <2> HIDE DEF v
  <2>4. FigOK(v, f, rs)
    <3>1. OnEdge(y, rs) /\ Halted(y) /\ (y.paused > 0 => y.plen = Time(y))
      BY <2>1 DEF Sets, OnEdge, Halted, Time
    <3>2. Stands(v, f)
      BY <2>1, <2>3, <3>1 DEF Stands
    <3> QED BY <2>3, <3>1, <3>2 DEF FigOK
  <2>5. Good(v, rs)
    <3>1. Scenery(v) /\ GoodFor(v, rs, (Figures \ {f}) \ {f})
      BY <2>3, FigsOnlyGood
    <3> QED BY <2>4, <3>1 DEF Good, GoodFor
  <2>6. \A k : IsRoadNodeForFigures(v, k) <=> IsRoadNodeForFigures(w, k)
    BY <2>3, NodesSame DEF FigsOnly
  <2>7. \A g \in Figures \ {f} : v.fig[g] = w.fig[g]
    BY <2>3 DEF FigsOnly
  <2>8. Clear(v)
    BY <2>1, <2>3, <2>6, <2>7 DEF Clear
  <2>9. ASSUME NEW ns, Flows(w, ns) PROVE Flows(v, ns)
    <3> SUFFICES ASSUME NEW fs \in SUBSET {g \in Figures : v.fig[g].waiting}, fs # {}
                 PROVE  Reason(v, ns, fs)
      BY DEF Flows
    <3>1. CASE f \in fs
      BY <1>4, <2>1, <2>3, <2>6, <3>1 DEF Reason
    <3>2. CASE f \notin fs
      <4>1. Reason(w, ns, fs)
        BY <2>7, <2>9, <3>2 DEF Flows
      <4>2. \A g \in Figures : w.fig[g].waiting => g # f
        OBVIOUS
      <4> QED BY <2>6, <2>7, <3>2, <4>1, <4>2 DEF Reason
    <3> QED BY <3>1, <3>2
  <2>10. v.fig[f].waiting /\ v.fig[f].at = x.at /\ ~IsRoadNodeForFigures(v, v.fig[f].to)
    BY <1>4, <2>1, <2>3, <2>6
  <2>11. /\ Good(t, rs) /\ FigsOnly(v, t, Figures) /\ t.fig[f].at = v.fig[f].at /\ Clear(t)
         /\ \A ns : Flows(v, ns) => Flows(t, ns)
    BY <2>2, <2>5, <2>8, <2>10, StopWorks
  <2>12. FigsOnly(w, t, Figures)
    BY <2>3, <2>11 DEF FigsOnly
  <2> QED BY <2>9, <2>10, <2>11, <2>12
<1> QED BY <1>3, <1>4

-----------------------------------------------------------------------------
(* Events of the fights and the gates. *)
Touches(w, t, o) ==
  /\ t \in Worlds /\ t.fig = w.fig
  /\ \A i \in Fights \ {o} : t.fight[i] = w.fight[i]
  /\ \A n \in Gates \ {o} : t.guard[n] = w.guard[n]
  /\ \A p \in Objects \ {o} : Own(t, p) = Own(w, p)

LEMMA TouchesGood ==
  ASSUME NEW w, NEW rs, Good(w, rs), NEW o \in Fights \cup Gates, NEW t, Touches(w, t, o),
         o \in Fights => Timed(t, o, t.fight[o] # Nowhere),
         o \in Gates => (t.guard[o].ev => t.guard[o].waits) /\ Timed(t, o, t.guard[o].ev)
  PROVE  Good(t, rs)
<1>1. Scenery(w) /\ rs \in SUBSET Roads /\ \A f \in Figures : FigOK(w, f, rs)
  BY DEF Good, GoodFor
<1>2. ASSUME NEW f \in Figures PROVE FigOK(t, f, rs)
  <2>1. f \in Objects \ {o}
    BY Kinds DEF Objects
  <2>2. t.fig[f] = w.fig[f] /\ Own(t, f) = Own(w, f)
    BY <2>1 DEF Touches
  <2> QED BY <1>1, <2>2, FigSame
<1>3. \A n \in Gates : (t.guard[n].ev => t.guard[n].waits) /\ Timed(t, n, t.guard[n].ev)
  <2> SUFFICES ASSUME NEW n \in Gates, n # o
               PROVE  (t.guard[n].ev => t.guard[n].waits) /\ Timed(t, n, t.guard[n].ev)
    OBVIOUS
  <2>1. t.guard[n] = w.guard[n] /\ Own(t, n) = Own(w, n)
    BY DEF Touches, Objects
  <2>2. (w.guard[n].ev => w.guard[n].waits) /\ Timed(w, n, w.guard[n].ev)
    BY <1>1 DEF Scenery
  <2> QED BY <2>1, <2>2 DEF Timed, OneEvent
<1>4. \A i \in Fights : Timed(t, i, t.fight[i] # Nowhere)
  <2> SUFFICES ASSUME NEW i \in Fights, i # o PROVE Timed(t, i, t.fight[i] # Nowhere)
    OBVIOUS
  <2>1. t.fight[i] = w.fight[i] /\ Own(t, i) = Own(w, i)
    BY DEF Touches, Objects
  <2>2. Timed(w, i, w.fight[i] # Nowhere)
    BY <1>1 DEF Scenery
  <2> QED BY <2>1, <2>2 DEF Timed, OneEvent
<1>5. t \in Worlds
  BY DEF Touches
<1> QED BY <1>1, <1>2, <1>3, <1>4, <1>5 DEF Good, GoodFor, Scenery

(* What the calls that concern events do to them. *)
WithEvent(w, e) == [w EXCEPT !.eis = @ \cup {e}]
Fresh(e, o) == e \in Events /\ e.obj = o /\ e.elapsed <= e.length

LEMMA AddIs ==
  ASSUME NEW w \in Worlds, NEW o \in Objects, Own(w, o) = {}, NEW e, Fresh(e, o),
         NEW t, t = WithEvent(w, e)
  PROVE  /\ Touches(w, t, o) /\ t.fight = w.fight /\ t.guard = w.guard /\ OneEvent(t, o)
<1>1. e \in Events /\ e.obj = o /\ e.elapsed <= e.length
  BY DEF Fresh
<1>2. t = [w EXCEPT !.eis = w.eis \cup {e}]
  BY DEF WithEvent
<1>3. w.eis \cup {e} \in SUBSET Events
  BY <1>1, Fields
<1>4. /\ t.eis = w.eis \cup {e} /\ t.fig = w.fig /\ t.fight = w.fight /\ t.guard = w.guard
      /\ t \in Worlds
  BY <1>2, <1>3 DEF Worlds
<1>5. Own(t, o) = {e} /\ \A p \in Objects \ {o} : Own(t, p) = Own(w, p)
  BY <1>1, <1>4 DEF Own
<1>6. OneEvent(t, o)
  BY <1>1, <1>5 DEF OneEvent
<1> QED BY <1>4, <1>5, <1>6 DEF Touches

Began(w, t, o) == Touches(w, t, o) /\ t.fight = w.fight /\ t.guard = w.guard /\ OneEvent(t, o)

LEMMA TurnBegins ==
  ASSUME NEW w \in Worlds, NEW i \in Objects, Own(w, i) = {}
  PROVE  Began(w, AddEvent(w, i, 0, FightTime), i) /\ Began(w, AddEvent(w, i, 0, BlockTime), i)
<1>1. FightTime \in Nat /\ BlockTime \in Nat
  BY RoadsAssumption
<1>2. Fresh(Event(i, 0, FightTime), i) /\ Fresh(Event(i, 0, BlockTime), i)
  BY <1>1, EventFields DEF Fresh
<1>3. /\ AddEvent(w, i, 0, FightTime) = WithEvent(w, Event(i, 0, FightTime))
      /\ AddEvent(w, i, 0, BlockTime) = WithEvent(w, Event(i, 0, BlockTime))
  BY DEF AddEvent, WithEvent
<1> QED BY <1>2, <1>3, AddIs DEF Began

LEMMA HandledIs ==
  ASSUME NEW w \in Worlds, NEW o \in Objects,
         NEW e, Own(w, o) = {e}, e.elapsed = e.length, NEW t, t = Handled(w, o)
  PROVE  Touches(w, t, o) /\ t.fight = w.fight /\ t.guard = w.guard /\ Own(t, o) = {}
<1> DEFINE S == {d \in w.eis : d.obj # o \/ d.elapsed # d.length}
<1>1. t = [w EXCEPT !.eis = S] /\ S \in SUBSET Events
  BY Fields DEF Handled
<1>2. \A d \in S : d \in w.eis /\ (d.obj # o \/ d.elapsed # d.length)
  OBVIOUS
<1>3. \A d \in w.eis : d.obj # o => d \in S
  OBVIOUS
<1> HIDE DEF S
<1>4. /\ t.eis = S /\ t.fig = w.fig /\ t.fight = w.fight /\ t.guard = w.guard /\ t \in Worlds
  BY <1>1 DEF Worlds
<1>5. Own(t, o) = {} /\ \A p \in Objects \ {o} : Own(t, p) = Own(w, p)
  BY <1>2, <1>3, <1>4 DEF Own
<1> QED BY <1>4, <1>5 DEF Touches

LEMMA RemoveIs ==
  ASSUME NEW w \in Worlds, NEW o \in Objects, NEW t, t = RemoveEvent(w, o)
  PROVE  Touches(w, t, o) /\ t.fight = w.fight /\ t.guard = w.guard /\ Own(t, o) = {}
<1> DEFINE S == {d \in w.eis : d.obj # o}
<1>1. t = [w EXCEPT !.eis = S] /\ S \in SUBSET Events
  BY Fields DEF RemoveEvent
<1>2. \A d : d \in S <=> d \in w.eis /\ d.obj # o
  OBVIOUS
<1> HIDE DEF S
<1>4. /\ t.eis = S /\ t.fig = w.fig /\ t.fight = w.fight /\ t.guard = w.guard /\ t \in Worlds
  BY <1>1 DEF Worlds
<1>5. Own(t, o) = {} /\ \A p \in Objects \ {o} : Own(t, p) = Own(w, p)
  BY <1>2, <1>4 DEF Own
<1> QED BY <1>4, <1>5 DEF Touches

WithFight(w, i, n) == [w EXCEPT !.fight[i] = n]
WithGuard(w, n, g) == [w EXCEPT !.guard[n] = g]

LEMMA SetFight ==
  ASSUME NEW w \in Worlds, NEW i \in Fights, NEW n \in Places, NEW t, t = WithFight(w, i, n)
  PROVE  /\ Touches(w, t, i) /\ t.guard = w.guard /\ t.eis = w.eis /\ t.fight[i] = n
         /\ Own(t, i) = Own(w, i)
<1>1. [w.fight EXCEPT ![i] = n] \in [Fights -> Places] /\ t = [w EXCEPT !.fight = [w.fight EXCEPT ![i] = n]]
  BY Fields DEF WithFight
<1>2. /\ t.fight = [w.fight EXCEPT ![i] = n] /\ t.fig = w.fig /\ t.guard = w.guard /\ t.eis = w.eis
      /\ t \in Worlds
  BY <1>1 DEF Worlds
<1>3. t.fight[i] = n /\ \A j \in Fights \ {i} : t.fight[j] = w.fight[j]
  BY <1>2, Fields
<1> QED BY <1>2, <1>3 DEF Touches, Own

LEMMA SetGuard ==
  ASSUME NEW w \in Worlds, NEW n \in Gates, NEW g \in Guards, NEW t, t = WithGuard(w, n, g)
  PROVE  /\ Touches(w, t, n) /\ t.fight = w.fight /\ t.eis = w.eis /\ t.guard[n] = g
         /\ Own(t, n) = Own(w, n)
<1>1. [w.guard EXCEPT ![n] = g] \in [Gates -> Guards] /\ t = [w EXCEPT !.guard = [w.guard EXCEPT ![n] = g]]
  BY Fields DEF WithGuard
<1>2. /\ t.guard = [w.guard EXCEPT ![n] = g] /\ t.fig = w.fig /\ t.fight = w.fight /\ t.eis = w.eis
      /\ t \in Worlds
  BY <1>1 DEF Worlds
<1>3. t.guard[n] = g /\ \A j \in Gates \ {n} : t.guard[j] = w.guard[j]
  BY <1>2, Fields
<1> QED BY <1>2, <1>3 DEF Touches, Own

LEMMA TouchesAgain ==
  ASSUME NEW w, NEW v, NEW t, NEW o, Touches(w, v, o), Touches(v, t, o)
  PROVE  Touches(w, t, o)
BY DEF Touches

-----------------------------------------------------------------------------
(* A node becomes blocked, and those who come are stopped. *)
LEMMA Blocks ==
  ASSUME NEW w, NEW rs, Good(w, rs), Clear(w), NEW n \in Nodes, NEW v, Good(v, rs), v.fig = w.fig,
         ~IsRoadNodeForFigures(v, n),
         \A k \in Nodes \ {n} : IsRoadNodeForFigures(v, k) <=> IsRoadNodeForFigures(w, k),
         NEW t, t = StopOnRoads(v, n, Nowhere)
  PROVE  /\ Good(t, rs) /\ Clear(t) /\ t.fight = v.fight /\ t.guard = v.guard
         /\ Flows(w, {}) => Flows(t, {})
<1>1. /\ Good(t, rs) /\ FigsOnly(v, t, Figures)
      /\ \A f \in Figures : /\ t.fig[f].at = v.fig[f].at /\ t.fig[f].to = v.fig[f].to
                            /\ t.fig[f].ev => v.fig[f].ev
      /\ \A f \in Coming(v, n, Nowhere) : ~t.fig[f].ev
      /\ Flows(v, {n}) => Flows(t, {n})
  BY StopWorks
<1>2. \A k : IsRoadNodeForFigures(t, k) <=> IsRoadNodeForFigures(v, k)
  BY <1>1, NodesSame DEF FigsOnly
<1>3. ASSUME NEW f \in Figures, t.fig[f].ev PROVE IsRoadNodeForFigures(t, t.fig[f].to)
  <2>1. v.fig[f].ev /\ v.fig[f] = w.fig[f] /\ t.fig[f].to = w.fig[f].to
    BY <1>1, <1>3
  <2>2. IsRoadNodeForFigures(w, w.fig[f].to)
    BY <2>1 DEF Clear
  <2>3. OnEdge(v.fig[f], rs)
    BY <2>1, WaitersStand
  <2>4. v.fig[f].at # Nowhere /\ v.fig[f].to \in Nodes
    BY <2>3, EdgeNodes DEF OnEdge, Good, GoodFor
  <2>5. v.fig[f].to # n
    BY <1>1, <1>3, <2>1, <2>4 DEF Coming
  <2> QED BY <1>2, <2>1, <2>2, <2>4, <2>5
<1>4. ASSUME Flows(w, {}) PROVE Flows(t, {})
  <2>1. Flows(v, {n})
    BY <1>4, FlowsSame
  <2>2. Flows(t, {n})
    BY <1>1, <2>1
  <2>3. ~IsRoadNodeForFigures(t, n)
    BY <1>2
  <2> SUFFICES ASSUME NEW fs \in SUBSET {f \in Figures : t.fig[f].waiting}, fs # {}
               PROVE  Reason(t, {}, fs)
    BY DEF Flows
  <2>4. Reason(t, {n}, fs)
    BY <2>2 DEF Flows
  <2> QED BY <2>3, <2>4 DEF Reason
<1> QED BY <1>1, <1>3, <1>4 DEF Clear, FigsOnly

(* A node is not blocked any more, and those who wait are told. *)
LEMMA Frees ==
  ASSUME NEW w, NEW rs, Good(w, rs), Clear(w), NEW n, NEW v, Good(v, rs), v.fig = w.fig,
         \A k \in Nodes : IsRoadNodeForFigures(w, k) => IsRoadNodeForFigures(v, k),
         \A k \in Nodes \ {n} : IsRoadNodeForFigures(v, k) <=> IsRoadNodeForFigures(w, k),
         NEW t, t = RoadNodeAvailable(v, n)
  PROVE  Good(t, rs) /\ Clear(t) /\ (Flows(w, {}) => Flows(t, {}))
<1>1. Good(t, rs) /\ (Clear(v) => Clear(t)) /\ (Flows(v, {n}) => Flows(t, {}))
  BY FreeWorks DEF RoadNodeAvailable
<1>2. Clear(v)
  <2>1. \A f \in Figures : w.fig[f].ev => w.fig[f].to \in Nodes
    BY WaitersStand, EdgeNodes DEF OnEdge, Good, GoodFor
  <2> QED BY <2>1 DEF Clear
<1>3. ASSUME Flows(w, {}) PROVE Flows(v, {n})
  <2>1. {} \subseteq {n} /\ n \in {n}
    OBVIOUS
  <2>2. \A k \in Nodes : ~IsRoadNodeForFigures(w, k) => ~IsRoadNodeForFigures(v, k) \/ k \in {n}
    OBVIOUS
  <2>3. \A f \in Figures : /\ v.fig[f].waiting <=> w.fig[f].waiting
                           /\ w.fig[f].waiting => /\ v.fig[f].at = w.fig[f].at
                                                  /\ v.fig[f].to = w.fig[f].to
    OBVIOUS
  <2> QED BY ONLY <1>3, <2>1, <2>2, <2>3, FlowsSame, Good(w, rs)
<1> QED BY <1>1, <1>2, <1>3

(* Nothing changes for the figures. *)
LEMMA Leaves ==
  ASSUME NEW w, NEW rs, Good(w, rs), Clear(w), NEW v, v.fig = w.fig,
         \A k \in Nodes : IsRoadNodeForFigures(v, k) <=> IsRoadNodeForFigures(w, k)
  PROVE  Clear(v) /\ (Flows(w, {}) => Flows(v, {}))
<1>1. \A f \in Figures : w.fig[f].ev => w.fig[f].to \in Nodes
  BY WaitersStand, EdgeNodes DEF OnEdge, Good, GoodFor
<1>2. Clear(v)
  BY <1>1 DEF Clear
<1>3. Flows(w, {}) => Flows(v, {})
  BY FlowsSame
<1> QED BY <1>2, <1>3

(* Figures are stopped no matter what else there is. *)
LEMMA EventOfSame ==
  ASSUME NEW w, NEW v, NEW f, w.eis = v.eis
  PROVE  EventOf(w, f) = EventOf(v, f)
BY DEF EventOf

LEMMA PauseSame ==
  ASSUME NEW w, NEW v, w.fig = v.fig, w.eis = v.eis, NEW f
  PROVE  Paused(w, f) = Paused(v, f)
BY EventOfSame DEF Paused

Put(s, F, G) == [s EXCEPT !.fight = F, !.guard = G]
PutFight(s, F) == [s EXCEPT !.fight = F]
PutGuard(s, G) == [s EXCEPT !.guard = G]

LEMMA StopSame ==
  ASSUME NEW w \in Worlds, NEW v \in Worlds, w.fig = v.fig, w.eis = v.eis, NEW n, NEW m
  PROVE  LET s == StopOnRoads(w, n, m)  t == StopOnRoads(v, n, m) IN
           /\ t = Put(s, v.fight, v.guard)
           /\ v.fight = w.fight => t = PutGuard(s, v.guard)
           /\ v.guard = w.guard => t = PutFight(s, v.fight)
           /\ s.fight = w.fight /\ s.guard = w.guard
<1> DEFINE s == StopOnRoads(w, n, m)
           t == StopOnRoads(v, n, m)
           S == Stopping(w, n, m)
           F == [f \in Figures |-> IF f \in S THEN Paused(w, f) ELSE w.fig[f]]
           E == {e \in w.eis : e.obj \notin S}
<1>1. S = Stopping(v, n, m)
  BY DEF Stopping, Coming
<1>2. \A f : Paused(w, f) = Paused(v, f)
  BY PauseSame
<1>3. s = [w EXCEPT !.fig = F, !.eis = E]
  BY DEF StopOnRoads, PauseWalking
<1>4. t = [v EXCEPT !.fig = F, !.eis = E]
  <2> HIDE DEF S
  <2>1. t = [v EXCEPT !.fig = [f \in Figures |-> IF f \in S THEN Paused(v, f) ELSE v.fig[f]],
                      !.eis = {e \in v.eis : e.obj \notin S}]
    BY <1>1 DEF StopOnRoads, PauseWalking
  <2>2. [f \in Figures |-> IF f \in S THEN Paused(v, f) ELSE v.fig[f]] = F
    BY <1>2
  <2>3. {e \in v.eis : e.obj \notin S} = E
    OBVIOUS
  <2> QED BY <2>1, <2>2, <2>3
<1> HIDE DEF F, E, s, t
<1>5. /\ t = [s EXCEPT !.fight = v.fight, !.guard = v.guard] /\ s.fight = w.fight /\ s.guard = w.guard
      /\ v.fight = w.fight => t = [s EXCEPT !.guard = v.guard]
      /\ v.guard = w.guard => t = [s EXCEPT !.fight = v.fight]
  BY <1>3, <1>4 DEF Worlds
<1> QED BY <1>5 DEF s, t, Put, PutFight, PutGuard

-----------------------------------------------------------------------------
(* What figures do. *)

(* A figure that does not wait is changed, and does not walk: all is as well *)
(* for the others.                                                           *)
LEMMA OtherFlows ==
  ASSUME NEW w, NEW v, NEW f \in Figures, FigsOnly(w, v, {f}), ~w.fig[f].waiting, ~v.fig[f].waiting,
         ~v.fig[f].ev
  PROVE  /\ Clear(w) => Clear(v)
         /\ \A ns : Flows(w, ns) => Flows(v, ns)
<1>1. \A k : IsRoadNodeForFigures(v, k) <=> IsRoadNodeForFigures(w, k)
  BY NodesSame DEF FigsOnly
<1>2. \A g \in Figures \ {f} : v.fig[g] = w.fig[g]
  BY DEF FigsOnly
<1>3. Clear(w) => Clear(v)
  BY <1>1, <1>2 DEF Clear
<1>4. ASSUME NEW ns, Flows(w, ns) PROVE Flows(v, ns)
  <2> SUFFICES ASSUME NEW fs \in SUBSET {g \in Figures : v.fig[g].waiting}, fs # {}
               PROVE  Reason(v, ns, fs)
    BY DEF Flows
  <2>1. f \notin fs /\ \A g \in Figures : w.fig[g].waiting => g # f
    OBVIOUS
  <2>2. Reason(w, ns, fs)
    BY <1>2, <1>4, <2>1 DEF Flows
  <2> QED BY <1>1, <1>2, <2>1, <2>2 DEF Reason
<1> QED BY <1>3, <1>4

LEMMA SetsOff ==
  ASSUME NEW w, NEW rs, Good(w, rs), Clear(w), NEW f \in Figures, w.fig[f].road = Nowhere,
         NEW r \in rs, NEW n, NEW m, <<n, m>> \in Edges(r),
         NEW t, t = StartWalking(At(w, f, n, r), f, m)
  PROVE  Good(t, rs) /\ Clear(t) /\ (Flows(w, {}) => Flows(t, {}))
<1> DEFINE x == [Off EXCEPT !.at = n, !.road = r]
           v == [w EXCEPT !.fig[f] = x]
<1>1. w \in Worlds /\ rs \in SUBSET Roads
  BY DEF Good, GoodFor, Scenery
<1>2. n \in Nodes /\ r \in Roads
  BY <1>1, EdgeNodes
<1>3. /\ x \in Fig /\ x.at = n /\ x.road = r /\ ~x.ev /\ ~x.waiting /\ x.paused = 0 /\ x.plen = 0
      /\ x.walked = 0
  BY <1>2 DEF Off, Fig, Places
<1>4. Away(w, f)
  <2>1. r # Nowhere /\ \A q \in rs : q # Nowhere
    BY <1>1, RoadsAssumption
  <2> QED BY <2>1 DEF Good, GoodFor, FigOK, OnEdge
<1> HIDE DEF x
<1>5. FigsOnly(w, v, {f}) /\ v.fig[f] = x /\ Own(v, f) = {}
  <2>1. v = WithFig(w, f, x)
    BY DEF WithFig
  <2> HIDE DEF v
  <2>2. Own(w, f) = {} /\ x \in Fig
    BY <1>3, <1>4 DEF Away
  <2>3. FigsOnly(w, v, {f}) /\ v.fig[f] = x /\ Own(v, f) = Own(w, f)
    BY <1>1, <2>1, <2>2, SetFig
  <2> QED BY <2>2, <2>3
<1>6. t = StartWalking(v, f, m)
  BY DEF x, At
<1> HIDE DEF v
<1>7. GoodFor(v, rs, Figures \ {f})
  BY <1>5, FigsOnlyGood DEF Good
<1>8. Sets(x, rs, m)
  BY <1>3 DEF Sets, Halted
<1>9. Clear(v) /\ \A ns : Flows(w, ns) => Flows(v, ns)
  BY <1>3, <1>4, <1>5, OffIs, OtherFlows DEF Away
<1>10. /\ Good(t, rs) /\ Clear(t) /\ \A ns : Flows(v, ns) => Flows(t, ns)
  BY <1>3, <1>5, <1>6, <1>7, <1>8, <1>9, StartWorks
<1> QED BY <1>9, <1>10

(* Somebody has come to the next node. *)
Arrived(w, f, v) ==
  LET x == v.fig[f] IN
  /\ FigsOnly(w, v, {f}) /\ Own(v, f) = {} /\ w.fig[f].ev /\ ~w.fig[f].waiting
  /\ x \in Fig /\ x.at = w.fig[f].to /\ x.at \in Nodes /\ x.road = w.fig[f].road
  /\ ~x.ev /\ ~x.waiting /\ x.paused = 0 /\ x.plen = 0 /\ x.walked = 0

LEMMA Arrives ==
  ASSUME NEW w, NEW rs, Good(w, rs), NEW f \in Figures,
         NEW e \in w.eis, e.obj = f, e.elapsed = e.length,
         NEW v, v = Handled(At(w, f, w.fig[f].to, w.fig[f].road), f)
  PROVE  Arrived(w, f, v)
<1> DEFINE n == w.fig[f].to
           r == w.fig[f].road
           x == [Off EXCEPT !.at = n, !.road = r]
           u == [w EXCEPT !.fig[f] = x]
<1>1. w \in Worlds /\ rs \in SUBSET Roads /\ f \in Objects
  BY DEF Good, GoodFor, Scenery, Objects
<1>2. Own(w, f) # {} /\ e \in Own(w, f)
  BY DEF Own
<1>3. OnEdge(w.fig[f], rs) /\ Walks(w, f)
  BY <1>2 DEF Good, GoodFor, FigOK, Away, Stands
<1>4. n \in Nodes /\ r \in Roads
  BY <1>1, <1>3, EdgeNodes DEF OnEdge
<1>5. PICK d : Own(w, f) = {d}
  BY <1>3 DEF Walks
<1>6. Own(w, f) = {e}
  BY <1>2, <1>5
<1> HIDE DEF n, r
<1>7. /\ x \in Fig /\ x.at = n /\ x.road = r /\ ~x.ev /\ ~x.waiting /\ x.paused = 0 /\ x.plen = 0
      /\ x.walked = 0
  BY <1>4 DEF Off, Fig, Places
<1>8. v = Handled(u, f)
  BY DEF n, r, At
<1> HIDE DEF x
<1>9. FigsOnly(w, u, {f}) /\ u.fig[f] = x /\ Own(u, f) = {e}
  <2>1. u = WithFig(w, f, x)
    BY DEF WithFig
  <2>2. x \in Fig
    BY <1>7
  <2> HIDE DEF u
  <2>3. FigsOnly(w, u, {f}) /\ u.fig[f] = x /\ Own(u, f) = Own(w, f)
    BY <1>1, <2>1, <2>2, SetFig
  <2> QED BY <1>6, <2>3
<1> HIDE DEF u
<1>10. Touches(u, v, f) /\ v.fight = u.fight /\ v.guard = u.guard /\ Own(v, f) = {}
  <2>1. u \in Worlds /\ Own(u, f) = {e}
    BY <1>9 DEF FigsOnly
  <2> QED BY ONLY <1>1, <1>8, <2>1, e.elapsed = e.length, HandledIs
<1>11. FigsOnly(w, v, {f}) /\ v.fig[f] = x
  BY <1>9, <1>10 DEF FigsOnly, Touches
<1> QED BY <1>3, <1>4, <1>7, <1>10, <1>11 DEF Arrived, Walks, n, r

LEMMA GoesOn ==
  ASSUME NEW w, NEW rs, Good(w, rs), Clear(w), NEW f \in Figures, NEW v, Arrived(w, f, v),
         NEW r \in rs, NEW m, <<w.fig[f].to, m>> \in Edges(r),
         NEW t, t = StartWalking(OnRoad(v, f, r), f, m)
  PROVE  Good(t, rs) /\ Clear(t) /\ (Flows(w, {}) => Flows(t, {}))
<1> DEFINE y == v.fig[f]
           x == [y EXCEPT !.road = r]
           u == [v EXCEPT !.fig[f] = x]
<1>1. v \in Worlds /\ rs \in SUBSET Roads /\ y \in Fig
  BY DEF Arrived, FigsOnly, Good, GoodFor
<1>2. /\ x \in Fig /\ x.at = w.fig[f].to /\ x.road = r /\ ~x.ev /\ ~x.waiting /\ x.paused = 0
      /\ x.plen = 0 /\ x.walked = 0
  <2>1. /\ y.at = w.fig[f].to /\ ~y.ev /\ ~y.waiting /\ y.paused = 0 /\ y.plen = 0 /\ y.walked = 0
    BY DEF Arrived
  <2> HIDE DEF y
  <2> QED BY <1>1, <2>1 DEF Fig
<1>3. t = StartWalking(u, f, m)
  BY DEF OnRoad
<1> HIDE DEF x
<1>4. FigsOnly(v, u, {f}) /\ u.fig[f] = x /\ Own(u, f) = {}
  <2>1. u = WithFig(v, f, x)
    BY DEF WithFig
  <2> HIDE DEF u
  <2>2. Own(v, f) = {}
    BY DEF Arrived
  <2> QED BY <1>1, <1>2, <2>1, <2>2, SetFig
<1> HIDE DEF u
<1>5. FigsOnly(w, u, {f})
  BY <1>4 DEF FigsOnly, Arrived
<1>6. GoodFor(u, rs, Figures \ {f})
  BY <1>5, FigsOnlyGood DEF Good
<1>7. Sets(x, rs, m)
  BY <1>2 DEF Sets, Halted
<1>8. Clear(u) /\ \A ns : Flows(w, ns) => Flows(u, ns)
  BY <1>2, <1>4, <1>5, OtherFlows DEF Arrived
<1>9. /\ Good(t, rs) /\ Clear(t) /\ \A ns : Flows(u, ns) => Flows(t, ns)
  BY <1>2, <1>3, <1>4, <1>6, <1>7, <1>8, StartWorks
<1> QED BY <1>8, <1>9

LEMMA IsThere ==
  ASSUME NEW w, NEW rs, Good(w, rs), Clear(w), NEW f \in Figures, NEW v, Arrived(w, f, v),
         NEW t, t = LeavesRoads(v, {f})
  PROVE  Good(t, rs) /\ Clear(t) /\ (Flows(w, {}) => Flows(t, {}))
<1>1. GoodFor(v, rs, Figures \ {f})
  BY FigsOnlyGood DEF Good, Arrived
<1>2. GoodFor(t, rs, (Figures \ {f}) \cup {f}) /\ FigsOnly(v, t, {f}) /\ t.fig[f] = Off
  <2>1. /\ Figures \ {f} \in SUBSET Figures /\ {f} \in SUBSET Figures /\ f \in {f}
    OBVIOUS
  <2> QED BY ONLY <1>1, <2>1, t = LeavesRoads(v, {f}), LeaveGood
<1>3. (Figures \ {f}) \cup {f} = Figures
  OBVIOUS
<1>4. Good(t, rs) /\ FigsOnly(w, t, {f})
  BY <1>2, <1>3 DEF Good, Arrived, FigsOnly
<1>5. Clear(t) /\ \A ns : Flows(w, ns) => Flows(t, ns)
  BY <1>2, <1>4, OffIs, OtherFlows DEF Arrived
<1> QED BY <1>4, <1>5

LEMMA Wanders ==
  ASSUME NEW w, NEW rs, Good(w, rs), Clear(w), NEW f \in Figures, NEW t, t = StartWandering(w, f)
  PROVE  Good(t, rs) /\ Clear(t)
<1>1. GoodFor(t, rs, Figures \cup {f}) /\ FigsOnly(w, t, {f}) /\ t.fig[f] = Off
  BY LeaveGood DEF Good, StartWandering
<1>2. Figures \cup {f} = Figures
  OBVIOUS
<1>3. \A k : IsRoadNodeForFigures(t, k) <=> IsRoadNodeForFigures(w, k)
  BY <1>1, NodesSame DEF FigsOnly
<1>4. Clear(t)
  BY <1>1, <1>3, OffIs DEF Clear, FigsOnly
<1> QED BY <1>1, <1>2, <1>4 DEF Good

LEMMA GoesHome ==
  ASSUME NEW w, NEW rs, Good(w, rs), Clear(w), NEW f \in Figures, NEW t, t = GoHome(w, f)
  PROVE  Good(t, rs) /\ Clear(t) /\ (Flows(w, {}) => Flows(t, {}))
<1>1. CASE ~w.fig[f].waiting
  BY <1>1 DEF GoHome
<1>2. CASE w.fig[f].waiting
  <2> DEFINE y == w.fig[f]
             x == [y EXCEPT !.waiting = FALSE]
             v == [w EXCEPT !.fig[f] = x]
             u == StartWalking(v, f, y.to)
  <2>1. w \in Worlds /\ rs \in SUBSET Roads /\ y \in Fig
    BY Fields DEF Good, GoodFor, Scenery
  <2>2. OnEdge(y, rs) /\ Stands(w, f) /\ ~y.ev /\ Halted(y) /\ (y.paused > 0 => y.plen = Time(y)) /\ Own(w, f) = {}
    BY <1>2, WaitersStand DEF Stands
  <2>3. t = RoadNodeAvailable(u, y.at)
    BY <1>2 DEF GoHome
  <2>4. /\ x \in Fig /\ x.at = y.at /\ x.to = y.to /\ x.road = y.road /\ ~x.ev /\ ~x.waiting
        /\ x.paused = y.paused /\ x.plen = y.plen /\ x.walked = y.walked
    <3>1. ~y.ev
      BY <2>2
    <3> HIDE DEF y
    <3> QED BY <2>1, <3>1 DEF Fig
  <2> HIDE DEF x
  <2>5. FigsOnly(w, v, {f}) /\ v.fig[f] = x /\ Own(v, f) = {}
    <3>1. v = WithFig(w, f, x)
      BY DEF WithFig
    <3> HIDE DEF v
    <3> QED BY <2>1, <2>2, <2>4, <3>1, SetFig
  <2> HIDE DEF v
  <2>6. GoodFor(v, rs, Figures \ {f})
    BY <2>5, FigsOnlyGood DEF Good
  <2>7. Sets(x, rs, y.to)
    BY <2>2, <2>4 DEF Sets, OnEdge, Halted, Time
  <2>8. \A k : IsRoadNodeForFigures(v, k) <=> IsRoadNodeForFigures(w, k)
    BY <2>5, NodesSame DEF FigsOnly
  <2>9. \A g \in Figures \ {f} : v.fig[g] = w.fig[g]
    BY <2>5 DEF FigsOnly
  <2>10. Clear(v)
    BY <2>4, <2>5, <2>8, <2>9 DEF Clear
  <2>11. ASSUME Flows(w, {}) PROVE Flows(v, {y.at})
    <3> SUFFICES ASSUME NEW fs \in SUBSET {g \in Figures : v.fig[g].waiting}, fs # {}
                 PROVE  Reason(v, {y.at}, fs)
      BY DEF Flows
    <3>1. f \notin fs
      BY <2>4, <2>5
    <3>2. Reason(w, {}, fs)
      BY <2>9, <2>11, <3>1 DEF Flows
    <3> QED BY <2>8, <2>9, <3>1, <3>2 DEF Reason
  <2>12. /\ Good(u, rs) /\ Clear(u) /\ \A ns : Flows(v, ns) => Flows(u, ns)
    <3>1. u = StartWalking(v, f, y.to)
      OBVIOUS
    <3> HIDE DEF u, y
    <3> QED BY <2>4, <2>5, <2>6, <2>7, <2>10, <3>1, StartWorks
  <2> HIDE DEF u
  <2>13. /\ Good(t, rs) /\ Clear(t) /\ (Flows(u, {y.at}) => Flows(t, {}))
    BY <2>3, <2>12, FreeWorks DEF RoadNodeAvailable
  <2> QED BY <2>11, <2>12, <2>13
<1> QED BY <1>1, <1>2

(* Somebody whose road is gone leaves the nodes of this road. *)
LEMMA RoadGone ==
  ASSUME NEW w, NEW rs, Good(w, rs), Clear(w), NEW r \in rs,
         NEW t, t = RoadNodesAvailable(LeavesRoads(w, {f \in Figures : w.fig[f].road = r}), ToSet(Route[r]))
  PROVE  Good(t, rs \ {r}) /\ Clear(t) /\ (Flows(w, {}) => Flows(t, {}))
<1> DEFINE gone == {f \in Figures : w.fig[f].road = r}
           v == LeavesRoads(w, gone)
           qs == rs \ {r}
<1>1. t = RoadNodesAvailable(v, ToSet(Route[r])) /\ rs \in SUBSET Roads /\ qs \in SUBSET Roads
  BY DEF Good, GoodFor
<1>2. GoodFor(v, rs, Figures \cup gone) /\ FigsOnly(w, v, gone) /\ \A f \in gone : v.fig[f] = Off
  <2>1. v = LeavesRoads(w, gone) /\ gone \in SUBSET Figures /\ Figures \in SUBSET Figures
    OBVIOUS
  <2>2. GoodFor(w, rs, Figures)
    BY DEF Good
  <2> HIDE DEF v, gone
  <2> QED BY ONLY <2>1, <2>2, LeaveGood
<1> HIDE DEF v
<1>3. \A f \in Figures \ gone : v.fig[f] = w.fig[f]
  BY <1>2 DEF FigsOnly
<1>4. ASSUME NEW f \in Figures PROVE FigOK(v, f, qs)
  <2>1. FigOK(v, f, rs)
    BY <1>2 DEF GoodFor
  <2>2. v.fig[f].road \in rs => v.fig[f].road \in qs
    <3>1. Nowhere \notin rs
      BY <1>1, RoadsAssumption
    <3> QED BY <1>2, <1>3, <3>1, OffIs
  <2> QED BY <2>1, <2>2, FigMore
<1>5. Good(v, qs)
  BY <1>1, <1>2, <1>4 DEF Good, GoodFor
<1>6. \A k : IsRoadNodeForFigures(v, k) <=> IsRoadNodeForFigures(w, k)
  BY <1>2, NodesSame DEF FigsOnly
<1>7. Clear(v)
  BY <1>2, <1>3, <1>6, OffIs DEF Clear
<1>8. ASSUME Flows(w, {}) PROVE Flows(v, ToSet(Route[r]))
  <2> SUFFICES ASSUME NEW fs \in SUBSET {g \in Figures : v.fig[g].waiting}, fs # {}
               PROVE  Reason(v, ToSet(Route[r]), fs)
    BY DEF Flows
  <2>1. fs \cap gone = {}
    BY <1>2, OffIs
  <2>2. fs \in SUBSET {g \in Figures : w.fig[g].waiting}
    BY <1>3, <2>1
  <2>3. PICK f \in fs : \/ ~IsRoadNodeForFigures(w, w.fig[f].to)
                        \/ \E g \in Figures \ fs : w.fig[g].waiting /\ w.fig[g].at = w.fig[f].to
    BY <1>8, <2>2 DEF Flows, Reason
  <2>4. v.fig[f] = w.fig[f]
    BY <1>3, <2>1
  <2>5. CASE ~IsRoadNodeForFigures(w, w.fig[f].to)
    BY <1>6, <2>4, <2>5 DEF Reason
  <2>6. ASSUME NEW g \in Figures \ fs, w.fig[g].waiting, w.fig[g].at = w.fig[f].to
        PROVE  Reason(v, ToSet(Route[r]), fs)
    <3>1. CASE g \in gone
      <4>1. w.fig[g].road = r /\ OnEdge(w.fig[g], rs)
        BY <2>6, <3>1, WaitersStand
      <4>2. w.fig[g].at \in ToSet(Route[r])
        BY <1>1, <4>1, EdgeNodes DEF OnEdge
      <4> QED BY <2>4, <2>6, <4>2 DEF Reason
    <3>2. CASE g \notin gone
      BY <1>3, <2>4, <2>6, <3>2 DEF Reason
    <3> QED BY <3>1, <3>2
  <2> QED BY <2>3, <2>5, <2>6
<1>9. Good(t, qs) /\ (Clear(v) => Clear(t)) /\ (Flows(v, ToSet(Route[r])) => Flows(t, {}))
  BY <1>1, <1>5, FreeWorks
<1> QED BY <1>7, <1>8, <1>9

-----------------------------------------------------------------------------
(* What fights and attackers do. *)
LEMMA DueIs ==
  ASSUME NEW w, NEW rs, Good(w, rs), NEW o \in Fights \cup Gates, NEW e \in w.eis, e.obj = o
  PROVE  /\ Own(w, o) = {e} /\ o \in Objects
         /\ o \in Fights => w.fight[o] # Nowhere
         /\ o \in Gates => w.guard[o].ev /\ w.guard[o].waits
<1>1. e \in Own(w, o) /\ o \in Objects
  BY DEF Own, Objects
<1>2. CASE o \in Fights
  <2>1. o \notin Gates
    BY <1>2, RoadsAssumption
  <2>2. Timed(w, o, w.fight[o] # Nowhere)
    BY <1>2 DEF Good, GoodFor, Scenery
  <2> QED BY <1>1, <2>1, <2>2 DEF Timed, OneEvent
<1>3. CASE o \in Gates
  <2>1. o \notin Fights
    BY <1>3, RoadsAssumption
  <2>2. Timed(w, o, w.guard[o].ev) /\ (w.guard[o].ev => w.guard[o].waits)
    BY <1>3 DEF Good, GoodFor, Scenery
  <2> QED BY <1>1, <2>1, <2>2 DEF Timed, OneEvent
<1> QED BY <1>2, <1>3

LEMMA TimedSame ==
  ASSUME NEW w, NEW t, NEW o, OneEvent(w, o), Own(t, o) = Own(w, o)
  PROVE  OneEvent(t, o)
BY DEF OneEvent

LEMMA FightBegins ==
  ASSUME NEW w, NEW rs, Good(w, rs), NEW i \in Fights, w.fight[i] = Nowhere, NEW n \in Nodes,
         NEW u, u = AddEvent(w, i, 0, FightTime), NEW v, v = WithFight(u, i, n)
  PROVE  /\ u \in Worlds /\ Good(v, rs) /\ v.fig = w.fig /\ v.eis = u.eis /\ u.fig = w.fig
         /\ v.guard = w.guard /\ u.guard = w.guard /\ v.fight = [u.fight EXCEPT ![i] = n]
         /\ v.fight[i] = n /\ \A j \in Fights \ {i} : v.fight[j] = w.fight[j]
<1>1. w \in Worlds /\ i \in Objects /\ Own(w, i) = {} /\ FightTime \in Nat /\ n \in Places
  BY RoadsAssumption DEF Good, GoodFor, Scenery, Timed, Objects, Places
<1>2. Touches(w, u, i) /\ u.fight = w.fight /\ u.guard = w.guard /\ OneEvent(u, i)
  BY <1>1, TurnBegins DEF Began
<1>3. u \in Worlds /\ u.fig = w.fig
  BY <1>2 DEF Touches
<1>4. /\ Touches(u, v, i) /\ v.guard = u.guard /\ v.eis = u.eis /\ v.fight[i] = n
      /\ Own(v, i) = Own(u, i)
  BY <1>1, <1>3, SetFight
<1>9. v.fight = [u.fight EXCEPT ![i] = n]
  BY <1>3 DEF WithFight, Worlds
<1>5. Touches(w, v, i)
  BY <1>2, <1>4, TouchesAgain
<1>6. Timed(v, i, v.fight[i] # Nowhere)
  <2>1. OneEvent(v, i) /\ n # Nowhere
    BY <1>2, <1>4, TimedSame, RoadsAssumption
  <2> QED BY <1>4, <2>1 DEF Timed
<1>7. i \notin Gates
  BY RoadsAssumption
<1>8. Good(v, rs)
  BY <1>5, <1>6, <1>7, TouchesGood
<1> QED BY <1>2, <1>3, <1>4, <1>5, <1>8, <1>9 DEF Touches

LEMMA SoldiersMeet ==
  ASSUME NEW w, NEW rs, Good(w, rs), Clear(w), NEW i \in Fights, w.fight[i] = Nowhere,
         NEW n \in Nodes,
         NEW t, t = [StopOnRoads(AddEvent(w, i, 0, FightTime), n, Nowhere) EXCEPT !.fight[i] = n]
  PROVE  Good(t, rs) /\ Clear(t) /\ (Flows(w, {}) => Flows(t, {}))
<1> DEFINE u == AddEvent(w, i, 0, FightTime)
           v == WithFight(u, i, n)
           s == StopOnRoads(u, n, Nowhere)
<1>1. t = [s EXCEPT !.fight = [s.fight EXCEPT ![i] = n]]
  OBVIOUS
<1> HIDE DEF u, v
<1>2. /\ u \in Worlds /\ Good(v, rs) /\ v.fig = w.fig /\ v.eis = u.eis /\ u.fig = w.fig
      /\ v.guard = w.guard /\ u.guard = w.guard /\ v.fight = [u.fight EXCEPT ![i] = n]
      /\ v.fight[i] = n /\ \A j \in Fights \ {i} : v.fight[j] = w.fight[j]
  BY FightBegins DEF u, v
<1>3. v \in Worlds
  BY <1>2 DEF Good, GoodFor, Scenery
<1>4. StopOnRoads(v, n, Nowhere) = PutFight(s, v.fight) /\ s.fight = u.fight
  <2>1. u.fig = v.fig /\ u.eis = v.eis /\ v.guard = u.guard
    BY <1>2
  <2> QED BY <1>2, <1>3, <2>1, StopSame
<1> HIDE DEF s
<1>5. t = StopOnRoads(v, n, Nowhere)
  BY <1>1, <1>2, <1>4 DEF PutFight
<1>6. ~IsRoadNodeForFigures(v, n)
  BY <1>2 DEF IsRoadNodeForFigures
<1>7. \A k \in Nodes \ {n} : IsRoadNodeForFigures(v, k) <=> IsRoadNodeForFigures(w, k)
  BY <1>2, RoadsAssumption DEF IsRoadNodeForFigures
<1> QED BY <1>2, <1>5, <1>6, <1>7, Blocks

(* Two objects are changed, one after the other. *)
LEMMA GuardSet ==
  ASSUME NEW w, NEW rs, Good(w, rs), NEW n \in Gates, Own(w, n) = {},
         NEW v, v = WithGuard(w, n, NoGuard)
  PROVE  /\ Good(v, rs) /\ v.fig = w.fig /\ v.eis = w.eis /\ v.fight = w.fight
         /\ v.guard = [w.guard EXCEPT ![n] = NoGuard] /\ v.guard[n] = NoGuard
         /\ \A m \in Gates \ {n} : v.guard[m] = w.guard[m]
<1>1. NoGuard \in Guards /\ ~NoGuard.ev /\ w \in Worlds
  BY DEF NoGuard, Guards, Good, GoodFor, Scenery
<1>2. /\ Touches(w, v, n) /\ v.fight = w.fight /\ v.eis = w.eis /\ v.guard[n] = NoGuard
      /\ Own(v, n) = Own(w, n)
  BY <1>1, SetGuard
<1>6. v.guard = [w.guard EXCEPT ![n] = NoGuard]
  BY <1>1 DEF WithGuard, Worlds
<1>3. n \notin Fights
  BY RoadsAssumption
<1>4. Timed(v, n, v.guard[n].ev)
  BY <1>1, <1>2 DEF Timed
<1>5. Good(v, rs)
  BY <1>1, <1>2, <1>3, <1>4, TouchesGood
<1> QED BY <1>2, <1>5, <1>6 DEF Touches

LEMMA GuardLeaves ==
  ASSUME NEW g \in Guards, ~g.ev
  PROVE  [g EXCEPT !.waits = FALSE] = NoGuard
<1>1. PICK a \in BOOLEAN, b \in BOOLEAN : g = [waits |-> a, ev |-> b]
  BY DEF Guards
<1>2. b = FALSE
  BY <1>1
<1> DEFINE h == [g EXCEPT !.waits = FALSE]
<1>3. h \in Guards /\ h.waits = FALSE /\ h.ev = g.ev
  BY DEF Guards
<1> HIDE DEF h
<1>4. PICK c \in BOOLEAN, d \in BOOLEAN : h = [waits |-> c, ev |-> d]
  BY <1>3 DEF Guards
<1>5. c = FALSE /\ d = FALSE
  BY <1>1, <1>2, <1>3, <1>4
<1> QED BY <1>4, <1>5 DEF NoGuard, h

Meets(s, i, n) == [s EXCEPT !.fight[i] = n, !.guard[n].waits = FALSE]

LEMMA DefenderMeets ==
  ASSUME NEW w, NEW rs, Good(w, rs), Clear(w), NEW i \in Fights, w.fight[i] = Nowhere,
         NEW n \in Gates, w.guard[n].waits, ~w.guard[n].ev,
         NEW t, t = Meets(StopOnRoads(AddEvent(w, i, 0, FightTime), n, Nowhere), i, n)
  PROVE  Good(t, rs) /\ Clear(t) /\ (Flows(w, {}) => Flows(t, {}))
<1> DEFINE u == AddEvent(w, i, 0, FightTime)
           x == WithFight(u, i, n)
           v == WithGuard(x, n, NoGuard)
           s == StopOnRoads(u, n, Nowhere)
<1>1. t = [s EXCEPT !.fight = [s.fight EXCEPT ![i] = n],
                    !.guard = [s.guard EXCEPT ![n] = [s.guard[n] EXCEPT !.waits = FALSE]]]
  BY DEF Meets
<1>2. n \in Nodes /\ w \in Worlds
  BY RoadsAssumption DEF Good, GoodFor, Scenery
<1> HIDE DEF u, x, v
<1>3. /\ u \in Worlds /\ Good(x, rs) /\ x.fig = w.fig /\ x.eis = u.eis /\ u.fig = w.fig
      /\ x.guard = w.guard /\ u.guard = w.guard /\ x.fight = [u.fight EXCEPT ![i] = n]
      /\ x.fight[i] = n /\ \A j \in Fights \ {i} : x.fight[j] = w.fight[j]
  BY <1>2, FightBegins DEF u, x
<1>4. Own(x, n) = {}
  <2>1. Timed(x, n, x.guard[n].ev) /\ ~x.guard[n].ev
    BY <1>3 DEF Good, GoodFor, Scenery
  <2> QED BY <2>1 DEF Timed
<1>5. /\ Good(v, rs) /\ v.fig = x.fig /\ v.eis = x.eis /\ v.fight = x.fight
      /\ v.guard = [x.guard EXCEPT ![n] = NoGuard] /\ v.guard[n] = NoGuard
      /\ \A m \in Gates \ {n} : v.guard[m] = x.guard[m]
  BY <1>3, <1>4, GuardSet DEF v
<1>6. [w.guard[n] EXCEPT !.waits = FALSE] = NoGuard
  <2>1. w.guard[n] \in Guards
    BY <1>2, Fields
  <2> QED BY <2>1, GuardLeaves
<1>7. v \in Worlds
  BY <1>5 DEF Good, GoodFor, Scenery
<1>8. /\ StopOnRoads(v, n, Nowhere) = Put(s, v.fight, v.guard)
      /\ s.fight = u.fight /\ s.guard = u.guard
  <2>1. u.fig = v.fig /\ u.eis = v.eis
    BY <1>3, <1>5
  <2> QED BY <1>3, <1>7, <2>1, StopSame
<1> HIDE DEF s
<1>9. t = StopOnRoads(v, n, Nowhere)
  <2>1. s.guard[n] = w.guard[n] /\ s.guard = x.guard
    BY <1>3, <1>8
  <2>2. [s.guard EXCEPT ![n] = [s.guard[n] EXCEPT !.waits = FALSE]] = v.guard
    BY <1>5, <1>6, <2>1
  <2>3. [s.fight EXCEPT ![i] = n] = v.fight
    BY <1>3, <1>5, <1>8
  <2> QED BY <1>1, <1>8, <2>2, <2>3 DEF Put
<1>10. ~IsRoadNodeForFigures(v, n)
  BY <1>3, <1>5 DEF IsRoadNodeForFigures
<1>11. \A k \in Nodes \ {n} : IsRoadNodeForFigures(v, k) <=> IsRoadNodeForFigures(w, k)
  BY <1>3, <1>5, RoadsAssumption DEF IsRoadNodeForFigures
<1> QED BY <1>2, <1>3, <1>5, <1>9, <1>10, <1>11, Blocks

(* The attacker at a flag waits, blocks, and goes. *)
AllWaits == [waits |-> TRUE, ev |-> TRUE]
AllBlocks == [waits |-> TRUE, ev |-> FALSE]

LEMMA GuardWaits ==
  ASSUME NEW w, NEW rs, Good(w, rs), NEW n \in Gates, ~w.guard[n].waits,
         NEW t, t = WaitForDefender(w, n)
  PROVE  /\ Good(t, rs) /\ t.fig = w.fig /\ t.fight = w.fight
         /\ \A m \in Gates \ {n} : t.guard[m] = w.guard[m]
         /\ \A k \in Nodes : IsRoadNodeForFigures(t, k) <=> IsRoadNodeForFigures(w, k)
<1> DEFINE u == WithGuard(w, n, AllWaits)
<1>1. /\ w \in Worlds /\ n \in Objects /\ Own(w, n) = {} /\ n \notin Fights
      /\ AllWaits \in Guards /\ AllWaits.waits /\ AllWaits.ev
  BY RoadsAssumption DEF Good, GoodFor, Scenery, Timed, Objects, AllWaits, Guards
<1>2. t = AddEvent(u, n, 0, BlockTime)
  BY DEF WaitForDefender, WithGuard, AllWaits
<1> HIDE DEF u
<1>3. /\ Touches(w, u, n) /\ u.fight = w.fight /\ u.guard[n] = AllWaits /\ Own(u, n) = {}
      /\ u \in Worlds
  <2>1. w \in Worlds /\ n \in Gates /\ AllWaits \in Guards /\ u = WithGuard(w, n, AllWaits)
    BY <1>1 DEF u
  <2>2. /\ Touches(w, u, n) /\ u.fight = w.fight /\ u.guard[n] = AllWaits /\ Own(u, n) = Own(w, n)
    BY ONLY <2>1, SetGuard
  <2> QED BY <1>1, <2>2 DEF Touches
<1>4. Touches(u, t, n) /\ t.fight = u.fight /\ t.guard = u.guard /\ OneEvent(t, n)
  BY <1>1, <1>2, <1>3, TurnBegins DEF Began
<1>5. Touches(w, t, n)
  BY <1>3, <1>4, TouchesAgain
<1>6. (t.guard[n].ev => t.guard[n].waits) /\ Timed(t, n, t.guard[n].ev)
  BY <1>1, <1>3, <1>4 DEF Timed
<1>7. Good(t, rs)
  BY <1>1, <1>5, <1>6, TouchesGood
<1>8. t.guard[n].waits /\ t.guard[n].ev /\ t.fight = w.fight
  BY <1>1, <1>3, <1>4
<1>9. t.fig = w.fig /\ \A m \in Gates \ {n} : t.guard[m] = w.guard[m]
  BY <1>5 DEF Touches
<1>10. \A k \in Nodes : IsRoadNodeForFigures(t, k) <=> IsRoadNodeForFigures(w, k)
  BY <1>8, <1>9 DEF IsRoadNodeForFigures
<1> QED BY <1>7, <1>8, <1>9, <1>10

LEMMA GuardStays ==
  ASSUME NEW g \in Guards, g.waits
  PROVE  [g EXCEPT !.ev = FALSE] = AllBlocks
<1>1. PICK a \in BOOLEAN, b \in BOOLEAN : g = [waits |-> a, ev |-> b]
  BY DEF Guards
<1>2. a = TRUE
  BY <1>1
<1> DEFINE h == [g EXCEPT !.ev = FALSE]
<1>3. h \in Guards /\ h.waits = g.waits /\ h.ev = FALSE
  BY DEF Guards
<1> HIDE DEF h
<1>4. PICK c \in BOOLEAN, d \in BOOLEAN : h = [waits |-> c, ev |-> d]
  BY <1>3 DEF Guards
<1>5. c = TRUE /\ d = FALSE
  BY <1>1, <1>2, <1>3, <1>4
<1> QED BY <1>4, <1>5 DEF AllBlocks, h

LEMMA AttackerStands ==
  ASSUME NEW w, NEW rs, Good(w, rs), Clear(w), NEW n \in Gates,
         NEW e \in w.eis, e.obj = n, e.elapsed = e.length,
         NEW t, t = [StopOnRoads(Handled(w, n), n, Nowhere) EXCEPT !.guard[n].ev = FALSE]
  PROVE  Good(t, rs) /\ Clear(t) /\ (Flows(w, {}) => Flows(t, {}))
<1> DEFINE u == Handled(w, n)
           v == WithGuard(u, n, AllBlocks)
           s == StopOnRoads(u, n, Nowhere)
<1>1. t = [s EXCEPT !.guard = [s.guard EXCEPT ![n] = [s.guard[n] EXCEPT !.ev = FALSE]]]
  OBVIOUS
<1>2. /\ w \in Worlds /\ n \in Objects /\ n \in Nodes /\ n \notin Fights
      /\ AllBlocks \in Guards /\ AllBlocks.waits /\ ~AllBlocks.ev
  BY RoadsAssumption DEF Good, GoodFor, Scenery, Objects, AllBlocks, Guards
<1>3. Own(w, n) = {e} /\ w.guard[n].ev /\ w.guard[n].waits
  BY DueIs
<1>4. u = Handled(w, n)
  OBVIOUS
<1> HIDE DEF u
<1>5. Touches(w, u, n) /\ u.fight = w.fight /\ u.guard = w.guard /\ Own(u, n) = {}
  BY <1>2, <1>3, <1>4, HandledIs
<1>6. u \in Worlds /\ u.fig = w.fig
  BY <1>5 DEF Touches
<1>7. v = WithGuard(u, n, AllBlocks)
  OBVIOUS
<1> HIDE DEF v
<1>8. /\ Touches(u, v, n) /\ v.fight = u.fight /\ v.eis = u.eis /\ v.guard[n] = AllBlocks
      /\ Own(v, n) = {}
  BY <1>2, <1>5, <1>6, <1>7, SetGuard
<1>17. v.guard = [u.guard EXCEPT ![n] = AllBlocks]
  BY <1>6, <1>7 DEF WithGuard, Worlds
<1>9. Touches(w, v, n) /\ v \in Worlds /\ v.fig = w.fig
  BY <1>5, <1>8, TouchesAgain DEF Touches
<1>10. (v.guard[n].ev => v.guard[n].waits) /\ Timed(v, n, v.guard[n].ev)
  BY <1>2, <1>8 DEF Timed
<1>11. Good(v, rs)
  BY <1>2, <1>9, <1>10, TouchesGood
<1>12. [w.guard[n] EXCEPT !.ev = FALSE] = AllBlocks
  <2>1. w.guard[n] \in Guards
    BY <1>2, Fields
  <2> QED BY <1>3, <2>1, GuardStays
<1>13. /\ StopOnRoads(v, n, Nowhere) = PutGuard(s, v.guard) /\ s.guard = u.guard
  BY <1>6, <1>8, <1>9, StopSame
<1> HIDE DEF s
<1>14. t = StopOnRoads(v, n, Nowhere)
  <2>1. s.guard[n] = w.guard[n] /\ s.guard = u.guard
    BY <1>5, <1>13
  <2>2. [s.guard EXCEPT ![n] = [s.guard[n] EXCEPT !.ev = FALSE]] = v.guard
    BY <1>12, <1>17, <2>1
  <2> QED BY <1>1, <1>13, <2>2 DEF PutGuard
<1>15. ~IsRoadNodeForFigures(v, n)
  BY <1>2, <1>8 DEF IsRoadNodeForFigures
<1>16. \A k \in Nodes \ {n} : IsRoadNodeForFigures(v, k) <=> IsRoadNodeForFigures(w, k)
  BY <1>5, <1>8, <1>9 DEF IsRoadNodeForFigures, Touches
<1> QED
  <2>1. v.fig = w.fig /\ n \in Nodes
    BY <1>2, <1>9
  <2> QED BY ONLY <1>11, <1>14, <1>15, <1>16, <2>1, Good(w, rs), Clear(w), Blocks

LEMMA AttackerLeaves ==
  ASSUME NEW w, NEW rs, Good(w, rs), Clear(w), NEW n \in Gates,
         NEW t, t = RoadNodeAvailable(RemoveEvent([w EXCEPT !.guard[n] = NoGuard], n), n)
  PROVE  Good(t, rs) /\ Clear(t) /\ (Flows(w, {}) => Flows(t, {}))
<1> DEFINE u == WithGuard(w, n, NoGuard)
           v == RemoveEvent(u, n)
<1>1. /\ w \in Worlds /\ n \in Objects /\ n \notin Fights
      /\ NoGuard \in Guards /\ ~NoGuard.waits /\ ~NoGuard.ev
  BY RoadsAssumption DEF Good, GoodFor, Scenery, Objects, NoGuard, Guards
<1>2. t = RoadNodeAvailable(v, n) /\ u = WithGuard(w, n, NoGuard)
  BY DEF WithGuard
<1> HIDE DEF u
<1>3. /\ Touches(w, u, n) /\ u.fight = w.fight /\ u.guard[n] = NoGuard
  <2>1. w \in Worlds /\ n \in Gates /\ NoGuard \in Guards /\ u = WithGuard(w, n, NoGuard)
    BY <1>1, <1>2
  <2> QED BY ONLY <2>1, SetGuard
<1>4. u \in Worlds /\ v = RemoveEvent(u, n)
  BY <1>3 DEF Touches
<1> HIDE DEF v
<1>5. Touches(u, v, n) /\ v.fight = u.fight /\ v.guard = u.guard /\ Own(v, n) = {}
  BY <1>1, <1>4, RemoveIs
<1>6. Touches(w, v, n)
  BY <1>3, <1>5, TouchesAgain
<1>7. (v.guard[n].ev => v.guard[n].waits) /\ Timed(v, n, v.guard[n].ev)
  BY <1>1, <1>3, <1>5 DEF Timed
<1>8. Good(v, rs)
  BY <1>1, <1>6, <1>7, TouchesGood
<1>9. ~v.guard[n].waits /\ v.fight = w.fight /\ v.fig = w.fig
      /\ \A m \in Gates \ {n} : v.guard[m] = w.guard[m]
  BY <1>1, <1>3, <1>5, <1>6 DEF Touches
<1>10. /\ \A k \in Nodes : IsRoadNodeForFigures(w, k) => IsRoadNodeForFigures(v, k)
       /\ \A k \in Nodes \ {n} : IsRoadNodeForFigures(v, k) <=> IsRoadNodeForFigures(w, k)
  BY <1>9 DEF IsRoadNodeForFigures
<1> QED BY <1>2, <1>8, <1>9, <1>10, Frees

(* A fight goes on, or is over. *)
LEMMA FightHandled ==
  ASSUME NEW w, NEW rs, Good(w, rs), NEW i \in Fights,
         NEW e \in w.eis, e.obj = i, e.elapsed = e.length, NEW v, v = Handled(w, i)
  PROVE  /\ Touches(w, v, i) /\ v.fight = w.fight /\ v.guard = w.guard /\ Own(v, i) = {}
         /\ v \in Worlds /\ i \in Objects /\ i \notin Gates /\ w.fight[i] # Nowhere
<1>1. Own(w, i) = {e} /\ i \in Objects /\ w.fight[i] # Nowhere /\ w \in Worlds
  BY DueIs DEF Good, GoodFor, Scenery
<1>2. Touches(w, v, i) /\ v.fight = w.fight /\ v.guard = w.guard /\ Own(v, i) = {}
  BY <1>1, HandledIs
<1> QED BY <1>1, <1>2, RoadsAssumption DEF Touches

LEMMA FightGoesOn ==
  ASSUME NEW w, NEW rs, Good(w, rs), Clear(w), NEW i \in Fights,
         NEW e \in w.eis, e.obj = i, e.elapsed = e.length,
         NEW t, t = AddEvent(Handled(w, i), i, 0, FightTime)
  PROVE  Good(t, rs) /\ Clear(t) /\ (Flows(w, {}) => Flows(t, {}))
<1> DEFINE v == Handled(w, i)
<1>1. t = AddEvent(v, i, 0, FightTime) /\ v = Handled(w, i)
  OBVIOUS
<1> HIDE DEF v
<1>2. /\ Touches(w, v, i) /\ v.fight = w.fight /\ v.guard = w.guard /\ Own(v, i) = {}
      /\ v \in Worlds /\ i \in Objects /\ i \notin Gates /\ w.fight[i] # Nowhere
  BY <1>1, FightHandled
<1>3. Touches(v, t, i) /\ t.fight = v.fight /\ t.guard = v.guard /\ OneEvent(t, i)
  BY <1>1, <1>2, TurnBegins DEF Began
<1>4. Touches(w, t, i)
  BY <1>2, <1>3, TouchesAgain
<1>5. Timed(t, i, t.fight[i] # Nowhere)
  BY <1>2, <1>3 DEF Timed
<1>6. Good(t, rs)
  BY <1>2, <1>4, <1>5, TouchesGood
<1>7. t.fig = w.fig /\ \A k \in Nodes : IsRoadNodeForFigures(t, k) <=> IsRoadNodeForFigures(w, k)
  BY <1>2, <1>3, <1>4, NodesSame DEF Touches
<1> QED BY <1>6, <1>7, Leaves

LEMMA FightIsOver ==
  ASSUME NEW w, NEW rs, Good(w, rs), NEW i \in Fights,
         NEW e \in w.eis, e.obj = i, e.elapsed = e.length,
         NEW v, v = WithFight(Handled(w, i), i, Nowhere)
  PROVE  /\ Good(v, rs) /\ v.fig = w.fig /\ v.guard = w.guard
         /\ \A k \in Nodes : IsRoadNodeForFigures(w, k) => IsRoadNodeForFigures(v, k)
         /\ \A k \in Nodes \ {w.fight[i]} :
              IsRoadNodeForFigures(v, k) <=> IsRoadNodeForFigures(w, k)
<1> DEFINE u == Handled(w, i)
<1>1. u = Handled(w, i) /\ v = WithFight(u, i, Nowhere)
  OBVIOUS
<1> HIDE DEF u
<1>2. /\ Touches(w, u, i) /\ u.fight = w.fight /\ u.guard = w.guard /\ Own(u, i) = {}
      /\ u \in Worlds /\ i \in Objects /\ i \notin Gates /\ w.fight[i] # Nowhere
  BY <1>1, FightHandled
<1>3. /\ Touches(u, v, i) /\ v.guard = u.guard /\ v.fight[i] = Nowhere /\ Own(v, i) = {}
  <2>1. Nowhere \in Places
    BY DEF Places
  <2> QED BY <1>1, <1>2, <2>1, SetFight
<1>4. Touches(w, v, i)
  BY <1>2, <1>3, TouchesAgain
<1>5. Timed(v, i, v.fight[i] # Nowhere)
  BY <1>3 DEF Timed
<1>6. Good(v, rs)
  BY <1>2, <1>4, <1>5, TouchesGood
<1>7. /\ v.fig = w.fig /\ v.guard = w.guard /\ \A j \in Fights \ {i} : v.fight[j] = w.fight[j]
  BY <1>2, <1>3, <1>4 DEF Touches
<1>8. /\ \A k \in Nodes : IsRoadNodeForFigures(w, k) => IsRoadNodeForFigures(v, k)
      /\ \A k \in Nodes \ {w.fight[i]} : IsRoadNodeForFigures(v, k) <=> IsRoadNodeForFigures(w, k)
  BY <1>3, <1>7, RoadsAssumption DEF IsRoadNodeForFigures
<1> QED BY <1>6, <1>7, <1>8

LEMMA FightEnds ==
  ASSUME NEW w, NEW rs, Good(w, rs), Clear(w), NEW i \in Fights,
         NEW e \in w.eis, e.obj = i, e.elapsed = e.length,
         NEW v, v = WithFight(Handled(w, i), i, Nowhere),
         NEW t, \/ t = RoadNodeAvailable(v, w.fight[i])
                \/ /\ w.fight[i] \in Gates /\ ~w.guard[w.fight[i]].waits
                   /\ t = RoadNodeAvailable(WaitForDefender(v, w.fight[i]), w.fight[i])
  PROVE  Good(t, rs) /\ Clear(t) /\ (Flows(w, {}) => Flows(t, {}))
<1> DEFINE n == w.fight[i]
<1>1. /\ Good(v, rs) /\ v.fig = w.fig /\ v.guard = w.guard
      /\ \A k \in Nodes : IsRoadNodeForFigures(w, k) => IsRoadNodeForFigures(v, k)
      /\ \A k \in Nodes \ {n} : IsRoadNodeForFigures(v, k) <=> IsRoadNodeForFigures(w, k)
  BY FightIsOver
<1>2. CASE t = RoadNodeAvailable(v, n)
  <2> HIDE DEF n
  <2> QED BY ONLY <1>1, <1>2, Good(w, rs), Clear(w), Frees
<1>3. CASE n \in Gates /\ ~w.guard[n].waits /\ t = RoadNodeAvailable(WaitForDefender(v, n), n)
  <2> DEFINE u == WaitForDefender(v, n)
  <2>1. t = RoadNodeAvailable(u, n) /\ u = WaitForDefender(v, n) /\ n \in Gates /\ ~v.guard[n].waits
    BY <1>1, <1>3
  <2> HIDE DEF n, u
  <2>2. /\ Good(u, rs) /\ u.fig = v.fig
        /\ \A k \in Nodes : IsRoadNodeForFigures(u, k) <=> IsRoadNodeForFigures(v, k)
    BY ONLY <1>1, <2>1, GuardWaits
  <2>3. /\ u.fig = w.fig
        /\ \A k \in Nodes : IsRoadNodeForFigures(w, k) => IsRoadNodeForFigures(u, k)
        /\ \A k \in Nodes \ {n} : IsRoadNodeForFigures(u, k) <=> IsRoadNodeForFigures(w, k)
    BY <1>1, <2>2
  <2> QED BY ONLY <2>1, <2>2, <2>3, Good(w, rs), Clear(w), Frees
<1> QED BY <1>2, <1>3

-----------------------------------------------------------------------------
(* Time. *)
Later(e) == [e EXCEPT !.elapsed = @ + 1]
Further(x) == IF x.ev THEN [x EXCEPT !.walked = @ + 1] ELSE x

LEMMA LaterIs ==
  ASSUME NEW e \in Events
  PROVE  /\ Later(e) \in Events /\ Later(e).obj = e.obj /\ Later(e).length = e.length
         /\ Later(e).elapsed = e.elapsed + 1
BY DEF Later, Events

LEMMA FurtherIs ==
  ASSUME NEW x \in Fig
  PROVE  LET y == Further(x) IN
           /\ y \in Fig /\ y.at = x.at /\ y.to = x.to /\ y.road = x.road /\ y.ev = x.ev
           /\ y.waiting = x.waiting /\ y.paused = x.paused /\ y.plen = x.plen
           /\ y.walked = IF x.ev THEN x.walked + 1 ELSE x.walked
           /\ ~x.ev => y = x
<1>1. CASE x.ev
  <2> DEFINE y == [x EXCEPT !.walked = x.walked + 1]
  <2>1. x.walked + 1 \in Nat
    BY FigFields
  <2>2. /\ y \in Fig /\ y.at = x.at /\ y.to = x.to /\ y.road = x.road /\ y.ev = x.ev
        /\ y.waiting = x.waiting /\ y.paused = x.paused /\ y.plen = x.plen
        /\ y.walked = x.walked + 1
    BY <2>1 DEF Fig
  <2>3. Further(x) = y
    BY <1>1 DEF Further
  <2> HIDE DEF y
  <2> QED BY <1>1, <2>2, <2>3
<1>2. CASE ~x.ev
  BY <1>2 DEF Further
<1> QED BY <1>1, <1>2

LEMMA TickEvents ==
  ASSUME NEW w \in Worlds, NEW t, t.eis = {Later(e) : e \in w.eis}, NEW o
  PROVE  /\ t.eis \in SUBSET Events /\ Own(t, o) = {Later(e) : e \in Own(w, o)}
<1>1. w.eis \in SUBSET Events
  BY Fields
<1>2. t.eis \in SUBSET Events
  BY <1>1, LaterIs
<1>3. \A e \in w.eis : Later(e).obj = e.obj
  BY <1>1, LaterIs
<1>4. Own(t, o) = {Later(e) : e \in Own(w, o)}
  BY <1>3 DEF Own
<1> QED BY <1>2, <1>4

LEMMA TickTimed ==
  ASSUME NEW w \in Worlds, NEW t, t.eis = {Later(e) : e \in w.eis}, NEW o,
         \A e \in w.eis : e.elapsed # e.length, NEW on, Timed(w, o, on)
  PROVE  Timed(t, o, on)
<1>1. Own(t, o) = {Later(e) : e \in Own(w, o)}
  BY TickEvents
<1>2. CASE ~on
  BY <1>1, <1>2 DEF Timed
<1>3. CASE on
  <2>1. PICK e \in Events : Own(w, o) = {e} /\ e.elapsed <= e.length
    BY <1>3 DEF Timed, OneEvent
  <2>2. e \in w.eis /\ e.elapsed # e.length
    BY <2>1 DEF Own
  <2>3. e.elapsed \in Nat /\ e.length \in Nat
    BY <2>1 DEF Events
  <2>4. Own(t, o) = {Later(e)}
    BY <1>1, <2>1
  <2>5. Later(e) \in Events /\ Later(e).elapsed = e.elapsed + 1 /\ Later(e).length = e.length
    BY <2>1, LaterIs
  <2>6. Later(e).elapsed <= Later(e).length
    BY <2>1, <2>2, <2>3, <2>5
  <2> QED BY <1>3, <2>4, <2>5, <2>6 DEF Timed, OneEvent
<1> QED BY <1>2, <1>3

LEMMA TickWorks ==
  ASSUME NEW w, NEW rs, Good(w, rs), Clear(w), \A e \in w.eis : e.elapsed # e.length,
         NEW t, t = [fig |-> [f \in Figures |-> Further(w.fig[f])], fight |-> w.fight,
                     guard |-> w.guard, eis |-> {Later(e) : e \in w.eis}]
  PROVE  Good(t, rs) /\ Clear(t) /\ (Flows(w, {}) => Flows(t, {}))
<1>1. w \in Worlds /\ rs \in SUBSET Roads /\ Scenery(w)
  BY DEF Good, GoodFor, Scenery
<1>2. /\ t.fig = [f \in Figures |-> Further(w.fig[f])] /\ t.fight = w.fight /\ t.guard = w.guard
      /\ t.eis = {Later(e) : e \in w.eis}
  OBVIOUS
<1>3. \A f \in Figures :
        LET x == w.fig[f]  y == t.fig[f] IN
           /\ x \in Fig /\ y \in Fig /\ y.at = x.at /\ y.to = x.to /\ y.road = x.road /\ y.ev = x.ev
           /\ y.waiting = x.waiting /\ y.paused = x.paused /\ y.plen = x.plen
           /\ y.walked = IF x.ev THEN x.walked + 1 ELSE x.walked
           /\ ~x.ev => y = x
  BY <1>1, <1>2, Fields, FurtherIs
<1>4. t \in Worlds
  <2>1. t.fig \in [Figures -> Fig]
    BY <1>2, <1>3
  <2>2. t.eis \in SUBSET Events
    BY <1>1, <1>2, TickEvents
  <2>3. w.fight \in [Fights -> Places] /\ w.guard \in [Gates -> Guards]
    BY <1>1, Fields
  <2> DEFINE F == [f \in Figures |-> Further(w.fig[f])]
             S == {Later(e) : e \in w.eis}
  <2>4. F \in [Figures -> Fig] /\ S \in SUBSET Events
    BY <1>2, <2>1, <2>2
  <2>5. t = [fig |-> F, fight |-> w.fight, guard |-> w.guard, eis |-> S]
    OBVIOUS
  <2> HIDE DEF F, S
  <2> QED BY <2>3, <2>4, <2>5 DEF Worlds
<1>5. ASSUME NEW f \in Figures PROVE FigOK(t, f, rs)
  <2> DEFINE x == w.fig[f]
             y == t.fig[f]
  <2>1. FigOK(w, f, rs)
    BY DEF Good, GoodFor
  <2>2. Own(t, f) = {Later(e) : e \in Own(w, f)}
    BY <1>1, <1>2, TickEvents
  <2>3. CASE Away(w, f)
    BY <1>3, <2>2, <2>3, OffIs DEF FigOK, Away
  <2>4. CASE OnEdge(x, rs) /\ Stands(w, f)
    <3>1. y = x /\ Own(t, f) = {}
      BY <1>3, <2>2, <2>4 DEF Stands
    <3> QED BY <2>4, <3>1 DEF FigOK, Stands
  <2>5. CASE OnEdge(x, rs) /\ Walks(w, f)
    <3>1. Time(x) \in Nat /\ x.walked \in Nat
      BY <1>1, <1>3, <2>5, EdgeNodes, FigFields DEF OnEdge, Time
    <3>2. Own(w, f) = {Event(f, x.walked, Time(x))}
      BY <2>5 DEF Walks
    <3>3. x.walked # Time(x) /\ x.walked <= Time(x) /\ x.ev
      <4>1. Event(f, x.walked, Time(x)) \in w.eis
        BY <3>2 DEF Own
      <4> QED BY <2>5, <4>1, EventFields DEF Walks
    <3>4. y.walked = x.walked + 1 /\ Time(y) = Time(x)
      BY <1>3, <3>3 DEF Time
    <3>5. Later(Event(f, x.walked, Time(x))) = Event(f, y.walked, Time(y))
      BY <3>4 DEF Later, Event
    <3>6. Own(t, f) = {Event(f, y.walked, Time(y))}
      BY <2>2, <3>2, <3>5
    <3>7. y.walked <= Time(y)
      BY <3>1, <3>3, <3>4
    <3>8. Walks(t, f) /\ OnEdge(y, rs)
      BY <1>3, <2>5, <3>6, <3>7 DEF Walks, OnEdge
    <3> QED BY <3>8 DEF FigOK
  <2> QED BY <2>1, <2>3, <2>4, <2>5 DEF FigOK
<1>6. Scenery(t)
  <2>1. \A n \in Gates : (t.guard[n].ev => t.guard[n].waits) /\ Timed(t, n, t.guard[n].ev)
    BY <1>1, <1>2, TickTimed DEF Scenery
  <2>2. \A i \in Fights : Timed(t, i, t.fight[i] # Nowhere)
    BY <1>1, <1>2, TickTimed DEF Scenery
  <2> QED BY <1>4, <2>1, <2>2 DEF Scenery
<1>7. Good(t, rs)
  BY <1>1, <1>5, <1>6 DEF Good, GoodFor
<1>8. \A k : IsRoadNodeForFigures(t, k) <=> IsRoadNodeForFigures(w, k)
  BY <1>2, NodesSame
<1>9. Clear(t)
  BY <1>3, <1>8 DEF Clear
<1>10. ASSUME Flows(w, {}) PROVE Flows(t, {})
  <2>1. \A f \in Figures : /\ t.fig[f].waiting <=> w.fig[f].waiting
                           /\ w.fig[f].waiting => /\ t.fig[f].at = w.fig[f].at
                                                  /\ t.fig[f].to = w.fig[f].to
    BY <1>3
  <2>2. \A k \in Nodes : ~IsRoadNodeForFigures(w, k) => ~IsRoadNodeForFigures(t, k) \/ k \in {}
    BY <1>8
  <2> QED BY ONLY <1>10, <2>1, <2>2, Good(w, rs), FlowsSame
<1> QED BY <1>7, <1>9, <1>10

-----------------------------------------------------------------------------
(* The invariant, and who may wait. *)
IInv == Good(World, roads) /\ Clear(World)
Told == Flows(World, {})

LEMMA Become ==
  ASSUME NEW t \in Worlds, Becomes(t)
  PROVE  World' = t
BY DEF Becomes, World, Worlds

LEMMA WorldIs ==
  World.fig = fig /\ World.fight = fight /\ World.guard = guard /\ World.eis = eis
BY DEF World

LEMMA Outcome ==
  ASSUME NEW t, Becomes(t), Good(t, roads'), Clear(t)
  PROVE  IInv' /\ World' = t
<1>1. t \in Worlds
  BY DEF Good, GoodFor, Scenery
<1>2. World' = t
  BY <1>1, Become
<1> QED BY <1>2 DEF IInv

LEMMA InitOK ==
  ASSUME Init
  PROVE  IInv /\ Told
<1>1. /\ fig = [f \in Figures |-> Off] /\ fight = [i \in Fights |-> Nowhere]
      /\ guard = [n \in Gates |-> NoGuard] /\ eis = {} /\ roads = Roads
  BY DEF Init
<1>2. NoGuard \in Guards /\ ~NoGuard.ev
  BY DEF NoGuard, Guards
<1>3. World \in Worlds
  <2>1. /\ fig \in [Figures -> Fig] /\ fight \in [Fights -> Places] /\ guard \in [Gates -> Guards]
        /\ eis \in SUBSET Events
    BY <1>1, <1>2, OffIs DEF Places
  <2> QED BY <2>1 DEF World, Worlds
<1>4. \A o : Own(World, o) = {}
  BY <1>1, WorldIs DEF Own
<1>5. \A f \in Figures : World.fig[f] = Off
  BY <1>1, WorldIs
<1>6. \A f \in Figures : FigOK(World, f, roads)
  BY <1>4, <1>5 DEF FigOK, Away
<1>7. Scenery(World)
  <2>1. \A n \in Gates : ~World.guard[n].ev
    BY <1>1, <1>2, WorldIs
  <2>2. \A i \in Fights : World.fight[i] = Nowhere
    BY <1>1, WorldIs
  <2> QED BY <1>3, <1>4, <2>1, <2>2 DEF Scenery, Timed
<1>8. Good(World, roads)
  BY <1>1, <1>6, <1>7 DEF Good, GoodFor
<1>9. \A f \in Figures : ~World.fig[f].ev /\ ~World.fig[f].waiting
  BY <1>5, OffIs
<1>10. Clear(World) /\ Told
  BY <1>9 DEF Clear, Told, Flows
<1> QED BY <1>8, <1>10 DEF IInv

-----------------------------------------------------------------------------
(* The actions, each for what it does to all objects. *)
Fine(w, t) == Flows(w, {}) => Flows(t, {})

LEMMA Done ==
  ASSUME IInv, NEW t, Becomes(t), Good(t, roads') /\ Clear(t), Fine(World, t)
  PROVE  IInv' /\ (Told => Told')
<1>1. IInv' /\ World' = t
  BY Outcome
<1>2. Told => Told'
  BY <1>1 DEF Told, Fine
<1> QED BY <1>1, <1>2

LEMMA DueEvent ==
  ASSUME NEW o, Due(o)
  PROVE  \E e \in World.eis : e.obj = o /\ e.elapsed = e.length
BY WorldIs DEF Due

LEMMA SetOffOK ==
  ASSUME IInv, NEW f \in Figures, SetOff(f)
  PROVE  IInv' /\ (Told => Told')
<1>1. PICK r \in roads : \E e \in Edges(r) :
        Becomes(StartWalking(At(World, f, e[1], r), f, e[2]))
  BY DEF SetOff
<1> DEFINE W(e) == StartWalking(At(World, f, e[1], r), f, e[2])
<1>2. PICK n, m : <<n, m>> \in Edges(r) /\ Becomes(W(<<n, m>>))
  BY <1>1 DEF Edges
<1> DEFINE t == StartWalking(At(World, f, n, r), f, m)
<1>3. Becomes(t)
  BY <1>2
<1> HIDE DEF W
<1>4. World.fig[f].road = Nowhere /\ Good(World, roads) /\ Clear(World) /\ roads' = roads
  BY WorldIs DEF SetOff, IInv
<1>5. Good(t, roads) /\ Clear(t) /\ Fine(World, t)
  BY <1>2, <1>4, SetsOff DEF Fine
<1> HIDE DEF t
<1> QED BY <1>3, <1>4, <1>5, Done

LEMMA WalkedOK ==
  ASSUME IInv, NEW f \in Figures, Walked(f)
  PROVE  IInv' /\ (Told => Told')
<1> DEFINE v == Handled(At(World, f, World.fig[f].to, World.fig[f].road), f)
<1>1. Good(World, roads) /\ Clear(World) /\ roads' = roads /\ World.fig = fig
  BY WorldIs DEF Walked, IInv
<1>2. PICK e \in World.eis : e.obj = f /\ e.elapsed = e.length
  BY DueEvent DEF Walked
<1>3. Arrived(World, f, v)
  BY <1>1, <1>2, Arrives
<1>4. \/ \E s \in NextSteps(f, fig[f].to) : Becomes(StartWalking(OnRoad(v, f, s[1]), f, s[2]))
      \/ Becomes(LeavesRoads(v, {f}))
  BY <1>1 DEF Walked
<1> HIDE DEF v
<1>5. CASE Becomes(LeavesRoads(v, {f}))
  <2>1. Good(LeavesRoads(v, {f}), roads) /\ Clear(LeavesRoads(v, {f})) /\ Fine(World, LeavesRoads(v, {f}))
    BY <1>1, <1>3, IsThere DEF Fine
  <2> QED BY <1>1, <1>5, <2>1, Done
<1>6. ASSUME NEW s \in NextSteps(f, fig[f].to),
             Becomes(StartWalking(OnRoad(v, f, s[1]), f, s[2]))
      PROVE  IInv' /\ (Told => Told')
  <2>1. PICK r \in roads, m \in Nodes : s = <<r, m>> /\ <<World.fig[f].to, m>> \in Edges(r)
    BY <1>1 DEF NextSteps
  <2> DEFINE t == StartWalking(OnRoad(v, f, r), f, m)
  <2>2. Becomes(t)
    BY <1>6, <2>1
  <2>3. Good(t, roads) /\ Clear(t) /\ Fine(World, t)
    BY <1>1, <1>3, <2>1, GoesOn DEF Fine
  <2> HIDE DEF t
  <2> QED BY <1>1, <2>2, <2>3, Done
<1> QED BY <1>4, <1>5, <1>6

(* Who finds no warehouse does not tell those behind him. *)
LEMMA LostWorkOK ==
  ASSUME IInv, NEW f \in Figures, LostWork(f)
  PROVE  IInv' /\ (f \notin Homeless /\ Told => Told')
<1>1. Good(World, roads) /\ Clear(World) /\ roads' = roads
  BY DEF LostWork, IInv
<1>2. PICK home \in {TRUE} \cup {f \notin Homeless} :
        Becomes(IF home THEN GoHome(World, f) ELSE StartWandering(World, f))
  BY DEF LostWork
<1>3. CASE home
  <2>1. Becomes(GoHome(World, f))
    BY <1>2, <1>3
  <2>2. Good(GoHome(World, f), roads) /\ Clear(GoHome(World, f)) /\ Fine(World, GoHome(World, f))
    BY <1>1, GoesHome DEF Fine
  <2> QED BY <1>1, <2>1, <2>2, Done
<1>4. CASE ~home
  <2>1. Becomes(StartWandering(World, f)) /\ f \in Homeless
    BY <1>2, <1>4
  <2>2. Good(StartWandering(World, f), roads) /\ Clear(StartWandering(World, f))
    BY <1>1, Wanders
  <2> QED BY <1>1, <2>1, <2>2, Outcome
<1> QED BY <1>3, <1>4

LEMMA DestroyRoadOK ==
  ASSUME IInv, NEW r, DestroyRoad(r)
  PROVE  IInv' /\ (Told => Told')
<1> DEFINE t == RoadNodesAvailable(LeavesRoads(World, {f \in Figures : World.fig[f].road = r}),
                                   ToSet(Route[r]))
<1>1. Good(World, roads) /\ Clear(World) /\ r \in roads /\ roads' = roads \ {r} /\ Becomes(t)
  BY WorldIs DEF DestroyRoad, IInv
<1>2. Good(t, roads \ {r}) /\ Clear(t) /\ Fine(World, t)
  BY <1>1, RoadGone DEF Fine
<1> HIDE DEF t
<1> QED BY <1>1, <1>2, Done

LEMMA BuildRoadOK ==
  ASSUME IInv, NEW r \in Fragile, BuildRoad(r)
  PROVE  IInv' /\ (Told => Told')
<1>1. Good(World, roads) /\ Clear(World) /\ roads' = roads \cup {r} /\ World' = World
  BY DEF BuildRoad, IInv, World
<1>2. roads \in SUBSET Roads /\ r \in Roads
  BY <1>1, RoadsAssumption DEF Good, GoodFor
<1>3. \A f \in Figures : FigOK(World, f, roads \cup {r})
  BY <1>1, FigMore DEF Good, GoodFor
<1>4. Good(World, roads \cup {r})
  BY <1>1, <1>2, <1>3 DEF Good, GoodFor
<1> QED BY <1>1, <1>4 DEF IInv, Told

LEMMA FightStartsOK ==
  ASSUME IInv, NEW i \in Fights, NEW n \in Nodes, FightStarts(i, n)
  PROVE  IInv' /\ (Told => Told')
<1> DEFINE t == [StopOnRoads(AddEvent(World, i, 0, FightTime), n, Nowhere) EXCEPT !.fight[i] = n]
<1>1. Good(World, roads) /\ Clear(World) /\ roads' = roads /\ Becomes(t) /\ World.fight[i] = Nowhere
  BY WorldIs DEF FightStarts, IInv
<1>2. Good(t, roads) /\ Clear(t) /\ Fine(World, t)
  BY <1>1, SoldiersMeet DEF Fine
<1> HIDE DEF t
<1> QED BY <1>1, <1>2, Done

LEMMA DefenderComesOK ==
  ASSUME IInv, NEW i \in Fights, NEW n \in Gates, DefenderComes(i, n)
  PROVE  IInv' /\ (Told => Told')
<1> DEFINE t == Meets(StopOnRoads(AddEvent(World, i, 0, FightTime), n, Nowhere), i, n)
<1>1. /\ Good(World, roads) /\ Clear(World) /\ roads' = roads /\ Becomes(t)
      /\ World.fight[i] = Nowhere /\ World.guard[n].waits /\ ~World.guard[n].ev
  BY WorldIs DEF DefenderComes, IsWaiting, IInv, Meets
<1>2. Good(t, roads) /\ Clear(t) /\ Fine(World, t)
  BY <1>1, DefenderMeets DEF Fine
<1> HIDE DEF t
<1> QED BY <1>1, <1>2, Done

LEMMA FightTurnOK ==
  ASSUME IInv, NEW i \in Fights, FightTurn(i)
  PROVE  IInv' /\ (Told => Told')
<1> DEFINE v == WithFight(Handled(World, i), i, Nowhere)
           n == World.fight[i]
           s == AddEvent(Handled(World, i), i, 0, FightTime)
<1>1. Good(World, roads) /\ Clear(World) /\ roads' = roads /\ World.guard = guard /\ World.fight = fight
  BY WorldIs DEF FightTurn, IInv
<1>2. PICK e \in World.eis : e.obj = i /\ e.elapsed = e.length
  BY DueEvent DEF FightTurn
<1>3. \/ Becomes(s)
      \/ Becomes(RoadNodeAvailable(v, n))
      \/ /\ n \in Gates /\ ~World.guard[n].waits
         /\ Becomes(RoadNodeAvailable(WaitForDefender(v, n), n))
  BY <1>1 DEF FightTurn, WithFight
<1>4. v = WithFight(Handled(World, i), i, Nowhere)
  OBVIOUS
<1>5. Good(s, roads) /\ Clear(s) /\ Fine(World, s)
  BY <1>1, <1>2, FightGoesOn DEF Fine
<1> HIDE DEF v, s
<1>6. CASE Becomes(s)
  BY <1>1, <1>5, <1>6, Done
<1>7. ASSUME NEW t, Becomes(t),
             \/ t = RoadNodeAvailable(v, n)
             \/ /\ n \in Gates /\ ~World.guard[n].waits
                /\ t = RoadNodeAvailable(WaitForDefender(v, n), n)
      PROVE  IInv' /\ (Told => Told')
  <2>1. Good(t, roads) /\ Clear(t) /\ Fine(World, t)
    BY <1>1, <1>2, <1>4, <1>7, FightEnds DEF Fine
  <2> QED BY <1>1, <1>7, <2>1, Done
<1> QED BY <1>3, <1>6, <1>7

LEMMA AttackerComesOK ==
  ASSUME IInv, NEW n \in Gates, AttackerComes(n)
  PROVE  IInv' /\ (Told => Told')
<1> DEFINE t == WaitForDefender(World, n)
<1>1. Good(World, roads) /\ Clear(World) /\ roads' = roads /\ Becomes(t) /\ ~World.guard[n].waits
  BY WorldIs DEF AttackerComes, IInv
<1>2. /\ Good(t, roads) /\ t.fig = World.fig
      /\ \A k \in Nodes : IsRoadNodeForFigures(t, k) <=> IsRoadNodeForFigures(World, k)
  BY <1>1, GuardWaits
<1> HIDE DEF t
<1>3. Clear(t) /\ Fine(World, t)
  BY <1>1, <1>2, Leaves DEF Fine
<1> QED BY <1>1, <1>2, <1>3, Done

LEMMA AttackerBlocksOK ==
  ASSUME IInv, NEW n \in Gates, AttackerBlocks(n)
  PROVE  IInv' /\ (Told => Told')
<1> DEFINE t == [StopOnRoads(Handled(World, n), n, Nowhere) EXCEPT !.guard[n].ev = FALSE]
<1>1. Good(World, roads) /\ Clear(World) /\ roads' = roads /\ Becomes(t)
  BY DEF AttackerBlocks, IInv
<1>2. PICK e \in World.eis : e.obj = n /\ e.elapsed = e.length
  BY DueEvent DEF AttackerBlocks
<1>3. Good(t, roads) /\ Clear(t) /\ Fine(World, t)
  BY <1>1, <1>2, AttackerStands DEF Fine
<1> HIDE DEF t
<1> QED BY <1>1, <1>3, Done

LEMMA GoalDestroyedOK ==
  ASSUME IInv, NEW n \in Gates, GoalDestroyed(n)
  PROVE  IInv' /\ (Told => Told')
<1> DEFINE t == RoadNodeAvailable(RemoveEvent([World EXCEPT !.guard[n] = NoGuard], n), n)
<1>1. Good(World, roads) /\ Clear(World) /\ roads' = roads /\ Becomes(t)
  BY DEF GoalDestroyed, IInv
<1>2. Good(t, roads) /\ Clear(t) /\ Fine(World, t)
  BY <1>1, AttackerLeaves DEF Fine
<1> HIDE DEF t
<1> QED BY <1>1, <1>2, Done

LEMMA NextGFOK ==
  ASSUME IInv, NextGF
  PROVE  IInv' /\ (Told => Told')
<1> DEFINE t == [fig |-> [f \in Figures |-> Further(World.fig[f])], fight |-> World.fight,
                 guard |-> World.guard, eis |-> {Later(e) : e \in World.eis}]
<1>1. /\ Good(World, roads) /\ Clear(World) /\ roads' = roads
      /\ \A e \in World.eis : e.elapsed # e.length
  BY WorldIs DEF NextGF, IInv
<1>2. World' = t
  <2>1. eis' = {Later(e) : e \in World.eis}
    BY WorldIs DEF NextGF, Later
  <2>2. fig' = [f \in Figures |-> Further(World.fig[f])]
    BY WorldIs DEF NextGF, Further
  <2>3. fight' = World.fight /\ guard' = World.guard
    BY WorldIs DEF NextGF
  <2> QED BY <2>1, <2>2, <2>3 DEF World
<1>3. Good(t, roads) /\ Clear(t) /\ Fine(World, t)
  BY <1>1, TickWorks DEF Fine
<1> HIDE DEF t
<1> QED BY <1>1, <1>2, <1>3 DEF IInv, Told, Fine

(* Every step keeps the invariant; and those who wait are told, if whoever *)
(* loses his work has a home to go to.                                     *)
LEMMA StepOK ==
  ASSUME IInv, [Next]_vars
  PROVE  IInv' /\ (Homeless = {} /\ Told => Told')
<1>1. CASE NextGF
  BY <1>1, NextGFOK
<1>2. ASSUME NEW f \in Figures, SetOff(f) \/ Walked(f) \/ LostWork(f)
      PROVE  IInv' /\ (Homeless = {} /\ Told => Told')
  <2>1. CASE SetOff(f)
    BY <2>1, SetOffOK
  <2>2. CASE Walked(f)
    BY <2>2, WalkedOK
  <2>3. CASE LostWork(f)
    BY <2>3, LostWorkOK
  <2> QED BY <1>2, <2>1, <2>2, <2>3
<1>3. ASSUME NEW r \in Fragile, DestroyRoad(r) \/ BuildRoad(r)
      PROVE  IInv' /\ (Told => Told')
  <2>1. CASE DestroyRoad(r)
    BY <2>1, DestroyRoadOK
  <2>2. CASE BuildRoad(r)
    BY <2>2, BuildRoadOK
  <2> QED BY <1>3, <2>1, <2>2
<1>4. ASSUME NEW i \in Fights, FightTurn(i) \/ \E n \in Nodes : FightStarts(i, n)
      PROVE  IInv' /\ (Told => Told')
  <2>1. CASE FightTurn(i)
    BY <2>1, FightTurnOK
  <2>2. ASSUME NEW n \in Nodes, FightStarts(i, n) PROVE IInv' /\ (Told => Told')
    BY <2>2, FightStartsOK
  <2> QED BY <1>4, <2>1, <2>2
<1>5. ASSUME NEW n \in Gates, \/ AttackerComes(n) \/ AttackerBlocks(n) \/ GoalDestroyed(n)
                              \/ \E i \in Fights : DefenderComes(i, n)
      PROVE  IInv' /\ (Told => Told')
  <2>1. CASE AttackerComes(n)
    BY <2>1, AttackerComesOK
  <2>2. CASE AttackerBlocks(n)
    BY <2>2, AttackerBlocksOK
  <2>3. CASE GoalDestroyed(n)
    BY <2>3, GoalDestroyedOK
  <2>4. ASSUME NEW i \in Fights, DefenderComes(i, n) PROVE IInv' /\ (Told => Told')
    BY <2>4, DefenderComesOK
  <2> QED BY <1>5, <2>1, <2>2, <2>3, <2>4
<1>6. CASE UNCHANGED vars
  <2>1. World' = World /\ roads' = roads
    BY <1>6 DEF vars, World
  <2> QED BY <2>1 DEF IInv, Told
<1> QED BY <1>1, <1>2, <1>3, <1>4, <1>5, <1>6 DEF Next

LEMMA Always ==
  Spec => []IInv
<1>1. Init => IInv
  BY InitOK
<1>2. IInv /\ [Next]_vars => IInv'
  BY StepOK
<1> QED BY <1>1, <1>2, PTL DEF Spec

(* What the invariant says of a figure, of an event and of a figure's events. *)
LEMMA FigIs ==
  ASSUME IInv, NEW f \in Figures
  PROVE  /\ fig[f] \in Fig /\ roads \subseteq Roads
         /\ \/ fig[f] = Off /\ Own(World, f) = {}
            \/ /\ fig[f].road \in roads /\ <<fig[f].at, fig[f].to>> \in Edges(fig[f].road)
               /\ Steps[<<fig[f].at, fig[f].to>>] \in Nat
               /\ \/ /\ fig[f].ev /\ ~fig[f].waiting /\ fig[f].paused = 0
                     /\ fig[f].walked <= Steps[<<fig[f].at, fig[f].to>>]
                     /\ Own(World, f) = {Event(f, fig[f].walked, Steps[<<fig[f].at, fig[f].to>>])}
                  \/ /\ ~fig[f].ev /\ fig[f].waiting /\ fig[f].walked = fig[f].paused
                     /\ fig[f].paused <= fig[f].plen /\ Own(World, f) = {}
<1>1. /\ World.fig[f] = fig[f] /\ World \in Worlds /\ FigOK(World, f, roads) /\ roads \in SUBSET Roads
  BY WorldIs DEF IInv, Good, GoodFor, Scenery
<1>2. fig[f] \in Fig
  BY <1>1, Fields
<1>3. CASE Away(World, f)
  BY <1>1, <1>2, <1>3 DEF Away
<1>4. CASE OnEdge(fig[f], roads) /\ (Walks(World, f) \/ Stands(World, f))
  <2>1. Steps[<<fig[f].at, fig[f].to>>] \in Nat
    BY <1>1, <1>4, EdgeNodes DEF OnEdge
  <2> QED BY <1>1, <1>2, <1>4, <2>1 DEF OnEdge, Walks, Stands, Halted, Time
<1> QED BY <1>1, <1>3, <1>4 DEF FigOK

LEMMA EventIs ==
  ASSUME IInv, NEW e \in eis
  PROVE  e.obj \in Objects /\ e.elapsed \in 0..e.length
<1>1. World \in Worlds /\ World.eis = eis
  BY WorldIs DEF IInv, Good, GoodFor, Scenery
<1>2. e \in Events /\ e.obj \in Objects /\ e.elapsed \in Nat /\ e.length \in Nat
  BY <1>1, Fields DEF Events
<1>3. e \in Own(World, e.obj)
  BY <1>1 DEF Own
<1>4. CASE e.obj \in Figures
  <2>1. PICK f \in Figures : e.obj = f
    BY <1>4
  <2>2. Own(World, f) = {Event(f, fig[f].walked, Steps[<<fig[f].at, fig[f].to>>])}
        /\ fig[f].walked <= Steps[<<fig[f].at, fig[f].to>>]
    BY <1>3, <2>1, FigIs
  <2>3. e = Event(f, fig[f].walked, Steps[<<fig[f].at, fig[f].to>>])
    BY <1>3, <2>1, <2>2
  <2>4. e.elapsed <= e.length
    BY <2>2, <2>3, EventFields
  <2> QED BY <1>2, <2>4
<1>5. CASE e.obj \in Fights \cup Gates
  <2>1. OneEvent(World, e.obj)
    BY <1>3, <1>5 DEF IInv, Good, GoodFor, Scenery, Timed
  <2>2. e.elapsed <= e.length
    BY <1>3, <2>1 DEF OneEvent
  <2> QED BY <1>2, <2>2
<1> QED BY <1>2, <1>4, <1>5 DEF Objects

LEMMA TypesOK ==
  ASSUME IInv
  PROVE  TypeOK
<1>1. World \in Worlds /\ roads \subseteq Roads
  BY DEF IInv, Good, GoodFor, Scenery
<1>2. fight \in [Fights -> Nodes \cup {Nowhere}] /\ guard \in [Gates -> [waits : BOOLEAN, ev : BOOLEAN]]
  BY <1>1, Fields, WorldIs DEF Places, Guards
<1>3. \A e \in eis : e.obj \in Figures \cup Fights \cup Gates /\ e.elapsed \in 0..e.length
  BY EventIs DEF Objects
<1>4. ASSUME NEW f \in Figures
      PROVE  \/ fig[f] = Off
             \/ /\ fig[f].road \in roads /\ <<fig[f].at, fig[f].to>> \in Edges(fig[f].road)
                /\ fig[f].ev # fig[f].waiting /\ fig[f].paused \in 0..fig[f].plen
  <2>1. fig[f].paused \in Nat /\ fig[f].plen \in Nat /\ fig[f].ev \in BOOLEAN /\ fig[f].waiting \in BOOLEAN
    BY FigIs, FigFields
  <2>2. CASE fig[f] # Off
    <3>1. fig[f].road \in roads /\ <<fig[f].at, fig[f].to>> \in Edges(fig[f].road)
      BY <2>2, FigIs
    <3>2. fig[f].ev <=> ~fig[f].waiting
      BY <2>2, FigIs
    <3>3. fig[f].paused <= fig[f].plen
      <4>1. fig[f].paused = 0 \/ fig[f].paused <= fig[f].plen
        BY <2>2, FigIs
      <4> QED BY <2>1, <4>1
    <3>4. fig[f].ev # fig[f].waiting
      BY <2>1, <3>2
    <3> QED BY <2>1, <3>1, <3>3, <3>4
  <2> QED BY <2>2
<1> QED BY <1>1, <1>2, <1>3, <1>4 DEF TypeOK

-----------------------------------------------------------------------------
(* The theorems.  Events are those of who walks, of the fights and of the *)
(* attackers who wait: nobody has two, and none is left of who was        *)
(* stopped, went home or left the road.                                   *)
THEOREM EventsAreKnown == Spec => []EventsKnown
<1>1. ASSUME IInv PROVE EventsKnown
  <2>1. \A o : {e \in eis : e.obj = o} = Own(World, o)
    BY WorldIs DEF Own
  <2>2. ASSUME NEW f \in Figures
        PROVE  Cardinality({e \in eis : e.obj = f}) = IF fig[f].ev THEN 1 ELSE 0
    <3>1. CASE fig[f].ev
      <4>1. PICK e : Own(World, f) = {e}
        BY <1>1, <3>1, FigIs, OffIs
      <4> QED BY <2>1, <3>1, <4>1, FS_Singleton
    <3>2. CASE ~fig[f].ev
      <4>1. Own(World, f) = {}
        BY <1>1, <3>2, FigIs
      <4> QED BY <2>1, <3>2, <4>1, FS_EmptySet
    <3> QED BY <3>1, <3>2
  <2>3. ASSUME NEW n \in Gates PROVE guard[n].ev <=> \E e \in eis : e.obj = n
    <3>1. Timed(World, n, guard[n].ev)
      BY <1>1, WorldIs DEF IInv, Good, GoodFor, Scenery
    <3> QED BY <3>1, WorldIs DEF Timed, OneEvent, Own
  <2>4. ASSUME NEW i \in Fights PROVE fight[i] # Nowhere <=> \E e \in eis : e.obj = i
    <3>1. Timed(World, i, fight[i] # Nowhere)
      BY <1>1, WorldIs DEF IInv, Good, GoodFor, Scenery
    <3> QED BY <3>1, WorldIs DEF Timed, OneEvent, Own
  <2> QED BY <1>1, <2>2, <2>3, <2>4, TypesOK DEF EventsKnown
<1> QED BY <1>1, Always, PTL

(* A figure that is stopped on its way has walked as much of its step when it *)
(* goes on, however often.                                                    *)
THEOREM ProgressIsKept == Spec => []KeepsItsProgress
<1>1. ASSUME IInv PROVE KeepsItsProgress
  <2> SUFFICES ASSUME NEW f \in Figures
               PROVE  /\ fig[f].waiting => fig[f].walked = fig[f].paused
                      /\ \A e \in eis : e.obj = f =>
                           e.elapsed = fig[f].walked /\ e.length = Steps[<<fig[f].at, fig[f].to>>]
    BY DEF KeepsItsProgress
  <2>1. fig[f].waiting => fig[f].walked = fig[f].paused
    BY <1>1, FigIs, OffIs
  <2>2. ASSUME NEW e \in eis, e.obj = f
        PROVE  e.elapsed = fig[f].walked /\ e.length = Steps[<<fig[f].at, fig[f].to>>]
    <3>1. e \in Own(World, f)
      BY <2>2, WorldIs DEF Own
    <3>2. e = Event(f, fig[f].walked, Steps[<<fig[f].at, fig[f].to>>])
      BY <1>1, <3>1, FigIs
    <3> QED BY <3>2, EventFields
  <2> QED BY <2>1, <2>2
<1> QED BY <1>1, Always, PTL

(* Nobody walks to a node where soldiers fight or an attacker has waited. *)
THEOREM FightsAreAvoided == Spec => []NobodyWalksIntoAFight
<1>1. ASSUME IInv PROVE NobodyWalksIntoAFight
  BY <1>1, WorldIs DEF IInv, Clear, NobodyWalksIntoAFight
<1> QED BY <1>1, Always, PTL

(* If there is always a warehouse to go to, no figures wait only for each *)
(* other: the figure in front, or the end of a fight, tells them to go on. *)
THEOREM NobodyIsJammed ==
  ASSUME Homeless = {}
  PROVE  Spec => []NoJam
<1>1. Init => IInv /\ Told
  BY InitOK
<1>2. (IInv /\ Told) /\ [Next]_vars => (IInv /\ Told)'
  BY StepOK
<1>3. ASSUME Told PROVE NoJam
  BY <1>3, WorldIs DEF Told, Flows, Reason, NoJam
<1> QED BY <1>1, <1>2, <1>3, PTL DEF Spec
=============================================================================
