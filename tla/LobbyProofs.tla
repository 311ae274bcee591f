---------------------------- MODULE LobbyProofs ----------------------------
(***************************************************************************)
(* Proofs about Lobby, for any number of slots, clients and colours and    *)
(* any order of joining, leaving and choosing: that the search for a free  *)
(* colour ends and no two players have the same colour, and then that a    *)
(* client for which nothing is on its way has the server's list, and that  *)
(* all start from the same one.                                            *)
(*                                                                         *)
(* The proof about the lists looks ahead: a client's view is what it has   *)
(* of the list, its own number and the settings; each message under way    *)
(* leads to another view, and the last one is what the server has.  Only a *)
(* client's own choice makes an exception, until the server's answer has   *)
(* come.                                                                   *)
(***************************************************************************)
EXTENDS Lobby, FiniteSetTheorems, WellFoundedInduction, TLAPS

-----------------------------------------------------------------------------
(* The search for a free colour. *)

(* A set of numbers has a least one. *)
LEMMA Least ==
  ASSUME NEW S, S \subseteq Nat, S # {}
  PROVE  \E x \in S : \A y \in S : x <= y
<1> DEFINE R == {ss \in Nat \X Nat : ss[1] < ss[2]}
<1>1. IsWellFoundedOn(R, Nat)
  BY NatLessThanWellFounded, Zenon DEF OpToRel
<1>2. \E x \in S : \A y \in S : <<y, x>> \notin R
  <2> HIDE DEF R
  <2> QED BY <1>1, WFMin, Zenon
<1>3. PICK x \in S : \A y \in S : <<y, x>> \notin R
  BY <1>2
<1>4. \A y \in S : ~(y < x)
  <2> SUFFICES ASSUME NEW y \in S, y < x PROVE FALSE
    OBVIOUS
  <2> QED BY <1>3
<1> QED BY <1>4

Painters(L) == L \in [Slots -> Slot]

(* The other players leave a colour over. *)
LEMMA ColorLeft ==
  ASSUME NEW L, Painters(L), NEW p \in Slots
  PROVE  Colors \ Taken(L, p) # {}
<1> USE LobbyAssumption
<1> DEFINE Others == Slots \ {p}
           f == [q \in Others |-> L[q].color]
           T == {f[q] : q \in Others}
<1>1. IsFiniteSet(Slots) /\ Cardinality(Slots) = N
  BY FS_Interval DEF Slots
<1>2. IsFiniteSet(Others) /\ Cardinality(Others) = N - 1
  BY <1>1, FS_RemoveElement
<1>3. IsFiniteSet(T) /\ Cardinality(T) <= N - 1
  <2>1. f \in Surjection(Others, T)
    BY DEF Surjection
  <2> HIDE DEF Others, f, T
  <2> QED BY <1>2, <2>1, FS_Surjection
<1>4. IsFiniteSet(Colors) /\ Cardinality(Colors) = NumColors
  BY FS_Interval DEF Colors
<1>5. ~ Colors \subseteq T
  <2> SUFFICES ASSUME Colors \subseteq T PROVE FALSE
    OBVIOUS
  <2> HIDE DEF T
  <2>1. Cardinality(Colors) <= Cardinality(T)
    BY <1>3, FS_Subset, Zenon
  <2>2. Cardinality(T) \in Nat
    BY <1>3, FS_CardinalityType, Zenon
  <2> QED BY <1>3, <1>4, <2>1, <2>2
<1>6. Taken(L, p) \subseteq T
  BY DEF Taken, Plays
<1> QED BY <1>5, <1>6

(* The search ends: it finds a colour which is nobody else's. *)
LEMMA ColorFound ==
  ASSUME NEW L, Painters(L), NEW p \in Slots
  PROVE  NextColor(L, p) \in Colors \ Taken(L, p)
<1> USE LobbyAssumption
<1> DEFINE C == Colors \ Taken(L, p)
           x0 == L[p].color
           S == {Steps(x0, x) : x \in C}
<1>1. x0 \in Colors
  BY DEF Painters, Slot
<1>2. \A x \in C : Steps(x0, x) \in Nat
  BY <1>1 DEF Colors, Steps
<1>3. C # {}
  BY ColorLeft
<1>4. \E x \in C : \A y \in C : Steps(x0, x) <= Steps(x0, y)
  <2> HIDE DEF C, x0
  <2>1. S \subseteq Nat /\ S # {}
    BY <1>2, <1>3
  <2>2. PICK n \in S : \A m \in S : n <= m
    BY <2>1, Least
  <2> QED BY <2>2
<1> QED BY <1>4 DEF NextColor

-----------------------------------------------------------------------------
(* What is true of the slots all the time: also in a saved game no colour  *)
(* has to be looked for, since those who have left keep theirs.            *)
Fine(S, saved) ==
  /\ Painters(S) /\ ColorsDiffer(S)
  /\ saved => PastColorsDiffer(S)

(* Every change of a slot keeps it so. *)
LEMMA FineSlot ==
  ASSUME NEW S, NEW saved \in BOOLEAN, Fine(S, saved), NEW p \in Slots, NEW s \in Slot,
         s.color = S[p].color,
         saved => s.kind = "locked" \/ S[p].kind # "locked",
         \/ s.kind \notin {"occupied"} \cup AIs
         \/ S[p].kind \in {"occupied"} \cup AIs
         \/ saved \/ s.color \notin Taken(S, p)
  PROVE  Fine([S EXCEPT ![p] = s], saved)
<1> DEFINE T == [S EXCEPT ![p] = s]
<1>1. Painters(T)
  BY DEF Fine, Painters
<1>2. T[p] = s /\ \A q \in Slots \ {p} : T[q] = S[q]
  BY DEF Fine, Painters
<1>3. saved => PastColorsDiffer(T)
  <2> HIDE DEF T
  <2> QED BY <1>2 DEF Fine, PastColorsDiffer
<1>4. ColorsDiffer(T)
  <2> SUFFICES ASSUME NEW q \in Plays(T), NEW r \in Plays(T), q # r
               PROVE  T[q].color # T[r].color
    BY DEF ColorsDiffer
  <2> HIDE DEF T
  <2>1. q \in Slots /\ r \in Slots
    BY DEF Plays
  <2>2. CASE saved
    <3>1. T[q].kind # "locked" /\ T[r].kind # "locked"
      BY DEF Plays, AIs
    <3> QED BY <1>3, <2>1, <2>2, <3>1 DEF PastColorsDiffer
  <2>3. CASE S[p].kind \in {"occupied"} \cup AIs
    <3>1. q \in Plays(S) /\ r \in Plays(S)
      BY <1>2, <2>1, <2>3 DEF Plays
    <3>2. S[q].color # S[r].color
      BY <3>1 DEF Fine, ColorsDiffer
    <3> QED BY <1>2, <2>1, <3>2
  <2>4. CASE s.kind \notin {"occupied"} \cup AIs
    <3>1. q # p /\ r # p
      BY <1>2, <2>4 DEF Plays
    <3>2. q \in Plays(S) /\ r \in Plays(S)
      BY <1>2, <2>1, <3>1 DEF Plays
    <3> QED BY <1>2, <2>1, <3>1, <3>2 DEF Fine, ColorsDiffer
  <2>5. CASE s.color \notin Taken(S, p)
    <3>1. \A x \in Plays(T) : x # p => x \in Plays(S)
      BY <1>2 DEF Plays
    <3>2. \A x \in Plays(T) : x # p => S[x].color \in Taken(S, p) /\ T[x] = S[x]
      BY <1>2, <3>1 DEF Taken, Plays
    <3> QED BY <1>2, <2>5, <3>1, <3>2 DEF Fine, ColorsDiffer
  <2> QED BY <2>2, <2>3, <2>4, <2>5
<1> QED BY <1>1, <1>3, <1>4 DEF Fine

OthersDiffer(L, p) == \A q, r \in Plays(L) \ {p} : q # r => L[q].color # L[r].color

(* So does the search, which may be begun with a colour somebody has. *)
LEMMA FinePainted ==
  ASSUME NEW S, Painters(S), NEW p \in Slots, OthersDiffer(S, p)
  PROVE  Fine(Painted(S, p), FALSE)
<1> DEFINE x == NextColor(S, p)
           T == Painted(S, p)
<1>1. x \in Colors \ Taken(S, p)
  BY ColorFound
<1>2. /\ T[p] = [S[p] EXCEPT !.color = x]
      /\ \A q \in Slots \ {p} : T[q] = S[q]
      /\ T \in [Slots -> Slot]
  <2> HIDE DEF x
  <2>1. [S[p] EXCEPT !.color = x] \in Slot
    BY <1>1 DEF Painters, Slot
  <2>2. T = [S EXCEPT ![p] = [S[p] EXCEPT !.color = x]]
    BY DEF Painted, x, Painters
  <2> QED BY <2>1, <2>2 DEF Painters
<1>3. T[p].color = x /\ T[p].kind = S[p].kind
  BY <1>2 DEF Painters, Slot
<1>4. ColorsDiffer(T)
  <2> SUFFICES ASSUME NEW q \in Plays(T), NEW r \in Plays(T), q # r
               PROVE  T[q].color # T[r].color
    BY DEF ColorsDiffer
  <2> HIDE DEF T, x
  <2>1. \A y \in Plays(T) : y \in Plays(S) /\ y \in Slots
    BY <1>2, <1>3 DEF Plays
  <2>2. \A y \in Plays(T) : y # p => S[y].color \in Taken(S, p) /\ T[y] = S[y]
    BY <1>2, <2>1 DEF Taken
  <2> QED BY <1>1, <1>3, <2>1, <2>2 DEF OthersDiffer
<1> QED BY <1>2, <1>4 DEF Fine, Painters

-----------------------------------------------------------------------------
(* The invariant.  Who has a socket is in a slot somebody is joining or    *)
(* plays in; in a saved game nobody asks for a team or a colour.           *)
Asked(saved) == IF saved THEN {m \in Request : m.type = "ready"} ELSE Request

Served(S, C) == \A p \in Slots : C[p] # Nobody => S[p].kind \in {"reserved", "occupied"}

Inv ==
  /\ savegame \in BOOLEAN
  /\ Fine(slot, savegame)
  /\ conn \in [Slots -> Clients \cup {Nobody}] /\ Served(slot, conn)
  /\ up \in [Clients -> Seq(Asked(savegame))]

LEMMA InitInv == Init => Inv
<1> SUFFICES ASSUME Init PROVE Inv
  OBVIOUS
<1> USE LobbyAssumption
<1>1. PICK o \in Openings : slot = o.slot /\ conn = o.conn /\ savegame = o.savegame
  BY DEF Init
<1>2. /\ o.slot \in [Slots -> Slot] /\ o.savegame \in BOOLEAN
      /\ o.conn \in [Slots -> Clients \cup {Nobody}]
  OBVIOUS
<1>3. ColorsDiffer(o.slot) /\ (o.savegame => PastColorsDiffer(o.slot))
  OBVIOUS
<1>4. Served(slot, conn)
  <2>1. \A p \in Slots : o.slot[p].kind = "occupied" <=> o.conn[p] # Nobody
    OBVIOUS
  <2> QED BY <1>1, <2>1 DEF Served
<1>5. up \in [Clients -> Seq(Asked(savegame))]
  BY DEF Init
<1> QED BY <1>1, <1>2, <1>3, <1>4, <1>5 DEF Inv, Fine, Painters

(* What leaves the slots as they are. *)
LEMMA OnlyAsks ==
  ASSUME Inv, UNCHANGED <<slot, conn, savegame>>, up' \in [Clients -> Seq(Asked(savegame))]
  PROVE  Inv'
BY DEF Inv, Fine

(* What changes them only. *)
LEMMA SlotsOnly ==
  ASSUME Inv, UNCHANGED <<conn, up, savegame>>, Fine(slot', savegame), Served(slot', conn)
  PROVE  Inv'
BY DEF Inv, Fine

LEMMA Tuples ==
  ASSUME NEW S, NEW a \in S, NEW b \in S
  PROVE  <<>> \in Seq(S) /\ <<a>> \in Seq(S) /\ <<a, b>> \in Seq(S)
OBVIOUS

LEMMA AskStep ==
  ASSUME NEW c \in Clients, NEW ms \in Seq(Asked(savegame)), Inv, Ask(c, ms),
         UNCHANGED <<slot, conn, savegame>>
  PROVE  Inv'
<1>1. up[c] \o ms \in Seq(Asked(savegame))
  BY DEF Inv
<1>2. up' \in [Clients -> Seq(Asked(savegame))]
  BY <1>1 DEF Inv, Ask
<1> QED BY <1>2, OnlyAsks

LEMMA ReadyAsked ==
  ASSUME NEW c, NEW b \in BOOLEAN
  PROVE  ReadyMsg(c, b) \in Asked(savegame)
<1>1. Ready(c, b) \in BOOLEAN
  BY DEF Ready
<1>2. ReadyMsg(c, b) \in Request /\ ReadyMsg(c, b).type = "ready"
  BY <1>1 DEF ReadyMsg, Request
<1> QED BY <1>2 DEF Asked

(* The clients. *)
LEMMA ClientInv ==
  ASSUME Inv, UNCHANGED savegame, NEW c \in Clients, Client(c)
  PROVE  Inv'
<1>0. ReadyMsg(c, FALSE) \in Asked(savegame)
  <2>1. FALSE \in BOOLEAN
    OBVIOUS
  <2> QED BY <2>1, ReadyAsked, Zenon
<1>1. CASE ReadList(c)
  <2>1. <<ReadyMsg(c, FALSE)>> \in Seq(Asked(savegame))
    BY <1>0, Tuples, Zenon
  <2>2. Ask(c, <<ReadyMsg(c, FALSE)>>) /\ UNCHANGED <<slot, conn>>
    BY <1>1 DEF ReadList, serverVars
  <2> QED BY <2>1, <2>2, AskStep
<1>2. CASE ReadSettings(c)
  <2>1. <<ReadyMsg(c, FALSE)>> \in Seq(Asked(savegame))
    BY <1>0, Tuples, Zenon
  <2>2. /\ Ask(c, <<ReadyMsg(c, FALSE)>>) \/ UNCHANGED up
        /\ UNCHANGED <<slot, conn>>
    BY <1>2 DEF ReadSettings, serverVars
  <2>3. CASE UNCHANGED up
    BY <2>2, <2>3, OnlyAsks DEF Inv
  <2> QED BY <2>1, <2>2, <2>3, AskStep
<1>3. CASE ReadUpdate(c) \/ ReadSwap(c) \/ ReadStart(c)
  <2>1. UNCHANGED <<slot, conn, up>>
    BY <1>3 DEF ReadUpdate, ReadSwap, ReadStart, serverVars
  <2> QED BY <2>1, OnlyAsks DEF Inv
<1>4. CASE \E b \in BOOLEAN : ChooseReady(c, b)
  <2>1. PICK b \in BOOLEAN : ChooseReady(c, b)
    BY <1>4
  <2>2. <<ReadyMsg(c, b)>> \in Seq(Asked(savegame))
    BY ReadyAsked
  <2>3. Ask(c, <<ReadyMsg(c, b)>>) /\ UNCHANGED <<slot, conn>>
    BY <2>1 DEF ChooseReady, serverVars
  <2> QED BY <2>2, <2>3, AskStep
<1>5. CASE \E t \in Teams : ChooseTeam(c, t)
  <2>1. PICK t \in Teams : ChooseTeam(c, t)
    BY <1>5
  <2>2. [type |-> "team", team |-> t] \in Asked(savegame)
    BY <2>1 DEF Asked, Request, ChooseTeam
  <2>3. <<ReadyMsg(c, FALSE), [type |-> "team", team |-> t]>> \in Seq(Asked(savegame))
    BY <1>0, <2>2, Tuples, Zenon
  <2>4. /\ Ask(c, <<ReadyMsg(c, FALSE), [type |-> "team", team |-> t]>>)
        /\ UNCHANGED <<slot, conn>>
    BY <2>1 DEF ChooseTeam, serverVars
  <2> QED BY <2>3, <2>4, AskStep
<1>6. CASE ChooseColor(c)
  <2>1. [type |-> "color"] \in Asked(savegame)
    BY <1>6 DEF Asked, Request, ChooseColor
  <2>2. <<ReadyMsg(c, FALSE), [type |-> "color"]>> \in Seq(Asked(savegame))
    BY <1>0, <2>1, Tuples, Zenon
  <2>3. /\ Ask(c, <<ReadyMsg(c, FALSE), [type |-> "color"]>>)
        /\ UNCHANGED <<slot, conn>>
    BY <1>6 DEF ChooseColor, serverVars
  <2> QED BY <2>2, <2>3, AskStep
<1> QED BY <1>1, <1>2, <1>3, <1>4, <1>5, <1>6 DEF Client

(* The connections. *)
LEMMA ReserveInv ==
  ASSUME Inv, UNCHANGED savegame, NEW c \in Clients, Reserve(c)
  PROVE  Inv'
<1> DEFINE free == {p \in Slots : slot[p].kind = "free"}
<1>1. UNCHANGED up
  BY DEF Reserve
<1>2. CASE free = {}
  BY <1>1, <1>2, OnlyAsks DEF Reserve, Inv
<1>3. CASE free # {}
  <2>1. PICK p \in free :
          /\ slot' = [slot EXCEPT ![p] = [Cleared(@) EXCEPT !.kind = "reserved"]]
          /\ conn' = [conn EXCEPT ![p] = c]
    BY <1>3 DEF Reserve
  <2> DEFINE s == [Cleared(slot[p]) EXCEPT !.kind = "reserved"]
  <2>2. p \in Slots /\ slot[p].kind = "free"
    OBVIOUS
  <2>3. s \in Slot /\ s.color = slot[p].color /\ s.kind = "reserved"
    BY <2>2 DEF Cleared, Inv, Fine, Painters, Slot, Kinds
  <2>4. slot' = [slot EXCEPT ![p] = s]
    BY <2>1 DEF Inv, Fine, Painters
  <2> HIDE DEF s
  <2>5. Fine(slot', savegame)
    BY <2>2, <2>3, <2>4, FineSlot DEF Inv, AIs
  <2>6. Served(slot', conn')
    BY <2>1, <2>2, <2>3, <2>4 DEF Inv, Fine, Painters, Served
  <2>7. conn' \in [Slots -> Clients \cup {Nobody}]
    BY <2>1 DEF Inv
  <2> QED BY <1>1, <2>5, <2>6, <2>7 DEF Inv
<1> QED BY <1>2, <1>3

LEMMA RemovedInv ==
  ASSUME Inv, UNCHANGED savegame, NEW p \in Slots, Removed(p),
         slot[p].kind \in {"reserved", "occupied"}
  PROVE  Inv'
<1> DEFINE s == Cleared(slot[p])
<1>1. s \in Slot /\ s.color = slot[p].color /\ s.kind = "free"
  BY DEF Cleared, Inv, Fine, Painters, Slot, Kinds
<1>2. slot' = [slot EXCEPT ![p] = s] /\ conn' = [conn EXCEPT ![p] = Nobody]
  BY DEF Removed, Inv, Fine, Painters
<1> HIDE DEF s
<1>3. Fine(slot', savegame)
  BY <1>1, <1>2, FineSlot DEF Inv, AIs
<1>4. Served(slot', conn')
  BY <1>1, <1>2 DEF Inv, Fine, Painters, Served
<1>5. conn' \in [Slots -> Clients \cup {Nobody}]
  BY <1>2 DEF Inv
<1>6. up' \in [Clients -> Seq(Asked(savegame))]
  <2> DEFINE A == Asked(savegame)
  <2>1. <<>> \in Seq(A) /\ up \in [Clients -> Seq(A)]
    BY DEF Inv
  <2>2. up' = [up EXCEPT ![conn[p]] = <<>>]
    BY DEF Removed
  <2> HIDE DEF A
  <2>3. up' \in [Clients -> Seq(A)]
    BY <2>1, <2>2
  <2> QED BY <2>3 DEF A
<1> QED BY <1>3, <1>4, <1>5, <1>6 DEF Inv

LEMMA JoinInv ==
  ASSUME Inv, UNCHANGED savegame, NEW p \in Slots, Join(p)
  PROVE  Inv'
<1> DEFINE s == [slot[p] EXCEPT !.kind = "occupied"]
           S == [slot EXCEPT ![p] = s]
<1>1. UNCHANGED <<conn, up>> /\ slot[p].kind = "reserved"
  BY DEF Join, clientVars
<1>2. slot' = IF S[p].color \in Taken(S, p) THEN Painted(S, p) ELSE S
  <2>1. S = [slot EXCEPT ![p].kind = "occupied"]
    BY DEF Inv, Fine, Painters
  <2> QED BY <2>1 DEF Join
<1>3. s \in Slot /\ s.color = slot[p].color /\ s.kind = "occupied"
  BY DEF Inv, Fine, Painters, Slot, Kinds
<1> HIDE DEF s
<1>4. S[p] = s /\ (\A q \in Slots \ {p} : S[q] = slot[q]) /\ Painters(S)
  BY <1>3 DEF Inv, Fine, Painters
<1>5. Taken(S, p) = Taken(slot, p)
  BY <1>4 DEF Taken, Plays
<1> HIDE DEF S
<1>6. CASE S[p].color \in Taken(S, p)
  <2>1. PICK q \in Plays(slot) \ {p} : slot[q].color = slot[p].color
    BY <1>3, <1>4, <1>5, <1>6 DEF Taken
  <2>2. ~savegame
    BY <1>1, <2>1 DEF Inv, Fine, PastColorsDiffer, Plays, AIs
  <2>3. OthersDiffer(S, p)
    BY <1>4 DEF OthersDiffer, Plays, Inv, Fine, ColorsDiffer
  <2>4. Fine(Painted(S, p), FALSE)
    BY <1>4, <2>3, FinePainted
  <2>5. Fine(slot', savegame)
    BY <1>2, <1>6, <2>2, <2>4 DEF Fine
  <2>6. Served(slot', conn)
    <3>1. \A r \in Slots : Painted(S, p)[r].kind = S[r].kind
      BY <1>4 DEF Painted, Painters, Slot
    <3> QED BY <1>2, <1>3, <1>4, <1>6, <3>1 DEF Served, Inv
  <2> QED BY <1>1, <2>5, <2>6, SlotsOnly
<1>7. CASE S[p].color \notin Taken(S, p)
  <2>1. Fine(S, savegame)
    BY <1>1, <1>3, <1>4, <1>5, <1>7, FineSlot DEF Inv, S
  <2>2. Served(S, conn)
    BY <1>3, <1>4 DEF Served, Inv
  <2> QED BY <1>1, <1>2, <1>7, <2>1, <2>2, SlotsOnly
<1> QED BY <1>6, <1>7

(* Both ways to another colour: a player's and an AI's. *)
LEMMA ToggleColorInv ==
  ASSUME Inv, UNCHANGED <<conn, savegame>>, ~savegame, NEW p \in Slots, NEW D,
         ToggleColor(slot, D, conn, p), up' \in [Clients -> Seq(Asked(savegame))]
  PROVE  Inv'
<1>1. Painters(slot) /\ OthersDiffer(slot, p)
  BY DEF Inv, Fine, OthersDiffer, ColorsDiffer
<1>2. slot' = Painted(slot, p)
  BY DEF ToggleColor
<1>3. Fine(slot', savegame)
  BY <1>1, <1>2, FinePainted DEF Fine
<1>4. \A q \in Slots : Painted(slot, p)[q].kind = slot[q].kind
  BY <1>1 DEF Painted, Painters, Slot
<1>5. Served(slot', conn)
  BY <1>2, <1>4 DEF Served, Inv
<1> QED BY <1>3, <1>5 DEF Inv

LEMMA ToggleTeamInv ==
  ASSUME Inv, UNCHANGED <<conn, savegame>>, NEW p \in Slots, NEW t \in Teams,
         ToggleTeam(p, t), up' \in [Clients -> Seq(Asked(savegame))]
  PROVE  Inv'
<1> DEFINE s == [slot[p] EXCEPT !.team = t]
<1>1. s \in Slot /\ s.color = slot[p].color /\ s.kind = slot[p].kind
  BY DEF Inv, Fine, Painters, Slot
<1>2. slot' = [slot EXCEPT ![p] = s]
  BY DEF ToggleTeam, Inv, Fine, Painters
<1> HIDE DEF s
<1>3. Fine(slot', savegame)
  BY <1>1, <1>2, FineSlot DEF Inv
<1>4. Served(slot', conn)
  BY <1>1, <1>2 DEF Inv, Fine, Painters, Served
<1> QED BY <1>3, <1>4 DEF Inv

LEMMA ReceiveInv ==
  ASSUME Inv, UNCHANGED savegame, NEW p \in Slots, Receive(p)
  PROVE  Inv'
<1> USE LobbyAssumption
<1> DEFINE m == Head(up[conn[p]])
<1>1. conn[p] \in Clients /\ up[conn[p]] # <<>> /\ UNCHANGED conn
  BY DEF Receive, Inv
<1>2. m \in Asked(savegame) /\ Tail(up[conn[p]]) \in Seq(Asked(savegame))
  BY <1>1 DEF Inv
<1>3. up' \in [Clients -> Seq(Asked(savegame))]
  BY <1>1, <1>2 DEF Inv, Receive
<1>4. m \in Request
  BY <1>2 DEF Asked
<1>5. CASE m.type = "ready" /\ slot' = [slot EXCEPT ![p].ready = m.ready]
  <2> DEFINE s == [slot[p] EXCEPT !.ready = m.ready]
  <2>0. m.ready \in BOOLEAN
    BY <1>4, <1>5 DEF Request
  <2>1. s \in Slot /\ s.color = slot[p].color /\ s.kind = slot[p].kind
    BY SMTT(30), <2>0 DEF Inv, Fine, Painters, Slot
  <2>2. slot' = [slot EXCEPT ![p] = s]
    BY <1>5 DEF Inv, Fine, Painters
  <2> HIDE DEF s, m
  <2>3. Fine(slot', savegame)
    <3>1. Fine(slot, savegame) /\ savegame \in BOOLEAN
      BY DEF Inv
    <3>2. \/ s.kind \notin {"occupied"} \cup AIs
          \/ slot[p].kind \in {"occupied"} \cup AIs
      BY <2>1
    <3>3. savegame => s.kind = "locked" \/ slot[p].kind # "locked"
      BY <2>1
    <3>4. Fine([slot EXCEPT ![p] = s], savegame)
      BY <2>1, <3>1, <3>2, <3>3, FineSlot, Zenon
    <3> QED BY <2>2, <3>4
  <2>4. Served(slot', conn)
    BY <2>1, <2>2 DEF Inv, Fine, Painters, Served
  <2> QED BY <1>1, <1>3, <2>3, <2>4 DEF Inv
<1>6. CASE m.type = "team" /\ ToggleTeam(p, m.team)
  <2>1. m.team \in Teams
    BY <1>4, <1>6 DEF Request
  <2> QED BY <1>1, <1>3, <1>6, <2>1, ToggleTeamInv
<1>7. CASE m.type = "color" /\ ToggleColor(slot, down, conn, p)
  <2>1. ~savegame
    BY <1>2, <1>7 DEF Asked
  <2> QED BY <1>1, <1>3, <1>7, <2>1, ToggleColorInv
<1> QED BY <1>5, <1>6, <1>7 DEF Receive

LEMMA ConnectionsInv ==
  ASSUME Inv, UNCHANGED savegame, Connections
  PROVE  Inv'
<1>1. CASE \E c \in Clients : Reserve(c)
  BY <1>1, ReserveInv
<1>2. CASE \E p \in Slots : Join(p)
  BY <1>2, JoinInv
<1>3. CASE \E p \in Slots : KickPlayer(p)
  <2>1. PICK p \in Slots : KickPlayer(p)
    BY <1>3
  <2>2. Removed(p) /\ slot[p].kind \in {"reserved", "occupied"}
    BY <2>1 DEF KickPlayer, Inv, Served
  <2> QED BY <2>2, RemovedInv
<1>4. CASE \E p \in Slots : Timeout(p)
  <2>1. PICK p \in Slots : Timeout(p)
    BY <1>4
  <2>2. Removed(p) /\ slot[p].kind \in {"reserved", "occupied"}
    BY <2>1 DEF Timeout
  <2> QED BY <2>2, RemovedInv
<1>5. CASE \E p \in Slots : Receive(p)
  BY <1>5, ReceiveInv
<1> QED BY <1>1, <1>2, <1>3, <1>4, <1>5 DEF Connections

(* The host. *)
LEMMA TogglePlayerStateInv ==
  ASSUME Inv, UNCHANGED savegame, NEW p \in Slots, TogglePlayerState(p)
  PROVE  Inv'
<1> DEFINE s == Toggled(slot[p])
           S == [slot EXCEPT ![p] = s]
<1>1. UNCHANGED <<conn, up>> /\ slot[p].kind # "occupied"
  BY DEF TogglePlayerState, clientVars
<1>2. slot' = IF S[p].kind \in AIs /\ S[p].color \in Taken(S, p) THEN Painted(S, p) ELSE S
  <2>1. S = [slot EXCEPT ![p] = Toggled(@)]
    BY DEF Inv, Fine, Painters
  <2> QED BY <2>1 DEF TogglePlayerState, ToggleColor
<1>3. s.kind = NextKind(slot[p].kind) /\ s.color = slot[p].color /\ s \in Slot
  <2>1. slot[p] \in Slot /\ slot[p].kind \in Kinds
    BY DEF Inv, Fine, Painters, Slot
  <2>2. NextKind(slot[p].kind) \in Kinds
    BY <2>1 DEF NextKind, Kinds, AIs
  <2>3. (NextKind(slot[p].kind) \in AIs) \in BOOLEAN
    OBVIOUS
  <2> HIDE DEF Inv
  <2> QED BY <2>1, <2>2, <2>3 DEF Toggled, Slot
<1>4. slot[p].kind = "reserved" => NextKind(slot[p].kind) = "reserved"
  BY DEF NextKind
<1>5. NextKind(slot[p].kind) = "locked" \/ slot[p].kind # "locked" \/ ~savegame
  BY DEF NextKind
<1>6. savegame => NextKind(slot[p].kind) = "locked" \/ slot[p].kind # "locked"
  BY <1>5
<1>7. NextKind(slot[p].kind) # "occupied"
  BY <1>1 DEF NextKind
<1> HIDE DEF s
<1>8. S[p] = s /\ (\A q \in Slots \ {p} : S[q] = slot[q]) /\ Painters(S)
  BY <1>3 DEF Inv, Fine, Painters
<1>9. Taken(S, p) = Taken(slot, p)
  BY <1>8 DEF Taken, Plays
<1>10. Served(S, conn)
  BY <1>1, <1>3, <1>4, <1>8 DEF Served, Inv
<1> HIDE DEF S
<1>11. CASE S[p].kind \in AIs /\ S[p].color \in Taken(S, p)
  <2>1. PICK q \in Plays(slot) \ {p} : slot[q].color = slot[p].color
    BY <1>3, <1>8, <1>9, <1>11 DEF Taken
  <2>2. ~savegame
    <3> SUFFICES ASSUME savegame PROVE FALSE
      OBVIOUS
    <3>1. slot[p].kind # "locked"
      BY <1>3, <1>6, <1>8, <1>11 DEF AIs
    <3> QED BY <2>1, <3>1 DEF Inv, Fine, PastColorsDiffer, Plays, AIs
  <2>3. OthersDiffer(S, p)
    BY <1>8 DEF OthersDiffer, Plays, Inv, Fine, ColorsDiffer
  <2>4. Fine(Painted(S, p), FALSE)
    BY <1>8, <2>3, FinePainted
  <2>5. Fine(slot', savegame)
    BY <1>2, <1>11, <2>2, <2>4 DEF Fine
  <2>6. \A r \in Slots : Painted(S, p)[r].kind = S[r].kind
    BY <1>8 DEF Painted, Painters, Slot
  <2>7. Served(slot', conn)
    BY <1>2, <1>10, <1>11, <2>6 DEF Served
  <2> QED BY <1>1, <2>5, <2>7, SlotsOnly
<1>12. CASE S[p].kind \notin AIs \/ S[p].color \notin Taken(S, p)
  <2>1. s.kind \notin {"occupied"} \cup AIs \/ s.color \notin Taken(slot, p)
    BY <1>3, <1>7, <1>8, <1>9, <1>12
  <2>2. Fine(S, savegame)
    <3>1. CASE savegame
      BY <1>3, <1>6, <2>1, <3>1, FineSlot DEF Inv, S
    <3>2. CASE ~savegame
      BY <1>3, <2>1, <3>2, FineSlot DEF Inv, S
    <3> QED BY <3>1, <3>2
  <2> QED BY <1>1, <1>2, <1>10, <1>12, <2>2, SlotsOnly
<1> QED BY <1>11, <1>12

LEMMA SwapPlayerInv ==
  ASSUME Inv, UNCHANGED savegame, ~Swaps, NEW p \in Slots, NEW q \in Slots, SwapPlayer(p, q)
  PROVE  Inv'
<1>1. /\ savegame /\ p # q
      /\ slot[p].kind # "locked" /\ slot[q].kind # "locked"
      /\ slot' = Swapped(slot, p, q) /\ UNCHANGED up
      /\ conn' = [conn EXCEPT ![p] = conn[q], ![q] = conn[p]]
  BY DEF SwapPlayer, clientVars
<1> DEFINE sp == [slot[p] EXCEPT !.kind = slot[q].kind, !.ready = slot[q].ready]
           sq == [slot[q] EXCEPT !.kind = slot[p].kind, !.ready = slot[p].ready]
<1>2. /\ sp \in Slot /\ sp.kind = slot[q].kind /\ sp.color = slot[p].color
      /\ sq \in Slot /\ sq.kind = slot[p].kind /\ sq.color = slot[q].color
  BY DEF Inv, Fine, Painters, Slot
<1>3. slot' = [slot EXCEPT ![p] = sp, ![q] = sq]
  <2>1. slot \in [Slots -> Slot]
    BY DEF Inv, Fine, Painters
  <2> QED BY <1>1, <2>1 DEF Swapped
<1> HIDE DEF sp, sq
<1>4. /\ Painters(slot') /\ slot'[p] = sp /\ slot'[q] = sq
      /\ \A r \in Slots \ {p, q} : slot'[r] = slot[r]
  BY <1>1, <1>2, <1>3 DEF Inv, Fine, Painters
<1>5. \A r \in Slots : /\ slot'[r].color = slot[r].color
                       /\ slot'[r].kind # "locked" => slot[r].kind # "locked"
  BY <1>1, <1>2, <1>4
<1>6. PastColorsDiffer(slot')
  BY <1>1, <1>5 DEF Inv, Fine, PastColorsDiffer
<1>7. ColorsDiffer(slot')
  BY <1>6 DEF PastColorsDiffer, ColorsDiffer, Plays, AIs
<1>8. conn' \in [Slots -> Clients \cup {Nobody}]
  BY <1>1 DEF Inv
<1>9. Served(slot', conn')
  BY <1>1, <1>2, <1>4 DEF Served, Inv
<1> QED BY <1>1, <1>4, <1>6, <1>7, <1>8, <1>9 DEF Inv, Fine

LEMMA HostInv ==
  ASSUME Inv, UNCHANGED savegame, ~Swaps, HostActs
  PROVE  Inv'
<1>1. CASE \E p \in Slots : TogglePlayerState(p)
  BY <1>1, TogglePlayerStateInv
<1>2. CASE \E p \in Slots : SetAIColor(p)
  <2>1. PICK p \in Slots : SetAIColor(p)
    BY <1>2
  <2>2. ~savegame /\ ToggleColor(slot, down, conn, p) /\ UNCHANGED <<conn, up>>
    BY <2>1 DEF SetAIColor, clientVars
  <2>3. up' \in [Clients -> Seq(Asked(savegame))]
    BY <2>2 DEF Inv
  <2> QED BY <2>2, <2>3, ToggleColorInv
<1>3. CASE \E p \in Slots, t \in Teams : SetAITeam(p, t)
  <2>1. PICK p \in Slots, t \in Teams : SetAITeam(p, t)
    BY <1>3
  <2>2. ToggleTeam(p, t) /\ UNCHANGED <<conn, up>>
    BY <2>1 DEF SetAITeam, clientVars
  <2>3. up' \in [Clients -> Seq(Asked(savegame))]
    BY <2>2 DEF Inv
  <2> QED BY <2>2, <2>3, ToggleTeamInv
<1>4. CASE \E p, q \in Slots : SwapPlayer(p, q)
  BY <1>4, SwapPlayerInv
<1>5. CASE \E g \in Settings : ChangeSettings(g)
  <2>1. UNCHANGED <<slot, conn, up>>
    BY <1>5 DEF ChangeSettings, clientVars
  <2> QED BY <2>1, OnlyAsks DEF Inv
<1>6. CASE StartCountdown \/ CancelCountdown \/ StartGame
  <2>1. UNCHANGED <<slot, conn, up>>
    BY <1>6 DEF StartCountdown, CancelCountdown, StartGame, clientVars
  <2> QED BY <2>1, OnlyAsks DEF Inv
<1> QED BY <1>1, <1>2, <1>3, <1>4, <1>5, <1>6 DEF HostActs

LEMMA NextInv ==
  ASSUME Inv, ~Swaps, [Next]_vars
  PROVE  Inv'
<1>1. CASE Next
  BY <1>1, HostInv, ConnectionsInv, ClientInv DEF Next
<1>2. CASE UNCHANGED vars
  BY <1>2, OnlyAsks DEF Inv, vars, serverVars
<1> QED BY <1>1, <1>2

-----------------------------------------------------------------------------
(* The players on the server's list have different colours at any time, if *)
(* the host swaps players in a loaded game only:    *)
(* the loops that look for a free colour, or trust that it need not be     *)
(* looked for, in OnNMSMapChecksum, TogglePlayerState,                     *)
(* OnNMSPlayerToggleColor and SwapPlayer.                                  *)
THEOREM ColorsKept ==
  ASSUME ~Swaps
  PROVE  Spec => []ColorsUnique
<1>1. Init => Inv
  BY InitInv
<1>2. Inv /\ [Next]_vars => Inv'
  BY NextInv
<1>3. Inv => ColorsUnique
  BY DEF Inv, Fine, ColorsUnique
<1> QED BY <1>1, <1>2, <1>3, PTL DEF Spec

(* The search for a colour is never begun in vain, whatever the slots, and *)
(* ends with one which no other player has.                                *)
THEOREM ColorSearchEnds ==
  ASSUME NEW L \in [Slots -> Slot], NEW p \in Slots
  PROVE  /\ NextColor(L, p) \in Colors
         /\ \A q \in Plays(L) \ {p} : L[q].color # NextColor(L, p)
BY ColorFound DEF Painters, Taken

-----------------------------------------------------------------------------
(* Views.                                                                  *)
Looks == [kind : Kinds, team : Teams, color : Colors]
Look(s) == [kind |-> s.kind, team |-> s.team, color |-> s.color]
Views == [list : [Slots -> Looks], self : Slots, settings : Settings]

WithKind(L, p, k) ==
  [L EXCEPT ![p] = [kind |-> k, team |-> L[p].team, color |-> L[p].color]]

KindAfter(k, saved) ==
  CASE k = "free" -> "jh"
    [] k = "jh" -> "dummy"
    [] k = "dummy" -> IF saved THEN "free" ELSE "locked"
    [] k = "locked" -> IF saved THEN "locked" ELSE "free"
    [] OTHER -> k

(* What a message makes of a list, and of a view. *)
ListAfter(L, m, saved) ==
  CASE m.type = "list"   -> [p \in Slots |-> Look(m.list[p])]
    [] m.type = "new"    -> WithKind(L, m.slot, "occupied")
    [] m.type = "state"  -> WithKind(L, m.slot, KindAfter(L[m.slot].kind, saved))
    [] m.type = "kicked" -> WithKind(L, m.slot, "free")
    [] m.type = "team"   ->
         [L EXCEPT ![m.slot] = [kind |-> L[m.slot].kind, team |-> m.team, color |-> L[m.slot].color]]
    [] m.type = "color"  ->
         [L EXCEPT ![m.slot] = [kind |-> L[m.slot].kind, team |-> L[m.slot].team, color |-> m.color]]
    [] m.type = "swap"   ->
         WithKind(WithKind(L, m.slot, L[m.with].kind), m.with, L[m.slot].kind)
    [] m.type \in {"ready", "settings", "start"} -> L

After(v, m, saved) ==
  [list |-> ListAfter(v.list, m, saved),
   self |-> IF m.type = "swap" THEN Moved(v.self, m.slot, m.with) ELSE v.self,
   settings |-> IF m.type = "settings" THEN m.settings ELSE v.settings]

LEMMA MessageKinds ==
  ASSUME NEW m \in Message
  PROVE  /\ m.type \in {"list", "new", "state", "kicked", "team", "color", "ready", "swap",
                        "settings", "start"}
         /\ m.type = "list" => m.list \in [Slots -> Slot]
         /\ m.type \in {"new", "state", "kicked", "team", "color", "ready", "swap"} => m.slot \in Slots
         /\ m.type = "team" => m.team \in Teams
         /\ m.type = "color" => m.color \in Colors
         /\ m.type = "ready" => m.ready \in BOOLEAN
         /\ m.type = "swap" => m.with \in Slots
         /\ m.type = "settings" => m.settings \in Settings
BY DEF Message

LEMMA WithKindType ==
  ASSUME NEW L \in [Slots -> Looks], NEW p \in Slots, NEW k \in Kinds
  PROVE  WithKind(L, p, k) \in [Slots -> Looks]
BY DEF WithKind, Looks

LEMMA ListAfterType ==
  ASSUME NEW L \in [Slots -> Looks], NEW m \in Message, NEW saved \in BOOLEAN
  PROVE  ListAfter(L, m, saved) \in [Slots -> Looks]
<1>0. \A p \in Slots : L[p].kind \in Kinds /\ L[p].team \in Teams /\ L[p].color \in Colors
  BY DEF Looks
<1>1. \A k \in Kinds : KindAfter(k, saved) \in Kinds
  BY DEF KindAfter, Kinds, AIs
<1>2. {"occupied", "free"} \subseteq Kinds
  BY DEF Kinds
<1>3. CASE m.type = "list"
  <2>1. \A p \in Slots : Look(m.list[p]) \in Looks
    BY <1>3, MessageKinds DEF Look, Looks, Slot
  <2> QED BY <1>3, <2>1 DEF ListAfter
<1>4. CASE m.type \in {"new", "state", "kicked"}
  <2>1. m.slot \in Slots
    BY <1>4, MessageKinds
  <2>2. CASE m.type = "new"
    BY <1>2, <2>1, <2>2, WithKindType DEF ListAfter
  <2>3. CASE m.type = "state"
    BY <1>0, <1>1, <2>1, <2>3, WithKindType DEF ListAfter
  <2>4. CASE m.type = "kicked"
    BY <1>2, <2>1, <2>4, WithKindType DEF ListAfter
  <2> QED BY <1>4, <2>2, <2>3, <2>4
<1>5. CASE m.type = "team"
  BY <1>0, <1>5, MessageKinds DEF ListAfter, Looks
<1>6. CASE m.type = "color"
  BY <1>0, <1>6, MessageKinds DEF ListAfter, Looks
<1>7. CASE m.type = "swap"
  <2>1. m.slot \in Slots /\ m.with \in Slots
    BY <1>7, MessageKinds
  <2>2. ListAfter(L, m, saved) = WithKind(WithKind(L, m.slot, L[m.with].kind), m.with, L[m.slot].kind)
    BY <1>7 DEF ListAfter
  <2>3. WithKind(L, m.slot, L[m.with].kind) \in [Slots -> Looks]
    BY <1>0, <2>1, WithKindType
  <2> QED BY <1>0, <2>1, <2>2, <2>3, WithKindType
<1>8. CASE m.type \in {"ready", "settings", "start"}
  BY <1>8 DEF ListAfter
<1> QED BY <1>3, <1>4, <1>5, <1>6, <1>7, <1>8, MessageKinds

LEMMA AfterType ==
  ASSUME NEW v \in Views, NEW m \in Message, NEW saved \in BOOLEAN
  PROVE  After(v, m, saved) \in Views
<1>1. v.list \in [Slots -> Looks] /\ v.self \in Slots /\ v.settings \in Settings
  BY DEF Views
<1>2. ListAfter(v.list, m, saved) \in [Slots -> Looks]
  BY <1>1, ListAfterType
<1>3. m.type = "swap" => Moved(v.self, m.slot, m.with) \in Slots
  BY <1>1, MessageKinds DEF Moved
<1>4. m.type = "settings" => m.settings \in Settings
  BY MessageKinds
<1> QED BY <1>1, <1>2, <1>3, <1>4 DEF After, Views

-----------------------------------------------------------------------------
(* The messages D lead from view v to view w; whoever is told to start has *)
(* then the settings and, but for his own slot, the players of X.          *)
Alike(v, X) ==
  /\ v.settings = X.settings
  /\ \A p \in Slots \ {v.self} : Shown(v.list[p]) = X.list[p]

Chain(f, v, D, w, saved, X) ==
  /\ f[0] = v /\ f[Len(D)] = w
  /\ \A i \in 1..Len(D) : f[i] = After(f[i - 1], D[i], saved)
  /\ \A i \in 1..Len(D) : D[i].type = "start" => Alike(f[i - 1], X)

Leads(v, D, w, saved, X) ==
  \E f \in [0..Len(D) -> Views] : Chain(f, v, D, w, saved, X)

LEMMA LeadsNone ==
  ASSUME NEW v \in Views, NEW saved, NEW X
  PROVE  Leads(v, <<>>, v, saved, X)
<1> DEFINE f == [i \in 0..0 |-> v]
<1>1. f \in [0..0 -> Views] /\ Chain(f, v, <<>>, v, saved, X)
  BY DEF Chain
<1> QED BY <1>1 DEF Leads

LEMMA LeadsNowhere ==
  ASSUME NEW v, NEW w, NEW saved, NEW X, Leads(v, <<>>, w, saved, X)
  PROVE  v = w
BY DEF Leads, Chain

LEMMA LeadsOn ==
  ASSUME NEW v, NEW w, NEW saved \in BOOLEAN, NEW X,
         NEW D \in Seq(Message), NEW m \in Message,
         Leads(v, D, w, saved, X), m.type = "start" => Alike(w, X)
  PROVE  Leads(v, Append(D, m), After(w, m, saved), saved, X)
<1>1. PICK f \in [0..Len(D) -> Views] : Chain(f, v, D, w, saved, X)
  BY DEF Leads
<1> DEFINE n == Len(D)
           E == Append(D, m)
           g == [i \in 0..(n + 1) |-> IF i <= n THEN f[i] ELSE After(w, m, saved)]
<1>2. n \in Nat /\ Len(E) = n + 1 /\ E[n + 1] = m /\ \A i \in 1..n : E[i] = D[i]
  OBVIOUS
<1>3. w \in Views /\ f[n] = w
  BY <1>1, <1>2 DEF Chain
<1>4. After(w, m, saved) \in Views
  BY <1>3, AfterType
<1>5. g \in [0..Len(E) -> Views]
  BY <1>2, <1>4
<1>6. g[0] = v /\ g[n + 1] = After(w, m, saved) /\ \A i \in 0..n : g[i] = f[i]
  BY <1>1, <1>2 DEF Chain
<1>7. \A i \in 1..(n + 1) : i - 1 \in 0..n /\ (i \in 1..n \/ i = n + 1)
  BY <1>2
<1> HIDE DEF g, E
<1>8. \A i \in 1..(n + 1) : g[i] = After(g[i - 1], E[i], saved)
  <2> TAKE i \in 1..(n + 1)
  <2>1. CASE i \in 1..n
    BY <1>1, <1>2, <1>6, <1>7, <2>1 DEF Chain
  <2>2. CASE i = n + 1
    BY <1>2, <1>3, <1>6, <1>7, <2>2
  <2> QED BY <1>7, <2>1, <2>2
<1>9. \A i \in 1..(n + 1) : E[i].type = "start" => Alike(g[i - 1], X)
  <2> TAKE i \in 1..(n + 1)
  <2>1. CASE i \in 1..n
    BY <1>1, <1>2, <1>6, <1>7, <2>1 DEF Chain
  <2>2. CASE i = n + 1
    BY <1>2, <1>3, <1>6, <1>7, <2>2
  <2> QED BY <1>7, <2>1, <2>2
<1>10. Chain(g, v, E, After(w, m, saved), saved, X)
  BY <1>2, <1>6, <1>8, <1>9 DEF Chain
<1> QED BY <1>5, <1>10 DEF Leads, E

LEMMA LeadsAfter ==
  ASSUME NEW v, NEW w, NEW saved \in BOOLEAN, NEW X,
         NEW D \in Seq(Message), D # <<>>, Leads(v, D, w, saved, X)
  PROVE  /\ Leads(After(v, Head(D), saved), Tail(D), w, saved, X)
         /\ Head(D).type = "start" => Alike(v, X)
<1>1. PICK f \in [0..Len(D) -> Views] : Chain(f, v, D, w, saved, X)
  BY DEF Leads
<1> DEFINE n == Len(D)
           E == Tail(D)
           g == [i \in 0..(n - 1) |-> f[i + 1]]
<1>2. n \in Nat \ {0} /\ Len(E) = n - 1 /\ Head(D) = D[1] /\ \A i \in 1..(n - 1) : E[i] = D[i + 1]
  OBVIOUS
<1>3. g \in [0..Len(E) -> Views]
  BY <1>2
<1>4. f[1] = After(v, Head(D), saved) /\ (Head(D).type = "start" => Alike(v, X))
  BY <1>1, <1>2 DEF Chain
<1>5. g[0] = f[1] /\ g[n - 1] = f[n] /\ \A i \in 1..(n - 1) : g[i] = f[i + 1] /\ g[i - 1] = f[i]
  BY <1>2
<1> HIDE DEF g, E
<1>6. Chain(g, After(v, Head(D), saved), E, w, saved, X)
  <2>1. \A i \in 1..(n - 1) : i + 1 \in 1..n /\ (i + 1) - 1 = i
    BY <1>2
  <2>2. \A i \in 1..(n - 1) : /\ f[i + 1] = After(f[i], D[i + 1], saved)
                              /\ D[i + 1].type = "start" => Alike(f[i], X)
    BY <1>1, <2>1 DEF Chain
  <2>3. g[0] = After(v, Head(D), saved) /\ g[Len(E)] = w
    BY <1>1, <1>2, <1>4, <1>5 DEF Chain
  <2>4. \A i \in 1..(n - 1) : g[i] = After(g[i - 1], E[i], saved)
    BY <1>2, <1>5, <2>2
  <2>5. \A i \in 1..(n - 1) : E[i].type = "start" => Alike(g[i - 1], X)
    BY <1>2, <1>5, <2>2
  <2> QED BY <1>2, <2>3, <2>4, <2>5 DEF Chain
<1> QED BY <1>3, <1>4, <1>6 DEF Leads, E

LEMMA LeadsType ==
  ASSUME NEW v, NEW w, NEW saved, NEW X, NEW D \in Seq(Message), Leads(v, D, w, saved, X)
  PROVE  v \in Views /\ w \in Views
BY DEF Leads, Chain

(* As long as nobody is told to start, X may be anything. *)
LEMMA LeadsFree ==
  ASSUME NEW v, NEW w, NEW saved, NEW X, NEW Y, NEW D, Leads(v, D, w, saved, X),
         \A i \in 1..Len(D) : D[i].type # "start"
  PROVE  Leads(v, D, w, saved, Y)
BY DEF Leads, Chain

-----------------------------------------------------------------------------
(* What is under way: a request for, or an answer about, a team or colour. *)
Asks(U, t) == \E i \in 1..Len(U) : U[i].type = t
Echoes(D, t, p) == \E i \in 1..Len(D) : D[i].type = t /\ D[i].slot = p

(* What a client may think of a slot.  It thinks it reserved only if the   *)
(* slot was when it got its list.                                          *)
Shows(k, kind) ==
  /\ kind # "reserved" => k = kind
  /\ kind = "reserved" => k \in {"free", "reserved"}
  /\ Timeouts => k # "reserved"

(* The last view is the server's, but for what the client in slot p has    *)
(* asked for itself.                                                       *)
Agrees(v, p, S, G, U) ==
  /\ v.self = p /\ v.settings = G
  /\ \A q \in Slots :
       /\ Shows(v.list[q].kind, S[q].kind)
       /\ q # p \/ ~Asks(U, "team") => v.list[q].team = S[q].team
       /\ q # p \/ ~Asks(U, "color") => v.list[q].color = S[q].color

(* The first view is the client's, but for what it has chosen itself.      *)
Pending(D, U, t, s) == Asks(U, t) \/ Echoes(D, t, s)

SameLook(l, s, mine, D, U, q) ==
  /\ l.kind = s.kind
  /\ q # mine \/ ~Pending(D, U, "team", mine) => l.team = s.team
  /\ q # mine \/ ~Pending(D, U, "color", mine) => l.color = s.color

Tied(v, L, s, g, ph, D, U) ==
  /\ v.self = s /\ v.settings = g
  /\ ph # "joining" => \A q \in Slots : SameLook(v.list[q], L[q], s, D, U, q)

ClientOK(p, S, G, D, U, ph, s, L, g, saved, X) ==
  \E v, w \in Views :
    /\ Leads(v, D, w, saved, X)
    /\ Tied(v, L, s, g, ph, D, U)
    /\ Agrees(w, p, S, G, U)

-----------------------------------------------------------------------------
(* The server changes something, with or without a message.                *)
Takes(m, saved, p, S, G, U, p2, S2, G2, U2) ==
  \A v \in Views : Agrees(v, p, S, G, U) => Agrees(After(v, m, saved), p2, S2, G2, U2)

LEMMA EchoesMore ==
  ASSUME NEW D \in Seq(Message), NEW m \in Message, NEW t, NEW s
  PROVE  /\ Echoes(D, t, s) => Echoes(Append(D, m), t, s)
         /\ m.type = t /\ m.slot = s => Echoes(Append(D, m), t, s)
<1>1. Len(Append(D, m)) = Len(D) + 1 /\ Append(D, m)[Len(D) + 1] = m
  OBVIOUS
<1>2. \A i \in 1..Len(D) : i \in 1..(Len(D) + 1) /\ Append(D, m)[i] = D[i]
  OBVIOUS
<1>3. Len(D) + 1 \in 1..(Len(D) + 1)
  OBVIOUS
<1> QED BY <1>1, <1>2, <1>3 DEF Echoes

LEMMA Broadcast ==
  ASSUME NEW p, NEW S, NEW G, NEW D \in Seq(Message), NEW U, NEW ph, NEW s, NEW L, NEW g,
         NEW saved \in BOOLEAN, NEW X, ClientOK(p, S, G, D, U, ph, s, L, g, saved, X),
         NEW m \in Message,
         m.type = "start" => \A w \in Views : Agrees(w, p, S, G, U) => Alike(w, X),
         NEW p2, NEW S2, NEW G2, NEW U2, Takes(m, saved, p, S, G, U, p2, S2, G2, U2),
         \A t \in {"team", "color"} :
           Asks(U, t) => Asks(U2, t) \/ (m.type = t /\ m.slot = s)
  PROVE  ClientOK(p2, S2, G2, Append(D, m), U2, ph, s, L, g, saved, X)
<1>1. PICK v \in Views, w \in Views :
        /\ Leads(v, D, w, saved, X)
        /\ Tied(v, L, s, g, ph, D, U)
        /\ Agrees(w, p, S, G, U)
  BY DEF ClientOK
<1>2. Leads(v, Append(D, m), After(w, m, saved), saved, X)
  BY <1>1, LeadsOn
<1>3. After(w, m, saved) \in Views
  BY <1>1, AfterType
<1>4. Agrees(After(w, m, saved), p2, S2, G2, U2)
  BY <1>1 DEF Takes
<1>5. \A t \in {"team", "color"} : Pending(D, U, t, s) => Pending(Append(D, m), U2, t, s)
  BY EchoesMore DEF Pending
<1>6. Tied(v, L, s, g, ph, Append(D, m), U2)
  <2>1. Pending(D, U, "team", s) => Pending(Append(D, m), U2, "team", s)
    BY <1>5
  <2>2. Pending(D, U, "color", s) => Pending(Append(D, m), U2, "color", s)
    BY <1>5
  <2> QED BY <1>1, <2>1, <2>2 DEF Tied, SameLook
<1> QED BY <1>2, <1>3, <1>4, <1>6 DEF ClientOK

(* A slot changes of which the client need not hear. *)
LEMMA Silent ==
  ASSUME NEW p, NEW S, NEW G, NEW D, NEW U, NEW ph, NEW s, NEW L, NEW g,
         NEW saved, NEW X, ClientOK(p, S, G, D, U, ph, s, L, g, saved, X), NEW S2,
         \A w \in Views : Agrees(w, p, S, G, U) => Agrees(w, p, S2, G, U)
  PROVE  ClientOK(p, S2, G, D, U, ph, s, L, g, saved, X)
BY DEF ClientOK

-----------------------------------------------------------------------------
(* The messages say what has changed.                                      *)
(* x is the slot which has changed. *)
OnlyAt(S, S2, x) == \A q \in Slots \ {x} : S2[q] = S[q]

LEMMA OneSlot ==
  ASSUME NEW p \in Slots, NEW S, NEW G, NEW U, NEW S2, NEW U2, NEW x \in Slots,
         OnlyAt(S, S2, x), NEW v, Agrees(v, p, S, G, U),
         NEW a, a.self = v.self, a.settings = v.settings,
         \A q \in Slots \ {x} : a.list[q] = v.list[q],
         Shows(a.list[x].kind, S2[x].kind),
         x # p \/ ~Asks(U2, "team") => a.list[x].team = S2[x].team,
         x # p \/ ~Asks(U2, "color") => a.list[x].color = S2[x].color,
         x # p => (Asks(U, "team") => Asks(U2, "team")) /\ (Asks(U, "color") => Asks(U2, "color"))
  PROVE  Agrees(a, p, S2, G, U2)
<1>1. a.self = p /\ a.settings = G
  BY DEF Agrees
<1>2. ASSUME NEW q \in Slots
      PROVE  /\ Shows(a.list[q].kind, S2[q].kind)
             /\ q # p \/ ~Asks(U2, "team") => a.list[q].team = S2[q].team
             /\ q # p \/ ~Asks(U2, "color") => a.list[q].color = S2[q].color
  <2>1. CASE q = x
    BY <2>1
  <2>2. CASE q # x
    <3>1. a.list[q] = v.list[q] /\ S2[q] = S[q]
      BY <2>2 DEF OnlyAt
    <3>2. /\ Shows(v.list[q].kind, S[q].kind)
          /\ q # p \/ ~Asks(U, "team") => v.list[q].team = S[q].team
          /\ q # p \/ ~Asks(U, "color") => v.list[q].color = S[q].color
      BY DEF Agrees
    <3>3. q # p \/ ~Asks(U2, "team") => q # p \/ ~Asks(U, "team")
      BY <2>2
    <3>4. q # p \/ ~Asks(U2, "color") => q # p \/ ~Asks(U, "color")
      BY <2>2
    <3> QED BY <3>1, <3>2, <3>3, <3>4
  <2> QED BY <2>1, <2>2
<1> QED BY <1>1, <1>2 DEF Agrees

(* The kind of slot x becomes k. *)
LEMMA TakesKind ==
  ASSUME NEW saved \in BOOLEAN, NEW p \in Slots, NEW S, NEW G, NEW U, NEW S2, NEW x \in Slots,
         OnlyAt(S, S2, x), S2[x].team = S[x].team, S2[x].color = S[x].color,
         NEW m, m.slot = x,
         \/ m.type = "new" /\ S2[x].kind = "occupied"
         \/ m.type = "kicked" /\ S2[x].kind = "free"
         \/ /\ m.type = "state" /\ "reserved" \notin {S[x].kind, S2[x].kind}
            /\ S2[x].kind = KindAfter(S[x].kind, saved)
  PROVE  Takes(m, saved, p, S, G, U, p, S2, G, U)
<1> SUFFICES ASSUME NEW v \in Views, Agrees(v, p, S, G, U)
             PROVE  Agrees(After(v, m, saved), p, S2, G, U)
  BY DEF Takes
<1> DEFINE a == After(v, m, saved)
<1>1. v.list \in [Slots -> Looks]
  BY DEF Views
<1>2. /\ Shows(v.list[x].kind, S[x].kind)
      /\ x # p \/ ~Asks(U, "team") => v.list[x].team = S[x].team
      /\ x # p \/ ~Asks(U, "color") => v.list[x].color = S[x].color
  BY DEF Agrees
<1>3. a.self = v.self /\ a.settings = v.settings /\ a.list = WithKind(v.list, x, S2[x].kind)
  <2>1. m.type = "state" => v.list[x].kind = S[x].kind
    BY <1>2 DEF Shows
  <2> QED BY <2>1 DEF After, ListAfter
<1> HIDE DEF a
<1>4. /\ \A q \in Slots \ {x} : a.list[q] = v.list[q]
      /\ a.list[x].kind = S2[x].kind
      /\ a.list[x].team = v.list[x].team /\ a.list[x].color = v.list[x].color
  BY <1>1, <1>3 DEF WithKind
<1>5. Shows(a.list[x].kind, S2[x].kind)
  BY <1>4 DEF Shows
<1> QED BY <1>2, <1>3, <1>4, <1>5, OneSlot DEF a

(* Slot x gets another team or colour, perhaps at the request of its player. *)
LEMMA TakesChoice ==
  ASSUME NEW saved \in BOOLEAN, NEW p \in Slots, NEW S, NEW G, NEW U, NEW S2, NEW U2,
         NEW x \in Slots, OnlyAt(S, S2, x), S2[x].kind = S[x].kind,
         NEW m, m.slot = x,
         \/ m.type = "team" /\ S2[x].team = m.team /\ S2[x].color = S[x].color
         \/ m.type = "color" /\ S2[x].color = m.color /\ S2[x].team = S[x].team,
         m.type # "team" \/ x # p => (Asks(U, "team") => Asks(U2, "team")),
         m.type # "color" \/ x # p => (Asks(U, "color") => Asks(U2, "color"))
  PROVE  Takes(m, saved, p, S, G, U, p, S2, G, U2)
<1> SUFFICES ASSUME NEW v \in Views, Agrees(v, p, S, G, U)
             PROVE  Agrees(After(v, m, saved), p, S2, G, U2)
  BY DEF Takes
<1> DEFINE a == After(v, m, saved)
<1>1. v.list \in [Slots -> Looks]
  BY DEF Views
<1>2. /\ Shows(v.list[x].kind, S[x].kind)
      /\ x # p \/ ~Asks(U, "team") => v.list[x].team = S[x].team
      /\ x # p \/ ~Asks(U, "color") => v.list[x].color = S[x].color
  BY DEF Agrees
<1>3. a.self = v.self /\ a.settings = v.settings /\ a.list = ListAfter(v.list, m, saved)
  BY DEF After
<1>4. CASE m.type = "team"
  <2>1. a.list = [v.list EXCEPT ![x] = [kind |-> v.list[x].kind, team |-> m.team,
                                        color |-> v.list[x].color]]
    BY <1>3, <1>4 DEF ListAfter
  <2> HIDE DEF a
  <2>2. /\ \A q \in Slots \ {x} : a.list[q] = v.list[q]
        /\ a.list[x].kind = v.list[x].kind /\ a.list[x].team = m.team
        /\ a.list[x].color = v.list[x].color
    BY <1>1, <2>1
  <2>3. Shows(a.list[x].kind, S2[x].kind)
    BY <1>2, <2>2
  <2>4. x # p \/ ~Asks(U2, "color") => a.list[x].color = S2[x].color
    BY <1>2, <1>4, <2>2
  <2>5. a.list[x].team = S2[x].team
    BY <1>4, <2>2
  <2>6. Agrees(a, p, S2, G, U2)
    BY <1>3, <1>4, <2>2, <2>3, <2>4, <2>5, OneSlot
  <2> QED BY <2>6 DEF a
<1>5. CASE m.type = "color"
  <2>1. a.list = [v.list EXCEPT ![x] = [kind |-> v.list[x].kind, team |-> v.list[x].team,
                                        color |-> m.color]]
    BY <1>3, <1>5 DEF ListAfter
  <2> HIDE DEF a
  <2>2. /\ \A q \in Slots \ {x} : a.list[q] = v.list[q]
        /\ a.list[x].kind = v.list[x].kind /\ a.list[x].color = m.color
        /\ a.list[x].team = v.list[x].team
    BY <1>1, <2>1
  <2>3. Shows(a.list[x].kind, S2[x].kind)
    BY <1>2, <2>2
  <2>4. x # p \/ ~Asks(U2, "team") => a.list[x].team = S2[x].team
    BY <1>2, <1>5, <2>2
  <2>5. a.list[x].color = S2[x].color
    BY <1>5, <2>2
  <2>6. Agrees(a, p, S2, G, U2)
    BY <1>3, <1>5, <2>2, <2>3, <2>4, <2>5, OneSlot
  <2> QED BY <2>6 DEF a
<1> QED BY <1>4, <1>5

(* Slots have the same players as before. *)
SameLooks(S, S2) == \A q \in Slots : Look(S2[q]) = Look(S[q])

LEMMA TakesNothing ==
  ASSUME NEW saved, NEW p \in Slots, NEW S, NEW G, NEW U, NEW S2, NEW G2, NEW U2,
         SameLooks(S, S2), NEW m,
         \/ m.type \in {"ready", "start"} /\ G2 = G
         \/ m.type = "settings" /\ m.settings = G2,
         \A t \in {"team", "color"} : Asks(U, t) => Asks(U2, t)
  PROVE  Takes(m, saved, p, S, G, U, p, S2, G2, U2)
<1> SUFFICES ASSUME NEW v \in Views, Agrees(v, p, S, G, U)
             PROVE  Agrees(After(v, m, saved), p, S2, G2, U2)
  BY DEF Takes
<1> DEFINE a == After(v, m, saved)
<1>1. a.self = v.self /\ a.list = v.list /\ a.settings = G2
  BY DEF After, ListAfter, Agrees
<1>2. \A q \in Slots : S2[q].kind = S[q].kind /\ S2[q].team = S[q].team /\ S2[q].color = S[q].color
  BY DEF SameLooks, Look
<1> HIDE DEF a
<1>3. Agrees(a, p, S2, G2, U2)
  BY <1>1, <1>2 DEF Agrees
<1> QED BY <1>3 DEF a

(* Two players change their slots, in a saved game. *)
LEMMA TakesSwap ==
  ASSUME NEW saved, NEW p \in Slots, NEW S, NEW G, NEW U, NEW S2,
         NEW x \in Slots, NEW y \in Slots, x # y,
         \A q \in Slots : S2[q].team = S[q].team /\ S2[q].color = S[q].color,
         \A q \in Slots \ {x, y} : S2[q].kind = S[q].kind,
         S2[x].kind = S[y].kind, S2[y].kind = S[x].kind,
         "reserved" \notin {S[x].kind, S[y].kind},
         ~Asks(U, "team"), ~Asks(U, "color"),
         NEW m, m.type = "swap", m.slot = x, m.with = y
  PROVE  Takes(m, saved, p, S, G, U, Moved(p, x, y), S2, G, U)
<1> SUFFICES ASSUME NEW v \in Views, Agrees(v, p, S, G, U)
             PROVE  Agrees(After(v, m, saved), Moved(p, x, y), S2, G, U)
  BY DEF Takes
<1> DEFINE a == After(v, m, saved)
           l == v.list
<1>1. l \in [Slots -> Looks]
  BY DEF Views
<1>2. \A q \in Slots : /\ Shows(l[q].kind, S[q].kind)
                       /\ l[q].team = S[q].team /\ l[q].color = S[q].color
  BY DEF Agrees
<1>3. l[x].kind = S[x].kind /\ l[y].kind = S[y].kind
  BY <1>2 DEF Shows
<1>4. a.self = Moved(p, x, y) /\ a.settings = G
  BY DEF After, Agrees
<1>5. a.list = WithKind(WithKind(l, x, l[y].kind), y, l[x].kind)
  BY DEF After, ListAfter
<1> HIDE DEF a, l
<1>6. /\ a.list[x].kind = l[y].kind /\ a.list[y].kind = l[x].kind
      /\ \A q \in Slots \ {x, y} : a.list[q].kind = l[q].kind
      /\ \A q \in Slots : a.list[q].team = l[q].team /\ a.list[q].color = l[q].color
  <2> DEFINE l2 == WithKind(l, x, l[y].kind)
  <2>1. l2 \in [Slots -> Looks]
    BY <1>1, WithKindType DEF Looks
  <2>2. /\ l2[x].kind = l[y].kind /\ \A q \in Slots \ {x} : l2[q].kind = l[q].kind
        /\ \A q \in Slots : l2[q].team = l[q].team /\ l2[q].color = l[q].color
    BY <1>1 DEF WithKind
  <2> DEFINE l3 == WithKind(l2, y, l[x].kind)
  <2> HIDE DEF l2
  <2>3. /\ l3[y].kind = l[x].kind /\ \A q \in Slots \ {y} : l3[q].kind = l2[q].kind
        /\ \A q \in Slots : l3[q].team = l2[q].team /\ l3[q].color = l2[q].color
    BY <2>1 DEF WithKind
  <2>4. a.list = l3
    BY <1>5 DEF l2
  <2> HIDE DEF l3
  <2> QED BY <2>2, <2>3, <2>4
<1>7. ASSUME NEW q \in Slots
      PROVE  /\ Shows(a.list[q].kind, S2[q].kind)
             /\ a.list[q].team = S2[q].team /\ a.list[q].color = S2[q].color
  <2>1. CASE q \in {x, y}
    <3>1. a.list[q].kind = S2[q].kind /\ S2[q].kind # "reserved"
      BY <1>3, <1>6, <2>1
    <3> QED BY <1>2, <1>6, <3>1 DEF Shows
  <2>2. CASE q \notin {x, y}
    BY <1>2, <1>6, <2>2
  <2> QED BY <2>1, <2>2
<1>8. Agrees(a, Moved(p, x, y), S2, G, U)
  BY <1>4, <1>7 DEF Agrees
<1> QED BY <1>8 DEF a

(* Who has joined gets the list. *)
LEMMA JoinerOK ==
  ASSUME NEW p \in Slots, NEW S \in [Slots -> Slot], NEW g \in Settings, NEW L,
         Timeouts => \A q \in Slots : S[q].kind # "reserved",
         NEW saved \in BOOLEAN, NEW X
  PROVE  ClientOK(p, S, g, <<[type |-> "list", list |-> S]>>, <<>>, "joining", p, L, g, saved, X)
<1> DEFINE v == [list |-> [q \in Slots |-> Look(S[q])], self |-> p, settings |-> g]
           m == [type |-> "list", list |-> S]
<1>1. v \in Views
  BY DEF Views, Looks, Look, Slot
<1>2. m \in Message /\ <<>> \in Seq(Message) /\ m.type # "start"
  BY DEF Message
<1>3. Leads(v, Append(<<>>, m), After(v, m, saved), saved, X)
  <2> HIDE DEF v, m
  <2>1. Leads(v, <<>>, v, saved, X)
    BY <1>1, LeadsNone
  <2> QED BY <1>1, <1>2, <2>1, LeadsOn
<1>4. After(v, m, saved) = v
  BY DEF After, ListAfter
<1>5. Append(<<>>, m) = <<m>>
  OBVIOUS
<1>6. Tied(v, L, p, g, "joining", <<m>>, <<>>)
  BY DEF Tied
<1>7. Agrees(v, p, S, g, <<>>)
  BY DEF Agrees, Look, Shows
<1> QED BY <1>1, <1>3, <1>4, <1>5, <1>6, <1>7 DEF ClientOK

-----------------------------------------------------------------------------
(* A client reads a message, or chooses something.                         *)
LooksOf(L) == [q \in Slots |-> Look(L[q])]

LEMMA AsksTail ==
  ASSUME NEW D \in Seq(Message), D # <<>>, NEW t, NEW s,
         Echoes(D, t, s), ~ (Head(D).type = t /\ Head(D).slot = s)
  PROVE  Echoes(Tail(D), t, s)
<1>1. PICK i \in 1..Len(D) : D[i].type = t /\ D[i].slot = s
  BY DEF Echoes
<1>2. i # 1
  BY <1>1
<1>3. i - 1 \in 1..Len(Tail(D)) /\ Tail(D)[i - 1] = D[i]
  BY <1>2
<1> QED BY <1>1, <1>3 DEF Echoes

(* Two lists which are alike stay so. *)
AlikeBut(l, L, s, D, U) == \A q \in Slots : SameLook(l[q], L[q], s, D, U, q)

LEMMA ReadList2 ==
  ASSUME NEW l \in [Slots -> Looks], NEW L \in [Slots -> Looks], NEW s \in Slots,
         NEW D \in Seq(Message), D # <<>>, NEW U, NEW saved \in BOOLEAN,
         Head(D).type = "list" \/ AlikeBut(l, L, s, D, U), Head(D).type # "swap"
  PROVE  AlikeBut(ListAfter(l, Head(D), saved), ListAfter(L, Head(D), saved), s, Tail(D), U)
<1> DEFINE m == Head(D)
           a == ListAfter(l, m, saved)
           A == ListAfter(L, m, saved)
<1>1. m \in Message
  OBVIOUS
<1>2. CASE m.type = "list"
  BY <1>2 DEF ListAfter, AlikeBut, SameLook
<1>3. CASE m.type # "list"
  <2>1. AlikeBut(l, L, s, D, U)
    BY <1>3
  <2>2. \A t : Pending(D, U, t, s) /\ ~(m.type = t /\ m.slot = s) => Pending(Tail(D), U, t, s)
    BY AsksTail DEF Pending
  <2>3. CASE m.type \in {"ready", "settings", "start"}
    <3>1. a = l /\ A = L
      BY <2>3 DEF ListAfter
    <3> QED BY <2>1, <2>2, <2>3, <3>1 DEF AlikeBut, SameLook
  <2>4. CASE m.type \in {"new", "state", "kicked"}
    <3>1. m.slot \in Slots
      BY <1>1, <2>4, MessageKinds
    <3>2. l[m.slot].kind = L[m.slot].kind
      BY <2>1, <3>1 DEF AlikeBut, SameLook
    <3>3. PICK k : a = WithKind(l, m.slot, k) /\ A = WithKind(L, m.slot, k)
      BY <2>4, <3>2 DEF ListAfter
    <3>4. \A q \in Slots \ {m.slot} : a[q] = l[q] /\ A[q] = L[q]
      BY <3>1, <3>3 DEF WithKind
    <3>5. /\ a[m.slot].kind = A[m.slot].kind
          /\ a[m.slot].team = l[m.slot].team /\ a[m.slot].color = l[m.slot].color
          /\ A[m.slot].team = L[m.slot].team /\ A[m.slot].color = L[m.slot].color
      BY <3>1, <3>3 DEF WithKind
    <3> HIDE DEF a, A, m
    <3>6. AlikeBut(a, A, s, Tail(D), U)
      BY <2>1, <2>2, <2>4, <3>4, <3>5 DEF AlikeBut, SameLook
    <3> QED BY <3>6 DEF a, A, m
  <2>5. CASE m.type \in {"team", "color"}
    <3>1. m.slot \in Slots
      BY <1>1, <2>5, MessageKinds
    <3>2. \A q \in Slots \ {m.slot} : a[q] = l[q] /\ A[q] = L[q]
      BY <2>5, <3>1 DEF ListAfter
    <3>3. a[m.slot].kind = l[m.slot].kind /\ A[m.slot].kind = L[m.slot].kind
      BY <2>5, <3>1 DEF ListAfter
    <3>4. m.type = "team" => /\ a[m.slot].team = A[m.slot].team
                             /\ a[m.slot].color = l[m.slot].color
                             /\ A[m.slot].color = L[m.slot].color
      BY <2>5, <3>1 DEF ListAfter
    <3>5. m.type = "color" => /\ a[m.slot].color = A[m.slot].color
                              /\ a[m.slot].team = l[m.slot].team
                              /\ A[m.slot].team = L[m.slot].team
      BY <2>5, <3>1 DEF ListAfter
    <3> HIDE DEF a, A, m
    <3>6. AlikeBut(a, A, s, Tail(D), U)
      BY <2>1, <2>2, <2>5, <3>2, <3>3, <3>4, <3>5 DEF AlikeBut, SameLook
    <3> QED BY <3>6 DEF a, A, m
  <2> QED BY <1>1, <1>3, <2>3, <2>4, <2>5, MessageKinds
<1> QED BY <1>2, <1>3

LEMMA ReadSwap2 ==
  ASSUME NEW l \in [Slots -> Looks], NEW L \in [Slots -> Looks], NEW s, NEW s2,
         NEW D \in Seq(Message), D # <<>>, NEW U, NEW saved \in BOOLEAN,
         AlikeBut(l, L, s, D, U), Head(D).type = "swap",
         ~Pending(D, U, "team", s), ~Pending(D, U, "color", s)
  PROVE  AlikeBut(ListAfter(l, Head(D), saved), ListAfter(L, Head(D), saved), s2, Tail(D), U)
<1> DEFINE m == Head(D)
<1>1. m \in Message
  OBVIOUS
<1>2. m.slot \in Slots /\ m.with \in Slots
  BY <1>1, MessageKinds
<1>3. \A q \in Slots : l[q] = L[q]
  <2>1. \A q \in Slots : l[q].kind = L[q].kind /\ l[q].team = L[q].team /\ l[q].color = L[q].color
    BY DEF AlikeBut, SameLook
  <2> QED BY <2>1 DEF Looks
<1>4. l = L
  BY <1>3
<1> QED BY <1>4 DEF AlikeBut, SameLook

LEMMA LooksOfType ==
  ASSUME NEW L \in [Slots -> Slot]
  PROVE  /\ LooksOf(L) \in [Slots -> Looks]
         /\ \A q \in Slots : /\ LooksOf(L)[q].kind = L[q].kind
                             /\ LooksOf(L)[q].team = L[q].team
                             /\ LooksOf(L)[q].color = L[q].color
BY DEF LooksOf, Look, Looks, Slot

LEMMA TiedAlike ==
  ASSUME NEW v, NEW L \in [Slots -> Slot], NEW s, NEW g, NEW ph, NEW D, NEW U
  PROVE  Tied(v, L, s, g, ph, D, U) <=>
           /\ v.self = s /\ v.settings = g
           /\ ph # "joining" => AlikeBut(v.list, LooksOf(L), s, D, U)
<1>1. \A q \in Slots : SameLook(v.list[q], L[q], s, D, U, q) <=>
                       SameLook(v.list[q], LooksOf(L)[q], s, D, U, q)
  BY LooksOfType DEF SameLook
<1> QED BY <1>1 DEF Tied, AlikeBut

(* A client reads message m = Head(D). *)
Reads(m, D, U, ph, s, L, g, saved, U2, ph2, s2, L2, g2) ==
  /\ \A t \in {"team", "color"} : Asks(U2, t) <=> Asks(U, t)
  /\ s2 = IF m.type = "swap" THEN Moved(s, m.slot, m.with) ELSE s
  /\ g2 = IF m.type = "settings" THEN m.settings ELSE g
  /\ LooksOf(L2) = ListAfter(LooksOf(L), m, saved)
  /\ ph2 = "joining" \/ ph # "joining" \/ m.type = "list"
  /\ m.type = "swap" => ~Pending(D, U, "team", s) /\ ~Pending(D, U, "color", s)

LEMMA ReadOK ==
  ASSUME NEW p, NEW S, NEW G, NEW D \in Seq(Message), D # <<>>, NEW U, NEW ph,
         NEW s \in Slots, NEW L \in [Slots -> Slot], NEW g, NEW saved \in BOOLEAN, NEW X,
         ClientOK(p, S, G, D, U, ph, s, L, g, saved, X),
         NEW U2, NEW ph2, NEW s2 \in Slots, NEW L2 \in [Slots -> Slot], NEW g2,
         Reads(Head(D), D, U, ph, s, L, g, saved, U2, ph2, s2, L2, g2)
  PROVE  ClientOK(p, S, G, Tail(D), U2, ph2, s2, L2, g2, saved, X)
<1>0. /\ \A t \in {"team", "color"} : Asks(U2, t) <=> Asks(U, t)
      /\ s2 = IF Head(D).type = "swap" THEN Moved(s, Head(D).slot, Head(D).with) ELSE s
      /\ g2 = IF Head(D).type = "settings" THEN Head(D).settings ELSE g
      /\ LooksOf(L2) = ListAfter(LooksOf(L), Head(D), saved)
      /\ ph2 = "joining" \/ ph # "joining" \/ Head(D).type = "list"
      /\ Head(D).type = "swap" => ~Pending(D, U, "team", s) /\ ~Pending(D, U, "color", s)
  BY DEF Reads
<1>1. PICK v \in Views, w \in Views :
        /\ Leads(v, D, w, saved, X)
        /\ Tied(v, L, s, g, ph, D, U)
        /\ Agrees(w, p, S, G, U)
  BY DEF ClientOK
<1> DEFINE m == Head(D)
           a == After(v, m, saved)
<1>2. m \in Message
  OBVIOUS
<1>3. a \in Views
  BY <1>2, AfterType
<1>4. Leads(a, Tail(D), w, saved, X)
  BY <1>1, LeadsAfter
<1>5. Agrees(w, p, S, G, U2)
  <2>1. (Asks(U2, "team") <=> Asks(U, "team")) /\ (Asks(U2, "color") <=> Asks(U, "color"))
    BY <1>0
  <2> QED BY <1>1, <2>1 DEF Agrees
<1>6. v.self = s /\ v.settings = g /\ (ph # "joining" => AlikeBut(v.list, LooksOf(L), s, D, U))
  BY <1>1, TiedAlike
<1>7. a.self = s2 /\ a.settings = g2 /\ a.list = ListAfter(v.list, m, saved)
  BY <1>0, <1>6 DEF After
<1>8. ph2 # "joining" => AlikeBut(a.list, LooksOf(L2), s2, Tail(D), U)
  <2> SUFFICES ASSUME ph2 # "joining"
               PROVE  AlikeBut(ListAfter(v.list, m, saved), ListAfter(LooksOf(L), m, saved), s2, Tail(D), U)
    BY <1>0, <1>7
  <2>1. v.list \in [Slots -> Looks] /\ LooksOf(L) \in [Slots -> Looks]
    BY LooksOfType DEF Views
  <2>2. m.type = "list" \/ AlikeBut(v.list, LooksOf(L), s, D, U)
    BY <1>0, <1>6
  <2>3. CASE m.type = "swap"
    BY <1>0, <2>1, <2>2, <2>3, ReadSwap2
  <2>4. CASE m.type # "swap"
    BY <1>0, <2>1, <2>2, <2>4, ReadList2
  <2> QED BY <2>3, <2>4
<1>9. ph2 # "joining" => AlikeBut(a.list, LooksOf(L2), s2, Tail(D), U2)
  <2>1. (Asks(U2, "team") <=> Asks(U, "team")) /\ (Asks(U2, "color") <=> Asks(U, "color"))
    BY <1>0
  <2> QED BY <1>8, <2>1 DEF AlikeBut, SameLook, Pending
<1>10. Tied(a, L2, s2, g2, ph2, Tail(D), U2)
  BY <1>7, <1>9, TiedAlike
<1> QED BY <1>3, <1>4, <1>5, <1>10 DEF ClientOK

(* A client's own choice, of which the server will hear. *)
LEMMA ChooseOK ==
  ASSUME NEW p, NEW S, NEW G, NEW D, NEW U, NEW ph, NEW s, NEW L, NEW g, NEW saved, NEW X,
         ClientOK(p, S, G, D, U, ph, s, L, g, saved, X),
         NEW U2, NEW L2,
         \A t \in {"team", "color"} : Asks(U, t) => Asks(U2, t),
         \A q \in Slots : L2[q].kind = L[q].kind,
         \A q \in Slots : (q = s /\ Asks(U2, "team")) \/ L2[q].team = L[q].team,
         \A q \in Slots : (q = s /\ Asks(U2, "color")) \/ L2[q].color = L[q].color
  PROVE  ClientOK(p, S, G, D, U2, ph, s, L2, g, saved, X)
<1>1. PICK v \in Views, w \in Views :
        /\ Leads(v, D, w, saved, X)
        /\ Tied(v, L, s, g, ph, D, U)
        /\ Agrees(w, p, S, G, U)
  BY DEF ClientOK
<1>2. (Asks(U, "team") => Asks(U2, "team")) /\ (Asks(U, "color") => Asks(U2, "color"))
  OBVIOUS
<1>3. Agrees(w, p, S, G, U2)
  BY <1>1, <1>2 DEF Agrees
<1>4. ASSUME NEW q \in Slots, SameLook(v.list[q], L[q], s, D, U, q)
      PROVE  SameLook(v.list[q], L2[q], s, D, U2, q)
  BY <1>2, <1>4 DEF SameLook, Pending
<1>5. Tied(v, L2, s, g, ph, D, U2)
  BY <1>1, <1>4 DEF Tied
<1> QED BY <1>1, <1>3, <1>5 DEF ClientOK

(* A client which is told to start does so from X. *)
StartedOK(b, X) ==
  b # <<>> => /\ b[1].settings = X.settings
              /\ \A q \in Slots \ {b[1].self} : Shown(b[1].list[q]) = X.list[q]

(* Who begins now begins from X. *)
Begins(L, s, g, X) == g = X.settings /\ \A q \in Slots \ {s} : Shown(L[q]) = X.list[q]

LEMMA StartsAlike ==
  ASSUME NEW p, NEW S, NEW G, NEW D \in Seq(Message), D # <<>>, NEW U, NEW ph,
         NEW s, NEW L, NEW g, NEW saved \in BOOLEAN, NEW X,
         ClientOK(p, S, G, D, U, ph, s, L, g, saved, X),
         Head(D).type = "start", ph # "joining"
  PROVE  Begins(L, s, g, X)
<1>1. PICK v \in Views, w \in Views :
        Leads(v, D, w, saved, X) /\ Tied(v, L, s, g, ph, D, U)
  BY DEF ClientOK
<1>2. Alike(v, X)
  BY <1>1, LeadsAfter
<1>3. \A q \in Slots \ {s} : /\ v.list[q].kind = L[q].kind
                            /\ v.list[q].team = L[q].team
                            /\ v.list[q].color = L[q].color
  BY <1>1 DEF Tied, SameLook
<1>4. \A q \in Slots \ {s} : Shown(v.list[q]) = Shown(L[q])
  BY <1>3 DEF Shown
<1> QED BY <1>1, <1>2, <1>4 DEF Alike, Tied, Begins

(* A client for which nothing is under way. *)
LEMMA NothingOnItsWay ==
  ASSUME NEW p, NEW S, NEW G, NEW ph, NEW s, NEW L, NEW g, NEW saved, NEW X,
         ClientOK(p, S, G, <<>>, <<>>, ph, s, L, g, saved, X), ph # "joining"
  PROVE  SameLists(L, S) /\ g = G /\ s = p
<1>1. PICK v \in Views :
        Tied(v, L, s, g, ph, <<>>, <<>>) /\ Agrees(v, p, S, G, <<>>)
  BY LeadsNowhere DEF ClientOK
<1>2. ~Asks(<<>>, "team") /\ ~Asks(<<>>, "color")
  BY DEF Asks
<1>3. \A t, q : ~Echoes(<<>>, t, q)
  BY DEF Echoes
<1>4. \A q \in Slots : /\ L[q].team = S[q].team /\ L[q].color = S[q].color
                       /\ Shows(L[q].kind, S[q].kind)
  BY <1>1, <1>2, <1>3 DEF Tied, Agrees, SameLook, Pending
<1>5. SameLists(L, S)
  BY <1>4 DEF SameLists, Shown, Shows
<1> QED BY <1>1, <1>5 DEF Tied, Agrees

-----------------------------------------------------------------------------
(* The invariant.                                                          *)

(* In a saved game nobody's team or colour changes, in a new one nobody is *)
(* moved.                                                                  *)
Told(saved) == {m \in Message : m.type \notin IF saved THEN {"team", "color"} ELSE {"swap"}}

Typed ==
  /\ status \in {"config", "game"} /\ counting \in BOOLEAN /\ ops \in Nat
  /\ ggs \in Settings /\ cggs \in [Clients -> Settings]
  /\ down \in [Clients -> Seq(Told(savegame))]
  /\ phase \in [Clients -> {"out", "joining", "lobby", "game", "gone"}]
  /\ self \in [Clients -> Slots]
  /\ list \in [Clients -> [Slots -> Slot]]
  /\ started \in [Clients -> Seq(Beginning)]

(* Clients which may be in a reserved slot now or later. *)
Fresh(c) == phase[c] = "out" \/ \E p \in Slots : conn[p] = c /\ slot[p].kind = "reserved"

NoStart(D) == \A i \in 1..Len(D) : D[i].type # "start"

(* Who is where, and how far. *)
Places ==
  /\ \A p, q \in Slots : conn[p] = conn[q] /\ conn[p] # Nobody => p = q
  /\ \A p \in Slots : slot[p].kind \in {"reserved", "occupied"} => conn[p] # Nobody
  /\ \A c \in Clients : phase[c] \in {"out", "gone"} =>
                          down[c] = <<>> /\ up[c] = <<>> /\ \A p \in Slots : conn[p] # c
  /\ \A c \in Clients : phase[c] \notin {"out", "gone"} => \E p \in Slots : conn[p] = c
  /\ ~savegame => \A p \in Slots : conn[p] # Nobody => self[conn[p]] = p

Joins ==
  /\ \A p \in Slots : slot[p].kind = "reserved" =>
       /\ phase[conn[p]] = "joining" /\ self[conn[p]] = p
       /\ down[conn[p]] = <<>> /\ up[conn[p]] = <<>>
  /\ \A p \in Slots : slot[p].kind = "occupied" /\ phase[conn[p]] = "joining" =>
       down[conn[p]] # <<>> /\ Head(down[conn[p]]).type = "list"
  /\ phase[Host] \in {"lobby", "game"}
  /\ Timeouts => \A c, d \in Clients : Fresh(c) /\ Fresh(d) => c = d

NotYet == status = "config" => \A c \in Clients : started[c] = <<>> /\ NoStart(down[c])

SeatOK(p, X) ==
  slot[p].kind = "occupied" =>
    ClientOK(p, slot, ggs, down[conn[p]], up[conn[p]], phase[conn[p]], self[conn[p]],
             list[conn[p]], cggs[conn[p]], savegame, X)

ViewsOK(X) ==
  /\ \A p \in Slots : SeatOK(p, X)
  /\ \A c \in Clients \ {Host} : StartedOK(started[c], X)

LInv == Inv /\ Typed /\ Places /\ Joins /\ NotYet /\ \E X : ViewsOK(X)

(* The games in which the code keeps the lists equal. *)
Orderly ==
  /\ ~Swaps /\ ~Meddles
  /\ Timeouts => \A o \in Openings : \A c, d \in o.guests : c = d

-----------------------------------------------------------------------------
(* Messages. *)
LEMMA ToldMessages ==
  ASSUME NEW saved \in BOOLEAN
  PROVE  /\ Told(saved) \subseteq Message
         /\ Seq(Told(saved)) \subseteq Seq(Message)
         /\ \A m \in Message : m.type \notin {"team", "color", "swap"} => m \in Told(saved)
         /\ ~saved => \A m \in Message : m.type # "swap" => m \in Told(saved)
         /\ saved => \A m \in Message : m.type \notin {"team", "color"} => m \in Told(saved)
<1>1. Told(saved) \subseteq Message
  BY DEF Told
<1>2. \A m \in Message : /\ m.type \notin {"team", "color", "swap"} => m \in Told(saved)
                         /\ ~saved /\ m.type # "swap" => m \in Told(saved)
                         /\ saved /\ m.type \notin {"team", "color"} => m \in Told(saved)
  BY DEF Told
<1>3. Seq(Told(saved)) \subseteq Seq(Message)
  BY <1>1
<1> QED BY <1>1, <1>2, <1>3

LEMMA Messages ==
  ASSUME NEW p \in Slots, NEW q \in Slots, NEW b \in BOOLEAN, NEW t \in Teams, NEW x \in Colors,
         NEW g \in Settings, NEW S \in [Slots -> Slot]
  PROVE  /\ [type |-> "list", list |-> S] \in Message
         /\ [type |-> "new", slot |-> p] \in Message
         /\ [type |-> "state", slot |-> p] \in Message
         /\ [type |-> "kicked", slot |-> p] \in Message
         /\ [type |-> "team", slot |-> p, team |-> t] \in Message
         /\ [type |-> "color", slot |-> p, color |-> x] \in Message
         /\ [type |-> "ready", slot |-> p, ready |-> b] \in Message
         /\ [type |-> "swap", slot |-> p, with |-> q] \in Message
         /\ [type |-> "settings", settings |-> g] \in Message
         /\ [type |-> "start"] \in Message
BY DEF Message

LEMMA ToAllAt ==
  ASSUME NEW A, NEW D \in [Clients -> Seq(A)], NEW S, NEW C, NEW m \in A
  PROVE  /\ ToAll(D, S, C, m) \in [Clients -> Seq(A)]
         /\ \A c \in Clients : ToAll(D, S, C, m)[c] =
              IF \E p \in Slots : S[p].kind = "occupied" /\ C[p] = c THEN Append(D[c], m) ELSE D[c]
BY DEF ToAll, Receives

LEMMA ToAllHere ==
  ASSUME NEW D, NEW S, NEW C, NEW m, NEW c \in Clients
  PROVE  ToAll(D, S, C, m)[c] =
           IF \E p \in Slots : S[p].kind = "occupied" /\ C[p] = c THEN Append(D[c], m) ELSE D[c]
BY DEF ToAll, Receives

LEMMA ToAllSame ==
  ASSUME NEW D, NEW S, NEW S2, NEW C, NEW m,
         \A q \in Slots : S[q].kind = "occupied" <=> S2[q].kind = "occupied"
  PROVE  ToAll(D, S, C, m) = ToAll(D, S2, C, m)
BY DEF ToAll, Receives

(* E is D with more behind it, the start of the game aside. *)
Grown(D, E) ==
  /\ D # <<>> => E # <<>> /\ Head(E) = Head(D)
  /\ NoStart(D) => NoStart(E)

LEMMA GrownOn ==
  ASSUME NEW D \in Seq(Message), NEW m \in Message, m.type # "start"
  PROVE  Grown(D, Append(D, m))
<1>1. Len(Append(D, m)) = Len(D) + 1 /\ Append(D, m)[Len(D) + 1] = m
  OBVIOUS
<1>2. \A i \in 1..Len(D) : Append(D, m)[i] = D[i]
  OBVIOUS
<1>3. D # <<>> => Append(D, m) # <<>> /\ Head(Append(D, m)) = Head(D)
  OBVIOUS
<1>4. NoStart(D) => NoStart(Append(D, m))
  <2>1. \A i \in 1..(Len(D) + 1) : i \in 1..Len(D) \/ i = Len(D) + 1
    OBVIOUS
  <2> QED BY <1>1, <1>2, <2>1 DEF NoStart
<1> QED BY <1>3, <1>4 DEF Grown

(* Where nobody comes or goes. *)
Settled(S, S2) ==
  \A p \in Slots : "reserved" \in {S[p].kind, S2[p].kind} \/ "occupied" \in {S[p].kind, S2[p].kind}
                     => S2[p].kind = S[p].kind

LEMMA NobodyMoves ==
  ASSUME Inv, Typed, Places, Joins, NotYet,
         UNCHANGED <<conn, phase, self, started, savegame, status>>, Settled(slot, slot'),
         \A c \in Clients : Grown(down[c], down'[c]),
         \A c \in Clients : (\A p \in Slots : conn[p] = c => slot[p].kind # "occupied") =>
                              down'[c] = down[c] /\ up'[c] = up[c]
  PROVE  Places' /\ Joins' /\ NotYet'
<1>0. \A p \in Slots : slot'[p].kind \in {"reserved", "occupied"} => slot'[p].kind = slot[p].kind
  BY DEF Settled
<1>00. \A p \in Slots : slot[p].kind \in {"reserved", "occupied"} => slot'[p].kind = slot[p].kind
  BY DEF Settled
<1>1. Places'
  <2>1. \A c \in Clients : phase[c] \in {"out", "gone"} => down'[c] = down[c] /\ up'[c] = up[c]
    BY DEF Places
  <2> QED BY <1>0, <2>1 DEF Places
<1>2. Joins'
  <2>1. \A p \in Slots : slot[p].kind \in {"reserved", "occupied"} => conn[p] \in Clients
    BY DEF Places, Inv
  <2>2. ASSUME NEW p \in Slots, slot'[p].kind = "reserved"
        PROVE  /\ phase[conn[p]] = "joining" /\ self[conn[p]] = p
               /\ down'[conn[p]] = <<>> /\ up'[conn[p]] = <<>>
    <3>1. slot[p].kind = "reserved" /\ conn[p] \in Clients
      BY <1>0, <2>1, <2>2
    <3>2. \A q \in Slots : conn[q] = conn[p] => slot[q].kind # "occupied"
      BY <3>1 DEF Places
    <3> QED BY <3>1, <3>2 DEF Joins
  <2>3. ASSUME NEW p \in Slots, slot'[p].kind = "occupied", phase[conn[p]] = "joining"
        PROVE  down'[conn[p]] # <<>> /\ Head(down'[conn[p]]).type = "list"
    BY <1>0, <2>1, <2>3 DEF Joins, Grown
  <2>4. \A c \in Clients : Fresh(c)' => Fresh(c)
    BY <1>0 DEF Fresh
  <2> QED BY <2>2, <2>3, <2>4 DEF Joins
<1>3. NotYet'
  BY DEF NotYet, Grown
<1> QED BY <1>1, <1>2, <1>3

(* The server tells everybody what has changed. *)
LEMMA SayViews ==
  ASSUME Inv, Typed, Places,
         UNCHANGED <<conn, phase, self, list, cggs, started, savegame>>,
         NEW m \in Told(savegame), m.type # "start",
         down' = ToAll(down, slot, conn, m), Settled(slot, slot'),
         \A p \in Slots : slot[p].kind = "occupied" =>
           /\ Takes(m, savegame, p, slot, ggs, up[conn[p]], p, slot', ggs', up'[conn[p]])
           /\ \A t \in {"team", "color"} : Asks(up[conn[p]], t) =>
                Asks(up'[conn[p]], t) \/ (m.type = t /\ m.slot = self[conn[p]]),
         NEW X, ViewsOK(X)
  PROVE  ViewsOK(X)'
<1>1. savegame \in BOOLEAN /\ m \in Message /\ down \in [Clients -> Seq(Told(savegame))]
  BY ToldMessages DEF Inv, Typed
<1>2. ASSUME NEW p \in Slots, slot'[p].kind = "occupied"
      PROVE  ClientOK(p, slot', ggs', down'[conn[p]], up'[conn[p]], phase[conn[p]], self[conn[p]],
                      list[conn[p]], cggs[conn[p]], savegame, X)
  <2>1. slot[p].kind = "occupied"
    BY <1>2 DEF Settled
  <2>2. conn[p] \in Clients
    BY <2>1 DEF Places, Inv
  <2>3. down'[conn[p]] = Append(down[conn[p]], m)
    <3>1. down'[conn[p]] = IF \E q \in Slots : slot[q].kind = "occupied" /\ conn[q] = conn[p]
                             THEN Append(down[conn[p]], m) ELSE down[conn[p]]
      BY <2>2, ToAllHere
    <3> QED BY <2>1, <3>1
  <2>4. down[conn[p]] \in Seq(Message)
    BY <1>1, <2>2, ToldMessages
  <2>5. ClientOK(p, slot, ggs, down[conn[p]], up[conn[p]], phase[conn[p]], self[conn[p]],
                 list[conn[p]], cggs[conn[p]], savegame, X)
    BY <2>1 DEF ViewsOK, SeatOK
  <2>6. /\ Takes(m, savegame, p, slot, ggs, up[conn[p]], p, slot', ggs', up'[conn[p]])
        /\ \A t \in {"team", "color"} : Asks(up[conn[p]], t) =>
             Asks(up'[conn[p]], t) \/ (m.type = t /\ m.slot = self[conn[p]])
    BY <2>1
  <2> QED BY <1>1, <2>3, <2>4, <2>5, <2>6, Broadcast
<1>3. \A p \in Slots : SeatOK(p, X)'
  BY <1>2 DEF SeatOK
<1>4. \A c \in Clients \ {Host} : StartedOK(started[c], X)'
  BY DEF ViewsOK, StartedOK
<1> QED BY <1>3, <1>4 DEF ViewsOK

LEMMA SayPlaces ==
  ASSUME Inv, Typed, Places, Joins, NotYet,
         UNCHANGED <<conn, phase, self, started, savegame, status>>,
         NEW m \in Told(savegame), m.type # "start",
         down' = ToAll(down, slot, conn, m), Settled(slot, slot'),
         \A c \in Clients : (\A p \in Slots : conn[p] = c => slot[p].kind # "occupied") =>
                              up'[c] = up[c]
  PROVE  Places' /\ Joins' /\ NotYet'
<1>1. savegame \in BOOLEAN /\ m \in Message /\ down \in [Clients -> Seq(Told(savegame))]
  BY ToldMessages DEF Inv, Typed
<1>2. ASSUME NEW c \in Clients
      PROVE  /\ Grown(down[c], down'[c])
             /\ (\A p \in Slots : conn[p] = c => slot[p].kind # "occupied") => down'[c] = down[c]
  <2>1. down'[c] = IF \E p \in Slots : slot[p].kind = "occupied" /\ conn[p] = c
                     THEN Append(down[c], m) ELSE down[c]
    BY ToAllHere
  <2>2. down[c] \in Seq(Message)
    BY <1>1, ToldMessages
  <2>3. Grown(down[c], down[c])
    BY DEF Grown
  <2> QED BY <1>1, <2>1, <2>2, <2>3, GrownOn
<1> QED BY <1>2, NobodyMoves

-----------------------------------------------------------------------------
(* The server's actions. *)

(* What nobody has asked for. *)
LEMMA Announced ==
  ASSUME LInv, Inv',
         UNCHANGED <<conn, up, phase, self, list, cggs, started, savegame, status, counting>>,
         ops' \in Nat, ggs' \in Settings,
         NEW m \in Told(savegame), m.type # "start",
         down' = ToAll(down, slot, conn, m), Settled(slot, slot'),
         \A p \in Slots : slot[p].kind = "occupied" =>
           Takes(m, savegame, p, slot, ggs, up[conn[p]], p, slot', ggs', up[conn[p]])
  PROVE  LInv'
<1>1. PICK X : ViewsOK(X)
  BY DEF LInv
<1>2. Inv /\ Typed /\ Places /\ Joins /\ NotYet
  BY DEF LInv
<1>3. ViewsOK(X)'
  BY <1>1, <1>2, SayViews
<1>4. Places' /\ Joins' /\ NotYet'
  BY <1>2, SayPlaces
<1>5. Typed'
  BY <1>2, ToAllAt DEF Typed
<1>6. (\E Y : ViewsOK(Y))'
  BY <1>3
<1> QED BY <1>4, <1>5, <1>6 DEF LInv

LEMMA SlotType ==
  ASSUME Inv, NEW p \in Slots
  PROVE  /\ slot[p] \in Slot /\ slot \in [Slots -> Slot]
         /\ slot[p].kind \in Kinds /\ slot[p].team \in Teams /\ slot[p].color \in Colors
BY DEF Inv, Fine, Painters, Slot

LEMMA ChangeSettingsLists ==
  ASSUME LInv, Inv', UNCHANGED savegame, NEW g \in Settings, ChangeSettings(g)
  PROVE  LInv'
<1> DEFINE m == [type |-> "settings", settings |-> g]
<1>1. m \in Message
  BY DEF Message
<1>2. m \in Told(savegame) /\ m.type # "start"
  BY <1>1, ToldMessages DEF LInv, Inv
<1>3. /\ UNCHANGED <<conn, up, phase, self, list, cggs, started, status, counting, slot>>
      /\ ggs' = g /\ down' = ToAll(down, slot, conn, m) /\ ops' = ops + 1
  BY DEF ChangeSettings, clientVars, Operate
<1>4. \A p \in Slots : Takes(m, savegame, p, slot, ggs, up[conn[p]], p, slot', ggs', up[conn[p]])
  <2>1. SameLooks(slot, slot')
    BY <1>3 DEF SameLooks
  <2>2. m.type = "settings" /\ m.settings = ggs'
    BY <1>3
  <2> HIDE DEF m
  <2> QED BY <2>1, <2>2, TakesNothing
<1>5. Settled(slot, slot')
  BY <1>3 DEF Settled
<1>6. ops' \in Nat
  BY <1>3 DEF LInv, Typed
<1> HIDE DEF m
<1> QED BY <1>2, <1>3, <1>4, <1>5, <1>6, Announced

(* A team or a colour of slot p, which an AI plays, is chosen. *)
LEMMA ChosenFor ==
  ASSUME LInv, Inv', ~savegame,
         UNCHANGED <<conn, ggs, up, phase, self, list, cggs, started, savegame, status, counting>>,
         ops' \in Nat, NEW p \in Slots, OnlyAt(slot, slot', p), slot'[p].kind = slot[p].kind,
         NEW m \in Message, m.slot = p,
         \/ m.type = "team" /\ slot'[p].team = m.team /\ slot'[p].color = slot[p].color
         \/ m.type = "color" /\ slot'[p].color = m.color /\ slot'[p].team = slot[p].team,
         down' = ToAll(down, slot, conn, m)
  PROVE  LInv'
<1>1. m \in Told(savegame) /\ m.type # "start"
  BY ToldMessages DEF LInv, Inv
<1>2. Settled(slot, slot')
  BY DEF Settled, OnlyAt
<1>3. \A q \in Slots : Takes(m, savegame, q, slot, ggs, up[conn[q]], q, slot', ggs, up[conn[q]])
  BY TakesChoice DEF LInv, Inv
<1>4. ggs' \in Settings /\ ggs' = ggs
  BY DEF LInv, Typed
<1> QED BY <1>1, <1>2, <1>3, <1>4, Announced

LEMMA SetAITeamLists ==
  ASSUME LInv, Inv', UNCHANGED savegame, NEW p \in Slots, NEW t \in Teams, SetAITeam(p, t)
  PROVE  LInv'
<1> DEFINE m == [type |-> "team", slot |-> p, team |-> t]
<1>1. m \in Message /\ m.slot = p /\ m.type = "team" /\ m.team = t
  BY DEF Message
<1>2. /\ UNCHANGED <<conn, ggs, up, phase, self, list, cggs, started, status, counting>>
      /\ down' = ToAll(down, slot, conn, m) /\ ops' = ops + 1 /\ ~savegame
      /\ slot' = [slot EXCEPT ![p].team = t]
  BY DEF SetAITeam, clientVars, Operate, ToggleTeam
<1>3. ops' \in Nat
  BY <1>2 DEF LInv, Typed
<1>4. slot \in [Slots -> Slot] /\ slot[p] \in Slot
  BY SlotType DEF LInv
<1>5. /\ OnlyAt(slot, slot', p) /\ slot'[p].kind = slot[p].kind
      /\ slot'[p].team = t /\ slot'[p].color = slot[p].color
  BY <1>2, <1>4 DEF OnlyAt, Slot
<1> HIDE DEF m
<1> QED BY <1>1, <1>2, <1>3, <1>5, ChosenFor

LEMMA PaintedType ==
  ASSUME NEW S \in [Slots -> Slot], NEW p \in Slots
  PROVE  /\ Painted(S, p) \in [Slots -> Slot] /\ OnlyAt(S, Painted(S, p), p)
         /\ Painted(S, p)[p].kind = S[p].kind /\ Painted(S, p)[p].team = S[p].team
         /\ Painted(S, p)[p].color = NextColor(S, p) /\ Painted(S, p)[p].ready = S[p].ready
         /\ ColorMsg(Painted(S, p), p) \in Message
         /\ ColorMsg(Painted(S, p), p).type = "color"
         /\ ColorMsg(Painted(S, p), p).slot = p
         /\ ColorMsg(Painted(S, p), p).color = NextColor(S, p)
<1> DEFINE x == NextColor(S, p)
<1>1. x \in Colors
  BY ColorFound DEF Painters
<1>2. Painted(S, p) = [S EXCEPT ![p].color = x]
  BY DEF Painted
<1> HIDE DEF x
<1>3. S[p] \in Slot
  OBVIOUS
<1>4. /\ Painted(S, p) \in [Slots -> Slot] /\ OnlyAt(S, Painted(S, p), p)
      /\ Painted(S, p)[p].kind = S[p].kind /\ Painted(S, p)[p].team = S[p].team
      /\ Painted(S, p)[p].color = x /\ Painted(S, p)[p].ready = S[p].ready
  BY <1>1, <1>2, <1>3 DEF OnlyAt, Slot
<1>5. ColorMsg(Painted(S, p), p) = [type |-> "color", slot |-> p, color |-> x]
  BY <1>4 DEF ColorMsg
<1>6. [type |-> "color", slot |-> p, color |-> x] \in Message
  BY <1>1 DEF Message
<1> QED BY <1>4, <1>5, <1>6 DEF x

LEMMA SetAIColorLists ==
  ASSUME LInv, Inv', UNCHANGED savegame, NEW p \in Slots, SetAIColor(p)
  PROVE  LInv'
<1> DEFINE T == Painted(slot, p)
           m == ColorMsg(T, p)
<1>1. /\ UNCHANGED <<conn, ggs, up, phase, self, list, cggs, started, status, counting>>
      /\ down' = ToAll(down, slot, conn, m) /\ ops' = ops + 1 /\ ~savegame /\ slot' = T
  BY DEF SetAIColor, clientVars, Operate, ToggleColor
<1>2. ops' \in Nat
  BY <1>1 DEF LInv, Typed
<1>3. slot \in [Slots -> Slot]
  BY SlotType DEF LInv
<1>4. /\ OnlyAt(slot, T, p) /\ T[p].kind = slot[p].kind /\ T[p].team = slot[p].team
      /\ m \in Message /\ m.type = "color" /\ m.slot = p /\ m.color = T[p].color
  BY <1>3, PaintedType
<1> HIDE DEF T, m
<1> QED BY <1>1, <1>2, <1>4, ChosenFor

(* What changes nothing here. *)
LEMMA CountdownLists ==
  ASSUME LInv, Inv', UNCHANGED savegame, StartCountdown \/ CancelCountdown
  PROVE  LInv'
<1>1. /\ UNCHANGED <<status, slot, conn, ggs, down, up, phase, self, list, cggs, ops, started>>
      /\ counting' \in BOOLEAN
  BY DEF StartCountdown, CancelCountdown, clientVars
<1>2. Typed' /\ Places' /\ Joins' /\ NotYet'
  BY <1>1 DEF LInv, Typed, Places, Joins, NotYet, Fresh
<1>3. \A X : ViewsOK(X) => ViewsOK(X)'
  BY <1>1 DEF ViewsOK, SeatOK, StartedOK
<1> QED BY <1>2, <1>3 DEF LInv

(* Two changes at once. *)
LEMMA AnnouncedTwice ==
  ASSUME LInv, Inv',
         UNCHANGED <<conn, ggs, up, phase, self, list, cggs, started, savegame, status, counting>>,
         ops' \in Nat,
         NEW m \in Told(savegame), m.type # "start", NEW S, Settled(slot, S),
         NEW m2 \in Told(savegame), m2.type # "start", Settled(slot, slot'),
         down' = ToAll(ToAll(down, slot, conn, m), S, conn, m2),
         \A p \in Slots : slot[p].kind = "occupied" => S[p].kind = "occupied",
         \A p \in Slots : S[p].kind = "occupied" => slot[p].kind = "occupied",
         \A p \in Slots : slot[p].kind = "occupied" =>
           /\ Takes(m, savegame, p, slot, ggs, up[conn[p]], p, S, ggs, up[conn[p]])
           /\ Takes(m2, savegame, p, S, ggs, up[conn[p]], p, slot', ggs, up[conn[p]])
  PROVE  LInv'
<1>1. PICK X : ViewsOK(X)
  BY DEF LInv
<1>2. Inv /\ Typed /\ Places /\ Joins /\ NotYet
  BY DEF LInv
<1>3. savegame \in BOOLEAN /\ m \in Message /\ m2 \in Message
      /\ down \in [Clients -> Seq(Told(savegame))]
  BY <1>2, ToldMessages DEF Inv, Typed
<1>4. ASSUME NEW c \in Clients
      PROVE  down'[c] = IF \E q \in Slots : slot[q].kind = "occupied" /\ conn[q] = c
                          THEN Append(Append(down[c], m), m2) ELSE down[c]
  <2>1. ToAll(down, slot, conn, m)[c] =
          IF \E q \in Slots : slot[q].kind = "occupied" /\ conn[q] = c THEN Append(down[c], m) ELSE down[c]
    BY ToAllHere
  <2>2. down'[c] = IF \E q \in Slots : S[q].kind = "occupied" /\ conn[q] = c
                     THEN Append(ToAll(down, slot, conn, m)[c], m2) ELSE ToAll(down, slot, conn, m)[c]
    BY ToAllHere
  <2> QED BY <2>1, <2>2
<1>5. \A c \in Clients : down[c] \in Seq(Message) /\ Append(down[c], m) \in Seq(Message)
  BY <1>3, ToldMessages
<1>6. ASSUME NEW p \in Slots, slot'[p].kind = "occupied"
      PROVE  ClientOK(p, slot', ggs', down'[conn[p]], up'[conn[p]], phase[conn[p]], self[conn[p]],
                      list[conn[p]], cggs[conn[p]], savegame, X)
  <2>1. slot[p].kind = "occupied"
    BY <1>6 DEF Settled
  <2>2. conn[p] \in Clients
    BY <1>2, <2>1 DEF Places, Inv
  <2>3. down'[conn[p]] = Append(Append(down[conn[p]], m), m2)
    BY <1>4, <2>1, <2>2
  <2>4. ClientOK(p, slot, ggs, down[conn[p]], up[conn[p]], phase[conn[p]], self[conn[p]],
                 list[conn[p]], cggs[conn[p]], savegame, X)
    BY <1>1, <2>1 DEF ViewsOK, SeatOK
  <2>5. ClientOK(p, S, ggs, Append(down[conn[p]], m), up[conn[p]], phase[conn[p]], self[conn[p]],
                 list[conn[p]], cggs[conn[p]], savegame, X)
    BY <1>3, <1>5, <2>1, <2>2, <2>4, Broadcast
  <2>6. ClientOK(p, slot', ggs, Append(Append(down[conn[p]], m), m2), up[conn[p]], phase[conn[p]],
                 self[conn[p]], list[conn[p]], cggs[conn[p]], savegame, X)
    BY <1>3, <1>5, <2>1, <2>2, <2>5, Broadcast
  <2> QED BY <2>3, <2>6
<1>7. ViewsOK(X)'
  <2>1. \A p \in Slots : SeatOK(p, X)'
    BY <1>6 DEF SeatOK
  <2>2. \A c \in Clients \ {Host} : StartedOK(started[c], X)'
    BY <1>1 DEF ViewsOK, StartedOK
  <2> QED BY <2>1, <2>2 DEF ViewsOK
<1>8. ASSUME NEW c \in Clients PROVE Grown(down[c], down'[c])
  <2>1. Grown(down[c], down[c])
    BY DEF Grown
  <2>2. Grown(down[c], Append(down[c], m)) /\ Grown(Append(down[c], m), Append(Append(down[c], m), m2))
    BY <1>3, <1>5, GrownOn
  <2>3. Append(down[c], m) # <<>>
    BY <1>3, <1>5
  <2>4. Grown(down[c], Append(Append(down[c], m), m2))
    BY <2>2, <2>3 DEF Grown
  <2> QED BY <1>4, <2>1, <2>4
<1>9. Places' /\ Joins' /\ NotYet'
  BY <1>2, <1>4, <1>8, NobodyMoves
<1>10. Typed'
  <2> DEFINE A == Told(savegame)
             E == ToAll(down, slot, conn, m)
  <2>1. m \in A /\ m2 \in A /\ down \in [Clients -> Seq(A)]
    BY <1>3
  <2> HIDE DEF A
  <2>2. E \in [Clients -> Seq(A)]
    BY <2>1, ToAllAt, Zenon
  <2>3. ToAll(E, S, conn, m2) \in [Clients -> Seq(A)]
    <3> HIDE DEF E
    <3> QED BY <2>1, <2>2, ToAllAt, Zenon
  <2>4. down' \in [Clients -> Seq(Told(savegame))]
    BY <2>3 DEF A
  <2> QED BY <1>2, <2>4 DEF Typed
<1>11. (\E Y : ViewsOK(Y))'
  BY <1>7
<1> QED BY <1>9, <1>10, <1>11 DEF LInv

(* In a saved game no colour has to be looked for. *)
LEMMA NoSearch ==
  ASSUME Inv, savegame, NEW p \in Slots, slot[p].kind # "locked"
  PROVE  slot[p].color \notin Taken(slot, p)
BY DEF Inv, Fine, PastColorsDiffer, Taken, Plays, AIs

LEMMA TogglePlayerStateLists ==
  ASSUME LInv, Inv', ~Meddles, UNCHANGED savegame, NEW p \in Slots, TogglePlayerState(p)
  PROVE  LInv'
<1> DEFINE k == NextKind(slot[p].kind)
           s == Toggled(slot[p])
           S == [slot EXCEPT ![p] = s]
           T == Painted(S, p)
           m == [type |-> "state", slot |-> p]
           m2 == ColorMsg(T, p)
<1>0. Inv /\ savegame \in BOOLEAN /\ slot \in [Slots -> Slot] /\ slot[p] \in Slot
  BY SlotType DEF LInv, Inv
<1>1. /\ UNCHANGED <<conn, ggs, up, phase, self, list, cggs, started, status, counting>>
      /\ ops' = ops + 1 /\ slot[p].kind \notin {"occupied", "reserved"}
  BY DEF TogglePlayerState, clientVars, Operate, ToggleColor
<1>3. /\ k = KindAfter(slot[p].kind, savegame) /\ k \in Kinds
      /\ k \notin {"occupied", "reserved"}
  BY <1>0, <1>1 DEF NextKind, KindAfter, Kinds, AIs, Slot
<1>4. s \in Slot /\ s.kind = k /\ s.team = slot[p].team /\ s.color = slot[p].color
  <2>1. (k \in AIs) \in BOOLEAN
    OBVIOUS
  <2>2. s = [slot[p] EXCEPT !.kind = k, !.ready = (k \in AIs)]
    BY DEF Toggled
  <2> HIDE DEF k
  <2> QED BY <1>0, <1>3, <2>1, <2>2 DEF Slot
<1>2. \/ /\ S[p].kind \in AIs /\ S[p].color \in Taken(S, p)
         /\ slot' = T /\ down' = ToAll(ToAll(down, slot, conn, m), S, conn, m2)
      \/ slot' = S /\ down' = ToAll(down, slot, conn, m)
  <2>1. S = [slot EXCEPT ![p] = Toggled(@)]
    BY <1>0
  <2>2. \A q \in Slots : S[q].kind = "occupied" <=> slot[q].kind = "occupied"
    BY <1>0, <1>1, <1>3, <1>4
  <2> DEFINE D == ToAll(down, S, conn, m)
  <2>3. IF S[p].kind \in AIs /\ S[p].color \in Taken(S, p)
          THEN ToggleColor(S, D, conn, p) ELSE slot' = S /\ down' = D
    BY <2>1, Zenon DEF TogglePlayerState
  <2> HIDE DEF S, m
  <2>4. D = ToAll(down, slot, conn, m)
    BY <2>2, ToAllSame
  <2> QED BY <2>3, <2>4 DEF ToggleColor
<1> HIDE DEF s
<1>5. S \in [Slots -> Slot] /\ S[p] = s /\ \A q \in Slots \ {p} : S[q] = slot[q]
  BY <1>0, <1>4
<1>6. m \in Message /\ m.type = "state" /\ m.slot = p
  BY DEF Message
<1>7. OnlyAt(slot, S, p) /\ Settled(slot, S)
  BY <1>1, <1>3, <1>4, <1>5 DEF OnlyAt, Settled
<1> HIDE DEF S, m, k
<1>8. \A q \in Slots : Takes(m, savegame, q, slot, ggs, up[conn[q]], q, S, ggs, up[conn[q]])
  <2>1. /\ S[p].team = slot[p].team /\ S[p].color = slot[p].color
        /\ "reserved" \notin {slot[p].kind, S[p].kind}
        /\ S[p].kind = KindAfter(slot[p].kind, savegame)
    BY <1>1, <1>3, <1>4, <1>5
  <2> QED BY <1>0, <1>6, <1>7, <2>1, TakesKind
<1>9. m \in Told(savegame) /\ m.type # "start"
  BY <1>0, <1>6, ToldMessages
<1>10. ops' \in Nat /\ ggs \in Settings
  BY <1>1 DEF LInv, Typed
<1>11. CASE slot' = S /\ down' = ToAll(down, slot, conn, m)
  BY <1>1, <1>7, <1>8, <1>9, <1>10, <1>11, Announced
<1>12. CASE /\ S[p].kind \in AIs /\ S[p].color \in Taken(S, p)
            /\ slot' = T /\ down' = ToAll(ToAll(down, slot, conn, m), S, conn, m2)
  <2>1. ~savegame
    <3> SUFFICES ASSUME savegame PROVE FALSE
      OBVIOUS
    <3>1. slot[p].kind # "locked"
      BY <1>3, <1>4, <1>5, <1>12 DEF KindAfter, AIs
    <3>2. Taken(S, p) = Taken(slot, p)
      BY <1>5 DEF Taken, Plays
    <3> QED BY <1>0, <1>4, <1>5, <1>12, <3>1, <3>2, NoSearch
  <2>2. /\ OnlyAt(S, T, p) /\ T[p].kind = S[p].kind /\ T[p].team = S[p].team
        /\ m2 \in Message /\ m2.type = "color" /\ m2.slot = p /\ m2.color = T[p].color
    BY <1>5, PaintedType
  <2> HIDE DEF T, m2
  <2>3. m2 \in Told(savegame) /\ m2.type # "start"
    BY <1>0, <2>1, <2>2, ToldMessages
  <2>4. \A q \in Slots : Takes(m2, savegame, q, S, ggs, up[conn[q]], q, T, ggs, up[conn[q]])
    BY <1>0, <2>2, TakesChoice
  <2>5. Settled(slot, slot')
    BY <1>7, <1>12, <2>2 DEF Settled, OnlyAt
  <2>6. \A q \in Slots : slot[q].kind = "occupied" <=> S[q].kind = "occupied"
    BY <1>7 DEF Settled
  <2> QED BY <1>1, <1>7, <1>8, <1>9, <1>10, <1>12, <2>3, <2>4, <2>5, <2>6, AnnouncedTwice
<1> QED BY <1>2, <1>11, <1>12

LEMMA AsksOther ==
  ASSUME NEW R, NEW U \in Seq(R), U # <<>>, NEW t, Head(U).type # t, Asks(U, t)
  PROVE  Asks(Tail(U), t)
<1>1. PICK i \in 1..Len(U) : U[i].type = t
  BY DEF Asks
<1>2. i # 1
  BY <1>1
<1>3. i - 1 \in 1..Len(Tail(U)) /\ Tail(U)[i - 1] = U[i]
  BY <1>2
<1> QED BY <1>1, <1>3 DEF Asks

(* The server answers the player in slot p. *)
LEMMA Answered ==
  ASSUME LInv, Inv',
         UNCHANGED <<conn, ggs, phase, self, list, cggs, started, savegame, status, ops>>,
         counting' \in BOOLEAN, NEW p \in Slots, slot[p].kind = "occupied",
         OnlyAt(slot, slot', p), slot'[p].kind = slot[p].kind,
         NEW m \in Told(savegame), m.type # "start", m.slot = p,
         down' = ToAll(down, slot, conn, m),
         \A q \in Slots \ {p} : conn[q] \in Clients => up'[conn[q]] = up[conn[q]],
         \A c \in Clients : c # conn[p] => up'[c] = up[c],
         \A t \in {"team", "color"} : m.type = t \/ (Asks(up[conn[p]], t) => Asks(up'[conn[p]], t)),
         savegame => m.type = "ready",
         \/ m.type = "ready" /\ Look(slot'[p]) = Look(slot[p])
         \/ m.type = "team" /\ slot'[p].team = m.team /\ slot'[p].color = slot[p].color
         \/ m.type = "color" /\ slot'[p].color = m.color /\ slot'[p].team = slot[p].team
  PROVE  LInv'
<1>1. PICK X : ViewsOK(X)
  BY DEF LInv
<1>2. Inv /\ Typed /\ Places /\ Joins /\ NotYet /\ savegame \in BOOLEAN
  BY DEF LInv, Inv
<1>3. conn[p] \in Clients
  BY <1>2 DEF Places, Inv
<1>4. Settled(slot, slot')
  BY DEF Settled, OnlyAt
<1>5. (Asks(up[conn[p]], "team") => Asks(up'[conn[p]], "team") \/ m.type = "team")
      /\ (Asks(up[conn[p]], "color") => Asks(up'[conn[p]], "color") \/ m.type = "color")
  OBVIOUS
<1>6. ASSUME NEW q \in Slots, slot[q].kind = "occupied"
      PROVE  /\ Takes(m, savegame, q, slot, ggs, up[conn[q]], q, slot', ggs', up'[conn[q]])
             /\ \A t \in {"team", "color"} : Asks(up[conn[q]], t) =>
                  Asks(up'[conn[q]], t) \/ (m.type = t /\ m.slot = self[conn[q]])
  <2>1. conn[q] \in Clients
    BY <1>2, <1>6 DEF Places, Inv
  <2>2. q # p => up'[conn[q]] = up[conn[q]]
    BY <2>1
  <2>3. m.type \in {"team", "color"} => self[conn[p]] = p
    BY <1>2, <1>3 DEF Places, Inv
  <2>4. \A t \in {"team", "color"} : Asks(up[conn[q]], t) =>
          Asks(up'[conn[q]], t) \/ (m.type = t /\ m.slot = self[conn[q]])
    BY <2>2, <2>3, <1>5
  <2>5. CASE m.type = "ready"
    <3>1. SameLooks(slot, slot')
      BY <2>5 DEF SameLooks, OnlyAt
    <3>2. \A t \in {"team", "color"} : Asks(up[conn[q]], t) => Asks(up'[conn[q]], t)
      BY <2>2, <1>5, <2>5
    <3> QED BY <1>2, <2>4, <2>5, <3>1, <3>2, TakesNothing
  <2>6. CASE m.type \in {"team", "color"}
    <3>1. m.type # "team" \/ p # q => (Asks(up[conn[q]], "team") => Asks(up'[conn[q]], "team"))
      BY <1>5, <2>2
    <3>2. m.type # "color" \/ p # q => (Asks(up[conn[q]], "color") => Asks(up'[conn[q]], "color"))
      BY <1>5, <2>2
    <3>3. \/ m.type = "team" /\ slot'[p].team = m.team /\ slot'[p].color = slot[p].color
          \/ m.type = "color" /\ slot'[p].color = m.color /\ slot'[p].team = slot[p].team
      BY <2>6
    <3> QED BY <1>2, <2>4, <3>1, <3>2, <3>3, TakesChoice
  <2> QED BY <2>5, <2>6
<1>7. ViewsOK(X)'
  BY <1>1, <1>2, <1>4, <1>6, SayViews
<1>8. Places' /\ Joins' /\ NotYet'
  <2>1. \A c \in Clients : (\A q \in Slots : conn[q] = c => slot[q].kind # "occupied") => up'[c] = up[c]
    OBVIOUS
  <2> QED BY <1>2, <1>4, <2>1, SayPlaces
<1>9. Typed'
  BY <1>2, ToAllAt DEF Typed
<1>10. (\E Y : ViewsOK(Y))'
  BY <1>7
<1> QED BY <1>8, <1>9, <1>10 DEF LInv

LEMMA ReceiveLists ==
  ASSUME LInv, Inv', UNCHANGED savegame, NEW p \in Slots, Receive(p)
  PROVE  LInv'
<1> DEFINE c == conn[p]
           r == Head(up[c])
<1>0. Nobody \notin Clients
  BY LobbyAssumption
<1>1. c \in Clients /\ up[c] # <<>>
  BY LobbyAssumption DEF Receive, LInv, Inv
<1>2. /\ UNCHANGED <<conn, ggs, phase, self, list, cggs, started, status, ops>>
      /\ up' = [up EXCEPT ![c] = Tail(@)]
  BY DEF Receive, clientVars
<1>3. Inv /\ Places /\ Joins /\ savegame \in BOOLEAN /\ counting \in BOOLEAN
      /\ slot \in [Slots -> Slot] /\ slot[p] \in Slot /\ up \in [Clients -> Seq(Asked(savegame))]
  BY SlotType DEF LInv, Inv, Typed
<1>4. slot[p].kind = "occupied"
  <2>1. slot[p].kind \in {"reserved", "occupied"}
    BY <1>0, <1>1, <1>3 DEF Inv, Served
  <2> QED BY <1>1, <1>3, <2>1 DEF Joins
<1>5. r \in Asked(savegame) /\ r \in Request /\ (savegame => r.type = "ready")
  <2>1. r \in Asked(savegame)
    BY <1>1, <1>3
  <2> HIDE DEF r
  <2> QED BY <2>1 DEF Asked
<1>6. up'[c] = Tail(up[c]) /\ \A d \in Clients : d # c => up'[d] = up[d]
  BY <1>1, <1>2, <1>3
<1>7. \A t \in {"team", "color"} : r.type = t \/ (Asks(up[c], t) => Asks(up'[c], t))
  BY <1>1, <1>3, <1>6, AsksOther
<1>8. \A q \in Slots \ {p} : conn[q] \in Clients => up'[conn[q]] = up[conn[q]]
  BY <1>0, <1>1, <1>3, <1>6 DEF Places
<1> HIDE DEF c, r
<1>9. \/ /\ r.type = "ready"
         /\ slot' = [slot EXCEPT ![p].ready = r.ready]
         /\ counting' = (counting /\ r.ready)
         /\ down' = ToAll(down, slot, conn, [type |-> "ready", slot |-> p, ready |-> r.ready])
      \/ r.type = "team" /\ ToggleTeam(p, r.team) /\ UNCHANGED counting
      \/ r.type = "color" /\ ToggleColor(slot, down, conn, p) /\ UNCHANGED counting
  BY DEF Receive, c, r
<1>10. CASE r.type = "ready"
  <2> DEFINE m == [type |-> "ready", slot |-> p, ready |-> r.ready]
  <2>1. r.ready \in BOOLEAN
    BY <1>5, <1>10 DEF Request
  <2>2. m \in Message /\ m.type = "ready" /\ m.slot = p
    BY <2>1 DEF Message
  <2>3. m \in Told(savegame) /\ m.type # "start"
    BY <1>3, <2>2, ToldMessages
  <2>4. /\ slot' = [slot EXCEPT ![p].ready = r.ready] /\ counting' = (counting /\ r.ready)
        /\ down' = ToAll(down, slot, conn, m)
    BY <1>9, <1>10
  <2>5. counting' \in BOOLEAN
    BY <2>1, <2>4
  <2>6. OnlyAt(slot, slot', p) /\ slot'[p].kind = slot[p].kind /\ Look(slot'[p]) = Look(slot[p])
    BY <1>3, <2>4 DEF OnlyAt, Look, Slot
  <2>7. down' = ToAll(down, slot, conn, m)
    BY <2>4
  <2> HIDE DEF m
  <2> QED BY <1>2, <1>4, <1>6, <1>7, <1>8, <1>10, <2>2, <2>3, <2>5, <2>6, <2>7, Answered DEF c
<1>11. CASE r.type = "team"
  <2> DEFINE m == [type |-> "team", slot |-> p, team |-> r.team]
  <2>1. r.team \in Teams /\ ~savegame
    BY <1>5, <1>11 DEF Request
  <2>2. m \in Message /\ m.type = "team" /\ m.slot = p /\ m.team = r.team
    BY <2>1 DEF Message
  <2>3. m \in Told(savegame) /\ m.type # "start"
    BY <1>3, <2>1, <2>2, ToldMessages
  <2>4. /\ slot' = [slot EXCEPT ![p].team = r.team] /\ counting' \in BOOLEAN
        /\ down' = ToAll(down, slot, conn, m)
    BY <1>3, <1>9, <1>11 DEF ToggleTeam
  <2>5. /\ OnlyAt(slot, slot', p) /\ slot'[p].kind = slot[p].kind
        /\ slot'[p].team = r.team /\ slot'[p].color = slot[p].color
    BY <1>3, <2>1, <2>4 DEF OnlyAt, Slot
  <2>6. down' = ToAll(down, slot, conn, m) /\ counting' \in BOOLEAN
    BY <2>4
  <2> HIDE DEF m
  <2> QED BY <1>2, <1>4, <1>6, <1>7, <1>8, <1>11, <2>1, <2>2, <2>3, <2>5, <2>6, Answered DEF c
<1>12. CASE r.type = "color"
  <2> DEFINE T == Painted(slot, p)
             m == ColorMsg(T, p)
  <2>1. ~savegame
    BY <1>5, <1>12
  <2>2. /\ OnlyAt(slot, T, p) /\ T[p].kind = slot[p].kind /\ T[p].team = slot[p].team
        /\ m \in Message /\ m.type = "color" /\ m.slot = p /\ m.color = T[p].color
    BY <1>3, PaintedType
  <2>3. slot' = T /\ down' = ToAll(down, slot, conn, m) /\ counting' \in BOOLEAN
    BY <1>3, <1>9, <1>12 DEF ToggleColor
  <2> HIDE DEF T, m
  <2>4. m \in Told(savegame) /\ m.type # "start"
    BY <1>3, <2>1, <2>2, ToldMessages
  <2> QED BY <1>2, <1>4, <1>6, <1>7, <1>8, <1>12, <2>1, <2>2, <2>3, <2>4, Answered DEF c
<1> QED BY <1>9, <1>10, <1>11, <1>12

(* Somebody comes to slot p, or has not come in time. *)
LEMMA Unnoticed ==
  ASSUME NEW S, NEW S2, NEW p \in Slots, OnlyAt(S, S2, p),
         S2[p].team = S[p].team, S2[p].color = S[p].color,
         \/ S[p].kind = "free" /\ S2[p].kind = "reserved"
         \/ S[p].kind = "reserved" /\ S2[p].kind = "free" /\ Timeouts,
         NEW q, NEW G, NEW U, NEW v, Agrees(v, q, S, G, U)
  PROVE  Agrees(v, q, S2, G, U)
<1>1. ASSUME NEW r \in Slots
      PROVE  /\ Shows(v.list[r].kind, S2[r].kind)
             /\ r # q \/ ~Asks(U, "team") => v.list[r].team = S2[r].team
             /\ r # q \/ ~Asks(U, "color") => v.list[r].color = S2[r].color
  <2>1. /\ Shows(v.list[r].kind, S[r].kind)
        /\ r # q \/ ~Asks(U, "team") => v.list[r].team = S[r].team
        /\ r # q \/ ~Asks(U, "color") => v.list[r].color = S[r].color
    BY DEF Agrees
  <2>2. CASE r = p
    BY <2>1, <2>2 DEF Shows
  <2>3. CASE r # p
    BY <2>1, <2>3 DEF OnlyAt
  <2> QED BY <2>2, <2>3
<1> QED BY <1>1 DEF Agrees

LEMMA UnnoticedViews ==
  ASSUME Inv, Inv', Places,
         UNCHANGED <<ggs, list, cggs, started, savegame>>,
         NEW p \in Slots, OnlyAt(slot, slot', p),
         slot'[p].team = slot[p].team, slot'[p].color = slot[p].color,
         \/ slot[p].kind = "free" /\ slot'[p].kind = "reserved"
         \/ slot[p].kind = "reserved" /\ slot'[p].kind = "free" /\ Timeouts,
         \A q \in Slots \ {p} : slot[q].kind = "occupied" =>
           /\ conn'[q] = conn[q]
           /\ down'[conn[q]] = down[conn[q]] /\ up'[conn[q]] = up[conn[q]]
           /\ phase'[conn[q]] = phase[conn[q]] /\ self'[conn[q]] = self[conn[q]],
         NEW X, ViewsOK(X)
  PROVE  ViewsOK(X)'
<1>1. ASSUME NEW q \in Slots PROVE SeatOK(q, X)'
  <2> SUFFICES ASSUME slot'[q].kind = "occupied"
               PROVE  ClientOK(q, slot', ggs, down'[conn'[q]], up'[conn'[q]], phase'[conn'[q]],
                               self'[conn'[q]], list[conn'[q]], cggs[conn'[q]], savegame, X)
    BY DEF SeatOK
  <2>1. q # p
    OBVIOUS
  <2>2. slot[q].kind = "occupied"
    BY <2>1 DEF OnlyAt
  <2>3. ClientOK(q, slot, ggs, down[conn[q]], up[conn[q]], phase[conn[q]], self[conn[q]],
                 list[conn[q]], cggs[conn[q]], savegame, X)
    BY <2>2 DEF ViewsOK, SeatOK
  <2>4. \A w \in Views : Agrees(w, q, slot, ggs, up[conn[q]]) => Agrees(w, q, slot', ggs, up[conn[q]])
    BY Unnoticed
  <2>5. ClientOK(q, slot', ggs, down[conn[q]], up[conn[q]], phase[conn[q]], self[conn[q]],
                 list[conn[q]], cggs[conn[q]], savegame, X)
    BY <2>3, <2>4, Silent
  <2> QED BY <2>1, <2>2, <2>5
<1>2. \A c \in Clients \ {Host} : StartedOK(started[c], X)'
  BY DEF ViewsOK, StartedOK
<1> QED BY <1>1, <1>2 DEF ViewsOK

LEMMA ReserveLists ==
  ASSUME LInv, Inv', UNCHANGED savegame, NEW c \in Clients, Reserve(c)
  PROVE  LInv'
<1> DEFINE free == {p \in Slots : slot[p].kind = "free"}
<1>0. Nobody \notin Clients /\ Host \in Clients
  BY LobbyAssumption
<1>1. PICK X : ViewsOK(X)
  BY DEF LInv
<1>2. Inv /\ Typed /\ Places /\ Joins /\ NotYet
  BY DEF LInv
<1>3. /\ UNCHANGED <<status, counting, ggs, down, up, list, cggs, ops, started>>
      /\ phase[c] = "out"
  BY DEF Reserve
<1>4. /\ down[c] = <<>> /\ up[c] = <<>> /\ c # Host
      /\ \A q \in Slots : conn[q] # c
  BY <1>2, <1>3 DEF Places, Joins
<1>5. CASE free = {}
  <2>1. phase' = [phase EXCEPT ![c] = "gone"] /\ UNCHANGED <<slot, conn, self>>
    BY <1>5 DEF Reserve
  <2>2. phase'[c] = "gone" /\ \A d \in Clients \ {c} : phase'[d] = phase[d]
    BY <1>2, <2>1 DEF Typed
  <2>3. Typed'
    BY <1>2, <1>3, <2>1 DEF Typed
  <2>4. Places'
    BY <1>2, <1>3, <1>4, <2>1, <2>2 DEF Places
  <2>5. Joins'
    <3>1. \A p \in Slots : slot[p].kind \in {"reserved", "occupied"} => phase'[conn[p]] = phase[conn[p]]
      BY <1>2, <1>4, <2>2 DEF Places, Inv
    <3>2. \A d \in Clients : Fresh(d)' => Fresh(d)
      BY <2>1, <2>2 DEF Fresh
    <3>3. phase'[Host] = phase[Host]
      BY <1>0, <1>4, <2>2
    <3> QED BY <1>2, <1>3, <2>1, <3>1, <3>2, <3>3 DEF Joins
  <2>6. NotYet'
    BY <1>2, <1>3 DEF NotYet
  <2>7. ViewsOK(X)'
    <3>1. \A p \in Slots : slot[p].kind = "occupied" => phase'[conn[p]] = phase[conn[p]]
      BY <1>2, <1>4, <2>2 DEF Places, Inv
    <3>2. \A p \in Slots : SeatOK(p, X)'
      BY <1>1, <1>3, <2>1, <3>1 DEF ViewsOK, SeatOK
    <3>3. \A d \in Clients \ {Host} : StartedOK(started[d], X)'
      BY <1>1, <1>3 DEF ViewsOK, StartedOK
    <3> QED BY <3>2, <3>3 DEF ViewsOK
  <2> QED BY <2>3, <2>4, <2>5, <2>6, <2>7 DEF LInv
<1>6. CASE free # {}
  <2>1. PICK p \in free :
          /\ slot' = [slot EXCEPT ![p] = [Cleared(@) EXCEPT !.kind = "reserved"]]
          /\ conn' = [conn EXCEPT ![p] = c]
          /\ phase' = [phase EXCEPT ![c] = "joining"]
          /\ self' = [self EXCEPT ![c] = p]
    BY <1>6 DEF Reserve
  <2>2. p \in Slots /\ slot[p].kind = "free" /\ slot \in [Slots -> Slot] /\ slot[p] \in Slot
    BY <1>2, SlotType
  <2>3. /\ slot'[p].kind = "reserved" /\ OnlyAt(slot, slot', p)
        /\ slot'[p].team = slot[p].team /\ slot'[p].color = slot[p].color
    BY <2>1, <2>2 DEF Cleared, Slot, OnlyAt
  <2>4. conn[p] = Nobody /\ conn'[p] = c /\ \A q \in Slots \ {p} : conn'[q] = conn[q]
    BY <1>2, <2>1, <2>2 DEF Inv, Served
  <2>5. /\ phase'[c] = "joining" /\ self'[c] = p
        /\ \A d \in Clients \ {c} : phase'[d] = phase[d] /\ self'[d] = self[d]
        /\ phase' \in [Clients -> {"out", "joining", "lobby", "game", "gone"}]
        /\ self' \in [Clients -> Slots]
    BY <1>2, <2>1, <2>2 DEF Typed
  <2>6. Typed'
    BY <1>2, <1>3, <2>5 DEF Typed
  <2>7. \A q \in Slots \ {p} : slot'[q] = slot[q]
    BY <2>3 DEF OnlyAt
  <2>8. Places'
    <3>1. \A q, r \in Slots : conn'[q] = conn'[r] /\ conn'[q] # Nobody => q = r
      BY <1>2, <1>4, <2>4 DEF Places
    <3>2. \A q \in Slots : slot'[q].kind \in {"reserved", "occupied"} => conn'[q] # Nobody
      BY <1>0, <1>2, <2>4, <2>7 DEF Places
    <3>3. \A d \in Clients : phase'[d] \in {"out", "gone"} =>
            down[d] = <<>> /\ up[d] = <<>> /\ \A q \in Slots : conn'[q] # d
      BY <1>2, <2>4, <2>5 DEF Places
    <3>4. \A d \in Clients : phase'[d] \notin {"out", "gone"} => \E q \in Slots : conn'[q] = d
      <4> TAKE d \in Clients
      <4>1. CASE d = c
        BY <2>2, <2>4, <4>1
      <4>2. CASE d # c /\ phase[d] \notin {"out", "gone"}
        <5>1. PICK q \in Slots : conn[q] = d
          BY <1>2, <4>2 DEF Places
        <5> QED BY <1>0, <2>4, <5>1
      <4> QED BY <2>5, <4>1, <4>2
    <3>5. ~savegame => \A q \in Slots : conn'[q] # Nobody => self'[conn'[q]] = q
      <4> SUFFICES ASSUME ~savegame, NEW q \in Slots, conn'[q] # Nobody
                   PROVE  self'[conn'[q]] = q
        OBVIOUS
      <4>1. CASE q = p
        BY <2>4, <2>5, <4>1
      <4>2. CASE q # p
        <5>1. conn'[q] = conn[q] /\ conn[q] \in Clients \ {c} /\ self[conn[q]] = q
          BY <1>2, <1>4, <2>4, <4>2 DEF Places, Inv
        <5> QED BY <2>5, <5>1
      <4> QED BY <4>1, <4>2
    <3> QED BY <1>3, <3>1, <3>2, <3>3, <3>4, <3>5 DEF Places
  <2>9. \A q \in Slots \ {p} : slot[q].kind \in {"reserved", "occupied"} =>
          /\ conn'[q] = conn[q] /\ conn[q] \in Clients
          /\ phase'[conn[q]] = phase[conn[q]] /\ self'[conn[q]] = self[conn[q]]
    BY <1>2, <1>4, <2>4, <2>5 DEF Places, Inv
  <2>10. Joins'
    <3>1. ASSUME NEW q \in Slots, slot'[q].kind = "reserved"
          PROVE  /\ phase'[conn'[q]] = "joining" /\ self'[conn'[q]] = q
                 /\ down[conn'[q]] = <<>> /\ up[conn'[q]] = <<>>
      <4>1. CASE q = p
        BY <1>4, <2>4, <2>5, <4>1
      <4>2. CASE q # p
        BY <1>2, <2>7, <2>9, <3>1, <4>2 DEF Joins
      <4> QED BY <4>1, <4>2
    <3>2. ASSUME NEW q \in Slots, slot'[q].kind = "occupied", phase'[conn'[q]] = "joining"
          PROVE  down[conn'[q]] # <<>> /\ Head(down[conn'[q]]).type = "list"
      <4>1. q # p
        BY <2>3, <3>2
      <4> QED BY <1>2, <2>7, <2>9, <3>2, <4>1 DEF Joins
    <3>3. \A d \in Clients : Fresh(d)' => Fresh(d)
      BY <1>3, <2>4, <2>5, <2>7 DEF Fresh
    <3>4. phase'[Host] = phase[Host]
      BY <1>0, <1>4, <2>5
    <3> QED BY <1>2, <1>3, <3>1, <3>2, <3>3, <3>4 DEF Joins
  <2>11. NotYet'
    BY <1>2, <1>3 DEF NotYet
  <2>12. ViewsOK(X)'
    BY <1>1, <1>2, <1>3, <2>2, <2>3, <2>9, UnnoticedViews
  <2> QED BY <2>6, <2>8, <2>10, <2>11, <2>12 DEF LInv
<1> QED BY <1>5, <1>6

(* Somebody leaves, or is thrown out. *)
LEMMA RemovedFacts ==
  ASSUME Inv, Typed, Places, NEW p \in Slots, Removed(p), conn[p] # Nobody
  PROVE  /\ conn[p] \in Clients /\ slot[p].kind \in {"reserved", "occupied"}
         /\ slot'[p].kind = "free" /\ OnlyAt(slot, slot', p)
         /\ slot'[p].team = slot[p].team /\ slot'[p].color = slot[p].color
         /\ conn'[p] = Nobody /\ \A q \in Slots \ {p} : conn'[q] = conn[q] /\ conn[q] # conn[p]
         /\ phase'[conn[p]] = "gone" /\ \A d \in Clients \ {conn[p]} : phase'[d] = phase[d]
         /\ up'[conn[p]] = <<>> /\ \A d \in Clients \ {conn[p]} : up'[d] = up[d]
         /\ phase' \in [Clients -> {"out", "joining", "lobby", "game", "gone"}]
<1>1. slot \in [Slots -> Slot] /\ slot[p] \in Slot /\ conn[p] \in Clients
      /\ slot[p].kind \in {"reserved", "occupied"} /\ conn \in [Slots -> Clients \cup {Nobody}]
  BY SlotType DEF Inv, Served
<1>2. slot' = [slot EXCEPT ![p] = Cleared(slot[p])]
  BY <1>1 DEF Removed
<1>3. Cleared(slot[p]).kind = "free" /\ Cleared(slot[p]).team = slot[p].team
      /\ Cleared(slot[p]).color = slot[p].color
  BY <1>1 DEF Cleared, Slot
<1>4. slot'[p].kind = "free" /\ OnlyAt(slot, slot', p)
      /\ slot'[p].team = slot[p].team /\ slot'[p].color = slot[p].color
  BY <1>1, <1>2, <1>3 DEF OnlyAt
<1>5. conn'[p] = Nobody /\ \A q \in Slots \ {p} : conn'[q] = conn[q] /\ conn[q] # conn[p]
  BY <1>1 DEF Removed, Places
<1>6. phase'[conn[p]] = "gone" /\ (\A d \in Clients \ {conn[p]} : phase'[d] = phase[d])
      /\ phase' \in [Clients -> {"out", "joining", "lobby", "game", "gone"}]
  BY <1>1 DEF Removed, Typed
<1>7. up'[conn[p]] = <<>> /\ \A d \in Clients \ {conn[p]} : up'[d] = up[d]
  BY <1>1 DEF Removed, Inv
<1> QED BY <1>1, <1>4, <1>5, <1>6, <1>7

LEMMA RemovedPlaces ==
  ASSUME Inv, Typed, Places, Joins, NotYet, NEW p \in Slots, Removed(p), conn[p] \notin {Nobody, Host},
         UNCHANGED <<self, started, savegame, status>>, down'[conn[p]] = <<>>,
         \A d \in Clients \ {conn[p]} : Grown(down[d], down'[d]),
         \A d \in Clients \ {conn[p]} :
           (\A q \in Slots : conn[q] = d => slot[q].kind # "occupied") => down'[d] = down[d]
  PROVE  Places' /\ Joins' /\ NotYet'
<1> DEFINE c == conn[p]
<1>0. Nobody \notin Clients /\ Host \in Clients
  BY LobbyAssumption
<1>1. /\ c \in Clients /\ slot[p].kind \in {"reserved", "occupied"}
      /\ slot'[p].kind = "free" /\ \A q \in Slots \ {p} : slot'[q] = slot[q]
      /\ conn'[p] = Nobody /\ \A q \in Slots \ {p} : conn'[q] = conn[q] /\ conn[q] # c
      /\ phase'[c] = "gone" /\ \A d \in Clients \ {c} : phase'[d] = phase[d]
      /\ up'[c] = <<>> /\ \A d \in Clients \ {c} : up'[d] = up[d]
  BY RemovedFacts DEF OnlyAt
<1> HIDE DEF c
<1>2. \A q \in Slots \ {p} : slot[q].kind \in {"reserved", "occupied"} =>
        /\ conn'[q] = conn[q] /\ conn[q] \in Clients \ {c}
        /\ phase'[conn[q]] = phase[conn[q]] /\ up'[conn[q]] = up[conn[q]]
  BY <1>1 DEF Places, Inv
<1>3. \A d \in Clients \ {c} : phase[d] \in {"out", "gone"} => down'[d] = down[d]
  BY DEF Places, c
<1>4. Places'
  <2>1. \A q, r \in Slots : conn'[q] = conn'[r] /\ conn'[q] # Nobody => q = r
    BY <1>1 DEF Places
  <2>2. \A q \in Slots : slot'[q].kind \in {"reserved", "occupied"} => conn'[q] # Nobody
    BY <1>1 DEF Places
  <2>3. \A d \in Clients : phase'[d] \in {"out", "gone"} =>
          down'[d] = <<>> /\ up'[d] = <<>> /\ \A q \in Slots : conn'[q] # d
    <3> SUFFICES ASSUME NEW d \in Clients, phase'[d] \in {"out", "gone"}
                 PROVE  down'[d] = <<>> /\ up'[d] = <<>> /\ \A q \in Slots : conn'[q] # d
      OBVIOUS
    <3>1. CASE d = c
      BY <1>0, <1>1, <3>1 DEF c
    <3>2. CASE d # c
      <4>1. phase[d] \in {"out", "gone"} /\ up'[d] = up[d]
        BY <1>1, <3>2
      <4>2. down'[d] = down[d]
        BY <1>3, <3>2, <4>1
      <4> QED BY <1>0, <1>1, <4>1, <4>2 DEF Places
    <3> QED BY <3>1, <3>2
  <2>4. \A d \in Clients : phase'[d] \notin {"out", "gone"} => \E q \in Slots : conn'[q] = d
    <3> SUFFICES ASSUME NEW d \in Clients, phase'[d] \notin {"out", "gone"}
                 PROVE  \E q \in Slots : conn'[q] = d
      OBVIOUS
    <3>1. d # c /\ phase'[d] = phase[d]
      BY <1>1
    <3>2. PICK q \in Slots : conn[q] = d
      BY <3>1 DEF Places
    <3> QED BY <1>1, <3>1, <3>2 DEF c
  <2>5. ~savegame => \A q \in Slots : conn'[q] # Nobody => self[conn'[q]] = q
    BY <1>1 DEF Places
  <2> QED BY <2>1, <2>2, <2>3, <2>4, <2>5 DEF Places
<1>5. Joins'
  <2>1. ASSUME NEW q \in Slots, slot'[q].kind = "reserved"
        PROVE  /\ phase'[conn'[q]] = "joining" /\ self[conn'[q]] = q
               /\ down'[conn'[q]] = <<>> /\ up'[conn'[q]] = <<>>
    <3>1. q # p /\ slot[q].kind = "reserved"
      BY <1>1, <2>1
    <3>2. down'[conn[q]] = down[conn[q]]
      BY <1>2, <3>1 DEF Places, c
    <3> QED BY <1>2, <3>1, <3>2 DEF Joins
  <2>2. ASSUME NEW q \in Slots, slot'[q].kind = "occupied", phase'[conn'[q]] = "joining"
        PROVE  down'[conn'[q]] # <<>> /\ Head(down'[conn'[q]]).type = "list"
    <3>1. q # p /\ slot[q].kind = "occupied"
      BY <1>1, <2>2
    <3>2. down[conn[q]] # <<>> /\ Head(down[conn[q]]).type = "list" /\ conn'[q] = conn[q]
      BY <1>2, <2>2, <3>1 DEF Joins
    <3>3. Grown(down[conn[q]], down'[conn[q]])
      BY <1>2, <3>1 DEF c
    <3> QED BY <3>2, <3>3 DEF Grown
  <2>3. \A d \in Clients : Fresh(d)' => Fresh(d)
    <3> SUFFICES ASSUME NEW d \in Clients, Fresh(d)'
                 PROVE  Fresh(d)
      OBVIOUS
    <3>1. CASE phase'[d] = "out"
      BY <1>1, <3>1 DEF Fresh
    <3>2. CASE \E q \in Slots : conn'[q] = d /\ slot'[q].kind = "reserved"
      BY <1>1, <3>2 DEF Fresh
    <3> QED BY <3>1, <3>2 DEF Fresh
  <2>4. phase'[Host] = phase[Host]
    BY <1>0, <1>1 DEF c
  <2> QED BY <2>1, <2>2, <2>3, <2>4 DEF Joins
<1>6. NotYet'
  <2>1. NoStart(<<>>)
    BY DEF NoStart
  <2>2. \A d \in Clients : NoStart(down[d]) => NoStart(down'[d])
    BY <2>1 DEF Grown
  <2> QED BY <2>2 DEF NotYet
<1> QED BY <1>4, <1>5, <1>6

LEMMA TimeoutLists ==
  ASSUME LInv, Inv', UNCHANGED savegame, NEW p \in Slots, Timeout(p)
  PROVE  LInv'
<1>1. PICK X : ViewsOK(X)
  BY DEF LInv
<1>2. Inv /\ Typed /\ Places /\ Joins /\ NotYet
  BY DEF LInv
<1>3. /\ UNCHANGED <<status, counting, ggs, down, self, list, cggs, started>>
      /\ Removed(p) /\ Timeouts /\ slot[p].kind = "reserved" /\ ops' = ops + 1
  BY DEF Timeout, Operate
<1>4. conn[p] \notin {Nobody, Host} /\ down[conn[p]] = <<>>
  BY <1>2, <1>3 DEF Places, Joins
<1>5. Places' /\ Joins' /\ NotYet'
  <2>1. \A d \in Clients : Grown(down[d], down'[d]) /\ down'[d] = down[d]
    BY <1>3 DEF Grown
  <2>2. down'[conn[p]] = <<>>
    BY <1>3, <1>4
  <2> QED BY <1>2, <1>3, <1>4, <2>1, <2>2, RemovedPlaces
<1>6. Typed'
  BY <1>2, <1>3, <1>4, RemovedFacts DEF Typed
<1>7. ViewsOK(X)'
  <2>1. /\ slot'[p].kind = "free" /\ OnlyAt(slot, slot', p)
        /\ slot'[p].team = slot[p].team /\ slot'[p].color = slot[p].color
        /\ \A q \in Slots \ {p} : conn'[q] = conn[q] /\ conn[q] # conn[p]
        /\ \A d \in Clients \ {conn[p]} : phase'[d] = phase[d] /\ up'[d] = up[d]
    BY <1>2, <1>3, <1>4, RemovedFacts
  <2>2. \A q \in Slots \ {p} : slot[q].kind = "occupied" =>
           /\ conn'[q] = conn[q]
           /\ down'[conn[q]] = down[conn[q]] /\ up'[conn[q]] = up[conn[q]]
           /\ phase'[conn[q]] = phase[conn[q]] /\ self'[conn[q]] = self[conn[q]]
    BY <1>2, <1>3, <2>1 DEF Places, Inv
  <2> QED BY <1>1, <1>2, <1>3, <2>1, <2>2, UnnoticedViews
<1> QED BY <1>5, <1>6, <1>7 DEF LInv

LEMMA KickPlayerLists ==
  ASSUME LInv, Inv', UNCHANGED savegame, NEW p \in Slots, KickPlayer(p)
  PROVE  LInv'
<1> DEFINE c == conn[p]
           m == [type |-> "kicked", slot |-> p]
           E == [down EXCEPT ![c] = <<>>]
<1>1. PICK X : ViewsOK(X)
  BY DEF LInv
<1>2. Inv /\ Typed /\ Places /\ Joins /\ NotYet /\ savegame \in BOOLEAN
  BY DEF LInv, Inv
<1>3. /\ UNCHANGED <<status, counting, ggs, self, list, cggs, started>>
      /\ Removed(p) /\ ops' = ops + 1 /\ conn[p] \notin {Nobody, Host}
      /\ down' = ToAll(E, slot', conn', m)
  BY DEF KickPlayer, Operate
<1>4. /\ c \in Clients /\ slot[p].kind \in {"reserved", "occupied"}
      /\ slot'[p].kind = "free" /\ OnlyAt(slot, slot', p)
      /\ slot'[p].team = slot[p].team /\ slot'[p].color = slot[p].color
      /\ conn'[p] = Nobody /\ \A q \in Slots \ {p} : conn'[q] = conn[q] /\ conn[q] # c
      /\ phase'[c] = "gone" /\ \A d \in Clients \ {c} : phase'[d] = phase[d]
      /\ up'[c] = <<>> /\ \A d \in Clients \ {c} : up'[d] = up[d]
      /\ phase' \in [Clients -> {"out", "joining", "lobby", "game", "gone"}]
  BY <1>2, <1>3, RemovedFacts
<1>5. m \in Message /\ m.type = "kicked" /\ m.slot = p
  BY DEF Message
<1>6. m \in Told(savegame) /\ m.type # "start"
  BY <1>2, <1>5, ToldMessages
<1>7. /\ down \in [Clients -> Seq(Told(savegame))]
      /\ E[c] = <<>> /\ \A d \in Clients \ {c} : E[d] = down[d]
  BY <1>2, <1>4 DEF Typed
<1> HIDE DEF m, E, c
<1>8. \A d \in Clients \ {c} : down[d] \in Seq(Message)
  BY <1>2, <1>7, ToldMessages
<1>9. ASSUME NEW d \in Clients
      PROVE  down'[d] = IF d = c THEN <<>>
                        ELSE IF \E q \in Slots : slot[q].kind = "occupied" /\ conn[q] = d
                          THEN Append(down[d], m) ELSE down[d]
  <2>1. down'[d] = IF \E q \in Slots : slot'[q].kind = "occupied" /\ conn'[q] = d
                     THEN Append(E[d], m) ELSE E[d]
    BY <1>3, ToAllHere
  <2>2. \A q \in Slots : slot'[q].kind = "occupied" => q # p /\ slot[q].kind = "occupied"
    BY <1>4 DEF OnlyAt
  <2>3. \A q \in Slots : slot[q].kind = "occupied" /\ q # p => slot'[q].kind = "occupied"
    BY <1>4 DEF OnlyAt
  <2>4. CASE d = c
    BY <1>4, <1>7, <2>1, <2>2, <2>4
  <2>5. CASE d # c
    <3>1. (\E q \in Slots : slot'[q].kind = "occupied" /\ conn'[q] = d) <=>
          (\E q \in Slots : slot[q].kind = "occupied" /\ conn[q] = d)
      BY <1>4, <2>2, <2>3, <2>5 DEF c
    <3> QED BY <1>7, <2>1, <2>5, <3>1
  <2> QED BY <2>4, <2>5
<1>10. Places' /\ Joins' /\ NotYet'
  <2>1. ASSUME NEW d \in Clients \ {c}
        PROVE  /\ Grown(down[d], down'[d])
               /\ (\A q \in Slots : conn[q] = d => slot[q].kind # "occupied") => down'[d] = down[d]
    <3>1. Grown(down[d], down[d])
      BY DEF Grown
    <3>2. Grown(down[d], Append(down[d], m))
      BY <1>5, <1>6, <1>8, GrownOn
    <3> QED BY <1>9, <3>1, <3>2
  <2>2. down'[conn[p]] = <<>>
    BY <1>4, <1>9 DEF c
  <2> QED BY <1>2, <1>3, <2>1, <2>2, RemovedPlaces DEF c
<1>11. Typed'
  <2> DEFINE A == Told(savegame)
  <2>1. down \in [Clients -> Seq(A)] /\ m \in A
    BY <1>6, <1>7
  <2> HIDE DEF A
  <2>2. <<>> \in Seq(A)
    OBVIOUS
  <2>3. E \in [Clients -> Seq(A)]
    BY <1>4, <2>1, <2>2 DEF E
  <2>4. down' \in [Clients -> Seq(A)]
    BY <1>3, <2>1, <2>3, ToAllAt
  <2>5. down' \in [Clients -> Seq(Told(savegame'))]
    BY <2>4 DEF A
  <2> QED BY <1>2, <1>3, <1>4, <2>5 DEF Typed
<1>12. ViewsOK(X)'
  <2>1. ASSUME NEW q \in Slots, slot'[q].kind = "occupied"
        PROVE  ClientOK(q, slot', ggs', down'[conn'[q]], up'[conn'[q]], phase'[conn'[q]],
                        self'[conn'[q]], list'[conn'[q]], cggs'[conn'[q]], savegame, X)
    <3>1. q # p /\ slot[q].kind = "occupied"
      BY <1>4, <2>1 DEF OnlyAt
    <3>2. conn'[q] = conn[q] /\ conn[q] \in Clients \ {c}
      BY <1>2, <1>4, <3>1 DEF Places, Inv
    <3>3. down'[conn[q]] = Append(down[conn[q]], m)
      BY <1>9, <3>1, <3>2
    <3>4. ClientOK(q, slot, ggs, down[conn[q]], up[conn[q]], phase[conn[q]], self[conn[q]],
                   list[conn[q]], cggs[conn[q]], savegame, X)
      BY <1>1, <3>1 DEF ViewsOK, SeatOK
    <3>5. Takes(m, savegame, q, slot, ggs, up[conn[q]], q, slot', ggs, up[conn[q]])
      BY <1>2, <1>4, <1>5, TakesKind
    <3>6. ClientOK(q, slot', ggs, Append(down[conn[q]], m), up[conn[q]], phase[conn[q]],
                   self[conn[q]], list[conn[q]], cggs[conn[q]], savegame, X)
      BY <1>2, <1>5, <1>6, <1>8, <3>2, <3>4, <3>5, Broadcast
    <3> QED BY <1>3, <1>4, <3>2, <3>3, <3>6
  <2>2. \A q \in Slots : SeatOK(q, X)'
    BY <2>1 DEF SeatOK
  <2>3. \A d \in Clients \ {Host} : StartedOK(started[d], X)'
    BY <1>1, <1>3 DEF ViewsOK, StartedOK
  <2> QED BY <2>2, <2>3 DEF ViewsOK
<1> QED BY <1>10, <1>11, <1>12 DEF LInv

(* Somebody has joined. *)
Joined(p) == [slot EXCEPT ![p].kind = "occupied"]
NewMsg(p) == [type |-> "new", slot |-> p]
ListMsg(p) == [type |-> "list", list |-> Joined(p)]
SettingsMsg == [type |-> "settings", settings |-> ggs]
Paints(p) == Joined(p)[p].color \in Taken(Joined(p), p)
Repainted(p) == Painted(Joined(p), p)
PaintMsg(p) == ColorMsg(Repainted(p), p)

LEMMA JoinFacts ==
  ASSUME LInv, NEW p \in Slots, slot[p].kind = "reserved"
  PROVE  /\ Joined(p) \in [Slots -> Slot] /\ OnlyAt(slot, Joined(p), p)
         /\ Joined(p)[p].kind = "occupied"
         /\ Joined(p)[p].team = slot[p].team /\ Joined(p)[p].color = slot[p].color
         /\ Repainted(p) \in [Slots -> Slot] /\ OnlyAt(Joined(p), Repainted(p), p)
         /\ Repainted(p)[p].kind = "occupied" /\ Repainted(p)[p].team = slot[p].team
         /\ Repainted(p)[p].color = PaintMsg(p).color
         /\ NewMsg(p) \in Told(savegame) /\ NewMsg(p).type = "new" /\ NewMsg(p).slot = p
         /\ ListMsg(p) \in Told(savegame) /\ ListMsg(p).type = "list" /\ ListMsg(p).list = Joined(p)
         /\ SettingsMsg \in Told(savegame) /\ SettingsMsg.type = "settings"
         /\ SettingsMsg.settings = ggs
         /\ PaintMsg(p) \in Message /\ PaintMsg(p).type = "color" /\ PaintMsg(p).slot = p
         /\ Paints(p) => ~savegame /\ PaintMsg(p) \in Told(savegame)
<1>1. Inv /\ savegame \in BOOLEAN /\ ggs \in Settings /\ slot \in [Slots -> Slot] /\ slot[p] \in Slot
  BY SlotType DEF LInv, Inv, Typed
<1>2. /\ Joined(p) \in [Slots -> Slot] /\ OnlyAt(slot, Joined(p), p)
      /\ Joined(p)[p].kind = "occupied"
      /\ Joined(p)[p].team = slot[p].team /\ Joined(p)[p].color = slot[p].color
  BY <1>1 DEF Joined, OnlyAt, Slot, Kinds
<1>3. /\ Repainted(p) \in [Slots -> Slot] /\ OnlyAt(Joined(p), Repainted(p), p)
      /\ Repainted(p)[p].kind = "occupied" /\ Repainted(p)[p].team = slot[p].team
      /\ Repainted(p)[p].color = PaintMsg(p).color
      /\ PaintMsg(p) \in Message /\ PaintMsg(p).type = "color" /\ PaintMsg(p).slot = p
  BY <1>2, PaintedType DEF Repainted, PaintMsg
<1>4. NewMsg(p) \in Told(savegame) /\ NewMsg(p).type = "new" /\ NewMsg(p).slot = p
  <2>1. NewMsg(p) \in Message /\ NewMsg(p).type = "new" /\ NewMsg(p).slot = p
    BY DEF NewMsg, Message
  <2> QED BY <1>1, <2>1, ToldMessages
<1>5. ListMsg(p) \in Told(savegame) /\ ListMsg(p).type = "list" /\ ListMsg(p).list = Joined(p)
  <2>1. ListMsg(p) \in Message /\ ListMsg(p).type = "list" /\ ListMsg(p).list = Joined(p)
    BY <1>2 DEF ListMsg, Message
  <2> QED BY <1>1, <2>1, ToldMessages
<1>6. SettingsMsg \in Told(savegame) /\ SettingsMsg.type = "settings" /\ SettingsMsg.settings = ggs
  <2>1. SettingsMsg \in Message /\ SettingsMsg.type = "settings" /\ SettingsMsg.settings = ggs
    BY <1>1 DEF SettingsMsg, Message
  <2> QED BY <1>1, <2>1, ToldMessages
<1>7. Paints(p) => ~savegame
  <2>1. Taken(Joined(p), p) = Taken(slot, p)
    BY <1>2 DEF Taken, Plays, OnlyAt
  <2> QED BY <1>1, <1>2, <2>1, NoSearch DEF Paints
<1>8. Paints(p) => PaintMsg(p) \in Told(savegame)
  BY <1>1, <1>3, <1>7, ToldMessages
<1> QED BY <1>2, <1>3, <1>4, <1>5, <1>6, <1>7, <1>8

(* What they are told: the joiner, the players, and nobody else. *)
LEMMA JoinTells ==
  ASSUME LInv, NEW p \in Slots, Join(p), UNCHANGED savegame
  PROVE  /\ slot' = IF Paints(p) THEN Repainted(p) ELSE Joined(p)
         /\ conn[p] \in Clients
         /\ down'[conn[p]] =
              IF Paints(p) THEN Append(Append(Append(<<>>, ListMsg(p)), PaintMsg(p)), SettingsMsg)
              ELSE Append(Append(<<>>, ListMsg(p)), SettingsMsg)
         /\ \A d \in Clients \ {conn[p]} :
              down'[d] = IF \E q \in Slots : slot[q].kind = "occupied" /\ conn[q] = d
                           THEN IF Paints(p) THEN Append(Append(down[d], NewMsg(p)), PaintMsg(p))
                                ELSE Append(down[d], NewMsg(p))
                           ELSE down[d]
         /\ down' \in [Clients -> Seq(Told(savegame))]
<1> DEFINE c == conn[p]
           A == Told(savegame)
           told == ToAll(down, slot, conn, NewMsg(p))
           D == [told EXCEPT ![c] = Append(@, ListMsg(p))]
           E == IF Paints(p) THEN ToAll(D, Repainted(p), conn, PaintMsg(p)) ELSE D
<1>1. /\ slot[p].kind = "reserved" /\ slot' = IF Paints(p) THEN Repainted(p) ELSE Joined(p)
      /\ down' = [E EXCEPT ![c] = Append(@, SettingsMsg)]
  BY DEF Join, Paints, Repainted, Joined, PaintMsg, NewMsg, ListMsg, SettingsMsg
<1>2. /\ OnlyAt(slot, Joined(p), p) /\ Joined(p)[p].kind = "occupied"
      /\ OnlyAt(Joined(p), Repainted(p), p) /\ Repainted(p)[p].kind = "occupied"
      /\ NewMsg(p) \in A /\ ListMsg(p) \in A /\ SettingsMsg \in A /\ (Paints(p) => PaintMsg(p) \in A)
  BY <1>1, JoinFacts
<1>3. c \in Clients /\ down[c] = <<>> /\ (\A q \in Slots \ {p} : conn[q] # c)
      /\ down \in [Clients -> Seq(A)]
  BY <1>1 DEF LInv, Places, Joins, Inv, Typed
<1> HIDE DEF A, c
<1>4. told \in [Clients -> Seq(A)]
  BY <1>2, <1>3, ToAllAt
<1>5. \A d \in Clients : told[d] = IF \E q \in Slots : slot[q].kind = "occupied" /\ conn[q] = d
                                     THEN Append(down[d], NewMsg(p)) ELSE down[d]
  BY ToAllHere
<1> HIDE DEF told
<1>6. told[c] = <<>>
  <2>1. ~ \E q \in Slots : slot[q].kind = "occupied" /\ conn[q] = c
    BY <1>1, <1>3
  <2> QED BY <1>3, <1>5, <2>1
<1>7. /\ D \in [Clients -> Seq(A)] /\ D[c] = Append(<<>>, ListMsg(p))
      /\ \A d \in Clients \ {c} : D[d] = told[d]
  BY <1>2, <1>3, <1>4, <1>6
<1> HIDE DEF D
<1>8. /\ E \in [Clients -> Seq(A)]
      /\ E[c] = IF Paints(p) THEN Append(D[c], PaintMsg(p)) ELSE D[c]
      /\ \A d \in Clients \ {c} :
           E[d] = IF Paints(p) /\ \E q \in Slots : slot[q].kind = "occupied" /\ conn[q] = d
                    THEN Append(D[d], PaintMsg(p)) ELSE D[d]
  <2>1. CASE ~Paints(p)
    BY <1>7, <2>1
  <2>2. CASE Paints(p)
    <3> DEFINE F == ToAll(D, Repainted(p), conn, PaintMsg(p))
    <3>1. F \in [Clients -> Seq(A)]
      BY <1>2, <1>7, <2>2, ToAllAt, Zenon
    <3>2. \A d \in Clients : F[d] = IF \E q \in Slots : Repainted(p)[q].kind = "occupied" /\ conn[q] = d
                                      THEN Append(D[d], PaintMsg(p)) ELSE D[d]
      BY ToAllHere
    <3> HIDE DEF F
    <3>3. F[c] = Append(D[c], PaintMsg(p))
      BY <1>2, <1>3, <3>2 DEF c
    <3>4. ASSUME NEW d \in Clients \ {c}
          PROVE  F[d] = IF \E q \in Slots : slot[q].kind = "occupied" /\ conn[q] = d
                          THEN Append(D[d], PaintMsg(p)) ELSE D[d]
      <4>1. (\E q \in Slots : Repainted(p)[q].kind = "occupied" /\ conn[q] = d) <=>
            (\E q \in Slots : slot[q].kind = "occupied" /\ conn[q] = d)
        BY <1>1, <1>2 DEF OnlyAt, c
      <4> QED BY <3>2, <4>1
    <3>5. E = F
      BY <2>2 DEF F
    <3> HIDE DEF E
    <3> QED BY <2>2, <3>1, <3>3, <3>4, <3>5
  <2> QED BY <2>1, <2>2
<1> HIDE DEF E
<1>9. /\ down'[c] = Append(E[c], SettingsMsg) /\ (\A d \in Clients \ {c} : down'[d] = E[d])
      /\ down' \in [Clients -> Seq(A)]
  <2>1. down' = [E EXCEPT ![c] = Append(@, SettingsMsg)] /\ E \in [Clients -> Seq(A)]
    BY <1>1, <1>8
  <2>2. SettingsMsg \in A
    BY <1>2
  <2> QED BY <1>3, <2>1, <2>2
<1>10. down'[c] = IF Paints(p) THEN Append(Append(Append(<<>>, ListMsg(p)), PaintMsg(p)), SettingsMsg)
                  ELSE Append(Append(<<>>, ListMsg(p)), SettingsMsg)
  BY <1>7, <1>8, <1>9
<1>11. \A d \in Clients \ {c} :
         down'[d] = IF \E q \in Slots : slot[q].kind = "occupied" /\ conn[q] = d
                      THEN IF Paints(p) THEN Append(Append(down[d], NewMsg(p)), PaintMsg(p))
                           ELSE Append(down[d], NewMsg(p))
                      ELSE down[d]
  <2> TAKE d \in Clients \ {c}
  <2>1. CASE \E q \in Slots : slot[q].kind = "occupied" /\ conn[q] = d
    <3>1. D[d] = Append(down[d], NewMsg(p))
      BY <1>5, <1>7, <2>1
    <3>2. down'[d] = IF Paints(p) THEN Append(D[d], PaintMsg(p)) ELSE D[d]
      BY <1>8, <1>9, <2>1
    <3> QED BY <2>1, <3>1, <3>2
  <2>2. CASE ~ \E q \in Slots : slot[q].kind = "occupied" /\ conn[q] = d
    <3>1. D[d] = down[d]
      BY <1>5, <1>7, <2>2
    <3>2. down'[d] = D[d]
      BY <1>8, <1>9, <2>2
    <3> QED BY <2>2, <3>1, <3>2
  <2> QED BY <2>1, <2>2
<1> QED BY <1>1, <1>3, <1>9, <1>10, <1>11 DEF A, c

(* The joiner's list and settings. *)
LEMMA JoinerViews ==
  ASSUME LInv, NEW p \in Slots, Join(p), UNCHANGED savegame, NEW X
  PROVE  ClientOK(p, slot', ggs, down'[conn[p]], <<>>, "joining", p, list[conn[p]],
                  cggs[conn[p]], savegame, X)
<1> DEFINE c == conn[p]
           S == Joined(p)
           T == Repainted(p)
<1>0. slot[p].kind = "reserved"
  BY DEF Join
<1>1. /\ S \in [Slots -> Slot] /\ OnlyAt(slot, S, p) /\ S[p].kind = "occupied"
      /\ OnlyAt(S, T, p) /\ T[p].kind = S[p].kind /\ T[p].team = S[p].team
      /\ T[p].color = PaintMsg(p).color
      /\ ListMsg(p) \in Told(savegame) /\ ListMsg(p).type = "list" /\ ListMsg(p).list = S
      /\ SettingsMsg \in Told(savegame) /\ SettingsMsg.type = "settings" /\ SettingsMsg.settings = ggs
      /\ PaintMsg(p) \in Message /\ PaintMsg(p).type = "color" /\ PaintMsg(p).slot = p
  BY <1>0, JoinFacts
<1>2. /\ slot' = IF Paints(p) THEN T ELSE S
      /\ down'[c] = IF Paints(p) THEN Append(Append(Append(<<>>, ListMsg(p)), PaintMsg(p)), SettingsMsg)
                    ELSE Append(Append(<<>>, ListMsg(p)), SettingsMsg)
      /\ c \in Clients
  BY JoinTells
<1>3. savegame \in BOOLEAN /\ cggs[c] \in Settings
  BY <1>2 DEF LInv, Inv, Typed
<1>4. ListMsg(p) \in Message /\ SettingsMsg \in Message
  BY <1>1, <1>3, ToldMessages
<1>5. Timeouts => \A q \in Slots : S[q].kind # "reserved"
  <2> SUFFICES ASSUME Timeouts, NEW q \in Slots, S[q].kind = "reserved"
               PROVE  FALSE
    OBVIOUS
  <2>1. q # p /\ slot[q].kind = "reserved"
    BY <1>1 DEF OnlyAt
  <2>2. conn[q] \in Clients /\ Fresh(conn[q]) /\ Fresh(c)
    BY <1>0, <1>2, <2>1 DEF LInv, Places, Inv, Fresh
  <2>3. conn[q] = c
    BY <1>2, <2>2 DEF LInv, Joins
  <2> QED BY <1>0, <2>1, <2>3 DEF LInv, Places
<1>6. ListMsg(p) = [type |-> "list", list |-> S]
  BY DEF ListMsg
<1> DEFINE LM == ListMsg(p)
           PM == PaintMsg(p)
           L == list[c]
           g == cggs[c]
           D1 == Append(<<>>, LM)
<1>7. D1 = <<LM>> /\ D1 \in Seq(Message) /\ <<>> \in Seq(Message)
  BY <1>4
<1> HIDE DEF S, T, LM, PM, L, g, c
<1>8. ClientOK(p, S, g, D1, <<>>, "joining", p, L, g, savegame, X)
  <2>1. g \in Settings
    BY <1>3 DEF g
  <2>2. ClientOK(p, S, g, <<[type |-> "list", list |-> S]>>, <<>>, "joining", p, L, g, savegame, X)
    BY <1>1, <1>3, <1>5, <2>1, JoinerOK
  <2> QED BY <1>6, <1>7, <2>2 DEF LM
<1> HIDE DEF D1
<1>9. \A t : ~Asks(<<>>, t)
  BY DEF Asks
<1>10. ASSUME NEW D \in Seq(Message), NEW S2,
              ClientOK(p, S2, g, D, <<>>, "joining", p, L, g, savegame, X)
       PROVE  ClientOK(p, S2, ggs, Append(D, SettingsMsg), <<>>, "joining", p, L, g, savegame, X)
  <2>1. Takes(SettingsMsg, savegame, p, S2, g, <<>>, p, S2, ggs, <<>>)
    <3>1. SameLooks(S2, S2)
      BY DEF SameLooks
    <3> QED BY <1>1, <3>1, TakesNothing
  <2> QED BY <1>1, <1>3, <1>4, <1>9, <1>10, <2>1, Broadcast
<1>11. CASE Paints(p)
  <2>1. Takes(PM, savegame, p, S, g, <<>>, p, T, g, <<>>)
    BY <1>1, <1>3, <1>9, TakesChoice DEF PM
  <2>2. PM \in Message /\ PM.type # "start"
    BY <1>1 DEF PM
  <2>3. ClientOK(p, T, g, Append(D1, PM), <<>>, "joining", p, L, g, savegame, X)
    BY <1>3, <1>7, <1>8, <1>9, <2>1, <2>2, Broadcast
  <2>4. Append(D1, PM) \in Seq(Message)
    BY <1>7, <2>2
  <2>5. ClientOK(p, T, ggs, Append(Append(D1, PM), SettingsMsg), <<>>, "joining", p, L, g, savegame, X)
    BY <1>10, <2>3, <2>4
  <2> QED BY <1>2, <1>11, <2>5 DEF D1, LM, PM, L, g, c
<1>12. CASE ~Paints(p)
  <2>1. ClientOK(p, S, ggs, Append(D1, SettingsMsg), <<>>, "joining", p, L, g, savegame, X)
    BY <1>7, <1>8, <1>10
  <2> QED BY <1>2, <1>12, <2>1 DEF D1, LM, L, g, c
<1> QED BY <1>11, <1>12

(* The lists of the others. *)
LEMMA OthersViews ==
  ASSUME LInv, NEW p \in Slots, Join(p), UNCHANGED savegame, NEW X, ViewsOK(X),
         NEW q \in Slots \ {p}, slot[q].kind = "occupied"
  PROVE  ClientOK(q, slot', ggs, down'[conn[q]], up[conn[q]], phase[conn[q]], self[conn[q]],
                  list[conn[q]], cggs[conn[q]], savegame, X)
<1> DEFINE d == conn[q]
           S == Joined(p)
           T == Repainted(p)
           NM == NewMsg(p)
           PM == PaintMsg(p)
<1>0. slot[p].kind = "reserved"
  BY DEF Join
<1>1. /\ OnlyAt(slot, S, p) /\ S[p].kind = "occupied"
      /\ S[p].team = slot[p].team /\ S[p].color = slot[p].color
      /\ OnlyAt(S, T, p) /\ T[p].kind = S[p].kind /\ T[p].team = S[p].team
      /\ T[p].color = PM.color
      /\ NM \in Told(savegame) /\ NM.type = "new" /\ NM.slot = p
      /\ PM \in Message /\ PM.type = "color" /\ PM.slot = p
  BY <1>0, JoinFacts
<1>2. Inv /\ Places /\ savegame \in BOOLEAN /\ down \in [Clients -> Seq(Told(savegame))]
  BY DEF LInv, Inv, Typed
<1>3. d \in Clients /\ d # conn[p]
  BY <1>2 DEF Places, Inv
<1>4. /\ slot' = IF Paints(p) THEN T ELSE S
      /\ down'[d] = IF Paints(p) THEN Append(Append(down[d], NM), PM) ELSE Append(down[d], NM)
  BY <1>3, JoinTells
<1>5. down[d] \in Seq(Message) /\ NM \in Message /\ Append(down[d], NM) \in Seq(Message)
  BY <1>1, <1>2, <1>3, ToldMessages
<1>6. ClientOK(q, slot, ggs, down[d], up[d], phase[d], self[d], list[d], cggs[d], savegame, X)
  BY DEF ViewsOK, SeatOK
<1> HIDE DEF S, T, NM, PM, d
<1>7. Takes(NM, savegame, q, slot, ggs, up[d], q, S, ggs, up[d])
  BY <1>1, <1>2, TakesKind
<1>8. ClientOK(q, S, ggs, Append(down[d], NM), up[d], phase[d], self[d], list[d], cggs[d], savegame, X)
  BY <1>1, <1>2, <1>5, <1>6, <1>7, Broadcast
<1>9. CASE Paints(p)
  <2>1. Takes(PM, savegame, q, S, ggs, up[d], q, T, ggs, up[d])
    BY <1>1, <1>2, TakesChoice
  <2>2. ClientOK(q, T, ggs, Append(Append(down[d], NM), PM), up[d], phase[d], self[d], list[d], cggs[d],
                 savegame, X)
    BY <1>1, <1>2, <1>5, <1>8, <2>1, Broadcast
  <2> QED BY <1>4, <1>9, <2>2 DEF d
<1>10. CASE ~Paints(p)
  BY <1>4, <1>8, <1>10 DEF d
<1> QED BY <1>9, <1>10

LEMMA JoinLists ==
  ASSUME LInv, Inv', UNCHANGED savegame, NEW p \in Slots, Join(p)
  PROVE  LInv'
<1> DEFINE c == conn[p]
<1>1. PICK X : ViewsOK(X)
  BY DEF LInv
<1>2. Inv /\ Typed /\ Places /\ Joins /\ NotYet
  BY DEF LInv
<1>3. /\ UNCHANGED <<status, counting, conn, ggs, up, phase, self, list, cggs, ops, started>>
      /\ slot[p].kind = "reserved"
  BY DEF Join, clientVars
<1>4. /\ slot'[p].kind = "occupied" /\ \A q \in Slots \ {p} : slot'[q] = slot[q]
  <2>1. slot' = IF Paints(p) THEN Repainted(p) ELSE Joined(p)
    BY JoinTells
  <2>2. /\ OnlyAt(slot, Joined(p), p) /\ OnlyAt(Joined(p), Repainted(p), p)
        /\ Joined(p)[p].kind = "occupied" /\ Repainted(p)[p].kind = "occupied"
    BY <1>3, JoinFacts
  <2> QED BY <2>1, <2>2 DEF OnlyAt
<1>5. /\ phase[c] = "joining" /\ self[c] = p /\ up[c] = <<>> /\ down[c] = <<>> /\ c \in Clients
      /\ \A q \in Slots \ {p} : conn[q] # c
  BY <1>2, <1>3 DEF Places, Joins, Inv
<1>6. Typed'
  BY <1>2, <1>3, JoinTells DEF Typed
<1>7. /\ NewMsg(p) \in Message /\ NewMsg(p).type = "new"
      /\ ListMsg(p) \in Message /\ ListMsg(p).type = "list"
      /\ SettingsMsg \in Message /\ SettingsMsg.type = "settings"
      /\ PaintMsg(p) \in Message /\ PaintMsg(p).type = "color"
      /\ \A d \in Clients : down[d] \in Seq(Message)
  BY <1>2, <1>3, JoinFacts, ToldMessages DEF Inv, Typed
<1>8. \A d \in Clients \ {c} :
        /\ Grown(down[d], down'[d])
        /\ (\A q \in Slots : conn[q] = d => slot[q].kind # "occupied") => down'[d] = down[d]
  <2> TAKE d \in Clients \ {c}
  <2>1. down'[d] = IF \E q \in Slots : slot[q].kind = "occupied" /\ conn[q] = d
                     THEN IF Paints(p) THEN Append(Append(down[d], NewMsg(p)), PaintMsg(p))
                          ELSE Append(down[d], NewMsg(p))
                     ELSE down[d]
    BY JoinTells
  <2>2. Grown(down[d], down[d])
    BY DEF Grown
  <2>3. Append(down[d], NewMsg(p)) \in Seq(Message) /\ Append(down[d], NewMsg(p)) # <<>>
    BY <1>7
  <2>4. Grown(down[d], Append(down[d], NewMsg(p)))
    BY <1>7, GrownOn
  <2>5. Grown(Append(down[d], NewMsg(p)), Append(Append(down[d], NewMsg(p)), PaintMsg(p)))
    BY <1>7, <2>3, GrownOn
  <2>6. Grown(down[d], Append(Append(down[d], NewMsg(p)), PaintMsg(p)))
    BY <2>3, <2>4, <2>5 DEF Grown
  <2> QED BY <2>1, <2>2, <2>4, <2>6
<1>9. /\ down'[c] # <<>> /\ Head(down'[c]).type = "list" /\ NoStart(down'[c])
  <2> DEFINE D1 == Append(<<>>, ListMsg(p))
             D2 == Append(D1, PaintMsg(p))
  <2>1. D1 \in Seq(Message) /\ D1 # <<>> /\ Head(D1).type = "list" /\ D2 \in Seq(Message)
    BY <1>7
  <2>2. NoStart(D1)
    <3>1. <<>> \in Seq(Message) /\ NoStart(<<>>)
      BY DEF NoStart
    <3>2. Grown(<<>>, D1)
      BY <1>7, <3>1, GrownOn
    <3> QED BY <3>1, <3>2 DEF Grown
  <2>3. down'[c] = IF Paints(p) THEN Append(D2, SettingsMsg) ELSE Append(D1, SettingsMsg)
    BY JoinTells
  <2>4. Grown(D1, D2)
    BY <1>7, <2>1, GrownOn
  <2> HIDE DEF D1, D2
  <2>5. Grown(D1, Append(D1, SettingsMsg)) /\ Grown(D2, Append(D2, SettingsMsg))
    BY <1>7, <2>1, GrownOn
  <2> QED BY <2>1, <2>2, <2>3, <2>4, <2>5 DEF Grown
<1>10. Places'
  <2>1. \A d \in Clients : phase[d] \in {"out", "gone"} => down'[d] = down[d]
    BY <1>2, <1>5, <1>8 DEF Places
  <2>2. \A q \in Slots : slot'[q].kind \in {"reserved", "occupied"} => conn[q] # Nobody
    BY <1>2, <1>3, <1>4 DEF Places
  <2> QED BY <1>2, <1>3, <2>1, <2>2 DEF Places
<1>11. Joins'
  <2>1. ASSUME NEW q \in Slots, slot'[q].kind = "reserved"
        PROVE  /\ phase[conn[q]] = "joining" /\ self[conn[q]] = q
               /\ down'[conn[q]] = <<>> /\ up[conn[q]] = <<>>
    <3>1. q # p /\ slot[q].kind = "reserved"
      BY <1>4, <2>1
    <3>2. conn[q] \in Clients \ {c}
      BY <1>2, <1>5, <3>1 DEF Places, Inv
    <3>3. \A r \in Slots : conn[r] = conn[q] => slot[r].kind # "occupied"
      BY <1>2, <3>1, <3>2 DEF Places
    <3> QED BY <1>2, <1>8, <3>1, <3>2, <3>3 DEF Joins
  <2>2. ASSUME NEW q \in Slots, slot'[q].kind = "occupied", phase[conn[q]] = "joining"
        PROVE  down'[conn[q]] # <<>> /\ Head(down'[conn[q]]).type = "list"
    <3>1. CASE q = p
      BY <1>9, <3>1
    <3>2. CASE q # p
      <4>1. slot[q].kind = "occupied" /\ conn[q] \in Clients \ {c}
        BY <1>2, <1>4, <1>5, <2>2, <3>2 DEF Places, Inv
      <4>2. down[conn[q]] # <<>> /\ Head(down[conn[q]]).type = "list"
        BY <1>2, <2>2, <4>1 DEF Joins
      <4> QED BY <1>8, <4>1, <4>2 DEF Grown
    <3> QED BY <3>1, <3>2
  <2>3. \A d \in Clients : Fresh(d)' => Fresh(d)
    BY <1>3, <1>4 DEF Fresh
  <2> QED BY <1>2, <1>3, <2>1, <2>2, <2>3 DEF Joins
<1>12. NotYet'
  BY <1>2, <1>3, <1>8, <1>9 DEF NotYet, Grown
<1>13. ViewsOK(X)'
  <2>1. ASSUME NEW q \in Slots, slot'[q].kind = "occupied"
        PROVE  ClientOK(q, slot', ggs', down'[conn'[q]], up'[conn'[q]], phase'[conn'[q]],
                        self'[conn'[q]], list'[conn'[q]], cggs'[conn'[q]], savegame', X)
    <3>1. CASE q = p
      <4>1. ClientOK(p, slot', ggs, down'[conn[p]], <<>>, "joining", p, list[conn[p]],
                     cggs[conn[p]], savegame, X)
        BY JoinerViews
      <4> QED BY <1>3, <1>5, <3>1, <4>1
    <3>2. CASE q # p
      <4>1. slot[q].kind = "occupied"
        BY <1>4, <2>1, <3>2
      <4>2. ClientOK(q, slot', ggs, down'[conn[q]], up[conn[q]], phase[conn[q]], self[conn[q]],
                     list[conn[q]], cggs[conn[q]], savegame, X)
        BY <1>1, <3>2, <4>1, OthersViews
      <4> QED BY <1>3, <4>2
    <3> QED BY <3>1, <3>2
  <2>2. \A q \in Slots : SeatOK(q, X)'
    BY <2>1 DEF SeatOK
  <2>3. \A d \in Clients \ {Host} : StartedOK(started[d], X)'
    BY <1>1, <1>3 DEF ViewsOK, StartedOK
  <2> QED BY <2>2, <2>3 DEF ViewsOK
<1> QED BY <1>6, <1>10, <1>11, <1>12, <1>13 DEF LInv

(* Players of a saved game change their slots. *)
LEMMA MovedBack ==
  ASSUME NEW p \in Slots, NEW q \in Slots, NEW r \in Slots
  PROVE  Moved(r, p, q) \in Slots /\ Moved(Moved(r, p, q), p, q) = r
BY DEF Moved

LEMMA SwapPlayerLists ==
  ASSUME LInv, Inv', ~Meddles, ~Swaps, UNCHANGED savegame,
         NEW p \in Slots, NEW q \in Slots, SwapPlayer(p, q)
  PROVE  LInv'
<1> DEFINE m == [type |-> "swap", slot |-> p, with |-> q]
           B(r) == Moved(r, p, q)
<1>1. PICK X : ViewsOK(X)
  BY DEF LInv
<1>2. Inv /\ Typed /\ Places /\ Joins /\ NotYet /\ savegame \in BOOLEAN
  BY DEF LInv, Inv
<1>3. /\ UNCHANGED <<status, counting, ggs, up, phase, self, list, cggs, started>>
      /\ ops' = ops + 1 /\ savegame /\ p # q
      /\ slot[p].kind = "occupied" /\ slot[q].kind # "reserved"
      /\ down' = ToAll(down, slot, conn, m)
  BY DEF SwapPlayer, clientVars, Operate
<1>change. /\ slot' = Swapped(slot, p, q)
           /\ conn' = [conn EXCEPT ![p] = conn[q], ![q] = conn[p]]
  BY DEF SwapPlayer
<1>4. m \in Message /\ m.type = "swap" /\ m.slot = p /\ m.with = q
  BY DEF Message
<1>5. m \in Told(savegame) /\ m.type # "start"
  BY <1>2, <1>3, <1>4, ToldMessages
<1> HIDE DEF m
<1>6. /\ \A r \in Slots : slot'[r].team = slot[r].team /\ slot'[r].color = slot[r].color
      /\ \A r \in Slots \ {p, q} : slot'[r].kind = slot[r].kind
      /\ slot'[p].kind = slot[q].kind /\ slot'[q].kind = slot[p].kind
  <2> DEFINE sp == [slot[p] EXCEPT !.kind = slot[q].kind, !.ready = slot[q].ready]
             sq == [slot[q] EXCEPT !.kind = slot[p].kind, !.ready = slot[p].ready]
  <2>0. slot \in [Slots -> Slot] /\ slot[p] \in Slot /\ slot[q] \in Slot
    BY <1>2, SlotType
  <2>1. /\ sp.kind = slot[q].kind /\ sp.color = slot[p].color /\ sp.team = slot[p].team
        /\ sq.kind = slot[p].kind /\ sq.color = slot[q].color /\ sq.team = slot[q].team
    BY <2>0 DEF Slot
  <2>2. slot' = [slot EXCEPT ![p] = sp, ![q] = sq]
    BY <1>change, <2>0 DEF Swapped
  <2> HIDE DEF sp, sq
  <2>3. slot'[p] = sp /\ slot'[q] = sq /\ \A r \in Slots \ {p, q} : slot'[r] = slot[r]
    BY <1>3, <2>0, <2>2
  <2> QED BY <2>1, <2>3
<1>7. \A r \in Slots : /\ B(r) \in Slots /\ B(B(r)) = r
                       /\ slot'[r].kind = slot[B(r)].kind /\ conn'[r] = conn[B(r)]
  <2>1. \A r \in Slots : slot'[r].kind = slot[B(r)].kind
    BY <1>6 DEF Moved
  <2>2. \A r \in Slots : conn'[r] = conn[B(r)]
    BY <1>2, <1>3, <1>change DEF Moved, Inv
  <2> QED BY <2>1, <2>2, MovedBack
<1> HIDE DEF B
<1>8. ASSUME NEW d \in Clients
      PROVE  /\ down'[d] = IF \E r \in Slots : slot[r].kind = "occupied" /\ conn[r] = d
                             THEN Append(down[d], m) ELSE down[d]
             /\ down[d] \in Seq(Message) /\ Grown(down[d], down'[d])
  <2>1. down'[d] = IF \E r \in Slots : slot[r].kind = "occupied" /\ conn[r] = d
                     THEN Append(down[d], m) ELSE down[d]
    BY <1>3, ToAllHere
  <2>2. down[d] \in Seq(Message)
    BY <1>2, ToldMessages DEF Typed
  <2>3. Grown(down[d], down[d])
    BY DEF Grown
  <2> QED BY <1>4, <1>5, <2>1, <2>2, <2>3, GrownOn
<1>9. Places'
  <2>1. \A r, s \in Slots : conn'[r] = conn'[s] /\ conn'[r] # Nobody => r = s
    BY <1>2, <1>7 DEF Places
  <2>2. \A r \in Slots : slot'[r].kind \in {"reserved", "occupied"} => conn'[r] # Nobody
    BY <1>2, <1>7 DEF Places
  <2>3. \A d \in Clients : phase[d] \in {"out", "gone"} => down'[d] = down[d]
    BY <1>2, <1>8 DEF Places
  <2>4. \A d \in Clients : phase[d] \in {"out", "gone"} => \A r \in Slots : conn'[r] # d
    BY <1>2, <1>7 DEF Places
  <2>5. \A d \in Clients : phase[d] \notin {"out", "gone"} => \E r \in Slots : conn'[r] = d
    <3> SUFFICES ASSUME NEW d \in Clients, phase[d] \notin {"out", "gone"}
                 PROVE  \E r \in Slots : conn'[r] = d
      OBVIOUS
    <3>1. PICK r \in Slots : conn[r] = d
      BY <1>2 DEF Places
    <3> QED BY <1>7, <3>1
  <2> QED BY <1>2, <1>3, <2>1, <2>2, <2>3, <2>4, <2>5 DEF Places
<1>10. Joins'
  <2>1. ASSUME NEW r \in Slots, slot'[r].kind = "reserved"
        PROVE  /\ phase[conn'[r]] = "joining" /\ self[conn'[r]] = r
               /\ down'[conn'[r]] = <<>> /\ up[conn'[r]] = <<>>
    <3>1. r \notin {p, q}
      BY <1>3, <1>6, <2>1
    <3>2. slot[r].kind = "reserved" /\ conn'[r] = conn[r]
      BY <1>7, <1>6, <2>1, <3>1 DEF B, Moved
    <3>3. conn[r] \in Clients /\ \A s \in Slots : conn[s] = conn[r] => slot[s].kind # "occupied"
      BY <1>2, <3>2 DEF Places, Inv
    <3> QED BY <1>2, <1>8, <3>2, <3>3 DEF Joins
  <2>2. ASSUME NEW r \in Slots, slot'[r].kind = "occupied", phase[conn'[r]] = "joining"
        PROVE  down'[conn'[r]] # <<>> /\ Head(down'[conn'[r]]).type = "list"
    <3>1. slot[B(r)].kind = "occupied" /\ conn'[r] = conn[B(r)] /\ B(r) \in Slots
      BY <1>7, <2>2
    <3>2. conn[B(r)] \in Clients
      BY <1>2, <3>1 DEF Places, Inv
    <3> QED BY <1>2, <1>8, <2>2, <3>1, <3>2 DEF Joins, Grown
  <2>3. \A d \in Clients : Fresh(d)' => Fresh(d)
    <3> SUFFICES ASSUME NEW d \in Clients, phase[d] # "out",
                        NEW r \in Slots, conn'[r] = d, slot'[r].kind = "reserved"
                 PROVE  Fresh(d)
      BY <1>3 DEF Fresh
    <3>1. B(r) \in Slots /\ conn[B(r)] = d /\ slot[B(r)].kind = "reserved"
      BY <1>7
    <3> QED BY <3>1 DEF Fresh
  <2> QED BY <1>2, <1>3, <2>1, <2>2, <2>3 DEF Joins
<1>11. NotYet'
  BY <1>2, <1>3, <1>8 DEF NotYet, Grown
<1>12. Typed'
  <2>1. down \in [Clients -> Seq(Told(savegame))]
    BY <1>2 DEF Typed
  <2>2. down' \in [Clients -> Seq(Told(savegame))]
    BY <1>3, <1>5, <2>1, ToAllAt
  <2>3. Told(savegame') = Told(savegame)
    OBVIOUS
  <2>4. down' \in [Clients -> Seq(Told(savegame'))]
    BY <2>2, <2>3, Zenon
  <2>5. ops' \in Nat /\ UNCHANGED <<status, counting, ggs, phase, self, list, cggs, started>>
    BY <1>2, <1>3 DEF Typed
  <2>6. Typed
    BY <1>2
  <2> QED BY <2>4, <2>5, <2>6 DEF Typed
<1>13. ViewsOK(X)'
  <2>1. ASSUME NEW r \in Slots, slot'[r].kind = "occupied"
        PROVE  ClientOK(r, slot', ggs', down'[conn'[r]], up'[conn'[r]], phase'[conn'[r]],
                        self'[conn'[r]], list'[conn'[r]], cggs'[conn'[r]], savegame', X)
    <3> DEFINE s == B(r)
               d == conn[s]
    <3>1. /\ s \in Slots /\ slot[s].kind = "occupied" /\ conn'[r] = d /\ Moved(s, p, q) = r
      BY <1>7, <2>1 DEF B
    <3> HIDE DEF s
    <3>2. d \in Clients
      BY <1>2, <3>1 DEF Places, Inv
    <3>3. down'[d] = Append(down[d], m)
      BY <1>8, <3>1, <3>2
    <3>4. ~Asks(up[d], "team") /\ ~Asks(up[d], "color")
      <4>1. up[d] \in Seq(Asked(savegame))
        BY <1>2, <3>2 DEF Inv
      <4>2. \A x \in Asked(savegame) : x.type = "ready"
        BY <1>3 DEF Asked
      <4> QED BY <4>1, <4>2 DEF Asks
    <3>5. Takes(m, savegame, s, slot, ggs, up[d], r, slot', ggs, up[d])
      <4>1. "reserved" \notin {slot[p].kind, slot[q].kind}
        BY <1>3
      <4>2. /\ \A i \in Slots : slot'[i].team = slot[i].team /\ slot'[i].color = slot[i].color
            /\ \A i \in Slots \ {p, q} : slot'[i].kind = slot[i].kind
            /\ slot'[p].kind = slot[q].kind /\ slot'[q].kind = slot[p].kind /\ p # q
        BY <1>3, <1>6
      <4> HIDE DEF d
      <4>3. ~Asks(up[d], "team") /\ ~Asks(up[d], "color")
        BY <3>4
      <4>4. Takes(m, savegame, s, slot, ggs, up[d], Moved(s, p, q), slot', ggs, up[d])
        BY <1>4, <3>1, <4>1, <4>2, <4>3, TakesSwap
      <4> QED BY <3>1, <4>4
    <3>6. ClientOK(s, slot, ggs, down[d], up[d], phase[d], self[d], list[d], cggs[d], savegame, X)
      BY <1>1, <3>1 DEF ViewsOK, SeatOK
    <3>7. ClientOK(r, slot', ggs, Append(down[d], m), up[d], phase[d], self[d], list[d], cggs[d],
                   savegame, X)
      BY <1>2, <1>4, <1>5, <1>8, <3>2, <3>5, <3>6, Broadcast
    <3> QED BY <1>3, <3>1, <3>3, <3>7
  <2>2. \A r \in Slots : SeatOK(r, X)'
    BY <2>1 DEF SeatOK
  <2>3. \A d \in Clients \ {Host} : StartedOK(started[d], X)'
    BY <1>1, <1>3 DEF ViewsOK, StartedOK
  <2> QED BY <2>2, <2>3 DEF ViewsOK
<1> QED BY <1>9, <1>10, <1>11, <1>12, <1>13 DEF LInv

(* The start of the game: what everybody will have when told to start. *)
LEMMA StartOK ==
  ASSUME NEW p \in Slots, NEW S, NEW G, NEW D \in Seq(Message), NEW U, NEW ph, NEW ph2, NEW s, NEW L,
         NEW g, NEW saved \in BOOLEAN, NEW X, ClientOK(p, S, G, D, U, ph, s, L, g, saved, X),
         NoStart(D), ph = ph2 \/ ph # "joining", NEW m \in Message, m.type = "start"
  PROVE  ClientOK(p, S, G, Append(D, m), U, ph2, s, L, g, saved,
                  [list |-> [q \in Slots |-> Shown(S[q])], settings |-> G])
<1> DEFINE Y == [list |-> [q \in Slots |-> Shown(S[q])], settings |-> G]
<1>1. PICK v \in Views, w \in Views :
        /\ Leads(v, D, w, saved, X)
        /\ Tied(v, L, s, g, ph, D, U)
        /\ Agrees(w, p, S, G, U)
  BY DEF ClientOK
<1>2. Leads(v, D, w, saved, Y)
  BY <1>1, LeadsFree DEF NoStart
<1>3. Tied(v, L, s, g, ph2, D, U)
  BY <1>1 DEF Tied
<1>4. ClientOK(p, S, G, D, U, ph2, s, L, g, saved, Y)
  BY <1>1, <1>2, <1>3 DEF ClientOK
<1>5. ASSUME NEW a \in Views, Agrees(a, p, S, G, U) PROVE Alike(a, Y)
  <2>1. \A q \in Slots \ {a.self} : /\ Shows(a.list[q].kind, S[q].kind)
                                    /\ a.list[q].team = S[q].team
                                    /\ a.list[q].color = S[q].color
    BY <1>5 DEF Agrees
  <2>2. \A q \in Slots \ {a.self} : Shown(a.list[q]) = Shown(S[q])
    BY <2>1 DEF Shown, Shows
  <2>3. a.settings = G
    BY <1>5 DEF Agrees
  <2> QED BY <2>2, <2>3 DEF Alike
<1>6. Takes(m, saved, p, S, G, U, p, S, G, U)
  <2>1. SameLooks(S, S)
    BY DEF SameLooks
  <2> QED BY <2>1, TakesNothing
<1> HIDE DEF Y
<1>7. ClientOK(p, S, G, Append(D, m), U, ph2, s, L, g, saved, Y)
  BY <1>4, <1>5, <1>6, Broadcast
<1> QED BY <1>7 DEF Y

LEMMA BeginningType ==
  ASSUME Typed, NEW c \in Clients
  PROVE  Starts(c) \in Seq(Beginning) /\ Starts(c) = Append(started[c],
           [list |-> list[c], settings |-> cggs[c], self |-> self[c]])
<1>1. [list |-> list[c], settings |-> cggs[c], self |-> self[c]] \in Beginning
  BY DEF Typed, Beginning
<1> QED BY <1>1 DEF Typed, Starts

LEMMA StartGameLists ==
  ASSUME LInv, Inv', UNCHANGED savegame, StartGame
  PROVE  LInv'
<1> DEFINE m == [type |-> "start"]
           Y == [list |-> [q \in Slots |-> Shown(slot[q])], settings |-> ggs]
<1>0. Host \in Clients
  BY LobbyAssumption
<1>1. PICK X : ViewsOK(X)
  BY DEF LInv
<1>2. Inv /\ Typed /\ Places /\ Joins /\ NotYet /\ savegame \in BOOLEAN
  BY DEF LInv, Inv
<1>3. /\ UNCHANGED <<slot, conn, ggs, up, self, list, cggs, ops>>
      /\ status = "config" /\ status' = "game" /\ counting' = FALSE
      /\ down' = ToAll(down, slot, conn, m)
      /\ phase' = [phase EXCEPT ![Host] = "game"]
      /\ started' = [started EXCEPT ![Host] = Starts(Host)]
  BY DEF StartGame
<1>4. m \in Message /\ m.type = "start"
  BY DEF Message
<1>5. m \in Told(savegame)
  BY <1>2, <1>4, ToldMessages
<1> HIDE DEF m
<1>6. /\ phase'[Host] = "game" /\ \A d \in Clients \ {Host} : phase'[d] = phase[d]
      /\ phase' \in [Clients -> {"out", "joining", "lobby", "game", "gone"}]
      /\ phase[Host] \in {"lobby", "game"}
  BY <1>0, <1>2, <1>3 DEF Typed, Joins
<1>7. ASSUME NEW d \in Clients
      PROVE  /\ down'[d] = IF \E r \in Slots : slot[r].kind = "occupied" /\ conn[r] = d
                             THEN Append(down[d], m) ELSE down[d]
             /\ down[d] \in Seq(Message)
             /\ down[d] # <<>> => down'[d] # <<>> /\ Head(down'[d]) = Head(down[d])
  <2>1. down'[d] = IF \E r \in Slots : slot[r].kind = "occupied" /\ conn[r] = d
                     THEN Append(down[d], m) ELSE down[d]
    BY <1>3, ToAllHere
  <2>2. down[d] \in Seq(Message)
    BY <1>2, ToldMessages DEF Typed
  <2>3. down[d] # <<>> => Append(down[d], m) # <<>> /\ Head(Append(down[d], m)) = Head(down[d])
    BY <1>4, <2>2
  <2> QED BY <2>1, <2>2, <2>3
<1>8. Typed'
  <2>1. started' \in [Clients -> Seq(Beginning)]
    BY <1>0, <1>2, <1>3, BeginningType DEF Typed
  <2>2. down \in [Clients -> Seq(Told(savegame))]
    BY <1>2 DEF Typed
  <2>3. down' \in [Clients -> Seq(Told(savegame))]
    BY <1>3, <1>5, <2>2, ToAllAt
  <2>4. UNCHANGED <<ggs, self, list, cggs, ops>> /\ status' = "game" /\ counting' = FALSE
    BY <1>3
  <2> QED BY <1>2, <1>6, <2>1, <2>3, <2>4 DEF Typed
<1>9. Places'
  <2>1. \A d \in Clients : phase'[d] \in {"out", "gone"} =>
          phase'[d] = phase[d] /\ down'[d] = down[d]
    BY <1>2, <1>6, <1>7 DEF Places
  <2>2. \A d \in Clients : phase'[d] \notin {"out", "gone"} => phase[d] \notin {"out", "gone"}
    BY <1>6
  <2> QED BY <1>2, <1>3, <2>1, <2>2 DEF Places
<1>10. Joins'
  <2>1. \A r \in Slots : slot[r].kind \in {"reserved", "occupied"} => conn[r] \in Clients
    BY <1>2 DEF Places, Inv
  <2>2. ASSUME NEW r \in Slots, slot[r].kind = "reserved"
        PROVE  phase'[conn[r]] = "joining" /\ down'[conn[r]] = <<>>
    <3>1. conn[r] \in Clients /\ phase[conn[r]] = "joining" /\ down[conn[r]] = <<>>
      BY <1>2, <2>1, <2>2 DEF Joins
    <3>2. \A s \in Slots : conn[s] = conn[r] => slot[s].kind # "occupied"
      BY <1>2, <2>2, <3>1 DEF Places
    <3> QED BY <1>6, <1>7, <3>1, <3>2
  <2>3. ASSUME NEW r \in Slots, slot[r].kind = "occupied", phase'[conn[r]] = "joining"
        PROVE  down'[conn[r]] # <<>> /\ Head(down'[conn[r]]).type = "list"
    <3>1. conn[r] \in Clients /\ phase[conn[r]] = "joining"
      BY <1>6, <2>1, <2>3
    <3> QED BY <1>2, <1>7, <2>3, <3>1 DEF Joins
  <2>4. \A d \in Clients : Fresh(d)' => Fresh(d)
    BY <1>3, <1>6 DEF Fresh
  <2> QED BY <1>2, <1>3, <1>6, <2>2, <2>3, <2>4 DEF Joins
<1>11. NotYet'
  BY <1>3 DEF NotYet
<1>12. ViewsOK(Y)'
  <2>1. ASSUME NEW r \in Slots, slot[r].kind = "occupied"
        PROVE  ClientOK(r, slot, ggs, down'[conn[r]], up[conn[r]], phase'[conn[r]], self[conn[r]],
                        list[conn[r]], cggs[conn[r]], savegame, Y)
    <3> DEFINE d == conn[r]
    <3>1. d \in Clients
      BY <1>2, <2>1 DEF Places, Inv
    <3>2. down'[d] = Append(down[d], m) /\ down[d] \in Seq(Message)
      BY <1>7, <2>1, <3>1
    <3>3. NoStart(down[d])
      BY <1>2, <1>3, <3>1 DEF NotYet
    <3>4. ClientOK(r, slot, ggs, down[d], up[d], phase[d], self[d], list[d], cggs[d], savegame, X)
      BY <1>1, <2>1 DEF ViewsOK, SeatOK
    <3>5. phase[d] = phase'[d] \/ phase[d] # "joining"
      BY <1>6, <3>1
    <3> HIDE DEF d
    <3>6. ClientOK(r, slot, ggs, Append(down[d], m), up[d], phase'[d], self[d], list[d], cggs[d],
                   savegame, Y)
      BY <1>2, <1>4, <3>2, <3>3, <3>4, <3>5, StartOK
    <3> QED BY <3>2, <3>6 DEF d
  <2> HIDE DEF Y
  <2>2. \A r \in Slots : SeatOK(r, Y)'
    <3>1. Y' = Y
      BY <1>3 DEF Y
    <3> QED BY <1>3, <2>1, <3>1 DEF SeatOK
  <2>3. \A d \in Clients \ {Host} : StartedOK(started'[d], Y)
    <3>1. \A d \in Clients \ {Host} : started'[d] = <<>>
      BY <1>0, <1>2, <1>3 DEF Typed, NotYet
    <3> QED BY <3>1 DEF StartedOK
  <2>4. \A d \in Clients \ {Host} : StartedOK(started[d], Y)'
    <3>1. Y' = Y
      BY <1>3 DEF Y
    <3> QED BY <2>3, <3>1 DEF StartedOK
  <2> QED BY <2>2, <2>4 DEF ViewsOK
<1>13. (\E Z : ViewsOK(Z))'
  BY <1>12
<1> QED BY <1>8, <1>9, <1>10, <1>11, <1>13 DEF LInv

-----------------------------------------------------------------------------
(* The clients' actions. *)
LEMMA Seated ==
  ASSUME Inv, Places, Joins, NEW c \in Clients, down[c] # <<>> \/ phase[c] = "lobby"
  PROVE  /\ phase[c] \notin {"out", "gone"}
         /\ \E p \in Slots : /\ slot[p].kind = "occupied" /\ conn[p] = c
                             /\ \A q \in Slots \ {p} : conn[q] # c
<1>0. Nobody \notin Clients
  BY LobbyAssumption
<1>1. phase[c] \notin {"out", "gone"}
  BY DEF Places
<1>2. PICK p \in Slots : conn[p] = c
  BY <1>1 DEF Places
<1>3. slot[p].kind \in {"reserved", "occupied"}
  BY <1>0, <1>2 DEF Inv, Served
<1>4. slot[p].kind = "occupied"
  BY <1>2, <1>3 DEF Joins
<1> QED BY <1>0, <1>1, <1>2, <1>4 DEF Places

(* Only client c has done anything. *)
Elsewhere(c) ==
  \A d \in Clients \ {c} :
    /\ down'[d] = down[d] /\ up'[d] = up[d] /\ phase'[d] = phase[d] /\ self'[d] = self[d]
    /\ list'[d] = list[d] /\ cggs'[d] = cggs[d] /\ started'[d] = started[d]

LEMMA OneViews ==
  ASSUME Inv, Places, NEW c \in Clients, Elsewhere(c),
         UNCHANGED <<slot, conn, ggs, savegame>>, NEW p \in Slots, conn[p] = c,
         \A q \in Slots \ {p} : conn[q] # c,
         NEW X, ViewsOK(X),
         ClientOK(p, slot, ggs, down'[c], up'[c], phase'[c], self'[c], list'[c], cggs'[c], savegame, X),
         c = Host \/ StartedOK(started'[c], X)
  PROVE  ViewsOK(X)'
<1>1. ASSUME NEW q \in Slots, slot[q].kind = "occupied"
      PROVE  ClientOK(q, slot, ggs, down'[conn[q]], up'[conn[q]], phase'[conn[q]], self'[conn[q]],
                      list'[conn[q]], cggs'[conn[q]], savegame, X)
  <2>1. CASE q = p
    BY <2>1
  <2>2. CASE q # p
    <3>1. conn[q] \in Clients \ {c}
      BY <1>1, <2>2 DEF Places, Inv
    <3>2. ClientOK(q, slot, ggs, down[conn[q]], up[conn[q]], phase[conn[q]], self[conn[q]],
                   list[conn[q]], cggs[conn[q]], savegame, X)
      BY <1>1 DEF ViewsOK, SeatOK
    <3> QED BY <3>1, <3>2 DEF Elsewhere
  <2> QED BY <2>1, <2>2
<1>2. \A q \in Slots : SeatOK(q, X)'
  BY <1>1 DEF SeatOK
<1>3. \A d \in Clients \ {Host} : StartedOK(started'[d], X)
  BY DEF ViewsOK, Elsewhere
<1>4. \A d \in Clients \ {Host} : StartedOK(started[d], X)'
  BY <1>3 DEF StartedOK
<1> QED BY <1>2, <1>4 DEF ViewsOK

LEMMA Elements ==
  ASSUME NEW A, NEW D \in Seq(A)
  PROVE  \A i \in 1..Len(D) : D[i] \in A
OBVIOUS

(* In a saved game nobody's own choice is under way. *)
LEMMA NothingPending ==
  ASSUME Inv, Typed, savegame, NEW c \in Clients, NEW s
  PROVE  ~Pending(down[c], up[c], "team", s) /\ ~Pending(down[c], up[c], "color", s)
<1>1. \A m \in Told(savegame) : m.type \notin {"team", "color"}
  BY DEF Told
<1>2. \A m \in Asked(savegame) : m.type = "ready"
  BY DEF Asked
<1>3. down[c] \in Seq(Told(savegame)) /\ up[c] \in Seq(Asked(savegame))
  BY DEF Inv, Typed
<1>4. /\ \A i \in 1..Len(up[c]) : up[c][i] \in Asked(savegame)
      /\ \A i \in 1..Len(down[c]) : down[c][i] \in Told(savegame)
  BY <1>3, Elements, Zenon
<1>5. /\ \A i \in 1..Len(up[c]) : up[c][i].type = "ready"
      /\ \A i \in 1..Len(down[c]) : down[c][i].type \notin {"team", "color"}
  BY <1>1, <1>2, <1>4
<1> QED BY <1>5 DEF Pending, Asks, Echoes

LEMMA ReadLists ==
  ASSUME LInv, Inv', Typed', NEW c \in Clients, down[c] # <<>>, Elsewhere(c),
         UNCHANGED <<slot, conn, ggs, savegame, status>>,
         down'[c] = Tail(down[c]), phase'[c] \in {"lobby", "game"},
         \A t \in {"team", "color"} : Asks(up'[c], t) <=> Asks(up[c], t),
         self'[c] = IF Head(down[c]).type = "swap"
                      THEN Moved(self[c], Head(down[c]).slot, Head(down[c]).with) ELSE self[c],
         cggs'[c] = IF Head(down[c]).type = "settings" THEN Head(down[c]).settings ELSE cggs[c],
         LooksOf(list'[c]) = ListAfter(LooksOf(list[c]), Head(down[c]), savegame),
         Head(down[c]).type = "start" \/ started'[c] = started[c],
         NEW X, ViewsOK(X), c = Host \/ StartedOK(started'[c], X)
  PROVE  LInv'
<1> DEFINE D == down[c]
           m == Head(D)
<1>1. Inv /\ Typed /\ Places /\ Joins /\ NotYet /\ savegame \in BOOLEAN
  BY DEF LInv, Inv
<1>2. phase[c] \notin {"out", "gone"}
  BY <1>1, Seated
<1>3. PICK p \in Slots : /\ slot[p].kind = "occupied" /\ conn[p] = c
                         /\ \A q \in Slots \ {p} : conn[q] # c
  BY <1>1, Seated
<1>4. phase[c] # "joining" \/ m.type = "list"
  BY <1>1, <1>3 DEF Joins
<1>5. m \in Told(savegame) /\ D \in Seq(Message)
  <2>1. D \in Seq(Told(savegame))
    BY <1>1 DEF Typed
  <2> QED BY <1>1, <2>1, ToldMessages
<1>6. m.type = "swap" => savegame
  BY <1>1, <1>5 DEF Told
<1>7. m.type = "swap" => ~Pending(D, up[c], "team", self[c]) /\ ~Pending(D, up[c], "color", self[c])
  BY <1>1, <1>6, NothingPending
<1>8. ClientOK(p, slot, ggs, D, up[c], phase[c], self[c], list[c], cggs[c], savegame, X)
  BY <1>3 DEF ViewsOK, SeatOK
<1>9. ClientOK(p, slot, ggs, Tail(D), up'[c], phase'[c], self'[c], list'[c], cggs'[c], savegame, X)
  <2>1. self[c] \in Slots /\ list[c] \in [Slots -> Slot]
    BY <1>1 DEF Typed
  <2>2. self'[c] \in Slots /\ list'[c] \in [Slots -> Slot]
    BY DEF Typed
  <2> DEFINE U == up[c]
             U2 == up'[c]
             ph == phase[c]
             ph2 == phase'[c]
             s == self[c]
             s2 == self'[c]
             L == list[c]
             L2 == list'[c]
             g == cggs[c]
             g2 == cggs'[c]
  <2>3. Reads(Head(D), D, U, ph, s, L, g, savegame, U2, ph2, s2, L2, g2)
    BY <1>4, <1>7 DEF Reads
  <2>4. /\ D \in Seq(Message) /\ D # <<>> /\ s \in Slots /\ s2 \in Slots
        /\ L \in [Slots -> Slot] /\ L2 \in [Slots -> Slot] /\ savegame \in BOOLEAN
    BY <1>1, <1>5, <2>1, <2>2
  <2>5. ClientOK(p, slot, ggs, D, U, ph, s, L, g, savegame, X)
    BY <1>8
  <2> HIDE DEF D, U, U2, ph, ph2, s, s2, L, L2, g, g2
  <2>6. ClientOK(p, slot, ggs, Tail(D), U2, ph2, s2, L2, g2, savegame, X)
    BY <2>3, <2>4, <2>5, ReadOK
  <2> QED BY <2>6 DEF D, U2, ph2, s2, L2, g2
<1>10. ViewsOK(X)'
  BY <1>1, <1>3, <1>9, OneViews
<1>11. Places'
  <2>1. \A d \in Clients : phase'[d] \in {"out", "gone"} =>
          d # c /\ phase[d] = phase'[d] /\ down'[d] = down[d] /\ up'[d] = up[d]
    BY DEF Elsewhere
  <2>2. \A d \in Clients : phase'[d] \notin {"out", "gone"} => \E q \in Slots : conn[q] = d
    BY <1>1, <1>3 DEF Elsewhere, Places
  <2>3. ~savegame => \A q \in Slots : conn[q] # Nobody => self'[conn[q]] = q
    <3>1. ~savegame => \A d \in Clients : self'[d] = self[d]
      BY <1>6 DEF Elsewhere
    <3> QED BY <1>1, <3>1 DEF Places, Inv
  <2> QED BY <1>1, <2>1, <2>2, <2>3 DEF Places
<1>12. Joins'
  <2>1. \A q \in Slots \ {p} : slot[q].kind \in {"reserved", "occupied"} => conn[q] \in Clients \ {c}
    BY <1>1, <1>3 DEF Places, Inv
  <2>2. ASSUME NEW q \in Slots, slot[q].kind = "reserved"
        PROVE  /\ phase'[conn[q]] = "joining" /\ self'[conn[q]] = q
               /\ down'[conn[q]] = <<>> /\ up'[conn[q]] = <<>>
    BY <1>1, <1>3, <2>1, <2>2 DEF Joins, Elsewhere
  <2>3. ASSUME NEW q \in Slots, slot[q].kind = "occupied", phase'[conn[q]] = "joining"
        PROVE  down'[conn[q]] # <<>> /\ Head(down'[conn[q]]).type = "list"
    <3>1. q # p
      BY <1>3, <2>3
    <3> QED BY <1>1, <2>1, <2>3, <3>1 DEF Joins, Elsewhere
  <2>4. \A d \in Clients : Fresh(d)' => Fresh(d)
    BY DEF Fresh, Elsewhere
  <2>5. phase'[Host] \in {"lobby", "game"}
    BY <1>1, LobbyAssumption DEF Joins, Elsewhere
  <2> QED BY <1>1, <2>2, <2>3, <2>4, <2>5 DEF Joins
<1>13. NotYet'
  <2> SUFFICES ASSUME status = "config", NEW d \in Clients
               PROVE  started'[d] = <<>> /\ NoStart(down'[d])
    BY DEF NotYet
  <2>1. started[d] = <<>> /\ NoStart(down[d]) /\ NoStart(D)
    BY <1>1 DEF NotYet
  <2>2. CASE d # c
    BY <2>1, <2>2 DEF Elsewhere
  <2>3. CASE d = c
    <3>1. Len(D) \in Nat \ {0} /\ m = D[1] /\ Len(Tail(D)) = Len(D) - 1
          /\ \A i \in 1..Len(Tail(D)) : i + 1 \in 1..Len(D) /\ Tail(D)[i] = D[i + 1]
      BY <1>5
    <3>2. m.type # "start"
      BY <2>1, <3>1 DEF NoStart
    <3>3. NoStart(Tail(D))
      BY <2>1, <3>1 DEF NoStart
    <3> QED BY <2>1, <2>3, <3>2, <3>3
  <2> QED BY <2>2, <2>3
<1>14. (\E Z : ViewsOK(Z))'
  BY <1>10
<1> QED BY <1>11, <1>12, <1>13, <1>14 DEF LInv

LEMMA AsksReady ==
  ASSUME NEW R, NEW U \in Seq(R), NEW r \in R, r.type = "ready"
  PROVE  \A t \in {"team", "color"} : Asks(U \o <<r>>, t) <=> Asks(U, t)
<1> DEFINE V == U \o <<r>>
<1>1. Len(V) = Len(U) + 1 /\ V[Len(U) + 1] = r /\ \A i \in 1..Len(U) : V[i] = U[i]
  OBVIOUS
<1>2. \A i \in 1..Len(V) : i \in 1..Len(U) \/ i = Len(U) + 1
  BY <1>1
<1>3. \A i \in 1..Len(U) : i \in 1..Len(V)
  BY <1>1
<1> HIDE DEF V
<1>4. \A t \in {"team", "color"} : Asks(V, t) <=> Asks(U, t)
  BY <1>1, <1>2, <1>3 DEF Asks
<1> QED BY <1>4 DEF V

(* What a client has read. *)
LEMMA ListRead ==
  ASSUME NEW S \in [Slots -> Slot], NEW L2, L2 = [p \in Slots |-> [S[p] EXCEPT !.ready = S[p].kind \in AIs]]
  PROVE  L2 \in [Slots -> Slot] /\ LooksOf(L2) = [p \in Slots |-> Look(S[p])]
<1>1. ASSUME NEW s \in Slot, NEW b \in BOOLEAN
      PROVE  [s EXCEPT !.ready = b] \in Slot /\ Look([s EXCEPT !.ready = b]) = Look(s)
  BY DEF Slot, Look
<1>2. \A p \in Slots : (S[p].kind \in AIs) \in BOOLEAN /\ S[p] \in Slot
  OBVIOUS
<1>3. \A p \in Slots : L2[p] \in Slot /\ Look(L2[p]) = Look(S[p])
  <2> TAKE p \in Slots
  <2> DEFINE b == S[p].kind \in AIs
  <2>1. L2[p] = [S[p] EXCEPT !.ready = b]
    OBVIOUS
  <2>2. b \in BOOLEAN /\ S[p] \in Slot
    BY <1>2
  <2> HIDE DEF b
  <2> QED BY <1>1, <2>1, <2>2
<1>4. L2 = [p \in Slots |-> L2[p]]
  OBVIOUS
<1> QED BY <1>3, <1>4 DEF LooksOf

LEMMA ReadyChanged ==
  ASSUME NEW L \in [Slots -> Slot], NEW s \in Slots, NEW b \in BOOLEAN, NEW L2, L2 = [L EXCEPT ![s].ready = b]
  PROVE  L2 \in [Slots -> Slot] /\ LooksOf(L2) = LooksOf(L)
<1>1. [L[s] EXCEPT !.ready = b] \in Slot /\ Look([L[s] EXCEPT !.ready = b]) = Look(L[s])
  BY DEF Slot, Look
<1>2. L2 \in [Slots -> Slot] /\ \A q \in Slots : Look(L2[q]) = Look(L[q])
  BY <1>1
<1> QED BY <1>2 DEF LooksOf

LEMMA OneLook ==
  ASSUME NEW L \in [Slots -> Slot], NEW x \in Slots, NEW s \in Slot, NEW L2, L2 = [L EXCEPT ![x] = s]
  PROVE  /\ L2 \in [Slots -> Slot]
         /\ LooksOf(L2) = [LooksOf(L) EXCEPT ![x] = Look(s)]
<1>1. L2 \in [Slots -> Slot] /\ L2[x] = s /\ \A q \in Slots \ {x} : L2[q] = L[q]
  OBVIOUS
<1>2. \A q \in Slots : LooksOf(L2)[q] = [LooksOf(L) EXCEPT ![x] = Look(s)][q]
  BY <1>1 DEF LooksOf
<1> QED BY <1>1, <1>2 DEF LooksOf

LEMMA UpdateRead ==
  ASSUME savegame \in BOOLEAN, NEW L \in [Slots -> Slot], NEW m \in Message,
         m.type \in {"new", "state", "team", "color", "ready", "kicked"},
         NEW L2, L2 = [L EXCEPT ![m.slot] = Updated(@, m)]
  PROVE  L2 \in [Slots -> Slot] /\ LooksOf(L2) = ListAfter(LooksOf(L), m, savegame)
<1> DEFINE x == m.slot
           s == L[x]
           u == Updated(s, m)
           l == LooksOf(L)
<1>1. x \in Slots /\ s \in Slot
  BY MessageKinds
<1>2. l[x] = Look(s) /\ l[x].kind = s.kind /\ l[x].team = s.team /\ l[x].color = s.color
  BY <1>1 DEF LooksOf, Look
<1>3. L2 = [L EXCEPT ![x] = u]
  BY <1>1
<1>4. u \in Slot => L2 \in [Slots -> Slot] /\ LooksOf(L2) = [l EXCEPT ![x] = Look(u)]
  <2> HIDE DEF u, x
  <2>1. x \in Slots /\ L2 = [L EXCEPT ![x] = u]
    BY <1>1, <1>3
  <2> QED BY ONLY L \in [Slots -> Slot], <2>1, OneLook
<1>5. s.kind \in Kinds /\ s.team \in Teams /\ s.color \in Colors /\ s.ready \in BOOLEAN
  BY <1>1 DEF Slot
<1> HIDE DEF s, l
<1>6. CASE m.type = "new"
  <2>1. u \in Slot /\ Look(u) = [kind |-> "occupied", team |-> s.team, color |-> s.color]
    BY <1>1, <1>6 DEF Updated, Slot, Kinds, Look
  <2>2. ListAfter(l, m, savegame) = [l EXCEPT ![x] = [kind |-> "occupied", team |-> s.team, color |-> s.color]]
    BY <1>2, <1>6 DEF ListAfter, WithKind
  <2> QED BY <1>4, <2>1, <2>2 DEF l
<1>7. CASE m.type = "state"
  <2> DEFINE k == NextKind(s.kind)
             b == k \in AIs
  <2>1. k \in Kinds /\ k = KindAfter(s.kind, savegame) /\ b \in BOOLEAN
    BY <1>5 DEF NextKind, KindAfter, Kinds, AIs
  <2>2. u = [s EXCEPT !.kind = k, !.ready = b]
    BY <1>7 DEF Updated, Toggled
  <2> HIDE DEF k, b
  <2>3. u \in Slot /\ Look(u) = [kind |-> k, team |-> s.team, color |-> s.color]
    BY <1>1, <2>1, <2>2 DEF Slot, Look
  <2>4. ListAfter(l, m, savegame) = [l EXCEPT ![x] = [kind |-> k, team |-> s.team, color |-> s.color]]
    BY <1>2, <1>7, <2>1 DEF ListAfter, WithKind
  <2> QED BY <1>4, <2>3, <2>4 DEF l
<1>8. CASE m.type = "kicked"
  <2>1. u \in Slot /\ Look(u) = [kind |-> "free", team |-> s.team, color |-> s.color]
    BY <1>1, <1>8 DEF Updated, Left, Cleared, Slot, Kinds, Look
  <2>2. ListAfter(l, m, savegame) = [l EXCEPT ![x] = [kind |-> "free", team |-> s.team, color |-> s.color]]
    BY <1>2, <1>8 DEF ListAfter, WithKind
  <2> QED BY <1>4, <2>1, <2>2 DEF l
<1>9. CASE m.type = "team"
  <2>0. m.team \in Teams
    BY <1>9, MessageKinds
  <2>1. u \in Slot /\ Look(u) = [kind |-> s.kind, team |-> m.team, color |-> s.color]
    BY <1>1, <1>9, <2>0 DEF Updated, Slot, Look
  <2>2. ListAfter(l, m, savegame) = [l EXCEPT ![x] = [kind |-> s.kind, team |-> m.team, color |-> s.color]]
    BY <1>2, <1>9 DEF ListAfter
  <2> QED BY <1>4, <2>1, <2>2 DEF l
<1>10. CASE m.type = "color"
  <2>0. m.color \in Colors
    BY <1>10, MessageKinds
  <2>1. u \in Slot /\ Look(u) = [kind |-> s.kind, team |-> s.team, color |-> m.color]
    BY <1>1, <1>10, <2>0 DEF Updated, Slot, Look
  <2>2. ListAfter(l, m, savegame) = [l EXCEPT ![x] = [kind |-> s.kind, team |-> s.team, color |-> m.color]]
    BY <1>2, <1>10 DEF ListAfter
  <2> QED BY <1>4, <2>1, <2>2 DEF l
<1>11. CASE m.type = "ready"
  <2>0. m.ready \in BOOLEAN
    BY <1>11, MessageKinds
  <2>1. u \in Slot /\ Look(u) = Look(s)
    BY <1>1, <1>11, <2>0 DEF Updated, Slot, Look
  <2>2. ListAfter(l, m, savegame) = l
    BY <1>11 DEF ListAfter
  <2>3. [l EXCEPT ![x] = Look(u)] = l
    BY <1>2, <2>1 DEF l, LooksOf
  <2> QED BY <1>4, <2>1, <2>2, <2>3 DEF l
<1> QED BY <1>6, <1>7, <1>8, <1>9, <1>10, <1>11

(* A slot with another player. *)
Seat(s, k, b) == [s EXCEPT !.kind = k, !.ready = b]

LEMMA SeatType ==
  ASSUME NEW s \in Slot, NEW k \in Kinds, NEW b \in BOOLEAN
  PROVE  /\ Seat(s, k, b) \in Slot /\ Seat(s, k, b).kind = k
         /\ Seat(s, k, b).color = s.color /\ Seat(s, k, b).team = s.team
BY DEF Seat, Slot

LEMMA SwapRead ==
  ASSUME NEW saved, NEW L \in [Slots -> Slot], NEW m \in Message, m.type = "swap",
         NEW L2, L2 = Swapped(L, m.slot, m.with)
  PROVE  L2 \in [Slots -> Slot] /\ LooksOf(L2) = ListAfter(LooksOf(L), m, saved)
<1> DEFINE p == m.slot
           q == m.with
           l == LooksOf(L)
           a == ListAfter(l, m, saved)
<1>1. p \in Slots /\ q \in Slots
  BY MessageKinds
<1>2. L2 = Swapped(L, p, q)
  OBVIOUS
<1>3. a = WithKind(WithKind(l, p, l[q].kind), q, l[p].kind)
  BY DEF ListAfter
<1> HIDE DEF p, q, a
<1>4. /\ l \in [Slots -> Looks]
      /\ \A r \in Slots : /\ l[r].kind = L[r].kind /\ l[r].team = L[r].team /\ l[r].color = L[r].color
                          /\ l[r] = Look(L[r])
  BY LooksOfType DEF LooksOf, Look
<1>5. \A r \in Slots : /\ L[r] \in Slot /\ L[r].kind \in Kinds /\ L[r].team \in Teams
                       /\ L[r].color \in Colors /\ L[r].ready \in BOOLEAN
  BY DEF Slot
<1>6. /\ L2 \in [Slots -> Slot]
      /\ \A r \in Slots : /\ L2[r].team = L[r].team /\ L2[r].color = L[r].color
                          /\ L2[r].kind = L[Moved(r, p, q)].kind
  <2> DEFINE sp == Seat(L[p], L[q].kind, L[q].ready)
             sq == Seat(L[q], L[p].kind, L[p].ready)
  <2>1. /\ sp \in Slot /\ sp.kind = L[q].kind /\ sp.color = L[p].color /\ sp.team = L[p].team
        /\ sq \in Slot /\ sq.kind = L[p].kind /\ sq.color = L[q].color /\ sq.team = L[q].team
    BY <1>1, <1>5, SeatType
  <2>2. L2 = [L EXCEPT ![p] = sp, ![q] = sq]
    <3>1. CASE p # q
      BY <1>1, <1>2, <3>1 DEF Swapped, Seat
    <3>2. CASE p = q
      <4>1. sp = L[p] /\ sq = L[q]
        BY <1>1, <1>5, <3>2 DEF Slot, Seat
      <4>2. L2 = L
        <5>1. L[p] = [L[p] EXCEPT !.kind = L[p].kind] /\ L[p] = [L[p] EXCEPT !.ready = L[p].ready]
          BY <1>1, <1>5 DEF Slot
        <5>2. L = [L EXCEPT ![p].kind = L[p].kind] /\ L = [L EXCEPT ![p].ready = L[p].ready]
          BY <1>1, <5>1
        <5>3. [L EXCEPT ![p].kind = L[p].kind, ![p].ready = L[p].ready] = L
          BY <5>2
        <5>4. L2 = [[L EXCEPT ![p].kind = L[p].kind, ![p].ready = L[p].ready]
                      EXCEPT ![p].kind = L[p].kind, ![p].ready = L[p].ready]
          BY <1>2, <3>2 DEF Swapped
        <5> QED BY <5>3, <5>4
      <4> QED BY <1>1, <4>1, <4>2
    <3> QED BY <3>1, <3>2
  <2> HIDE DEF sp, sq
  <2>3. /\ L2 \in [Slots -> Slot] /\ L2[q] = sq /\ (p # q => L2[p] = sp)
        /\ \A r \in Slots \ {p, q} : L2[r] = L[r]
    BY <1>1, <2>1, <2>2
  <2> QED BY <1>1, <2>1, <2>3 DEF Moved
<1> HIDE DEF l
<1>7. /\ a \in [Slots -> Looks]
      /\ \A r \in Slots : /\ a[r].team = l[r].team /\ a[r].color = l[r].color
                          /\ a[r].kind = l[Moved(r, p, q)].kind
  <2> DEFINE l2 == WithKind(l, p, l[q].kind)
  <2>1. l2 \in [Slots -> Looks]
    BY <1>1, <1>4, <1>5, WithKindType
  <2>2. /\ l2[p].kind = l[q].kind /\ \A r \in Slots \ {p} : l2[r].kind = l[r].kind
        /\ \A r \in Slots : l2[r].team = l[r].team /\ l2[r].color = l[r].color
    BY <1>1, <1>4 DEF WithKind
  <2> DEFINE l3 == WithKind(l2, q, l[p].kind)
  <2> HIDE DEF l2
  <2>3. l3 \in [Slots -> Looks]
    BY <1>1, <1>4, <1>5, <2>1, WithKindType
  <2>4. /\ l3[q].kind = l[p].kind /\ \A r \in Slots \ {q} : l3[r].kind = l2[r].kind
        /\ \A r \in Slots : l3[r].team = l2[r].team /\ l3[r].color = l2[r].color
    BY <1>1, <2>1 DEF WithKind
  <2>5. a = l3
    BY <1>3 DEF l2
  <2> HIDE DEF l3
  <2> QED BY <1>1, <2>2, <2>3, <2>4, <2>5 DEF Moved
<1>8. LooksOf(L2) = a
  <2>1. LooksOf(L2) \in [Slots -> Looks]
        /\ \A r \in Slots : /\ LooksOf(L2)[r].kind = L2[r].kind /\ LooksOf(L2)[r].team = L2[r].team
                            /\ LooksOf(L2)[r].color = L2[r].color
    BY <1>6, LooksOfType
  <2>2. \A r \in Slots : Moved(r, p, q) \in Slots
    BY <1>1 DEF Moved
  <2>3. \A r \in Slots : /\ LooksOf(L2)[r].kind = a[r].kind /\ LooksOf(L2)[r].team = a[r].team
                         /\ LooksOf(L2)[r].color = a[r].color
    BY <1>4, <1>6, <1>7, <2>1, <2>2
  <2>4. \A u, w \in Looks : u.kind = w.kind /\ u.team = w.team /\ u.color = w.color => u = w
    BY DEF Looks
  <2>5. \A r \in Slots : LooksOf(L2)[r] = a[r]
    BY <1>7, <2>1, <2>3, <2>4
  <2> QED BY <1>7, <2>1, <2>5
<1> QED BY <1>6, <1>8 DEF a, l

(* Everything of the server's stays when a client reads. *)
LEMMA ReadTyped ==
  ASSUME LInv, NEW c \in Clients, down[c] # <<>>, Consume(c),
         UNCHANGED <<serverVars, ops, savegame>>,
         phase' \in [Clients -> {"out", "joining", "lobby", "game", "gone"}],
         self' \in [Clients -> Slots], list' \in [Clients -> [Slots -> Slot]],
         cggs' \in [Clients -> Settings], started' \in [Clients -> Seq(Beginning)]
  PROVE  /\ Typed' /\ down'[c] = Tail(down[c]) /\ \A d \in Clients \ {c} : down'[d] = down[d]
         /\ UNCHANGED <<slot, conn, ggs, savegame, status>>
<1>1. Typed
  BY DEF LInv
<1>2. /\ down' \in [Clients -> Seq(Told(savegame))]
      /\ down'[c] = Tail(down[c]) /\ \A d \in Clients \ {c} : down'[d] = down[d]
  <2>1. down \in [Clients -> Seq(Told(savegame))] /\ Tail(down[c]) \in Seq(Told(savegame))
    BY <1>1 DEF Typed
  <2> QED BY <2>1 DEF Consume
<1>3. UNCHANGED <<slot, conn, ggs, status, counting, savegame, ops>>
  BY DEF serverVars
<1>4. Told(savegame') = Told(savegame)
  BY <1>3
<1>5. down' \in [Clients -> Seq(Told(savegame'))]
  BY <1>2, <1>4, Zenon
<1>6. Typed'
  BY <1>1, <1>3, <1>5 DEF Typed
<1> QED BY <1>2, <1>3, <1>6

(* Where the client which reads may be. *)
LEMMA Reader ==
  ASSUME LInv, NEW c \in Clients, down[c] # <<>>
  PROVE  /\ Head(down[c]) \in Message
         /\ self[c] \in Slots /\ list[c] \in [Slots -> Slot] /\ cggs[c] \in Settings
         /\ LooksOf(list[c]) \in [Slots -> Looks]
         /\ phase[c] \in {"joining", "lobby", "game"}
         /\ Head(down[c]).type # "list" => phase[c] \in {"lobby", "game"}
         /\ started[c] \in Seq(Beginning)
         /\ up[c] \in Seq(Asked(savegame)) /\ savegame \in BOOLEAN
<1>1. Inv /\ Typed /\ Places /\ Joins /\ savegame \in BOOLEAN
  BY DEF LInv, Inv
<1>2. down[c] \in Seq(Told(savegame)) /\ Told(savegame) \subseteq Message
  BY <1>1, ToldMessages DEF Typed
<1>3. Head(down[c]) \in Message
  BY <1>2
<1>4. /\ self[c] \in Slots /\ list[c] \in [Slots -> Slot] /\ cggs[c] \in Settings
      /\ started[c] \in Seq(Beginning) /\ phase[c] \in {"out", "joining", "lobby", "game", "gone"}
      /\ up[c] \in Seq(Asked(savegame))
  BY <1>1 DEF Typed, Inv
<1>5. LooksOf(list[c]) \in [Slots -> Looks]
  BY <1>4, LooksOfType
<1>6. PICK p \in Slots : slot[p].kind = "occupied" /\ conn[p] = c
  BY <1>1, Seated
<1>7. phase[c] \notin {"out", "gone"}
  BY <1>1, Seated
<1>8. phase[c] = "joining" => Head(down[c]).type = "list"
  BY <1>1, <1>6 DEF Joins
<1> QED BY <1>1, <1>3, <1>4, <1>5, <1>7, <1>8

(* A client which is not told to start has not started otherwise. *)
LEMMA StillAlike ==
  ASSUME NEW c \in Clients, NEW X, ViewsOK(X), started'[c] = started[c]
  PROVE  c = Host \/ StartedOK(started'[c], X)
BY DEF ViewsOK

LEMMA AskedReady ==
  ASSUME LInv, NEW c \in Clients, NEW b \in BOOLEAN, Ask(c, <<ReadyMsg(c, b)>>)
  PROVE  /\ \A t \in {"team", "color"} : Asks(up'[c], t) <=> Asks(up[c], t)
         /\ \A d \in Clients \ {c} : up'[d] = up[d]
<1>1. up \in [Clients -> Seq(Asked(savegame))]
  BY DEF LInv, Inv
<1>2. up'[c] = up[c] \o <<ReadyMsg(c, b)>> /\ \A d \in Clients \ {c} : up'[d] = up[d]
  BY <1>1 DEF Ask
<1>3. ReadyMsg(c, b) \in Asked(savegame)
  BY ReadyAsked
<1>4. ReadyMsg(c, b).type = "ready"
  BY DEF ReadyMsg
<1>5. \A t \in {"team", "color"} : Asks(up[c] \o <<ReadyMsg(c, b)>>, t) <=> Asks(up[c], t)
  <2> DEFINE r == ReadyMsg(c, b)
             R == Asked(savegame)
             U == up[c]
  <2>1. U \in Seq(R) /\ r \in R /\ r.type = "ready"
    BY <1>1, <1>3, <1>4
  <2> HIDE DEF r, R, U
  <2>2. \A t \in {"team", "color"} : Asks(U \o <<r>>, t) <=> Asks(U, t)
    BY <2>1, AsksReady
  <2> QED BY <2>2 DEF r, U
<1> QED BY <1>2, <1>5

LEMMA ReadListLists ==
  ASSUME LInv, Inv', UNCHANGED savegame, NEW c \in Clients, ReadList(c)
  PROVE  LInv'
<1> DEFINE m == Head(down[c])
           L2 == [p \in Slots |-> [m.list[p] EXCEPT !.ready = m.list[p].kind \in AIs]]
<1>1. PICK X : ViewsOK(X)
  BY DEF LInv
<1>2. /\ down[c] # <<>> /\ m.type = "list" /\ Consume(c)
      /\ phase' = [phase EXCEPT ![c] = "lobby"]
      /\ list' = [list EXCEPT ![c] = L2]
      /\ Ask(c, <<ReadyMsg(c, FALSE)>>)
      /\ UNCHANGED <<serverVars, self, cggs, ops, started>>
  BY DEF ReadList, NextIs
<1>3. m.list \in [Slots -> Slot]
  BY <1>2, Reader, MessageKinds
<1>4. L2 \in [Slots -> Slot] /\ LooksOf(L2) = [p \in Slots |-> Look(m.list[p])]
  BY <1>3, ListRead
<1> HIDE DEF L2
<1>5. /\ phase'[c] = "lobby" /\ \A d \in Clients \ {c} : phase'[d] = phase[d]
      /\ phase' \in [Clients -> {"out", "joining", "lobby", "game", "gone"}]
      /\ list'[c] = L2 /\ \A d \in Clients \ {c} : list'[d] = list[d]
      /\ list' \in [Clients -> [Slots -> Slot]]
      /\ self' \in [Clients -> Slots] /\ cggs' \in [Clients -> Settings]
      /\ started' \in [Clients -> Seq(Beginning)]
      /\ self'[c] = self[c] /\ cggs'[c] = cggs[c] /\ started'[c] = started[c]
  BY <1>2, <1>4 DEF LInv, Typed
<1>6. /\ Typed' /\ down'[c] = Tail(down[c]) /\ \A d \in Clients \ {c} : down'[d] = down[d]
      /\ UNCHANGED <<slot, conn, ggs, savegame, status>>
  BY <1>2, <1>5, ReadTyped
<1>7. /\ \A t \in {"team", "color"} : Asks(up'[c], t) <=> Asks(up[c], t)
      /\ \A d \in Clients \ {c} : up'[d] = up[d]
  BY <1>2, AskedReady
<1>8. Elsewhere(c)
  BY <1>2, <1>5, <1>6, <1>7 DEF Elsewhere
<1>9. LooksOf(list'[c]) = ListAfter(LooksOf(list[c]), m, savegame)
  BY <1>2, <1>4, <1>5 DEF ListAfter
<1>10. c = Host \/ StartedOK(started'[c], X)
  BY <1>1, <1>5, StillAlike
<1> QED BY <1>1, <1>2, <1>5, <1>6, <1>7, <1>8, <1>9, <1>10, ReadLists

LEMMA ReadSettingsLists ==
  ASSUME LInv, Inv', UNCHANGED savegame, NEW c \in Clients, ReadSettings(c)
  PROVE  LInv'
<1> DEFINE m == Head(down[c])
<1>1. PICK X : ViewsOK(X)
  BY DEF LInv
<1>2. /\ down[c] # <<>> /\ m.type = "settings" /\ Consume(c)
      /\ cggs' = [cggs EXCEPT ![c] = m.settings]
      /\ UNCHANGED <<serverVars, phase, self, ops, started>>
  BY DEF ReadSettings, NextIs
<1>3. m.settings \in Settings /\ phase[c] \in {"lobby", "game"}
      /\ self[c] \in Slots /\ list[c] \in [Slots -> Slot]
  BY <1>2, Reader, MessageKinds
<1>4. /\ list' \in [Clients -> [Slots -> Slot]] /\ LooksOf(list'[c]) = LooksOf(list[c])
      /\ \A d \in Clients \ {c} : list'[d] = list[d] /\ up'[d] = up[d]
      /\ \A t \in {"team", "color"} : Asks(up'[c], t) <=> Asks(up[c], t)
  <2>1. CASE phase[c] = "lobby"
    <3> DEFINE b == Ready(c, FALSE)
               L2 == [list[c] EXCEPT ![self[c]].ready = b]
    <3>1. b \in BOOLEAN
      BY DEF Ready
    <3>2. list' = [list EXCEPT ![c] = L2]
      BY <2>1 DEF ReadSettings
    <3>3. L2 \in [Slots -> Slot] /\ LooksOf(L2) = LooksOf(list[c])
      <4> HIDE DEF b
      <4> QED BY <1>3, <3>1, ReadyChanged
    <3>4. Ask(c, <<ReadyMsg(c, FALSE)>>)
      BY <2>1 DEF ReadSettings
    <3>5. /\ \A t \in {"team", "color"} : Asks(up'[c], t) <=> Asks(up[c], t)
          /\ \A d \in Clients \ {c} : up'[d] = up[d]
      BY <3>4, AskedReady
    <3> HIDE DEF L2
    <3>6. /\ list' \in [Clients -> [Slots -> Slot]] /\ list'[c] = L2
          /\ \A d \in Clients \ {c} : list'[d] = list[d]
      BY <3>2, <3>3 DEF LInv, Typed
    <3> QED BY <3>3, <3>5, <3>6
  <2>2. CASE phase[c] # "lobby"
    <3>1. UNCHANGED <<list, up>>
      BY <2>2 DEF ReadSettings
    <3> QED BY <3>1 DEF LInv, Typed
  <2> QED BY <2>1, <2>2
<1>5. /\ cggs'[c] = m.settings /\ \A d \in Clients \ {c} : cggs'[d] = cggs[d]
      /\ cggs' \in [Clients -> Settings]
      /\ phase' \in [Clients -> {"out", "joining", "lobby", "game", "gone"}]
      /\ self' \in [Clients -> Slots]
      /\ started' \in [Clients -> Seq(Beginning)]
      /\ self'[c] = self[c] /\ phase'[c] = phase[c] /\ started'[c] = started[c]
  BY <1>2, <1>3 DEF LInv, Typed
<1>6. /\ Typed' /\ down'[c] = Tail(down[c]) /\ \A d \in Clients \ {c} : down'[d] = down[d]
      /\ UNCHANGED <<slot, conn, ggs, savegame, status>>
  BY <1>2, <1>4, <1>5, ReadTyped
<1>7. Elsewhere(c)
  BY <1>2, <1>4, <1>5, <1>6 DEF Elsewhere
<1>8. LooksOf(list'[c]) = ListAfter(LooksOf(list[c]), m, savegame)
  BY <1>2, <1>4 DEF ListAfter
<1>9. c = Host \/ StartedOK(started'[c], X)
  BY <1>1, <1>5, StillAlike
<1> QED BY <1>1, <1>2, <1>3, <1>4, <1>5, <1>6, <1>7, <1>8, <1>9, ReadLists

(* What the two messages which change a client's list have in common. *)
LEMMA ListChanged ==
  ASSUME LInv, Inv', NEW c \in Clients, down[c] # <<>>, Consume(c),
         UNCHANGED <<serverVars, up, phase, cggs, ops, savegame, started>>,
         Head(down[c]).type \notin {"list", "settings"},
         NEW L2 \in [Slots -> Slot], list' = [list EXCEPT ![c] = L2],
         LooksOf(L2) = ListAfter(LooksOf(list[c]), Head(down[c]), savegame),
         NEW s \in Slots, self' = [self EXCEPT ![c] = s],
         s = IF Head(down[c]).type = "swap"
               THEN Moved(self[c], Head(down[c]).slot, Head(down[c]).with) ELSE self[c]
  PROVE  LInv'
<1>1. PICK X : ViewsOK(X)
  BY DEF LInv
<1>2. phase[c] \in {"lobby", "game"}
  BY Reader
<1>3. /\ list' \in [Clients -> [Slots -> Slot]] /\ list'[c] = L2
      /\ self' \in [Clients -> Slots] /\ self'[c] = s
      /\ \A d \in Clients \ {c} : list'[d] = list[d] /\ self'[d] = self[d]
      /\ cggs' \in [Clients -> Settings]
      /\ phase' \in [Clients -> {"out", "joining", "lobby", "game", "gone"}]
      /\ started' \in [Clients -> Seq(Beginning)]
      /\ cggs'[c] = cggs[c] /\ phase'[c] = phase[c] /\ started'[c] = started[c] /\ up'[c] = up[c]
  BY DEF LInv, Typed
<1>4. /\ Typed' /\ down'[c] = Tail(down[c]) /\ \A d \in Clients \ {c} : down'[d] = down[d]
      /\ UNCHANGED <<slot, conn, ggs, savegame, status>>
  BY <1>3, ReadTyped
<1>5. Elsewhere(c)
  BY <1>3, <1>4 DEF Elsewhere
<1>6. LooksOf(list'[c]) = ListAfter(LooksOf(list[c]), Head(down[c]), savegame)
  BY <1>3
<1>7. c = Host \/ StartedOK(started'[c], X)
  BY <1>1, <1>3, StillAlike
<1>8. \A t \in {"team", "color"} : Asks(up'[c], t) <=> Asks(up[c], t)
  BY <1>3
<1>9. self'[c] = IF Head(down[c]).type = "swap"
                   THEN Moved(self[c], Head(down[c]).slot, Head(down[c]).with) ELSE self[c]
  BY <1>3
<1>10. cggs'[c] = IF Head(down[c]).type = "settings" THEN Head(down[c]).settings ELSE cggs[c]
  BY <1>3
<1> QED BY <1>1, <1>2, <1>3, <1>4, <1>5, <1>6, <1>7, <1>8, <1>9, <1>10, ReadLists

LEMMA ReadUpdateLists ==
  ASSUME LInv, Inv', UNCHANGED savegame, NEW c \in Clients, ReadUpdate(c)
  PROVE  LInv'
<1> DEFINE m == Head(down[c])
           L2 == [list[c] EXCEPT ![m.slot] = Updated(@, m)]
<1>1. /\ down[c] # <<>> /\ Consume(c)
      /\ m.type \in {"new", "state", "team", "color", "ready", "kicked"}
      /\ list' = [list EXCEPT ![c] = L2]
      /\ UNCHANGED <<serverVars, up, phase, self, cggs, ops, started>>
  BY DEF ReadUpdate, NextIs
<1>2. m \in Message /\ list[c] \in [Slots -> Slot] /\ self[c] \in Slots /\ savegame \in BOOLEAN
  BY <1>1, Reader
<1>3. L2 \in [Slots -> Slot] /\ LooksOf(L2) = ListAfter(LooksOf(list[c]), m, savegame)
  <2> DEFINE L == list[c]
  <2>1. L2 = [L EXCEPT ![m.slot] = Updated(@, m)] /\ L \in [Slots -> Slot]
    BY <1>2
  <2> HIDE DEF L, L2, m
  <2>2. L2 \in [Slots -> Slot] /\ LooksOf(L2) = ListAfter(LooksOf(L), m, savegame)
    BY <1>1, <1>2, <2>1, UpdateRead
  <2> QED BY <2>2 DEF L
<1>4. self' = [self EXCEPT ![c] = self[c]]
  BY <1>1 DEF LInv, Typed
<1> HIDE DEF L2
<1> QED BY <1>1, <1>2, <1>3, <1>4, ListChanged

LEMMA ReadSwapLists ==
  ASSUME LInv, Inv', UNCHANGED savegame, NEW c \in Clients, ReadSwap(c)
  PROVE  LInv'
<1> DEFINE m == Head(down[c])
           L2 == Swapped(list[c], m.slot, m.with)
           s == Moved(self[c], m.slot, m.with)
<1>1. /\ down[c] # <<>> /\ Consume(c) /\ m.type = "swap"
      /\ UNCHANGED <<serverVars, up, phase, cggs, ops, started>>
      /\ self' = [self EXCEPT ![c] = s]
  BY DEF ReadSwap, NextIs
<1>2. list' = [list EXCEPT ![c] = L2]
  BY DEF ReadSwap
<1>3. m \in Message /\ list[c] \in [Slots -> Slot] /\ self[c] \in Slots
  BY <1>1, Reader
<1>4. s \in Slots
  BY <1>1, <1>3, MessageKinds DEF Moved
<1>5. L2 \in [Slots -> Slot] /\ LooksOf(L2) = ListAfter(LooksOf(list[c]), m, savegame)
  BY <1>1, <1>3, SwapRead
<1>6. s = IF m.type = "swap" THEN Moved(self[c], m.slot, m.with) ELSE self[c]
  BY <1>1
<1>7. m.type \notin {"list", "settings"} /\ UNCHANGED <<up, phase, cggs, ops, savegame, started>>
      /\ UNCHANGED serverVars
  BY <1>1
<1> HIDE DEF L2, s
<1> QED BY <1>1, <1>2, <1>4, <1>5, <1>6, <1>7, ListChanged

LEMMA ReadStartLists ==
  ASSUME LInv, Inv', UNCHANGED savegame, NEW c \in Clients, ReadStart(c)
  PROVE  LInv'
<1> DEFINE m == Head(down[c])
           b == [list |-> list[c], settings |-> cggs[c], self |-> self[c]]
<1>1. PICK X : ViewsOK(X)
  BY DEF LInv
<1>2. /\ down[c] # <<>> /\ Consume(c) /\ m.type = "start"
      /\ UNCHANGED <<serverVars, up, self, list, cggs, ops>>
  BY DEF ReadStart, NextIs
<1>3. /\ phase[c] \in {"lobby", "game"} /\ down[c] \in Seq(Message) /\ started[c] \in Seq(Beginning)
  <2>1. down[c] \in Seq(Told(savegame)) /\ savegame \in BOOLEAN
    BY DEF LInv, Inv, Typed
  <2> QED BY <1>2, <2>1, Reader, ToldMessages
<1>4. Starts(c) \in Seq(Beginning) /\ Starts(c) = Append(started[c], b)
  BY BeginningType DEF LInv
<1>5. /\ phase' \in [Clients -> {"out", "joining", "lobby", "game", "gone"}]
      /\ started' \in [Clients -> Seq(Beginning)]
      /\ phase'[c] \in {"lobby", "game"}
      /\ started'[c] = IF c = Host THEN started[c] ELSE Append(started[c], b)
      /\ \A d \in Clients \ {c} : phase'[d] = phase[d] /\ started'[d] = started[d]
  BY <1>3, <1>4 DEF ReadStart, LInv, Typed
<1>6. c = Host \/ StartedOK(started'[c], X)
  <2> SUFFICES ASSUME c # Host PROVE StartedOK(Append(started[c], b), X)
    BY <1>5
  <2>1. PICK p \in Slots : slot[p].kind = "occupied" /\ conn[p] = c
    BY <1>2, Seated DEF LInv
  <2>2. ClientOK(p, slot, ggs, down[c], up[c], phase[c], self[c], list[c], cggs[c], savegame, X)
    BY <1>1, <2>1 DEF ViewsOK, SeatOK
  <2>3. cggs[c] = X.settings /\ \A q \in Slots \ {self[c]} : Shown(list[c][q]) = X.list[q]
    <3>1. savegame \in BOOLEAN /\ phase[c] # "joining"
      BY <1>3 DEF LInv, Inv
    <3> DEFINE D == down[c]
               U == up[c]
               ph == phase[c]
               s == self[c]
               L == list[c]
               g == cggs[c]
    <3>2. D \in Seq(Message)
      BY <1>3
    <3>4. D # <<>>
      BY <1>2
    <3>5. Head(D).type = "start"
      BY <1>2
    <3>6. ph # "joining"
      BY <3>1
    <3>7. ClientOK(p, slot, ggs, D, U, ph, s, L, g, savegame, X)
      BY <2>2
    <3>8. savegame \in BOOLEAN
      BY <3>1
    <3> HIDE DEF D, U, ph, s, L, g
    <3>3. Begins(L, s, g, X)
      BY <3>2, <3>4, <3>5, <3>6, <3>7, <3>8, StartsAlike, Zenon
    <3> QED BY <3>3 DEF s, L, g, Begins
  <2>4. CASE started[c] = <<>>
    <3>1. Append(started[c], b)[1] = b
      BY <2>4
    <3> QED BY <2>3, <3>1 DEF StartedOK
  <2>5. CASE started[c] # <<>>
    <3>1. Append(started[c], b)[1] = started[c][1]
      <4>1. \A B \in Seq(Beginning) : B # <<>> => Append(B, b)[1] = B[1]
        OBVIOUS
      <4> QED BY <1>3, <2>5, <4>1
    <3>2. StartedOK(started[c], X)
      BY <1>1 DEF ViewsOK
    <3> QED BY <2>5, <3>1, <3>2 DEF StartedOK
  <2> QED BY <2>4, <2>5
<1>7. /\ list' \in [Clients -> [Slots -> Slot]] /\ self' \in [Clients -> Slots]
      /\ cggs' \in [Clients -> Settings]
      /\ list'[c] = list[c] /\ self'[c] = self[c] /\ cggs'[c] = cggs[c] /\ up'[c] = up[c]
  BY <1>2 DEF LInv, Typed
<1>8. /\ Typed' /\ down'[c] = Tail(down[c]) /\ \A d \in Clients \ {c} : down'[d] = down[d]
      /\ UNCHANGED <<slot, conn, ggs, savegame, status>>
  BY <1>2, <1>5, <1>7, ReadTyped
<1>9. Elsewhere(c)
  BY <1>2, <1>5, <1>8 DEF Elsewhere
<1>10. LooksOf(list'[c]) = ListAfter(LooksOf(list[c]), m, savegame)
  BY <1>2, <1>7 DEF ListAfter
<1>11. \A t \in {"team", "color"} : Asks(up'[c], t) <=> Asks(up[c], t)
  BY <1>7
<1> QED BY <1>1, <1>2, <1>5, <1>6, <1>7, <1>8, <1>9, <1>10, <1>11, ReadLists

(* A player's own choice. *)
LEMMA AsksMore ==
  ASSUME NEW R, NEW U \in Seq(R), NEW ms \in Seq(R), NEW t
  PROVE  /\ Asks(U, t) => Asks(U \o ms, t)
         /\ Asks(ms, t) => Asks(U \o ms, t)
<1> DEFINE V == U \o ms
<1>1. /\ Len(U) \in Nat /\ Len(ms) \in Nat /\ Len(V) = Len(U) + Len(ms)
      /\ \A i \in 1..Len(U) : V[i] = U[i]
      /\ \A i \in 1..Len(ms) : V[Len(U) + i] = ms[i]
  OBVIOUS
<1> HIDE DEF V
<1>2. Asks(U, t) => Asks(V, t)
  BY <1>1 DEF Asks
<1>3. Asks(ms, t) => Asks(V, t)
  <2>1. \A i \in 1..Len(ms) : Len(U) + i \in 1..Len(V)
    BY <1>1
  <2> QED BY <1>1, <2>1 DEF Asks
<1> QED BY <1>2, <1>3 DEF V

LEMMA ChooseLists ==
  ASSUME LInv, Inv', UNCHANGED <<savegame, serverVars, down, phase, self, cggs, started>>,
         NEW c \in Clients, phase[c] = "lobby", Operate,
         NEW L2 \in [Slots -> Slot], list' = [list EXCEPT ![c] = L2],
         NEW ms \in Seq(Request), Ask(c, ms),
         \A q \in Slots : L2[q].kind = list[c][q].kind,
         \A q \in Slots : (q = self[c] /\ Asks(ms, "team")) \/ L2[q].team = list[c][q].team,
         \A q \in Slots : (q = self[c] /\ Asks(ms, "color")) \/ L2[q].color = list[c][q].color
  PROVE  LInv'
<1>1. PICK X : ViewsOK(X)
  BY DEF LInv
<1>2. Inv /\ Typed /\ Places /\ Joins /\ NotYet
  BY DEF LInv
<1>3. UNCHANGED <<status, counting, slot, conn, ggs, savegame, down, phase, self, cggs, started>>
  BY DEF serverVars
<1>4. PICK p \in Slots : /\ slot[p].kind = "occupied" /\ conn[p] = c
                         /\ \A q \in Slots \ {p} : conn[q] # c
  BY <1>2, Seated
<1>5. /\ list'[c] = L2 /\ list' \in [Clients -> [Slots -> Slot]]
      /\ \A d \in Clients \ {c} : list'[d] = list[d]
  BY <1>2 DEF Typed
<1>6. /\ up'[c] = up[c] \o ms /\ \A d \in Clients \ {c} : up'[d] = up[d]
      /\ up[c] \in Seq(Request)
  BY <1>2 DEF Inv, Ask, Asked
<1>7. \A t : /\ Asks(up[c], t) => Asks(up'[c], t)
             /\ Asks(ms, t) => Asks(up'[c], t)
  BY <1>6, AsksMore
<1>8. Elsewhere(c)
  BY <1>3, <1>5, <1>6 DEF Elsewhere
<1>9. ClientOK(p, slot, ggs, down[c], up[c], phase[c], self[c], list[c], cggs[c], savegame, X)
  BY <1>1, <1>4 DEF ViewsOK, SeatOK
<1>10. ClientOK(p, slot, ggs, down[c], up'[c], phase[c], self[c], L2, cggs[c], savegame, X)
  <2> DEFINE D == down[c]
             U == up[c]
             U2 == up'[c]
             ph == phase[c]
             s == self[c]
             L == list[c]
             g == cggs[c]
  <2>1. /\ ClientOK(p, slot, ggs, D, U, ph, s, L, g, savegame, X)
        /\ \A t \in {"team", "color"} : Asks(U, t) => Asks(U2, t)
        /\ \A q \in Slots : L2[q].kind = L[q].kind
        /\ \A q \in Slots : (q = s /\ Asks(U2, "team")) \/ L2[q].team = L[q].team
        /\ \A q \in Slots : (q = s /\ Asks(U2, "color")) \/ L2[q].color = L[q].color
    BY <1>7, <1>9
  <2> HIDE DEF D, U, U2, ph, s, L, g
  <2>2. ClientOK(p, slot, ggs, D, U2, ph, s, L2, g, savegame, X)
    BY <2>1, ChooseOK
  <2> QED BY <2>2 DEF D, U2, ph, s, g
<1>11. ClientOK(p, slot, ggs, down'[c], up'[c], phase'[c], self'[c], list'[c], cggs'[c], savegame, X)
  BY <1>3, <1>5, <1>10
<1>12. c = Host \/ StartedOK(started'[c], X)
  BY <1>1, <1>3, StillAlike
<1>13. ViewsOK(X)'
  BY <1>1, <1>2, <1>3, <1>4, <1>8, <1>11, <1>12, OneViews
<1>14. Typed'
  <2>1. ops' \in Nat
    BY <1>2 DEF Typed, Operate
  <2>2. down' \in [Clients -> Seq(Told(savegame'))]
    BY <1>2, <1>3 DEF Typed
  <2> QED BY <1>2, <1>3, <1>5, <2>1, <2>2 DEF Typed
<1>15. Places'
  <2>1. \A d \in Clients : phase[d] \in {"out", "gone"} => up'[d] = up[d]
    BY <1>6
  <2> QED BY <1>2, <1>3, <2>1 DEF Places
<1>16. Joins'
  <2>1. \A q \in Slots : slot[q].kind = "reserved" => conn[q] \in Clients /\ q # p
    BY <1>2, <1>4 DEF Places, Inv
  <2>2. \A q \in Slots : slot[q].kind = "reserved" => up'[conn[q]] = up[conn[q]]
    BY <1>4, <1>6, <2>1
  <2>3. \A d \in Clients : Fresh(d)' <=> Fresh(d)
    BY <1>3 DEF Fresh
  <2> QED BY <1>2, <1>3, <2>2, <2>3 DEF Joins
<1>17. NotYet'
  BY <1>2, <1>3 DEF NotYet
<1>18. (\E Z : ViewsOK(Z))'
  BY <1>13
<1> QED BY <1>14, <1>15, <1>16, <1>17, <1>18 DEF LInv

LEMMA Two ==
  ASSUME NEW R, NEW a \in R, NEW b \in R
  PROVE  <<a, b>> \in Seq(R) /\ Asks(<<a, b>>, b.type)
<1>1. <<a, b>> \in Seq(R) /\ Len(<<a, b>>) = 2 /\ <<a, b>>[2] = b
  OBVIOUS
<1> DEFINE V == <<a, b>>
<1>2. 2 \in 1..Len(V) /\ V[2].type = b.type
  BY <1>1
<1> HIDE DEF V
<1>3. Asks(V, b.type)
  BY <1>2 DEF Asks
<1> QED BY <1>1, <1>3 DEF V

LEMMA ReadyRequest ==
  ASSUME NEW c, NEW b \in BOOLEAN
  PROVE  ReadyMsg(c, b) \in Request /\ Ready(c, b) \in BOOLEAN
BY DEF ReadyMsg, Ready, Request

(* A slot of which the player has chosen something. *)
Chosen(s, b, t, x) == [s EXCEPT !.ready = b, !.team = t, !.color = x]

LEMMA ChosenSlot ==
  ASSUME NEW s \in Slot, NEW b \in BOOLEAN, NEW t \in Teams, NEW x \in Colors
  PROVE  /\ Chosen(s, b, t, x) \in Slot /\ Chosen(s, b, t, x).kind = s.kind
         /\ Chosen(s, b, t, x).team = t /\ Chosen(s, b, t, x).color = x
BY DEF Chosen, Slot

(* The list of a client which has chosen. *)
LEMMA ChosenList ==
  ASSUME NEW L \in [Slots -> Slot], NEW s \in Slots, NEW b \in BOOLEAN, NEW t \in Teams, NEW x \in Colors,
         NEW L2, L2 = [L EXCEPT ![s] = Chosen(L[s], b, t, x)]
  PROVE  /\ L2 \in [Slots -> Slot]
         /\ \A q \in Slots : L2[q].kind = L[q].kind
         /\ \A q \in Slots : q # s => L2[q].team = L[q].team /\ L2[q].color = L[q].color
         /\ L2[s].team = t /\ L2[s].color = x
<1>1. Chosen(L[s], b, t, x) \in Slot /\ Chosen(L[s], b, t, x).kind = L[s].kind
      /\ Chosen(L[s], b, t, x).team = t /\ Chosen(L[s], b, t, x).color = x
  BY ChosenSlot
<1> QED BY <1>1

LEMMA ChooseReadyLists ==
  ASSUME LInv, Inv', UNCHANGED savegame, NEW c \in Clients, NEW b \in BOOLEAN, ChooseReady(c, b)
  PROVE  LInv'
<1> DEFINE L == list[c]
           s == self[c]
           L2 == [L EXCEPT ![s].ready = b]
           ms == <<ReadyMsg(c, b)>>
<1>1. /\ phase[c] = "lobby" /\ Operate
      /\ list' = [list EXCEPT ![c] = L2] /\ Ask(c, ms)
      /\ UNCHANGED <<serverVars, down, phase, self, cggs, started>>
  BY DEF ChooseReady
<1>2. L \in [Slots -> Slot] /\ s \in Slots /\ L[s] \in Slot /\ L[s].team \in Teams /\ L[s].color \in Colors
  BY DEF LInv, Typed, Slot
<1>3. L2 = [L EXCEPT ![s] = Chosen(L[s], b, L[s].team, L[s].color)]
  <2>1. [L[s] EXCEPT !.ready = b] = Chosen(L[s], b, L[s].team, L[s].color)
    <3> DEFINE l == L[s]
    <3>1. l \in Slot
      BY <1>2
    <3> HIDE DEF l
    <3>2. [l EXCEPT !.ready = b] = Chosen(l, b, l.team, l.color)
      BY <3>1 DEF Chosen, Slot
    <3> QED BY <3>2 DEF l
  <2> HIDE DEF L, s
  <2> QED BY <1>2, <2>1
<1>4. ms \in Seq(Request)
  BY ReadyRequest
<1> HIDE DEF L, s, L2, ms
<1>5. /\ L2 \in [Slots -> Slot]
      /\ \A q \in Slots : L2[q].kind = L[q].kind
      /\ \A q \in Slots : L2[q].team = L[q].team /\ L2[q].color = L[q].color
  BY <1>2, <1>3, ChosenList
<1>6. /\ \A q \in Slots : L2[q].kind = list[c][q].kind
      /\ \A q \in Slots : (q = self[c] /\ Asks(ms, "team")) \/ L2[q].team = list[c][q].team
      /\ \A q \in Slots : (q = self[c] /\ Asks(ms, "color")) \/ L2[q].color = list[c][q].color
  BY <1>5 DEF L
<1> QED BY <1>1, <1>4, <1>5, <1>6, ChooseLists

LEMMA ChooseTeamLists ==
  ASSUME LInv, Inv', UNCHANGED savegame, NEW c \in Clients, NEW t \in Teams, ChooseTeam(c, t)
  PROVE  LInv'
<1> DEFINE L == list[c]
           s == self[c]
           b == Ready(c, FALSE)
           r == [type |-> "team", team |-> t]
           L2 == [L EXCEPT ![s] = [@ EXCEPT !.ready = b, !.team = t]]
           ms == <<ReadyMsg(c, FALSE), r>>
<1>1. /\ phase[c] = "lobby" /\ Operate
      /\ list' = [list EXCEPT ![c] = L2] /\ Ask(c, ms)
      /\ UNCHANGED <<serverVars, down, phase, self, cggs, started>>
  BY DEF ChooseTeam
<1>2. L \in [Slots -> Slot] /\ s \in Slots /\ L[s] \in Slot /\ L[s].color \in Colors
  BY DEF LInv, Typed, Slot
<1>3. b \in BOOLEAN /\ ReadyMsg(c, FALSE) \in Request
  BY ReadyRequest
<1>4. r \in Request /\ r.type = "team"
  BY DEF Request
<1> HIDE DEF L, s, b, r
<1>5. L2 = [L EXCEPT ![s] = Chosen(L[s], b, t, L[s].color)]
  <2>1. [L[s] EXCEPT !.ready = b, !.team = t] = Chosen(L[s], b, t, L[s].color)
    BY <1>2, <1>3 DEF Chosen, Slot
  <2> QED BY <1>2, <2>1
<1>6. ms \in Seq(Request) /\ Asks(ms, "team")
  BY <1>3, <1>4, Two
<1> HIDE DEF L2, ms
<1>7. /\ L2 \in [Slots -> Slot]
      /\ \A q \in Slots : L2[q].kind = L[q].kind
      /\ \A q \in Slots : q # s => L2[q].team = L[q].team
      /\ \A q \in Slots : L2[q].color = L[q].color
  BY <1>2, <1>3, <1>5, ChosenList
<1>8. /\ \A q \in Slots : L2[q].kind = list[c][q].kind
      /\ \A q \in Slots : (q = self[c] /\ Asks(ms, "team")) \/ L2[q].team = list[c][q].team
      /\ \A q \in Slots : (q = self[c] /\ Asks(ms, "color")) \/ L2[q].color = list[c][q].color
  BY <1>6, <1>7 DEF L, s
<1> QED BY <1>1, <1>6, <1>7, <1>8, ChooseLists

LEMMA ChooseColorLists ==
  ASSUME LInv, Inv', UNCHANGED savegame, NEW c \in Clients, ChooseColor(c)
  PROVE  LInv'
<1> DEFINE L == list[c]
           s == self[c]
           b == Ready(c, FALSE)
           r == [type |-> "color"]
           x == NextColor(L, s)
           L2 == [L EXCEPT ![s] = [@ EXCEPT !.ready = b, !.color = x]]
           ms == <<ReadyMsg(c, FALSE), r>>
<1>1. /\ phase[c] = "lobby" /\ Operate
      /\ list' = [list EXCEPT ![c] = L2] /\ Ask(c, ms)
      /\ UNCHANGED <<serverVars, down, phase, self, cggs, started>>
  BY DEF ChooseColor
<1>2. L \in [Slots -> Slot] /\ s \in Slots /\ L[s] \in Slot /\ L[s].team \in Teams
  BY DEF LInv, Typed, Slot
<1>3. b \in BOOLEAN /\ ReadyMsg(c, FALSE) \in Request
  BY ReadyRequest
<1>4. r \in Request /\ r.type = "color"
  BY DEF Request
<1> HIDE DEF L, s, b, r
<1>5. x \in Colors
  BY <1>2, ColorFound DEF Painters
<1> HIDE DEF x
<1>6. L2 = [L EXCEPT ![s] = Chosen(L[s], b, L[s].team, x)]
  <2>1. [L[s] EXCEPT !.ready = b, !.color = x] = Chosen(L[s], b, L[s].team, x)
    BY <1>2, <1>3, <1>5 DEF Chosen, Slot
  <2> QED BY <1>2, <2>1
<1>7. ms \in Seq(Request) /\ Asks(ms, "color")
  BY <1>3, <1>4, Two
<1> HIDE DEF L2, ms
<1>8. /\ L2 \in [Slots -> Slot]
      /\ \A q \in Slots : L2[q].kind = L[q].kind
      /\ \A q \in Slots : L2[q].team = L[q].team
      /\ \A q \in Slots : q # s => L2[q].color = L[q].color
  BY <1>2, <1>3, <1>5, <1>6, ChosenList
<1>9. /\ \A q \in Slots : L2[q].kind = list[c][q].kind
      /\ \A q \in Slots : (q = self[c] /\ Asks(ms, "team")) \/ L2[q].team = list[c][q].team
      /\ \A q \in Slots : (q = self[c] /\ Asks(ms, "color")) \/ L2[q].color = list[c][q].color
  BY <1>7, <1>8 DEF L, s
<1> QED BY <1>1, <1>7, <1>8, <1>9, ChooseLists

-----------------------------------------------------------------------------
(* The invariant holds, and what it says of the lists. *)
LEMMA ClientLists ==
  ASSUME LInv, Inv', UNCHANGED savegame, NEW c \in Clients, Client(c)
  PROVE  LInv'
<1>1. CASE ReadList(c)
  BY <1>1, ReadListLists
<1>2. CASE ReadSettings(c)
  BY <1>2, ReadSettingsLists
<1>3. CASE ReadUpdate(c)
  BY <1>3, ReadUpdateLists
<1>4. CASE ReadSwap(c)
  BY <1>4, ReadSwapLists
<1>5. CASE ReadStart(c)
  BY <1>5, ReadStartLists
<1>6. CASE \E b \in BOOLEAN : ChooseReady(c, b)
  BY <1>6, ChooseReadyLists
<1>7. CASE \E t \in Teams : ChooseTeam(c, t)
  BY <1>7, ChooseTeamLists
<1>8. CASE ChooseColor(c)
  BY <1>8, ChooseColorLists
<1> QED BY <1>1, <1>2, <1>3, <1>4, <1>5, <1>6, <1>7, <1>8 DEF Client

LEMMA HostActsLists ==
  ASSUME LInv, Inv', ~Meddles, ~Swaps, UNCHANGED savegame, HostActs
  PROVE  LInv'
<1>1. CASE \E p \in Slots : TogglePlayerState(p)
  BY <1>1, TogglePlayerStateLists
<1>2. CASE \E p \in Slots : SetAIColor(p)
  BY <1>2, SetAIColorLists
<1>3. CASE \E p \in Slots : \E t \in Teams : SetAITeam(p, t)
  BY <1>3, SetAITeamLists
<1>4. CASE \E p \in Slots : \E q \in Slots : SwapPlayer(p, q)
  BY <1>4, SwapPlayerLists
<1>5. CASE \E g \in Settings : ChangeSettings(g)
  BY <1>5, ChangeSettingsLists
<1>6. CASE StartCountdown \/ CancelCountdown
  BY <1>6, CountdownLists
<1>7. CASE StartGame
  BY <1>7, StartGameLists
<1> QED BY <1>1, <1>2, <1>3, <1>4, <1>5, <1>6, <1>7 DEF HostActs

LEMMA ConnectionsLists ==
  ASSUME LInv, Inv', UNCHANGED savegame, Connections
  PROVE  LInv'
<1>1. CASE \E c \in Clients : Reserve(c)
  BY <1>1, ReserveLists
<1>2. CASE \E p \in Slots : Join(p)
  BY <1>2, JoinLists
<1>3. CASE \E p \in Slots : KickPlayer(p)
  BY <1>3, KickPlayerLists
<1>4. CASE \E p \in Slots : Timeout(p)
  BY <1>4, TimeoutLists
<1>5. CASE \E p \in Slots : Receive(p)
  BY <1>5, ReceiveLists
<1> QED BY <1>1, <1>2, <1>3, <1>4, <1>5 DEF Connections

LEMMA NothingHappens ==
  ASSUME LInv, Inv', UNCHANGED vars
  PROVE  LInv'
<1>1. UNCHANGED <<status, counting, slot, conn, ggs, down, up, phase, self, list, cggs, ops,
                  savegame, started>>
  BY DEF vars, serverVars, clientVars
<1>2. PICK X : ViewsOK(X)
  BY DEF LInv
<1>3. ViewsOK(X)'
  <2>1. \A p \in Slots : SeatOK(p, X)'
    BY <1>1, <1>2 DEF ViewsOK, SeatOK
  <2>2. \A c \in Clients \ {Host} : StartedOK(started[c], X)'
    BY <1>1, <1>2 DEF ViewsOK, StartedOK
  <2> QED BY <2>1, <2>2 DEF ViewsOK
<1>4. Typed'
  BY <1>1 DEF LInv, Typed
<1>5. Places'
  BY <1>1 DEF LInv, Places
<1>6. Joins'
  <2>1. \A c \in Clients : Fresh(c)' <=> Fresh(c)
    BY <1>1 DEF Fresh
  <2> QED BY <1>1, <2>1 DEF LInv, Joins
<1>7. NotYet'
  BY <1>1 DEF LInv, NotYet
<1>8. (\E Z : ViewsOK(Z))'
  BY <1>3
<1> QED BY <1>4, <1>5, <1>6, <1>7, <1>8 DEF LInv

LEMMA NextLInv ==
  ASSUME LInv, Orderly, [Next]_vars
  PROVE  LInv'
<1>1. Inv'
  BY NextInv DEF LInv, Orderly
<1>2. CASE Next
  <2>1. CASE HostActs
    BY <1>1, <1>2, <2>1, HostActsLists DEF Orderly, Next
  <2>2. CASE Connections
    BY <1>1, <1>2, <2>2, ConnectionsLists DEF Next
  <2>3. CASE \E c \in Clients : Client(c)
    BY <1>1, <1>2, <2>3, ClientLists DEF Next
  <2> QED BY <1>2, <2>1, <2>2, <2>3 DEF Next
<1>3. CASE UNCHANGED vars
  BY <1>1, <1>3, NothingHappens
<1> QED BY <1>2, <1>3

(* Who is in the lobby when the model begins has the server's list. *)
LEMMA UpToDate ==
  ASSUME NEW p \in Slots, NEW S \in [Slots -> Slot], NEW g \in Settings, NEW saved, NEW X,
         \A q \in Slots : S[q].kind # "reserved"
  PROVE  ClientOK(p, S, g, <<>>, <<>>, "lobby", p, S, g, saved, X)
<1> DEFINE v == [list |-> LooksOf(S), self |-> p, settings |-> g]
<1>1. /\ LooksOf(S) \in [Slots -> Looks]
      /\ \A q \in Slots : /\ LooksOf(S)[q].kind = S[q].kind
                          /\ LooksOf(S)[q].team = S[q].team
                          /\ LooksOf(S)[q].color = S[q].color
  BY LooksOfType
<1>2. v \in Views /\ v.list = LooksOf(S) /\ v.self = p /\ v.settings = g
  BY <1>1 DEF Views
<1> HIDE DEF v
<1>3. Leads(v, <<>>, v, saved, X)
  BY <1>2, LeadsNone
<1>4. Tied(v, S, p, g, "lobby", <<>>, <<>>)
  BY <1>1, <1>2 DEF Tied, SameLook
<1>5. Agrees(v, p, S, g, <<>>)
  BY <1>1, <1>2 DEF Agrees, Shows
<1> QED BY <1>2, <1>3, <1>4, <1>5 DEF ClientOK

LEMMA InitLInv ==
  ASSUME Init, Orderly
  PROVE  LInv
<1>1. PICK o \in Openings :
        /\ slot = o.slot /\ conn = o.conn /\ ops = o.ops
        /\ ggs = o.settings /\ savegame = o.savegame
        /\ phase = [c \in Clients |-> IF \E p \in Slots : conn[p] = c THEN "lobby"
                                      ELSE IF c \in o.guests THEN "out" ELSE "gone"]
  BY DEF Init
<1>2. /\ status = "config" /\ counting = FALSE
      /\ down = [c \in Clients |-> <<>>] /\ up = [c \in Clients |-> <<>>]
      /\ self \in [Clients -> Slots] /\ \A p \in Slots : conn[p] # Nobody => self[conn[p]] = p
      /\ list = [c \in Clients |-> slot] /\ cggs = [c \in Clients |-> ggs]
      /\ started = [c \in Clients |-> <<>>]
  BY DEF Init
<1>3. /\ o.slot \in [Slots -> Slot] /\ o.settings \in Settings /\ o.ops \in Nat
      /\ o.conn \in [Slots -> Clients \cup {Nobody}] /\ o.conn[1] = Host
      /\ Host \in Clients /\ Nobody \notin Clients /\ 1 \in Slots
  BY LobbyAssumption DEF Slots
<1>4. \A p \in Slots : /\ o.slot[p].kind # "reserved"
                       /\ o.slot[p].kind = "occupied" <=> o.conn[p] # Nobody
                       /\ \A q \in Slots \ {p} : o.conn[p] = o.conn[q] => o.conn[p] = Nobody
  BY LobbyAssumption
<1>5. Inv
  BY InitInv
<1>6. /\ \A c \in Clients : phase[c] \in {"out", "lobby", "gone"}
      /\ \A c \in Clients : phase[c] = "lobby" <=> \E p \in Slots : conn[p] = c
      /\ \A c \in Clients : phase[c] = "out" => c \in o.guests
      /\ phase \in [Clients -> {"out", "joining", "lobby", "game", "gone"}]
  BY <1>1
<1>7. Typed
  <2>1. down \in [Clients -> Seq(Told(savegame))] /\ started \in [Clients -> Seq(Beginning)]
    BY <1>2
  <2>2. list \in [Clients -> [Slots -> Slot]] /\ cggs \in [Clients -> Settings]
    BY <1>1, <1>2, <1>3
  <2>3. status \in {"config", "game"} /\ counting \in BOOLEAN /\ ops \in Nat /\ ggs \in Settings
    BY <1>1, <1>2, <1>3
  <2> QED BY <1>2, <1>6, <2>1, <2>2, <2>3 DEF Typed
<1>8. \A p \in Slots : slot[p].kind # "reserved" /\ (slot[p].kind = "occupied" <=> conn[p] # Nobody)
  BY <1>1, <1>4
<1>9. \A c \in Clients : down[c] = <<>> /\ up[c] = <<>> /\ started[c] = <<>> /\ list[c] = slot /\ cggs[c] = ggs
  BY <1>2
<1>10. Places
  <2>1. \A p, q \in Slots : conn[p] = conn[q] /\ conn[p] # Nobody => p = q
    BY <1>1, <1>4
  <2>2. \A c \in Clients : phase[c] \in {"out", "gone"} => \A p \in Slots : conn[p] # c
    BY <1>6
  <2>3. \A c \in Clients : phase[c] \notin {"out", "gone"} => \E p \in Slots : conn[p] = c
    BY <1>6
  <2> QED BY <1>2, <1>8, <1>9, <2>1, <2>2, <2>3 DEF Places
<1>11. Joins
  <2>1. \A p \in Slots : slot[p].kind = "occupied" => phase[conn[p]] = "lobby"
    BY <1>1, <1>3, <1>6, <1>8
  <2>2. phase[Host] = "lobby"
    BY <1>1, <1>3, <1>6
  <2>3. Timeouts => \A c, d \in Clients : Fresh(c) /\ Fresh(d) => c = d
    BY <1>6, <1>8 DEF Fresh, Orderly
  <2> QED BY <1>8, <2>1, <2>2, <2>3 DEF Joins
<1>12. NotYet
  BY <1>9 DEF NotYet, NoStart
<1>13. ViewsOK(<<>>)
  <2>1. ASSUME NEW p \in Slots, slot[p].kind = "occupied"
        PROVE  ClientOK(p, slot, ggs, down[conn[p]], up[conn[p]], phase[conn[p]], self[conn[p]],
                        list[conn[p]], cggs[conn[p]], savegame, <<>>)
    <3>1. conn[p] \in Clients /\ self[conn[p]] = p /\ phase[conn[p]] = "lobby"
      BY <1>1, <1>2, <1>3, <1>6, <1>8, <2>1
    <3>2. slot \in [Slots -> Slot] /\ ggs \in Settings
      BY <1>1, <1>3
    <3>3. ClientOK(p, slot, ggs, <<>>, <<>>, "lobby", p, slot, ggs, savegame, <<>>)
      BY <1>8, <3>2, UpToDate
    <3> QED BY <1>9, <3>1, <3>3
  <2>2. \A c \in Clients : StartedOK(started[c], <<>>)
    BY <1>9 DEF StartedOK
  <2> QED BY <2>1, <2>2 DEF ViewsOK, SeatOK
<1>14. \E X : ViewsOK(X)
  BY <1>13
<1> QED BY <1>5, <1>7, <1>10, <1>11, <1>12, <1>14 DEF LInv

LEMMA ListsAgreeHere == ASSUME LInv PROVE ListsAgree
<1>1. Inv /\ Typed /\ Places /\ Joins /\ savegame \in BOOLEAN
  BY DEF LInv, Inv
<1>2. PICK X : ViewsOK(X)
  BY DEF LInv
<1>3. TypeOK
  <2>1. down \in [Clients -> Seq(Message)]
    BY <1>1, ToldMessages DEF Typed
  <2>2. Asked(savegame) \subseteq Request
    BY DEF Asked
  <2>3. up \in [Clients -> Seq(Request)]
    BY <1>1, <2>2 DEF Inv
  <2>4. slot \in [Slots -> Slot] /\ conn \in [Slots -> Clients \cup {Nobody}]
    BY <1>1 DEF Inv, Fine, Painters
  <2> QED BY <1>1, <2>1, <2>3, <2>4 DEF Typed, TypeOK
<1>4. ASSUME NEW c \in Clients, phase[c] \in {"lobby", "game"}, down[c] = <<>>, up[c] = <<>>
      PROVE  SameLists(list[c], slot) /\ cggs[c] = ggs /\ conn[self[c]] = c
  <2>1. PICK p \in Slots : conn[p] = c
    BY <1>1, <1>4 DEF Places
  <2>2. slot[p].kind = "occupied"
    <3>1. slot[p].kind \in {"reserved", "occupied"}
      BY <1>1, <2>1, LobbyAssumption DEF Inv, Served
    <3> QED BY <1>1, <1>4, <2>1, <3>1 DEF Joins
  <2>3. ClientOK(p, slot, ggs, <<>>, <<>>, phase[c], self[c], list[c], cggs[c], savegame, X)
    BY <1>2, <1>4, <2>1, <2>2 DEF ViewsOK, SeatOK
  <2>4. SameLists(list[c], slot) /\ cggs[c] = ggs /\ self[c] = p
    BY <1>4, <2>3, NothingOnItsWay
  <2> QED BY <2>1, <2>4
<1> QED BY <1>3, <1>4 DEF ListsAgree

LEMMA OthersStartAlikeHere == ASSUME LInv PROVE OthersStartAlike
<1>1. PICK X : ViewsOK(X)
  BY DEF LInv
<1>2. \A c \in Clients \ {Host} : StartedOK(started[c], X)
  BY <1>1 DEF ViewsOK
<1> QED BY <1>2 DEF StartedOK, OthersStartAlike

(* A client for which nothing is on its way has the server's list and      *)
(* settings and knows its own slot (OnNMSPlayerList and the handlers which *)
(* repeat what GameServer::SendToAll told), unless the host meddles with a *)
(* slot somebody is joining, swaps in a new game, or doTimeout takes a     *)
(* slot back while several are joining.                                    *)
THEOREM ListsKept ==
  ASSUME Orderly
  PROVE  Spec => []ListsAgree
<1>1. Init => LInv
  BY InitLInv
<1>2. LInv /\ [Next]_vars => LInv'
  BY NextLInv
<1>3. LInv => ListsAgree
  BY ListsAgreeHere
<1> QED BY <1>1, <1>2, <1>3, PTL DEF Spec

(* Whenever the start message reaches them (OnNMSServerStart), two clients *)
(* begin the game with the same settings and the same players in all slots *)
(* but their own.                                                          *)
THEOREM StartedAlike ==
  ASSUME Orderly
  PROVE  Spec => []OthersStartAlike
<1>1. Init => LInv
  BY InitLInv
<1>2. LInv /\ [Next]_vars => LInv'
  BY NextLInv
<1>3. LInv => OthersStartAlike
  BY OthersStartAlikeHere
<1> QED BY <1>1, <1>2, <1>3, PTL DEF Spec
=============================================================================
