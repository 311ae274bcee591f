---------------------------- MODULE PactsProofs ----------------------------
(***************************************************************************)
(* Proofs about Pacts, for any number of players, any durations and any    *)
(* saved games: that a treaty binds both and protects both, and then, from *)
(* the history of proposals and wishes, that only the will of both makes   *)
(* one or ends it early.                                                   *)
(***************************************************************************)
EXTENDS Pacts, SequenceTheorems, TLAPS

USE DEF Types, Forever, Players

-----------------------------------------------------------------------------
(* Types.                                                                  *)

LEMMA Constants ==
  /\ N \in Nat /\ N >= 1 /\ NwfLength \in Nat /\ NwfLength >= 1
  /\ MaxPost \in Nat /\ MaxPost >= 1
  /\ Durations \subseteq Duration /\ 0 \notin Durations
  /\ 0 \in Duration /\ Forever \in Duration
BY PactsAssumption DEF Duration

LEMMA OrderFields ==
  ASSUME NEW c \in Order
  PROVE  /\ c.type \in {"suggest", "accept", "cancel"}
         /\ c.other \in Players /\ c.pact \in Types
         /\ c.type = "suggest" => c.duration \in Durations
         /\ c.type = "accept" => c.id \in Nat /\ c.shown \in Durations
BY DEF Order

LEMMA Orders ==
  ASSUME NEW q \in Players, NEW t \in Types
  PROVE  /\ \A d \in Durations : Suggest(q, t, d) \in Order /\ Suggest(q, t, d).type = "suggest"
                                 /\ Suggest(q, t, d).other = q /\ Suggest(q, t, d).pact = t
         /\ \A i \in Nat, d \in Durations : Accept(q, t, i, d) \in Letter /\ Accept(q, t, i, d).other = q
         /\ Cancel(q, t) \in Letter /\ Cancel(q, t).other = q
BY DEF Suggest, Accept, Cancel, Order, Letter

LEMMA LetterIsOrder == Letter \subseteq Order /\ \A c \in Letter : c.type # "suggest"
BY DEF Letter

LEMMA RecordTypes ==
  ASSUME NEW r \in Pact, NEW g \in Nat, NEW d \in Duration, gf \in Nat
  PROVE  /\ Proposed(r, d) \in Pact /\ Made(r, d) \in Pact /\ Dissolved(r) \in Pact
         /\ Unwanted(r) \in Pact /\ Withdrawn(r) \in Pact
BY Constants DEF Pact, Proposed, Made, Dissolved, Unwanted, Withdrawn

LEMMA NoPactType == NoPact \in Pact /\ StartPact \in Pact
BY DEF NoPact, StartPact, Pact, Duration

LEMMA Joined ==
  ASSUME NEW S, NEW a \in Seq(S), NEW b \in Seq(S), NEW j \in 1..Len(a \o b)
  PROVE  /\ j <= Len(a) => j \in 1..Len(a) /\ (a \o b)[j] = a[j]
         /\ j > Len(a) => j - Len(a) \in 1..Len(b) /\ (a \o b)[j] = b[j - Len(a)]
<1>1. Len(a) \in Nat /\ Len(b) \in Nat /\ Len(a) + Len(b) \in Nat
  <2>1. Len(a) \in Nat /\ Len(b) \in Nat
    OBVIOUS
  <2> QED BY <2>1
<1> QED BY <1>1

(* A letter list with a letter taken out, or a new one put in front.       *)
LEMMA Removed ==
  ASSUME NEW S, NEW s \in Seq(S), NEW i \in 1..Len(s)
  PROVE  /\ RemoveAt(s, i) \in Seq(S)
         /\ Len(RemoveAt(s, i)) = Len(s) - 1
         /\ \A j \in 1..Len(RemoveAt(s, i)) : \E h \in 1..Len(s) : RemoveAt(s, i)[j] = s[h]
<1> DEFINE a == SubSeq(s, 1, i - 1)
           b == SubSeq(s, i + 1, Len(s))
<1>1. /\ a \in Seq(S) /\ Len(a) = i - 1
      /\ \A j \in 1..Len(a) : a[j] = s[j]
  OBVIOUS
<1>2. /\ b \in Seq(S) /\ Len(b) = Len(s) - i
      /\ \A j \in 1..Len(b) : b[j] = s[j + i]
  OBVIOUS
<1>3. RemoveAt(s, i) = a \o b
  BY DEF RemoveAt
<1> HIDE DEF a, b
<1>4. a \o b \in Seq(S) /\ Len(a \o b) = Len(s) - 1
  <2>1. Len(a) + Len(b) \in Nat /\ Len(a) + Len(b) = Len(s) - 1
    BY <1>1, <1>2
  <2>2. a \o b \in Seq(S) /\ Len(a \o b) = Len(a) + Len(b)
    BY <1>1, <1>2, ConcatProperties
  <2> QED BY <2>1, <2>2
<1>5. ASSUME NEW j \in 1..Len(a \o b)
      PROVE  \E h \in 1..Len(s) : (a \o b)[j] = s[h]
  <2>1. CASE j <= Len(a)
    <3>1. (a \o b)[j] = a[j] /\ j \in 1..Len(a)
      BY <2>1, <1>1, <1>2, Joined
    <3>2. a[j] = s[j] /\ j \in 1..Len(s)
      BY <3>1, <1>1
    <3> QED BY <3>1, <3>2
  <2>2. CASE j > Len(a)
    <3>1. (a \o b)[j] = b[j - Len(a)] /\ j - Len(a) \in 1..Len(b)
      BY <2>2, <1>1, <1>2, Joined
    <3>2. b[j - Len(a)] = s[j - Len(a) + i] /\ j - Len(a) + i \in 1..Len(s)
      BY <3>1, <1>1, <1>2
    <3> QED BY <3>1, <3>2
  <2> QED BY <2>1, <2>2, <1>1, <1>4
<1> QED BY <1>3, <1>4, <1>5

LEMMA LetterRemoved ==
  \A l \in Seq(Letter) : \A i \in 1..Len(l) :
      /\ RemoveAt(l, i) \in Seq(Letter) /\ Len(RemoveAt(l, i)) = Len(l) - 1
      /\ \A j \in 1..Len(RemoveAt(l, i)) : \E h \in 1..Len(l) : RemoveAt(l, i)[j] = l[h]
<1> TAKE l \in Seq(Letter)
<1> TAKE i \in 1..Len(l)
<1>1. RemoveAt(l, i) \in Seq(Letter) /\ Len(RemoveAt(l, i)) = Len(l) - 1
  BY Removed
<1>2. \A j \in 1..Len(RemoveAt(l, i)) : \E h \in 1..Len(l) : RemoveAt(l, i)[j] = l[h]
  BY Removed
<1> QED BY <1>1, <1>2

LEMMA Delivered ==
  ASSUME NEW S, NEW s \in Seq(S), NEW l \in S, Len(s) <= MaxPost
  PROVE  LET n == <<l>> \o RoomForOne(s) IN
         /\ n \in Seq(S) /\ Len(n) <= MaxPost
         /\ \A j \in 1..Len(n) : n[j] = l \/ \E h \in 1..Len(s) : n[j] = s[h]
<1> DEFINE m == RoomForOne(s)
<1>1. /\ m \in Seq(S) /\ Len(m) <= MaxPost - 1 /\ Len(m) <= Len(s)
      /\ \A j \in 1..Len(m) : m[j] = s[j]
  <2>1. CASE Len(s) < MaxPost
    BY <2>1, Constants DEF RoomForOne
  <2>2. CASE ~(Len(s) < MaxPost)
    <3>1. m = SubSeq(s, 1, MaxPost - 1) /\ MaxPost - 1 \in Nat /\ MaxPost - 1 <= Len(s)
      BY <2>2, Constants DEF RoomForOne
    <3>2. /\ SubSeq(s, 1, MaxPost - 1) \in Seq(S)
          /\ Len(SubSeq(s, 1, MaxPost - 1)) = MaxPost - 1
          /\ \A j \in 1..(MaxPost - 1) : SubSeq(s, 1, MaxPost - 1)[j] = s[j]
      BY <3>1
    <3> QED BY <3>1, <3>2
  <2> QED BY <2>1, <2>2
<1> HIDE DEF m
<1>2. /\ <<l>> \o m \in Seq(S) /\ Len(<<l>> \o m) = Len(m) + 1
      /\ (<<l>> \o m)[1] = l
      /\ \A j \in 2..(Len(m) + 1) : (<<l>> \o m)[j] = m[j - 1]
  BY <1>1
<1>3. \A j \in 1..Len(<<l>> \o m) :
        (<<l>> \o m)[j] = l \/ \E h \in 1..Len(s) : (<<l>> \o m)[j] = s[h]
  <2> TAKE j \in 1..Len(<<l>> \o m)
  <2>1. CASE j = 1
    BY <2>1, <1>2
  <2>2. CASE j # 1
    <3>1. j \in 2..(Len(m) + 1) /\ j - 1 \in 1..Len(m) /\ j - 1 \in 1..Len(s)
      BY <2>2, <1>1, <1>2
    <3>2. (<<l>> \o m)[j] = s[j - 1]
      BY <3>1, <1>1, <1>2
    <3> QED BY <3>1, <3>2
  <2> QED BY <2>1, <2>2
<1>4. Len(<<l>> \o m) <= MaxPost
  BY <1>1, <1>2, Constants
<1> QED BY <1>2, <1>3, <1>4 DEF m

-----------------------------------------------------------------------------
(* Nobody gives orders about a treaty with itself. *)
Others(p, s) == \A i \in 1..Len(s) : s[i].other # p
OthersOnly ==
  \A p \in Players : /\ Others(p, gcs[p]) /\ Others(p, queue[p]) /\ Others(p, post[p])
                     /\ window[p] # NoWindow => window[p][1] # p

TypeInv == TypeOK /\ OthersOnly

LEMMA KeyIs ==
  ASSUME NEW p \in Players, NEW q \in Players, NEW t \in Types, p # q
  PROVE  <<p, q, t>> \in Keys
BY DEF Keys

LEMMA KeyParts ==
  ASSUME NEW k \in Keys
  PROVE  k[1] \in Players /\ k[2] \in Players /\ k[3] \in Types /\ k[1] # k[2]
         /\ k = <<k[1], k[2], k[3]>>
BY DEF Keys

(* What each order does to the records. *)
LEMMA SuggestRecords ==
  ASSUME TypeOK, NEW p \in Players, NEW c \in Order, c.type = "suggest", c.other # p,
         SuggestPact(p, c)
  PROVE  /\ pacts' \in [Keys -> Pact]
         /\ \A k \in Keys : pacts'[k] = IF k = <<p, c.other, c.pact>>
                                        THEN Proposed(pacts[k], c.duration) ELSE pacts[k]
<1>1. c.other \in Players /\ c.pact \in Types /\ c.duration \in Duration
  BY OrderFields, Constants
<1> DEFINE k0 == <<p, c.other, c.pact>>
<1>2. k0 \in Keys
  BY <1>1, KeyIs
<1>3. pacts \in [Keys -> Pact] /\ gf \in Nat
  BY DEF TypeOK
<1>4. pacts' = [pacts EXCEPT ![k0] = Proposed(pacts[k0], c.duration)]
  BY DEF SuggestPact
<1>5. Proposed(pacts[k0], c.duration) \in Pact
  BY <1>1, <1>2, <1>3, RecordTypes
<1> HIDE DEF k0
<1>6. /\ pacts' \in [Keys -> Pact]
      /\ \A k \in Keys : pacts'[k] = IF k = k0 THEN Proposed(pacts[k], c.duration) ELSE pacts[k]
  BY <1>2, <1>3, <1>4, <1>5
<1> QED BY <1>6 DEF k0

LEMMA AcceptRecords ==
  ASSUME TypeOK, NEW p \in Players, NEW c \in Order, c.type = "accept", c.other # p,
         AcceptPact(p, c)
  PROVE  LET proposal == pacts[<<c.other, p, c.pact>>] IN
         /\ pacts' \in [Keys -> Pact]
         /\ \/ UNCHANGED pacts
            \/ /\ ~proposal.accepted
               /\ \A k \in Keys :
                    pacts'[k] = IF k \in {<<p, c.other, c.pact>>, <<c.other, p, c.pact>>}
                                THEN Made(pacts[k], proposal.duration) ELSE pacts[k]
<1>1. c.other \in Players /\ c.pact \in Types
  BY OrderFields
<1> DEFINE proposal == pacts[<<c.other, p, c.pact>>]
           d == proposal.duration
<1>2. <<c.other, p, c.pact>> \in Keys
  BY <1>1, KeyIs
<1>3. pacts \in [Keys -> Pact] /\ gf \in Nat
  BY DEF TypeOK
<1>4. d \in Duration
  BY <1>2, <1>3 DEF Pact
<1>5. \A k \in Keys : Made(pacts[k], d) \in Pact
  BY <1>3, <1>4, RecordTypes
<1>6. CASE Answers(proposal, c.id)
  <2>1. pacts' = [k \in Keys |-> IF k \in BothRecords(p, c.other, c.pact)
                                 THEN Made(pacts[k], d) ELSE pacts[k]]
    BY <1>6 DEF AcceptPact
  <2>2. ~proposal.accepted
    BY <1>6 DEF Answers
  <2> HIDE DEF proposal, d
  <2>3. pacts' \in [Keys -> Pact]
    BY <2>1, <1>3, <1>5
  <2>4. \A k \in Keys : pacts'[k] = IF k \in BothRecords(p, c.other, c.pact)
                                    THEN Made(pacts[k], d) ELSE pacts[k]
    BY <2>1
  <2> QED BY <2>2, <2>3, <2>4 DEF BothRecords, proposal, d
<1>7. CASE ~Answers(proposal, c.id)
  BY <1>3, <1>7 DEF AcceptPact
<1> QED BY <1>6, <1>7

LEMMA CancelRecords ==
  ASSUME TypeOK, NEW p \in Players, NEW c \in Order, c.type = "cancel", c.other # p,
         CancelPact(p, c)
  PROVE  LET mine == <<p, c.other, c.pact>>
             hers == <<c.other, p, c.pact>>
         IN  /\ pacts' \in [Keys -> Pact]
             /\ \/ \A k \in Keys : pacts'[k] = IF k \in {mine, hers} THEN Dissolved(pacts[k]) ELSE pacts[k]
                \/ \A k \in Keys : pacts'[k] = IF k = mine THEN Unwanted(pacts[k]) ELSE pacts[k]
                \/ /\ ~pacts[mine].accepted
                   /\ \A k \in Keys : pacts'[k] = IF k = mine THEN Withdrawn(pacts[k]) ELSE pacts[k]
<1>1. c.other \in Players /\ c.pact \in Types
  BY OrderFields
<1> DEFINE mine == <<p, c.other, c.pact>>
           hers == <<c.other, p, c.pact>>
<1>2. mine \in Keys /\ hers \in Keys /\ mine # hers
  BY <1>1, KeyIs
<1>3. pacts \in [Keys -> Pact] /\ gf \in Nat
  BY DEF TypeOK
<1>4. \A k \in Keys : Dissolved(pacts[k]) \in Pact /\ Unwanted(pacts[k]) \in Pact /\ Withdrawn(pacts[k]) \in Pact
  BY <1>3, RecordTypes, Constants
<1>5. CASE pacts[mine].accepted /\ pacts[hers].want_cancel
  <2>1. pacts' = [pacts EXCEPT ![mine] = Dissolved(pacts[mine]), ![hers] = Dissolved(@)]
    BY <1>5 DEF CancelPact
  <2> HIDE DEF mine, hers
  <2>2. /\ pacts' \in [Keys -> Pact]
        /\ \A k \in Keys : pacts'[k] = IF k \in {mine, hers} THEN Dissolved(pacts[k]) ELSE pacts[k]
    BY <2>1, <1>2, <1>3, <1>4
  <2> QED BY <2>2 DEF mine, hers
<1>6. CASE pacts[mine].accepted /\ ~pacts[hers].want_cancel
  <2>1. pacts' = [pacts EXCEPT ![mine] = Unwanted(pacts[mine])]
    BY <1>6 DEF CancelPact
  <2> HIDE DEF mine, hers
  <2>2. /\ pacts' \in [Keys -> Pact]
        /\ \A k \in Keys : pacts'[k] = IF k = mine THEN Unwanted(pacts[k]) ELSE pacts[k]
    BY <2>1, <1>2, <1>3, <1>4
  <2> QED BY <2>2 DEF mine, hers
<1>7. CASE ~pacts[mine].accepted
  <2>1. pacts' = [pacts EXCEPT ![mine] = Withdrawn(pacts[mine])]
    BY <1>7 DEF CancelPact
  <2> HIDE DEF mine, hers
  <2>2. /\ pacts' \in [Keys -> Pact]
        /\ \A k \in Keys : pacts'[k] = IF k = mine THEN Withdrawn(pacts[k]) ELSE pacts[k]
    BY <2>1, <1>2, <1>3, <1>4
  <2> QED BY <1>7, <2>2 DEF mine, hers
<1> QED BY <1>5, <1>6, <1>7

(* The other parts of the state after an order. *)
LEMMA LookType ==
  ASSUME TypeOK, NEW S, NEW P, NEW g, Look(S, P, g)
  PROVE  seen' \in [Players -> SUBSET Players]
BY DEF TypeOK, Look, Allies

LEMMA DeliverType ==
  ASSUME TypeInv, NEW q \in Players, NEW l \in Letter, l.other # q, Deliver(q, l)
  PROVE  /\ post' \in [Players -> Seq(Letter)]
         /\ \A p \in Players : Len(post'[p]) <= MaxPost /\ Others(p, post'[p])
<1>1. /\ post \in [Players -> Seq(Letter)]
      /\ \A p \in Players : Len(post[p]) <= MaxPost /\ Others(p, post[p])
  BY DEF TypeInv, TypeOK, OthersOnly
<1> DEFINE n == <<l>> \o RoomForOne(post[q])
<1>2. /\ n \in Seq(Letter) /\ Len(n) <= MaxPost
      /\ \A j \in 1..Len(n) : n[j] = l \/ \E h \in 1..Len(post[q]) : n[j] = post[q][h]
  BY <1>1, Delivered
<1>3. post' = [post EXCEPT ![q] = n]
  BY DEF Deliver
<1> HIDE DEF n
<1>4. Others(q, n)
  <2> SUFFICES ASSUME NEW j \in 1..Len(n) PROVE n[j].other # q
    BY DEF Others
  <2> QED BY <1>1, <1>2 DEF Others
<1> QED BY <1>1, <1>2, <1>3, <1>4

LEMMA ExecuteType ==
  ASSUME TypeInv, NEW p \in Players, NEW c \in Order, c.other # p, Execute(p, c)
  PROVE  /\ pacts' \in [Keys -> Pact] /\ seen' \in [Players -> SUBSET Players]
         /\ offer' \in [Keys -> Offer] /\ asked' \in [Keys -> BOOLEAN]
         /\ post' \in [Players -> Seq(Letter)]
         /\ \A q \in Players : Len(post'[q]) <= MaxPost /\ Others(q, post'[q])
<1>1. c.other \in Players /\ c.pact \in Types
  BY OrderFields
<1>2. /\ <<p, c.other, c.pact>> \in Keys /\ <<c.other, p, c.pact>> \in Keys
  BY <1>1, KeyIs
<1>3. /\ TypeOK /\ gf \in Nat
      /\ pacts \in [Keys -> Pact] /\ seen \in [Players -> SUBSET Players]
      /\ offer \in [Keys -> Offer] /\ asked \in [Keys -> BOOLEAN]
      /\ post \in [Players -> Seq(Letter)]
      /\ \A q \in Players : Len(post[q]) <= MaxPost /\ Others(q, post[q])
  BY DEF TypeInv, TypeOK, OthersOnly
<1>4. CASE c.type = "suggest"
  <2>1. SuggestPact(p, c)
    BY <1>4 DEF Execute
  <2>2. pacts' \in [Keys -> Pact]
    BY <2>1, <1>3, <1>4, SuggestRecords
  <2>3. /\ Accept(p, c.pact, gf, c.duration) \in Letter
        /\ Accept(p, c.pact, gf, c.duration).other = p
    BY <1>1, <1>3, <1>4, OrderFields, Orders
  <2>4. /\ post' \in [Players -> Seq(Letter)]
        /\ \A q \in Players : Len(post'[q]) <= MaxPost /\ Others(q, post'[q])
    BY <2>1, <2>3, <1>1, DeliverType DEF SuggestPact
  <2>5. [id |-> gf, duration |-> c.duration] \in Offer
    BY <1>3, <1>4, OrderFields, Constants DEF Offer
  <2>6. /\ seen' = seen /\ asked' = asked
        /\ offer' = [offer EXCEPT ![<<p, c.other, c.pact>>] = [id |-> gf, duration |-> c.duration]]
    BY <2>1 DEF SuggestPact
  <2> QED BY <2>2, <2>4, <2>5, <2>6, <1>2, <1>3
<1>5. CASE c.type = "accept"
  <2>1. AcceptPact(p, c)
    BY <1>5 DEF Execute
  <2>2. pacts' \in [Keys -> Pact]
    BY <2>1, <1>3, <1>5, AcceptRecords
  <2>3. seen' \in [Players -> SUBSET Players]
    BY <2>1, <1>3, LookType DEF AcceptPact
  <2>4. asked' \in [Keys -> BOOLEAN]
    BY <2>1, <1>2, <1>3 DEF AcceptPact
  <2>5. post' = post /\ offer' = offer
    BY <2>1 DEF AcceptPact
  <2> QED BY <2>2, <2>3, <2>4, <2>5, <1>3
<1>6. CASE c.type = "cancel"
  <2>1. CancelPact(p, c)
    BY <1>6 DEF Execute
  <2>2. pacts' \in [Keys -> Pact]
    BY <2>1, <1>3, <1>6, CancelRecords
  <2>3. seen' \in [Players -> SUBSET Players]
    BY <2>1, <1>3, LookType DEF CancelPact
  <2>4. asked' \in [Keys -> BOOLEAN] /\ offer' \in [Keys -> Offer]
    <3>1. NoOffer \in Offer
      BY Constants DEF NoOffer, Offer
    <3> QED BY <2>1, <3>1, <1>2, <1>3 DEF CancelPact
  <2>5. Cancel(p, c.pact) \in Letter /\ Cancel(p, c.pact).other = p
    BY <1>1, Orders
  <2>6. /\ post' \in [Players -> Seq(Letter)]
        /\ \A q \in Players : Len(post'[q]) <= MaxPost /\ Others(q, post'[q])
    <3>1. CASE Deliver(c.other, Cancel(p, c.pact))
      BY <3>1, <2>5, <1>1, DeliverType
    <3>2. CASE post' = post
      BY <3>2, <1>3
    <3> QED BY <3>1, <3>2, <2>1 DEF CancelPact
  <2> QED BY <2>2, <2>3, <2>4, <2>6
<1> QED BY <1>4, <1>5, <1>6, OrderFields

LEMMA TestPactsType ==
  ASSUME TypeOK, NEW g \in Nat, TestPacts(g)
  PROVE  pacts' \in [Keys -> Pact] /\ seen' \in [Players -> SUBSET Players]
<1>1. pacts \in [Keys -> Pact] /\ gf \in Nat
  BY DEF TypeOK
<1>2. \A k \in Keys : Withdrawn(pacts[k]) \in Pact
  BY <1>1, RecordTypes, Constants
<1>3. pacts' \in [Keys -> Pact]
  BY <1>1, <1>2 DEF TestPacts
<1>4. seen' \in [Players -> SUBSET Players]
  BY LookType DEF TestPacts
<1> QED BY <1>3, <1>4

LEMMA AppendOther ==
  ASSUME NEW p, NEW s \in Seq(Order), Others(p, s), NEW c \in Order, c.other # p
  PROVE  Append(s, c) \in Seq(Order) /\ Others(p, Append(s, c))
BY DEF Others

LEMMA TailOther ==
  ASSUME NEW p, NEW s \in Seq(Order), Others(p, s), s # <<>>
  PROVE  /\ Tail(s) \in Seq(Order) /\ Others(p, Tail(s))
         /\ Head(s) \in Order /\ Head(s).other # p
BY DEF Others

LEMMA TypeInit == Init => TypeInv
<1> SUFFICES ASSUME Init PROVE TypeInv
  OBVIOUS
<1> USE DEF Init
<1>1. pacts \in [Keys -> Pact]
  <2>1. CASE pacts \in Saved
    BY <2>1, RecordsAssumption
  <2>2. CASE pacts = StartPacts
    BY <2>2, NoPactType DEF StartPacts
  <2> QED BY <2>1, <2>2
<1>2. asked \in [Keys -> BOOLEAN]
  BY <1>1 DEF Pact
<1>3. seen \in [Players -> SUBSET Players]
  BY DEF Allies
<1>4. offer \in [Keys -> Offer]
  BY Constants DEF NoOffer, Offer
<1>5. TypeOK
  BY <1>1, <1>2, <1>3, <1>4, Constants, PactsAssumption DEF TypeOK
<1>6. OthersOnly
  BY DEF OthersOnly, Others
<1> QED BY <1>5, <1>6 DEF TypeInv

LEMMA TypeWindow ==
  ASSUME TypeInv, NEW p \in Players, Window(p)
  PROVE  TypeInv'
<1> USE DEF TypeInv, TypeOK, OthersOnly
<1>1. ASSUME NEW q \in Players, NEW t \in Types, OpenSuggestion(p, q, t)
      PROVE  TypeInv'
  <2>1. /\ window' = [window EXCEPT ![p] = IF window[p] = NoWindow THEN <<q, t>> ELSE NoWindow]
        /\ UNCHANGED <<gf, turn, pacts, gcs, queue, post, seen, offer, asked>>
        /\ p # q
    BY <1>1, RecordsAssumption DEF OpenSuggestion, Keys
  <2>2. /\ window' \in [Players -> (Players \X Types) \cup {NoWindow}]
        /\ \A r \in Players : window'[r] # NoWindow => window'[r][1] # r
    BY <2>1
  <2> QED BY <2>1, <2>2
<1>2. ASSUME NEW q \in Players, NEW t \in Types, PressCancel(p, q, t)
      PROVE  TypeInv'
  <2>1. Cancel(q, t) \in Order /\ Cancel(q, t).other # p
    BY <1>2, Orders, LetterIsOrder DEF PressCancel
  <2>2. /\ gcs' = [gcs EXCEPT ![p] = Append(gcs[p], Cancel(q, t))]
        /\ UNCHANGED <<gf, turn, pacts, queue, window, post, seen, offer, asked>>
    BY <1>2 DEF PressCancel, AddGC
  <2>3. Append(gcs[p], Cancel(q, t)) \in Seq(Order) /\ Others(p, Append(gcs[p], Cancel(q, t)))
    BY <2>1, AppendOther
  <2> QED BY <2>2, <2>3
<1>3. ASSUME NEW d \in Durations, Confirm(p, d)
      PROVE  TypeInv'
  <2> DEFINE c == Suggest(window[p][1], window[p][2], d)
  <2>1. window[p] # NoWindow /\ window[p] \in Players \X Types /\ window[p][1] # p
    BY <1>3 DEF Confirm
  <2>2. c \in Order /\ c.other # p
    BY <2>1, Orders
  <2>3. /\ gcs' = [gcs EXCEPT ![p] = Append(gcs[p], c)]
        /\ window' = [window EXCEPT ![p] = NoWindow]
        /\ UNCHANGED <<gf, turn, pacts, queue, post, seen, offer, asked>>
    BY <1>3 DEF Confirm, AddGC
  <2> HIDE DEF c
  <2>4. Append(gcs[p], c) \in Seq(Order) /\ Others(p, Append(gcs[p], c))
    BY <2>2, AppendOther
  <2> QED BY <2>3, <2>4
<1>4. ASSUME NEW i \in 1..Len(post[p]), Answer(p, i) \/ Discard(p, i)
      PROVE  TypeInv'
  <2> DEFINE s == RemoveAt(post[p], i)
  <2>1. post' = [post EXCEPT ![p] = s]
    BY <1>4 DEF Answer, Discard
  <2>2. post[p] \in Seq(Letter)
    OBVIOUS
  <2>3. /\ s \in Seq(Letter) /\ Len(s) = Len(post[p]) - 1
        /\ \A j \in 1..Len(s) : \E h \in 1..Len(post[p]) : s[j] = post[p][h]
    BY <2>2, LetterRemoved, Zenon
  <2> HIDE DEF s
  <2>4. Others(p, s) /\ Len(s) <= MaxPost
    <3>1. Others(p, post[p]) /\ Len(post[p]) <= MaxPost
      OBVIOUS
    <3>2. Others(p, s)
      BY <3>1, <2>3 DEF Others
    <3>3. Len(s) <= MaxPost
      BY <3>1, <2>2, <2>3, Constants
    <3> QED BY <3>2, <3>3
  <2>5. /\ post' \in [Players -> Seq(Letter)]
        /\ \A r \in Players : Len(post'[r]) <= MaxPost /\ Others(r, post'[r])
    BY <2>1, <2>3, <2>4
  <2>6. UNCHANGED <<gf, turn, pacts, queue, window, seen, offer, asked>>
    BY <1>4 DEF Answer, Discard
  <2>7. gcs' \in [Players -> Seq(Order)] /\ \A r \in Players : Others(r, gcs'[r])
    <3>1. CASE Discard(p, i)
      BY <3>1 DEF Discard
    <3>2. CASE Answer(p, i)
      <4>1. gcs' = [gcs EXCEPT ![p] = Append(gcs[p], post[p][i])]
        BY <3>2 DEF Answer, AddGC
      <4>2. post[p][i] \in Order /\ post[p][i].other # p
        BY <2>2, LetterIsOrder DEF Others
      <4>3. Append(gcs[p], post[p][i]) \in Seq(Order) /\ Others(p, Append(gcs[p], post[p][i]))
        BY <4>2, AppendOther
      <4> QED BY <4>1, <4>3
    <3> QED BY <1>4, <3>1, <3>2
  <2> QED BY <2>5, <2>6, <2>7
<1> QED BY <1>1, <1>2, <1>3, <1>4 DEF Window

LEMMA TypeFrames ==
  ASSUME TypeInv, \/ GameFrame \/ BeginFrame \/ EndFrame
                  \/ \E p \in Players : ExecuteGC(p) \/ NextPlayer(p)
  PROVE  TypeInv'
<1> USE DEF TypeInv, OthersOnly
<1>1. CASE GameFrame
  <2>1. gf + 1 \in Nat /\ gf' = gf + 1 /\ gf' \in 0..MaxGF
    BY <1>1, PactsAssumption DEF GameFrame, TypeOK
  <2>2. pacts' \in [Keys -> Pact] /\ seen' \in [Players -> SUBSET Players]
    BY <1>1, <2>1, TestPactsType DEF GameFrame
  <2> QED BY <1>1, <2>1, <2>2 DEF GameFrame, TypeOK
<1>2. CASE BeginFrame
  <2>1. gf' \in 0..MaxGF /\ turn' \in 0..(N + 1)
    BY <1>2, PactsAssumption DEF BeginFrame, TypeOK
  <2> QED BY <1>2, <2>1 DEF BeginFrame, TypeOK
<1>3. CASE EndFrame
  <2>1. gf \in Nat /\ turn' \in 0..(N + 1)
    BY <1>3, PactsAssumption DEF EndFrame, TypeOK
  <2>2. pacts' \in [Keys -> Pact] /\ seen' \in [Players -> SUBSET Players]
    BY <1>3, <2>1, TestPactsType DEF EndFrame
  <2>3. gcs' \in [Players -> Seq(Order)] /\ queue' \in [Players -> Seq(Order)]
        /\ \A p \in Players : Others(p, gcs'[p]) /\ Others(p, queue'[p])
    BY <1>3 DEF EndFrame, TypeOK, Others
  <2> QED BY <1>3, <2>1, <2>2, <2>3 DEF EndFrame, TypeOK
<1>4. ASSUME NEW p \in Players, ExecuteGC(p)
      PROVE  TypeInv'
  <2>1. queue[p] \in Seq(Order) /\ Others(p, queue[p]) /\ queue[p] # <<>>
    BY <1>4 DEF ExecuteGC, TypeOK
  <2>2. /\ Tail(queue[p]) \in Seq(Order) /\ Others(p, Tail(queue[p]))
        /\ Head(queue[p]) \in Order /\ Head(queue[p]).other # p
    BY <2>1, TailOther
  <2>3. Execute(p, Head(queue[p])) /\ queue' = [queue EXCEPT ![p] = Tail(queue[p])]
        /\ UNCHANGED <<gf, turn, gcs, window>>
    BY <1>4 DEF ExecuteGC
  <2>4. /\ pacts' \in [Keys -> Pact] /\ seen' \in [Players -> SUBSET Players]
        /\ offer' \in [Keys -> Offer] /\ asked' \in [Keys -> BOOLEAN]
        /\ post' \in [Players -> Seq(Letter)]
        /\ \A q \in Players : Len(post'[q]) <= MaxPost /\ Others(q, post'[q])
    BY <2>2, <2>3, ExecuteType
  <2>5. queue' \in [Players -> Seq(Order)] /\ \A q \in Players : Others(q, queue'[q])
    BY <2>2, <2>3 DEF TypeOK
  <2> QED BY <2>3, <2>4, <2>5 DEF TypeOK
<1>5. ASSUME NEW p \in Players, NextPlayer(p)
      PROVE  TypeInv'
  <2>1. turn' \in 0..(N + 1)
    BY <1>5, PactsAssumption DEF NextPlayer
  <2> QED BY <1>5, <2>1 DEF NextPlayer, TypeOK
<1> QED BY <1>1, <1>2, <1>3, <1>4, <1>5

LEMMA TypeStep == TypeInv /\ [Next]_vars => TypeInv'
<1>1. ASSUME TypeInv, Next PROVE TypeInv'
  BY <1>1, TypeWindow, TypeFrames DEF Next
<1>2. ASSUME TypeInv, UNCHANGED vars PROVE TypeInv'
  BY <1>2 DEF TypeInv, TypeOK, OthersOnly, Others, vars
<1> QED BY <1>1, <1>2

(* The records, orders, letters and histories keep their types, no player  *)
(* has more letters than MAX_POST_MESSAGES, and nobody ever gives an order *)
(* about a treaty with itself.                                             *)
THEOREM TypeCorrect == Spec => []TypeOK
<1>1. TypeInv => TypeOK
  BY DEF TypeInv
<1> QED BY <1>1, TypeInit, TypeStep, PTL DEF Spec

-----------------------------------------------------------------------------
(* Mutual, while the players are careful.  It is not inductive: that a     *)
(* treaty binds both partners needs that their records agree on its term,  *)
(* and that no order under way will reset one of them.  A suggestion under *)
(* way was given when there was no treaty, and nothing but the same        *)
(* player's own orders, none of which is under way before it, can change   *)
(* that.                                                                   *)

Alike(r, s) == r.accepted = s.accepted /\ r.duration = s.duration /\ r.start = s.start

Paired ==
  \A p, q \in Players : \A t \in Types :
    p # q /\ InForce(p, q, t) => Alike(pacts[<<p, q, t>>], pacts[<<q, p, t>>])

(* Records of no treaty, nor of a proposal. *)
Free == {k \in Keys : StateOf(pacts[k], gf) = "none"}

(* A suggestion among the orders s of p: its record is one of F, and it is *)
(* the first of them about this treaty.                                    *)
Sound(F, p, s) ==
  \A i \in 1..Len(s) : s[i].type = "suggest" =>
    /\ <<p, s[i].other, s[i].pact>> \in F
    /\ \A j \in 1..Len(s) : j < i => ~About(s[j], s[i].other, s[i].pact)

Apart(s, u) ==
  \A i \in 1..Len(s), j \in 1..Len(u) :
    s[i].type = "suggest" => ~About(u[j], s[i].other, s[i].pact)

CarefulOrders ==
  \A p \in Players : Sound(Free, p, gcs[p]) /\ Sound(Free, p, queue[p]) /\ Apart(gcs[p], queue[p])

IInv == TypeInv /\ Paired /\ CarefulOrders

LEMMA AlikeState ==
  ASSUME NEW r, NEW s, NEW g, Alike(r, s)
  PROVE  StateOf(r, g) = StateOf(s, g)
BY DEF Alike, StateOf, Runs

LEMMA StatesAfter ==
  ASSUME NEW r \in Pact, NEW g, NEW d
  PROVE  /\ StateOf(Dissolved(r), g) = "none" /\ StateOf(Withdrawn(r), g) = "none"
         /\ StateOf(Unwanted(r), g) = StateOf(r, g)
         /\ StateOf(Made(r, 0), g) = "none"
         /\ StateOf(Proposed(r, d), g) # "accepted"
         /\ StateOf(r, g) = "none" /\ ~r.accepted => r.duration = 0
         /\ StateOf(r, g) = "accepted" => r.accepted
BY DEF StateOf, Runs, Dissolved, Withdrawn, Unwanted, Made, Proposed, Pact

LEMMA StateLater ==
  ASSUME NEW r \in Pact, NEW g \in Nat
  PROVE  /\ StateOf(r, g) = "none" => StateOf(r, g + 1) = "none"
         /\ StateOf(r, g + 1) = "accepted" => StateOf(r, g) = "accepted"
BY DEF StateOf, Runs, Pact, Duration

(* What an order does to the treaties: they stay paired, and where there   *)
(* is none, only the player's own order about it can change that.          *)
Steady(p, c) == Free \ {<<p, c.other, c.pact>>} \subseteq Free'

LEMMA SuggestPaired ==
  ASSUME TypeInv, Paired, NEW p \in Players, NEW c \in Order, c.other # p,
         c.type = "suggest", SuggestPact(p, c), gf' = gf,
         PactState(p, c.other, c.pact) = "none"
  PROVE  Paired' /\ Steady(p, c)
<1> DEFINE k0 == <<p, c.other, c.pact>>
<1>1. /\ TypeOK /\ pacts \in [Keys -> Pact] /\ gf \in Nat
      /\ c.other \in Players /\ c.pact \in Types
  BY OrderFields DEF TypeInv, TypeOK
<1>2. \A k \in Keys : pacts'[k] = IF k = k0 THEN Proposed(pacts[k], c.duration) ELSE pacts[k]
  BY <1>1, SuggestRecords
<1>3. Paired'
  <2> SUFFICES ASSUME NEW p2 \in Players, NEW q2 \in Players, NEW t2 \in Types,
                      p2 # q2, InForce(p2, q2, t2)'
               PROVE  Alike(pacts[<<p2, q2, t2>>], pacts[<<q2, p2, t2>>])'
    BY DEF Paired
  <2> DEFINE k == <<p2, q2, t2>>
             l == <<q2, p2, t2>>
  <2>1. k \in Keys /\ l \in Keys
    BY KeyIs
  <2>2. StateOf(pacts'[k], gf) = "accepted"
    BY DEF InForce, PactState
  <2>3. k # k0
    BY <1>1, <1>2, <2>1, <2>2, StatesAfter
  <2>4. pacts'[k] = pacts[k] /\ InForce(p2, q2, t2)
    BY <1>2, <2>1, <2>2, <2>3 DEF InForce, PactState
  <2>5. Alike(pacts[k], pacts[l])
    BY <2>4 DEF Paired
  <2>6. l # k0
    BY <2>4, <2>5, AlikeState DEF InForce, PactState
  <2> QED BY <1>2, <2>1, <2>4, <2>5, <2>6
<1>4. Steady(p, c)
  BY <1>1, <1>2 DEF Steady, Free
<1> QED BY <1>3, <1>4

LEMMA AcceptPaired ==
  ASSUME TypeInv, Paired, NEW p \in Players, NEW c \in Order, c.other # p,
         c.type = "accept", AcceptPact(p, c), gf' = gf
  PROVE  Paired' /\ Steady(p, c)
<1> DEFINE mine == <<p, c.other, c.pact>>
           hers == <<c.other, p, c.pact>>
           d == pacts[hers].duration
<1>1. /\ TypeOK /\ pacts \in [Keys -> Pact] /\ gf \in Nat
      /\ c.other \in Players /\ c.pact \in Types
  BY OrderFields DEF TypeInv, TypeOK
<1>2. CASE UNCHANGED pacts
  <2>1. Paired'
    BY <1>2 DEF Paired, InForce, PactState
  <2>2. Steady(p, c)
    BY <1>2 DEF Steady, Free
  <2> QED BY <2>1, <2>2
<1>3. CASE /\ ~pacts[hers].accepted
           /\ \A k \in Keys : pacts'[k] = IF k \in {mine, hers} THEN Made(pacts[k], d) ELSE pacts[k]
  <2>1. Paired'
    <3> SUFFICES ASSUME NEW p2 \in Players, NEW q2 \in Players, NEW t2 \in Types,
                        p2 # q2, InForce(p2, q2, t2)'
                 PROVE  Alike(pacts[<<p2, q2, t2>>], pacts[<<q2, p2, t2>>])'
      BY DEF Paired
    <3> DEFINE k == <<p2, q2, t2>>
               l == <<q2, p2, t2>>
    <3>1. k \in Keys /\ l \in Keys
      BY KeyIs
    <3>2. k \in {mine, hers} <=> l \in {mine, hers}
      OBVIOUS
    <3>3. CASE k \in {mine, hers}
      BY <1>3, <3>1, <3>2, <3>3 DEF Alike, Made
    <3>4. CASE k \notin {mine, hers}
      <4>1. pacts'[k] = pacts[k] /\ pacts'[l] = pacts[l]
        BY <1>3, <3>1, <3>2, <3>4
      <4> QED BY <4>1 DEF Paired, InForce, PactState
    <3> QED BY <3>3, <3>4
  <2>2. Steady(p, c)
    <3> SUFFICES ASSUME NEW k \in Keys, k # mine, StateOf(pacts[k], gf) = "none"
                 PROVE  StateOf(pacts'[k], gf) = "none"
      BY <1>1 DEF Steady, Free
    <3>2. CASE k = hers
      <4>1. d = 0
        BY <1>1, <1>3, <3>2, StatesAfter
      <4>2. pacts'[k] = Made(pacts[k], 0)
        BY <1>3, <3>2, <4>1
      <4> QED BY <1>1, <4>2, StatesAfter
    <3>3. CASE k # hers
      BY <1>3, <3>3
    <3> QED BY <3>2, <3>3
  <2> QED BY <2>1, <2>2
<1> QED BY <1>1, <1>2, <1>3, AcceptRecords

LEMMA CancelPaired ==
  ASSUME TypeInv, Paired, NEW p \in Players, NEW c \in Order, c.other # p,
         c.type = "cancel", CancelPact(p, c), gf' = gf
  PROVE  Paired' /\ Steady(p, c)
<1> DEFINE mine == <<p, c.other, c.pact>>
           hers == <<c.other, p, c.pact>>
<1>1. /\ TypeOK /\ pacts \in [Keys -> Pact] /\ gf \in Nat
      /\ c.other \in Players /\ c.pact \in Types
  BY OrderFields DEF TypeInv, TypeOK
<1>2. \A k \in Keys : \/ pacts'[k] = pacts[k]
                      \/ pacts'[k] = Unwanted(pacts[k])
                      \/ StateOf(pacts'[k], gf) = "none"
  <2> SUFFICES ASSUME NEW k \in Keys
               PROVE  pacts'[k] \in {pacts[k], Dissolved(pacts[k]), Unwanted(pacts[k]), Withdrawn(pacts[k])}
    BY <1>1, StatesAfter
  <2> QED BY <1>1, CancelRecords
<1>3. Steady(p, c)
  BY <1>1, <1>2, StatesAfter DEF Steady, Free
<1>4. ASSUME NEW p2 \in Players, NEW q2 \in Players, NEW t2 \in Types, p2 # q2,
             StateOf(pacts'[<<p2, q2, t2>>], gf) = "accepted"
      PROVE  Alike(pacts'[<<p2, q2, t2>>], pacts'[<<q2, p2, t2>>])
  <2> DEFINE k == <<p2, q2, t2>>
             l == <<q2, p2, t2>>
  <2>1. k \in Keys /\ l \in Keys
    BY <1>4, KeyIs
  <2>2. (k = mine <=> l = hers) /\ (k = hers <=> l = mine)
    OBVIOUS
  <2>3. StateOf(pacts[k], gf) = "accepted" /\ Alike(pacts[k], pacts[l])
    <3>1. StateOf(pacts[k], gf) = "accepted"
      BY <1>1, <1>2, <1>4, <2>1, StatesAfter
    <3> QED BY <3>1, <1>4 DEF Paired, InForce, PactState
  <2>4. pacts[k].accepted /\ pacts[l].accepted
    BY <1>1, <2>1, <2>3, StatesAfter DEF Alike
  <2>5. CASE \A m \in Keys : pacts'[m] = IF m \in {mine, hers} THEN Dissolved(pacts[m]) ELSE pacts[m]
    <3>1. k \notin {mine, hers}
      BY <1>1, <1>4, <2>1, <2>5, StatesAfter
    <3> QED BY <2>1, <2>2, <2>3, <2>5, <3>1
  <2>6. CASE \A m \in Keys : pacts'[m] = IF m = mine THEN Unwanted(pacts[m]) ELSE pacts[m]
    <3>1. \A m \in Keys : Alike(pacts'[m], pacts[m])
      BY <1>1, <2>6 DEF Alike, Unwanted, Pact
    <3> QED BY <2>1, <2>3, <3>1 DEF Alike
  <2>7. CASE /\ ~pacts[mine].accepted
             /\ \A m \in Keys : pacts'[m] = IF m = mine THEN Withdrawn(pacts[m]) ELSE pacts[m]
    BY <2>1, <2>3, <2>4, <2>7
  <2> QED BY <1>1, <2>5, <2>6, <2>7, CancelRecords
<1>5. Paired'
  BY <1>4 DEF Paired, InForce, PactState
<1> QED BY <1>3, <1>5

(* A game frame: what has run out is forgotten on both sides.              *)
LEMMA TestPactsPaired ==
  ASSUME TypeInv, Paired, NEW g \in {gf, gf + 1}, gf' = g, TestPacts(g)
  PROVE  Paired' /\ Free \subseteq Free'
<1>1. pacts \in [Keys -> Pact] /\ gf \in Nat /\ g \in Nat
  BY DEF TypeInv, TypeOK
<1>2. \A k \in Keys : \/ /\ pacts'[k] = Withdrawn(pacts[k])
                         /\ StateOf(pacts[k], g) = "none"
                      \/ /\ pacts'[k] = pacts[k]
                         /\ StateOf(pacts[k], g) # "none" \/ k[3] # "alliance" \/ pacts[k].duration = 0
  BY KeyParts DEF TestPacts, Lapsed
<1>3. \A k \in Keys : /\ StateOf(pacts[k], gf) = "none" => StateOf(pacts[k], g) = "none"
                      /\ StateOf(pacts[k], g) = "accepted" => StateOf(pacts[k], gf) = "accepted"
  BY <1>1, StateLater
<1>4. Free \subseteq Free'
  BY <1>1, <1>2, <1>3, StatesAfter DEF Free
<1>5. ASSUME NEW p \in Players, NEW q \in Players, NEW t \in Types, p # q,
             StateOf(pacts'[<<p, q, t>>], g) = "accepted"
      PROVE  Alike(pacts'[<<p, q, t>>], pacts'[<<q, p, t>>])
  <2> DEFINE k == <<p, q, t>>
             l == <<q, p, t>>
  <2>1. k \in Keys /\ l \in Keys
    BY <1>5, KeyIs
  <2>2. pacts'[k] = pacts[k] /\ StateOf(pacts[k], g) = "accepted"
    BY <1>1, <1>2, <1>5, <2>1, StatesAfter
  <2>3. Alike(pacts[k], pacts[l])
    BY <1>3, <1>5, <2>1, <2>2 DEF Paired, InForce, PactState
  <2>4. pacts'[l] = pacts[l]
    BY <1>2, <2>1, <2>2, <2>3, AlikeState
  <2> QED BY <2>2, <2>3, <2>4
<1>6. Paired'
  BY <1>5 DEF Paired, InForce, PactState
<1> QED BY <1>4, <1>6

-----------------------------------------------------------------------------
(* The orders under way.                                                   *)

LEMMA SoundAppend ==
  ASSUME NEW F, NEW p, NEW s \in Seq(Order), Sound(F, p, s), NEW c \in Order,
         c.type = "suggest" =>
           <<p, c.other, c.pact>> \in F /\ \A j \in 1..Len(s) : ~About(s[j], c.other, c.pact)
  PROVE  Sound(F, p, Append(s, c))
BY DEF Sound

LEMMA ApartAppend ==
  ASSUME NEW s \in Seq(Order), NEW u \in Seq(Order), Apart(s, u), NEW c \in Order,
         c.type = "suggest" => \A j \in 1..Len(u) : ~About(u[j], c.other, c.pact)
  PROVE  Apart(Append(s, c), u)
BY DEF Apart

LEMMA SoundTail ==
  ASSUME NEW F, NEW G, NEW p, NEW s \in Seq(Order), Sound(F, p, s), s # <<>>,
         F \ {<<p, Head(s).other, Head(s).pact>>} \subseteq G
  PROVE  Sound(G, p, Tail(s))
BY DEF Sound, About

LEMMA ApartTail ==
  ASSUME NEW s \in Seq(Order), NEW u \in Seq(Order), Apart(s, u), u # <<>>
  PROVE  Apart(s, Tail(u))
BY DEF Apart

LEMMA SoundStays ==
  ASSUME NEW F, NEW G, NEW p, NEW q, NEW c, NEW s \in Seq(Order), Sound(F, q, s),
         F \ {<<p, c.other, c.pact>>} \subseteq G,
         p # q \/ \A i \in 1..Len(s) : s[i].type = "suggest" => ~About(c, s[i].other, s[i].pact)
  PROVE  Sound(G, q, s)
BY DEF Sound, About

LEMMA SoundGrows ==
  ASSUME NEW F, NEW G, NEW p, NEW s, Sound(F, p, s), F \subseteq G
  PROVE  Sound(G, p, s)
BY DEF Sound

LEMMA PairedInit == Init => Paired /\ CarefulOrders
<1> SUFFICES ASSUME Init PROVE Paired /\ CarefulOrders
  OBVIOUS
<1>1. CarefulOrders
  BY DEF Init, CarefulOrders, Sound, Apart
<1>2. ASSUME NEW p \in Players, NEW q \in Players, NEW t \in Types, p # q,
             StateOf(pacts[<<p, q, t>>], gf) = "accepted"
      PROVE  Alike(pacts[<<p, q, t>>], pacts[<<q, p, t>>])
  <2>1. <<p, q, t>> \in Keys /\ <<q, p, t>> \in Keys
    BY <1>2, KeyIs
  <2>2. CASE pacts = StartPacts
    <3>1. pacts[<<p, q, t>>] = pacts[<<q, p, t>>]
      BY <2>1, <2>2 DEF StartPacts, SameTeam
    <3> QED BY <3>1 DEF Alike
  <2>3. CASE pacts \in Saved
    <3>1. pacts[<<p, q, t>>] # NoPact
      BY <1>2 DEF StateOf, NoPact
    <3>2. Concluded(pacts[<<p, q, t>>], pacts[<<q, p, t>>])
      BY <3>1, <2>3, <1>2, RecordsAssumption
    <3>3. pacts[<<p, q, t>>] \in Pact
      BY <2>1, <2>3, RecordsAssumption
    <3> QED BY <3>2, <3>3 DEF Concluded, Alike, Pact
  <2> QED BY <2>2, <2>3 DEF Init
<1>3. Paired
  BY <1>2 DEF Paired, InForce, PactState
<1> QED BY <1>1, <1>3

(* The windows add orders, a suggestion only where the player is careful.  *)
LEMMA WindowOrders ==
  ASSUME IInv, Careful, NEW p \in Players, Window(p)
  PROVE  Paired' /\ CarefulOrders'
<1>1. gcs \in [Players -> Seq(Order)] /\ queue \in [Players -> Seq(Order)]
  BY DEF IInv, TypeInv, TypeOK
<1>2. UNCHANGED <<pacts, gf, queue>>
  BY DEF Window, OpenSuggestion, PressCancel, Confirm, Answer, Discard
<1>3. Paired' /\ Free' = Free
  BY <1>2 DEF IInv, Paired, InForce, PactState, Free
<1>4. CASE UNCHANGED gcs
  BY <1>2, <1>3, <1>4 DEF IInv, CarefulOrders
<1>5. ASSUME NEW c \in Order, gcs' = [gcs EXCEPT ![p] = Append(gcs[p], c)],
             c.type = "suggest" => /\ <<p, c.other, c.pact>> \in Free
                                   /\ ~Pending(p, c.other, c.pact)
      PROVE  CarefulOrders'
  <2> SUFFICES ASSUME NEW q \in Players
               PROVE  Sound(Free, q, gcs'[q]) /\ Sound(Free, q, queue[q]) /\ Apart(gcs'[q], queue[q])
    BY <1>2, <1>3 DEF CarefulOrders
  <2>1. Sound(Free, q, gcs[q]) /\ Sound(Free, q, queue[q]) /\ Apart(gcs[q], queue[q])
    BY DEF IInv, CarefulOrders
  <2>2. CASE q # p
    BY <1>1, <1>5, <2>1, <2>2
  <2>3. CASE q = p
    <3>1. gcs'[p] = Append(gcs[p], c)
      BY <1>1, <1>5
    <3>2. Sound(Free, p, Append(gcs[p], c))
      BY <1>1, <1>5, <2>1, <2>3, SoundAppend DEF Pending
    <3>3. Apart(Append(gcs[p], c), queue[p])
      BY <1>1, <1>5, <2>1, <2>3, ApartAppend DEF Pending
    <3> QED BY <3>1, <3>2, <3>3, <2>1, <2>3
  <2> QED BY <2>2, <2>3
<1>6. ASSUME NEW q \in Players, NEW t \in Types, OpenSuggestion(p, q, t) \/ PressCancel(p, q, t)
      PROVE  CarefulOrders'
  <2>1. CASE OpenSuggestion(p, q, t)
    BY <2>1, <1>4 DEF OpenSuggestion
  <2>2. CASE PressCancel(p, q, t)
    <3>1. Cancel(q, t) \in Order /\ Cancel(q, t).type # "suggest"
      BY Orders, LetterIsOrder
    <3> QED BY <2>2, <3>1, <1>5 DEF PressCancel, AddGC
  <2> QED BY <1>6, <2>1, <2>2
<1>7. ASSUME NEW d \in Durations, Confirm(p, d)
      PROVE  CarefulOrders'
  <2> DEFINE q == window[p][1]
             t == window[p][2]
  <2>1. q \in Players /\ t \in Types /\ q # p
    BY <1>7 DEF Confirm, IInv, TypeInv, TypeOK, OthersOnly
  <2>2. /\ gcs' = [gcs EXCEPT ![p] = Append(gcs[p], Suggest(q, t, d))]
        /\ PactState(p, q, t) = "none" /\ ~Pending(p, q, t)
    BY <1>7 DEF Confirm, AddGC
  <2>3. /\ Suggest(q, t, d) \in Order
        /\ Suggest(q, t, d).other = q /\ Suggest(q, t, d).pact = t
    BY <2>1, Orders
  <2>4. <<p, q, t>> \in Free
    BY <2>1, <2>2, KeyIs DEF Free, PactState
  <2> HIDE DEF q, t
  <2> QED BY <2>2, <2>3, <2>4, <1>5
<1>8. ASSUME NEW i \in 1..Len(post[p]), Answer(p, i) \/ Discard(p, i)
      PROVE  CarefulOrders'
  <2>1. CASE Discard(p, i)
    BY <2>1, <1>4 DEF Discard
  <2>2. CASE Answer(p, i)
    <3>1. post[p] \in Seq(Letter)
      BY DEF IInv, TypeInv, TypeOK
    <3>2. post[p][i] \in Letter
      BY <3>1
    <3>3. post[p][i] \in Order /\ post[p][i].type # "suggest"
      BY <3>2, LetterIsOrder
    <3> QED BY <2>2, <3>3, <1>5 DEF Answer, AddGC
  <2> QED BY <1>8, <2>1, <2>2
<1> QED BY <1>3, <1>6, <1>7, <1>8 DEF Window

LEMMA OrderExecuted ==
  ASSUME IInv, NEW p \in Players, ExecuteGC(p)
  PROVE  Paired' /\ CarefulOrders'
<1> DEFINE c == Head(queue[p])
<1>1. /\ gcs \in [Players -> Seq(Order)] /\ queue \in [Players -> Seq(Order)]
      /\ TypeInv /\ Paired /\ CarefulOrders
  BY DEF IInv, TypeInv, TypeOK
<1>2. /\ queue[p] # <<>> /\ Execute(p, c) /\ queue' = [queue EXCEPT ![p] = Tail(queue[p])]
      /\ UNCHANGED <<gf, gcs>>
  BY DEF ExecuteGC
<1>3. c \in Order /\ c.other # p /\ Others(p, queue[p])
  BY <1>1, <1>2, TailOther DEF TypeInv, OthersOnly
<1>4. c = queue[p][1] /\ 1 \in 1..Len(queue[p])
  BY <1>1, <1>2
<1>5. Paired' /\ Steady(p, c)
  <2>1. c.type = "suggest" => PactState(p, c.other, c.pact) = "none"
    <3>1. Sound(Free, p, queue[p])
      BY <1>1 DEF CarefulOrders
    <3>2. c.type = "suggest" => <<p, c.other, c.pact>> \in Free
      BY <3>1, <1>4 DEF Sound
    <3> QED BY <3>2 DEF Free, PactState
  <2> HIDE DEF c
  <2> QED BY <2>1, <1>1, <1>2, <1>3, SuggestPaired, AcceptPaired, CancelPaired DEF Execute
<1>6. CarefulOrders'
  <2> SUFFICES ASSUME NEW q \in Players
               PROVE  Sound(Free', q, gcs[q]) /\ Sound(Free', q, queue'[q]) /\ Apart(gcs[q], queue'[q])
    BY <1>2 DEF CarefulOrders
  <2>1. Sound(Free, q, gcs[q]) /\ Sound(Free, q, queue[q]) /\ Apart(gcs[q], queue[q])
    BY <1>1 DEF CarefulOrders
  <2>2. PICK F, G : F = Free /\ G = Free' /\ F \ {<<p, c.other, c.pact>>} \subseteq G
    BY <1>5 DEF Steady
  <2>3. PICK s, u : s = gcs[q] /\ u = queue[q] /\ s \in Seq(Order) /\ u \in Seq(Order)
    BY <1>1
  <2>4. CASE q # p
    <3>1. queue'[q] = u
      BY <1>1, <1>2, <2>3, <2>4
    <3>2. Sound(G, q, s) /\ Sound(G, q, u)
      BY <2>1, <2>2, <2>3, <2>4, SoundStays
    <3> QED BY <2>1, <2>2, <2>3, <3>1, <3>2
  <2>5. CASE q = p
    <3>1. u # <<>> /\ c = Head(u) /\ queue'[q] = Tail(u)
      BY <1>1, <1>2, <2>3, <2>5
    <3>2. Sound(G, p, Tail(u))
      BY <2>1, <2>2, <2>3, <2>5, <3>1, SoundTail
    <3>3. Apart(s, Tail(u))
      BY <2>1, <2>3, <2>5, <3>1, ApartTail
    <3>4. \A i \in 1..Len(s) : s[i].type = "suggest" => ~About(c, s[i].other, s[i].pact)
      BY <2>1, <2>3, <2>5, <3>1, <1>4 DEF Apart
    <3>5. Sound(G, p, s)
      <4>1. Sound(F, p, s) /\ s \in Seq(Order) /\ F \ {<<p, c.other, c.pact>>} \subseteq G
        BY <2>1, <2>2, <2>3, <2>5
      <4> HIDE DEF c
      <4> QED BY <3>4, <4>1 DEF Sound, About
    <3> QED BY <2>2, <2>3, <2>5, <3>1, <3>2, <3>3, <3>5
  <2> QED BY <2>4, <2>5
<1> QED BY <1>5, <1>6

LEMMA FramePaired ==
  ASSUME IInv, GameFrame \/ BeginFrame \/ EndFrame \/ \E p \in Players : NextPlayer(p)
  PROVE  Paired' /\ CarefulOrders'
<1>1. pacts \in [Keys -> Pact] /\ gf \in Nat /\ TypeInv /\ Paired /\ CarefulOrders
  BY DEF IInv, TypeInv, TypeOK
<1>2. Paired' /\ Free \subseteq Free'
  <2>1. CASE GameFrame
    BY <2>1, <1>1, TestPactsPaired DEF GameFrame
  <2>2. CASE EndFrame
    BY <2>2, <1>1, TestPactsPaired DEF EndFrame
  <2>3. CASE BeginFrame
    <3>1. gf' = gf + 1 /\ pacts' = pacts
      BY <2>3 DEF BeginFrame
    <3>2. \A k \in Keys : /\ StateOf(pacts[k], gf) = "none" => StateOf(pacts[k], gf + 1) = "none"
                          /\ StateOf(pacts[k], gf + 1) = "accepted" => StateOf(pacts[k], gf) = "accepted"
      BY <1>1, StateLater
    <3>3. Free \subseteq Free'
      BY <3>1, <3>2 DEF Free
    <3>4. \A p, q \in Players : \A t \in Types : p # q /\ InForce(p, q, t)' => InForce(p, q, t)
      BY <3>1, <3>2, KeyIs DEF InForce, PactState
    <3> QED BY <1>1, <3>1, <3>3, <3>4 DEF Paired
  <2>4. ASSUME NEW p \in Players, NextPlayer(p) PROVE Paired' /\ Free \subseteq Free'
    BY <2>4, <1>1 DEF NextPlayer, Paired, InForce, PactState, Free
  <2> QED BY <2>1, <2>2, <2>3, <2>4
<1>3. CarefulOrders'
  <2> SUFFICES ASSUME NEW q \in Players
               PROVE  Sound(Free', q, gcs'[q]) /\ Sound(Free', q, queue'[q]) /\ Apart(gcs'[q], queue'[q])
    BY DEF CarefulOrders
  <2>1. Sound(Free, q, gcs[q]) /\ Sound(Free, q, queue[q]) /\ Apart(gcs[q], queue[q])
    BY <1>1 DEF CarefulOrders
  <2>2. Sound(Free', q, gcs[q]) /\ Sound(Free', q, queue[q])
    BY <1>2, <2>1, SoundGrows
  <2>3. CASE EndFrame
    <3>1. queue'[q] = gcs[q] /\ gcs'[q] = <<>>
      BY <2>3 DEF EndFrame
    <3>2. Sound(Free', q, <<>>) /\ Apart(<<>>, gcs[q])
      BY DEF Sound, Apart
    <3> QED BY <2>2, <3>1, <3>2
  <2>4. CASE UNCHANGED <<gcs, queue>>
    BY <2>1, <2>2, <2>4
  <2> QED BY <2>3, <2>4 DEF GameFrame, BeginFrame, NextPlayer
<1> QED BY <1>2, <1>3

LEMMA PairedStep ==
  ASSUME Careful
  PROVE  IInv /\ [Next]_vars => IInv'
<1> SUFFICES ASSUME IInv, [Next]_vars PROVE IInv'
  OBVIOUS
<1>1. TypeInv'
  BY TypeStep DEF IInv
<1>2. CASE Next
  <2>1. Paired' /\ CarefulOrders'
    BY <1>2, WindowOrders, OrderExecuted, FramePaired DEF Next
  <2> QED BY <1>1, <2>1 DEF IInv
<1>3. CASE UNCHANGED vars
  <2>1. Paired' /\ CarefulOrders'
    BY <1>3 DEF vars, IInv, Paired, InForce, PactState, CarefulOrders, Free
  <2> QED BY <1>1, <2>1 DEF IInv
<1> QED BY <1>2, <1>3

(* With players who look again before they confirm a suggestion, a treaty  *)
(* in force always binds both partners, through all crossing orders,       *)
(* answers to old letters, cancellations and expiries.                     *)
THEOREM TreatiesMutual ==
  ASSUME Careful
  PROVE  Spec => []Mutual
<1>1. Init => IInv
  BY TypeInit, PairedInit DEF IInv
<1>2. IInv => Mutual
  <2> SUFFICES ASSUME IInv, NEW p \in Players, NEW q \in Players \ {p}, NEW t \in Types, InForce(p, q, t)
               PROVE  InForce(q, p, t)
    BY DEF Mutual
  <2>1. Alike(pacts[<<p, q, t>>], pacts[<<q, p, t>>])
    BY DEF IInv, Paired
  <2> QED BY <2>1, AlikeState DEF InForce, PactState
<1> QED BY <1>1, <1>2, PairedStep, PTL DEF Spec

(* With careful players nobody may attack a partner whom a treaty in force *)
(* still binds.                                                            *)
THEOREM PartnersProtected ==
  ASSUME Careful
  PROVE  Spec => []PartnersSafe
<1>1. Mutual => PartnersSafe
  <2> SUFFICES ASSUME Mutual, NEW p \in Players, NEW q \in Players \ {p}, NEW t \in Types,
                      InForce(q, p, t)
               PROVE  ~IsPlayerAttackable(p, q)
    BY DEF PartnersSafe
  <2>1. InForce(p, q, t)
    BY DEF Mutual
  <2>2. CASE t = "alliance"
    BY <2>1, <2>2 DEF IsPlayerAttackable, Allies, InForce, PactState
  <2>3. CASE t = "peace"
    BY <2>1, <2>3 DEF IsPlayerAttackable
  <2> QED BY <2>2, <2>3
<1> QED BY <1>1, TreatiesMutual, PTL

-----------------------------------------------------------------------------
(* SeesAllies, with careful players.  While a network frame is executed a  *)
(* treaty may have run out without its player's view being computed anew:  *)
(* it has lapsed, then, and TestPacts will find it at the end of the frame.*)
(* That no order hides it until then is the other part: whom a suggestion  *)
(* under way is about is not seen as an ally.                              *)

SeesWhom(p, q) == q \in seen[p] <=> (p = q \/ InForce(p, q, "alliance"))

Views ==
  \A p, q \in Players : \/ SeesWhom(p, q)
                        \/ p # q /\ turn # 0 /\ Lapsed(pacts, p, q, gf)

Strange(p, s, S) ==
  \A i \in 1..Len(s) : s[i].type = "suggest" /\ s[i].pact = "alliance" => s[i].other \notin S
StrangersOnly == \A p \in Players : Strange(p, gcs[p], seen[p]) /\ Strange(p, queue[p], seen[p])

VInv == IInv /\ Views /\ StrangersOnly

(* What is known of an order which is executed. *)
LEMMA OrderFacts ==
  ASSUME IInv, NEW p \in Players, ExecuteGC(p)
  PROVE  LET c == Head(queue[p]) IN
         /\ turn = p /\ turn # 0 /\ queue[p] \in Seq(Order) /\ queue[p] # <<>>
         /\ c = queue[p][1] /\ 1 \in 1..Len(queue[p])
         /\ c \in Order /\ c.other # p /\ c.other \in Players /\ c.pact \in Types
         /\ Execute(p, c) /\ queue' = [queue EXCEPT ![p] = Tail(queue[p])]
         /\ UNCHANGED <<gf, turn, gcs, window>>
         /\ c.type = "suggest" => StateOf(pacts[<<p, c.other, c.pact>>], gf) = "none"
<1> DEFINE c == Head(queue[p])
<1>1. /\ turn = p /\ queue[p] # <<>> /\ Execute(p, c) /\ queue' = [queue EXCEPT ![p] = Tail(queue[p])]
      /\ UNCHANGED <<gf, turn, gcs, window>>
  BY DEF ExecuteGC
<1>2. queue[p] \in Seq(Order) /\ Others(p, queue[p]) /\ Sound(Free, p, queue[p])
  BY DEF IInv, TypeInv, TypeOK, OthersOnly, CarefulOrders
<1>3. c = queue[p][1] /\ 1 \in 1..Len(queue[p])
  BY <1>1, <1>2
<1>4. c \in Order /\ c.other # p
  BY <1>1, <1>2, TailOther
<1>5. c.other \in Players /\ c.pact \in Types
  BY <1>4, OrderFields
<1>6. c.type = "suggest" => <<p, c.other, c.pact>> \in Free
  BY <1>2, <1>3 DEF Sound
<1>7. c.type = "suggest" => StateOf(pacts[<<p, c.other, c.pact>>], gf) = "none"
  BY <1>6 DEF Free
<1>8. turn # 0
  BY <1>1
<1> HIDE DEF c
<1>9. /\ turn = p /\ turn # 0 /\ queue[p] \in Seq(Order) /\ queue[p] # <<>>
      /\ c = queue[p][1] /\ 1 \in 1..Len(queue[p])
      /\ c \in Order /\ c.other # p /\ c.other \in Players /\ c.pact \in Types
      /\ Execute(p, c) /\ queue' = [queue EXCEPT ![p] = Tail(queue[p])]
      /\ UNCHANGED <<gf, turn, gcs, window>>
      /\ c.type = "suggest" => StateOf(pacts[<<p, c.other, c.pact>>], gf) = "none"
  BY <1>1, <1>2, <1>3, <1>4, <1>5, <1>7, <1>8
<1> QED BY <1>9 DEF c

(* A view is the old one, or is that of the new records.                   *)
LEMMA NewViews ==
  ASSUME IInv, NEW p \in Players, ExecuteGC(p)
  PROVE  \A r \in Players : seen'[r] = seen[r] \/ seen'[r] = Allies(pacts', r, gf)
<1>1. seen \in [Players -> SUBSET Players]
  BY DEF IInv, TypeInv, TypeOK
<1>2. Execute(p, Head(queue[p]))
  BY DEF ExecuteGC
<1> QED BY <1>1, <1>2 DEF Execute, SuggestPact, AcceptPact, CancelPact, Look

LEMMA AllyIs ==
  ASSUME NEW P, NEW g, NEW p \in Players, NEW q \in Players
  PROVE  q \in Allies(P, p, g) <=> (p = q \/ StateOf(P[<<p, q, "alliance">>], g) = "accepted")
BY DEF Allies

(* Whose view is not computed anew has the alliances he had, or lacks one  *)
(* whose suggestion was executed.                                          *)
LEMMA ExecuteViews ==
  ASSUME VInv, NEW p \in Players, ExecuteGC(p)
  PROVE  Views'
<1> DEFINE c == Head(queue[p])
           mine == <<p, c.other, c.pact>>
           hers == <<c.other, p, c.pact>>
<1>1. /\ IInv /\ Views /\ TypeOK /\ TypeInv /\ pacts \in [Keys -> Pact] /\ gf \in Nat
      /\ seen \in [Players -> SUBSET Players]
  BY SMTT(30) DEF VInv, IInv, TypeInv, TypeOK
<1>2. /\ turn # 0 /\ c = queue[p][1] /\ 1 \in 1..Len(queue[p])
      /\ c \in Order /\ c.other # p /\ c.other \in Players /\ c.pact \in Types
      /\ Execute(p, c) /\ gf' = gf /\ turn' = turn
      /\ c.type = "suggest" => StateOf(pacts[<<p, c.other, c.pact>>], gf) = "none"
  BY <1>1, OrderFacts
<1>3. c.type = "suggest" /\ c.pact = "alliance" => c.other \notin seen[p]
  BY <1>2 DEF VInv, StrangersOnly, Strange
<1>4. mine \in Keys /\ hers \in Keys
  BY <1>2, KeyIs
<1> HIDE DEF c
<1> SUFFICES ASSUME NEW r \in Players, NEW q \in Players
             PROVE  \/ q \in seen'[r] <=> (r = q \/ StateOf(pacts'[<<r, q, "alliance">>], gf) = "accepted")
                    \/ r # q /\ Lapsed(pacts', r, q, gf)
  <2> SUFFICES ASSUME NEW r \in Players, NEW q \in Players
               PROVE  SeesWhom(r, q)' \/ (r # q /\ Lapsed(pacts', r, q, gf))
    BY <1>2 DEF Views
  <2> QED BY <1>2 DEF SeesWhom, InForce, PactState
<1> DEFINE k == <<r, q, "alliance">>
<1>5. \/ q \in seen[r] <=> (r = q \/ StateOf(pacts[k], gf) = "accepted")
      \/ r # q /\ Lapsed(pacts, r, q, gf)
  BY <1>1 DEF Views, SeesWhom, InForce, PactState
<1>6. r # q => k \in Keys
  BY KeyIs
<1>7. CASE seen'[r] = Allies(pacts', r, gf)
  BY <1>7, AllyIs
<1>8. CASE seen'[r] = seen[r] /\ (r # q => pacts'[k] = pacts[k])
  BY <1>8, <1>5 DEF Lapsed
<1>9. CASE c.type = "suggest"
  <2>1. SuggestPact(p, c)
    BY <1>2, <1>9 DEF Execute
  <2>2. seen'[r] = seen[r]
    BY <2>1 DEF SuggestPact
  <2>3. \A m \in Keys : pacts'[m] = IF m = mine THEN Proposed(pacts[m], c.duration) ELSE pacts[m]
    BY <1>1, <1>2, <1>9, <2>1, SuggestRecords
  <2>4. CASE r # q /\ k = mine
    <3>1. r = p /\ q = c.other /\ c.pact = "alliance"
      BY <2>4
    <3>2. q \notin seen'[r]
      BY <1>3, <1>9, <2>2, <3>1
    <3>3. StateOf(pacts'[k], gf) # "accepted"
      BY <1>1, <1>6, <2>3, <2>4, StatesAfter
    <3> QED BY <2>4, <3>2, <3>3
  <2>5. CASE r # q => k # mine
    BY <1>6, <1>8, <2>2, <2>3, <2>5
  <2> QED BY <2>4, <2>5
<1>10. CASE c.type = "accept"
  <2>1. AcceptPact(p, c)
    BY <1>2, <1>10 DEF Execute
  <2> DEFINE d == pacts[hers].duration
  <2>2. CASE ~Answers(pacts[hers], c.id)
    BY <1>8, <2>1, <2>2 DEF AcceptPact
  <2>3. CASE Answers(pacts[hers], c.id)
    <3>1. \A m \in Keys : m \notin {mine, hers} => pacts'[m] = pacts[m]
      BY <2>1, <2>3 DEF AcceptPact, BothRecords
    <3>2. CASE c.pact = "alliance"
      <4>1. Look({p, c.other}, pacts', gf)
        BY <2>1, <2>3, <3>2 DEF AcceptPact
      <4>2. CASE r \in {p, c.other}
        <5>1. seen'[r] = Allies(pacts', r, gf)
          BY <4>1, <4>2 DEF Look
        <5> QED BY <5>1, <1>7
      <4>3. CASE r \notin {p, c.other}
        <5>1. seen'[r] = seen[r]
          BY <4>1, <4>3 DEF Look
        <5>2. k \notin {mine, hers}
          BY <4>3
        <5> QED BY <1>6, <1>8, <3>1, <5>1, <5>2
      <4> QED BY <4>2, <4>3
    <3>3. CASE c.pact # "alliance"
      <4>1. seen'[r] = seen[r]
        BY <2>1, <2>3, <3>3 DEF AcceptPact
      <4>2. k \notin {mine, hers}
        BY <3>3
      <4> QED BY <1>6, <1>8, <3>1, <4>1, <4>2
    <3> QED BY <3>2, <3>3
  <2> QED BY <2>2, <2>3
<1>11. CASE c.type = "cancel"
  <2>1. CancelPact(p, c)
    BY <1>2, <1>11 DEF Execute
  <2>2. CASE pacts[mine].accepted /\ pacts[hers].want_cancel
    <3>1. \A m \in Keys : m \notin {mine, hers} => pacts'[m] = pacts[m]
      <4>1. pacts' = [pacts EXCEPT ![mine] = Dissolved(@), ![hers] = Dissolved(@)]
        BY <2>1, <2>2 DEF CancelPact
      <4> QED BY <1>1, <4>1
    <3>2. CASE c.pact = "alliance"
      <4>1. Look({p, c.other}, pacts', gf)
        BY <2>1, <2>2, <3>2 DEF CancelPact
      <4>2. CASE r \in {p, c.other}
        <5>1. seen'[r] = Allies(pacts', r, gf)
          BY <4>1, <4>2 DEF Look
        <5> QED BY <5>1, <1>7
      <4>3. CASE r \notin {p, c.other}
        <5>1. seen'[r] = seen[r]
          BY <4>1, <4>3 DEF Look
        <5>2. k \notin {mine, hers}
          BY <4>3
        <5> QED BY <1>6, <1>8, <3>1, <5>1, <5>2
      <4> QED BY <4>2, <4>3
    <3>3. CASE c.pact # "alliance"
      <4>1. seen'[r] = seen[r]
        BY <2>1, <2>2, <3>3 DEF CancelPact
      <4>2. k \notin {mine, hers}
        BY <3>3
      <4> QED BY <1>6, <1>8, <3>1, <4>1, <4>2
    <3> QED BY <3>2, <3>3
  <2>3. CASE pacts[mine].accepted /\ ~pacts[hers].want_cancel
    <3>1. seen'[r] = seen[r] /\ pacts' = [pacts EXCEPT ![mine] = Unwanted(pacts[mine])]
      BY <2>1, <2>3 DEF CancelPact
    <3>2. \A m \in Keys : pacts'[m] = IF m = mine THEN Unwanted(pacts[m]) ELSE pacts[m]
      BY <1>1, <1>4, <3>1
    <3>3. r # q => StateOf(pacts'[k], gf) = StateOf(pacts[k], gf) /\ pacts'[k].duration = pacts[k].duration
      <4> SUFFICES ASSUME r # q, k = mine
                   PROVE  StateOf(pacts'[k], gf) = StateOf(pacts[k], gf)
                          /\ pacts'[k].duration = pacts[k].duration
        BY <1>6, <3>2
      <4>1. pacts'[k] = Unwanted(pacts[k]) /\ pacts[k] \in Pact
        BY <1>1, <1>6, <3>2
      <4> HIDE DEF k
      <4> QED BY <4>1, StatesAfter DEF Unwanted, Pact
    <3> QED BY <1>5, <3>1, <3>3 DEF Lapsed
  <2>4. CASE ~pacts[mine].accepted
    <3>1. seen'[r] = seen[r] /\ pacts' = [pacts EXCEPT ![mine] = Withdrawn(pacts[mine])]
      BY <2>1, <2>4 DEF CancelPact
    <3>2. \A m \in Keys : pacts'[m] = IF m = mine THEN Withdrawn(pacts[m]) ELSE pacts[m]
      BY <1>1, <1>4, <3>1
    <3>3. CASE r # q /\ k = mine
      <4>1. pacts[k] \in Pact /\ ~pacts[k].accepted /\ pacts'[k] = Withdrawn(pacts[k])
        BY <1>1, <1>6, <2>4, <3>2, <3>3
      <4>2. StateOf(pacts[k], gf) # "accepted" /\ ~Lapsed(pacts, r, q, gf)
        BY <4>1, StatesAfter DEF Lapsed
      <4>3. StateOf(pacts'[k], gf) # "accepted"
        BY <4>1, StatesAfter
      <4> QED BY <1>5, <3>1, <3>3, <4>2, <4>3
    <3>4. CASE r # q => k # mine
      BY <1>6, <1>8, <3>1, <3>2, <3>4
    <3> QED BY <3>3, <3>4
  <2> QED BY <2>2, <2>3, <2>4
<1> QED BY <1>2, <1>9, <1>10, <1>11, OrderFields

(* Whom a sound suggestion is about is no ally by the records.             *)
LEMMA SoundStrange ==
  ASSUME NEW r \in Players, NEW s, Others(r, s), Sound(Free, r, s),
         \A i \in 1..Len(s) : s[i].other \in Players, NEW S,
         \A q \in Players \ {r} : q \in S => InForce(r, q, "alliance")
  PROVE  Strange(r, s, S)
<1> SUFFICES ASSUME NEW i \in 1..Len(s), s[i].type = "suggest", s[i].pact = "alliance", s[i].other \in S
             PROVE  FALSE
  BY DEF Strange
<1>1. s[i].other \in Players \ {r}
  BY DEF Others
<1>2. StateOf(pacts[<<r, s[i].other, "alliance">>], gf) = "none"
  BY DEF Sound, Free
<1>3. StateOf(pacts[<<r, s[i].other, "alliance">>], gf) = "accepted"
  BY <1>1 DEF InForce, PactState
<1> QED BY <1>2, <1>3

LEMMA FreeUnseen ==
  ASSUME IInv, Views, turn = 0
  PROVE  StrangersOnly
<1> SUFFICES ASSUME NEW r \in Players
             PROVE  Strange(r, gcs[r], seen[r]) /\ Strange(r, queue[r], seen[r])
  BY DEF StrangersOnly
<1>1. /\ gcs[r] \in Seq(Order) /\ queue[r] \in Seq(Order)
      /\ Others(r, gcs[r]) /\ Others(r, queue[r])
      /\ Sound(Free, r, gcs[r]) /\ Sound(Free, r, queue[r])
  BY DEF IInv, TypeInv, TypeOK, OthersOnly, CarefulOrders
<1>2. /\ \A i \in 1..Len(gcs[r]) : gcs[r][i].other \in Players
      /\ \A i \in 1..Len(queue[r]) : queue[r][i].other \in Players
  BY <1>1, OrderFields
<1>3. \A q \in Players \ {r} : q \in seen[r] => InForce(r, q, "alliance")
  BY DEF Views, SeesWhom
<1> QED BY <1>1, <1>2, <1>3, SoundStrange

LEMMA ExecuteStrangers ==
  ASSUME VInv, NEW p \in Players, ExecuteGC(p)
  PROVE  StrangersOnly'
<1>1. IInv /\ gcs' = gcs /\ gf' = gf /\ queue[p] # <<>>
      /\ queue' = [queue EXCEPT ![p] = Tail(queue[p])]
  BY DEF VInv, ExecuteGC
<1>2. gcs \in [Players -> Seq(Order)] /\ queue \in [Players -> Seq(Order)] /\ TypeInv
  BY <1>1 DEF IInv, TypeInv, TypeOK
<1>3. CarefulOrders' /\ TypeInv'
  BY <1>1, <1>2, OrderExecuted, TypeFrames
<1> SUFFICES ASSUME NEW r \in Players
             PROVE  Strange(r, gcs[r], seen'[r]) /\ Strange(r, queue'[r], seen'[r])
  BY <1>1 DEF StrangersOnly
<1>4. CASE seen'[r] = seen[r]
  <2>1. Strange(r, gcs[r], seen[r]) /\ Strange(r, queue[r], seen[r])
    BY DEF VInv, StrangersOnly
  <2>2. CASE r # p
    BY <1>1, <1>2, <1>4, <2>1, <2>2
  <2>3. CASE r = p
    <3>1. queue'[r] = Tail(queue[r]) /\ queue[r] \in Seq(Order) /\ queue[r] # <<>>
      BY <1>1, <1>2, <2>3
    <3>2. \A i \in 1..Len(Tail(queue[r])) : i + 1 \in 1..Len(queue[r]) /\ Tail(queue[r])[i] = queue[r][i + 1]
      BY <3>1
    <3>3. Strange(r, Tail(queue[r]), seen[r])
      BY <2>1, <3>2 DEF Strange
    <3> QED BY <1>4, <2>1, <3>1, <3>3
  <2> QED BY <2>2, <2>3
<1>5. CASE seen'[r] = Allies(pacts', r, gf)
  <2>1. /\ gcs'[r] \in Seq(Order) /\ queue'[r] \in Seq(Order)
        /\ Others(r, gcs'[r]) /\ Others(r, queue'[r])
        /\ Sound(Free', r, gcs'[r]) /\ Sound(Free', r, queue'[r])
    BY <1>3 DEF TypeInv, TypeOK, OthersOnly, CarefulOrders
  <2>2. /\ \A i \in 1..Len(gcs'[r]) : gcs'[r][i].other \in Players
        /\ \A i \in 1..Len(queue'[r]) : queue'[r][i].other \in Players
    BY <2>1, OrderFields
  <2>3. ASSUME NEW s, Others(r, s), Sound(Free', r, s), \A i \in 1..Len(s) : s[i].other \in Players
        PROVE  Strange(r, s, seen'[r])
    <3> SUFFICES ASSUME NEW i \in 1..Len(s), s[i].type = "suggest", s[i].pact = "alliance",
                        s[i].other \in seen'[r]
                 PROVE  FALSE
      BY DEF Strange
    <3>1. s[i].other \in Players /\ r # s[i].other
      BY <2>3 DEF Others
    <3>2. StateOf(pacts'[<<r, s[i].other, "alliance">>], gf) = "none"
      BY <1>1, <2>3 DEF Sound, Free
    <3> QED BY <1>5, <3>1, <3>2, AllyIs
  <2> QED BY <1>1, <2>1, <2>2, <2>3
<1> QED BY <1>1, <1>4, <1>5, NewViews

(* TestPacts: the view of a player is computed anew when one of its        *)
(* treaties of alliance has run out, and is still right otherwise.         *)
LEMMA TestPactsViews ==
  ASSUME TypeInv, Views, NEW g \in {gf, gf + 1}, gf' = g, turn' = 0, g = gf \/ turn = 0, TestPacts(g)
  PROVE  Views'
<1>1. /\ pacts \in [Keys -> Pact] /\ gf \in Nat /\ g \in Nat
      /\ seen \in [Players -> SUBSET Players]
  BY DEF TypeInv, TypeOK
<1>2. \A k \in Keys : pacts'[k] = IF k[3] = "alliance" /\ Lapsed(pacts, k[1], k[2], g)
                                  THEN Withdrawn(pacts[k]) ELSE pacts[k]
  BY DEF TestPacts
<1> SUFFICES ASSUME NEW r \in Players, NEW q \in Players
             PROVE  q \in seen'[r] <=> (r = q \/ StateOf(pacts'[<<r, q, "alliance">>], g) = "accepted")
  <2>1. SUFFICES ASSUME NEW r \in Players, NEW q \in Players PROVE SeesWhom(r, q)'
    BY DEF Views
  <2> QED BY DEF SeesWhom, InForce, PactState
<1>3. CASE \E m \in Players \ {r} : Lapsed(pacts, r, m, g)
  <2>1. seen'[r] = Allies(pacts', r, g)
    BY <1>3 DEF TestPacts, Look
  <2> QED BY <2>1, AllyIs
<1>4. CASE \A m \in Players \ {r} : ~Lapsed(pacts, r, m, g)
  <2> DEFINE k == <<r, q, "alliance">>
  <2>1. seen'[r] = seen[r]
    BY <1>4 DEF TestPacts, Look
  <2>2. CASE r = q
    <3>1. q \in seen[r]
      BY <2>2 DEF Views, SeesWhom
    <3> QED BY <2>1, <2>2, <3>1
  <2>3. CASE r # q
    <3>1. k \in Keys /\ pacts[k] \in Pact /\ ~Lapsed(pacts, r, q, g)
      BY <1>1, <1>4, <2>3, KeyIs
    <3>2. pacts'[k] = pacts[k]
      BY <1>2, <3>1
    <3>3. q \in seen[r] <=> StateOf(pacts[k], gf) = "accepted"
      BY <2>3, <3>1 DEF Views, SeesWhom, InForce, PactState
    <3>4. StateOf(pacts[k], g) = "accepted" <=> StateOf(pacts[k], gf) = "accepted"
      <4>1. StateOf(pacts[k], g) = "accepted" => StateOf(pacts[k], gf) = "accepted"
        BY <1>1, <3>1, StateLater
      <4>2. StateOf(pacts[k], gf) = "accepted" => pacts[k].duration # 0 /\ pacts[k].accepted
        BY DEF StateOf
      <4>3. pacts[k].duration # 0 /\ pacts[k].accepted => StateOf(pacts[k], g) = "accepted"
        BY <3>1 DEF Lapsed, StateOf
      <4> QED BY <4>1, <4>2, <4>3
    <3> QED BY <2>1, <2>3, <3>2, <3>3, <3>4
  <2> QED BY <2>2, <2>3
<1> QED BY <1>3, <1>4

LEMMA BeginViews ==
  ASSUME TypeInv, Views, BeginFrame
  PROVE  Views'
<1>1. /\ pacts \in [Keys -> Pact] /\ gf \in Nat
      /\ turn = 0 /\ turn' = 1 /\ gf' = gf + 1 /\ pacts' = pacts /\ seen' = seen
  BY DEF TypeInv, TypeOK, BeginFrame
<1> SUFFICES ASSUME NEW r \in Players, NEW q \in Players, r # q,
                    ~Lapsed(pacts, r, q, gf + 1)
             PROVE  q \in seen[r] <=> StateOf(pacts[<<r, q, "alliance">>], gf + 1) = "accepted"
  <2>1. ASSUME NEW r \in Players PROVE SeesWhom(r, r)'
    BY <1>1 DEF Views, SeesWhom
  <2>2. SUFFICES ASSUME NEW r \in Players, NEW q \in Players, r # q, ~Lapsed(pacts, r, q, gf + 1)
                 PROVE  SeesWhom(r, q)'
    BY <1>1, <2>1 DEF Views
  <2> QED BY <1>1, <2>2 DEF SeesWhom, InForce, PactState
<1> DEFINE k == <<r, q, "alliance">>
<1>2. k \in Keys /\ pacts[k] \in Pact
  BY <1>1, KeyIs
<1>3. q \in seen[r] <=> StateOf(pacts[k], gf) = "accepted"
  BY <1>1 DEF Views, SeesWhom, InForce, PactState
<1>4. StateOf(pacts[k], gf + 1) = "accepted" => StateOf(pacts[k], gf) = "accepted"
  BY <1>1, <1>2, StateLater
<1>5. StateOf(pacts[k], gf) = "accepted" => StateOf(pacts[k], gf + 1) = "accepted"
  BY <1>2 DEF Lapsed, StateOf
<1> QED BY <1>3, <1>4, <1>5

LEMMA ViewsStep ==
  ASSUME Careful
  PROVE  VInv /\ [Next]_vars => VInv'
<1> SUFFICES ASSUME VInv, [Next]_vars PROVE VInv'
  OBVIOUS
<1>1. IInv' /\ IInv /\ TypeInv /\ Views /\ StrangersOnly
  BY PairedStep DEF VInv, IInv
<1>2. ASSUME Views', turn' = 0 PROVE VInv'
  <2>1. StrangersOnly'
    <3> SUFFICES ASSUME NEW r \in Players
                 PROVE  Strange(r, gcs'[r], seen'[r]) /\ Strange(r, queue'[r], seen'[r])
      BY DEF StrangersOnly
    <3>1. /\ gcs'[r] \in Seq(Order) /\ queue'[r] \in Seq(Order)
          /\ Others(r, gcs'[r]) /\ Others(r, queue'[r])
          /\ Sound(Free', r, gcs'[r]) /\ Sound(Free', r, queue'[r])
      BY <1>1 DEF IInv, TypeInv, TypeOK, OthersOnly, CarefulOrders
    <3>2. /\ \A i \in 1..Len(gcs'[r]) : gcs'[r][i].other \in Players
          /\ \A i \in 1..Len(queue'[r]) : queue'[r][i].other \in Players
      BY <3>1, OrderFields
    <3>3. \A q \in Players \ {r} : q \in seen'[r] => StateOf(pacts'[<<r, q, "alliance">>], gf') = "accepted"
      BY <1>2 DEF Views, SeesWhom, InForce, PactState
    <3>4. ASSUME NEW s, Others(r, s), Sound(Free', r, s), \A i \in 1..Len(s) : s[i].other \in Players
          PROVE  Strange(r, s, seen'[r])
      <4> SUFFICES ASSUME NEW i \in 1..Len(s), s[i].type = "suggest", s[i].pact = "alliance",
                          s[i].other \in seen'[r]
                   PROVE  FALSE
        BY DEF Strange
      <4>1. s[i].other \in Players \ {r}
        BY <3>4 DEF Others
      <4>2. StateOf(pacts'[<<r, s[i].other, "alliance">>], gf') = "none"
        BY <3>4 DEF Sound, Free
      <4> QED BY <3>3, <4>1, <4>2
    <3> QED BY <3>1, <3>2, <3>4
  <2> QED BY <1>1, <1>2, <2>1 DEF VInv
<1>3. CASE \E p \in Players : Window(p)
  <2>1. turn' = 0 /\ UNCHANGED <<pacts, gf, seen, turn>>
    BY <1>3 DEF Window, OpenSuggestion, PressCancel, Confirm, Answer, Discard, AddGC
  <2>2. Views'
    <3>1. \A r, q \in Players : SeesWhom(r, q) => SeesWhom(r, q)'
      BY <2>1 DEF SeesWhom, InForce, PactState
    <3> QED BY <1>1, <2>1, <3>1 DEF Views
  <2> QED BY <1>2, <2>1, <2>2
<1>4. CASE \E p \in Players : ExecuteGC(p)
  BY <1>1, <1>4, ExecuteViews, ExecuteStrangers DEF VInv
<1>5. CASE GameFrame
  <2>1. Views' /\ turn' = 0
    BY <1>1, <1>5, TestPactsViews DEF GameFrame
  <2> QED BY <1>2, <2>1
<1>6. CASE EndFrame
  <2>1. Views' /\ turn' = 0
    BY <1>1, <1>6, TestPactsViews DEF EndFrame
  <2> QED BY <1>2, <2>1
<1>7. CASE BeginFrame
  BY <1>1, <1>7, BeginViews DEF BeginFrame, VInv, StrangersOnly
<1>8. ASSUME NEW p \in Players, NextPlayer(p) PROVE VInv'
  <2>1. turn # 0 /\ turn' # 0 /\ UNCHANGED <<gf, pacts, gcs, queue, seen>>
    BY <1>8 DEF NextPlayer
  <2> QED BY <1>1, <2>1 DEF VInv, Views, SeesWhom, InForce, PactState, StrangersOnly
<1>9. CASE UNCHANGED vars
  BY <1>1, <1>9 DEF vars, VInv, Views, SeesWhom, InForce, PactState, StrangersOnly
<1> QED BY <1>3, <1>4, <1>5, <1>6, <1>7, <1>8, <1>9 DEF Next

(* With careful players everybody sees, between two frames, what it and    *)
(* its present allies see, whichever way its alliances began or ended.     *)
THEOREM AlliesSeen ==
  ASSUME Careful
  PROVE  Spec => []SeesAllies
<1>1. Init => VInv
  <2> SUFFICES ASSUME Init PROVE VInv
    OBVIOUS
  <2>1. IInv /\ turn = 0
    BY TypeInit, PairedInit DEF IInv, Init
  <2>2. Views
    <3> SUFFICES ASSUME NEW p \in Players, NEW q \in Players PROVE SeesWhom(p, q)
      BY DEF Views
    <3> QED BY AllyIs DEF Init, SeesWhom, InForce, PactState
  <2> QED BY <2>1, <2>2, FreeUnseen DEF VInv
<1>2. VInv => SeesAllies
  <2> SUFFICES ASSUME VInv, turn = 0, NEW p \in Players PROVE seen[p] = Allies(pacts, p, gf)
    BY DEF SeesAllies
  <2>1. seen[p] \subseteq Players /\ Allies(pacts, p, gf) \subseteq Players
    BY DEF VInv, IInv, TypeInv, TypeOK, Allies
  <2>2. \A q \in Players : q \in seen[p] <=> q \in Allies(pacts, p, gf)
    BY AllyIs DEF VInv, Views, SeesWhom, InForce, PactState
  <2> QED BY <2>1, <2>2
<1> QED BY <1>1, <1>2, ViewsStep, PTL DEF Spec


-----------------------------------------------------------------------------
(* What a step may do to a record.                                         *)

LEMMA Ended ==
  ASSUME NEW r \in Pact, NEW g, NEW h, StateOf(r, g) = "accepted", StateOf(r, h) # "accepted"
  PROVE  ~Runs(r, h)
BY DEF StateOf

LEMMA RecordFields ==
  ASSUME NEW r \in Pact, NEW d
  PROVE  /\ ~Proposed(r, d).accepted /\ Proposed(r, d).duration = d /\ Proposed(r, d).start = gf
         /\ Proposed(r, d).want_cancel = r.want_cancel
         /\ Made(r, d).accepted /\ ~Made(r, d).want_cancel /\ Made(r, d).duration = d /\ Made(r, d).start = gf
         /\ ~Dissolved(r).accepted /\ Dissolved(r).duration = 0 /\ ~Dissolved(r).want_cancel
         /\ Unwanted(r).accepted = r.accepted /\ Unwanted(r).duration = r.duration
         /\ Unwanted(r).start = r.start
         /\ Withdrawn(r).accepted = r.accepted /\ Withdrawn(r).duration = 0
         /\ Withdrawn(r).want_cancel = r.want_cancel
BY DEF Proposed, Made, Dissolved, Unwanted, Withdrawn, Pact

LEMMA GFStep ==
  ASSUME [Next]_vars
  PROVE  gf' \in {gf, gf + 1}
BY DEF Next, vars, Window, OpenSuggestion, PressCancel, Confirm, Answer, Discard,
       ExecuteGC, NextPlayer, GameFrame, BeginFrame, EndFrame

(* Outside the execution of orders a record stays as it is, or has run out *)
(* and is withdrawn.                                                       *)
LEMMA FrameRecords ==
  ASSUME TypeInv, [Next]_vars, ~\E p \in Players : ExecuteGC(p)
  PROVE  /\ UNCHANGED <<offer, asked>>
         /\ \A k \in Keys : \/ pacts'[k] = pacts[k]
                            \/ pacts'[k] = Withdrawn(pacts[k]) /\ StateOf(pacts[k], gf') = "none"
<1>1. CASE UNCHANGED <<pacts, offer, asked>>
  BY <1>1
<1>2. ASSUME NEW g, gf' = g, TestPacts(g)
      PROVE  \A k \in Keys : \/ pacts'[k] = pacts[k]
                             \/ pacts'[k] = Withdrawn(pacts[k]) /\ StateOf(pacts[k], gf') = "none"
  <2> SUFFICES ASSUME NEW k \in Keys
               PROVE  \/ pacts'[k] = pacts[k]
                      \/ pacts'[k] = Withdrawn(pacts[k]) /\ StateOf(pacts[k], gf') = "none"
    OBVIOUS
  <2>1. pacts'[k] = IF k[3] = "alliance" /\ Lapsed(pacts, k[1], k[2], g)
                    THEN Withdrawn(pacts[k]) ELSE pacts[k]
    BY <1>2 DEF TestPacts
  <2>2. k[3] = "alliance" => k = <<k[1], k[2], "alliance">>
    BY KeyParts
  <2> QED BY <1>2, <2>1, <2>2 DEF Lapsed
<1>3. CASE GameFrame
  BY <1>3, <1>2 DEF GameFrame
<1>4. CASE EndFrame
  BY <1>4, <1>2 DEF EndFrame
<1> QED BY <1>1, <1>3, <1>4 DEF Next, vars, Window, OpenSuggestion, PressCancel, Confirm,
                                Answer, Discard, NextPlayer, BeginFrame

(* What an executed order may do, in terms of each record.                 *)
Mine(p, c) == <<p, c.other, c.pact>>
Hers(p, c) == <<c.other, p, c.pact>>

Proposes(p, c) ==
  /\ c.type = "suggest" /\ StateOf(pacts[Mine(p, c)], gf) = "none"
  /\ \A k \in Keys : pacts'[k] = IF k = Mine(p, c) THEN Proposed(pacts[k], c.duration) ELSE pacts[k]
  /\ \A k \in Keys : offer'[k] = IF k = Mine(p, c) THEN [id |-> gf, duration |-> c.duration] ELSE offer[k]
  /\ asked' = asked /\ Deliver(c.other, Accept(p, c.pact, gf, c.duration))

Concludes(p, c) ==
  /\ c.type = "accept" /\ Answers(pacts[Hers(p, c)], c.id)
  /\ \A k \in Keys : pacts'[k] = IF k \in {Mine(p, c), Hers(p, c)}
                                 THEN Made(pacts[k], pacts[Hers(p, c)].duration) ELSE pacts[k]
  /\ \A k \in Keys : asked'[k] = IF k \in {Mine(p, c), Hers(p, c)} THEN FALSE ELSE asked[k]
  /\ offer' = offer /\ post' = post

Dissolves(p, c) ==
  /\ c.type = "cancel" /\ pacts[Mine(p, c)].accepted /\ pacts[Hers(p, c)].want_cancel
  /\ \A k \in Keys : pacts'[k] = IF k \in {Mine(p, c), Hers(p, c)} THEN Dissolved(pacts[k]) ELSE pacts[k]
  /\ \A k \in Keys : asked'[k] = IF k = Mine(p, c) THEN TRUE ELSE asked[k]
  /\ offer' = offer /\ post' = post

AsksToCancel(p, c) ==
  /\ c.type = "cancel" /\ pacts[Mine(p, c)].accepted
  /\ \A k \in Keys : pacts'[k] = IF k = Mine(p, c) THEN Unwanted(pacts[k]) ELSE pacts[k]
  /\ \A k \in Keys : asked'[k] = IF k = Mine(p, c) THEN TRUE ELSE asked[k]
  /\ offer' = offer /\ Deliver(c.other, Cancel(p, c.pact))

Withdraws(p, c) ==
  /\ c.type = "cancel" /\ ~pacts[Mine(p, c)].accepted
  /\ \A k \in Keys : pacts'[k] = IF k = Mine(p, c) THEN Withdrawn(pacts[k]) ELSE pacts[k]
  /\ \A k \in Keys : k # Mine(p, c) => offer'[k] = offer[k]
  /\ asked' = asked /\ post' = post

LEMMA OrderRecords ==
  ASSUME IInv, NEW p \in Players, ExecuteGC(p)
  PROVE  LET c == Head(queue[p]) IN
         \/ Proposes(p, c) \/ Concludes(p, c) \/ Dissolves(p, c) \/ AsksToCancel(p, c) \/ Withdraws(p, c)
         \/ UNCHANGED <<pacts, asked, offer, post>>
<1> DEFINE c == Head(queue[p])
           mine == <<p, c.other, c.pact>>
           hers == <<c.other, p, c.pact>>
<1>1. /\ TypeOK /\ pacts \in [Keys -> Pact] /\ gf \in Nat
      /\ offer \in [Keys -> Offer] /\ asked \in [Keys -> BOOLEAN]
  BY DEF IInv, TypeInv, TypeOK
<1>2. /\ c \in Order /\ c.other # p /\ c.other \in Players /\ c.pact \in Types /\ Execute(p, c)
      /\ c.type = "suggest" => StateOf(pacts[mine], gf) = "none"
  BY OrderFacts
<1> HIDE DEF c
<1>3. mine \in Keys /\ hers \in Keys /\ mine # hers
  BY <1>2, KeyIs
<1>4. CASE c.type = "suggest"
  <2>1. SuggestPact(p, c)
    BY <1>2, <1>4 DEF Execute
  <2>2. \A k \in Keys : pacts'[k] = IF k = mine THEN Proposed(pacts[k], c.duration) ELSE pacts[k]
    BY <1>1, <1>2, <1>4, <2>1, SuggestRecords
  <2>3. /\ asked' = asked /\ Deliver(c.other, Accept(p, c.pact, gf, c.duration))
        /\ offer' = [offer EXCEPT ![mine] = [id |-> gf, duration |-> c.duration]]
    BY <2>1 DEF SuggestPact
  <2> HIDE DEF mine, hers
  <2>4. Proposes(p, c)
    BY <1>1, <1>2, <1>3, <1>4, <2>2, <2>3 DEF Proposes, Mine, Hers, mine, hers
  <2> QED BY <2>4 DEF c
<1>5. CASE c.type = "accept"
  <2>1. AcceptPact(p, c)
    BY <1>2, <1>5 DEF Execute
  <2>2. CASE ~Answers(pacts[hers], c.id)
    BY <2>1, <2>2 DEF AcceptPact, c
  <2>3. CASE Answers(pacts[hers], c.id)
    <3>1. /\ pacts' = [k \in Keys |-> IF k \in {mine, hers}
                                      THEN Made(pacts[k], pacts[hers].duration) ELSE pacts[k]]
          /\ asked' = [asked EXCEPT ![mine] = FALSE, ![hers] = FALSE]
          /\ offer' = offer /\ post' = post
      BY <2>1, <2>3 DEF AcceptPact, BothRecords
    <3> HIDE DEF mine, hers
    <3>2. /\ \A k \in Keys : pacts'[k] = IF k \in {mine, hers}
                                         THEN Made(pacts[k], pacts[hers].duration) ELSE pacts[k]
          /\ \A k \in Keys : asked'[k] = IF k \in {mine, hers} THEN FALSE ELSE asked[k]
      BY <1>1, <1>3, <3>1
    <3>3. Concludes(p, c)
      BY <1>5, <2>3, <3>1, <3>2 DEF Concludes, Mine, Hers, mine, hers
    <3> QED BY <3>3 DEF c
  <2> QED BY <2>2, <2>3
<1>6. CASE c.type = "cancel"
  <2>1. CancelPact(p, c)
    BY <1>2, <1>6 DEF Execute
  <2>2. CASE pacts[mine].accepted /\ pacts[hers].want_cancel
    <3>1. /\ pacts' = [pacts EXCEPT ![mine] = Dissolved(pacts[mine]), ![hers] = Dissolved(@)]
          /\ asked' = [asked EXCEPT ![mine] = TRUE] /\ offer' = offer /\ post' = post
      BY <2>1, <2>2 DEF CancelPact
    <3> HIDE DEF mine, hers
    <3>2. /\ \A k \in Keys : pacts'[k] = IF k \in {mine, hers} THEN Dissolved(pacts[k]) ELSE pacts[k]
          /\ \A k \in Keys : asked'[k] = IF k = mine THEN TRUE ELSE asked[k]
      BY <1>1, <1>3, <3>1
    <3>3. Dissolves(p, c)
      BY <1>6, <2>2, <3>1, <3>2 DEF Dissolves, Mine, Hers, mine, hers
    <3> QED BY <3>3 DEF c
  <2>3. CASE pacts[mine].accepted /\ ~pacts[hers].want_cancel
    <3>1. /\ pacts' = [pacts EXCEPT ![mine] = Unwanted(pacts[mine])]
          /\ asked' = [asked EXCEPT ![mine] = TRUE] /\ offer' = offer
          /\ Deliver(c.other, Cancel(p, c.pact))
      BY <2>1, <2>3 DEF CancelPact
    <3> HIDE DEF mine, hers
    <3>2. /\ \A k \in Keys : pacts'[k] = IF k = mine THEN Unwanted(pacts[k]) ELSE pacts[k]
          /\ \A k \in Keys : asked'[k] = IF k = mine THEN TRUE ELSE asked[k]
      BY <1>1, <1>3, <3>1
    <3>3. AsksToCancel(p, c)
      BY <1>6, <2>3, <3>1, <3>2 DEF AsksToCancel, Mine, Hers, mine, hers
    <3> QED BY <3>3 DEF c
  <2>4. CASE ~pacts[mine].accepted
    <3>1. /\ pacts' = [pacts EXCEPT ![mine] = Withdrawn(pacts[mine])]
          /\ offer' = [offer EXCEPT ![mine] = NoOffer] /\ asked' = asked /\ post' = post
      BY <2>1, <2>4 DEF CancelPact
    <3> HIDE DEF mine, hers
    <3>2. /\ \A k \in Keys : pacts'[k] = IF k = mine THEN Withdrawn(pacts[k]) ELSE pacts[k]
          /\ \A k \in Keys : k # mine => offer'[k] = offer[k]
      BY <1>1, <1>3, <3>1
    <3>3. Withdraws(p, c)
      BY <1>6, <2>4, <3>1, <3>2 DEF Withdraws, Mine, Hers, mine, hers
    <3> QED BY <3>3 DEF c
  <2> QED BY <2>2, <2>3, <2>4
<1> QED BY <1>2, <1>4, <1>5, <1>6, OrderFields

-----------------------------------------------------------------------------
(* EndsByBoth.  That a partner wishes to cancel a treaty, as its record    *)
(* tells, is what it has asked for since the treaty was concluded: so both *)
(* have asked when the second one's order dissolves it.                    *)

Wishes == \A k \in Keys : pacts[k].want_cancel => asked[k]

LEMMA WishesStep == IInv /\ Wishes /\ [Next]_vars => Wishes'
<1> SUFFICES ASSUME IInv, Wishes, [Next]_vars PROVE Wishes'
  OBVIOUS
<1>1. TypeInv /\ pacts \in [Keys -> Pact] /\ asked \in [Keys -> BOOLEAN]
  BY DEF IInv, TypeInv, TypeOK
<1> SUFFICES ASSUME NEW k \in Keys PROVE pacts'[k].want_cancel => asked'[k]
  BY DEF Wishes
<1>2. pacts[k] \in Pact /\ (pacts[k].want_cancel => asked[k])
  BY <1>1 DEF Wishes
<1>3. CASE ~\E p \in Players : ExecuteGC(p)
  <2>1. asked' = asked /\ pacts'[k] \in {pacts[k], Withdrawn(pacts[k])}
    BY <1>1, <1>3, FrameRecords
  <2> QED BY <1>2, <2>1 DEF Withdrawn, Pact
<1>4. ASSUME NEW p \in Players, ExecuteGC(p)
      PROVE  pacts'[k].want_cancel => asked'[k]
  <2> DEFINE c == Head(queue[p])
  <2> HIDE DEF c
  <2>1. CASE Proposes(p, c)
    BY <1>2, <2>1, RecordFields DEF Proposes
  <2>2. CASE Concludes(p, c)
    <3>1. ~Made(pacts[k], pacts[Hers(p, c)].duration).want_cancel
      BY <1>2, RecordFields
    <3>2. \/ pacts'[k] = pacts[k] /\ asked'[k] = asked[k]
          \/ pacts'[k] = Made(pacts[k], pacts[Hers(p, c)].duration)
      BY <2>2 DEF Concludes
    <3> QED BY <1>2, <3>1, <3>2
  <2>3. CASE Dissolves(p, c)
    <3>1. ~Dissolved(pacts[k]).want_cancel
      BY <1>2, RecordFields
    <3>2. pacts'[k] = Dissolved(pacts[k]) \/ (pacts'[k] = pacts[k] /\ k # Mine(p, c))
      BY <2>3 DEF Dissolves
    <3>3. k # Mine(p, c) => asked'[k] = asked[k]
      BY <2>3 DEF Dissolves
    <3> QED BY <1>2, <3>1, <3>2, <3>3
  <2>4. CASE AsksToCancel(p, c)
    BY <1>2, <2>4 DEF AsksToCancel
  <2>5. CASE Withdraws(p, c)
    BY <1>2, <2>5, RecordFields DEF Withdraws
  <2> QED BY <1>2, <1>4, <2>1, <2>2, <2>3, <2>4, <2>5, OrderRecords DEF c
<1> QED BY <1>3, <1>4

(* A treaty in force which an order ends. *)
LEMMA OrderEnds ==
  ASSUME IInv, Wishes, NEW p \in Players, ExecuteGC(p),
         NEW q \in Players, NEW r \in Players, q # r, NEW t \in Types,
         InForce(q, r, t), ~InForce(q, r, t)'
  PROVE  asked'[<<q, r, t>>] /\ asked'[<<r, q, t>>]
<1> DEFINE c == Head(queue[p])
           k == <<q, r, t>>
           l == <<r, q, t>>
<1>1. pacts \in [Keys -> Pact] /\ asked \in [Keys -> BOOLEAN] /\ gf' = gf
  BY DEF IInv, TypeInv, TypeOK, ExecuteGC
<1>2. c.other # p /\ c.other \in Players /\ c.pact \in Types
  BY OrderFacts
<1>3. \/ Proposes(p, c) \/ Concludes(p, c) \/ Dissolves(p, c) \/ AsksToCancel(p, c) \/ Withdraws(p, c)
      \/ UNCHANGED <<pacts, asked, offer, post>>
  BY OrderRecords
<1> HIDE DEF c
<1>4. k \in Keys /\ l \in Keys /\ Mine(p, c) \in Keys /\ Hers(p, c) \in Keys
  BY <1>2, KeyIs DEF Mine, Hers
<1>5. StateOf(pacts[k], gf) = "accepted" /\ StateOf(pacts'[k], gf) # "accepted"
  BY <1>1 DEF InForce, PactState
<1>6. Alike(pacts[k], pacts[l])
  BY DEF IInv, Paired
<1>7. pacts[k].accepted /\ pacts[l].accepted
  BY <1>1, <1>4, <1>5, <1>6, StatesAfter DEF Alike
<1>8. (k = Mine(p, c) <=> l = Hers(p, c)) /\ (k = Hers(p, c) <=> l = Mine(p, c))
  BY DEF Mine, Hers
<1> HIDE DEF k, l
<1>9. ~Proposes(p, c)
  BY <1>4, <1>5 DEF Proposes
<1>10. ~Concludes(p, c)
  BY <1>4, <1>5, <1>7, <1>8 DEF Concludes, Answers
<1>11. ~AsksToCancel(p, c)
  <2> SUFFICES ASSUME AsksToCancel(p, c) PROVE FALSE
    OBVIOUS
  <2>1. pacts'[k] \in {pacts[k], Unwanted(pacts[k])}
    BY <1>4 DEF AsksToCancel
  <2>2. StateOf(Unwanted(pacts[k]), gf) = StateOf(pacts[k], gf)
    BY <1>1, <1>4, StatesAfter
  <2> QED BY <1>5, <2>1, <2>2
<1>12. ~Withdraws(p, c)
  BY <1>4, <1>5, <1>7 DEF Withdraws
<1>13. CASE Dissolves(p, c)
  <2>1. k = Mine(p, c) \/ k = Hers(p, c)
    BY <1>4, <1>5, <1>13 DEF Dissolves
  <2>2. asked'[Mine(p, c)] /\ asked'[Hers(p, c)]
    <3>1. asked[Hers(p, c)]
      BY <1>4, <1>13 DEF Dissolves, Wishes
    <3> QED BY <1>4, <1>13, <3>1 DEF Dissolves
  <2> QED BY <1>8, <2>1, <2>2 DEF k, l
<1> QED BY <1>3, <1>5, <1>9, <1>10, <1>11, <1>12, <1>13

(* With careful players a treaty in force ends before its time only when   *)
(* both partners have asked for it since it was concluded.                 *)
THEOREM EndedByBoth ==
  ASSUME Careful
  PROVE  Spec => EndsByBoth
<1>1. Init => IInv /\ Wishes
  BY TypeInit, PairedInit DEF IInv, Init, Wishes
<1>2. IInv /\ Wishes /\ [Next]_vars => (IInv /\ Wishes)'
  BY PairedStep, WishesStep
<1>3. IInv /\ Wishes /\ [Next]_vars =>
        [\A p \in Players : \A q \in Players \ {p} : \A t \in Types :
           InForce(p, q, t) /\ ~InForce(p, q, t)' =>
             \/ ~Runs(pacts[<<p, q, t>>], gf')
             \/ asked'[<<p, q, t>>] /\ asked'[<<q, p, t>>]]_vars
  <2> SUFFICES ASSUME IInv, Wishes, [Next]_vars, NEW p \in Players, NEW q \in Players, p # q,
                      NEW t \in Types, InForce(p, q, t), ~InForce(p, q, t)',
                      ~(asked'[<<p, q, t>>] /\ asked'[<<q, p, t>>])
               PROVE  ~Runs(pacts[<<p, q, t>>], gf')
    OBVIOUS
  <2> DEFINE k == <<p, q, t>>
  <2>1. k \in Keys /\ pacts[k] \in Pact /\ TypeInv
    BY KeyIs DEF IInv, TypeInv, TypeOK
  <2>2. StateOf(pacts[k], gf) = "accepted" /\ StateOf(pacts'[k], gf') # "accepted"
    BY DEF InForce, PactState
  <2>3. ~\E r \in Players : ExecuteGC(r)
    BY OrderEnds
  <2>4. \/ pacts'[k] = pacts[k]
        \/ StateOf(pacts[k], gf') = "none"
    BY <2>1, <2>3, FrameRecords
  <2>5. StateOf(pacts[k], gf') # "accepted"
    BY <2>2, <2>4
  <2> QED BY <2>1, <2>2, <2>5, Ended
<1> QED BY <1>1, <1>2, <1>3, PTL DEF Spec, EndsByBoth

-----------------------------------------------------------------------------
(* Consent.  A record of a proposal is the proposer's last, and the "yes"  *)
(* to it which anybody holds, as a letter or an order under way, shows its *)
(* duration.  Two proposals about the same treaty have different ids while *)
(* the players are careful: none is under way when the first is made in    *)
(* the game frame of its id, and the next is made in a later one.          *)

OfferKnown ==
  \A k \in Keys : ~pacts[k].accepted /\ pacts[k].duration # 0 =>
                    offer[k] = [id |-> pacts[k].start, duration |-> pacts[k].duration]

(* What p, who holds the order or letter c, may rely on. *)
Reliable(p, c) ==
  LET r == pacts[<<c.other, p, c.pact>>]
      s == queue[c.other]
  IN  /\ c.id <= gf
      /\ Answers(r, c.id) /\ r.duration # 0 => r.duration = c.shown
      /\ c.id = gf /\ turn # 0 => \A i \in 1..Len(s) : s[i].type = "suggest" => ~About(s[i], p, c.pact)

Held(p) == {c \in Order : c.other # p /\ (c.type = "accept" => Reliable(p, c))}

Truthful ==
  \A p \in Players : gcs[p] \in Seq(Held(p)) /\ queue[p] \in Seq(Held(p)) /\ post[p] \in Seq(Held(p))

CInv == IInv /\ OfferKnown /\ Truthful

LEMMA OfferStep == IInv /\ OfferKnown /\ [Next]_vars => OfferKnown'
<1> SUFFICES ASSUME IInv, OfferKnown, [Next]_vars, NEW k \in Keys,
                    ~pacts'[k].accepted, pacts'[k].duration # 0
             PROVE  offer'[k] = [id |-> pacts'[k].start, duration |-> pacts'[k].duration]
  BY DEF OfferKnown
<1>1. TypeInv /\ pacts \in [Keys -> Pact] /\ pacts[k] \in Pact
  BY DEF IInv, TypeInv, TypeOK
<1>2. CASE pacts'[k] = pacts[k] /\ offer'[k] = offer[k]
  BY <1>2 DEF OfferKnown
<1>3. CASE ~\E p \in Players : ExecuteGC(p)
  <2>1. pacts'[k] # Withdrawn(pacts[k])
    BY <1>1, RecordFields
  <2> QED BY <1>1, <1>2, <1>3, <2>1, FrameRecords
<1>4. ASSUME NEW p \in Players, ExecuteGC(p)
      PROVE  offer'[k] = [id |-> pacts'[k].start, duration |-> pacts'[k].duration]
  <2> DEFINE c == Head(queue[p])
  <2> HIDE DEF c
  <2>1. CASE Proposes(p, c)
    <3>1. CASE k = Mine(p, c)
      <4>1. pacts'[k] = Proposed(pacts[k], c.duration) /\ offer'[k] = [id |-> gf, duration |-> c.duration]
        BY <2>1, <3>1 DEF Proposes
      <4>2. /\ Proposed(pacts[k], c.duration).start = gf
            /\ Proposed(pacts[k], c.duration).duration = c.duration
        BY <1>1, RecordFields
      <4> QED BY <4>1, <4>2
    <3>2. CASE k # Mine(p, c)
      BY <1>2, <2>1, <3>2 DEF Proposes
    <3> QED BY <3>1, <3>2
  <2>2. CASE Concludes(p, c)
    <3>1. Made(pacts[k], pacts[Hers(p, c)].duration).accepted
      BY <1>1, RecordFields
    <3> QED BY <1>2, <2>2, <3>1 DEF Concludes
  <2>3. CASE Dissolves(p, c)
    <3>1. Dissolved(pacts[k]).duration = 0
      BY <1>1, RecordFields
    <3> QED BY <1>2, <2>3, <3>1 DEF Dissolves
  <2>4. CASE AsksToCancel(p, c)
    <3>1. CASE k = Mine(p, c)
      <4>1. pacts'[k] = Unwanted(pacts[k]) /\ pacts[k].accepted
        BY <2>4, <3>1 DEF AsksToCancel
      <4>2. Unwanted(pacts[k]).accepted
        BY <1>1, <4>1, RecordFields
      <4> QED BY <4>1, <4>2
    <3>2. CASE k # Mine(p, c)
      BY <1>2, <2>4, <3>2 DEF AsksToCancel
    <3> QED BY <3>1, <3>2
  <2>5. CASE Withdraws(p, c)
    <3>1. Withdrawn(pacts[k]).duration = 0
      BY <1>1, RecordFields
    <3> QED BY <1>2, <2>5, <3>1 DEF Withdraws
  <2> QED BY <1>2, <1>4, <2>1, <2>2, <2>3, <2>4, <2>5, OrderRecords DEF c
<1> QED BY <1>3, <1>4

LEMMA SeqGrows ==
  ASSUME NEW S, NEW T, S \subseteq T, NEW s \in Seq(S)
  PROVE  s \in Seq(T)
OBVIOUS

(* A record which changes is accepted, has no duration, is as it was but   *)
(* for the wish, or is of a proposal made now.                             *)
LEMMA AnswersAfter ==
  ASSUME NEW r \in Pact, NEW d, NEW id
  PROVE  /\ ~Answers(Made(r, d), id)
         /\ Dissolved(r).duration = 0 /\ Withdrawn(r).duration = 0
         /\ Answers(Unwanted(r), id) = Answers(r, id) /\ Unwanted(r).duration = r.duration
         /\ Answers(Proposed(r, d), id) => id = gf
BY DEF Answers, Made, Dissolved, Withdrawn, Unwanted, Proposed, Pact

(* What is held stays reliable when an order is executed. *)
LEMMA HeldOrder ==
  ASSUME CInv, NEW p \in Players, ExecuteGC(p), NEW r \in Players
  PROVE  Held(r) \subseteq Held(r)'
<1> DEFINE c == Head(queue[p])
<1>1. /\ IInv /\ pacts \in [Keys -> Pact] /\ queue \in [Players -> Seq(Order)]
      /\ turn # 0 /\ turn' = turn /\ gf' = gf
      /\ queue[p] # <<>> /\ queue' = [queue EXCEPT ![p] = Tail(queue[p])]
      /\ c = queue[p][1] /\ 1 \in 1..Len(queue[p])
  BY OrderFacts DEF CInv, IInv, TypeInv, TypeOK
<1>2. \/ Proposes(p, c) \/ Concludes(p, c) \/ Dissolves(p, c) \/ AsksToCancel(p, c) \/ Withdraws(p, c)
      \/ UNCHANGED <<pacts, asked, offer, post>>
  BY <1>1, OrderRecords
<1> HIDE DEF c
<1> SUFFICES ASSUME NEW b \in Order, b.other # r, b.type = "accept", Reliable(r, b)
             PROVE  Reliable(r, b)'
  BY DEF Held
<1> DEFINE k == <<b.other, r, b.pact>>
<1>3. b.other \in Players /\ b.pact \in Types /\ k \in Keys /\ pacts[k] \in Pact
  BY <1>1, OrderFields, KeyIs
<1>4. /\ b.id <= gf
      /\ Answers(pacts[k], b.id) /\ pacts[k].duration # 0 => pacts[k].duration = b.shown
      /\ b.id = gf => \A i \in 1..Len(queue[b.other]) :
                        queue[b.other][i].type = "suggest" => ~About(queue[b.other][i], r, b.pact)
  BY <1>1 DEF Reliable
<1>5. \A i \in 1..Len(queue'[b.other]) :
        \E j \in 1..Len(queue[b.other]) : queue'[b.other][i] = queue[b.other][j]
  <2>1. CASE b.other # p
    BY <1>1, <1>3, <2>1
  <2>2. CASE b.other = p
    <3>1. queue'[b.other] = Tail(queue[p]) /\ queue[p] \in Seq(Order) /\ queue[p] # <<>>
      BY <1>1, <2>2
    <3>2. \A i \in 1..Len(Tail(queue[p])) : i + 1 \in 1..Len(queue[p]) /\ Tail(queue[p])[i] = queue[p][i + 1]
      BY <3>1
    <3> QED BY <2>2, <3>1, <3>2
  <2> QED BY <2>1, <2>2
<1>6. Answers(pacts'[k], b.id) /\ pacts'[k].duration # 0 => pacts'[k].duration = b.shown
  <2>1. CASE pacts'[k] = pacts[k]
    BY <1>4, <2>1
  <2>2. CASE Proposes(p, c)
    <3>1. CASE k = Mine(p, c)
      <4>1. pacts'[k] = Proposed(pacts[k], c.duration) /\ c.type = "suggest"
        BY <1>3, <2>2, <3>1 DEF Proposes
      <4>2. b.other = p /\ c.other = r /\ c.pact = b.pact
        BY <3>1 DEF Mine
      <4>3. b.id # gf
        BY <1>1, <1>4, <4>1, <4>2 DEF About
      <4>4. ~Answers(pacts'[k], b.id)
        BY <1>3, <4>1, <4>3, AnswersAfter
      <4> QED BY <4>4
    <3>2. CASE k # Mine(p, c)
      BY <1>3, <2>1, <2>2, <3>2 DEF Proposes
    <3> QED BY <3>1, <3>2
  <2>3. CASE Concludes(p, c)
    <3>1. ~Answers(Made(pacts[k], pacts[Hers(p, c)].duration), b.id)
      BY <1>3, AnswersAfter
    <3>2. pacts'[k] = pacts[k] \/ pacts'[k] = Made(pacts[k], pacts[Hers(p, c)].duration)
      BY <1>3, <2>3 DEF Concludes
    <3> HIDE DEF k
    <3> QED BY <2>1, <3>1, <3>2
  <2>4. CASE Dissolves(p, c)
    <3>1. pacts'[k] = pacts[k] \/ pacts'[k] = Dissolved(pacts[k])
      BY <1>3, <2>4 DEF Dissolves
    <3>2. Dissolved(pacts[k]).duration = 0
      BY <1>3, AnswersAfter
    <3> QED BY <2>1, <3>1, <3>2
  <2>5. CASE AsksToCancel(p, c)
    <3>1. pacts'[k] = pacts[k] \/ pacts'[k] = Unwanted(pacts[k])
      BY <1>3, <2>5 DEF AsksToCancel
    <3>2. /\ Answers(Unwanted(pacts[k]), b.id) = Answers(pacts[k], b.id)
          /\ Unwanted(pacts[k]).duration = pacts[k].duration
      BY <1>3, AnswersAfter
    <3> QED BY <1>4, <2>1, <3>1, <3>2
  <2>6. CASE Withdraws(p, c)
    <3>1. pacts'[k] = pacts[k] \/ pacts'[k] = Withdrawn(pacts[k])
      BY <1>3, <2>6 DEF Withdraws
    <3>2. Withdrawn(pacts[k]).duration = 0
      BY <1>3, AnswersAfter
    <3> QED BY <2>1, <3>1, <3>2
  <2> QED BY <1>2, <2>1, <2>2, <2>3, <2>4, <2>5, <2>6
<1> QED BY <1>1, <1>4, <1>5, <1>6 DEF Reliable

(* The letter which a proposal sends is reliable. *)
LEMMA ReliableNow ==
  ASSUME NEW q, NEW l, l.id <= gf', pacts'[<<l.other, q, l.pact>>].duration = l.shown,
         \A i \in 1..Len(queue'[l.other]) :
           queue'[l.other][i].type = "suggest" => ~About(queue'[l.other][i], q, l.pact)
  PROVE  Reliable(q, l)'
BY DEF Reliable

LEMMA NewLetter ==
  ASSUME CInv, NEW p \in Players, ExecuteGC(p), NEW c, c = Head(queue[p]), Proposes(p, c)
  PROVE  Accept(p, c.pact, gf, c.duration) \in Held(c.other)'
<1>0. PICK l : l = Accept(p, c.pact, gf, c.duration)
  OBVIOUS
<1>1. /\ IInv /\ pacts \in [Keys -> Pact] /\ queue \in [Players -> Seq(Order)] /\ gf \in Nat
      /\ turn # 0 /\ turn' = turn /\ gf' = gf
      /\ queue[p] # <<>> /\ queue' = [queue EXCEPT ![p] = Tail(queue[p])]
      /\ c = queue[p][1] /\ 1 \in 1..Len(queue[p]) /\ queue[p] \in Seq(Order)
      /\ c \in Order /\ c.other # p /\ c.other \in Players /\ c.pact \in Types
      /\ Sound(Free, p, queue[p])
  <2>1. IInv /\ Sound(Free, p, queue[p])
    BY DEF CInv, IInv, CarefulOrders
  <2>2. pacts \in [Keys -> Pact] /\ queue \in [Players -> Seq(Order)] /\ gf \in Nat
    BY DEF CInv, IInv, TypeInv, TypeOK
  <2> QED BY <2>1, <2>2, OrderFacts
<1>2. c.type = "suggest" /\ c.duration \in Durations
  BY <1>1, OrderFields DEF Proposes
<1>3. l \in Order /\ l.other = p /\ l.pact = c.pact /\ l.type = "accept" /\ l.id = gf /\ l.shown = c.duration
  BY <1>0, <1>1, <1>2, Orders, LetterIsOrder DEF Accept
<1>4. \A i \in 1..Len(queue'[p]) : queue'[p][i].type = "suggest" => ~About(queue'[p][i], c.other, c.pact)
  <2>1. queue'[p] = Tail(queue[p])
    BY <1>1
  <2>2. \A i \in 1..Len(Tail(queue[p])) : /\ i + 1 \in 1..Len(queue[p]) /\ 1 < i + 1
                                         /\ Tail(queue[p])[i] = queue[p][i + 1]
    BY <1>1
  <2>3. \A j \in 1..Len(queue[p]) : 1 < j /\ queue[p][j].type = "suggest" =>
          ~About(queue[p][1], queue[p][j].other, queue[p][j].pact)
    BY <1>1 DEF Sound
  <2> QED BY <1>1, <2>1, <2>2, <2>3 DEF About
<1> DEFINE k == <<p, c.other, c.pact>>
<1>5. k \in Keys /\ k = Mine(p, c)
  <2>1. c.other # p /\ c.other \in Players /\ c.pact \in Types
    BY <1>1
  <2> QED BY <2>1, KeyIs DEF Mine
<1>6. pacts'[k] = Proposed(pacts[k], c.duration)
  BY <1>5 DEF Proposes
<1>7. pacts'[k].duration = c.duration
  <2>1. pacts[k] \in Pact
    BY <1>1, <1>5
  <2> QED BY <1>6, <2>1, RecordFields
<1>8. PICK q : q = c.other
  OBVIOUS
<1>9. Reliable(q, l)'
  <2>1. l.id <= gf' /\ l.other = p /\ l.pact = c.pact /\ l.shown = c.duration
    BY <1>1, <1>3
  <2>2. pacts'[<<l.other, c.other, l.pact>>].duration = l.shown
    BY <2>1, <1>7
  <2> HIDE DEF k
  <2>3. \A i \in 1..Len(queue'[l.other]) :
          queue'[l.other][i].type = "suggest" => ~About(queue'[l.other][i], c.other, l.pact)
    BY <2>1, <1>4
  <2>4. \A i \in 1..Len(queue'[l.other]) :
          queue'[l.other][i].type = "suggest" => ~About(queue'[l.other][i], q, l.pact)
    BY <1>8, <2>3
  <2>5. pacts'[<<l.other, q, l.pact>>].duration = l.shown
    BY <1>8, <2>2
  <2> QED BY <2>1, <2>4, <2>5, ReliableNow
<1>10. q # p
  BY <1>1, <1>8
<1>11. l \in Held(q)'
  BY <1>3, <1>9, <1>10 DEF Held
<1> QED BY <1>0, <1>8, <1>11

LEMMA TruthfulOrder ==
  ASSUME CInv, NEW p \in Players, ExecuteGC(p)
  PROVE  Truthful'
<1> DEFINE n == Head(queue[p])
<1>1. /\ IInv /\ queue \in [Players -> Seq(Order)] /\ post \in [Players -> Seq(Letter)]
      /\ \A r \in Players : Len(post[r]) <= MaxPost
      /\ gcs' = gcs /\ queue[p] # <<>> /\ queue' = [queue EXCEPT ![p] = Tail(queue[p])]
  BY DEF CInv, IInv, TypeInv, TypeOK, ExecuteGC
<1>2. n.other \in Players /\ n.other # p /\ n.pact \in Types
  BY <1>1, OrderFacts
<1>3. \A r \in Players : /\ gcs[r] \in Seq(Held(r)) /\ queue[r] \in Seq(Held(r)) /\ post[r] \in Seq(Held(r))
                         /\ Held(r) \subseteq Held(r)'
  BY HeldOrder DEF CInv, Truthful
<1>4. \A r \in Players : gcs'[r] \in Seq(Held(r)') /\ queue'[r] \in Seq(Held(r)')
  <2> TAKE r \in Players
  <2>1. PICK H, G : H = Held(r) /\ G = Held(r)' /\ H \subseteq G
    BY <1>3
  <2>2. gcs[r] \in Seq(G) /\ queue[r] \in Seq(G)
    BY <1>3, <2>1, SeqGrows
  <2>3. queue'[r] \in Seq(G)
    <3>1. CASE r = p
      BY <1>1, <2>2, <3>1
    <3>2. CASE r # p
      BY <1>1, <2>2, <3>2
    <3> QED BY <3>1, <3>2
  <2> QED BY <1>1, <2>1, <2>2, <2>3
<1>5. ASSUME NEW q \in Players, NEW l, l \in Held(q)', Deliver(q, l)
      PROVE  \A r \in Players : post'[r] \in Seq(Held(r)')
  <2> TAKE r \in Players
  <2>1. PICK H, G : H = Held(r) /\ G = Held(r)' /\ H \subseteq G
    BY <1>3
  <2>2. post[r] \in Seq(G)
    BY <1>3, <2>1, SeqGrows
  <2>3. post'[r] \in Seq(G)
    <3>1. CASE r # q
      BY <1>1, <1>5, <2>2, <3>1 DEF Deliver
    <3>2. CASE r = q
      <4>1. post'[r] = <<l>> \o RoomForOne(post[r])
        BY <1>1, <1>5, <3>2 DEF Deliver
      <4>2. l \in G
        BY <1>5, <2>1, <3>2
      <4>3. Len(post[r]) <= MaxPost
        BY <1>1
      <4> QED BY <2>2, <4>1, <4>2, <4>3, Delivered
    <3> QED BY <3>1, <3>2
  <2> QED BY <2>1, <2>3
<1>6. \A r \in Players : post'[r] \in Seq(Held(r)')
  <2>1. CASE post' = post
    <3> TAKE r \in Players
    <3>1. PICK H, G : H = Held(r) /\ G = Held(r)' /\ H \subseteq G
      BY <1>3
    <3> QED BY <1>3, <2>1, <3>1, SeqGrows
  <2>2. PICK c, q, l, m : /\ c = n /\ q = n.other
                          /\ l = Accept(p, n.pact, gf, n.duration) /\ m = Cancel(p, n.pact)
    OBVIOUS
  <2>3. c = Head(queue[p]) /\ q = c.other /\ q \in Players /\ q # p
    BY <1>2, <2>2
  <2>4. CASE Proposes(p, n)
    <3>1. Proposes(p, c) /\ Deliver(q, l)
      BY <2>2, <2>4 DEF Proposes
    <3>2. l \in Held(q)'
      BY <2>2, <2>3, <3>1, NewLetter
    <3> QED BY <1>5, <2>3, <3>1, <3>2
  <2>5. CASE AsksToCancel(p, n)
    <3>1. Deliver(q, m)
      BY <2>2, <2>5 DEF AsksToCancel
    <3>2. m \in Order /\ m.other # q /\ m.type # "accept"
      BY <1>2, <2>2, <2>3, Orders, LetterIsOrder DEF Cancel
    <3>3. m \in Held(q)'
      BY <3>2 DEF Held
    <3> QED BY <1>5, <2>3, <3>1, <3>3
  <2>6. Proposes(p, n) \/ AsksToCancel(p, n) \/ post' = post
    BY <1>1, OrderRecords DEF Concludes, Dissolves, Withdraws
  <2> QED BY <2>1, <2>4, <2>5, <2>6
<1> QED BY <1>4, <1>6 DEF Truthful

(* What is held stays reliable when a frame begins or ends. *)
LEMMA HeldFrame ==
  ASSUME IInv, GameFrame \/ BeginFrame \/ EndFrame \/ (\E p \in Players : NextPlayer(p)), NEW r \in Players
  PROVE  Held(r) \subseteq Held(r)'
<1>1. /\ TypeInv /\ pacts \in [Keys -> Pact] /\ gf \in Nat
      /\ gf' \in {gf, gf + 1} /\ gf' \in Nat
  BY DEF IInv, TypeInv, TypeOK, GameFrame, BeginFrame, EndFrame, NextPlayer
<1>2. \/ turn' = 0
      \/ gf' = gf + 1
      \/ gf' = gf /\ turn # 0 /\ queue' = queue
  BY DEF GameFrame, BeginFrame, EndFrame, NextPlayer
<1>3. \A k \in Keys : \/ pacts'[k] = pacts[k]
                      \/ pacts'[k] = Withdrawn(pacts[k])
  <2>1. [Next]_vars
    BY DEF Next
  <2>2. CASE GameFrame \/ EndFrame
    BY <2>2 DEF GameFrame, EndFrame, TestPacts
  <2>3. CASE BeginFrame \/ \E p \in Players : NextPlayer(p)
    BY <2>3 DEF BeginFrame, NextPlayer
  <2> QED BY <2>2, <2>3
<1> SUFFICES ASSUME NEW b \in Order, b.other # r, b.type = "accept", Reliable(r, b)
             PROVE  Reliable(r, b)'
  BY DEF Held
<1> DEFINE k == <<b.other, r, b.pact>>
<1>4. k \in Keys /\ pacts[k] \in Pact /\ b.id \in Nat
  BY <1>1, OrderFields, KeyIs
<1>5. b.id <= gf'
  BY <1>1, <1>4 DEF Reliable
<1>6. Answers(pacts'[k], b.id) /\ pacts'[k].duration # 0 => pacts'[k].duration = b.shown
  <2>1. CASE pacts'[k] = pacts[k]
    BY <2>1 DEF Reliable
  <2>2. CASE pacts'[k] = Withdrawn(pacts[k])
    <3>1. Withdrawn(pacts[k]).duration = 0
      BY <1>4, RecordFields
    <3> QED BY <2>2, <3>1
  <2> QED BY <1>3, <1>4, <2>1, <2>2
<1>7. b.id = gf' /\ turn' # 0 => \A i \in 1..Len(queue'[b.other]) :
         queue'[b.other][i].type = "suggest" => ~About(queue'[b.other][i], r, b.pact)
  <2>1. b.id <= gf
    BY DEF Reliable
  <2>2. b.id # gf + 1
    BY <1>1, <1>4, <2>1
  <2> QED BY <1>2, <2>2 DEF Reliable
<1> QED BY <1>5, <1>6, <1>7 DEF Reliable

LEMMA TruthfulFrame ==
  ASSUME CInv, GameFrame \/ BeginFrame \/ EndFrame \/ \E p \in Players : NextPlayer(p)
  PROVE  Truthful'
<1> SUFFICES ASSUME NEW r \in Players
             PROVE  gcs'[r] \in Seq(Held(r)') /\ queue'[r] \in Seq(Held(r)') /\ post'[r] \in Seq(Held(r)')
  BY DEF Truthful
<1>1. PICK H, G : H = Held(r) /\ G = Held(r)' /\ H \subseteq G
  BY HeldFrame DEF CInv
<1>2. gcs[r] \in Seq(G) /\ queue[r] \in Seq(G) /\ post[r] \in Seq(G)
  BY <1>1, SeqGrows DEF CInv, Truthful
<1>3. CASE EndFrame
  BY <1>1, <1>2, <1>3 DEF EndFrame
<1>4. CASE UNCHANGED <<gcs, queue, post>>
  BY <1>1, <1>2, <1>4
<1> QED BY <1>3, <1>4 DEF GameFrame, BeginFrame, NextPlayer

LEMMA TruthfulWindow ==
  ASSUME CInv, NEW p \in Players, Window(p)
  PROVE  Truthful'
<1>1. /\ IInv /\ TypeInv /\ gcs \in [Players -> Seq(Order)] /\ post \in [Players -> Seq(Letter)]
      /\ window \in [Players -> (Players \X Types) \cup {NoWindow}]
  BY DEF CInv, IInv, TypeInv, TypeOK
<1>2. UNCHANGED <<gf, turn, pacts, queue>>
  BY DEF Window, OpenSuggestion, PressCancel, Confirm, Answer, Discard, AddGC
<1>3. \A r \in Players : /\ gcs[r] \in Seq(Held(r)) /\ queue[r] \in Seq(Held(r)) /\ post[r] \in Seq(Held(r))
                         /\ Held(r)' = Held(r)
  BY <1>2 DEF CInv, Truthful, Held, Reliable
<1>4. ASSUME \A r \in Players : gcs'[r] \in Seq(Held(r)) /\ post'[r] \in Seq(Held(r))
      PROVE  Truthful'
  BY <1>2, <1>3, <1>4 DEF Truthful
<1>5. ASSUME NEW c \in Held(p), gcs' = [gcs EXCEPT ![p] = Append(gcs[p], c)]
      PROVE  \A r \in Players : gcs'[r] \in Seq(Held(r))
  BY <1>1, <1>3, <1>5
<1>6. ASSUME NEW q \in Players, NEW t \in Types, OpenSuggestion(p, q, t)
      PROVE  Truthful'
  BY <1>3, <1>4, <1>6 DEF OpenSuggestion
<1>7. ASSUME NEW q \in Players, NEW t \in Types, PressCancel(p, q, t)
      PROVE  Truthful'
  <2>1. Cancel(q, t) \in Held(p)
    BY <1>7, Orders, LetterIsOrder DEF PressCancel, Held, Cancel
  <2>2. gcs' = [gcs EXCEPT ![p] = Append(gcs[p], Cancel(q, t))] /\ post' = post
    BY <1>7 DEF PressCancel, AddGC
  <2> QED BY <1>3, <1>4, <1>5, <2>1, <2>2
<1>8. ASSUME NEW d \in Durations, Confirm(p, d)
      PROVE  Truthful'
  <2> DEFINE q == window[p][1]
             t == window[p][2]
  <2>1. q \in Players /\ t \in Types /\ q # p
    BY <1>1, <1>8 DEF Confirm, TypeInv, OthersOnly
  <2>2. gcs' = [gcs EXCEPT ![p] = Append(gcs[p], Suggest(q, t, d))] /\ post' = post
    BY <1>8 DEF Confirm, AddGC
  <2> HIDE DEF q, t
  <2>3. Suggest(q, t, d) \in Held(p)
    BY <2>1, Orders DEF Held
  <2> QED BY <1>3, <1>4, <1>5, <2>2, <2>3
<1>9. ASSUME NEW i \in 1..Len(post[p]), Answer(p, i) \/ Discard(p, i)
      PROVE  Truthful'
  <2>1. post[p][i] \in Held(p) /\ post' = [post EXCEPT ![p] = RemoveAt(post[p], i)]
    BY <1>3, <1>9 DEF Answer, Discard
  <2>2. RemoveAt(post[p], i) \in Seq(Held(p))
    BY <1>3, Removed
  <2>3. \A r \in Players : post'[r] \in Seq(Held(r))
    BY <1>1, <1>3, <2>1, <2>2
  <2>4. \A r \in Players : gcs'[r] \in Seq(Held(r))
    <3>1. CASE Discard(p, i)
      BY <1>3, <3>1 DEF Discard
    <3>2. CASE Answer(p, i)
      BY <1>5, <2>1, <3>2 DEF Answer, AddGC
    <3> QED BY <1>9, <3>1, <3>2
  <2> QED BY <1>4, <2>3, <2>4
<1> QED BY <1>6, <1>7, <1>8, <1>9 DEF Window

LEMMA ConsentStep ==
  ASSUME Careful
  PROVE  CInv /\ [Next]_vars => CInv'
<1> SUFFICES ASSUME CInv, [Next]_vars PROVE CInv'
  OBVIOUS
<1>1. IInv' /\ OfferKnown'
  BY PairedStep, OfferStep DEF CInv
<1>2. Truthful'
  <2>1. CASE UNCHANGED vars
    <3>1. \A p \in Players : Held(p)' = Held(p)
      BY <2>1 DEF vars, Held, Reliable
    <3> QED BY <2>1, <3>1 DEF vars, CInv, Truthful
  <2> QED BY <2>1, TruthfulWindow, TruthfulOrder, TruthfulFrame DEF Next
<1> QED BY <1>1, <1>2 DEF CInv

LEMMA ConsentInit == Init => CInv
<1> SUFFICES ASSUME Init PROVE CInv
  OBVIOUS
<1>1. IInv
  BY TypeInit, PairedInit DEF IInv
<1>2. Truthful
  BY DEF Init, Truthful
<1>3. OfferKnown
  <2> SUFFICES ASSUME NEW k \in Keys PROVE pacts[k].accepted \/ pacts[k].duration = 0
    BY DEF OfferKnown
  <2>1. CASE pacts = StartPacts
    BY <2>1 DEF StartPacts, StartPact, NoPact
  <2>2. CASE pacts \in Saved
    <3>1. /\ k = <<k[1], k[2], k[3]>> /\ k[1] \in Players /\ k[2] \in Players
          /\ k[3] \in Types /\ k[1] # k[2]
      BY KeyParts
    <3>2. pacts[k] = NoPact \/ Concluded(pacts[k], pacts[<<k[2], k[1], k[3]>>])
      BY <2>2, <3>1, RecordsAssumption
    <3> QED BY <3>2 DEF NoPact, Concluded
  <2> QED BY <2>1, <2>2 DEF Init
<1> QED BY <1>1, <1>2, <1>3 DEF CInv

(* A treaty of q and r which the order of p brings into force. *)
AgreedBy(p, q, r, t) ==
  LET c == Head(queue[p]) IN
  /\ turn = p /\ c.type = "accept" /\ c.pact = t
  /\ (p = q /\ c.other = r) \/ (p = r /\ c.other = q)
  /\ offer[<<c.other, p, t>>] = [id |-> c.id, duration |-> c.shown]
  /\ pacts'[<<q, r, t>>].duration = c.shown

LEMMA OrderConcludes ==
  ASSUME CInv, NEW p \in Players, ExecuteGC(p),
         NEW q \in Players, NEW r \in Players, q # r, NEW t \in Types,
         ~InForce(q, r, t), InForce(q, r, t)'
  PROVE  AgreedBy(p, q, r, t)
<1> DEFINE c == Head(queue[p])
           k == <<q, r, t>>
<1>1. IInv /\ pacts \in [Keys -> Pact] /\ gf' = gf /\ gf \in Nat
  BY DEF CInv, IInv, TypeInv, TypeOK, ExecuteGC
<1>2. /\ turn = p /\ queue[p] \in Seq(Held(p)) /\ queue[p] # <<>> /\ c \in Order
      /\ c.other # p /\ c.other \in Players /\ c.pact \in Types
  BY <1>1, OrderFacts DEF CInv, Truthful
<1>3. c \in Held(p)
  BY <1>2
<1>4. \/ Proposes(p, c) \/ Concludes(p, c) \/ Dissolves(p, c) \/ AsksToCancel(p, c) \/ Withdraws(p, c)
      \/ UNCHANGED <<pacts, asked, offer, post>>
  BY <1>1, OrderRecords
<1> HIDE DEF c
<1>5. k \in Keys /\ pacts[k] \in Pact /\ Mine(p, c) \in Keys /\ Hers(p, c) \in Keys
  BY <1>1, <1>2, KeyIs DEF Mine, Hers
<1>6. StateOf(pacts[k], gf) # "accepted" /\ StateOf(pacts'[k], gf) = "accepted"
  BY <1>1 DEF InForce, PactState
<1>7. /\ \A d : StateOf(Proposed(pacts[k], d), gf) # "accepted"
      /\ StateOf(Dissolved(pacts[k]), gf) = "none" /\ StateOf(Withdrawn(pacts[k]), gf) = "none"
      /\ StateOf(Unwanted(pacts[k]), gf) = StateOf(pacts[k], gf)
  BY <1>5, StatesAfter
<1> HIDE DEF k
<1>8. ~Proposes(p, c)
  BY <1>5, <1>6, <1>7 DEF Proposes
<1>9. ~Dissolves(p, c)
  BY <1>5, <1>6, <1>7 DEF Dissolves
<1>10. ~AsksToCancel(p, c)
  BY <1>5, <1>6, <1>7 DEF AsksToCancel
<1>11. ~Withdraws(p, c)
  BY <1>5, <1>6, <1>7 DEF Withdraws
<1>12. Concludes(p, c)
  BY <1>4, <1>6, <1>8, <1>9, <1>10, <1>11
<1> DEFINE h == Hers(p, c)
           d == pacts[h].duration
<1>13. c.type = "accept" /\ Answers(pacts[h], c.id) /\ (k = Mine(p, c) \/ k = h)
       /\ pacts'[k] = Made(pacts[k], d)
  BY <1>5, <1>6, <1>12 DEF Concludes
<1>14. pacts'[k].duration = d /\ d # 0
  <2>1. Made(pacts[k], d).duration = d
    BY DEF Made
  <2> HIDE DEF d
  <2>2. d # 0
    BY <1>6, <1>13, <2>1 DEF StateOf
  <2> QED BY <1>13, <2>1, <2>2
<1>15. c.pact = t /\ ((p = q /\ c.other = r) \/ (p = r /\ c.other = q))
  BY <1>13 DEF k, h, Mine, Hers
<1>16. d = c.shown
  BY <1>2, <1>3, <1>13, <1>14 DEF Held, Reliable, Hers
<1>17. offer[h] = [id |-> c.id, duration |-> c.shown]
  BY <1>5, <1>13, <1>14, <1>16 DEF CInv, OfferKnown, Answers
<1> QED BY <1>2, <1>13, <1>14, <1>15, <1>16, <1>17 DEF AgreedBy, c, k, Hers

(* With careful players a treaty comes into force only by a "yes" to the   *)
(* proposer's last proposal, if that was not withdrawn, and for the        *)
(* duration which the letter named.                                        *)
THEOREM ByConsent ==
  ASSUME Careful
  PROVE  Spec => Consent
<1>1. CInv /\ [Next]_vars =>
        [\A p \in Players : \A q \in Players \ {p} : \A t \in Types :
           ~InForce(p, q, t) /\ InForce(p, q, t)' =>
             \E r \in {p, q} :
               LET c == Head(queue[turn]) IN
                 /\ turn = (IF r = p THEN q ELSE p)
                 /\ c.type = "accept" /\ About(c, r, t)
                 /\ offer[<<r, turn, t>>] = [id |-> c.id, duration |-> c.shown]
                 /\ pacts'[<<p, q, t>>].duration = c.shown]_vars
  <2> SUFFICES ASSUME CInv, [Next]_vars, NEW p \in Players, NEW q \in Players, p # q,
                      NEW t \in Types, ~InForce(p, q, t), InForce(p, q, t)'
               PROVE  \E r \in {p, q} :
                        LET c == Head(queue[turn]) IN
                          /\ turn = (IF r = p THEN q ELSE p)
                          /\ c.type = "accept" /\ About(c, r, t)
                          /\ offer[<<r, turn, t>>] = [id |-> c.id, duration |-> c.shown]
                          /\ pacts'[<<p, q, t>>].duration = c.shown
    OBVIOUS
  <2>1. /\ <<p, q, t>> \in Keys /\ pacts[<<p, q, t>>] \in Pact /\ TypeInv
        /\ gf \in Nat /\ gf' \in {gf, gf + 1}
    <3>1. TypeInv /\ pacts \in [Keys -> Pact] /\ gf \in Nat
      BY DEF CInv, IInv, TypeInv, TypeOK
    <3> QED BY <3>1, KeyIs, GFStep
  <2>2. PICK o \in Players : ExecuteGC(o)
    <3> SUFFICES ASSUME ~\E o \in Players : ExecuteGC(o) PROVE FALSE
      OBVIOUS
    <3> DEFINE k == <<p, q, t>>
    <3>1. StateOf(pacts[k], gf) # "accepted" /\ StateOf(pacts'[k], gf') = "accepted"
      BY DEF InForce, PactState
    <3>2. pacts'[k] = pacts[k] \/ pacts'[k] = Withdrawn(pacts[k])
      BY <2>1, FrameRecords
    <3>3. StateOf(Withdrawn(pacts[k]), gf') = "none"
      BY <2>1, StatesAfter
    <3>4. StateOf(pacts[k], gf') = "accepted" => StateOf(pacts[k], gf) = "accepted"
      BY <2>1, StateLater
    <3> QED BY <3>1, <3>2, <3>3, <3>4
  <2>3. AgreedBy(o, p, q, t)
    BY <2>2, OrderConcludes
  <2> DEFINE c == Head(queue[turn])
  <2>4. turn = o
    BY <2>3 DEF AgreedBy
  <2>5. c.other \in {p, q} /\ turn = (IF c.other = p THEN q ELSE p)
    BY <2>3, <2>4 DEF AgreedBy
  <2>6. /\ c.type = "accept" /\ c.pact = t
        /\ offer[<<c.other, turn, t>>] = [id |-> c.id, duration |-> c.shown]
        /\ pacts'[<<p, q, t>>].duration = c.shown
    BY <2>3, <2>4 DEF AgreedBy
  <2> QED BY <2>5, <2>6 DEF About
<1> QED BY <1>1, ConsentInit, ConsentStep, PTL DEF Spec, Consent
=============================================================================
