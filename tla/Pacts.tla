------------------------------- MODULE Pacts -------------------------------
(***************************************************************************)
(* Treaties between players (GameClientPlayer): treaties of alliance and   *)
(* non-aggression pacts, with what the players' windows and letters let    *)
(* them order and when the orders are executed.                            *)
(*                                                                         *)
(* Each player keeps a record of its own of every treaty with every other  *)
(* player.  The simulation is the same on all clients, so there is one of  *)
(* it here.  Orders given between two network frames are sent with the     *)
(* message of the second one, and executed in the third, in the order of   *)
(* the slots: what a player saw when giving an order may be old by then.   *)
(***************************************************************************)
EXTENDS Integers, SequencesExt

CONSTANTS
  N,          \* number of players, all of them human
  Team,       \* Team[p]: the team of player p, 0 for none
  Saved,      \* the players' records in the saved games which may be loaded
  Proposals,  \* <<p, q, t>>: p may think of proposing t to q
  Durations,  \* the durations the suggestion window offers, in game frames
  NwfLength,  \* game frames per network frame (framesinfo.nwf_length)
  Careful,    \* do players look again before they confirm a suggestion?
  MaxPost,    \* MAX_POST_MESSAGES: letters a player keeps
  MaxGF,      \* bound: game frames of the run
  MaxOrders   \* bound: orders of a player between two network frames

Types == {"alliance", "peace"}   \* TREATY_OF_ALLIANCE, NON_AGGRESSION_PACT
Forever == -1                    \* 0xFFFFFFFF

ASSUME PactsAssumption ==
  /\ N \in Nat \ {0} /\ Team \in [1..N -> 0..4]
  /\ Durations \subseteq (Nat \ {0}) \cup {Forever}
  /\ NwfLength \in Nat \ {0} /\ Careful \in BOOLEAN
  /\ MaxPost \in Nat \ {0} /\ MaxGF \in Nat /\ MaxOrders \in Nat

Players == 1..N
Keys == {k \in Players \X Players \X Types : k[1] # k[2]}
Duration == Nat \cup {Forever}

(* pacts[<<p, q, t>>] is player p's record of its treaty t with q.         *)
Pact == [accepted : BOOLEAN, duration : Duration, start : Nat, want_cancel : BOOLEAN]
NoPact == [accepted |-> FALSE, duration |-> 0, start |-> 0, want_cancel |-> FALSE]
StartPact == [NoPact EXCEPT !.accepted = TRUE, !.duration = Forever]

(* Both records of a treaty: each partner may wish to cancel it. *)
Concluded(r, s) == r.accepted /\ s = [r EXCEPT !.want_cancel = s.want_cancel]

ASSUME RecordsAssumption ==
  /\ Proposals \subseteq Keys
  /\ Saved \subseteq [Keys -> Pact]
  /\ \A P \in Saved : \A p, q \in Players : \A t \in Types :
       p # q => P[<<p, q, t>>] = NoPact
                \/ /\ P[<<p, q, t>>].start = 0
                   /\ Concluded(P[<<p, q, t>>], P[<<q, p, t>>])

(* Orders.  An AcceptPact names the proposal by id, the game frame it was  *)
(* made in; "shown" is the duration its player read in the letter, which   *)
(* the order itself does not carry.                                        *)
Order == [type : {"suggest"}, other : Players, pact : Types, duration : Durations]
           \cup [type : {"accept"}, other : Players, pact : Types, id : Nat, shown : Durations]
           \cup [type : {"cancel"}, other : Players, pact : Types]
Suggest(q, t, d) == [type |-> "suggest", other |-> q, pact |-> t, duration |-> d]
Accept(q, t, id, d) == [type |-> "accept", other |-> q, pact |-> t, id |-> id, shown |-> d]
Cancel(q, t) == [type |-> "cancel", other |-> q, pact |-> t]

(* Letters with a question (DiplomacyPostQuestion), and the order "yes"    *)
(* stands for: a letter is the order here.                                 *)
Letter == {c \in Order : c.type # "suggest"}

NoWindow == <<>>

VARIABLES
  gf,      \* framesinfo.nr
  turn,    \* the player whose orders the frame executes; 0 between frames
  pacts,
  gcs,     \* orders given since the last network frame
  queue,   \* orders of the message which the next network frame executes
  window,  \* <<q, t>> of the open suggestion window, or NoWindow
  post,    \* letters, newest first
  seen     \* the allies p's view was last computed with

(* History: the last proposal of p to q, unless it was withdrawn; and has  *)
(* p asked to cancel the treaty since it was concluded?                    *)
VARIABLES offer, asked

vars == <<gf, turn, pacts, gcs, queue, window, post, seen, offer, asked>>

Offer == [id : Nat, duration : Duration]
NoOffer == [id |-> 0, duration |-> 0]

TypeOK ==
  /\ gf \in 0..MaxGF
  /\ turn \in 0..(N + 1)
  /\ pacts \in [Keys -> Pact]
  /\ gcs \in [Players -> Seq(Order)]
  /\ queue \in [Players -> Seq(Order)]
  /\ window \in [Players -> (Players \X Types) \cup {NoWindow}]
  /\ post \in [Players -> Seq(Letter)] /\ \A p \in Players : Len(post[p]) <= MaxPost
  /\ seen \in [Players -> SUBSET Players]
  /\ offer \in [Keys -> Offer]
  /\ asked \in [Keys -> BOOLEAN]

-----------------------------------------------------------------------------
(* The state of a treaty as its record r tells at game frame g.            *)

Runs(r, g) == r.duration = Forever \/ g <= r.start + r.duration

(* GetPactState *)
StateOf(r, g) ==
  IF r.duration = 0 THEN "none"
  ELSE IF ~r.accepted THEN "in progress"
  ELSE IF Runs(r, g) THEN "accepted" ELSE "none"

PactState(p, q, t) == StateOf(pacts[<<p, q, t>>], gf)
InForce(p, q, t) == PactState(p, q, t) = "accepted"

(* IsAlly, by the records P at game frame g.                               *)
Allies(P, p, g) ==
  {q \in Players : p = q \/ StateOf(P[<<p, q, "alliance">>], g) = "accepted"}

(* Mutant: a non-aggression pact does not protect. *)
AlliesOnly(p, q) == q \notin Allies(pacts, p, gf)

IsPlayerAttackable(p, q) == q \notin Allies(pacts, p, gf) /\ ~InForce(p, q, "peace")

(* GI_TreatyOfAllianceChanged on the clients of the players S: their views *)
(* are computed anew, by the new records P.                                *)
Look(S, P, g) == seen' = [p \in Players |-> IF p \in S THEN Allies(P, p, g) ELSE seen[p]]

(* MakeStartPacts: members of a team start with both treaties.  A saved    *)
(* game brings its own records, but not the letters (game frames are       *)
(* counted from the start of the model).                                   *)
SameTeam(p, q) == Team[p] = Team[q] /\ Team[p] # 0
StartPacts == [k \in Keys |-> IF SameTeam(k[1], k[2]) THEN StartPact ELSE NoPact]

Init ==
  /\ gf = 0 /\ turn = 0
  /\ pacts \in Saved \cup {StartPacts}
  /\ gcs = [p \in Players |-> <<>>] /\ queue = [p \in Players |-> <<>>]
  /\ window = [p \in Players |-> NoWindow]
  /\ post = [p \in Players |-> <<>>]
  /\ seen = [p \in Players |-> Allies(pacts, p, gf)]
  /\ offer = [k \in Keys |-> NoOffer]
  /\ asked = [k \in Keys |-> pacts[k].want_cancel]

-----------------------------------------------------------------------------
(* The players' windows, between two game frames.  AddGC also refuses      *)
(* orders in a pause, in which the game frames stand still, too: an answer *)
(* given then is as good as a letter thrown away.                          *)

AddGC(p, c) ==
  /\ turn = 0
  /\ Len(gcs[p]) < MaxOrders
  /\ gcs' = [gcs EXCEPT ![p] = Append(@, c)]

(* The button of iwDiplomacy opens a window if there is no treaty.  There  *)
(* is at most one such window: Show closes the open one instead.           *)
OpenSuggestion(p, q, t) ==
  /\ turn = 0 /\ <<p, q, t>> \in Proposals
  /\ PactState(p, q, t) = "none"
  /\ window' = [window EXCEPT ![p] = IF @ = NoWindow THEN <<q, t>> ELSE NoWindow]
  /\ UNCHANGED <<gf, turn, pacts, gcs, queue, post, seen, offer, asked>>

About(c, q, t) == c.other = q /\ c.pact = t
Pending(p, q, t) == \/ \E i \in 1..Len(gcs[p]) : About(gcs[p][i], q, t)
                    \/ \E i \in 1..Len(queue[p]) : About(queue[p][i], q, t)

(* The window of iwSuggestPact stays open as long as the player likes, and *)
(* does not look at the treaty again.  A careful player does.              *)
Confirm(p, d) ==
  /\ window[p] # NoWindow
  /\ LET q == window[p][1]
         t == window[p][2]
     IN  /\ Careful => PactState(p, q, t) = "none" /\ ~Pending(p, q, t)
         /\ AddGC(p, Suggest(q, t, d))
  /\ window' = [window EXCEPT ![p] = NoWindow]
  /\ UNCHANGED <<gf, turn, pacts, queue, post, seen, offer, asked>>

(* Otherwise the button asks to cancel the treaty, or the proposal. *)
PressCancel(p, q, t) ==
  /\ p # q
  /\ PactState(p, q, t) # "none"
  /\ AddGC(p, Cancel(q, t))
  /\ UNCHANGED <<gf, turn, pacts, queue, window, post, seen, offer, asked>>

(* iwPostWindow: "yes" to the i-th letter. *)
Answer(p, i) ==
  /\ AddGC(p, post[p][i])
  /\ post' = [post EXCEPT ![p] = RemoveAt(@, i)]
  /\ UNCHANGED <<gf, turn, pacts, queue, window, seen, offer, asked>>

(* "No", or the letter is deleted, or other letters push it out. *)
Discard(p, i) ==
  /\ turn = 0
  /\ post' = [post EXCEPT ![p] = RemoveAt(@, i)]
  /\ UNCHANGED <<gf, turn, pacts, gcs, queue, window, seen, offer, asked>>

-----------------------------------------------------------------------------
(* The orders, executed for player p = turn in game frame gf.              *)

(* Mutant: one letter more than there is room for. *)
OneMore(s) == IF Len(s) <= MaxPost THEN s ELSE SubSeq(s, 1, MaxPost)

(* SendPostMessage: the oldest letter goes when there are too many.        *)
RoomForOne(s) == IF Len(s) < MaxPost THEN s ELSE SubSeq(s, 1, MaxPost - 1)
Deliver(q, l) == post' = [post EXCEPT ![q] = <<l>> \o RoomForOne(@)]

Proposed(r, d) == [r EXCEPT !.accepted = FALSE, !.duration = d, !.start = gf]

SuggestPact(p, c) ==
  /\ pacts' = [pacts EXCEPT ![<<p, c.other, c.pact>>] = Proposed(@, c.duration)]
  /\ Deliver(c.other, Accept(p, c.pact, gf, c.duration))
  /\ offer' = [offer EXCEPT ![<<p, c.other, c.pact>>] = [id |-> gf, duration |-> c.duration]]
  /\ UNCHANGED <<seen, asked>>

(* Mutant: a new treaty keeps the wish to cancel the old one. *)
KeepsWish(r, d) == [r EXCEPT !.accepted = TRUE, !.start = gf, !.duration = d]

(* MakePact *)
Made(r, d) == [accepted |-> TRUE, start |-> gf, duration |-> d, want_cancel |-> FALSE]

(* Mutants: any "yes" will do; only the proposer's record is changed. *)
AnyProposal(r, id) == ~r.accepted
ProposerOnly(p, q, t) == {<<q, p, t>>}

Answers(r, id) == ~r.accepted /\ r.start = id
BothRecords(p, q, t) == {<<p, q, t>>, <<q, p, t>>}

(* AcceptPact of the proposer c.other, for p's "yes". *)
AcceptPact(p, c) ==
  LET proposal == pacts[<<c.other, p, c.pact>>] IN
  /\ IF Answers(proposal, c.id)
       THEN /\ pacts' = [k \in Keys |-> IF k \in BothRecords(p, c.other, c.pact)
                                        THEN Made(pacts[k], proposal.duration) ELSE pacts[k]]
            /\ asked' = [asked EXCEPT ![<<p, c.other, c.pact>>] = FALSE, ![<<c.other, p, c.pact>>] = FALSE]
            /\ IF c.pact = "alliance" THEN Look({p, c.other}, pacts', gf) ELSE UNCHANGED seen
       ELSE UNCHANGED <<pacts, seen, asked>>
  /\ UNCHANGED <<post, offer>>

Dissolved(r) == [r EXCEPT !.accepted = FALSE, !.duration = 0, !.want_cancel = FALSE]
Unwanted(r) == [r EXCEPT !.want_cancel = TRUE]
Withdrawn(r) == [r EXCEPT !.duration = 0]

CancelPact(p, c) ==
  LET q == c.other
      t == c.pact
  IN  IF pacts[<<p, q, t>>].accepted
        THEN /\ asked' = [asked EXCEPT ![<<p, q, t>>] = TRUE]
             /\ UNCHANGED offer
             /\ IF pacts[<<q, p, t>>].want_cancel
                  THEN /\ pacts' = [pacts EXCEPT ![<<p, q, t>>] = Dissolved(@), ![<<q, p, t>>] = Dissolved(@)]
                       /\ IF t = "alliance" THEN Look({p, q}, pacts', gf) ELSE UNCHANGED seen
                       /\ UNCHANGED post
                  ELSE /\ pacts' = [pacts EXCEPT ![<<p, q, t>>] = Unwanted(@)]
                       /\ Deliver(q, Cancel(p, t))
                       /\ UNCHANGED seen
        ELSE /\ pacts' = [pacts EXCEPT ![<<p, q, t>>] = Withdrawn(@)]
             /\ offer' = [offer EXCEPT ![<<p, q, t>>] = NoOffer]
             /\ UNCHANGED <<post, seen, asked>>

Execute(p, c) == \/ c.type = "suggest" /\ SuggestPact(p, c)
                 \/ c.type = "accept" /\ AcceptPact(p, c)
                 \/ c.type = "cancel" /\ CancelPact(p, c)

-----------------------------------------------------------------------------
(* Game frames.                                                            *)

(* Mutant: the expiry of a non-aggression pact is noticed instead. *)
PeaceLapsed(P, p, q, g) ==
  P[<<p, q, "peace">>].duration # 0 /\ StateOf(P[<<p, q, "peace">>], g) = "none"

Lapsed(P, p, q, g) ==
  P[<<p, q, "alliance">>].duration # 0 /\ StateOf(P[<<p, q, "alliance">>], g) = "none"

(* TestPacts of all players: a treaty of alliance which has run out.       *)
TestPacts(g) ==
  /\ pacts' = [k \in Keys |-> IF k[3] = "alliance" /\ Lapsed(pacts, k[1], k[2], g)
                              THEN Withdrawn(pacts[k]) ELSE pacts[k]]
  /\ Look({p \in Players : \E q \in Players \ {p} : Lapsed(pacts, p, q, g)}, pacts', g)

NetworkFrame == gf % NwfLength = 0

(* A game frame between two network frames: NextGF. *)
GameFrame ==
  /\ turn = 0 /\ gf < MaxGF /\ ~NetworkFrame
  /\ gf' = gf + 1
  /\ TestPacts(gf + 1)
  /\ UNCHANGED <<turn, gcs, queue, window, post, offer, asked>>

(* ExecuteGameFrame_Game: the orders of one player after the other ...     *)
BeginFrame ==
  /\ turn = 0 /\ gf < MaxGF /\ NetworkFrame
  /\ gf' = gf + 1 /\ turn' = 1
  /\ UNCHANGED <<pacts, gcs, queue, window, post, seen, offer, asked>>

ExecuteGC(p) ==
  /\ turn = p /\ queue[p] # <<>>
  /\ Execute(p, Head(queue[p]))
  /\ queue' = [queue EXCEPT ![p] = Tail(@)]
  /\ UNCHANGED <<gf, turn, gcs, window>>

NextPlayer(p) ==
  /\ turn = p /\ queue[p] = <<>>
  /\ turn' = turn + 1
  /\ UNCHANGED <<gf, pacts, gcs, queue, window, post, seen, offer, asked>>

(* ... then NextGF, and the orders given since go out. *)
EndFrame ==
  /\ turn = N + 1 /\ turn' = 0
  /\ TestPacts(gf)
  /\ queue' = gcs
  /\ gcs' = [p \in Players |-> <<>>]
  /\ UNCHANGED <<gf, window, post, offer, asked>>

Window(p) == \/ \E q \in Players, t \in Types : OpenSuggestion(p, q, t) \/ PressCancel(p, q, t)
             \/ \E d \in Durations : Confirm(p, d)
             \/ \E i \in 1..Len(post[p]) : Answer(p, i) \/ Discard(p, i)

Next == \/ \E p \in Players : Window(p) \/ ExecuteGC(p) \/ NextPlayer(p)
        \/ GameFrame \/ BeginFrame \/ EndFrame

Spec == Init /\ [][Next]_vars

-----------------------------------------------------------------------------
(* Two players never disagree about a treaty in force between them: it     *)
(* binds both, or neither, whoever proposed, answered, cancelled or let it *)
(* run out, and in whatever order the orders arrive.  (MakePact,           *)
(* CancelPact, TestPacts each change the two records separately.)          *)
Mutual == \A p \in Players : \A q \in Players \ {p} : \A t \in Types : InForce(p, q, t) => InForce(q, p, t)

(* A treaty comes into force only by a "yes" to the proposer's last        *)
(* proposal, one which was not withdrawn, and for the duration the letter  *)
(* named: never by an answer to an older letter.  (AcceptPact)             *)
Consent ==
  [][\A p \in Players : \A q \in Players \ {p} : \A t \in Types :
       ~InForce(p, q, t) /\ InForce(p, q, t)' =>
         \E r \in {p, q} :
           LET c == Head(queue[turn]) IN
             /\ turn = (IF r = p THEN q ELSE p)
             /\ c.type = "accept" /\ About(c, r, t)
             /\ offer[<<r, turn, t>>] = [id |-> c.id, duration |-> c.shown]
             /\ pacts'[<<p, q, t>>].duration = c.shown]_vars

(* A treaty in force ends before its time only if both partners have asked *)
(* for it since it was concluded.  (CancelPact, MakePact)                  *)
EndsByBoth ==
  [][\A p \in Players : \A q \in Players \ {p} : \A t \in Types :
       InForce(p, q, t) /\ ~InForce(p, q, t)' =>
         \/ ~Runs(pacts[<<p, q, t>>], gf')
         \/ asked'[<<p, q, t>>] /\ asked'[<<q, p, t>>]]_vars

(* What a player sees is what it and its present allies see: the view is   *)
(* computed anew whenever an alliance begins or ends, also when it runs    *)
(* out in any game frame.  (TestPacts, AcceptPact, CancelPact)             *)
SeesAllies == turn = 0 => \A p \in Players : seen[p] = Allies(pacts, p, gf)

(* "Verbündete dürfen nicht angegriffen werden" (IsPlayerAttackable): a    *)
(* player which a treaty in force binds may not be attacked by its partner.*)
PartnersSafe ==
  \A p \in Players : \A q \in Players \ {p} :
    (\E t \in Types : InForce(q, p, t)) => ~IsPlayerAttackable(p, q)

=============================================================================
