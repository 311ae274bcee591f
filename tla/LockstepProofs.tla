--------------------------- MODULE LockstepProofs ---------------------------
(***************************************************************************)
(* Proofs about Lockstep, for any number of slots, humans and frames, any  *)
(* orders of the players, kicks, switches, pauses and diverging clients.   *)
(***************************************************************************)
EXTENDS LockstepRefinement, SequenceTheorems, TLAPS

(* How many contributions of slot p client c holds or has executed. *)
Delivered(c, p) == Len(world[c]) + Len(queue[c][p])

(* at lists the places of a slot's messages in the log, in order, all of them. *)
PlacesOK ==
  \A p \in Slots : \A n \in 1..Len(at[p]) :
    /\ at[p][n] \in 1..Len(log)
    /\ log[at[p][n]].type = "gc" /\ log[at[p][n]].slot = p

PlacesOrdered ==
  \A p \in Slots : \A m, n \in 1..Len(at[p]) : m < n => at[p][m] < at[p][n]

PlacesComplete ==
  \A i \in 1..Len(log) :
    log[i].type = "gc" => \E n \in 1..Len(at[log[i].slot]) : at[log[i].slot][n] = i

CursorOK ==
  \A c \in Humans :
    /\ rd[c] <= Len(log) /\ eof[c] <= Len(log)
    /\ \A p \in part[c] :
         /\ Delivered(c, p) <= Len(at[p])
         /\ \A n \in 1..Len(at[p]) : at[p][n] <= rd[c] <=> n <= Delivered(c, p)

QueueOK ==
  \A c \in Humans : \A p \in part[c] : \A k \in 1..Len(queue[c][p]) :
    queue[c][p][k] = Contribution(p, Len(world[c]) + k)

WorldOK ==
  \A c \in Humans :
    /\ phase[c] \in {"config", "loading"} => world[c] = <<>>
    /\ \A k \in 1..Len(world[c]) :
         /\ world[c][k].players = part[c]
         /\ \A p \in part[c] : /\ k <= Len(at[p])
                               /\ world[c][k].gcs[p] = Contribution(p, k)

LoopOK == mode = "nwf" => nr < MaxFrames

IInv == /\ TypeOK /\ LoopOK
        /\ PlacesOK /\ PlacesOrdered /\ PlacesComplete
        /\ CursorOK /\ QueueOK /\ WorldOK

(* While nobody is kicked during loading, every slot is a player's everywhere. *)
AllPlay ==
  ~LoadingKicks =>
    /\ \A c \in Humans : part[c] = Slots
    /\ (\E i \in 1..Len(log) : log[i].type = "kick") =>
          \A c \in Humans : phase[c] \in {"game", "lost"}

-----------------------------------------------------------------------------
(* Types.                                                                  *)

USE DEF Slots

LEMMA HeadTail ==
  ASSUME NEW S, NEW s \in Seq(S), s # <<>>
  PROVE  Head(s) \in S /\ Tail(s) \in Seq(S) /\ Len(Tail(s)) = Len(s) - 1
OBVIOUS

LEMMA Constants ==
  /\ N \in Nat /\ N # 0 /\ MaxFrames \in Nat
  /\ Humans \subseteq Slots /\ Unstable \subseteq Humans
  /\ Nobody \notin Slots /\ Nobody \notin Humans
BY LockstepAssumption DEF Nobody

(* The elements of Payload, Message and Entry the actions build. *)
LEMMA Payloads ==
  /\ Nothing \in Payload
  /\ \A p \in Slots : \A k \in 1..(MaxFrames + 1) : Orders(p, k) \subseteq Payload
BY LockstepAssumption DEF Payload, Nothing, Nobody

LEMMA Entries ==
  /\ Start \in Entry /\ Async \in Entry
  /\ \A p \in Slots, g \in Payload : GC(p, g) \in Entry
  /\ \A p \in Slots : Kicked(p) \in Entry
  /\ \A b \in BOOLEAN : Pause(b) \in Entry
BY DEF Entry, Start, Async, GC, Kicked, Pause

LEMMA EntryTypes ==
  /\ Start.type = "start" /\ Async.type = "async"
  /\ \A p, g : GC(p, g).type = "gc" /\ GC(p, g).slot = p /\ GC(p, g).gcs = g
  /\ \A p : Kicked(p).type = "kick" /\ Kicked(p).slot = p
  /\ \A b : Pause(b).type = "pause" /\ Pause(b).on = b
  /\ \A e \in Entry : /\ e.type = "gc" => e.slot \in Slots /\ e.gcs \in Payload
                      /\ e.type = "kick" => e.slot \in Slots
                      /\ e.type = "pause" => e.on \in BOOLEAN
BY DEF Entry, Start, Async, GC, Kicked, Pause

(* Every initial state has the types. *)
LEMMA InitTypes == Init => TypeOK
<1> SUFFICES ASSUME Init PROVE TypeOK
  OBVIOUS
<1> USE LockstepAssumption
<1>1. log \in Seq(Entry)
  BY Entries DEF Init
<1>2. sw \in SwitchNote
  BY DEF Init, SwitchNote
<1>3. /\ gcq \in [Slots -> Seq(Message)] /\ first \in Seq(Message)
      /\ up \in [Humans -> Seq(Message)] /\ world \in [Humans -> Seq(Frame)]
      /\ at \in [Slots -> Seq(Nat)]
      /\ queue \in [Humans -> [Slots -> Seq(Payload)]]
  BY DEF Init
<1>4. /\ ps \in [Slots -> {"occupied", "ki"}]
      /\ conn \in [Slots -> Humans \cup {Nobody}]
      /\ cur \in 1..(N + 1) /\ nr \in 0..MaxFrames
  BY DEF Init
<1> QED
  BY <1>1, <1>2, <1>3, <1>4 DEF Init, TypeOK

(* A broadcast of one player's commands. *)
LEMMA SendGCTypes ==
  ASSUME TypeOK, NEW p \in Slots, NEW g \in Payload, SendGC(p, g)
  PROVE  /\ log' \in Seq(Entry) /\ at' \in [Slots -> Seq(Nat)]
         /\ Len(log') = Len(log) + 1
         /\ \A i \in 1..Len(log) : log'[i] = log[i]
         /\ log'[Len(log) + 1] = GC(p, g)
BY Entries DEF TypeOK, SendGC

LEMMA StartSlotTypes == TypeOK /\ StartSlot => TypeOK'
<1> SUFFICES ASSUME TypeOK, StartSlot PROVE TypeOK'
  OBVIOUS
<1>1. /\ log' \in Seq(Entry) /\ at' \in [Slots -> Seq(Nat)]
  <2>1. CASE ps[cur] = "ki"
    BY <2>1, SendGCTypes, Payloads DEF StartSlot
  <2>2. CASE ps[cur] # "ki"
    BY <2>2 DEF StartSlot, TypeOK
  <2> QED BY <2>1, <2>2
<1>2. cur' \in 1..(N + 1)
  BY LockstepAssumption DEF StartSlot, TypeOK
<1> QED
  BY <1>1, <1>2 DEF TypeOK, StartSlot, clientVars

LEMMA RecvGCTypes ==
  ASSUME TypeOK, NEW p \in Slots, RecvGC(p) PROVE TypeOK'
<1> DEFINE c == conn[p]  m == Head(up[c])
<1>1. c \in Humans /\ up[c] \in Seq(Message) /\ up[c] # <<>>
  BY DEF RecvGC, TypeOK
<1>2. m \in Message /\ Tail(up[c]) \in Seq(Message)
  BY <1>1, HeadTail
<1>3. m.gcs \in Payload
  BY <1>2 DEF Message
<1>4. Forwarded(m.gcs) \in Payload
  BY <1>3, Payloads DEF Forwarded
<1>5. SendGC(p, Forwarded(m.gcs))
  BY DEF RecvGC
<1>6. log' \in Seq(Entry) /\ at' \in [Slots -> Seq(Nat)]
  BY <1>4, <1>5, SendGCTypes
<1>7. up' \in [Humans -> Seq(Message)]
  BY <1>1, <1>2 DEF RecvGC, TypeOK
<1>8. gcq' \in [Slots -> Seq(Message)]
  <2>1. gcq \in [Slots -> Seq(Message)]
    BY DEF TypeOK
  <2>2. gcq' = [gcq EXCEPT ![p] = Append(@, m)]
    BY DEF RecvGC
  <2> QED BY <1>2, <2>1, <2>2
<1> QED
  BY <1>6, <1>7, <1>8 DEF TypeOK, RecvGC, clientVars

LEMMA KickPlayerTypes ==
  ASSUME TypeOK, NEW p \in Slots, KickPlayer(p) PROVE TypeOK'
<1> DEFINE c == conn[p]
<1>1. c \in Humans /\ Len(log) \in Nat
  <2>1. c \in Unstable
    BY DEF KickPlayer
  <2>2. log \in Seq(Entry)
    BY DEF TypeOK
  <2>3. Len(log) \in Nat
    BY <2>2
  <2> QED BY <2>1, <2>3, Constants
<1>2. log' \in Seq(Entry)
  BY Entries, Payloads DEF KickPlayer, TypeOK
<1>3. at' \in [Slots -> Seq(Nat)]
  <2>1. Append(at[p], Len(log) + 2) \in Seq(Nat)
    <3>1. at[p] \in Seq(Nat)
      BY DEF TypeOK
    <3> QED BY <1>1, <3>1
  <2>2. at' = [at EXCEPT ![p] = Append(at[p], Len(log) + 2)]
    BY DEF KickPlayer
  <2> QED BY <2>1, <2>2 DEF TypeOK
<1>4. up' \in [Humans -> Seq(Message)]
  <2>1. PICK kept \in 0..Len(up[c]) : up' = [up EXCEPT ![c] = SubSeq(@, 1, kept)]
    BY DEF KickPlayer
  <2>2. SubSeq(up[c], 1, kept) \in Seq(Message)
    BY <1>1 DEF TypeOK
  <2> QED BY <2>1, <2>2 DEF TypeOK
<1>5. eof' \in [Humans -> Nat]
  BY <1>1 DEF KickPlayer, TypeOK
<1>6. ps' \in [Slots -> {"occupied", "ki"}]
  BY DEF KickPlayer, TypeOK, KickedState
<1> QED
  BY <1>2, <1>3, <1>4, <1>5, <1>6 DEF TypeOK, KickPlayer, clientVars

(* The part of the frame's loop body which may broadcast. *)
LEMMA SendAITypes ==
  ASSUME TypeOK, LoopOK, mode = "nwf", NEW p \in Slots, SendAI(p)
  PROVE  /\ log' \in Seq(Entry) /\ at' \in [Slots -> Seq(Nat)]
         /\ pause' = pause /\ async' = async
<1>1. CASE ps[p] = "ki"
  <2>1. PICK g \in Orders(p, nr + 1) : SendGC(p, g)
    BY <1>1 DEF SendAI
  <2>2. nr + 1 \in 1..(MaxFrames + 1)
    BY LockstepAssumption DEF TypeOK, LoopOK
  <2>3. g \in Payload
    BY <2>1, <2>2, Payloads
  <2> QED BY <2>1, <2>3, SendGCTypes DEF SendAI
<1>2. CASE ps[p] # "ki"
  BY <1>2 DEF SendAI, TypeOK
<1> QED BY <1>1, <1>2

LEMMA NWFMessageTypes ==
  ASSUME TypeOK, LoopOK, NEW p \in Slots, NWFMessage(p) PROVE TypeOK'
<1> DEFINE m == Head(gcq[p])
<1>1. m \in Message /\ Tail(gcq[p]) \in Seq(Message)
  <2>1. gcq[p] \in Seq(Message) /\ gcq[p] # <<>>
    BY DEF NWFMessage, TypeOK
  <2> QED BY <2>1, HeadTail
<1>2. gcq' \in [Slots -> Seq(Message)]
  BY <1>1 DEF NWFMessage, TypeOK
<1>3. first' \in Seq(Message)
  BY <1>1 DEF NWFMessage, TypeOK, Reference
<1>4. sw' \in SwitchNote
  <2>1. m.gcs.switch \in Slots \cup {Nobody}
    BY <1>1, LockstepAssumption DEF Message, Payload
  <2>2. [old |-> p, new |-> m.gcs.switch] \in SwitchNote \/ m.gcs.switch = Nobody
    BY <2>1 DEF SwitchNote
  <2> QED BY <2>2 DEF NWFMessage, TypeOK
<1>5. /\ log' \in Seq(Entry) /\ at' \in [Slots -> Seq(Nat)]
      /\ pause' \in BOOLEAN /\ async' \in BOOLEAN
  <2>1. CASE Checksum(m) # Checksum(Reference(m))
    <3>1. ReportAsync
      BY <2>1 DEF NWFMessage
    <3>2. pause \in BOOLEAN /\ log \in Seq(Entry)
      BY DEF TypeOK
    <3>3. (~pause) \in BOOLEAN
      BY <3>2
    <3>4. Pause(~pause) \in Entry /\ Async \in Entry
      BY <3>3, Entries, Zenon
    <3>5. Append(Append(log, Async), Pause(~pause)) \in Seq(Entry)
      BY <3>2, <3>4
    <3> QED BY <3>1, <3>3, <3>5 DEF ReportAsync, TypeOK
  <2>2. CASE Checksum(m) = Checksum(Reference(m))
    BY <2>2, SendAITypes DEF NWFMessage, TypeOK
  <2> QED BY <2>1, <2>2
<1>6. cur' \in 1..(N + 1)
  <2>1. cur' = p + 1
    BY DEF NWFMessage
  <2> QED BY <2>1, Constants
<1> QED
  BY <1>2, <1>3, <1>4, <1>5, <1>6 DEF TypeOK, NWFMessage, clientVars

LEMMA NWFNoMessageTypes ==
  ASSUME TypeOK, LoopOK, NEW p \in Slots, NWFNoMessage(p) PROVE TypeOK'
<1>1. cur' \in 1..(N + 1)
  <2>1. cur' = p + 1
    BY DEF NWFNoMessage
  <2> QED BY <2>1, Constants
<1>2. /\ log' \in Seq(Entry) /\ at' \in [Slots -> Seq(Nat)]
      /\ pause' = pause /\ async' = async
  BY SendAITypes DEF NWFNoMessage
<1> QED
  BY <1>1, <1>2 DEF TypeOK, NWFNoMessage, clientVars

LEMMA ServerTypes == TypeOK /\ LoopOK /\ Server => TypeOK'
<1> SUFFICES ASSUME TypeOK, LoopOK, Server PROVE TypeOK'
  OBVIOUS
<1>1. CASE StartSlot
  BY <1>1, StartSlotTypes
<1>2. CASE StartDone
  <2>1. cur' \in 1..(N + 1)
    BY <1>2, Constants DEF StartDone
  <2> QED BY <1>2, <2>1 DEF StartDone, TypeOK, clientVars
<1>3. ASSUME NEW p \in Slots, RecvGC(p) PROVE TypeOK'
  BY <1>3, RecvGCTypes
<1>4. ASSUME NEW p \in Slots, KickPlayer(p) PROVE TypeOK'
  BY <1>4, KickPlayerTypes
<1>5. CASE TogglePause
  <2>1. log' \in Seq(Entry) /\ at' = at
    <3>1. pause \in BOOLEAN /\ log \in Seq(Entry)
      BY DEF TypeOK
    <3>2. (~pause) \in BOOLEAN
      BY <3>1
    <3>3. Pause(~pause) \in Entry
      BY <3>2, Entries, Zenon
    <3>4. Send(Pause(~pause))
      BY <1>5 DEF TogglePause
    <3> QED BY <3>1, <3>3, <3>4 DEF Send
  <2>2. pause' \in BOOLEAN /\ toggles' \in Nat
    BY <1>5 DEF TogglePause, TypeOK
  <2> QED BY <1>5, <2>1, <2>2 DEF TogglePause, TypeOK, clientVars
<1>6. CASE BeginNWF
  <2>1. cur' \in 1..(N + 1)
    BY <1>6, Constants DEF BeginNWF
  <2>2. sw' \in SwitchNote
    BY <1>6 DEF BeginNWF, SwitchNote
  <2> QED BY <1>6, <2>1, <2>2 DEF BeginNWF, TypeOK, clientVars
<1>7. CASE EndNWF
  <2>1. cur' \in 1..(N + 1)
    BY <1>7, Constants DEF EndNWF
  <2>2. sw' \in SwitchNote
    BY <1>7 DEF EndNWF, SwitchNote
  <2>3. nr' \in 0..MaxFrames
    BY <1>7, Constants DEF EndNWF, TypeOK, LoopOK
  <2>4. /\ ps' \in [Slots -> {"occupied", "ki"}]
        /\ conn' \in [Slots -> Humans \cup {Nobody}]
    <3>1. CASE MayChange
      <4>1. sw.old \in Slots /\ sw.new \in Slots
        BY <3>1 DEF MayChange, TypeOK, SwitchNote
      <4>2. ps \in [Slots -> {"occupied", "ki"}] /\ conn \in [Slots -> Humans \cup {Nobody}]
        BY DEF TypeOK
      <4> QED BY <1>7, <3>1, <4>1, <4>2 DEF EndNWF
    <3>2. CASE ~MayChange
      BY <1>7, <3>2 DEF EndNWF, TypeOK
    <3> QED BY <3>1, <3>2
  <2> QED BY <1>7, <2>1, <2>2, <2>3, <2>4 DEF EndNWF, TypeOK, clientVars
<1>8. ASSUME NEW p \in Slots, NWFMessage(p) PROVE TypeOK'
  BY <1>8, NWFMessageTypes
<1>9. ASSUME NEW p \in Slots, NWFNoMessage(p) PROVE TypeOK'
  BY <1>9, NWFNoMessageTypes
<1> QED
  BY <1>1, <1>2, <1>3, <1>4, <1>5, <1>6, <1>7, <1>8, <1>9 DEF Server

(* A message a client sends. *)
LEMMA SendUpTypes ==
  ASSUME TypeOK, NEW c \in Humans, NEW n \in Nat, NEW g \in Payload,
         SendUp(c, Msg(c, n, g))
  PROVE  up' \in [Humans -> Seq(Message)]
<1>1. Msg(c, n, g) \in Message
  BY DEF Msg, Message
<1> QED BY <1>1 DEF SendUp, TypeOK

(* What a client reads next is a broadcast. *)
LEMMA ReadTypes ==
  ASSUME TypeOK, CursorOK, NEW c \in Humans, rd[c] < Readable(c)
  PROVE  rd[c] + 1 \in 1..Len(log) /\ log[rd[c] + 1] \in Entry
<1>1. rd[c] + 1 \in 1..Len(log)
  BY DEF TypeOK, CursorOK, Readable
<1> QED BY <1>1 DEF TypeOK

LEMMA ReadGCTypes ==
  ASSUME TypeOK, CursorOK, NEW c \in Humans, ReadGC(c) PROVE TypeOK'
<1> DEFINE e == log[rd[c] + 1]
<1>1. e.slot \in Slots /\ e.gcs \in Payload
  BY ReadTypes, EntryTypes DEF ReadGC, NextIs
<1>2. queue' \in [Humans -> [Slots -> Seq(Payload)]]
  <2>1. queue[c] \in [Slots -> Seq(Payload)] /\ queue \in [Humans -> [Slots -> Seq(Payload)]]
    BY DEF TypeOK
  <2>2. Append(queue[c][e.slot], e.gcs) \in Seq(Payload)
    BY <1>1, <2>1
  <2>3. queue' = [queue EXCEPT ![c][e.slot] = Append(@, e.gcs)]
    BY DEF ReadGC, Enqueue
  <2> QED BY <1>1, <2>1, <2>2, <2>3
<1>3. rd' \in [Humans -> Nat]
  BY DEF ReadGC, TypeOK
<1>4. UNCHANGED <<serverVars, log, up, eof, phase, part, cpause, world, at>>
  BY DEF ReadGC
<1> QED
  BY <1>2, <1>3, <1>4 DEF TypeOK, serverVars

LEMMA ReadPauseTypes ==
  ASSUME TypeOK, CursorOK, NEW c \in Humans, ReadPause(c) PROVE TypeOK'
<1>1. PauseOf(log[rd[c] + 1]) \in BOOLEAN
  BY ReadTypes, EntryTypes DEF ReadPause, NextIs, PauseOf
<1> QED
  <2>1. cpause' \in [Humans -> BOOLEAN] /\ rd' \in [Humans -> Nat]
    BY <1>1 DEF ReadPause, TypeOK
  <2> QED BY <2>1 DEF ReadPause, TypeOK, serverVars

(* The frame a client executes. *)
LEMMA FrameTypes ==
  ASSUME TypeOK, NEW c \in Humans, NEW drift \in Drift,
         \A p \in part[c] : queue[c][p] # <<>>
  PROVE  [players |-> part[c],
          gcs |-> [p \in Slots |-> IF p \in part[c] THEN Head(queue[c][p]) ELSE Nothing],
          drift |-> drift] \in Frame
<1> DEFINE q == queue[c]
<1>1. q \in [Slots -> Seq(Payload)] /\ part[c] \in SUBSET Slots
  BY DEF TypeOK
<1>2. \A p \in part[c] : Head(q[p]) \in Payload
  BY <1>1, HeadTail
<1>3. [p \in Slots |-> IF p \in part[c] THEN Head(q[p]) ELSE Nothing] \in [Slots -> Payload]
  BY <1>2, Payloads
<1> QED BY <1>1, <1>3 DEF Frame

LEMMA ExecuteFrameTypes ==
  ASSUME TypeOK, NEW c \in Humans, NEW g \in Orders(c, Len(world[c]) + 1),
         NEW drift \in Drift, ExecuteFrame(c, g, drift)
  PROVE  TypeOK'
<1> DEFINE q == queue[c]
           f == [players |-> part[c],
                 gcs |-> [p \in Slots |-> IF p \in part[c] THEN Head(q[p]) ELSE Nothing],
                 drift |-> drift]
<1>1. q \in [Slots -> Seq(Payload)] /\ part[c] \in SUBSET Slots /\ world[c] \in Seq(Frame)
  BY DEF TypeOK
<1>2. \A p \in part[c] : q[p] # <<>>
  BY <1>1 DEF ExecuteFrame, Awaited
<1>3. f \in Frame
  BY <1>2, FrameTypes
<1>4. world' \in [Humans -> Seq(Frame)]
  <2>1. Append(world[c], f) \in Seq(Frame)
    BY <1>1, <1>3
  <2>2. world' = [world EXCEPT ![c] = Append(@, f)]
    BY DEF ExecuteFrame
  <2> QED BY <2>1, <2>2 DEF TypeOK
<1>5. queue' \in [Humans -> [Slots -> Seq(Payload)]]
  <2>1. [p \in Slots |-> IF p \in part[c] THEN Tail(q[p]) ELSE q[p]] \in [Slots -> Seq(Payload)]
    <3>1. \A p \in part[c] : Tail(q[p]) \in Seq(Payload)
      BY <1>1, <1>2, HeadTail
    <3> QED BY <1>1, <3>1
  <2> QED BY <2>1 DEF ExecuteFrame, TypeOK
<1>6. up' \in [Humans -> Seq(Message)]
  <2>1. Len(world[c]) + 1 \in 1..(MaxFrames + 1)
    BY <1>1, Constants DEF ExecuteFrame
  <2>2. g \in Payload
    BY <2>1, Payloads, Constants
  <2>3. Len(world[c]) + 1 \in Nat
    BY <2>1
  <2> QED BY <2>2, <2>3, SendUpTypes DEF ExecuteFrame
<1> QED
  BY <1>4, <1>5, <1>6 DEF ExecuteFrame, TypeOK, serverVars

LEMMA ClientTypes ==
  ASSUME TypeOK, CursorOK, NEW c \in Humans, Client(c) PROVE TypeOK'
<1>1. CASE ReadStart(c)
  <2>1. up' \in [Humans -> Seq(Message)]
    BY <1>1, SendUpTypes, Payloads DEF ReadStart
  <2>2. /\ rd' \in [Humans -> Nat] /\ cpause' \in [Humans -> BOOLEAN]
        /\ phase' \in [Humans -> {"config", "loading", "game", "lost"}]
    BY <1>1 DEF ReadStart, TypeOK
  <2>3. UNCHANGED <<serverVars, log, eof, queue, part, world, at>>
    BY <1>1 DEF ReadStart
  <2> QED BY <2>1, <2>2, <2>3 DEF TypeOK, serverVars
<1>2. CASE ReadGC(c)
  BY <1>2, ReadGCTypes
<1>3. CASE ReadKicked(c)
  BY SMTT(30), <1>3 DEF ReadKicked, TypeOK, serverVars
<1>4. CASE ReadPause(c)
  BY <1>4, ReadPauseTypes
<1>5. CASE ReadAsync(c)
  BY SMTT(30), <1>5 DEF ReadAsync, TypeOK, serverVars
<1>6. CASE RealStart(c)
  BY <1>6 DEF RealStart, TypeOK, serverVars
<1>7. CASE ServerLost(c)
  BY <1>7 DEF ServerLost, TypeOK, serverVars
<1>8. ASSUME NEW g \in Orders(c, Len(world[c]) + 1), NEW drift \in Drift,
             ExecuteFrame(c, g, drift)
      PROVE  TypeOK'
  BY <1>8, ExecuteFrameTypes
<1> QED
  BY <1>1, <1>2, <1>3, <1>4, <1>5, <1>6, <1>7, <1>8 DEF Client

-----------------------------------------------------------------------------
(* The server's steps extend the log.  At most one of the new entries is   *)
(* a contribution, and at records it.                                      *)

New == (Len(log) + 1)..Len(log')

LogGrows ==
  /\ Len(log') \in Nat /\ Len(log) <= Len(log')
  /\ \A i \in 1..Len(log) : log'[i] = log[i]

NoneNew == at' = at /\ \A i \in New : log'[i].type # "gc"

OneNew(p, j) ==
  /\ j \in New /\ log'[j].type = "gc" /\ log'[j].slot = p
  /\ at' = [at EXCEPT ![p] = Append(@, j)]
  /\ \A i \in New : i # j => log'[i].type # "gc"

Extends == LogGrows /\ (NoneNew \/ \E p \in Slots, j \in Nat : OneNew(p, j))

LEMMA SendGCExtends ==
  ASSUME TypeOK, NEW p \in Slots, NEW g \in Payload, SendGC(p, g) PROVE Extends
<1>1. /\ Len(log) \in Nat /\ Len(log') = Len(log) + 1
      /\ \A i \in 1..Len(log) : log'[i] = log[i]
      /\ log'[Len(log) + 1] = GC(p, g)
  <2>1. log \in Seq(Entry)
    BY DEF TypeOK
  <2> QED BY <2>1, SendGCTypes
<1>2. LogGrows
  BY <1>1 DEF LogGrows
<1>3. OneNew(p, Len(log) + 1)
  <2>1. at' = [at EXCEPT ![p] = Append(@, Len(log) + 1)]
    BY DEF SendGC
  <2> QED BY <1>1, <2>1, EntryTypes DEF OneNew, New
<1> QED BY <1>1, <1>2, <1>3 DEF Extends

LEMMA UnchangedExtends == ASSUME TypeOK, UNCHANGED <<log, at>> PROVE Extends
<1>1. log \in Seq(Entry) /\ Len(log) \in Nat
  BY DEF TypeOK
<1> QED BY <1>1 DEF Extends, LogGrows, NoneNew, New

(* Two new entries, the first of which is no contribution. *)
LEMMA TwoExtend ==
  ASSUME TypeOK, NEW d \in Entry, NEW e \in Entry, d.type # "gc",
         log' = Append(Append(log, d), e),
         \/ e.type # "gc" /\ at' = at
         \/ \E p \in Slots : /\ e.type = "gc" /\ e.slot = p
                             /\ at' = [at EXCEPT ![p] = Append(@, Len(log) + 2)]
  PROVE  Extends
<1>1. log \in Seq(Entry) /\ Len(log) \in Nat
  BY DEF TypeOK
<1>2. /\ Len(log') = Len(log) + 2
      /\ \A i \in 1..Len(log) : log'[i] = log[i]
      /\ log'[Len(log) + 1] = d /\ log'[Len(log) + 2] = e
  BY <1>1
<1>3. New = {Len(log) + 1, Len(log) + 2}
  BY <1>1, <1>2 DEF New
<1>4. LogGrows
  BY <1>1, <1>2 DEF LogGrows
<1>5. CASE e.type # "gc" /\ at' = at
  BY <1>2, <1>3, <1>4, <1>5 DEF Extends, NoneNew
<1>6. ASSUME NEW p \in Slots, e.type = "gc", e.slot = p,
             at' = [at EXCEPT ![p] = Append(@, Len(log) + 2)]
      PROVE  Extends
  <2>1. OneNew(p, Len(log) + 2)
    BY <1>1, <1>2, <1>3, <1>6 DEF OneNew
  <2> QED BY <1>1, <1>4, <2>1 DEF Extends
<1> QED BY <1>5, <1>6

LEMMA SendAIExtends ==
  ASSUME TypeOK, LoopOK, mode = "nwf", NEW p \in Slots, SendAI(p) PROVE Extends
<1>1. CASE ps[p] = "ki"
  <2>1. PICK g \in Orders(p, nr + 1) : SendGC(p, g)
    BY <1>1 DEF SendAI
  <2>2. nr + 1 \in 1..(MaxFrames + 1)
    BY Constants DEF TypeOK, LoopOK
  <2>3. g \in Payload
    BY <2>1, <2>2, Payloads
  <2> QED BY <2>1, <2>3, SendGCExtends
<1>2. CASE ps[p] # "ki"
  BY <1>2, UnchangedExtends DEF SendAI
<1> QED BY <1>1, <1>2

LEMMA ServerExtends ==
  ASSUME TypeOK, LoopOK, Server PROVE Extends /\ UNCHANGED clientVars
<1>1. CASE StartSlot
  <2>1. CASE ps[cur] = "ki"
    BY <1>1, <2>1, SendGCExtends, Payloads DEF StartSlot
  <2>2. CASE ps[cur] # "ki"
    BY <1>1, <2>2, UnchangedExtends DEF StartSlot
  <2> QED BY <1>1, <2>1, <2>2 DEF StartSlot
<1>2. CASE StartDone
  BY <1>2, UnchangedExtends DEF StartDone
<1>3. ASSUME NEW p \in Slots, RecvGC(p) PROVE Extends /\ UNCHANGED clientVars
  <2> DEFINE m == Head(up[conn[p]])
  <2>1. conn[p] \in Humans /\ up[conn[p]] \in Seq(Message) /\ up[conn[p]] # <<>>
    BY <1>3 DEF RecvGC, TypeOK
  <2>2. m.gcs \in Payload
    <3>1. m \in Message
      BY <2>1, HeadTail
    <3> QED BY <3>1 DEF Message
  <2>3. Forwarded(m.gcs) \in Payload
    BY <2>2, Payloads DEF Forwarded
  <2>4. SendGC(p, Forwarded(m.gcs))
    BY <1>3 DEF RecvGC
  <2>5. UNCHANGED clientVars
    BY <1>3 DEF RecvGC
  <2> QED BY <2>3, <2>4, <2>5, SendGCExtends
<1>4. ASSUME NEW p \in Slots, KickPlayer(p) PROVE Extends /\ UNCHANGED clientVars
  <2>1. /\ log' = Append(Append(log, Kicked(p)), GC(p, Nothing))
        /\ at' = [at EXCEPT ![p] = Append(@, Len(log) + 2)]
        /\ UNCHANGED clientVars
    BY <1>4 DEF KickPlayer
  <2>2. /\ Kicked(p) \in Entry /\ GC(p, Nothing) \in Entry
        /\ Kicked(p).type # "gc"
        /\ GC(p, Nothing).type = "gc" /\ GC(p, Nothing).slot = p
    BY Entries, EntryTypes, Payloads
  <2> QED BY <2>1, <2>2, TwoExtend
<1>5. CASE TogglePause
  <2>1. log' = Append(log, Pause(~pause)) /\ at' = at /\ UNCHANGED clientVars
    BY <1>5 DEF TogglePause, Send
  <2>2. Pause(~pause).type # "gc"
    BY EntryTypes
  <2>3. log \in Seq(Entry) /\ Len(log) \in Nat
    BY DEF TypeOK
  <2>4. /\ Len(log') = Len(log) + 1
        /\ \A i \in 1..Len(log) : log'[i] = log[i]
        /\ log'[Len(log) + 1] = Pause(~pause)
    BY <2>1, <2>3
  <2> QED BY <2>1, <2>2, <2>3, <2>4 DEF Extends, LogGrows, NoneNew, New
<1>6. CASE BeginNWF
  BY <1>6, UnchangedExtends DEF BeginNWF
<1>7. CASE EndNWF
  BY <1>7, UnchangedExtends DEF EndNWF
<1>8. ASSUME NEW p \in Slots, NWFMessage(p) PROVE Extends /\ UNCHANGED clientVars
  <2>1. (ReportAsync \/ SendAI(p)) /\ mode = "nwf" /\ UNCHANGED clientVars
    BY <1>8 DEF NWFMessage
  <2>2. CASE ReportAsync
    <3>1. (~pause) \in BOOLEAN
      BY DEF TypeOK
    <3>2. Async \in Entry /\ Pause(~pause) \in Entry
      BY <3>1, Entries, Zenon
    <3>3. Async.type # "gc" /\ Pause(~pause).type # "gc"
      BY EntryTypes
    <3>4. log' = Append(Append(log, Async), Pause(~pause)) /\ at' = at
      BY <2>2 DEF ReportAsync
    <3> QED BY <2>1, <3>2, <3>3, <3>4, TwoExtend
  <2> QED BY <2>1, <2>2, SendAIExtends
<1>9. ASSUME NEW p \in Slots, NWFNoMessage(p) PROVE Extends /\ UNCHANGED clientVars
  <2>1. SendAI(p) /\ mode = "nwf" /\ UNCHANGED clientVars
    BY <1>9 DEF NWFNoMessage
  <2> QED BY <2>1, SendAIExtends
<1> QED
  BY <1>1, <1>2, <1>3, <1>4, <1>5, <1>6, <1>7, <1>8, <1>9 DEF Server

(* What a client of the server has been sent at most grows with the log. *)
LEMMA ServerEof ==
  ASSUME TypeOK, CursorOK, Extends, Server PROVE \A c \in Humans : eof'[c] <= Len(log')
<1>1. Len(log) \in Nat /\ Len(log') \in Nat /\ Len(log) <= Len(log')
  <2>1. log \in Seq(Entry)
    BY DEF TypeOK
  <2> QED BY <2>1 DEF Extends, LogGrows
<1>2. eof \in [Humans -> Nat] /\ \A c \in Humans : eof[c] <= Len(log)
  BY DEF TypeOK, CursorOK
<1>3. eof' = eof \/ \E d \in Humans : eof' = [eof EXCEPT ![d] = Len(log)]
  <2>1. ASSUME NEW p \in Slots, KickPlayer(p)
        PROVE  \E d \in Humans : eof' = [eof EXCEPT ![d] = Len(log)]
    BY <2>1, Constants DEF KickPlayer
  <2> QED
    BY <2>1 DEF Server, StartSlot, StartDone, RecvGC, TogglePause, BeginNWF, EndNWF,
                NWFMessage, NWFNoMessage
<1> QED BY <1>1, <1>2, <1>3

(* How the places of the contributions grow. *)
LEMMA AtGrows ==
  ASSUME TypeOK, TypeOK', Extends, NEW q \in Slots
  PROVE  /\ Len(at[q]) \in Nat /\ Len(at'[q]) \in Nat /\ Len(at[q]) <= Len(at'[q])
         /\ \A n \in 1..Len(at[q]) : at'[q][n] = at[q][n]
         /\ \A n \in 1..Len(at'[q]) :
              \/ n \in 1..Len(at[q])
              \/ /\ n = Len(at[q]) + 1 /\ at'[q][n] \in New
                 /\ log'[at'[q][n]].type = "gc" /\ log'[at'[q][n]].slot = q
<1>1. at[q] \in Seq(Nat) /\ at'[q] \in Seq(Nat) /\ at \in [Slots -> Seq(Nat)]
  BY DEF TypeOK
<1>2. Len(at[q]) \in Nat /\ Len(at'[q]) \in Nat
  BY <1>1
<1>3. CASE at'[q] = at[q]
  BY <1>2, <1>3
<1>4. at'[q] = at[q] \/ \E j \in Nat : OneNew(q, j) /\ at'[q] = Append(at[q], j)
  <2>1. CASE NoneNew
    BY <2>1 DEF NoneNew
  <2>2. ASSUME NEW p \in Slots, NEW j \in Nat, OneNew(p, j)
        PROVE  at'[q] = at[q] \/ \E i \in Nat : OneNew(q, i) /\ at'[q] = Append(at[q], i)
    <3>1. at' = [at EXCEPT ![p] = Append(@, j)]
      BY <2>2 DEF OneNew
    <3> QED BY <1>1, <2>2, <3>1
  <2> QED BY <2>1, <2>2 DEF Extends
<1>5. CASE at'[q] # at[q]
  <2>1. PICK j \in Nat : OneNew(q, j) /\ at'[q] = Append(at[q], j)
    BY <1>4, <1>5
  <2>2. /\ Len(at'[q]) = Len(at[q]) + 1
        /\ \A n \in 1..Len(at[q]) : at'[q][n] = at[q][n]
        /\ at'[q][Len(at[q]) + 1] = j
    BY <1>1, <2>1
  <2>3. \A n \in 1..Len(at'[q]) : n \in 1..Len(at[q]) \/ n = Len(at[q]) + 1
    BY <1>2, <2>2
  <2>4. j \in New /\ log'[j].type = "gc" /\ log'[j].slot = q
    BY <2>1 DEF OneNew
  <2> QED BY <1>2, <2>2, <2>3, <2>4
<1> QED BY <1>3, <1>5

LEMMA NewPlace ==
  ASSUME TypeOK, TypeOK', Extends, NEW i \in New, log'[i].type = "gc"
  PROVE  \E n \in 1..Len(at'[log'[i].slot]) : at'[log'[i].slot][n] = i
<1>1. PICK p \in Slots, j \in Nat : OneNew(p, j)
  BY DEF Extends, NoneNew
<1>2. i = j /\ log'[i].slot = p
  BY <1>1 DEF OneNew
<1>3. at[p] \in Seq(Nat) /\ at \in [Slots -> Seq(Nat)]
  BY DEF TypeOK
<1>4. at'[p] = Append(at[p], j)
  BY <1>1, <1>3 DEF OneNew
<1>5. Len(at[p]) + 1 \in 1..Len(at'[p]) /\ at'[p][Len(at[p]) + 1] = j
  BY <1>3, <1>4
<1> QED BY <1>2, <1>5

(* A server's step decides nothing again. *)
LEMMA ContributionStable ==
  ASSUME TypeOK, TypeOK', PlacesOK, Extends, NEW p \in Slots, NEW n \in 1..Len(at[p])
  PROVE  n \in 1..Len(at'[p]) /\ Contribution(p, n)' = Contribution(p, n)
<1>1. at'[p][n] = at[p][n] /\ n \in 1..Len(at'[p])
  BY AtGrows
<1>2. at[p][n] \in 1..Len(log)
  BY DEF PlacesOK
<1>3. log'[at[p][n]] = log[at[p][n]]
  BY <1>2 DEF Extends, LogGrows
<1> QED BY <1>1, <1>3 DEF Contribution

LEMMA AppendIs ==
  ASSUME NEW S, NEW q \in Seq(S), NEW x \in S
  PROVE  /\ Append(q, x) \in Seq(S) /\ Len(q) \in Nat /\ Len(Append(q, x)) = Len(q) + 1
         /\ \A k \in 1..Len(q) : Append(q, x)[k] = q[k]
         /\ Append(q, x)[Len(q) + 1] = x
OBVIOUS

LEMMA MoveOne ==
  /\ \A w, q, r \in Nat : r = q + 1 => w + r = (w + q) + 1
  /\ \A w, q, r \in Nat : q >= 1 /\ r = q - 1 => (w + 1) + r = w + q
OBVIOUS

LEMMA SumNat == \A a, b \in Nat : a + b \in Nat
OBVIOUS

(* The k-th of q contributions held, when w have been executed. *)
LEMMA HeldPlace ==
  \A w, q, l \in Nat : \A k \in 1..q : w + q <= l => w + k \in 1..l
OBVIOUS

LEMMA Lengths ==
  ASSUME TypeOK, NEW c \in Humans, NEW p \in Slots
  PROVE  /\ Len(world[c]) \in Nat /\ Len(queue[c][p]) \in Nat
         /\ Delivered(c, p) = Len(world[c]) + Len(queue[c][p])
         /\ Delivered(c, p) \in Nat /\ Len(at[p]) \in Nat /\ Len(log) \in Nat
<1>1. world[c] \in Seq(Frame) /\ queue[c] \in [Slots -> Seq(Payload)] /\ at[p] \in Seq(Nat)
      /\ log \in Seq(Entry)
  BY DEF TypeOK
<1>2. queue[c][p] \in Seq(Payload)
  BY <1>1
<1>3. Len(world[c]) \in Nat /\ Len(queue[c][p]) \in Nat /\ Len(at[p]) \in Nat /\ Len(log) \in Nat
  BY <1>1, <1>2
<1>4. Delivered(c, p) = Len(world[c]) + Len(queue[c][p])
  BY DEF Delivered
<1> QED BY <1>3, <1>4, SumNat

LEMMA ServerPlaces ==
  ASSUME TypeOK, TypeOK', PlacesOK, PlacesOrdered, PlacesComplete, Extends
  PROVE  PlacesOK' /\ PlacesOrdered' /\ PlacesComplete'
<1>1. /\ Len(log) \in Nat /\ Len(log') \in Nat /\ Len(log) <= Len(log')
      /\ \A i \in 1..Len(log) : log'[i] = log[i]
  <2>1. log \in Seq(Entry)
    BY DEF TypeOK
  <2> QED BY <2>1 DEF Extends, LogGrows
<1>2. PlacesOK'
  <2> SUFFICES ASSUME NEW p \in Slots, NEW n \in 1..Len(at'[p])
               PROVE  /\ at'[p][n] \in 1..Len(log')
                      /\ log'[at'[p][n]].type = "gc" /\ log'[at'[p][n]].slot = p
    BY DEF PlacesOK
  <2>1. CASE n \in 1..Len(at[p])
    <3>1. at'[p][n] = at[p][n]
      BY <2>1, AtGrows
    <3>2. /\ at[p][n] \in 1..Len(log)
          /\ log[at[p][n]].type = "gc" /\ log[at[p][n]].slot = p
      BY <2>1 DEF PlacesOK
    <3> QED BY <1>1, <3>1, <3>2
  <2>2. CASE n \notin 1..Len(at[p])
    <3>1. /\ at'[p][n] \in New
          /\ log'[at'[p][n]].type = "gc" /\ log'[at'[p][n]].slot = p
      BY <2>2, AtGrows
    <3> QED BY <1>1, <3>1 DEF New
  <2> QED BY <2>1, <2>2
<1>3. PlacesOrdered'
  <2> SUFFICES ASSUME NEW p \in Slots, NEW m \in 1..Len(at'[p]), NEW n \in 1..Len(at'[p]), m < n
               PROVE  at'[p][m] < at'[p][n]
    BY DEF PlacesOrdered
  <2>1. Len(at[p]) \in Nat /\ Len(at'[p]) \in Nat
    BY AtGrows
  <2>2. m \in 1..Len(at[p])
    <3>1. n \in 1..Len(at[p]) \/ n = Len(at[p]) + 1
      BY AtGrows
    <3> QED BY <2>1, <3>1
  <2>3. at'[p][m] = at[p][m] /\ at[p][m] \in 1..Len(log)
    BY <2>2, AtGrows DEF PlacesOK
  <2>4. CASE n \in 1..Len(at[p])
    <3>1. at'[p][n] = at[p][n]
      BY <2>4, AtGrows
    <3> QED BY <2>2, <2>3, <2>4, <3>1 DEF PlacesOrdered
  <2>5. CASE n \notin 1..Len(at[p])
    <3>1. at'[p][n] \in New
      BY <2>5, AtGrows
    <3> QED BY <1>1, <2>3, <3>1 DEF New
  <2> QED BY <2>4, <2>5
<1>4. PlacesComplete'
  <2> SUFFICES ASSUME NEW i \in 1..Len(log'), log'[i].type = "gc"
               PROVE  \E n \in 1..Len(at'[log'[i].slot]) : at'[log'[i].slot][n] = i
    BY DEF PlacesComplete
  <2>1. CASE i \in 1..Len(log)
    <3>1. log'[i] = log[i]
      BY <1>1, <2>1
    <3>2. log[i] \in Entry
      BY <2>1 DEF TypeOK
    <3>3. log[i].slot \in Slots
      BY <3>1, <3>2, EntryTypes
    <3>4. PICK n \in 1..Len(at[log[i].slot]) : at[log[i].slot][n] = i
      BY <2>1, <3>1 DEF PlacesComplete
    <3>5. n \in 1..Len(at'[log[i].slot]) /\ at'[log[i].slot][n] = i
      BY SMTT(30), <3>3, <3>4, AtGrows
    <3> QED BY <3>1, <3>5
  <2>2. CASE i \notin 1..Len(log)
    <3>1. i \in New
      BY <1>1, <2>2 DEF New
    <3> QED BY <3>1, NewPlace
  <2> QED BY <2>1, <2>2
<1> QED BY <1>2, <1>3, <1>4

LEMMA ServerClients ==
  ASSUME TypeOK, TypeOK', PlacesOK, CursorOK, QueueOK, WorldOK, Extends,
         UNCHANGED clientVars, \A c \in Humans : eof'[c] <= Len(log')
  PROVE  CursorOK' /\ QueueOK' /\ WorldOK'
<1> USE DEF clientVars
<1>1. Len(log) \in Nat /\ Len(log') \in Nat /\ Len(log) <= Len(log')
  <2>1. log \in Seq(Entry)
    BY DEF TypeOK
  <2> QED BY <2>1 DEF Extends, LogGrows
<1>2. \A c \in Humans, p \in Slots : Delivered(c, p)' = Delivered(c, p)
  BY DEF Delivered
<1>3. \A c \in Humans : part[c] \subseteq Slots /\ part'[c] = part[c] /\ rd[c] \in Nat /\ rd'[c] = rd[c]
  BY DEF TypeOK
<1>4. \A c \in Humans, p \in Slots : /\ Len(world[c]) \in Nat /\ Len(queue[c][p]) \in Nat
                                      /\ Delivered(c, p) \in Nat
  BY Lengths
<1>5. CursorOK'
  <2>1. \A c \in Humans : rd[c] <= Len(log')
    BY <1>1, <1>3 DEF CursorOK
  <2>2. ASSUME NEW c \in Humans, NEW p \in part[c]
        PROVE  /\ Delivered(c, p) <= Len(at'[p])
               /\ \A n \in 1..Len(at'[p]) : at'[p][n] <= rd[c] <=> n <= Delivered(c, p)
    <3>1. p \in Slots /\ Delivered(c, p) <= Len(at[p])
      BY <1>3, <2>2 DEF CursorOK
    <3>2. Len(at[p]) \in Nat /\ Len(at'[p]) \in Nat /\ Len(at[p]) <= Len(at'[p])
      BY <3>1, AtGrows
    <3>3. ASSUME NEW n \in 1..Len(at'[p]) PROVE at'[p][n] <= rd[c] <=> n <= Delivered(c, p)
      <4>1. CASE n \in 1..Len(at[p])
        <5>1. at'[p][n] = at[p][n]
          BY <3>1, <4>1, AtGrows
        <5> QED BY <2>2, <4>1, <5>1 DEF CursorOK
      <4>2. CASE n \notin 1..Len(at[p])
        <5>1. n = Len(at[p]) + 1 /\ at'[p][n] \in New
          BY <3>1, <4>2, AtGrows
        <5>2. rd[c] <= Len(log)
          BY DEF CursorOK
        <5> QED BY <1>1, <1>3, <1>4, <3>1, <3>2, <5>1, <5>2 DEF New
      <4> QED BY <4>1, <4>2
    <3> QED BY <1>4, <3>1, <3>2, <3>3
  <2> QED BY <1>2, <1>3, <2>1, <2>2 DEF CursorOK
<1>6. QueueOK'
  <2> SUFFICES ASSUME NEW c \in Humans, NEW p \in part[c], NEW k \in 1..Len(queue[c][p])
               PROVE  queue[c][p][k] = Contribution(p, Len(world[c]) + k)'
    BY <1>3 DEF QueueOK
  <2>1. p \in Slots /\ Delivered(c, p) <= Len(at[p])
    BY <1>3 DEF CursorOK
  <2>2. Len(world[c]) + k \in 1..Len(at[p])
    <3>1. /\ Len(world[c]) \in Nat /\ Len(queue[c][p]) \in Nat /\ Len(at[p]) \in Nat
          /\ Delivered(c, p) = Len(world[c]) + Len(queue[c][p])
      BY <2>1, Lengths
    <3> QED BY <2>1, <3>1, HeldPlace
  <2>3. Contribution(p, Len(world[c]) + k)' = Contribution(p, Len(world[c]) + k)
    BY <2>1, <2>2, ContributionStable
  <2> QED BY <2>3 DEF QueueOK
<1>7. WorldOK'
  <2>1. ASSUME NEW c \in Humans, NEW k \in 1..Len(world[c]), NEW p \in part[c]
        PROVE  k <= Len(at'[p]) /\ world[c][k].gcs[p] = Contribution(p, k)'
    <3>1. p \in Slots /\ k <= Len(at[p]) /\ world[c][k].gcs[p] = Contribution(p, k)
      BY <1>3, <2>1 DEF WorldOK
    <3>2. k \in 1..Len(at[p])
      BY <1>4, <3>1, AtGrows
    <3>3. Contribution(p, k)' = Contribution(p, k) /\ k \in 1..Len(at'[p])
      BY <3>1, <3>2, ContributionStable
    <3> QED BY <3>1, <3>3, AtGrows
  <2> QED BY <1>3, <2>1 DEF WorldOK
<1> QED BY <1>5, <1>6, <1>7

-----------------------------------------------------------------------------
(* The clients' steps leave the log as it is.                              *)

(* Reading what is no contribution of slot p delivers nothing of p. *)
LEMMA Passed ==
  ASSUME TypeOK, PlacesOK, CursorOK, NEW c \in Humans, NEW p \in part[c],
         ~(log[rd[c] + 1].type = "gc" /\ log[rd[c] + 1].slot = p)
  PROVE  \A n \in 1..Len(at[p]) : at[p][n] <= rd[c] + 1 <=> n <= Delivered(c, p)
<1> SUFFICES ASSUME NEW n \in 1..Len(at[p])
             PROVE  at[p][n] <= rd[c] + 1 <=> n <= Delivered(c, p)
  OBVIOUS
<1>1. p \in Slots /\ rd[c] \in Nat
  BY DEF TypeOK
<1>2. at[p][n] \in Nat /\ at[p][n] # rd[c] + 1
  BY <1>1, Lengths DEF PlacesOK
<1>3. at[p][n] <= rd[c] <=> n <= Delivered(c, p)
  BY DEF CursorOK
<1> QED BY <1>1, <1>2, <1>3

(* The contribution a client reads is the next one of its slot. *)
LEMMA Taken ==
  ASSUME TypeOK, PlacesOK, PlacesOrdered, PlacesComplete, CursorOK,
         NEW c \in Humans, NEW p \in part[c], rd[c] + 1 \in 1..Len(log),
         log[rd[c] + 1].type = "gc", log[rd[c] + 1].slot = p
  PROVE  /\ Delivered(c, p) + 1 \in 1..Len(at[p])
         /\ at[p][Delivered(c, p) + 1] = rd[c] + 1
         /\ \A n \in 1..Len(at[p]) : at[p][n] <= rd[c] + 1 <=> n <= Delivered(c, p) + 1
<1> DEFINE d == Delivered(c, p)
<1>1. p \in Slots /\ rd[c] \in Nat
  BY DEF TypeOK
<1>2. d \in Nat /\ Len(at[p]) \in Nat
  BY <1>1, Lengths
<1>3. \A n \in 1..Len(at[p]) : at[p][n] \in Nat /\ (at[p][n] <= rd[c] <=> n <= d)
  <2>1. \A n \in 1..Len(at[p]) : at[p][n] \in 1..Len(log)
    BY <1>1 DEF PlacesOK
  <2> QED BY <1>1, <2>1, Lengths DEF CursorOK
<1>4. \A m, n \in 1..Len(at[p]) : m < n => at[p][m] < at[p][n]
  BY <1>1 DEF PlacesOrdered
<1>5. PICK n \in 1..Len(at[p]) : at[p][n] = rd[c] + 1
  BY DEF PlacesComplete
<1> HIDE DEF d
<1>6. n > d
  BY <1>1, <1>2, <1>3, <1>5
<1>7. d + 1 \in 1..Len(at[p])
  BY <1>2, <1>6
<1>8. n = d + 1
  <2>1. CASE d + 1 < n
    <3>1. at[p][d + 1] < rd[c] + 1
      BY <1>4, <1>5, <1>7, <2>1
    <3>2. at[p][d + 1] <= rd[c]
      BY <1>1, <1>3, <1>7, <3>1
    <3>3. d + 1 <= d
      BY <1>3, <1>7, <3>2
    <3> QED BY <1>2, <3>3
  <2> QED BY <1>2, <1>6, <2>1
<1>9. ASSUME NEW m \in 1..Len(at[p]) PROVE at[p][m] <= rd[c] + 1 <=> m <= d + 1
  <2>1. CASE m <= d
    BY <1>1, <1>2, <1>3, <2>1
  <2>2. CASE m = d + 1
    BY <1>1, <1>2, <1>5, <1>8, <2>2
  <2>3. CASE m > d + 1
    <3>1. rd[c] + 1 < at[p][m]
      BY <1>4, <1>5, <1>7, <1>8, <2>3
    <3> QED BY <1>1, <1>2, <1>3, <2>3, <3>1
  <2> QED BY <1>2, <2>1, <2>2, <2>3
<1> QED BY <1>5, <1>7, <1>8, <1>9 DEF d

(* The steps of a client which deliver and execute nothing. *)
LEMMA NoDelivery ==
  ASSUME TypeOK, PlacesOK, CursorOK, QueueOK, WorldOK, NEW c \in Humans,
         UNCHANGED <<log, at, eof, queue, world>>,
         \/ rd' = rd
         \/ /\ rd' = [rd EXCEPT ![c] = @ + 1]
            /\ rd[c] + 1 \in 1..Len(log) /\ log[rd[c] + 1].type # "gc",
         \A d \in Humans : /\ part'[d] \subseteq part[d]
                           /\ part'[d] # part[d] => world[d] = <<>>
                           /\ phase'[d] \in {"config", "loading"} =>
                                phase[d] \in {"config", "loading"}
  PROVE  CursorOK' /\ QueueOK' /\ WorldOK'
<1>1. CursorOK'
  <2>1. \A d \in Humans : rd'[d] <= Len(log)
    <3>1. rd \in [Humans -> Nat] /\ \A d \in Humans : rd[d] <= Len(log)
      BY DEF TypeOK, CursorOK
    <3>2. log \in Seq(Entry)
      BY DEF TypeOK
    <3>3. Len(log) \in Nat
      BY <3>2
    <3> QED BY <3>1, <3>3
  <2>2. ASSUME NEW d \in Humans, NEW p \in part'[d], NEW n \in 1..Len(at[p])
        PROVE  at[p][n] <= rd'[d] <=> n <= Delivered(d, p)
    <3>1. p \in part[d]
      BY <2>2
    <3>2. CASE rd'[d] = rd[d]
      BY <3>1, <3>2 DEF CursorOK
    <3>3. CASE rd'[d] # rd[d]
      <4>1. d = c /\ rd'[d] = rd[d] + 1 /\ log[rd[d] + 1].type # "gc"
        BY SMTT(30), <3>3 DEF TypeOK
      <4> QED BY <3>1, <4>1, Passed
    <3> QED BY <3>2, <3>3
  <2>3. \A d \in Humans : \A p : Delivered(d, p)' = Delivered(d, p)
    BY DEF Delivered
  <2> QED BY <2>1, <2>2, <2>3 DEF CursorOK
<1>2. QueueOK'
  BY DEF QueueOK, Contribution
<1>3. WorldOK'
  <2>1. ASSUME NEW d \in Humans, NEW k \in 1..Len(world[d])
        PROVE  /\ world[d][k].players = part'[d]
               /\ \A p \in part'[d] : /\ k <= Len(at[p])
                                      /\ world[d][k].gcs[p] = Contribution(p, k)
    <3>1. world[d] # <<>>
      BY <2>1
    <3>2. part'[d] = part[d]
      BY <3>1
    <3> QED BY <2>1, <3>2 DEF WorldOK
  <2> QED BY <2>1 DEF WorldOK, Contribution
<1> QED BY <1>1, <1>2, <1>3

(* OnNMSGameCommand appends the next contribution of its slot. *)
LEMMA ReadGCKeeps ==
  ASSUME TypeOK, PlacesOK, PlacesOrdered, PlacesComplete, CursorOK, QueueOK, WorldOK,
         NEW c \in Humans, ReadGC(c)
  PROVE  CursorOK' /\ QueueOK' /\ WorldOK'
<1> DEFINE w == Len(world[c])
<1>1. PICK s \in Slots, g \in Payload :
        /\ rd[c] + 1 \in 1..Len(log) /\ log[rd[c] + 1].type = "gc"
        /\ log[rd[c] + 1].slot = s /\ log[rd[c] + 1].gcs = g
  BY ReadTypes, EntryTypes DEF ReadGC, NextIs
<1>2. /\ UNCHANGED <<log, at, eof, world, part, phase>>
      /\ rd' = [rd EXCEPT ![c] = @ + 1]
      /\ queue' = [queue EXCEPT ![c][s] = Append(@, g)]
  BY <1>1 DEF ReadGC, Enqueue
<1>3. /\ rd \in [Humans -> Nat] /\ queue \in [Humans -> [Slots -> Seq(Payload)]]
      /\ \A d \in Humans : part[d] \subseteq Slots
  BY DEF TypeOK
<1>4. /\ Len(queue'[c][s]) = Len(queue[c][s]) + 1
      /\ \A k \in 1..Len(queue[c][s]) : queue'[c][s][k] = queue[c][s][k]
      /\ queue'[c][s][Len(queue[c][s]) + 1] = g
  <2>1. queue[c][s] \in Seq(Payload)
    BY <1>1, <1>3
  <2>2. queue'[c][s] = Append(queue[c][s], g)
    BY <1>1, <1>2, <1>3
  <2> QED BY <1>1, <2>1, <2>2, AppendIs
<1>5. \A d \in Humans, p \in Slots : d # c \/ p # s => queue'[d][p] = queue[d][p]
  BY <1>1, <1>2, <1>3
<1>6. /\ w \in Nat /\ Len(queue[c][s]) \in Nat
      /\ Delivered(c, s) = w + Len(queue[c][s]) /\ Delivered(c, s) \in Nat
  BY <1>1, Lengths
<1>7. \A d \in Humans, p \in Slots : d = c /\ p = s => Delivered(d, p)' = Delivered(d, p) + 1
  <2> SUFFICES ASSUME NEW d \in Humans, NEW p \in Slots, d = c, p = s
               PROVE  Delivered(d, p)' = Delivered(d, p) + 1
    OBVIOUS
  <2>1. world' = world
    BY <1>2
  <2>2. Delivered(d, p)' = w + Len(queue'[c][s])
    BY <2>1 DEF Delivered
  <2>3. Len(queue'[c][s]) \in Nat
    BY <1>4, <1>6
  <2> HIDE DEF w
  <2> QED BY <1>4, <1>6, <2>2, <2>3, MoveOne
<1>8. \A d \in Humans, p \in Slots : d # c \/ p # s => Delivered(d, p)' = Delivered(d, p)
  BY <1>2, <1>5 DEF Delivered
<1> HIDE DEF w
<1>9. CursorOK'
  <2>1. \A d \in Humans : rd'[d] <= Len(log)
    <3>1. \A d \in Humans : rd[d] <= Len(log)
      BY DEF CursorOK
    <3> QED BY <1>1, <1>2, <1>3, <3>1
  <2>2. ASSUME NEW d \in Humans, NEW p \in part[d]
        PROVE  /\ Delivered(d, p)' <= Len(at[p])
               /\ \A n \in 1..Len(at[p]) : at[p][n] <= rd'[d] <=> n <= Delivered(d, p)'
    <3>1. p \in Slots
      BY <1>3, <2>2
    <3>2. CASE d = c /\ p = s
      <4>1. /\ Delivered(c, s) + 1 \in 1..Len(at[s])
            /\ \A n \in 1..Len(at[s]) : at[s][n] <= rd[c] + 1 <=> n <= Delivered(c, s) + 1
        BY <1>1, <2>2, <3>2, Taken
      <4>2. rd'[c] = rd[c] + 1
        BY <1>2, <1>3
      <4>3. Delivered(c, s) + 1 <= Len(at[s])
        BY <1>6, <4>1
      <4>4. \A n \in 1..Len(at[s]) : at[s][n] <= rd'[c] <=> n <= Delivered(c, s) + 1
        BY <4>1, <4>2
      <4> QED BY <1>7, <3>1, <3>2, <4>3, <4>4
    <3>3. CASE d = c /\ p # s
      <4>1. \A n \in 1..Len(at[p]) : at[p][n] <= rd[c] + 1 <=> n <= Delivered(c, p)
        BY <1>1, <2>2, <3>3, Passed
      <4>2. rd'[c] = rd[c] + 1
        BY <1>2, <1>3
      <4> QED BY <1>8, <2>2, <3>1, <3>3, <4>1, <4>2 DEF CursorOK
    <3>4. CASE d # c
      <4>1. rd'[d] = rd[d]
        BY <1>2, <1>3, <3>4
      <4> QED BY <1>8, <2>2, <3>1, <3>4, <4>1 DEF CursorOK
    <3> QED BY <3>2, <3>3, <3>4
  <2>3. /\ UNCHANGED <<log, at, part, eof>>
    BY <1>2
  <2> QED BY <2>1, <2>2, <2>3 DEF CursorOK
<1>10. QueueOK'
  <2>1. ASSUME NEW d \in Humans, NEW p \in part[d], NEW k \in 1..Len(queue'[d][p])
        PROVE  queue'[d][p][k] = Contribution(p, Len(world[d]) + k)
    <3>1. p \in Slots
      BY <1>3, <2>1
    <3>2. CASE d # c \/ p # s
      <4>1. queue'[d][p] = queue[d][p]
        BY <1>5, <3>1, <3>2
      <4> QED BY <2>1, <4>1 DEF QueueOK
    <3>3. CASE d = c /\ p = s
      <4>1. CASE k \in 1..Len(queue[c][s])
        <5>1. queue'[d][p][k] = queue[d][p][k]
          BY <1>4, <3>3, <4>1
        <5>2. k \in 1..Len(queue[d][p])
          BY <3>3, <4>1
        <5>3. queue[d][p][k] = Contribution(p, Len(world[d]) + k)
          BY <2>1, <5>2 DEF QueueOK
        <5> QED BY <5>1, <5>3
      <4>2. CASE k = Len(queue[c][s]) + 1
        <5>1. at[s][Delivered(c, s) + 1] = rd[c] + 1
          BY <1>1, <2>1, <3>3, Taken
        <5>2. Contribution(s, Delivered(c, s) + 1) = g
          BY <1>1, <5>1 DEF Contribution
        <5>3. w + k = Delivered(c, s) + 1
          BY <1>6, <4>2
        <5> QED BY <1>4, <3>3, <4>2, <5>2, <5>3 DEF w
      <4> QED BY SMTT(30), <1>4, <1>6, <2>1, <3>3, <4>1, <4>2
    <3> QED BY <3>2, <3>3
  <2>2. UNCHANGED <<log, at, world, part>>
    BY <1>2
  <2> QED BY <2>1, <2>2 DEF QueueOK, Contribution
<1>11. WorldOK'
  BY <1>2 DEF WorldOK, Contribution
<1> QED BY <1>9, <1>10, <1>11

(* ExecuteGameFrame_Game takes the first contribution of every player. *)
LEMMA ExecuteKeeps ==
  ASSUME TypeOK, CursorOK, QueueOK, WorldOK, NEW c \in Humans,
         NEW g \in Orders(c, Len(world[c]) + 1), NEW drift \in Drift,
         ExecuteFrame(c, g, drift)
  PROVE  CursorOK' /\ QueueOK' /\ WorldOK'
<1> DEFINE q == queue[c]
           w == Len(world[c])
           f == [players |-> part[c],
                 gcs |-> [p \in Slots |-> IF p \in part[c] THEN Head(q[p]) ELSE Nothing],
                 drift |-> drift]
<1>1. /\ UNCHANGED <<log, at, eof, rd, part, phase>>
      /\ phase[c] = "game"
      /\ world' = [world EXCEPT ![c] = Append(@, f)]
      /\ queue' = [queue EXCEPT ![c] = [p \in Slots |-> IF p \in part[c] THEN Tail(@[p]) ELSE @[p]]]
  BY DEF ExecuteFrame
<1>2. /\ q \in [Slots -> Seq(Payload)] /\ queue \in [Humans -> [Slots -> Seq(Payload)]]
      /\ world[c] \in Seq(Frame) /\ world \in [Humans -> Seq(Frame)]
      /\ \A d \in Humans : part[d] \subseteq Slots
  BY DEF TypeOK
<1>3. w \in Nat /\ Len(world'[c]) = w + 1
      /\ (\A k \in 1..w : world'[c][k] = world[c][k])
      /\ world'[c][w + 1] = f
  <2>1. world'[c] = Append(world[c], f)
    BY <1>1, <1>2
  <2>2. f \in Frame
    <3>1. \A p \in part[c] : queue[c][p] # <<>>
      BY <1>2 DEF ExecuteFrame, Awaited
    <3> QED BY <3>1, FrameTypes
  <2> HIDE DEF f
  <2> QED BY <1>2, <2>1, <2>2, AppendIs
<1>4. \A p \in part[c] : q[p] # <<>>
  BY <1>2 DEF ExecuteFrame, Awaited
<1>5. \A p \in part[c] : /\ Len(q[p]) \in Nat /\ Len(q[p]) >= 1
                         /\ Head(q[p]) = q[p][1]
                         /\ Len(queue'[c][p]) = Len(q[p]) - 1
                         /\ \A k \in 1..(Len(q[p]) - 1) : queue'[c][p][k] = q[p][k + 1]
  <2> SUFFICES ASSUME NEW p \in part[c]
               PROVE  /\ Len(q[p]) \in Nat /\ Len(q[p]) >= 1
                      /\ Head(q[p]) = q[p][1]
                      /\ Len(queue'[c][p]) = Len(q[p]) - 1
                      /\ \A k \in 1..(Len(q[p]) - 1) : queue'[c][p][k] = q[p][k + 1]
    OBVIOUS
  <2>1. p \in Slots /\ q[p] \in Seq(Payload) /\ q[p] # <<>>
    BY <1>2, <1>4
  <2>2. queue'[c][p] = Tail(q[p])
    BY <1>1, <1>2, <2>1
  <2> HIDE DEF q
  <2> QED BY <2>1, <2>2
<1>6. \A d \in Humans : d # c => queue'[d] = queue[d] /\ world'[d] = world[d]
  BY <1>1, <1>2
<1>7. \A d \in Humans : \A p \in part[d] : Delivered(d, p)' = Delivered(d, p)
  <2> SUFFICES ASSUME NEW d \in Humans, NEW p \in part[d]
               PROVE  Delivered(d, p)' = Delivered(d, p)
    OBVIOUS
  <2>1. CASE d = c
    <3>1. Delivered(c, p)' = Len(world'[c]) + Len(queue'[c][p])
      BY DEF Delivered
    <3>2. Delivered(c, p) = w + Len(q[p])
      BY DEF Delivered
    <3>3. Len(q[p]) \in Nat /\ Len(q[p]) >= 1 /\ Len(queue'[c][p]) = Len(q[p]) - 1
      BY <1>5, <2>1
    <3>4. Len(queue'[c][p]) \in Nat
      BY <3>3
    <3> HIDE DEF w, q
    <3>5. (w + 1) + Len(queue'[c][p]) = w + Len(q[p])
      BY <1>3, <3>3, <3>4, MoveOne
    <3> QED BY <1>3, <2>1, <3>1, <3>2, <3>5
  <2>2. CASE d # c
    BY <1>6, <2>2 DEF Delivered
  <2> QED BY <2>1, <2>2
<1>8. CursorOK'
  BY <1>1, <1>7 DEF CursorOK
<1>9. QueueOK'
  <2>1. ASSUME NEW d \in Humans, NEW p \in part[d], NEW k \in 1..Len(queue'[d][p])
        PROVE  queue'[d][p][k] = Contribution(p, Len(world'[d]) + k)
    <3>1. CASE d # c
      BY <1>6, <2>1, <3>1 DEF QueueOK
    <3>2. CASE d = c
      <4>1. k \in 1..(Len(q[p]) - 1)
        BY <1>5, <2>1, <3>2
      <4>2. k + 1 \in 1..Len(q[p])
        BY <1>5, <2>1, <3>2, <4>1
      <4>3. q[p][k + 1] = Contribution(p, w + (k + 1))
        BY <2>1, <3>2, <4>2 DEF QueueOK
      <4>4. queue'[c][p][k] = q[p][k + 1]
        BY <1>5, <2>1, <3>2, <4>1
      <4> HIDE DEF w, q
      <4>5. Len(world'[c]) + k = w + (k + 1)
        BY <1>3, <4>1
      <4> QED BY <3>2, <4>3, <4>4, <4>5
    <3> QED BY <3>1, <3>2
  <2>2. UNCHANGED <<log, at, part>>
    BY <1>1
  <2> QED BY <2>1, <2>2 DEF QueueOK, Contribution
<1>10. WorldOK'
  <2>1. ASSUME NEW d \in Humans, NEW k \in 1..Len(world'[d])
        PROVE  /\ world'[d][k].players = part[d]
               /\ \A p \in part[d] : /\ k <= Len(at[p])
                                     /\ world'[d][k].gcs[p] = Contribution(p, k)
    <3>1. CASE d # c
      BY <1>6, <2>1, <3>1 DEF WorldOK
    <3>2. CASE d = c /\ k \in 1..w
      BY <1>3, <3>2 DEF WorldOK
    <3>3. CASE d = c /\ k = w + 1
      <4>1. world'[d][k] = f
        BY <1>3, <3>3
      <4>2. f.players = part[c]
        OBVIOUS
      <4>3. ASSUME NEW p \in part[c]
            PROVE  k <= Len(at[p]) /\ f.gcs[p] = Contribution(p, k)
        <5>1. p \in Slots
          BY <1>2, <4>3
        <5>2. f.gcs[p] = q[p][1]
          BY <1>5, <4>3, <5>1
        <5>3. q[p][1] = Contribution(p, w + 1)
          BY <1>5, <4>3 DEF QueueOK
        <5>4. Delivered(c, p) <= Len(at[p])
          BY <4>3 DEF CursorOK
        <5>5. Delivered(c, p) = w + Len(q[p]) /\ Len(at[p]) \in Nat
          BY <5>1, Lengths
        <5> HIDE DEF w, q
        <5>6. w + 1 <= Len(at[p])
          BY <1>3, <1>5, <4>3, <5>4, <5>5
        <5> QED BY <3>3, <5>2, <5>3, <5>6
      <4> QED BY <3>3, <4>1, <4>2, <4>3
    <3> QED BY <1>3, <2>1, <3>1, <3>2, <3>3
  <2>2. \A d \in Humans : phase[d] \in {"config", "loading"} => world'[d] = <<>>
    BY <1>1, <1>6 DEF WorldOK
  <2> QED BY <1>1, <2>1, <2>2 DEF WorldOK, Contribution
<1> QED BY <1>8, <1>9, <1>10

-----------------------------------------------------------------------------
(* The invariant.                                                          *)

LEMMA InitInv == Init => IInv
<1> SUFFICES ASSUME Init PROVE IInv
  OBVIOUS
<1>1. TypeOK
  BY InitTypes
<1>2. Len(log) = 1 /\ log[1] = Start
  BY DEF Init
<1>3. \A p \in Slots : Len(at[p]) = 0
  BY DEF Init
<1>4. \A c \in Humans : /\ Len(world[c]) = 0 /\ world[c] = <<>> /\ part[c] = Slots
                        /\ rd[c] = 0 /\ eof[c] = 0
                        /\ \A p \in Slots : Len(queue[c][p]) = 0
  BY Constants DEF Init
<1>5. PlacesOK /\ PlacesOrdered
  BY <1>3 DEF PlacesOK, PlacesOrdered
<1>6. PlacesComplete
  BY <1>2, EntryTypes DEF PlacesComplete
<1>7. CursorOK
  <2>1. ASSUME NEW c \in Humans, NEW p \in part[c]
        PROVE  /\ p \in Slots /\ Delivered(c, p) <= Len(at[p])
               /\ \A n \in 1..Len(at[p]) : at[p][n] <= rd[c] <=> n <= Delivered(c, p)
    <3>1. p \in Slots
      BY <1>4, <2>1
    <3>2. Delivered(c, p) = Len(world[c]) + Len(queue[c][p])
      BY <1>1, <3>1, Lengths
    <3>3. Delivered(c, p) = 0
      <4>1. Len(world[c]) = 0 /\ Len(queue[c][p]) = 0
        BY <1>4, <3>1
      <4> QED BY <3>2, <4>1
    <3> QED BY <1>3, <3>1, <3>3
  <2>2. \A c \in Humans : rd[c] <= Len(log) /\ eof[c] <= Len(log)
    BY <1>2, <1>4
  <2> QED BY <2>1, <2>2 DEF CursorOK
<1>8. QueueOK
  <2> SUFFICES ASSUME NEW c \in Humans, NEW p \in part[c], NEW k \in 1..Len(queue[c][p])
               PROVE  FALSE
    BY DEF QueueOK
  <2>1. Len(queue[c][p]) = 0
    BY <1>4
  <2> QED BY <2>1
<1>9. WorldOK
  BY <1>4 DEF WorldOK
<1>10. LoopOK
  BY DEF Init, LoopOK
<1> QED
  BY <1>1, <1>5, <1>6, <1>7, <1>8, <1>9, <1>10 DEF IInv

LEMMA ServerLoop == LoopOK /\ Server => LoopOK'
BY DEF LoopOK, Server, StartSlot, StartDone, RecvGC, KickPlayer, TogglePause, BeginNWF,
       EndNWF, NWFMessage, NWFNoMessage

LEMMA ServerKeeps == ASSUME IInv, Server PROVE IInv'
<1>1. TypeOK' /\ LoopOK'
  BY ServerTypes, ServerLoop DEF IInv
<1>2. Extends /\ UNCHANGED clientVars
  BY ServerExtends DEF IInv
<1>3. \A c \in Humans : eof'[c] <= Len(log')
  BY <1>2, ServerEof DEF IInv
<1>4. PlacesOK' /\ PlacesOrdered' /\ PlacesComplete'
  BY <1>1, <1>2, ServerPlaces DEF IInv
<1>5. CursorOK' /\ QueueOK' /\ WorldOK'
  BY <1>1, <1>2, <1>3, ServerClients DEF IInv
<1> QED BY <1>1, <1>4, <1>5 DEF IInv

LEMMA ClientKeeps == ASSUME IInv, NEW c \in Humans, Client(c) PROVE IInv'
<1>1. TypeOK'
  BY ClientTypes DEF IInv
<1>2. UNCHANGED <<serverVars, log, at>>
  BY DEF Client, ReadStart, ReadGC, ReadKicked, ReadPause, ReadAsync, RealStart,
         ServerLost, ExecuteFrame
<1>3. LoopOK' /\ PlacesOK' /\ PlacesOrdered' /\ PlacesComplete'
  BY <1>2 DEF IInv, LoopOK, PlacesOK, PlacesOrdered, PlacesComplete, serverVars
<1>4. CursorOK' /\ QueueOK' /\ WorldOK'
  <2> USE DEF IInv
  <2>1. CASE ReadStart(c)
    <3>1. rd[c] + 1 \in 1..Len(log) /\ log[rd[c] + 1].type # "gc"
      BY <2>1, ReadTypes, EntryTypes DEF ReadStart
    <3>2. \A d \in Humans : phase'[d] \in {"config", "loading"} => phase[d] \in {"config", "loading"}
      BY <2>1 DEF ReadStart, TypeOK
    <3>3. UNCHANGED <<log, at, eof, queue, world, part>> /\ rd' = [rd EXCEPT ![c] = @ + 1]
      BY <2>1 DEF ReadStart
    <3> QED BY <3>1, <3>2, <3>3, NoDelivery
  <2>2. CASE ReadGC(c)
    BY <2>2, ReadGCKeeps
  <2>3. CASE ReadKicked(c)
    <3>1. rd[c] + 1 \in 1..Len(log) /\ log[rd[c] + 1].type # "gc"
      BY <2>3, ReadTypes DEF ReadKicked, NextIs
    <3>2. /\ UNCHANGED <<log, at, eof, queue, world, phase>>
          /\ rd' = [rd EXCEPT ![c] = @ + 1]
      BY <2>3 DEF ReadKicked
    <3>3. \A d \in Humans : part'[d] \subseteq part[d] /\ (part'[d] # part[d] => world[d] = <<>>)
      <4>1. phase[c] = "game" \/ world[c] = <<>>
        BY <2>3 DEF ReadKicked, NextIs, WorldOK
      <4> QED BY <2>3, <4>1 DEF ReadKicked, StillPlays, TypeOK
    <3> QED BY <3>1, <3>2, <3>3, NoDelivery
  <2>4. CASE ReadPause(c)
    <3>1. rd[c] + 1 \in 1..Len(log) /\ log[rd[c] + 1].type # "gc"
      BY <2>4, ReadTypes DEF ReadPause, NextIs
    <3>2. /\ UNCHANGED <<log, at, eof, queue, world, phase, part>>
          /\ rd' = [rd EXCEPT ![c] = @ + 1]
      BY <2>4 DEF ReadPause
    <3> QED BY <3>1, <3>2, NoDelivery
  <2>5. CASE ReadAsync(c)
    <3>1. rd[c] + 1 \in 1..Len(log) /\ log[rd[c] + 1].type # "gc"
      BY <2>5, ReadTypes DEF ReadAsync, NextIs
    <3>2. /\ UNCHANGED <<log, at, eof, queue, world, phase, part>>
          /\ rd' = [rd EXCEPT ![c] = @ + 1]
      BY <2>5 DEF ReadAsync
    <3> QED BY <3>1, <3>2, NoDelivery
  <2>6. CASE RealStart(c)
    <3>1. \A d \in Humans : phase'[d] \in {"config", "loading"} => phase[d] \in {"config", "loading"}
      BY <2>6 DEF RealStart, TypeOK
    <3>2. UNCHANGED <<log, at, eof, queue, world, part, rd>>
      BY <2>6 DEF RealStart
    <3> QED BY <3>1, <3>2, NoDelivery
  <2>7. CASE ServerLost(c)
    <3>1. \A d \in Humans : phase'[d] \in {"config", "loading"} => phase[d] \in {"config", "loading"}
      BY <2>7 DEF ServerLost, TypeOK
    <3>2. UNCHANGED <<log, at, eof, queue, world, part, rd>>
      BY <2>7 DEF ServerLost
    <3> QED BY <3>1, <3>2, NoDelivery
  <2>8. ASSUME NEW g \in Orders(c, Len(world[c]) + 1), NEW drift \in Drift,
               ExecuteFrame(c, g, drift)
        PROVE  CursorOK' /\ QueueOK' /\ WorldOK'
    BY <2>8, ExecuteKeeps
  <2> QED
    BY <2>1, <2>2, <2>3, <2>4, <2>5, <2>6, <2>7, <2>8 DEF Client
<1> QED BY <1>1, <1>3, <1>4 DEF IInv

LEMMA StutterKeeps == IInv /\ UNCHANGED vars => IInv'
<1> SUFFICES ASSUME IInv, UNCHANGED vars PROVE IInv'
  OBVIOUS
<1> USE DEF vars, serverVars, clientVars
<1>1. TypeOK' /\ LoopOK'
  BY DEF IInv, TypeOK, LoopOK
<1>2. PlacesOK' /\ PlacesOrdered' /\ PlacesComplete'
  BY SMTT(30) DEF IInv, PlacesOK, PlacesOrdered, PlacesComplete
<1>3. CursorOK' /\ QueueOK' /\ WorldOK'
  <2>1. \A c \in Humans, p \in Slots : Delivered(c, p)' = Delivered(c, p)
    BY DEF Delivered
  <2>2. \A p \in Slots : \A n : Contribution(p, n)' = Contribution(p, n)
    BY DEF Contribution
  <2>3. \A c \in Humans : part[c] \subseteq Slots
    BY DEF IInv, TypeOK
  <2>4. CursorOK'
    BY <2>1, <2>3 DEF IInv, CursorOK
  <2>5. QueueOK' /\ WorldOK'
    BY <2>2, <2>3 DEF IInv, QueueOK, WorldOK
  <2> QED BY <2>4, <2>5
<1> QED BY <1>1, <1>2, <1>3 DEF IInv

(* The invariant is inductive. *)
THEOREM Invariance == Spec => []IInv
<1>1. IInv /\ [Next]_vars => IInv'
  <2> SUFFICES ASSUME IInv, [Next]_vars PROVE IInv'
    OBVIOUS
  <2>1. CASE Next
    BY <2>1, ServerKeeps, ClientKeeps DEF Next
  <2>2. CASE UNCHANGED vars
    BY <2>2, StutterKeeps
  <2> QED BY <2>1, <2>2
<1> QED BY <1>1, InitInv, PTL DEF Spec

(* Every reachable state of server, clients and connections has the types  *)
(* the code gives them, for any number of slots, humans and frames.        *)
THEOREM TypeCorrect == Spec => []TypeOK
<1>1. IInv => TypeOK
  BY DEF IInv
<1> QED BY <1>1, Invariance, PTL

(* Every client executes, frame by frame and slot by slot, exactly the     *)
(* slot's broadcast commands in the order of the broadcasts                *)
(* (ExecuteGameFrame_Game), also across kicks, switches, pauses, AIs that  *)
(* take over, and a slot this client cleared while it was loading.         *)
THEOREM BroadcastsExecuted == Spec => []ExecutesBroadcasts
<1>1. IInv => ExecutesBroadcasts
  BY DEF IInv, WorldOK, ExecutesBroadcasts
<1> QED BY <1>1, Invariance, PTL

-----------------------------------------------------------------------------
(* While nobody is kicked during loading, every client has the same players. *)

NoNewKick == \A i \in New : log'[i].type # "kick"

LEMMA SendGCNoKick ==
  ASSUME TypeOK, NEW p \in Slots, NEW g \in Payload, SendGC(p, g) PROVE NoNewKick
<1>1. Len(log) \in Nat /\ Len(log') = Len(log) + 1 /\ log'[Len(log) + 1] = GC(p, g)
  <2>1. log \in Seq(Entry)
    BY DEF TypeOK
  <2> QED BY <2>1, SendGCTypes
<1> QED BY <1>1, EntryTypes DEF NoNewKick, New

LEMMA UnchangedNoKick == ASSUME TypeOK, log' = log PROVE NoNewKick
<1>1. Len(log) \in Nat
  BY DEF TypeOK
<1> QED BY <1>1 DEF NoNewKick, New

LEMMA SendAINoKick ==
  ASSUME TypeOK, LoopOK, mode = "nwf", NEW p \in Slots, SendAI(p) PROVE NoNewKick
<1>1. CASE ps[p] = "ki"
  <2>1. PICK g \in Orders(p, nr + 1) : SendGC(p, g)
    BY <1>1 DEF SendAI
  <2>2. nr + 1 \in 1..(MaxFrames + 1)
    BY Constants DEF TypeOK, LoopOK
  <2>3. g \in Payload
    BY <2>1, <2>2, Payloads
  <2> QED BY <2>1, <2>3, SendGCNoKick
<1>2. CASE ps[p] # "ki"
  BY <1>2, UnchangedNoKick DEF SendAI
<1> QED BY <1>1, <1>2

(* Only KickPlayer announces that a player was kicked. *)
LEMMA ServerNoKick ==
  ASSUME TypeOK, LoopOK, Server PROVE NoNewKick \/ \E p \in Slots : KickPlayer(p)
<1>1. CASE StartSlot
  <2>1. CASE ps[cur] = "ki"
    BY <1>1, <2>1, SendGCNoKick, Payloads DEF StartSlot
  <2>2. CASE ps[cur] # "ki"
    BY <1>1, <2>2, UnchangedNoKick DEF StartSlot
  <2> QED BY <2>1, <2>2
<1>2. CASE StartDone \/ BeginNWF \/ EndNWF
  BY <1>2, UnchangedNoKick DEF StartDone, BeginNWF, EndNWF
<1>3. ASSUME NEW p \in Slots, RecvGC(p) PROVE NoNewKick
  <2> DEFINE m == Head(up[conn[p]])
  <2>1. conn[p] \in Humans /\ up[conn[p]] \in Seq(Message) /\ up[conn[p]] # <<>>
    BY <1>3 DEF RecvGC, TypeOK
  <2>2. m.gcs \in Payload
    <3>1. m \in Message
      BY <2>1, HeadTail
    <3> QED BY <3>1 DEF Message
  <2>3. Forwarded(m.gcs) \in Payload
    BY <2>2, Payloads DEF Forwarded
  <2>4. SendGC(p, Forwarded(m.gcs))
    BY <1>3 DEF RecvGC
  <2> QED BY <2>3, <2>4, SendGCNoKick
<1>4. ASSUME NEW b \in BOOLEAN, Send(Pause(b)) PROVE NoNewKick
  <2>1. log \in Seq(Entry) /\ Len(log) \in Nat
    BY DEF TypeOK
  <2>2. Len(log') = Len(log) + 1 /\ log'[Len(log) + 1] = Pause(b)
    BY <1>4, <2>1 DEF Send
  <2> QED BY <2>1, <2>2, EntryTypes DEF NoNewKick, New
<1>5. CASE TogglePause
  <2>1. (~pause) \in BOOLEAN /\ Send(Pause(~pause))
    BY <1>5 DEF TogglePause
  <2> QED BY <1>4, <2>1
<1>6. ASSUME NEW p \in Slots, NWFMessage(p) PROVE NoNewKick
  <2>1. (ReportAsync \/ SendAI(p)) /\ mode = "nwf"
    BY <1>6 DEF NWFMessage
  <2>2. CASE ReportAsync
    <3>1. log \in Seq(Entry) /\ Len(log) \in Nat
      BY DEF TypeOK
    <3>2. /\ Len(log') = Len(log) + 2
          /\ log'[Len(log) + 1] = Async /\ log'[Len(log) + 2] = Pause(~pause)
      BY <2>2, <3>1 DEF ReportAsync
    <3>3. Async.type # "kick" /\ Pause(~pause).type # "kick"
      BY EntryTypes
    <3> QED BY <3>1, <3>2, <3>3 DEF NoNewKick, New
  <2> QED BY <2>1, <2>2, SendAINoKick
<1>7. ASSUME NEW p \in Slots, NWFNoMessage(p) PROVE NoNewKick
  BY <1>7, SendAINoKick DEF NWFNoMessage
<1> QED BY <1>1, <1>2, <1>3, <1>5, <1>6, <1>7 DEF Server

LEMMA InitAllPlay == Init => AllPlay
<1> SUFFICES ASSUME Init PROVE AllPlay
  OBVIOUS
<1>1. Len(log) = 1 /\ log[1] = Start
  BY DEF Init
<1>2. \A c \in Humans : part[c] = Slots
  BY DEF Init
<1> QED BY <1>1, <1>2, EntryTypes DEF AllPlay

LEMMA NextAllPlay == ASSUME IInv, AllPlay, [Next]_vars PROVE AllPlay'
<1> SUFFICES ASSUME ~LoadingKicks
             PROVE  /\ \A c \in Humans : part'[c] = Slots
                    /\ (\E i \in 1..Len(log') : log'[i].type = "kick") =>
                          \A c \in Humans : phase'[c] \in {"game", "lost"}
  BY DEF AllPlay
<1>1. \A c \in Humans : part[c] = Slots
  BY DEF AllPlay
<1>2. (\E i \in 1..Len(log) : log[i].type = "kick") =>
        \A c \in Humans : phase[c] \in {"game", "lost"}
  BY DEF AllPlay
<1>3. CASE Server
  <2>1. LogGrows /\ UNCHANGED <<phase, part>>
    BY <1>3, ServerExtends DEF IInv, Extends, clientVars
  <2>2. ASSUME NEW i \in 1..Len(log'), log'[i].type = "kick"
        PROVE  \A c \in Humans : phase[c] \in {"game", "lost"}
    <3>1. CASE NoNewKick
      <4>1. i \in 1..Len(log)
        <5>1. Len(log) \in Nat
          BY DEF IInv, TypeOK
        <5> QED BY <2>1, <2>2, <3>1, <5>1 DEF NoNewKick, New, LogGrows
      <4> QED BY <1>2, <2>1, <2>2, <4>1 DEF LogGrows
    <3>2. CASE \E p \in Slots : KickPlayer(p)
      BY <3>2 DEF KickPlayer
    <3> QED BY <1>3, <3>1, <3>2, ServerNoKick DEF IInv
  <2> QED BY <1>1, <2>1, <2>2
<1>4. ASSUME NEW c \in Humans, Client(c)
      PROVE  /\ \A d \in Humans : part'[d] = Slots
             /\ (\E i \in 1..Len(log') : log'[i].type = "kick") =>
                   \A d \in Humans : phase'[d] \in {"game", "lost"}
  <2>1. CASE ReadStart(c)
    <3>1. phase[c] = "config" /\ UNCHANGED <<log, part>>
      BY <2>1 DEF ReadStart
    <3> QED BY <1>1, <1>2, <3>1
  <2>2. CASE ReadKicked(c)
    <3>1. rd[c] + 1 \in 1..Len(log) /\ log[rd[c] + 1].type = "kick"
      BY <2>2, ReadTypes DEF ReadKicked, NextIs, IInv
    <3>2. phase[c] = "game"
      BY <1>2, <2>2, <3>1 DEF ReadKicked, NextIs
    <3>3. UNCHANGED <<log, phase, part>>
      BY <2>2, <3>2 DEF ReadKicked, StillPlays
    <3> QED BY <1>1, <1>2, <3>3
  <2>3. CASE RealStart(c) \/ ServerLost(c)
    <3>1. UNCHANGED <<log, part>> /\ \A d \in Humans : phase'[d] = phase[d] \/ phase'[d] \in {"game", "lost"}
      BY <2>3 DEF RealStart, ServerLost, IInv, TypeOK
    <3> QED BY <1>1, <1>2, <3>1
  <2>4. CASE UNCHANGED <<log, phase, part>>
    BY <1>1, <1>2, <2>4
  <2> QED
    BY <1>4, <2>1, <2>2, <2>3, <2>4 DEF Client, ReadGC, ReadPause, ReadAsync, ExecuteFrame
<1>5. CASE UNCHANGED vars
  BY <1>1, <1>2, <1>5 DEF vars, clientVars
<1> QED BY <1>3, <1>4, <1>5 DEF Next

LEMMA PlayersAgree == Spec => []AllPlay
<1>1. IInv /\ AllPlay /\ [Next]_vars => AllPlay'
  BY NextAllPlay
<1> QED BY <1>1, InitAllPlay, Invariance, PTL DEF Spec

LEMMA SameFunction ==
  \A S, T : \A f, g \in [S -> T] : (\A x \in S : f[x] = g[x]) => f = g
OBVIOUS

LEMMA SameFramesInv == ASSUME IInv, AllPlay, ~LoadingKicks PROVE SameFrames
<1> SUFFICES ASSUME NEW c \in Humans, NEW d \in Humans, NEW k \in 1..Len(world[c]),
                    k <= Len(world[d])
             PROVE  /\ world[c][k].players = world[d][k].players
                    /\ world[c][k].gcs = world[d][k].gcs
  BY DEF SameFrames
<1>1. world[c] \in Seq(Frame) /\ world[d] \in Seq(Frame)
  BY DEF IInv, TypeOK
<1>2. k \in 1..Len(world[d])
  BY <1>1
<1>3. part[c] = Slots /\ part[d] = Slots
  BY DEF AllPlay
<1>4. ASSUME NEW a \in Humans, k \in 1..Len(world[a]), part[a] = Slots
      PROVE  /\ world[a][k].players = Slots
             /\ \A p \in Slots : world[a][k].gcs[p] = Contribution(p, k)
  <2>1. k \in 1..Len(world[a])
    BY <1>4
  <2>2. WorldOK
    BY DEF IInv
  <2>3. world[a][k].players = part[a]
    BY <2>1, <2>2 DEF WorldOK
  <2>4. \A p \in part[a] : world[a][k].gcs[p] = Contribution(p, k)
    BY <2>1, <2>2 DEF WorldOK
  <2> QED BY <1>4, <2>3, <2>4
<1>5. \A p \in Slots : world[c][k].gcs[p] = world[d][k].gcs[p]
  BY <1>2, <1>3, <1>4
<1>6. world[c][k] \in Frame /\ world[d][k] \in Frame
  BY <1>1, <1>2
<1>7. world[c][k].gcs \in [Slots -> Payload] /\ world[d][k].gcs \in [Slots -> Payload]
  BY <1>6 DEF Frame
<1>8. world[c][k].gcs = world[d][k].gcs
  <2> DEFINE f == world[c][k].gcs
             g == world[d][k].gcs
  <2>1. f \in [Slots -> Payload] /\ g \in [Slots -> Payload] /\ \A p \in Slots : f[p] = g[p]
    BY <1>5, <1>7
  <2> HIDE DEF f, g
  <2> HIDE DEF Slots
  <2>2. f = g
    BY <2>1, SameFunction
  <2> QED BY <2>2 DEF f, g
<1>9. world[c][k].players = world[d][k].players
  BY <1>2, <1>3, <1>4
<1> QED BY <1>8, <1>9

(* Lockstep: while nobody is kicked during loading, any two clients which  *)
(* have executed their k-th network frame have executed the same commands  *)
(* of the same slots in it.                                                *)
THEOREM Lockstepped == ASSUME ~LoadingKicks PROVE Spec => []SameFrames
<1>1. IInv /\ AllPlay => SameFrames
  BY SameFramesInv
<1> QED BY <1>1, Invariance, PlayersAgree, PTL

-----------------------------------------------------------------------------
(* Lockstep implements FrameAgreement: a server's step decides at most one *)
(* more contribution of one slot, a client's step executes at most one     *)
(* more frame, with the decided contribution of every slot.                *)

Decided == [p \in Slots |-> Contributions(p)]
Done == [c \in Humans |-> Executed(c)]

(* The broadcast commands of a slot are commands. *)
LEMMA ContributionTypes ==
  ASSUME IInv, NEW p \in Slots
  PROVE  /\ Len(at[p]) \in Nat /\ Contributions(p) \in Seq(Payload)
         /\ Len(Contributions(p)) = Len(at[p])
         /\ \A n \in 1..Len(at[p]) : Contributions(p)[n] = Contribution(p, n)
<1>1. Len(at[p]) \in Nat
  <2>1. at[p] \in Seq(Nat)
    BY DEF IInv, TypeOK
  <2> QED BY <2>1
<1>2. ASSUME NEW n \in 1..Len(at[p]) PROVE Contribution(p, n) \in Payload
  <2>1. at[p][n] \in 1..Len(log) /\ log[at[p][n]].type = "gc"
    BY DEF IInv, PlacesOK
  <2>2. log[at[p][n]] \in Entry
    BY <2>1 DEF IInv, TypeOK
  <2> QED BY <2>1, <2>2, EntryTypes DEF Contribution
<1> DEFINE l == Len(at[p])
<1> HIDE DEF l
<1>3. [n \in 1..l |-> Contribution(p, n)] \in Seq(Payload)
  BY <1>1, <1>2 DEF l
<1>4. Len([n \in 1..l |-> Contribution(p, n)]) = l
  BY <1>1, <1>3 DEF l
<1> QED BY <1>1, <1>3, <1>4 DEF Contributions, l

LEMMA ExecutedTypes ==
  ASSUME IInv, NEW c \in Humans
  PROVE  /\ Len(world[c]) \in Nat /\ Executed(c) \in Seq([Slots -> Payload])
         /\ Len(Executed(c)) = Len(world[c])
         /\ \A k \in 1..Len(world[c]) : Executed(c)[k] = world[c][k].gcs
<1>1. world[c] \in Seq(Frame) /\ Len(world[c]) \in Nat
  <2>1. world[c] \in Seq(Frame)
    BY DEF IInv, TypeOK
  <2> QED BY <2>1
<1>2. ASSUME NEW k \in 1..Len(world[c]) PROVE world[c][k].gcs \in [Slots -> Payload]
  <2>1. world[c][k] \in Frame
    BY <1>1
  <2> QED BY <2>1 DEF Frame
<1> DEFINE l == Len(world[c])
<1> HIDE DEF l
<1>3. [k \in 1..l |-> world[c][k].gcs] \in Seq([Slots -> Payload])
  BY <1>1, <1>2 DEF l
<1>4. Len([k \in 1..l |-> world[c][k].gcs]) = l
  BY <1>1, <1>3 DEF l
<1> QED BY <1>1, <1>3, <1>4 DEF Executed, l

(* Both hold in the next state, too. *)
SequencesOK ==
  /\ \A p \in Slots :
       /\ Len(at[p]) \in Nat /\ Contributions(p) \in Seq(Payload)
       /\ Len(Contributions(p)) = Len(at[p])
       /\ \A n \in 1..Len(at[p]) : Contributions(p)[n] = Contribution(p, n)
  /\ \A c \in Humans :
       /\ Len(world[c]) \in Nat /\ Executed(c) \in Seq([Slots -> Payload])
       /\ Len(Executed(c)) = Len(world[c])
       /\ \A k \in 1..Len(world[c]) : Executed(c)[k] = world[c][k].gcs

LEMMA SequenceTypes == IInv => SequencesOK
BY ContributionTypes, ExecutedTypes DEF SequencesOK

LEMMA NextSequenceTypes == IInv' => SequencesOK'
BY SequenceTypes, PTL

(* A sequence with one more element. *)
LEMMA OneLonger ==
  ASSUME NEW T, NEW s \in Seq(T), NEW t \in Seq(T), Len(t) = Len(s) + 1,
         \A n \in 1..Len(s) : t[n] = s[n]
  PROVE  t = Append(s, t[Len(s) + 1])
<1>1. t[Len(s) + 1] \in T /\ Len(s) \in Nat
  OBVIOUS
<1>2. Append(s, t[Len(s) + 1]) \in Seq(T) /\ Len(Append(s, t[Len(s) + 1])) = Len(t)
  BY <1>1
<1>3. \A n \in 1..Len(t) : t[n] = Append(s, t[Len(s) + 1])[n]
  BY <1>1
<1> QED BY <1>2, <1>3, SeqEqual

-----------------------------------------------------------------------------
(* A server's step decides at most one contribution.                       *)

LEMMA SameContributions ==
  ASSUME IInv, IInv', Extends, NEW p \in Slots, at'[p] = at[p]
  PROVE  Contributions(p)' = Contributions(p)
<1>1. /\ Len(at[p]) \in Nat /\ Contributions(p) \in Seq(Payload)
      /\ Len(Contributions(p)) = Len(at[p])
  BY ContributionTypes
<1>2. Contributions(p)' \in Seq(Payload) /\ Len(Contributions(p)') = Len(at'[p])
  BY NextSequenceTypes DEF SequencesOK
<1>3. \A n \in 1..Len(at[p]) : Contributions(p)'[n] = Contributions(p)[n]
  <2> SUFFICES ASSUME NEW n \in 1..Len(at[p])
               PROVE  Contributions(p)'[n] = Contributions(p)[n]
    OBVIOUS
  <2>1. Contribution(p, n)' = Contribution(p, n)
    BY ContributionStable DEF IInv
  <2>2. Contributions(p)[n] = Contribution(p, n)
    BY ContributionTypes
  <2>3. Contributions(p)'[n] = Contribution(p, n)'
    BY NextSequenceTypes DEF SequencesOK
  <2> QED BY <2>1, <2>2, <2>3
<1> QED BY <1>1, <1>2, <1>3, SeqEqual

LEMMA NextContribution ==
  ASSUME IInv, IInv', Extends, NEW p \in Slots, NEW j \in Nat, OneNew(p, j)
  PROVE  /\ Contributions(p)' = Append(Contributions(p),
                                       Contributions(p)'[Len(Contributions(p)) + 1])
         /\ Len(Contributions(p)') = Len(Contributions(p)) + 1
<1>1. /\ Len(at[p]) \in Nat /\ Contributions(p) \in Seq(Payload)
      /\ Len(Contributions(p)) = Len(at[p])
  BY ContributionTypes
<1>2. Contributions(p)' \in Seq(Payload) /\ Len(Contributions(p)') = Len(at'[p])
  BY NextSequenceTypes DEF SequencesOK
<1>3. Len(at'[p]) = Len(at[p]) + 1
  <2>1. at'[p] = Append(at[p], j)
    BY DEF OneNew, IInv, TypeOK
  <2>2. at[p] \in Seq(Nat)
    BY DEF IInv, TypeOK
  <2> QED BY <2>1, <2>2, AppendIs
<1>4. \A n \in 1..Len(at[p]) : Contributions(p)'[n] = Contributions(p)[n]
  <2> SUFFICES ASSUME NEW n \in 1..Len(at[p])
               PROVE  Contributions(p)'[n] = Contributions(p)[n]
    OBVIOUS
  <2>1. Contribution(p, n)' = Contribution(p, n) /\ n \in 1..Len(at'[p])
    BY ContributionStable DEF IInv
  <2>2. Contributions(p)[n] = Contribution(p, n)
    BY ContributionTypes
  <2>3. Contributions(p)'[n] = Contribution(p, n)'
    BY <2>1, NextSequenceTypes DEF SequencesOK
  <2> QED BY <2>1, <2>2, <2>3
<1>5. Len(Contributions(p)') = Len(Contributions(p)) + 1
  BY <1>1, <1>2, <1>3
<1>6. \A n \in 1..Len(Contributions(p)) : Contributions(p)'[n] = Contributions(p)[n]
  BY <1>1, <1>4
<1> QED BY <1>1, <1>2, <1>5, <1>6, OneLonger

LEMMA SameExecuted ==
  ASSUME NEW c \in Humans, world'[c] = world[c] PROVE Executed(c)' = Executed(c)
BY DEF Executed

LEMMA ServerDecides ==
  ASSUME IInv, IInv', Extends, UNCHANGED clientVars PROVE [Abstract!Next]_(Abstract!vars)
<1>1. Done' = Done
  BY SameExecuted DEF Done, clientVars
<1>2. CASE NoneNew
  <2>1. \A p \in Slots : Contributions(p)' = Contributions(p)
    BY <1>2, SameContributions DEF NoneNew
  <2>2. Decided' = Decided
    BY <2>1 DEF Decided
  <2> QED BY <1>1, <2>2 DEF Abstract!vars, Decided, Done
<1>3. ASSUME NEW p \in Slots, NEW j \in Nat, OneNew(p, j) PROVE Abstract!Next
  <2>1. \A q \in Slots : q # p => Contributions(q)' = Contributions(q)
    <3>1. \A q \in Slots : q # p => at'[q] = at[q]
      BY <1>3 DEF OneNew, IInv, TypeOK
    <3> QED BY <3>1, SameContributions
  <2>2. /\ Contributions(p)' = Append(Contributions(p),
                                      Contributions(p)'[Len(Contributions(p)) + 1])
        /\ Len(Contributions(p)') = Len(Contributions(p)) + 1
    BY <1>3, NextContribution
  <2>3. Decided'[p] = Contributions(p)' /\ Decided[p] = Contributions(p)
    BY DEF Decided
  <2>4. Decided' = [Decided EXCEPT ![p] = Append(@, Decided'[p][Len(Decided[p]) + 1])]
    <3> DEFINE x == Append(Contributions(p), Contributions(p)'[Len(Contributions(p)) + 1])
    <3>1. Decided' = [q \in Slots |-> IF q = p THEN x ELSE Contributions(q)]
      BY <2>1, <2>2 DEF Decided
    <3>2. [Decided EXCEPT ![p] = x] = [q \in Slots |-> IF q = p THEN x ELSE Contributions(q)]
      BY DEF Decided
    <3> QED BY <2>3, <3>1, <3>2
  <2>5. Len(Decided'[p]) = Len(Decided[p]) + 1
    BY <2>2, <2>3
  <2>6. Abstract!Decide(p)
    BY <1>1, <2>4, <2>5 DEF Abstract!Decide, Decided, Done
  <2> QED BY <2>6 DEF Abstract!Next
<1> QED BY <1>2, <1>3 DEF Extends

-----------------------------------------------------------------------------
(* A client's step executes at most one frame.                             *)

LEMMA SameDecided ==
  ASSUME UNCHANGED <<log, at>> PROVE Decided' = Decided
BY DEF Decided, Contributions, Contribution

LEMMA ClientExecutes ==
  ASSUME IInv, IInv', AllPlay, ~LoadingKicks, NEW c \in Humans,
         NEW g \in Orders(c, Len(world[c]) + 1), NEW drift \in Drift,
         ExecuteFrame(c, g, drift)
  PROVE  Abstract!Execute(c)
<1> DEFINE k == Len(world[c]) + 1
           f == [players |-> part[c],
                 gcs |-> [p \in Slots |-> IF p \in part[c] THEN Head(queue[c][p]) ELSE Nothing],
                 drift |-> drift]
           x == [p \in Slots |-> Decided[p][k]]
<1>1. /\ UNCHANGED <<log, at, part>>
      /\ world' = [world EXCEPT ![c] = Append(@, f)]
  BY DEF ExecuteFrame
<1>2. world[c] \in Seq(Frame) /\ world \in [Humans -> Seq(Frame)] /\ part[c] = Slots
  BY DEF IInv, TypeOK, AllPlay
<1>3. world'[c] = Append(world[c], f)
  BY <1>1, <1>2
<1>4. f \in Frame
  <2>1. \A p \in part[c] : queue[c][p] # <<>>
    BY <1>2 DEF ExecuteFrame, Awaited
  <2> QED BY <2>1, FrameTypes DEF IInv
<1>5. /\ Len(world[c]) \in Nat /\ Len(world'[c]) = k
      /\ \A n \in 1..Len(world[c]) : world'[c][n] = world[c][n]
  <2> HIDE DEF f
  <2> QED BY <1>2, <1>3, <1>4, AppendIs
<1>6. k \in 1..Len(world'[c])
  BY <1>5
<1>7. ASSUME NEW p \in Slots
      PROVE  k <= Len(at[p]) /\ world'[c][k].gcs[p] = Contribution(p, k)
  <2>1. /\ k <= Len(at'[p]) /\ world'[c][k].gcs[p] = log'[at'[p][k]].gcs
    <3>1. WorldOK'
      BY DEF IInv
    <3>2. p \in part'[c]
      BY <1>1, <1>2
    <3> HIDE DEF k
    <3> QED BY <1>6, <3>1, <3>2 DEF WorldOK, Contribution
  <2> QED BY <1>1, <2>1 DEF Contribution
<1>8. \A p \in Slots : k \in 1..Len(at[p]) /\ Decided[p][k] = Contribution(p, k)
  <2> SUFFICES ASSUME NEW p \in Slots
               PROVE  k \in 1..Len(at[p]) /\ Decided[p][k] = Contribution(p, k)
    OBVIOUS
  <2>1. Len(at[p]) \in Nat /\ \A n \in 1..Len(at[p]) : Contributions(p)[n] = Contribution(p, n)
    BY ContributionTypes
  <2>2. k \in 1..Len(at[p])
    BY <1>5, <1>7, <2>1
  <2> QED BY <2>1, <2>2 DEF Decided
<1>9. world'[c][k].gcs = x
  <2>1. world'[c][k].gcs \in [Slots -> Payload]
    <3>1. Executed(c)' \in Seq([Slots -> Payload]) /\ Len(Executed(c)') = Len(world'[c])
          /\ \A n \in 1..Len(world'[c]) : Executed(c)'[n] = world'[c][n].gcs
      BY NextSequenceTypes DEF SequencesOK
    <3> HIDE DEF k
    <3> QED BY <1>6, <3>1, ElementOfSeq
  <2>2. \A p \in Slots : world'[c][k].gcs[p] = x[p]
    BY <1>7, <1>8
  <2> DEFINE y == world'[c][k].gcs
  <2>3. y = [p \in Slots |-> y[p]]
    <3> HIDE DEF y
    <3> QED BY <2>1 DEF y
  <2> QED BY <2>2, <2>3
<1>10. Executed(c)' = Append(Executed(c), x)
  <2>1. /\ Executed(c) \in Seq([Slots -> Payload]) /\ Len(Executed(c)) = Len(world[c])
        /\ \A n \in 1..Len(world[c]) : Executed(c)[n] = world[c][n].gcs
    BY ExecutedTypes
  <2>2. /\ Executed(c)' \in Seq([Slots -> Payload]) /\ Len(Executed(c)') = Len(world'[c])
        /\ \A n \in 1..Len(world'[c]) : Executed(c)'[n] = world'[c][n].gcs
    BY NextSequenceTypes DEF SequencesOK
  <2>3. Len(Executed(c)') = Len(Executed(c)) + 1
    BY <1>5, <2>1, <2>2
  <2>4. \A n \in 1..Len(Executed(c)) : Executed(c)'[n] = Executed(c)[n]
    BY SMTT(30), <1>5, <2>1, <2>2
  <2>5. Executed(c)'[Len(Executed(c)) + 1] = x
    BY <1>6, <1>9, <2>1, <2>2
  <2> HIDE DEF x
  <2> QED BY <2>1, <2>2, <2>3, <2>4, <2>5, OneLonger
<1>11. \A d \in Humans : d # c => Executed(d)' = Executed(d)
  <2>1. \A d \in Humans : d # c => world'[d] = world[d]
    BY <1>1, <1>2
  <2> QED BY <2>1, SameExecuted
<1>12. Done' = [Done EXCEPT ![c] = Append(@, x)]
  <2> HIDE DEF x
  <2> QED BY <1>10, <1>11 DEF Done
<1>13. Len(Done[c]) + 1 = k
  BY ExecutedTypes DEF Done
<1>14. \A p \in Slots : k <= Len(Decided[p])
  <2>1. \A p \in Slots : Len(Decided[p]) = Len(at[p])
    BY ContributionTypes DEF Decided
  <2> QED BY <1>7, <2>1
<1>15. Decided' = Decided
  BY <1>1, SameDecided
<1> HIDE DEF k
<1> QED BY <1>12, <1>13, <1>14, <1>15 DEF Abstract!Execute, Decided, Done

-----------------------------------------------------------------------------
(* Lockstep implements FrameAgreement, while nobody is kicked during       *)
(* loading: what a client's simulation executes is what was decided.       *)
THEOREM Refinement == ASSUME ~LoadingKicks PROVE Spec => AbstractSpec
<1>1. Init => Abstract!Init
  <2> SUFFICES ASSUME Init PROVE Abstract!Init
    OBVIOUS
  <2>1. \A p \in Slots : Contributions(p) = <<>>
    BY DEF Init, Contributions
  <2>2. \A c \in Humans : Executed(c) = <<>>
    BY DEF Init, Executed
  <2> QED BY <2>1, <2>2 DEF Abstract!Init
<1>2. IInv /\ IInv' /\ AllPlay /\ [Next]_vars => [Abstract!Next]_(Abstract!vars)
  <2> SUFFICES ASSUME IInv, IInv', AllPlay, [Next]_vars
               PROVE  [Abstract!Next]_(Abstract!vars)
    OBVIOUS
  <2>1. CASE Server
    BY <2>1, ServerExtends, ServerDecides DEF IInv
  <2>2. ASSUME NEW c \in Humans, NEW g \in Orders(c, Len(world[c]) + 1),
               NEW drift \in Drift, ExecuteFrame(c, g, drift)
        PROVE  Abstract!Next
    BY <2>2, ClientExecutes DEF Abstract!Next
  <2>3. CASE UNCHANGED <<log, at, world>>
    <3>1. Decided' = Decided
      BY <2>3, SameDecided
    <3>2. Done' = Done
      BY <2>3, SameExecuted DEF Done
    <3> QED BY <3>1, <3>2 DEF Abstract!vars, Decided, Done
  <2>4. ASSUME NEW c \in Humans, Client(c)
        PROVE  [Abstract!Next]_(Abstract!vars)
    <3>1. \/ UNCHANGED <<log, at, world>>
          \/ \E g \in Orders(c, Len(world[c]) + 1), drift \in Drift : ExecuteFrame(c, g, drift)
      BY <2>4 DEF Client, ReadStart, ReadGC, ReadKicked, ReadPause, ReadAsync, RealStart, ServerLost
    <3> QED BY <2>2, <2>3, <3>1
  <2>5. CASE UNCHANGED vars
    BY <2>3, <2>5 DEF vars, clientVars
  <2> QED BY <2>1, <2>4, <2>5 DEF Next
<1> QED BY <1>1, <1>2, Invariance, PlayersAgree, PTL DEF Spec, AbstractSpec, Abstract!Spec

-----------------------------------------------------------------------------
(* While nobody changes slots: how far the processes of a game can be apart, *)
(* and what the comparison of checksums says.  Both rest on the numbers of   *)
(* the messages which wait for the server.                                   *)

(* Nobody has changed slots: a human is where the game began, or kicked. *)
Own(p) == IF p \in Humans THEN p ELSE Nobody

Settled ==
  /\ sw = NoSwitch
  /\ conn = [p \in Slots |-> Own(p)]
  /\ \A p \in Slots : ps[p] = "occupied" => p \in Humans

(* Frames for which the server has handled slot p. *)
Handled(p) == IF mode = "nwf" /\ p < cur THEN nr + 1 ELSE nr

Unstarted(p) == mode = "starting" /\ p >= cur

(* A human's slot contributes what the server has received, an AI's slot   *)
(* one more than the server has handled.                                   *)
Contributed(p) ==
  /\ ps[p] = "occupied" => Len(at[p]) = Handled(p) + Len(gcq[p])
  /\ p \notin Humans => /\ gcq[p] = <<>>
                        /\ Len(at[p]) = IF Unstarted(p) THEN 0 ELSE Handled(p) + 1

IsMessage(m, p, n) == m.from = p /\ m.n = n /\ n <= Len(world[p])

(* What waits for the server: first the messages it holds, then those      *)
(* under way, numbered from the frame it needs next.                       *)
Numbered(p) ==
  /\ \A k \in 1..Len(gcq[p]) : IsMessage(gcq[p][k], p, Handled(p) + (k - 1))
  /\ \A k \in 1..Len(up[p]) : IsMessage(up[p][k], p, Handled(p) + Len(gcq[p]) + (k - 1))

(* A client has sent one message for its start and one for each frame. *)
Sent(p) == Handled(p) + Len(gcq[p]) + Len(up[p])

AllSent(p) ==
  ps[p] = "occupied" =>
    /\ Sent(p) <= Len(world[p]) + 1
    /\ phase[p] = "config" => Sent(p) = 0
    /\ phase[p] \in {"loading", "game"} => Sent(p) = Len(world[p]) + 1

(* A frame begins with a message of every human, and none of the kicked under way. *)
Ready(p) ==
  mode = "nwf" => /\ ps[p] = "occupied" /\ p >= cur => gcq[p] # <<>>
                  /\ p \in Humans /\ ps[p] = "ki" => up[p] = <<>>

SlotOK(p) == Contributed(p) /\ Ready(p) /\ (p \in Humans => Numbered(p) /\ AllSent(p))

(* Only kicked players are taken for no players. *)
OnlyKicked ==
  /\ \A i \in 1..Len(log) :
       log[i].type = "kick" => log[i].slot \in Humans /\ ps[log[i].slot] = "ki"
  /\ \A c \in Humans : \A p \in Slots \ part[c] : p \in Humans /\ ps[p] = "ki"

AInv ==
  /\ Settled /\ OnlyKicked
  /\ mode = "starting" => nr = 0
  /\ \A p \in Slots : SlotOK(p)

-----------------------------------------------------------------------------
USE DEF Slots

LEMMA TailIs ==
  ASSUME NEW S, NEW q \in Seq(S), q # <<>>
  PROVE  /\ Head(q) \in S /\ Head(q) = q[1] /\ Tail(q) \in Seq(S)
         /\ Len(q) \in Nat /\ Len(q) >= 1 /\ Len(Tail(q)) = Len(q) - 1
         /\ \A k \in 1..(Len(q) - 1) : Tail(q)[k] = q[k + 1]
OBVIOUS

(* A message handled is one fewer that waits. *)
LEMMA HandledOne ==
  ASSUME NEW h \in Nat, NEW l \in Nat, NEW m \in Nat, l = m + 1
  PROVE  /\ h + l = h + 1 + m
         /\ \A u \in Nat : h + l + u = h + 1 + m + u
OBVIOUS

(* The values a step compares. *)
LEMMA SlotTypes ==
  ASSUME TypeOK, NEW p \in Slots
  PROVE  /\ gcq[p] \in Seq(Message) /\ Len(gcq[p]) \in Nat
         /\ at[p] \in Seq(Nat) /\ Len(at[p]) \in Nat
         /\ nr \in Nat /\ Handled(p) \in Nat /\ cur \in Nat /\ p \in Nat
         /\ log \in Seq(Entry) /\ Len(log) \in Nat
         /\ ps[p] \in {"occupied", "ki"}
         /\ p \in Humans => /\ up[p] \in Seq(Message) /\ Len(up[p]) \in Nat
                            /\ world[p] \in Seq(Frame) /\ Len(world[p]) \in Nat
<1>1. /\ gcq \in [Slots -> Seq(Message)] /\ at \in [Slots -> Seq(Nat)]
      /\ ps \in [Slots -> {"occupied", "ki"}] /\ log \in Seq(Entry)
      /\ up \in [Humans -> Seq(Message)] /\ world \in [Humans -> Seq(Frame)]
      /\ nr \in 0..MaxFrames /\ cur \in 1..(N + 1)
  BY DEF TypeOK
<1>2. gcq[p] \in Seq(Message) /\ at[p] \in Seq(Nat)
  BY <1>1
<1>3. nr \in Nat /\ cur \in Nat /\ p \in Nat
  BY <1>1, Constants
<1>4. Handled(p) \in Nat
  BY <1>3 DEF Handled
<1>5. ASSUME p \in Humans PROVE up[p] \in Seq(Message) /\ world[p] \in Seq(Frame)
  BY <1>1, <1>5
<1>6. \A S : \A s \in Seq(S) : Len(s) \in Nat
  OBVIOUS
<1> QED BY <1>1, <1>2, <1>3, <1>4, <1>5, <1>6

LEMMA HumanConnected ==
  ASSUME TypeOK, Settled, NEW c \in Humans
  PROVE  Connected(c) <=> ps[c] = "occupied"
<1>1. c \in Slots /\ c # Nobody
  BY Constants
<1>2. \A p \in Slots : conn[p] = c <=> p = c
  BY <1>1 DEF Settled, Own
<1> QED BY <1>1, <1>2 DEF Connected

(* A step which changes nothing about slot q. *)
LEMMA SameSlot ==
  ASSUME NEW q \in Slots, SlotOK(q), UNCHANGED <<gcq[q], at[q], ps[q]>>,
         Handled(q)' = Handled(q), Unstarted(q)' = Unstarted(q),
         q \in Humans => UNCHANGED <<up[q], world[q], phase[q]>>,
         mode' = "nwf" => mode = "nwf" /\ (q >= cur' => q >= cur)
  PROVE  SlotOK(q)'
<1>1. Contributed(q)'
  BY DEF SlotOK, Contributed
<1>2. Ready(q)'
  BY DEF SlotOK, Ready
<1>3. ASSUME q \in Humans PROVE Numbered(q)' /\ AllSent(q)'
  BY <1>3 DEF SlotOK, Numbered, AllSent, Sent, IsMessage
<1> QED BY <1>1, <1>2, <1>3 DEF SlotOK

(* A broadcast for slot p is one more contribution of it. *)
LEMMA OneMore ==
  ASSUME TypeOK, NEW p \in Slots, NEW g, SendGC(p, g)
  PROVE  /\ Len(at'[p]) = Len(at[p]) + 1
         /\ \A q \in Slots : q # p => at'[q] = at[q]
<1>1. at \in [Slots -> Seq(Nat)] /\ at[p] \in Seq(Nat) /\ Len(log) + 1 \in Nat
  BY SlotTypes DEF TypeOK
<1>2. at' = [at EXCEPT ![p] = Append(@, Len(log) + 1)]
  BY DEF SendGC
<1>3. at'[p] = Append(at[p], Len(log) + 1)
  BY <1>1, <1>2
<1> QED BY <1>1, <1>2, <1>3, AppendIs

LEMMA StartSlotSlots ==
  ASSUME TypeOK, AInv, StartSlot PROVE \A q \in Slots : SlotOK(q)'
<1> SUFFICES ASSUME NEW q \in Slots PROVE SlotOK(q)'
  OBVIOUS
<1>1. SlotOK(q) /\ nr = 0 /\ Settled
  BY DEF AInv, StartSlot
<1>2. /\ mode = "starting" /\ mode' = "starting" /\ cur \in Slots /\ cur' = cur + 1
      /\ UNCHANGED <<gcq, ps, nr, up, world, phase>>
  BY DEF StartSlot, clientVars
<1>3. q \in Nat /\ cur \in Nat /\ Handled(q) = 0 /\ Handled(q)' = 0
  BY <1>1, <1>2, SlotTypes DEF Handled
<1>4. CASE q # cur
  <2>1. at'[q] = at[q]
    BY <1>2, <1>4, OneMore DEF StartSlot
  <2>2. Unstarted(q)' = Unstarted(q)
    BY <1>2, <1>3, <1>4 DEF Unstarted
  <2> QED BY <1>1, <1>2, <1>3, <2>1, <2>2, SameSlot
<1>5. CASE q = cur /\ ps[q] = "ki"
  <2>1. Len(at'[q]) = Len(at[q]) + 1
    BY <1>5, OneMore DEF StartSlot
  <2>2. Unstarted(q) /\ ~Unstarted(q)'
    BY <1>2, <1>3, <1>5 DEF Unstarted
  <2>3. Contributed(q)'
    BY <1>1, <1>2, <1>3, <1>5, <2>1, <2>2 DEF SlotOK, Contributed
  <2>4. q \in Humans => Numbered(q)' /\ AllSent(q)'
    BY <1>1, <1>2, <1>3 DEF SlotOK, Numbered, AllSent, Sent, IsMessage
  <2> QED BY <1>2, <2>3, <2>4 DEF SlotOK, Ready
<1>6. CASE q = cur /\ ps[q] = "occupied"
  <2>1. at' = at
    BY <1>6 DEF StartSlot
  <2>2. Contributed(q)'
    BY <1>1, <1>2, <1>3, <1>6, <2>1 DEF SlotOK, Contributed, Settled
  <2>3. q \in Humans => Numbered(q)' /\ AllSent(q)'
    BY <1>1, <1>2, <1>3 DEF SlotOK, Numbered, AllSent, Sent, IsMessage
  <2> QED BY <1>2, <2>2, <2>3 DEF SlotOK, Ready
<1> QED BY <1>4, <1>5, <1>6, SlotTypes

(* What the server has received of a player it holds after what it had. *)
LEMMA RecvSlots ==
  ASSUME TypeOK, AInv, NEW p \in Slots, RecvGC(p) PROVE \A q \in Slots : SlotOK(q)'
<1> SUFFICES ASSUME NEW q \in Slots PROVE SlotOK(q)'
  OBVIOUS
<1> DEFINE h == Handled(p)
<1>1. SlotOK(q) /\ SlotOK(p) /\ Settled
  BY DEF AInv
<1>2. conn[p] = p /\ p \in Humans
  BY <1>1 DEF RecvGC, Settled, Own
<1>3. /\ mode = "idle" /\ up[p] # <<>>
      /\ up' = [up EXCEPT ![p] = Tail(@)]
      /\ gcq' = [gcq EXCEPT ![p] = Append(@, Head(up[p]))]
      /\ UNCHANGED <<mode, cur, ps, nr, world, phase>>
  BY <1>2 DEF RecvGC, clientVars
<1>4. /\ gcq \in [Slots -> Seq(Message)] /\ up \in [Humans -> Seq(Message)]
      /\ gcq[p] \in Seq(Message) /\ up[p] \in Seq(Message)
      /\ h \in Nat /\ Len(gcq[p]) \in Nat /\ Len(up[p]) \in Nat /\ Len(at[p]) \in Nat
      /\ Len(world[p]) \in Nat
  BY <1>2, SlotTypes DEF TypeOK
<1>5. Handled(q)' = Handled(q) /\ Unstarted(q)' = Unstarted(q)
  BY <1>3 DEF Handled, Unstarted
<1>6. CASE q # p
  <2>1. UNCHANGED <<gcq[q], at[q]>> /\ (q \in Humans => up'[q] = up[q])
    BY <1>3, <1>4, <1>6, OneMore DEF RecvGC
  <2> QED BY <1>1, <1>3, <1>5, <2>1, SameSlot
<1>7. CASE q = p
  <2>1. Len(at'[p]) = Len(at[p]) + 1
    BY OneMore DEF RecvGC
  <2>2. Head(up[p]) = up[p][1] /\ Head(up[p]) \in Message
    BY <1>3, <1>4, TailIs
  <2>3. gcq'[p] = Append(gcq[p], up[p][1]) /\ up'[p] = Tail(up[p])
    BY <1>2, <1>3, <1>4, <2>2
  <2>4. /\ Len(gcq'[p]) = Len(gcq[p]) + 1
        /\ \A k \in 1..Len(gcq[p]) : gcq'[p][k] = gcq[p][k]
        /\ gcq'[p][Len(gcq[p]) + 1] = up[p][1]
    BY <1>4, <2>2, <2>3, AppendIs
  <2>5. /\ Len(up[p]) >= 1 /\ Len(up'[p]) = Len(up[p]) - 1
        /\ \A k \in 1..(Len(up[p]) - 1) : up'[p][k] = up[p][k + 1]
    BY <1>3, <1>4, <2>3, TailIs
  <2>6. Numbered(p)'
    <3>1. \A k \in 1..Len(gcq[p]) : IsMessage(gcq[p][k], p, h + (k - 1))
      BY <1>1, <1>2 DEF SlotOK, Numbered
    <3>2. \A k \in 1..Len(up[p]) : IsMessage(up[p][k], p, h + Len(gcq[p]) + (k - 1))
      BY <1>1, <1>2 DEF SlotOK, Numbered
    <3> HIDE DEF h
    <3>3. ASSUME NEW k \in 1..Len(gcq'[p]) PROVE IsMessage(gcq'[p][k], p, h + (k - 1))
      <4>1. CASE k \in 1..Len(gcq[p])
        BY <2>4, <3>1, <4>1
      <4>2. CASE k = Len(gcq[p]) + 1
        <5>1. IsMessage(up[p][1], p, h + Len(gcq[p]) + (1 - 1))
          BY <1>4, <2>5, <3>2
        <5>2. h + Len(gcq[p]) + (1 - 1) = h + (k - 1)
          BY <1>4, <4>2
        <5> QED BY <2>4, <4>2, <5>1, <5>2
      <4> QED BY <1>4, <2>4, <4>1, <4>2
    <3>4. ASSUME NEW k \in 1..Len(up'[p])
          PROVE  IsMessage(up'[p][k], p, h + Len(gcq'[p]) + (k - 1))
      <4>1. k + 1 \in 1..Len(up[p]) /\ up'[p][k] = up[p][k + 1]
        BY <1>4, <2>5
      <4>2. IsMessage(up[p][k + 1], p, h + Len(gcq[p]) + ((k + 1) - 1))
        BY <3>2, <4>1
      <4>3. h + Len(gcq[p]) + ((k + 1) - 1) = h + Len(gcq'[p]) + (k - 1)
        BY <1>4, <2>4, <4>1
      <4> QED BY <4>1, <4>2, <4>3
    <3>5. Handled(p)' = h /\ world' = world
      BY <1>3, <1>5, <1>7 DEF h
    <3> QED BY <3>3, <3>4, <3>5 DEF Numbered, IsMessage
  <2>7. Sent(p)' = Sent(p)
    BY <1>4, <1>5, <1>7, <2>4, <2>5 DEF Sent
  <2>8. AllSent(p)'
    BY <1>1, <1>2, <1>3, <2>7 DEF SlotOK, AllSent
  <2>9. Contributed(p)'
    BY <1>1, <1>2, <1>3, <1>4, <1>5, <1>7, <2>1, <2>4 DEF SlotOK, Contributed
  <2> QED BY <1>3, <1>7, <2>6, <2>8, <2>9 DEF SlotOK, Ready
<1> QED BY <1>6, <1>7

(* Of the messages of a kicked player some are lost with the socket. *)
LEMMA KickSlots ==
  ASSUME TypeOK, AInv, NEW p \in Slots, KickPlayer(p) PROVE \A q \in Slots : SlotOK(q)'
<1> SUFFICES ASSUME NEW q \in Slots PROVE SlotOK(q)'
  OBVIOUS
<1>1. SlotOK(q) /\ SlotOK(p) /\ Settled
  BY DEF AInv
<1>2. p \in Humans /\ conn[p] = p
  BY <1>1 DEF KickPlayer, Settled, Own
<1>3. /\ mode = "idle" /\ ps' = [ps EXCEPT ![p] = "ki"]
      /\ at' = [at EXCEPT ![p] = Append(@, Len(log) + 2)]
      /\ UNCHANGED <<mode, cur, gcq, nr, world, phase>>
  BY DEF KickPlayer, KickedState, clientVars
<1>4. PICK kept \in 0..Len(up[p]) : up' = [up EXCEPT ![p] = SubSeq(@, 1, kept)]
  BY <1>2 DEF KickPlayer
<1>5. Handled(q)' = Handled(q) /\ Unstarted(q)' = Unstarted(q)
  BY <1>3 DEF Handled, Unstarted
<1>6. /\ ps \in [Slots -> {"occupied", "ki"}] /\ at \in [Slots -> Seq(Nat)]
      /\ up \in [Humans -> Seq(Message)]
  BY DEF TypeOK
<1>7. CASE q # p
  <2>1. UNCHANGED <<at[q], ps[q]>> /\ (q \in Humans => up'[q] = up[q])
    BY <1>3, <1>4, <1>6, <1>7
  <2> QED BY <1>1, <1>3, <1>5, <2>1, SameSlot
<1>8. CASE q = p
  <2>1. ps'[p] = "ki" /\ up'[p] = SubSeq(up[p], 1, kept)
    BY <1>2, <1>3, <1>4, <1>6
  <2>2. up[p] \in Seq(Message) /\ Len(up[p]) \in Nat
    BY <1>2, SlotTypes
  <2>3. Len(up'[p]) = kept /\ \A k \in 1..kept : k \in 1..Len(up[p]) /\ up'[p][k] = up[p][k]
    BY <1>4, <2>1, <2>2
  <2>4. Numbered(p)'
    <3>1. /\ \A k \in 1..Len(gcq[p]) : IsMessage(gcq[p][k], p, Handled(p) + (k - 1))
          /\ \A k \in 1..Len(up[p]) : IsMessage(up[p][k], p, Handled(p) + Len(gcq[p]) + (k - 1))
      BY <1>1, <1>2 DEF SlotOK, Numbered
    <3>2. \A k \in 1..Len(up'[p]) :
            IsMessage(up'[p][k], p, Handled(p) + Len(gcq[p]) + (k - 1))
      BY <2>3, <3>1
    <3>3. Handled(p)' = Handled(p) /\ UNCHANGED <<gcq, world>>
      BY <1>3, <1>5, <1>8
    <3> QED BY <3>1, <3>2, <3>3 DEF Numbered, IsMessage
  <2>5. Contributed(p)' /\ AllSent(p)' /\ Ready(p)'
    BY <1>2, <1>3, <2>1 DEF Contributed, AllSent, Ready
  <2> QED BY <1>8, <2>4, <2>5 DEF SlotOK
<1> QED BY <1>7, <1>8

(* Nothing lags when a frame begins, and everything of the kicked is in. *)
LEMMA BeginSlots ==
  ASSUME TypeOK, AInv, BeginNWF PROVE \A q \in Slots : SlotOK(q)'
<1> SUFFICES ASSUME NEW q \in Slots PROVE SlotOK(q)'
  OBVIOUS
<1>1. SlotOK(q) /\ Settled
  BY DEF AInv
<1>2. /\ mode = "idle" /\ mode' = "nwf" /\ cur' = 1 /\ Drained /\ ~Lagging(q)
      /\ UNCHANGED <<ps, gcq, up, nr, at, world, phase>>
  BY DEF BeginNWF, clientVars
<1>3. Handled(q)' = Handled(q) /\ ~Unstarted(q)' /\ ~Unstarted(q)
  BY <1>2 DEF Handled, Unstarted
<1>4. Ready(q)'
  <2>1. ps[q] = "occupied" => gcq[q] # <<>>
    BY <1>2 DEF Lagging
  <2>2. q \in Humans => conn[q] = q /\ conn[q] # Nobody
    BY <1>1, Constants DEF Settled, Own
  <2>3. q \in Humans /\ ps[q] = "ki" => up[q] = <<>>
    BY <1>2, <2>2 DEF Drained
  <2> QED BY <1>2, <2>1, <2>3 DEF Ready
<1>5. Contributed(q)'
  BY <1>1, <1>2, <1>3 DEF SlotOK, Contributed
<1>6. q \in Humans => Numbered(q)' /\ AllSent(q)'
  BY <1>1, <1>2, <1>3 DEF SlotOK, Numbered, AllSent, Sent, IsMessage
<1> QED BY <1>4, <1>5, <1>6 DEF SlotOK

(* At the end of a frame it has been done for every slot. *)
LEMMA EndSlots ==
  ASSUME TypeOK, AInv, EndNWF PROVE \A q \in Slots : SlotOK(q)'
<1> SUFFICES ASSUME NEW q \in Slots PROVE SlotOK(q)'
  OBVIOUS
<1>1. SlotOK(q) /\ Settled
  BY DEF AInv
<1>2. ~MayChange
  BY <1>1 DEF MayChange, Settled
<1>3. /\ mode = "nwf" /\ mode' = "idle" /\ cur = N + 1 /\ nr' = nr + 1
      /\ UNCHANGED <<ps, gcq, up, at, world, phase>>
  BY <1>2 DEF EndNWF, clientVars
<1>4. q < cur
  BY <1>3, Constants
<1>5. Handled(q)' = Handled(q) /\ Unstarted(q)' = Unstarted(q)
  BY <1>3, <1>4 DEF Handled, Unstarted
<1> QED BY <1>1, <1>3, <1>5, SameSlot

(* One round of the loop, for slot p, as the other slots see it. *)
LEMMA OtherSlots ==
  ASSUME TypeOK, AInv, NEW p \in Slots, NWFMessage(p) \/ NWFNoMessage(p),
         NEW q \in Slots, q # p
  PROVE  SlotOK(q)'
<1>1. SlotOK(q)
  BY DEF AInv
<1>2. /\ mode = "nwf" /\ mode' = "nwf" /\ cur = p /\ cur' = p + 1
      /\ UNCHANGED <<ps, nr, up, world, phase>> /\ (ReportAsync \/ SendAI(p))
      /\ gcq' = gcq \/ gcq' = [gcq EXCEPT ![p] = Tail(@)]
  BY DEF NWFMessage, NWFNoMessage, clientVars
<1>3. gcq'[q] = gcq[q]
  BY <1>2 DEF TypeOK
<1>4. at'[q] = at[q]
  <2>1. CASE at' = at
    BY <2>1
  <2>2. ASSUME NEW g, SendGC(p, g) PROVE at'[q] = at[q]
    BY <2>2, OneMore
  <2> QED BY <1>2, <2>1, <2>2 DEF ReportAsync, SendAI
<1>5. q < p + 1 <=> q < p
  BY Constants
<1>6. Handled(q)' = Handled(q) /\ Unstarted(q)' = Unstarted(q)
  BY <1>2, <1>5 DEF Handled, Unstarted
<1>7. q >= p + 1 => q >= p
  BY Constants
<1> QED BY <1>1, <1>2, <1>3, <1>4, <1>6, <1>7, SameSlot

LEMMA MessageSlots ==
  ASSUME TypeOK, AInv, NEW p \in Slots, NWFMessage(p) PROVE \A q \in Slots : SlotOK(q)'
<1>1. SlotOK(p) /\ Settled
  BY DEF AInv
<1>2. /\ mode = "nwf" /\ mode' = "nwf" /\ cur = p /\ cur' = p + 1 /\ gcq[p] # <<>>
      /\ gcq' = [gcq EXCEPT ![p] = Tail(@)]
      /\ UNCHANGED <<ps, nr, up, world, phase>> /\ (ReportAsync \/ SendAI(p))
  BY DEF NWFMessage, clientVars
<1>3. p \in Humans
  BY <1>1, <1>2 DEF SlotOK, Contributed
<1>4. /\ gcq[p] \in Seq(Message) /\ Len(gcq[p]) \in Nat /\ Len(up[p]) \in Nat
      /\ Len(world[p]) \in Nat /\ nr \in Nat /\ p \in Nat
  BY <1>3, SlotTypes
<1>5. gcq'[p] = Tail(gcq[p])
  BY <1>2 DEF TypeOK
<1>6. /\ Len(gcq[p]) >= 1 /\ Len(gcq'[p]) \in Nat /\ Len(gcq[p]) = Len(gcq'[p]) + 1
      /\ \A k \in 1..Len(gcq'[p]) : gcq'[p][k] = gcq[p][k + 1]
  <2>1. /\ Len(gcq[p]) >= 1 /\ Len(gcq'[p]) = Len(gcq[p]) - 1
        /\ \A k \in 1..(Len(gcq[p]) - 1) : gcq'[p][k] = gcq[p][k + 1]
    BY <1>2, <1>4, <1>5, TailIs
  <2>2. \A n, l \in Nat : l >= 1 /\ n = l - 1 => n \in Nat /\ l = n + 1
    OBVIOUS
  <2>3. Len(gcq'[p]) \in Nat
    BY <1>4, <1>5, TailIs, <1>2, <2>1
  <2> QED BY <1>4, <2>1, <2>2, <2>3
<1>7. Handled(p) = nr /\ Handled(p)' = nr + 1
  BY <1>2, <1>4 DEF Handled
<1>arith. /\ nr + Len(gcq[p]) = nr + 1 + Len(gcq'[p])
       /\ \A u \in Nat : nr + Len(gcq[p]) + u = nr + 1 + Len(gcq'[p]) + u
  <2>1. /\ nr \in Nat /\ Len(gcq[p]) \in Nat /\ Len(gcq'[p]) \in Nat
        /\ Len(gcq[p]) = Len(gcq'[p]) + 1
    BY <1>4, <1>6
  <2> DEFINE l == Len(gcq[p])
             m == Len(gcq'[p])
  <2> HIDE DEF l, m
  <2>2. l \in Nat /\ m \in Nat /\ l = m + 1
    BY <2>1 DEF l, m
  <2>3. nr + l = nr + 1 + m /\ \A u \in Nat : nr + l + u = nr + 1 + m + u
    BY <2>1, <2>2, HandledOne
  <2> QED BY <2>3 DEF l, m
<1>8. Numbered(p)'
  <2>1. /\ \A k \in 1..Len(gcq[p]) : IsMessage(gcq[p][k], p, nr + (k - 1))
        /\ \A k \in 1..Len(up[p]) : IsMessage(up[p][k], p, nr + Len(gcq[p]) + (k - 1))
    BY <1>1, <1>3, <1>7 DEF SlotOK, Numbered
  <2>2. ASSUME NEW k \in 1..Len(gcq'[p]) PROVE IsMessage(gcq'[p][k], p, nr + 1 + (k - 1))
    <3>1. k + 1 \in 1..Len(gcq[p]) /\ gcq'[p][k] = gcq[p][k + 1]
      BY <1>4, <1>6
    <3>2. nr + ((k + 1) - 1) = nr + 1 + (k - 1)
      BY <1>4
    <3> QED BY <2>1, <3>1, <3>2
  <2>3. ASSUME NEW k \in 1..Len(up[p])
        PROVE  IsMessage(up[p][k], p, nr + 1 + Len(gcq'[p]) + (k - 1))
    <3>1. nr + Len(gcq[p]) + (k - 1) = nr + 1 + Len(gcq'[p]) + (k - 1)
      <4>1. k - 1 \in Nat
        OBVIOUS
      <4> QED BY <1>arith, <4>1
    <3> QED BY <2>1, <3>1
  <2> QED BY <1>2, <1>7, <2>2, <2>3 DEF Numbered, IsMessage
<1>9. Sent(p)' = Sent(p)
  <2>1. Len(up[p]) \in Nat
    BY <1>4
  <2> QED BY <1>2, <1>7, <1>arith, <2>1 DEF Sent
<1>10. AllSent(p)'
  BY <1>1, <1>2, <1>3, <1>9 DEF SlotOK, AllSent
<1>11. Contributed(p)'
  <2>1. ps[p] = "occupied" => at' = at
    BY <1>2 DEF ReportAsync, SendAI
  <2>2. ps[p] = "occupied" => Len(at[p]) = nr + Len(gcq[p])
    BY <1>1, <1>7 DEF SlotOK, Contributed
  <2> QED BY <1>2, <1>3, <1>7, <1>arith, <2>1, <2>2 DEF Contributed
<1>12. Ready(p)'
  BY <1>1, <1>2, <1>3, <1>4 DEF SlotOK, Ready
<1>13. SlotOK(p)'
  BY <1>8, <1>10, <1>11, <1>12 DEF SlotOK
<1> QED BY <1>13, OtherSlots

LEMMA NoMessageSlots ==
  ASSUME TypeOK, AInv, NEW p \in Slots, NWFNoMessage(p) PROVE \A q \in Slots : SlotOK(q)'
<1>1. SlotOK(p) /\ Settled
  BY DEF AInv
<1>2. /\ mode = "nwf" /\ mode' = "nwf" /\ cur = p /\ cur' = p + 1 /\ gcq[p] = <<>>
      /\ UNCHANGED <<gcq, ps, nr, up, world, phase>> /\ SendAI(p)
  BY DEF NWFNoMessage, clientVars
<1>3. p \in Nat /\ nr \in Nat /\ ps[p] = "ki"
  BY <1>1, <1>2, SlotTypes DEF SlotOK, Ready
<1>4. Handled(p) = nr /\ Handled(p)' = nr + 1 /\ ~Unstarted(p) /\ ~Unstarted(p)'
  BY <1>2, <1>3 DEF Handled, Unstarted
<1>5. Contributed(p)'
  <2>1. Len(at'[p]) = Len(at[p]) + 1
    BY <1>2, <1>3, OneMore DEF SendAI
  <2> QED BY <1>1, <1>2, <1>3, <1>4, <2>1 DEF SlotOK, Contributed
<1>6. ASSUME p \in Humans PROVE Numbered(p)' /\ AllSent(p)'
  <2>1. up[p] = <<>>
    BY <1>1, <1>2, <1>3, <1>6 DEF SlotOK, Ready
  <2> QED BY <1>2, <1>3, <2>1 DEF Numbered, AllSent
<1>7. Ready(p)'
  BY <1>1, <1>2, <1>3 DEF SlotOK, Ready
<1>8. SlotOK(p)'
  BY <1>5, <1>6, <1>7 DEF SlotOK
<1> QED BY <1>8, OtherSlots

LEMMA ServerSlots ==
  ASSUME TypeOK, AInv, Server
  PROVE  (mode' = "starting" => nr' = 0) /\ \A q \in Slots : SlotOK(q)'
<1>1. mode = "starting" => nr = 0
  BY DEF AInv
<1>2. mode' = "starting" => nr' = 0
  BY <1>1 DEF Server, StartSlot, StartDone, RecvGC, KickPlayer, TogglePause, BeginNWF,
              EndNWF, NWFMessage, NWFNoMessage
<1>3. CASE StartDone \/ TogglePause
  <2> SUFFICES ASSUME NEW q \in Slots PROVE SlotOK(q)'
    BY <1>2
  <2>1. /\ UNCHANGED <<gcq, at, ps, up, world, phase, nr>>
        /\ \/ mode = "starting" /\ mode' = "idle" /\ cur = N + 1
           \/ mode = "idle" /\ mode' = "idle"
    BY <1>3 DEF StartDone, TogglePause, Send, clientVars
  <2>2. ~(q >= N + 1)
    BY Constants
  <2>3. Handled(q)' = Handled(q) /\ Unstarted(q)' = Unstarted(q)
    BY <2>1, <2>2 DEF Handled, Unstarted
  <2> QED BY <2>1, <2>3, SameSlot DEF AInv
<1> QED
  BY <1>2, <1>3, StartSlotSlots, RecvSlots, KickSlots, BeginSlots, EndSlots, MessageSlots,
     NoMessageSlots DEF Server

(* A client sends the next message, when it has started or done a frame. *)
LEMMA SendSlots ==
  ASSUME TypeOK, TypeOK', AInv, NEW c \in Humans, NEW n \in Nat, NEW g,
         SendUp(c, Msg(c, n, g)), ps[c] = "occupied" => Sent(c) = n,
         Len(world'[c]) = n, Len(world[c]) <= n, phase'[c] \in {"loading", "game"},
         \A q \in Humans : q # c => world'[q] = world[q] /\ phase'[q] = phase[q],
         UNCHANGED <<serverVars, at>>
  PROVE  \A q \in Slots : SlotOK(q)'
<1> SUFFICES ASSUME NEW q \in Slots PROVE SlotOK(q)'
  OBVIOUS
<1>1. SlotOK(q) /\ SlotOK(c) /\ Settled /\ c \in Slots
  BY Constants DEF AInv
<1>2. UNCHANGED <<mode, cur, ps, gcq, nr, at>>
  BY DEF serverVars
<1>3. \A p \in Slots : Handled(p)' = Handled(p) /\ Unstarted(p)' = Unstarted(p)
  BY <1>2 DEF Handled, Unstarted
<1>4. CASE q # c
  <2>1. q \in Humans => up'[q] = up[q]
    BY <1>4 DEF SendUp, TypeOK
  <2> QED BY <1>1, <1>2, <1>3, <1>4, <2>1, SameSlot
<1>5. CASE q = c
  <2> DEFINE h == Handled(c) + Len(gcq[c])
  <2>1. /\ up[c] \in Seq(Message) /\ Len(up[c]) \in Nat /\ Handled(c) \in Nat
        /\ Len(gcq[c]) \in Nat /\ h \in Nat /\ Len(world[c]) \in Nat
    BY <1>1, SlotTypes, SumNat
  <2>2. /\ \A k \in 1..Len(gcq[c]) : IsMessage(gcq[c][k], c, Handled(c) + (k - 1))
        /\ \A k \in 1..Len(up[c]) : IsMessage(up[c][k], c, h + (k - 1))
    BY <1>1 DEF SlotOK, Numbered
  <2>3. \A m, i : IsMessage(m, c, i) /\ i \in Nat => IsMessage(m, c, i)'
    BY <2>1 DEF IsMessage
  <2>4. \A k \in 1..Len(gcq[c]) : IsMessage(gcq[c][k], c, Handled(c) + (k - 1))'
    <3>1. \A k \in 1..Len(gcq[c]) : Handled(c) + (k - 1) \in Nat
      BY <2>1
    <3>2. Handled(c)' = Handled(c) /\ gcq' = gcq
      BY <1>1, <1>2, <1>3
    <3> QED BY <2>2, <2>3, <3>1, <3>2 DEF IsMessage
  <2> HIDE DEF h
  <2>5. \A k \in 1..Len(up[c]) : up[c][k].from = c /\ up[c][k].n = h + (k - 1)
                                  /\ h + (k - 1) <= Len(world'[c])
    <3>1. \A k \in 1..Len(up[c]) : h + (k - 1) \in Nat
      BY <2>1
    <3> QED BY <2>2, <2>3, <3>1 DEF IsMessage
  <2>6. h' = h
    BY <1>1, <1>2, <1>3 DEF h
  <2>7. CASE ps[c] = "occupied"
    <3>1. up \in [Humans -> Seq(Message)] /\ up' = [up EXCEPT ![c] = Append(@, Msg(c, n, g))]
      BY <1>1, <2>7, HumanConnected DEF SendUp, TypeOK
    <3>2. up'[c] = Append(up[c], Msg(c, n, g)) /\ up'[c] \in Seq(Message)
      BY <3>1 DEF TypeOK
    <3>3. /\ Len(up'[c]) = Len(up[c]) + 1
          /\ \A k \in 1..Len(up[c]) : up'[c][k] = up[c][k]
          /\ up'[c][Len(up[c]) + 1] = Msg(c, n, g)
      BY <2>1, <3>2
    <3>4. n = h + Len(up[c])
      BY <2>7 DEF h, Sent
    <3>5. ASSUME NEW k \in 1..Len(up'[c])
          PROVE  up'[c][k].from = c /\ up'[c][k].n = h + (k - 1) /\ h + (k - 1) <= Len(world'[c])
      <4>1. CASE k \in 1..Len(up[c])
        BY <2>5, <3>3, <4>1
      <4>2. CASE k = Len(up[c]) + 1
        <5>1. h + (k - 1) = n
          BY <2>1, <3>4, <4>2
        <5>2. Msg(c, n, g).from = c /\ Msg(c, n, g).n = n
          BY DEF Msg
        <5>3. n <= Len(world'[c])
          OBVIOUS
        <5> QED BY <3>3, <4>2, <5>1, <5>2, <5>3
      <4> QED BY <2>1, <3>3, <4>1, <4>2
    <3>6. Numbered(c)'
      BY <1>2, <2>4, <2>6, <3>5 DEF Numbered, IsMessage, h
    <3>7. Sent(c)' = n + 1
      <4>1. Sent(c)' = h' + Len(up'[c])
        BY DEF Sent, h
      <4>2. h + (Len(up[c]) + 1) = (h + Len(up[c])) + 1
        BY <2>1
      <4> QED BY <2>6, <3>3, <3>4, <4>1, <4>2
    <3>8. AllSent(c)'
      <4>1. n + 1 <= Len(world'[c]) + 1
        OBVIOUS
      <4> QED BY <3>7, <4>1 DEF AllSent
    <3>9. Contributed(c)' /\ Ready(c)'
      BY <1>1, <1>2, <1>3, <2>7 DEF SlotOK, Contributed, Ready
    <3> QED BY <1>5, <3>6, <3>8, <3>9 DEF SlotOK
  <2>8. CASE ps[c] # "occupied"
    <3>1. up'[c] = up[c]
      BY <1>1, <2>8, HumanConnected DEF SendUp, TypeOK
    <3>2. Numbered(c)'
      BY <1>2, <2>4, <2>5, <2>6, <3>1 DEF Numbered, IsMessage, h
    <3>3. Contributed(c)' /\ AllSent(c)' /\ Ready(c)'
      BY <1>1, <1>2, <1>3, <2>8, <3>1 DEF SlotOK, Contributed, AllSent, Ready
    <3> QED BY <1>5, <3>2, <3>3 DEF SlotOK
  <2> QED BY <2>7, <2>8
<1> QED BY <1>4, <1>5

LEMMA ClientSlots ==
  ASSUME IInv, TypeOK', AInv, NEW c \in Humans, Client(c)
  PROVE  \A q \in Slots : SlotOK(q)'
<1>1. TypeOK /\ SlotOK(c) /\ c \in Slots /\ Settled
  BY Constants DEF IInv, AInv
<1>2. world[c] \in Seq(Frame) /\ Len(world[c]) \in Nat
  BY <1>1, SlotTypes
<1>3. CASE ReadStart(c)
  <2>1. phase[c] = "config" /\ world[c] = <<>>
    BY <1>3 DEF ReadStart, IInv, WorldOK
  <2>2. /\ SendUp(c, Msg(c, 0, Nothing)) /\ UNCHANGED <<serverVars, at, world>>
        /\ phase' = [phase EXCEPT ![c] = "loading"]
    BY <1>3 DEF ReadStart
  <2>3. ps[c] = "occupied" => Sent(c) = 0
    BY <1>1, <2>1 DEF SlotOK, AllSent
  <2>4. Len(world[c]) = 0
    BY <2>1
  <2>5. phase'[c] = "loading" /\ \A q \in Humans : q # c => phase'[q] = phase[q]
    BY <1>1, <2>2 DEF TypeOK
  <2> QED BY <1>1, <2>2, <2>3, <2>4, <2>5, SendSlots
<1>4. ASSUME NEW g \in Orders(c, Len(world[c]) + 1), NEW drift \in Drift,
             ExecuteFrame(c, g, drift)
      PROVE  \A q \in Slots : SlotOK(q)'
  <2>1. /\ phase[c] = "game" /\ UNCHANGED <<serverVars, at, phase>>
        /\ SendUp(c, Msg(c, Len(world[c]) + 1, g))
    BY <1>4 DEF ExecuteFrame
  <2>2. ps[c] = "occupied" => Sent(c) = Len(world[c]) + 1
    BY <1>1, <2>1 DEF SlotOK, AllSent
  <2>3. PICK f : world' = [world EXCEPT ![c] = Append(@, f)]
    BY <1>4 DEF ExecuteFrame
  <2>4. /\ world'[c] = Append(world[c], f)
        /\ \A q \in Humans : q # c => world'[q] = world[q]
    BY <1>1, <2>3 DEF TypeOK
  <2>5. Len(world'[c]) = Len(world[c]) + 1 /\ Len(world[c]) + 1 \in Nat
        /\ Len(world[c]) <= Len(world[c]) + 1
    BY <1>2, <2>4
  <2> QED BY <1>1, <2>1, <2>2, <2>4, <2>5, SendSlots
<1>5. CASE \/ ReadGC(c) \/ ReadKicked(c) \/ ReadPause(c) \/ ReadAsync(c)
           \/ RealStart(c) \/ ServerLost(c)
  <2> SUFFICES ASSUME NEW q \in Slots PROVE SlotOK(q)'
    OBVIOUS
  <2>1. /\ UNCHANGED <<serverVars, at, up, world>>
        /\ \/ phase' = phase
           \/ (phase[c] = "loading" /\ phase' = [phase EXCEPT ![c] = "game"])
           \/ phase' = [phase EXCEPT ![c] = "lost"]
    BY <1>5 DEF ReadGC, ReadKicked, ReadPause, ReadAsync, RealStart, ServerLost
  <2>2. UNCHANGED <<mode, cur, ps, gcq, nr>>
    BY <2>1 DEF serverVars
  <2>3. Handled(q)' = Handled(q) /\ Unstarted(q)' = Unstarted(q)
    BY <2>2 DEF Handled, Unstarted
  <2>4. SlotOK(q)
    BY DEF AInv
  <2>5. CASE q \notin Humans \/ phase'[q] = phase[q]
    BY <2>1, <2>2, <2>3, <2>4, <2>5, SameSlot
  <2>6. CASE q \in Humans /\ phase'[q] # phase[q]
    <3>1. phase'[q] = "lost" \/ (phase[q] = "loading" /\ phase'[q] = "game")
      BY <1>1, <2>1, <2>6 DEF TypeOK
    <3>2. AllSent(q)'
      BY <2>1, <2>2, <2>3, <2>4, <2>6, <3>1 DEF SlotOK, AllSent, Sent
    <3>3. Contributed(q)' /\ Ready(q)' /\ Numbered(q)'
      BY <2>1, <2>2, <2>3, <2>4, <2>6 DEF SlotOK, Contributed, Ready, Numbered, IsMessage
    <3> QED BY <3>2, <3>3 DEF SlotOK
  <2> QED BY <2>5, <2>6
<1> QED BY <1>3, <1>4, <1>5 DEF Client

-----------------------------------------------------------------------------
(* Where humans play, while nobody may ask for another slot. *)
LEMMA SettledStep ==
  ASSUME TypeOK, Settled, SwitchTargets = {}, [Next]_vars PROVE Settled'
<1>1. ~MayChange
  BY DEF MayChange, Settled
<1>2. CASE UNCHANGED <<sw, conn, ps>>
  BY <1>2 DEF Settled
<1>3. ASSUME NEW p \in Slots, NWFMessage(p) PROVE UNCHANGED <<sw, conn, ps>>
  <2>1. gcq[p] \in Seq(Message) /\ gcq[p] # <<>>
    BY <1>3, SlotTypes DEF NWFMessage
  <2>2. Head(gcq[p]) \in Message
    BY <2>1, TailIs
  <2>3. Head(gcq[p]).gcs.switch = Nobody
    BY <2>2 DEF Message, Payload
  <2> QED BY <1>3, <2>3 DEF NWFMessage
<1>4. CASE EndNWF \/ BeginNWF
  BY <1>1, <1>4 DEF EndNWF, BeginNWF, Settled
<1>5. ASSUME NEW p \in Slots, KickPlayer(p) PROVE Settled'
  <2>1. UNCHANGED <<sw, conn>> /\ ps' = [ps EXCEPT ![p] = "ki"]
    BY <1>5 DEF KickPlayer, KickedState
  <2>2. \A q \in Slots : ps'[q] = "occupied" => ps[q] = "occupied"
    BY <2>1 DEF TypeOK
  <2> QED BY <2>1, <2>2 DEF Settled
<1>6. ASSUME NEW c \in Humans, Client(c) PROVE UNCHANGED <<sw, conn, ps>>
  BY <1>6 DEF Client, ReadStart, ReadGC, ReadKicked, ReadPause, ReadAsync, RealStart, ServerLost,
              ExecuteFrame, serverVars
<1>7. CASE Server
  BY <1>2, <1>3, <1>4, <1>5, <1>7 DEF Server, StartSlot, StartDone, RecvGC, TogglePause, NWFNoMessage
<1> QED BY <1>2, <1>6, <1>7 DEF Next, vars, serverVars

(* The slots which lost their human. *)
LEMMA Losing ==
  ASSUME TypeOK, Settled, Server
  PROVE  /\ \A p \in Slots : ps[p] = "ki" => ps'[p] = "ki"
         /\ ps' = ps \/ \E p \in Slots : KickPlayer(p)
<1>1. ~MayChange
  BY DEF MayChange, Settled
<1>2. ASSUME NEW p \in Slots, KickPlayer(p) PROVE \A q \in Slots : ps[q] = "ki" => ps'[q] = "ki"
  BY <1>2 DEF KickPlayer, KickedState, TypeOK
<1> QED
  BY <1>1, <1>2 DEF Server, StartSlot, StartDone, RecvGC, TogglePause, BeginNWF, EndNWF,
                    NWFMessage, NWFNoMessage

LEMMA ServerOnlyKicked ==
  ASSUME TypeOK, LoopOK, Settled, OnlyKicked, Server PROVE OnlyKicked'
<1>1. LogGrows /\ UNCHANGED part
  BY ServerExtends DEF Extends, clientVars
<1>2. \A p \in Slots : ps[p] = "ki" => ps'[p] = "ki"
  BY Losing
<1>3. \A c \in Humans : \A p \in Slots \ part'[c] : p \in Humans /\ ps'[p] = "ki"
  BY <1>1, <1>2 DEF OnlyKicked
<1>4. log \in Seq(Entry) /\ Len(log) \in Nat
  BY DEF TypeOK
<1>5. ASSUME NEW i \in 1..Len(log), log'[i].type = "kick"
      PROVE  log'[i].slot \in Humans /\ ps'[log'[i].slot] = "ki"
  <2>1. log'[i] = log[i]
    BY <1>1, <1>5 DEF LogGrows
  <2>2. log[i].slot \in Humans /\ ps[log[i].slot] = "ki"
    BY <1>5, <2>1 DEF OnlyKicked
  <2> QED BY <1>2, <2>1, <2>2, Constants
<1>6. ASSUME NEW i \in 1..Len(log'), i \notin 1..Len(log), log'[i].type = "kick"
      PROVE  log'[i].slot \in Humans /\ ps'[log'[i].slot] = "ki"
  <2>1. i \in New
    BY <1>1, <1>4, <1>6 DEF New, LogGrows
  <2>2. PICK p \in Slots : KickPlayer(p)
    BY <1>6, <2>1, ServerNoKick DEF NoNewKick
  <2>3. ps[p] = "occupied" /\ ps'[p] = "ki"
    BY <2>2 DEF KickPlayer, KickedState, TypeOK
  <2>4. p \in Humans
    BY <2>3 DEF Settled
  <2>5. log' = Append(Append(log, Kicked(p)), GC(p, Nothing))
    BY <2>2 DEF KickPlayer
  <2>6. Len(log') = Len(log) + 2 /\ log'[Len(log) + 1] = Kicked(p)
        /\ log'[Len(log) + 2] = GC(p, Nothing)
    BY <1>4, <2>5
  <2>7. i = Len(log) + 1 \/ i = Len(log) + 2
    BY <1>4, <1>6, <2>6
  <2>8. log'[i] = Kicked(p)
    BY <1>6, <2>6, <2>7, EntryTypes
  <2> QED BY <2>3, <2>4, <2>8, EntryTypes
<1> QED BY <1>3, <1>5, <1>6 DEF OnlyKicked

LEMMA ClientOnlyKicked ==
  ASSUME IInv, OnlyKicked, NEW c \in Humans, Client(c) PROVE OnlyKicked'
<1>1. UNCHANGED <<log, ps>>
  BY DEF Client, ReadStart, ReadGC, ReadKicked, ReadPause, ReadAsync, RealStart, ServerLost,
         ExecuteFrame, serverVars
<1>2. CASE part' = part
  BY <1>1, <1>2 DEF OnlyKicked
<1>3. CASE ReadKicked(c)
  <2>1. rd[c] + 1 \in 1..Len(log) /\ log[rd[c] + 1].type = "kick"
    BY <1>3, ReadTypes DEF ReadKicked, NextIs, IInv
  <2>2. log[rd[c] + 1].slot \in Humans /\ ps[log[rd[c] + 1].slot] = "ki"
    BY <2>1 DEF OnlyKicked
  <2>3. ASSUME NEW d \in Humans, NEW p \in Slots \ part'[d] PROVE p \in Humans /\ ps[p] = "ki"
    <3>1. p \notin part[d] \/ p = log[rd[c] + 1].slot
      BY <1>3, <2>3 DEF ReadKicked, IInv, TypeOK
    <3> QED BY <2>2, <3>1 DEF OnlyKicked
  <2> QED BY <1>1, <2>3 DEF OnlyKicked
<1> QED
  BY <1>2, <1>3 DEF Client, ReadStart, ReadGC, ReadPause, ReadAsync, RealStart, ServerLost,
                    ExecuteFrame

LEMMA InitAhead == Init => AInv
<1> SUFFICES ASSUME Init PROVE AInv
  OBVIOUS
<1>1. Settled
  BY DEF Init, Settled, Own
<1>2. Len(log) = 1 /\ log[1] = Start /\ \A c \in Humans : part[c] = Slots
  BY DEF Init
<1>3. OnlyKicked
  <2>1. log[1].type # "kick"
    BY <1>2, EntryTypes
  <2>2. \A i \in 1..Len(log) : i = 1
    BY <1>2
  <2> QED BY <1>2, <2>1, <2>2 DEF OnlyKicked
<1>4. ASSUME NEW p \in Slots PROVE SlotOK(p)
  <2>1. /\ gcq[p] = <<>> /\ Len(gcq[p]) = 0 /\ Len(at[p]) = 0 /\ Handled(p) = 0
        /\ Unstarted(p)
    BY <1>4, Constants DEF Init, Handled, Unstarted
  <2>2. Contributed(p) /\ Ready(p)
    BY <2>1 DEF Init, Contributed, Ready
  <2>3. ASSUME p \in Humans PROVE Numbered(p) /\ AllSent(p)
    <3>1. Len(up[p]) = 0 /\ Len(world[p]) = 0 /\ phase[p] = "config"
      BY <2>3 DEF Init
    <3>2. Sent(p) = 0
      BY <2>1, <3>1 DEF Sent
    <3> QED BY <2>1, <3>1, <3>2 DEF Numbered, AllSent
  <2> QED BY <2>2, <2>3 DEF SlotOK
<1> QED BY <1>1, <1>3, <1>4 DEF Init, AInv

LEMMA NextAhead ==
  ASSUME IInv, IInv', AInv, SwitchTargets = {}, [Next]_vars PROVE AInv'
<1>1. Settled'
  BY SettledStep DEF IInv, AInv
<1>2. CASE Server
  BY <1>1, <1>2, ServerOnlyKicked, ServerSlots DEF IInv, AInv
<1>3. ASSUME NEW c \in Humans, Client(c) PROVE AInv'
  <2>1. OnlyKicked' /\ \A p \in Slots : SlotOK(p)'
    BY <1>3, ClientOnlyKicked, ClientSlots DEF IInv, AInv
  <2>2. UNCHANGED <<mode, nr>>
    BY <1>3 DEF Client, ReadStart, ReadGC, ReadKicked, ReadPause, ReadAsync, RealStart,
                ServerLost, ExecuteFrame, serverVars
  <2> QED BY <1>1, <2>1, <2>2 DEF AInv
<1>4. CASE UNCHANGED vars
  <2>1. OnlyKicked'
    BY <1>4 DEF vars, serverVars, clientVars, AInv, OnlyKicked
  <2>2. ASSUME NEW p \in Slots PROVE SlotOK(p)'
    BY <1>4, SameSlot DEF vars, serverVars, clientVars, AInv, Handled, Unstarted
  <2> QED BY <1>1, <1>4, <2>1, <2>2 DEF vars, serverVars, AInv
<1> QED BY <1>2, <1>3, <1>4 DEF Next

LEMMA AheadInvariance == ASSUME SwitchTargets = {} PROVE Spec => [](IInv /\ AInv)
<1>1. IInv /\ IInv' /\ AInv /\ [Next]_vars => AInv'
  BY NextAhead
<1> QED BY <1>1, InitAhead, Invariance, PTL DEF Spec

-----------------------------------------------------------------------------
LEMMA SumBounds ==
  /\ \A w, q, l \in Nat : w + q <= l => w <= l
  /\ \A h, g, u, w, n, a \in Nat :
       h + g + u <= w + 1 /\ a = h + g /\ n <= h => a <= w + 1 /\ n <= w + 1
OBVIOUS

(* What the numbers say: a client's frames and the server's. *)
LEMMA Bounds ==
  ASSUME IInv, AInv, NEW c \in Humans
  PROVE  /\ \A p \in part[c] : Len(world[c]) <= Len(at[p])
         /\ Connected(c) => /\ Len(at[c]) <= Len(world[c]) + 1
                            /\ nr <= Len(world[c]) + 1
<1>1. TypeOK /\ Settled /\ SlotOK(c) /\ c \in Slots
  BY Constants DEF IInv, AInv
<1>2. ASSUME NEW p \in part[c] PROVE Len(world[c]) <= Len(at[p])
  <2>1. p \in Slots
    BY <1>1 DEF TypeOK
  <2>2. Delivered(c, p) <= Len(at[p])
    BY DEF IInv, CursorOK
  <2>3. /\ Len(world[c]) \in Nat /\ Len(queue[c][p]) \in Nat /\ Len(at[p]) \in Nat
        /\ Delivered(c, p) = Len(world[c]) + Len(queue[c][p])
    BY <1>1, <2>1, Lengths
  <2>4. Len(world[c]) + Len(queue[c][p]) <= Len(at[p])
    BY <2>2, <2>3
  <2> QED BY <2>3, <2>4, SumBounds
<1>3. ASSUME Connected(c)
      PROVE  Len(at[c]) <= Len(world[c]) + 1 /\ nr <= Len(world[c]) + 1
  <2>1. ps[c] = "occupied"
    BY <1>1, <1>3, HumanConnected
  <2>2. /\ Len(gcq[c]) \in Nat /\ Len(up[c]) \in Nat /\ Len(world[c]) \in Nat
        /\ Handled(c) \in Nat /\ nr \in Nat /\ Len(at[c]) \in Nat
    BY <1>1, SlotTypes
  <2>3. Handled(c) + Len(gcq[c]) + Len(up[c]) <= Len(world[c]) + 1
    BY <1>1, <2>1 DEF SlotOK, AllSent, Sent
  <2>4. Len(at[c]) = Handled(c) + Len(gcq[c])
    BY <1>1, <2>1 DEF SlotOK, Contributed
  <2>5. nr <= Handled(c)
    BY <2>2 DEF Handled
  <2> QED BY <2>2, <2>3, <2>4, <2>5, SumBounds
<1> QED BY <1>2, <1>3

(* While nobody changes slots, no connected client gets more than one      *)
(* network frame ahead of another, nor the server more than one ahead of   *)
(* a client, and if an AI plays no client more than one ahead of the       *)
(* server, whoever is kicked, pauses or reads late.                        *)
THEOREM AheadByOne == ASSUME SwitchTargets = {} PROVE Spec => []OneFrameAhead
<1>1. ASSUME IInv, AInv PROVE OneFrameAhead
  <2>1. ASSUME NEW c \in Humans, NEW d \in Humans, Connected(c), Connected(d)
        PROVE  Len(world[c]) <= Len(world[d]) + 1
    <3>1. d \in Slots /\ ps[d] = "occupied"
      BY <1>1, <2>1, Constants, HumanConnected DEF IInv, AInv
    <3>2. d \in part[c]
      BY <1>1, <3>1 DEF AInv, OnlyKicked
    <3>3. Len(world[c]) <= Len(at[d]) /\ Len(at[d]) <= Len(world[d]) + 1
      BY <1>1, <2>1, <3>2, Bounds
    <3>4. Len(world[c]) \in Nat /\ Len(at[d]) \in Nat /\ Len(world[d]) \in Nat
      BY <1>1, <3>1, Lengths DEF IInv
    <3> QED BY <3>3, <3>4
  <2>2. ASSUME Humans # Slots, NEW c \in Humans PROVE Len(world[c]) <= FramesBegun + 1
    <3>1. PICK p \in Slots : p \notin Humans
      BY <2>2, Constants
    <3>2. p \in part[c]
      BY <1>1, <3>1 DEF AInv, OnlyKicked
    <3>3. Len(world[c]) <= Len(at[p])
      BY <1>1, <3>2, Bounds
    <3>4. Len(at[p]) = 0 \/ Len(at[p]) = Handled(p) + 1
      BY <1>1, <3>1 DEF AInv, SlotOK, Contributed
    <3>5. Len(world[c]) \in Nat /\ Len(at[p]) \in Nat /\ nr \in Nat
      BY <1>1, Lengths, SlotTypes DEF IInv
    <3>6. Handled(p) <= FramesBegun /\ FramesBegun \in Nat /\ Handled(p) \in Nat
      BY <3>5 DEF Handled, FramesBegun
    <3> QED BY <3>3, <3>4, <3>5, <3>6
  <2>3. \A c \in Humans : Connected(c) => nr <= Len(world[c]) + 1
    BY <1>1, Bounds
  <2> QED BY <2>1, <2>2, <2>3 DEF OneFrameAhead
<1> QED BY <1>1, AheadInvariance, PTL

-----------------------------------------------------------------------------
(* The comparison of the checksums in ClientWatchDog.                      *)

(* The checksum client c sends after its n-th frame. *)
Sum(c, n) == Checksum(Msg(c, n, Nothing))

(* The first message of a frame is the message for this frame. *)
FirstOK == mode = "nwf" /\ first # <<>> => IsMessage(first[1], first[1].from, nr)

(* Until an asynchronous game is reported, the checksums compared so far   *)
(* in this frame are those of the first message; after the frame those of  *)
(* all who are still connected are the same.                               *)
Compared ==
  ~async =>
    /\ mode = "nwf" => \A p \in Slots : p < cur /\ ps[p] = "occupied" =>
                         first # <<>> /\ Checksum(first[1]) = Sum(p, nr)
    /\ mode = "idle" /\ nr >= 1 =>
         \A c, d \in Humans : ps[c] = "occupied" /\ ps[d] = "occupied" =>
           Sum(c, nr - 1) = Sum(d, nr - 1)

DInv == FirstOK /\ Compared /\ NoFalseAlarm

LEMMA Prefix ==
  ASSUME NEW S, NEW v \in Seq(S), NEW w \in Seq(S), NEW n \in Nat, n <= Len(v), n <= Len(w),
         n >= 1, SubSeq(v, 1, n) = SubSeq(w, 1, n)
  PROVE  v[n] = w[n] /\ SubSeq(v, 1, n - 1) = SubSeq(w, 1, n - 1)
<1>1. \A k \in 1..n : v[k] = w[k]
  <2> SUFFICES ASSUME NEW k \in 1..n PROVE v[k] = w[k]
    OBVIOUS
  <2>1. SubSeq(v, 1, n)[k] = v[k] /\ SubSeq(w, 1, n)[k] = w[k]
    OBVIOUS
  <2> QED BY <2>1
<1>2. SubSeq(v, 1, n - 1) = [k \in 1..(n - 1) |-> v[k]]
  OBVIOUS
<1>3. SubSeq(w, 1, n - 1) = [k \in 1..(n - 1) |-> w[k]]
  OBVIOUS
<1>4. n \in 1..n /\ \A k \in 1..(n - 1) : v[k] = w[k]
  BY <1>1
<1>5. [k \in 1..(n - 1) |-> v[k]] = [k \in 1..(n - 1) |-> w[k]]
  BY <1>4
<1> QED BY <1>1, <1>2, <1>3, <1>4, <1>5

LEMMA PrefixStays ==
  ASSUME NEW S, NEW w \in Seq(S), NEW f \in S, NEW n \in Nat, n <= Len(w)
  PROVE  SubSeq(Append(w, f), 1, n) = SubSeq(w, 1, n) /\ n <= Len(Append(w, f))
<1>1. /\ Append(w, f) \in Seq(S) /\ Len(Append(w, f)) = Len(w) + 1 /\ Len(w) \in Nat
      /\ \A k \in 1..Len(w) : Append(w, f)[k] = w[k]
  BY AppendIs
<1>2. \A k \in 1..n : Append(w, f)[k] = w[k]
  BY <1>1
<1>3. SubSeq(w, 1, n) = [k \in 1..n |-> w[k]]
  OBVIOUS
<1>4. SubSeq(Append(w, f), 1, n) = [k \in 1..n |-> Append(w, f)[k]]
  BY <1>1
<1> QED BY <1>1, <1>2, <1>3, <1>4

(* Nothing precedes the first frame. *)
LEMMA NothingBefore == \A v, w : SubSeq(v, 1, 0 - 1) = SubSeq(w, 1, 0 - 1)
OBVIOUS

LEMMA SumOf == \A m, c, n : IsMessage(m, c, n) => Checksum(m) = Sum(c, n)
BY DEF IsMessage, Checksum, Sum, Msg

LEMMA SumFields ==
  \A c, n : /\ Sum(c, n).history = SubSeq(world[c], 1, n - 1)
            /\ Sum(c, n).objects = (n > 0 /\ world[c][n].drift = "objects")
            /\ Sum(c, n) = [n |-> n, history |-> SubSeq(world[c], 1, n - 1),
                            objects |-> n > 0 /\ world[c][n].drift = "objects"]
BY DEF Sum, Checksum, Msg

(* Different checksums of one frame are of different histories. *)
LEMMA SumsDiffer ==
  ASSUME TypeOK, NEW c \in Humans, NEW d \in Humans, NEW n \in Nat,
         n <= Len(world[c]), n <= Len(world[d]), Sum(c, n) # Sum(d, n)
  PROVE  n >= 1 /\ ~Agree(c, d, n)
<1>1. world[c] \in Seq(Frame) /\ world[d] \in Seq(Frame)
  BY DEF TypeOK
<1>2. n # 0
  <2> SUFFICES ASSUME n = 0 PROVE FALSE
    OBVIOUS
  <2>1. SubSeq(world[c], 1, n - 1) = SubSeq(world[d], 1, n - 1)
    BY NothingBefore
  <2>2. ~(n > 0)
    OBVIOUS
  <2> QED BY <2>1, <2>2, SumFields
<1>3. n >= 1
  BY <1>2
<1>4. ASSUME Agree(c, d, n) PROVE FALSE
  <2>1. SubSeq(world[c], 1, n) = SubSeq(world[d], 1, n)
    BY <1>4 DEF Agree
  <2>2. world[c][n] = world[d][n] /\ SubSeq(world[c], 1, n - 1) = SubSeq(world[d], 1, n - 1)
    BY <1>1, <1>3, <2>1, Prefix
  <2> QED BY <2>2, SumFields
<1> QED BY <1>3, <1>4

(* A step changes no frame that was executed. *)
Grown(c) == world'[c] = world[c] \/ \E f \in Frame : world'[c] = Append(world[c], f)

LEMMA WorldsGrow ==
  ASSUME TypeOK, TypeOK', LoopOK, [Next]_vars PROVE \A c \in Humans : Grown(c)
<1>1. CASE world' = world
  BY <1>1 DEF Grown
<1>2. ASSUME NEW c \in Humans, Client(c) PROVE \A d \in Humans : Grown(d)
  <2>1. ASSUME NEW g \in Orders(c, Len(world[c]) + 1), NEW drift \in Drift,
               ExecuteFrame(c, g, drift)
        PROVE  \A d \in Humans : Grown(d)
    <3>1. PICK f : world' = [world EXCEPT ![c] = Append(@, f)]
      BY <2>1 DEF ExecuteFrame
    <3>2. world[c] \in Seq(Frame) /\ world'[c] = Append(world[c], f) /\ world'[c] \in Seq(Frame)
      BY <3>1 DEF TypeOK
    <3>3. f \in Frame
      <4>1. Len(world'[c]) = Len(world[c]) + 1 /\ world'[c][Len(world[c]) + 1] = f
            /\ Len(world[c]) \in Nat
        BY <3>2
      <4>2. Len(world[c]) + 1 \in 1..Len(world'[c])
        BY <4>1
      <4>3. \A k \in 1..Len(world'[c]) : world'[c][k] \in Frame
        BY <3>2
      <4> QED BY <4>1, <4>2, <4>3
    <3>4. \A d \in Humans : d # c => world'[d] = world[d]
      BY <3>1 DEF TypeOK
    <3> QED BY <3>2, <3>3, <3>4 DEF Grown
  <2> QED
    BY <1>1, <1>2, <2>1 DEF Client, ReadStart, ReadGC, ReadKicked, ReadPause, ReadAsync, RealStart,
                            ServerLost
<1> QED BY <1>1, <1>2, ServerExtends DEF Next, vars, clientVars

(* The history of a client up to a frame it has executed stays. *)
LEMMA HistoryStays ==
  ASSUME TypeOK, NEW c \in Humans, Grown(c), NEW n \in Nat, n <= Len(world[c])
  PROVE  SubSeq(world'[c], 1, n) = SubSeq(world[c], 1, n) /\ n <= Len(world'[c])
<1>1. world[c] \in Seq(Frame)
  BY DEF TypeOK
<1> QED BY <1>1, PrefixStays DEF Grown

LEMMA SumStays ==
  ASSUME TypeOK, NEW c \in Humans, Grown(c), NEW n \in Nat, n <= Len(world[c])
  PROVE  Sum(c, n)' = Sum(c, n) /\ n <= Len(world'[c])
<1>1. world[c] \in Seq(Frame)
  BY DEF TypeOK
<1>2. n <= Len(world'[c])
  BY HistoryStays
<1>3. SubSeq(world'[c], 1, n - 1) = SubSeq(world[c], 1, n - 1)
  <2>1. CASE n = 0
    BY <2>1, NothingBefore
  <2>2. CASE n # 0
    <3>1. n - 1 \in Nat /\ n - 1 <= Len(world[c])
      BY <1>1, <2>2
    <3> QED BY <3>1, HistoryStays
  <2> QED BY <2>1, <2>2
<1>4. n > 0 => world'[c][n] = world[c][n]
  <2>1. ASSUME n > 0, NEW f \in Frame, world'[c] = Append(world[c], f)
        PROVE  world'[c][n] = world[c][n]
    <3>1. n \in 1..Len(world[c])
      BY <1>1, <2>1
    <3> QED BY <1>1, <2>1, <3>1, AppendIs
  <2> QED BY <2>1 DEF Grown
<1>5. Sum(c, n)' = [n |-> n, history |-> SubSeq(world'[c], 1, n - 1),
                    objects |-> n > 0 /\ world'[c][n].drift = "objects"]
  BY DEF Sum, Checksum, Msg
<1>6. (n > 0 /\ world'[c][n].drift = "objects") = (n > 0 /\ world[c][n].drift = "objects")
  BY <1>4
<1>7. Sum(c, n) = [n |-> n, history |-> SubSeq(world[c], 1, n - 1),
                   objects |-> n > 0 /\ world[c][n].drift = "objects"]
  BY SumFields
<1> QED BY <1>2, <1>3, <1>5, <1>6, <1>7

LEMMA MessageStays ==
  ASSUME TypeOK, NEW m \in Message, NEW n \in Nat, IsMessage(m, m.from, n), Grown(m.from)
  PROVE  IsMessage(m, m.from, n)' /\ Checksum(m)' = Checksum(m)
<1>1. m.from \in Humans /\ n <= Len(world[m.from]) /\ m.n = n
  BY DEF Message, IsMessage
<1>2. Sum(m.from, n)' = Sum(m.from, n) /\ n <= Len(world'[m.from])
  BY <1>1, SumStays
<1>3. IsMessage(m, m.from, n)'
  BY <1>1, <1>2 DEF IsMessage
<1>4. Checksum(m) = Sum(m.from, n)
  BY SumOf
<1>5. Checksum(m)' = Sum(m.from, n)'
  BY <1>3 DEF IsMessage, Checksum, Sum, Msg
<1> QED BY <1>2, <1>3, <1>4, <1>5

(* How many frames a connected client has done at least. *)
LEMMA FramesDone ==
  ASSUME IInv, AInv, NEW c \in Humans, ps[c] = "occupied"
  PROVE  Handled(c) <= Len(world[c]) + 1 /\ nr <= Len(world[c]) + 1
<1>1. TypeOK /\ SlotOK(c) /\ c \in Slots /\ Settled
  BY Constants DEF IInv, AInv
<1>2. /\ Len(gcq[c]) \in Nat /\ Len(up[c]) \in Nat /\ Len(world[c]) \in Nat
      /\ Handled(c) \in Nat
  BY <1>1, SlotTypes
<1>3. Handled(c) + Len(gcq[c]) + Len(up[c]) <= Len(world[c]) + 1
  BY <1>1 DEF SlotOK, AllSent, Sent
<1>4. \A h, g, u, w \in Nat : h + g + u <= w + 1 => h <= w + 1
  OBVIOUS
<1> QED BY <1>1, <1>2, <1>3, <1>4, HumanConnected, Bounds

(* The message which the loop of a frame takes is the one of this frame. *)
LEMMA TakenMessage ==
  ASSUME IInv, AInv, NEW p \in Slots, NWFMessage(p)
  PROVE  /\ p \in Humans /\ Head(gcq[p]) \in Message
         /\ IsMessage(Head(gcq[p]), p, nr) /\ Head(gcq[p]).from = p
<1>1. TypeOK /\ SlotOK(p)
  BY DEF IInv, AInv
<1>2. /\ gcq[p] \in Seq(Message) /\ gcq[p] # <<>> /\ Len(gcq[p]) \in Nat /\ nr \in Nat
      /\ mode = "nwf" /\ cur = p /\ p \in Nat
  BY <1>1, SlotTypes DEF NWFMessage
<1>3. p \in Humans
  BY <1>1, <1>2 DEF SlotOK, Contributed
<1>4. Head(gcq[p]) \in Message /\ Head(gcq[p]) = gcq[p][1] /\ 1 \in 1..Len(gcq[p])
  BY <1>2, TailIs
<1>5. Handled(p) + (1 - 1) = nr
  BY <1>2 DEF Handled
<1>6. IsMessage(gcq[p][1], p, Handled(p) + (1 - 1))
  BY <1>1, <1>3, <1>4 DEF SlotOK, Numbered
<1> QED BY <1>3, <1>4, <1>5, <1>6 DEF IsMessage

(* What is compared stays what it is. *)
LEMMA FirstStays ==
  ASSUME TypeOK, FirstOK, \A c \in Humans : Grown(c), UNCHANGED <<mode, first, nr>>,
         mode = "nwf", first # <<>>
  PROVE  /\ IsMessage(first[1], first[1].from, nr)'
         /\ Checksum(first[1])' = Checksum(first[1])
<1>1. first \in Seq(Message) /\ nr \in Nat
  BY DEF TypeOK
<1>2. first[1] \in Message /\ IsMessage(first[1], first[1].from, nr)
  BY <1>1 DEF FirstOK
<1>3. Grown(first[1].from)
  BY <1>2 DEF Message
<1>4. IsMessage(first[1], first[1].from, nr)' /\ Checksum(first[1])' = Checksum(first[1])
  <2>1. ASSUME NEW m \in Message, NEW n \in Nat, m = first[1], n = nr
        PROVE  IsMessage(m, m.from, n)' /\ Checksum(m)' = Checksum(m)
    BY <1>2, <1>3, <2>1, MessageStays
  <2>2. first'[1] = first[1] /\ nr' = nr
    OBVIOUS
  <2> QED BY <1>1, <1>2, <2>1, <2>2 DEF IsMessage, Checksum
<1> QED BY <1>4

(* The steps between two of the server's loop, and those of the clients. *)
LEMMA ComparedStays ==
  ASSUME IInv, AInv, FirstOK, Compared, \A c \in Humans : Grown(c),
         UNCHANGED <<mode, first, nr, cur, async>>,
         \A p \in Slots : ps'[p] = "occupied" => ps[p] = "occupied"
  PROVE  FirstOK' /\ Compared'
<1>1. TypeOK /\ nr \in Nat
  BY DEF IInv, TypeOK
<1>2. FirstOK'
  BY <1>1, FirstStays DEF FirstOK
<1>3. ASSUME ~async, mode = "nwf", NEW p \in Slots, p < cur, ps'[p] = "occupied"
      PROVE  first # <<>> /\ Checksum(first[1])' = Sum(p, nr)'
  <2>1. first # <<>> /\ Checksum(first[1]) = Sum(p, nr) /\ ps[p] = "occupied"
    BY <1>3 DEF Compared
  <2>2. p \in Humans
    BY <2>1 DEF AInv, Settled
  <2>3. nr <= Len(world[p])
    <3>1. Handled(p) = nr + 1 /\ Handled(p) <= Len(world[p]) + 1
      BY <1>3, <2>1, <2>2, FramesDone DEF Handled
    <3>2. Len(world[p]) \in Nat
      BY <1>1, <2>2, SlotTypes
    <3> QED BY <1>1, <3>1, <3>2
  <2>4. Sum(p, nr)' = Sum(p, nr)
    <3>1. \A n \in Nat : n = nr => Sum(p, n)' = Sum(p, n)
      BY <1>1, <2>2, <2>3, SumStays
    <3> QED BY <1>1, <3>1 DEF Sum, Msg, Checksum
  <2> QED BY <1>1, <1>3, <2>1, <2>4, FirstStays
<1>4. ASSUME ~async, mode = "idle", nr >= 1, NEW c \in Humans, NEW d \in Humans,
             ps'[c] = "occupied", ps'[d] = "occupied"
      PROVE  Sum(c, nr - 1)' = Sum(d, nr - 1)'
  <2>1. ps[c] = "occupied" /\ ps[d] = "occupied"
    BY <1>4, Constants
  <2>2. Sum(c, nr - 1) = Sum(d, nr - 1)
    BY <1>4, <2>1 DEF Compared
  <2>3. \A e \in {c, d} : nr <= Len(world[e]) + 1 /\ Len(world[e]) \in Nat
    BY <1>1, <2>1, FramesDone, SlotTypes, Constants
  <2>4. nr - 1 \in Nat /\ \A e \in {c, d} : nr - 1 <= Len(world[e])
    BY <1>1, <1>4, <2>3
  <2>5. \A n \in Nat : n = nr - 1 => Sum(c, n)' = Sum(c, n) /\ Sum(d, n)' = Sum(d, n)
    BY <1>1, <2>4, SumStays
  <2>6. Sum(c, nr - 1)' = Sum(c, nr - 1) /\ Sum(d, nr - 1)' = Sum(d, nr - 1)
    BY <2>4, <2>5 DEF Sum, Msg, Checksum
  <2> QED BY <2>2, <2>6
<1>5. Compared'
  BY <1>3, <1>4 DEF Compared
<1> QED BY <1>2, <1>5

(* A report stays justified. *)
LEMMA AlarmStays ==
  ASSUME TypeOK, NoFalseAlarm, \A c \in Humans : Grown(c), async' = async
  PROVE  NoFalseAlarm'
<1> SUFFICES ASSUME async
             PROVE  \E c, d \in Humans : \E k \in 1..Len(world'[c]) :
                      k <= Len(world'[d]) /\ SubSeq(world'[c], 1, k) # SubSeq(world'[d], 1, k)
  BY DEF NoFalseAlarm, Agree
<1>1. PICK c \in Humans, d \in Humans : \E k \in 1..Len(world[c]) : k <= Len(world[d]) /\ ~Agree(c, d, k)
  BY DEF NoFalseAlarm
<1>2. PICK k \in 1..Len(world[c]) : k <= Len(world[d]) /\ ~Agree(c, d, k)
  BY <1>1
<1>3. world[c] \in Seq(Frame) /\ world[d] \in Seq(Frame) /\ k \in Nat /\ k >= 1
      /\ k <= Len(world[c])
  BY <1>2 DEF TypeOK
<1>4. /\ SubSeq(world'[c], 1, k) = SubSeq(world[c], 1, k) /\ k <= Len(world'[c])
      /\ SubSeq(world'[d], 1, k) = SubSeq(world[d], 1, k) /\ k <= Len(world'[d])
  BY <1>2, <1>3, HistoryStays
<1>5. Len(world'[c]) \in Nat
  <2>1. Len(world[c]) \in Nat /\ \A f \in Frame : Len(Append(world[c], f)) \in Nat
    BY <1>3
  <2> QED BY <2>1 DEF Grown
<1>6. k \in 1..Len(world'[c])
  BY <1>3, <1>4, <1>5
<1> QED BY <1>2, <1>4, <1>6 DEF Agree

(* A message in a frame: equal checksums, or a difference to report. *)
LEMMA MessageCompared ==
  ASSUME IInv, AInv, DInv, NEW p \in Slots, NWFMessage(p) PROVE DInv'
<1> DEFINE m == Head(gcq[p])
           r == Reference(m)
<1>1. TypeOK /\ Settled /\ FirstOK /\ Compared /\ NoFalseAlarm
  BY DEF IInv, AInv, DInv
<1>2. /\ p \in Humans /\ m \in Message /\ IsMessage(m, p, nr) /\ m.from = p
  BY TakenMessage
<1>3. /\ mode = "nwf" /\ mode' = "nwf" /\ cur = p /\ cur' = p + 1 /\ first' = <<r>>
      /\ UNCHANGED <<ps, nr, world>>
      /\ IF Checksum(m) # Checksum(r) THEN ReportAsync ELSE SendAI(p)
  BY DEF NWFMessage, clientVars
<1>4. first \in Seq(Message) /\ nr \in Nat /\ p \in Nat
  BY <1>1, SlotTypes DEF TypeOK
<1>5. r \in Message /\ r.from \in Humans /\ IsMessage(r, r.from, nr)
  <2>1. CASE first = <<>>
    BY <1>2, <2>1 DEF Reference, Message
  <2>2. CASE first # <<>>
    <3>1. r = first[1] /\ first[1] \in Message
      BY <1>4, <2>2 DEF Reference
    <3> QED BY <1>1, <1>3, <2>2, <3>1 DEF FirstOK, Message
  <2> QED BY <2>1, <2>2
<1> HIDE DEF m, r
<1>6. first'[1] = r /\ first' # <<>>
  BY <1>3
<1>7. FirstOK'
  BY <1>3, <1>5, <1>6 DEF FirstOK, IsMessage
<1>8. \A x : Checksum(x)' = Checksum(x)
  BY <1>3 DEF Checksum
<1>9. CASE Checksum(m) = Checksum(r)
  <2>1. async' = async
    BY <1>3, <1>9 DEF SendAI
  <2>2. NoFalseAlarm'
    BY <1>1, <1>3, <2>1 DEF NoFalseAlarm, Agree
  <2>3. ASSUME ~async, NEW q \in Slots, q < p + 1, ps[q] = "occupied"
        PROVE  Checksum(r) = Sum(q, nr)
    <3>1. CASE q < p
      <4>1. first # <<>> /\ Checksum(first[1]) = Sum(q, nr)
        BY <1>1, <1>3, <2>3, <3>1 DEF Compared
      <4>2. r = first[1]
        BY <4>1 DEF r, Reference
      <4> QED BY <4>1, <4>2
    <3>2. CASE q = p
      BY <1>2, <1>9, <3>2, SumOf
    <3> QED BY <1>4, <2>3, <3>1, <3>2, SlotTypes, <1>1
  <2>4. Compared'
    <3>1. \A q : Sum(q, nr)' = Sum(q, nr)
      BY <1>3 DEF Sum, Checksum
    <3>2. Checksum(first[1])' = Checksum(r)
      BY <1>3, <1>6 DEF Checksum
    <3> QED BY <1>3, <1>6, <2>1, <2>3, <3>1, <3>2 DEF Compared
  <2> QED BY <1>7, <2>2, <2>4 DEF DInv
<1>10. CASE Checksum(m) # Checksum(r)
  <2>1. async'
    BY <1>3, <1>10 DEF ReportAsync
  <2>2. Sum(p, nr) # Sum(r.from, nr)
    BY <1>2, <1>5, <1>10, SumOf
  <2>3. nr <= Len(world[p]) /\ nr <= Len(world[r.from])
    BY <1>2, <1>5 DEF IsMessage
  <2>4. nr >= 1 /\ ~Agree(p, r.from, nr)
    BY <1>1, <1>2, <1>4, <1>5, <2>2, <2>3, SumsDiffer
  <2>5. nr \in 1..Len(world[p])
    BY <1>1, <1>2, <1>4, <2>3, <2>4, SlotTypes
  <2>6. NoFalseAlarm'
    BY <1>2, <1>3, <1>5, <2>3, <2>4, <2>5 DEF NoFalseAlarm, Agree
  <2> QED BY <1>7, <2>1, <2>6 DEF DInv, Compared
<1> QED BY <1>9, <1>10

(* At the end of a frame all who are connected have been compared. *)
LEMMA EndCompared ==
  ASSUME IInv, AInv, DInv, EndNWF PROVE DInv'
<1>1. TypeOK /\ Settled /\ Compared /\ NoFalseAlarm
  BY DEF IInv, AInv, DInv
<1>2. ~MayChange
  BY <1>1 DEF MayChange, Settled
<1>3. /\ mode = "nwf" /\ mode' = "idle" /\ cur = N + 1 /\ nr' = nr + 1
      /\ UNCHANGED <<ps, async, world>>
  BY <1>2 DEF EndNWF, clientVars
<1>4. FirstOK' /\ NoFalseAlarm'
  BY <1>1, <1>3 DEF FirstOK, NoFalseAlarm, Agree
<1>5. ASSUME ~async, NEW c \in Humans, NEW d \in Humans, ps[c] = "occupied", ps[d] = "occupied"
      PROVE  Sum(c, nr) = Sum(d, nr)
  <2>1. c \in Slots /\ d \in Slots /\ c < cur /\ d < cur
    BY <1>3, Constants
  <2> QED BY <1>1, <1>3, <1>5, <2>1 DEF Compared
<1>6. nr' - 1 = nr
  BY <1>1, <1>3 DEF TypeOK
<1>7. Compared'
  <2>1. \A c : Sum(c, nr - 1)' = Sum(c, nr)
    BY <1>3, <1>6 DEF Sum, Checksum, Msg
  <2> QED BY <1>3, <1>5, <2>1 DEF Compared
<1> QED BY <1>4, <1>7 DEF DInv

LEMMA ServerCompared ==
  ASSUME IInv, IInv', AInv, DInv, Server PROVE DInv'
<1>1. TypeOK /\ TypeOK' /\ LoopOK /\ Settled /\ (mode = "starting" => nr = 0)
  BY DEF IInv, AInv
<1>2. \A c \in Humans : Grown(c)
  BY <1>1, WorldsGrow DEF Next
<1>3. \A p \in Slots : ps'[p] = "occupied" => ps[p] = "occupied"
  BY <1>1, Losing, SlotTypes
<1>4. ASSUME UNCHANGED <<mode, first, nr, cur, async>> PROVE DInv'
  BY <1>1, <1>2, <1>3, <1>4, ComparedStays, AlarmStays DEF DInv
<1>5. CASE StartSlot \/ StartDone \/ BeginNWF
  <2>1. NoFalseAlarm'
    <3>1. async' = async
      BY <1>5 DEF StartSlot, StartDone, BeginNWF
    <3> QED BY <1>1, <1>2, <3>1, AlarmStays DEF DInv
  <2>2. FirstOK'
    BY <1>5 DEF StartSlot, StartDone, BeginNWF, FirstOK
  <2>3. Compared'
    <3>1. CASE StartSlot
      BY <3>1 DEF StartSlot, Compared
    <3>2. CASE StartDone
      BY <1>1, <3>2 DEF StartDone, Compared
    <3>3. CASE BeginNWF
      <4>1. \A p \in Slots : ~(p < 1)
        BY Constants
      <4> QED BY <3>3, <4>1 DEF BeginNWF, Compared
    <3> QED BY <1>5, <3>1, <3>2, <3>3
  <2> QED BY <2>1, <2>2, <2>3 DEF DInv
<1>6. ASSUME NEW p \in Slots, NWFNoMessage(p) PROVE DInv'
  <2>1. /\ mode = "nwf" /\ mode' = "nwf" /\ cur = p /\ cur' = p + 1
        /\ UNCHANGED <<ps, nr, first, world, async>> /\ gcq[p] = <<>>
    BY <1>6 DEF NWFNoMessage, SendAI, clientVars
  <2>2. ps[p] # "occupied"
    BY <1>1, <2>1, SlotTypes DEF AInv, SlotOK, Ready
  <2>3. \A q \in Slots : q < p + 1 /\ ps[q] = "occupied" => q < p
    BY <1>1, <2>2, SlotTypes
  <2>4. FirstOK' /\ NoFalseAlarm'
    BY <2>1 DEF DInv, FirstOK, IsMessage, NoFalseAlarm, Agree
  <2>5. \A q : Sum(q, nr)' = Sum(q, nr)
    BY <2>1 DEF Sum, Checksum
  <2>6. Checksum(first[1])' = Checksum(first[1])
    BY <2>1 DEF Checksum
  <2>7. Compared'
    BY <2>1, <2>3, <2>5, <2>6 DEF DInv, Compared
  <2> QED BY <2>4, <2>7 DEF DInv
<1>7. CASE \E p \in Slots : RecvGC(p) \/ KickPlayer(p)
  BY <1>4, <1>7 DEF RecvGC, KickPlayer
<1>8. CASE TogglePause
  BY <1>4, <1>8 DEF TogglePause
<1> QED BY <1>5, <1>6, <1>7, <1>8, MessageCompared, EndCompared DEF Server

LEMMA NextCompared ==
  ASSUME IInv, IInv', AInv, DInv, [Next]_vars PROVE DInv'
<1>1. CASE Server
  BY <1>1, ServerCompared
<1>2. CASE (\E c \in Humans : Client(c)) \/ UNCHANGED vars
  <2>1. TypeOK /\ TypeOK' /\ LoopOK
    BY DEF IInv
  <2>2. \A c \in Humans : Grown(c)
    BY <2>1, WorldsGrow
  <2>3. UNCHANGED <<mode, first, nr, cur, async, ps>>
    BY <1>2 DEF Client, ReadStart, ReadGC, ReadKicked, ReadPause, ReadAsync, RealStart, ServerLost,
                ExecuteFrame, vars, serverVars
  <2> QED BY <2>1, <2>2, <2>3, ComparedStays, AlarmStays DEF DInv
<1> QED BY <1>1, <1>2 DEF Next

LEMMA InitCompared == Init => DInv
BY DEF Init, DInv, FirstOK, Compared, NoFalseAlarm

LEMMA ComparisonInvariance ==
  ASSUME SwitchTargets = {} PROVE Spec => [](IInv /\ AInv /\ DInv)
<1>1. IInv /\ IInv' /\ AInv /\ DInv /\ [Next]_vars => DInv'
  BY NextCompared
<1>2. Spec => [](IInv /\ AInv)
  BY AheadInvariance
<1> QED BY <1>1, <1>2, InitCompared, PTL DEF Spec

(* While nobody changes slots, ClientWatchDog reports an asynchronous game *)
(* only if the simulations of two clients differ, however late messages    *)
(* arrive and whoever is kicked: it never compares two different frames.   *)
THEOREM AlarmsJustified == ASSUME SwitchTargets = {} PROVE Spec => []NoFalseAlarm
<1>1. DInv => NoFalseAlarm
  BY DEF DInv
<1> QED BY <1>1, ComparisonInvariance, PTL

(* While nobody changes slots, two clients which are connected after frame *)
(* nr have agreed up to frame nr - 2, and in their object counts up to     *)
(* nr - 1, unless a difference has been reported: nobody slips past the    *)
(* comparison of ClientWatchDog.                                           *)
THEOREM DifferencesNoticed == ASSUME SwitchTargets = {} PROVE Spec => []DifferenceNoticed
<1>1. ASSUME IInv, AInv, DInv PROVE DifferenceNoticed
  <2> SUFFICES ASSUME mode = "idle", ~async, nr >= 2, NEW c \in Humans, NEW d \in Humans,
                      Connected(c), Connected(d)
               PROVE  /\ Agree(c, d, nr - 2)
                      /\ world[c][nr - 1].drift = "objects" <=> world[d][nr - 1].drift = "objects"
    BY DEF DifferenceNoticed
  <2>1. ps[c] = "occupied" /\ ps[d] = "occupied" /\ nr \in Nat
    <3>1. TypeOK /\ Settled
      BY <1>1 DEF IInv, AInv
    <3>2. nr \in Nat
      BY <3>1 DEF TypeOK
    <3> QED BY <3>1, <3>2, HumanConnected
  <2>2. Sum(c, nr - 1) = Sum(d, nr - 1)
    BY <1>1, <2>1 DEF DInv, Compared
  <2>3. nr - 1 > 0 /\ (nr - 1) - 1 = nr - 2
    BY <2>1
  <2>4. SubSeq(world[c], 1, nr - 2) = SubSeq(world[d], 1, nr - 2)
    BY <2>2, <2>3, SumFields
  <2>5. (world[c][nr - 1].drift = "objects") = (world[d][nr - 1].drift = "objects")
    <3>1. \A e : Sum(e, nr - 1).objects = (world[e][nr - 1].drift = "objects")
      BY <2>3, SumFields
    <3> QED BY <2>2, <3>1
  <2> QED BY <2>4, <2>5 DEF Agree
<1> QED BY <1>1, ComparisonInvariance, PTL
=============================================================================
