-------------------------- MODULE OmokMatchProofs ---------------------------
(***************************************************************************)
(* Proofs about the game that OmokSystem's server plays: that it ends when *)
(* it should, that the boards of the players follow it as long as nobody   *)
(* leaves, and that it is one match of GomokuMatch after the other when    *)
(* nobody clicks twice.                                                    *)
(***************************************************************************)
EXTENDS OmokOrderProofs, OmokProofs

(***************************************************************************)
(* Results: the game ends for a winner with Five in a row, and not later   *)
(* than CheckGomoku counts Five anywhere on the board, though it only      *)
(* looks through the stone just laid.                                      *)
(***************************************************************************)

\* The result of game g is justified by its board.
Justified(g) ==
  /\ g.is_over => /\ g.winner \in Players
                  /\ \E p \in Cells, d \in Directions : RowFrom(g.gomoku, p, d, g.winner, Five)
  /\ ~g.is_over =>
       \A p \in Cells, d \in Directions :
         g.gomoku[p] # OMOK_EMPTY => Count(g.gomoku, p, d, g.gomoku[p]) # Five

LEMMA FiveIsRow ==
  ASSUME NEW b, NEW s
  PROVE  HasFive(b, s) <=> \E p \in Cells, d \in Directions : RowFrom(b, p, d, s, Five)
BY DEF HasFive, LineOf, RowFrom, Same, On

\* An empty board has no rows (Omok::Init).
LEMMA NewGameJustified ==
  /\ Justified(FreshGame)
  /\ \A g \in Games : Justified(NewGame(g))
BY DEF Justified, FreshGame, NewGame, EmptyBoard, Games

\* Passing the turn changes no result.
LEMMA SwapJustified ==
  ASSUME NEW g \in Games, Justified(g)
  PROVE  Justified(SwapTurn(g))
<1>1. /\ SwapTurn(g).gomoku = g.gomoku /\ SwapTurn(g).winner = g.winner
      /\ SwapTurn(g).is_over = g.is_over
  BY DEF SwapTurn, Games
<1> QED
  BY <1>1 DEF Justified

\* A stone laid on an empty cell, and the check that follows: the result is
\* justified whether or not the game was over already.
LEMMA PlayJustified ==
  ASSUME NEW g \in Games, NEW q \in Cells, NEW s \in Players,
         g.gomoku[q] = OMOK_EMPTY, Justified(g)
  PROVE  Justified(CheckGomoku(SwapTurn(DropStone(g, q, s)), q, s))
<1> DEFINE c == [g.gomoku EXCEPT ![q] = s]
           h == SwapTurn(DropStone(g, q, s))
<1>1. s \in Stones /\ g.gomoku \in Boards /\ c \in Boards /\ c[q] = s
  BY DEF Games, Boards, Players, Stones
<1>2. h.gomoku = c /\ h.winner = g.winner /\ h.is_over = g.is_over /\ h \in Games
  <2>1. DropStone(g, q, s) = [g EXCEPT !.gomoku = c]
    BY DEF DropStone
  <2>2. DropStone(g, q, s) \in Games
    BY <1>1, DropStoneType
  <2>3. h \in Games
    BY <2>2, SwapTurnType
  <2> QED
    BY <1>1, <2>1, <2>3 DEF SwapTurn, Games
<1> HIDE DEF h
<1>3. CASE \E d \in Directions : Count(c, q, d, s) = Five
  <2>1. CheckGomoku(h, q, s) = GameOver(h, s)
    BY <1>2, <1>3 DEF CheckGomoku
  <2>2. /\ GameOver(h, s).gomoku = c /\ GameOver(h, s).winner = s
        /\ GameOver(h, s).is_over = TRUE
    BY <1>2 DEF GameOver, Games
  <2>3. \E p \in Cells, d \in Directions : RowFrom(c, p, d, s, Five)
    BY <1>1, <1>3, CountedRow
  <2> QED
    BY <2>1, <2>2, <2>3 DEF Justified, h
<1>4. CASE \A d \in Directions : Count(c, q, d, s) # Five
  <2>1. CheckGomoku(h, q, s) = h
    BY <1>2, <1>4 DEF CheckGomoku
  <2>2. CASE g.is_over
    <3>1. PICK p \in Cells, d \in Directions : RowFrom(g.gomoku, p, d, g.winner, Five)
      BY <2>2 DEF Justified
    <3>2. RowFrom(c, p, d, g.winner, Five) /\ g.winner \in Players
      BY <1>1, <2>2, <3>1, StonesStay DEF RowFrom, Justified
    <3> QED
      BY <1>2, <2>1, <2>2, <3>2 DEF Justified, h
  <2>3. CASE ~g.is_over
    <3>1. ASSUME NEW p \in Cells, NEW d \in Directions, c[p] # OMOK_EMPTY
          PROVE  Count(c, p, d, c[p]) # Five
      BY <1>1, <1>4, <2>3, <3>1, OnlyNewRows DEF Justified
    <3> QED
      BY <1>2, <2>1, <2>3, <3>1 DEF Justified, h
  <2> QED
    BY <2>2, <2>3
<1> QED
  BY <1>3, <1>4

\* What a step does to the game: a colour is given away, a stone in turn is
\* laid on an empty cell, a new game is started, or nothing.
LEMMA GameSteps ==
  ASSUME PacketInv, [Next]_vars
  PROVE  \/ omok' = omok
         \/ omok' = SwapTurn(omok)
         \/ omok' = NewGame(omok)
         \/ \E p \in Cells, s \in Players :
              /\ omok.gomoku[p] = OMOK_EMPTY /\ s = omok.current_turn
              /\ omok' = CheckGomoku(SwapTurn(DropStone(omok, p, s)), p, s)
<1>1. CASE Parse
  <2>1. PICK c \in Clients : c = sockets[idx]
    BY <1>1, ServedIsSeated DEF Parse, PacketInv
  <2>2. recv_buffer[c] # <<>> /\ recv_buffer[c] \in Seq(Requests(scene[c].myOmokStone))
    BY <1>1, <2>1 DEF PacketInv, ClientInv, Speaks, SeatInv, TypeInv, LoopInv, Parse
  <2>3. Head(recv_buffer[c]) \in Requests(scene[c].myOmokStone)
    BY <2>2, HeadTailProperties
  <2>4. Head(recv_buffer[c]).stone \in Players /\ Head(recv_buffer[c]).at \in Cells
    BY <2>3 DEF Requests, ClientPackets
  <2> QED
    BY <1>1, <2>1, <2>4 DEF Parse, ProcessPacket, Playable, CanDrop
<1>2. CASE Accept
  BY <1>2 DEF Accept, Seat, AssignStoneType, TurnAway, AcceptFails
<1>3. CASE UpdateOver
  BY <1>3 DEF UpdateOver
<1>4. CASE ServerNext /\ ~Parse /\ ~Accept /\ ~UpdateOver
  BY <1>4 DEF ServerNext, NetworkThread, Select, Recv, Send, UpdateTimer, TimerThread,
              KickThread, KickNotify, KickAnswered, KickUnanswered
<1>5. CASE UNCHANGED serverVars
  BY <1>5 DEF serverVars
<1> QED
  BY <1>1, <1>2, <1>3, <1>4, <1>5 DEF Next, ServerStep, ClientStep, vars

ResultInv == PacketInv /\ Justified(omok)

LEMMA ResultInvariant == Spec => []ResultInv
<1>1. Init => ResultInv
  BY InitPackets, NewGameJustified DEF Init, ServerInit, ResultInv
<1>2. ResultInv /\ [Next]_vars => ResultInv'
  <2> SUFFICES ASSUME ResultInv, [Next]_vars PROVE ResultInv'
    OBVIOUS
  <2>1. PacketInv' /\ omok \in Games
    BY PacketStep DEF ResultInv, PacketInv, SeatInv, TypeInv, TypeOK, ServerTypeOK
  <2>2. Justified(omok')
    BY <2>1, GameSteps, SwapJustified, NewGameJustified, PlayJustified DEF ResultInv
  <2> QED
    BY <2>1, <2>2 DEF ResultInv, Justified
<1> QED
  BY <1>1, <1>2, PTL DEF Spec

\* The game is over only for a winner with Five in a row, and it does not go
\* on past a row that CheckGomoku counts as Five.
THEOREM ResultsAreJustified == Spec => []GameOverIsJustified
<1>1. ResultInv => GameOverIsJustified
  BY FiveIsRow DEF ResultInv, Justified, GameOverIsJustified
<1> QED
  BY <1>1, ResultInvariant, PTL

(***************************************************************************)
(* What becomes of a scene by a queue of packets                           *)
(***************************************************************************)

\* f[0], ..., f[n] are the scene s after 0, ..., n packets of q.
Becomes(f, s, q, n) == /\ f[0] = s
                       /\ \A i \in 1..n : f[i] = Process(f[i - 1], q[i])

\* There are such scenes, and After is the last.
LEMMA ScenesOf ==
  ASSUME NEW s, NEW q, Len(q) \in Nat
  PROVE  \E f : Becomes(f, s, q, Len(q)) /\ After(s, q) = f[Len(q)]
<1> DEFINE Upto(n, f) ==
             f = [i \in 0..n |-> IF i = 0 THEN s ELSE Process(f[i - 1], q[i])]
<1>1. After(s, q) = (CHOOSE f : Upto(Len(q), f))[Len(q)]
  BY DEF After
<1>2. ASSUME NEW n \in Nat \ {0}, NEW g, Upto(n - 1, g)
      PROVE  \E f : Upto(n, f)
  <2> DEFINE f == [i \in 0..n |-> IF i = n THEN Process(g[n - 1], q[n]) ELSE g[i]]
  <2>1. \A i \in 0..(n - 1) : g[i] = IF i = 0 THEN s ELSE Process(g[i - 1], q[i])
    BY <1>2
  <2>2. /\ \A i \in 0..(n - 1) : f[i] = g[i]
        /\ f[n] = Process(g[n - 1], q[n])
    OBVIOUS
  <2>3. ASSUME NEW i \in 0..n
        PROVE  f[i] = IF i = 0 THEN s ELSE Process(f[i - 1], q[i])
    <3>1. CASE i = n
      <4>1. n - 1 \in 0..(n - 1)
        OBVIOUS
      <4> QED
        BY <2>2, <3>1, <4>1
    <3>2. CASE i # n
      <4>1. i \in 0..(n - 1) /\ (i # 0 => i - 1 \in 0..(n - 1))
        BY <3>2
      <4> QED
        BY <2>1, <2>2, <4>1
    <3> QED
      BY <3>1, <3>2
  <2> HIDE DEF f
  <2>4. f = [i \in 0..n |-> IF i = 0 THEN s ELSE Process(f[i - 1], q[i])]
    <3>1. f = [i \in 0..n |-> f[i]]
      BY DEF f
    <3> QED
      BY <2>3, <3>1
  <2> QED
    BY <2>4
<1>3. \E f : Upto(0, f)
  <2>1. [i \in 0..0 |-> s] =
          [i \in 0..0 |-> IF i = 0 THEN s ELSE Process([j \in 0..0 |-> s][i - 1], q[i])]
    OBVIOUS
  <2> QED
    BY <2>1
<1>4. \A n \in Nat : \E f : Upto(n, f)
  <2> DEFINE T == {n \in Nat : ~\E f : Upto(n, f)}
  <2> SUFFICES ASSUME T # {} PROVE FALSE
    OBVIOUS
  <2> HIDE DEF Upto
  <2>1. PICK n \in T : \A m \in T : n <= m
    BY LeastNumber
  <2>2. n # 0
    BY <1>3
  <2>3. n \in Nat \ {0} /\ n - 1 \in Nat /\ n - 1 \notin T
    BY <2>1, <2>2
  <2> QED
    BY <1>2, <2>3
<1>5. Upto(Len(q), CHOOSE f : Upto(Len(q), f))
  BY <1>4
<1> DEFINE h == CHOOSE f : Upto(Len(q), f)
<1>6. h = [i \in 0..Len(q) |-> IF i = 0 THEN s ELSE Process(h[i - 1], q[i])]
  BY <1>5
<1> HIDE DEF h
<1>7. Becomes(h, s, q, Len(q))
  BY <1>6 DEF Becomes
<1> QED
  BY <1>1, <1>7 DEF h

\* Scenes that are the same at one point and process the same from there on
\* stay the same.
FromThere(f, g, q, k, m) ==
  /\ f[k] = g[0]
  /\ \A i \in 1..m : /\ f[k + i] = Process(f[k + i - 1], q[k + i])
                      /\ g[i] = Process(g[i - 1], q[k + i])

LEMMA SameFromThere ==
  ASSUME NEW f, NEW g, NEW q, NEW k \in Nat, NEW m \in Nat, FromThere(f, g, q, k, m)
  PROVE  f[k + m] = g[m]
<1> DEFINE T == {i \in 0..m : f[k + i] # g[i]}
<1> SUFFICES ASSUME T # {} PROVE FALSE
  OBVIOUS
<1>0. T \in SUBSET Nat
  OBVIOUS
<1>1. PICK n \in T : \A i \in T : n <= i
  BY <1>0, LeastNumber
<1>2. n # 0
  BY <1>1 DEF FromThere
<1>3. n \in 1..m /\ n - 1 \in 0..m /\ n - 1 \notin T
  BY <1>1, <1>2
<1>4. f[k + (n - 1)] = g[n - 1] /\ k + (n - 1) = k + n - 1
  BY <1>3
<1> QED
  BY <1>1, <1>3, <1>4 DEF FromThere

LEMMA AfterNothing ==
  ASSUME NEW s
  PROVE  After(s, <<>>) = s
BY ScenesOf DEF Becomes

\* One packet more, at the end of the queue.
LEMMA AfterAppend ==
  ASSUME NEW S, NEW q \in Seq(S), NEW m \in S, NEW s
  PROVE  After(s, Append(q, m)) = Process(After(s, q), m)
<1> DEFINE n == Len(q)
           r == Append(q, m)
<1>1. /\ n \in Nat /\ Len(r) = n + 1
      /\ \A i \in 1..n : r[i] = q[i]
      /\ r[n + 1] = m
  BY AppendProperties, LenProperties
<1> HIDE DEF n, r
<1>2. PICK f : Becomes(f, s, r, n + 1) /\ After(s, r) = f[n + 1]
  BY <1>1, ScenesOf
<1>3. PICK g : Becomes(g, s, q, n) /\ After(s, q) = g[n]
  BY <1>1, ScenesOf DEF n
<1>4. f[n] = g[n]
  <2>1. /\ f[0] = g[0]
        /\ \A i \in 1..n : f[i] = Process(f[i - 1], q[i])
        /\ \A i \in 1..n : g[i] = Process(g[i - 1], q[i])
    BY <1>1, <1>2, <1>3 DEF Becomes
  <2>2. \A i \in 1..n : /\ f[0 + i] = Process(f[0 + i - 1], q[0 + i])
                         /\ g[i] = Process(g[i - 1], q[0 + i])
    <3>1. \A i \in 1..n : 0 + i = i /\ 0 + i - 1 = i - 1
      OBVIOUS
    <3> QED
      BY <2>1, <3>1
  <2>3. FromThere(f, g, q, 0, n)
    BY <2>1, <2>2 DEF FromThere
  <2>4. f[0 + n] = g[n]
    BY <1>1, <2>3, SameFromThere
  <2> QED
    BY <1>1, <2>4
<1>5. f[n + 1] = Process(f[n], m)
  BY <1>1, <1>2 DEF Becomes
<1> QED
  BY <1>2, <1>3, <1>4, <1>5 DEF r

\* The first packet of the queue, processed.
LEMMA AfterHead ==
  ASSUME NEW S, NEW q \in Seq(S), q # <<>>, NEW s
  PROVE  After(s, q) = After(Process(s, Head(q)), Tail(q))
<1> DEFINE n == Len(q)
           r == Tail(q)
<1>1. /\ n \in Nat \ {0} /\ Len(r) = n - 1 /\ n - 1 \in Nat
      /\ \A i \in 1..(n - 1) : r[i] = q[1 + i]
      /\ Head(q) = q[1]
  <2>1. /\ n \in Nat \ {0} /\ Len(r) = n - 1 /\ \A i \in 1..Len(r) : r[i] = q[i + 1]
    BY HeadTailProperties, LenProperties, EmptySeq
  <2> QED
    BY <2>1
<1> DEFINE m == n - 1
<1> HIDE DEF n, r
<1>2. PICK f : Becomes(f, s, q, n) /\ After(s, q) = f[n]
  BY <1>1, ScenesOf DEF n
<1>3. m \in Nat /\ Len(r) = m /\ n = 1 + m
  BY <1>1
<1> HIDE DEF m
<1>4. PICK g : /\ Becomes(g, Process(s, Head(q)), r, m)
               /\ After(Process(s, Head(q)), r) = g[m]
  BY <1>3, ScenesOf
<1>5. f[1] = g[0]
  BY <1>1, <1>2, <1>4 DEF Becomes
<1>6. ASSUME NEW i \in 1..m
      PROVE  /\ f[1 + i] = Process(f[1 + i - 1], q[1 + i])
             /\ g[i] = Process(g[i - 1], q[1 + i])
  BY <1>1, <1>2, <1>3, <1>4 DEF Becomes, m
<1>7. FromThere(f, g, q, 1, m)
  BY <1>5, <1>6 DEF FromThere
<1>8. f[1 + m] = g[m]
  BY <1>3, <1>7, SameFromThere
<1> QED
  BY <1>2, <1>3, <1>4, <1>8 DEF r

\* What every packet of the queue preserves.
LEMMA AfterKeeps ==
  ASSUME NEW q, Len(q) \in Nat, NEW P, NEW s \in P,
         \A t \in P, i \in 1..Len(q) : Process(t, q[i]) \in P
  PROVE  After(s, q) \in P
<1>1. PICK f : Becomes(f, s, q, Len(q)) /\ After(s, q) = f[Len(q)]
  BY ScenesOf
<1> DEFINE T == {i \in 0..Len(q) : f[i] \notin P}
<1> SUFFICES ASSUME T # {} PROVE FALSE
  BY <1>1
<1>0. T \in SUBSET Nat
  OBVIOUS
<1>2. PICK n \in T : \A i \in T : n <= i
  BY <1>0, LeastNumber
<1>3. n # 0
  BY <1>1, <1>2 DEF Becomes
<1>4. n \in 1..Len(q) /\ n - 1 \in 0..Len(q) /\ n - 1 \notin T
  BY <1>2, <1>3
<1> QED
  BY <1>1, <1>2, <1>4 DEF Becomes

(***************************************************************************)
(* What a client will see                                                  *)
(***************************************************************************)

\* What is on its way is processed to a scene.
LEMMA EventualType ==
  ASSUME PacketInv, NEW c \in Clients
  PROVE  Pending(c) \in Seq(ServerPackets) /\ Eventual(c) \in Scenes
<1>1. /\ down[c] \in Seq(ServerPackets) /\ send_buffer[c] \in Seq(ServerPackets)
      /\ scene[c] \in Scenes
  BY DEF PacketInv, SeatInv, TypeInv, TypeOK, NetTypeOK, ServerTypeOK, ClientTypeOK
<1>2. Pending(c) \in Seq(ServerPackets)
  BY <1>1, ConcatProperties DEF Pending
<1>3. Len(Pending(c)) \in Nat /\ \A i \in 1..Len(Pending(c)) : Pending(c)[i] \in ServerPackets
  BY <1>2, LenProperties, ElementOfSeq
<1>4. \A s \in Scenes, i \in 1..Len(Pending(c)) : Process(s, Pending(c)[i]) \in Scenes
  BY <1>3, ProcessType
<1>5. After(scene[c], Pending(c)) \in Scenes
  BY <1>1, <1>3, <1>4, AfterKeeps
<1> QED
  BY <1>2, <1>5 DEF Eventual

\* A player that knows its colour keeps it.
LEMMA EventualColour ==
  ASSUME PacketInv, NEW c \in Clients, Seated(c), scene[c].myOmokStone # OMOK_EMPTY
  PROVE  Eventual(c).myOmokStone = scene[c].myOmokStone
<1>1. scene[c] \in Scenes /\ scene[c].current_turn \in Players
  BY DEF PacketInv, SeatInv, TypeInv, TypeOK, ClientTypeOK, ClientInv, Speaks
<1>2. Pending(c) \in Seq(News)
  <2>1. Informed(c)
    BY DEF PacketInv, ClientInv, BeingTold
  <2>2. kick[c] = "none"
    BY SessionsAreKnown DEF PacketInv, Seated
  <2>3. down[c] \in Seq(News) /\ send_buffer[c] \in Seq(News)
    BY <2>1, <2>2 DEF Informed, Told
  <2> QED
    BY <2>3, ConcatProperties DEF Pending
<1> DEFINE P == {s \in Scenes : /\ s.current_turn \in Players
                                /\ s.myOmokStone = scene[c].myOmokStone}
<1>3. Len(Pending(c)) \in Nat /\ \A i \in 1..Len(Pending(c)) : Pending(c)[i] \in News
  BY <1>2, LenProperties, ElementOfSeq
<1>4. \A s \in P, i \in 1..Len(Pending(c)) : Process(s, Pending(c)[i]) \in P
  BY <1>3, ProcessType, ProcessColour, NewsPackets
<1>5. scene[c] \in P
  BY <1>1
<1> HIDE DEF P
<1>6. After(scene[c], Pending(c)) \in P
  BY <1>3, <1>4, <1>5, AfterKeeps
<1> QED
  BY <1>6 DEF P, Eventual

\* What is queued for a client is the last it will process.
LEMMA EventualGrows ==
  ASSUME PacketInv, NEW c \in Clients, NEW m \in ServerPackets,
         scene'[c] = scene[c], down'[c] = down[c],
         send_buffer'[c] = Append(send_buffer[c], m)
  PROVE  Eventual(c)' = Process(Eventual(c), m)
<1>1. Pending(c)' = Append(Pending(c), m) /\ Pending(c) \in Seq(ServerPackets)
  BY PendingGrows, EventualType
<1>2. After(scene[c], Append(Pending(c), m)) = Process(After(scene[c], Pending(c)), m)
  BY <1>1, AfterAppend
<1> QED
  BY <1>1, <1>2 DEF Eventual

\* A client that processes a packet will see what it was going to see.
LEMMA EventualRead ==
  ASSUME PacketInv, NEW c \in Clients, down[c] # <<>>,
         scene'[c] = Process(scene[c], Head(down[c])),
         down'[c] = Tail(down[c]), send_buffer'[c] = send_buffer[c]
  PROVE  Eventual(c)' = Eventual(c)
<1>1. /\ Pending(c) # <<>> /\ Head(Pending(c)) = Head(down[c])
      /\ Pending(c)' = Tail(Pending(c))
  BY PendingRead
<1>2. Pending(c) \in Seq(ServerPackets)
  BY EventualType
<1>3. After(scene[c], Pending(c)) = After(Process(scene[c], Head(Pending(c))), Tail(Pending(c)))
  BY <1>1, <1>2, AfterHead
<1> QED
  BY <1>1, <1>3 DEF Eventual

LEMMA EventualStays ==
  ASSUME NEW c \in Clients, scene'[c] = scene[c], Pending(c)' = Pending(c)
  PROVE  Eventual(c)' = Eventual(c)
BY DEF Eventual

LEMMA EventualUntouched ==
  ASSUME NEW c \in Clients, scene'[c] = scene[c], down'[c] = down[c],
         send_buffer'[c] = send_buffer[c]
  PROVE  Eventual(c)' = Eventual(c)
BY DEF Eventual, Pending

(***************************************************************************)
(* When nobody leaves                                                      *)
(***************************************************************************)

\* No connection is reset, whoever waits or plays is connected, and a scene
\* nobody has spoken to is as OmokScene::Init left it.
NobodyLeft ==
  /\ \A c \in Clients : link[c] # "shut"
  /\ \A c \in session_map : link[c] = "open" /\ phase[c] = "scene"
  /\ \A i \in DOMAIN backlog : link[backlog[i]] = "open" /\ phase[backlog[i]] = "scene"
  /\ \A c \in Clients : Newcomer(c) => scene[c] = InitialScene

LEMMA InitNobodyLeft == Init => NobodyLeft
BY DEF Init, NetInit, ServerInit, ClientInit, NobodyLeft

\* The network thread closes no connection.
LEMMA NetworkClosesNone ==
  ASSUME PacketInv, NobodyLeft, NetworkThread
  PROVE  /\ link' = link
         /\ \/ UNCHANGED <<session_map, backlog>> /\ kick' = kick
            \/ Accept /\ incoming /\ backlog' = Tail(backlog)
<1>1. retval = "error" => pc # "send"
  BY DEF PacketInv, SeatInv, RetvalInv
<1>2. CASE Recv
  <2> PICK c \in Clients : c = sockets[idx]
    BY <1>2, ServedIsSeated DEF Recv, PacketInv
  <2> QED
    BY <1>2 DEF Recv, NobodyLeft, netVars, sessionVars
<1>3. CASE Send
  BY <1>1, <1>3 DEF Send, Transmit
<1>4. CASE Accept
  BY <1>4 DEF Accept, sessionVars
<1>5. CASE Select \/ Parse \/ UpdateTimer \/ UpdateOver
  BY <1>5 DEF Select, Parse, UpdateTimer, UpdateOver, netVars, sessionVars
<1> QED
  BY <1>2, <1>3, <1>4, <1>5 DEF NetworkThread

\* accept() takes the oldest connection from the backlog, for a seat or a kick
\* thread.
LEMMA AcceptStays ==
  ASSUME PacketInv, NobodyLeft, Accept, incoming
  PROVE  /\ Head(backlog) \in Clients /\ Newcomer(Head(backlog))
         /\ session_map' \subseteq session_map \cup {Head(backlog)}
         /\ \A i \in DOMAIN backlog' : \E j \in DOMAIN backlog : backlog'[i] = backlog[j]
         /\ \A c \in Clients : kick'[c] = "notify" => kick[c] = "notify" \/ c = Head(backlog)
         /\ Head(backlog) = backlog[1] /\ 1 \in DOMAIN backlog
<1>1. backlog \in Seq(Clients) /\ backlog # <<>> /\ kick \in [Clients -> KickStates]
  BY DEF PacketInv, SeatInv, TypeInv, TypeOK, NetTypeOK, ServerTypeOK, LoopInv, Accept
<1>2. /\ Tail(backlog) \in Seq(Clients) /\ Len(backlog) \in Nat \ {0}
      /\ Len(Tail(backlog)) = Len(backlog) - 1
      /\ \A i \in 1..Len(Tail(backlog)) : Tail(backlog)[i] = backlog[i + 1]
      /\ Head(backlog) = backlog[1] /\ Head(backlog) \in Clients
      /\ DOMAIN backlog = 1..Len(backlog) /\ DOMAIN Tail(backlog) = 1..Len(Tail(backlog))
  BY <1>1, HeadTailProperties, LenProperties, EmptySeq
<1>3. backlog' = Tail(backlog)
  BY DEF Accept
<1>4. Newcomer(Head(backlog)) /\ 1 \in DOMAIN backlog
  BY <1>2 DEF Newcomer
<1>5. \A i \in DOMAIN backlog' : i + 1 \in DOMAIN backlog /\ backlog'[i] = backlog[i + 1]
  BY <1>2, <1>3
<1>6. session_map' \subseteq session_map \cup {Head(backlog)}
  BY DEF Accept, Seat, InsertSession, TurnAway, AcceptFails, sessionVars
<1>7. \A c \in Clients : kick'[c] = "notify" => kick[c] = "notify" \/ c = Head(backlog)
  BY <1>1, <1>2 DEF Accept, Seat, TurnAway, AcceptFails
<1> QED
  BY <1>2, <1>4, <1>5, <1>6, <1>7

LEMMA ServerNobodyLeft ==
  ASSUME PacketInv, NobodyLeft, ServerStep
  PROVE  NobodyLeft'
<1>1. scene' = scene /\ phase' = phase
  BY DEF ServerStep, clientVars
<1>2. CASE UNCHANGED <<link, session_map, backlog, kick>>
  BY <1>1, <1>2 DEF NobodyLeft, Newcomer, Connecting
<1>3. CASE Accept /\ incoming /\ link' = link
  <2> PICK h : h = Head(backlog)
    OBVIOUS
  <2>1. link[h] = "open" /\ phase[h] = "scene"
    BY <1>3, AcceptStays DEF NobodyLeft
  <2>2. \A c \in session_map' : link'[c] = "open" /\ phase'[c] = "scene"
    BY <1>1, <1>3, <2>1, AcceptStays DEF NobodyLeft
  <2>3. \A i \in DOMAIN backlog' : link'[backlog'[i]] = "open" /\ phase'[backlog'[i]] = "scene"
    BY <1>1, <1>3, AcceptStays DEF NobodyLeft
  <2>4. \A c \in Clients : Newcomer(c)' => Newcomer(c)
    BY <1>1, <1>3, AcceptStays DEF Newcomer, Connecting
  <2> QED
    BY <1>1, <1>3, <2>2, <2>3, <2>4 DEF NobodyLeft
<1>4. CASE NetworkThread
  BY <1>2, <1>3, <1>4, NetworkClosesNone
<1>5. CASE TimerThread
  BY <1>2, <1>5 DEF TimerThread, netVars, sessionVars
<1>6. ASSUME NEW c \in Clients, KickThread(c) PROVE NobodyLeft'
  <2>1. /\ link \in [Clients -> LinkStates] /\ kick \in [Clients -> KickStates]
        /\ UNCHANGED <<session_map, backlog>>
    BY <1>6 DEF PacketInv, SeatInv, TypeInv, TypeOK, NetTypeOK, ServerTypeOK, KickThread,
                KickNotify, KickAnswered, KickUnanswered, sessionVars, netVars
  <2>2. kick[c] # "none"
    BY <1>6 DEF KickThread, KickNotify, KickAnswered, KickUnanswered
  <2>3. c \notin session_map /\ \A i \in DOMAIN backlog : backlog[i] # c
    BY <2>2 DEF PacketInv, SeatInv, StageInv, OnePlaceAtATime
  <2>4. link' = link \/ link' = [link EXCEPT ![c] = "closed"]
    BY <1>6 DEF KickThread, KickNotify, KickAnswered, KickUnanswered, netVars
  <2>5. /\ \A d \in Clients \ {c} : link'[d] = link[d]
        /\ link'[c] # "shut"
    BY <2>1, <2>4 DEF NobodyLeft
  <2>6. \A d \in Clients : kick'[d] = "notify" => kick[d] = "notify"
    BY <1>6, <2>1 DEF KickThread, KickNotify, KickAnswered, KickUnanswered
  <2>7. \A d \in Clients : Newcomer(d)' => Newcomer(d)
    BY <1>1, <2>1, <2>6 DEF Newcomer, Connecting
  <2>8. session_map \subseteq Clients /\ \A i \in DOMAIN backlog : backlog[i] \in Clients
    <3>1. backlog \in Seq(Clients) /\ session_map \subseteq Clients
      BY DEF PacketInv, SeatInv, TypeInv, TypeOK, NetTypeOK, ServerTypeOK
    <3> QED
      BY <3>1, ElementOfSeq, LenProperties
  <2> QED
    BY <1>1, <2>1, <2>3, <2>5, <2>7, <2>8 DEF NobodyLeft
<1> QED
  BY <1>4, <1>5, <1>6 DEF ServerStep, ServerNext

LEMMA ClientNobodyLeft ==
  ASSUME Leavers = {}, PacketInv, NobodyLeft, NEW c \in Clients, ClientStep(c)
  PROVE  NobodyLeft'
<1> DEFINE clicking == MayClick(c)
<1>1. UNCHANGED serverVars /\ ClientNext(c, clicking)
  BY DEF ClientStep
<1> HIDE DEF clicking
<1>2. /\ session_map' = session_map /\ kick' = kick
      /\ link \in [Clients -> LinkStates] /\ phase \in [Clients -> Phases]
      /\ scene \in [Clients -> Scenes] /\ backlog \in Seq(Clients)
      /\ session_map \subseteq Clients
  BY <1>1 DEF serverVars, sessionVars, PacketInv, SeatInv, TypeInv, TypeOK, NetTypeOK,
              ServerTypeOK, ClientTypeOK
<1>3. \A i \in DOMAIN backlog : backlog[i] \in Clients
  BY <1>2, ElementOfSeq, LenProperties
<1>4. CASE Connect(c) \/ UpdateTooEarly(c)
  <2>1. Connecting(c) /\ UNCHANGED <<scene, link, backlog>>
    BY <1>4 DEF Connect, UpdateTooEarly, Connecting, netVars
  <2>2. \A d \in Clients \ {c} : phase'[d] = phase[d]
    BY <1>2, <1>4 DEF Connect, UpdateTooEarly
  <2>3. c \notin session_map /\ \A i \in DOMAIN backlog : backlog[i] # c
    BY <2>1 DEF PacketInv, SeatInv, StageInv
  <2>4. \A d \in Clients : Newcomer(d)' => Newcomer(d)
    BY <1>2, <2>1, <2>2 DEF Newcomer, Connecting
  <2> QED
    BY <1>2, <1>3, <2>1, <2>2, <2>3, <2>4 DEF NobodyLeft
<1>5. CASE Connected(c)
  <2>1. /\ Connecting(c) /\ scene' = scene /\ backlog' = Append(backlog, c)
        /\ link'[c] = "open" /\ phase'[c] = "scene"
        /\ \A d \in Clients \ {c} : link'[d] = link[d] /\ phase'[d] = phase[d]
    BY <1>2, <1>5 DEF Connected, Connecting
  <2>2. \A i \in DOMAIN backlog' :
          backlog'[i] = c \/ (i \in DOMAIN backlog /\ backlog'[i] = backlog[i])
    BY <1>2, <2>1, AppendProperties, LenProperties
  <2>3. \A d \in Clients : Newcomer(d)' => Newcomer(d)
    BY <1>2, <2>1, <2>2 DEF Newcomer, Connecting
  <2> QED
    BY <1>2, <1>3, <2>1, <2>2, <2>3 DEF NobodyLeft
<1>6. CASE Update(c, clicking)
  <2> PICK clicked \in IF clicking THEN Clicks(c) ELSE {<<>>} : Exchange(c, clicked)
    BY <1>6 DEF Update
  <2>1. UNCHANGED <<link, backlog>>
    BY <1>6 DEF Update
  <2>2. CASE down[c] # <<>> /\ phase' = phase /\ scene' = [scene EXCEPT ![c] = Process(@, Head(down[c]))]
    <3>1. ~Newcomer(c)
      BY <2>2 DEF PacketInv, ClientInv, Silent
    <3>2. \A d \in Clients : Newcomer(d)' <=> Newcomer(d)
      BY <1>2, <2>1, <2>2 DEF Newcomer, Connecting
    <3>3. \A d \in Clients \ {c} : scene'[d] = scene[d]
      BY <1>2, <2>2
    <3> QED
      BY <1>2, <2>1, <2>2, <3>1, <3>2, <3>3 DEF NobodyLeft
  <2>3. CASE link[c] = "closed" /\ phase' = [phase EXCEPT ![c] = "cut"] /\ scene' = scene
    <3>1. c \notin session_map /\ \A i \in DOMAIN backlog : backlog[i] # c
      BY <2>3 DEF NobodyLeft
    <3>2. \A d \in Clients : Newcomer(d)' => Newcomer(d)
      BY <1>2, <2>1, <2>3 DEF Newcomer, Connecting
    <3> QED
      BY <1>2, <1>3, <2>1, <2>3, <3>1, <3>2 DEF NobodyLeft
  <2>4. CASE UNCHANGED <<phase, scene>>
    BY <1>2, <2>1, <2>4 DEF NobodyLeft, Newcomer, Connecting
  <2> QED
    BY <2>2, <2>3, <2>4 DEF Exchange
<1> QED
  BY <1>1, <1>4, <1>5, <1>6 DEF ClientNext, ExitScene, CloseWindow

LEMMA NobodyLeftStep ==
  ASSUME Leavers = {}, PacketInv, NobodyLeft, [Next]_vars
  PROVE  NobodyLeft'
<1>1. CASE UNCHANGED vars
  BY <1>1 DEF vars, netVars, serverVars, sessionVars, clientVars, NobodyLeft, Newcomer, Connecting
<1> QED
  BY <1>1, ServerNobodyLeft, ClientNobodyLeft DEF Next

(***************************************************************************)
(* What a step does to the game and to what the players will see of it     *)
(***************************************************************************)

Quiet == /\ UNCHANGED <<session_map, omok>>
         /\ \A c \in session_map : Eventual(c)' = Eventual(c)

\* Every player will process m after all the rest.
Announces(m) == /\ session_map' = session_map
                /\ \A c \in session_map : Eventual(c)' = Process(Eventual(c), m)

\* Player c, whose request is parsed, puts a stone of its colour on cell p.
Plays(c, p) ==
  LET s == scene[c].myOmokStone
  IN  /\ Parse /\ c = sockets[idx]
      /\ s \in Players /\ s = omok.current_turn /\ omok.gomoku[p] = OMOK_EMPTY
      /\ omok' = CheckGomoku(SwapTurn(DropStone(omok, p, s)), p, s)
      /\ Broadcast(DropResponse(s, p)) /\ Announces(DropResponse(s, p))

\* Client c gets a seat and the colour in turn.
SitsDown(c) ==
  /\ Accept /\ c \notin session_map /\ Len(sockets) < 2
  /\ session_map' = session_map \cup {c}
  /\ omok' = SwapTurn(omok)
  /\ Eventual(c)' = Process(InitialScene, AssignStone(omok.current_turn))
  /\ \A d \in session_map : Eventual(d)' = Eventual(d)

\* The result is announced and the next game begins.
GameEnds ==
  /\ UpdateOver /\ omok.is_over /\ omok' = NewGame(omok)
  /\ Announces(GameResult(omok.winner, time_tick))

LEMMA QuietStep ==
  ASSUME SeatInv, UNCHANGED <<session_map, omok, scene, down, send_buffer>>
  PROVE  Quiet
<1>1. session_map \subseteq Clients
  BY DEF SeatInv, TypeInv, TypeOK, ServerTypeOK
<1> QED
  BY <1>1, EventualUntouched DEF Quiet

LEMMA BroadcastIsAnnounced ==
  ASSUME PacketInv, NEW m \in ServerPackets, Broadcast(m),
         UNCHANGED <<session_map, scene, down>>
  PROVE  Announces(m)
<1>1. session_map \subseteq Clients
  BY DEF PacketInv, SeatInv, TypeInv, TypeOK, ServerTypeOK
<1>2. ASSUME NEW c \in session_map PROVE Eventual(c)' = Process(Eventual(c), m)
  <2>1. c \in Clients /\ send_buffer'[c] = Append(send_buffer[c], m)
    BY <1>1 DEF Broadcast
  <2> QED
    BY <2>1, EventualGrows
<1> QED
  BY <1>2 DEF Announces

\* update_time, update_over.
LEMMA UpdateIsSeen ==
  ASSUME PacketInv, UNCHANGED clientVars, UpdateTimer \/ UpdateOver
  PROVE  \/ Quiet
         \/ omok' = omok /\ Announces(ServerTime(time_tick))
         \/ GameEnds
<1>1. SeatInv /\ time_tick \in Nat /\ omok.winner \in Stones
  BY DEF PacketInv, SeatInv, TypeInv, TypeOK, ServerTypeOK, Games
<1>2. /\ ServerTime(time_tick) \in ServerPackets
      /\ GameResult(omok.winner, time_tick) \in ServerPackets
  BY <1>1, ServerPacketTypes
<1>3. UNCHANGED <<session_map, scene, down>>
  BY DEF UpdateTimer, UpdateOver, netVars, clientVars
<1>4. CASE UpdateTimer
  <2>1. omok' = omok
    BY <1>4 DEF UpdateTimer
  <2> QED
    BY <1>1, <1>2, <1>3, <1>4, <2>1, QuietStep, BroadcastIsAnnounced DEF UpdateTimer
<1>5. CASE UpdateOver
  BY <1>1, <1>2, <1>3, <1>5, QuietStep, BroadcastIsAnnounced DEF UpdateOver, GameEnds
<1> QED
  BY <1>4, <1>5

\* Session::parse_packet.
LEMMA ParseIsSeen ==
  ASSUME PacketInv, UNCHANGED clientVars, Parse
  PROVE  Quiet \/ \E c \in session_map, p \in Cells : Plays(c, p)
<1> PICK c \in session_map : c = sockets[idx] /\ c \in Clients
  BY ServedIsSeated DEF Parse, PacketInv
<1> DEFINE m == Head(recv_buffer[c])
<1>1. SeatInv /\ UNCHANGED <<session_map, scene, down>>
  BY DEF PacketInv, Parse, netVars, clientVars
<1>2. recv_buffer[c] # <<>> /\ recv_buffer[c] \in Seq(Requests(scene[c].myOmokStone))
  BY DEF PacketInv, ClientInv, Speaks, SeatInv, TypeInv, LoopInv, Parse
<1>3. m \in Requests(scene[c].myOmokStone)
  BY <1>2, HeadTailProperties
<1>4. /\ m.stone = scene[c].myOmokStone /\ m.stone \in Players /\ m.stone \in Stones
      /\ m.at \in Cells
  BY <1>3 DEF Requests, ClientPackets
<1>5. CASE Playable(m) /\ Broadcast(DropResponse(m.stone, m.at))
           /\ omok' = CheckGomoku(SwapTurn(DropStone(omok, m.at, m.stone)), m.at, m.stone)
  <2>1. Announces(DropResponse(m.stone, m.at))
    BY <1>1, <1>4, <1>5, BroadcastIsAnnounced, ServerPacketTypes
  <2>2. m.stone = omok.current_turn /\ omok.gomoku[m.at] = OMOK_EMPTY
    BY <1>5 DEF Playable, CanDrop
  <2>3. Plays(c, m.at)
    BY <1>4, <1>5, <2>1, <2>2 DEF Plays
  <2> QED
    BY <1>4, <2>3
<1>6. CASE UNCHANGED <<omok, send_buffer>>
  BY <1>1, <1>6, QuietStep
<1> QED
  BY <1>5, <1>6 DEF Parse, ProcessPacket

\* send() to a player whose connection is open loses nothing.
LEMMA SendIsSeen ==
  ASSUME PacketInv, NobodyLeft, UNCHANGED clientVars, Send
  PROVE  Quiet
<1> PICK s \in session_map : s = sockets[idx] /\ s \in Clients
  BY ServedIsSeated DEF Send, PacketInv
<1>1. /\ SeatInv /\ session_map \subseteq Clients
      /\ send_buffer \in [Clients -> Seq(ServerPackets)]
      /\ down \in [Clients -> Seq(ServerPackets)]
  BY DEF PacketInv, SeatInv, TypeInv, TypeOK, ServerTypeOK, NetTypeOK
<1>2. retval # "error"
  BY DEF PacketInv, SeatInv, RetvalInv, Send
<1>3. UNCHANGED <<session_map, omok, scene>>
  BY DEF Send, clientVars
<1>4. CASE UNCHANGED <<send_buffer, down>>
  BY <1>1, <1>3, <1>4, QuietStep
<1>5. CASE Transmit(s)
  <2>1. link[s] = "open"
    BY DEF NobodyLeft
  <2>2. ASSUME NEW c \in Clients PROVE Pending(c)' = Pending(c)
    <3>1. CASE c = s
      BY <1>5, <2>1, <3>1, PendingSent
    <3>2. CASE c # s
      <4>1. send_buffer'[c] = send_buffer[c] /\ down'[c] = down[c]
        BY <1>1, <1>5, <2>1, <3>2 DEF Transmit
      <4> QED
        BY <4>1 DEF Pending
    <3> QED
      BY <3>1, <3>2
  <2>3. \A c \in Clients : Eventual(c)' = Eventual(c)
    BY <1>3, <2>2, EventualStays
  <2> QED
    BY <1>1, <1>3, <2>3 DEF Quiet
<1> QED
  BY <1>2, <1>4, <1>5 DEF Send

\* accept() and AssignStoneType.
LEMMA AcceptIsSeen ==
  ASSUME PacketInv, NobodyLeft, UNCHANGED clientVars, Accept
  PROVE  Quiet \/ \E c \in Clients : SitsDown(c)
<1>1. SeatInv /\ UNCHANGED <<scene, down>>
  BY DEF PacketInv, Accept, clientVars
<1>2. CASE UNCHANGED <<sessionVars, omok>>
  BY <1>1, <1>2, QuietStep DEF sessionVars
<1>3. CASE incoming /\ Seat(Head(backlog))
  <2> PICK c \in Clients : c = Head(backlog)
    BY <1>3, AcceptStays
  <2> DEFINE m == AssignStone(omok.current_turn)
  <2>1. /\ send_buffer' = [send_buffer EXCEPT ![c] = <<m>>] /\ omok' = SwapTurn(omok)
        /\ session_map' = session_map \cup {c} /\ Len(sockets) < 2
    BY <1>3 DEF Seat, AssignStoneType, InsertSession, MaxConnectionCount
  <2>2. /\ send_buffer \in [Clients -> Seq(ServerPackets)]
        /\ session_map \subseteq Clients /\ m \in ServerPackets
    <3>1. omok.current_turn \in Stones
      BY DEF PacketInv, SeatInv, TypeInv, TypeOK, ServerTypeOK, Games
    <3> QED
      BY <3>1, ServerPacketTypes DEF PacketInv, SeatInv, TypeInv, TypeOK, ServerTypeOK
  <2>3. /\ Newcomer(c) /\ c \notin session_map
    BY <1>3, AcceptStays DEF PacketInv, SeatInv, StageInv, OnePlaceAtATime
  <2>4. scene[c] = InitialScene /\ down[c] = <<>>
    BY <2>3 DEF NobodyLeft, PacketInv, ClientInv, Silent
  <2>5. Eventual(c)' = Process(InitialScene, m)
    <3>1. send_buffer'[c] = <<m>>
      BY <2>1, <2>2
    <3>2. Pending(c)' = <<m>>
      <4>1. <<>> \o <<m>> = <<m>>
        OBVIOUS
      <4> QED
        BY <1>1, <2>4, <3>1, <4>1 DEF Pending
    <3>3. After(InitialScene, <<m>>) = Process(InitialScene, m)
      <4>1. <<>> \in Seq(ServerPackets) /\ Append(<<>>, m) = <<m>>
        BY EmptySeq
      <4>2. After(InitialScene, Append(<<>>, m)) = Process(After(InitialScene, <<>>), m)
        BY <2>2, <4>1, AfterAppend
      <4> QED
        BY <4>1, <4>2, AfterNothing
    <3> QED
      BY <1>1, <2>4, <3>2, <3>3 DEF Eventual
  <2>6. ASSUME NEW d \in session_map PROVE Eventual(d)' = Eventual(d)
    <3>1. d \in Clients /\ send_buffer'[d] = send_buffer[d]
      BY <2>1, <2>2, <2>3
    <3> QED
      BY <1>1, <3>1, EventualUntouched
  <2>7. SitsDown(c)
    BY <2>1, <2>3, <2>5, <2>6 DEF SitsDown
  <2> QED
    BY <2>7
<1>4. CASE incoming /\ TurnAway(Head(backlog))
  BY <1>2, <1>4 DEF TurnAway
<1>5. CASE incoming /\ AcceptFails(Head(backlog))
  BY <1>2, <1>5 DEF AcceptFails
<1> QED
  BY <1>2, <1>3, <1>4, <1>5 DEF Accept

\* A kick thread has no player, and recv() nobody to remove.
LEMMA OthersAreQuiet ==
  ASSUME PacketInv, NobodyLeft, UNCHANGED clientVars,
         Select \/ Recv \/ TimerThread \/ \E k \in Clients : KickThread(k)
  PROVE  Quiet
<1>1. SeatInv /\ session_map \subseteq Clients /\ down \in [Clients -> Seq(ServerPackets)]
  BY DEF PacketInv, SeatInv, TypeInv, TypeOK, ServerTypeOK, NetTypeOK
<1>2. CASE Select \/ TimerThread
  BY <1>1, <1>2, QuietStep DEF Select, TimerThread, sessionVars, netVars, clientVars
<1>3. CASE Recv
  <2>1. session_map' = session_map
    BY <1>3, NetworkClosesNone DEF NetworkThread, Recv, Accept
  <2>2. UNCHANGED <<omok, scene, down, send_buffer>>
    BY <1>3 DEF Recv, sessionVars, netVars, clientVars
  <2> QED
    BY <1>1, <2>1, <2>2, QuietStep
<1>4. ASSUME NEW k \in Clients, KickThread(k) PROVE Quiet
  <2>1. k \notin session_map
    BY <1>4, SessionsAreKnown DEF PacketInv, KickThread, KickNotify, KickAnswered, KickUnanswered
  <2>2. /\ UNCHANGED <<session_map, omok, scene, send_buffer>>
        /\ \A c \in Clients \ {k} : down'[c] = down[c]
    BY <1>1, <1>4 DEF KickThread, KickNotify, KickAnswered, KickUnanswered, sessionVars,
                      netVars, clientVars
  <2>3. \A c \in session_map : Eventual(c)' = Eventual(c)
    BY <1>1, <2>1, <2>2, EventualUntouched
  <2> QED
    BY <2>2, <2>3 DEF Quiet
<1> QED
  BY <1>2, <1>3, <1>4

\* A client processes what it was going to see.
LEMMA ClientIsQuiet ==
  ASSUME Leavers = {}, PacketInv, NEW c \in Clients, ClientStep(c)
  PROVE  Quiet
<1> DEFINE clicking == MayClick(c)
<1>1. UNCHANGED serverVars /\ ClientNext(c, clicking)
  BY DEF ClientStep
<1> HIDE DEF clicking
<1>2. /\ SeatInv /\ session_map \subseteq Clients
      /\ down \in [Clients -> Seq(ServerPackets)] /\ scene \in [Clients -> Scenes]
      /\ UNCHANGED <<session_map, omok, send_buffer>>
  BY <1>1 DEF serverVars, sessionVars, PacketInv, SeatInv, TypeInv, TypeOK, NetTypeOK,
              ServerTypeOK, ClientTypeOK
<1>3. CASE UNCHANGED <<scene, down>>
  BY <1>2, <1>3, QuietStep
<1>4. CASE /\ down[c] # <<>>
           /\ scene' = [scene EXCEPT ![c] = Process(@, Head(down[c]))]
           /\ down' = [down EXCEPT ![c] = Tail(@)]
  <2>1. Eventual(c)' = Eventual(c)
    BY <1>2, <1>4, EventualRead
  <2>2. \A d \in Clients \ {c} : Eventual(d)' = Eventual(d)
    BY <1>2, <1>4, EventualUntouched
  <2> QED
    BY <1>2, <2>1, <2>2 DEF Quiet
<1>5. CASE Connect(c) \/ Connected(c) \/ UpdateTooEarly(c)
  BY <1>3, <1>5 DEF Connect, Connected, UpdateTooEarly, netVars
<1>6. CASE Update(c, clicking)
  BY <1>3, <1>4, <1>6 DEF Update, Exchange
<1> QED
  BY <1>1, <1>5, <1>6 DEF ClientNext, ExitScene, CloseWindow

LEMMA GameAndPlayers ==
  ASSUME Leavers = {}, PacketInv, NobodyLeft, [Next]_vars
  PROVE  \/ Quiet
         \/ omok' = omok /\ Announces(ServerTime(time_tick))
         \/ GameEnds
         \/ \E c \in session_map, p \in Cells : Plays(c, p)
         \/ \E c \in Clients : SitsDown(c)
<1>1. CASE ServerStep
  BY <1>1, UpdateIsSeen, ParseIsSeen, SendIsSeen, AcceptIsSeen, OthersAreQuiet
     DEF ServerStep, ServerNext, NetworkThread
<1>2. CASE \E c \in Clients : ClientStep(c)
  BY <1>2, ClientIsQuiet
<1>3. CASE UNCHANGED vars
  <2>1. SeatInv /\ UNCHANGED <<session_map, omok, scene, down, send_buffer>>
    BY <1>3 DEF vars, netVars, serverVars, sessionVars, clientVars, PacketInv
  <2> QED
    BY <2>1, QuietStep
<1> QED
  BY <1>1, <1>2, <1>3 DEF Next

(***************************************************************************)
(* The players' games                                                      *)
(***************************************************************************)

\* OmokScene::Init and the first packet: the player's own colour, no stone.
Fresh(s) == /\ s.gomoku = EmptyBoard /\ s.current_turn = OMOK_BLACK
            /\ s.isOver = FALSE /\ s.winner = OMOK_EMPTY

Alike(s, t) == /\ s.gomoku = t.gomoku /\ s.current_turn = t.current_turn
               /\ s.isOver = t.isOver /\ s.winner = t.winner

\* Board b with stone x on cell p.
Laid(b, p, x) == [b EXCEPT ![p] = x]

Untouched == omok.gomoku = EmptyBoard /\ ~omok.is_over

\* A scene that has not been told of a result shows the server's game.
Follows(s) == ~s.isOver => s.gomoku = omok.gomoku /\ s.current_turn = omok.current_turn

NoPlayer == session_map = {} /\ Untouched /\ omok.current_turn = OMOK_BLACK

\* The first player has black, and the server's turn is already white's: no
\* request of this player can be played.
OnePlayer(a) ==
  /\ session_map = {a} /\ Untouched /\ omok.current_turn = OMOK_WHITE
  /\ Fresh(Eventual(a)) /\ Eventual(a).myOmokStone = OMOK_BLACK

TwoPlayers(a, b) ==
  /\ a # b /\ session_map = {a, b}
  /\ Eventual(a).myOmokStone = OMOK_BLACK /\ Eventual(b).myOmokStone = OMOK_WHITE
  /\ Alike(Eventual(a), Eventual(b)) /\ Follows(Eventual(a))

Seats == \/ NoPlayer
         \/ \E a \in Clients : OnePlayer(a)
         \/ \E a, b \in Clients : TwoPlayers(a, b)

ReplicaInv == PacketInv /\ NobodyLeft /\ Seats

\* What OmokClient::process_packet does to the player's game.
LEMMA ProcessedGame ==
  ASSUME NEW s \in Scenes
  PROVE  /\ \A t \in Nat : LET u == Process(s, ServerTime(t)) IN
              Alike(u, s) /\ u.myOmokStone = s.myOmokStone
         /\ \A w \in Stones, t \in Nat : LET u == Process(s, GameResult(w, t)) IN
              /\ u.gomoku = s.gomoku /\ u.current_turn = s.current_turn
              /\ u.isOver = TRUE /\ u.winner = w /\ u.myOmokStone = s.myOmokStone
         /\ \A x \in Stones, p \in Cells : LET u == Process(s, DropResponse(x, p)) IN
              /\ u.gomoku = Laid(s.gomoku, p, x)
              /\ u.current_turn = OtherStone(s.current_turn)
              /\ u.isOver = s.isOver /\ u.winner = s.winner /\ u.myOmokStone = s.myOmokStone
         /\ \A x \in Stones : LET u == Process(s, AssignStone(x)) IN
              Alike(u, s) /\ u.myOmokStone = x
<1>1. ASSUME NEW t \in Nat
      PROVE  LET u == Process(s, ServerTime(t)) IN
               Alike(u, s) /\ u.myOmokStone = s.myOmokStone
  BY DEF Process, ServerTime, Alike, Scenes
<1>2. ASSUME NEW w \in Stones, NEW t \in Nat
      PROVE  LET u == Process(s, GameResult(w, t)) IN
              /\ u.gomoku = s.gomoku /\ u.current_turn = s.current_turn
              /\ u.isOver = TRUE /\ u.winner = w /\ u.myOmokStone = s.myOmokStone
  BY DEF Process, GameResult, Scenes
<1>3. ASSUME NEW x \in Stones, NEW p \in Cells
      PROVE  LET u == Process(s, DropResponse(x, p)) IN
              /\ u.gomoku = Laid(s.gomoku, p, x)
              /\ u.current_turn = OtherStone(s.current_turn)
              /\ u.isOver = s.isOver /\ u.winner = s.winner /\ u.myOmokStone = s.myOmokStone
  BY DEF Process, DropResponse, Scenes, Laid
<1>4. ASSUME NEW x \in Stones
      PROVE  LET u == Process(s, AssignStone(x)) IN Alike(u, s) /\ u.myOmokStone = x
  BY DEF Process, AssignStone, Alike, Scenes
<1> QED
  BY <1>1, <1>2, <1>3, <1>4

\* What a move does to the server's game.
LEMMA PlayedGame ==
  ASSUME NEW g \in Games, NEW p \in Cells, NEW s \in Stones
  PROVE  LET h == CheckGomoku(SwapTurn(DropStone(g, p, s)), p, s) IN
           /\ h.gomoku = Laid(g.gomoku, p, s)
           /\ h.current_turn = OtherStone(g.current_turn)
BY DEF CheckGomoku, GameOver, SwapTurn, DropStone, Games, Laid

\* While nobody leaves, a player's request is of the colour it will have.
LEMMA OwnStone ==
  ASSUME PacketInv, NobodyLeft, NEW c \in session_map, scene[c].myOmokStone \in Players
  PROVE  Eventual(c).myOmokStone = scene[c].myOmokStone
<1>1. c \in Clients /\ Seated(c)
  BY DEF NobodyLeft, Seated, PacketInv, SeatInv, TypeInv, TypeOK, ServerTypeOK
<1> QED
  BY <1>1, EventualColour DEF Players, OMOK_EMPTY, OMOK_BLACK, OMOK_WHITE

LEMMA InitSeats == Init => Seats
BY DEF Init, ServerInit, FreshGame, Seats, NoPlayer, Untouched

\* Two players take no third: Accept counts the sockets, which are the sessions.
LEMMA RoomLeft ==
  ASSUME PacketInv, NEW a, NEW b, a # b, session_map = {a, b}
  PROVE  ~(Len(sockets) < 2)
<1>1. sockets \in Seq(Clients) /\ session_map = InArray
  BY DEF PacketInv, SeatInv, TypeInv, TypeOK, ServerTypeOK, SessionsMatchSockets
<1>2. DOMAIN sockets = 1..Len(sockets) /\ Len(sockets) \in Nat
  BY <1>1, LenProperties
<1>3. PICK i, j \in 1..Len(sockets) : sockets[i] = a /\ sockets[j] = b
  BY <1>1, <1>2 DEF InArray
<1> QED
  BY <1>2, <1>3

LEMMA QuietSeats ==
  ASSUME Quiet, Seats
  PROVE  Seats'
<1>1. UNCHANGED <<session_map, omok>> /\ \A c \in session_map : Eventual(c)' = Eventual(c)
  BY DEF Quiet
<1>2. CASE NoPlayer
  BY <1>1, <1>2 DEF Seats, NoPlayer, Untouched
<1>3. ASSUME NEW a \in Clients, OnePlayer(a) PROVE OnePlayer(a)'
  BY <1>1, <1>3 DEF OnePlayer, Untouched
<1>4. ASSUME NEW a \in Clients, NEW b \in Clients, TwoPlayers(a, b) PROVE TwoPlayers(a, b)'
  BY <1>1, <1>4 DEF TwoPlayers, Follows
<1> QED
  BY <1>2, <1>3, <1>4 DEF Seats

\* The time changes no game.
LEMMA TimeSeats ==
  ASSUME PacketInv, Seats, omok' = omok, Announces(ServerTime(time_tick))
  PROVE  Seats'
<1> DEFINE m == ServerTime(time_tick)
<1>1. /\ session_map' = session_map
      /\ \A c \in session_map : Eventual(c)' = Process(Eventual(c), m)
  BY DEF Announces
<1>2. ASSUME NEW c \in Clients, c \in session_map
      PROVE  Alike(Eventual(c)', Eventual(c)) /\ Eventual(c)'.myOmokStone = Eventual(c).myOmokStone
  <2>1. time_tick \in Nat
    BY DEF PacketInv, SeatInv, TypeInv, TypeOK, ServerTypeOK
  <2>2. PICK v \in Scenes : v = Eventual(c) /\ Eventual(c)' = Process(v, m)
    BY <1>1, <1>2, EventualType
  <2>3. Alike(Process(v, m), v) /\ Process(v, m).myOmokStone = v.myOmokStone
    BY <2>1, ProcessedGame
  <2> QED
    BY <2>2, <2>3
<1> HIDE DEF m
<1>3. CASE NoPlayer
  BY <1>1, <1>3 DEF Seats, NoPlayer, Untouched
<1>4. ASSUME NEW a \in Clients, OnePlayer(a) PROVE OnePlayer(a)'
  BY <1>1, <1>2, <1>4 DEF OnePlayer, Untouched, Fresh, Alike
<1>5. ASSUME NEW a \in Clients, NEW b \in Clients, TwoPlayers(a, b) PROVE TwoPlayers(a, b)'
  BY <1>1, <1>2, <1>5 DEF TwoPlayers, Follows, Alike
<1> QED
  BY <1>3, <1>4, <1>5 DEF Seats

\* A result is announced to two players, and no scene follows after it.
LEMMA ResultSeats ==
  ASSUME PacketInv, Seats, GameEnds
  PROVE  Seats'
<1> DEFINE m == GameResult(omok.winner, time_tick)
<1>1. /\ session_map' = session_map /\ omok.is_over
      /\ \A c \in session_map : Eventual(c)' = Process(Eventual(c), m)
  BY DEF GameEnds, Announces
<1>2. PICK a \in Clients, b \in Clients : TwoPlayers(a, b)
  BY <1>1 DEF Seats, NoPlayer, OnePlayer, Untouched
<1>3. ASSUME NEW c \in Clients, c \in session_map
      PROVE  /\ Eventual(c)'.gomoku = Eventual(c).gomoku
             /\ Eventual(c)'.current_turn = Eventual(c).current_turn
             /\ Eventual(c)'.isOver = TRUE /\ Eventual(c)'.winner = omok.winner
             /\ Eventual(c)'.myOmokStone = Eventual(c).myOmokStone
  <2>1. time_tick \in Nat /\ omok.winner \in Stones
    BY DEF PacketInv, SeatInv, TypeInv, TypeOK, ServerTypeOK, Games
  <2>2. PICK v \in Scenes : v = Eventual(c) /\ Eventual(c)' = Process(v, m)
    BY <1>1, <1>3, EventualType
  <2>3. LET u == Process(v, m) IN
          /\ u.gomoku = v.gomoku /\ u.current_turn = v.current_turn
          /\ u.isOver = TRUE /\ u.winner = omok.winner /\ u.myOmokStone = v.myOmokStone
    BY <2>1, ProcessedGame
  <2> QED
    BY <2>2, <2>3
<1> HIDE DEF m
<1>4. TwoPlayers(a, b)'
  BY <1>1, <1>2, <1>3 DEF TwoPlayers, Follows, Alike
<1> QED
  BY <1>4 DEF Seats

\* A player cannot move alone, and of two every scene takes the stone.
LEMMA PlaySeats ==
  ASSUME PacketInv, NobodyLeft, Seats, NEW c \in session_map, NEW p \in Cells, Plays(c, p)
  PROVE  Seats'
<1> PICK own : own = scene[c].myOmokStone
  OBVIOUS
<1> DEFINE m == DropResponse(own, p)
<1>1. /\ session_map' = session_map /\ own \in Players /\ own \in Stones /\ own = omok.current_turn
      /\ \A d \in session_map : Eventual(d)' = Process(Eventual(d), m)
      /\ omok' = CheckGomoku(SwapTurn(DropStone(omok, p, own)), p, own)
  BY DEF Plays, Announces, Players, Stones
<1>2. Eventual(c).myOmokStone = own
  BY <1>1, OwnStone
<1>3. PICK a \in Clients, b \in Clients : TwoPlayers(a, b)
  BY <1>1, <1>2 DEF Seats, NoPlayer, OnePlayer, OMOK_BLACK, OMOK_WHITE
<1>4. ASSUME NEW d \in Clients, d \in session_map
      PROVE  /\ Eventual(d)'.gomoku = Laid(Eventual(d).gomoku, p, own)
             /\ Eventual(d)'.current_turn = OtherStone(Eventual(d).current_turn)
             /\ Eventual(d)'.isOver = Eventual(d).isOver
             /\ Eventual(d)'.winner = Eventual(d).winner
             /\ Eventual(d)'.myOmokStone = Eventual(d).myOmokStone
  <2>1. PICK v \in Scenes : v = Eventual(d) /\ Eventual(d)' = Process(v, m)
    BY <1>1, <1>4, EventualType
  <2>2. LET u == Process(v, m) IN
          /\ u.gomoku = Laid(v.gomoku, p, own)
          /\ u.current_turn = OtherStone(v.current_turn)
          /\ u.isOver = v.isOver /\ u.winner = v.winner /\ u.myOmokStone = v.myOmokStone
    BY <1>1, ProcessedGame
  <2> QED
    BY <2>1, <2>2
<1>5. /\ omok'.gomoku = Laid(omok.gomoku, p, own)
      /\ omok'.current_turn = OtherStone(omok.current_turn)
  BY <1>1, PlayedGame DEF PacketInv, SeatInv, TypeInv, TypeOK, ServerTypeOK
<1> HIDE DEF m
<1>6. TwoPlayers(a, b)'
  <2>1. a \in session_map /\ b \in session_map /\ Alike(Eventual(a), Eventual(b))
    BY <1>3 DEF TwoPlayers
  <2>2. Alike(Eventual(a)', Eventual(b)')
    BY <1>4, <2>1 DEF Alike
  <2>3. Follows(Eventual(a))'
    BY <1>3, <1>4, <1>5, <2>1 DEF TwoPlayers, Follows
  <2> QED
    BY <1>1, <1>3, <1>4, <2>1, <2>2, <2>3 DEF TwoPlayers
<1> QED
  BY <1>6 DEF Seats

\* The first to sit down gets black, the second white, and then black moves.
LEMMA SittingSeats ==
  ASSUME PacketInv, Seats, NEW c \in Clients, SitsDown(c)
  PROVE  Seats'
<1> PICK given : given = omok.current_turn
  OBVIOUS
<1>1. /\ c \notin session_map /\ Len(sockets) < 2 /\ session_map' = session_map \cup {c}
      /\ omok' = SwapTurn(omok) /\ Eventual(c)' = Process(InitialScene, AssignStone(given))
      /\ \A d \in session_map : Eventual(d)' = Eventual(d)
  BY DEF SitsDown
<1>2. /\ omok \in Games /\ given \in Stones
  BY DEF PacketInv, SeatInv, TypeInv, TypeOK, ServerTypeOK, Games
<1>3. /\ omok'.gomoku = omok.gomoku /\ omok'.is_over = omok.is_over
      /\ omok'.current_turn = OtherStone(given)
  BY <1>1, <1>2 DEF SwapTurn, Games
<1>4. Fresh(Eventual(c)') /\ Eventual(c)'.myOmokStone = given
  <2>1. InitialScene \in Scenes /\ Fresh(InitialScene)
    BY DEF InitialScene, Scenes, Fresh, EmptyBoard, Boards, Stones
  <2>2. PICK v \in Scenes : v = InitialScene /\ Fresh(v)
    BY <2>1
  <2>3. Alike(Process(v, AssignStone(given)), v) /\ Process(v, AssignStone(given)).myOmokStone = given
    BY <1>2, ProcessedGame
  <2> QED
    BY <1>1, <2>2, <2>3 DEF Fresh, Alike
<1>5. CASE NoPlayer
  <2>1. OnePlayer(c)'
    BY <1>1, <1>3, <1>4, <1>5 DEF NoPlayer, OnePlayer, Untouched, OtherStone
  <2> QED
    BY <2>1 DEF Seats
<1>6. ASSUME NEW a \in Clients, OnePlayer(a) PROVE TwoPlayers(a, c)'
  <2>1. a \in session_map /\ a # c /\ session_map' = {a, c} /\ given = OMOK_WHITE
        /\ Fresh(Eventual(a)) /\ Eventual(a)' = Eventual(a)
    BY <1>1, <1>6 DEF OnePlayer
  <2>2. omok'.gomoku = EmptyBoard /\ omok'.current_turn = OMOK_BLACK
    BY <1>3, <1>6, <2>1 DEF OnePlayer, Untouched, OtherStone, OMOK_BLACK, OMOK_WHITE
  <2>3. Alike(Eventual(a), Eventual(c))' /\ Follows(Eventual(a))'
    BY <1>4, <2>1, <2>2 DEF Fresh, Alike, Follows
  <2> QED
    BY <1>4, <1>6, <2>1, <2>3 DEF OnePlayer, TwoPlayers
<1>7. ~\E a, b \in Clients : TwoPlayers(a, b)
  BY <1>1, RoomLeft DEF TwoPlayers
<1> QED
  BY <1>5, <1>6, <1>7 DEF Seats

LEMMA SeatsStep ==
  ASSUME Leavers = {}, PacketInv, NobodyLeft, Seats, [Next]_vars
  PROVE  Seats'
BY GameAndPlayers, QuietSeats, TimeSeats, ResultSeats, PlaySeats, SittingSeats

LEMMA ReplicaInvariant ==
  ASSUME Leavers = {}
  PROVE  Spec => []ReplicaInv
<1>1. Init => ReplicaInv
  BY InitPackets, InitNobodyLeft, InitSeats DEF ReplicaInv
<1>2. ReplicaInv /\ [Next]_vars => ReplicaInv'
  BY PacketStep, NobodyLeftStep, SeatsStep DEF ReplicaInv
<1> QED
  BY <1>1, <1>2, PTL DEF Spec

\* When nobody leaves, the two players end up with the same board, turn and
\* result: both process what Broadcast queued for both, and they begin alike.
THEOREM PlayersSeeOneGame ==
  ASSUME Leavers = {}
  PROVE  Spec => []ReplicasAgree
<1>1. ReplicaInv => ReplicasAgree
  BY DEF ReplicaInv, Seats, NoPlayer, OnePlayer, TwoPlayers, Alike, ReplicasAgree
<1> QED
  BY <1>1, ReplicaInvariant, PTL

\* How many players there are.
LEMMA CountPlayers ==
  ASSUME Seats
  PROVE  /\ Cardinality(session_map) = 2 <=> \E a, b \in Clients : TwoPlayers(a, b)
         /\ Cardinality(session_map) < 2 <=> ~\E a, b \in Clients : TwoPlayers(a, b)
<1>1. CASE NoPlayer
  <2>1. Cardinality(session_map) = 0
    BY <1>1, FS_EmptySet DEF NoPlayer
  <2> QED
    BY <1>1, <2>1 DEF NoPlayer, TwoPlayers
<1>2. ASSUME NEW a \in Clients, OnePlayer(a)
      PROVE  /\ Cardinality(session_map) = 1
             /\ ~\E x, y \in Clients : TwoPlayers(x, y)
  BY <1>2, FS_Singleton DEF OnePlayer, TwoPlayers
<1>3. ASSUME NEW a \in Clients, NEW b \in Clients, TwoPlayers(a, b)
      PROVE  Cardinality(session_map) = 2
  <2>1. IsFiniteSet({a}) /\ Cardinality({a}) = 1
    BY FS_Singleton
  <2>2. Cardinality({a} \cup {b}) = Cardinality({a}) + 1
    BY <1>3, <2>1, FS_AddElement DEF TwoPlayers
  <2>3. {a} \cup {b} = {a, b}
    OBVIOUS
  <2> QED
    BY <1>3, <2>1, <2>2, <2>3 DEF TwoPlayers
<1> QED
  BY <1>1, <1>2, <1>3 DEF Seats

\* And until the first result is announced, it is the server's game they see:
\* ProcessPacket lays the stone it broadcasts and both pass the turn on.
THEOREM PlayersSeeTheGame ==
  ASSUME Leavers = {}
  PROVE  Spec => []ReplicasFollowGame
<1>1. ReplicaInv => ReplicasFollowGame
  <2> SUFFICES ASSUME Seats, ~Announced, NEW c \in session_map
               PROVE  /\ Eventual(c).gomoku = omok.gomoku
                      /\ Cardinality(session_map) = 2 =>
                           Eventual(c).current_turn = omok.current_turn
    BY DEF ReplicaInv, ReplicasFollowGame
  <2>1. ~Eventual(c).isOver
    BY DEF Announced
  <2>2. CASE \E a \in Clients : OnePlayer(a)
    <3>1. Cardinality(session_map) # 2
      BY <2>2, CountPlayers DEF OnePlayer, TwoPlayers
    <3> QED
      BY <2>2, <3>1 DEF OnePlayer, Fresh, Untouched
  <2>3. CASE \E a, b \in Clients : TwoPlayers(a, b)
    BY <2>1, <2>3 DEF TwoPlayers, Alike, Follows
  <2> QED
    BY <2>2, <2>3 DEF Seats, NoPlayer
<1> QED
  BY <1>1, ReplicaInvariant, PTL

\* The two are of different colours, for AssignStoneType passes the turn on,
\* and that is why the first cannot move alone.
THEOREM PlayersDiffer ==
  ASSUME Leavers = {}
  PROVE  Spec => []SeatsDiffer
<1>1. ReplicaInv => SeatsDiffer
  <2> SUFFICES ASSUME Seats PROVE SeatsDiffer
    BY DEF ReplicaInv
  <2>1. ASSUME NEW a \in session_map, NEW b \in session_map, a # b
        PROVE  Eventual(a).myOmokStone # Eventual(b).myOmokStone
    BY <2>1 DEF Seats, NoPlayer, OnePlayer, TwoPlayers, OMOK_BLACK, OMOK_WHITE
  <2>2. Cardinality(session_map) < 2 => omok.gomoku = EmptyBoard
    BY CountPlayers DEF Seats, NoPlayer, OnePlayer, Untouched
  <2> QED
    BY <2>1, <2>2 DEF SeatsDiffer
<1> QED
  BY <1>1, ReplicaInvariant, PTL

(***************************************************************************)
(* When nobody clicks twice either                                         *)
(***************************************************************************)

\* How many requests of c are on their way or not yet parsed.
OnTheWay(c) == Len(recv_buffer[c]) + Len(up[c])

\* It will be the turn of c when it has processed all that was sent to it.
HasTurn(c) == Eventual(c).current_turn = Eventual(c).myOmokStone

\* A player has asked for one move at most, and then it is its turn.
OneRequest ==
  \A c \in session_map : OnTheWay(c) > 0 => OnTheWay(c) = 1 /\ HasTurn(c)

\* What has been received is parsed before anything else is done.
OneBuffer ==
  \A c \in Clients : recv_buffer[c] # <<>> => pc = "parse" /\ c = sockets[idx]

\* The socket at i is still to be read in this pass.
Unread(i) == \/ pc = "recv" /\ idx <= i
             \/ pc = "send" /\ idx < i

\* The pass in which the game was won does not play another stone: who is
\* still to be read has the winning stone to process first.
Ending ==
  omok.is_over =>
    /\ pc \in {"recv", "send", "timer", "over"}
    /\ \A i \in DOMAIN sockets :
         Unread(i) => up[sockets[i]] = <<>> /\ send_buffer[sockets[i]] # <<>>

MatchInv == ReplicaInv /\ OneBuffer /\ OneRequest /\ Ending

LEMMA InitMatchInv == Init => MatchInv
<1> SUFFICES ASSUME Init PROVE MatchInv
  OBVIOUS
<1>1. ReplicaInv
  BY InitPackets, InitNobodyLeft, InitSeats DEF ReplicaInv
<1>2. session_map = {} /\ \A c \in Clients : recv_buffer[c] = <<>>
  BY DEF Init, ServerInit
<1>3. omok.is_over = FALSE
  BY DEF Init, ServerInit, FreshGame
<1> QED
  BY <1>1, <1>2, <1>3 DEF MatchInv, OneBuffer, OneRequest, Ending

LEMMA TrafficTypes ==
  ASSUME PacketInv
  PROVE  /\ session_map \subseteq Clients
         /\ up \in [Clients -> Seq(ClientPackets)]
         /\ recv_buffer \in [Clients -> Seq(ClientPackets)]
         /\ \A c \in Clients : Len(up[c]) \in Nat /\ Len(recv_buffer[c]) \in Nat
<1>1. /\ session_map \subseteq Clients
      /\ up \in [Clients -> Seq(ClientPackets)]
      /\ recv_buffer \in [Clients -> Seq(ClientPackets)]
  BY DEF PacketInv, SeatInv, TypeInv, TypeOK, ServerTypeOK, NetTypeOK
<1>2. \A c \in Clients : Len(up[c]) \in Nat /\ Len(recv_buffer[c]) \in Nat
  BY <1>1, LenProperties
<1> QED
  BY <1>1, <1>2

\* A player sends a request when nothing is on its way, in its turn, or nothing.
LEMMA PlayerSends ==
  ASSUME Hasty = {}, Leavers = {}, PacketInv, NobodyLeft,
         NEW c \in Clients, ClientStep(c), NEW d \in session_map
  PROVE  \/ up'[d] = up[d]
         \/ d = c /\ Settled(d) /\ Len(up'[d]) = 1 /\ MyTurn(d)
<1> DEFINE clicking == MayClick(c)
<1>1. UNCHANGED serverVars /\ ClientNext(c, clicking) /\ (clicking => Settled(c))
  BY DEF ClientStep, MayClick
<1> HIDE DEF clicking
<1>2. up \in [Clients -> Seq(ClientPackets)] /\ d \in Clients
  BY TrafficTypes
<1>3. CASE Connect(c) \/ Connected(c) \/ UpdateTooEarly(c)
  BY <1>3 DEF Connect, Connected, UpdateTooEarly, netVars
<1>4. CASE Update(c, clicking)
  <2> PICK clicked \in IF clicking THEN Clicks(c) ELSE {<<>>} : Exchange(c, clicked)
    BY <1>4 DEF Update
  <2>1. CASE c # d
    BY <1>2, <2>1 DEF Exchange
  <2>2. CASE c = d /\ down[c] # <<>> /\ up' = [up EXCEPT ![c] = @ \o clicked \o Replies(Head(down[c]))]
    <3>1. clicked = <<>>
      BY <1>1, <2>2 DEF Settled
    <3>2. Head(down[c]).type # "SC_NOTIFY_KICK"
      <4>1. kick[c] = "none" /\ ClientInv(c)
        BY <2>2, SessionsAreKnown DEF PacketInv
      <4>2. CASE Leads(down[c])
        BY <4>2 DEF Leads, Assignments
      <4>3. CASE down[c] \in Seq(Told(kick[c]))
        <5>1. Head(down[c]) \in News
          BY <2>2, <4>1, <4>3, HeadTailProperties DEF Told
        <5> QED
          BY <5>1 DEF News
      <4> QED
        BY <2>2, <4>1, <4>2, <4>3 DEF ClientInv, BeingTold, Informed
    <3>3. Replies(Head(down[c])) = <<>>
      BY <3>2 DEF Replies
    <3>4. up'[c] = up[c] \o <<>> \o <<>>
      BY <1>2, <2>2, <3>1, <3>3
    <3>5. up[c] \o <<>> = up[c]
      BY <1>2, <2>2, ConcatEmptySeq
    <3> QED
      BY <2>2, <3>4, <3>5
  <2>3. CASE c = d /\ clicked # <<>> /\ up' = [up EXCEPT ![c] = @ \o clicked]
    <3>1. Settled(c) /\ MyTurn(c) /\ up[c] = <<>>
      BY <1>1, <2>3 DEF Clicks, Settled
    <3>2. PICK m : clicked = <<m>>
      BY <1>1, <2>3, <3>1 DEF Clicks
    <3>3. <<>> \o <<m>> = <<m>> /\ Len(<<m>>) = 1
      OBVIOUS
    <3>4. up'[c] = <<m>>
      BY <1>2, <2>3, <3>1, <3>2, <3>3
    <3> QED
      BY <2>3, <3>1, <3>3, <3>4
  <2> QED
    BY <2>1, <2>2, <2>3 DEF Exchange
<1> QED
  BY <1>1, <1>3, <1>4 DEF ClientNext, ExitScene, CloseWindow

\* One is parsed.
LEMMA ParseTakes ==
  ASSUME PacketInv, Parse, NEW d \in session_map
  PROVE  OnTheWay(d)' = IF d = sockets[idx] THEN OnTheWay(d) - 1 ELSE OnTheWay(d)
<1> USE TrafficTypes
<1> PICK c \in Clients : c = sockets[idx]
  BY ServedIsSeated DEF Parse, PacketInv
<1>1. recv_buffer[c] # <<>>
  BY DEF PacketInv, SeatInv, TypeInv, LoopInv, Parse
<1>2. Len(Tail(recv_buffer[c])) = Len(recv_buffer[c]) - 1
  BY <1>1, HeadTailProperties
<1>3. recv_buffer' = [recv_buffer EXCEPT ![c] = Tail(@)] /\ up' = up
  BY DEF Parse, netVars
<1>4. CASE d = c
  <2>1. Len(recv_buffer'[d]) = Len(recv_buffer[d]) - 1
    BY <1>2, <1>3, <1>4
  <2>2. PICK j, k \in Int : j = Len(recv_buffer[d]) /\ k = Len(up[d])
    OBVIOUS
  <2> QED
    BY <1>3, <1>4, <2>1, <2>2 DEF OnTheWay
<1>5. CASE d # c
  <2>1. recv_buffer'[d] = recv_buffer[d]
    BY <1>3, <1>5
  <2> QED
    BY <1>3, <1>5, <2>1 DEF OnTheWay
<1> QED
  BY <1>4, <1>5

\* What has been received is no longer on its way, and not yet parsed.
LEMMA RecvTakes ==
  ASSUME PacketInv, NobodyLeft, Recv, NEW d \in session_map
  PROVE  OnTheWay(d)' = OnTheWay(d)
<1> USE TrafficTypes
<1> PICK c \in Clients : c = sockets[idx] /\ c \in session_map
  BY ServedIsSeated DEF Recv, PacketInv
<1>1. CASE UNCHANGED <<recv_buffer, up>>
  BY <1>1 DEF OnTheWay
<1>2. ASSUME NEW n \in 1..Len(up[c]),
             recv_buffer' = [recv_buffer EXCEPT ![c] = @ \o SubSeq(up[c], 1, n)],
             up' = [up EXCEPT ![c] = SubSeq(@, n + 1, Len(@))]
      PROVE  OnTheWay(d)' = OnTheWay(d)
  <2>1. Len(SubSeq(up[c], 1, n)) = n
    BY SubSeqProperties
  <2>2. Len(SubSeq(up[c], n + 1, Len(up[c]))) = Len(up[c]) - n
    BY SubSeqProperties
  <2>3. SubSeq(up[c], 1, n) \in Seq(ClientPackets)
    <3>1. \A i \in 1..n : up[c][i] \in ClientPackets
      BY ElementOfSeq
    <3> QED
      BY <3>1, SubSeqProperties
  <2>4. Len(recv_buffer[c] \o SubSeq(up[c], 1, n)) = Len(recv_buffer[c]) + n
    BY <2>1, <2>3, ConcatProperties
  <2>5. CASE d = c
    <3>1. /\ recv_buffer'[d] = recv_buffer[c] \o SubSeq(up[c], 1, n)
          /\ up'[d] = SubSeq(up[c], n + 1, Len(up[c]))
      BY <1>2, <2>5
    <3>2. PICK j, k \in Nat : j = Len(recv_buffer[c]) /\ k = Len(up[c])
      OBVIOUS
    <3>3. n \in Nat /\ Len(recv_buffer'[d]) = j + n /\ Len(up'[d]) = k - n
      BY <2>2, <2>4, <3>1, <3>2
    <3>4. (j + n) + (k - n) = j + k
      BY <3>2, <3>3
    <3> QED
      BY <2>5, <3>2, <3>3, <3>4 DEF OnTheWay
  <2>6. CASE d # c
    <3>1. recv_buffer'[d] = recv_buffer[d] /\ up'[d] = up[d]
      BY <1>2, <2>6
    <3> QED
      BY <3>1 DEF OnTheWay
  <2> QED
    BY <2>5, <2>6
<1>3. \/ UNCHANGED <<recv_buffer, up>>
      \/ \E n \in 1..Len(up[c]) :
           /\ recv_buffer' = [recv_buffer EXCEPT ![c] = @ \o SubSeq(up[c], 1, n)]
           /\ up' = [up EXCEPT ![c] = SubSeq(@, n + 1, Len(@))]
  BY DEF Recv, sessionVars, netVars, NobodyLeft
<1> QED
  BY <1>1, <1>2, <1>3

\* The server takes requests, and brings none.
LEMMA ServerTakes ==
  ASSUME PacketInv, NobodyLeft, ServerStep, NEW d \in session_map
  PROVE  OnTheWay(d)' <= OnTheWay(d)
<1>1. d \in Clients /\ OnTheWay(d) \in Nat /\ up \in [Clients -> Seq(ClientPackets)]
  BY TrafficTypes DEF OnTheWay
<1>2. CASE UNCHANGED <<recv_buffer, up>>
  BY <1>1, <1>2 DEF OnTheWay
<1>3. CASE Parse
  BY <1>1, <1>3, ParseTakes
<1>4. CASE Recv
  BY <1>1, <1>4, RecvTakes
<1>5. ASSUME NEW k \in Clients, KickThread(k)
      PROVE  UNCHANGED recv_buffer /\ up'[d] = up[d]
  <2>1. k # d
    BY <1>5, SessionsAreKnown DEF PacketInv, KickThread, KickNotify, KickAnswered, KickUnanswered
  <2> QED
    BY <1>1, <1>5, <2>1 DEF KickThread, KickNotify, KickAnswered, KickUnanswered, sessionVars, netVars
<1>6. ASSUME NEW k \in Clients, KickThread(k)
      PROVE  OnTheWay(d)' = OnTheWay(d)
  BY <1>5, <1>6 DEF OnTheWay
<1>7. CASE Send
  <2>1. retval # "error"
    BY <1>7 DEF PacketInv, SeatInv, RetvalInv, Send
  <2> QED
    BY <1>2, <1>7, <2>1 DEF Send, Transmit
<1>8. CASE Accept
  BY <1>2, <1>8 DEF Accept, Seat, TurnAway, AcceptFails, sessionVars
<1>9. CASE Select \/ UpdateTimer \/ UpdateOver \/ TimerThread
  BY <1>2, <1>9 DEF Select, UpdateTimer, UpdateOver, TimerThread, sessionVars, netVars
<1> QED
  BY <1>1, <1>3, <1>4, <1>6, <1>7, <1>8, <1>9 DEF ServerStep, ServerNext, NetworkThread

\* Whoever sits down has not been able to ask for anything yet.
LEMMA NothingFromNewcomer ==
  ASSUME PacketInv, NobodyLeft, NEW c \in Clients, SitsDown(c)
  PROVE  OnTheWay(c)' = 0
<1>1. Accept /\ c \notin session_map /\ session_map' = session_map \cup {c}
  BY DEF SitsDown
<1>2. incoming
  BY <1>1 DEF Accept, sessionVars
<1>3. c = Head(backlog) /\ Newcomer(c) /\ \E i \in DOMAIN backlog : backlog[i] = c
  BY <1>1, <1>2, AcceptStays
<1>4. kick[c] = "none" /\ scene[c].myOmokStone = OMOK_EMPTY
  BY <1>3 DEF PacketInv, SeatInv, StageInv, OnePlaceAtATime, ClientInv, Silent
<1>5. Requests(OMOK_EMPTY) = {}
  BY DEF Requests, Players, OMOK_EMPTY, OMOK_BLACK, OMOK_WHITE
<1>6. recv_buffer[c] \in Seq({}) /\ up[c] \in Seq({})
  BY <1>4, <1>5 DEF PacketInv, ClientInv, Speaks, Said
<1>7. \A q \in Seq({}) : Len(q) = 0
  <2> SUFFICES ASSUME NEW q \in Seq({}) PROVE Len(q) = 0
    OBVIOUS
  <2>1. Len(q) \in Nat /\ \A i \in 1..Len(q) : q[i] \in {}
    BY LenProperties, ElementOfSeq
  <2> QED
    BY <2>1
<1>8. UNCHANGED <<recv_buffer, up>>
  BY <1>1 DEF Accept, Seat, TurnAway, AcceptFails, sessionVars
<1>9. Len(recv_buffer'[c]) = 0 /\ Len(up'[c]) = 0
  BY <1>6, <1>7, <1>8
<1> QED
  BY <1>9 DEF OnTheWay

\* Whether it is a player's turn is changed by moves and by sitting down only.
LEMMA TurnsKept ==
  ASSUME PacketInv, NEW c \in session_map,
         \/ Quiet
         \/ omok' = omok /\ Announces(ServerTime(time_tick))
         \/ GameEnds
  PROVE  HasTurn(c)' <=> HasTurn(c)
<1>1. c \in Clients /\ time_tick \in Nat /\ omok.winner \in Stones
  BY DEF PacketInv, SeatInv, TypeInv, TypeOK, ServerTypeOK, Games
<1>2. CASE Quiet
  BY <1>2 DEF Quiet, HasTurn
<1>3. CASE Announces(ServerTime(time_tick))
  <2>1. PICK v \in Scenes : v = Eventual(c) /\ Eventual(c)' = Process(v, ServerTime(time_tick))
    BY <1>1, <1>3, EventualType DEF Announces
  <2>2. LET u == Process(v, ServerTime(time_tick)) IN Alike(u, v) /\ u.myOmokStone = v.myOmokStone
    BY <1>1, ProcessedGame
  <2> QED
    BY <2>1, <2>2 DEF HasTurn, Alike
<1>4. CASE GameEnds
  <2>1. PICK v \in Scenes :
          v = Eventual(c) /\ Eventual(c)' = Process(v, GameResult(omok.winner, time_tick))
    BY <1>1, <1>4, EventualType DEF GameEnds, Announces
  <2>2. LET u == Process(v, GameResult(omok.winner, time_tick)) IN
          u.current_turn = v.current_turn /\ u.myOmokStone = v.myOmokStone
    BY <1>1, ProcessedGame
  <2> QED
    BY <2>1, <2>2 DEF HasTurn
<1> QED
  BY <1>2, <1>3, <1>4

\* The player whose request is parsed asked for nothing else, and the other
\* player for nothing.
LEMMA OnlyRequest ==
  ASSUME ReplicaInv, OneRequest, NEW c \in session_map, NEW p \in Cells, Plays(c, p)
  PROVE  /\ Len(recv_buffer[c]) = 1 /\ Len(up[c]) = 0 /\ OnTheWay(c) = 1
         /\ \A d \in session_map \ {c} : OnTheWay(d) = 0 /\ Len(up[d]) = 0
<1>1. PacketInv /\ NobodyLeft /\ Seats
  BY DEF ReplicaInv
<1>2. /\ Parse /\ c = sockets[idx] /\ c \in Clients /\ session_map \subseteq Clients
      /\ scene[c].myOmokStone \in Players /\ scene[c].myOmokStone = omok.current_turn
  BY <1>1, TrafficTypes DEF Plays
<1>3. Len(recv_buffer[c]) # 0
  <2>1. recv_buffer[c] # <<>> /\ recv_buffer[c] \in Seq(ClientPackets)
    BY <1>1, <1>2, TrafficTypes DEF PacketInv, SeatInv, TypeInv, LoopInv, Parse
  <2> QED
    BY <2>1, EmptySeq
<1>4. \A d \in Clients : Len(recv_buffer[d]) \in Nat /\ Len(up[d]) \in Nat
  BY <1>1, TrafficTypes
<1>5. PICK j, k \in Nat : j = Len(recv_buffer[c]) /\ k = Len(up[c])
  BY <1>2, <1>4
<1>6. OnTheWay(c) = 1 /\ HasTurn(c) /\ j = 1 /\ k = 0
  <2>1. OnTheWay(c) = j + k /\ j # 0
    BY <1>3, <1>5 DEF OnTheWay
  <2>2. OnTheWay(c) > 0
    BY <2>1
  <2>3. OnTheWay(c) = 1 /\ HasTurn(c)
    BY <2>2 DEF OneRequest
  <2> QED
    BY <2>1, <2>3
<1>7. PICK a \in Clients, b \in Clients : TwoPlayers(a, b)
  <2>1. Eventual(c).myOmokStone = omok.current_turn
    BY <1>1, <1>2, OwnStone
  <2> QED
    BY <1>1, <2>1 DEF Seats, NoPlayer, OnePlayer, OMOK_BLACK, OMOK_WHITE
<1>8. ASSUME NEW d \in session_map \ {c} PROVE OnTheWay(d) = 0 /\ Len(up[d]) = 0
  <2>1. ~HasTurn(d)
    BY <1>6, <1>7 DEF TwoPlayers, Alike, HasTurn, OMOK_BLACK, OMOK_WHITE
  <2>2. ~(OnTheWay(d) > 0)
    BY <2>1 DEF OneRequest
  <2>3. PICK m, n \in Nat : m = Len(recv_buffer[d]) /\ n = Len(up[d])
    BY <1>2, <1>4
  <2>4. OnTheWay(d) = m + n
    BY <2>3 DEF OnTheWay
  <2>5. m + n = 0 /\ n = 0
    BY <2>2, <2>4
  <2> QED
    BY <2>3, <2>4, <2>5
<1> QED
  BY <1>5, <1>6, <1>8

LEMMA OneRequestStep ==
  ASSUME Leavers = {}, Hasty = {}, ReplicaInv, OneRequest, [Next]_vars
  PROVE  OneRequest'
<1>1. PacketInv /\ NobodyLeft
  BY DEF ReplicaInv
<1>2. \A c \in session_map : c \in Clients /\ OnTheWay(c) \in Nat
  BY <1>1, TrafficTypes DEF OnTheWay
<1>3. CASE \E d \in Clients : SitsDown(d)
  <2> PICK d \in Clients : SitsDown(d)
    BY <1>3
  <2>1. /\ d \notin session_map /\ session_map' = session_map \cup {d}
        /\ \A c \in session_map : Eventual(c)' = Eventual(c)
        /\ OnTheWay(d)' = 0
    BY <1>1, NothingFromNewcomer DEF SitsDown
  <2>2. UNCHANGED <<recv_buffer, up>>
    BY DEF SitsDown, Accept, Seat, TurnAway, AcceptFails, sessionVars
  <2>3. \A c \in session_map : OnTheWay(c)' = OnTheWay(c) /\ (HasTurn(c)' <=> HasTurn(c))
    BY <2>1, <2>2 DEF OnTheWay, HasTurn
  <2> QED
    BY <2>1, <2>3 DEF OneRequest
<1>4. CASE \E d \in session_map, p \in Cells : Plays(d, p)
  <2> PICK d \in session_map, p \in Cells : Plays(d, p)
    BY <1>4
  <2>1. session_map' = session_map /\ Parse /\ d = sockets[idx]
    BY DEF Plays, Announces
  <2>2. ASSUME NEW c \in session_map PROVE OnTheWay(c)' = 0
    <3>1. OnTheWay(c)' = IF c = d THEN OnTheWay(c) - 1 ELSE OnTheWay(c)
      BY <1>1, <2>1, ParseTakes
    <3> QED
      BY <3>1, OnlyRequest
  <2> QED
    BY <2>1, <2>2 DEF OneRequest
<1>5. CASE \/ Quiet
           \/ omok' = omok /\ Announces(ServerTime(time_tick))
           \/ GameEnds
  <2>1. session_map' = session_map /\ \A c \in session_map : HasTurn(c)' <=> HasTurn(c)
    BY <1>1, <1>5, TurnsKept DEF Quiet, GameEnds, Announces
  <2> SUFFICES ASSUME NEW c \in session_map, OnTheWay(c)' > 0
               PROVE  OnTheWay(c)' = 1 /\ HasTurn(c)
    BY <2>1 DEF OneRequest
  <2>2. CASE OnTheWay(c)' <= OnTheWay(c) /\ OnTheWay(c)' \in Nat
    BY <1>2, <2>2 DEF OneRequest
  <2>3. CASE ServerStep
    <3>1. PacketInv'
      BY <1>1, PacketStep
    <3>2. /\ up' \in [Clients -> Seq(ClientPackets)]
          /\ recv_buffer' \in [Clients -> Seq(ClientPackets)]
      BY <3>1 DEF PacketInv, SeatInv, TypeInv, TypeOK, ServerTypeOK, NetTypeOK
    <3>3. PICK m, n \in Nat : m = Len(recv_buffer'[c]) /\ n = Len(up'[c])
      BY <1>2, <3>2, LenProperties
    <3>4. OnTheWay(c)' \in Nat
      <4>1. OnTheWay(c)' = m + n
        BY <3>3 DEF OnTheWay
      <4> QED
        BY <4>1
    <3> QED
      BY <1>1, <2>2, <2>3, <3>4, ServerTakes
  <2>4. ASSUME NEW d \in Clients, ClientStep(d) PROVE OnTheWay(c)' = 1 /\ HasTurn(c)
    <3>1. recv_buffer' = recv_buffer
      BY <2>4 DEF ClientStep, serverVars, sessionVars
    <3>2. CASE up'[c] = up[c]
      <4>1. OnTheWay(c)' = OnTheWay(c)
        BY <3>1, <3>2 DEF OnTheWay
      <4> QED
        BY <1>2, <2>2, <4>1
    <3>3. CASE Settled(c) /\ Len(up'[c]) = 1 /\ MyTurn(c)
      <4>1. Pending(c) = <<>> /\ recv_buffer[c] = <<>>
        BY <3>3 DEF Settled, Pending
      <4>2. Eventual(c) = scene[c]
        BY <4>1, AfterNothing DEF Eventual
      <4> QED
        BY <3>1, <3>3, <4>1, <4>2 DEF OnTheWay, HasTurn, MyTurn
    <3> QED
      BY <1>1, <2>4, <3>2, <3>3, PlayerSends
  <2>5. CASE UNCHANGED vars
    <3>1. OnTheWay(c)' = OnTheWay(c)
      BY <2>5 DEF vars, netVars, serverVars, sessionVars, OnTheWay
    <3> QED
      BY <1>2, <2>2, <3>1
  <2> QED
    BY <2>3, <2>4, <2>5 DEF Next
<1> QED
  BY <1>1, <1>3, <1>4, <1>5, GameAndPlayers

LEMMA OneBufferStep ==
  ASSUME Leavers = {}, PacketInv, NobodyLeft, OneBuffer, [Next]_vars
  PROVE  OneBuffer'
<1>1. PacketInv'
  BY PacketStep
<1>2. CASE UNCHANGED <<recv_buffer, pc, idx, sockets>>
  BY <1>2 DEF OneBuffer
<1>3. CASE recv_buffer' = recv_buffer /\ pc # "parse"
  BY <1>3 DEF OneBuffer
<1>4. CASE Parse
  <2> PICK c \in Clients : c = sockets[idx]
    BY <1>4, ServedIsSeated DEF Parse, PacketInv
  <2>1. /\ recv_buffer' = [recv_buffer EXCEPT ![c] = Tail(@)]
        /\ pc' # "crashed" /\ UNCHANGED <<idx, sockets>>
        /\ recv_buffer \in [Clients -> Seq(ClientPackets)]
    BY <1>1, <1>4, TrafficTypes DEF Parse, PacketInv
  <2>2. recv_buffer[c] # <<>>
    BY <1>4 DEF PacketInv, SeatInv, TypeInv, LoopInv, Parse
  <2>3. \A d \in Clients \ {c} : recv_buffer'[d] = <<>>
    BY <2>1 DEF OneBuffer
  <2>4. CASE Len(recv_buffer[c]) = 1
    <3>1. Tail(recv_buffer[c]) \in Seq(ClientPackets) /\ Len(Tail(recv_buffer[c])) = 0
      BY <2>1, <2>2, <2>4, HeadTailProperties
    <3>2. recv_buffer'[c] = <<>>
      BY <2>1, <3>1, EmptySeq
    <3> QED
      BY <2>3, <3>2 DEF OneBuffer
  <2>5. CASE Len(recv_buffer[c]) # 1
    <3>1. pc' = "parse"
      BY <1>4, <2>1, <2>5 DEF Parse
    <3> QED
      BY <2>1, <2>3, <3>1 DEF OneBuffer
  <2> QED
    BY <2>4, <2>5
<1>5. CASE Recv
  <2> PICK c \in Clients : c = sockets[idx] /\ c \in session_map
    BY <1>5, ServedIsSeated DEF Recv, PacketInv
  <2>1. pc # "parse" /\ recv_buffer \in [Clients -> Seq(ClientPackets)]
    BY <1>5, TrafficTypes DEF Recv
  <2>2. ASSUME NEW n \in 1..Len(up[c]), pc' = "parse", UNCHANGED <<idx, sockets>>,
               recv_buffer' = [recv_buffer EXCEPT ![c] = @ \o SubSeq(up[c], 1, n)]
        PROVE  OneBuffer'
    <3>1. \A d \in Clients \ {c} : recv_buffer'[d] = <<>>
      BY <2>1, <2>2 DEF OneBuffer
    <3> QED
      BY <2>2, <3>1 DEF OneBuffer
  <2>3. \/ recv_buffer' = recv_buffer
        \/ \E n \in 1..Len(up[c]) :
             /\ pc' = "parse" /\ UNCHANGED <<idx, sockets>>
             /\ recv_buffer' = [recv_buffer EXCEPT ![c] = @ \o SubSeq(up[c], 1, n)]
    BY <1>5 DEF Recv, sessionVars
  <2> QED
    BY <1>3, <2>1, <2>2, <2>3
<1>6. CASE Select \/ Accept \/ Send \/ UpdateTimer \/ UpdateOver
  BY <1>3, <1>6 DEF Select, Accept, Seat, TurnAway, AcceptFails, Send, UpdateTimer, UpdateOver,
                    sessionVars
<1>7. CASE TimerThread \/ \E k \in Clients : KickThread(k)
  BY <1>2, <1>7 DEF TimerThread, KickThread, KickNotify, KickAnswered, KickUnanswered,
                    sessionVars, loopVars
<1>8. CASE UNCHANGED vars \/ \E c \in Clients : ClientStep(c)
  BY <1>2, <1>8 DEF vars, serverVars, sessionVars, loopVars, ClientStep
<1> QED
  BY <1>4, <1>5, <1>6, <1>7, <1>8 DEF Next, ServerStep, ServerNext, NetworkThread

\* The socket at i is a player's, and a player has one.
LEMMA SocketsOfPlayers ==
  ASSUME PacketInv
  PROVE  /\ \A i \in DOMAIN sockets : sockets[i] \in session_map /\ sockets[i] \in Clients
         /\ \A i, j \in DOMAIN sockets : sockets[i] = sockets[j] => i = j
         /\ DOMAIN sockets = 1..Len(sockets) /\ Len(sockets) \in Nat
<1>1. sockets \in Seq(Clients) /\ session_map = InArray
  BY DEF PacketInv, SeatInv, TypeInv, TypeOK, ServerTypeOK, SessionsMatchSockets
<1>2. DOMAIN sockets = 1..Len(sockets) /\ Len(sockets) \in Nat
  BY <1>1, LenProperties
<1>3. \A i \in DOMAIN sockets : sockets[i] \in session_map /\ sockets[i] \in Clients
  BY <1>1, <1>2, ElementOfSeq DEF InArray
<1> QED
  BY <1>2, <1>3 DEF PacketInv, SeatInv, SessionsMatchSockets

\* With the stone that wins, the pass goes on to send it: what was received is
\* parsed, and the other player has not asked for anything.
LEMMA WinningMove ==
  ASSUME Leavers = {}, Hasty = {}, MatchInv, NEW c \in session_map, NEW p \in Cells, Plays(c, p),
         PacketInv'
  PROVE  Ending'
<1>1. PacketInv /\ ReplicaInv /\ OneRequest
  BY DEF MatchInv, ReplicaInv
<1>2. Parse /\ c = sockets[idx] /\ c \in Clients /\ idx \in DOMAIN sockets
  BY <1>1, ServedIsSeated, SocketsOfPlayers, TrafficTypes DEF Plays, Parse, PacketInv
<1>3. /\ Len(recv_buffer[c]) = 1
      /\ \A d \in session_map \ {c} : Len(up[d]) = 0
  BY <1>1, OnlyRequest
<1>4. pc' = "send" /\ UNCHANGED <<idx, sockets, up>>
  BY <1>2, <1>3 DEF Parse, PacketInv, netVars
<1>5. ASSUME NEW i \in DOMAIN sockets, idx < i
      PROVE  up[sockets[i]] = <<>> /\ send_buffer'[sockets[i]] # <<>>
  <2>1. sockets[i] \in session_map \ {c} /\ sockets[i] \in Clients
    <3>1. i # idx
      BY <1>1, <1>2, <1>5, SocketsOfPlayers
    <3> QED
      BY <1>1, <1>2, <3>1, SocketsOfPlayers
  <2> PICK d \in Clients : d = sockets[i]
    BY <2>1
  <2>2. up[d] = <<>>
    BY <1>1, <1>3, <2>1, TrafficTypes, EmptySeq
  <2>3. PICK m \in ServerPackets : Broadcast(m)
    <3>1. scene[c].myOmokStone \in Stones
      BY DEF Plays, Players, Stones
    <3>2. DropResponse(scene[c].myOmokStone, p) \in ServerPackets
      BY <3>1, ServerPacketTypes
    <3> QED
      BY <3>2 DEF Plays
  <2>4. send_buffer'[d] = Append(send_buffer[d], m)
    BY <2>1, <2>3 DEF Broadcast
  <2>5. send_buffer[d] \in Seq(ServerPackets)
    BY <1>1 DEF PacketInv, SeatInv, TypeInv, TypeOK, ServerTypeOK
  <2> QED
    BY <2>2, <2>3, <2>4, <2>5, AppendProperties
<1> QED
  BY <1>4, <1>5 DEF Ending, Unread

\* While a player is still to be read, nothing new comes from it.
LEMMA EndingStays ==
  ASSUME Leavers = {}, Hasty = {}, MatchInv, [Next]_vars, omok.is_over, omok' = omok
  PROVE  Ending'
<1>1. /\ PacketInv /\ NobodyLeft /\ pc \in {"recv", "send", "timer", "over"}
      /\ \A i \in DOMAIN sockets :
           Unread(i) => up[sockets[i]] = <<>> /\ send_buffer[sockets[i]] # <<>>
  BY DEF MatchInv, ReplicaInv, Ending
<1>2. /\ send_buffer \in [Clients -> Seq(ServerPackets)] /\ link \in [Clients -> LinkStates]
      /\ down \in [Clients -> Seq(ServerPackets)]
  BY <1>1 DEF PacketInv, SeatInv, TypeInv, TypeOK, ServerTypeOK, NetTypeOK
<1>3. CASE /\ UNCHANGED <<pc, idx, sockets, send_buffer>>
           /\ \A i \in DOMAIN sockets : Unread(i) => up'[sockets[i]] = <<>>
  BY <1>1, <1>3 DEF Ending, Unread
<1>4. CASE Recv
  <2> PICK c \in Clients : c = sockets[idx] /\ c \in session_map /\ idx \in DOMAIN sockets
    BY <1>1, <1>4, ServedIsSeated, SocketsOfPlayers DEF Recv, PacketInv
  <2>1. Unread(idx)
    <3>1. idx \in Nat
      BY <1>1 DEF PacketInv, SeatInv, TypeInv, TypeOK, ServerTypeOK
    <3> QED
      BY <1>4, <3>1 DEF Recv, Unread
  <2>2. up[c] = <<>>
    BY <1>1, <2>1
  <2>3. \A n : ~(n \in 1..Len(up[c]))
    BY <2>2
  <2>4. pc' = "send" /\ UNCHANGED <<idx, sockets, send_buffer, up>>
    BY <1>1, <1>4, <2>3 DEF Recv, NobodyLeft, sessionVars, netVars
  <2>5. \A i \in DOMAIN sockets : idx < i => Unread(i)
    <3>1. idx \in Int /\ DOMAIN sockets = 1..Len(sockets) /\ Len(sockets) \in Nat
      BY <1>1, SocketsOfPlayers DEF PacketInv, SeatInv, TypeInv, TypeOK, ServerTypeOK
    <3> QED
      BY <1>4, <3>1 DEF Recv, Unread
  <2> QED
    BY <1>1, <2>4, <2>5 DEF Ending, Unread
<1>5. CASE Send
  <2> PICK c \in Clients : c = sockets[idx] /\ c \in session_map /\ idx \in DOMAIN sockets
    BY <1>1, <1>5, ServedIsSeated, SocketsOfPlayers DEF Send, PacketInv
  <2>1. retval # "error" /\ link[c] = "open"
    BY <1>1, <1>5 DEF PacketInv, SeatInv, RetvalInv, Send, NobodyLeft
  <2>2. /\ UNCHANGED <<sockets, up>>
        /\ \/ send_buffer' = send_buffer
           \/ send_buffer' = [send_buffer EXCEPT ![c] = <<>>]
        /\ GotoSocket(idx + 1, Len(sockets'))
    BY <1>5, <2>1 DEF Send, Transmit
  <2>3. \/ pc' = "timer"
        \/ pc' = "recv" /\ idx' = idx + 1
    BY <2>2 DEF GotoSocket
  <2>4. ASSUME NEW i \in DOMAIN sockets, Unread(i)'
        PROVE  up'[sockets[i]] = <<>> /\ send_buffer'[sockets[i]] # <<>>
    <3>1. idx \in Int /\ i \in Int
      BY <1>1, SocketsOfPlayers DEF PacketInv, SeatInv, TypeInv, TypeOK, ServerTypeOK
    <3>2. idx < i
      BY <2>3, <2>4, <3>1 DEF Unread
    <3>3. Unread(i)
      BY <1>5, <3>2 DEF Unread, Send
    <3>4. sockets[i] # c /\ sockets[i] \in Clients
      BY <1>1, <3>1, <3>2, SocketsOfPlayers
    <3> QED
      BY <1>1, <1>2, <2>2, <3>3, <3>4
  <2> QED
    BY <2>2, <2>3, <2>4 DEF Ending
<1>6. CASE UpdateTimer \/ UpdateOver
  <2>1. CASE UpdateTimer
    BY <2>1 DEF UpdateTimer, Ending, Unread
  <2>2. CASE UpdateOver
    <3>1. omok \in Games
      BY <1>1 DEF PacketInv, SeatInv, TypeInv, TypeOK, ServerTypeOK
    <3>2. ~omok'.is_over
      BY <2>2, <3>1 DEF UpdateOver, NewGame, Games
    <3> QED
      BY <3>2 DEF Ending
  <2> QED
    BY <1>6, <2>1, <2>2
<1>7. CASE Parse \/ Select \/ Accept
  BY <1>1, <1>7 DEF Parse, Select, Accept
<1>8. CASE TimerThread \/ UNCHANGED vars
  BY <1>1, <1>3, <1>8 DEF TimerThread, vars, serverVars, loopVars, sessionVars, netVars
<1>9. ASSUME NEW k \in Clients, KickThread(k) PROVE Ending'
  <2>1. \A i \in DOMAIN sockets : sockets[i] # k /\ sockets[i] \in Clients
    BY <1>1, <1>9, SessionsAreKnown, SocketsOfPlayers
       DEF PacketInv, KickThread, KickNotify, KickAnswered, KickUnanswered
  <2>2. up \in [Clients -> Seq(ClientPackets)]
    BY <1>1, TrafficTypes
  <2>3. \A i \in DOMAIN sockets : up'[sockets[i]] = up[sockets[i]]
    BY <1>9, <2>1, <2>2 DEF KickThread, KickNotify, KickAnswered, KickUnanswered, netVars
  <2> QED
    BY <1>1, <1>3, <1>9, <2>3
       DEF KickThread, KickNotify, KickAnswered, KickUnanswered, loopVars, sessionVars
<1>10. ASSUME NEW c \in Clients, ClientStep(c) PROVE Ending'
  <2>1. \A i \in DOMAIN sockets : sockets[i] \in session_map
    BY <1>1, SocketsOfPlayers
  <2>2. ASSUME NEW i \in DOMAIN sockets, Unread(i) PROVE up'[sockets[i]] = <<>>
    <3>1. ~Settled(sockets[i])
      BY <1>1, <2>2 DEF Settled
    <3>2. up'[sockets[i]] = up[sockets[i]]
      BY <1>1, <1>10, <2>1, <3>1, PlayerSends
    <3> QED
      BY <1>1, <2>2, <3>2
  <2> QED
    BY <1>3, <1>10, <2>2 DEF ClientStep, serverVars, loopVars, sessionVars
<1> QED
  BY <1>4, <1>5, <1>6, <1>7, <1>8, <1>9, <1>10 DEF Next, ServerStep, ServerNext, NetworkThread

LEMMA EndingStep ==
  ASSUME Leavers = {}, Hasty = {}, MatchInv, [Next]_vars
  PROVE  Ending'
<1>1. PacketInv /\ NobodyLeft /\ PacketInv' /\ omok \in Games
  BY PacketStep DEF MatchInv, ReplicaInv, PacketInv, SeatInv, TypeInv, TypeOK, ServerTypeOK
<1>2. CASE \E c \in session_map, p \in Cells : Plays(c, p)
  BY <1>1, <1>2, WinningMove
<1>3. CASE \E c \in Clients : SitsDown(c)
  <2>1. pc = "accept" /\ omok' = SwapTurn(omok)
    BY <1>3 DEF SitsDown, Accept
  <2>2. ~omok.is_over
    BY <2>1 DEF MatchInv, Ending
  <2>3. ~omok'.is_over
    BY <1>1, <2>1, <2>2 DEF SwapTurn, Games
  <2> QED
    BY <2>3 DEF Ending
<1>4. CASE GameEnds
  <2>1. ~omok'.is_over
    BY <1>1, <1>4 DEF GameEnds, NewGame, Games
  <2> QED
    BY <2>1 DEF Ending
<1>5. CASE omok' = omok
  <2>1. CASE omok.is_over
    BY <1>5, <2>1, EndingStays
  <2>2. CASE ~omok.is_over
    BY <1>5, <2>2 DEF Ending
  <2> QED
    BY <2>1, <2>2
<1> QED
  BY <1>1, <1>2, <1>3, <1>4, <1>5, GameAndPlayers DEF Quiet

LEMMA MatchInvariant ==
  ASSUME Leavers = {}, Hasty = {}
  PROVE  Spec => []MatchInv
<1>1. MatchInv /\ [Next]_vars => MatchInv'
  BY PacketStep, NobodyLeftStep, SeatsStep, OneBufferStep, OneRequestStep, EndingStep
     DEF MatchInv, ReplicaInv
<1> QED
  BY <1>1, InitMatchInv, PTL DEF Spec

(***************************************************************************)
(* Refinement of GomokuMatch                                               *)
(***************************************************************************)

\* Where Count is Five, there are Five in a row through the last stone.
LEMMA RowThrough ==
  ASSUME NEW b, NEW p \in Cells, NEW d \in Directions, Count(b, p, d, b[p]) = Five
  PROVE  \E q \in Cells, m \in 0..(Five - 1) :
           RowFrom(b, q, d, b[p], Five) /\ Along(q, d, m) = p
<1>1. PICK lo \in Int, hi \in Int : IsRow(b, p, d, b[p], lo, hi)
  BY RowExists
<1>2. Five <= hi - lo + 1 /\ Five \in Nat \ {0} /\ lo <= 0 /\ 0 <= hi
  <2>1. Five <= hi - lo + 1
    BY <1>1, CountOfRow
  <2> QED
    BY <1>1, <2>1, BoardAssumption DEF IsRow
<1>3. PICK m \in 0..(Five - 1) : lo <= 0 - m /\ (0 - m) + (Five - 1) <= hi
  <2>1. CASE 0 <= lo + (Five - 1)
    <3>1. 0 - lo \in 0..(Five - 1) /\ 0 - (0 - lo) = lo /\ lo + (Five - 1) <= hi
      BY <1>2, <2>1
    <3> QED
      BY <3>1
  <2>2. CASE lo + (Five - 1) < 0
    <3>1. /\ Five - 1 \in 0..(Five - 1) /\ lo <= 0 - (Five - 1)
          /\ (0 - (Five - 1)) + (Five - 1) = 0
      BY <1>2, <2>2
    <3> QED
      BY <1>2, <3>1
  <2> QED
    BY <1>2, <2>1, <2>2
<1>4. PICK n \in Int : n = 0 - m /\ n \in lo..hi
  BY <1>2, <1>3
<1>5. Along(p, d, n) \in Cells
  BY <1>1, <1>4 DEF IsRow, Same, On
<1>6. ASSUME NEW k \in 0..(Five - 1) PROVE Same(b, Along(p, d, n), d, b[p], k)
  <2>1. n + k \in lo..hi
    BY <1>2, <1>3, <1>4
  <2>2. Along(Along(p, d, n), d, k) = Along(p, d, n + k)
    BY AlongAlong
  <2> QED
    BY <1>1, <2>1, <2>2 DEF IsRow, Same, On
<1>7. Along(Along(p, d, n), d, m) = p
  <2>1. Along(Along(p, d, n), d, m) = Along(p, d, n + m)
    BY <1>4, AlongAlong
  <2>2. n + m = 0
    BY <1>4
  <2> QED
    BY <2>1, <2>2, LineOnBoard
<1> QED
  BY <1>5, <1>6, <1>7 DEF RowFrom

\* A row of exactly Five with a cell of the board behind it is counted as Five
\* from each of its stones.
LEMMA RowCounts ==
  ASSUME NEW b, NEW q \in Cells, NEW d \in Directions, NEW s,
         RowFrom(b, q, d, s, Five), ~Same(b, q, d, s, 0 - 1), ~Same(b, q, d, s, Five),
         On(q, d, Five), NEW m \in 0..(Five - 1), NEW p \in Cells, Along(q, d, m) = p
  PROVE  Count(b, p, d, s) = Five
<1>1. Five \in Nat \ {0} /\ (Five - 1) + 1 = Five /\ (Five - 1) - 0 + 1 = Five
  BY BoardAssumption
<1>2. IsRow(b, q, d, s, 0, Five - 1)
  BY <1>1 DEF IsRow, RowFrom
<1>3. Count(b, q, d, s) = Five
  BY <1>1, <1>2, CountOfRow
<1>4. PICK lo, hi, k : IsRow(b, q, d, s, lo, hi) /\ k \in lo..hi /\ Along(q, d, k) = p
  BY <1>1, <1>2
<1>5. Count(b, p, d, s) = Count(b, q, d, s)
  BY ONLY <1>4, RowShifts, p \in Cells, q \in Cells, d \in Directions
<1> QED
  BY <1>3, <1>5

\* The match's rows are those of the proofs about CheckGomoku.
LEMMA MatchRows ==
  ASSUME NEW b, NEW s, NEW p, NEW d
  PROVE  /\ Match!Row(b, s, p, d, Five) <=> RowFrom(b, p, d, s, Five)
         /\ \A k : Match!Holds(b, s, Match!Cell(p, d, k)) <=> Same(b, p, d, s, k)
         /\ \A k : Match!Cell(p, d, k) = Along(p, d, k)
         /\ Match!Grid = Cells /\ Match!Axes = Directions
BY DEF Match!Row, Match!Holds, Match!Cell, Match!Grid, Match!Axes, RowFrom, Same, On, Along,
       Cells, Directions

\* CheckGomoku ends the game with the stone on p only where the match lets a
\* player win, and wherever the match demands it.
LEMMA WinAllowed ==
  ASSUME NEW b, NEW p \in Cells, NEW s, b[p] = s, NEW d \in Directions, Count(b, p, d, s) = Five
  PROVE  Match!MayWin(b, s, p)
<1>1. PICK q \in Cells, m \in 0..(Five - 1) : RowFrom(b, q, d, s, Five) /\ Along(q, d, m) = p
  BY RowThrough
<1> QED
  BY <1>1, MatchRows DEF Match!MayWin, Match!Through

LEMMA WinDemanded ==
  ASSUME NEW b, NEW p \in Cells, NEW s, Match!MustWin(b, s, p)
  PROVE  \E d \in Directions : Count(b, p, d, s) = Five
<1>1. PICK q \in Cells, d \in Directions :
        /\ Match!Row(b, s, q, d, Five) /\ Match!Through(p, q, d, Five)
        /\ ~Match!Holds(b, s, Match!Cell(q, d, -1))
        /\ Match!Cell(q, d, Five) \in Match!Grid /\ b[Match!Cell(q, d, Five)] # s
  BY MatchRows DEF Match!MustWin
<1>2. RowFrom(b, q, d, s, Five) /\ ~Same(b, q, d, s, -1) /\ ~Same(b, q, d, s, Five) /\ On(q, d, Five)
  BY <1>1, MatchRows DEF Same, On
<1>3. PICK m \in 0..(Five - 1) : Along(q, d, m) = p
  BY <1>1, MatchRows DEF Match!Through
<1>4. 0 - 1 = -1
  OBVIOUS
<1> QED
  BY <1>2, <1>3, <1>4, RowCounts

\* What CheckGomoku makes of a stone laid in a game that is not over.
LEMMA CheckedMove ==
  ASSUME NEW g \in Games, ~g.is_over, NEW p \in Cells, NEW s \in Players
  PROVE  LET h == CheckGomoku(SwapTurn(DropStone(g, p, s)), p, s)
             b == [g.gomoku EXCEPT ![p] = s]
         IN  /\ h.gomoku = b /\ b[p] = s
             /\ h.current_turn = OtherStone(g.current_turn)
             /\ (\E d \in Directions : Count(b, p, d, s) = Five) => h.is_over = TRUE /\ h.winner = s
             /\ (\A d \in Directions : Count(b, p, d, s) # Five) => ~h.is_over
<1> DEFINE b == [g.gomoku EXCEPT ![p] = s]
           f == SwapTurn(DropStone(g, p, s))
<1>1. s \in Stones /\ b[p] = s
  BY DEF Games, Boards, Players, Stones
<1>2. /\ f.gomoku = b /\ f.current_turn = OtherStone(g.current_turn)
      /\ ~f.is_over /\ f \in Games
  <2>1. DropStone(g, p, s) \in Games
    BY <1>1, DropStoneType
  <2>2. f \in Games
    BY <2>1, SwapTurnType
  <2> QED
    BY <1>1, <2>2 DEF SwapTurn, DropStone, Games
<1> HIDE DEF f
<1>3. CASE \E d \in Directions : Count(b, p, d, s) = Five
  <2>1. CheckGomoku(f, p, s) = GameOver(f, s)
    BY <1>2, <1>3 DEF CheckGomoku
  <2>2. /\ GameOver(f, s).gomoku = b /\ GameOver(f, s).current_turn = OtherStone(g.current_turn)
        /\ GameOver(f, s).is_over = TRUE /\ GameOver(f, s).winner = s
    BY <1>2 DEF GameOver, Games
  <2> QED
    BY <1>1, <1>3, <2>1, <2>2 DEF f
<1>4. CASE \A d \in Directions : Count(b, p, d, s) # Five
  <2>1. CheckGomoku(f, p, s) = f
    BY <1>2, <1>4 DEF CheckGomoku
  <2> QED
    BY <1>1, <1>2, <1>4, <2>1 DEF f
<1> QED
  BY <1>3, <1>4

\* A request that is played is a move of the match: both players are there, the
\* stone is of the colour in turn, and the match is not decided.
LEMMA PlayIsMove ==
  ASSUME MatchInv, NEW c \in session_map, NEW p \in Cells, Plays(c, p)
  PROVE  Match!Move
<1> PICK s \in Players : s = scene[c].myOmokStone
  BY DEF Plays
<1> DEFINE b == [omok.gomoku EXCEPT ![p] = s]
<1>1. /\ PacketInv /\ NobodyLeft /\ Seats /\ omok \in Games
      /\ s = omok.current_turn /\ omok.gomoku[p] = OMOK_EMPTY /\ session_map' = session_map
      /\ omok' = CheckGomoku(SwapTurn(DropStone(omok, p, s)), p, s)
  BY DEF MatchInv, ReplicaInv, Plays, Announces, PacketInv, SeatInv, TypeInv, TypeOK, ServerTypeOK
<1>2. ~omok.is_over
  BY DEF Plays, Parse, MatchInv, Ending
<1>3. Cardinality(session_map) = 2
  <2>1. Eventual(c).myOmokStone = s
    BY <1>1, OwnStone
  <2>2. \E x, y \in Clients : TwoPlayers(x, y)
    BY <1>1, <2>1 DEF Seats, NoPlayer, OnePlayer, OMOK_BLACK, OMOK_WHITE
  <2> QED
    BY <1>1, <2>2, CountPlayers
<1>4. /\ omok'.gomoku = b /\ b[p] = s /\ omok'.current_turn = OtherStone(s)
      /\ (\E d \in Directions : Count(b, p, d, s) = Five) => omok'.is_over = TRUE /\ omok'.winner = s
      /\ (\A d \in Directions : Count(b, p, d, s) # Five) => ~omok'.is_over
  <2>1. LET h == CheckGomoku(SwapTurn(DropStone(omok, p, s)), p, s)
        IN  /\ h.gomoku = b /\ b[p] = s
            /\ h.current_turn = OtherStone(omok.current_turn)
            /\ (\E d \in Directions : Count(b, p, d, s) = Five) => h.is_over = TRUE /\ h.winner = s
            /\ (\A d \in Directions : Count(b, p, d, s) # Five) => ~h.is_over
    BY <1>1, <1>2, CheckedMove
  <2> HIDE DEF b
  <2> QED
    BY <1>1, <2>1
<1> DEFINE turn == IF Cardinality(session_map) = 2 THEN omok.current_turn ELSE OMOK_BLACK
           decided == IF omok.is_over THEN omok.winner ELSE OMOK_EMPTY
<1>5. turn = s /\ turn' = OtherStone(s) /\ decided = OMOK_EMPTY
  BY <1>1, <1>2, <1>3, <1>4
<1>6. turn' = IF s = OMOK_BLACK THEN OMOK_WHITE ELSE OMOK_BLACK
  BY <1>5 DEF OtherStone, Players, OMOK_BLACK, OMOK_WHITE
<1>7. /\ decided' \in {OMOK_EMPTY, s}
      /\ decided' = s => Match!MayWin(b, s, p)
      /\ Match!MustWin(b, s, p) => decided' = s
  <2>1. CASE \E d \in Directions : Count(b, p, d, s) = Five
    <3>1. decided' = s
      BY <1>4, <2>1
    <3>2. Match!MayWin(b, s, p)
      BY <1>4, <2>1, WinAllowed
    <3> QED
      BY <3>1, <3>2
  <2>2. CASE \A d \in Directions : Count(b, p, d, s) # Five
    <3>1. decided' = OMOK_EMPTY /\ OMOK_EMPTY # s
      BY <1>4, <2>2 DEF Players, OMOK_EMPTY, OMOK_BLACK, OMOK_WHITE
    <3>2. ~Match!MustWin(b, s, p)
      BY <2>2, WinDemanded
    <3> QED
      BY <3>1, <3>2
  <2> QED
    BY <2>1, <2>2
<1>8. p \in Match!Grid
  BY MatchRows
<1> HIDE DEF turn, decided, b
<1> QED
  BY <1>1, <1>4, <1>5, <1>6, <1>7, <1>8
     DEF Match!Move, Match!Empty, Match!Black, Match!White, OMOK_EMPTY, OMOK_BLACK, OMOK_WHITE,
         turn, decided, b

\* Omok::Init after the result begins the next match.
LEMMA EndIsNextMatch ==
  ASSUME PacketInv, Justified(omok), GameEnds
  PROVE  Match!NextMatch
<1>1. omok \in Games /\ omok.is_over /\ omok.winner \in Players /\ omok' = NewGame(omok)
  BY DEF PacketInv, SeatInv, TypeInv, TypeOK, ServerTypeOK, GameEnds, Justified
<1>2. /\ omok'.gomoku = EmptyBoard /\ omok'.current_turn = OMOK_BLACK /\ ~omok'.is_over
  BY <1>1 DEF NewGame, Games
<1> QED
  BY <1>1, <1>2
     DEF Match!NextMatch, Match!Empty, Match!Black, Match!Grid, EmptyBoard, Cells, Players,
         OMOK_EMPTY, OMOK_BLACK, OMOK_WHITE

\* Taking a seat is no move: the turn passes twice before the match begins.
LEMMA SittingIsNoMove ==
  ASSUME PacketInv, Seats, Seats', NEW c \in Clients, SitsDown(c)
  PROVE  UNCHANGED <<omok.gomoku, omok.is_over, omok.winner,
                     IF Cardinality(session_map) = 2 THEN omok.current_turn ELSE OMOK_BLACK>>
<1>1. /\ c \notin session_map /\ Len(sockets) < 2 /\ session_map' = session_map \cup {c}
      /\ omok' = SwapTurn(omok) /\ omok \in Games
  BY DEF SitsDown, PacketInv, SeatInv, TypeInv, TypeOK, ServerTypeOK
<1>2. /\ omok'.gomoku = omok.gomoku /\ omok'.is_over = omok.is_over
      /\ omok'.winner = omok.winner /\ omok'.current_turn = OtherStone(omok.current_turn)
  BY <1>1 DEF SwapTurn, Games
<1>3. ~\E a, b \in Clients : TwoPlayers(a, b)
  BY <1>1, RoomLeft DEF TwoPlayers
<1>4. Cardinality(session_map) # 2
  BY <1>3, CountPlayers
<1>5. CASE NoPlayer
  <2>1. session_map' = {c}
    BY <1>1, <1>5 DEF NoPlayer
  <2>2. Cardinality(session_map') = 1
    BY <2>1, FS_Singleton
  <2> QED
    BY <1>2, <1>4, <2>2
<1>6. CASE \E a \in Clients : OnePlayer(a)
  <2>1. omok'.current_turn = OMOK_BLACK
    BY <1>2, <1>6 DEF OnePlayer, OtherStone, OMOK_BLACK, OMOK_WHITE
  <2> QED
    BY <1>2, <1>4, <2>1
<1> QED
  BY <1>3, <1>5, <1>6 DEF Seats

\* When nobody leaves and nobody clicks twice, every change of the server's
\* game is a legal move or the start of the next match: MovesAreLegal, the
\* safety half of PlaysMatches.  (Omok.cpp, Session::process_packet, OmokServer::update_over)
THEOREM ServerPlaysMatches ==
  ASSUME Leavers = {}, Hasty = {}
  PROVE  Spec => MovesAreLegal
<1> DEFINE turn == IF Cardinality(session_map) = 2 THEN omok.current_turn ELSE OMOK_BLACK
           decided == IF omok.is_over THEN omok.winner ELSE OMOK_EMPTY
<1>1. Init => Match!MatchInit
  <2> SUFFICES ASSUME Init PROVE Match!MatchInit
    OBVIOUS
  <2>1. omok = FreshGame /\ session_map = {}
    BY DEF Init, ServerInit
  <2>2. Cardinality(session_map) # 2
    BY <2>1, FS_EmptySet
  <2> QED
    BY <2>1, <2>2
       DEF Match!MatchInit, Match!Empty, Match!Black, Match!Grid, FreshGame, EmptyBoard, Cells,
           OMOK_EMPTY, OMOK_BLACK
<1>2. ASSUME MatchInv, Justified(omok), [Next]_vars
      PROVE  [Match!MatchNext]_<<omok.gomoku, turn, decided>>
  <2>1. PacketInv /\ NobodyLeft /\ Seats /\ Seats'
    BY <1>2, SeatsStep DEF MatchInv, ReplicaInv
  <2>2. CASE \E c \in session_map, p \in Cells : Plays(c, p)
    BY <1>2, <2>2, PlayIsMove DEF Match!MatchNext
  <2>3. CASE GameEnds
    BY <1>2, <2>1, <2>3, EndIsNextMatch DEF Match!MatchNext
  <2>4. CASE \E c \in Clients : SitsDown(c)
    BY <2>1, <2>4, SittingIsNoMove
  <2>5. CASE UNCHANGED <<session_map, omok>>
    BY <2>5
  <2> QED
    BY <2>1, <1>2, <2>2, <2>3, <2>4, <2>5, GameAndPlayers DEF Quiet, Announces
<1>3. ResultInv => Justified(omok)
  BY DEF ResultInv
<1> QED
  BY <1>1, <1>2, <1>3, MatchInvariant, ResultInvariant, PTL
     DEF Spec, MovesAreLegal, Match!MatchMoves, Match!matchVars

=============================================================================
