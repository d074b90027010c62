# Omok server and client: a TLA+ verification project

The repository is a two-player gomoku ("omok") game for Windows: a server
(`src/OmokServer/OmokServer`) with one network thread, a timer thread and kick
threads, and a graphical client (`src/OmokClient`) that keeps its own copy of
the board. They share `src/Common`. This directory holds TLA+ models of the
game as it is played over the network, the TLC configurations that check them
and the TLAPS proofs about them.

## The system

| part | state | operations | talks to |
|---|---|---|---|
| rules, `Omok.cpp` | board, turn, winner, is_over | Init, DropStone, SwapTurn, CheckGomoku, GameOver | called by the network thread only (the timer thread reads a wrong pointer in its place) |
| network thread, `OmokServer.cpp`, `Session.cpp` | array of sockets, session map, a send and a receive buffer per session | `update()`: select, at most one accept, per socket recv/parse/send, timer check, game-over check | clients by TCP; timer thread by `time_tick`, `timer_event`; starts kick threads |
| timer thread | `time_tick`, `timer_event` | every half second: new time, perhaps an event | network thread |
| kick thread, one per connection without a seat | its socket | send KICK, wait for four bytes, close (or not) | one client |
| client socket, `OmokClient.cpp` | socket, two buffers | connect, recv/parse/process, send, disconnect | server; calls the scene |
| client scene, `OmokScene.cpp` | own board, own turn, own colour, result, time, four images, the client object | Init, Update (click on a cell, on the exit button), Render, Release, setters | client socket object |
| framing, `PacketVector.h`, `Packet.hpp` | byte buffers with a read and a write head | write, recv into, rewind, get_header, send from | sessions and clients |
| scene manager, main loop, keyboard, `MainGame22.cpp` | current scene, the last key state, mouse position | ChangeScene, frame (WM_TIMER), paint (WM_PAINT), Init and Release of the program | scene |
| `Image.cpp` | a memory DC and bitmaps per image | Init, Release, Render | the scenes and the main game |
| the console game with its AI, sample servers | | | nothing in the game |

A player joins by `accept()`: the server gives it the colour whose *turn* it is
and passes the turn on (`assignStoneType`). A click sends a request with the
client's colour; the server plays it if that colour is in turn and the cell is
empty, and broadcasts the stone; a refused request gets no answer. Clients lay
stones and pass their turn on broadcasts only. After a stone, and after its
broadcast, the server looks for a row of five; `update()` later announces the
result and restarts the server's game.

What is hard here: the network thread works through a snapshot taken by
`select()` while clients go on; sockets are removed from the array during the
loop over it; one variable serves both as turn and as seat colour; four places
broadcast into buffers that are flushed at different times; requests are judged
when they are parsed; players close their programs, or are reset, at any
moment; three kinds of threads share state without locks; a board scan tests
its bound after its read. Underneath, TCP may cut the stream anywhere, `recv()`
writes past the buffers' own check, one packet object holds a request and its
answer, and a `send()` that fails moves a head all the same. In the client, the
mouse is asked for in two places of a frame, a scene is left and entered
again, an error box goes on dispatching frames, and images are drawn without a
look at whether they were loaded.

## Modules

| module | models | what it is made of |
|---|---|---|
| `Omok` | `Omok.cpp` | a game is a record; each method an operator from game to game. `Count` is what the scanning loops of `CheckGomoku` compute, as a set |
| `GomokuScan` | `Omok::CheckGomoku` loop by loop | one step per test of a `while`; a read outside the array returns any stone |
| `OmokNetwork` | `protocol.h`, TCP | connections, the backlog, two packet queues per client |
| `OmokServer` | `OmokServer.cpp`, `Session.cpp` | `pc` and `idx` place the network thread in its loop; an action per system call or loop turn; `TimerThread`; a kick thread per client |
| `OmokClient` | `OmokClient.cpp`, `OmokScene.cpp` | `phase` is how far the program has come, `scene` the fields of its scene; a frame is `Update` |
| `OmokSystem` | all of it | composition, fairness, safety properties |
| `GomokuMatch` | (abstract) | what two players are promised: alternating legal moves, black first, a justified winner, a next match |
| `OmokReplicas` | (properties) | what relates the clients' boards to the server's, the refinement of `GomokuMatch`, liveness, and what comments in the code say |
| `PacketVector` | `PacketVector.h` | a record of the bytes before the write head and the read head; one operator per method |
| `Packet` | `Packet.hpp` | the same for the packets, which grow |
| `OmokWire` | one connection: `parse_packet`, `process_packet`, `pre_send`, the calls of `send` and `recv` on both sides, the `make_packet` functions, `timer_thread_func` | extends the two; `pc` is the network thread's place in its pass, `cpc` the client's in its frame; a byte is the position it was written at |
| `PacketQueue` | (abstract) | what a connection promises: two queues of whole packets |
| `Image` | `Image.cpp` | what an image pointer leads to; the Windows objects taken and given back, counted |
| `OmokProgram` | the client as a program: `WinAPI-지뢰 찾기와 오목.cpp`, `MainGame22`, `GameNode`, `SceneManager`, `KeyManager`, `OmokScene`'s Init, Update, Render, Release | extends `Image`; `phase` is where the program is, down to the point between the two polls of the mouse in a frame |
| `MCOmokSystem`, `MCGomokuScan`, `MCOmokWire`, `MCOmokProgram` | (TLC) | model values, symmetry, positions of the mouse |
| `OmokSystemProofs`, `OmokPacketProofs`, `OmokOrderProofs`, `OmokMatchProofs` | (TLAPS) | the whole game: types and seats; packets on their way; order of broadcasts and of times; results, the players' copies of the game, and the match it is. Each extends the one before |
| `OmokProofs`, `GomokuScanProofs` | (TLAPS) | rows on the board; the scan |
| `OmokWireProofs`, `OmokProgramProofs` | (TLAPS) | one connection; the client program |

`OmokSystem` composes server and clients over queues of packets; `OmokWire`
looks at one of those queues pairs byte by byte and implements `PacketQueue`,
which is what licenses the queues above. `OmokClient` is what the client does
with its packets; `OmokProgram` is the program around it, in which the network
may lay stones or pass the turn in any frame of the game.

Correspondence of state: `sockets` is `SocketInfoArray[0..nTotalSockets-1]`
(1-based), `session_map` the key set of the map of the same name, `rset`,
`wset`, `incoming` what `select()` left in the sets, `retval` whether the local
variable of that name is `SOCKET_ERROR` (it outlives the socket it was about),
`send_buffer[c]` and `recv_buffer[c]` the packets in the session's two
`PacketVector`s, `up[c]`/`down[c]` the packets in the kernel or on the wire.
`SOCKETINFO*` and `Session*` are identified with the client at the other end.
In `OmokWire`, `send_buffer["down"]` and `recv_buffer["up"]` are the session's
two `PacketVector`s, the other two the client's; `pipe` is what TCP has taken on
and not handed over.

Step boundaries. The network thread's code between two system calls is one
step where nothing else can see it in between. Parsing a packet is a step of its
own, since the timer may tick between two packets. Everything a handler does,
including the broadcast and the scan after a stone, is in its action. In
`OmokProgram` a frame is two steps, cut between `SCENE->Update()` and the icons
of the start screen, because `GetAsyncKeyState` answers for the moment it is
called: the button may go down or up in between. It also answers for whatever
window the press was in, with the last mouse position over this one.
`err_quit` opens a message box whose loop dispatches the timer messages of the
main window, so frames go on behind it, and may open another; they end with
`exit(1)` when the innermost box is closed.

Abstractions. In the modules of the game a packet is a record; a packet that
has arrived in part is one that is still in `up` or `down` (`OmokWire` has the
bytes). `recv()` returns any
non-empty prefix of what is there. `select()` reports any subset of the sockets
that could be ready, because what has been sent may still be under way.
Closing a client program resets its connection (SO_LINGER with time 0), and
what it had sent may be lost; after a reset the server's `recv()` fails or
returns 0. A program connects at most once: a player who starts the game again
is another member of `Clients`. Several packets processed by a client in one
frame are several steps without a click. `is_over` as read by the timer thread
is unrelated memory (it casts the server to an `Omok`), so the thread may stop at
any moment; in the model the clock may stop. `timer_event` is not initialised
and starts with an arbitrary small value. The packet queues have no end:
that `pre_send` ends the server when a session's buffer is full
(`Session.cpp:24-25`) is in `OmokWire` only, and `ParseNeverCrashes` speaks of the
other crash, that of a packet of unknown type.

In `OmokWire` a byte is its position in the stream of its direction, so that a
lost, doubled or misplaced one is noticed, and what a packet says is left out:
whether the game takes a stone, or is over, is a choice. TCP holds at most
`Window` bytes that have not been received. The server's sockets are blocking
(`FIONBIO` is commented out, `OmokServer.cpp:72-79`), so a socket `select()`
calls writable takes the whole of the buffer; the client's are not, and take a
part or nothing, and nothing is the failed `send()` whose -1 moves the head. What
becomes of the stream after it is not followed (`failed`). `owed` is a history
variable: it counts the times the client is to be told. In `OmokProgram` a stone
is on a cell or not, and positions of the mouse are the ones in `Points`.

Some operators are preceded by a *faulty variant*: the same operator with a
plausible mistake. No specification uses them; they document which mistake each
property notices, and replacing the operator by its variant must make that
property fail.

## Runs

Bounds. Boards are 3x1 to 3x3 cells with rows of two instead of 19x19 with
five: small enough for all games to be enumerated, large enough for a row
to lie inside, at the near edge and at the far edge, for a game to be won,
drawn and followed by a second (in `seats`, where only the seats matter, a
single cell). `MaxPending` bounds the requests of one client
on their way (1: it waits for the stream to drain; 2: the second request races
the first). `MaxTicks` bounds how often the clock moves (0 where time is not
the question; 1 lets the tick fall before, between or after two announcements). `Leavers` are the
players who may leave, `Clickers` those who click (all of them, but in `seats`,
where a request is only something more to read for a loop that is to free seats,
and one player's are enough), `Hasty` those who click while something is on its way.
In `seats` the two of three who may leave can be the two who are seated, so that
one loop finds both gone, removes the first and skips the second.

For `wire` packets shrink to 3 to 5 bytes (a header of two, fields of one), which
leaves room for a cut inside a header, between header and body, at a packet's end
and behind it; a buffer of 8 bytes holds one packet of any kind and part of the
next, so it fills up on either side; a window of 2 bytes makes every packet arrive in
pieces and lets a `send()` fail. Two requests, one stone and two sleeps,
of two or three units with a second of two, give at most five packets downward,
with one of each kind and two announcements of the time, and let the timer
oversleep first, second or not at all. `timer_event` starts at 1 (`LeftOver`), which
stands for whatever the memory held; a start at 0 only leaves out the time that is
told before the first sleep. For `client` four presses suffice to enter a
game, leave it, enter again and click; two boxes let one error box open
inside another; the points are the two icons, the exit button, two cells (one hit
at its very edge) and a spot where nothing is; one file of each kind may be missing.

| run | instance | shows |
|---|---|---|
| `churn` | 3 programs, all may leave, 3x1, symmetric | types; `SessionsMatchSockets`, `OnePlaceAtATime`: the bookkeeping of seats survives every order of joins, leaves and resets; `ParseNeverCrashes`; `ColourComesFirst`, `RequestsOwnColour`: no client moves for the other, though the server never compares; `SameOrder`: all get the same broadcasts in the same order |
| `hasty` | 2 programs, one hasty, 3x1 | `SameOrder` where two stones can be under way at once; `ReplicasAgree`, `ReplicasFollowGame`, `SeatsDiffer`: boards, turns and colours stay consistent through refused, late and doubled requests; `GameOverIsJustified`: checking the rows through the last stone misses nothing |
| `seen` | 2 patient programs, one tick, `FairSpec`, 3x1 | `MovesAreLegal`: every step of the server is one of `GomokuMatch` or none; `PlaysMatches`: the same with its fairness, a next match after each result; `EveryMoveIsSeen`, `ResultIsSeen`; `TimeNeverRunsBack` |
| `seats` | 3 programs, two may leave, `FairSpec`, 1x1 | `EveryoneIsServed`; `SeatIsFreed`, also of the player whose socket moves into the hole of another and is skipped in that pass |
| `scan` | all 3x3 boards, rows of 2, `FairScanSpec` | `CountsTheRow`, `ScanDecides`, `CountingStaysInside`; `ScanEnds` |
| `wire` | one connection, 5 kinds of packets, any cut of the stream, `FairSpec` | `StreamIntact`, `FramingKept`: no byte lost, doubled or torn out of its packet, and what is broadcast is the answer and not the request before it in `inner_packet`; `BuffersHold`, `RecvHasRoom`: the unchecked `recv()` stays in the buffer and never sees it full; `ReadsFit`; `DeliversPackets`: refinement of `PacketQueue`; `EveryPacketArrives`; `NoTimeTooMany`, `ClockKeepsGoing`: the time is told once for each event `timer_event` started with and each sleep up to the first oversleep of the timer thread; none is told on account of a later sleep, and none of these is lost |
| `client` | the client program, 4 presses, 2 error boxes, files missing or not | `FirstVisitIsSafe`: the client object deleted by leaving is used only by who enters again; `CrashNeedsMissingFile`; `OnePressOneAction`: two polls in a frame and 361 cells answer a press once; `GdiBounded`: painting leaks nothing |

In `churn` three programs fill both seats, leave one over for the kick
thread, and let a seat be taken again; with two seats in the code a fourth would
add another kick thread of the same kind. `scan` stops when the scan is done, `wire`
when one of the two programs has crashed and the other waits for it, `client` when
the program has ended, so they do not check for deadlock; every other run does,
which it can because the network thread never stops.

Runs that show where a comment and the code part ways:

| run | comment | what happens |
|---|---|---|
| `late_stone` | `Omok.cpp:131`, five in a row end the game | a second request of the same pass is played after the win and may change the winner |
| `edge_five` | the same | five in a row that end at row or column 18 are counted as four, and the game goes on |
| `lobby_leave` | `Omok.cpp:30`, black starts | a player leaves before the first stone; the next gets the wrong colour and white has to open |
| `next_game` | `OmokScene.cpp:43`, black starts | after a win the clients keep the old board and the old turn, the server does not |
| `kick_leak` | `OmokServer.cpp:474`, safely disconnects | a kicked connection that ends without an answer leaves the socket open |

`ReplicasFollowGame` therefore speaks of the time up to the first result, and
`ReplicasAgree` (which compares clients with each other) of all time.
`GomokuMatch` leaves rows at the far edge open, and `seen` has patient players:
with a hasty one `late_stone` applies.

### Fairness

`FairSpec` assumes: the network thread always takes its next step (`select()`
has a zero timeout, the loop never sleeps); a socket or a connection that stays
ready is sooner or later reported by `select()` (strong fairness, as TCP
delivers what was sent: each pass may miss it, not every pass); a kick thread
takes its steps unless it blocks; a client that has something to read reads it
(a frame per timer message). Nobody has to click, connect or leave, and the
clock may stop.

`OmokWire`'s `FairSpec` is the same for one connection: the network thread and
the client's frames go on. Nothing is assumed of the other player, of the
clicks or of the timer thread, which may end at any time. What `recv()` takes is
at least a byte if there is one.

## Proofs

`OmokSystemProofs`, for any set of clients, any board and any bounds:

* `TypeCorrect`: `Spec => [](TypeOK /\ LoopInv)`. `LoopInv` bounds `idx` by the
  number of sockets while the thread is at a socket, and says what the parse
  step relies on: that a packet is there.
* `SocketsAndSessions`, `ConnectionsInOnePlace`. These are not inductive as they
  stand: the branch after `send()` that removes a socket and keeps its session
  has to be shown dead. The invariant `SeatInv` adds `RetvalInv` (`retval` is an
  error only where the loop over the sockets is over for this pass: with two
  seats, `i + 1` is past the end as soon as one socket has been removed) and
  `StageInv` (a program whose handshake is still under way is in none of the
  three places, and the places are disjoint). The argument uses `MaxConnectionCount = 2`; the
  variant with three seats breaks it, and so would the code.

`OmokPacketProofs`, for the same: `ServerGoesOn`, `ColourIsFirst`,
`OwnColourOnly`. None is inductive, because what may be on its way depends on
where the connection is. `PacketInv` says so for each client: to one not
accepted yet, or about to be turned away, nothing has been said (`Silent`);
later either its colour is the head of what is on its way and only news are
behind it (`BeingTold`), or it has been told and only news are on their way
(`Informed`), with KICK where a kick thread serves it; what comes from it are
requests of the colour its scene has, none as long as it has no colour, and the
answer to a KICK, which only the kick thread can read (`Speaks`). It rests on
`SeatInv`: the three stages are disjoint because the places are. The turn is
always a player's, or a newcomer could be given no colour at all.

`OmokOrderProofs`: `OneOrder`, that is `SameOrder` for any number of clients.
Under `PacketInv` a player's broadcasts change in three ways only: all players get
the same one more (`OrderGrows`), one takes its oldest (`OrderShrinks`), or a new
player starts with none (`OrderStays`); lemmas on the ends of sequences
(`InStepAppend`, `InStepTail`) do the rest. `ClocksGoForward`, that is
`TimeNeverRunsBack`, which speaks of steps: its invariant `TimeInv` puts the
client's clock, the times in TCP, those in the session's buffer and the server's
clock in this order (`InTime`), so that the packet processed next cannot be older
than the last.

`OmokMatchProofs` has four parts.

* *Results.* `ResultsAreJustified`, that is `GameOverIsJustified` on any
  board. A stone on an empty cell changes rows through it alone (`OmokProofs`:
  `RowShifts`, `RowUntouched`, `OnlyNewRows`), so looking through the last stone
  misses none; that a request is of a player's colour comes from `PacketInv`. It
  also holds where a second stone is played after the win.
* *What a scene will show.* `After(s, q)` is the scene once it has processed
  the queue `q`, a recursive function over the queue. Four lemmas are all that
  is used of it: nothing queued changes nothing, a packet more at the end is
  processed after the rest, taking the first leaves the result as it was, and
  what no packet of the queue can spoil still holds behind it. They, and the
  existence of the function, come by a least counterexample
  (`LeastNumber`), which needs no induction theorem.
* *The players' copies*, for any board and any clicks of players of whom none
  leaves (`Leavers = {}`): `PlayersSeeOneGame`, `PlayersSeeTheGame`, `PlayersDiffer`
  are `ReplicasAgree`, `ReplicasFollowGame`, `SeatsDiffer`. The three follow from
  `ReplicaInv`: `PacketInv`; `NobodyLeft` (a connection of a player, or in the
  backlog, is open, and a newcomer's scene is as `Init` made it); and `Seats`, which
  tells the history of the two seats: nobody is there and black begins; one
  player with black is there and the turn is already white's (so that no
  request of the first player is played before the second is there, which no
  guard of the code says); two are there, their colours differ, and what they
  will show agrees with each other and, until a result is announced, with the
  server. That a client processes a packet, or a packet moves from buffer to
  buffer, changes no `Eventual`. `GameAndPlayers` sorts all steps by what they do to the
  game: nothing, announce the time, sit somebody down, play a stone, end the game.
* *The match.* `ServerPlaysMatches`, for patient players (`Hasty = {}`) who
  stay: `Spec => MovesAreLegal`, the refinement of `GomokuMatch` but for its
  fairness. That a move is legal needs an undecided match, and `Session::process_packet`
  does not look at `is_over`. `MatchInv` therefore adds to `ReplicaInv`: `OneRequest` (a
  player has at most one request on its way or unparsed, and then it will be its
  turn when it has processed what it was sent), `OneBuffer` (a buffer that
  holds something is the one being parsed), and `Ending` (once the game is over
  the thread goes on to `update_over` in this pass, and who is still to be read
  in it has sent nothing, because the winning stone lies unsent in its
  buffer). A step per lemma: `PlayIsMove`, `EndIsNextMatch`, `SittingIsNoMove` (a
  seat taken passes the server's turn and not the match's); `WinAllowed` and
  `WinDemanded` relate `Count` to the rows of `GomokuMatch`.

The hypotheses on `Leavers` and `Hasty` are those under which the properties
hold; `lobby_leave` and `late_stone` show what happens without them.

`OmokProofs` has the rows themselves: `LineOnBoard`, `RowIsInterval` (the row
through a stone is an interval of offsets and `Count` its length, less one at
the far edge), and how rows change with a stone.

`GomokuScanProofs`, for any board size and winning length: `GuardsAreBoard` (on
a board cell, each guard of each of the four copies says
whether the next cell is on the board), and the loop invariant `ScanInv`
(walking back: all cells up to the stone are of its colour; counting: `count` is the distance from the start of the row). From it
`ScanIsRight`, `RowsAreCounted`, `CountingReadsTheBoard`: the definition used in
all other modules is what the code computes, whatever lies in memory before the
board. `ScanTypes` is its type correctness.

`OmokWireProofs`, for any sizes of headers, fields, words, buffers and window,
any sleeps and any number of clicks, stones and sleeps: `WireTypes`,
`StreamSafe`, `FramingSafe`, `BuffersSafe`, `RoomSafe`, `ReadsSafe`, and
`WireDelivers`, the refinement of `PacketQueue`. All follow from `WireInv`.
`StreamIntact` is not inductive: it does not say where the three pieces of a
direction (receive buffer, TCP, send buffer) are cut, that send buffers are
rewound before each `send()` (which starts at byte 0, wherever the read head
is), that the packets of a stream lie one behind the other, that a receive
buffer has been emptied of whole packets before the next `recv()`, nor that
`inner_packet` is empty between two packets. `DirOK` says this of one
direction; a lemma per operation (`DirPut`, `DirReceive`, `DirSend`, `DirFail`,
`DirRewind`, `DirParse`) shows that it is kept, on sequences of any length, and
the lemmas about the actions put the two directions together. `TimesCounted`,
that is `NoTimeTooMany`, adds the clock: `TimesInv` says that the times sent and the
events not yet answered are together exactly what is owed, and that a sleep of
over a second leaves `since` above a second for good; what the client has taken
out is a part of what was sent. `WriteFits` is `Packet::write` by itself.

`OmokProgramProofs`, for any positions of the mouse, any cells in play, any
missing files and any number of presses: `CellsAreDisjoint` (pure arithmetic of
the layout) makes a click one cell's; `PressIsOneAction` needs an invariant that
ties the actions so far to whether the present press has been seen
(`m_keyDown`); `FirstVisitSafe`, one that ties the client object to the visits;
`NoCrashWithFiles`, one that says which images the current scene and each open
error box have; `ObjectsBounded`, one that counts the images alive with the
objects they hold, so that the bound of `GdiBounded` becomes a sum
(`ProgramTypes`, type correctness, comes from the same invariant).

The assumptions are those on the constants: `BoardAssumption`,
`TickAssumption`, `ClientAssumption`, `ClickersAssumption`, `CapacityAssumption`,
`SegmentAssumption`, `SizesAssumption` (the client's word is no longer than the
server's), `PacketsAssumption` (a buffer holds any packet and a byte more),
`WindowAssumption`, `ClockAssumption`, `BoundsAssumption`, `PointsAssumption`,
`PlayedAssumption`.

Every invariant and every action property of the passing runs is stated by a
theorem. Only model-checked: the liveness properties and `ScanEnds`, and the fair half of
`PlaysMatches`, that the next match always comes: liveness under fairness is
beyond the prover. Nor is anything proved of the properties that do not hold.

## Not modelled

* On the wire: the KICK packet, which has its own short connection without
  buffers (`OmokServer` has the threads); resets and closed connections, which
  `OmokNetwork` has; packet types and lengths that no program of this repository
  sends; `read()` and `peek()` of `PacketVector`, copying, moving, peeking and
  rewinding of `Packet`, which nobody calls; the bytes written behind
  `SOCKETINFO::buf` (`OmokServer.cpp:240`), memory nothing reads; the
  stream after a failed `send()` of the client.
* In the client: pixels, colours, alpha, frame and loop rendering and the three
  other `Image::Init` (no caller), the About box, the debug keys.
* `Util.cpp`, the console game with its AI (`OmokAI.cpp` and the console
  `main`), the sample servers, the UDP socket: no part of the game calls them.
* Memory that is allocated and never freed (`Session`s, `OmokScene`s).
* More than one connection in `OmokWire`: the connections share nothing but
  `inner_packet`, which belongs to a session, and the game.

## Plan

1. `Omok`, `OmokNetwork`, `OmokServer`, `OmokClient`, `OmokSystem`: the game over
   the network; type correctness and the seats proved. *Done.*
2. `OmokReplicas`, `GomokuMatch`: the clients' copies, refinement, liveness.
   *Done.*
3. `GomokuScan`: the scan, proved equal to its definition. *Done.*
4. `PacketVector`, `Packet`, `OmokWire`, `PacketQueue`: framing over a byte
   stream cut in any way, the timer thread's arithmetic, full buffers; proved to
   implement the packet queues. *Done.*
5. `Image`, `OmokProgram`: the client as a program, scenes entered, left and
   entered again, images and Windows objects; proved. *Done.*
6. Packets on their way, order of broadcasts, clocks, results, the players'
   copies, the step to `GomokuMatch`: proved. *Done.*
7. Left to model: resets in the middle of a packet (`OmokWire` with
   `OmokNetwork`'s failures), and the stream after a failed `send()`.
