------------------------------ MODULE OmokWire ------------------------------
(***************************************************************************)
(* One connection between a seated player and the server, byte by byte:    *)
(* the send and receive buffers of OmokClient and Session, the TCP stream  *)
(* between them, the cutting of packets out of the stream, and the timer   *)
(* thread that makes the server send something every half second.          *)
(*                                                                         *)
(* A byte is the position it was written at in the stream of its           *)
(* direction (1, 2, ...); Junk is any byte that was never written to that  *)
(* stream.  What a packet says is not modelled, and so whether the game    *)
(* takes a stone or ends with it is a choice (OmokServer has the rules).   *)
(***************************************************************************)
EXTENDS PacketVector, Packet, FiniteSets

CONSTANTS
  HeaderSize, StoneSize, CellSize,  \* sizeof PacketHeader, OmokStatus, int
  ServerWord, ClientWord,           \* sizeof(size_t) in the two programs
  Window,       \* bytes TCP takes on while the receiver does not read
  Second,       \* 1000 ms, in the unit of Naps
  Naps,         \* how long a Sleep(500) may last
  LeftOver,     \* what timer_event may hold before it is written
  MaxRequests, MaxStones, MaxTicks  \* bounds: clicks, stones played, sleeps

ASSUME SizesAssumption ==
  /\ {HeaderSize, StoneSize, CellSize, ServerWord, ClientWord} \subseteq Nat \ {0}
  /\ ClientWord <= ServerWord
ASSUME WindowAssumption == Window \in Nat \ {0}
ASSUME ClockAssumption ==
  /\ Second \in Nat /\ Naps \subseteq Nat \ {0} /\ MaxTicks \in Nat
  /\ LeftOver \subseteq Nat
ASSUME BoundsAssumption == MaxRequests \in Nat /\ MaxStones \in Nat

VARIABLES
  send_buffer, recv_buffer,  \* per direction: the sender's, the receiver's
  pipe,          \* per direction: bytes sent and not yet received
  sent, parsed,  \* history: packets given to pre_send; kinds taken out
  inner_packet,  \* the session's inner_packet
  pc, wset,            \* network thread: place in its pass; select's answer
  over,                \* is_over of the game
  cpc,                 \* client: place in its frame
  failed,              \* history: some send() of the client returned -1
  timer_event,         \* events the network thread has not answered yet
  ticks, since,        \* timer thread: sleeps so far; time_tick - elapsed_time
  overslept,           \* history: a sleep of over a second
  owed                 \* history: the times the client is to be told

bufferVars == <<send_buffer, recv_buffer, pipe, sent, parsed, inner_packet>>
serverVars == <<pc, wset, over>>
clientVars == <<cpc, failed>>
timerVars == <<timer_event, ticks, since, overslept, owed>>
vars == <<bufferVars, serverVars, clientVars, timerVars>>

-----------------------------------------------------------------------------
(* The packets *)

Dirs == {"up", "down"}    \* to the server, to the client

Kinds == {"DROP_STONE_REQUEST", "ASSIGN_STONE", "DROP_STONE_RESPONSE",
          "NOTIFY_SERVER_TIME", "NOTIFY_GAME_RESULT"}

\* What is written behind the header, and as the header.
Written(k) == HeaderSize +
  CASE k = "DROP_STONE_REQUEST"  -> StoneSize + 2 * CellSize
    [] k = "ASSIGN_STONE"        -> StoneSize
    [] k = "DROP_STONE_RESPONSE" -> StoneSize + 2 * CellSize
    [] k = "NOTIFY_SERVER_TIME"  -> ServerWord
    [] k = "NOTIFY_GAME_RESULT"  -> StoneSize + ServerWord

\* Faulty variant: the result's length is the one of makePacketGameResult.
LengthOfHeader(k) == IF k = "NOTIFY_GAME_RESULT" THEN HeaderSize ELSE Written(k)

\* Faulty variant: the request's length counts the header twice.
LengthTwiceHeader(k) ==
  IF k = "DROP_STONE_REQUEST" THEN HeaderSize + Written(k) ELSE Written(k)

\* header.length, as the sender computes it for each kind.
Length(k) == HeaderSize +
  CASE k \in {"DROP_STONE_REQUEST", "DROP_STONE_RESPONSE"} -> StoneSize + CellSize + CellSize
    [] k = "ASSIGN_STONE"       -> StoneSize
    [] k = "NOTIFY_SERVER_TIME" -> ServerWord
    [] k = "NOTIFY_GAME_RESULT" -> ServerWord + StoneSize

\* A buffer holds any packet and one byte more.
ASSUME PacketsAssumption == \A k \in Kinds : Length(k) < CAPACITY

\* What the receiver's process_packet reads of it.
ReadSize(k) == HeaderSize +
  CASE k \in {"DROP_STONE_REQUEST", "DROP_STONE_RESPONSE"} -> StoneSize + 2 * CellSize
    [] k = "ASSIGN_STONE"       -> StoneSize
    [] k = "NOTIFY_SERVER_TIME" -> ClientWord
    [] k = "NOTIFY_GAME_RESULT" -> StoneSize + ClientWord

NextByte(d) ==
  IF sent[d] = <<>> THEN 1
  ELSE LET last == sent[d][Len(sent[d])] IN last.start + Written(last.kind)

\* The bytes of a packet of kind k about to be written to direction d.
Fresh(d, k) == [i \in 1 .. Written(k) |-> NextByte(d) + i - 1]

Foreign(n) == [i \in 1 .. n |-> Junk]

\* The packets whose header lies at the read head of d's receive buffer.
HeadersAt(d) ==
  {n \in DOMAIN sent[d] :
     Peek(recv_buffer[d], HeaderSize) = [i \in 1 .. HeaderSize |-> sent[d][n].start + i - 1]}

StonesPlayed ==
  Cardinality({n \in DOMAIN sent["down"] : sent["down"][n].kind = "DROP_STONE_RESPONSE"})

HeaderInside(d) == HeaderSize <= UseSize(recv_buffer[d])

\* Faulty variant: a packet that ends where the bytes end is left waiting.
IncompleteUntilMore(d) ==
  \/ ~HeaderInside(d)
  \/ \E n \in HeadersAt(d) : UseSize(recv_buffer[d]) <= Length(sent[d][n].kind)

\* Both parse_packet leave their loop: part of a header, or of a packet.
Incomplete(d) ==
  \/ ~HeaderInside(d)
  \/ \E n \in HeadersAt(d) : UseSize(recv_buffer[d]) < Length(sent[d][n].kind)

\* They go through it once more: all of packet n has been received.
Complete(d, n) == n \in HeadersAt(d) /\ ~Incomplete(d)

-----------------------------------------------------------------------------
(* pre_send, on either side: the buffer must have room, or crash(). *)

PreSend(d, k, bytes) ==
  /\ Len(bytes) <= BufferSize(send_buffer[d])
  /\ send_buffer' = [send_buffer EXCEPT ![d] = WriteBytes(@, bytes)]
  /\ sent' = [sent EXCEPT ![d] = Append(@, [kind |-> k, start |-> NextByte(d)])]

NoRoom(d, bytes) ==
  /\ BufferSize(send_buffer[d]) < Len(bytes)
  /\ UNCHANGED <<send_buffer, sent>>

\* Faulty variant: recv() is told the size of the whole buffer.
RecvLimitCapacity(d) == Smaller(CAPACITY, Len(pipe[d]))

RecvLimit(d) == Smaller(BufferSize(recv_buffer[d]), Len(pipe[d]))

\* recv(), on either side: some of what TCP has, as much as has arrived.
Receive(d) ==
  \E n \in 1 .. RecvLimit(d) :
    /\ recv_buffer' = [recv_buffer EXCEPT ![d] = WriteBytes(@, SubSeq(pipe[d], 1, n))]
    /\ pipe' = [pipe EXCEPT ![d] = SubSeq(@, n + 1, Len(@))]

-----------------------------------------------------------------------------
(* The network thread, as far as it serves this connection *)

\* select() with no time limit, and recv() if it found anything to read.
SelectRecv ==
  /\ pc = "select"
  /\ wset' = (UseSize(send_buffer["down"]) > 0 /\ Len(pipe["down"]) < Window)
  /\ \/ Receive("up") /\ pc' = "parse"
     \/ pipe["up"] = <<>> /\ pc' = "send" /\ UNCHANGED <<recv_buffer, pipe>>
  /\ UNCHANGED <<send_buffer, sent, parsed, inner_packet, over, clientVars, timerVars>>

\* Session::parse_packet leaves its loop.
ParseEnds ==
  /\ pc = "parse"
  /\ Incomplete("up")
  /\ recv_buffer' = [recv_buffer EXCEPT !["up"] = Rewind(@)]
  /\ pc' = "send"
  /\ UNCHANGED <<send_buffer, pipe, sent, parsed, inner_packet, wset, over, clientVars, timerVars>>

\* Faulty variant: the answer is written to a packet that still has unread bytes.
RequestUnread(n) ==
  PacketRead(PacketWrite(inner_packet, Foreign(Length(sent["up"][n].kind))), HeaderSize)

\* The request in inner_packet, its fields read.
RequestRead(n) ==
  LET k == sent["up"][n].kind
  IN  PacketRead(PacketWrite(inner_packet, Foreign(Length(k))), ReadSize(k))

\* Session::process_packet: the request is refused, or broadcast as an
\* answer written behind it in the same packet; then the head moves on.
ParseRequest(n) ==
  /\ pc = "parse"
  /\ Complete("up", n)
  /\ \/ /\ UNCHANGED <<send_buffer, sent, over, pc>>
        /\ inner_packet' = PacketReset(RequestRead(n))
     \/ /\ StonesPlayed < MaxStones
        /\ LET answer == PacketWrite(RequestRead(n), Fresh("down", "DROP_STONE_RESPONSE")) IN
           \/ /\ PreSend("down", "DROP_STONE_RESPONSE", PacketContents(answer))
              /\ inner_packet' = PacketReset(answer)
              /\ over' \in {over, TRUE}
              /\ UNCHANGED pc
           \/ /\ NoRoom("down", PacketContents(answer))
              /\ pc' = "crashed"
              /\ UNCHANGED <<inner_packet, over>>
  /\ recv_buffer' = [recv_buffer EXCEPT !["up"] = MoveReadHead(@, Length(sent["up"][n].kind))]
  /\ parsed' = [parsed EXCEPT !["up"] = Append(@, sent["up"][n].kind)]
  /\ UNCHANGED <<pipe, wset, clientVars, timerVars>>

\* A writable blocking socket takes the whole of the buffer.
Send ==
  /\ pc = "send"
  /\ IF wset
     THEN LET v == send_buffer["down"] IN
          /\ pipe' = [pipe EXCEPT !["down"] = @ \o SendBytes(v)]
          /\ send_buffer' = [send_buffer EXCEPT !["down"] = Rewind(MoveReadHead(v, UseSize(v)))]
     ELSE UNCHANGED <<pipe, send_buffer>>
  /\ pc' = "others"
  /\ wset' = FALSE
  /\ UNCHANGED <<recv_buffer, sent, parsed, inner_packet, over, clientVars, timerVars>>

\* The other player's stone is broadcast while that socket is served.  (Coming
\* before this socket in the pass or after it makes no difference here: what
\* is broadcast goes out when select() next finds this socket writable.)
OthersStone ==
  /\ pc = "others"
  /\ StonesPlayed < MaxStones /\ ~failed
  /\ LET bytes == Fresh("down", "DROP_STONE_RESPONSE") IN
     \/ /\ PreSend("down", "DROP_STONE_RESPONSE", bytes)
        /\ over' \in {over, TRUE}
        /\ UNCHANGED pc
     \/ NoRoom("down", bytes) /\ pc' = "crashed" /\ UNCHANGED over
  /\ UNCHANGED <<recv_buffer, pipe, parsed, inner_packet, wset, clientVars, timerVars>>

\* Faulty variant: the time is sent whether an event was raised or not.
UpdateTimerAlways ==
  /\ pc = "others"
  /\ LET bytes == Fresh("down", "NOTIFY_SERVER_TIME") IN
     \/ /\ PreSend("down", "NOTIFY_SERVER_TIME", bytes)
        /\ pc' = "over" /\ timer_event' = timer_event - 1
     \/ NoRoom("down", bytes) /\ pc' = "crashed" /\ UNCHANGED timer_event
  /\ UNCHANGED <<recv_buffer, pipe, parsed, inner_packet, wset, over, clientVars,
                 ticks, since, overslept, owed>>

UpdateTimer ==
  /\ pc = "others"
  /\ \/ /\ timer_event > 0
        /\ LET bytes == Fresh("down", "NOTIFY_SERVER_TIME") IN
           \/ /\ PreSend("down", "NOTIFY_SERVER_TIME", bytes)
              /\ pc' = "over" /\ timer_event' = timer_event - 1
           \/ NoRoom("down", bytes) /\ pc' = "crashed" /\ UNCHANGED timer_event
     \/ /\ timer_event = 0
        /\ pc' = "over"
        /\ UNCHANGED <<send_buffer, sent, timer_event>>
  /\ UNCHANGED <<recv_buffer, pipe, parsed, inner_packet, wset, over, clientVars,
                 ticks, since, overslept, owed>>

UpdateOver ==
  /\ pc = "over"
  /\ \/ /\ over
        /\ LET bytes == Fresh("down", "NOTIFY_GAME_RESULT") IN
           \/ PreSend("down", "NOTIFY_GAME_RESULT", bytes) /\ pc' = "select" /\ over' = FALSE
           \/ NoRoom("down", bytes) /\ pc' = "crashed" /\ UNCHANGED over
     \/ ~over /\ pc' = "select" /\ UNCHANGED <<send_buffer, sent, over>>
  /\ UNCHANGED <<recv_buffer, pipe, parsed, inner_packet, wset, clientVars, timerVars>>

ServerPass == SelectRecv \/ ParseEnds \/ Send \/ UpdateTimer \/ UpdateOver
              \/ \E n \in DOMAIN sent["up"] : ParseRequest(n)

-----------------------------------------------------------------------------
(* timer_thread_func *)

\* The sleep itself.  The client is owed a time for each sleep before the
\* first that takes more than a second.
Sleep(nap) ==
  /\ ticks < MaxTicks /\ ~failed
  /\ ticks' = ticks + 1
  /\ overslept' = (overslept \/ nap > Second)
  /\ owed' = IF overslept' THEN owed ELSE owed + 1
  /\ UNCHANGED <<bufferVars, serverVars, clientVars>>

\* Faulty variant: the time of the last event is not kept.
TimerThreadAdrift(nap) ==
  /\ Sleep(nap)
  /\ timer_event' = IF since + nap <= Second THEN timer_event + 1 ELSE timer_event
  /\ since' = Smaller(since + nap, Second + 1)

\* Faulty variant: the time is taken after every sleep, event or not.
TimerThreadRecovers(nap) ==
  /\ Sleep(nap)
  /\ timer_event' = IF since + nap <= Second THEN timer_event + 1 ELSE timer_event
  /\ since' = 0

\* One sleep.  An event is raised when at most a second has passed since the
\* last; more than a second (capped at Second + 1) stays more for ever.  The
\* thread asks a game that is none whether it is over, and so may end at any
\* time: it takes no further step.
TimerThread(nap) ==
  /\ Sleep(nap)
  /\ \/ /\ since + nap <= Second
        /\ timer_event' = timer_event + 1
        /\ since' = 0
     \/ /\ since + nap > Second
        /\ since' = Second + 1
        /\ UNCHANGED timer_event

-----------------------------------------------------------------------------
(* The client: OmokScene::Update with its clicks, then OmokClient::update.  *)

\* requset_to_drop_stone, if a free cell is clicked in the player's turn.
ClicksInFrame ==
  \/ UNCHANGED <<send_buffer, sent>>
  \/ /\ Len(sent["up"]) < MaxRequests
     /\ PreSend("up", "DROP_STONE_REQUEST", Fresh("up", "DROP_STONE_REQUEST"))

ClickCrashes ==
  /\ cpc = "frame"
  /\ Len(sent["up"]) < MaxRequests
  /\ NoRoom("up", Fresh("up", "DROP_STONE_REQUEST"))
  /\ cpc' = "crashed"
  /\ UNCHANGED <<recv_buffer, pipe, parsed, inner_packet, serverVars, failed, timerVars>>

\* The clicks of a frame and its call of recv().
Frame ==
  /\ cpc = "frame"
  /\ ClicksInFrame
  /\ \/ Receive("down") /\ cpc' = "parse"
     \/ pipe["down"] = <<>> /\ cpc' = "send" /\ UNCHANGED <<recv_buffer, pipe>>
  /\ UNCHANGED <<parsed, inner_packet, serverVars, failed, timerVars>>

\* Faulty variant: what is incomplete is left where it is.
ClientParseNoRewind ==
  /\ cpc = "parse"
  /\ Incomplete("down")
  /\ cpc' = "send"
  /\ UNCHANGED <<bufferVars, serverVars, failed, timerVars>>

ClientParseEnds ==
  /\ cpc = "parse"
  /\ Incomplete("down")
  /\ recv_buffer' = [recv_buffer EXCEPT !["down"] = Rewind(@)]
  /\ cpc' = "send"
  /\ UNCHANGED <<send_buffer, pipe, sent, parsed, inner_packet, serverVars, failed, timerVars>>

\* OmokClient::process_packet, or crash() if it asks for more than was sent.
ClientParsePacket(n) ==
  /\ cpc = "parse"
  /\ Complete("down", n)
  /\ LET k == sent["down"][n].kind
         packet == PacketWrite(NewPacket, Foreign(Length(k)))
     IN  IF PacketHolds(packet, ReadSize(k))
         THEN /\ parsed' = [parsed EXCEPT !["down"] = Append(@, k)]
              /\ recv_buffer' = [recv_buffer EXCEPT !["down"] = MoveReadHead(@, Length(k))]
              /\ UNCHANGED cpc
         ELSE cpc' = "overread" /\ UNCHANGED <<parsed, recv_buffer>>
  /\ UNCHANGED <<send_buffer, pipe, sent, inner_packet, serverVars, failed, timerVars>>

\* send_packet on a non-blocking socket: TCP takes some of the bytes; or
\* none, and send() returns -1, which moves the read head all the same.  The
\* stream is spoiled then, and what becomes of it is not followed.
ClientSend ==
  /\ cpc = "send"
  /\ LET v == send_buffer["up"]
         room == Window - Len(pipe["up"])
         Moved(n) == [send_buffer EXCEPT !["up"] = Rewind(MoveReadHead(v, n))]
     IN  \/ UseSize(v) = 0 /\ cpc' = "frame" /\ UNCHANGED <<pipe, send_buffer, failed>>
         \/ \E n \in 1 .. Smaller(UseSize(v), room) :
              /\ pipe' = [pipe EXCEPT !["up"] = @ \o SubSeq(SendBytes(v), 1, n)]
              /\ send_buffer' = Moved(n)
              /\ cpc' = "frame"
              /\ UNCHANGED failed
         \/ /\ UseSize(v) > 0 /\ room = 0
            /\ send_buffer' = Moved(-1)
            /\ cpc' = "spoiled"
            /\ failed' = TRUE
            /\ UNCHANGED pipe
  /\ UNCHANGED <<recv_buffer, sent, parsed, inner_packet, serverVars, timerVars>>

ClientFrame == Frame \/ ClientParseEnds \/ ClientSend
               \/ \E n \in DOMAIN sent["down"] : ClientParsePacket(n)

-----------------------------------------------------------------------------
\* The connection has just been accepted and given a colour.  The constructor
\* of the server does not initialise timer_event: what the memory held counts
\* as events.
Init ==
  /\ sent = [up |-> <<>>, down |-> <<[kind |-> "ASSIGN_STONE", start |-> 1]>>]
  /\ send_buffer = [up |-> EmptyVector,
                    down |-> WriteBytes(EmptyVector, [i \in 1 .. Written("ASSIGN_STONE") |-> i])]
  /\ recv_buffer = [d \in Dirs |-> EmptyVector]
  /\ pipe = [d \in Dirs |-> <<>>]
  /\ parsed = [d \in Dirs |-> <<>>]
  /\ inner_packet = NewPacket
  /\ pc = "send" /\ wset = FALSE /\ over = FALSE
  /\ cpc = "frame" /\ failed = FALSE
  /\ timer_event \in LeftOver /\ owed = timer_event
  /\ ticks = 0 /\ since = 0 /\ overslept = FALSE

Next ==
  \/ ServerPass \/ OthersStone
  \/ ClientFrame \/ ClickCrashes
  \/ \E nap \in Naps : TimerThread(nap)

Spec == Init /\ [][Next]_vars

FairSpec ==
  /\ Spec
  /\ WF_vars(ServerPass)
  /\ WF_vars(ClientFrame)
-----------------------------------------------------------------------------
(* Properties *)

PCs == {"select", "parse", "send", "others", "over", "crashed"}

ClientPCs == {"frame", "parse", "send", "crashed", "overread", "spoiled"}

Vectors == [bytes : Seq(Nat), read_head : Nat]

\* Type invariant.
WireTypeOK ==
  /\ send_buffer \in [Dirs -> Vectors]
  /\ recv_buffer \in [Dirs -> Vectors]
  /\ pipe \in [Dirs -> Seq(Nat)]
  /\ sent \in [Dirs -> Seq([kind : Kinds, start : Nat \ {0}])]
  /\ parsed \in [Dirs -> Seq(Kinds)]
  /\ inner_packet \in [buffer : Seq(Nat), payload_capacity : Nat, read_head : Nat]
  /\ pc \in PCs /\ cpc \in ClientPCs
  /\ wset \in BOOLEAN /\ over \in BOOLEAN /\ failed \in BOOLEAN /\ overslept \in BOOLEAN
  /\ timer_event \in Nat /\ ticks \in 0 .. MaxTicks /\ since \in 0 .. Second + 1
  /\ owed \in Nat

\* Where packet n of a direction starts, and where the next one will.
StartOf(d, n) == IF n \in DOMAIN sent[d] THEN sent[d][n].start ELSE NextByte(d)

\* Everything written to a direction and not yet taken out of it.
InTransit(d) ==
  Peek(recv_buffer[d], UseSize(recv_buffer[d])) \o pipe[d]
    \o Peek(send_buffer[d], UseSize(send_buffer[d]))

\* However TCP cuts the stream, whatever send() takes of a buffer, and
\* however often the rest is moved to the front: between the packets taken
\* out and those still to come lie all the bytes of the others, once, in
\* order, and nothing else: no byte of the request an answer was written
\* behind.  Only a send() that failed may spoil the client's direction.
\* (PacketVector::rewind, parse_packet, the calls of send and recv,
\* Session::process_packet with its shared inner_packet.)
StreamIntact ==
  \A d \in Dirs : (d = "up" => ~failed) =>
    LET from == StartOf(d, Len(parsed[d]) + 1)
    IN  InTransit(d) = [i \in 1 .. NextByte(d) - from |-> from + i - 1]

\* Neither end ever takes other bytes for a header: the lengths written into
\* the headers are those of the packets. (both parse_packet, the make_packet
\* functions)
FramingKept ==
  /\ pc = "parse" /\ HeaderInside("up") => HeadersAt("up") # {}
  /\ cpc = "parse" /\ HeaderInside("down") => HeadersAt("down") # {}

\* A packet the client takes out holds all that its handler reads, so that
\* Packet::read never ends the program. (OmokClient::process_packet)
ReadsFit == cpc # "overread"

\* recv() is always called with room to receive into: a call with none would
\* return 0, which both programs take for the end of the connection.
RecvHasRoom ==
  /\ pc = "select" => BufferSize(recv_buffer["up"]) > 0
  /\ cpc = "frame" => BufferSize(recv_buffer["down"]) > 0

VectorHolds(v) == v.read_head <= Len(v.bytes) /\ Len(v.bytes) <= CAPACITY

\* No byte is written behind the end of a buffer and no head leaves what was
\* written: PacketVector checks write() only, recv() goes past the check, and
\* no head is checked at all. (After a send() that failed, the client's send
\* buffer holds one byte more than was written to it.)
BuffersHold ==
  /\ \A d \in Dirs : VectorHolds(recv_buffer[d])
  /\ \A d \in Dirs : VectorHolds(send_buffer[d]) \/ (d = "up" /\ failed)

\* The buffers, the stream and the parsing together are what the modules
\* that compose server and clients take them for: queues of whole packets.
KindsOf(s) == [n \in DOMAIN s |-> s[n].kind]
Queue == INSTANCE PacketQueue WITH put <- [d \in Dirs |-> KindsOf(sent[d])], got <- parsed
DeliversPackets == Queue!Spec

\* Somebody has stopped talking, or a byte too many was sent.
Broken == pc = "crashed" \/ cpc \in {"crashed", "overread", "spoiled"}

\* As long as both programs live and no send() has failed, every packet that
\* was given to pre_send is taken out at the other end. (Packets come out in
\* order, and the bounds stop the sending, so it is enough that each end
\* catches up; both loops run for ever.)
EveryPacketArrives == \A d \in Dirs : []<>(Len(parsed[d]) = Len(sent[d]) \/ Broken)

\* The times the client has been told.
TimesTold ==
  Cardinality({n \in DOMAIN parsed["down"] : parsed["down"][n] = "NOTIFY_SERVER_TIME"})

\* The time is told at most once for each event timer_event happened to start
\* with and for each sleep of the timer thread before the first of more than a
\* second: after that one no sleep, short or long, leads to another.
\* (timer_thread_func, update, process_packet)
NoTimeTooMany == TimesTold <= owed

\* And each of these does reach the client: the network thread, which takes
\* one event in a pass while the timer thread adds to them, loses none.
ClockKeepsGoing == []<>(TimesTold = owed \/ Broken)
=============================================================================
