----------------------------- MODULE OmokNetwork -----------------------------
(***************************************************************************)
(* What the TCP sockets of Common/protocol.h carry, as the server and the  *)
(* client use them: one listening socket, and for each client program a    *)
(* connection with a byte stream in each direction.  A packet is a record; *)
(* its header {length, type} is the record's type.  How packets are cut    *)
(* out of a byte stream is not a matter of this module: a packet that has  *)
(* only partly arrived is one that is still in the channel.                *)
(*                                                                         *)
(* A client program connects at most once; a player who starts the program *)
(* again is another member of Clients.                                     *)
(***************************************************************************)
EXTENDS Omok, Sequences

CONSTANT Clients    \* the client programs that may ever connect

VARIABLES
  link,      \* link[c]: state of c's TCP connection
  backlog,   \* connections the kernel has completed, not yet accepted
  up,        \* up[c]: packets sent by c, not yet read by the server
  down       \* down[c]: packets sent to c, not yet read by the client

netVars == <<link, backlog, up, down>>

-----------------------------------------------------------------------------
(* The packets of protocol.h *)

AssignStone(s)        == [type |-> "SC_ASSIGN_STONE", stone |-> s]
NotifyKick            == [type |-> "SC_NOTIFY_KICK"]
KickAnswer            == [type |-> "CS_NOTIFY_KICK"]
ServerTime(t)         == [type |-> "SC_NOTIFY_SERVER_TIME", tick |-> t]
DropRequest(s, p)     == [type |-> "CS_DROP_STONE_REQUEST", stone |-> s, at |-> p]
DropResponse(s, p)    == [type |-> "SC_DROP_STONE_RESPONSE", stone |-> s, at |-> p]
\* Faulty variant of GameResult: the time is not filled in.
GameResultNoTime(w, t) == [type |-> "SC_NOTIFY_GAME_RESULT", winner |-> w, tick |-> 0]

GameResult(w, t)      == [type |-> "SC_NOTIFY_GAME_RESULT", winner |-> w, tick |-> t]

ClientPackets == [type : {"CS_DROP_STONE_REQUEST"}, stone : Stones, at : Cells]
                 \cup [type : {"CS_NOTIFY_KICK"}]

ServerPackets == [type : {"SC_ASSIGN_STONE"}, stone : Stones]
                 \cup [type : {"SC_NOTIFY_KICK"}]
                 \cup [type : {"SC_NOTIFY_SERVER_TIME"}, tick : Nat]
                 \cup [type : {"SC_DROP_STONE_RESPONSE"}, stone : Stones, at : Cells]
                 \cup [type : {"SC_NOTIFY_GAME_RESULT"}, winner : Stones, tick : Nat]

-----------------------------------------------------------------------------
(* Connections *)

\* "off"    never connected
\* "open"   both ends hold the connection
\* "shut"   the client's end is closed (reset), the server's is not
\* "closed" the server's end is closed
LinkStates == {"off", "open", "shut", "closed"}

NetTypeOK ==
  /\ link \in [Clients -> LinkStates]
  /\ backlog \in Seq(Clients)
  /\ up \in [Clients -> Seq(ClientPackets)]
  /\ down \in [Clients -> Seq(ServerPackets)]

NetInit ==
  /\ link = [c \in Clients |-> "off"]
  /\ backlog = <<>>
  /\ up = [c \in Clients |-> <<>>]
  /\ down = [c \in Clients |-> <<>>]

\* select() can report c's socket readable: there is data, or a reset.
Readable(c) == up[c] # <<>> \/ link[c] = "shut"

=============================================================================
