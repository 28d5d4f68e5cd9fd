------------------------------ MODULE WebSocket ------------------------------
(***************************************************************************)
(* The server's end of a WebSocket: the writer of                          *)
(* internal/server/ws_adapter.go (wsWriter) and what gorilla/websocket,    *)
(* as the handlers use it, does below it.                                  *)
(*                                                                         *)
(* Time is counted in ticks of each socket; IdleBound ticks are the read   *)
(* deadline that every handler sets when it reads a message.  gorilla's    *)
(* ReadMessage returns data messages only: it answers pings and swallows   *)
(* pongs itself: control frames do not move the deadline, nor anything     *)
(* else here, and have no action.                                          *)
(***************************************************************************)
EXTENDS Naturals, Sequences

CONSTANTS Peer,       \* clients, one socket each
          IdleBound,  \* ticks of the read deadline
          MaxIn,      \* messages that a client sends
          Nothing     \* data of length zero

ASSUME WebSocketAssumption == IdleBound \in Nat \ {0} /\ MaxIn \in Nat

VARIABLE sock

(* up: "none" before the upgrade, then "open" until the client leaves      *)
(* ("gone"), the server closes it ("aborted") or the handler returns and   *)
(* leaves it open with nobody to read it ("unread"); out, inbox: frames    *)
(* written and messages not yet read; sent: messages sent so far; armed:   *)
(* a deadline is set; idle: ticks since then.                              *)
NoSocket == [up |-> "none", out |-> <<>>, inbox |-> <<>>, sent |-> 0,
             closing |-> FALSE, armed |-> FALSE, idle |-> 0]

SocketInit == sock = [p \in Peer |-> NoSocket]

(* writeFrame drops empty data; gorilla refuses frames once a close frame  *)
(* was written or the connection closed, and the writer drops the error.   *)
Written(w, kind, data) ==
  IF data = Nothing \/ w.up \in {"none", "aborted"} \/ w.closing
  THEN w ELSE [w EXCEPT !.out = Append(@, [kind |-> kind, data |-> data])]

(* writeClose and abort. *)
WithClose(w) ==
  IF w.up \in {"none", "aborted"} THEN w ELSE [w EXCEPT !.closing = TRUE]
Aborted(w)   == [w EXCEPT !.up = IF @ = "none" THEN @ ELSE "aborted"]

Opened(w) == [w EXCEPT !.up = "open"]
Armed(w)  == [w EXCEPT !.armed = TRUE, !.idle = 0]

(* A handler that returns does not close its connection. *)
Unread(w) == [w EXCEPT !.up = IF @ = "open" THEN "unread" ELSE @]

(* ReadMessage returns the next data message, or fails: at once on a       *)
(* socket the server closed, else when nothing is left to read and the     *)
(* client is gone or the deadline passed.                                  *)
CanRead(p)   == sock[p].up \in {"open", "gone"} /\ sock[p].inbox # <<>>
ReadFails(p) ==
  \/ sock[p].up = "aborted"
  \/ sock[p].inbox = <<>> /\ (sock[p].up = "gone" \/ sock[p].idle >= IdleBound)

(* The handler resets the deadline after each message that it read. *)
AfterRead(w) == Armed([w EXCEPT !.inbox = Tail(@)])

-----------------------------------------------------------------------------
(* What clients and time do to a socket. *)

PeerSends(p) ==
  /\ sock[p].up = "open"
  /\ sock[p].sent < MaxIn
  /\ sock' = [sock EXCEPT ![p].inbox = Append(@, sock[p].sent + 1),
                          ![p].sent = @ + 1]

(* The client closes the socket, answers a close frame or is lost. *)
PeerLeaves(p) ==
  /\ sock[p].up = "open"
  /\ sock' = [sock EXCEPT ![p].up = "gone"]

Tick(p) ==
  /\ sock[p].up \in {"open", "gone"} /\ sock[p].armed
  /\ sock[p].idle < IdleBound
  /\ sock' = [sock EXCEPT ![p].idle = @ + 1]

Environment == \E p \in Peer : PeerSends(p) \/ PeerLeaves(p) \/ Tick(p)
=============================================================================
