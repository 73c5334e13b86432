---------------------------- MODULE MCTcpServer ----------------------------
(***************************************************************************)
(* Small instances of TcpServer for TLC: what the clients send.            *)
(***************************************************************************)
EXTENDS TcpServer

CONSTANTS c1, c2, c3

(* c1's two requests can arrive in recvs that split the first or the second;  *)
(* together they are longer than a frame may be, and one unit of the first    *)
(* with a full recv of the rest is as long as a frame may be.  c2's one       *)
(* request is longer than that.                                               *)
Sessions == (c1 :> <<2, 2>>) @@ (c2 :> <<4>>)

(* More clients than descriptors; only the last of them sends a request.      *)
Visitors == (c1 :> <<>>) @@ (c2 :> <<>>) @@ (c3 :> <<1>>)

(* Requests that arrive whole, two of them from one client.                   *)
Pipelined == (c1 :> <<1, 1>>) @@ (c2 :> <<1>>)

(* One client sends requests, the other only listens. *)
Listener == (c1 :> <<1, 1>>) @@ (c2 :> <<>>)

(* A request as long as a frame may be, with a short one right behind it.     *)
LongThenShort == (c1 :> <<3, 1>>) @@ (c2 :> <<1>>)
=============================================================================
