------------------------------ MODULE Requests ------------------------------
(***************************************************************************)
(* The text protocol: what parseRequest accepts and which branch of        *)
(* DeviceManager::execute (and of processRequestLine behind it) a line     *)
(* leads to.  A line is the sequence of its words: operator>> splits at    *)
(* any white space, so that a carriage return, or two blanks, make no      *)
(* difference.                                                             *)
(***************************************************************************)
EXTENDS Integers, Sequences

(* Variant: the prefix is not compared. *)
parseAnyPrefix(line) == Len(line) >= 3

(* Three words at least, the first of them REQ. *)
parseRequest(line) == Len(line) >= 3 /\ line[1] = "REQ"

ParsedRequest(line) ==
  [id |-> line[2], command |-> line[3], args |-> SubSeq(line, 4, Len(line))]

(* A line that cannot be parsed is answered under the id 0. *)
ReplyId(line) == IF parseRequest(line) THEN ParsedRequest(line).id ELSE "0"

(* The branch execute takes.  LED looks at its second argument and at nothing *)
(* else: with one it looks past the end of the vector ("overrun"), with none  *)
(* into a vector that has no memory ("crash").                                *)
Branch(line) ==
  IF ~parseRequest(line) THEN "bad_request"
  ELSE LET request == ParsedRequest(line)
           get == request.args = <<"GET">>
       IN  CASE request.command = "LED" ->
                  IF Len(request.args) = 0 THEN "crash"
                  ELSE IF Len(request.args) = 1 THEN "overrun"
                  ELSE IF request.args[2] \in {"ON", "OFF"} THEN "led" ELSE "bad_request"
             [] request.command = "STATUS" /\ get -> "status"
             [] request.command = "KEY" -> IF get THEN "key" ELSE "bad_request"
             [] request.command = "CLIENTS" /\ get -> "clients"
             [] request.command = "PING" /\ request.args = <<>> -> "pong"
             [] OTHER -> "unknown_command"

-----------------------------------------------------------------------------
(* The requests the README lists, under any id, and the body of their answers. *)
DocumentedWords ==
  {<<"PING">>, <<"STATUS", "GET">>, <<"LED", "SET", "ON">>, <<"LED", "SET", "OFF">>,
   <<"KEY", "GET">>, <<"CLIENTS", "GET">>}

IsDocumented(line) ==
  Len(line) > 2 /\ line[1] = "REQ" /\ SubSeq(line, 3, Len(line)) \in DocumentedWords

DocumentedBody(line) ==
  CASE line[3] \in {"LED", "STATUS"} -> "led"
    [] line[3] = "KEY" -> "key"
    [] line[3] = "CLIENTS" -> "clients"
    [] line[3] = "PING" -> "pong"

(* Each of them under one id ...                                              *)
Documented == {<<"REQ", "7">> \o words : words \in DocumentedWords}

(* ... and every line that misses one of them by a word: cut short, one word  *)
(* too many, or one word, other than the id, that is another.                 *)
Deviations ==
  UNION {{SubSeq(line, 1, n) : n \in 0 .. Len(line) - 1}
           \cup {Append(line, "X")}
           \cup {[line EXCEPT ![i] = "X"] : i \in (1 .. Len(line)) \ {2}} : line \in Documented}

SampleLines == Documented \cup Deviations
=============================================================================
