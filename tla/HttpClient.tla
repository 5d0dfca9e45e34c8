----------------------------- MODULE HttpClient -----------------------------
(***************************************************************************)
(* client.cpp with helpers.cpp: commands, each over a connection of its    *)
(* own, the answer put together from reads, and the cookie and the token   *)
(* that answers leave. The server is external: it opens a session at a     *)
(* login, grants a token to it and closes it at a logout, or refuses, and  *)
(* may drop the connection at any point. A command with a wrong parameter  *)
(* sends nothing and is left out.                                          *)
(***************************************************************************)
EXTENDS Integers

CONSTANTS
    Header, Body,   \* sizes of the parts of an answer, in the units of reads
    MaxLogins       \* bound on the sessions

ASSUME SizeAssumption == Header \in Nat \ {0} /\ Body \in Nat /\ MaxLogins \in Nat

None == 0   \* an empty cookie or token; others are the number of a session

VARIABLES
    phase,          \* "prompt", "header", "body", "done", "ended"
    command,
    current_cookie, current_token,
    size, total,    \* of buffer; and what receive_from_server waits for
    answer,         \* what the server answers
    sent, closed,   \* how much of it arrived, and whether the server closed
    open, logins    \* the sessions it has, and how many it ever had

client == <<phase, command, current_cookie, current_token, size, total>>
server == <<answer, sent, closed, open, logins>>
vars == <<client, server>>

Commands == {"register", "login", "enter_library", "get_books", "get_book",
             "add_book", "delete_book", "logout"}

\* body is "ok", json with an "error", other json (books, or a token), or text
\* that is not json; length: whether Content-Length is in the header.
Answer(body, cookie, length) == [body |-> body, cookie |-> cookie, length |-> length]

Init ==
    /\ phase = "prompt" /\ command = "exit"
    /\ current_cookie = None /\ current_token = None
    /\ size = 0 /\ total = 0
    /\ answer = Answer("ok", None, TRUE) /\ sent = 0 /\ closed = TRUE
    /\ open = {} /\ logins = 0

-----------------------------------------------------------------------------
(* The server.                                                             *)

\* What a request carries: get and delete requests a cookie or a token, post
\* requests a token or nothing.
Credential(cmd) ==
    CASE cmd \in {"enter_library", "logout"} -> current_cookie
      [] cmd \in {"register", "login"} -> None
      [] OTHER -> current_token

Asks == {"enter_library", "get_books", "get_book"}

\* What a request does there and is answered, if it is not refused.
Serves(cmd) ==
    /\ cmd \in {"register", "login"} \/ Credential(cmd) \in open
    /\ cmd = "login" => logins < MaxLogins
    /\ logins' = IF cmd = "login" THEN logins + 1 ELSE logins
    /\ open' = CASE cmd = "login" -> open \cup {logins'}
                 [] cmd = "logout" -> open \ {current_cookie}
                 [] OTHER -> open
    /\ answer'.body = IF cmd \in Asks THEN "json" ELSE "ok"
    /\ answer'.cookie = IF cmd = "login" THEN logins' ELSE None

Refuses ==
    /\ answer'.body \in {"error", "text"} /\ answer'.cookie = None
    /\ UNCHANGED <<open, logins>>

Send ==
    /\ ~closed /\ sent < Header + Body
    /\ sent' = sent + 1
    /\ UNCHANGED <<client, answer, closed, open, logins>>

Close ==
    /\ ~closed /\ closed' = TRUE
    /\ UNCHANGED <<client, answer, sent, open, logins>>

-----------------------------------------------------------------------------
(* The client.                                                             *)

\* main with a command that sends: connect, request, and wait.
Request(cmd) ==
    /\ phase = "prompt"
    /\ phase' = "header" /\ command' = cmd /\ size' = 0 /\ total' = 0
    /\ \E body \in {"ok", "json", "error", "text"}, cookie \in 0 .. MaxLogins,
          length \in BOOLEAN : answer' = Answer(body, cookie, length)
    /\ Serves(cmd) \/ Refuses
    /\ sent' = 0 /\ closed' = FALSE
    /\ UNCHANGED <<current_cookie, current_token>>

\* "exit"; or error(), when the socket fails.
End ==
    /\ phase \in {"prompt", "header", "body"}
    /\ phase' = "ended" /\ closed' = TRUE
    /\ UNCHANGED <<command, current_cookie, current_token, size, total>>
    /\ UNCHANGED <<answer, sent, open, logins>>

\* Slips receive_from_server could have: it forgets the size of the header, or
\* counts the end of it twice.
BadTotal(length) == IF length THEN Body ELSE Header
WorseTotal(length) == IF length THEN Header + Body + 1 ELSE Header + 1
\* What is waited for when the header is there: strtol of Content-Length, or 0
\* if the connection ended without one.
Total(length) == IF length THEN Header + Body ELSE Header

\* One read of the first loop. A header without Content-Length is read on,
\* until the end of the connection; without an end of the header the size
\* that is waited for is that of -1 in a size_t, more than there can be.
ReadHeader ==
    /\ phase = "header"
    /\ \/ /\ size < sent
          /\ \E n \in size + 1 .. sent :
                /\ size' = n
                /\ IF n >= Header /\ answer.length
                   THEN phase' = "body" /\ total' = Total(TRUE)
                   ELSE UNCHANGED <<phase, total>>
       \/ /\ size = sent /\ closed
          /\ phase' = "body" /\ UNCHANGED size
          /\ total' = IF size >= Header THEN Total(FALSE) ELSE Header + Body + 1
    /\ UNCHANGED <<command, current_cookie, current_token, server>>

\* And of the second loop.
ReadBody ==
    /\ phase = "body"
    /\ \/ size >= total /\ phase' = "done" /\ UNCHANGED size
       \/ /\ size < total /\ size < sent
          /\ size' \in size + 1 .. sent /\ UNCHANGED phase
       \/ /\ size < total /\ size = sent /\ closed
          /\ phase' = "done" /\ UNCHANGED size
    /\ UNCHANGED <<command, current_cookie, current_token, total, server>>

\* get_result, of an answer that is whole; of another, nlohmann::json::parse
\* fails, and so it does of text.
Result == IF size = Header + Body THEN answer.body ELSE "text"

\* A slip logout_user could have: the token is kept.
BadLeft(token) == token
Left(token) == None

\* The end of the function of the command. An exception ends the client.
Finish ==
    LET took == Result = IF command \in Asks THEN "json" ELSE "ok"
    IN  /\ phase = "done"
        /\ phase' = IF took \/ Result \in {"json", "error"} THEN "prompt" ELSE "ended"
        /\ current_cookie' = IF ~took THEN current_cookie
                             ELSE CASE command = "login" -> answer.cookie
                                    [] command = "logout" -> None
                                    [] OTHER -> current_cookie
        /\ current_token' = IF ~took THEN current_token
                            ELSE CASE command = "enter_library" -> current_cookie
                                   [] command = "logout" -> Left(current_token)
                                   [] OTHER -> current_token
        /\ closed' = TRUE
        /\ UNCHANGED <<command, size, total, answer, sent, open, logins>>

Read == ReadHeader \/ ReadBody \/ Finish

Next == Send \/ Close \/ End \/ Read \/ \E cmd \in Commands : Request(cmd)

Spec == Init /\ [][Next]_vars
\* The client reads on; the server sends what it answers, unless it closes.
FairSpec == Spec /\ WF_vars(Read) /\ WF_vars(Send)

-----------------------------------------------------------------------------
TypeOK ==
    /\ phase \in {"prompt", "header", "body", "done", "ended"}
    /\ command \in Commands \cup {"exit"}
    /\ current_cookie \in 0 .. MaxLogins /\ current_token \in 0 .. MaxLogins
    /\ sent \in 0 .. Header + Body /\ size \in 0 .. sent
    /\ total \in 0 .. Header + Body + 1
    /\ answer \in [body : {"ok", "json", "error", "text"}, cookie : 0 .. MaxLogins,
                   length : BOOLEAN]
    /\ closed \in BOOLEAN /\ logins \in 0 .. MaxLogins /\ open \subseteq 1 .. logins

\* However an answer is cut into reads, and whether it tells its length or not,
\* receive_from_server returns all of it, or what came before the end of the
\* connection: it neither stops in the middle nor leaves a part unread.
Whole == phase = "done" => size = sent /\ (closed \/ size = Header + Body)

\* At the prompt the cookie and the token are empty or of sessions that the
\* server still has, and no token is without a cookie, though answers get lost
\* and a second login takes the cookie and leaves the token as it was.
InStep ==
    phase = "prompt" =>
        /\ {current_cookie, current_token} \subseteq open \cup {None}
        /\ current_cookie = None => current_token = None

\* Every command comes back, or the client ends, but while the server keeps a
\* connection open on which it answered without Content-Length.
Completion ==
    (phase = "header") ~> \/ phase \in {"prompt", "ended"}
                          \/ ~answer.length /\ ~closed /\ size = Header + Body
=============================================================================
