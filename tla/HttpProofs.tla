---------------------------- MODULE HttpProofs ----------------------------
(***************************************************************************)
(* Theorems about HttpClient.tla, for any sizes of answers, any number of  *)
(* sessions and any behaviour of the server that the model admits.         *)
(***************************************************************************)
EXTENDS HttpClient, TLAPS

\* What is waited for in the second loop is all of the answer, or everything
\* that came before the connection ended was read.
Waiting == phase = "body" => total = Header + Body \/ (closed /\ size = sent)

\* What InStep says at the prompt.
Credentials ==
    /\ {current_cookie, current_token} \subseteq open \cup {None}
    /\ current_cookie = None => current_token = None

\* While an answer is on its way: the request was refused, or served without
\* harm to what the client has, or it was a logout, which empties both.
Expected ==
    phase \in {"header", "body", "done"} =>
        \/ answer.body \in {"error", "text"} /\ Credentials
        \/ /\ command = "logout" /\ answer.body = "ok"
        \/ /\ command # "logout" /\ Credentials
           /\ answer.body = IF command \in Asks THEN "json" ELSE "ok"
           /\ command = "login" => answer.cookie \in open
           /\ command = "enter_library" => current_cookie \in open

IInv == TypeOK /\ Waiting /\ Whole /\ InStep /\ Expected

LEMMA InitInv == Init => IInv
  BY SizeAssumption DEF Init, IInv, TypeOK, Waiting, Whole, InStep, Expected, Answer,
     None, Commands

\* Requests, Send, Close and the reads, each with what it can disturb.
LEMMA RequestStep ==
    ASSUME IInv, NEW cmd \in Commands, Request(cmd)
    PROVE  IInv'
  <1>1. PICK b \in {"ok", "json", "error", "text"}, k \in 0 .. MaxLogins, l \in BOOLEAN :
           answer' = Answer(b, k, l)
    BY DEF Request
  <1>2. /\ phase' = "header" /\ command' = cmd /\ size' = 0 /\ total' = 0
        /\ sent' = 0 /\ closed' = FALSE
        /\ UNCHANGED <<current_cookie, current_token>>
    BY DEF Request
  <1>3. Serves(cmd) \/ Refuses
    BY DEF Request
  <1>4. logins' \in 0 .. MaxLogins /\ open' \subseteq 1 .. logins'
    <2>1. CASE Refuses
      BY <2>1 DEF Refuses, IInv, TypeOK
    <2>2. CASE Serves(cmd)
      <3>1. cmd = "login" => logins < MaxLogins
        BY <2>2 DEF Serves
      <3>2. logins' = (IF cmd = "login" THEN logins + 1 ELSE logins)
        BY <2>2 DEF Serves
      <3>3. open' \subseteq open \cup {logins'}  /\ (cmd # "login" => open' \subseteq open)
        BY <2>2 DEF Serves
      <3> QED BY <3>1, <3>2, <3>3, SizeAssumption DEF IInv, TypeOK
    <2> QED BY <1>3, <2>1, <2>2
  <1>5. TypeOK'
    <2>1. answer' \in [body : {"ok", "json", "error", "text"}, cookie : 0 .. MaxLogins,
                        length : BOOLEAN]
      BY <1>1 DEF Answer
    <2>2. 0 \in 0 .. Header + Body /\ 0 \in 0 .. Header + Body + 1 /\ 0 \in 0 .. 0
      BY SizeAssumption
    <2>3. /\ command' \in Commands
          /\ current_cookie' \in 0 .. MaxLogins /\ current_token' \in 0 .. MaxLogins
      BY <1>2 DEF IInv, TypeOK
    <2> QED BY <1>2, <1>4, <2>1, <2>2, <2>3 DEF TypeOK
  <1>6. Waiting' /\ Whole' /\ InStep'
    BY <1>2 DEF Waiting, Whole, InStep
  <1>7. Credentials
    BY DEF IInv, InStep, Credentials, Request
  <1>8. Expected'
    <2>1. CASE Refuses
      BY <1>2, <1>7, <2>1 DEF Refuses, Expected, Credentials
    <2>2. CASE Serves(cmd) /\ cmd = "logout"
      BY <1>2, <2>2 DEF Serves, Expected, Asks
    <2>3. CASE Serves(cmd) /\ cmd # "logout"
      <3>1. open \subseteq open'
        BY <2>3 DEF Serves
      <3>2. Credentials'
        BY <1>2, <1>7, <3>1 DEF Credentials
      <3>3. answer'.body = (IF cmd \in Asks THEN "json" ELSE "ok")
        BY <2>3 DEF Serves
      <3>4. cmd = "login" => answer'.cookie \in open'
        BY <2>3 DEF Serves
      <3>5. cmd = "enter_library" => current_cookie \in open'
        BY <2>3, <3>1 DEF Serves, Credential
      <3> QED BY <1>2, <2>3, <3>2, <3>3, <3>4, <3>5 DEF Expected
    <2> QED BY <1>3, <2>1, <2>2, <2>3
  <1> QED BY <1>5, <1>6, <1>8 DEF IInv

\* While the server sends, the client has not read everything that it waits for.
LEMMA SendStep ==
    ASSUME IInv, Send
    PROVE  IInv'
  <1>1. ~closed /\ sent < Header + Body /\ sent' = sent + 1
    BY DEF Send
  <1>2. UNCHANGED <<client, answer, closed, open, logins>>
    BY DEF Send
  <1>3. TypeOK'
    BY <1>1, <1>2, SizeAssumption DEF IInv, TypeOK, client
  <1>4. Waiting' /\ Whole'
    BY <1>1, <1>2, SizeAssumption DEF IInv, TypeOK, Waiting, Whole, client
  <1>5. InStep' /\ Expected'
    BY <1>2 DEF IInv, InStep, Expected, Credentials, client
  <1> QED BY <1>3, <1>4, <1>5 DEF IInv

LEMMA CloseStep ==
    ASSUME IInv, Close \/ End
    PROVE  IInv'
  <1>1. closed' = TRUE /\ UNCHANGED <<size, total, sent, answer, open, logins>>
    BY DEF Close, End, client
  <1>2. UNCHANGED <<command, current_cookie, current_token>>
    BY DEF Close, End, client
  <1>3. phase' = phase \/ phase' = "ended"
    BY DEF Close, End, client
  <1> QED BY <1>1, <1>2, <1>3
      DEF IInv, TypeOK, Waiting, Whole, InStep, Expected, Credentials

LEMMA ReadHeaderStep ==
    ASSUME IInv, ReadHeader
    PROVE  IInv'
  <1>1. phase = "header" /\ UNCHANGED <<command, current_cookie, current_token, server>>
    BY DEF ReadHeader
  <1>2. \/ /\ phase' = "header" /\ total' = total /\ size' \in size + 1 .. sent
        \/ /\ phase' = "body" /\ total' = Header + Body /\ size' \in size + 1 .. sent
        \/ /\ phase' = "body" /\ size' = size /\ size = sent /\ closed
           /\ total' \in {Header, Header + Body + 1}
    BY DEF ReadHeader, Total
  <1>3. TypeOK'
    BY <1>1, <1>2, SizeAssumption DEF IInv, TypeOK, server
  <1>4. Waiting' /\ Whole' /\ InStep'
    BY <1>1, <1>2 DEF Waiting, Whole, InStep, server
  <1>5. Expected'
    BY <1>1, <1>2 DEF IInv, Expected, Credentials, server
  <1> QED BY <1>3, <1>4, <1>5 DEF IInv

\* The loop ends with all of an answer, or with all that came of it.
LEMMA ReadBodyStep ==
    ASSUME IInv, ReadBody
    PROVE  IInv'
  <1>1. phase = "body" /\ UNCHANGED <<command, current_cookie, current_token, total, server>>
    BY DEF ReadBody
  <1>2. \/ /\ phase' = "done" /\ size' = size /\ size >= total
        \/ /\ phase' = "body" /\ size' \in size + 1 .. sent /\ size < sent
        \/ /\ phase' = "done" /\ size' = size /\ size = sent /\ closed
    BY DEF ReadBody
  <1>3. TypeOK'
    BY <1>1, <1>2, SizeAssumption DEF IInv, TypeOK, server
  <1>4. Waiting' /\ Whole'
    BY <1>1, <1>2, SizeAssumption DEF IInv, TypeOK, Waiting, Whole, server
  <1>5. InStep' /\ Expected'
    BY <1>1, <1>2 DEF IInv, InStep, Expected, Credentials, server
  <1> QED BY <1>3, <1>4, <1>5 DEF IInv

\* The answer's effect on cookie and token.
LEMMA FinishStep ==
    ASSUME IInv, Finish
    PROVE  IInv'
  <1> DEFINE took == Result = IF command \in Asks THEN "json" ELSE "ok"
  <1>1. /\ phase = "done" /\ closed' = TRUE
        /\ UNCHANGED <<command, size, total, answer, sent, open, logins>>
    BY DEF Finish
  <1>2. phase' = IF took \/ Result \in {"json", "error"} THEN "prompt" ELSE "ended"
    BY DEF Finish
  <1>3. /\ current_cookie' = IF ~took THEN current_cookie
                             ELSE CASE command = "login" -> answer.cookie
                                    [] command = "logout" -> None
                                    [] OTHER -> current_cookie
        /\ current_token' = IF ~took THEN current_token
                            ELSE CASE command = "enter_library" -> current_cookie
                                   [] command = "logout" -> None
                                   [] OTHER -> current_token
    BY DEF Finish, Left
  <1>4. TypeOK'
    <2>1. current_cookie' \in 0 .. MaxLogins /\ current_token' \in 0 .. MaxLogins
      BY <1>3, SizeAssumption DEF IInv, TypeOK, None
    <2> QED BY <1>1, <1>2, <2>1 DEF IInv, TypeOK
  <1>5. Waiting' /\ Whole' /\ Expected'
    BY <1>2 DEF Waiting, Whole, Expected
  <1>6. Result = answer.body \/ Result = "text"
    BY DEF Result
  <1>7. InStep'
    <2> SUFFICES ASSUME phase' = "prompt" PROVE Credentials'
      BY DEF InStep, Credentials
    <2>1. Result = answer.body /\ (took \/ answer.body \in {"json", "error"})
      BY <1>2, <1>6
    <2>2. CASE answer.body \in {"error", "text"} /\ Credentials
      BY <1>1, <1>3, <2>1, <2>2 DEF Credentials
    <2>3. CASE command = "logout" /\ answer.body = "ok"
      <3>1. took
        BY <2>1, <2>3 DEF Asks
      <3>2. current_cookie' = None /\ current_token' = None
        BY <1>3, <2>3, <3>1
      <3> QED BY <3>2 DEF Credentials
    <2>4. CASE /\ command # "logout" /\ Credentials
               /\ answer.body = IF command \in Asks THEN "json" ELSE "ok"
               /\ command = "login" => answer.cookie \in open
               /\ command = "enter_library" => current_cookie \in open
      <3>1. took
        BY <2>1, <2>4
      <3>2. CASE command = "login"
        <4>1. current_cookie' = answer.cookie /\ current_token' = current_token
          BY <1>3, <3>1, <3>2
        <4>2. answer.cookie \in open /\ answer.cookie # None
          BY <2>4, <3>2 DEF IInv, TypeOK, None
        <4> QED BY <1>1, <2>4, <4>1, <4>2 DEF Credentials
      <3>3. CASE command = "enter_library"
        <4>1. current_cookie' = current_cookie /\ current_token' = current_cookie
          BY <1>3, <3>1, <3>3
        <4> QED BY <1>1, <2>4, <3>3, <4>1 DEF Credentials
      <3>4. CASE command \notin {"login", "enter_library"}
        <4>1. current_cookie' = current_cookie /\ current_token' = current_token
          BY <1>3, <2>4, <3>4
        <4> QED BY <1>1, <2>4, <4>1 DEF Credentials
      <3> QED BY <3>2, <3>3, <3>4
    <2> QED BY <1>1, <2>2, <2>3, <2>4 DEF IInv, Expected
  <1> QED BY <1>4, <1>5, <1>7 DEF IInv

LEMMA Inductive ==
    ASSUME IInv, [Next]_vars
    PROVE  IInv'
  <1>1. CASE UNCHANGED vars
    BY <1>1 DEF vars, client, server, IInv, TypeOK, Waiting, Whole, InStep, Expected,
       Credentials
  <1>2. CASE Next
    <2>1. CASE Send
      BY <2>1, SendStep
    <2>2. CASE Close \/ End
      BY <2>2, CloseStep
    <2>3. CASE ReadHeader
      BY <2>3, ReadHeaderStep
    <2>4. CASE ReadBody
      BY <2>4, ReadBodyStep
    <2>5. CASE Finish
      BY <2>5, FinishStep
    <2>6. CASE \E cmd \in Commands : Request(cmd)
      BY <2>6, RequestStep
    <2> QED BY <1>2, <2>1, <2>2, <2>3, <2>4, <2>5, <2>6 DEF Next, Read
  <1> QED BY <1>1, <1>2

-----------------------------------------------------------------------------
LEMMA InvariantHolds == Spec => []IInv
  <1>1. Init => IInv
    BY InitInv
  <1>2. IInv /\ [Next]_vars => IInv'
    BY Inductive
  <1> QED BY <1>1, <1>2, PTL DEF Spec

(***************************************************************************)
(* The client never has read more than arrived, nor a session that was     *)
(* never opened.                                                           *)
(***************************************************************************)
THEOREM TypeCorrect == Spec => []TypeOK
  <1>1. IInv => TypeOK
    BY DEF IInv
  <1> QED BY <1>1, InvariantHolds, PTL

(***************************************************************************)
(* receive_from_server returns an answer whole, or all that came before    *)
(* the connection ended, for parts of any size cut in any way.             *)
(***************************************************************************)
THEOREM WholeTheorem == Spec => []Whole
  <1>1. IInv => Whole
    BY DEF IInv
  <1> QED BY <1>1, InvariantHolds, PTL

(***************************************************************************)
(* At the prompt cookie and token are empty or of open sessions, and there *)
(* is no token without a cookie, for any number of sessions.               *)
(***************************************************************************)
THEOREM InStepTheorem == Spec => []InStep
  <1>1. IInv => InStep
    BY DEF IInv
  <1> QED BY <1>1, InvariantHolds, PTL
=============================================================================
