----------------------------- MODULE Conversation -----------------------------
(***************************************************************************)
(* What passes between the Qt window of src/frontend/Mainwindow.cpp and    *)
(* the server over one connection, as text.  TCP keeps the order of what   *)
(* is written but not its borders: one recv, or one readAll, may give      *)
(* several writes at once, or a part of one.  The server parses the first  *)
(* request of what recv gave, at most BufferSize - 1 characters, and drops *)
(* the rest of that.                                                       *)
(*                                                                         *)
(* What the handlers make of a request is in Server; here any of Answers   *)
(* may be the answer.  The user is patient or not: a patient one waits for *)
(* the answer before typing the next line.                                 *)
(***************************************************************************)
EXTENDS Resp

CONSTANTS
  Lines,       \* what the user may type: sequences of characters
  Answers,     \* what handlers may answer
  BufferSize,  \* sizeof(buffer) in main
  MaxTyped     \* bound on the requests of one connection

ASSUME ConversationAssumption == BufferSize \in Nat \ {0, 1} /\ MaxTyped \in Nat

VARIABLES
  patient,
  link,      \* "up"; "closing" while the server has not seen the end; or "down"
  toServer, toClient,  \* what is under way
  typed,     \* history: the requests the window sent over this connection
  served,    \* history: the command arrays the router was given
  answered,  \* history: what it answered
  shown,     \* the answers in the log of the window
  cut        \* history: a read ended inside a request or an answer

talkVars == <<patient, link, toServer, toClient, typed, served, answered, shown, cut>>

Behind(text, n) == SubSeq(text, n + 1, Len(text))

\* A stream of TCP: its text, and where in it writes end.
Nothing == [text |-> <<>>, ends |-> {}]
Written(stream, text) ==
  LET all == stream.text \o text
  IN  [text |-> all, ends |-> stream.ends \cup {Len(all)}]
Given(stream, n) == SubSeq(stream.text, 1, n)
Left(stream, n) ==
  [text |-> Behind(stream.text, n),
   ends |-> {e - n : e \in {m \in stream.ends : m > n}}]

-----------------------------------------------------------------------------
\* The text of an answer, and what the window makes of such a text.
Encode(answer) ==
  CASE answer[1] = "simple" -> text_to_resp(answer[2])
    [] answer[1] = "error"  -> error_resp(answer[2])
    [] answer[1] = "int"    -> longlong_resp(answer[2])
    [] answer[1] = "bulk"   -> bulk_string_resp(answer[2])
    [] answer[1] = "nil"    -> nil_resp
    [] answer[1] = "array"  -> array_to_resp(answer[2])

Unknown      == <<"unknown">>  \* what nothing is known of
EmptyCommand == <<"error", <<"E">>>>

\* QString::trimmed
Trimmed(text) ==
  LET kept == {n \in DOMAIN text : text[n] \notin Whitespace}
  IN  IF kept = {} THEN <<>> ELSE SubSeq(text, Min(kept), Max(kept))

\* QString::section("\r\n", 1)
AfterFirstLine(text) ==
  LET ends == {n \in DOMAIN text : EndsLine(text, n)}
  IN  IF ends = {} THEN <<>> ELSE Behind(text, Min(ends) + 1)

decodeRespReply_without_nil(data) ==
  LET body == Trimmed(Tail(data))
  IN  CASE data[1] = "+" -> <<"OK", body>>
        [] data[1] = "-" -> <<"ERROR", body>>
        [] data[1] = ":" -> <<"integer", body>>
        [] data[1] = "$" -> <<"text", AfterFirstLine(body)>>
        [] OTHER         -> <<"raw", data>>
decodeRespReply(data) ==
  LET body == Trimmed(Tail(data))
  IN  CASE data[1] = "+" -> <<"OK", body>>
        [] data[1] = "-" -> <<"ERROR", body>>
        [] data[1] = ":" -> <<"integer", body>>
        [] data[1] = "$" -> IF IsPrefix(<<"-", "1">>, body) THEN <<"nil">>
                            ELSE <<"text", AfterFirstLine(body)>>
        [] OTHER         -> <<"raw", data>>

\* The words of a line.
splitCommand(line) ==
  LET Begins(n) == line[n] # " " /\ (n = 1 \/ line[n - 1] = " ")
      End(n)    == Min({m \in n..Len(line) : line[m] = " "} \cup {Len(line) + 1})
      starts    == SetToSortSeq({n \in DOMAIN line : Begins(n)}, <)
  IN  [w \in DOMAIN starts |-> SubSeq(line, starts[w], End(starts[w]) - 1)]

\* A bound of Resp: a number that is written has one digit.
ASSUME RequestAssumption ==
  \A line \in Lines :
    LET words == splitCommand(line)
    IN  /\ words \in Seq(Seq(STRING)) /\ Len(words) <= 9
        /\ \A n \in DOMAIN words : Len(words[n]) <= 9

\* The window trims what it shows: an answer it can show as it is, within the
\* same bound.
Neat(text) ==
  text # <<>> => text[1] \notin Whitespace /\ text[Len(text)] \notin Whitespace
Plain(answer) ==
  LET IsShort(text) == text \in Seq(STRING) /\ Len(text) <= 9
  IN  \/ /\ answer[1] \in {"simple", "error"}
         /\ answer[2] \in Seq(STRING) /\ Neat(answer[2])
      \/ answer[1] = "int" /\ answer[2] \in -9..9
      \/ /\ answer[1] = "bulk" /\ IsShort(answer[2])
         /\ answer[2] # <<>> => answer[2][Len(answer[2])] \notin Whitespace
      \/ answer[1] = "nil"
      \/ /\ answer[1] = "array" /\ answer[2] \in Seq(Seq(STRING)) /\ Len(answer[2]) <= 9
         /\ \A n \in DOMAIN answer[2] : IsShort(answer[2][n])
ASSUME AnswerAssumption == \A answer \in Answers : Plain(answer)

\* The window has an encoder of its own, for the parser of the server.
encodeRespArray(args) == array_to_resp(args)

-----------------------------------------------------------------------------
\* A new connection.
Fresh ==
  /\ toServer' = Nothing /\ toClient' = Nothing
  /\ typed' = <<>> /\ served' = <<>> /\ answered' = <<>> /\ shown' = <<>>
  /\ cut' = FALSE

\* The connect button, while the socket is not connected ...
Connect ==
  /\ link = "down" /\ link' = "up"
  /\ Fresh
  /\ UNCHANGED patient

\* ... and while it is: what has been written still goes out.
Disconnect ==
  /\ link = "up" /\ link' = "closing"
  /\ toClient' = Nothing
  /\ UNCHANGED <<patient, toServer, typed, served, answered, shown, cut>>

\* The send button: a line without words is not sent.
onSendClicked(line) ==
  /\ link = "up" /\ splitCommand(line) # <<>>
  /\ Len(typed) < MaxTyped /\ (patient => Len(shown) >= Len(typed))
  /\ toServer' = Written(toServer, encodeRespArray(splitCommand(line)))
  /\ typed' = Append(typed, splitCommand(line))
  /\ UNCHANGED <<patient, link, toClient, served, answered, shown, cut>>

\* A read gives what has been written up to some point, at most room
\* characters.  (Bound: it ends within a write once in a connection, unless
\* that is because of room.)
Reads(stream, room) ==
  {n \in 1..Min({Len(stream.text), room}) : cut => n = room \/ n \in stream.ends}

\* Once a read was cut, the histories only count.
Record(history, item) == Append(history, IF cut' THEN Unknown ELSE item)

\* All that is there is shown as one answer.
onSocketReadyRead ==
  /\ link = "up"
  /\ UNCHANGED <<patient, link, toServer, typed, served, answered>>
  /\ \E n \in Reads(toClient, Len(toClient.text)) :
       /\ toClient' = Left(toClient, n)
       /\ cut' = (cut \/ n \notin toClient.ends)
       /\ shown' = Record(shown, decodeRespReply(Given(toClient, n)))

\* send: to a peer that has gone, the answer is lost.
Reply(answers) ==
  \E answer \in answers :
    /\ answered' = Record(answered, answer)
    /\ toClient' = IF link = "up" THEN Written(toClient, Encode(answer)) ELSE toClient

request_router_quiet(strings) ==
  /\ IF strings = <<>> THEN UNCHANGED <<served, answered, toClient>>
     ELSE Reply(Answers) /\ served' = Record(served, strings)
  /\ UNCHANGED link
request_router(strings) ==
  /\ IF strings = <<>> THEN Reply({EmptyCommand}) /\ UNCHANGED served
     ELSE Reply(Answers) /\ served' = Record(served, strings)
  /\ UNCHANGED link

\* A parser that reads beyond the text gives the router something or other,
\* or brings the process down.
Stray ==
  \/ Reply(Answers \cup {EmptyCommand}) /\ served' = Append(served, Unknown) /\ UNCHANGED link
  \/ link' = "down" /\ UNCHANGED <<served, answered, toClient>>

\* One recv of main and the request it gives.
Receive ==
  /\ link # "down"
  /\ UNCHANGED <<patient, typed, shown>>
  /\ \E n \in Reads(toServer, BufferSize - 1) :
       /\ toServer' = Left(toServer, n)
       /\ cut' = (cut \/ n \notin toServer.ends)
       /\ \E buffer \in {Given(toServer, n)} : \E parsed \in {resp_to_text(buffer)} :
            IF parsed.beyond THEN Stray ELSE request_router(parsed.strings)

\* recv gives the end of the stream: the server closes.
Close ==
  /\ link = "closing" /\ toServer = Nothing
  /\ link' = "down"
  /\ UNCHANGED <<patient, toServer, toClient, typed, served, answered, shown, cut>>

\* The server or the network goes; whatever is under way is lost.
Break ==
  /\ link # "down" /\ link' = "down"
  /\ toServer' = Nothing /\ toClient' = Nothing
  /\ UNCHANGED <<patient, typed, served, answered, shown, cut>>

TalkInit ==
  /\ patient \in BOOLEAN
  /\ link = "down"
  /\ toServer = Nothing /\ toClient = Nothing
  /\ typed = <<>> /\ served = <<>> /\ answered = <<>> /\ shown = <<>>
  /\ cut = FALSE

TalkNext ==
  \/ Connect \/ Disconnect \/ onSocketReadyRead
  \/ \E line \in Lines : onSendClicked(line)
  \/ Receive \/ Close \/ Break

\* Server and window go on with what has arrived for them; nobody has to
\* type, to connect or to break anything.
TalkSpec ==
  /\ TalkInit /\ [][TalkNext]_talkVars
  /\ WF_talkVars(Receive) /\ WF_talkVars(onSocketReadyRead)

-----------------------------------------------------------------------------
\* What the window is to show of an answer.
Meaning(answer) ==
  CASE answer[1] = "simple" -> <<"OK", answer[2]>>
    [] answer[1] = "error"  -> <<"ERROR", answer[2]>>
    [] answer[1] = "int"    -> <<"integer", to_string(answer[2])>>
    [] answer[1] = "bulk"   -> <<"text", answer[2]>>
    [] answer[1] = "nil"    -> <<"nil">>
    [] answer[1] = "array"  -> <<"raw", Encode(answer)>>

\* To a patient user, and as long as no read ends inside a request or an
\* answer, the connection is as good as a call: the router gets the very words typed, in order and each once,
\* and the window shows the answers to them, one by one.
PatientTalk ==
  patient /\ ~cut =>
    /\ IsPrefix(served, typed)
    /\ Len(answered) = Len(served)
    /\ Len(shown) <= Len(answered)
    /\ \A n \in DOMAIN shown : shown[n] = Meaning(answered[n])

\* An impatient user may lose requests, those that arrive together with an
\* earlier one; what is served is still what was typed, never something cut
\* out of two requests, and in the order typed.
NothingInvented ==
  ~cut =>
    \E at \in [DOMAIN served -> DOMAIN typed] :
      /\ \A m, n \in DOMAIN served : m < n => at[m] < at[n]
      /\ \A n \in DOMAIN served : served[n] = typed[at[n]]

\* A patient user gets an answer, or the connection ends.
PatientIsAnswered ==
  (patient /\ link = "up" /\ Len(shown) < Len(typed)) ~>
    (link # "up" \/ Len(shown) >= Len(typed))
=============================================================================
