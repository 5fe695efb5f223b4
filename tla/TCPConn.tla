------------------------------ MODULE TCPConn -------------------------------
(***************************************************************************)
(* One TCP connection that is served by its loop's thread alone: TCPConn   *)
(* (src/src/tcpconn.c) with the request state machine of its HTTPClient    *)
(* (src/src/parse.c), its peer and its socket.  Requests for /cgi leave    *)
(* the thread and are EventLoop's subject; here every request is static.   *)
(*                                                                         *)
(* Input comes in lines, each of one of five kinds: "get" (GET or HEAD),   *)
(* "post" and "unsupported" (a bad version or method) are well-formed      *)
(* request lines, "length" is the header Content-length with the length of *)
(* the line after the head, "blank" the empty line.  Other headers change  *)
(* nothing and are left out.  A line in a place where it does not belong   *)
(* is malformed.                                                           *)
(***************************************************************************)
EXTENDS Integers, Sequences, FiniteSetsExt

CONSTANTS
  ResponseSize, \* bytes of a response
  MaxInput      \* bound: lines the peer sends

ASSUME SizeAssumption == ResponseSize \in Nat \ {0} /\ MaxInput \in Nat

VARIABLES
  pc,          \* the loop's thread: waiting, or where in HTTPClientHandleMessage
  received,    \* lines put into input_buffer so far
  consumed,    \* how many of them the parser has taken out
  state,       \* HTTPClient.state
  request,     \* what HTTPClient.request keeps of the request: its line and body_size
  wrongFormat, \* HTTPClient.wrong_format
  answer,      \* the response about to be sent
  sent,        \* history: the responses given to TCPConnSend, up to the first last one
  out,         \* bytes in output_buffer
  writing,     \* the Channel is enabled for writing
  closed,      \* TCPConn.closed
  live,        \* the connection is not freed
  shut,        \* ChannelShutDownWrite was called
  peer,        \* "open", "fin": it has closed its end, "reset": it is gone
  stalled,     \* history: the output waits after a first write got EAGAIN
  refused,     \* history: TCPConnSend freed the connection on a write error
  writeFailed  \* history: TCPConnHandleWrite met a write error

input  == <<received, consumed, state, request, wrongFormat>>
output == <<sent, out, writing, stalled, refused>>
end    == <<closed, live>>
socket == <<shut, peer, writeFailed>>
vars   == <<pc, input, answer, output, end, socket>>

RequestLines == {"get", "post", "unsupported"}
Lines        == RequestLines \cup {"length", "blank"}
LastAnswers  == {"rejected", "fatal"} \* those after which there is no reset
Answers      == {"ok", "malformed"} \cup LastAnswers

Unread == Len(received) - consumed

\* TCPConnHandleNewConn with HTTPClientNew.
Init ==
  /\ pc = "wait"
  /\ received = <<>> /\ consumed = 0
  /\ state = "LINE" /\ request = [line |-> "get", body |-> 0] /\ wrongFormat = FALSE
  /\ answer = "ok" /\ sent = <<>> /\ out = 0 /\ writing = FALSE
  /\ closed = FALSE /\ live = TRUE /\ shut = FALSE /\ peer = "open"
  /\ stalled = FALSE /\ refused = FALSE /\ writeFailed = FALSE

-----------------------------------------------------------------------------
(* Closing.                                                                *)

\* Mutant: the output that is waiting is not looked at.
CloseAtOnce ==
  /\ live' = FALSE
  /\ UNCHANGED closed

\* TCPConnClose: deferred while output is waiting, otherwise the end.
TCPConnClose ==
  IF writing THEN closed' = TRUE /\ UNCHANGED live
             ELSE live' = FALSE /\ UNCHANGED closed

-----------------------------------------------------------------------------
(* Parsing.                                                                *)

\* TCPConnHandleRead with data: n lines, which HTTPClientHandleMessage then parses.
ReadData ==
  /\ pc = "wait" /\ live /\ peer = "open"
  /\ \E l \in Lines, more \in {<<>>} \cup {<<m>> : m \in Lines} :
       /\ received' = received \o <<l>> \o more
       /\ Len(received') <= MaxInput
  /\ pc' = "parse"
  /\ UNCHANGED <<consumed, state, request, wrongFormat, answer, output, end, socket>>

\* TCPConnHandleRead at the end of the input or on a read error.
ReadEnd ==
  /\ pc = "wait" /\ live /\ peer # "open"
  /\ TCPConnClose
  /\ UNCHANGED <<pc, input, answer, output, socket>>

\* HTTPClientHandleMessage on CONTINUE: back to the loop.
Continue ==
  /\ pc' = "wait"
  /\ UNCHANGED <<input, answer>>

\* A response is about to be sent.
Respond(kinds) ==
  /\ answer' \in kinds
  /\ pc' = "send"

\* parseHead on the next line, and what HTTPClientHandleMessage does on
\* WRONG_FORMAT: only the first malformed line of a row is answered.
ParseLine ==
  /\ consumed' = consumed + 1
  /\ UNCHANGED received
  /\ LET line == received[consumed + 1] IN
     \/ /\ state = "LINE" /\ line \in RequestLines
        /\ request' = [line |-> line, body |-> 0]
        /\ state' = "HEADER"
        /\ UNCHANGED <<pc, wrongFormat, answer>>
     \/ /\ state = "HEADER" /\ line = "length"
        /\ request' = [request EXCEPT !.body = 1]
        /\ UNCHANGED <<pc, state, wrongFormat, answer>>
     \/ /\ state = "HEADER" /\ line = "blank"
        /\ state' = "BODY"
        /\ UNCHANGED <<pc, request, wrongFormat, answer>>
     \/ /\ IF state = "LINE" THEN line \notin RequestLines ELSE line \in RequestLines
        /\ IF wrongFormat THEN state' = "LINE" /\ UNCHANGED <<pc, answer>>
                          ELSE Respond({"malformed"}) /\ UNCHANGED state
        /\ UNCHANGED <<request, wrongFormat>>

ParseHead ==
  /\ pc = "parse" /\ state # "BODY"
  /\ IF Unread = 0 THEN Continue ELSE ParseLine
  /\ UNCHANGED <<output, end, socket>>

\* What processRequest may answer: a file may be missing and a path refused; a POST
\* is only for /cgi.  A version or a method that is not supported is always fatal.
AnswersTo(line) ==
  (IF line = "get" THEN {"ok"} ELSE IF line = "post" THEN {"rejected"} ELSE {}) \cup {"fatal"}

\* Mutant: what was read is not compared with the length of the body.
ParseBodyEarly ==
  /\ pc = "parse" /\ state = "BODY"
  /\ consumed' = consumed + request.body
  /\ wrongFormat' = FALSE
  /\ Respond(AnswersTo(request.line))
  /\ UNCHANGED <<received, state, request, output, end, socket>>

\* parseRequest behind the head, and processRequest.  The body of a request that is
\* not supported is neither waited for nor taken out.
ParseBody ==
  /\ pc = "parse" /\ state = "BODY"
  /\ LET body == IF request.line = "unsupported" THEN 0 ELSE request.body IN
     IF Unread < body
     THEN Continue
     ELSE /\ consumed' = consumed + body
          /\ wrongFormat' = FALSE
          /\ Respond(AnswersTo(request.line))
          /\ UNCHANGED <<received, state, request>>
  /\ UNCHANGED <<output, end, socket>>

-----------------------------------------------------------------------------
(* Sending.                                                                *)

\* A write to a socket whose peer is gone, or that was shut down, is an error.
WriteError == peer = "reset" \/ shut

\* TCPConnSend: when no output is waiting the response is written at once: all of
\* it, a part, nothing (EAGAIN: writing stays off), or the connection is freed.
TCPConnSend ==
  /\ pc = "send"
  /\ pc' = "sent"
  /\ sent' = IF \E i \in DOMAIN sent : sent[i] \in LastAnswers THEN sent
             ELSE Append(sent, answer)
  /\ LET total == out + ResponseSize IN
     \/ /\ writing
        /\ out' = total
        /\ UNCHANGED <<writing, stalled, refused, end>>
     \/ /\ ~writing /\ ~WriteError
        /\ out' \in 0..total
        /\ writing' = (out' \in 1..(total - 1))
        /\ stalled' = (out' = total)
        /\ UNCHANGED <<refused, end>>
     \/ /\ ~writing /\ WriteError
        /\ out' = total
        /\ TCPConnClose
        /\ refused' = TRUE
        /\ UNCHANGED <<writing, stalled>>
  /\ UNCHANGED <<input, answer, socket>>

\* Mutant: wrong_format is not set, so every malformed line is answered.
AfterEveryAnswer ==
  /\ pc = "sent" /\ live /\ answer \in {"ok", "malformed"}
  /\ state' = "LINE"
  /\ pc' = "parse"
  /\ UNCHANGED <<received, consumed, request, wrongFormat, answer, output, end, socket>>

\* HTTPClientReset, and on to the next request.
AfterAnswer ==
  /\ pc = "sent" /\ live /\ answer \in {"ok", "malformed"}
  /\ state' = "LINE"
  /\ wrongFormat' = (wrongFormat \/ answer = "malformed")
  /\ pc' = "parse"
  /\ UNCHANGED <<received, consumed, request, answer, output, end, socket>>

\* A rejected POST: back to the loop, with the request still in BODY.
AfterRejection ==
  /\ pc = "sent" /\ answer = "rejected"
  /\ pc' = "wait"
  /\ UNCHANGED <<input, answer, output, end, socket>>

\* response404, 500, 501, 505 and the 400 for a path: the connection is closed, and
\* the handler returns with the request still in BODY.
AfterFatal ==
  /\ pc = "sent" /\ live /\ answer = "fatal"
  /\ TCPConnClose
  /\ pc' = "wait"
  /\ UNCHANGED <<input, answer, output, socket>>

\* All answers but the rejection go on to use the connection, freed or not.
UseFreed ==
  /\ pc = "sent" /\ ~live /\ answer # "rejected"
  /\ pc' = "uaf"
  /\ UNCHANGED <<input, answer, output, end, socket>>

-----------------------------------------------------------------------------
(* Output, and the peer.                                                   *)

\* Mutant: the end of a connection that is to be closed is not shut down.
HandleWriteNoShutdown ==
  /\ pc = "wait" /\ live /\ writing /\ ~WriteError
  /\ out' \in 0..(out - 1)
  /\ writing' = (out' > 0)
  /\ UNCHANGED <<pc, input, answer, sent, stalled, refused, end, socket>>

\* TCPConnHandleWrite: the socket takes some of the output.  After the last byte
\* writing is switched off and a deferred close shuts the server's end down.
HandleWrite ==
  /\ pc = "wait" /\ live /\ writing /\ ~WriteError
  /\ out' \in 0..(out - 1)
  /\ writing' = (out' > 0)
  /\ shut' = (closed /\ out' = 0)
  /\ UNCHANGED <<pc, input, answer, sent, stalled, refused, end, peer, writeFailed>>

\* TCPConnHandleWrite on an error: TCPConnClose, with writing still on.
HandleWriteError ==
  /\ pc = "wait" /\ live /\ writing /\ WriteError
  /\ TCPConnClose
  /\ writeFailed' = TRUE
  /\ UNCHANGED <<pc, input, answer, output, shut, peer>>

\* The peer closes its end, or it is gone.
PeerEnds ==
  /\ live
  /\ \/ peer = "open" /\ peer' = "fin"
     \/ peer # "reset" /\ peer' = "reset"
  /\ UNCHANGED <<pc, input, answer, output, end, shut, writeFailed>>

Handle == \/ ParseHead \/ ParseBody \/ TCPConnSend
          \/ AfterAnswer \/ AfterRejection \/ AfterFatal \/ UseFreed
Write  == HandleWrite \/ HandleWriteError

Next == ReadData \/ ReadEnd \/ Handle \/ Write \/ PeerEnds

Spec == Init /\ [][Next]_vars

\* The loop finishes its handlers, reports an end of input and a writable socket;
\* the peer takes what is written to it for as long as it is there.
FairSpec == Spec /\ WF_vars(Handle) /\ WF_vars(ReadEnd) /\ WF_vars(Write)

-----------------------------------------------------------------------------
(* Properties.                                                             *)

\* Types; the parser never takes more out of the input buffer than is in it.
TypeOK ==
  /\ pc \in {"wait", "parse", "send", "sent", "uaf"}
  /\ received \in Seq(Lines)
  /\ consumed \in 0..Len(received)
  /\ state \in {"LINE", "HEADER", "BODY"}
  /\ request \in [line : RequestLines, body : 0..1]
  /\ answer \in Answers /\ sent \in Seq(Answers)
  /\ out \in Nat /\ peer \in {"open", "fin", "reset"}
  /\ wrongFormat \in BOOLEAN /\ writing \in BOOLEAN
  /\ closed \in BOOLEAN /\ live \in BOOLEAN /\ shut \in BOOLEAN
  /\ stalled \in BOOLEAN /\ refused \in BOOLEAN /\ writeFailed \in BOOLEAN

\* Output that waits has the loop write it, unless the very first write got EAGAIN;
\* and a connection is freed only when its output is written, with the same
\* exception and that of a write that was refused.
OutputKept ==
  /\ live /\ writing => out > 0
  /\ out > 0 => writing \/ stalled \/ refused
  /\ writing => live

\* A freed connection is used again only after TCPConnSend has freed it on a write
\* error under a response that its caller goes on from.
UseFollowsRefusal ==
  pc = "uaf" => refused /\ WriteError /\ answer # "rejected"

\* The lines from i on that do not belong to the head of a request that begins at i.
Misfits(lines, i) ==
  {j \in i..Len(lines) : lines[j] \notin IF j = i THEN RequestLines ELSE {"length"}}

\* The answers due from line i on, when those due from a later line on are known: skip says
\* that malformed lines are not answered before a good request.
DueFrom(lines, i, skip, later) ==
  LET j == Min(Misfits(lines, i))
      body == IF j > i + 1 THEN 1 ELSE 0
  IN IF Misfits(lines, i) = {} THEN <<>>
     ELSE IF j = i \/ lines[j] # "blank"
     THEN (IF skip THEN <<>> ELSE <<"malformed">>) \o later[j + 1][TRUE]
     ELSE IF lines[i] = "unsupported" THEN <<"fatal">>
     ELSE IF j + body > Len(lines) THEN <<>>
     ELSE IF lines[i] = "post" THEN <<"rejected">>
     ELSE <<"ok">> \o later[j + body + 1][FALSE]

\* The answers due from each line on, when the lines are read in one piece.
DueTo(lines) ==
  LET due[i \in 1..(Len(lines) + 1)] == [skip \in BOOLEAN |-> DueFrom(lines, i, skip, due)]
  IN due

Due == DueTo(received)[1][FALSE]

\* Whenever the loop's thread is back in Loop, the answers given are those due to
\* the lines received, however reads have cut them: none is missing, given twice or
\* given for a wrong line.  A fatal answer may stand for any answer to a request.
AnswersMatch ==
  (pc = "wait" /\ ~refused) =>
    IF sent # <<>> /\ sent[Len(sent)] = "fatal"
    THEN /\ Len(sent) <= Len(Due)
         /\ \A i \in 1..(Len(sent) - 1) : sent[i] = Due[i]
         /\ Due[Len(sent)] # "malformed"
    ELSE sent = Due

\* A deferred close is carried out: the waiting output is written and the server's
\* end shut down, or the connection freed, unless a write fails.
CloseCarriedOut == closed ~> (shut \/ ~live \/ writeFailed)
=============================================================================
