----------------------------- MODULE CGIWorker ------------------------------
(***************************************************************************)
(* Dynamic requests: the consumer thread of cgi.c, which serves them one   *)
(* by one, the process cgi_worker that it talks to over two pipes, and the *)
(* scripts that run inside that process.  When the process ends, SIGCHLD   *)
(* lets some thread of the server close the pipes and make a new process,  *)
(* whatever the consumer thread is doing with them at that moment.         *)
(*                                                                         *)
(* What goes to the process is a sequence of tokens <<what, i>>, where i   *)
(* is the request they are about: the strings "method", "uri", "name" and  *)
(* "value" (the header Content-Length) and "end" (the empty string), and   *)
(* "body" for a byte of a body.  Back come <<"ack", 0>> (the int 1) and    *)
(* <<"answer", i>>, what a script has printed in one piece.                *)
(*                                                                         *)
(* A request has method, data (the query, or the body of a POST: "good"    *)
(* two numbers, "one" not two parameters, "bad" anything else), length     *)
(* (its Content-Length, or None) and file: "adder" is cgi/adder.py,        *)
(* "missing" is no file; "big" prints more than stdout's buffer and so in  *)
(* two pieces, "exit" prints and leaves with sys.exit.                     *)
(*                                                                         *)
(* Left out: what the kernel holds at most in a pipe; descriptors that     *)
(* other connections take over after the handler has closed them; a stop   *)
(* of the process, which raises SIGCHLD, too; what the client does with    *)
(* the connection (EventLoop, TCPConn).                                    *)
(***************************************************************************)
EXTENDS Integers, Sequences, SequencesExt

CONSTANTS
  Requests,    \* the requests considered
  MaxRequests  \* how many are served

None == -1

ASSUME RequestAssumption ==
  /\ Requests \subseteq [method : {"GET", "POST", "HEAD"}, data : {"good", "one", "bad"},
                         length : {None} \cup Nat,
                         file : {"adder", "missing", "big", "exit"}]
  /\ MaxRequests \in Nat

VARIABLES
  requests,  \* what CGIPush has put into the queue
  pc,        \* where the consumer thread is in processRequest
  current,   \* the request it serves
  position,  \* the string of the head it sends next
  handler,   \* "none", or "closed" while SIGCHLD's handler has closed the pipes
  toChild,   \* what is in the pipe behind pipe_out
  fromChild, \* what is in the pipe before pipe_in
  child,     \* what the process is doing; "dead" when it has ended
  buffer,    \* its Buffer
  state,     \* its state: "Method", "URI", "HeaderName" or "HeaderValue"
  env,       \* the variables of its environment, filename and header_name
  replies,   \* what has been sent to the client of each request
  woken,     \* the end of the pipe it is blocked on in select has come
  outcome,   \* "none", "failed" (500 and return) or "complete" (HTTPSendComplete)
  lost       \* history: a process ended while the request was served, or before, unnoticed

parent  == <<pc, current, position, woken, replies, outcome>>
process == <<child, buffer, state, env>>
pipes   == <<toChild, fromChild>>
vars    == <<requests, parent, handler, pipes, process, lost>>

Unset == <<"unset", 0>>
NoEnv == [method |-> Unset, uri |-> Unset, name |-> Unset, length |-> Unset]
Ack   == <<"ack", 0>>

-----------------------------------------------------------------------------
(* The consumer thread.                                                    *)

Init ==
  /\ requests \in [1..MaxRequests -> Requests]
  /\ pc = "idle" /\ current = 0 /\ position = 1 /\ woken = FALSE /\ handler = "none"
  /\ toChild = <<>> /\ fromChild = <<>>
  /\ child = "read" /\ buffer = <<>> /\ state = "Method" /\ env = NoEnv
  /\ replies = [i \in 1..MaxRequests |-> <<>>]
  /\ outcome = [i \in 1..MaxRequests |-> "none"]
  /\ lost = [i \in 1..MaxRequests |-> FALSE]

request == requests[current]

\* The strings that are sent before the body.
HeadOf(i) ==
  <<<<"method", i>>, <<"uri", i>>>>
    \o (IF requests[i].length = None THEN <<>> ELSE <<<<"name", i>>, <<"value", i>>>>)
    \o <<<<"end", i>>>>
BodyOf(i) == [k \in 1..requests[i].length |-> <<"body", i>>]

\* A write to pipe_out succeeds: the pipes are open and have a reader.
Writable == handler = "none" /\ child # "dead"
\* A read from pipe_in returns something.
Filled == handler = "none" /\ fromChild # <<>>
\* select returns at once: input, its end, or a closed descriptor.
Ready == Filled \/ child = "dead"

\* Mutant: select on a descriptor that is closed meanwhile does not return.
WaitMissesEnd(now, blocked, next) ==
  \/ /\ pc = now /\ pc' = (IF Ready THEN next ELSE blocked)
     /\ woken' = FALSE
  \/ /\ pc = blocked /\ Filled
     /\ pc' = next /\ UNCHANGED woken

\* waitPipein: select blocks on the pipe there is, and a process that ends later is seen
\* even when its pipe has been replaced meanwhile.
Wait(now, blocked, next) ==
  \/ /\ pc = now /\ pc' = (IF Ready THEN next ELSE blocked)
     /\ woken' = FALSE
  \/ /\ pc = blocked /\ (Filled \/ woken)
     /\ pc' = next /\ UNCHANGED woken

\* HTTPClientSend(client, NULL, -1): the answer 500, and the connection is closed.
Answer500 == replies' = [replies EXCEPT ![current] = Append(@, <<"500", 0>>)]
FailRequest ==
  /\ Answer500
  /\ outcome' = [outcome EXCEPT ![current] = "failed"]
  /\ pc' = "idle"

Take ==
  /\ pc = "idle" /\ current < MaxRequests
  /\ current' = current + 1 /\ position' = 1 /\ pc' = "send"
  /\ lost' = [lost EXCEPT ![current + 1] = child = "dead"]
  /\ UNCHANGED <<requests, handler, pipes, process, woken, replies, outcome>>

\* Mutant: the head is not seen to end.
SendHeadOn ==
  /\ pc = "send" /\ Writable
  /\ toChild' = Append(toChild, HeadOf(current)[position])
  /\ position' = position + 1
  /\ UNCHANGED <<pc, replies, outcome>>
  /\ UNCHANGED <<requests, current, woken, handler, fromChild, process, lost>>

\* sendToChild, for one string of the head.
SendHead ==
  /\ pc = "send"
  /\ IF Writable
     THEN /\ toChild' = Append(toChild, HeadOf(current)[position])
          /\ position' = position + 1
          /\ pc' = IF position = Len(HeadOf(current)) THEN "waitHead" ELSE "send"
          /\ UNCHANGED <<replies, outcome>>
     ELSE FailRequest /\ UNCHANGED <<position, toChild>>
  /\ UNCHANGED <<requests, current, woken, handler, fromChild, process, lost>>

\* Mutant: processRequest does not wait for the acknowledgement.
WaitHeadNot ==
  /\ pc = "waitHead" /\ pc' = "readHead"
  /\ UNCHANGED <<requests, current, position, woken, replies, outcome>>
  /\ UNCHANGED <<handler, pipes, process, lost>>

\* The first waitPipein, of which the result is not looked at.
WaitHead ==
  /\ Wait("waitHead", "blockHead", "readHead")
  /\ UNCHANGED <<requests, current, position, replies, outcome, handler, pipes, process, lost>>

\* Mutant: a wrong acknowledgement is answered 500, but processRequest goes on.
ReadHeadGoesOn ==
  /\ pc = "readHead" /\ pc' = "body"
  /\ \/ /\ Filled /\ Head(fromChild) = Ack
        /\ fromChild' = Tail(fromChild) /\ UNCHANGED replies
     \/ ~(Filled /\ Head(fromChild) = Ack) /\ Answer500 /\ UNCHANGED fromChild
  /\ UNCHANGED <<requests, current, position, woken, outcome, handler, toChild, process, lost>>

\* The read of an int, which must be 1.  Of an answer it takes four bytes.
ReadHead ==
  /\ pc = "readHead"
  /\ \/ /\ Filled /\ Head(fromChild) = Ack
        /\ fromChild' = Tail(fromChild)
        /\ pc' = "body" /\ UNCHANGED <<replies, outcome>>
     \/ /\ Filled /\ Head(fromChild) # Ack
        /\ fromChild' \in {fromChild, Tail(fromChild)}
        /\ FailRequest
     \/ ~Filled /\ FailRequest /\ UNCHANGED fromChild
  /\ UNCHANGED <<requests, current, position, woken, handler, toChild, process, lost>>

SendBody ==
  /\ pc = "body"
  /\ \/ /\ request.length <= 0
        /\ pc' = "waitAnswer" /\ UNCHANGED <<replies, outcome, toChild>>
     \/ /\ request.length > 0 /\ Writable
        /\ toChild' = toChild \o BodyOf(current)
        /\ pc' = "waitAnswer" /\ UNCHANGED <<replies, outcome>>
     \/ request.length > 0 /\ ~Writable /\ FailRequest /\ UNCHANGED toChild
  /\ UNCHANGED <<requests, current, position, woken, handler, fromChild, process, lost>>

\* Mutant: processRequest does not wait for the answer.
WaitAnswerNot ==
  /\ pc = "waitAnswer" /\ pc' = "readAnswer"
  /\ UNCHANGED <<requests, current, position, woken, replies, outcome>>
  /\ UNCHANGED <<handler, pipes, process, lost>>

\* The second waitPipein: when it fails, 500 is sent and processRequest goes on.
WaitAnswer ==
  /\ Wait("waitAnswer", "blockAnswer", "readAnswer")
  /\ IF pc = "waitAnswer" /\ handler = "closed" THEN Answer500 ELSE UNCHANGED replies
  /\ UNCHANGED <<requests, current, position, outcome, handler, pipes, process, lost>>

\* One turn of the read loop: all there is goes to the client.
ReadAnswer ==
  /\ pc = "readAnswer" /\ Filled
  /\ replies' = [replies EXCEPT ![current] = @ \o fromChild]
  /\ fromChild' = <<>>
  /\ UNCHANGED <<requests, pc, current, position, woken, outcome, handler, toChild>>
  /\ UNCHANGED <<process, lost>>

\* The pipe is empty, at its end or closed: HTTPSendComplete.
Complete ==
  /\ pc = "readAnswer" /\ ~Filled
  /\ outcome' = [outcome EXCEPT ![current] = "complete"]
  /\ pc' = "idle"
  /\ UNCHANGED <<requests, current, position, woken, replies, handler, pipes, process, lost>>

Consumer ==
  \/ Take \/ SendHead \/ WaitHead \/ ReadHead \/ SendBody
  \/ WaitAnswer \/ ReadAnswer \/ Complete

-----------------------------------------------------------------------------
(* handle_sigchld, in any thread.                                          *)

HandlerCloses ==
  /\ child = "dead" /\ handler = "none"
  /\ handler' = "closed" /\ toChild' = <<>> /\ fromChild' = <<>>
  /\ UNCHANGED <<requests, parent, process, lost>>

\* waitpid and createChild: new pipes, a new process.
CreateChild ==
  /\ handler = "closed"
  /\ handler' = "none"
  /\ child' = "read" /\ buffer' = <<>> /\ state' = "Method" /\ env' = NoEnv
  /\ UNCHANGED <<requests, parent, pipes, lost>>

-----------------------------------------------------------------------------
(* main of cgi_worker.c.                                                   *)

From(s, k) == SubSeq(s, k, Len(s))
IsString(token) == token[1] # "body"

\* BufferFindString: the tokens up to the first string's end, 0 for none.
FindString ==
  LET ends == {k \in DOMAIN buffer : IsString(buffer[k])}
  IN IF ends = {} THEN 0 ELSE Min(ends)

\* The string that is retrieved: bytes of a body before it are part of it.
Data == IF FindString = 1 THEN buffer[1] ELSE <<"junk", 0>>

ReadStdin ==
  /\ child = "read" /\ FindString = 0 /\ toChild # <<>>
  /\ buffer' = buffer \o toChild /\ toChild' = <<>>
  /\ UNCHANGED <<requests, parent, handler, fromChild, child, state, env, lost>>

Retrieve == buffer' = From(buffer, FindString + 1)
Goes(next, variables) == state' = next /\ env' = variables

\* Mutant: resetEnvp forgets CONTENT_LENGTH.
TakeMethodKeepLength ==
  /\ state = "Method"
  /\ Goes("URI", [env EXCEPT !.method = Data])
  /\ UNCHANGED <<child, fromChild>>

\* resetEnvp and REQUEST_METHOD.
TakeMethod ==
  /\ state = "Method"
  /\ Goes("URI", [env EXCEPT !.method = Data, !.length = Unset])
  /\ UNCHANGED <<child, fromChild>>

\* filename, SCRIPT_NAME and QUERY_STRING
TakeURI ==
  /\ state = "URI"
  /\ Goes("HeaderName", [env EXCEPT !.uri = Data])
  /\ UNCHANGED <<child, fromChild>>

TakeHeaderName ==
  /\ state = "HeaderName" /\ Data[1] # "end"
  /\ Goes("HeaderValue", [env EXCEPT !.name = Data])
  /\ UNCHANGED <<child, fromChild>>

\* setEnv
TakeHeaderValue ==
  /\ state = "HeaderValue"
  /\ Goes("HeaderName", IF env.name[1] = "name" THEN [env EXCEPT !.length = Data] ELSE env)
  /\ UNCHANGED <<child, fromChild>>

\* Mutant: the state stays where it was at the end of the head.
EndHeadStays ==
  /\ state = "HeaderName" /\ Data[1] = "end"
  /\ fromChild' = Append(fromChild, Ack)
  /\ child' = "run"
  /\ UNCHANGED <<state, env>>

\* The end of the head is acknowledged and the file opened.
EndHead ==
  /\ state = "HeaderName" /\ Data[1] = "end"
  /\ fromChild' = Append(fromChild, Ack)
  /\ child' = "run"
  /\ Goes("Method", env)

TakeString ==
  /\ child = "read" /\ FindString > 0
  /\ Retrieve
  /\ TakeMethod \/ TakeURI \/ TakeHeaderName \/ TakeHeaderValue \/ EndHead
  /\ UNCHANGED <<requests, parent, handler, toChild, lost>>

-----------------------------------------------------------------------------
(* The file.                                                               *)

File   == IF env.uri[1] = "uri" THEN requests[env.uri[2]].file ELSE "missing"
Method == IF env.method[1] = "method" THEN requests[env.method[2]].method ELSE "unknown"
\* CONTENT_LENGTH as a number, None when it is none.
Length == IF env.length[1] = "value" THEN requests[env.length[2]].length ELSE None

Prints == fromChild' = Append(fromChild, <<"answer", env.uri[2]>>)
Silent == UNCHANGED fromChild
Dies ==
  /\ child' = "dead"
  /\ woken' = (woken \/ pc \in {"blockHead", "blockAnswer"})
  /\ lost' = IF pc = "idle" THEN lost ELSE [lost EXCEPT ![current] = TRUE]
Returns == child' = "read" /\ UNCHANGED <<lost, woken>>

\* No file: the body is taken out of the Buffer, where an assertion says that it is.
RunMissing ==
  /\ File = "missing" /\ Silent
  /\ IF Length > Len(buffer) THEN Dies /\ UNCHANGED buffer
     ELSE /\ Returns
          /\ buffer' = IF Length > 0 THEN From(buffer, Length + 1) ELSE buffer
  /\ UNCHANGED toChild

\* compute: it raises for parameters that are no numbers.
Compute(data) == IF data = "bad" THEN Silent ELSE Prints

\* adder.py, for GET.
RunGet ==
  /\ File = "adder" /\ Method = "GET"
  /\ Compute(requests[env.uri[2]].data) /\ Returns
  /\ UNCHANGED <<buffer, toChild>>

\* adder.py, for POST: the body is read from stdin, past the Buffer.  Without a length
\* string.atoi raises; what is not the request's own body may compute or not.
RunPost ==
  /\ File = "adder" /\ Method = "POST"
  /\ LET body == SubSeq(toChild, 1, Length)
     IN IF Length = None THEN Silent /\ UNCHANGED toChild
        ELSE /\ Len(toChild) >= Length
             /\ toChild' = From(toChild, Length + 1)
             /\ IF Length = 0 THEN Compute("one")
                ELSE IF body = BodyOf(env.uri[2]) THEN Compute(requests[env.uri[2]].data)
                ELSE \E data \in {"good", "bad"} : Compute(data)
  /\ Returns
  /\ UNCHANGED buffer

\* adder.py, for another method.
RunOther ==
  /\ File = "adder" /\ Method \notin {"GET", "POST"}
  /\ Silent /\ Returns
  /\ UNCHANGED <<buffer, toChild>>

\* The first piece of a big answer; Py_Finalize flushes the second.
RunBig ==
  /\ File = "big"
  /\ Prints /\ child' = (IF child = "run" THEN "flush" ELSE "read")
  /\ UNCHANGED <<buffer, toChild, lost, woken>>

\* sys.exit ends the process, behind what it has printed.
RunExit ==
  /\ File = "exit"
  /\ IF child = "run" THEN Prints /\ child' = "flush" /\ UNCHANGED <<lost, woken>>
     ELSE Silent /\ Dies
  /\ UNCHANGED <<buffer, toChild>>

RunFile ==
  /\ child \in {"run", "flush"}
  /\ RunMissing \/ RunGet \/ RunPost \/ RunOther \/ RunBig \/ RunExit
  /\ UNCHANGED <<requests, pc, current, position, replies, outcome, handler, state, env>>

Worker == ReadStdin \/ TakeString \/ RunFile

Next == Consumer \/ HandlerCloses \/ CreateChild \/ Worker

Spec == Init /\ [][Next]_vars

\* The threads and the process are scheduled, and the signal is delivered.
FairSpec ==
  /\ Spec
  /\ WF_vars(Consumer) /\ WF_vars(Worker) /\ WF_vars(HandlerCloses \/ CreateChild)

-----------------------------------------------------------------------------
(* Properties.                                                             *)

\* Types.
TypeOK ==
  /\ requests \in [1..MaxRequests -> Requests]
  /\ pc \in {"idle", "send", "waitHead", "blockHead", "readHead", "body", "waitAnswer",
             "blockAnswer", "readAnswer"}
  /\ woken \in BOOLEAN
  /\ current \in 0..MaxRequests /\ (pc # "idle" => current > 0)
  /\ position \in Nat \ {0} /\ (pc = "send" => position <= Len(HeadOf(current)))
  /\ handler \in {"none", "closed"} /\ (handler = "closed" => child = "dead")
  /\ child \in {"read", "run", "flush", "dead"}
  /\ state \in {"Method", "URI", "HeaderName", "HeaderValue"}
  /\ outcome \in [1..MaxRequests -> {"none", "failed", "complete"}]
  /\ lost \in [1..MaxRequests -> BOOLEAN]

\* The script of the request answers: it prints in one piece, reads its whole body and
\* stays, or there is no file and the body's length brings the process down.
Answering(r) ==
  \/ r.file = "adder" /\ r.method = "GET" /\ r.data # "bad" /\ r.length <= 0
  \/ r.file = "adder" /\ r.method = "POST" /\ r.length >= 0 /\ (r.data # "bad" \/ r.length = 0)
Recovering(r) == r.file = "missing" /\ r.length > 0

\* Up to request i nothing was sent that upsets the dialogue.
PlainUpTo(i) == \A j \in 1..i : Answering(requests[j]) \/ Recovering(requests[j])

\* cgi.c:97-152 with cgi_worker.c:82-143.  Between two requests the two ends agree: nothing
\* of the last one is left in the pipes or in the process, which waits for a method.
StreamAligned ==
  pc = "idle" /\ handler = "none" /\ child # "dead" /\ PlainUpTo(current) =>
    /\ toChild = <<>> /\ fromChild = <<>> /\ buffer = <<>> /\ state = "Method"

\* cgi.c:124-150.  An answer of another request reaches a client only when a script before
\* has printed in several pieces.
OwnAnswers ==
  \A i \in 1..current : \A k \in DOMAIN replies[i] :
    replies[i][k][1] \in {"answer", "ack"} /\ replies[i][k] # <<"answer", i>> =>
      \E j \in 1..(i - 1) : requests[j].file = "big"

\* cgi.c:145-151.  A request whose script answers gets that answer and nothing else, unless
\* a process has ended on it: the answer is never missed, nor taken for the acknowledgement.
Answered ==
  \A i \in 1..current :
    (i < current \/ pc = "idle") /\ PlainUpTo(i) /\ Answering(requests[i]) /\ ~lost[i] =>
      outcome[i] = "complete" /\ replies[i] = <<<<"answer", i>>>>

\* cgi_worker.c:41-72.  One process runs all scripts, and each finds in its environment its
\* own method, file and headers, and nothing of a request before.
OwnEnvironment ==
  child \in {"run", "flush"} /\ PlainUpTo(current - 1) =>
    /\ env.method = <<"method", current>> /\ env.uri = <<"uri", current>>
    /\ env.length = IF request.length = None THEN Unset ELSE <<"value", current>>

\* cgi.c:138-151.  A connection is completed after it was answered 500 and closed only when
\* a process ended while its request was served.
UseFollowsDeath ==
  \A i \in 1..current : outcome[i] = "complete" /\ <<"500", 0>> \in Range(replies[i]) => lost[i]

\* The thread is blocked on a process that never got the head: it has replaced the one that
\* had read it and ended, in a moment when the thread was not yet in select.
Stranded ==
  pc \in {"blockHead", "blockAnswer"} /\ ~woken /\ child = "read" /\ lost[current]

\* cgi.c:69-76, 85-96, 138.  The queue is served to the end as long as scripts answer, through
\* processes that end on the way, but for a replacement that leaves the thread stranded.
AllServed ==
  <>((pc = "idle" /\ current = MaxRequests) \/ Stranded \/ ~PlainUpTo(MaxRequests))
=============================================================================
