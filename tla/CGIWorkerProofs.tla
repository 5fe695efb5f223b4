--------------------------- MODULE CGIWorkerProofs ----------------------------
(***************************************************************************)
(* Theorems about CGIWorker, for every set of requests and every number of *)
(* them.                                                                   *)
(***************************************************************************)
EXTENDS CGIWorker, NumberFacts

Refusal == <<"500", 0>>

\* A sequence in which there is no 500.
NoRefusal(s) == \E S : s \in Seq(S) /\ Refusal \notin S

\* What the consumer thread knows of the process: when it has ended, the request served is
\* marked, so that the 500 of a failed second wait falls on a marked request.
DeathNoticed == child = "dead" /\ pc # "idle" => lost[current]

\* A request that is not finished has no outcome, one not begun has no reply.
Unfinished ==
  /\ \A i \in 1..MaxRequests : i > current => outcome[i] = "none" /\ NoRefusal(replies[i])
  /\ pc # "idle" => outcome[current] = "none"

\* A 500 stands in the replies of a request that failed, or that a process ended on.
Refused ==
  \A i \in 1..MaxRequests : NoRefusal(replies[i]) \/ lost[i] \/ outcome[i] = "failed"

RepliesType == DOMAIN replies = 1..MaxRequests

\* The facts about replies, outcomes and the process that a step keeps, given TypeOK.
History ==
  NoRefusal(fromChild) /\ RepliesType /\ DeathNoticed /\ Unfinished /\ Refused

-----------------------------------------------------------------------------
(* Sequences without a 500.                                                *)

LEMMA EmptyClean == NoRefusal(<<>>)
<1>1. <<>> \in Seq({})
  OBVIOUS
<1>2. Refusal \notin {}
  OBVIOUS
<1> QED
  BY <1>1, <1>2, Zenon DEF NoRefusal

LEMMA AppendClean ==
  ASSUME NEW s, NoRefusal(s), NEW x, x # Refusal
  PROVE  NoRefusal(Append(s, x))
<1>1. PICK S : s \in Seq(S) /\ Refusal \notin S
  BY DEF NoRefusal
<1>2. s \in Seq(S \cup {x})
  BY <1>1
<1>3. Append(s, x) \in Seq(S \cup {x})
  BY <1>2
<1>4. Refusal \notin S \cup {x}
  BY <1>1
<1> QED
  BY <1>3, <1>4 DEF NoRefusal

LEMMA TailClean ==
  ASSUME NEW s, NoRefusal(s), s # <<>>
  PROVE  NoRefusal(Tail(s))
<1>1. PICK S : s \in Seq(S) /\ Refusal \notin S
  BY DEF NoRefusal
<1>2. Tail(s) \in Seq(S)
  BY <1>1
<1> QED
  BY <1>1, <1>2 DEF NoRefusal

LEMMA ConcatClean ==
  ASSUME NEW s, NoRefusal(s), NEW t, NoRefusal(t)
  PROVE  NoRefusal(s \o t)
<1>1. PICK S : s \in Seq(S) /\ Refusal \notin S
  BY DEF NoRefusal
<1>2. PICK T : t \in Seq(T) /\ Refusal \notin T
  BY DEF NoRefusal
<1>3. s \in Seq(S \cup T) /\ t \in Seq(S \cup T)
  BY <1>1, <1>2
<1>4. s \o t \in Seq(S \cup T)
  BY <1>3
<1>5. Refusal \notin S \cup T
  BY <1>1, <1>2
<1> QED
  BY <1>4, <1>5 DEF NoRefusal

LEMMA CleanRange ==
  ASSUME NEW s, NoRefusal(s)
  PROVE  Refusal \notin Range(s)
<1>1. PICK S : s \in Seq(S) /\ Refusal \notin S
  BY DEF NoRefusal
<1>2. \A k \in DOMAIN s : s[k] \in S
  BY <1>1
<1> QED
  BY <1>1, <1>2, Zenon DEF Range

\* The head of a request has three or five strings.
LEMMA HeadLength ==
  ASSUME NEW i
  PROVE  Len(HeadOf(i)) \in Nat /\ Len(HeadOf(i)) >= 1
<1>1. CASE requests[i].length = None
  <2>1. HeadOf(i) = <<<<"method", i>>, <<"uri", i>>>> \o <<>> \o <<<<"end", i>>>>
    BY <1>1 DEF HeadOf
  <2>2. Len(HeadOf(i)) = 3
    BY <2>1
  <2> QED
    BY <2>2
<1>2. CASE requests[i].length # None
  <2>1. HeadOf(i) = <<<<"method", i>>, <<"uri", i>>>> \o <<<<"name", i>>, <<"value", i>>>>
                      \o <<<<"end", i>>>>
    BY <1>2 DEF HeadOf
  <2>2. Len(HeadOf(i)) = 5
    BY <2>1
  <2> QED
    BY <2>2
<1> QED
  BY <1>1, <1>2

-----------------------------------------------------------------------------
(* Types.                                                                  *)

LEMMA InitType == Init => TypeOK
<1> SUFFICES ASSUME Init PROVE TypeOK
  OBVIOUS
<1>1. MaxRequests \in Nat
  BY RequestAssumption
<1>2. woken \in BOOLEAN
  BY Zenon DEF Init
<1>3. /\ requests \in [1..MaxRequests -> Requests]
      /\ pc = "idle" /\ current = 0 /\ position = 1
      /\ handler = "none" /\ child = "read" /\ state = "Method"
  BY DEF Init
<1>4. outcome \in [1..MaxRequests -> {"none", "failed", "complete"}]
  BY DEF Init
<1>5. lost \in [1..MaxRequests -> BOOLEAN]
  BY DEF Init
<1> QED
  BY <1>1, <1>2, <1>3, <1>4, <1>5 DEF TypeOK

LEMMA ConsumerType == TypeOK /\ Consumer => TypeOK'
<1> SUFFICES ASSUME TypeOK, Consumer PROVE TypeOK'
  OBVIOUS
<1> USE DEF TypeOK, parent, pipes, process
<1>0. MaxRequests \in Nat
  BY RequestAssumption
<1>1. CASE Take
  <2>1. current' \in 1..MaxRequests /\ lost' \in [1..MaxRequests -> BOOLEAN]
    BY <1>0, <1>1 DEF Take
  <2>2. position' <= Len(HeadOf(current)')
    BY <1>1, HeadLength DEF Take, HeadOf
  <2> QED
    BY <1>1, <2>1, <2>2 DEF Take
<1>2. CASE SendHead
  <2>1. outcome' \in [1..MaxRequests -> {"none", "failed", "complete"}]
    BY <1>2 DEF SendHead, FailRequest
  <2>2. /\ UNCHANGED <<requests, current, woken, handler, child, state, lost>>
        /\ current > 0
    BY <1>2 DEF SendHead
  <2>3. HeadOf(current)' = HeadOf(current)
    BY <2>2 DEF HeadOf
  <2>4. /\ position' \in Nat \ {0} /\ pc' \in {"idle", "send", "waitHead"}
        /\ pc' = "send" => position' <= Len(HeadOf(current))
    BY <1>2, HeadLength DEF SendHead, FailRequest
  <2> QED
    BY <2>1, <2>2, <2>3, <2>4
<1>3. CASE WaitHead
  BY <1>3 DEF WaitHead, Wait
<1>4. CASE ReadHead
  BY <1>4 DEF ReadHead, FailRequest
<1>5. CASE SendBody
  BY <1>5 DEF SendBody, FailRequest
<1>6. CASE WaitAnswer
  BY <1>6 DEF WaitAnswer, Wait
<1>7. CASE ReadAnswer
  BY <1>7 DEF ReadAnswer
<1>8. CASE Complete
  BY <1>8 DEF Complete
<1> QED
  BY <1>1, <1>2, <1>3, <1>4, <1>5, <1>6, <1>7, <1>8 DEF Consumer

\* A step that leaves requests, pc, current and position alone keeps what they say.
LEMMA PlaceType ==
  ASSUME TypeOK, UNCHANGED <<requests, pc, current, position, outcome>>,
         woken' \in BOOLEAN, lost' \in [1..MaxRequests -> BOOLEAN],
         handler' \in {"none", "closed"}, handler' = "closed" => child' = "dead",
         child' \in {"read", "run", "flush", "dead"},
         state' \in {"Method", "URI", "HeaderName", "HeaderValue"}
  PROVE  TypeOK'
<1>1. HeadOf(current)' = HeadOf(current)
  BY DEF HeadOf
<1> QED
  BY <1>1 DEF TypeOK

LEMMA SignalType == TypeOK /\ (HandlerCloses \/ CreateChild) => TypeOK'
<1>1. ASSUME TypeOK, HandlerCloses PROVE TypeOK'
  BY <1>1, PlaceType DEF HandlerCloses, parent, process, TypeOK
<1>2. ASSUME TypeOK, CreateChild PROVE TypeOK'
  BY <1>2, PlaceType DEF CreateChild, parent, pipes, TypeOK
<1> QED
  BY <1>1, <1>2

\* What a step of a script does to the process and to the request served.
LEMMA RunEffect ==
  ASSUME TypeOK, RunFile
  PROVE  /\ child' \in {"read", "run", "flush", "dead"}
         /\ woken' \in BOOLEAN /\ lost' \in [1..MaxRequests -> BOOLEAN]
         /\ \A i \in 1..MaxRequests : lost[i] => lost'[i]
         /\ child' = "dead" /\ pc # "idle" => lost'[current]
         /\ fromChild' = fromChild \/ fromChild' = Append(fromChild, <<"answer", env.uri[2]>>)
         /\ UNCHANGED <<requests, pc, current, position, replies, outcome, handler, state>>
<1>0. MaxRequests \in Nat
  BY RequestAssumption
<1>1. ASSUME Returns \/ (UNCHANGED <<lost, woken>> /\ child' \in {"read", "flush"})
      PROVE  /\ child' \in {"read", "flush"}
             /\ woken' \in BOOLEAN /\ lost' \in [1..MaxRequests -> BOOLEAN]
             /\ \A i \in 1..MaxRequests : lost[i] => lost'[i]
  BY <1>1 DEF Returns, TypeOK
<1>2. ASSUME Dies
      PROVE  /\ child' = "dead"
             /\ woken' \in BOOLEAN /\ lost' \in [1..MaxRequests -> BOOLEAN]
             /\ \A i \in 1..MaxRequests : lost[i] => lost'[i]
             /\ pc # "idle" => lost'[current]
  <2>1. woken' \in BOOLEAN
    BY <1>2, Zenon DEF Dies, TypeOK
  <2> QED
    BY <1>0, <1>2, <2>1 DEF Dies, TypeOK
<1>3. ASSUME Silent \/ Prints
      PROVE  fromChild' = fromChild \/ fromChild' = Append(fromChild, <<"answer", env.uri[2]>>)
  BY <1>3 DEF Silent, Prints
<1>4. \A data : Compute(data) => Silent \/ Prints
  BY DEF Compute
<1>5. UNCHANGED <<requests, pc, current, position, replies, outcome, handler, state>>
  BY DEF RunFile
<1>6. CASE RunMissing
  <2>1. Silent /\ (Dies \/ Returns)
    BY <1>6 DEF RunMissing
  <2> QED
    BY <1>1, <1>2, <1>3, <1>5, <2>1
<1>7. CASE RunGet
  <2>1. (Silent \/ Prints) /\ Returns
    BY <1>4, <1>7 DEF RunGet
  <2> QED
    BY <1>1, <1>3, <1>5, <2>1
<1>8. CASE RunPost
  <2>1. (Silent \/ Prints) /\ Returns
    BY <1>4, <1>8, Zenon DEF RunPost
  <2> QED
    BY <1>1, <1>3, <1>5, <2>1
<1>9. CASE RunOther
  <2>1. Silent /\ Returns
    BY <1>9 DEF RunOther
  <2> QED
    BY <1>1, <1>3, <1>5, <2>1
<1>10. CASE RunBig
  <2>1. Prints /\ UNCHANGED <<lost, woken>> /\ child' \in {"read", "flush"}
    BY <1>10 DEF RunBig
  <2> QED
    BY <1>1, <1>3, <1>5, <2>1
<1>11. CASE RunExit
  <2>1. \/ Prints /\ UNCHANGED <<lost, woken>> /\ child' \in {"read", "flush"}
        \/ Silent /\ Dies
    BY <1>11 DEF RunExit
  <2> QED
    BY <1>1, <1>2, <1>3, <1>5, <2>1
<1> QED
  BY <1>6, <1>7, <1>8, <1>9, <1>10, <1>11 DEF RunFile

LEMMA WorkerType == TypeOK /\ Worker => TypeOK'
<1>1. ASSUME TypeOK, ReadStdin PROVE TypeOK'
  BY <1>1, PlaceType DEF ReadStdin, parent, TypeOK
<1>2. ASSUME TypeOK, TakeString PROVE TypeOK'
  <2>1. /\ child' \in {"read", "run"} /\ child = "read"
        /\ state' \in {"Method", "URI", "HeaderName", "HeaderValue"}
        /\ UNCHANGED <<requests, parent, handler, lost>>
    BY <1>2 DEF TakeString, TakeMethod, TakeURI, TakeHeaderName, TakeHeaderValue, EndHead,
                Goes, TypeOK
  <2> QED
    BY <1>2, <2>1, PlaceType DEF parent, TypeOK
<1>3. ASSUME TypeOK, RunFile PROVE TypeOK'
  <2>1. child # "dead"
    BY <1>3 DEF RunFile
  <2> QED
    BY <1>3, <2>1, RunEffect, PlaceType DEF TypeOK
<1> QED
  BY <1>1, <1>2, <1>3 DEF Worker

\* The program counters and the states stay in their sets; the consumer thread serves a
\* request that there is and sends strings that its head has.
THEOREM TypeCorrect == Spec => []TypeOK
<1>1. TypeOK /\ [Next]_vars => TypeOK'
  <2>1. ASSUME TypeOK, UNCHANGED vars PROVE TypeOK'
    BY <2>1, PlaceType DEF vars, parent, process, pipes, TypeOK
  <2> QED
    BY <2>1, ConsumerType, SignalType, WorkerType DEF Next
<1> QED
  BY InitType, <1>1, PTL DEF Spec

-----------------------------------------------------------------------------
(* The 500 and what follows it.                                            *)

LEMMA InitHistory == Init => History
<1> SUFFICES ASSUME Init PROVE History
  OBVIOUS
<1>1. NoRefusal(fromChild) /\ RepliesType /\ DeathNoticed
  BY EmptyClean DEF Init, RepliesType, DeathNoticed
<1>2. \A i \in 1..MaxRequests : outcome[i] = "none" /\ NoRefusal(replies[i])
  BY EmptyClean DEF Init
<1> QED
  BY <1>1, <1>2 DEF Init, History, Unfinished, Refused

\* Answer500 and return.
LEMMA FailHistory ==
  ASSUME TypeOK, History, pc # "idle", FailRequest, UNCHANGED <<current, lost>>,
         NoRefusal(fromChild')
  PROVE  History'
<1>1. current \in 1..MaxRequests /\ MaxRequests \in Nat
  BY RequestAssumption DEF TypeOK
<1>2. /\ pc' = "idle" /\ DOMAIN replies' = 1..MaxRequests
      /\ outcome' \in [1..MaxRequests -> {"none", "failed", "complete"}]
      /\ outcome'[current] = "failed"
      /\ \A i \in 1..MaxRequests : i # current => outcome'[i] = outcome[i]
                                                  /\ replies'[i] = replies[i]
  BY <1>1 DEF FailRequest, Answer500, History, RepliesType, TypeOK
<1>3. DeathNoticed' /\ RepliesType'
  BY <1>2 DEF DeathNoticed, RepliesType
<1>4. Unfinished'
  BY <1>1, <1>2 DEF History, Unfinished
<1>5. Refused'
  BY <1>1, <1>2 DEF History, Refused
<1> QED
  BY <1>3, <1>4, <1>5 DEF History

\* A step inside a request that neither answers nor ends it.
LEMMA SilentHistory ==
  ASSUME History, UNCHANGED <<replies, outcome, lost, current, child>>,
         pc # "idle", NoRefusal(fromChild')
  PROVE  History'
BY DEF History, RepliesType, DeathNoticed, Unfinished, Refused

LEMMA TakeHistory == ASSUME TypeOK, History, Take PROVE History'
<1>1. MaxRequests \in Nat /\ current \in 0..MaxRequests
  BY RequestAssumption DEF TypeOK
<1>2. /\ current' = current + 1 /\ current' \in 1..MaxRequests
      /\ UNCHANGED <<replies, outcome, fromChild, child>>
      /\ lost' = [lost EXCEPT ![current + 1] = child = "dead"]
  BY <1>1 DEF Take, pipes, process
<1>3. lost'[current'] = (child = "dead")
  BY <1>2 DEF TypeOK
<1>4. \A i \in 1..MaxRequests : i # current' => lost'[i] = lost[i]
  BY <1>2 DEF TypeOK
<1>5. DeathNoticed'
  BY <1>2, <1>3 DEF DeathNoticed
<1>6. Unfinished'
  BY <1>1, <1>2 DEF Unfinished, History
<1>7. Refused'
  <2> SUFFICES ASSUME NEW i \in 1..MaxRequests
               PROVE  NoRefusal(replies[i]) \/ lost'[i] \/ outcome[i] = "failed"
    BY <1>2 DEF Refused
  <2>1. CASE i = current'
    BY <1>1, <1>2, <2>1 DEF Unfinished, History
  <2>2. CASE i # current'
    BY <1>4, <2>2 DEF Refused, History
  <2> QED
    BY <2>1, <2>2
<1> QED
  BY <1>2, <1>5, <1>6, <1>7 DEF History, RepliesType

\* The 500 behind a failed second wait falls on a request that a process ended on.
LEMMA WaitAnswerHistory == ASSUME TypeOK, History, WaitAnswer PROVE History'
<1>1. current \in 1..MaxRequests /\ MaxRequests \in Nat
  BY RequestAssumption DEF TypeOK, WaitAnswer, Wait
<1>2. /\ pc # "idle" /\ UNCHANGED <<outcome, lost, current, child, fromChild>>
  BY DEF WaitAnswer, Wait, pipes, process
<1>3. CASE UNCHANGED replies
  BY <1>2, <1>3, SilentHistory DEF History
<1>4. CASE handler = "closed" /\ Answer500
  <2>1. lost[current]
    BY <1>2, <1>4 DEF TypeOK, History, DeathNoticed
  <2>2. /\ DOMAIN replies' = 1..MaxRequests
        /\ \A i \in 1..MaxRequests : i # current => replies'[i] = replies[i]
    BY <1>1, <1>4 DEF Answer500, History, RepliesType
  <2> QED
    BY <1>1, <1>2, <2>1, <2>2
       DEF History, RepliesType, DeathNoticed, Unfinished, Refused
<1> QED
  BY <1>3, <1>4 DEF WaitAnswer

\* What is read goes to the client; it holds no 500 of the consumer thread's.
LEMMA ReadAnswerHistory == ASSUME TypeOK, History, ReadAnswer PROVE History'
<1>1. current \in 1..MaxRequests /\ MaxRequests \in Nat
  BY RequestAssumption DEF TypeOK, ReadAnswer
<1>2. /\ pc # "idle" /\ UNCHANGED <<pc, outcome, lost, current, child>>
      /\ fromChild' = <<>>
      /\ DOMAIN replies' = 1..MaxRequests
      /\ replies'[current] = replies[current] \o fromChild
      /\ \A i \in 1..MaxRequests : i # current => replies'[i] = replies[i]
  BY <1>1 DEF ReadAnswer, process, History, RepliesType
<1>3. NoRefusal(replies[current]) => NoRefusal(replies'[current])
  BY <1>2, ConcatClean DEF History
<1>4. Refused'
  BY <1>1, <1>2, <1>3 DEF History, Refused
<1>5. Unfinished'
  BY <1>1, <1>2 DEF History, Unfinished
<1> QED
  BY <1>2, <1>4, <1>5, EmptyClean DEF History, RepliesType, DeathNoticed

LEMMA CompleteHistory == ASSUME TypeOK, History, Complete PROVE History'
<1>1. current \in 1..MaxRequests /\ MaxRequests \in Nat
  BY RequestAssumption DEF TypeOK, Complete
<1>2. /\ pc = "readAnswer" /\ pc' = "idle"
      /\ UNCHANGED <<replies, lost, current, child, fromChild>>
      /\ outcome'[current] = "complete"
      /\ \A i \in 1..MaxRequests : i # current => outcome'[i] = outcome[i]
  BY <1>1 DEF Complete, pipes, process, TypeOK
<1>3. Unfinished'
  BY <1>1, <1>2 DEF History, Unfinished
<1>4. Refused'
  BY <1>1, <1>2 DEF History, Refused, Unfinished
<1> QED
  BY <1>2, <1>3, <1>4 DEF History, RepliesType, DeathNoticed

LEMMA ConsumerHistory == ASSUME TypeOK, History, Consumer PROVE History'
<1>1. CASE SendHead
  BY <1>1, FailHistory, SilentHistory DEF SendHead, History, process
<1>2. CASE WaitHead
  BY <1>2, SilentHistory DEF WaitHead, Wait, History, process, pipes
<1>3. CASE ReadHead
  <2>1. NoRefusal(fromChild')
    BY <1>3, TailClean DEF ReadHead, Filled, History
  <2> QED
    BY <1>3, <2>1, FailHistory, SilentHistory DEF ReadHead, process
<1>4. CASE SendBody
  BY <1>4, FailHistory, SilentHistory DEF SendBody, History, process
<1> QED
  BY <1>1, <1>2, <1>3, <1>4, TakeHistory, WaitAnswerHistory, ReadAnswerHistory,
     CompleteHistory DEF Consumer

LEMMA SignalHistory ==
  ASSUME TypeOK, History, HandlerCloses \/ CreateChild PROVE History'
<1>1. /\ UNCHANGED <<pc, current, replies, outcome, lost>>
      /\ child' = child \/ child' = "read"
      /\ fromChild' = <<>> \/ fromChild' = fromChild
  BY DEF HandlerCloses, CreateChild, parent, process, pipes
<1>2. NoRefusal(fromChild')
  BY <1>1, EmptyClean DEF History
<1> QED
  BY <1>1, <1>2 DEF History, RepliesType, DeathNoticed, Unfinished, Refused

LEMMA WorkerHistory == ASSUME TypeOK, History, Worker PROVE History'
<1>1. CASE ReadStdin
  BY <1>1 DEF ReadStdin, parent, History, RepliesType, DeathNoticed, Unfinished, Refused
<1>2. CASE TakeString
  <2>1. /\ UNCHANGED <<pc, current, replies, outcome, lost>>
        /\ child' = child \/ child' = "run"
        /\ fromChild' = fromChild \/ fromChild' = Append(fromChild, Ack)
    BY <1>2 DEF TakeString, TakeMethod, TakeURI, TakeHeaderName, TakeHeaderValue, EndHead,
                Goes, parent
  <2>2. NoRefusal(fromChild')
    BY <2>1, AppendClean DEF History, Ack, Refusal
  <2> QED
    BY <2>1, <2>2 DEF History, RepliesType, DeathNoticed, Unfinished, Refused
<1>3. CASE RunFile
  <2>1. /\ UNCHANGED <<pc, current, replies, outcome>>
        /\ \A i \in 1..MaxRequests : lost[i] => lost'[i]
        /\ child' = "dead" /\ pc # "idle" => lost'[current]
        /\ fromChild' = fromChild \/ fromChild' = Append(fromChild, <<"answer", env.uri[2]>>)
    BY <1>3, RunEffect
  <2>2. NoRefusal(fromChild')
    BY <2>1, AppendClean DEF History, Refusal
  <2> QED
    BY <2>1, <2>2 DEF History, RepliesType, DeathNoticed, Unfinished, Refused
<1> QED
  BY <1>1, <1>2, <1>3 DEF Worker

\* What has been answered and lost is as History says, along every behaviour.
THEOREM HistoryKept == Spec => []History
<1>1. TypeOK /\ History /\ [Next]_vars => History'
  <2>1. ASSUME History, UNCHANGED vars PROVE History'
    BY <2>1 DEF vars, parent, process, pipes, History, RepliesType, DeathNoticed,
                Unfinished, Refused
  <2> QED
    BY <2>1, ConsumerHistory, SignalHistory, WorkerHistory DEF Next
<1> QED
  BY InitHistory, <1>1, TypeCorrect, PTL DEF Spec

\* cgi.c:138-151.  A connection that was answered 500 and closed is completed, and so used
\* after it was freed, only when a process ended while its request was served.
THEOREM UseOnlyAfterDeath == Spec => []UseFollowsDeath
<1>1. TypeOK /\ History => UseFollowsDeath
  <2> SUFFICES ASSUME TypeOK, History, NEW i \in 1..current,
                      outcome[i] = "complete", <<"500", 0>> \in Range(replies[i])
               PROVE  lost[i]
    BY DEF UseFollowsDeath
  <2>1. i \in 1..MaxRequests
    BY RequestAssumption DEF TypeOK
  <2>2. ~NoRefusal(replies[i])
    BY CleanRange DEF Refusal
  <2> QED
    BY <2>1, <2>2 DEF History, Refused
<1> QED
  BY <1>1, TypeCorrect, HistoryKept, PTL

-----------------------------------------------------------------------------
(* The dialogue of the consumer thread and the process.                    *)

\* What is sent: something of a request that there is, or a token that belongs to none.
Token ==
  ({"method", "uri", "name", "value", "end", "body", "answer"} \X (1..MaxRequests))
    \cup {Ack, Unset, Refusal, <<"junk", 0>>}

HeadPCs   == {"waitHead", "blockHead", "readHead"}
AnswerPCs == {"body", "waitAnswer", "blockAnswer", "readAnswer"}

Own == <<"answer", current>>

\* All of s belongs to bodies.
Bytes(s) == \A k \in DOMAIN s : s[k][1] = "body"

\* How much of the head has been sent.
Sent == IF pc = "send" THEN position - 1 ELSE Len(HeadOf(current))

\* s is junk bytes of bodies and then the strings lo + 1 to hi of a head.
Piece(head, s, junk, lo, hi) ==
  /\ Len(s) = junk + (hi - lo)
  /\ \A k \in 1..junk : s[k][1] = "body"
  /\ \A k \in (lo + 1)..hi : s[junk + (k - lo)] = head[k]

\* The method is that of the request, if nothing was left before it.
OwnMethod == env.method = <<"method", current>> \/ ~PlainUpTo(current - 1)

\* What the process has made of the first n strings of the head.
Taken(n) ==
  /\ state = (CASE n = 0 -> "Method" [] n = 1 -> "URI" [] n = 3 -> "HeaderValue"
                [] OTHER -> "HeaderName")
  /\ n >= 1 => OwnMethod
  /\ n \in 1..3 => env.length = Unset
  /\ n >= 2 => env.uri = <<"uri", current>>
  /\ n = 3 => env.name = <<"name", current>>
  /\ n = 4 => env.length = <<"value", current>>

\* The script of a request before, that is about to leave with sys.exit.
Leaving ==
  /\ child = "flush" /\ env.uri[1] = "uri" /\ env.uri[2] \in 1..(current - 1)
  /\ requests[env.uri[2]].file = "exit"

\* The process takes the head of the request.
Entering(n, m, a, b) ==
  /\ n <= m /\ m <= Sent /\ n < Len(HeadOf(current))
  /\ Piece(HeadOf(current), buffer, a, n, m) /\ Piece(HeadOf(current), toChild, b, m, Sent)
  /\ a > 0 => n = 0
  /\ b > 0 => m = 0
  /\ a > 0 \/ b > 0 => ~PlainUpTo(current - 1)
  /\ child = "read" \/ (Leaving /\ n = 0)
  /\ Taken(n)

EntersHead ==
  /\ pc \in {"send", "waitHead", "blockHead"} /\ (pc = "blockHead" => ~woken)
  /\ fromChild = <<>>
  /\ \E n, m \in 0..5, a, b \in Nat : Entering(n, m, a, b)

OwnEnv ==
  /\ OwnMethod /\ env.uri = <<"uri", current>>
  /\ env.length = IF request.length = None THEN Unset ELSE <<"value", current>>

\* The one answer of a script that answers.
AnswerDue ==
  \/ child = "run"
  \/ /\ child = "read" /\ buffer = <<>> /\ toChild = <<>>
     /\ \/ pc \in HeadPCs /\ fromChild = <<Ack, Own>> /\ request.length <= 0
        \/ pc = "body" /\ fromChild = <<Own>> /\ request.length <= 0
        \/ pc \in {"waitAnswer", "blockAnswer"} /\ fromChild = <<Own>>
        \/ pc = "readAnswer" /\ fromChild = <<Own>> /\ replies[current] = <<>>
        \/ pc = "readAnswer" /\ fromChild = <<>> /\ replies[current] = <<Own>>

\* The process has taken the head of the request.
Working ==
  /\ pc \in HeadPCs \cup AnswerPCs /\ (pc \in {"blockHead", "blockAnswer"} => ~woken)
  /\ child \in {"run", "flush", "read"} /\ state = "Method" /\ OwnEnv
  /\ child = "flush" => request.file \in {"big", "exit"}
  /\ pc \in HeadPCs => fromChild # <<>>
  /\ pc \in HeadPCs \cup {"body"} => buffer = <<>> /\ toChild = <<>>
  /\ Bytes(buffer) /\ Bytes(toChild)
  /\ child = "run" =>
       /\ buffer = <<>> /\ pc # "readAnswer"
       /\ pc \in {"waitAnswer", "blockAnswer"} => toChild = BodyOf(current)
       /\ fromChild = IF pc \in HeadPCs THEN <<Ack>> ELSE <<>>
  /\ PlainUpTo(current - 1) /\ Answering(request) => AnswerDue
  /\ PlainUpTo(current - 1) /\ Recovering(request) => child = "run"

Fresh ==
  child = "read" /\ state = "Method" /\ buffer = <<>> /\ toChild = <<>> /\ fromChild = <<>>

\* The process has not got the beginning of the head.
Stray ==
  /\ pc # "idle" /\ lost[current] /\ env.uri[1] # "uri"
  /\ child \in {"read", "run"}
  /\ PlainUpTo(current - 1) =>
       pc # "send" /\ child = "read" /\ state = "Method" /\ Bytes(buffer) /\ Bytes(toChild)
  /\ pc \in {"blockHead", "blockAnswer"} /\ woken => Fresh
  /\ pc \in HeadPCs \cup {"send"} =>
       /\ \A k \in DOMAIN buffer : 
            /\ IsString(buffer[k])
            /\ buffer[k][1] = "uri" => k = 1 /\ state = "Method"
            /\ buffer[k][1] = "end" => k = Len(buffer) /\ toChild = <<>> /\ pc # "send"
       /\ \A k \in DOMAIN toChild : 
            /\ IsString(toChild[k])
            /\ toChild[k][1] = "uri" => k = 1 /\ buffer = <<>> /\ state = "Method"
            /\ toChild[k][1] = "end" => k = Len(toChild) /\ pc # "send"
  /\ pc = "send" =>
       /\ position >= 2 /\ child = "read" /\ fromChild = <<>>
       /\ position = 2 => Fresh
  /\ pc \in HeadPCs =>
       \/ child = "read" /\ fromChild = <<>> /\ (pc = "readHead" => Fresh)
       \/ fromChild = <<Ack>> /\ buffer = <<>> /\ toChild = <<>> /\ state = "Method"
  /\ pc \in AnswerPCs =>
       /\ fromChild = <<>> /\ state = "Method" /\ Bytes(buffer) /\ Bytes(toChild)
       /\ pc = "body" => buffer = <<>> /\ toChild = <<>>
       /\ pc = "readAnswer" => Fresh

Rests ==
  /\ child \in {"read", "flush"} /\ state = "Method" /\ Bytes(buffer) /\ Bytes(toChild)
  /\ child = "flush" => current > 0 /\ OwnEnv /\ request.file \in {"big", "exit"}
  /\ (current > 0 => request.file # "big") => fromChild = <<>>
  /\ PlainUpTo(current) => buffer = <<>> /\ toChild = <<>>

Dead == pc = "send" /\ position >= 2 => ~PlainUpTo(current - 1)

Output ==
  /\ pc \in HeadPCs /\ fromChild # <<>> =>
       fromChild[1] = Ack /\ \A k \in DOMAIN fromChild : k > 1 => fromChild[k] = Own
  /\ pc \in AnswerPCs => \A k \in DOMAIN fromChild : fromChild[k] = Own

Single == \A j \in 1..(current - 1) : requests[j].file # "big"

\* What the two ends are at.
Modes ==
  /\ Output
  /\ child = "dead" => Dead
  /\ child # "dead" /\ pc = "idle" => Rests
  /\ child # "dead" /\ pc # "idle" => EntersHead \/ Working \/ Stray

Dialogue == Single => Modes

Begun ==
  /\ \A j \in 1..MaxRequests : j > current => replies[j] = <<>>
  /\ pc \notin {"idle", "readAnswer"} => replies[current] = <<>>
  /\ handler = "closed" => toChild = <<>> /\ fromChild = <<>>

Replied ==
  \A i \in 1..MaxRequests : \A k \in DOMAIN replies[i] :
    \/ replies[i][k] \in {<<"500", 0>>, <<"answer", i>>}
    \/ \E j \in 1..(i - 1) : requests[j].file = "big"

StreamType ==
  /\ buffer \in Seq(Token) /\ toChild \in Seq(Token) /\ fromChild \in Seq(Token)
  /\ env \in [method : Token, uri : Token, name : Token, length : Token]
  /\ replies \in [1..MaxRequests -> Seq(Token)]

-----------------------------------------------------------------------------
(* Sequences of tokens.                                                    *)

\* What is left of a sequence from one of its places on.
LEMMA FromPart ==
  ASSUME NEW T, NEW s \in Seq(T), NEW k \in 1..(Len(s) + 1)
  PROVE  /\ From(s, k) \in Seq(T) /\ Len(From(s, k)) = Len(s) - k + 1
         /\ \A j \in 1..(Len(s) - k + 1) : From(s, k)[j] = s[k + j - 1]
<1>1. CASE k <= Len(s)
  BY <1>1, SubSeqProperties DEF From
<1>2. CASE k = Len(s) + 1
  <2>1. SubSeq(s, Len(s) + 1, Len(s)) = <<>>
    OBVIOUS
  <2> QED
    BY <1>2, <2>1 DEF From
<1> QED
  BY <1>1, <1>2

\* The first string in the Buffer, if there is one.
LEMMA FirstString ==
  ASSUME buffer \in Seq(Token)
  PROVE  \/ FindString = 0 /\ \A k \in DOMAIN buffer : ~IsString(buffer[k])
         \/ /\ FindString \in DOMAIN buffer /\ IsString(buffer[FindString])
            /\ \A k \in DOMAIN buffer : k < FindString => ~IsString(buffer[k])
<1> DEFINE ends == {k \in DOMAIN buffer : IsString(buffer[k])}
<1>1. CASE ends = {}
  BY <1>1 DEF FindString
<1>2. CASE ends # {}
  <2>1. DOMAIN buffer = 1..Len(buffer) /\ Len(buffer) \in Nat
    OBVIOUS
  <2>2. ends \in SUBSET Nat
    BY <2>1
  <2>3. \E n \in ends : \A m \in ends : n <= m
    BY <1>2, <2>2, LeastElement
  <2>4. Min(ends) \in ends /\ \A m \in ends : Min(ends) <= m
    BY <2>3 DEF Min
  <2>5. FindString = Min(ends)
    BY <1>2 DEF FindString
  <2> HIDE DEF FindString
  <2>6. FindString \in ends /\ \A m \in ends : FindString <= m
    BY <2>4, <2>5
  <2> QED
    BY <2>1, <2>6
<1> QED
  BY <1>1, <1>2

LEMMA AppendToken ==
  ASSUME NEW s \in Seq(Token), NEW x \in Token
  PROVE  /\ Append(s, x) \in Seq(Token) /\ Len(Append(s, x)) = Len(s) + 1
         /\ \A k \in 1..Len(s) : Append(s, x)[k] = s[k]
         /\ Append(s, x)[Len(s) + 1] = x
OBVIOUS

LEMMA TailToken ==
  ASSUME NEW s \in Seq(Token), s # <<>>
  PROVE  /\ Tail(s) \in Seq(Token) /\ Len(Tail(s)) = Len(s) - 1 /\ Head(s) = s[1]
         /\ \A k \in 1..(Len(s) - 1) : Tail(s)[k] = s[k + 1]
OBVIOUS

LEMMA ConcatToken ==
  ASSUME NEW s \in Seq(Token), NEW t \in Seq(Token)
  PROVE  /\ s \o t \in Seq(Token) /\ Len(s \o t) = Len(s) + Len(t)
         /\ \A k \in 1..Len(s) : (s \o t)[k] = s[k]
         /\ \A k \in 1..Len(t) : (s \o t)[Len(s) + k] = t[k]
OBVIOUS

\* Three sequences in a row.
LEMMA Three ==
  ASSUME NEW T, NEW a \in Seq(T), NEW b \in Seq(T), NEW c \in Seq(T)
  PROVE  /\ (a \o b) \o c \in Seq(T) /\ Len((a \o b) \o c) = Len(a) + Len(b) + Len(c)
         /\ \A k \in 1..Len(a) : ((a \o b) \o c)[k] = a[k]
         /\ \A k \in 1..Len(b) : ((a \o b) \o c)[Len(a) + k] = b[k]
         /\ \A k \in 1..Len(c) : ((a \o b) \o c)[Len(a) + Len(b) + k] = c[k]
<1>0. Len(a) \in Nat /\ Len(b) \in Nat /\ Len(c) \in Nat
  OBVIOUS
<1>1. /\ a \o b \in Seq(T) /\ Len(a \o b) = Len(a) + Len(b)
      /\ \A k \in 1..Len(a) : (a \o b)[k] = a[k]
      /\ \A k \in 1..Len(b) : (a \o b)[Len(a) + k] = b[k]
  OBVIOUS
<1>2. ASSUME NEW d \in Seq(T)
      PROVE  /\ d \o c \in Seq(T) /\ Len(d \o c) = Len(d) + Len(c)
             /\ \A k \in 1..Len(d) : (d \o c)[k] = d[k]
             /\ \A k \in 1..Len(c) : (d \o c)[Len(d) + k] = c[k]
  OBVIOUS
<1> DEFINE d == a \o b
<1> DEFINE e == d \o c
<1>3. /\ e \in Seq(T) /\ Len(e) = Len(d) + Len(c)
      /\ \A k \in 1..Len(d) : e[k] = d[k]
      /\ \A k \in 1..Len(c) : e[Len(d) + k] = c[k]
  <2>1. d \in Seq(T)
    BY <1>1
  <2> HIDE DEF d
  <2> QED
    BY <1>2, <2>1
<1> HIDE DEF e
<1>4. /\ d \in Seq(T) /\ Len(d) = Len(a) + Len(b)
      /\ \A k \in 1..Len(a) : d[k] = a[k]
      /\ \A k \in 1..Len(b) : d[Len(a) + k] = b[k]
  BY <1>1
<1> HIDE DEF d
<1>5. /\ Len(e) = Len(a) + Len(b) + Len(c)
      /\ \A k \in 1..Len(a) : e[k] = a[k]
      /\ \A k \in 1..Len(b) : e[Len(a) + k] = b[k]
      /\ \A k \in 1..Len(c) : e[Len(a) + Len(b) + k] = c[k]
  BY <1>0, <1>3, <1>4
<1> QED
  BY <1>3, <1>5 DEF d, e

\* The strings of a head.
LEMMA HeadStrings ==
  ASSUME NEW i \in 1..MaxRequests
  PROVE  /\ HeadOf(i) \in Seq(Token)
         /\ HeadOf(i)[1] = <<"method", i>> /\ HeadOf(i)[2] = <<"uri", i>>
         /\ \/ /\ requests[i].length = None /\ Len(HeadOf(i)) = 3
               /\ HeadOf(i)[3] = <<"end", i>>
            \/ /\ requests[i].length # None /\ Len(HeadOf(i)) = 5
               /\ HeadOf(i)[3] = <<"name", i>> /\ HeadOf(i)[4] = <<"value", i>>
               /\ HeadOf(i)[5] = <<"end", i>>
<1>0. PICK m, u, n, v, e \in Token :
        /\ m = <<"method", i>> /\ u = <<"uri", i>> /\ n = <<"name", i>>
        /\ v = <<"value", i>> /\ e = <<"end", i>>
  BY DEF Token
<1> DEFINE mid == IF requests[i].length = None THEN <<>> ELSE <<n, v>>
<1>1. HeadOf(i) = <<m, u>> \o mid \o <<e>>
  BY <1>0 DEF HeadOf
<1>2. /\ mid \in Seq(Token)
      /\ requests[i].length = None => Len(mid) = 0
      /\ requests[i].length # None => Len(mid) = 2 /\ mid[1] = n /\ mid[2] = v
  OBVIOUS
<1>3. /\ <<m, u>> \in Seq(Token) /\ Len(<<m, u>>) = 2 /\ <<m, u>>[1] = m /\ <<m, u>>[2] = u
      /\ <<e>> \in Seq(Token) /\ Len(<<e>>) = 1 /\ <<e>>[1] = e
  OBVIOUS
<1> DEFINE first == <<m, u>>
<1> DEFINE last == <<e>>
<1>4. /\ first \in Seq(Token) /\ Len(first) = 2 /\ first[1] = m /\ first[2] = u
      /\ last \in Seq(Token) /\ Len(last) = 1 /\ last[1] = e
      /\ HeadOf(i) = (first \o mid) \o last
  BY <1>1, <1>3
<1> DEFINE H == HeadOf(i)
<1>5. /\ H \in Seq(Token) /\ Len(H) = Len(first) + Len(mid) + Len(last)
      /\ \A k \in 1..Len(first) : H[k] = first[k]
      /\ \A k \in 1..Len(mid) : H[Len(first) + k] = mid[k]
      /\ \A k \in 1..Len(last) : H[Len(first) + Len(mid) + k] = last[k]
  <2> HIDE DEF mid, first, last
  <2>1. H = (first \o mid) \o last
    BY <1>4
  <2>2. first \in Seq(Token) /\ mid \in Seq(Token) /\ last \in Seq(Token)
    BY <1>2, <1>4
  <2> QED
    BY <2>1, <2>2, Three
<1> HIDE DEF mid, first, last, H
<1>6. CASE requests[i].length = None
  <2>1. H \in Seq(Token) /\ Len(H) = 3 /\ H[1] = m /\ H[2] = u /\ H[3] = e
    BY <1>2, <1>4, <1>5, <1>6
  <2> QED
    BY <1>0, <1>6, <2>1 DEF H
<1>7. CASE requests[i].length # None
  <2>1. /\ H \in Seq(Token) /\ Len(H) = 5 /\ H[1] = m /\ H[2] = u
        /\ H[3] = n /\ H[4] = v /\ H[5] = e
    <3>1. Len(first) = 2 /\ Len(mid) = 2 /\ Len(last) = 1 /\ mid[1] = n /\ mid[2] = v
      BY <1>2, <1>4, <1>7
    <3>2. H[Len(first) + 1] = mid[1] /\ H[Len(first) + 2] = mid[2]
      BY <1>5, <3>1
    <3>3. H[1] = first[1] /\ H[2] = first[2] /\ H[Len(first) + Len(mid) + 1] = last[1]
      BY <1>5, <3>1
    <3> QED
      BY <1>4, <1>5, <3>1, <3>2, <3>3
  <2> QED
    BY <1>0, <1>7, <2>1 DEF H
<1> QED
  BY <1>6, <1>7

\* What is said of the request served depends on requests and current alone.
LEMMA SameRequest ==
  ASSUME UNCHANGED <<requests, current>>
  PROVE  /\ HeadOf(current)' = HeadOf(current) /\ BodyOf(current)' = BodyOf(current)
         /\ PlainUpTo(current - 1)' = PlainUpTo(current - 1)
         /\ PlainUpTo(current)' = PlainUpTo(current)
         /\ request' = request /\ Own' = Own /\ Single' = Single
BY DEF HeadOf, BodyOf, PlainUpTo, request, Own, Single

-----------------------------------------------------------------------------
(* The streams, the environment and the replies hold tokens.               *)

\* The tokens there are, and the requests they name.
LEMMA TokenFacts ==
  /\ Ack \in Token /\ Unset \in Token /\ <<"junk", 0>> \in Token /\ Refusal \in Token
  /\ \A i \in 1..MaxRequests : <<"answer", i>> \in Token /\ <<"body", i>> \in Token
  /\ \A x \in Token : x[1] \in {"uri", "value", "method"} => x[2] \in 1..MaxRequests
BY DEF Token, Ack, Unset, Refusal

\* A length that the process knows is that of a request.
LEMMA LengthType == ASSUME TypeOK, StreamType PROVE Length \in Nat \cup {None}
<1>1. CASE env.length[1] = "value"
  <2>1. env.length[2] \in 1..MaxRequests
    BY <1>1, TokenFacts DEF StreamType
  <2>2. requests[env.length[2]] \in Requests
    BY <2>1 DEF TypeOK
  <2> QED
    BY <1>1, <2>2, RequestAssumption DEF Length
<1> QED
  BY <1>1 DEF Length

\* The body of a request is as long as it says.
LEMMA BodyTokens ==
  ASSUME TypeOK, current > 0
  PROVE  /\ BodyOf(current) \in Seq(Token)
         /\ Len(BodyOf(current)) = IF request.length > 0 THEN request.length ELSE 0
         /\ \A k \in DOMAIN BodyOf(current) : BodyOf(current)[k] = <<"body", current>>
<1>1. request.length \in Int /\ current \in 1..MaxRequests
  BY RequestAssumption DEF TypeOK, request, None
<1>2. <<"body", current>> \in Token
  BY <1>1, TokenFacts
<1>3. BodyOf(current) = [k \in 1..request.length |-> <<"body", current>>]
  BY DEF BodyOf, request
<1> DEFINE L == IF request.length > 0 THEN request.length ELSE 0
<1>4. L \in Nat /\ 1..request.length = 1..L
  BY <1>1
<1> HIDE DEF L
<1>5. BodyOf(current) \in [1..L -> Token]
  BY <1>2, <1>3, <1>4
<1>6. BodyOf(current) \in Seq(Token) /\ Len(BodyOf(current)) = L
  BY <1>4, <1>5
<1> QED
  BY <1>3, <1>4, <1>6 DEF L

LEMMA FailStream ==
  ASSUME TypeOK, StreamType, current > 0, Answer500
  PROVE  replies' \in [1..MaxRequests -> Seq(Token)]
<1>1. current \in 1..MaxRequests
  BY RequestAssumption DEF TypeOK
<1>2. Append(replies[current], Refusal) \in Seq(Token)
  BY <1>1, TokenFacts, AppendToken DEF StreamType
<1> QED
  BY <1>1, <1>2 DEF Answer500, StreamType, Refusal

LEMMA ConsumerStream == ASSUME TypeOK, StreamType, Consumer PROVE StreamType'
<1> USE DEF StreamType
<1>0. pc # "idle" => current \in 1..MaxRequests /\ current > 0
  BY RequestAssumption DEF TypeOK
<1>1. CASE Take
  BY <1>1 DEF Take, pipes, process
<1>2. CASE SendHead
  <2>1. CASE Writable
    <3>1. HeadOf(current)[position] \in Token
      BY <1>0, <1>2, HeadStrings, HeadLength DEF SendHead, TypeOK
    <3>2. Append(toChild, HeadOf(current)[position]) \in Seq(Token)
      BY <3>1, AppendToken
    <3> QED
      BY <1>2, <2>1, <3>2 DEF SendHead, process
  <2>2. CASE ~Writable
    BY <1>0, <1>2, <2>2, FailStream DEF SendHead, FailRequest, process
  <2> QED
    BY <2>1, <2>2
<1>3. CASE WaitHead
  BY <1>3 DEF WaitHead, pipes, process
<1>4. CASE ReadHead
  <2>1. fromChild' \in Seq(Token)
    BY <1>4, TailToken DEF ReadHead, Filled
  <2> QED
    BY <1>0, <1>4, <2>1, FailStream DEF ReadHead, FailRequest, process
<1>5. CASE SendBody
  <2>1. toChild' \in Seq(Token)
    <3>1. toChild \o BodyOf(current) \in Seq(Token)
      BY <1>0, <1>5, BodyTokens, ConcatToken DEF SendBody
    <3> QED
      BY <1>5, <3>1 DEF SendBody
  <2> QED
    BY <1>0, <1>5, <2>1, FailStream DEF SendBody, FailRequest, process
<1>6. CASE WaitAnswer
  BY <1>0, <1>6, FailStream DEF WaitAnswer, Wait, pipes, process
<1>7. CASE ReadAnswer
  <2>1. replies' \in [1..MaxRequests -> Seq(Token)]
    BY <1>0, <1>7 DEF ReadAnswer
  <2> QED
    BY <1>7, <2>1 DEF ReadAnswer, process
<1>8. CASE Complete
  BY <1>8 DEF Complete, pipes, process
<1> QED
  BY <1>1, <1>2, <1>3, <1>4, <1>5, <1>6, <1>7, <1>8 DEF Consumer

LEMMA SignalStream == ASSUME StreamType, HandlerCloses \/ CreateChild PROVE StreamType'
<1>1. NoEnv \in [method : Token, uri : Token, name : Token, length : Token]
  BY TokenFacts DEF NoEnv
<1>2. CASE HandlerCloses
  BY <1>2 DEF HandlerCloses, parent, process, StreamType
<1>3. CASE CreateChild
  BY <1>1, <1>3 DEF CreateChild, parent, pipes, StreamType
<1> QED
  BY <1>2, <1>3

\* What a step of the process takes from the Buffer.
LEMMA DataToken == ASSUME StreamType PROVE Data \in Token
BY FirstString, TokenFacts DEF StreamType, Data

\* What a script prints, and what it takes.
LEMMA RunOutput ==
  ASSUME RunFile
  PROVE  \/ fromChild' = fromChild
         \/ File # "missing" /\ fromChild' = Append(fromChild, <<"answer", env.uri[2]>>)
<1>1. \A data : Compute(data) => Silent \/ Prints
  BY DEF Compute
<1>2. CASE RunMissing
  BY <1>2 DEF RunMissing, Silent
<1>3. CASE RunGet
  BY <1>1, <1>3 DEF RunGet, Silent, Prints
<1>4. CASE RunPost
  <2>1. (Silent \/ Prints) /\ File = "adder"
    BY <1>1, <1>4, Zenon DEF RunPost
  <2> QED
    BY <2>1 DEF Silent, Prints
<1>5. CASE RunOther
  BY <1>5 DEF RunOther, Silent
<1>6. CASE RunBig
  BY <1>6 DEF RunBig, Prints
<1>7. CASE RunExit
  BY <1>7 DEF RunExit, Silent, Prints
<1> QED
  BY <1>2, <1>3, <1>4, <1>5, <1>6, <1>7 DEF RunFile

\* What a script takes from the Buffer and from stdin.
LEMMA RunInput ==
  ASSUME TypeOK, StreamType, RunFile
  PROVE  /\ buffer' \in Seq(Token) /\ toChild' \in Seq(Token)
         /\ buffer' = buffer
              \/ (File = "missing" /\ Length > 0 /\ Length <= Len(buffer)
                    /\ buffer' = From(buffer, Length + 1))
         /\ toChild' = toChild
              \/ (File = "adder" /\ Method = "POST" /\ Length >= 0 /\ Length <= Len(toChild)
                    /\ toChild' = From(toChild, Length + 1))
<1>0. /\ buffer \in Seq(Token) /\ toChild \in Seq(Token)
      /\ Length \in Nat \/ Length = None
  BY LengthType DEF StreamType
<1>1. CASE RunMissing
  <2>1. /\ toChild' = toChild
        /\ buffer' = buffer
             \/ (File = "missing" /\ Length > 0 /\ ~(Length > Len(buffer))
                    /\ buffer' = From(buffer, Length + 1))
    BY <1>1 DEF RunMissing
  <2>2. CASE Length > 0 /\ ~(Length > Len(buffer))
    <3>1. Length + 1 \in 1..(Len(buffer) + 1) /\ Length <= Len(buffer)
      BY <1>0, <2>2 DEF None
    <3> QED
      BY <1>0, <2>1, <3>1, FromPart
  <2> QED
    BY <1>0, <2>1, <2>2
<1>2. CASE RunPost
  <2>1. /\ buffer' = buffer /\ File = "adder" /\ Method = "POST"
        /\ toChild' = toChild \/ (Length # None /\ Len(toChild) >= Length
                                    /\ toChild' = From(toChild, Length + 1))
    BY <1>2 DEF RunPost
  <2>2. CASE Length # None /\ Len(toChild) >= Length
    <3>1. Length + 1 \in 1..(Len(toChild) + 1) /\ Length <= Len(toChild) /\ Length >= 0
      BY <1>0, <2>2 DEF None
    <3> QED
      BY <1>0, <2>1, <3>1, FromPart
  <2> QED
    BY <1>0, <2>1, <2>2
<1>3. CASE RunGet \/ RunOther \/ RunBig \/ RunExit
  BY <1>0, <1>3 DEF RunGet, RunOther, RunBig, RunExit
<1> QED
  BY <1>1, <1>2, <1>3 DEF RunFile

LEMMA WorkerStream == ASSUME TypeOK, StreamType, Worker PROVE StreamType'
<1>1. CASE ReadStdin
  BY <1>1 DEF ReadStdin, parent, StreamType
<1>2. CASE TakeString
  <2>1. buffer' \in Seq(Token)
    <3>1. FindString + 1 \in 1..(Len(buffer) + 1)
      BY <1>2, FirstString DEF TakeString, StreamType
    <3> QED
      BY <1>2, <3>1, FromPart DEF TakeString, Retrieve, StreamType
  <2>2. env' \in [method : Token, uri : Token, name : Token, length : Token]
    <3>1. env \in [method : Token, uri : Token, name : Token, length : Token]
      BY DEF StreamType
    <3>2. Data \in Token /\ Unset \in Token
      BY DataToken, TokenFacts
    <3>3. PICK d \in Token, u \in Token :
            /\ u = Unset
            /\ env' \in {env, [env EXCEPT !.method = d, !.length = u], [env EXCEPT !.uri = d],
                         [env EXCEPT !.name = d], [env EXCEPT !.length = d]}
      BY <1>2, <3>2
         DEF TakeString, TakeMethod, TakeURI, TakeHeaderName, TakeHeaderValue, EndHead, Goes
    <3> QED
      BY <3>1, <3>3
  <2>3. fromChild' \in Seq(Token)
    <3>1. fromChild' \in {fromChild, Append(fromChild, Ack)}
      BY <1>2
         DEF TakeString, TakeMethod, TakeURI, TakeHeaderName, TakeHeaderValue, EndHead
    <3>2. fromChild \in Seq(Token) /\ Append(fromChild, Ack) \in Seq(Token)
      BY AppendToken, TokenFacts DEF StreamType
    <3> QED
      BY <3>1, <3>2
  <2> QED
    BY <1>2, <2>1, <2>2, <2>3 DEF TakeString, parent, StreamType
<1>3. CASE RunFile
  <2>1. /\ \/ fromChild' = fromChild
           \/ File # "missing" /\ fromChild' = Append(fromChild, <<"answer", env.uri[2]>>)
        /\ UNCHANGED <<replies, env>>
    BY <1>3, RunOutput DEF RunFile
  <2>2. CASE File # "missing"
    <3>1. env.uri[1] = "uri"
      BY <2>2 DEF File
    <3>2. <<"answer", env.uri[2]>> \in Token
      BY <3>1, TokenFacts DEF StreamType
    <3>3. /\ fromChild \in Seq(Token)
          /\ Append(fromChild, <<"answer", env.uri[2]>>) \in Seq(Token)
      BY <3>2, AppendToken DEF StreamType
    <3> QED
      BY <1>3, <2>1, <3>3, RunInput DEF StreamType
  <2>3. CASE File = "missing"
    BY <2>1, <2>3, <1>3, RunInput DEF StreamType
  <2> QED
    BY <2>2, <2>3
<1> QED
  BY <1>1, <1>2, <1>3 DEF Worker

\* What the pipes, the Buffer, the environment and the replies hold are tokens that a
\* request served, or no request, accounts for.
THEOREM StreamTyped == Spec => []StreamType
<1>1. Init => StreamType
  <2> SUFFICES ASSUME Init PROVE StreamType
    OBVIOUS
  <2>1. NoEnv \in [method : Token, uri : Token, name : Token, length : Token]
    BY TokenFacts DEF NoEnv
  <2> QED
    BY <2>1 DEF Init, StreamType
<1>2. TypeOK /\ StreamType /\ [Next]_vars => StreamType'
  <2>1. ASSUME StreamType, UNCHANGED vars PROVE StreamType'
    BY <2>1 DEF vars, parent, process, pipes, StreamType
  <2> QED
    BY <2>1, ConsumerStream, SignalStream, WorkerStream DEF Next
<1> QED
  BY <1>1, <1>2, TypeCorrect, PTL DEF Spec

\* One more string of the head is written.
LEMMA PieceAppend ==
  ASSUME NEW head, NEW s \in Seq(Token), NEW x \in Token, NEW junk \in Nat, NEW lo \in Nat,
         NEW hi \in Nat, lo <= hi, Piece(head, s, junk, lo, hi), x = head[hi + 1]
  PROVE  Piece(head, Append(s, x), junk, lo, hi + 1)
<1> DEFINE t == Append(s, x)
<1>1. /\ Len(t) = Len(s) + 1
      /\ \A k \in 1..Len(s) : t[k] = s[k]
      /\ t[Len(s) + 1] = x
  BY AppendToken
<1> HIDE DEF t
<1>2. Len(s) = junk + (hi - lo)
  BY DEF Piece
<1>3. ASSUME NEW k \in (lo + 1)..(hi + 1) PROVE t[junk + (k - lo)] = head[k]
  <2>1. CASE k = hi + 1
    <3>1. junk + (k - lo) = Len(s) + 1
      BY <1>2, <2>1
    <3> QED
      BY <1>1, <2>1, <3>1
  <2>2. CASE k <= hi
    <3>1. junk + (k - lo) \in 1..Len(s) /\ k \in (lo + 1)..hi
      BY <1>2, <2>2
    <3> QED
      BY <1>1, <3>1 DEF Piece
  <2> QED
    BY <2>1, <2>2
<1>4. \A k \in 1..junk : t[k][1] = "body"
  <2>1. \A k \in 1..junk : k \in 1..Len(s)
    BY <1>2
  <2> QED
    BY <1>1, <2>1 DEF Piece
<1>5. Len(t) = junk + ((hi + 1) - lo)
  BY <1>1, <1>2
<1>6. Piece(head, t, junk, lo, hi + 1)
  BY <1>3, <1>4, <1>5 DEF Piece
<1> QED
  BY <1>6 DEF t

\* Two pieces that follow each other are one.
LEMMA PieceConcat ==
  ASSUME NEW head, NEW s \in Seq(Token), NEW t \in Seq(Token), NEW a \in Nat, NEW b \in Nat,
         NEW lo \in Nat, NEW hi \in Nat, lo <= hi,
         Piece(head, s, a, lo, lo), Piece(head, t, b, lo, hi)
  PROVE  Piece(head, s \o t, a + b, lo, hi)
<1> DEFINE u == s \o t
<1>1. /\ Len(u) = Len(s) + Len(t)
      /\ \A k \in 1..Len(s) : u[k] = s[k]
      /\ \A k \in 1..Len(t) : u[Len(s) + k] = t[k]
  BY ConcatToken
<1> HIDE DEF u
<1>2. Len(s) = a /\ Len(t) = b + (hi - lo)
  BY DEF Piece
<1>3. ASSUME NEW k \in 1..(a + b) PROVE u[k][1] = "body"
  <2>1. CASE k <= a
    BY <1>1, <1>2, <2>1 DEF Piece
  <2>2. CASE k > a
    <3>1. PICK j \in 1..b : k = Len(s) + j
      BY <1>2, <2>2
    <3>2. j \in 1..Len(t)
      BY <1>2, <3>1
    <3>3. u[k] = t[j]
      BY <1>1, <3>1, <3>2
    <3> QED
      BY <3>1, <3>3 DEF Piece
  <2> QED
    BY <2>1, <2>2
<1>4. ASSUME NEW k \in (lo + 1)..hi PROVE u[(a + b) + (k - lo)] = head[k]
  <2>1. b + (k - lo) \in 1..Len(t)
    BY <1>2
  <2>2. u[Len(s) + (b + (k - lo))] = t[b + (k - lo)]
    BY <1>1, <2>1
  <2>3. Len(s) + (b + (k - lo)) = (a + b) + (k - lo)
    BY <1>2
  <2> QED
    BY <2>2, <2>3 DEF Piece
<1>5. Len(u) = (a + b) + (hi - lo)
  BY <1>1, <1>2
<1>6. Piece(head, u, a + b, lo, hi)
  BY <1>3, <1>4, <1>5 DEF Piece
<1> QED
  BY <1>6 DEF u

\* A piece without its first string.
LEMMA PieceTail ==
  ASSUME NEW head, NEW s \in Seq(Token), NEW junk \in Nat, NEW lo \in Nat, NEW hi \in Nat,
         lo < hi, Piece(head, s, junk, lo, hi)
  PROVE  Piece(head, From(s, junk + 2), 0, lo + 1, hi)
<1> DEFINE t == From(s, junk + 2)
<1>1. Len(s) = junk + (hi - lo)
  BY DEF Piece
<1>2. junk + 2 \in 1..(Len(s) + 1)
  BY <1>1
<1>3. /\ Len(t) = Len(s) - (junk + 2) + 1
      /\ \A j \in 1..(Len(s) - (junk + 2) + 1) : t[j] = s[(junk + 2) + j - 1]
  BY <1>2, FromPart
<1> HIDE DEF t
<1>4. ASSUME NEW k \in ((lo + 1) + 1)..hi PROVE t[0 + (k - (lo + 1))] = head[k]
  <2>1. k - (lo + 1) \in 1..(Len(s) - (junk + 2) + 1)
    BY <1>1
  <2>2. t[k - (lo + 1)] = s[(junk + 2) + (k - (lo + 1)) - 1]
    BY <1>3, <2>1
  <2>3. (junk + 2) + (k - (lo + 1)) - 1 = junk + (k - lo)
    OBVIOUS
  <2>4. k \in (lo + 1)..hi /\ 0 + (k - (lo + 1)) = k - (lo + 1)
    OBVIOUS
  <2> QED
    BY <2>2, <2>3, <2>4 DEF Piece
<1>5. Len(t) = 0 + (hi - (lo + 1))
  BY <1>1, <1>3
<1>6. Piece(head, t, 0, lo + 1, hi)
  BY <1>4, <1>5 DEF Piece
<1> QED
  BY <1>6 DEF t

\* The first string behind the junk.
LEMMA PieceFirst ==
  ASSUME NEW h, NEW junk \in Nat, NEW lo \in Nat, NEW hi \in Nat, lo <= hi,
         buffer \in Seq(Token), Piece(h, buffer, junk, lo, hi),
         lo < hi => h[lo + 1][1] # "body"
  PROVE  FindString = IF lo < hi THEN junk + 1 ELSE 0
<1>1. Len(buffer) = junk + (hi - lo) /\ DOMAIN buffer = 1..Len(buffer)
  BY DEF Piece
<1>2. \A k \in 1..junk : ~IsString(buffer[k])
  BY DEF Piece, IsString
<1>3. CASE lo < hi
  <2>1. buffer[junk + 1] = h[lo + 1]
    <3>1. lo + 1 \in (lo + 1)..hi /\ junk + ((lo + 1) - lo) = junk + 1
      BY <1>3
    <3> QED
      BY <3>1 DEF Piece
  <2>2. IsString(buffer[junk + 1]) /\ junk + 1 \in DOMAIN buffer
    BY <1>1, <1>3, <2>1 DEF IsString
  <2> QED
    BY <1>1, <1>2, <1>3, <2>2, FirstString
<1>4. CASE lo = hi
  BY <1>1, <1>2, <1>4, FirstString
<1> QED
  BY <1>3, <1>4

-----------------------------------------------------------------------------
(* The process takes the head.                                             *)

Known == TypeOK /\ StreamType /\ DeathNoticed /\ Begun

\* The strings of the head that is sent.
LEMMA HeadHere ==
  ASSUME TypeOK, pc # "idle"
  PROVE  LET h == HeadOf(current) IN
         /\ current \in 1..MaxRequests
         /\ h \in Seq(Token) /\ h[1] = <<"method", current>> /\ h[2] = <<"uri", current>>
         /\ \/ request.length = None /\ Len(h) = 3 /\ h[3] = <<"end", current>>
            \/ /\ request.length # None /\ Len(h) = 5 /\ h[3] = <<"name", current>>
               /\ h[4] = <<"value", current>> /\ h[5] = <<"end", current>>
<1>1. current \in 1..MaxRequests
  BY RequestAssumption DEF TypeOK
<1> QED
  BY <1>1, HeadStrings DEF request

\* Only the second string of a head is a URI, and only the last ends it.
LEMMA HeadKinds ==
  ASSUME TypeOK, pc # "idle"
  PROVE  \A k \in 1..Len(HeadOf(current)) :
           /\ HeadOf(current)[k] \in Token
           /\ HeadOf(current)[k][1] \in {"method", "uri", "name", "value", "end"}
           /\ HeadOf(current)[k][1] = "uri" <=> k = 2
           /\ HeadOf(current)[k][1] = "end" <=> k = Len(HeadOf(current))
<1> DEFINE h == HeadOf(current)
<1>1. /\ h \in Seq(Token) /\ h[1] = <<"method", current>> /\ h[2] = <<"uri", current>>
      /\ \/ Len(h) = 3 /\ h[3] = <<"end", current>>
         \/ /\ Len(h) = 5 /\ h[3] = <<"name", current>>
            /\ h[4] = <<"value", current>> /\ h[5] = <<"end", current>>
  BY HeadHere
<1> HIDE DEF h
<1> SUFFICES ASSUME NEW k \in 1..Len(h)
             PROVE  /\ h[k] \in Token /\ h[k][1] \in {"method", "uri", "name", "value", "end"}
                    /\ h[k][1] = "uri" <=> k = 2
                    /\ h[k][1] = "end" <=> k = Len(h)
  BY DEF h
<1>2. h[k] \in Token
  BY <1>1
<1>3. CASE Len(h) = 3
  <2>1. k \in {1, 2, 3}
    BY <1>3
  <2> QED
    BY <1>1, <1>2, <1>3, <2>1
<1>4. CASE Len(h) = 5
  <2>1. k \in {1, 2, 3, 4, 5}
    BY <1>4
  <2> QED
    BY <1>1, <1>2, <1>4, <2>1
<1> QED
  BY <1>1, <1>3, <1>4

\* The place of the next string of the head.
LEMMA PositionRange ==
  ASSUME TypeOK, pc # "idle"
  PROVE  LET L == Len(HeadOf(current)) IN
         /\ L \in {3, 5} /\ L \in Nat /\ L <= 5
         /\ pc = "send" => /\ position \in 1..L /\ position - 1 \in 0..5 /\ position - 1 \in Nat
                           /\ position - 1 < L
<1> DEFINE L == Len(HeadOf(current))
<1>1. L \in {3, 5}
  BY HeadHere
<1>2. position \in Nat \ {0} /\ (pc = "send" => position <= L)
  BY DEF TypeOK
<1> HIDE DEF L
<1>3. pc = "send" => /\ position \in 1..L /\ position - 1 \in 0..5 /\ position - 1 \in Nat
                     /\ position - 1 < L
  BY <1>1, <1>2
<1>4. L \in Nat /\ L <= 5
  BY <1>1
<1> QED
  BY <1>1, <1>3, <1>4 DEF L

\* How much of a head can have been sent.
LEMMA SentRange ==
  ASSUME TypeOK, pc # "idle"
  PROVE  /\ Sent \in 0..5 /\ Sent <= Len(HeadOf(current)) /\ Len(HeadOf(current)) \in {3, 5}
         /\ pc = "send" => Sent < Len(HeadOf(current))
<1> DEFINE L == Len(HeadOf(current))
<1>1. /\ L \in {3, 5}
      /\ pc = "send" => position - 1 \in 0..5 /\ position - 1 < L
  BY PositionRange
<1>2. Sent = IF pc = "send" THEN position - 1 ELSE L
  BY DEF Sent
<1> HIDE DEF L
<1> QED
  BY <1>1, <1>2 DEF L

\* A further string of the head is written behind those before it.
LEMMA EntersSend ==
  ASSUME Known, pc = "send", EntersHead, SendHead
  PROVE  EntersHead'
<1> DEFINE h == HeadOf(current)
<1>0. PICK n, m \in 0..5, a, b \in Nat : Entering(n, m, a, b)
  BY DEF EntersHead
<1>1. child # "dead" /\ handler = "none"
  BY <1>0 DEF Entering, Leaving, Known, TypeOK
<1>2. /\ toChild' = Append(toChild, h[position])
      /\ pc' = IF position = Len(h) THEN "waitHead" ELSE "send"
      /\ position' = position + 1
      /\ UNCHANGED <<requests, current, fromChild, child, buffer, state, env>>
  BY <1>1 DEF SendHead, Writable, process
<1>3. position \in 1..Len(h) /\ Len(h) \in Nat /\ Len(h) <= 5
  BY PositionRange DEF Known
<1>4. Sent = position - 1 /\ Sent' = position
  BY <1>2, <1>3, SameRequest DEF Sent
<1>5. Piece(h, Append(toChild, h[position]), b, m, position)
  <2>1. h[position] \in Token
    BY <1>3, HeadKinds DEF Known
  <2>2. toChild \in Seq(Token) /\ m <= position - 1 /\ Piece(h, toChild, b, m, position - 1)
    BY <1>0, <1>4 DEF Entering, Known, StreamType
  <2>3. position - 1 \in Nat /\ (position - 1) + 1 = position
    BY <1>3
  <2> HIDE DEF h
  <2> QED
    BY <2>1, <2>2, <2>3, PieceAppend
<1>6. Entering(n, m, a, b)'
  <2>1. /\ n <= m /\ m <= Sent' /\ n < Len(h) /\ Piece(h, buffer', a, n, m)
        /\ Piece(h, toChild', b, m, Sent')
    BY <1>0, <1>2, <1>3, <1>4, <1>5 DEF Entering
  <2>2. Taken(n)'
    BY <1>0, <1>2, SameRequest DEF Entering, Taken, OwnMethod
  <2>3. Leaving => Leaving'
    BY <1>2 DEF Leaving
  <2> QED
    BY <1>0, <1>2, <2>1, <2>2, <2>3, SameRequest DEF Entering
<1> QED
  BY <1>2, <1>6 DEF EntersHead

\* The consumer thread blocks while the head is taken: there is no answer to it yet.
LEMMA EntersWait ==
  ASSUME Known, EntersHead, WaitHead
  PROVE  EntersHead'
<1> DEFINE h == HeadOf(current)
<1>0. PICK n, m \in 0..5, a, b \in Nat : Entering(n, m, a, b)
  BY DEF EntersHead
<1>1. child # "dead" /\ fromChild = <<>> /\ (pc = "blockHead" => ~woken)
  BY <1>0 DEF EntersHead, Entering, Leaving
<1>2. /\ pc' = "blockHead" /\ woken' = FALSE /\ pc = "waitHead"
      /\ UNCHANGED <<requests, current, toChild, fromChild, child, buffer, state, env>>
  BY <1>1 DEF WaitHead, Wait, Ready, Filled, pipes, process
<1>3. Sent' = Sent
  BY <1>2, SameRequest DEF Sent
<1>4. Taken(n)'
  BY <1>0, <1>2, SameRequest DEF Entering, Taken, OwnMethod
<1>5. Leaving => Leaving'
  BY <1>2 DEF Leaving
<1>6. Entering(n, m, a, b)'
  BY <1>0, <1>2, <1>3, <1>4, <1>5, SameRequest DEF Entering
<1> QED
  BY <1>1, <1>2, <1>6 DEF EntersHead

\* The process reads what there is of the head.
LEMMA EntersRead ==
  ASSUME Known, EntersHead, ReadStdin
  PROVE  EntersHead'
<1> DEFINE h == HeadOf(current)
<1>0. PICK n, m \in 0..5, a, b \in Nat : Entering(n, m, a, b)
  BY DEF EntersHead
<1>1. /\ buffer' = buffer \o toChild /\ toChild' = <<>> /\ FindString = 0 /\ child = "read"
      /\ UNCHANGED <<requests, current, pc, position, woken, fromChild, child, state, env>>
  BY DEF ReadStdin, parent
<1>2. Sent' = Sent /\ Sent \in 0..5 /\ Sent <= Len(h) /\ Len(h) \in {3, 5}
  <2>1. Sent' = Sent
    BY <1>1, SameRequest DEF Sent
  <2> QED
    BY <2>1, SentRange DEF Known, EntersHead
<1>3. n = m
  <2>1. n < m => h[n + 1][1] # "body"
    <3>1. n < m => n + 1 \in 1..Len(h)
      BY <1>0, <1>2 DEF Entering
    <3> QED
      BY <3>1, HeadKinds DEF Known, EntersHead
  <2>2. buffer \in Seq(Token) /\ Piece(h, buffer, a, n, m) /\ n <= m
    BY <1>0 DEF Entering, Known, StreamType
  <2>3. n \in Nat /\ m \in Nat
    OBVIOUS
  <2> HIDE DEF h
  <2>4. FindString = IF n < m THEN a + 1 ELSE 0
    BY <2>1, <2>2, <2>3, PieceFirst, Zenon
  <2> QED
    BY <1>1, <2>2, <2>4
<1>4. Piece(h, buffer', a + b, n, Sent)
  <2>1. /\ Piece(h, buffer, a, n, n) /\ Piece(h, toChild, b, n, Sent) /\ n <= Sent
        /\ buffer \in Seq(Token) /\ toChild \in Seq(Token)
    BY <1>0, <1>3 DEF Entering, Known, StreamType
  <2>2. n \in Nat /\ Sent \in Nat
    BY <1>2
  <2> HIDE DEF h
  <2>3. Piece(h, buffer \o toChild, a + b, n, Sent)
    BY <2>1, <2>2, PieceConcat, Zenon
  <2> QED
    BY <1>1, <2>3
<1>5. Piece(h, toChild', 0, Sent, Sent)
  BY <1>1, <1>2 DEF Piece
<1>6. Taken(n)'
  BY <1>0, <1>1, SameRequest DEF Entering, Taken, OwnMethod
<1>7. Entering(n, Sent, a + b, 0)'
  <2>1. a + b > 0 => n = 0 /\ (a > 0 \/ b > 0)
    BY <1>0, <1>3 DEF Entering
  <2>2. n <= Sent /\ n < Len(h)
    BY <1>0, <1>3 DEF Entering
  <2>3. (a > 0 \/ b > 0) => ~PlainUpTo(current - 1)
    BY <1>0 DEF Entering
  <2>4. HeadOf(current)' = h /\ PlainUpTo(current - 1)' = PlainUpTo(current - 1)
    BY <1>1, SameRequest
  <2>5. /\ Piece(HeadOf(current), buffer, a + b, n, Sent)'
        /\ Piece(HeadOf(current), toChild, 0, Sent, Sent)'
    BY <1>2, <1>4, <1>5, <2>4
  <2> HIDE DEF h
  <2> QED
    BY <1>1, <1>2, <1>6, <2>1, <2>2, <2>3, <2>4, <2>5 DEF Entering
<1> QED
  BY <1>1, <1>2, <1>7 DEF EntersHead

\* The string that is retrieved is the next one of the head, or it is spoilt by what is left
\* of a body.
LEMMA EntersData ==
  ASSUME Known, pc # "idle", FindString > 0, NEW n \in 0..5, NEW m \in 0..5, NEW a \in Nat,
         NEW b \in Nat, Entering(n, m, a, b)
  PROVE  /\ n < m /\ n + 1 \in 0..5 /\ n + 1 <= Len(HeadOf(current))
         /\ Data = IF a = 0 THEN HeadOf(current)[n + 1] ELSE <<"junk", 0>>
         /\ Piece(HeadOf(current), From(buffer, FindString + 1), 0, n + 1, m)
<1> DEFINE h == HeadOf(current)
<1>1. /\ buffer \in Seq(Token) /\ Piece(h, buffer, a, n, m) /\ n <= m
      /\ n < Len(h) /\ n \in Nat /\ m \in Nat
  BY DEF Entering, Known, StreamType
<1>2. n + 1 \in 1..Len(h) /\ n + 1 <= Len(h) /\ n + 1 \in 0..5
  <2> DEFINE L == Len(h)
  <2>1. L \in {3, 5} /\ n < L
    BY <1>1, PositionRange DEF Known
  <2> HIDE DEF L
  <2>2. n + 1 \in 1..L /\ n + 1 <= L /\ n + 1 \in 0..5
    BY <2>1
  <2> QED
    BY <2>2 DEF L
<1>3. h[n + 1][1] # "body"
  BY <1>2, HeadKinds DEF Known
<1>4. FindString = IF n < m THEN a + 1 ELSE 0
  <2> HIDE DEF h
  <2> QED
    BY <1>1, <1>3, PieceFirst, Zenon
<1>5. n < m /\ FindString = a + 1
  BY <1>4
<1>6. Piece(h, From(buffer, a + 2), 0, n + 1, m)
  <2> HIDE DEF h
  <2> QED
    BY <1>1, <1>5, PieceTail
<1>7. FindString + 1 = a + 2
  BY <1>5
<1>8. a = 0 => buffer[1] = h[n + 1]
  <2> HIDE DEF h
  <2>1. a = 0 => n + 1 \in (n + 1)..m /\ a + ((n + 1) - n) = 1
    BY <1>5
  <2> QED
    BY <1>1, <2>1 DEF Piece
<1>9. Data = IF a = 0 THEN h[n + 1] ELSE <<"junk", 0>>
  <2>1. a = 0 <=> FindString = 1
    BY <1>5
  <2> QED
    BY <1>8, <2>1 DEF Data
<1> QED
  BY <1>2, <1>5, <1>6, <1>7, <1>9

\* The process has now taken n strings.
LEMMA EntersOn ==
  ASSUME Known, EntersHead, TakeString, NEW n \in 0..5, NEW m \in 0..5, NEW a \in Nat,
         NEW b \in Nat, Entering(n, m, a, b),
         n + 1 < Len(HeadOf(current)), Taken(n + 1)', UNCHANGED <<child, fromChild>>
  PROVE  EntersHead'
<1> DEFINE h == HeadOf(current)
<1>1. pc # "idle"
  BY DEF EntersHead
<1>2. /\ n < m /\ n + 1 \in 0..5
      /\ Piece(h, From(buffer, FindString + 1), 0, n + 1, m)
  BY <1>1, EntersData DEF TakeString
<1>3. /\ buffer' = From(buffer, FindString + 1) /\ child = "read"
      /\ UNCHANGED <<requests, current, pc, position, woken, toChild>>
  BY DEF TakeString, Retrieve, parent
<1>4. n + 1 <= m
  BY <1>2
<1>5. Sent' = Sent /\ h' = h /\ PlainUpTo(current - 1)' = PlainUpTo(current - 1)
  BY <1>3, SameRequest DEF Sent
<1>6. Entering(n + 1, m, 0, b)'
  <2>1. m <= Sent' /\ Piece(h, toChild', b, m, Sent') /\ (b > 0 => m = 0 /\ ~PlainUpTo(current - 1))
    BY <1>3, <1>5 DEF Entering
  <2>2. Piece(h, buffer', 0, n + 1, m)
    BY <1>2, <1>3
  <2> HIDE DEF h
  <2> QED
    BY <1>3, <1>4, <1>5, <2>1, <2>2 DEF Entering, h
<1> QED
  BY <1>2, <1>3, <1>6 DEF EntersHead

\* The end of the head.
LEMMA EntersEnd ==
  ASSUME Known, EntersHead, TakeString, EndHead, NEW n \in 0..5, NEW m \in 0..5, NEW a \in Nat,
         NEW b \in Nat, Entering(n, m, a, b), n + 1 = Len(HeadOf(current)), OwnEnv
  PROVE  Working'
<1> DEFINE h == HeadOf(current)
<1>1. pc # "idle"
  BY DEF EntersHead
<1>2. /\ n < m /\ n + 1 \in 0..5
      /\ Piece(h, From(buffer, FindString + 1), 0, n + 1, m)
  BY <1>1, EntersData DEF TakeString
<1>3. /\ buffer' = From(buffer, FindString + 1) /\ child = "read"
      /\ UNCHANGED <<requests, current, pc, position, woken, toChild, handler, lost, env, replies>>
      /\ fromChild' = Append(fromChild, Ack) /\ child' = "run" /\ state' = "Method"
  BY DEF TakeString, Retrieve, parent, EndHead, Goes
<1>4. /\ Sent \in 0..5 /\ m <= Sent /\ Sent <= Len(h) /\ Len(h) = n + 1
      /\ pc = "send" => Sent < Len(h)
  BY <1>1, SentRange DEF Known, Entering
<1>5. m = n + 1 /\ Sent = n + 1 /\ pc # "send" /\ n + 1 > 0
  <2> HIDE DEF h
  <2> QED
    BY <1>2, <1>4
<1>6. Len(From(buffer, FindString + 1)) = 0
  BY <1>2, <1>5 DEF Piece
<1>7. b = 0 /\ Len(toChild) = 0
  BY <1>5 DEF Entering, Piece
<1>8. buffer' = <<>> /\ toChild' = <<>>
  <2>1. From(buffer, FindString + 1) \in Seq(Token)
    <3>1. FindString + 1 \in 1..(Len(buffer) + 1) /\ buffer \in Seq(Token)
      BY FirstString DEF TakeString, Known, StreamType
    <3> QED
      BY <3>1, FromPart
  <2> QED
    BY <1>3, <1>6, <1>7, <2>1 DEF Known, StreamType
<1>9. fromChild' = <<Ack>>
  BY <1>3 DEF EntersHead
<1>10. pc \in HeadPCs /\ (pc = "blockHead" => ~woken) /\ pc # "blockAnswer" /\ pc \notin AnswerPCs
  BY <1>5 DEF EntersHead, HeadPCs, AnswerPCs
<1>11. OwnEnv'
  BY <1>3, SameRequest DEF OwnEnv, OwnMethod
<1>12. AnswerDue'
  BY <1>3 DEF AnswerDue
<1> QED
  BY <1>3, <1>8, <1>9, <1>10, <1>11, <1>12
     DEF Working, Bytes, HeadPCs, AnswerPCs

\* The process takes the next string of the head, and with the last one it works.
LEMMA EntersTake ==
  ASSUME Known, EntersHead, TakeString
  PROVE  EntersHead' \/ Working'
<1> DEFINE h == HeadOf(current)
<1>0. PICK n, m \in 0..5, a, b \in Nat : Entering(n, m, a, b)
  BY DEF EntersHead
<1>1. pc # "idle" /\ child = "read"
  BY DEF EntersHead, TakeString
<1>2. /\ n < m /\ n + 1 \in 0..5 /\ n + 1 <= Len(h)
      /\ Data = IF a = 0 THEN h[n + 1] ELSE <<"junk", 0>>
      /\ a > 0 => n = 0 /\ ~PlainUpTo(current - 1)
  BY <1>0, <1>1, EntersData DEF TakeString, Entering
<1>3. UNCHANGED <<requests, current>>
  BY DEF TakeString, parent
<1>4. /\ h[1] = <<"method", current>> /\ h[2] = <<"uri", current>>
      /\ \/ request.length = None /\ Len(h) = 3 /\ h[3] = <<"end", current>>
         \/ /\ request.length # None /\ Len(h) = 5 /\ h[3] = <<"name", current>>
            /\ h[4] = <<"value", current>> /\ h[5] = <<"end", current>>
  BY <1>1, HeadHere DEF Known
<1>5. env \in [method : Token, uri : Token, name : Token, length : Token]
  BY DEF Known, StreamType
<1>6. Taken(n)
  BY <1>0 DEF Entering
<1>7. OwnMethod' = (env'.method = <<"method", current>> \/ ~PlainUpTo(current - 1))
  BY <1>3, SameRequest DEF OwnMethod
<1> HIDE DEF h
<1>8. CASE n = 0
  <2>1. state = "Method" /\ TakeMethod
    BY <1>6, <1>8
       DEF Taken, TakeString, TakeMethod, TakeURI, TakeHeaderName, TakeHeaderValue, EndHead
  <2>2. /\ state' = "URI" /\ env'.method = Data /\ env'.length = Unset
        /\ UNCHANGED <<child, fromChild>>
    BY <1>5, <2>1 DEF TakeMethod, Goes
  <2>3. OwnMethod'
    <3>1. CASE a = 0
      <4>1. n + 1 = 1
        BY <1>8
      <4> QED
        BY <1>2, <1>4, <1>7, <2>2, <3>1, <4>1
    <3>2. CASE a > 0
      BY <1>2, <1>7, <3>2
    <3> QED
      BY <3>1, <3>2
  <2>4. Taken(1)'
    BY <2>2, <2>3 DEF Taken
  <2>5. 1 < Len(h)
    BY <1>4
  <2> QED
    BY <1>0, <1>8, <2>2, <2>4, <2>5, EntersOn DEF h
<1>9. CASE n = 1
  <2>1. state = "URI" /\ TakeURI
    BY <1>6, <1>9
       DEF Taken, TakeString, TakeMethod, TakeURI, TakeHeaderName, TakeHeaderValue, EndHead
  <2>2. /\ state' = "HeaderName" /\ env'.uri = Data
        /\ env'.method = env.method /\ env'.length = env.length
        /\ UNCHANGED <<child, fromChild>>
    BY <1>5, <2>1 DEF TakeURI, Goes
  <2>3. Data = <<"uri", current>>
    BY <1>2, <1>4, <1>9
  <2>4. Taken(2)'
    BY <1>3, <1>6, <1>7, <1>9, <2>2, <2>3 DEF Taken, OwnMethod
  <2>5. 2 < Len(h)
    BY <1>4
  <2> QED
    BY <1>0, <1>9, <2>2, <2>4, <2>5, EntersOn DEF h
<1>10. CASE n = 2 /\ request.length # None
  <2>1. state = "HeaderName" /\ Data = <<"name", current>>
    BY <1>2, <1>4, <1>6, <1>10 DEF Taken
  <2>2. TakeHeaderName
    BY <2>1
       DEF TakeString, TakeMethod, TakeURI, TakeHeaderName, TakeHeaderValue, EndHead
  <2>3. /\ state' = "HeaderValue" /\ env'.name = Data /\ env'.uri = env.uri
        /\ env'.method = env.method /\ env'.length = env.length
        /\ UNCHANGED <<child, fromChild>>
    BY <1>5, <2>2 DEF TakeHeaderName, Goes
  <2>4. Taken(3)'
    BY <1>3, <1>6, <1>7, <1>10, <2>1, <2>3 DEF Taken, OwnMethod
  <2>5. 3 < Len(h)
    BY <1>4, <1>10
  <2> QED
    BY <1>0, <1>10, <2>3, <2>4, <2>5, EntersOn DEF h
<1>11. CASE n = 3
  <2>1. state = "HeaderValue" /\ Len(h) = 5
    BY <1>2, <1>4, <1>6, <1>11 DEF Taken
  <2>2. Data = <<"value", current>> /\ env.name = <<"name", current>>
    BY <1>2, <1>4, <1>6, <1>11, <2>1 DEF Taken
  <2>3. TakeHeaderValue
    BY <2>1
       DEF TakeString, TakeMethod, TakeURI, TakeHeaderName, TakeHeaderValue, EndHead
  <2>4. /\ state' = "HeaderName" /\ env'.length = Data /\ env'.uri = env.uri
        /\ env'.method = env.method
        /\ UNCHANGED <<child, fromChild>>
    BY <1>5, <2>2, <2>3 DEF TakeHeaderValue, Goes
  <2>5. Taken(4)'
    BY <1>3, <1>6, <1>7, <1>11, <2>2, <2>4 DEF Taken, OwnMethod
  <2> QED
    BY <1>0, <1>11, <2>1, <2>4, <2>5, EntersOn DEF h
<1>12. CASE (n = 2 /\ request.length = None) \/ n = 4
  <2>1. /\ state = "HeaderName" /\ Data = <<"end", current>> /\ n + 1 = Len(h)
        /\ n = 4 => request.length # None
    <3>1. CASE n = 2 /\ request.length = None
      <4>1. n + 1 = 3 /\ a = 0
        BY <1>2, <3>1
      <4> QED
        BY <1>2, <1>4, <1>6, <3>1, <4>1 DEF Taken
    <3>2. CASE n = 4
      <4>1. n + 1 = 5 /\ a = 0 /\ Len(h) = 5
        BY <1>2, <1>4, <3>2
      <4> QED
        BY <1>2, <1>4, <1>6, <3>2, <4>1 DEF Taken
    <3> QED
      BY <1>12, <3>1, <3>2
  <2>2. EndHead
    BY <2>1
       DEF TakeString, TakeMethod, TakeURI, TakeHeaderName, TakeHeaderValue, EndHead
  <2>3. OwnEnv
    BY <1>6, <1>12, <2>1 DEF Taken, OwnEnv
  <2> QED
    BY <1>0, <2>1, <2>2, <2>3, EntersEnd DEF h
<1>13. n \in {0, 1, 2, 3, 4}
  BY <1>2
<1> QED
  BY <1>8, <1>9, <1>10, <1>11, <1>12, <1>13

\* The script before leaves, and with it goes what has been sent of the head.
LEMMA EntersRun ==
  ASSUME Known, EntersHead, RunFile
  PROVE  child' = "dead" /\ Dead'
<1>0. PICK n, m \in 0..5, a, b \in Nat : Entering(n, m, a, b)
  BY DEF EntersHead
<1>1. Leaving
  BY <1>0 DEF Entering, RunFile
<1>2. File = "exit" /\ child = "flush"
  BY <1>1 DEF Leaving, File
<1>3. Dies
  BY <1>2 DEF RunFile, RunMissing, RunGet, RunPost, RunOther, RunBig, RunExit
<1>4. ~PlainUpTo(current - 1)
  BY <1>1 DEF Leaving, PlainUpTo, Answering, Recovering
<1>5. UNCHANGED <<requests, current>>
  BY DEF RunFile
<1> QED
  BY <1>3, <1>4, <1>5, SameRequest DEF Dies, Dead

-----------------------------------------------------------------------------
(* The script runs and answers.                                            *)

\* While the process lives, the pipes are open.
LEMMA AliveOpen == ASSUME TypeOK, child # "dead" PROVE handler = "none"
BY DEF TypeOK

\* What is known of a request.
LEMMA RequestFacts ==
  ASSUME TypeOK, NEW i \in 1..MaxRequests
  PROVE  /\ requests[i].method \in {"GET", "POST", "HEAD"}
         /\ requests[i].data \in {"good", "one", "bad"}
         /\ requests[i].length \in {None} \cup Nat /\ requests[i].length \in Int
         /\ requests[i].file \in {"adder", "missing", "big", "exit"}
<1>1. requests[i] \in Requests
  BY DEF TypeOK
<1>2. requests[i] \in [method : {"GET", "POST", "HEAD"}, data : {"good", "one", "bad"},
                       length : {None} \cup Nat, file : {"adder", "missing", "big", "exit"}]
  BY <1>1, RequestAssumption
<1> QED
  BY <1>2 DEF None

\* A request without a length has no body.
LEMMA EmptyBody ==
  ASSUME TypeOK, current > 0, request.length <= 0
  PROVE  BodyOf(current) = <<>>
<1>1. BodyOf(current) \in Seq(Token) /\ Len(BodyOf(current)) = 0
  BY BodyTokens, RequestAssumption DEF TypeOK, request, None
<1> QED
  BY <1>1

LEMMA WorkingWaitHead ==
  ASSUME Known, Working, Output, WaitHead
  PROVE  Working' /\ Output'
<1>1. /\ child # "dead" /\ handler = "none" /\ pc \in HeadPCs /\ fromChild # <<>>
      /\ pc \in {"waitHead", "blockHead"}
  BY AliveOpen DEF Working, Known, WaitHead, Wait, HeadPCs
<1>2. /\ pc' = "readHead"
      /\ UNCHANGED <<requests, current, replies, toChild, fromChild, child, buffer, state, env>>
  BY <1>1 DEF WaitHead, Wait, Ready, Filled, pipes, process
<1>3. pc' \in HeadPCs /\ pc' \notin AnswerPCs
  BY <1>2 DEF HeadPCs, AnswerPCs
<1>4. OwnEnv' = OwnEnv /\ Own' = Own /\ Answering(request)' = Answering(request)
      /\ Recovering(request)' = Recovering(request)
  BY <1>2, SameRequest DEF OwnEnv, OwnMethod, Answering, Recovering
<1>5. AnswerDue => AnswerDue'
  BY <1>1, <1>2, <1>3, <1>4, SameRequest DEF AnswerDue, HeadPCs
<1>6. Output'
  BY <1>1, <1>2, <1>3, <1>4 DEF Output
<1>7. Working'
  BY <1>1, <1>2, <1>3, <1>4, <1>5, SameRequest DEF Working, Bytes, HeadPCs, AnswerPCs
<1> QED
  BY <1>6, <1>7

LEMMA WorkingReadHead ==
  ASSUME Known, Working, Output, ReadHead
  PROVE  Working' /\ Output'
<1>1. child # "dead" /\ handler = "none" /\ pc = "readHead" /\ pc \in HeadPCs /\ fromChild # <<>>
  BY AliveOpen DEF Working, Known, ReadHead, HeadPCs
<1>2. /\ fromChild \in Seq(Token) /\ Head(fromChild) = fromChild[1]
      /\ Tail(fromChild) \in Seq(Token) /\ Len(Tail(fromChild)) = Len(fromChild) - 1
      /\ \A k \in 1..(Len(fromChild) - 1) : Tail(fromChild)[k] = fromChild[k + 1]
  BY <1>1, TailToken DEF Known, StreamType
<1>3. /\ fromChild[1] = Ack
      /\ \A k \in DOMAIN fromChild : k > 1 => fromChild[k] = Own
  BY <1>1 DEF Output
<1>4. /\ pc' = "body" /\ fromChild' = Tail(fromChild)
      /\ UNCHANGED <<requests, current, replies, toChild, child, buffer, state, env, woken>>
  BY <1>1, <1>2, <1>3 DEF ReadHead, Filled, process
<1>5. pc' \in AnswerPCs /\ pc' \notin HeadPCs
  BY <1>4 DEF HeadPCs, AnswerPCs
<1>6. OwnEnv' = OwnEnv /\ Own' = Own /\ Answering(request)' = Answering(request)
      /\ Recovering(request)' = Recovering(request)
  BY <1>4, SameRequest DEF OwnEnv, OwnMethod, Answering, Recovering
<1>7. Output'
  <2>1. \A k \in DOMAIN fromChild' : fromChild'[k] = Own
    <3> SUFFICES ASSUME NEW k \in DOMAIN Tail(fromChild) PROVE Tail(fromChild)[k] = Own
      BY <1>4
    <3>1. k \in 1..(Len(fromChild) - 1) /\ k + 1 \in DOMAIN fromChild /\ k + 1 > 1
      BY <1>2
    <3> QED
      BY <1>2, <1>3, <3>1
  <2> QED
    BY <1>5, <1>6, <2>1 DEF Output
<1>8. fromChild = <<Ack>> => fromChild' = <<>>
  BY <1>4
<1>9. fromChild = <<Ack, Own>> => fromChild' = <<Own>>
  BY <1>4
<1>10. AnswerDue => AnswerDue'
  BY <1>1, <1>4, <1>6, <1>9, SameRequest DEF AnswerDue, HeadPCs
<1>11. buffer = <<>> /\ toChild = <<>>
  BY <1>1 DEF Working
<1>12. Working'
  BY <1>1, <1>4, <1>5, <1>6, <1>8, <1>10, <1>11, SameRequest
     DEF Working, Bytes, HeadPCs, AnswerPCs
<1> QED
  BY <1>7, <1>12

LEMMA WorkingSendBody ==
  ASSUME Known, Working, Output, SendBody
  PROVE  Working' /\ Output'
<1>1. child # "dead" /\ handler = "none" /\ pc = "body" /\ current > 0
  BY AliveOpen DEF Working, Known, SendBody, TypeOK
<1>2. buffer = <<>> /\ toChild = <<>>
  BY <1>1 DEF Working
<1>3. /\ pc' = "waitAnswer"
      /\ request.length <= 0 => toChild' = toChild
      /\ UNCHANGED <<requests, current, replies, fromChild, child, buffer, state, env, woken>>
  <2>1. request.length \in Int
    BY <1>1, RequestFacts, RequestAssumption DEF Known, TypeOK, request
  <2> QED
    BY <1>1, <2>1 DEF SendBody, Writable, process
<1>4. toChild' = BodyOf(current)
  <2>1. CASE request.length <= 0
    BY <1>1, <1>2, <1>3, <2>1, EmptyBody DEF Known, SendBody
  <2>2. CASE ~(request.length <= 0)
    <3>1. toChild' = <<>> \o BodyOf(current)
      BY <1>1, <1>2, <2>2 DEF SendBody, Writable
    <3>2. BodyOf(current) \in Seq(Token)
      BY <1>1, BodyTokens DEF Known
    <3> QED
      BY <3>1, <3>2
  <2> QED
    BY <2>1, <2>2
<1>5. Bytes(toChild)'
  BY <1>1, <1>4, BodyTokens DEF Bytes, Known
<1>6. OwnEnv' = OwnEnv /\ Own' = Own /\ Answering(request)' = Answering(request)
      /\ Recovering(request)' = Recovering(request)
  BY <1>3, SameRequest DEF OwnEnv, OwnMethod, Answering, Recovering
<1>7. AnswerDue => AnswerDue'
  BY <1>1, <1>2, <1>3, <1>6, SameRequest DEF AnswerDue, HeadPCs
<1>8. pc' \in AnswerPCs /\ pc' \notin HeadPCs /\ pc \in AnswerPCs /\ pc \notin HeadPCs
  BY <1>1, <1>3 DEF HeadPCs, AnswerPCs
<1>9. Output'
  BY <1>3, <1>6, <1>8 DEF Output
<1>10. Working'
  BY <1>1, <1>3, <1>4, <1>5, <1>6, <1>7, <1>8, SameRequest DEF Working, Bytes
<1> QED
  BY <1>9, <1>10

LEMMA WorkingWaitAnswer ==
  ASSUME Known, Working, Output, WaitAnswer
  PROVE  Working' /\ Output'
<1>1. /\ child # "dead" /\ handler = "none" /\ pc \in {"waitAnswer", "blockAnswer"}
      /\ (pc = "blockAnswer" => ~woken)
  BY AliveOpen DEF Working, Known, WaitAnswer, Wait
<1>2. /\ UNCHANGED <<requests, current, replies, toChild, fromChild, child, buffer, state, env>>
      /\ \/ pc' = "readAnswer" /\ fromChild # <<>>
         \/ pc' = "blockAnswer" /\ woken' = FALSE
  BY <1>1 DEF WaitAnswer, Wait, Ready, Filled, pipes, process
<1>3. OwnEnv' = OwnEnv /\ Own' = Own /\ Answering(request)' = Answering(request)
      /\ Recovering(request)' = Recovering(request)
  BY <1>2, SameRequest DEF OwnEnv, OwnMethod, Answering, Recovering
<1>4. pc' \in AnswerPCs /\ pc' \notin HeadPCs /\ pc \in AnswerPCs /\ pc \notin HeadPCs
  BY <1>1, <1>2 DEF HeadPCs, AnswerPCs
<1>5. replies[current] = <<>>
  BY <1>1 DEF Known, Begun
<1>6. AnswerDue => AnswerDue'
  BY <1>1, <1>2, <1>3, <1>4, <1>5, SameRequest DEF AnswerDue
<1>7. Output'
  BY <1>2, <1>3, <1>4 DEF Output
<1>8. child = "run" => fromChild = <<>> /\ toChild = BodyOf(current) /\ buffer = <<>>
  BY <1>1, <1>4 DEF Working
<1>9. Working'
  BY <1>1, <1>2, <1>3, <1>4, <1>6, <1>8, SameRequest DEF Working, Bytes
<1> QED
  BY <1>7, <1>9

LEMMA WorkingReadAnswer ==
  ASSUME Known, Working, Output, ReadAnswer
  PROVE  Working' /\ Output'
<1>1. child # "dead" /\ pc = "readAnswer" /\ current \in 1..MaxRequests
  BY RequestAssumption DEF Working, Known, ReadAnswer, TypeOK
<1>2. /\ UNCHANGED <<requests, current, pc, toChild, child, buffer, state, env>>
      /\ fromChild' = <<>> /\ replies'[current] = replies[current] \o fromChild
  BY <1>1 DEF ReadAnswer, process, Known, StreamType
<1>3. OwnEnv' = OwnEnv /\ Own' = Own /\ Answering(request)' = Answering(request)
      /\ Recovering(request)' = Recovering(request)
  BY <1>2, SameRequest DEF OwnEnv, OwnMethod, Answering, Recovering
<1>4. pc \in AnswerPCs /\ pc \notin HeadPCs /\ child # "run" /\ fromChild # <<>>
  BY <1>1 DEF HeadPCs, AnswerPCs, Working, ReadAnswer, Filled
<1>5. fromChild = <<Own>> /\ replies[current] = <<>> => replies'[current] = <<Own>>
  BY <1>2
<1>6. AnswerDue => AnswerDue'
  BY <1>1, <1>2, <1>3, <1>4, <1>5 DEF AnswerDue
<1>7. Output'
  BY <1>2, <1>4 DEF Output
<1>8. Working'
  BY <1>1, <1>2, <1>3, <1>4, <1>6, SameRequest DEF Working, Bytes
<1> QED
  BY <1>7, <1>8

\* HTTPSendComplete comes behind the answer, and leaves nothing of it.
LEMMA WorkingComplete ==
  ASSUME Known, Working, Complete
  PROVE  Rests'
<1>1. child # "dead" /\ pc = "readAnswer" /\ current \in 1..MaxRequests /\ handler = "none"
  BY RequestAssumption, AliveOpen DEF Working, Known, Complete, TypeOK
<1>2. /\ UNCHANGED <<requests, current, fromChild, toChild, child, buffer, state, env>>
      /\ fromChild = <<>>
  BY <1>1 DEF Complete, pipes, process, Filled
<1>3. OwnEnv' = OwnEnv
  BY <1>2, SameRequest DEF OwnEnv, OwnMethod
<1>4. PlainUpTo(current) => buffer = <<>> /\ toChild = <<>>
  <2> SUFFICES ASSUME PlainUpTo(current) PROVE buffer = <<>> /\ toChild = <<>>
    OBVIOUS
  <2>1. PlainUpTo(current - 1) /\ (Answering(request) \/ Recovering(request))
    BY <1>1 DEF PlainUpTo, request
  <2>2. child # "run"
    BY <1>1 DEF Working
  <2> QED
    BY <2>1, <2>2 DEF Working, AnswerDue
<1> QED
  BY <1>1, <1>2, <1>3, <1>4, SameRequest DEF Working, Rests, Bytes

\* What the process reads while no head is sent are bytes of a body.
LEMMA NoString == ASSUME StreamType, Bytes(buffer) PROVE FindString = 0
BY FirstString DEF StreamType, Bytes, IsString

\* Bytes of bodies that are read stay bytes of bodies.
LEMMA BytesRead ==
  ASSUME StreamType, Bytes(buffer), Bytes(toChild), ReadStdin
  PROVE  Bytes(buffer)' /\ Bytes(toChild)'
<1>1. buffer' = buffer \o toChild /\ toChild' = <<>>
  BY DEF ReadStdin
<1>2. /\ Len(buffer \o toChild) = Len(buffer) + Len(toChild)
      /\ \A k \in 1..Len(buffer) : (buffer \o toChild)[k] = buffer[k]
      /\ \A k \in 1..Len(toChild) : (buffer \o toChild)[Len(buffer) + k] = toChild[k]
      /\ DOMAIN (buffer \o toChild) = 1..Len(buffer \o toChild)
      /\ Len(buffer) \in Nat /\ Len(toChild) \in Nat
      /\ DOMAIN buffer = 1..Len(buffer) /\ DOMAIN toChild = 1..Len(toChild)
  BY ConcatToken DEF StreamType
<1> DEFINE u == buffer \o toChild
<1> HIDE DEF u
<1>3. ASSUME NEW k \in DOMAIN u PROVE u[k][1] = "body"
  <2>1. k \in 1..(Len(buffer) + Len(toChild))
    BY <1>2 DEF u
  <2>2. CASE k <= Len(buffer)
    BY <1>2, <2>1, <2>2 DEF Bytes, u
  <2>3. CASE k > Len(buffer)
    <3>1. PICK j \in 1..Len(toChild) : k = Len(buffer) + j
      BY <1>2, <2>1, <2>3
    <3> QED
      BY <1>2, <3>1 DEF Bytes, u
  <2> QED
    BY <1>2, <2>1, <2>2, <2>3
<1> QED
  BY <1>1, <1>3 DEF Bytes, u

LEMMA WorkingRead ==
  ASSUME Known, Working, Output, ReadStdin
  PROVE  Working' /\ Output'
<1>1. /\ child = "read" /\ toChild # <<>>
      /\ UNCHANGED <<requests, current, pc, woken, replies, fromChild, child, state, env>>
  BY DEF ReadStdin, parent
<1>2. pc \notin HeadPCs /\ pc # "body" /\ ~AnswerDue
  BY <1>1 DEF Working, AnswerDue
<1>3. OwnEnv' = OwnEnv /\ Own' = Own /\ Answering(request)' = Answering(request)
      /\ Recovering(request)' = Recovering(request)
  BY <1>1, SameRequest DEF OwnEnv, OwnMethod, Answering, Recovering
<1>4. Bytes(buffer)' /\ Bytes(toChild)'
  BY BytesRead DEF Working, Known
<1>5. Output'
  BY <1>1, <1>3 DEF Output
<1>6. Working'
  BY <1>1, <1>2, <1>3, <1>4, SameRequest DEF Working
<1> QED
  BY <1>5, <1>6

-----------------------------------------------------------------------------
(* The script of the request runs.                                         *)

\* A script finds its own file, method and length.
LEMMA OwnRun ==
  ASSUME TypeOK, current > 0, OwnEnv
  PROVE  /\ current \in 1..MaxRequests /\ env.uri[1] = "uri" /\ env.uri[2] = current
         /\ File = request.file /\ Length = request.length
         /\ PlainUpTo(current - 1) => Method = request.method
<1>1. current \in 1..MaxRequests
  BY RequestAssumption DEF TypeOK
<1>2. env.uri[1] = "uri" /\ env.uri[2] = current
  BY DEF OwnEnv
<1>3. PlainUpTo(current - 1) => env.method[1] = "method" /\ env.method[2] = current
  BY DEF OwnEnv, OwnMethod
<1>4. Length = request.length
  BY DEF OwnEnv, Length, request, Unset
<1> QED
  BY <1>1, <1>2, <1>3, <1>4 DEF File, Method, request

\* What is left of bytes are bytes.
LEMMA BytesPart ==
  ASSUME NEW s \in Seq(Token), Bytes(s), NEW n \in Nat, n <= Len(s)
  PROVE  Bytes(From(s, n + 1))
<1>0. Len(s) \in Nat /\ n + 1 \in 1..(Len(s) + 1) /\ DOMAIN s = 1..Len(s)
  OBVIOUS
<1>1. /\ From(s, n + 1) \in Seq(Token) /\ Len(From(s, n + 1)) = Len(s) - n
      /\ \A j \in 1..(Len(s) - n) : From(s, n + 1)[j] = s[n + j]
  <2>1. /\ From(s, n + 1) \in Seq(Token) /\ Len(From(s, n + 1)) = Len(s) - (n + 1) + 1
        /\ \A j \in 1..(Len(s) - (n + 1) + 1) : From(s, n + 1)[j] = s[(n + 1) + j - 1]
    BY <1>0, FromPart
  <2>2. Len(s) - (n + 1) + 1 = Len(s) - n
    BY <1>0
  <2>3. \A j \in 1..(Len(s) - n) : (n + 1) + j - 1 = n + j
    BY <1>0
  <2> QED
    BY <2>1, <2>2, <2>3
<1>2. ASSUME NEW k \in DOMAIN From(s, n + 1) PROVE From(s, n + 1)[k][1] = "body"
  <2>1. k \in 1..(Len(s) - n)
    BY <1>1
  <2>2. n + k \in DOMAIN s
    BY <1>0, <2>1
  <2> QED
    BY <1>1, <2>1, <2>2 DEF Bytes
<1> QED
  BY <1>2 DEF Bytes

\* Nothing is left behind the end.
LEMMA FromEnd ==
  ASSUME NEW s \in Seq(Token)
  PROVE  From(s, Len(s) + 1) = <<>>
<1>1. SubSeq(s, Len(s) + 1, Len(s)) = <<>>
  OBVIOUS
<1> QED
  BY <1>1 DEF From

\* A script leaves only bytes where there were only bytes, and nothing where there was
\* nothing.
LEMMA BytesRun ==
  ASSUME TypeOK, StreamType, RunFile
  PROVE  /\ Bytes(buffer) => Bytes(buffer)'
         /\ Bytes(toChild) => Bytes(toChild)'
         /\ buffer = <<>> => buffer' = <<>>
         /\ toChild = <<>> => toChild' = <<>>
<1>0. /\ buffer \in Seq(Token) /\ toChild \in Seq(Token)
      /\ buffer' \in Seq(Token) /\ toChild' \in Seq(Token)
      /\ Length \in Nat \/ Length = None
  BY LengthType, RunInput DEF StreamType
<1>2. (toChild = <<>> => toChild' = <<>>) /\ (Bytes(toChild) => Bytes(toChild)')
  <2>1. CASE Length >= 0 /\ Length <= Len(toChild) /\ toChild' = From(toChild, Length + 1)
    <3>1. Length \in Nat
      BY <1>0, <2>1 DEF None
    <3>2. Bytes(toChild) => Bytes(toChild)'
      BY <1>0, <2>1, <3>1, BytesPart
    <3>3. toChild = <<>> => toChild' = <<>>
      <4> SUFFICES ASSUME toChild = <<>> PROVE toChild' = <<>>
        OBVIOUS
      <4>1. Length = 0
        BY <2>1, <3>1
      <4>2. Length + 1 = Len(toChild) + 1
        BY <1>0, <4>1
      <4> QED
        BY <1>0, <2>1, <4>2, FromEnd
    <3> QED
      BY <3>2, <3>3
  <2>2. CASE toChild' = toChild
    BY <2>2 DEF Bytes
  <2> QED
    BY <2>1, <2>2, RunInput
<1>1. CASE /\ Length > 0 /\ Length <= Len(buffer) /\ buffer' = From(buffer, Length + 1)
  <2>1. Length \in Nat
    BY <1>0, <1>1 DEF None
  <2>2. Bytes(buffer) => Bytes(buffer)'
    BY <1>0, <1>1, <2>1, BytesPart
  <2>3. buffer # <<>>
    BY <1>1, <2>1
  <2> QED
    BY <1>0, <2>2, <2>3, <1>2
<1>3. CASE buffer' = buffer
  BY <1>2, <1>3 DEF Bytes
<1> QED
  BY <1>1, <1>3, RunInput

\* What a script prints in the dialogue of its own request.
LEMMA OwnOutput ==
  ASSUME Known, pc # "send", current > 0, OwnEnv, Output, RunFile,
         pc \in HeadPCs => fromChild # <<>>
  PROVE  Output' /\ (fromChild # <<>> => fromChild' # <<>>)
<1>1. fromChild' = fromChild \/ fromChild' = Append(fromChild, Own)
  BY RunOutput, OwnRun DEF Known, Own
<1>2. pc' = pc /\ Own' = Own /\ fromChild \in Seq(Token)
  BY DEF RunFile, Own, Known, StreamType
<1>3. CASE fromChild' = fromChild
  BY <1>2, <1>3 DEF Output
<1>4. CASE fromChild' = Append(fromChild, Own)
  <2>1. Own \in Token
    BY TokenFacts, OwnRun DEF Own, Known
  <2>2. /\ Append(fromChild, Own) \in Seq(Token)
        /\ Len(Append(fromChild, Own)) = Len(fromChild) + 1
        /\ \A k \in 1..Len(fromChild) : Append(fromChild, Own)[k] = fromChild[k]
        /\ Append(fromChild, Own)[Len(fromChild) + 1] = Own
    BY <1>2, <2>1, AppendToken
  <2> DEFINE f == Append(fromChild, Own)
  <2>3. /\ DOMAIN f = 1..(Len(fromChild) + 1) /\ DOMAIN fromChild = 1..Len(fromChild)
        /\ Len(fromChild) \in Nat /\ (fromChild # <<>> => Len(fromChild) > 0)
        /\ \A k \in 1..Len(fromChild) : f[k] = fromChild[k]
        /\ f[Len(fromChild) + 1] = Own
        /\ f # <<>>
    BY <1>2, <2>2
  <2> HIDE DEF f
  <2>4. fromChild' = f
    BY <1>4 DEF f
  <2>5. pc \in AnswerPCs => \A k \in DOMAIN f : f[k] = Own
    BY <2>3 DEF Output
  <2>6. pc \in HeadPCs => f[1] = Ack /\ \A k \in DOMAIN f : k > 1 => f[k] = Own
    <3> SUFFICES ASSUME pc \in HeadPCs PROVE f[1] = Ack /\ \A k \in DOMAIN f : k > 1 => f[k] = Own
      OBVIOUS
    <3>1. /\ fromChild # <<>> /\ fromChild[1] = Ack
          /\ \A k \in DOMAIN fromChild : k > 1 => fromChild[k] = Own
      BY DEF Output
    <3>2. 1 \in 1..Len(fromChild)
      BY <2>3, <3>1
    <3> QED
      BY <2>3, <3>1, <3>2
  <2> QED
    BY <1>2, <2>3, <2>4, <2>5, <2>6 DEF Output
<1> QED
  BY <1>1, <1>3, <1>4

\* The script that answers.
LEMMA WorkingAnswers ==
  ASSUME Known, Working, Output, RunFile, PlainUpTo(current - 1), Answering(request)
  PROVE  AnswerDue'
<1>1. /\ pc \in HeadPCs \cup AnswerPCs /\ pc # "send" /\ current \in 1..MaxRequests /\ current > 0
      /\ OwnEnv /\ pc' = pc /\ UNCHANGED <<requests, current, replies>>
  BY RequestAssumption DEF Working, RunFile, Known, TypeOK, HeadPCs, AnswerPCs
<1>2. /\ File = request.file /\ Length = request.length /\ Method = request.method
      /\ env.uri[2] = current
  BY <1>1, OwnRun DEF Known
<1>3. child = "run" /\ buffer = <<>> /\ pc # "readAnswer"
  BY DEF Working, AnswerDue, RunFile
<1>4. /\ pc \in {"waitAnswer", "blockAnswer"} => toChild = BodyOf(current)
      /\ pc \in HeadPCs \cup {"body"} => toChild = <<>>
      /\ fromChild = IF pc \in HeadPCs THEN <<Ack>> ELSE <<>>
  BY <1>1, <1>3 DEF Working
<1>5. /\ request.length \in Int /\ (request.length >= 0 <=> request.length # None)
      /\ request.length # None => request.length \in Nat
  BY <1>1, RequestFacts DEF Known, request, None
<1>6. Own \in Token
  BY <1>1, TokenFacts DEF Own
<1>7. Prints => fromChild' = IF pc \in HeadPCs THEN <<Ack, Own>> ELSE <<Own>>
  BY <1>2, <1>4, <1>6, TokenFacts DEF Prints, Own
<1>8. Own' = Own /\ request' = request
  BY <1>1, SameRequest DEF Own, request
<1>9. /\ child' = "read" /\ buffer' = <<>> /\ toChild' = <<>> /\ Prints
      /\ pc \in HeadPCs \cup {"body"} => request.length <= 0
  <2>1. CASE request.method = "GET"
    <3>1. request.file = "adder" /\ request.data # "bad" /\ request.length <= 0
      BY <2>1 DEF Answering
    <3>2. RunGet
      BY <1>2, <2>1, <3>1 DEF RunFile, RunMissing, RunGet, RunPost, RunOther, RunBig, RunExit
    <3>3. Prints /\ child' = "read" /\ buffer' = buffer /\ toChild' = toChild
      BY <1>2, <3>1, <3>2 DEF RunGet, Compute, Returns, request
    <3>4. toChild = <<>>
      BY <1>1, <1>3, <1>4, <3>1, EmptyBody DEF Known, AnswerPCs
    <3> QED
      BY <1>3, <3>1, <3>3, <3>4
  <2>2. CASE request.method # "GET"
    <3>1. /\ request.file = "adder" /\ request.method = "POST" /\ request.length >= 0
          /\ request.data # "bad" \/ request.length = 0
      BY <2>2 DEF Answering
    <3>2. RunPost
      BY <1>2, <3>1 DEF RunFile, RunMissing, RunGet, RunPost, RunOther, RunBig, RunExit
    <3>3. /\ Len(toChild) >= request.length /\ toChild' = From(toChild, request.length + 1)
          /\ child' = "read" /\ buffer' = buffer /\ request.length \in Nat
      BY <1>2, <1>5, <3>1, <3>2 DEF RunPost, Returns
    <3>4. toChild \in Seq(Token) /\ toChild' \in Seq(Token) /\ Len(toChild) \in Nat
      BY RunInput DEF Known, StreamType
    <3>5. Len(toChild) = request.length
      BY <1>1, <1>3, <1>4, <3>1, <3>3, <3>4, BodyTokens DEF Known, AnswerPCs
    <3>6. toChild' = <<>>
      <4>1. toChild' = From(toChild, Len(toChild) + 1)
        BY <3>3, <3>5
      <4> QED
        BY <3>4, <4>1, FromEnd
    <3>7. Prints
      <4>1. CASE request.length = 0
        BY <1>2, <1>5, <3>2, <4>1 DEF RunPost, Compute, None
      <4>2. CASE request.length # 0
        <5>1. toChild = BodyOf(current)
          BY <1>1, <1>3, <1>4, <3>3, <3>4, <3>5, <4>2 DEF AnswerPCs
        <5>2. SubSeq(toChild, 1, request.length) = BodyOf(current)
          BY <3>4, <3>5, <5>1
        <5>3. Compute(request.data)
          BY <1>2, <1>5, <3>1, <3>2, <4>2, <5>2 DEF RunPost, request
        <5> QED
          BY <3>1, <4>2, <5>3 DEF Compute
      <4> QED
        BY <4>1, <4>2
    <3>8. pc \in HeadPCs \cup {"body"} => request.length <= 0
      BY <1>4, <3>4, <3>5
    <3> QED
      BY <1>3, <3>3, <3>6, <3>7, <3>8
  <2> QED
    BY <2>1, <2>2
<1>10. replies[current] = <<>>
  BY <1>1, <1>3 DEF Known, Begun, HeadPCs, AnswerPCs
<1> QED
  BY <1>1, <1>3, <1>7, <1>8, <1>9 DEF AnswerDue, HeadPCs, AnswerPCs

\* The script of the request answers, goes on, or brings the process down.
LEMMA WorkingRun ==
  ASSUME Known, Working, Output, RunFile
  PROVE  /\ Output' /\ Dead'
         /\ child' # "dead" => Working'
<1>1. /\ pc \in HeadPCs \cup AnswerPCs /\ pc # "send" /\ current \in 1..MaxRequests /\ current > 0
      /\ OwnEnv /\ UNCHANGED <<pc, requests, current, position, replies, state, env>>
  BY RequestAssumption DEF Working, RunFile, Known, TypeOK, HeadPCs, AnswerPCs
<1>2. File = request.file /\ Length = request.length
  BY <1>1, OwnRun DEF Known
<1>3. OwnEnv' = OwnEnv /\ Own' = Own /\ Answering(request)' = Answering(request)
      /\ Recovering(request)' = Recovering(request) /\ request' = request
      /\ PlainUpTo(current - 1)' = PlainUpTo(current - 1)
  BY <1>1, SameRequest DEF OwnEnv, OwnMethod, Answering, Recovering
<1>4. Output' /\ (fromChild # <<>> => fromChild' # <<>>)
  BY <1>1, OwnOutput DEF Working
<1>5. Dead'
  BY <1>1 DEF Dead
<1>6. ASSUME child' # "dead" PROVE Working'
  <2>1. /\ child' \in {"read", "flush"} /\ woken' = woken
        /\ child' = "flush" => request.file \in {"big", "exit"}
    BY <1>2, <1>6
       DEF RunFile, RunMissing, RunGet, RunPost, RunOther, RunBig, RunExit, Returns, Dies
  <2>2. /\ Bytes(buffer)' /\ Bytes(toChild)'
        /\ pc \in HeadPCs \cup {"body"} => buffer' = <<>> /\ toChild' = <<>>
    BY BytesRun DEF Working, Known
  <2>3. PlainUpTo(current - 1) /\ Answering(request) => AnswerDue'
    BY WorkingAnswers
  <2>4. ~(PlainUpTo(current - 1) /\ Recovering(request))
    <3> SUFFICES ASSUME PlainUpTo(current - 1), Recovering(request) PROVE FALSE
      OBVIOUS
    <3>1. child = "run" /\ buffer = <<>> /\ request.file = "missing" /\ request.length > 0
      BY DEF Working, Recovering
    <3>2. RunMissing /\ Length > Len(buffer)
      BY <1>2, <3>1 DEF RunFile, RunMissing, RunGet, RunPost, RunOther, RunBig, RunExit
    <3> QED
      BY <1>6, <3>2 DEF RunMissing, Dies
  <2> QED
    BY <1>1, <1>3, <1>4, <2>1, <2>2, <2>3, <2>4 DEF Working
<1> QED
  BY <1>4, <1>5, <1>6

-----------------------------------------------------------------------------
(* Between two requests.                                                   *)

LEMMA EntersOutput == ASSUME EntersHead' PROVE Output'
BY DEF EntersHead, Output, AnswerPCs

\* The head begins behind what is left of bodies.
LEMMA RestsTake ==
  ASSUME Known, Rests, Take, child # "dead", Single'
  PROVE  EntersHead'
<1>1. /\ current' = current + 1 /\ position' = 1 /\ pc' = "send"
      /\ UNCHANGED <<requests, toChild, fromChild, child, buffer, state, env>>
      /\ current \in 0..MaxRequests /\ current' \in 1..MaxRequests
  BY RequestAssumption DEF Take, pipes, process, Known, TypeOK
<1>2. current > 0 => requests[current].file # "big"
  BY <1>1 DEF Single
<1>3. fromChild = <<>>
  BY <1>2 DEF Rests, request
<1>a. PICK a \in Nat : a = Len(buffer) /\ DOMAIN buffer = 1..a
  BY DEF Known, StreamType
<1>b. PICK b \in Nat : b = Len(toChild) /\ DOMAIN toChild = 1..b
  BY DEF Known, StreamType
<1>4. (a > 0 => buffer # <<>>) /\ (b > 0 => toChild # <<>>)
      /\ DOMAIN buffer = 1..a /\ DOMAIN toChild = 1..b
  BY <1>a, <1>b DEF Known, StreamType
<1>5. (a > 0 \/ b > 0) => ~PlainUpTo(current - 1)'
  <2>1. PlainUpTo(current - 1)' = PlainUpTo(current)
    <3>1. current' - 1 = current
      BY <1>1
    <3> QED
      BY <1>1, <3>1 DEF PlainUpTo, Answering, Recovering
  <2> QED
    BY <1>4, <2>1 DEF Rests
<1>6. child = "read" \/ Leaving'
  BY <1>1, <1>2 DEF Rests, Leaving, OwnEnv, request
<1>7. Sent' = 0 /\ Len(HeadOf(current))' > 0
  <2>1. Sent' = position' - 1
    BY <1>1 DEF Sent
  <2>2. Len(HeadOf(current)') >= 1 /\ Len(HeadOf(current)') \in Nat
    BY HeadLength, <1>1 DEF HeadOf
  <2> QED
    BY <1>1, <2>1, <2>2
<1>8. Piece(HeadOf(current), buffer, a, 0, 0)' /\ Piece(HeadOf(current), toChild, b, 0, 0)'
  BY <1>1, <1>a, <1>b DEF Rests, Bytes, Piece
<1>9. Taken(0)'
  BY <1>1 DEF Taken, Rests
<1>10. Entering(0, 0, a, b)'
  BY <1>1, <1>5, <1>6, <1>7, <1>8, <1>9 DEF Entering, Rests
<1> QED
  BY <1>1, <1>3, <1>10 DEF EntersHead

\* The process reads bytes of a body that nobody took.
LEMMA RestsRead ==
  ASSUME Known, Rests, ReadStdin
  PROVE  Rests'
<1>1. /\ child = "read" /\ toChild # <<>>
      /\ UNCHANGED <<requests, current, pc, fromChild, child, state, env>>
  BY DEF ReadStdin, parent
<1>2. Bytes(buffer)' /\ Bytes(toChild)'
  BY BytesRead DEF Rests, Known
<1> QED
  BY <1>1, <1>2, SameRequest DEF Rests

\* A script that prints in pieces, or leaves, ends behind its request.
LEMMA RestsRun ==
  ASSUME Known, Rests, RunFile
  PROVE  child' # "dead" => Rests'
<1>1. /\ child = "flush" /\ current > 0 /\ OwnEnv /\ request.file \in {"big", "exit"}
      /\ UNCHANGED <<requests, current, pc, state, env>>
  BY DEF RunFile, Rests
<1>2. File = request.file
  BY <1>1, OwnRun DEF Known
<1>3. CASE request.file = "exit"
  BY <1>1, <1>2, <1>3
     DEF RunFile, RunMissing, RunGet, RunPost, RunOther, RunBig, RunExit, Dies
<1>4. CASE request.file = "big"
  <2>1. child' = "read" /\ request' = request
    BY <1>1, <1>2, <1>4, SameRequest
       DEF RunFile, RunMissing, RunGet, RunPost, RunOther, RunBig, RunExit
  <2>2. Bytes(buffer)' /\ Bytes(toChild)' /\ (buffer = <<>> => buffer' = <<>>)
        /\ (toChild = <<>> => toChild' = <<>>)
    BY BytesRun DEF Rests, Known
  <2> QED
    BY <1>1, <1>4, <2>1, <2>2, SameRequest DEF Rests
<1> QED
  BY <1>1, <1>3, <1>4

-----------------------------------------------------------------------------
(* The consumer thread while the process has ended or begins.              *)

\* Whatever the consumer thread does, what it finds in the pipe is its own.
LEMMA ConsumerOutput ==
  ASSUME Known, Output, Consumer, pc = "send" => fromChild = <<>> \/ child = "dead"
  PROVE  Output'
<1> USE DEF HeadPCs, AnswerPCs
<1>0. Own' = Own \/ pc = "idle"
  BY DEF Consumer, Take, SendHead, WaitHead, ReadHead, SendBody, WaitAnswer, ReadAnswer, Complete,
         Own
<1>1. CASE Take
  BY <1>1 DEF Take, Output
<1>2. CASE SendHead
  <2>1. CASE Writable
    BY <1>2, <2>1 DEF SendHead, Writable, Output
  <2>2. CASE ~Writable
    BY <1>2, <2>2 DEF SendHead, FailRequest, Output
  <2> QED
    BY <2>1, <2>2
<1>3. CASE WaitHead
  <2>1. pc \in HeadPCs /\ pc' \in HeadPCs /\ pc' \notin AnswerPCs /\ fromChild' = fromChild
    BY <1>3 DEF WaitHead, Wait, pipes
  <2> QED
    BY <1>0, <2>1 DEF Output
<1>4. CASE ReadHead
  <2>1. CASE pc' = "body" /\ fromChild # <<>> /\ fromChild' = Tail(fromChild)
    <3>1. /\ fromChild \in Seq(Token) /\ Tail(fromChild) \in Seq(Token)
          /\ Len(Tail(fromChild)) = Len(fromChild) - 1
          /\ \A k \in 1..(Len(fromChild) - 1) : Tail(fromChild)[k] = fromChild[k + 1]
      BY <2>1, TailToken DEF Known, StreamType
    <3>2. pc = "readHead" /\ \A k \in DOMAIN fromChild : k > 1 => fromChild[k] = Own
      BY <1>4, <2>1 DEF ReadHead, Output
    <3>3. ASSUME NEW k \in DOMAIN Tail(fromChild) PROVE Tail(fromChild)[k] = Own
      <4>1. k \in 1..(Len(fromChild) - 1) /\ k + 1 \in DOMAIN fromChild /\ k + 1 > 1
        BY <3>1
      <4> QED
        BY <3>1, <3>2, <4>1
    <3> QED
      BY <1>0, <2>1, <3>2, <3>3 DEF Output
  <2>2. CASE pc' = "idle"
    BY <2>2 DEF Output
  <2> QED
    BY <1>4, <2>1, <2>2 DEF ReadHead, FailRequest, Filled
<1>5. CASE SendBody
  <2>1. pc = "body" /\ fromChild' = fromChild /\ pc' \in {"waitAnswer", "idle"}
    BY <1>5 DEF SendBody, FailRequest
  <2> QED
    BY <1>0, <2>1 DEF Output
<1>6. CASE WaitAnswer
  <2>1. pc \in AnswerPCs /\ pc' \in AnswerPCs /\ pc' \notin HeadPCs /\ fromChild' = fromChild
    BY <1>6 DEF WaitAnswer, Wait, pipes
  <2> QED
    BY <1>0, <2>1 DEF Output
<1>7. CASE ReadAnswer
  BY <1>7 DEF ReadAnswer, Output
<1>8. CASE Complete
  BY <1>8 DEF Complete, Output
<1> QED
  BY <1>1, <1>2, <1>3, <1>4, <1>5, <1>6, <1>7, <1>8 DEF Consumer

\* While there is no process, nothing more of a head is sent.
LEMMA DeadConsumer ==
  ASSUME Known, Output, Consumer, child = "dead"
  PROVE  child' = "dead" /\ Dead' /\ Output'
<1>1. Output'
  BY ConsumerOutput
<1>2. child' = "dead"
  BY DEF Consumer, Take, SendHead, WaitHead, ReadHead, SendBody, WaitAnswer, ReadAnswer, Complete,
         process
<1>3. pc' # "send" \/ position' = 1
  BY DEF Consumer, Take, SendHead, WaitHead, ReadHead, SendBody, WaitAnswer, ReadAnswer, Complete,
         Wait, FailRequest, Writable
<1> QED
  BY <1>1, <1>2, <1>3 DEF Dead

\* The new process gets the head from the beginning, or strays.
LEMMA CreatedDialogue ==
  ASSUME Known, Dead, CreateChild
  PROVE  /\ Output' /\ child' = "read"
         /\ pc = "idle" => Rests'
         /\ pc # "idle" => EntersHead' \/ Stray'
<1>1. /\ UNCHANGED <<requests, pc, current, position, woken, replies, lost>>
      /\ child' = "read" /\ buffer' = <<>> /\ state' = "Method" /\ env' = NoEnv
      /\ toChild' = <<>> /\ fromChild' = <<>>
      /\ child = "dead"
  BY DEF CreateChild, parent, pipes, Known, Begun, TypeOK
<1>2. Fresh'
  BY <1>1 DEF Fresh
<1>3. Output'
  BY <1>1 DEF Output
<1>4. pc = "idle" => Rests'
  BY <1>1 DEF Rests, Bytes
<1>5. ASSUME pc = "send", position = 1 PROVE EntersHead'
  <2>1. Sent' = 0 /\ Len(HeadOf(current))' > 0
    <3>1. Sent' = position - 1
      BY <1>1, <1>5 DEF Sent
    <3>2. Len(HeadOf(current)') >= 1 /\ Len(HeadOf(current)') \in Nat
      BY HeadLength, <1>1 DEF HeadOf
    <3> QED
      BY <1>5, <3>1, <3>2
  <2>2. /\ Taken(0)' /\ Piece(HeadOf(current), buffer, 0, 0, 0)'
        /\ Piece(HeadOf(current), toChild, 0, 0, 0)'
    BY <1>1 DEF Taken, Piece
  <2>3. Entering(0, 0, 0, 0)'
    BY <1>1, <2>1, <2>2 DEF Entering
  <2>4. 0 \in 0..5 /\ 0 \in Nat
    OBVIOUS
  <2> QED
    BY <1>1, <1>5, <2>3, <2>4 DEF EntersHead
<1>6. ASSUME pc # "idle", ~(pc = "send" /\ position = 1) PROVE Stray'
  <2>1. lost'[current] /\ env'.uri[1] # "uri"
    BY <1>1, <1>6 DEF NoEnv, Unset, Known, DeathNoticed
  <2>2. PlainUpTo(current - 1)' = PlainUpTo(current - 1)
    BY <1>1, SameRequest
  <2>3. Bytes(buffer)' /\ Bytes(toChild)'
    BY <1>1 DEF Bytes
  <2>4. pc = "send" => position >= 2 /\ ~PlainUpTo(current - 1)
    BY <1>6 DEF Dead, Known, TypeOK
  <2> QED
    BY <1>1, <1>2, <1>6, <2>1, <2>2, <2>3, <2>4 DEF Stray
<1> QED
  BY <1>1, <1>3, <1>4, <1>5, <1>6

-----------------------------------------------------------------------------
(* The process that has missed the beginning of a head.                    *)

LEMMA StrayOutput == ASSUME Stray' PROVE Output'
<1>1. pc' \in HeadPCs => fromChild' = <<>> \/ fromChild' = <<Ack>>
  BY DEF Stray, HeadPCs
<1>2. pc' \in AnswerPCs => fromChild' = <<>>
  BY DEF Stray, AnswerPCs
<1> QED
  BY <1>1, <1>2 DEF Output

\* The rest of the head goes to a process that has not got its beginning.
LEMMA StraySend ==
  ASSUME Known, Stray, SendHead
  PROVE  Stray'
<1> DEFINE h == HeadOf(current)
<1>1. /\ child = "read" /\ handler = "none" /\ pc = "send" /\ position >= 2 /\ fromChild = <<>>
      /\ ~PlainUpTo(current - 1)
      /\ position = 2 => buffer = <<>> /\ toChild = <<>> /\ state = "Method"
  BY AliveOpen DEF Stray, SendHead, Known, Fresh
<1>2. /\ toChild' = Append(toChild, h[position])
      /\ pc' = IF position = Len(h) THEN "waitHead" ELSE "send"
      /\ position' = position + 1
      /\ UNCHANGED <<requests, current, fromChild, child, buffer, state, env, lost, woken>>
  BY <1>1 DEF SendHead, Writable, process
<1>3. position \in 1..Len(h) /\ Len(h) \in Nat
  BY <1>1, PositionRange DEF Known
<1>4. /\ h[position] \in Token /\ IsString(h[position])
      /\ h[position][1] = "uri" => position = 2
      /\ h[position][1] = "end" => position = Len(h)
  BY <1>1, <1>3, HeadKinds DEF Known, IsString
<1>5. /\ \A k \in DOMAIN buffer : IsString(buffer[k]) /\ buffer[k][1] # "end"
                                  /\ (buffer[k][1] = "uri" => k = 1 /\ state = "Method")
      /\ \A k \in DOMAIN toChild :
            /\ IsString(toChild[k]) /\ toChild[k][1] # "end"
            /\ toChild[k][1] = "uri" => k = 1 /\ buffer = <<>> /\ state = "Method"
  BY <1>1 DEF Stray, HeadPCs
<1>6. PICK t \in Seq(Token), x \in Token : t = Append(toChild, x) /\ x = h[position]
  BY <1>4, AppendToken DEF Known, StreamType
<1>7. /\ DOMAIN t = 1..(Len(toChild) + 1) /\ Len(t) = Len(toChild) + 1 /\ Len(toChild) \in Nat
      /\ \A k \in 1..Len(toChild) : t[k] = toChild[k]
      /\ t[Len(toChild) + 1] = x
      /\ DOMAIN toChild = 1..Len(toChild) /\ (toChild = <<>> => Len(toChild) = 0)
  BY <1>6, AppendToken DEF Known, StreamType
<1>8. toChild' = t
  BY <1>2, <1>6
<1> HIDE DEF h
<1>9. ASSUME NEW k \in DOMAIN t
      PROVE  /\ IsString(t[k])
             /\ t[k][1] = "uri" => k = 1 /\ buffer = <<>> /\ state = "Method"
             /\ t[k][1] = "end" => k = Len(t) /\ pc' # "send"
  <2>1. CASE k <= Len(toChild)
    BY <1>5, <1>7, <2>1
  <2>2. CASE k = Len(toChild) + 1
    <3>1. t[k] = h[position]
      BY <1>6, <1>7, <2>2
    <3>2. t[k][1] = "uri" => k = 1 /\ buffer = <<>> /\ state = "Method"
      BY <1>1, <1>4, <1>7, <2>2, <3>1
    <3> QED
      BY <1>2, <1>4, <1>7, <2>2, <3>1, <3>2 DEF h
  <2> QED
    BY <1>7, <2>1, <2>2
<1>10. pc' \in {"send", "waitHead"} /\ pc' \notin AnswerPCs
  BY <1>2 DEF AnswerPCs
<1>11. pc' = "send" => position' >= 2 /\ position' # 2
  BY <1>1, <1>2, <1>3
<1>12. ~PlainUpTo(current - 1)'
  BY <1>1, <1>2, SameRequest
<1> QED
  BY <1>1, <1>2, <1>5, <1>8, <1>9, <1>10, <1>11, <1>12 DEF Stray

LEMMA StrayWaitHead ==
  ASSUME Known, Stray, WaitHead
  PROVE  Stray'
<1>1. /\ child # "dead" /\ handler = "none" /\ pc \in {"waitHead", "blockHead"} /\ pc \in HeadPCs
      /\ UNCHANGED <<requests, current, position, toChild, fromChild, child, buffer, state, env, lost>>
  BY AliveOpen DEF Stray, Known, WaitHead, Wait, HeadPCs, pipes, process
<1>2. \/ pc' = "blockHead" /\ woken' = FALSE /\ fromChild = <<>>
      \/ pc' = "readHead" /\ (fromChild # <<>> \/ Fresh)
  BY <1>1 DEF WaitHead, Wait, Ready, Filled, Stray
<1>3. pc' \in HeadPCs /\ pc' \notin AnswerPCs /\ pc' # "send"
  BY <1>2 DEF HeadPCs, AnswerPCs
<1>4. Fresh' = Fresh /\ PlainUpTo(current - 1)' = PlainUpTo(current - 1)
  BY <1>1, SameRequest DEF Fresh
<1>5. /\ Bytes(buffer)' = Bytes(buffer) /\ Bytes(toChild)' = Bytes(toChild)
      /\ pc' # "idle" /\ (pc' \in {"blockHead", "blockAnswer"} => ~woken')
      /\ pc # "send"
  BY <1>1, <1>2 DEF Bytes
<1>6. /\ child \in {"read", "run"} /\ lost[current] /\ env.uri[1] # "uri"
      /\ PlainUpTo(current - 1) => 
           child = "read" /\ state = "Method" /\ Bytes(buffer) /\ Bytes(toChild)
      /\ \A k \in DOMAIN buffer : 
            /\ IsString(buffer[k])
            /\ buffer[k][1] = "uri" => k = 1 /\ state = "Method"
            /\ buffer[k][1] = "end" => k = Len(buffer) /\ toChild = <<>>
      /\ \A k \in DOMAIN toChild : 
            /\ IsString(toChild[k])
            /\ toChild[k][1] = "uri" => k = 1 /\ buffer = <<>> /\ state = "Method"
            /\ toChild[k][1] = "end" => k = Len(toChild)
      /\ \/ child = "read" /\ fromChild = <<>>
         \/ fromChild = <<Ack>> /\ buffer = <<>> /\ toChild = <<>> /\ state = "Method"
  BY <1>1 DEF Stray
<1>7. \/ child = "read" /\ fromChild = <<>> /\ (pc' = "readHead" => Fresh)
      \/ fromChild = <<Ack>> /\ buffer = <<>> /\ toChild = <<>> /\ state = "Method"
  BY <1>2, <1>6
<1> QED
  BY <1>1, <1>3, <1>4, <1>5, <1>6, <1>7 DEF Stray

\* The answer 500, and a process as new.
LEMMA FreshRests == ASSUME Fresh' PROVE Rests'
BY DEF Fresh, Rests, Bytes

LEMMA StrayReadHead ==
  ASSUME Known, Stray, ReadHead
  PROVE  IF pc' = "idle" THEN Rests' ELSE Stray'
<1>1. /\ child # "dead" /\ handler = "none" /\ pc = "readHead" /\ pc \in HeadPCs
      /\ UNCHANGED <<requests, current, position, toChild, child, buffer, state, env, lost, woken>>
  BY AliveOpen DEF Stray, Known, ReadHead, HeadPCs, process
<1>2. CASE Fresh
  <2>1. pc' = "idle" /\ fromChild' = fromChild
    BY <1>1, <1>2 DEF ReadHead, Fresh, Filled, FailRequest
  <2>2. Fresh'
    BY <1>1, <1>2, <2>1 DEF Fresh
  <2> QED
    BY <2>1, <2>2, FreshRests
<1>3. CASE ~Fresh
  <2>1. fromChild = <<Ack>> /\ buffer = <<>> /\ toChild = <<>> /\ state = "Method"
    BY <1>1, <1>3 DEF Stray
  <2>2. fromChild # <<>> /\ Head(fromChild) = Ack /\ Tail(fromChild) = <<>>
    BY <2>1
  <2>3. pc' = "body" /\ fromChild' = <<>>
    BY <1>1, <2>2 DEF ReadHead, Filled
  <2>4. pc' \in AnswerPCs /\ pc' \notin HeadPCs
    BY <2>3 DEF AnswerPCs, HeadPCs
  <2>5. Bytes(buffer)' /\ Bytes(toChild)'
    BY <1>1, <2>1 DEF Bytes
  <2> QED
    BY <1>1, <2>1, <2>3, <2>4, <2>5, SameRequest DEF Stray
<1> QED
  BY <1>2, <1>3

LEMMA StraySendBody ==
  ASSUME Known, Stray, SendBody
  PROVE  Stray'
<1>1. /\ child # "dead" /\ handler = "none" /\ pc = "body" /\ current > 0 /\ pc \in AnswerPCs
      /\ UNCHANGED <<requests, current, position, fromChild, child, buffer, state, env, lost, woken>>
  BY AliveOpen DEF Stray, Known, TypeOK, SendBody, AnswerPCs, process
<1>2. request.length \in Int
  BY <1>1, RequestFacts, RequestAssumption DEF Known, TypeOK, request
<1>3. pc' = "waitAnswer" /\ toChild' \in {toChild, toChild \o BodyOf(current)}
  BY <1>1, <1>2 DEF SendBody, Writable
<1>4. buffer = <<>> /\ toChild = <<>> /\ fromChild = <<>> /\ state = "Method"
  BY <1>1 DEF Stray
<1>5. BodyOf(current) \in Seq(Token) /\ Bytes(BodyOf(current))
  BY <1>1, BodyTokens DEF Known, Bytes
<1>6. toChild \o BodyOf(current) = BodyOf(current)
  BY <1>4, <1>5
<1>7. Bytes(toChild)' /\ Bytes(buffer)'
  BY <1>1, <1>3, <1>4, <1>5, <1>6 DEF Bytes
<1>8. pc' \in AnswerPCs /\ pc' \notin HeadPCs
  BY <1>3 DEF AnswerPCs, HeadPCs
<1> QED
  BY <1>1, <1>3, <1>4, <1>7, <1>8, SameRequest DEF Stray

LEMMA StrayWaitAnswer ==
  ASSUME Known, Stray, WaitAnswer
  PROVE  Stray'
<1>1. /\ child # "dead" /\ handler = "none" /\ pc \in {"waitAnswer", "blockAnswer"} /\ pc \in AnswerPCs
      /\ UNCHANGED <<requests, current, position, toChild, fromChild, child, buffer, state, env, lost>>
  BY AliveOpen DEF Stray, Known, WaitAnswer, Wait, AnswerPCs, pipes, process
<1>2. fromChild = <<>>
  BY <1>1 DEF Stray
<1>3. \/ pc' = "blockAnswer" /\ woken' = FALSE
      \/ pc' = "readAnswer" /\ Fresh
  BY <1>1, <1>2 DEF WaitAnswer, Wait, Ready, Filled, Stray
<1>4. pc' \in AnswerPCs /\ pc' \notin HeadPCs
  BY <1>3 DEF AnswerPCs, HeadPCs
<1>5. Fresh' = Fresh /\ Bytes(buffer)' = Bytes(buffer) /\ Bytes(toChild)' = Bytes(toChild)
  BY <1>1 DEF Fresh, Bytes
<1> QED
  BY <1>1, <1>2, <1>3, <1>4, <1>5, SameRequest DEF Stray

LEMMA StrayRead ==
  ASSUME Known, Stray, ReadStdin
  PROVE  Stray'
<1>1. /\ child = "read" /\ toChild # <<>> /\ FindString = 0
      /\ buffer' = buffer \o toChild /\ toChild' = <<>>
      /\ UNCHANGED <<requests, current, pc, position, woken, fromChild, child, state, env, lost>>
  BY DEF ReadStdin, parent
<1>2. /\ ~Fresh /\ pc # "body" /\ pc # "readAnswer" /\ ~(pc = "send" /\ position = 2)
      /\ ~(pc \in {"blockHead", "blockAnswer"} /\ woken)
      /\ pc \in HeadPCs => fromChild = <<>> /\ pc # "readHead"
  BY <1>1 DEF Stray, Fresh, AnswerPCs
<1>3. Bytes(buffer) /\ Bytes(toChild) => Bytes(buffer)' /\ Bytes(toChild)'
  BY BytesRead DEF Known
<1>4. CASE pc \in HeadPCs \cup {"send"}
  <2>1. \A k \in DOMAIN buffer : ~IsString(buffer[k])
    BY <1>1, FirstString DEF Known, StreamType
  <2>2. buffer \in Seq(Token) /\ \A k \in DOMAIN buffer : IsString(buffer[k])
    BY <1>4 DEF Stray, Known, StreamType
  <2>3. buffer = <<>>
    BY <2>1, <2>2
  <2>4. buffer' = toChild
    BY <1>1, <2>3 DEF Known, StreamType
  <2>5. \A k \in DOMAIN toChild : 
            /\ IsString(toChild[k])
            /\ toChild[k][1] = "uri" => k = 1 /\ buffer = <<>> /\ state = "Method"
            /\ toChild[k][1] = "end" => k = Len(toChild) /\ pc # "send"
    BY <1>4 DEF Stray
  <2>6. pc \notin AnswerPCs
    BY <1>4 DEF HeadPCs, AnswerPCs
  <2> QED
    BY <1>1, <1>2, <1>3, <2>4, <2>5, <2>6, SameRequest DEF Stray
<1>5. CASE pc \in AnswerPCs
  <2>1. pc \notin HeadPCs /\ pc # "send"
    BY <1>5 DEF HeadPCs, AnswerPCs
  <2> QED
    BY <1>1, <1>2, <1>3, <1>5, <2>1, SameRequest DEF Stray
<1>6. pc \in HeadPCs \cup {"send"} \cup AnswerPCs
  BY DEF Stray, Known, TypeOK, HeadPCs, AnswerPCs
<1> QED
  BY <1>4, <1>5, <1>6

\* A process that has no URI finds no file.
LEMMA StrayRun ==
  ASSUME Known, Stray, Output, RunFile
  PROVE  /\ Dead' /\ Output'
         /\ child' # "dead" => Stray'
<1>1. /\ child = "run" /\ pc # "send" /\ ~PlainUpTo(current - 1) /\ ~Fresh
      /\ UNCHANGED <<requests, pc, current, position, state, env>>
  BY DEF Stray, RunFile, Fresh
<1>2. RunMissing
  BY DEF Stray, RunFile, RunMissing, RunGet, RunPost, RunOther, RunBig, RunExit, File
<1>3. fromChild' = fromChild /\ toChild' = toChild
  BY <1>2 DEF RunMissing, Silent
<1>4. Output'
  <2>1. Own' = Own
    BY <1>1 DEF Own
  <2> QED
    BY <1>1, <1>3, <2>1 DEF Output
<1>5. Dead'
  BY <1>1 DEF Dead
<1>6. ASSUME child' # "dead" PROVE Stray'
  <2>1. child' = "read" /\ UNCHANGED <<lost, woken>>
    BY <1>2, <1>6 DEF RunMissing, Dies, Returns
  <2>2. /\ Bytes(buffer) => Bytes(buffer)'
        /\ buffer = <<>> => buffer' = <<>>
    BY BytesRun DEF Known
  <2>3. pc \in HeadPCs => fromChild = <<Ack>> /\ buffer = <<>> /\ toChild = <<>> /\ state = "Method"
    BY <1>1 DEF Stray
  <2>4. pc \in AnswerPCs =>
           /\ fromChild = <<>> /\ state = "Method" /\ Bytes(buffer) /\ Bytes(toChild)
           /\ pc = "body" => buffer = <<>> /\ toChild = <<>>
           /\ pc # "readAnswer"
    BY <1>1 DEF Stray
  <2>5. ~PlainUpTo(current - 1)' /\ Bytes(toChild)' = Bytes(toChild)
    BY <1>1, <1>3, SameRequest DEF Bytes
  <2>6. /\ pc # "idle" /\ lost[current] /\ env.uri[1] # "uri"
        /\ ~(pc \in {"blockHead", "blockAnswer"} /\ woken)
    BY <1>1 DEF Stray
  <2> QED
    BY <1>1, <1>3, <2>1, <2>2, <2>3, <2>4, <2>5, <2>6 DEF Stray
<1> QED
  BY <1>4, <1>5, <1>6

\* The process takes a string of a head of which it has missed the beginning.
LEMMA StrayTake ==
  ASSUME Known, Stray, TakeString
  PROVE  Stray'
<1>1. /\ child = "read" /\ FindString > 0 /\ Retrieve
      /\ UNCHANGED <<requests, current, pc, position, woken, toChild, lost>>
  BY DEF TakeString, parent
<1>2. buffer \in Seq(Token) /\ toChild \in Seq(Token) /\ fromChild \in Seq(Token)
  BY DEF Known, StreamType
<1>3. ~Bytes(buffer)
  BY <1>1, NoString DEF Known
<1>4. pc \in HeadPCs \cup {"send"} /\ pc \notin AnswerPCs
  BY <1>3 DEF Stray, Known, TypeOK, HeadPCs, AnswerPCs
<1>5. buffer # <<>>
  BY <1>2, <1>3 DEF Bytes
<1>6. /\ ~PlainUpTo(current - 1) /\ ~PlainUpTo(current - 1)'
      /\ ~(pc \in {"blockHead", "blockAnswer"} /\ woken)
      /\ pc = "send" => position >= 2 /\ position # 2
      /\ fromChild = <<>> /\ pc # "readHead" /\ pc # "idle" /\ lost[current] /\ env.uri[1] # "uri"
  BY <1>1, <1>3, <1>4, <1>5, SameRequest DEF Stray, Fresh
<1>7. /\ \A k \in DOMAIN buffer :
            /\ IsString(buffer[k])
            /\ buffer[k][1] = "uri" => k = 1 /\ state = "Method"
            /\ buffer[k][1] = "end" => k = Len(buffer) /\ toChild = <<>> /\ pc # "send"
      /\ \A k \in DOMAIN toChild :
            /\ IsString(toChild[k]) /\ toChild[k][1] # "uri"
            /\ toChild[k][1] = "end" => k = Len(toChild) /\ pc # "send"
  BY <1>4, <1>5 DEF Stray
<1>8. DOMAIN buffer = 1..Len(buffer) /\ Len(buffer) \in Nat /\ Len(buffer) > 0 /\ 1 \in DOMAIN buffer
  BY <1>2, <1>5
<1>9. FindString = 1
  <2>1. /\ FindString \in DOMAIN buffer
        /\ \A k \in DOMAIN buffer : k < FindString => ~IsString(buffer[k])
    BY <1>1, <1>2, FirstString
  <2> QED
    BY <1>7, <1>8, <2>1
<1>10. Data = buffer[1]
  BY <1>9 DEF Data
<1>11. /\ buffer' \in Seq(Token) /\ Len(buffer') = Len(buffer) - 1
       /\ \A k \in 1..(Len(buffer) - 1) : buffer'[k] = buffer[k + 1]
  <2>1. buffer' = From(buffer, 2)
    BY <1>1, <1>9 DEF Retrieve
  <2>2. 2 \in 1..(Len(buffer) + 1)
    BY <1>8
  <2>3. /\ From(buffer, 2) \in Seq(Token) /\ Len(From(buffer, 2)) = Len(buffer) - 2 + 1
        /\ \A j \in 1..(Len(buffer) - 2 + 1) : From(buffer, 2)[j] = buffer[2 + j - 1]
    BY <1>2, <2>2, FromPart
  <2>4. Len(buffer) - 2 + 1 = Len(buffer) - 1 /\ \A j \in 1..(Len(buffer) - 1) : 2 + j - 1 = j + 1
    BY <1>8
  <2> QED
    BY <2>1, <2>3, <2>4
<1>12. \A k \in DOMAIN buffer' :
          /\ IsString(buffer'[k]) /\ buffer'[k][1] # "uri"
          /\ buffer'[k][1] = "end" => k = Len(buffer') /\ toChild = <<>> /\ pc # "send"
  <2> SUFFICES ASSUME NEW k \in 1..(Len(buffer) - 1)
               PROVE  /\ IsString(buffer[k + 1]) /\ buffer[k + 1][1] # "uri"
                      /\ buffer[k + 1][1] = "end" =>
                           k = Len(buffer) - 1 /\ toChild = <<>> /\ pc # "send"
    BY <1>11
  <2>1. PICK j \in DOMAIN buffer : j = k + 1 /\ j # 1 /\ (j = Len(buffer) => k = Len(buffer) - 1)
    <3>1. ASSUME NEW L \in Nat, NEW i \in 1..(L - 1)
          PROVE  i + 1 \in 1..L /\ i + 1 # 1 /\ (i + 1 = L => i = L - 1)
      OBVIOUS
    <3>2. k + 1 \in 1..Len(buffer) /\ k + 1 # 1 /\ (k + 1 = Len(buffer) => k = Len(buffer) - 1)
      BY <1>8, <3>1
    <3> QED
      BY <1>8, <3>2
  <2>2. /\ IsString(buffer[j]) /\ buffer[j][1] # "uri"
        /\ buffer[j][1] = "end" => j = Len(buffer) /\ toChild = <<>> /\ pc # "send"
    BY <1>7, <2>1
  <2> QED
    BY <2>1, <2>2
<1>13. CASE child' = "read" /\ fromChild' = fromChild /\ env'.uri[1] # "uri"
  BY <1>1, <1>4, <1>6, <1>7, <1>12, <1>13 DEF Stray
<1>14. CASE EndHead
  <2>1. fromChild' = <<Ack>> /\ child' = "run" /\ env' = env /\ state' = "Method" /\ Data[1] = "end"
    BY <1>6, <1>14 DEF EndHead, Goes
  <2>2. Len(buffer) = 1 /\ toChild = <<>> /\ pc # "send"
    BY <1>7, <1>8, <1>10, <2>1
  <2>3. buffer' = <<>>
    BY <1>11, <2>2
  <2>4. pc \in HeadPCs
    BY <1>4, <2>2
  <2> QED
    BY <1>1, <1>4, <1>6, <2>1, <2>2, <2>3, <2>4 DEF Stray
<1>15. CASE TakeMethod \/ TakeHeaderName \/ TakeHeaderValue
  <2>1. env'.uri = env.uri
    BY <1>15 DEF TakeMethod, TakeHeaderName, TakeHeaderValue, Goes, Known, StreamType
  <2> QED
    BY <1>1, <1>6, <1>13, <1>15, <2>1 DEF TakeMethod, TakeHeaderName, TakeHeaderValue
<1>16. CASE TakeURI
  <2>1. env'.uri = Data /\ state = "URI"
    BY <1>16 DEF TakeURI, Goes, Known, StreamType
  <2>2. Data[1] # "uri"
    BY <1>7, <1>8, <1>10, <2>1
  <2> QED
    BY <1>1, <1>13, <1>16, <2>1, <2>2 DEF TakeURI
<1> QED
  BY <1>14, <1>15, <1>16 DEF TakeString

-----------------------------------------------------------------------------
(* The dialogue goes on.                                                   *)

LEMMA ConsumerAlive == ASSUME Consumer PROVE child' = child
BY DEF Consumer, Take, SendHead, WaitHead, ReadHead, SendBody, WaitAnswer, ReadAnswer, Complete,
       process

\* The output while a head is taken: at most its acknowledgement.
LEMMA EntersTakeOutput ==
  ASSUME EntersHead, TakeString
  PROVE  Output'
<1>1. pc' = pc /\ pc \notin AnswerPCs /\ fromChild = <<>>
  BY DEF EntersHead, TakeString, parent, AnswerPCs
<1>2. fromChild' = <<>> \/ fromChild' = <<Ack>>
  BY <1>1 DEF TakeString, TakeMethod, TakeURI, TakeHeaderName, TakeHeaderValue, EndHead
<1> QED
  BY <1>1, <1>2 DEF Output, AnswerPCs

LEMMA EntersRunOutput ==
  ASSUME EntersHead, RunFile
  PROVE  Output'
<1>0. PICK n, m \in 0..5, a, b \in Nat : Entering(n, m, a, b)
  BY DEF EntersHead
<1>1. pc' = pc /\ pc \notin AnswerPCs /\ fromChild = <<>>
  BY DEF EntersHead, RunFile, AnswerPCs
<1>2. Leaving
  BY <1>0 DEF Entering, RunFile
<1>3. File = "exit" /\ child = "flush"
  BY <1>2 DEF Leaving, File
<1>4. fromChild' = <<>>
  BY <1>1, <1>3 DEF RunFile, RunMissing, RunGet, RunPost, RunOther, RunBig, RunExit, Silent
<1> QED
  BY <1>1, <1>4 DEF Output, AnswerPCs

\* The consumer thread, in each of the modes.
LEMMA ConsumerModes ==
  ASSUME Known, Modes, Consumer, Single'
  PROVE  Modes'
<1> USE DEF HeadPCs, AnswerPCs
<1>1. CASE child = "dead"
  BY <1>1, DeadConsumer DEF Modes
<1>2. CASE child # "dead" /\ pc = "idle"
  <2>1. Take /\ Rests
    BY <1>2 DEF Consumer, SendHead, WaitHead, ReadHead, SendBody, WaitAnswer, ReadAnswer, Complete,
                Wait, Modes
  <2>2. EntersHead'
    BY <1>2, <2>1, RestsTake
  <2>3. Output'
    BY <2>2, EntersOutput
  <2> QED
    BY <1>2, <2>1, <2>2, <2>3, ConsumerAlive DEF Modes, Take
<1>3. CASE child # "dead" /\ pc # "idle" /\ EntersHead
  <2>1. SendHead \/ WaitHead
    BY <1>3 DEF Consumer, Take, ReadHead, SendBody, WaitAnswer, ReadAnswer, Complete, Wait,
                EntersHead
  <2>2. EntersHead'
    BY <1>3, <2>1, EntersSend, EntersWait DEF SendHead
  <2>3. Output' /\ pc' # "idle"
    BY <2>2, EntersOutput DEF EntersHead
  <2> QED
    BY <1>3, <2>2, <2>3, ConsumerAlive DEF Modes
<1>4. CASE child # "dead" /\ pc # "idle" /\ Working
  <2>1. Output /\ ~Take /\ ~SendHead
    BY <1>4 DEF Take, SendHead, Working, Modes
  <2>2. CASE Complete
    <3>1. Rests' /\ pc' = "idle"
      BY <1>4, <2>2, WorkingComplete DEF Complete
    <3>2. Output'
      BY <3>1 DEF Output
    <3> QED
      BY <1>4, <3>1, <3>2, ConsumerAlive DEF Modes
  <2>3. CASE ~Complete
    <3>1. Working' /\ Output'
      BY <1>4, <2>1, <2>3, WorkingWaitHead, WorkingReadHead, WorkingSendBody, WorkingWaitAnswer,
         WorkingReadAnswer DEF Consumer
    <3>2. pc' # "idle"
      BY <3>1 DEF Working
    <3> QED
      BY <1>4, <3>1, <3>2, ConsumerAlive DEF Modes
  <2> QED
    BY <2>2, <2>3
<1>5. CASE child # "dead" /\ pc # "idle" /\ Stray
  <2>1. ~Take /\ ~ReadAnswer
    BY <1>5 DEF Take, ReadAnswer, Stray, Fresh, Filled
  <2>2. CASE Complete
    <3>1. Fresh /\ pc' = "idle" /\ UNCHANGED <<child, state, buffer, toChild, fromChild>>
      BY <1>5, <2>2 DEF Complete, Stray, pipes, process
    <3>2. Fresh'
      BY <3>1 DEF Fresh
    <3>3. Rests' /\ Output'
      BY <3>1, <3>2, FreshRests DEF Output
    <3> QED
      BY <1>5, <3>1, <3>3, ConsumerAlive DEF Modes
  <2>3. CASE ReadHead /\ pc' = "idle"
    <3>1. Rests' /\ Output'
      BY <1>5, <2>3, StrayReadHead DEF Output
    <3> QED
      BY <1>5, <2>3, <3>1, ConsumerAlive DEF Modes
  <2>4. CASE ~Complete /\ ~(ReadHead /\ pc' = "idle")
    <3>1. Stray'
      BY <1>5, <2>1, <2>4, StraySend, StrayWaitHead, StrayReadHead, StraySendBody, StrayWaitAnswer
         DEF Consumer
    <3>2. Output' /\ pc' # "idle"
      <4>1. Output'
        BY <3>1, StrayOutput
      <4> QED
        BY <3>1, <4>1 DEF Stray
    <3> QED
      BY <1>5, <3>1, <3>2, ConsumerAlive DEF Modes
  <2> QED
    BY <2>2, <2>3, <2>4
<1> QED
  BY <1>1, <1>2, <1>3, <1>4, <1>5 DEF Modes

\* The process, in each of the modes.
LEMMA WorkerModes ==
  ASSUME Known, Modes, Worker
  PROVE  Modes'
<1>0. /\ child # "dead" /\ pc' = pc
      /\ child' = "dead" => RunFile
  BY DEF Worker, ReadStdin, TakeString, RunFile, parent,
         TakeMethod, TakeURI, TakeHeaderName, TakeHeaderValue, EndHead
<1>1. CASE pc = "idle"
  <2>1. Rests
    BY <1>0, <1>1 DEF Modes
  <2>2. ~TakeString
    BY <2>1, NoString DEF TakeString, Rests, Known
  <2>3. Output' /\ Dead'
    BY <1>0, <1>1 DEF Output, Dead, HeadPCs, AnswerPCs
  <2>4. child' # "dead" => Rests'
    BY <2>1, <2>2, RestsRead, RestsRun DEF Worker
  <2> QED
    BY <1>0, <1>1, <2>3, <2>4 DEF Modes
<1>2. CASE pc # "idle" /\ EntersHead
  <2>1. CASE ReadStdin
    <3>1. EntersHead'
      BY <1>2, <2>1, EntersRead
    <3> QED
      BY <1>0, <1>2, <2>1, <3>1, EntersOutput DEF Modes, ReadStdin
  <2>2. CASE TakeString
    <3>1. EntersHead' \/ Working'
      BY <1>2, <2>2, EntersTake
    <3>2. Output'
      BY <1>2, <2>2, EntersTakeOutput
    <3>3. child' # "dead"
      BY <2>2, <1>0 DEF TakeString, RunFile
    <3> QED
      BY <1>0, <1>2, <3>1, <3>2, <3>3 DEF Modes
  <2>3. CASE RunFile
    <3>1. child' = "dead" /\ Dead'
      BY <1>2, <2>3, EntersRun
    <3>2. Output'
      BY <1>2, <2>3, EntersRunOutput
    <3> QED
      BY <1>0, <1>2, <3>1, <3>2 DEF Modes
  <2> QED
    BY <2>1, <2>2, <2>3 DEF Worker
<1>3. CASE pc # "idle" /\ Working
  <2>1. ~TakeString
    BY <1>3, NoString DEF TakeString, Working, Known
  <2>2. CASE ReadStdin
    <3>1. Working' /\ Output'
      BY <1>3, <2>2, WorkingRead DEF Modes
    <3> QED
      BY <1>0, <1>3, <2>2, <3>1 DEF Modes, ReadStdin
  <2>3. CASE RunFile
    BY <1>0, <1>3, <2>3, WorkingRun DEF Modes
  <2> QED
    BY <2>1, <2>2, <2>3 DEF Worker
<1>4. CASE pc # "idle" /\ Stray
  <2>1. CASE RunFile
    BY <1>0, <1>4, <2>1, StrayRun DEF Modes
  <2>2. CASE ~RunFile
    <3>1. Stray'
      BY <1>4, <2>2, StrayRead, StrayTake DEF Worker
    <3>2. Output'
      BY <3>1, StrayOutput
    <3> QED
      BY <1>0, <1>4, <2>2, <3>1, <3>2 DEF Modes
  <2> QED
    BY <2>1, <2>2
<1> QED
  BY <1>0, <1>1, <1>2, <1>3, <1>4 DEF Modes

-----------------------------------------------------------------------------
(* The invariant.                                                          *)

\* handle_sigchld: the pipes are closed, and a new process begins.
LEMMA SignalModes ==
  ASSUME Known, Modes, HandlerCloses \/ CreateChild
  PROVE  Modes'
<1>1. CASE HandlerCloses
  <2>1. /\ UNCHANGED <<pc, current, position, requests, child>> /\ fromChild' = <<>>
        /\ child = "dead"
    BY <1>1 DEF HandlerCloses, parent, process
  <2>2. Dead'
    BY <2>1, SameRequest DEF Dead, Modes
  <2>3. Output'
    BY <2>1 DEF Output
  <2> QED
    BY <2>1, <2>2, <2>3 DEF Modes
<1>2. CASE CreateChild
  <2>1. child = "dead" /\ pc' = pc
    BY <1>2 DEF CreateChild, parent, Known, TypeOK
  <2> QED
    BY <1>2, <2>1, CreatedDialogue DEF Modes
<1> QED
  BY <1>1, <1>2

\* Every step serves the request it served, or takes the next one.
LEMMA NextRequest ==
  ASSUME TypeOK, Next
  PROVE  /\ requests' = requests /\ current \in 0..MaxRequests /\ MaxRequests \in Nat
         /\ \/ current' = current /\ ~Take
            \/ Take /\ current' = current + 1 /\ current' \in 1..MaxRequests
<1>0. current \in 0..MaxRequests /\ MaxRequests \in Nat
  BY RequestAssumption DEF TypeOK
<1>1. CASE Take
  BY <1>0, <1>1 DEF Take
<1>2. CASE ~Take
  BY <1>0, <1>2
     DEF Next, Consumer, SendHead, WaitHead, ReadHead, SendBody, WaitAnswer, ReadAnswer, Complete,
         HandlerCloses, CreateChild, Worker, ReadStdin, TakeString, RunFile, parent
<1> QED
  BY <1>1, <1>2

LEMMA SingleBefore == ASSUME TypeOK, Next, Single' PROVE Single
BY NextRequest DEF Single

LEMMA DialogueStep == ASSUME Known, Dialogue, Next PROVE Dialogue'
<1> SUFFICES ASSUME Single' PROVE Modes'
  BY DEF Dialogue
<1>1. Modes
  BY SingleBefore DEF Dialogue, Known
<1> QED
  BY <1>1, ConsumerModes, SignalModes, WorkerModes DEF Next

\* What a step sends to the clients.
LEMMA RepliesStep ==
  ASSUME TypeOK, StreamType, Next
  PROVE  \/ replies' = replies
         \/ /\ current \in 1..MaxRequests /\ Consumer /\ pc # "idle"
            /\ \A i \in 1..MaxRequests : i # current => replies'[i] = replies[i]
            /\ \/ /\ replies'[current] = Append(replies[current], <<"500", 0>>)
                  /\ pc' \in {"idle", "readAnswer"}
               \/ /\ replies'[current] = replies[current] \o fromChild
                  /\ pc = "readAnswer" /\ pc' = "readAnswer"
<1>0. replies \in [1..MaxRequests -> Seq(Token)] /\ (pc # "idle" => current \in 1..MaxRequests)
  BY RequestAssumption DEF StreamType, TypeOK
<1>1. CASE ~Consumer
  BY <1>1 DEF Next, HandlerCloses, CreateChild, Worker, ReadStdin, TakeString, RunFile, parent
<1>2. CASE Consumer
  <2>1. CASE ReadAnswer
    BY <1>0, <1>2, <2>1 DEF ReadAnswer
  <2>2. CASE pc # "idle" /\ Answer500 /\ pc' \in {"idle", "readAnswer"}
    BY <1>0, <1>2, <2>2 DEF Answer500
  <2>3. CASE WaitAnswer
    <3>1. CASE pc = "waitAnswer" /\ handler = "closed"
      <4>1. child = "dead"
        BY <3>1 DEF TypeOK
      <4>2. pc' = "readAnswer" /\ Answer500
        BY <2>3, <3>1, <4>1 DEF WaitAnswer, Wait, Ready
      <4> QED
        BY <2>2, <3>1, <4>2
    <3>2. CASE ~(pc = "waitAnswer" /\ handler = "closed")
      BY <2>3, <3>2 DEF WaitAnswer
    <3> QED
      BY <3>1, <3>2
  <2> QED
    BY <1>2, <2>1, <2>2, <2>3
       DEF Consumer, Take, SendHead, WaitHead, ReadHead, SendBody, Complete, FailRequest
<1> QED
  BY <1>1, <1>2

\* Nothing is sent to a client before its request is served.
LEMMA BegunStep == ASSUME TypeOK, StreamType, Begun, Next PROVE Begun'
<1>1. \A j \in 1..MaxRequests : j > current' => replies'[j] = <<>>
  <2> SUFFICES ASSUME NEW j \in 1..MaxRequests, j > current' PROVE replies'[j] = <<>>
    OBVIOUS
  <2>1. j > current /\ j # current /\ replies[j] = <<>>
    BY NextRequest DEF Begun
  <2> QED
    BY <2>1, RepliesStep
<1>2. pc' \notin {"idle", "readAnswer"} => replies'[current'] = <<>>
  <2>1. CASE Take
    BY <2>1, NextRequest DEF Take, Begun
  <2>2. CASE ~Take
    <3>1. pc' \notin {"idle", "readAnswer"} => pc \notin {"idle", "readAnswer"}
      BY <2>2
         DEF Next, Consumer, SendHead, WaitHead, ReadHead, SendBody, WaitAnswer, ReadAnswer,
             Complete, Wait, HandlerCloses, CreateChild, Worker, ReadStdin, TakeString, RunFile,
             parent
    <3> QED
      BY <2>2, <3>1, NextRequest, RepliesStep DEF Begun
  <2> QED
    BY <2>1, <2>2
<1>3. handler' = "closed" => toChild' = <<>> /\ fromChild' = <<>>
  <2>1. CASE HandlerCloses
    BY <2>1 DEF HandlerCloses
  <2>2. CASE handler = "closed" /\ ~CreateChild
    <3>1. child = "dead" /\ toChild = <<>> /\ fromChild = <<>>
      BY <2>2 DEF TypeOK, Begun
    <3>2. ~Worker
      BY <3>1 DEF Worker, ReadStdin, TakeString, RunFile
    <3>3. Consumer \/ HandlerCloses
      BY <2>2, <3>2 DEF Next
    <3>4. UNCHANGED <<toChild, fromChild>>
      BY <2>2, <3>1, <3>3
         DEF Consumer, Take, SendHead, WaitHead, ReadHead, SendBody, WaitAnswer, ReadAnswer,
             Complete, HandlerCloses, pipes, Writable, Filled
    <3> QED
      BY <3>1, <3>4
  <2>3. CASE handler # "closed" /\ ~HandlerCloses
    <3>1. handler' = handler \/ handler' = "none"
      BY <2>3
         DEF Next, Consumer, Take, SendHead, WaitHead, ReadHead, SendBody, WaitAnswer, ReadAnswer,
             Complete, CreateChild, Worker, ReadStdin, TakeString, RunFile
    <3> QED
      BY <2>3, <3>1
  <2>4. CASE CreateChild
    BY <2>4 DEF CreateChild
  <2> QED
    BY <2>1, <2>2, <2>3, <2>4
<1> QED
  BY <1>1, <1>2, <1>3 DEF Begun

\* A place behind the first m.
LEMMA Offset ==
  ASSUME NEW m \in Nat, NEW n \in Nat, NEW i \in 1..(m + n), i \notin 1..m
  PROVE  i - m \in 1..n /\ i = m + (i - m)
<1>1. i \in Int /\ i > m /\ i <= m + n
  OBVIOUS
<1> QED
  BY <1>1

\* What is sent to a client is a refusal or its own answer.
LEMMA RepliedStep == ASSUME Known, Dialogue, Replied, Next PROVE Replied'
<1>0. requests' = requests
  BY NextRequest DEF Known
<1> DEFINE Good(i, x) == \/ x \in {<<"500", 0>>, <<"answer", i>>}
                         \/ \E j \in 1..(i - 1) : requests[j].file = "big"
<1>1. \A i \in 1..MaxRequests : \A k \in DOMAIN replies[i] : Good(i, replies[i][k])
  BY DEF Replied
<1>2. CASE replies' = replies
  BY <1>0, <1>2 DEF Replied
<1>3. CASE replies' # replies
  <2>0. /\ current \in 1..MaxRequests /\ Consumer /\ pc # "idle"
        /\ \A i \in 1..MaxRequests : i # current => replies'[i] = replies[i]
        /\ \/ replies'[current] = Append(replies[current], <<"500", 0>>)
           \/ replies'[current] = replies[current] \o fromChild /\ pc = "readAnswer"
    BY <1>3, RepliesStep DEF Known
  <2>1. replies[current] \in Seq(Token) /\ fromChild \in Seq(Token)
    BY <2>0 DEF Known, StreamType
  <2>2. \A k \in DOMAIN replies'[current] : Good(current, replies'[current][k])
    <3>1. CASE replies'[current] = Append(replies[current], <<"500", 0>>)
      <4>1. Refusal \in Token /\ Refusal = <<"500", 0>>
        BY TokenFacts DEF Refusal
      <4>2. /\ Len(replies'[current]) = Len(replies[current]) + 1 /\ replies'[current] \in Seq(Token)
            /\ \A k \in 1..Len(replies[current]) : replies'[current][k] = replies[current][k]
            /\ replies'[current][Len(replies[current]) + 1] = Refusal
        BY <2>1, <3>1, <4>1, AppendToken
      <4>3. /\ DOMAIN replies'[current] = 1..(Len(replies[current]) + 1)
            /\ DOMAIN replies[current] = 1..Len(replies[current]) /\ Len(replies[current]) \in Nat
        BY <2>1, <4>2
      <4> SUFFICES ASSUME NEW k \in 1..(Len(replies[current]) + 1)
                   PROVE  Good(current, replies'[current][k])
        BY <4>3
      <4>4. CASE k \in 1..Len(replies[current])
        BY <1>1, <2>0, <4>2, <4>3, <4>4
      <4>5. CASE k = Len(replies[current]) + 1
        BY <4>1, <4>2, <4>5
      <4> QED
        BY <4>3, <4>4, <4>5
    <3>2. CASE replies'[current] = replies[current] \o fromChild /\ pc = "readAnswer"
      <4>1. \A k \in DOMAIN fromChild : Good(current, fromChild[k])
        <5>1. CASE Single
          BY <3>2, <5>1 DEF Dialogue, Modes, Output, AnswerPCs, Own
        <5>2. CASE ~Single
          BY <5>2 DEF Single
        <5> QED
          BY <5>1, <5>2
      <4>2. /\ Len(replies'[current]) = Len(replies[current]) + Len(fromChild)
            /\ replies'[current] \in Seq(Token)
            /\ \A k \in 1..Len(replies[current]) : replies'[current][k] = replies[current][k]
            /\ \A k \in 1..Len(fromChild) : replies'[current][Len(replies[current]) + k] = fromChild[k]
        BY <2>1, <3>2, ConcatToken
      <4>3. /\ DOMAIN replies'[current] = 1..(Len(replies[current]) + Len(fromChild))
            /\ DOMAIN replies[current] = 1..Len(replies[current]) /\ Len(replies[current]) \in Nat
            /\ DOMAIN fromChild = 1..Len(fromChild) /\ Len(fromChild) \in Nat
        BY <2>1, <4>2
      <4> SUFFICES ASSUME NEW k \in 1..(Len(replies[current]) + Len(fromChild))
                   PROVE  Good(current, replies'[current][k])
        BY <4>3
      <4>4. CASE k \in 1..Len(replies[current])
        BY <1>1, <2>0, <4>2, <4>3, <4>4
      <4>5. CASE k \notin 1..Len(replies[current])
        <5>1. PICK j \in 1..Len(fromChild) : k = Len(replies[current]) + j
          <6>2. /\ k - Len(replies[current]) \in 1..Len(fromChild)
                /\ k = Len(replies[current]) + (k - Len(replies[current]))
            BY <4>3, <4>5, Offset
          <6> QED
            BY <6>2
        <5> HIDE DEF Good
        <5> QED
          BY <4>1, <4>2, <4>3, <5>1
      <4> QED
        BY <4>4, <4>5
    <3> QED
      BY <2>0, <3>1, <3>2
  <2>3. \A i \in 1..MaxRequests : \A k \in DOMAIN replies'[i] : Good(i, replies'[i][k])
    <3> HIDE DEF Good
    <3> QED
      BY <1>1, <2>0, <2>2
  <2> QED
    BY <1>0, <2>3 DEF Replied
<1> QED
  BY <1>2, <1>3

-----------------------------------------------------------------------------
(* The answer.                                                             *)

\* A request whose script answers is not ended but with its answer.
LEMMA AnsweredNow ==
  ASSUME Known, Modes, Consumer, pc # "idle", pc' = "idle",
         PlainUpTo(current - 1), Answering(request), ~lost[current]
  PROVE  outcome'[current] = "complete" /\ replies'[current] = <<Own>>
<1>1. child # "dead" /\ handler = "none" /\ current \in 1..MaxRequests
  BY RequestAssumption DEF Known, DeathNoticed, TypeOK
<1>2. ~Stray /\ ~Take /\ ~WaitHead /\ ~WaitAnswer /\ ~ReadAnswer
  BY DEF Stray, Take, WaitHead, WaitAnswer, ReadAnswer, Wait
<1>3. CASE EntersHead
  <2>1. SendHead
    BY <1>2, <1>3 DEF Consumer, EntersHead, ReadHead, SendBody, Complete
  <2>2. EntersHead'
    BY <1>3, <2>1, EntersSend DEF SendHead
  <2> QED
    BY <2>2 DEF EntersHead
<1>4. CASE Working
  <2>1. ~SendHead
    BY <1>4 DEF Working, SendHead, HeadPCs, AnswerPCs
  <2>2. ~Working'
    BY DEF Working, HeadPCs, AnswerPCs
  <2>3. Complete
    BY <1>2, <1>4, <2>1, <2>2, WorkingReadHead, WorkingSendBody DEF Consumer, Modes
  <2>4. pc = "readAnswer" /\ fromChild = <<>> /\ replies' = replies /\ outcome'[current] = "complete"
    BY <1>1, <2>3 DEF Complete, Filled, Known, TypeOK
  <2>5. AnswerDue /\ child # "run"
    BY <1>4, <2>4 DEF Working
  <2> QED
    BY <2>4, <2>5 DEF AnswerDue
<1> QED
  BY <1>1, <1>2, <1>3, <1>4 DEF Modes

\* Without a request that upsets the dialogue none prints in pieces.
LEMMA PlainSingle ==
  ASSUME NEW i \in 1..MaxRequests, PlainUpTo(i), current <= i, current \in Nat
  PROVE  Single
BY DEF PlainUpTo, Single, Answering, Recovering

\* The requests before keep their answers, and the one that ends now gets its own.
LEMMA AnsweredStep == ASSUME Known, Dialogue, Answered, Next PROVE Answered'
<1>0. /\ requests' = requests /\ current \in 0..MaxRequests /\ MaxRequests \in Nat
      /\ \/ current' = current /\ ~Take
         \/ Take /\ current' = current + 1 /\ current' \in 1..MaxRequests
  BY NextRequest DEF Known
<1> SUFFICES ASSUME NEW i \in 1..current', i < current' \/ pc' = "idle", PlainUpTo(i)',
                    Answering(requests[i])', ~lost'[i]
             PROVE  outcome'[i] = "complete" /\ replies'[i] = <<<<"answer", i>>>>
  BY <1>0 DEF Answered
<1>1. PlainUpTo(i) /\ Answering(requests[i])
  BY <1>0 DEF PlainUpTo, Answering, Recovering
<1>2. i \in 1..current
  BY <1>0 DEF Take
<1>3. i \in 1..MaxRequests
  BY <1>0, <1>2
<1>4. CASE Consumer
  <2>1. lost'[i] = lost[i]
    <3>1. CASE Take
      <4>1. lost' = [lost EXCEPT ![current + 1] = child = "dead"] /\ i # current + 1
        BY <1>0, <1>2, <3>1 DEF Take
      <4> QED
        BY <1>3, <4>1 DEF Known, TypeOK
    <3>2. CASE ~Take
      BY <1>4, <3>2 DEF Consumer, SendHead, WaitHead, ReadHead, SendBody, WaitAnswer, ReadAnswer,
                        Complete
    <3> QED
      BY <3>1, <3>2
  <2>2. CASE i < current \/ pc = "idle"
    <3>1. outcome'[i] = outcome[i]
      <4>1. outcome' = outcome \/ (pc # "idle" /\ \E x : outcome' = [outcome EXCEPT ![current] = x])
        BY <1>4 DEF Consumer, Take, SendHead, WaitHead, ReadHead, SendBody, WaitAnswer, ReadAnswer,
                    Complete, FailRequest, Wait
      <4>2. outcome' = outcome \/ i # current
        BY <1>0, <1>2, <2>2, <4>1
      <4> QED
        BY <1>3, <4>1, <4>2 DEF Known, TypeOK
    <3>2. replies'[i] = replies[i]
      BY <1>0, <1>2, <1>3, <2>2, RepliesStep DEF Known
    <3> QED
      BY <1>1, <1>2, <2>1, <2>2, <3>1, <3>2 DEF Answered
  <2>3. CASE ~(i < current) /\ pc # "idle"
    <3>1. i = current /\ ~Take /\ current' = current /\ pc' = "idle"
      BY <1>0, <1>2, <2>3 DEF Take
    <3>2. PlainUpTo(current - 1) /\ Answering(request) /\ ~lost[current]
      BY <1>1, <1>2, <2>1, <3>1 DEF PlainUpTo, request
    <3>3. Single
      BY <1>0, <1>1, <1>3, <3>1, PlainSingle
    <3> QED
      BY <1>4, <2>3, <3>1, <3>2, <3>3, AnsweredNow DEF Dialogue, Own
  <2> QED
    BY <2>2, <2>3
<1>5. CASE ~Consumer
  <2>1. UNCHANGED <<pc, current, outcome>> /\ (lost[i] => lost'[i])
    <3>1. CASE RunFile
      BY <1>3, <3>1, RunEffect DEF Known
    <3>2. CASE ~RunFile
      BY <1>5, <3>2 DEF Next, HandlerCloses, CreateChild, Worker, ReadStdin, TakeString, parent
    <3> QED
      BY <3>1, <3>2
  <2>2. replies' = replies
    BY <1>5, RepliesStep DEF Known
  <2> QED
    BY <1>1, <1>2, <2>1, <2>2 DEF Answered
<1> QED
  BY <1>4, <1>5

-----------------------------------------------------------------------------
(* The theorems.                                                           *)

\* The inductive invariant of the dialogue.
Talk == Begun /\ Dialogue /\ Replied /\ Answered

LEMMA InitTalk == Init => Talk
<1> SUFFICES ASSUME Init PROVE Talk
  OBVIOUS
<1>1. Begun /\ Replied /\ Answered
  BY DEF Init, Begun, Replied, Answered
<1>2. Rests /\ Output
  BY DEF Init, Rests, Bytes, Output, HeadPCs, AnswerPCs
<1>3. Dialogue
  BY <1>2 DEF Init, Dialogue, Modes
<1> QED
  BY <1>1, <1>3 DEF Talk

\* A step that changes nothing changes nothing of the dialogue.
LEMMA StillTalk == ASSUME Talk, UNCHANGED vars PROVE Talk'
<1>1. UNCHANGED <<requests, pc, current, position, woken, replies, outcome, handler, toChild,
                  fromChild, child, buffer, state, env, lost>>
  BY DEF vars, parent, process, pipes
<1>2. Begun'
  BY <1>1 DEF Talk, Begun
<1>3. Replied'
  BY <1>1 DEF Talk, Replied
<1>4. Answered'
  BY <1>1 DEF Talk, Answered, PlainUpTo, Answering, Recovering
<1>5. Output' = Output /\ Dead' = Dead /\ OwnEnv' = OwnEnv
  BY <1>1, SameRequest DEF Output, Dead, OwnEnv, OwnMethod
<1>6. Rests' = Rests /\ Stray' = Stray
  BY <1>1, <1>5, SameRequest DEF Rests, Stray, Fresh, Bytes
<1>7. EntersHead' = EntersHead
  <2>1. Sent' = Sent /\ Leaving' = Leaving
    BY <1>1, SameRequest DEF Sent, Leaving
  <2>2. ASSUME NEW n \in 0..5, NEW m \in 0..5, NEW a \in Nat, NEW b \in Nat
        PROVE  Entering(n, m, a, b)' <=> Entering(n, m, a, b)
    BY <1>1, <2>1, SameRequest DEF Entering, Taken, OwnMethod
  <2>3. (\E n, m \in 0..5, a, b \in Nat : Entering(n, m, a, b))'
          <=> \E n, m \in 0..5, a, b \in Nat : Entering(n, m, a, b)
    BY <2>2, Zenon
  <2> QED
    BY <1>1, <2>3 DEF EntersHead
<1>8. Working' = Working
  <2>1. AnswerDue' = AnswerDue /\ Answering(request)' = Answering(request)
        /\ Recovering(request)' = Recovering(request)
    BY <1>1, SameRequest DEF AnswerDue, Answering, Recovering
  <2> QED
    BY <1>1, <1>5, <2>1, SameRequest DEF Working, Bytes
<1>9. Dialogue'
  BY <1>1, <1>5, <1>6, <1>7, <1>8, SameRequest DEF Talk, Dialogue, Modes
<1> QED
  BY <1>2, <1>3, <1>4, <1>9 DEF Talk

\* The two ends of the dialogue are in one of five modes, whatever request is served and
\* whatever process serves it, as long as no script before has printed in pieces; what the
\* clients were sent, and what the pipes are when they are closed, is as the parts say.
THEOREM DialogueKept == Spec => []Talk
<1>1. TypeOK /\ StreamType /\ DeathNoticed /\ Talk /\ [Next]_vars => Talk'
  BY BegunStep, DialogueStep, RepliedStep, AnsweredStep, StillTalk DEF Talk, Known
<1>2. History => DeathNoticed
  BY DEF History
<1> QED
  BY <1>1, <1>2, InitTalk, TypeCorrect, StreamTyped, HistoryKept, PTL DEF Spec

\* cgi.c:97-152 with cgi_worker.c:82-143.  Between two requests the two ends agree: nothing
\* of the last one is left in the pipes or in the process, which waits for a method.
THEOREM Aligned == Spec => []StreamAligned
<1>1. TypeOK /\ Talk => StreamAligned
  <2> SUFFICES ASSUME TypeOK, Talk, pc = "idle", child # "dead", PlainUpTo(current)
               PROVE  toChild = <<>> /\ fromChild = <<>> /\ buffer = <<>> /\ state = "Method"
    BY DEF StreamAligned
  <2>1. current \in 0..MaxRequests /\ current \in Nat
    BY RequestAssumption DEF TypeOK
  <2>2. Single /\ (current > 0 => request.file # "big")
    BY <2>1 DEF PlainUpTo, Single, Answering, Recovering, request
  <2> QED
    BY <2>2 DEF Talk, Dialogue, Modes, Rests
<1> QED
  BY <1>1, TypeCorrect, DialogueKept, PTL

\* cgi.c:124-150.  An answer of another request reaches a client only when a script before
\* has printed in several pieces.
THEOREM OwnAnswersOnly == Spec => []OwnAnswers
<1>1. TypeOK /\ Talk => OwnAnswers
  <2> SUFFICES ASSUME TypeOK, Talk, NEW i \in 1..current, NEW k \in DOMAIN replies[i],
                      replies[i][k][1] \in {"answer", "ack"}, replies[i][k] # <<"answer", i>>
               PROVE  \E j \in 1..(i - 1) : requests[j].file = "big"
    BY DEF OwnAnswers
  <2>1. i \in 1..MaxRequests
    BY RequestAssumption DEF TypeOK
  <2> QED
    BY <2>1 DEF Talk, Replied
<1> QED
  BY <1>1, TypeCorrect, DialogueKept, PTL

\* cgi.c:145-151.  A request whose script answers gets that answer and nothing else, unless
\* a process has ended on it.
THEOREM AnsweredAlways == Spec => []Answered
<1>1. Talk => Answered
  BY DEF Talk
<1> QED
  BY <1>1, DialogueKept, PTL

\* cgi_worker.c:41-72.  Each script finds in its environment its own method, file and
\* headers, and nothing of a request before.
THEOREM EnvironmentOwned == Spec => []OwnEnvironment
<1>1. TypeOK /\ Talk => OwnEnvironment
  <2> SUFFICES ASSUME TypeOK, Talk, child \in {"run", "flush"}, PlainUpTo(current - 1)
               PROVE  OwnEnv
    BY DEF OwnEnvironment, OwnEnv, OwnMethod
  <2>1. current \in 0..MaxRequests /\ current \in Nat
    BY RequestAssumption DEF TypeOK
  <2>2. Single
    BY <2>1 DEF PlainUpTo, Single, Answering, Recovering
  <2>3. ~EntersHead
    BY <2>1 DEF EntersHead, Entering, Leaving, PlainUpTo, Answering, Recovering
  <2>4. ~Stray
    BY DEF Stray
  <2> QED
    BY <2>2, <2>3, <2>4 DEF Talk, Dialogue, Modes, Rests, Working
<1> QED
  BY <1>1, TypeCorrect, DialogueKept, PTL
=============================================================================
