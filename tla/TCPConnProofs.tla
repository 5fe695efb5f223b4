--------------------------- MODULE TCPConnProofs ----------------------------
(***************************************************************************)
(* Proofs about TCPConn: its types, its output, the use of a connection    *)
(* that was freed and the answers that it gives, for every response size   *)
(* and every bound on the input.                                           *)
(***************************************************************************)
EXTENDS TCPConn, NumberFacts

\* A handler that has not answered yet works on a live connection; one that has
\* answered on a freed one got there by a write error.
HandlerInv ==
  /\ pc \in {"parse", "send"} => live
  /\ pc = "uaf" => ~live /\ answer # "rejected"
  /\ pc \in {"sent", "uaf"} /\ ~live => refused /\ WriteError

IInv == TypeOK /\ OutputKept /\ HandlerInv

\* The initial state satisfies the invariant.
LEMMA InitInv == Init => IInv
<1> SUFFICES ASSUME Init PROVE IInv
  OBVIOUS
<1> USE DEF Init
<1>1. received \in Seq(Lines) /\ sent \in Seq(Answers) /\ Len(received) = 0
  OBVIOUS
<1>2. TypeOK
  <2>1. request \in [line : RequestLines, body : 0..1] /\ answer \in Answers
    BY DEF RequestLines, Answers
  <2>2. consumed \in 0..Len(received) /\ out \in Nat
    BY <1>1
  <2> QED BY <1>1, <2>1, <2>2, Zenon DEF TypeOK
<1>3. OutputKept /\ HandlerInv
  BY DEF OutputKept, HandlerInv
<1> QED BY <1>2, <1>3 DEF IInv

\* Closing changes only closed and live, and frees only without output to write.
LEMMA CloseEffect ==
  ASSUME TypeOK, TCPConnClose
  PROVE  /\ closed' \in BOOLEAN /\ live' \in BOOLEAN
         /\ writing => live' = live
         /\ ~writing => live' = FALSE
  BY DEF TypeOK, TCPConnClose

\* A step of the parser keeps the types, and leaves the handler at work.
LEMMA ParseInv ==
  ASSUME IInv, ParseHead \/ ParseBody
  PROVE  IInv'
<1> USE DEF IInv, output, end, socket
<1>1. CASE ParseHead /\ Unread = 0
  <2>1. pc' = "wait" /\ UNCHANGED <<input, answer, output, end, socket>>
    BY <1>1 DEF ParseHead, Continue
  <2>2. TypeOK'
    BY <2>1 DEF TypeOK, input
  <2>3. OutputKept' /\ HandlerInv'
    BY <2>1 DEF OutputKept, HandlerInv
  <2> QED BY <2>2, <2>3
<1>2. CASE ParseHead /\ Unread # 0
  <2>1. consumed + 1 \in 1..Len(received) /\ received[consumed + 1] \in Lines
    BY <1>2 DEF Unread, TypeOK
  <2>2. /\ pc = "parse" /\ pc' \in {"parse", "send"}
        /\ state' \in {"LINE", "HEADER", "BODY"}
        /\ request' \in [line : RequestLines, body : 0..1]
        /\ answer' \in Answers
        /\ consumed' = consumed + 1
        /\ UNCHANGED <<received, wrongFormat, output, end, socket>>
    BY <1>2 DEF ParseHead, ParseLine, Respond, TypeOK, Answers
  <2>3. TypeOK'
    BY <2>1, <2>2 DEF TypeOK
  <2>4. OutputKept' /\ HandlerInv'
    BY <2>2 DEF OutputKept, HandlerInv
  <2> QED BY <2>3, <2>4
<1>3. CASE ParseBody
  <2>1. /\ pc = "parse" /\ pc' \in {"wait", "send"}
        /\ answer' \in Answers
        /\ UNCHANGED <<received, state, request, output, end, socket>>
    BY <1>3 DEF ParseBody, Continue, input, Respond, AnswersTo, TypeOK, Answers, LastAnswers
  <2>2. consumed' \in 0..Len(received) /\ wrongFormat' \in BOOLEAN
    <3> DEFINE body == IF request.line = "unsupported" THEN 0 ELSE request.body
    <3>1. body \in 0..1 /\ consumed \in 0..Len(received) /\ Len(received) \in Nat
      BY DEF TypeOK
    <3>2. CASE Unread < body
      BY <1>3, <3>1, <3>2 DEF ParseBody, Continue, input, TypeOK
    <3>3. CASE ~(Unread < body)
      <4>1. consumed' = consumed + body /\ wrongFormat' = FALSE
        BY <1>3, <3>3 DEF ParseBody
      <4>2. consumed + body <= Len(received)
        BY <3>1, <3>3 DEF Unread
      <4> HIDE DEF body
      <4>3. consumed' \in 0..Len(received)
        BY <3>1, <4>1, <4>2
      <4> QED BY <4>1, <4>3, Zenon
    <3> QED BY <3>2, <3>3
  <2>3. TypeOK'
    BY <2>1, <2>2 DEF TypeOK
  <2>4. OutputKept' /\ HandlerInv'
    BY <2>1 DEF OutputKept, HandlerInv
  <2> QED BY <2>3, <2>4
<1> QED BY <1>1, <1>2, <1>3

\* Sending keeps the invariant: what is left over is marked for the loop to write,
\* or remembered as stalled or refused.
LEMMA SendInv ==
  ASSUME IInv, TCPConnSend
  PROVE  IInv'
<1> USE DEF IInv
<1>1. pc = "send" /\ pc' = "sent" /\ live
  BY DEF TCPConnSend, HandlerInv
<1>2. sent' \in Seq(Answers)
  BY DEF TCPConnSend, TypeOK
<1>3. UNCHANGED <<received, consumed, state, request, wrongFormat, answer, shut, peer, writeFailed>>
  BY DEF TCPConnSend, input, socket
<1>4. ResponseSize \in Nat \ {0} /\ out \in Nat
  BY SizeAssumption DEF TypeOK
<1>5. CASE writing
  <2>1. out' = out + ResponseSize /\ UNCHANGED <<writing, stalled, refused, closed, live>>
    BY <1>5 DEF TCPConnSend, end
  <2> QED BY <1>1, <1>2, <1>3, <1>4, <1>5, <2>1 DEF TypeOK, OutputKept, HandlerInv
<1>6. CASE ~writing /\ ~WriteError
  <2>1. /\ out' \in 0..(out + ResponseSize)
        /\ writing' = (out' \in 1..((out + ResponseSize) - 1))
        /\ stalled' = (out' = (out + ResponseSize))
        /\ UNCHANGED <<refused, end>>
    BY <1>6, Zenon DEF TCPConnSend
  <2>2. UNCHANGED <<refused, closed, live>>
    BY <2>1 DEF end
  <2>3. TypeOK'
    BY <1>1, <1>2, <1>3, <1>4, <2>1, <2>2 DEF TypeOK
  <2>4. OutputKept'
    <3>1. out' \in Nat /\ (out' > 0 => out' \in 1..((out + ResponseSize) - 1) \/ out' = (out + ResponseSize))
      BY <1>4, <2>1, <2>2
    <3>2. out' \in 1..((out + ResponseSize) - 1) => out' > 0
      BY <1>4
    <3> QED BY <1>1, <2>1, <2>2, <3>1, <3>2, Zenon DEF OutputKept
  <2>5. HandlerInv'
    BY <1>1, <2>1, <2>2 DEF HandlerInv
  <2> QED BY <2>3, <2>4, <2>5
<1>7. CASE ~writing /\ WriteError
  <2>1. out' = out + ResponseSize /\ TCPConnClose /\ refused' = TRUE /\ UNCHANGED <<writing, stalled>>
    BY <1>7 DEF TCPConnSend
  <2>2. closed' \in BOOLEAN /\ live' = FALSE
    BY <1>7, <2>1, CloseEffect
  <2>3. TypeOK'
    <3>1. out' \in Nat /\ refused' \in BOOLEAN /\ writing' \in BOOLEAN /\ stalled' \in BOOLEAN
      BY <1>4, <2>1 DEF TypeOK
    <3> QED BY <1>1, <1>2, <1>3, <2>2, <3>1 DEF TypeOK
  <2>4. OutputKept'
    BY <1>7, <2>1, <2>2 DEF OutputKept
  <2>5. HandlerInv'
    BY <1>1, <1>3, <1>7, <2>1, <2>2 DEF HandlerInv, WriteError
  <2> QED BY <2>3, <2>4, <2>5
<1> QED BY <1>5, <1>6, <1>7

\* Every step keeps the invariant.
LEMMA StepInv == IInv /\ [Next]_vars => IInv'
<1> SUFFICES ASSUME IInv, [Next]_vars PROVE IInv'
  OBVIOUS
<1> USE DEF IInv
<1>1. CASE ReadData
  <2>1. received' \in Seq(Lines) /\ Len(received') >= Len(received)
    <3>1. PICK l \in Lines, more \in {<<>>} \cup {<<m>> : m \in Lines} :
            received' = received \o <<l>> \o more
      BY <1>1 DEF ReadData
    <3>2. more \in Seq(Lines) /\ <<l>> \in Seq(Lines) /\ received \in Seq(Lines)
      <4>1. CASE more = <<>>
        BY <4>1 DEF TypeOK
      <4>2. CASE more \in {<<m>> : m \in Lines}
        <5>1. PICK m \in Lines : more = <<m>>
          BY <4>2
        <5> QED BY <5>1 DEF TypeOK
      <4> QED BY <3>1, <4>1, <4>2
    <3>3. received \o <<l>> \in Seq(Lines) /\ Len(received \o <<l>>) >= Len(received)
      BY <3>2
    <3> QED BY <3>1, <3>2, <3>3
  <2>2. /\ pc = "wait" /\ pc' = "parse" /\ live
        /\ UNCHANGED <<consumed, state, request, wrongFormat, answer, output, end, socket>>
    BY <1>1 DEF ReadData
  <2> QED BY <2>1, <2>2 DEF TypeOK, OutputKept, HandlerInv, output, end, socket
<1>2. CASE ReadEnd
  <2>1. /\ pc = "wait" /\ TCPConnClose
        /\ UNCHANGED <<pc, input, answer, output, socket>>
    BY <1>2 DEF ReadEnd
  <2>2. TypeOK'
    BY <2>1, CloseEffect DEF TypeOK, input, output, socket
  <2>3. OutputKept' /\ HandlerInv'
    BY <2>1, CloseEffect DEF OutputKept, HandlerInv, output
  <2> QED BY <2>2, <2>3
<1>3. CASE ParseHead \/ ParseBody
  BY <1>3, ParseInv
<1>4. CASE TCPConnSend
  BY <1>4, SendInv
<1>5. CASE AfterAnswer
  BY <1>5 DEF AfterAnswer, TypeOK, OutputKept, HandlerInv, output, end, socket
<1>6. CASE AfterRejection
  BY <1>6 DEF AfterRejection, TypeOK, OutputKept, HandlerInv, input, output, end, socket
<1>7. CASE AfterFatal
  <2>1. /\ pc' = "wait" /\ TCPConnClose
        /\ UNCHANGED <<input, answer, output, socket>>
    BY <1>7 DEF AfterFatal
  <2>2. TypeOK'
    BY <2>1, CloseEffect DEF TypeOK, input, output, socket
  <2>3. OutputKept' /\ HandlerInv'
    <3>1. closed' \in BOOLEAN /\ live' \in BOOLEAN /\ (writing => live' = live) /\ (~writing => live' = FALSE)
      BY <2>1, CloseEffect
    <3>2. UNCHANGED <<writing, out, stalled, refused>>
      BY <2>1 DEF output
    <3>3. OutputKept'
      BY <3>1, <3>2, <1>7 DEF OutputKept, AfterFatal
    <3> QED BY <2>1, <3>3, Zenon DEF HandlerInv
  <2> QED BY <2>2, <2>3
<1>8. CASE UseFreed
  BY <1>8 DEF UseFreed, TypeOK, OutputKept, HandlerInv, WriteError, input, output, end, socket
<1>9. CASE HandleWrite
  <2>1. out \in Nat /\ out' \in 0..(out - 1) /\ writing' = (out' > 0) /\ writing /\ live /\ pc = "wait"
    BY <1>9 DEF HandleWrite, TypeOK
  <2>2. UNCHANGED <<pc, input, answer, sent, stalled, refused, end, peer, writeFailed>>
    BY <1>9 DEF HandleWrite
  <2>3. shut' \in BOOLEAN
    BY <1>9 DEF HandleWrite
  <2>4. out' \in Nat
    BY <2>1
  <2>5. TypeOK'
    BY <2>1, <2>2, <2>3, <2>4 DEF TypeOK, input, end
  <2>6. OutputKept' /\ HandlerInv'
    BY <2>1, <2>2, Zenon DEF OutputKept, HandlerInv, end
  <2> QED BY <2>5, <2>6
<1>10. CASE HandleWriteError
  <2>1. /\ pc = "wait" /\ TCPConnClose /\ writeFailed' = TRUE
        /\ UNCHANGED <<pc, input, answer, output, shut, peer>>
    BY <1>10 DEF HandleWriteError
  <2>2. TypeOK'
    BY <2>1, CloseEffect DEF TypeOK, input, output
  <2>3. OutputKept' /\ HandlerInv'
    BY <2>1, CloseEffect DEF OutputKept, HandlerInv, output
  <2> QED BY <2>2, <2>3
<1>11. CASE PeerEnds
  <2>1. live /\ peer' \in {"fin", "reset"}
        /\ UNCHANGED <<pc, input, answer, output, end, shut, writeFailed>>
    BY <1>11 DEF PeerEnds
  <2> QED BY <2>1 DEF TypeOK, OutputKept, HandlerInv, input, output, end
<1>12. CASE UNCHANGED vars
  BY <1>12 DEF vars, TypeOK, OutputKept, HandlerInv, WriteError, input, output, end, socket
<1> QED BY <1>1, <1>2, <1>3, <1>4, <1>5, <1>6, <1>7, <1>8, <1>9, <1>10, <1>11, <1>12
     DEF Next, Handle, Write

\* The invariant holds in every reachable state.
LEMMA Invariance == Spec => []IInv
  BY InitInv, StepInv, PTL DEF Spec

\* Types hold, and the parser takes no more than was read: HTTPClientHandleMessage.
THEOREM TypeCorrect == Spec => []TypeOK
<1>1. IInv => TypeOK BY DEF IInv
<1> QED BY <1>1, Invariance, PTL

\* Output that TCPConnSend leaves over is written by the loop before the connection
\* is freed, but for a first write that got EAGAIN and a write that was refused.
THEOREM OutputIsKept == Spec => []OutputKept
<1>1. IInv => OutputKept BY DEF IInv
<1> QED BY <1>1, Invariance, PTL

\* HTTPClientHandleMessage uses a freed connection only after a refused write.
THEOREM UseOnlyAfterRefusal == Spec => []UseFollowsRefusal
<1>1. IInv => UseFollowsRefusal BY DEF IInv, HandlerInv, UseFollowsRefusal
<1> QED BY <1>1, Invariance, PTL

-----------------------------------------------------------------------------
(* What is due to lines.                                                   *)

LEMMA MisfitRange ==
  ASSUME NEW lines \in Seq(Lines), NEW i \in 1..(Len(lines) + 1), Misfits(lines, i) # {}
  PROVE  /\ Min(Misfits(lines, i)) \in Misfits(lines, i)
         /\ Min(Misfits(lines, i)) \in i..Len(lines)
         /\ \A m \in Misfits(lines, i) : Min(Misfits(lines, i)) <= m
<1> DEFINE S == Misfits(lines, i)
<1>0. Len(lines) \in Nat /\ i \in Nat
  OBVIOUS
<1>1. S \in SUBSET Nat /\ S \subseteq i..Len(lines) /\ S # {}
  BY <1>0 DEF Misfits
<1> HIDE DEF S
<1>2. \E n \in S : \A m \in S : n <= m
  BY <1>1, LeastElement
<1>3. Min(S) \in S /\ \A m \in S : Min(S) <= m
  BY <1>2 DEF Min
<1> QED
  BY <1>1, <1>3 DEF S

\* The first line that does not belong to the head.
LEMMA FirstMisfit ==
  ASSUME NEW lines \in Seq(Lines), NEW i \in 1..Len(lines), NEW j \in i..Len(lines),
         j \in Misfits(lines, i), \A k \in i..(j - 1) : k \notin Misfits(lines, i)
  PROVE  Min(Misfits(lines, i)) = j
<1>0. i \in 1..(Len(lines) + 1) /\ Len(lines) \in Nat
  OBVIOUS
<1> DEFINE S == Misfits(lines, i)
<1>1. Min(S) \in S /\ Min(S) \in i..Len(lines) /\ Min(S) <= j
  BY <1>0, MisfitRange
<1>2. ~(Min(S) < j)
  <2> SUFFICES ASSUME Min(S) < j PROVE FALSE
    OBVIOUS
  <2>1. Min(S) \in i..(j - 1)
    BY <1>1
  <2> QED
    BY <1>1, <2>1
<1> HIDE DEF S
<1>3. Min(S) = j
  BY <1>1, <1>2
<1> QED
  BY <1>3 DEF S

\* What is due from a line on depends on what is due from the lines behind it alone.
LEMMA DueLocal ==
  ASSUME NEW lines \in Seq(Lines), NEW i \in 1..(Len(lines) + 1), NEW skip \in BOOLEAN,
         NEW g, NEW h, \A m \in (i + 1)..(Len(lines) + 1) : g[m] = h[m]
  PROVE  DueFrom(lines, i, skip, g) = DueFrom(lines, i, skip, h)
<1> DEFINE j == Min(Misfits(lines, i))
           body == IF j > i + 1 THEN 1 ELSE 0
<1>1. CASE Misfits(lines, i) = {}
  BY <1>1 DEF DueFrom
<1>2. CASE Misfits(lines, i) # {}
  <2>1. j \in i..Len(lines) /\ Len(lines) \in Nat /\ body \in 0..1
    BY <1>2, MisfitRange
  <2> HIDE DEF j, body
  <2>2. j + 1 \in (i + 1)..(Len(lines) + 1)
    BY <2>1
  <2>3. ~(j + body > Len(lines)) => j + body + 1 \in (i + 1)..(Len(lines) + 1)
    BY <2>1
  <2>4. g[j + 1] = h[j + 1] /\ (~(j + body > Len(lines)) => g[j + body + 1] = h[j + body + 1])
    BY <2>2, <2>3
  <2> QED
    BY <2>4 DEF DueFrom, j, body
<1> QED
  BY <1>1, <1>2

\* g is what is due, from the k last lines on.
DueUpTo(lines, k, g) ==
  /\ DOMAIN g = 1..(Len(lines) + 1)
  /\ \A i \in 1..(Len(lines) + 1) :
       i + k > Len(lines) + 1 => g[i] = [skip \in BOOLEAN |-> DueFrom(lines, i, skip, g)]

LEMMA DueExists ==
  ASSUME NEW lines \in Seq(Lines)
  PROVE  \E g : g = [i \in 1..(Len(lines) + 1) |-> [skip \in BOOLEAN |-> DueFrom(lines, i, skip, g)]]
<1>0. PICK n \in Nat : n = Len(lines)
  OBVIOUS
<1> DEFINE S == {k \in Nat : \E g : DueUpTo(lines, k, g)}
<1>1. 0 \in S
  <2> DEFINE g == [i \in 1..(n + 1) |-> 0]
  <2>1. DueUpTo(lines, 0, g)
    <3>1. \A i \in 1..(n + 1) : ~(i + 0 > n + 1)
      OBVIOUS
    <3> QED
      BY <1>0, <3>1 DEF DueUpTo
  <2> QED
    BY <2>1
<1>2. ASSUME NEW k \in Nat, k \in S PROVE k + 1 \in S
  <2>1. PICK g : DueUpTo(lines, k, g)
    BY <1>2
  <2> DEFINE i0 == (n + 1) - k
             h == [g EXCEPT ![i0] = [skip \in BOOLEAN |-> DueFrom(lines, i0, skip, g)]]
  <2>2. DueUpTo(lines, k + 1, h)
    <3>1. DOMAIN h = 1..(n + 1)
      BY <1>0, <2>1 DEF DueUpTo
    <3>2. \A i \in 1..(n + 1) : i # i0 => h[i] = g[i]
      BY <1>0, <2>1 DEF DueUpTo
    <3> SUFFICES ASSUME NEW i \in 1..(n + 1), i + (k + 1) > n + 1
                 PROVE  h[i] = [skip \in BOOLEAN |-> DueFrom(lines, i, skip, h)]
      BY <1>0, <3>1 DEF DueUpTo
    <3>3. i >= i0 /\ i0 \in Int /\ \A m \in (i + 1)..(n + 1) : m # i0 /\ m \in 1..(n + 1)
      OBVIOUS
    <3>4. \A m \in (i + 1)..(n + 1) : h[m] = g[m]
      BY <3>2, <3>3
    <3>5. h[i] = [skip \in BOOLEAN |-> DueFrom(lines, i, skip, g)]
      <4>1. CASE i = i0
        BY <1>0, <2>1, <4>1 DEF DueUpTo
      <4>2. CASE i # i0
        <5>1. i + k > n + 1
          BY <3>3, <4>2
        <5> QED
          BY <1>0, <2>1, <3>2, <4>2, <5>1 DEF DueUpTo
      <4> QED
        BY <4>1, <4>2
    <3> HIDE DEF h
    <3>6. \A skip \in BOOLEAN : DueFrom(lines, i, skip, g) = DueFrom(lines, i, skip, h)
      BY <1>0, <3>4, DueLocal
    <3> QED
      BY <3>5, <3>6
  <2> QED
    BY <2>2
<1>3. n + 1 \in S
  <2> HIDE DEF S
  <2>1. \A k \in Nat : k \in S
    BY <1>1, <1>2, AllNumbers
  <2> QED
    BY <2>1
<1>4. PICK g : DueUpTo(lines, n + 1, g)
  BY <1>3
<1>5. \A i \in 1..(n + 1) : i + (n + 1) > n + 1
  OBVIOUS
<1>6. PICK f : f = [i \in 1..(n + 1) |-> [skip \in BOOLEAN |-> DueFrom(lines, i, skip, g)]]
  OBVIOUS
<1>7. DOMAIN g = 1..(n + 1) /\ \A i \in 1..(n + 1) : g[i] = f[i]
  BY <1>0, <1>4, <1>5, <1>6 DEF DueUpTo
<1>8. \A i \in 1..(n + 1), skip \in BOOLEAN : DueFrom(lines, i, skip, g) = DueFrom(lines, i, skip, f)
  <2> SUFFICES ASSUME NEW i \in 1..(n + 1), NEW skip \in BOOLEAN
               PROVE  DueFrom(lines, i, skip, g) = DueFrom(lines, i, skip, f)
    OBVIOUS
  <2>1. \A m \in (i + 1)..(n + 1) : g[m] = f[m]
    <3>1. \A m \in (i + 1)..(n + 1) : m \in 1..(n + 1)
      OBVIOUS
    <3> QED
      BY <1>7, <3>1
  <2> QED
    BY <1>0, <2>1, DueLocal
<1>9. f = [i \in 1..(n + 1) |-> [skip \in BOOLEAN |-> DueFrom(lines, i, skip, f)]]
  BY <1>6, <1>8
<1> QED
  BY <1>0, <1>9

LEMMA DueUnfolds ==
  ASSUME NEW lines \in Seq(Lines), NEW i \in 1..(Len(lines) + 1), NEW skip \in BOOLEAN
  PROVE  DueTo(lines)[i][skip] = DueFrom(lines, i, skip, DueTo(lines))
<1>1. PICK g : g = [m \in 1..(Len(lines) + 1) |-> [s \in BOOLEAN |-> DueFrom(lines, m, s, g)]]
  BY DueExists
<1>2. DueTo(lines)
        = CHOOSE f : f = [m \in 1..(Len(lines) + 1) |-> [s \in BOOLEAN |-> DueFrom(lines, m, s, f)]]
  BY Zenon DEF DueTo
<1>3. DueTo(lines) = [m \in 1..(Len(lines) + 1) |-> [s \in BOOLEAN |-> DueFrom(lines, m, s, DueTo(lines))]]
  BY <1>1, <1>2, Zenon
<1> QED
  BY <1>3

LEMMA AnswerKinds == {"ok", "malformed", "rejected", "fatal"} = Answers
BY DEF Answers, LastAnswers

\* What is due are answers.
LEMMA DueType ==
  ASSUME NEW lines \in Seq(Lines)
  PROVE  \A i \in 1..(Len(lines) + 1) : \A skip \in BOOLEAN : DueTo(lines)[i][skip] \in Seq(Answers)
<1>0. PICK n \in Nat : n = Len(lines)
  OBVIOUS
<1> DEFINE S == {k \in Nat : \A i \in 1..(n + 1) : \A skip \in BOOLEAN :
                               i + k > n + 1 => DueTo(lines)[i][skip] \in Seq(Answers)}
<1>1. 0 \in S
  OBVIOUS
<1>2. ASSUME NEW k \in Nat, k \in S PROVE k + 1 \in S
  <2> SUFFICES ASSUME NEW i \in 1..(n + 1), NEW skip \in BOOLEAN, i + (k + 1) > n + 1
               PROVE  DueTo(lines)[i][skip] \in Seq(Answers)
    OBVIOUS
  <2>1. \A m \in (i + 1)..(n + 1) : \A s \in BOOLEAN : DueTo(lines)[m][s] \in Seq(Answers)
    <3> SUFFICES ASSUME NEW m \in (i + 1)..(n + 1), NEW s \in BOOLEAN
                 PROVE  DueTo(lines)[m][s] \in Seq(Answers)
      OBVIOUS
    <3>1. m \in 1..(n + 1) /\ m + k > n + 1
      OBVIOUS
    <3> QED
      BY <1>2, <3>1
  <2>2. DueTo(lines)[i][skip] = DueFrom(lines, i, skip, DueTo(lines))
    BY <1>0, DueUnfolds
  <2> DEFINE j == Min(Misfits(lines, i))
             body == IF j > i + 1 THEN 1 ELSE 0
  <2>3. CASE Misfits(lines, i) = {}
    <3>1. DueFrom(lines, i, skip, DueTo(lines)) = <<>>
      BY <2>3 DEF DueFrom
    <3> QED
      BY <2>2, <3>1
  <2>4. CASE Misfits(lines, i) # {}
    <3>1. j \in i..n /\ body \in 0..1
      BY <1>0, <2>4, MisfitRange
    <3>2. DueFrom(lines, i, skip, DueTo(lines)) =
            IF j = i \/ lines[j] # "blank"
            THEN (IF skip THEN <<>> ELSE <<"malformed">>) \o DueTo(lines)[j + 1][TRUE]
            ELSE IF lines[i] = "unsupported" THEN <<"fatal">>
            ELSE IF j + body > n THEN <<>>
            ELSE IF lines[i] = "post" THEN <<"rejected">>
            ELSE <<"ok">> \o DueTo(lines)[j + body + 1][FALSE]
      BY <1>0, <2>4 DEF DueFrom
    <3> HIDE DEF j, body
    <3>3. j + 1 \in (i + 1)..(n + 1) /\ (~(j + body > n) => j + body + 1 \in (i + 1)..(n + 1))
      BY <3>1
    <3>4. /\ DueTo(lines)[j + 1][TRUE] \in Seq(Answers)
          /\ ~(j + body > n) => DueTo(lines)[j + body + 1][FALSE] \in Seq(Answers)
      BY <2>1, <3>3
    <3>5. /\ <<>> \in Seq(Answers) /\ <<"malformed">> \in Seq(Answers) /\ <<"ok">> \in Seq(Answers)
          /\ <<"fatal">> \in Seq(Answers) /\ <<"rejected">> \in Seq(Answers)
      <4>1. "malformed" \in Answers /\ "ok" \in Answers /\ "fatal" \in Answers /\ "rejected" \in Answers
        BY AnswerKinds
      <4> QED
        BY <4>1
    <3>6. ASSUME NEW s \in Seq(Answers), NEW t \in Seq(Answers) PROVE s \o t \in Seq(Answers)
      OBVIOUS
    <3> QED
      BY <2>2, <3>2, <3>4, <3>5, <3>6
  <2> QED
    BY <2>3, <2>4
<1>3. n + 1 \in S
  <2> HIDE DEF S
  <2>1. \A k \in Nat : k \in S
    BY <1>1, <1>2, AllNumbers
  <2> QED
    BY <2>1
<1>4. \A i \in 1..(n + 1) : i + (n + 1) > n + 1
  OBVIOUS
<1> QED
  BY <1>0, <1>3, <1>4

\* What is due from a line on at which no request is complete: nothing yet.
LEMMA DueNothing ==
  ASSUME NEW lines \in Seq(Lines), NEW i \in 1..(Len(lines) + 1), NEW skip \in BOOLEAN,
         Misfits(lines, i) = {}
  PROVE  DueTo(lines)[i][skip] = <<>>
BY DueUnfolds DEF DueFrom

\* What is due from a line on, when j is the first that does not belong to the head.
LEMMA DueSomething ==
  ASSUME NEW lines \in Seq(Lines), NEW i \in 1..Len(lines), NEW j \in i..Len(lines),
         NEW skip \in BOOLEAN,
         j \in Misfits(lines, i), \A k \in i..(j - 1) : k \notin Misfits(lines, i)
  PROVE  LET body == IF j > i + 1 THEN 1 ELSE 0 IN
         DueTo(lines)[i][skip] =
           IF j = i \/ lines[j] # "blank"
           THEN (IF skip THEN <<>> ELSE <<"malformed">>) \o DueTo(lines)[j + 1][TRUE]
           ELSE IF lines[i] = "unsupported" THEN <<"fatal">>
           ELSE IF j + body > Len(lines) THEN <<>>
           ELSE IF lines[i] = "post" THEN <<"rejected">>
           ELSE <<"ok">> \o DueTo(lines)[j + body + 1][FALSE]
<1>1. Min(Misfits(lines, i)) = j
  BY FirstMisfit
<1>2. i \in 1..(Len(lines) + 1)
  OBVIOUS
<1>3. DueTo(lines)[i][skip] = DueFrom(lines, i, skip, DueTo(lines))
  BY <1>2, DueUnfolds
<1>4. Misfits(lines, i) # {}
  OBVIOUS
<1> QED
  BY <1>1, <1>3, <1>4 DEF DueFrom

-----------------------------------------------------------------------------
(* Where the parser is.                                                    *)

\* The last answer has been given.
Ended == \E i \in DOMAIN sent : sent[i] \in LastAnswers

\* How far the head has been read.
HeadEnd == IF state = "BODY" THEN consumed - 1 ELSE consumed

\* The request that is read begins behind line c.
Reading(c) ==
  /\ c \in 0..consumed
  /\ state = "LINE" => c = consumed
  /\ state # "LINE" =>
       /\ c < HeadEnd /\ received[c + 1] = request.line
       /\ \A k \in (c + 2)..HeadEnd : received[k] = "length"
       /\ request.body = IF HeadEnd > c + 1 THEN 1 ELSE 0
  /\ state = "BODY" => received[consumed] = "blank"

\* Lines that are those received up to line c, whatever comes then.
Agree(lines, c) ==
  lines \in Seq(Lines) /\ c <= Len(lines) /\ \A k \in 1..c : lines[k] = received[k]

DueAll(lines) == DueTo(lines)[1][FALSE]

\* Whatever comes behind line c: what was sent is due, and then what is due from there on.
Settled(c, skip) ==
  \A lines \in Seq(Lines) : Agree(lines, c) => DueAll(lines) = sent \o DueTo(lines)[c + 1][skip]

\* The answer that is about to be sent is due.
Pending ==
  \A lines \in Seq(Lines) : Agree(lines, consumed) =>
    /\ answer \in {"ok", "malformed"} =>
         DueAll(lines) = Append(sent, answer) \o DueTo(lines)[consumed + 1][answer = "malformed"]
    /\ answer = "rejected" => DueAll(lines) = Append(sent, answer)
    /\ answer = "fatal" =>
         \E x \in Answers : x # "malformed" /\ \E t \in Seq(Answers) : DueAll(lines) = Append(sent, x) \o t

\* What was sent is what is due, but for a fatal answer at its end.
Finished ==
  \A lines \in Seq(Lines) : Agree(lines, consumed) =>
    IF sent[Len(sent)] = "fatal"
    THEN /\ Len(sent) <= Len(DueAll(lines))
         /\ \A i \in 1..(Len(sent) - 1) : sent[i] = DueAll(lines)[i]
         /\ DueAll(lines)[Len(sent)] # "malformed"
    ELSE sent = DueAll(lines)

\* The answers that were given, at every place of the handler.
Matching ==
  /\ Ended => sent # <<>> /\ Finished
  /\ ~Ended =>
       /\ pc \in {"wait", "parse"} => \E c \in 0..consumed : Reading(c) /\ Settled(c, wrongFormat)
       /\ pc = "wait" => 
            /\ consumed = Len(received)
            /\ state = "BODY" => request.line # "unsupported" /\ request.body = 1
       /\ pc = "send" => Pending /\ (answer = "ok" => ~wrongFormat)
       /\ pc = "sent" =>
            /\ answer \notin LastAnswers /\ Settled(consumed, answer = "malformed")
            /\ answer = "ok" => ~wrongFormat

\* A request that is not complete.
LEMMA WaitingDue ==
  ASSUME TypeOK, ~Ended, NEW c \in 0..consumed, Reading(c), consumed = Len(received),
         state = "BODY" => request.line # "unsupported" /\ request.body = 1
  PROVE  DueTo(received)[c + 1][wrongFormat] = <<>>
<1>0. PICK n \in Nat : n = Len(received) /\ n = consumed /\ c \in 0..n
  BY DEF TypeOK
<1>1. received \in Seq(Lines) /\ wrongFormat \in BOOLEAN /\ c + 1 \in 1..(n + 1)
  BY <1>0 DEF TypeOK
<1>2. CASE state # "BODY"
  <2>1. Misfits(received, c + 1) = {}
    <3>1. CASE state = "LINE"
      <4>1. c + 1 > n
        BY <1>0, <3>1 DEF Reading
      <4>2. (c + 1)..n = {}
        BY <1>0, <4>1
      <4> QED
        BY <1>0, <4>2 DEF Misfits
    <3>2. CASE state = "HEADER"
      <4>1. received[c + 1] \in RequestLines /\ \A k \in (c + 2)..n : received[k] = "length"
        BY <1>0, <3>2 DEF Reading, HeadEnd, TypeOK
      <4>2. \A k \in (c + 1)..n : k = c + 1 \/ k \in (c + 2)..n
        BY <1>0
      <4> QED
        BY <1>0, <4>1, <4>2 DEF Misfits
    <3> QED
      BY <1>2, <3>1, <3>2 DEF TypeOK
  <2> QED
    BY <1>0, <1>1, <2>1, DueNothing
<1>3. CASE state = "BODY"
  <2>1. /\ c < n - 1 /\ received[c + 1] \in RequestLines /\ received[c + 1] # "unsupported"
        /\ \A k \in (c + 2)..(n - 1) : received[k] = "length"
        /\ n - 1 > c + 1 /\ received[n] = "blank"
    BY <1>0, <1>3 DEF Reading, HeadEnd, TypeOK
  <2>2. n \in Misfits(received, c + 1) /\ \A k \in (c + 1)..(n - 1) : k \notin Misfits(received, c + 1)
    <3>1. n \in (c + 1)..n /\ n # c + 1 /\ "blank" # "length"
      BY <1>0, <2>1
    <3>2. \A k \in (c + 1)..(n - 1) : k = c + 1 \/ k \in (c + 2)..(n - 1)
      BY <1>0
    <3> QED
      BY <1>0, <2>1, <3>1, <3>2 DEF Misfits
  <2>3. n > (c + 1) + 1 /\ n + 1 > n /\ n # c + 1 /\ c + 1 \in 1..n /\ n \in (c + 1)..n
    BY <1>0, <2>1
  <2>4. PICK i \in 1..Len(received) : i = c + 1
    BY <1>0, <2>3
  <2>9. PICK j \in i..Len(received) : j = n
    BY <1>0, <2>3, <2>4
  <2>5. j \in Misfits(received, i) /\ \A k \in i..(j - 1) : k \notin Misfits(received, i)
    BY <2>2, <2>4, <2>9
  <2>6. j > i + 1 /\ ~(j = i) /\ j + 1 > Len(received)
    BY <1>0, <2>3, <2>4, <2>9
  <2>7. received[j] = "blank" /\ received[i] # "unsupported"
    BY <2>1, <2>4, <2>9
  <2>8. DueTo(received)[i][wrongFormat] = <<>>
    BY <1>1, <2>5, <2>6, <2>7, DueSomething
  <2> QED
    BY <2>4, <2>8
<1> QED
  BY <1>2, <1>3

\* Sequences of answers.
LEMMA Concats ==
  ASSUME NEW s \in Seq(Answers), NEW x \in Answers, NEW t \in Seq(Answers)
  PROVE  /\ Append(s, x) \o t = s \o (<<x>> \o t)
         /\ s \o <<x>> = Append(s, x) /\ <<>> \o s = s /\ s \o <<>> = s
         /\ Len(Append(s, x)) <= Len(Append(s, x) \o t)
         /\ \A i \in 1..Len(s) : Append(s, x)[i] = (Append(s, x) \o t)[i]
         /\ (Append(s, x) \o t)[Len(s) + 1] = x
         /\ Append(s, x) \in Seq(Answers) /\ Append(s, x) \o t \in Seq(Answers) /\ <<x>> \in Seq(Answers) /\ <<>> \in Seq(Answers)
  OBVIOUS

\* A malformed line.
LEMMA MisfitDue ==
  ASSUME TypeOK, NEW c, Reading(c), state # "BODY", consumed + 1 <= Len(received),
         IF state = "LINE" THEN received[consumed + 1] \notin RequestLines
                           ELSE received[consumed + 1] \in RequestLines,
         NEW lines \in Seq(Lines), Agree(lines, consumed + 1), NEW skip \in BOOLEAN
  PROVE  DueTo(lines)[c + 1][skip] =
           (IF skip THEN <<>> ELSE <<"malformed">>) \o DueTo(lines)[consumed + 2][TRUE]
<1>9. consumed \in Nat /\ consumed + 1 \in Nat /\ Len(lines) \in Nat
  BY DEF TypeOK
<1>0. PICK n \in Nat, m \in Nat : n = consumed + 1 /\ m = Len(lines)
  BY <1>9
<1>1. /\ n <= m /\ c \in 0..(n - 1) /\ \A k \in 1..n : lines[k] = received[k]
      /\ consumed = n - 1 /\ consumed \in Nat
  BY <1>0 DEF Agree, Reading, TypeOK
<1>2. PICK i \in 1..Len(lines) : i = c + 1
  BY <1>0, <1>1
<1>3. PICK j \in i..Len(lines) : j = n
  BY <1>0, <1>1, <1>2
<1>4. j \in Misfits(lines, i) /\ \A k \in i..(j - 1) : k \notin Misfits(lines, i)
  <2>1. CASE state = "LINE"
    <3>1. j = i
      BY <1>1, <1>2, <1>3, <2>1 DEF Reading
    <3>2. lines[j] \notin RequestLines
      BY <1>0, <1>1, <1>3, <2>1
    <3>3. i..(j - 1) = {}
      BY <3>1
    <3> QED
      BY <3>1, <3>2, <3>3 DEF Misfits
  <2>2. CASE state = "HEADER"
    <3>1. /\ c < n - 1 /\ received[c + 1] \in RequestLines
          /\ \A k \in (c + 2)..(n - 1) : received[k] = "length"
      BY <1>1, <2>2 DEF Reading, HeadEnd, TypeOK
    <3>2. j # i /\ i \in 1..n /\ j \in 1..n
      BY <1>1, <1>2, <1>3, <3>1
    <3>3. lines[i] \in RequestLines /\ lines[j] \in RequestLines /\ "length" \notin RequestLines
      BY <1>0, <1>1, <1>2, <1>3, <2>2, <3>1, <3>2 DEF RequestLines
    <3>4. \A k \in i..(j - 1) : k = i \/ lines[k] = "length"
      <4>1. \A k \in i..(j - 1) : k = i \/ (k \in (c + 2)..(n - 1) /\ k \in 1..n)
        BY <1>1, <1>2, <1>3
      <4> QED
        BY <1>1, <3>1, <4>1
    <3> QED
      BY <3>2, <3>3, <3>4 DEF Misfits
  <2> QED
    BY <2>1, <2>2 DEF TypeOK
<1>5. j = i \/ lines[j] # "blank"
  <2>1. CASE state = "LINE"
    BY <1>1, <1>2, <1>3, <2>1 DEF Reading
  <2>2. CASE state # "LINE"
    <3>1. lines[j] \in RequestLines
      BY <1>0, <1>1, <1>2, <1>3, <2>2
    <3> QED
      BY <3>1 DEF RequestLines
  <2> QED
    BY <2>1, <2>2
<1>8. DueTo(lines)[i][skip] =
           IF j = i \/ lines[j] # "blank"
           THEN (IF skip THEN <<>> ELSE <<"malformed">>) \o DueTo(lines)[j + 1][TRUE]
           ELSE IF lines[i] = "unsupported" THEN <<"fatal">>
           ELSE IF j + (IF j > i + 1 THEN 1 ELSE 0) > Len(lines) THEN <<>>
           ELSE IF lines[i] = "post" THEN <<"rejected">>
           ELSE <<"ok">> \o DueTo(lines)[j + (IF j > i + 1 THEN 1 ELSE 0) + 1][FALSE]
  BY <1>4, DueSomething, Zenon
<1>6. DueTo(lines)[i][skip] = (IF skip THEN <<>> ELSE <<"malformed">>) \o DueTo(lines)[j + 1][TRUE]
  BY <1>5, <1>8
<1>7. j + 1 = consumed + 2
  BY <1>1, <1>3
<1> QED
  BY <1>2, <1>6, <1>7

\* A request whose head is complete.
LEMMA RequestDue ==
  ASSUME TypeOK, NEW c, Reading(c), state = "BODY",
         NEW lines \in Seq(Lines), Agree(lines, consumed), NEW skip \in BOOLEAN
  PROVE  DueTo(lines)[c + 1][skip] =
           IF request.line = "unsupported" THEN <<"fatal">>
           ELSE IF consumed + request.body > Len(lines) THEN <<>>
           ELSE IF request.line = "post" THEN <<"rejected">>
           ELSE <<"ok">> \o DueTo(lines)[consumed + request.body + 1][FALSE]
<1>9. consumed \in Nat /\ Len(lines) \in Nat
  BY DEF TypeOK
<1>0. PICK n \in Nat, m \in Nat : n = consumed /\ m = Len(lines)
  BY <1>9
<1>1. /\ n <= m /\ c \in 0..(n - 1) /\ \A k \in 1..n : lines[k] = received[k]
      /\ c < n - 1 /\ received[c + 1] = request.line /\ request.line \in RequestLines
      /\ \A k \in (c + 2)..(n - 1) : received[k] = "length"
      /\ request.body = IF n - 1 > c + 1 THEN 1 ELSE 0
      /\ received[n] = "blank"
  BY <1>0 DEF Agree, Reading, HeadEnd, TypeOK
<1>2. PICK i \in 1..Len(lines) : i = c + 1
  BY <1>0, <1>1
<1>3. PICK j \in i..Len(lines) : j = n
  BY <1>0, <1>1, <1>2
<1>4. j # i /\ i \in 1..n /\ j \in 1..n
  BY <1>1, <1>2, <1>3
<1>5. lines[i] = request.line /\ lines[j] = "blank"
  BY <1>1, <1>2, <1>3, <1>4
<1>6. j \in Misfits(lines, i) /\ \A k \in i..(j - 1) : k \notin Misfits(lines, i)
  <2>1. \A k \in i..(j - 1) : k = i \/ lines[k] = "length"
    <3>1. \A k \in i..(j - 1) : k = i \/ (k \in (c + 2)..(n - 1) /\ k \in 1..n)
      BY <1>1, <1>2, <1>3
    <3> QED
      BY <1>1, <3>1
  <2> QED
    BY <1>1, <1>4, <1>5, <2>1 DEF Misfits
<1>7. request.body = IF j > i + 1 THEN 1 ELSE 0
  <2>1. n - 1 > c + 1 <=> j > i + 1
    BY <1>1, <1>2, <1>3
  <2> QED
    BY <1>1, <2>1
<1>80. DueTo(lines)[i][skip] =
           IF j = i \/ lines[j] # "blank"
           THEN (IF skip THEN <<>> ELSE <<"malformed">>) \o DueTo(lines)[j + 1][TRUE]
           ELSE IF lines[i] = "unsupported" THEN <<"fatal">>
           ELSE IF j + (IF j > i + 1 THEN 1 ELSE 0) > Len(lines) THEN <<>>
           ELSE IF lines[i] = "post" THEN <<"rejected">>
           ELSE <<"ok">> \o DueTo(lines)[j + (IF j > i + 1 THEN 1 ELSE 0) + 1][FALSE]
  BY <1>6, DueSomething, Zenon
<1>8. DueTo(lines)[i][skip] =
           IF lines[i] = "unsupported" THEN <<"fatal">>
           ELSE IF j + request.body > Len(lines) THEN <<>>
           ELSE IF lines[i] = "post" THEN <<"rejected">>
           ELSE <<"ok">> \o DueTo(lines)[j + request.body + 1][FALSE]
  BY <1>4, <1>5, <1>7, <1>80, Zenon
<1> QED
  BY <1>0, <1>2, <1>3, <1>5, <1>8

-----------------------------------------------------------------------------
(* Steps.                                                                  *)

\* What was received stays, more may have come.
Extended ==
  /\ received' \in Seq(Lines) /\ Len(received) <= Len(received')
  /\ \A k \in 1..Len(received) : received'[k] = received[k]

LEMMA AgreeBefore ==
  ASSUME TypeOK, Extended, NEW c \in 0..consumed, NEW d \in Nat, c <= d,
         NEW lines, Agree(lines, d)'
  PROVE  Agree(lines, c)
<1>0. PICK n \in Nat : n = Len(received) /\ consumed \in 0..n
  BY DEF TypeOK
<1>1. \A k \in 1..c : k \in 1..d /\ k \in 1..n
  BY <1>0
<1>2. lines \in Seq(Lines) /\ d <= Len(lines) /\ \A k \in 1..d : lines[k] = received'[k]
  BY DEF Agree
<1>3. c <= Len(lines)
  BY <1>2
<1> QED
  BY <1>0, <1>1, <1>2, <1>3 DEF Agree, Extended

LEMMA SettledStays ==
  ASSUME TypeOK, Extended, sent' = sent, NEW c \in 0..consumed, NEW skip, Settled(c, skip)
  PROVE  Settled(c, skip)'
<1> SUFFICES ASSUME NEW lines \in Seq(Lines), Agree(lines, c)'
             PROVE  DueAll(lines) = sent \o DueTo(lines)[c + 1][skip]
  BY DEF Settled
<1>1. Agree(lines, c)
  BY AgreeBefore DEF TypeOK
<1> QED
  BY <1>1 DEF Settled

LEMMA FinishedStays ==
  ASSUME TypeOK, Extended, sent' = sent, consumed' \in Nat, consumed <= consumed', Finished
  PROVE  Finished'
<1>1. ASSUME NEW lines \in Seq(Lines), Agree(lines, consumed)' PROVE Agree(lines, consumed)
  <2>1. PICK d \in Nat : d = consumed'
    OBVIOUS
  <2>2. consumed \in 0..consumed /\ Agree(lines, d)'
    BY <1>1, <2>1 DEF TypeOK, Agree
  <2> QED
    BY <2>1, <2>2, AgreeBefore
<1>2. DueAll(received) = DueAll(received)
  OBVIOUS
<1> QED
  BY <1>1 DEF Finished, DueAll

LEMMA ReadingStays ==
  ASSUME TypeOK, Extended, UNCHANGED <<consumed, state, request>>, NEW c, Reading(c)
  PROVE  Reading(c)'
<1>0. PICK n \in Nat : n = Len(received) /\ consumed \in 0..n
  BY DEF TypeOK
<1>1. \A k \in 1..consumed : received'[k] = received[k]
  BY <1>0 DEF Extended
<1>2. HeadEnd' = HeadEnd /\ HeadEnd \in Int /\ HeadEnd <= consumed /\ c \in 0..consumed
  BY <1>0 DEF HeadEnd, Reading
<1>3. state # "LINE" => c + 1 \in 1..consumed /\ \A k \in (c + 2)..HeadEnd : k \in 1..consumed
  BY <1>0, <1>2 DEF Reading
<1>4. state = "BODY" => consumed \in 1..consumed
  BY <1>0, <1>3
<1> QED
  BY <1>1, <1>2, <1>3, <1>4 DEF Reading

\* A step that is not TCPConnSend gives no answer.
LEMMA Extends ==
  ASSUME IInv, [Next]_vars
  PROVE  /\ Extended /\ consumed' \in Nat /\ consumed <= consumed'
         /\ TCPConnSend \/ sent' = sent
<1>0. received \in Seq(Lines) /\ consumed \in Nat /\ TypeOK'
  BY StepInv DEF IInv, TypeOK
<1>1. CASE ReadData
  <2>1. PICK l \in Lines, more \in {<<>>} \cup {<<m>> : m \in Lines} :
          received' = received \o <<l>> \o more
    BY <1>1 DEF ReadData
  <2>2. more \in Seq(Lines) /\ <<l>> \in Seq(Lines)
    <3>1. CASE more = <<>>
      BY <3>1
    <3>2. CASE more \in {<<m>> : m \in Lines}
      <4>1. PICK m \in Lines : more = <<m>>
        BY <3>2
      <4> QED
        BY <4>1
    <3> QED
      BY <2>1, <3>1, <3>2
  <2>3. ASSUME NEW r \in Seq(Lines), NEW s \in Seq(Lines), NEW t \in Seq(Lines)
        PROVE  /\ Len(r) <= Len(r \o s \o t) /\ r \o s \o t \in Seq(Lines)
               /\ \A k \in 1..Len(r) : (r \o s \o t)[k] = r[k]
    OBVIOUS
  <2>4. Extended
    BY <1>0, <2>1, <2>2, <2>3, Zenon DEF Extended
  <2> QED
    BY <1>0, <1>1, <2>4 DEF ReadData, output
<1>2. CASE received' = received
  <2>1. Extended
    BY <1>0, <1>2 DEF Extended
  <2>2. consumed' = consumed \/ consumed' = consumed + 1 \/ consumed' = consumed + request.body
        \/ ReadData
    <3>1. CASE ParseHead
      BY <3>1 DEF ParseHead, ParseLine, Continue, input
    <3>2. CASE ParseBody
      <4>1. consumed' = consumed \/ consumed' = consumed + IF request.line = "unsupported" THEN 0 ELSE request.body
        BY <3>2, Zenon DEF ParseBody, Continue, input
      <4> QED
        BY <1>0, <4>1
    <3> QED
      BY <3>1, <3>2 DEF Next, Handle, Write, ReadEnd, TCPConnSend, AfterAnswer, AfterRejection,
         AfterFatal, UseFreed, HandleWrite, HandleWriteError, PeerEnds, vars, input
  <2>3. consumed' \in Nat /\ request.body \in 0..1
    BY <1>0 DEF IInv, TypeOK
  <2>4. TCPConnSend \/ sent' = sent
    BY DEF Next, Handle, Write, ReadData, ReadEnd, ParseHead, ParseBody, AfterAnswer,
           AfterRejection, AfterFatal, UseFreed, HandleWrite, HandleWriteError, PeerEnds,
           vars, output
  <2>5. consumed <= consumed'
    <3>1. CASE ReadData
      BY <1>0, <3>1 DEF ReadData
    <3> QED
      BY <1>0, <2>2, <2>3, <3>1
  <2> QED
    BY <2>1, <2>3, <2>4, <2>5
<1>3. ReadData \/ received' = received
  BY DEF Next, Handle, Write, ReadEnd, ParseHead, ParseLine, Continue, ParseBody, TCPConnSend,
         AfterAnswer, AfterRejection, AfterFatal, UseFreed, HandleWrite, HandleWriteError, PeerEnds,
         vars, input
<1> QED
  BY <1>1, <1>2, <1>3

\* Behind the last answer.
LEMMA EndedMatching ==
  ASSUME IInv, [Next]_vars, Matching, Ended
  PROVE  Matching'
<1>1. sent' = sent
  BY Extends DEF TCPConnSend, Ended
<1>2. Ended'
  BY <1>1 DEF Ended
<1>3. Finished'
  BY <1>1, Extends, FinishedStays DEF Matching, IInv
<1> QED
  BY <1>1, <1>2, <1>3 DEF Matching

\* A step that neither takes a line nor gives an answer.
LEMMA QuietMatching ==
  ASSUME IInv, Extended, Matching, ~Ended,
         UNCHANGED <<consumed, state, request, wrongFormat, answer, sent>>,
         \/ pc' = pc /\ received' = received
         \/ pc = "wait" /\ pc' = "parse"
         \/ pc' = "uaf"
  PROVE  Matching'
<1>1. ~Ended'
  BY DEF Ended
<1>2. TypeOK
  BY DEF IInv
<1>3. pc' \in {"wait", "parse"} => (\E c \in 0..consumed : Reading(c) /\ Settled(c, wrongFormat))'
  <2>1. SUFFICES ASSUME pc' \in {"wait", "parse"}
                 PROVE  (\E c \in 0..consumed : Reading(c) /\ Settled(c, wrongFormat))'
    OBVIOUS
  <2>2. PICK c \in 0..consumed : Reading(c) /\ Settled(c, wrongFormat)
    BY <2>1 DEF Matching
  <2>3. PICK skip : skip = wrongFormat
    OBVIOUS
  <2>4. Settled(c, skip)
    BY <2>2, <2>3
  <2>5. Reading(c)' /\ Settled(c, skip)'
    BY <1>2, <2>2, <2>4, ReadingStays, SettledStays
  <2> QED
    BY <2>3, <2>5
<1>4. pc' = "wait" =>
        /\ consumed' = Len(received')
        /\ state' = "BODY" => request'.line # "unsupported" /\ request'.body = 1
  BY DEF Matching
<1>5. pc' = "send" => Pending' /\ (answer' = "ok" => ~wrongFormat')
  <2> SUFFICES ASSUME pc' = "send" PROVE Pending' /\ (answer' = "ok" => ~wrongFormat')
    OBVIOUS
  <2>1. Pending /\ received' = received /\ (answer = "ok" => ~wrongFormat)
    BY DEF Matching
  <2> QED
    BY <2>1 DEF Pending, Agree, DueAll
<1>6. pc' = "sent" =>
        /\ answer' \notin LastAnswers /\ Settled(consumed, answer = "malformed")'
        /\ answer' = "ok" => ~wrongFormat'
  <2> SUFFICES ASSUME pc' = "sent"
               PROVE  /\ answer' \notin LastAnswers /\ Settled(consumed, answer = "malformed")'
                      /\ answer' = "ok" => ~wrongFormat'
    OBVIOUS
  <2>1. /\ answer \notin LastAnswers /\ Settled(consumed, answer = "malformed")
        /\ answer = "ok" => ~wrongFormat
        /\ received' = received
    BY DEF Matching
  <2> QED
    BY <2>1 DEF Settled, Agree, DueAll
<1> QED
  BY <1>1, <1>3, <1>4, <1>5, <1>6 DEF Matching

\* A step of the parser on the head.
LEMMA HeadMatching ==
  ASSUME IInv, ParseHead, Matching, ~Ended
  PROVE  Matching'
<1>1. /\ pc = "parse" /\ state \in {"LINE", "HEADER"} /\ TypeOK /\ TypeOK'
      /\ received' = received /\ sent' = sent
  BY StepInv DEF ParseHead, ParseLine, Continue, input, output, IInv, TypeOK, Next, Handle
<1>2. ~Ended' /\ Extended
  BY <1>1 DEF Ended, Extended, TypeOK
<1>3. PICK c \in 0..consumed : Reading(c) /\ Settled(c, wrongFormat)
  BY <1>1 DEF Matching
<1>4. PICK skip \in BOOLEAN : skip = wrongFormat
  BY <1>1 DEF TypeOK
<1>5. PICK n \in Nat : n = Len(received) /\ consumed \in 0..n
  BY <1>1 DEF TypeOK
<1>6. Settled(c, skip)'
  BY <1>1, <1>2, <1>3, <1>4, SettledStays
<1>7. CASE Unread = 0
  <2>1. pc' = "wait" /\ UNCHANGED <<consumed, state, request, wrongFormat, answer>>
    BY <1>7 DEF ParseHead, Continue, input
  <2>2. consumed' = Len(received')
    BY <1>1, <1>5, <1>7, <2>1 DEF Unread
  <2>3. Reading(c)'
    BY <1>1, <1>2, <1>3, <2>1, ReadingStays
  <2>4. (\E d \in 0..consumed : Reading(d) /\ Settled(d, wrongFormat))'
    BY <1>3, <1>4, <1>6, <2>1, <2>3
  <2> QED
    BY <1>1, <1>2, <2>1, <2>2, <2>4 DEF Matching
<1>8. CASE Unread # 0
  <2>1. consumed' = consumed + 1 /\ ParseLine
    BY <1>8 DEF ParseHead, ParseLine
  <2>2. consumed + 1 <= n
    BY <1>5, <1>8 DEF Unread
  <2>3. ASSUME pc' = "parse", UNCHANGED wrongFormat, Reading(c)'
        PROVE  Matching'
    <3>1. c \in 0..(consumed + 1)
      BY <1>5
    <3>2. (\E d \in 0..consumed : Reading(d) /\ Settled(d, wrongFormat))'
      BY <1>4, <1>6, <2>1, <2>3, <3>1
    <3> QED
      BY <1>2, <2>3, <3>2 DEF Matching
  <2>4. CASE state = "LINE" /\ received[consumed + 1] \in RequestLines
    <3>1. /\ request' = [line |-> received[consumed + 1], body |-> 0]
          /\ state' = "HEADER" /\ UNCHANGED <<pc, wrongFormat>>
      BY <2>1, <2>4 DEF ParseLine
    <3>2. c = consumed /\ request'.line = received[consumed + 1] /\ request'.body = 0
      BY <1>3, <2>4, <3>1 DEF Reading
    <3>3. HeadEnd' = consumed + 1
      BY <2>1, <3>1 DEF HeadEnd
    <3>4. c \in 0..(consumed + 1) /\ c < consumed + 1 /\ ~(consumed + 1 > c + 1)
          /\ \A k \in (c + 2)..(consumed + 1) : FALSE
      BY <1>5, <3>2
    <3>5. Reading(c)'
      BY <1>1, <2>1, <3>1, <3>2, <3>3, <3>4 DEF Reading
    <3> QED
      BY <1>1, <2>3, <3>1, <3>5
  <2>5. CASE state = "HEADER" /\ received[consumed + 1] = "length"
    <3>1. request' = [request EXCEPT !.body = 1] /\ UNCHANGED <<pc, state, wrongFormat>>
      BY <2>1, <2>5 DEF ParseLine, RequestLines
    <3>2. request'.line = request.line /\ request'.body = 1
      BY <1>1, <3>1 DEF TypeOK
    <3>3. /\ c < consumed /\ received[c + 1] = request.line
          /\ \A k \in (c + 2)..consumed : received[k] = "length"
      BY <1>3, <2>5 DEF Reading, HeadEnd
    <3>4. HeadEnd' = consumed + 1
      BY <2>1, <2>5, <3>1 DEF HeadEnd
    <3>5. c \in 0..(consumed + 1) /\ c < consumed + 1 /\ consumed + 1 > c + 1
          /\ \A k \in (c + 2)..(consumed + 1) : k \in (c + 2)..consumed \/ k = consumed + 1
      BY <1>5, <3>3
    <3>6. \A k \in (c + 2)..(consumed + 1) : received[k] = "length"
      BY <2>5, <3>3, <3>5
    <3>7. Reading(c)'
      BY <1>1, <2>1, <2>5, <3>1, <3>2, <3>3, <3>4, <3>5, <3>6 DEF Reading
    <3> QED
      BY <1>1, <2>3, <3>1, <3>7
  <2>6. CASE state = "HEADER" /\ received[consumed + 1] = "blank"
    <3>1. state' = "BODY" /\ UNCHANGED <<pc, request, wrongFormat>>
      BY <2>1, <2>6 DEF ParseLine, RequestLines
    <3>2. /\ c < consumed /\ received[c + 1] = request.line
          /\ \A k \in (c + 2)..consumed : received[k] = "length"
          /\ request.body = IF consumed > c + 1 THEN 1 ELSE 0
      BY <1>3, <2>6 DEF Reading, HeadEnd
    <3>3. HeadEnd' = consumed
      BY <1>5, <2>1, <3>1 DEF HeadEnd
    <3>4. c \in 0..(consumed + 1)
      BY <1>5
    <3>5. Reading(c)'
      BY <1>1, <2>1, <2>6, <3>1, <3>2, <3>3, <3>4 DEF Reading
    <3> QED
      BY <1>1, <2>3, <3>1, <3>5
  <2>7. CASE IF state = "LINE" THEN received[consumed + 1] \notin RequestLines
                               ELSE received[consumed + 1] \in RequestLines
    <3>1. /\ IF wrongFormat THEN state' = "LINE" /\ UNCHANGED <<pc, answer>>
                            ELSE Respond({"malformed"}) /\ UNCHANGED state
          /\ UNCHANGED <<request, wrongFormat>>
      BY <1>1, <2>1, <2>7 DEF ParseLine, RequestLines
    <3>2. PICK d \in Nat : d = consumed + 1
      BY <1>5
    <3>3. ASSUME NEW lines \in Seq(Lines), Agree(lines, d)
          PROVE  DueAll(lines) = sent \o ((IF skip THEN <<>> ELSE <<"malformed">>) \o DueTo(lines)[d + 1][TRUE])
      <4>1. DueTo(lines)[c + 1][skip] =
              (IF skip THEN <<>> ELSE <<"malformed">>) \o DueTo(lines)[consumed + 2][TRUE]
        BY <1>1, <1>3, <1>5, <2>2, <2>7, <3>2, <3>3, MisfitDue
      <4>2. Agree(lines, c)
        <5>1. \A k \in 1..c : k \in 1..d
          BY <1>5, <3>2
        <5>2. c <= d /\ c \in Nat /\ Len(lines) \in Nat
          BY <1>5, <3>2
        <5> QED
          BY <3>2, <3>3, <5>1, <5>2 DEF Agree
      <4>3. DueAll(lines) = sent \o DueTo(lines)[c + 1][skip]
        BY <1>3, <1>4, <4>2 DEF Settled
      <4>4. d + 1 = consumed + 2
        BY <1>5, <3>2
      <4> QED
        BY <4>1, <4>3, <4>4
    <3>4. ASSUME NEW lines \in Seq(Lines), Agree(lines, d)
          PROVE  DueTo(lines)[d + 1][TRUE] \in Seq(Answers)
      <4>1. d + 1 \in 1..(Len(lines) + 1)
        BY <3>4 DEF Agree
      <4> QED
        BY <4>1, DueType
    <3>5. CASE wrongFormat
      <4>1. state' = "LINE" /\ pc' = "parse" /\ skip = TRUE /\ wrongFormat' = TRUE
        BY <1>1, <1>4, <3>1, <3>5 DEF TypeOK
      <4>2. ASSUME NEW lines \in Seq(Lines), Agree(lines, d)
            PROVE  DueAll(lines) = sent \o DueTo(lines)[d + 1][TRUE]
        <5>1. DueAll(lines) = sent \o (<<>> \o DueTo(lines)[d + 1][TRUE])
          BY <3>3, <4>1, <4>2, Zenon
        <5>2. DueTo(lines)[d + 1][TRUE] \in Seq(Answers)
          BY <3>4, <4>2
        <5>3. <<>> \o DueTo(lines)[d + 1][TRUE] = DueTo(lines)[d + 1][TRUE]
          BY <5>2
        <5> QED
          BY <5>1, <5>3
      <4>3. Settled(d, TRUE)'
        BY <1>1, <4>2 DEF Settled, Agree, DueAll
      <4>4. Reading(d)' /\ d \in 0..d
        BY <2>1, <3>2, <4>1 DEF Reading
      <4>5. (\E e \in 0..consumed : Reading(e) /\ Settled(e, wrongFormat))'
        BY <2>1, <3>2, <4>1, <4>3, <4>4
      <4> QED
        BY <1>2, <4>1, <4>5 DEF Matching
    <3>6. CASE ~wrongFormat
      <4>1. answer' = "malformed" /\ pc' = "send" /\ skip = FALSE /\ sent \in Seq(Answers)
        BY <1>1, <1>4, <3>1, <3>6 DEF Respond, TypeOK
      <4>2. ASSUME NEW lines \in Seq(Lines), Agree(lines, d)
            PROVE  DueAll(lines) = Append(sent, "malformed") \o DueTo(lines)[d + 1][TRUE]
        <5>1. DueAll(lines) = sent \o (<<"malformed">> \o DueTo(lines)[d + 1][TRUE])
          BY <3>3, <4>1, <4>2, Zenon
        <5>2. DueTo(lines)[d + 1][TRUE] \in Seq(Answers) /\ "malformed" \in Answers
          BY <3>4, <4>2, AnswerKinds
        <5>3. PICK t \in Seq(Answers) : t = DueTo(lines)[d + 1][TRUE]
          BY <5>2
        <5>4. Append(sent, "malformed") \o t = sent \o (<<"malformed">> \o t)
          BY <4>1, <5>2, Concats
        <5> QED
          BY <5>1, <5>3, <5>4
      <4>3. Pending'
        <5>1. ("malformed" = "malformed") = TRUE /\ "malformed" \notin {"rejected", "fatal"}
          OBVIOUS
        <5>2. SUFFICES ASSUME NEW lines \in Seq(Lines), Agree(lines, d)
                       PROVE  DueAll(lines) = Append(sent, "malformed") \o DueTo(lines)[d + 1][TRUE]
          BY <1>1, <2>1, <3>2, <4>1, <5>1 DEF Pending, Agree, DueAll
        <5> QED
          BY <4>2, <5>2
      <4> QED
        BY <1>2, <4>1, <4>3 DEF Matching
    <3> QED
      BY <3>5, <3>6
  <2> QED
    BY <1>1, <2>1, <2>4, <2>5, <2>6, <2>7 DEF ParseLine
<1> QED
  BY <1>7, <1>8

\* A request is complete and is about to be answered, or its body is waited for.
LEMMA BodyMatching ==
  ASSUME IInv, ParseBody, Matching, ~Ended
  PROVE  Matching'
<1>1. /\ pc = "parse" /\ state = "BODY" /\ TypeOK /\ TypeOK'
      /\ received' = received /\ sent' = sent /\ UNCHANGED <<state, request>>
  BY StepInv DEF ParseBody, Continue, input, output, IInv, TypeOK, Next, Handle
<1>2. ~Ended' /\ Extended
  BY <1>1 DEF Ended, Extended, TypeOK
<1>3. PICK c \in 0..consumed : Reading(c) /\ Settled(c, wrongFormat)
  BY <1>1 DEF Matching
<1>4. PICK skip \in BOOLEAN : skip = wrongFormat
  BY <1>1 DEF TypeOK
<1>5. PICK n \in Nat : n = Len(received) /\ consumed \in 0..n
  BY <1>1 DEF TypeOK
<1> DEFINE body == IF request.line = "unsupported" THEN 0 ELSE request.body
<1>6. request.body \in 0..1 /\ request.line \in RequestLines
  BY <1>1 DEF TypeOK
<1>7. CASE Unread < body
  <2>1. pc' = "wait" /\ UNCHANGED <<consumed, wrongFormat>>
    BY <1>7 DEF ParseBody, Continue, input
  <2>2. request.line # "unsupported" /\ request.body = 1 /\ consumed = n
    BY <1>5, <1>6, <1>7 DEF Unread
  <2>3. Reading(c)'
    BY <1>1, <1>2, <1>3, <2>1, ReadingStays
  <2>4. Settled(c, skip)'
    BY <1>1, <1>2, <1>3, <1>4, SettledStays
  <2>5. (\E d \in 0..consumed : Reading(d) /\ Settled(d, wrongFormat))'
    BY <1>4, <2>1, <2>3, <2>4
  <2> QED
    BY <1>1, <1>2, <1>5, <2>1, <2>2, <2>5 DEF Matching
<1>8. CASE ~(Unread < body)
  <2>1. /\ pc' = "send" /\ consumed' = consumed + body /\ wrongFormat' = FALSE
        /\ answer' \in AnswersTo(request.line)
    BY <1>8 DEF ParseBody, Respond
  <2>2. body \in 0..1
    BY <1>6
  <2>3. PICK d \in Nat : d = consumed + body /\ consumed <= d
    BY <1>5, <2>2
  <2>4. ASSUME NEW lines \in Seq(Lines), Agree(lines, d)
        PROVE  DueAll(lines) = sent \o (IF request.line = "unsupported" THEN <<"fatal">>
                                        ELSE IF request.line = "post" THEN <<"rejected">>
                                        ELSE <<"ok">> \o DueTo(lines)[d + 1][FALSE])
    <3>1. Agree(lines, consumed) /\ Agree(lines, c)
      <4>1. c \in 0..consumed /\ consumed \in Nat /\ Len(lines) \in Nat
        BY <1>3, <1>5
      <4>2. \A k \in 1..consumed : k \in 1..d
        BY <2>3, <4>1
      <4>3. consumed <= Len(lines) /\ \A k \in 1..consumed : lines[k] = received[k]
        BY <2>3, <2>4, <4>1, <4>2 DEF Agree
      <4>4. \A k \in 1..c : k \in 1..consumed
        BY <4>1
      <4> QED
        BY <4>1, <4>3, <4>4 DEF Agree
    <3>2. DueAll(lines) = sent \o DueTo(lines)[c + 1][skip]
      BY <1>3, <1>4, <3>1 DEF Settled
    <3>3. DueTo(lines)[c + 1][skip] =
           IF request.line = "unsupported" THEN <<"fatal">>
           ELSE IF consumed + request.body > Len(lines) THEN <<>>
           ELSE IF request.line = "post" THEN <<"rejected">>
           ELSE <<"ok">> \o DueTo(lines)[consumed + request.body + 1][FALSE]
      BY <1>1, <1>3, <3>1, RequestDue
    <3>4. request.line # "unsupported" => d = consumed + request.body
      BY <2>3
    <3>5. d <= Len(lines) /\ Len(lines) \in Nat
      BY <2>4 DEF Agree
    <3>6. ~(d > Len(lines))
      BY <3>5
    <3> QED
      BY <3>2, <3>3, <3>4, <3>6
  <2>5. ASSUME NEW lines \in Seq(Lines), Agree(lines, d)
        PROVE  DueTo(lines)[d + 1][FALSE] \in Seq(Answers)
    <3>1. d + 1 \in 1..(Len(lines) + 1)
      BY <2>5 DEF Agree
    <3> QED
      BY <3>1, DueType
  <2>6. sent \in Seq(Answers)
    BY <1>1 DEF TypeOK
  <2> HIDE DEF body
  <2>7. ASSUME NEW lines \in Seq(Lines), Agree(lines, d)
        PROVE  /\ answer' = "ok" =>
                    DueAll(lines) = Append(sent, "ok") \o DueTo(lines)[d + 1][FALSE]
               /\ answer' # "malformed"
               /\ answer' = "rejected" => DueAll(lines) = Append(sent, "rejected")
               /\ answer' = "fatal" => \E x \in Answers : x # "malformed" /\ \E t \in Seq(Answers) :
                                         DueAll(lines) = Append(sent, x) \o t
    <3>1. PICK t \in Seq(Answers) : t = DueTo(lines)[d + 1][FALSE]
      BY <2>5, <2>7
    <3>2. /\ request.line \notin {"unsupported", "post"} => DueAll(lines) = Append(sent, "ok") \o t
          /\ request.line = "post" => DueAll(lines) = Append(sent, "rejected")
          /\ request.line = "unsupported" => DueAll(lines) = Append(sent, "fatal")
      <4>0. "ok" \in Answers
        BY AnswerKinds
      <4>1. sent \o (<<"ok">> \o t) = Append(sent, "ok") \o t
        BY <2>6, <4>0, Concats
      <4>2. sent \o <<"rejected">> = Append(sent, "rejected") /\ sent \o <<"fatal">> = Append(sent, "fatal")
        BY <2>6
      <4>3. DueAll(lines) = sent \o (IF request.line = "unsupported" THEN <<"fatal">>
                                     ELSE IF request.line = "post" THEN <<"rejected">>
                                     ELSE <<"ok">> \o t)
        BY <2>4, <2>7, <3>1
      <4> QED
        BY <4>1, <4>2, <4>3
    <3>3. /\ answer' = "ok" => request.line = "get"
          /\ answer' = "rejected" => request.line = "post"
          /\ answer' # "malformed"
      BY <2>1 DEF AnswersTo
    <3>4. "ok" \in Answers /\ "rejected" \in Answers /\ "fatal" \in Answers
          /\ \A x \in Answers : Append(sent, x) \o <<>> = Append(sent, x)
      BY <2>6, AnswerKinds
    <3>5. \E x \in Answers : x # "malformed" /\ \E s \in Seq(Answers) : DueAll(lines) = Append(sent, x) \o s
      <4>1. <<>> \in Seq(Answers)
        OBVIOUS
      <4>2. CASE request.line \notin {"unsupported", "post"}
        BY <3>2, <3>4, <4>2
      <4>3. CASE request.line = "post"
        <5>1. DueAll(lines) = Append(sent, "rejected") \o <<>>
          BY <3>2, <3>4, <4>3
        <5> QED
          BY <3>4, <4>1, <5>1
      <4>4. CASE request.line = "unsupported"
        <5>1. DueAll(lines) = Append(sent, "fatal") \o <<>>
          BY <3>2, <3>4, <4>4
        <5> QED
          BY <3>4, <4>1, <5>1
      <4> QED
        BY <4>2, <4>3, <4>4
    <3> QED
      BY <3>1, <3>2, <3>3, <3>5
  <2>8. PICK a : a = answer' /\ ((a = "malformed") = FALSE)
    BY <2>1 DEF AnswersTo
  <2>9. Pending'
    <3>1. SUFFICES ASSUME NEW lines \in Seq(Lines), Agree(lines, d)
                   PROVE  /\ a = "ok" => DueAll(lines) = Append(sent, a) \o DueTo(lines)[d + 1][FALSE]
                          /\ a # "malformed"
                          /\ a = "rejected" => DueAll(lines) = Append(sent, a)
                          /\ a = "fatal" => \E x \in Answers : x # "malformed" /\ \E t \in Seq(Answers) :
                                              DueAll(lines) = Append(sent, x) \o t
      BY <1>1, <2>1, <2>3, <2>8 DEF Pending, Agree, DueAll
    <3> QED
      BY <2>7, <2>8, <3>1
  <2> QED
    BY <1>2, <2>1, <2>9 DEF Matching
<1> QED
  BY <1>7, <1>8

\* An answer is given.
LEMMA SendMatching ==
  ASSUME IInv, TCPConnSend, Matching, ~Ended
  PROVE  Matching'
<1>1. /\ pc = "send" /\ pc' = "sent" /\ sent' = Append(sent, answer)
      /\ UNCHANGED <<received, consumed, state, request, wrongFormat, answer>>
  BY DEF TCPConnSend, Ended, input
<1>2. sent \in Seq(Answers) /\ answer \in Answers /\ received \in Seq(Lines)
  BY DEF IInv, TypeOK
<1>3. Pending /\ (answer = "ok" => ~wrongFormat)
  BY <1>1 DEF Matching
<1>4. PICK n \in Nat : n = Len(sent)
  BY <1>2
<1>5. Len(sent') = n + 1 /\ sent'[n + 1] = answer /\ \A i \in 1..n : sent'[i] = sent[i]
  BY <1>1, <1>2, <1>4
<1>6. CASE answer \notin LastAnswers
  <2>1. ~Ended'
    <3> SUFFICES ASSUME NEW i \in DOMAIN sent', sent'[i] \in LastAnswers PROVE FALSE
      BY DEF Ended
    <3>1. i \in 1..(n + 1)
      BY <1>1, <1>2, <1>5
    <3>2. i = n + 1 \/ i \in 1..n
      BY <3>1
    <3>3. i \in 1..n => i \in DOMAIN sent
      BY <1>2, <1>4
    <3> QED
      BY <1>5, <1>6, <3>2, <3>3 DEF Ended
  <2>2. answer \in {"ok", "malformed"}
    BY <1>2, <1>6 DEF Answers
  <2>3. Settled(consumed, answer = "malformed")'
    BY <1>1, <1>3, <2>2 DEF Settled, Pending, Agree, DueAll
  <2> QED
    BY <1>1, <1>3, <1>6, <2>1, <2>3 DEF Matching
<1>7. CASE answer \in LastAnswers
  <2>1. Ended' /\ sent' # <<>>
    <3>1. n + 1 \in DOMAIN sent'
      BY <1>1, <1>2, <1>5
    <3>2. Ended'
      BY <1>5, <1>7, <3>1 DEF Ended
    <3>3. sent' # <<>>
      BY <3>1
    <3> QED
      BY <3>2, <3>3
  <2>2. Finished'
    <3>1. SUFFICES ASSUME NEW lines \in Seq(Lines), Agree(lines, consumed)
                   PROVE  IF answer = "fatal"
                          THEN /\ n + 1 <= Len(DueAll(lines))
                               /\ \A i \in 1..n : Append(sent, answer)[i] = DueAll(lines)[i]
                               /\ DueAll(lines)[n + 1] # "malformed"
                          ELSE Append(sent, answer) = DueAll(lines)
      <4>1. PICK s : s = sent' /\ s = Append(sent, answer) /\ Len(s) = n + 1
                     /\ s[Len(s)] = answer /\ Len(s) - 1 = n
        BY <1>1, <1>5
      <4> QED
        BY <1>1, <3>1, <4>1 DEF Finished, Agree, DueAll
    <3>2. CASE answer = "rejected"
      BY <1>3, <3>1, <3>2 DEF Pending
    <3>3. CASE answer = "fatal"
      <4>1. PICK x \in Answers : x # "malformed" /\ \E t \in Seq(Answers) : DueAll(lines) = Append(sent, x) \o t
        BY <1>3, <3>1, <3>3 DEF Pending
      <4>2. PICK t \in Seq(Answers) : DueAll(lines) = Append(sent, x) \o t
        BY <4>1
      <4>3. PICK s \in Seq(Answers) : s = Append(sent, x) \o t
        BY <1>2, <4>2, Concats
      <4>4. Len(Append(sent, x)) = n + 1 /\ Len(Append(sent, x)) <= Len(s)
        BY <1>2, <1>4, <4>3
      <4>5. /\ \A i \in 1..n : Append(sent, x)[i] = s[i]
            /\ s[n + 1] = x
        BY <1>2, <1>4, <4>3, Concats
      <4>6. \A i \in 1..n : Append(sent, answer)[i] = Append(sent, x)[i]
        BY <1>2, <1>4
      <4> QED
        BY <3>3, <4>1, <4>2, <4>3, <4>4, <4>5, <4>6
    <3> QED
      BY <1>7, <3>2, <3>3 DEF LastAnswers
  <2> QED
    BY <2>1, <2>2 DEF Matching
<1> QED
  BY <1>6, <1>7

\* The handler goes on behind an answer.
LEMMA AfterMatching ==
  ASSUME IInv, AfterAnswer, Matching, ~Ended
  PROVE  Matching'
<1>1. /\ pc = "sent" /\ pc' = "parse" /\ state' = "LINE" /\ answer \in {"ok", "malformed"}
      /\ UNCHANGED <<received, consumed, sent>>
      /\ wrongFormat' = (wrongFormat \/ answer = "malformed")
  BY DEF AfterAnswer, output
<1>2. ~Ended' /\ consumed \in Nat
  BY <1>1 DEF Ended, IInv, TypeOK
<1>3. Settled(consumed, answer = "malformed") /\ (answer = "ok" => ~wrongFormat)
  BY <1>1 DEF Matching
<1>4. PICK skip \in BOOLEAN : skip = (answer = "malformed")
  OBVIOUS
<1>5. wrongFormat' = skip
  BY <1>1, <1>3, <1>4
<1>6. PICK c \in Nat : c = consumed
  BY <1>2
<1>7. Settled(c, skip)
  BY <1>3, <1>4, <1>6
<1>8. Settled(c, skip)'
  BY <1>1, <1>7 DEF Settled, Agree, DueAll
<1>9. Reading(c)' /\ c \in 0..c
  BY <1>1, <1>6 DEF Reading
<1>10. (\E d \in 0..consumed : Reading(d) /\ Settled(d, wrongFormat))'
  BY <1>1, <1>5, <1>6, <1>8, <1>9
<1> QED
  BY <1>1, <1>2, <1>10 DEF Matching

LEMMA InitMatching == Init => Matching
<1> SUFFICES ASSUME Init PROVE Matching
  OBVIOUS
<1>1. /\ pc = "wait" /\ received = <<>> /\ consumed = 0 /\ state = "LINE" /\ sent = <<>>
      /\ wrongFormat = FALSE /\ Len(received) = 0 /\ DOMAIN sent = {}
  BY DEF Init
<1>2. ~Ended
  BY <1>1 DEF Ended
<1>3. Reading(0)
  BY <1>1 DEF Reading
<1>4. Settled(0, FALSE)
  <2> SUFFICES ASSUME NEW lines \in Seq(Lines)
               PROVE  DueTo(lines)[1][FALSE] = <<>> \o DueTo(lines)[1][FALSE]
    BY <1>1 DEF Settled, DueAll
  <2>1. 1 \in 1..(Len(lines) + 1)
    OBVIOUS
  <2>2. DueTo(lines)[1][FALSE] \in Seq(Answers)
    BY <2>1, DueType
  <2> QED
    BY <2>2
<1>5. \E c \in 0..consumed : Reading(c) /\ Settled(c, wrongFormat)
  <2>1. 0 \in 0..consumed
    BY <1>1
  <2> QED
    BY <1>1, <1>3, <1>4, <2>1
<1> QED
  BY <1>1, <1>2, <1>5 DEF Matching

LEMMA StepMatching == IInv /\ Matching /\ [Next]_vars => Matching'
<1> SUFFICES ASSUME IInv, Matching, [Next]_vars PROVE Matching'
  OBVIOUS
<1>1. CASE Ended
  BY <1>1, EndedMatching
<1>2. CASE ~Ended
  <2>1. Extended
    BY Extends
  <2>2. CASE ReadData
    <3>1. pc = "wait" /\ pc' = "parse" /\ UNCHANGED <<consumed, state, request, wrongFormat, answer, sent>>
      BY <2>2 DEF ReadData, output
    <3> QED
      BY <1>2, <2>1, <3>1, QuietMatching
  <2>3. CASE ReadEnd \/ Write \/ PeerEnds \/ UNCHANGED vars
    <3>1. pc' = pc /\ received' = received /\ UNCHANGED <<consumed, state, request, wrongFormat, answer, sent>>
      BY <2>3 DEF ReadEnd, Write, HandleWrite, HandleWriteError, PeerEnds, vars, input, output
    <3> QED
      BY <1>2, <2>1, <3>1, QuietMatching
  <2>4. CASE ParseHead
    BY <1>2, <2>4, HeadMatching
  <2>5. CASE ParseBody
    BY <1>2, <2>5, BodyMatching
  <2>6. CASE TCPConnSend
    BY <1>2, <2>6, SendMatching
  <2>7. CASE AfterAnswer
    BY <1>2, <2>7, AfterMatching
  <2>8. CASE AfterRejection \/ AfterFatal
    BY <1>2, <2>8 DEF AfterRejection, AfterFatal, Matching, LastAnswers
  <2>9. CASE UseFreed
    <3>1. pc' = "uaf" /\ UNCHANGED <<consumed, state, request, wrongFormat, answer, sent>>
      BY <2>9 DEF UseFreed, input, output
    <3> QED
      BY <1>2, <2>1, <3>1, QuietMatching
  <2> QED
    BY <2>2, <2>3, <2>4, <2>5, <2>6, <2>7, <2>8, <2>9 DEF Next, Handle
<1> QED
  BY <1>1, <1>2

LEMMA MatchingNow == IInv /\ Matching => AnswersMatch
<1> SUFFICES ASSUME IInv, Matching, pc = "wait"
             PROVE  IF sent # <<>> /\ sent[Len(sent)] = "fatal"
                    THEN /\ Len(sent) <= Len(Due)
                         /\ \A i \in 1..(Len(sent) - 1) : sent[i] = Due[i]
                         /\ Due[Len(sent)] # "malformed"
                    ELSE sent = Due
  BY DEF AnswersMatch
<1>1. TypeOK /\ received \in Seq(Lines) /\ sent \in Seq(Answers) /\ consumed \in 0..Len(received)
  BY DEF IInv, TypeOK
<1>2. Due = DueAll(received)
  BY DEF Due, DueAll
<1>3. ASSUME NEW c \in 0..consumed PROVE Agree(received, c)
  <2>1. PICK n \in Nat : n = Len(received) /\ consumed \in 0..n
    BY <1>1
  <2>2. c <= n
    BY <2>1
  <2> QED
    BY <1>1, <2>1, <2>2 DEF Agree
<1>4. CASE Ended
  <2>1. consumed \in 0..consumed
    BY <1>1
  <2>2. Agree(received, consumed) /\ Finished /\ sent # <<>>
    BY <1>3, <1>4, <2>1 DEF Matching
  <2> QED
    BY <1>1, <1>2, <2>2 DEF Finished
<1>5. CASE ~Ended
  <2>1. PICK c \in 0..consumed : Reading(c) /\ Settled(c, wrongFormat)
    BY <1>5 DEF Matching
  <2>2. /\ consumed = Len(received)
        /\ state = "BODY" => request.line # "unsupported" /\ request.body = 1
    BY <1>5 DEF Matching
  <2>3. DueTo(received)[c + 1][wrongFormat] = <<>>
    BY <1>1, <1>5, <2>1, <2>2, WaitingDue
  <2>4. DueAll(received) = sent \o DueTo(received)[c + 1][wrongFormat]
    BY <1>1, <1>3, <2>1 DEF Settled
  <2>5. sent = DueAll(received)
    BY <1>1, <2>3, <2>4
  <2>6. sent # <<>> => sent[Len(sent)] # "fatal"
    <3> SUFFICES ASSUME sent # <<>> PROVE sent[Len(sent)] # "fatal"
      OBVIOUS
    <3>1. Len(sent) \in DOMAIN sent
      BY <1>1
    <3> QED
      BY <1>5, <3>1 DEF Ended, LastAnswers
  <2> QED
    BY <1>2, <2>5, <2>6
<1> QED
  BY <1>4, <1>5

\* Whatever the peer sends and however reads cut it, HTTPClientHandleMessage has given,
\* whenever the thread is back in Loop, the answers that are due to the lines received.
THEOREM AnswersDue == Spec => []AnswersMatch
<1>1. Spec => []Matching
  BY InitMatching, StepMatching, Invariance, PTL DEF Spec
<1> QED
  BY <1>1, Invariance, MatchingNow, PTL
=============================================================================
