--------------------------- MODULE EventLoopProofs ---------------------------
(***************************************************************************)
(* Theorems about EventLoop: types, no lost wakeup, the interest list of a *)
(* loop kept in step with its channels as long as the calls on them do not *)
(* overlap, the calls on a static connection run one after the other, and  *)
(* no assertion of a static run fails.                                     *)
(***************************************************************************)
EXTENDS EventLoop, TLAPS, SequenceTheorems

\* A thread that moves to a program counter of its own, with a channel in hand
\* unless it is at rest, keeps the threads well typed.
LEMMA Moved ==
  ASSUME ThreadType, NEW t \in Threads,
         NEW l \in PCsOf(t), NEW k \in CallsOf(t), NEW x \in Channels \cup {NoChannel},
         l \notin RestPCs => x \in Channels,
         pc' = [pc EXCEPT ![t] = l],
         call' = [call EXCEPT ![t] = k],
         chan' = [chan EXCEPT ![t] = x]
  PROVE  ThreadType'
<1>1. l \in PCs
  BY DEF PCsOf, PCs
<1> QED
  BY <1>1 DEF ThreadType

LEMMA MovedPc ==
  ASSUME ThreadType, NEW t \in Threads, NEW l \in PCsOf(t),
         l \notin RestPCs => chan[t] \in Channels,
         Goto(t, l), chan' = chan, call' = call
  PROVE  ThreadType'
<1>1. l \in PCs
  BY DEF PCsOf, PCs
<1> QED
  BY <1>1 DEF ThreadType, Goto

LEMMA MovedCall ==
  ASSUME ThreadType, NEW t \in Threads, NEW l \in PCsOf(t), NEW k \in CallsOf(t),
         l \notin RestPCs => chan[t] \in Channels,
         Goto(t, l), chan' = chan, call' = [call EXCEPT ![t] = k]
  PROVE  ThreadType'
<1>1. l \in PCs
  BY DEF PCsOf, PCs
<1> QED
  BY <1>1 DEF ThreadType, Goto

LEMMA MovedChan ==
  ASSUME ThreadType, NEW t \in Threads, NEW l \in PCsOf(t), NEW x \in Channels,
         Goto(t, l), chan' = [chan EXCEPT ![t] = x], call' = call
  PROVE  ThreadType'
<1>1. l \in PCs
  BY DEF PCsOf, PCs
<1> QED
  BY <1>1 DEF ThreadType, Goto

LEMMA HomeType ==
  ASSUME NEW t \in Threads
  PROVE  Home(t) \in PCsOf(t) /\ Home(t) \in RestPCs /\ NoCall(t) \in CallsOf(t)
<1>1. Home(t) \in PCsOf(t) /\ Home(t) \in RestPCs
  BY DEF Home, PCsOf, LoopPCs, OtherPCs, RestPCs
<1> QED
  BY <1>1 DEF NoCall, CallsOf, Bits, Ops

LEMMA Rested ==
  ASSUME ThreadType, NEW t \in Threads, Rest(t)
  PROVE  ThreadType'
<1>1. NoChannel \in Channels \cup {NoChannel}
  OBVIOUS
<1> QED
  BY <1>1, HomeType, Moved DEF Rest, Goto

LEMMA Returned ==
  ASSUME ThreadType, NEW t \in Threads, chan[t] \in Channels, Return(t)
  PROVE  ThreadType'
<1>1. call[t].ret \in PCsOf(t)
  BY DEF ThreadType, CallsOf
<1>2. CASE call[t].ret = Home(t)
  <2>1. Home(t) # "close"
    BY DEF Home
  <2>2. Rest(t)
    BY <1>2, <2>1 DEF Return, Rest
  <2> QED
    BY <2>2, Rested
<1>3. CASE call[t].ret # Home(t)
  <2>1. chan' = chan
    BY <1>3 DEF Return, ThreadType
  <2> DEFINE k == IF call[t].ret = "close" THEN call[t] ELSE NoCall(t)
  <2>2. k \in CallsOf(t)
    BY HomeType DEF ThreadType
  <2>3. call' = [call EXCEPT ![t] = k]
    BY DEF Return
  <2> HIDE DEF k
  <2> QED
    BY <1>1, <2>1, <2>2, <2>3, MovedCall DEF Return
<1> QED
  BY <1>2, <1>3

LEMMA Called ==
  ASSUME ThreadType, NEW t \in Threads, NEW c \in Channels, NEW bit \in Bits,
         NEW on \in BOOLEAN, NEW ret \in PCsOf(t), Call(t, c, bit, on, ret)
  PROVE  ThreadType'
<1> DEFINE k == [call[t] EXCEPT !.bit = bit, !.on = on, !.ret = ret]
<1>1. k \in CallsOf(t)
  BY DEF ThreadType, CallsOf
<1>2. "load" \in PCsOf(t)
  BY DEF PCsOf, LoopPCs, OtherPCs, InCall
<1>3. call' = [call EXCEPT ![t] = k]
  BY DEF Call
<1> QED
  BY <1>1, <1>2, <1>3, Moved DEF Call, Goto

LEMMA Died ==
  ASSUME TypeOK, NEW how \in Fates, Die(how)
  PROVE  TypeOK'
BY DEF TypeOK, SharedType, ThreadType, Die, loopVars, channelVars, kernelVars,
       callerVars, historyVars

LEMMA SharedKept ==
  ASSUME SharedType,
         UNCHANGED <<loopVars, channelVars, kernelVars, callerVars, historyVars, fate>>
  PROVE  SharedType'
BY DEF SharedType, loopVars, channelVars, kernelVars, callerVars, historyVars

LEMMA Freed ==
  ASSUME TypeOK, NEW t \in Threads, chan[t] \in Channels, NEW back \in PCsOf(t),
         ChannelFree(t, chan[t], back), refused' \in SUBSET Channels
  PROVE  TypeOK'
<1> DEFINE c == chan[t]
           k == [call[t] EXCEPT !.op = "DEL", !.ret = "close", !.back = back]
<1>1. "close" \in PCsOf(t) /\ "update" \in PCsOf(t)
  BY DEF PCsOf, LoopPCs, OtherPCs, InCall
<1>2. k \in CallsOf(t)
  BY <1>1 DEF TypeOK, ThreadType, CallsOf, Ops
<1>3. ThreadType'
  BY <1>1, <1>2, MovedCall DEF ChannelFree, TypeOK
<1>4. SharedType'
  BY DEF ChannelFree, NoteOverlap, TypeOK, SharedType, loopVars, kernelVars, callerVars
<1> QED
  BY <1>3, <1>4 DEF TypeOK

LEMMA InitType == Init => TypeOK
<1> SUFFICES ASSUME Init PROVE TypeOK
  OBVIOUS
<1>1. SharedType
  <2>1. evtReady \in BOOLEAN /\ signalled \in BOOLEAN /\ stray \in BOOLEAN
    BY Zenon DEF Init
  <2>2. /\ pending \in Seq(Channels) /\ batch \in Seq(Channels)
        /\ cgiQueue \in Seq(Channels) /\ handed \in Seq(Channels)
    BY DEF Init
  <2>3. /\ ready \in SUBSET Reports /\ fate \in Fates
        /\ accepted \in SUBSET Channels /\ linked \in SUBSET Channels
        /\ overlapped \in SUBSET Channels /\ refused \in SUBSET Channels
        /\ closed \in SUBSET Channels
    BY DEF Init, Fates
  <2>4. /\ events \in [Channels -> SUBSET Bits] /\ interest \in [Channels -> SUBSET Bits]
        /\ op \in [Channels -> Ops]
    BY DEF Init, Bits, Ops
  <2>5. live \in [Channels -> BOOLEAN] /\ registered \in [Channels -> BOOLEAN]
    BY Zenon DEF Init
  <2> QED
    BY <2>1, <2>2, <2>3, <2>4, <2>5 DEF SharedType
<1>2. ASSUME NEW t \in Threads
      PROVE  /\ pc[t] \in PCsOf(t)
             /\ pc[t] \in RestPCs
             /\ call[t] \in CallsOf(t)
  <2>1. pc[t] \in PCsOf(t) /\ pc[t] \in RestPCs
    BY DEF Init, PCsOf, LoopPCs, OtherPCs, RestPCs
  <2>2. Home(t) \in PCsOf(t)
    BY DEF Home, PCsOf, LoopPCs, OtherPCs
  <2> QED
    BY <2>1, <2>2 DEF Init, NoCall, CallsOf, Bits, Ops
<1>3. pc \in [Threads -> PCs] /\ chan \in [Threads -> Channels \cup {NoChannel}]
  BY <1>2 DEF Init, PCs, LoopPCs, OtherPCs
<1>4. ThreadType
  BY <1>2, <1>3 DEF Init, ThreadType
<1> QED
  BY <1>1, <1>4 DEF TypeOK

-----------------------------------------------------------------------------
(* Every step keeps the types.                                              *)

\* The steps of a Channel call.
LEMMA ChannelStepType ==
  ASSUME TypeOK, NEW t \in Threads, ChannelStep(t)
  PROVE  TypeOK'
<1> DEFINE c == chan[t]
<1> USE DEF TypeOK
<1>0. Fates = {"run", "assert", "uaf"}
  BY DEF Fates
<1>1. CASE ChannelLoad(t)
  <2> DEFINE old == events[c]
             new == IF call[t].on THEN old \cup {call[t].bit} ELSE old \ {call[t].bit}
             k   == [call[t] EXCEPT !.ev = new, !.op = OpFor(call[t].on, old, new)]
  <2>1. c \in Channels
    BY <1>1 DEF ChannelLoad, ThreadType, RestPCs
  <2>2. k \in CallsOf(t)
    <3>1. call[t] \in CallsOf(t) /\ old \in SUBSET Bits
      BY <2>1 DEF ThreadType, SharedType
    <3>2. new \in SUBSET Bits /\ OpFor(call[t].on, old, new) \in Ops
      BY <3>1 DEF CallsOf, OpFor, Ops
    <3> QED
      BY <3>1, <3>2 DEF CallsOf
  <2>3. "store" \in PCsOf(t)
    BY DEF PCsOf, LoopPCs, OtherPCs, InCall
  <2>4. ASSUME call' = [call EXCEPT ![t] = k], Goto(t, "store"), NoteOverlap(t, c),
               UNCHANGED <<loopVars, channelVars, kernelVars, chan, callerVars,
                           stray, refused, fate>>
        PROVE  TypeOK'
    <3>1. ThreadType'
      BY <2>1, <2>2, <2>3, <2>4, MovedCall
    <3>2. SharedType'
      BY <2>1, <2>4 DEF SharedType, NoteOverlap, loopVars, channelVars, kernelVars, callerVars
    <3> QED
      BY <3>1, <3>2
  <2>5. ASSUME Die("uaf") \/ Die("assert") PROVE TypeOK'
    BY <1>0, <2>5, Died
  <2> QED
    BY <1>1, <2>4, <2>5 DEF ChannelLoad
<1>2. CASE ChannelStore(t)
  <2>1. c \in Channels /\ call[t].ev \in SUBSET Bits
    BY <1>2 DEF ChannelStore, ThreadType, RestPCs, CallsOf
  <2>2. CASE live[c]
    <3>1. ThreadType'
      <4>1. "update" \in PCsOf(t)
        BY DEF PCsOf, LoopPCs, OtherPCs, InCall
      <4> QED
        BY <1>2, <2>1, <2>2, <4>1, MovedPc DEF ChannelStore
    <3>2. SharedType'
      BY <1>2, <2>1, <2>2
         DEF ChannelStore, SharedType, loopVars, kernelVars, callerVars, historyVars
    <3> QED
      BY <3>1, <3>2
  <2> QED
    BY <1>0, <1>2, <2>2, Died DEF ChannelStore
<1>3. CASE Update(t)
  <2>1. c \in Channels /\ call[t].op \in Ops
    BY <1>3 DEF Update, ThreadType, RestPCs, CallsOf
  <2>2. CASE live[c]
    <3>1. ThreadType'
      <4>1. t = "loop" => "ctl" \in PCsOf(t)
        BY DEF PCsOf, LoopPCs, InCall
      <4>2. t # "loop" => "notify" \in PCsOf(t)
        BY DEF PCsOf, OtherPCs
      <4> QED
        BY <1>3, <2>1, <2>2, <4>1, <4>2, MovedPc DEF Update
    <3>2. SharedType'
      <4>1. op' \in [Channels -> Ops]
        BY <1>3, <2>1, <2>2 DEF Update, SharedType
      <4>2. pending' = pending \/ pending' = Append(pending, c)
        BY <1>3, <2>2 DEF Update
      <4>3. pending' \in Seq(Channels)
        <5>1. pending \in Seq(Channels)
          BY DEF SharedType
        <5>2. Append(pending, c) \in Seq(Channels)
          BY <2>1, <5>1
        <5> QED
          BY <4>2, <5>1, <5>2
      <4>4. UNCHANGED <<evtReady, signalled, batch, ready, events, live, kernelVars,
                        callerVars, historyVars, fate>>
        BY <1>3, <2>2 DEF Update
      <4> QED
        BY <4>1, <4>3, <4>4 DEF SharedType, kernelVars, callerVars, historyVars
    <3> QED
      BY <3>1, <3>2
  <2> QED
    BY <1>0, <1>3, <2>2, Died DEF Update
<1>4. CASE Notify(t)
  <2>1. c \in Channels
    BY <1>4 DEF Notify, ThreadType, RestPCs
  <2>2. ThreadType'
    BY <1>4, <2>1, Returned DEF Notify
  <2>3. signalled' \in BOOLEAN /\ stray' \in BOOLEAN
    BY <1>4, Zenon DEF Notify, SharedType
  <2>4. SharedType'
    <3>1. UNCHANGED <<evtReady, pending, batch, ready, channelVars, kernelVars,
                      callerVars, overlapped, refused, fate>>
      BY <1>4 DEF Notify
    <3> QED
      BY <2>3, <3>1 DEF SharedType, channelVars, kernelVars, callerVars
  <2> QED
    BY <2>2, <2>4
<1>5. CASE CloseFd(t)
  <2>1. c \in Channels
    BY <1>5 DEF CloseFd, ThreadType, RestPCs
  <2>2. CASE live[c]
    <3>1. ThreadType'
      <4>1. CASE call[t].back = Home(t)
        BY <1>5, <2>2, <4>1, Rested DEF CloseFd
      <4>2. CASE call[t].back # Home(t)
        <5>1. call[t].back \in PCsOf(t)
          BY DEF ThreadType, CallsOf
        <5> QED
          BY <1>5, <2>1, <2>2, <4>2, <5>1, HomeType, MovedCall DEF CloseFd
      <4> QED
        BY <4>1, <4>2
    <3>2. SharedType'
      BY <1>5, <2>1, <2>2
         DEF CloseFd, SharedType, loopVars, historyVars
    <3> QED
      BY <3>1, <3>2
  <2> QED
    BY <1>0, <1>5, <2>2, Died DEF CloseFd
<1> QED
  BY <1>1, <1>2, <1>3, <1>4, <1>5 DEF ChannelStep

\* The other steps a handler or the CGI thread takes.
LEMMA ThreadStepType ==
  ASSUME TypeOK, NEW t \in Threads, ThreadStep(t)
  PROVE  TypeOK'
<1> USE DEF TypeOK
<1>1. CASE ChannelStep(t)
  BY <1>1, ChannelStepType
<1>2. CASE TouchFreed(t)
  BY <1>2, Died DEF TouchFreed, Fates
<1>3. CASE Leave(t)
  BY <1>3, Rested, SharedKept DEF Leave
<1>4. CASE SendPartial(t)
  <2>1. chan[t] \in Channels /\ pc[t] \in PCsOf(t)
    BY <1>4 DEF SendPartial, ThreadType, RestPCs
  <2> QED
    BY <1>4, <2>1, Called, SharedKept DEF SendPartial, Bits
<1>5. CASE SendFails(t)
  <2>1. chan[t] \in Channels /\ pc[t] \in PCsOf(t)
    BY <1>5 DEF SendFails, ThreadType, RestPCs
  <2>2. refused' \in SUBSET Channels
    BY <1>5, <2>1 DEF SendFails, SharedType
  <2> QED
    BY <1>5, <2>1, <2>2, Freed DEF SendFails
<1>6. CASE BeginDispatch(t)
  <2>1. chan[t] \in Channels /\ "dispatch" \in PCsOf(t)
    BY <1>6 DEF BeginDispatch, ThreadType, RestPCs, PCsOf, LoopPCs, OtherPCs
  <2> QED
    BY <1>6, <2>1, Called, SharedKept DEF BeginDispatch, Bits
<1>7. CASE Dispatch(t)
  <2>1. chan[t] \in Channels /\ "pushed" \in PCsOf(t)
    BY <1>7 DEF Dispatch, ThreadType, RestPCs, PCsOf, LoopPCs, OtherPCs
  <2>2. ThreadType'
    BY <1>7, <2>1, MovedPc DEF Dispatch
  <2>3. Append(cgiQueue, chan[t]) \in Seq(Channels) /\ Append(handed, chan[t]) \in Seq(Channels)
    BY <2>1 DEF SharedType
  <2>4. SharedType'
    BY <1>7, <2>3 DEF Dispatch, SharedType, loopVars, channelVars, kernelVars, historyVars
  <2> QED
    BY <2>2, <2>4
<1>8. CASE LinkBuffer(t)
  <2>1. chan[t] \in Channels
    BY <1>8 DEF LinkBuffer, ThreadType, RestPCs
  <2>2. ThreadType'
    BY <1>8, Rested DEF LinkBuffer
  <2>3. SharedType'
    BY <1>8, <2>1 DEF LinkBuffer, SharedType, loopVars, channelVars, kernelVars, historyVars
  <2> QED
    BY <2>2, <2>3
<1>9. CASE Close(t)
  <2>1. chan[t] \in Channels /\ refused' \in SUBSET Channels
    BY <1>9 DEF Close, ClosePCs, ThreadType, SharedType, RestPCs
  <2>2. PICK back \in BackFromClose(t) : ChannelFree(t, chan[t], back)
    BY <1>9 DEF Close
  <2>3. back \in PCsOf(t)
    BY <2>2, HomeType DEF BackFromClose, ThreadType
  <2> QED
    BY <2>1, <2>2, <2>3, Freed
<1>10. CASE CloseDeferred(t)
  <2>1. chan[t] \in Channels
    BY <1>10 DEF CloseDeferred, ClosePCs, ThreadType, RestPCs
  <2>2. ThreadType'
    <3>1. CASE Rest(t)
      BY <3>1, Rested
    <3>2. CASE UNCHANGED <<pc, chan, call>>
      BY <3>2 DEF ThreadType
    <3> QED
      BY <1>10, <3>1, <3>2 DEF CloseDeferred
  <2>3. SharedType'
    BY <1>10, <2>1 DEF CloseDeferred, SharedType, loopVars, channelVars, kernelVars, historyVars
  <2> QED
    BY <2>2, <2>3
<1> QED
  BY <1>1, <1>2, <1>3, <1>4, <1>5, <1>6, <1>7, <1>8, <1>9, <1>10 DEF ThreadStep

\* The steps of Loop() and evtfdHandleRead.
LEMMA LoopStepType ==
  ASSUME TypeOK, LoopStep
  PROVE  TypeOK'
<1> USE DEF TypeOK
<1>0. "loop" \in Threads /\ PCsOf("loop") = LoopPCs
  BY DEF Threads, PCsOf
<1>1. CASE LoopSetThread
  <2>1. ThreadType'
    BY <1>0, <1>1, MovedPc DEF LoopSetThread, LoopPCs, RestPCs
  <2>2. SharedType'
    BY <1>1 DEF LoopSetThread, SharedType, channelVars, kernelVars, callerVars, historyVars
  <2> QED
    BY <2>1, <2>2
<1>2. CASE EpollWait
  <2>1. ready' \in SUBSET Reports
    BY <1>2 DEF EpollWait, Reportable, Reports
  <2>2. SharedType'
    BY <1>2, <2>1 DEF EpollWait, SharedType, channelVars, kernelVars, callerVars, historyVars
  <2>3. ThreadType'
    BY <1>2 DEF EpollWait, ThreadType
  <2> QED
    BY <2>2, <2>3
<1>3. CASE ReadEventfd
  <2>1. ThreadType'
    BY <1>0, <1>3, MovedPc DEF ReadEventfd, LoopPCs, RestPCs
  <2>2. ready' \in SUBSET Reports
    BY <1>3 DEF ReadEventfd, SharedType
  <2>3. SharedType'
    BY <1>3, <2>2 DEF ReadEventfd, SharedType, channelVars, kernelVars, callerVars, historyVars
  <2> QED
    BY <2>1, <2>3
<1>4. CASE SwapPending
  <2>1. ThreadType'
    BY <1>0, <1>4, MovedPc DEF SwapPending, LoopPCs, RestPCs
  <2>2. SharedType'
    <3>1. batch' = pending /\ pending' = <<>> /\ stray' = FALSE
      BY <1>4 DEF SwapPending
    <3>2. pending' \in Seq(Channels) /\ batch' \in Seq(Channels)
      BY <3>1 DEF SharedType
    <3>3. stray' \in BOOLEAN
      BY <3>1, Zenon
    <3>4. UNCHANGED <<evtReady, signalled, ready, channelVars, kernelVars, callerVars,
                      overlapped, refused, fate>>
      BY <1>4 DEF SwapPending
    <3> QED
      BY <3>2, <3>3, <3>4 DEF SharedType, channelVars, kernelVars, callerVars
  <2> QED
    BY <2>1, <2>2
<1>5. CASE ApplyNext
  <2>1. UNCHANGED <<evtReady, signalled, pending, ready, channelVars, kernelVars,
                    callerVars, historyVars, fate>>
    BY <1>5 DEF ApplyNext
  <2>2. CASE batch = <<>>
    <3>1. ThreadType'
      BY <1>0, <1>5, <2>2, Rested DEF ApplyNext
    <3>2. batch' = batch
      BY <1>5, <2>2 DEF ApplyNext
    <3> QED
      BY <2>1, <3>1, <3>2 DEF SharedType, channelVars, kernelVars, callerVars, historyVars
  <2>3. CASE batch # <<>>
    <3> DEFINE k == [call["loop"] EXCEPT !.ret = "apply"]
    <3>1. Head(batch) \in Channels /\ Tail(batch) \in Seq(Channels)
      BY <2>3 DEF SharedType
    <3>2. "apply" \in LoopPCs /\ "ctl" \in LoopPCs
      BY DEF LoopPCs, InCall
    <3>3. k \in CallsOf("loop")
      BY <1>0, <3>2 DEF ThreadType, CallsOf
    <3>4. /\ chan' = [chan EXCEPT !["loop"] = Head(batch)]
          /\ call' = [call EXCEPT !["loop"] = k]
          /\ batch' = Tail(batch)
          /\ Goto("loop", "ctl")
      BY <1>5, <2>3 DEF ApplyNext
    <3>5. ThreadType'
      BY <1>0, <3>1, <3>2, <3>3, <3>4, Moved DEF Goto
    <3>6. SharedType'
      BY <2>1, <3>1, <3>4 DEF SharedType, channelVars, kernelVars, callerVars, historyVars
    <3> QED
      BY <3>5, <3>6
  <2> QED
    BY <2>2, <2>3
<1>6. ASSUME NEW c \in Channels, NEW bit \in Bits, Fire(c, bit) PROVE TypeOK'
  <2>1. CASE Die("uaf") \/ Die("assert")
    BY <2>1, Died DEF Fates
  <2>2. CASE ~(Die("uaf") \/ Die("assert"))
    <3> DEFINE l == IF bit = "r" THEN "reading" ELSE "writing"
    <3>1. l \in LoopPCs
      BY DEF LoopPCs
    <3>2. /\ ready' = ready \ {<<c, bit>>}
          /\ chan' = [chan EXCEPT !["loop"] = c]
          /\ Goto("loop", l)
          /\ UNCHANGED <<evtReady, signalled, pending, batch, channelVars, kernelVars,
                         call, callerVars, historyVars, fate>>
      BY <1>6, <2>2 DEF Fire
    <3>4. ThreadType'
      BY <1>0, <3>1, <3>2, MovedChan
    <3>5. ready' \in SUBSET Reports
      BY <3>2 DEF SharedType
    <3>6. SharedType'
      BY <3>2, <3>5 DEF SharedType, channelVars, kernelVars, callerVars, historyVars
    <3> QED
      BY <3>4, <3>6
  <2> QED
    BY <2>1, <2>2
<1>7. CASE WriteAll
  <2>1. chan["loop"] \in Channels
    BY <1>0, <1>7 DEF WriteAll, ThreadType, RestPCs
  <2> QED
    BY <1>0, <1>7, <2>1, Called, SharedKept DEF WriteAll, Bits, LoopPCs
<1>8. CASE ModifyCtl
  <2>1. chan["loop"] \in Channels
    BY <1>0, <1>8 DEF ModifyCtl, ThreadType, RestPCs
  <2>2. CASE live[chan["loop"]]
    <3>1. ThreadType'
      BY <1>0, <1>8, <2>1, <2>2, MovedPc DEF ModifyCtl, LoopPCs, InCall
    <3>2. registered' \in [Channels -> BOOLEAN] /\ interest' \in [Channels -> SUBSET Bits]
      <4>1. events[chan["loop"]] \in SUBSET Bits
        BY <2>1 DEF SharedType
      <4> QED
        BY <1>8, <2>1, <2>2, <4>1 DEF ModifyCtl, EpollCtl, SharedType, kernelVars
    <3>3. SharedType'
      BY <1>8, <2>2, <3>2
         DEF ModifyCtl, SharedType, loopVars, channelVars, callerVars, historyVars
    <3> QED
      BY <3>1, <3>3
  <2> QED
    BY <1>8, <2>2, Died DEF ModifyCtl, Fates
<1>9. CASE ModifyClear
  <2>1. chan["loop"] \in Channels
    BY <1>0, <1>9 DEF ModifyClear, ThreadType, RestPCs
  <2>2. CASE live[chan["loop"]]
    <3>1. ThreadType'
      BY <1>0, <1>9, <2>1, <2>2, Returned DEF ModifyClear
    <3>2. op' \in [Channels -> Ops]
      BY <1>9, <2>2 DEF ModifyClear, SharedType, Ops
    <3>3. SharedType'
      BY <1>9, <2>2, <3>2
         DEF ModifyClear, SharedType, loopVars, kernelVars, callerVars, historyVars
    <3> QED
      BY <3>1, <3>3
  <2> QED
    BY <1>9, <2>2, Died DEF ModifyClear, Fates
<1>10. CASE Written
  BY <1>0, <1>10, Died, Rested, SharedKept DEF Written, Fates
<1> QED
  BY <1>1, <1>2, <1>3, <1>4, <1>5, <1>6, <1>7, <1>8, <1>9, <1>10 DEF LoopStep

\* The steps of the acceptor's thread and of the CGI thread.
LEMMA CallerStepType ==
  ASSUME TypeOK, CallerStep
  PROVE  TypeOK'
<1> USE DEF TypeOK
<1>0. /\ "main" \in Threads /\ PCsOf("main") = OtherPCs
      /\ "cgi" \in Threads /\ PCsOf("cgi") = OtherPCs
  BY DEF Threads, PCsOf
<1>1. ASSUME NEW c \in Channels, Accept(c) PROVE TypeOK'
  <2>1. ThreadType'
    BY <1>0, <1>1, Called DEF Accept, Bits, OtherPCs
  <2>2. SharedType'
    BY <1>1 DEF Accept, SharedType, loopVars, channelVars, kernelVars, historyVars
  <2> QED
    BY <2>1, <2>2
<1>2. CASE CgiBegin
  <2>1. Head(cgiQueue) \in Channels /\ Tail(cgiQueue) \in Seq(Channels)
    BY <1>2 DEF CgiBegin, SharedType
  <2>3. ThreadType'
    BY <1>0, <1>2, <2>1, MovedChan DEF CgiBegin, OtherPCs
  <2>4. SharedType'
    BY <1>2, <2>1 DEF CgiBegin, SharedType, loopVars, channelVars, kernelVars, historyVars
  <2> QED
    BY <2>3, <2>4
<1>3. CASE CgiComplete
  <2>1. chan["cgi"] \in Channels
    BY <1>0, <1>3 DEF CgiComplete, ThreadType, RestPCs
  <2> QED
    BY <1>0, <1>3, <2>1, Called, SharedKept DEF CgiComplete, Bits, OtherPCs
<1> QED
  BY <1>1, <1>2, <1>3 DEF CallerStep

\* Type correctness: in every run, for every set of channels and every bound, the
\* threads stay where they may be; in particular modifyChannel runs only in the
\* thread its assertion names (eventloop.c, modifyChannel).
THEOREM TypeCorrect == Spec => []TypeOK
<1>1. TypeOK /\ [Next]_vars => TypeOK'
  <2> SUFFICES ASSUME TypeOK, [Next]_vars PROVE TypeOK'
    OBVIOUS
  <2>1. CASE UNCHANGED vars
    BY <2>1 DEF TypeOK, SharedType, ThreadType, vars, loopVars, channelVars,
                kernelVars, callerVars, historyVars
  <2>2. CASE Next
    BY <2>2, LoopStepType, CallerStepType, ThreadStepType DEF Next
  <2> QED
    BY <2>1, <2>2
<1> QED
  BY InitType, <1>1, PTL DEF Spec

-----------------------------------------------------------------------------
(* No lost wakeup.                                                           *)

\* A step away from the list, the eventfd and the two program counters that stand
\* for a wakeup on its way.
LEMMA Bystander ==
  ASSUME NoLostWakeup,
         pending' = pending, signalled' = signalled, stray' = stray,
         \A u \in Threads : pc[u] \in {"swap", "notify"} => pc'[u] = pc[u]
  PROVE  NoLostWakeup'
BY DEF NoLostWakeup, Threads

\* One thread moves, from neither of them.
LEMMA BystanderMove ==
  ASSUME TypeOK, NoLostWakeup,
         pending' = pending, signalled' = signalled, stray' = stray,
         NEW t \in Threads, NEW l, pc[t] \notin {"swap", "notify"}, Goto(t, l)
  PROVE  NoLostWakeup'
<1>1. \A u \in Threads : pc[u] \in {"swap", "notify"} => pc'[u] = pc[u]
  BY DEF Goto, TypeOK, ThreadType
<1> QED
  BY <1>1, Bystander

LEMMA DeathKeepsWakeup ==
  ASSUME NoLostWakeup, NEW how, Die(how)
  PROVE  NoLostWakeup'
BY Bystander DEF Die, loopVars, historyVars

LEMMA ChannelStepWakeup ==
  ASSUME TypeOK, NoLostWakeup, NEW t \in Threads, ChannelStep(t)
  PROVE  NoLostWakeup'
<1>1. CASE ChannelLoad(t)
  BY <1>1, DeathKeepsWakeup, BystanderMove DEF ChannelLoad, loopVars
<1>2. CASE ChannelStore(t)
  BY <1>2, DeathKeepsWakeup, BystanderMove DEF ChannelStore, loopVars, historyVars
<1>3. CASE Update(t)
  <2>1. CASE ~live[chan[t]]
    BY <1>3, <2>1, DeathKeepsWakeup DEF Update
  <2>2. CASE live[chan[t]] /\ t = "loop"
    BY <1>3, <2>2, BystanderMove DEF Update, historyVars
  <2>3. CASE live[chan[t]] /\ t # "loop"
    <3>1. pc'[t] = "notify" /\ t \in {"main", "cgi"}
      BY <1>3, <2>3 DEF Update, Goto, TypeOK, ThreadType, Threads
    <3> QED
      BY <3>1 DEF NoLostWakeup
  <2> QED
    BY <2>1, <2>2, <2>3
<1>4. CASE Notify(t)
  <2>1. signalled' \/ stray'
    BY <1>4 DEF Notify
  <2> QED
    BY <2>1 DEF NoLostWakeup
<1>5. CASE CloseFd(t)
  <2>1. CASE ~live[chan[t]]
    BY <1>5, <2>1, DeathKeepsWakeup DEF CloseFd
  <2>2. CASE live[chan[t]]
    BY <1>5, <2>2, BystanderMove DEF CloseFd, Rest, loopVars, historyVars
  <2> QED
    BY <2>1, <2>2
<1> QED
  BY <1>1, <1>2, <1>3, <1>4, <1>5 DEF ChannelStep

LEMMA ThreadStepWakeup ==
  ASSUME TypeOK, NoLostWakeup, NEW t \in Threads, ThreadStep(t)
  PROVE  NoLostWakeup'
<1>1. CASE ChannelStep(t)
  BY <1>1, ChannelStepWakeup
<1>2. CASE TouchFreed(t)
  BY <1>2, DeathKeepsWakeup DEF TouchFreed
<1>3. CASE Leave(t)
  BY <1>3, BystanderMove DEF Leave, Rest, loopVars, historyVars
<1>4. CASE SendPartial(t)
  BY <1>4, BystanderMove DEF SendPartial, Call, loopVars, historyVars
<1>5. CASE SendFails(t)
  BY <1>5, BystanderMove DEF SendFails, ChannelFree, loopVars
<1>6. CASE BeginDispatch(t)
  BY <1>6, BystanderMove DEF BeginDispatch, Call, loopVars, historyVars
<1>7. CASE Dispatch(t)
  BY <1>7, BystanderMove DEF Dispatch, loopVars, historyVars
<1>8. CASE LinkBuffer(t)
  BY <1>8, BystanderMove DEF LinkBuffer, Rest, loopVars, historyVars
<1>9. CASE Close(t)
  BY <1>9, BystanderMove DEF Close, ClosePCs, ChannelFree, loopVars
<1>10. CASE CloseDeferred(t)
  <2>1. CASE Rest(t)
    BY <1>10, <2>1, BystanderMove DEF CloseDeferred, ClosePCs, Rest, loopVars, historyVars
  <2>2. CASE UNCHANGED <<pc, chan, call>>
    BY <1>10, <2>2, Bystander DEF CloseDeferred, loopVars, historyVars
  <2> QED
    BY <1>10, <2>1, <2>2 DEF CloseDeferred
<1> QED
  BY <1>1, <1>2, <1>3, <1>4, <1>5, <1>6, <1>7, <1>8, <1>9, <1>10 DEF ThreadStep

LEMMA LoopStepWakeup ==
  ASSUME TypeOK, NoLostWakeup, LoopStep
  PROVE  NoLostWakeup'
<1>0. "loop" \in Threads
  BY DEF Threads
<1>1. CASE LoopSetThread
  BY <1>0, <1>1, BystanderMove DEF LoopSetThread, historyVars
<1>2. CASE EpollWait
  BY <1>2, Bystander DEF EpollWait, historyVars
<1>3. CASE ReadEventfd
  <2>1. pc'["loop"] = "swap"
    BY <1>0, <1>3 DEF ReadEventfd, Goto, TypeOK, ThreadType
  <2> QED
    BY <2>1 DEF NoLostWakeup
<1>4. CASE SwapPending
  <2>1. pending' = <<>>
    BY <1>4 DEF SwapPending
  <2> QED
    BY <2>1 DEF NoLostWakeup
<1>5. CASE ApplyNext
  BY <1>0, <1>5, BystanderMove DEF ApplyNext, Rest, historyVars
<1>6. ASSUME NEW c \in Channels, NEW bit \in Bits, Fire(c, bit) PROVE NoLostWakeup'
  BY <1>0, <1>6, DeathKeepsWakeup, BystanderMove DEF Fire, historyVars
<1>7. CASE WriteAll
  BY <1>0, <1>7, BystanderMove DEF WriteAll, Call, loopVars, historyVars
<1>8. CASE ModifyCtl
  BY <1>0, <1>8, DeathKeepsWakeup, BystanderMove DEF ModifyCtl, loopVars, historyVars
<1>9. CASE ModifyClear
  BY <1>0, <1>9, DeathKeepsWakeup, BystanderMove
     DEF ModifyClear, Return, loopVars, historyVars
<1>10. CASE Written
  BY <1>0, <1>10, DeathKeepsWakeup, BystanderMove DEF Written, Rest, loopVars, historyVars
<1> QED
  BY <1>1, <1>2, <1>3, <1>4, <1>5, <1>6, <1>7, <1>8, <1>9, <1>10 DEF LoopStep

LEMMA CallerStepWakeup ==
  ASSUME TypeOK, NoLostWakeup, CallerStep
  PROVE  NoLostWakeup'
<1>0. "main" \in Threads /\ "cgi" \in Threads
  BY DEF Threads
<1>1. ASSUME NEW c \in Channels, Accept(c) PROVE NoLostWakeup'
  BY <1>0, <1>1, BystanderMove DEF Accept, Call, loopVars, historyVars
<1>2. CASE CgiBegin
  BY <1>0, <1>2, BystanderMove DEF CgiBegin, loopVars, historyVars
<1>3. CASE CgiComplete
  BY <1>0, <1>3, BystanderMove DEF CgiComplete, Call, loopVars, historyVars
<1> QED
  BY <1>1, <1>2, <1>3 DEF CallerStep

\* However the pushes, the writes to the eventfd, its reads and the swaps of any
\* number of channels interleave, a channel on pendingChannels has a wakeup on
\* its way (eventloop.c, update and evtfdHandleRead).
THEOREM WakeupKept == Spec => []NoLostWakeup
<1>1. Init => NoLostWakeup
  BY DEF Init, NoLostWakeup
<1>2. TypeOK /\ NoLostWakeup /\ [Next]_vars => NoLostWakeup'
  <2> SUFFICES ASSUME TypeOK, NoLostWakeup, [Next]_vars PROVE NoLostWakeup'
    OBVIOUS
  <2>1. CASE UNCHANGED vars
    BY <2>1 DEF NoLostWakeup, vars, loopVars, historyVars
  <2>2. CASE Next
    BY <2>2, LoopStepWakeup, CallerStepWakeup, ThreadStepWakeup DEF Next
  <2> QED
    BY <2>1, <2>2
<1> QED
  BY <1>1, <1>2, TypeCorrect, PTL DEF Spec

-----------------------------------------------------------------------------
(* Entries of a list of channels.                                          *)

\* A channel is in the list at most once.
OnceIn(s, c) == \A i, j \in DOMAIN s : s[i] = c /\ s[j] = c => i = j

LEMMA AppendEntries ==
  ASSUME NEW s \in Seq(Channels), NEW c \in Channels
  PROVE  /\ Elements(Append(s, c)) = Elements(s) \cup {c}
         /\ \A d : d # c /\ OnceIn(s, d) => OnceIn(Append(s, c), d)
         /\ c \notin Elements(s) => OnceIn(Append(s, c), c)
<1> DEFINE a == Append(s, c)
<1>1. /\ DOMAIN s = 1..Len(s) /\ Len(s) \in Nat
      /\ DOMAIN a = 1..(Len(s) + 1)
      /\ \A i \in 1..Len(s) : a[i] = s[i]
      /\ a[Len(s) + 1] = c
  OBVIOUS
<1> HIDE DEF a
<1>2. Elements(a) = Elements(s) \cup {c}
  BY <1>1 DEF Elements
<1>3. ASSUME NEW d, d # c, OnceIn(s, d) PROVE OnceIn(a, d)
  BY <1>1, <1>3 DEF OnceIn
<1>4. ASSUME c \notin Elements(s) PROVE OnceIn(a, c)
  BY <1>1, <1>4 DEF OnceIn, Elements
<1> QED
  BY <1>2, <1>3, <1>4 DEF a

LEMMA TailEntries ==
  ASSUME NEW s \in Seq(Channels), s # <<>>
  PROVE  /\ Elements(s) = Elements(Tail(s)) \cup {Head(s)}
         /\ \A d : OnceIn(s, d) => OnceIn(Tail(s), d)
         /\ OnceIn(s, Head(s)) => Head(s) \notin Elements(Tail(s))
<1> DEFINE t == Tail(s)
           h == Head(s)
<1>1. /\ DOMAIN s = 1..Len(s) /\ Len(s) \in Nat \ {0}
      /\ DOMAIN t = 1..(Len(s) - 1)
      /\ \A i \in 1..(Len(s) - 1) : t[i] = s[i + 1]
      /\ h = s[1]
  OBVIOUS
<1> HIDE DEF t, h
<1>2. Elements(s) = Elements(t) \cup {h}
  <2>1. ASSUME NEW i \in 1..Len(s) PROVE s[i] = h \/ \E j \in 1..(Len(s) - 1) : s[i] = t[j]
    <3>1. CASE i = 1
      BY <1>1, <3>1
    <3>2. CASE i # 1
      <4>1. i - 1 \in 1..(Len(s) - 1) /\ t[i - 1] = s[(i - 1) + 1]
        BY <1>1, <3>2
      <4>2. (i - 1) + 1 = i
        OBVIOUS
      <4> QED
        BY <4>1, <4>2
    <3> QED
      BY <3>1, <3>2
  <2>2. ASSUME NEW j \in 1..(Len(s) - 1) PROVE \E i \in 1..Len(s) : t[j] = s[i]
    BY <1>1
  <2>3. ASSUME NEW x \in Elements(s) PROVE x \in Elements(t) \cup {h}
    <3>1. PICK i \in 1..Len(s) : x = s[i]
      BY <1>1 DEF Elements
    <3> QED
      BY <1>1, <2>1, <3>1 DEF Elements
  <2>4. Elements(t) \subseteq Elements(s)
    BY <1>1, <2>2 DEF Elements
  <2>5. h \in Elements(s)
    BY <1>1 DEF Elements
  <2> QED
    BY <2>3, <2>4, <2>5
<1>3. ASSUME NEW d, OnceIn(s, d) PROVE OnceIn(t, d)
  <2>1. ASSUME NEW i \in DOMAIN t, NEW j \in DOMAIN t, t[i] = d, t[j] = d PROVE i = j
    <3>1. i + 1 \in DOMAIN s /\ j + 1 \in DOMAIN s /\ s[i + 1] = d /\ s[j + 1] = d
      BY <1>1, <2>1
    <3>2. i + 1 = j + 1
      BY <1>3, <3>1 DEF OnceIn
    <3> QED
      BY <1>1, <3>2
  <2> QED
    BY <2>1 DEF OnceIn
<1>4. ASSUME OnceIn(s, h), h \in Elements(t) PROVE FALSE
  <2>1. PICK i \in 1..(Len(s) - 1) : t[i] = h
    BY <1>1, <1>4 DEF Elements
  <2>2. s[i + 1] = h /\ i + 1 \in 1..Len(s) /\ 1 \in 1..Len(s) /\ i + 1 # 1
    BY <1>1, <2>1
  <2> QED
    BY <1>1, <1>4, <2>2 DEF OnceIn
<1> QED
  BY <1>2, <1>3, <1>4 DEF t, h

-----------------------------------------------------------------------------
(* The operations recorded and not yet applied, in the order in which      *)
(* evtfdHandleRead applies them.                                           *)

Backlog == batch \o pending
Posted(c) == c \in Elements(Backlog)

\* The array of evtfdHandleRead is empty whenever the list is swapped for it.
BatchInv ==
  batch # <<>> =>
    \/ pc["loop"] = "apply"
    \/ pc["loop"] \in {"ctl", "clear"} /\ call["loop"].ret = "apply"

LEMMA BacklogType == SharedType => Backlog \in Seq(Channels)
  BY DEF SharedType, Backlog

\* A channel is in the backlog when it is in one of the two lists.
LEMMA PostedIn ==
  ASSUME SharedType, NEW c
  PROVE  Posted(c) <=> c \in Elements(pending) \cup Elements(batch)
<1>1. pending \in Seq(Channels) /\ batch \in Seq(Channels)
  BY DEF SharedType
<1>2. /\ DOMAIN batch = 1..Len(batch) /\ DOMAIN pending = 1..Len(pending)
      /\ Len(batch) \in Nat /\ Len(pending) \in Nat
      /\ DOMAIN Backlog = 1..(Len(batch) + Len(pending))
      /\ \A i \in 1..Len(batch) : Backlog[i] = batch[i]
      /\ \A i \in 1..(Len(batch) + Len(pending)) :
           i > Len(batch) => Backlog[i] = pending[i - Len(batch)]
  BY <1>1 DEF Backlog
<1>3. ASSUME NEW i \in 1..Len(pending)
      PROVE  Len(batch) + i \in DOMAIN Backlog /\ Backlog[Len(batch) + i] = pending[i]
  <2>1. Len(batch) + i \in 1..(Len(batch) + Len(pending)) /\ Len(batch) + i > Len(batch)
        /\ (Len(batch) + i) - Len(batch) = i
    BY <1>2
  <2> QED
    BY <1>2, <2>1
<1>4. ASSUME c \in Elements(pending) \cup Elements(batch) PROVE Posted(c)
  <2>1. CASE c \in Elements(pending)
    <3>1. PICK i \in 1..Len(pending) : c = pending[i]
      BY <1>2, <2>1 DEF Elements
    <3> QED
      BY <1>3, <3>1 DEF Posted, Elements
  <2>2. CASE c \in Elements(batch)
    <3>1. PICK i \in 1..Len(batch) : c = batch[i]
      BY <1>2, <2>2 DEF Elements
    <3>2. i \in DOMAIN Backlog /\ Backlog[i] = c
      BY <1>2, <3>1
    <3> QED
      BY <3>2 DEF Posted, Elements
  <2> QED
    BY <1>4, <2>1, <2>2
<1>5. ASSUME Posted(c) PROVE c \in Elements(pending) \cup Elements(batch)
  <2>1. PICK i \in 1..(Len(batch) + Len(pending)) : c = Backlog[i]
    BY <1>2, <1>5 DEF Posted, Elements
  <2>2. CASE i <= Len(batch)
    BY <1>2, <2>1, <2>2 DEF Elements
  <2>3. CASE ~(i <= Len(batch))
    <3>1. i - Len(batch) \in DOMAIN pending /\ c = pending[i - Len(batch)]
      BY <1>2, <2>1, <2>3
    <3> QED
      BY <3>1 DEF Elements
  <2> QED
    BY <2>2, <2>3
<1> QED
  BY <1>4, <1>5

\* What the three steps that touch the lists do to the backlog.
LEMMA BacklogGrows ==
  ASSUME SharedType, NEW c \in Channels, pending' = Append(pending, c), batch' = batch
  PROVE  Backlog' = Append(Backlog, c)
  BY DEF SharedType, Backlog

LEMMA BacklogSwapped ==
  ASSUME SharedType, batch = <<>>, batch' = pending, pending' = <<>>
  PROVE  Backlog' = Backlog
  BY DEF SharedType, Backlog

LEMMA BacklogShrinks ==
  ASSUME SharedType, batch # <<>>, batch' = Tail(batch), pending' = pending
  PROVE  /\ Backlog # <<>>
         /\ Head(Backlog) = Head(batch)
         /\ Backlog' = Tail(Backlog)
  BY DEF SharedType, Backlog

-----------------------------------------------------------------------------
(* The interest mask and the kernel's.                                     *)

\* Thread t is past the load of a Channel call on c, or inside modifyChannel.
BusyPCs == {"store", "update", "ctl", "clear"}
Busy(t, c) == chan[t] = c /\ pc[t] \in BusyPCs

Coherent(c) == registered[c] = (events[c] # {}) /\ interest[c] = events[c]

\* Operation o is the one that brings the kernel's mask of c to ev.
Right(c, o, ev) ==
  /\ o \in {"ADD", "MOD", "DEL"}
  /\ o = "DEL" => ev = {}
  /\ o # "DEL" => ev # {} /\ registered[c] = (o = "MOD")

\* What thread t, which is busy on c, has still to do comes out right.
OnItsWay(t, c) ==
  /\ pc[t] = "store"  => Coherent(c) /\ Right(c, call[t].op, call[t].ev)
  /\ pc[t] = "update" => Right(c, call[t].op, events[c])
  /\ pc[t] = "ctl"    => Right(c, op[c], events[c])
  /\ pc[t] = "clear"  => Coherent(c)

\* One change of c is under way at a time, in a thread or in the backlog, and it
\* leads to coherence; when there is none, the kernel watches what c asks for.
Settling(c) ==
  /\ \A t, u \in Threads : Busy(t, c) /\ Busy(u, c) => t = u
  /\ \A t \in Threads : Busy(t, c) => ~Posted(c) /\ OnItsWay(t, c)
  /\ OnceIn(Backlog, c)
  /\ Posted(c) => Right(c, op[c], events[c])
  /\ ~Posted(c) /\ (\A t \in Threads : ~Busy(t, c)) => Coherent(c)

Settles(c) == live[c] /\ c \notin overlapped => Settling(c)

\* A descriptor that is not in the epoll set is watched for nothing.
Unwatched == \A c \in Channels : ~registered[c] => interest[c] = {}

InterestInv == BatchInv /\ Unwatched /\ \A c \in Channels : Settles(c)

\* A step leaves c alone.
LeavesAlone(c) ==
  /\ live'[c] => live[c]
  /\ c \in overlapped => c \in overlapped'
  /\ events'[c] = events[c] /\ op'[c] = op[c]
  /\ registered'[c] = registered[c] /\ interest'[c] = interest[c]
  /\ (Posted(c)' <=> Posted(c))
  /\ OnceIn(Backlog, c) => OnceIn(Backlog', c)
  /\ \A t \in Threads :
       /\ Busy(t, c)' <=> Busy(t, c)
       /\ Busy(t, c) => pc'[t] = pc[t] /\ call'[t] = call[t]

LEMMA SettlesFrame ==
  ASSUME NEW c, Settles(c), LeavesAlone(c)
  PROVE  Settles(c)'
<1> USE DEF LeavesAlone
<1> SUFFICES ASSUME live'[c], c \notin overlapped' PROVE Settling(c)'
  BY DEF Settles
<1>1. Settling(c)
  BY DEF Settles
<1>2. (Coherent(c)' <=> Coherent(c)) /\ \A o, ev : (Right(c, o, ev)' <=> Right(c, o, ev))
  BY DEF Coherent, Right
<1>3. \A t \in Threads : Busy(t, c)' => ~Posted(c)' /\ OnItsWay(t, c)'
  BY <1>1, <1>2 DEF Settling, OnItsWay
<1> QED
  BY <1>1, <1>2, <1>3 DEF Settling

\* One thread moves, from a place where it is not busy to another.
LEMMA SettlesMove ==
  ASSUME TypeOK, NEW c \in Channels, Settles(c),
         UNCHANGED <<channelVars, kernelVars, pending, batch>>,
         overlapped \subseteq overlapped',
         NEW t \in Threads, NEW l, pc[t] \notin BusyPCs, l \notin BusyPCs, Goto(t, l),
         \A u \in Threads : u # t => chan'[u] = chan[u] /\ call'[u] = call[u]
  PROVE  Settles(c)'
<1>1. \A u \in Threads : pc'[u] = IF u = t THEN l ELSE pc[u]
  BY DEF Goto, TypeOK, ThreadType
<1>2. \A u \in Threads :
         /\ Busy(u, c)' <=> Busy(u, c)
         /\ Busy(u, c) => pc'[u] = pc[u] /\ call'[u] = call[u]
  BY <1>1 DEF Busy
<1>3. Backlog' = Backlog
  BY DEF Backlog
<1>4. (Posted(c)' <=> Posted(c)) /\ (OnceIn(Backlog, c) => OnceIn(Backlog', c))
  BY <1>3 DEF Posted, OnceIn, Elements
<1>5. /\ live'[c] => live[c]
      /\ events'[c] = events[c] /\ op'[c] = op[c]
      /\ registered'[c] = registered[c] /\ interest'[c] = interest[c]
  BY DEF channelVars, kernelVars
<1>6. LeavesAlone(c)
  BY <1>2, <1>4, <1>5 DEF LeavesAlone
<1> QED
  BY <1>6, SettlesFrame

-----------------------------------------------------------------------------
(* Where Channel calls return to.                                          *)

ReturnPCs == {"wait", "idle", "reading", "written", "serve", "tail", "dispatch", "apply",
              "close"}

\* A Channel call returns into a handler or to rest; the acceptor's thread makes the
\* one call for a new connection and nothing else.
CallInv ==
  /\ \A t \in Threads : call[t].ret \in ReturnPCs /\ call[t].back \in ReturnPCs
  /\ pc["main"] \in {"idle", "load", "store", "update", "notify"}
  /\ call["main"].ret = "idle"

\* Thread t goes on elsewhere, the others stay where they are.
LEMMA CallMove ==
  ASSUME TypeOK, CallInv, NEW t \in Threads, NEW l, Goto(t, l),
         \A u \in Threads : u # t => call'[u] = call[u],
         call'[t].ret \in ReturnPCs, call'[t].back \in ReturnPCs,
         t = "main" => call'[t].ret = "idle" /\ l \in {"idle", "load", "store", "update", "notify"}
  PROVE  CallInv'
<1>1. \A u \in Threads : pc'[u] = IF u = t THEN l ELSE pc[u]
  BY DEF Goto, TypeOK, ThreadType
<1>2. "main" \in Threads
  BY DEF Threads
<1> QED
  BY <1>1, <1>2 DEF CallInv

LEMMA CallFrame == ASSUME CallInv, UNCHANGED <<pc, call>> PROVE CallInv'
  BY DEF CallInv

LEMMA CallMovePc ==
  ASSUME TypeOK, CallInv, NEW t \in Threads, NEW l, Goto(t, l), call' = call,
         t = "main" => l \in {"idle", "load", "store", "update", "notify"}
  PROVE  CallInv'
<1>1. call[t].ret \in ReturnPCs /\ call[t].back \in ReturnPCs /\ (t = "main" => call[t].ret = "idle")
  BY DEF CallInv
<1> QED
  BY <1>1, CallMove

LEMMA CallMoveTo ==
  ASSUME TypeOK, CallInv, NEW t \in Threads, NEW l, NEW k, Goto(t, l),
         call' = [call EXCEPT ![t] = k], k.ret \in ReturnPCs, k.back \in ReturnPCs,
         t = "main" => k.ret = "idle" /\ l \in {"idle", "load", "store", "update", "notify"}
  PROVE  CallInv'
<1>1. call'[t] = k /\ \A u \in Threads : u # t => call'[u] = call[u]
  BY DEF TypeOK, ThreadType
<1> QED
  BY <1>1, CallMove

LEMMA NoCallReturns ==
  ASSUME NEW t \in Threads
  PROVE  /\ NoCall(t).ret = Home(t) /\ NoCall(t).back = Home(t)
         /\ Home(t) \in ReturnPCs /\ (t = "main" => Home(t) = "idle")
  BY DEF NoCall, Home, ReturnPCs

LEMMA ReturnKeepsCall ==
  ASSUME TypeOK, CallInv, NEW t \in Threads, Return(t)
  PROVE  CallInv'
<1>1. /\ call[t].ret \in ReturnPCs /\ call[t].back \in ReturnPCs
      /\ t = "main" => call[t].ret = "idle"
  BY DEF CallInv
<1> DEFINE k == IF call[t].ret = "close" THEN call[t] ELSE NoCall(t)
<1>2. /\ k.ret \in ReturnPCs /\ k.back \in ReturnPCs
      /\ t = "main" => k.ret = "idle"
  BY <1>1, NoCallReturns
<1>3. call' = [call EXCEPT ![t] = k] /\ Goto(t, call[t].ret)
  BY DEF Return
<1> HIDE DEF k
<1> QED
  BY <1>1, <1>2, <1>3, CallMoveTo

LEMMA RestKeepsCall ==
  ASSUME TypeOK, CallInv, NEW t \in Threads, Rest(t)
  PROVE  CallInv'
  BY NoCallReturns, CallMoveTo DEF Rest

LEMMA CallKeepsCall ==
  ASSUME TypeOK, CallInv, NEW t \in Threads, NEW c, NEW bit, NEW on, NEW ret \in ReturnPCs,
         t = "main" => ret = "idle", Call(t, c, bit, on, ret)
  PROVE  CallInv'
<1> DEFINE k == [call[t] EXCEPT !.bit = bit, !.on = on, !.ret = ret]
<1>1. call[t] \in CallsOf(t) /\ call[t].back \in ReturnPCs
  BY DEF TypeOK, ThreadType, CallInv
<1>2. k.ret = ret /\ k.back = call[t].back
  BY <1>1 DEF CallsOf
<1>3. call' = [call EXCEPT ![t] = k] /\ Goto(t, "load")
  BY DEF Call
<1> HIDE DEF k
<1> QED
  BY <1>1, <1>2, <1>3, CallMoveTo

LEMMA FreeKeepsCall ==
  ASSUME TypeOK, CallInv, NEW t \in Threads, t # "main", NEW c, NEW back \in ReturnPCs,
         ChannelFree(t, c, back)
  PROVE  CallInv'
<1> DEFINE k == [call[t] EXCEPT !.op = "DEL", !.ret = "close", !.back = back]
<1>1. call[t] \in CallsOf(t)
  BY DEF TypeOK, ThreadType
<1>2. k.ret = "close" /\ k.back = back
  BY <1>1 DEF CallsOf
<1>3. call' = [call EXCEPT ![t] = k] /\ Goto(t, "update")
  BY DEF ChannelFree
<1>4. "close" \in ReturnPCs
  BY DEF ReturnPCs
<1> HIDE DEF k
<1> QED
  BY <1>2, <1>3, <1>4, CallMoveTo

LEMMA DeathKeepsCall == ASSUME CallInv, NEW how, Die(how) PROVE CallInv'
  BY CallFrame DEF Die

LEMMA ChannelStepCall ==
  ASSUME TypeOK, CallInv, NEW t \in Threads, ChannelStep(t)
  PROVE  CallInv'
<1>0. pc["main"] \in {"idle", "load", "store", "update", "notify"}
  BY DEF CallInv
<1>1. CASE ChannelLoad(t)
  <2> DEFINE k(ev, o) == [call[t] EXCEPT !.ev = ev, !.op = o]
  <2>1. \A ev, o : k(ev, o).ret = call[t].ret /\ k(ev, o).back = call[t].back
    BY DEF TypeOK, ThreadType, CallsOf
  <2>2. CASE \E how : Die(how)
    BY <2>2, DeathKeepsCall
  <2>3. CASE \E ev, o : call' = [call EXCEPT ![t] = k(ev, o)] /\ Goto(t, "store")
    <3>1. PICK ev, o : call' = [call EXCEPT ![t] = k(ev, o)] /\ Goto(t, "store")
      BY <2>3
    <3>2. /\ k(ev, o).ret \in ReturnPCs /\ k(ev, o).back \in ReturnPCs
          /\ t = "main" => k(ev, o).ret = "idle"
      BY <2>1 DEF CallInv
    <3> HIDE DEF k
    <3> QED
      BY <3>1, <3>2, CallMoveTo
  <2> QED
    BY <1>1, <2>2, <2>3 DEF ChannelLoad
<1>2. CASE ChannelStore(t)
  BY <1>2, DeathKeepsCall, CallMovePc DEF ChannelStore
<1>3. CASE Update(t)
  <2>1. CASE Die("uaf")
    BY <2>1, DeathKeepsCall
  <2>2. CASE ~Die("uaf")
    BY <1>3, <2>2, CallMovePc DEF Update
  <2> QED
    BY <2>1, <2>2
<1>4. CASE Notify(t)
  BY <1>4, ReturnKeepsCall DEF Notify
<1>5. CASE CloseFd(t)
  <2>1. t # "main" /\ call[t].back \in ReturnPCs
    BY <1>0, <1>5 DEF CloseFd, CallInv
  <2> QED
    BY <1>5, <2>1, DeathKeepsCall, RestKeepsCall, NoCallReturns, CallMoveTo DEF CloseFd
<1> QED
  BY <1>1, <1>2, <1>3, <1>4, <1>5 DEF ChannelStep

LEMMA ThreadStepCall ==
  ASSUME TypeOK, CallInv, NEW t \in Threads, ThreadStep(t)
  PROVE  CallInv'
<1>0. pc["main"] \in {"idle", "load", "store", "update", "notify"}
  BY DEF CallInv
<1>1. CASE ChannelStep(t)
  BY <1>1, ChannelStepCall
<1>2. CASE TouchFreed(t)
  BY <1>2, DeathKeepsCall DEF TouchFreed
<1>3. CASE Leave(t)
  BY <1>3, RestKeepsCall DEF Leave
<1>4. CASE SendPartial(t)
  <2>1. t # "main" /\ pc[t] \in ReturnPCs
    BY <1>0, <1>4 DEF SendPartial, ReturnPCs
  <2> QED
    BY <1>4, <2>1, CallKeepsCall DEF SendPartial
<1>5. CASE SendFails(t)
  <2>1. t # "main" /\ pc[t] \in ReturnPCs
    BY <1>0, <1>5 DEF SendFails, ReturnPCs
  <2> QED
    BY <1>5, <2>1, FreeKeepsCall DEF SendFails
<1>6. CASE BeginDispatch(t)
  <2>1. t # "main" /\ "dispatch" \in ReturnPCs
    BY <1>0, <1>6 DEF BeginDispatch, ReturnPCs
  <2> QED
    BY <1>6, <2>1, CallKeepsCall DEF BeginDispatch
<1>7. CASE Dispatch(t)
  BY <1>0, <1>7, CallMovePc DEF Dispatch
<1>8. CASE LinkBuffer(t)
  BY <1>8, RestKeepsCall DEF LinkBuffer
<1>9. CASE Close(t)
  <2>1. t # "main" /\ "serve" \in ReturnPCs
    BY <1>0, <1>9 DEF Close, ClosePCs, ReturnPCs
  <2> QED
    BY <1>9, <2>1, NoCallReturns, FreeKeepsCall DEF Close, BackFromClose
<1>10. CASE CloseDeferred(t)
  BY <1>10, RestKeepsCall, CallFrame DEF CloseDeferred
<1> QED
  BY <1>1, <1>2, <1>3, <1>4, <1>5, <1>6, <1>7, <1>8, <1>9, <1>10 DEF ThreadStep

LEMMA LoopStepCall ==
  ASSUME TypeOK, CallInv, LoopStep
  PROVE  CallInv'
<1>0. "loop" \in Threads
  BY DEF Threads
<1>1. CASE LoopSetThread
  BY <1>0, <1>1, CallMovePc DEF LoopSetThread
<1>2. CASE EpollWait
  BY <1>2, CallFrame DEF EpollWait
<1>3. CASE ReadEventfd
  BY <1>0, <1>3, CallMovePc DEF ReadEventfd
<1>4. CASE SwapPending
  BY <1>0, <1>4, CallMovePc DEF SwapPending
<1>5. CASE ApplyNext
  <2>1. CASE batch = <<>>
    BY <1>0, <1>5, <2>1, RestKeepsCall DEF ApplyNext
  <2>2. CASE batch # <<>>
    <3> DEFINE k == [call["loop"] EXCEPT !.ret = "apply"]
    <3>1. k.ret = "apply" /\ k.back = call["loop"].back
      BY <1>0 DEF TypeOK, ThreadType, CallsOf
    <3>2. k.ret \in ReturnPCs /\ k.back \in ReturnPCs
      BY <1>0, <3>1 DEF CallInv, ReturnPCs
    <3>3. call' = [call EXCEPT !["loop"] = k] /\ Goto("loop", "ctl")
      BY <1>5, <2>2 DEF ApplyNext
    <3> HIDE DEF k
    <3> QED
      BY <1>0, <3>2, <3>3, CallMoveTo
  <2> QED
    BY <2>1, <2>2
<1>6. ASSUME NEW c \in Channels, NEW bit \in Bits, Fire(c, bit) PROVE CallInv'
  BY <1>0, <1>6, DeathKeepsCall, CallMovePc DEF Fire
<1>7. CASE WriteAll
  <2>1. "written" \in ReturnPCs
    BY DEF ReturnPCs
  <2> QED
    BY <1>0, <1>7, <2>1, CallKeepsCall DEF WriteAll
<1>8. CASE ModifyCtl
  BY <1>0, <1>8, DeathKeepsCall, CallMovePc DEF ModifyCtl
<1>9. CASE ModifyClear
  BY <1>0, <1>9, DeathKeepsCall, ReturnKeepsCall DEF ModifyClear
<1>10. CASE Written
  BY <1>0, <1>10, DeathKeepsCall, RestKeepsCall DEF Written
<1> QED
  BY <1>1, <1>2, <1>3, <1>4, <1>5, <1>6, <1>7, <1>8, <1>9, <1>10 DEF LoopStep

LEMMA CallerStepCall ==
  ASSUME TypeOK, CallInv, CallerStep
  PROVE  CallInv'
<1>0. "main" \in Threads /\ "cgi" \in Threads /\ {"idle", "tail"} \subseteq ReturnPCs
  BY DEF Threads, ReturnPCs
<1>1. ASSUME NEW c \in Channels, Accept(c) PROVE CallInv'
  BY <1>0, <1>1, CallKeepsCall DEF Accept
<1>2. CASE CgiBegin
  BY <1>0, <1>2, CallMovePc DEF CgiBegin
<1>3. CASE CgiComplete
  BY <1>0, <1>3, CallKeepsCall DEF CgiComplete
<1> QED
  BY <1>1, <1>2, <1>3 DEF CallerStep

LEMMA CallsReturn == Spec => []CallInv
<1>1. Init => CallInv
  <2> SUFFICES ASSUME Init PROVE CallInv
    OBVIOUS
  <2>1. "main" \in Threads
    BY DEF Threads
  <2> QED
    BY <2>1, NoCallReturns DEF Init, CallInv
<1>2. TypeOK /\ CallInv /\ [Next]_vars => CallInv'
  <2> SUFFICES ASSUME TypeOK, CallInv, [Next]_vars PROVE CallInv'
    OBVIOUS
  <2>1. CASE UNCHANGED vars
    BY <2>1, CallFrame DEF vars
  <2>2. CASE Next
    BY <2>2, LoopStepCall, CallerStepCall, ThreadStepCall DEF Next
  <2> QED
    BY <2>1, <2>2
<1> QED
  BY <1>1, <1>2, TypeCorrect, PTL DEF Spec

\* What is recorded about c stays as it is.
KeepsData(c) ==
  /\ live'[c] => live[c]
  /\ c \in overlapped => c \in overlapped'
  /\ events'[c] = events[c] /\ op'[c] = op[c]
  /\ registered'[c] = registered[c] /\ interest'[c] = interest[c]
  /\ (Posted(c)' <=> Posted(c))
  /\ OnceIn(Backlog, c) => OnceIn(Backlog', c)

\* Thread t goes to l; the other threads stay where they are.
Moves(t, l) ==
  /\ Goto(t, l)
  /\ \A u \in Threads : u # t => chan'[u] = chan[u] /\ call'[u] = call[u]

LEMMA MovesPc ==
  ASSUME TypeOK, NEW t \in Threads, NEW l, Moves(t, l)
  PROVE  /\ pc'[t] = l
         /\ \A u \in Threads : u # t => pc'[u] = pc[u] /\ chan'[u] = chan[u] /\ call'[u] = call[u]
  BY DEF Moves, Goto, TypeOK, ThreadType

\* A step of thread t that has nothing to do with c.
LEMMA Elsewhere ==
  ASSUME TypeOK, NEW c, Settles(c), KeepsData(c),
         NEW t \in Threads, NEW l, Moves(t, l), ~Busy(t, c), chan'[t] # c \/ l \notin BusyPCs
  PROVE  Settles(c)'
<1>1. \A u \in Threads :
         /\ Busy(u, c)' <=> Busy(u, c)
         /\ Busy(u, c) => pc'[u] = pc[u] /\ call'[u] = call[u]
  BY MovesPc DEF Busy
<1> QED
  BY <1>1, SettlesFrame DEF KeepsData, LeavesAlone

\* Nothing is recorded anew, and the backlog stays.
LEMMA SameData ==
  ASSUME NEW c, UNCHANGED <<channelVars, kernelVars, pending, batch>>, overlapped \subseteq overlapped'
  PROVE  KeepsData(c)
<1>1. Backlog' = Backlog
  BY DEF Backlog
<1> QED
  BY <1>1 DEF KeepsData, Posted, OnceIn, Elements, channelVars, kernelVars

\* After the step thread t alone is busy on c.
LEMMA NowBusy ==
  ASSUME TypeOK, NEW t \in Threads, NEW l, Moves(t, l), NEW c,
         \A u \in Threads : u # t => ~Busy(u, c),
         ~Posted(c)', OnceIn(Backlog', c), OnItsWay(t, c)', Busy(t, c)'
  PROVE  Settling(c)'
<1>1. \A u \in Threads : Busy(u, c)' => u = t
  BY MovesPc DEF Busy
<1> QED
  BY <1>1 DEF Settling

\* After the step no thread is busy on c.
LEMMA NowQuiet ==
  ASSUME TypeOK, NEW t \in Threads, NEW l, Moves(t, l), NEW c,
         \A u \in Threads : u # t => ~Busy(u, c), ~Busy(t, c)',
         OnceIn(Backlog', c), Posted(c)' => Right(c, op[c], events[c])',
         ~Posted(c)' => Coherent(c)'
  PROVE  Settling(c)'
<1>1. \A u \in Threads : ~Busy(u, c)'
  BY MovesPc DEF Busy
<1> QED
  BY <1>1 DEF Settling

\* The array is left alone, by a thread that does not work through it.
LEMMA BatchKept ==
  ASSUME TypeOK, BatchInv, batch' = batch, NEW t \in Threads, NEW l, Moves(t, l),
         t = "loop" => pc["loop"] \notin {"apply", "ctl", "clear"} \/ batch = <<>>
  PROVE  BatchInv'
<1>1. CASE t = "loop"
  BY <1>1 DEF BatchInv
<1>2. CASE t # "loop"
  <2>1. "loop" \in Threads
    BY DEF Threads
  <2>2. pc'["loop"] = pc["loop"] /\ call'["loop"] = call["loop"]
    BY <1>2, <2>1, MovesPc
  <2> QED
    BY <2>2 DEF BatchInv
<1> QED
  BY <1>1, <1>2

\* A thread moves between two places where it is not busy.
LEMMA QuietMove ==
  ASSUME TypeOK, InterestInv, UNCHANGED <<channelVars, kernelVars, pending, batch>>,
         overlapped \subseteq overlapped', NEW t \in Threads, NEW l, Moves(t, l),
         pc[t] \notin BusyPCs, l \notin BusyPCs,
         t = "loop" => pc["loop"] # "apply" \/ batch = <<>>
  PROVE  InterestInv'
<1>1. BatchInv'
  BY BatchKept DEF InterestInv, BusyPCs
<1>2. Unwatched'
  BY DEF InterestInv, Unwatched, kernelVars
<1>3. ASSUME NEW c \in Channels PROVE Settles(c)'
  BY SameData, Elsewhere DEF InterestInv, Busy
<1> QED
  BY <1>1, <1>2, <1>3 DEF InterestInv

LEMMA QuietFrame ==
  ASSUME InterestInv,
         UNCHANGED <<channelVars, kernelVars, pending, batch, overlapped, pc, chan, call>>
  PROVE  InterestInv'
<1>1. BatchInv'
  BY DEF InterestInv, BatchInv
<1>2. Unwatched'
  BY DEF InterestInv, Unwatched, kernelVars
<1>3. ASSUME NEW c \in Channels PROVE Settles(c)'
  <2>1. KeepsData(c)
    BY SameData
  <2> QED
    BY <2>1, SettlesFrame DEF InterestInv, LeavesAlone, KeepsData, Busy
<1> QED
  BY <1>1, <1>2, <1>3 DEF InterestInv

LEMMA DeathKeepsInterest == ASSUME InterestInv, NEW how, Die(how) PROVE InterestInv'
  BY QuietFrame DEF Die, loopVars, historyVars

\* How the helpers move a thread.
LEMMA Movers ==
  ASSUME TypeOK, NEW t \in Threads
  PROVE  /\ \A l : Goto(t, l) /\ chan' = chan /\ call' = call => Moves(t, l)
         /\ \A l, k : Goto(t, l) /\ chan' = chan /\ call' = [call EXCEPT ![t] = k] => Moves(t, l)
         /\ \A l, x : Goto(t, l) /\ chan' = [chan EXCEPT ![t] = x] /\ call' = call => Moves(t, l)
         /\ \A l, x, k : /\ Goto(t, l) /\ chan' = [chan EXCEPT ![t] = x]
                         /\ call' = [call EXCEPT ![t] = k]
                         => Moves(t, l)
         /\ Return(t) => Moves(t, call[t].ret)
         /\ Rest(t) => Moves(t, Home(t)) /\ Home(t) \notin BusyPCs
         /\ \A c, bit, on, ret : Call(t, c, bit, on, ret) => Moves(t, "load")
         /\ \A c, back : ChannelFree(t, c, back) => Moves(t, "update")
  BY DEF Moves, TypeOK, ThreadType, Return, Rest, Call, ChannelFree, Home, BusyPCs

\* A call begins: nothing overlaps it on c unless the step notes so.
LEMMA Undisturbed ==
  ASSUME TypeOK, InterestInv, NEW t \in Threads, NEW c \in Channels, chan[t] = c,
         pc[t] \notin BusyPCs, live[c], NoteOverlap(t, c), c \notin overlapped'
  PROVE  /\ c \notin overlapped /\ Settling(c) /\ Coherent(c) /\ ~Posted(c)
         /\ \A u \in Threads : ~Busy(u, c)
<1>1. ~Unsettled(t, c) /\ c \notin overlapped
  BY DEF NoteOverlap
<1>2. ~Posted(c)
  BY <1>1, PostedIn DEF Unsettled, TypeOK
<1>3. \A u \in Threads : ~Busy(u, c)
  BY <1>1 DEF Unsettled, Busy, BusyPCs, InCall
<1>4. Settling(c)
  BY <1>1 DEF InterestInv, Settles
<1> QED
  BY <1>1, <1>2, <1>3, <1>4 DEF Settling

LEMMA SameBacklog ==
  ASSUME pending' = pending, batch' = batch
  PROVE  Backlog' = Backlog /\ \A c : Posted(c)' = Posted(c) /\ OnceIn(Backlog', c) = OnceIn(Backlog, c)
  BY DEF Backlog, Posted

\* The operation the four Channel calls choose is the right one.
LEMMA OpForRight ==
  ASSUME NEW c, Coherent(c), NEW on \in BOOLEAN, NEW bit, (bit \in events[c]) # on,
         NEW new, new = IF on THEN events[c] \cup {bit} ELSE events[c] \ {bit}
  PROVE  Right(c, OpFor(on, events[c], new), new)
<1>1. CASE on
  BY <1>1 DEF Coherent, Right, OpFor
<1>2. CASE ~on
  BY <1>2 DEF Coherent, Right, OpFor
<1> QED
  BY <1>1, <1>2

LEMMA LoadKeepsInterest ==
  ASSUME TypeOK, InterestInv, NEW t \in Threads, ChannelLoad(t)
  PROVE  InterestInv'
<1>0. PICK c \in Channels : chan[t] = c
  BY DEF ChannelLoad, TypeOK, ThreadType, RestPCs
<1> DEFINE f   == call[t]
           new == IF f.on THEN events[c] \cup {f.bit} ELSE events[c] \ {f.bit}
           k   == [f EXCEPT !.ev = new, !.op = OpFor(f.on, events[c], new)]
<1>1. CASE \E how : Die(how)
  BY <1>1, DeathKeepsInterest
<1>2. CASE ~\E how : Die(how)
  <2>1. /\ live[c] /\ (f.bit \in events[c]) # f.on
        /\ call' = [call EXCEPT ![t] = k]
        /\ Goto(t, "store")
        /\ NoteOverlap(t, c)
        /\ UNCHANGED <<loopVars, channelVars, kernelVars, chan>>
        /\ pc[t] = "load"
    BY <1>0, <1>2 DEF ChannelLoad
  <2>2. /\ f \in CallsOf(t) /\ f.on \in BOOLEAN
        /\ pc[t] \notin BusyPCs
        /\ call'[t] = k
    BY <2>1 DEF TypeOK, ThreadType, CallsOf, BusyPCs
  <2>3. k.ev = new /\ k.op = OpFor(f.on, events[c], new)
    BY <2>2 DEF CallsOf
  <2> HIDE DEF k
  <2>4. Moves(t, "store") /\ UNCHANGED <<pending, batch>> /\ overlapped \subseteq overlapped'
    BY <2>1, Movers DEF loopVars, NoteOverlap
  <2>5. BatchInv'
    BY <2>1, <2>4, BatchKept DEF InterestInv
  <2>6. Unwatched'
    BY <2>1 DEF InterestInv, Unwatched, kernelVars
  <2>7. ASSUME NEW d \in Channels, d # c PROVE Settles(d)'
    BY <1>0, <2>1, <2>2, <2>4, <2>7, SameData, Elsewhere DEF InterestInv, Busy
  <2>8. Settles(c)'
    <3> SUFFICES ASSUME c \notin overlapped' PROVE Settling(c)'
      BY <2>1 DEF Settles
    <3>1. /\ Coherent(c) /\ ~Posted(c) /\ OnceIn(Backlog, c)
          /\ \A u \in Threads : ~Busy(u, c)
      BY <1>0, <2>1, <2>2, Undisturbed DEF Settling
    <3>2. Coherent(c)' /\ ~Posted(c)' /\ OnceIn(Backlog', c)
      BY <2>1, <2>4, <3>1, SameBacklog DEF Coherent, channelVars, kernelVars
    <3>3. Right(c, k.op, k.ev)
      <4>1. Right(c, OpFor(f.on, events[c], new), new)
        BY <2>1, <2>2, <3>1, OpForRight
      <4> QED
        BY <2>3, <4>1
    <3>4. pc'[t] = "store" /\ chan'[t] = c
      BY <1>0, <2>1, <2>4, MovesPc
    <3>5. OnItsWay(t, c)'
      <4>1. registered' = registered
        BY <2>1 DEF kernelVars
      <4>2. Right(c, call[t].op, call[t].ev)'
        BY <2>2, <3>3, <4>1 DEF Right
      <4> QED
        BY <3>2, <3>4, <4>2 DEF OnItsWay
    <3>6. Busy(t, c)'
      BY <3>4 DEF Busy, BusyPCs
    <3> QED
      BY <2>4, <3>1, <3>2, <3>5, <3>6, NowBusy
  <2> QED
    BY <2>5, <2>6, <2>7, <2>8 DEF InterestInv
<1> QED
  BY <1>1, <1>2

LEMMA StoreKeepsInterest ==
  ASSUME TypeOK, InterestInv, NEW t \in Threads, ChannelStore(t)
  PROVE  InterestInv'
<1>0. PICK c \in Channels : chan[t] = c
  BY DEF ChannelStore, TypeOK, ThreadType, RestPCs
<1>1. CASE ~live[c]
  BY <1>0, <1>1, DeathKeepsInterest DEF ChannelStore
<1>2. CASE live[c]
  <2>1. /\ pc[t] = "store"
        /\ events' = [events EXCEPT ![c] = call[t].ev]
        /\ Goto(t, "update")
        /\ UNCHANGED <<pending, batch, op, live, kernelVars, chan, call, overlapped>>
    BY <1>0, <1>2 DEF ChannelStore, loopVars, historyVars
  <2>3. Moves(t, "update")
    BY <2>1, Movers
  <2>4. BatchInv'
    BY <2>1, <2>3, BatchKept DEF InterestInv
  <2>5. Unwatched'
    BY <2>1 DEF InterestInv, Unwatched, kernelVars
  <2>6. ASSUME NEW d \in Channels, d # c PROVE Settles(d)'
    <3>1. KeepsData(d)
      BY <2>1, <2>6, SameBacklog DEF KeepsData, kernelVars, TypeOK, SharedType
    <3> QED
      BY <1>0, <2>1, <2>3, <2>6, <3>1, Elsewhere DEF InterestInv, Busy
  <2>7. Settles(c)'
    <3> SUFFICES ASSUME c \notin overlapped' PROVE Settling(c)'
      BY <2>1 DEF Settles
    <3>1. Settling(c) /\ Busy(t, c)
      BY <1>0, <1>2, <2>1 DEF InterestInv, Settles, Busy, BusyPCs
    <3>2. /\ \A u \in Threads : u # t => ~Busy(u, c)
          /\ ~Posted(c)' /\ OnceIn(Backlog', c)
          /\ Right(c, call[t].op, call[t].ev)
      BY <2>1, <3>1, SameBacklog DEF Settling, OnItsWay
    <3>3. pc'[t] = "update" /\ chan'[t] = c
      BY <1>0, <2>1, <2>3, MovesPc
    <3>4. OnItsWay(t, c)'
      <4>1. events'[c] = call[t].ev /\ call'[t] = call[t] /\ registered' = registered
        BY <2>1 DEF kernelVars, TypeOK, SharedType
      <4> QED
        BY <3>2, <3>3, <4>1 DEF OnItsWay, Right
    <3>5. Busy(t, c)'
      BY <3>3 DEF Busy, BusyPCs
    <3> QED
      BY <2>3, <3>2, <3>4, <3>5, NowBusy
  <2> QED
    BY <2>4, <2>5, <2>6, <2>7 DEF InterestInv
<1> QED
  BY <1>1, <1>2

LEMMA UpdateKeepsInterest ==
  ASSUME TypeOK, InterestInv, NEW t \in Threads, Update(t)
  PROVE  InterestInv'
<1>0. PICK c \in Channels : chan[t] = c
  BY DEF Update, TypeOK, ThreadType, RestPCs
<1> DEFINE l == IF t = "loop" THEN "ctl" ELSE "notify"
<1>1. CASE ~live[c]
  BY <1>0, <1>1, DeathKeepsInterest DEF Update
<1>2. CASE live[c]
  <2>1. /\ pc[t] = "update"
        /\ op' = [op EXCEPT ![c] = call[t].op]
        /\ Goto(t, l)
        /\ t = "loop" => pending' = pending
        /\ t # "loop" => pending' = Append(pending, c)
        /\ UNCHANGED <<batch, events, live, kernelVars, chan, call, overlapped>>
    BY <1>0, <1>2 DEF Update, historyVars
  <2>2. SharedType
    BY DEF TypeOK
  <2>3. Moves(t, l) /\ pc'[t] = l /\ chan'[t] = c
    BY <1>0, <2>1, Movers, MovesPc
  <2>4. BatchInv'
    BY <2>1, <2>3, BatchKept DEF InterestInv
  <2>5. Unwatched'
    BY <2>1 DEF InterestInv, Unwatched, kernelVars
  <2>6. t # "loop" => /\ Posted(c)'
                      /\ \A d : d # c => (Posted(d)' <=> Posted(d))
                      /\ \A d : d # c /\ OnceIn(Backlog, d) => OnceIn(Backlog', d)
                      /\ ~Posted(c) => OnceIn(Backlog', c)
    <3> SUFFICES ASSUME t # "loop" PROVE /\ Posted(c)'
                                         /\ \A d : d # c => (Posted(d)' <=> Posted(d))
                                         /\ \A d : d # c /\ OnceIn(Backlog, d) => OnceIn(Backlog', d)
                                         /\ ~Posted(c) => OnceIn(Backlog', c)
      OBVIOUS
    <3>1. Backlog' = Append(Backlog, c) /\ Backlog \in Seq(Channels)
      BY <2>1, <2>2, BacklogType, BacklogGrows
    <3>2. Elements(Backlog') = Elements(Backlog) \cup {c}
      BY <3>1, AppendEntries
    <3> QED
      BY <3>1, <3>2, AppendEntries DEF Posted
  <2>7. ASSUME NEW d \in Channels, d # c PROVE Settles(d)'
    <3>1. KeepsData(d)
      BY <2>1, <2>6, <2>7, SameBacklog DEF KeepsData, kernelVars, TypeOK, SharedType
    <3> QED
      BY <1>0, <2>1, <2>3, <2>7, <3>1, Elsewhere DEF InterestInv, Busy
  <2>8. Settles(c)'
    <3> SUFFICES ASSUME c \notin overlapped' PROVE Settling(c)'
      BY <2>1 DEF Settles
    <3>1. Settling(c) /\ Busy(t, c)
      BY <1>0, <1>2, <2>1 DEF InterestInv, Settles, Busy, BusyPCs
    <3>2. /\ \A u \in Threads : u # t => ~Busy(u, c)
          /\ ~Posted(c) /\ OnceIn(Backlog, c)
          /\ Right(c, call[t].op, events[c])
      BY <2>1, <3>1 DEF Settling, OnItsWay
    <3>3. Right(c, op[c], events[c])'
      <4>1. op'[c] = call[t].op /\ events' = events /\ registered' = registered
        BY <2>1, <2>2 DEF kernelVars, TypeOK, SharedType
      <4> QED
        BY <3>2, <4>1 DEF Right
    <3>4. CASE t = "loop"
      <4>1. OnItsWay(t, c)' /\ Busy(t, c)'
        BY <2>3, <3>3, <3>4 DEF OnItsWay, Busy, BusyPCs
      <4>2. ~Posted(c)' /\ OnceIn(Backlog', c)
        BY <2>1, <3>2, <3>4, SameBacklog
      <4> QED
        BY <2>3, <3>2, <4>1, <4>2, NowBusy
    <3>5. CASE t # "loop"
      <4>1. ~Busy(t, c)'
        BY <2>3, <3>5 DEF Busy, BusyPCs
      <4> QED
        BY <2>3, <2>6, <3>2, <3>3, <3>5, <4>1, NowQuiet
    <3> QED
      BY <3>4, <3>5
  <2> QED
    BY <2>4, <2>5, <2>7, <2>8 DEF InterestInv
<1> QED
  BY <1>1, <1>2

LEMMA FreeKeepsInterest ==
  ASSUME TypeOK, InterestInv, NEW t \in Threads, NEW c \in Channels, chan[t] = c,
         pc[t] \notin BusyPCs \cup {"apply"}, NEW back, ChannelFree(t, c, back)
  PROVE  InterestInv'
<1> DEFINE k == [call[t] EXCEPT !.op = "DEL", !.ret = "close", !.back = back]
<1>1. /\ live[c]
      /\ events' = [events EXCEPT ![c] = {}]
      /\ Goto(t, "update")
      /\ NoteOverlap(t, c)
      /\ UNCHANGED <<pending, batch, op, live, kernelVars, chan>>
      /\ call' = [call EXCEPT ![t] = k]
  BY DEF ChannelFree, loopVars
<1>2. call'[t] = k /\ k.op = "DEL"
  BY <1>1 DEF TypeOK, ThreadType, CallsOf
<1> HIDE DEF k
<1>3. /\ Moves(t, "update") /\ overlapped \subseteq overlapped'
      /\ pc'[t] = "update" /\ chan'[t] = c
  BY <1>1, Movers, MovesPc DEF NoteOverlap
<1>4. BatchInv'
  BY <1>1, <1>3, BatchKept DEF InterestInv, BusyPCs
<1>5. Unwatched'
  BY <1>1 DEF InterestInv, Unwatched, kernelVars
<1>6. ASSUME NEW d \in Channels, d # c PROVE Settles(d)'
  <2>1. KeepsData(d)
    BY <1>1, <1>3, <1>6, SameBacklog DEF KeepsData, kernelVars, TypeOK, SharedType
  <2> QED
    BY <1>3, <1>6, <2>1, Elsewhere DEF InterestInv, Busy
<1>7. Settles(c)'
  <2> SUFFICES ASSUME c \notin overlapped' PROVE Settling(c)'
    BY DEF Settles
  <2>1. /\ ~Posted(c) /\ OnceIn(Backlog, c)
        /\ \A u \in Threads : ~Busy(u, c)
    BY <1>1, Undisturbed DEF Settling
  <2>2. ~Posted(c)' /\ OnceIn(Backlog', c)
    BY <1>1, <2>1, SameBacklog
  <2>3. OnItsWay(t, c)'
    <3>1. events'[c] = {}
      BY <1>1 DEF TypeOK, SharedType
    <3> QED
      BY <1>2, <1>3, <3>1 DEF OnItsWay, Right
  <2>4. Busy(t, c)'
    BY <1>3 DEF Busy, BusyPCs
  <2> QED
    BY <1>3, <2>1, <2>2, <2>3, <2>4, NowBusy
<1> QED
  BY <1>4, <1>5, <1>6, <1>7 DEF InterestInv

LEMMA CloseFdKeepsInterest ==
  ASSUME TypeOK, CallInv, InterestInv, NEW t \in Threads, CloseFd(t)
  PROVE  InterestInv'
<1>0. PICK c \in Channels : chan[t] = c
  BY DEF CloseFd, TypeOK, ThreadType, RestPCs
<1>1. CASE ~live[c]
  BY <1>0, <1>1, DeathKeepsInterest DEF CloseFd
<1>2. CASE live[c]
  <2>1. /\ pc[t] = "close"
        /\ registered' = [registered EXCEPT ![c] = FALSE]
        /\ interest' = [interest EXCEPT ![c] = {}]
        /\ live' = [live EXCEPT ![c] = FALSE]
        /\ UNCHANGED <<pending, batch, events, op, overlapped>>
    BY <1>0, <1>2 DEF CloseFd, loopVars, historyVars
  <2>2. PICK l : Moves(t, l) /\ l \notin BusyPCs
    <3>1. CASE call[t].back = Home(t)
      BY <1>0, <1>2, <3>1, Movers DEF CloseFd
    <3>2. CASE call[t].back # Home(t)
      <4>1. call[t].back \notin BusyPCs
        BY DEF CallInv, ReturnPCs, BusyPCs
      <4> QED
        BY <1>0, <1>2, <3>2, <4>1, Movers DEF CloseFd
    <3> QED
      BY <3>1, <3>2
  <2>3. BatchInv'
    BY <2>1, <2>2, BatchKept DEF InterestInv
  <2>4. Unwatched'
    BY <2>1 DEF InterestInv, Unwatched, TypeOK, SharedType
  <2>5. ASSUME NEW d \in Channels, d # c PROVE Settles(d)'
    <3>1. KeepsData(d)
      BY <2>1, <2>5, SameBacklog DEF KeepsData, TypeOK, SharedType
    <3> QED
      BY <2>1, <2>2, <3>1, Elsewhere DEF InterestInv, Busy, BusyPCs
  <2>6. Settles(c)'
    BY <2>1 DEF Settles, TypeOK, SharedType
  <2> QED
    BY <2>3, <2>4, <2>5, <2>6 DEF InterestInv
<1> QED
  BY <1>1, <1>2

\* The right operation, applied, makes the two masks agree.
LEMMA RightCoheres ==
  ASSUME SharedType, Unwatched, NEW c \in Channels, Right(c, op[c], events[c]),
         EpollCtl(c, op[c], events[c]), events' = events
  PROVE  Coherent(c)'
  BY DEF SharedType, Unwatched, Right, EpollCtl, Coherent, kernelVars

LEMMA CtlKeepsInterest ==
  ASSUME TypeOK, InterestInv, ModifyCtl
  PROVE  InterestInv'
<1>0. "loop" \in Threads /\ SharedType
  BY DEF Threads, TypeOK
<1>1. PICK c \in Channels : chan["loop"] = c
  BY <1>0 DEF ModifyCtl, TypeOK, ThreadType, RestPCs
<1>2. CASE ~live[c]
  BY <1>1, <1>2, DeathKeepsInterest DEF ModifyCtl
<1>3. CASE live[c]
  <2>1. /\ pc["loop"] = "ctl"
        /\ EpollCtl(c, op[c], events[c])
        /\ Goto("loop", "clear")
        /\ UNCHANGED <<pending, batch, events, op, live, chan, call, overlapped>>
    BY <1>1, <1>3 DEF ModifyCtl, loopVars, channelVars, historyVars
  <2>2. Moves("loop", "clear") /\ pc'["loop"] = "clear" /\ chan'["loop"] = c
    BY <1>0, <1>1, <2>1, Movers, MovesPc
  <2>3. BatchInv'
    BY <2>1, <2>2 DEF InterestInv, BatchInv
  <2>4. \A d \in Channels : d # c => registered'[d] = registered[d] /\ interest'[d] = interest[d]
    BY <1>0, <2>1 DEF EpollCtl, kernelVars, SharedType
  <2>5. Unwatched'
    BY <1>0, <2>1, <2>4 DEF InterestInv, Unwatched, EpollCtl, kernelVars, SharedType
  <2>6. ASSUME NEW d \in Channels, d # c PROVE Settles(d)'
    <3>1. KeepsData(d)
      BY <2>1, <2>4, <2>6, SameBacklog DEF KeepsData
    <3> QED
      BY <1>0, <1>1, <2>2, <2>6, <3>1, Elsewhere DEF InterestInv, Busy
  <2>7. Settles(c)'
    <3> SUFFICES ASSUME c \notin overlapped' PROVE Settling(c)'
      BY <2>1 DEF Settles
    <3>1. Settling(c) /\ Busy("loop", c)
      BY <1>1, <1>3, <2>1 DEF InterestInv, Settles, Busy, BusyPCs
    <3>2. /\ \A u \in Threads : u # "loop" => ~Busy(u, c)
          /\ ~Posted(c)' /\ OnceIn(Backlog', c)
          /\ Right(c, op[c], events[c])
      BY <1>0, <2>1, <3>1, SameBacklog DEF Settling, OnItsWay
    <3>3. Coherent(c)'
      BY <1>0, <2>1, <3>2, RightCoheres DEF InterestInv
    <3>4. OnItsWay("loop", c)' /\ Busy("loop", c)'
      BY <2>2, <3>3 DEF OnItsWay, Busy, BusyPCs
    <3> QED
      BY <1>0, <2>2, <3>2, <3>4, NowBusy
  <2> QED
    BY <2>3, <2>5, <2>6, <2>7 DEF InterestInv
<1> QED
  BY <1>2, <1>3

LEMMA ClearKeepsInterest ==
  ASSUME TypeOK, CallInv, InterestInv, ModifyClear
  PROVE  InterestInv'
<1>0. "loop" \in Threads
  BY DEF Threads
<1>1. PICK c \in Channels : chan["loop"] = c
  BY <1>0 DEF ModifyClear, TypeOK, ThreadType, RestPCs
<1>2. CASE ~live[c]
  BY <1>1, <1>2, DeathKeepsInterest DEF ModifyClear
<1>3. CASE live[c]
  <2>1. /\ pc["loop"] = "clear"
        /\ op' = [op EXCEPT ![c] = "none"]
        /\ Return("loop")
        /\ UNCHANGED <<pending, batch, events, live, kernelVars, overlapped>>
    BY <1>1, <1>3 DEF ModifyClear, loopVars, historyVars
  <2> DEFINE l == call["loop"].ret
  <2>2. Moves("loop", l) /\ pc'["loop"] = l
    BY <1>0, <2>1, Movers, MovesPc
  <2>3. l \notin BusyPCs
    BY <1>0 DEF CallInv, ReturnPCs, BusyPCs
  <2>4. BatchInv'
    BY <2>1, <2>2 DEF InterestInv, BatchInv
  <2>5. Unwatched'
    BY <2>1 DEF InterestInv, Unwatched, kernelVars
  <2>6. ASSUME NEW d \in Channels, d # c PROVE Settles(d)'
    <3>1. KeepsData(d)
      BY <2>1, <2>6, SameBacklog DEF KeepsData, kernelVars, TypeOK, SharedType
    <3> QED
      BY <1>0, <1>1, <2>2, <2>3, <2>6, <3>1, Elsewhere DEF InterestInv, Busy
  <2>7. Settles(c)'
    <3> SUFFICES ASSUME c \notin overlapped' PROVE Settling(c)'
      BY <2>1 DEF Settles
    <3>1. Settling(c) /\ Busy("loop", c)
      BY <1>1, <1>3, <2>1 DEF InterestInv, Settles, Busy, BusyPCs
    <3>2. /\ \A u \in Threads : u # "loop" => ~Busy(u, c)
          /\ ~Posted(c)' /\ OnceIn(Backlog', c)
          /\ Coherent(c)
      BY <1>0, <2>1, <3>1, SameBacklog DEF Settling, OnItsWay
    <3>3. Coherent(c)'
      BY <2>1, <3>2 DEF Coherent, kernelVars
    <3>4. ~Busy("loop", c)'
      BY <2>2, <2>3 DEF Busy
    <3> QED
      BY <1>0, <2>2, <3>2, <3>3, <3>4, NowQuiet
  <2> QED
    BY <2>4, <2>5, <2>6, <2>7 DEF InterestInv
<1> QED
  BY <1>2, <1>3

LEMMA SwapKeepsInterest ==
  ASSUME TypeOK, InterestInv, SwapPending
  PROVE  InterestInv'
<1>0. "loop" \in Threads /\ SharedType
  BY DEF Threads, TypeOK
<1>1. /\ pc["loop"] = "swap"
      /\ batch' = pending /\ pending' = <<>>
      /\ Goto("loop", "apply")
      /\ UNCHANGED <<channelVars, kernelVars, chan, call, overlapped>>
  BY DEF SwapPending
<1>2. batch = <<>>
  BY <1>1 DEF InterestInv, BatchInv
<1>3. Backlog' = Backlog
  BY <1>0, <1>1, <1>2, BacklogSwapped
<1>4. Moves("loop", "apply") /\ pc'["loop"] = "apply"
  BY <1>0, <1>1, Movers, MovesPc
<1>5. BatchInv' /\ Unwatched'
  BY <1>1, <1>4 DEF BatchInv, InterestInv, Unwatched, kernelVars
<1>6. ASSUME NEW d \in Channels PROVE Settles(d)'
  <2>1. KeepsData(d)
    BY <1>1, <1>3 DEF KeepsData, Posted, OnceIn, channelVars, kernelVars
  <2> QED
    BY <1>0, <1>1, <1>4, <2>1, Elsewhere DEF InterestInv, Busy, BusyPCs
<1> QED
  BY <1>5, <1>6 DEF InterestInv

LEMMA ApplyKeepsInterest ==
  ASSUME TypeOK, InterestInv, ApplyNext
  PROVE  InterestInv'
<1>0. "loop" \in Threads /\ SharedType
  BY DEF Threads, TypeOK
<1>1. CASE batch = <<>>
  <2>1. /\ pc["loop"] = "apply" /\ Rest("loop")
        /\ UNCHANGED <<pending, batch, channelVars, kernelVars, overlapped>>
    BY <1>1 DEF ApplyNext, historyVars
  <2>2. Moves("loop", Home("loop")) /\ Home("loop") \notin BusyPCs
    BY <1>0, <2>1, Movers
  <2> QED
    BY <1>0, <1>1, <2>1, <2>2, QuietMove DEF BusyPCs
<1>2. CASE batch # <<>>
  <2>0. PICK c \in Channels : c = Head(batch)
    BY <1>0, <1>2 DEF SharedType
  <2> DEFINE k == [call["loop"] EXCEPT !.ret = "apply"]
  <2>1. /\ pc["loop"] = "apply" /\ Goto("loop", "ctl")
        /\ chan' = [chan EXCEPT !["loop"] = c]
        /\ call' = [call EXCEPT !["loop"] = k]
        /\ batch' = Tail(batch)
        /\ UNCHANGED <<pending, channelVars, kernelVars, overlapped>>
    BY <1>2, <2>0 DEF ApplyNext, historyVars
  <2>2. call'["loop"] = k /\ k.ret = "apply" /\ chan'["loop"] = c
    BY <1>0, <2>1 DEF TypeOK, ThreadType, CallsOf
  <2> HIDE DEF k
  <2>3. Moves("loop", "ctl") /\ pc'["loop"] = "ctl"
    BY <1>0, <2>1, Movers, MovesPc
  <2>4. BatchInv' /\ Unwatched'
    BY <2>1, <2>2, <2>3 DEF BatchInv, InterestInv, Unwatched, kernelVars
  <2>5. /\ Posted(c)
        /\ \A d : d # c => (Posted(d)' <=> Posted(d))
        /\ \A d : OnceIn(Backlog, d) => OnceIn(Backlog', d)
        /\ OnceIn(Backlog, c) => ~Posted(c)'
    <3>1. Backlog \in Seq(Channels) /\ Backlog # <<>> /\ Head(Backlog) = c /\ Backlog' = Tail(Backlog)
      BY <1>0, <1>2, <2>0, <2>1, BacklogType, BacklogShrinks
    <3> QED
      BY <3>1, TailEntries DEF Posted
  <2>6. ASSUME NEW d \in Channels, d # c PROVE Settles(d)'
    <3>1. KeepsData(d)
      BY <2>1, <2>5, <2>6 DEF KeepsData, channelVars, kernelVars
    <3> QED
      BY <1>0, <2>1, <2>2, <2>3, <2>6, <3>1, Elsewhere DEF InterestInv, Busy, BusyPCs
  <2>7. Settles(c)'
    <3> SUFFICES ASSUME live'[c], c \notin overlapped' PROVE Settling(c)'
      BY DEF Settles
    <3>1. Settling(c)
      BY <2>1 DEF InterestInv, Settles, channelVars
    <3>2. /\ \A u \in Threads : ~Busy(u, c)
          /\ ~Posted(c)' /\ OnceIn(Backlog', c)
          /\ Right(c, op[c], events[c])
      BY <2>5, <3>1 DEF Settling
    <3>3. Right(c, op[c], events[c])'
      BY <2>1, <3>2 DEF Right, channelVars, kernelVars
    <3>4. OnItsWay("loop", c)' /\ Busy("loop", c)'
      BY <2>2, <2>3, <3>3 DEF OnItsWay, Busy, BusyPCs
    <3> QED
      BY <1>0, <2>3, <3>2, <3>4, NowBusy
  <2> QED
    BY <2>4, <2>6, <2>7 DEF InterestInv
<1> QED
  BY <1>1, <1>2

LEMMA ChannelStepInterest ==
  ASSUME TypeOK, CallInv, InterestInv, NEW t \in Threads, ChannelStep(t)
  PROVE  InterestInv'
<1>1. CASE ChannelLoad(t)
  BY <1>1, LoadKeepsInterest
<1>2. CASE ChannelStore(t)
  BY <1>2, StoreKeepsInterest
<1>3. CASE Update(t)
  BY <1>3, UpdateKeepsInterest
<1>4. CASE Notify(t)
  <2>1. call[t].ret \notin BusyPCs /\ Moves(t, call[t].ret)
    BY <1>4, Movers DEF Notify, CallInv, ReturnPCs, BusyPCs
  <2> QED
    BY <1>4, <2>1, QuietMove DEF Notify, BusyPCs
<1>5. CASE CloseFd(t)
  BY <1>5, CloseFdKeepsInterest
<1> QED
  BY <1>1, <1>2, <1>3, <1>4, <1>5 DEF ChannelStep

LEMMA ThreadStepInterest ==
  ASSUME TypeOK, CallInv, InterestInv, NEW t \in Threads, ThreadStep(t)
  PROVE  InterestInv'
<1>0. pc[t] \notin RestPCs => chan[t] \in Channels
  BY DEF TypeOK, ThreadType
<1>1. CASE ChannelStep(t)
  BY <1>1, ChannelStepInterest
<1>2. CASE TouchFreed(t)
  BY <1>2, DeathKeepsInterest DEF TouchFreed
<1>3. CASE Leave(t)
  BY <1>3, Movers, QuietMove DEF Leave, loopVars, historyVars, BusyPCs
<1>4. CASE SendPartial(t)
  BY <1>4, Movers, QuietMove DEF SendPartial, loopVars, historyVars, BusyPCs
<1>5. CASE SendFails(t)
  BY <1>0, <1>5, FreeKeepsInterest DEF SendFails, BusyPCs, RestPCs
<1>6. CASE BeginDispatch(t)
  BY <1>6, Movers, QuietMove DEF BeginDispatch, loopVars, historyVars, BusyPCs
<1>7. CASE Dispatch(t)
  BY <1>7, Movers, QuietMove DEF Dispatch, loopVars, historyVars, BusyPCs
<1>8. CASE LinkBuffer(t)
  BY <1>8, Movers, QuietMove DEF LinkBuffer, loopVars, historyVars, BusyPCs
<1>9. CASE Close(t)
  BY <1>0, <1>9, FreeKeepsInterest DEF Close, ClosePCs, BusyPCs, RestPCs
<1>10. CASE CloseDeferred(t)
  <2>1. CASE Rest(t)
    BY <1>10, <2>1, Movers, QuietMove DEF CloseDeferred, ClosePCs, loopVars, historyVars, BusyPCs
  <2>2. CASE UNCHANGED <<pc, chan, call>>
    BY <1>10, <2>2, QuietFrame DEF CloseDeferred, loopVars, historyVars
  <2> QED
    BY <1>10, <2>1, <2>2 DEF CloseDeferred
<1> QED
  BY <1>1, <1>2, <1>3, <1>4, <1>5, <1>6, <1>7, <1>8, <1>9, <1>10 DEF ThreadStep

LEMMA LoopStepInterest ==
  ASSUME TypeOK, CallInv, InterestInv, LoopStep
  PROVE  InterestInv'
<1>0. "loop" \in Threads
  BY DEF Threads
<1>1. CASE LoopSetThread
  BY <1>0, <1>1, Movers, QuietMove DEF LoopSetThread, historyVars, BusyPCs
<1>2. CASE EpollWait
  BY <1>2, QuietFrame DEF EpollWait, historyVars
<1>3. CASE ReadEventfd
  BY <1>0, <1>3, Movers, QuietMove DEF ReadEventfd, historyVars, BusyPCs
<1>4. CASE SwapPending
  BY <1>4, SwapKeepsInterest
<1>5. CASE ApplyNext
  BY <1>5, ApplyKeepsInterest
<1>6. ASSUME NEW c \in Channels, NEW bit \in Bits, Fire(c, bit) PROVE InterestInv'
  <2>1. CASE \E how : Die(how)
    BY <2>1, DeathKeepsInterest
  <2>2. CASE ~\E how : Die(how)
    <3>1. /\ pc["loop"] = "wait"
          /\ chan' = [chan EXCEPT !["loop"] = c]
          /\ Goto("loop", IF bit = "r" THEN "reading" ELSE "writing")
          /\ UNCHANGED <<pending, batch, channelVars, kernelVars, call, overlapped>>
      BY <1>6, <2>2 DEF Fire, historyVars
    <3> QED
      BY <1>0, <3>1, Movers, QuietMove DEF BusyPCs
  <2> QED
    BY <2>1, <2>2
<1>7. CASE WriteAll
  BY <1>0, <1>7, Movers, QuietMove DEF WriteAll, loopVars, historyVars, BusyPCs
<1>8. CASE ModifyCtl
  BY <1>8, CtlKeepsInterest
<1>9. CASE ModifyClear
  BY <1>9, ClearKeepsInterest
<1>10. CASE Written
  BY <1>0, <1>10, DeathKeepsInterest, Movers, QuietMove DEF Written, loopVars, historyVars, BusyPCs
<1> QED
  BY <1>1, <1>2, <1>3, <1>4, <1>5, <1>6, <1>7, <1>8, <1>9, <1>10 DEF LoopStep

LEMMA CallerStepInterest ==
  ASSUME TypeOK, InterestInv, CallerStep
  PROVE  InterestInv'
<1>0. "main" \in Threads /\ "cgi" \in Threads
  BY DEF Threads
<1>1. ASSUME NEW c \in Channels, Accept(c) PROVE InterestInv'
  BY <1>0, <1>1, Movers, QuietMove DEF Accept, loopVars, historyVars, BusyPCs
<1>2. CASE CgiBegin
  BY <1>0, <1>2, Movers, QuietMove DEF CgiBegin, loopVars, historyVars, BusyPCs
<1>3. CASE CgiComplete
  BY <1>0, <1>3, Movers, QuietMove DEF CgiComplete, loopVars, historyVars, BusyPCs
<1> QED
  BY <1>1, <1>2, <1>3 DEF CallerStep

LEMMA InterestStep ==
  ASSUME TypeOK, CallInv, InterestInv, [Next]_vars
  PROVE  InterestInv'
<1>1. CASE UNCHANGED vars
  BY <1>1, QuietFrame DEF vars, loopVars, historyVars
<1>2. CASE Next
  BY <1>2, LoopStepInterest, CallerStepInterest, ThreadStepInterest DEF Next
<1> QED
  BY <1>1, <1>2

LEMMA InterestInit == Init => InterestInv
<1> SUFFICES ASSUME Init PROVE InterestInv
  OBVIOUS
<1>1. batch = <<>> /\ pending = <<>> /\ Backlog = <<>>
  BY DEF Init, Backlog
<1>2. \A c : ~Posted(c) /\ OnceIn(Backlog, c)
  BY <1>1 DEF Posted, OnceIn, Elements
<1>3. \A t \in Threads : pc[t] \notin BusyPCs
  BY DEF Init, BusyPCs
<1>4. ASSUME NEW c \in Channels PROVE Coherent(c)
  BY DEF Init, Coherent
<1>5. Unwatched /\ BatchInv
  BY <1>1 DEF Init, Unwatched, BatchInv
<1> QED
  BY <1>2, <1>3, <1>4, <1>5 DEF InterestInv, Settles, Settling, Busy

LEMMA InterestInvariant == Spec => []InterestInv
<1>1. TypeOK /\ CallInv /\ InterestInv /\ [Next]_vars => InterestInv'
  BY InterestStep
<1> QED
  BY <1>1, InterestInit, TypeCorrect, CallsReturn, PTL DEF Spec

\* The kernel watches what the channel asks for: whatever the threads do between
\* the load of the mask, its store, the push on pendingChannels, the swap of the
\* list and epoll_ctl, the operation chosen for each change was the right one, as
\* long as no two Channel calls on the channel overlapped (eventloop.c).
THEOREM InterestKept == Spec => []InterestCoherent
<1>1. TypeOK /\ InterestInv => InterestCoherent
  <2> SUFFICES ASSUME TypeOK, InterestInv, NEW c \in Channels,
                      Settled(c), c \notin overlapped
               PROVE  Coherent(c)
    BY DEF InterestCoherent, InterestMatches, Coherent
  <2>1. Settling(c)
    BY DEF InterestInv, Settles, Settled
  <2>2. ~Posted(c)
    BY PostedIn DEF TypeOK, Settled
  <2>3. \A t \in Threads : ~Busy(t, c)
    BY DEF Settled, Busy, BusyPCs, InCall
  <2> QED
    BY <2>1, <2>2, <2>3 DEF Settling
<1> QED
  BY <1>1, TypeCorrect, InterestInvariant, PTL

-----------------------------------------------------------------------------
(* Connections that never have a dynamic request.                          *)

OpeningPCs == {"load", "store", "update"}

\* The acceptor's thread is switching reading on for the new connection c.
Opening(c) == chan["main"] = c /\ pc["main"] \in OpeningPCs

\* The loop has not come to see c.
Untouched(c) ==
  chan["loop"] # c /\ ~registered[c] /\ \A bit \in Bits : <<c, bit>> \notin ready

\* The acceptor's thread and the loop's thread take turns on c: the loop sees it only
\* after the one operation of the acceptor's thread has been applied.
Turns(c) ==
  /\ c \notin Elements(cgiQueue) /\ chan["cgi"] # c /\ c \notin overlapped
  /\ c \notin accepted => chan["main"] # c /\ ~Posted(c) /\ Untouched(c)
  /\ Opening(c) => ~Posted(c) /\ Untouched(c)
  /\ Posted(c) => Untouched(c) /\ OnceIn(Backlog, c)

StaticInv == \A c \in Channels : c \notin Elements(handed) => Turns(c)

\* A step puts c nowhere where it was not before.
CalmData(c) ==
  /\ c \in Elements(handed) => c \in Elements(handed')
  /\ c \in Elements(cgiQueue') => c \in Elements(cgiQueue)
  /\ c \in overlapped' => c \in overlapped
  /\ c \in accepted => c \in accepted'
  /\ Posted(c)' => Posted(c)
  /\ OnceIn(Backlog, c) => OnceIn(Backlog', c)
  /\ registered'[c] => registered[c]
  /\ \A bit \in Bits : <<c, bit>> \in ready' => <<c, bit>> \in ready

CalmThreads(c) ==
  /\ \A u \in Threads : chan'[u] = c => chan[u] = c
  /\ Opening(c)' => Opening(c)

LEMMA CalmTurns ==
  ASSUME NEW c \in Channels, StaticInv, CalmData(c), CalmThreads(c), c \notin Elements(handed')
  PROVE  Turns(c)'
<1>1. Turns(c)
  BY DEF StaticInv, CalmData
<1>2. Untouched(c) => Untouched(c)'
  BY DEF CalmData, CalmThreads, Untouched, Threads
<1> QED
  BY <1>1, <1>2 DEF CalmData, CalmThreads, Turns, Threads

LEMMA SameCalm ==
  ASSUME NEW c,
         UNCHANGED <<pending, batch, handed, cgiQueue, overlapped, accepted, registered, ready>>
  PROVE  CalmData(c)
  BY SameBacklog DEF CalmData

\* A thread that takes up no other channel.
LEMMA CalmMove ==
  ASSUME TypeOK, NEW c \in Channels, NEW t \in Threads, NEW l, Moves(t, l),
         chan'[t] = c => chan[t] = c,
         t = "main" => pc["main"] \in OpeningPCs \/ l \notin OpeningPCs
  PROVE  CalmThreads(c)
<1>1. \A u \in Threads : chan'[u] = c => chan[u] = c
  BY MovesPc
<1>2. Opening(c)' => Opening(c)
  <2>1. "main" \in Threads
    BY DEF Threads
  <2> QED
    BY <1>1, <2>1, MovesPc DEF Opening
<1> QED
  BY <1>1, <1>2 DEF CalmThreads

\* What the helpers leave in the hands of the thread.
LEMMA Holds ==
  ASSUME TypeOK, NEW t \in Threads, NEW c \in Channels
  PROVE  /\ (Return(t) \/ Rest(t)) /\ chan'[t] = c => chan[t] = c
         /\ \A bit, on, ret : Call(t, chan[t], bit, on, ret) /\ chan'[t] = c => chan[t] = c
  BY NoChannelAssumption DEF TypeOK, ThreadType, Return, Rest, Call

StaticSame == <<pending, batch, handed, cgiQueue, overlapped, accepted, registered, ready>>

\* A step that moves one thread and touches none of the data.
LEMMA CalmStep ==
  ASSUME TypeOK, StaticInv, UNCHANGED StaticSame,
         NEW t \in Threads, NEW l, Moves(t, l),
         \A c \in Channels : chan'[t] = c => chan[t] = c,
         t = "main" => pc["main"] \in OpeningPCs \/ l \notin OpeningPCs
  PROVE  StaticInv'
<1> SUFFICES ASSUME NEW c \in Channels, c \notin Elements(handed') PROVE Turns(c)'
  BY DEF StaticInv
<1>1. CalmData(c)
  BY SameCalm DEF StaticSame
<1>2. CalmThreads(c)
  BY CalmMove
<1> QED
  BY <1>1, <1>2, CalmTurns

LEMMA StaticFrame ==
  ASSUME StaticInv, UNCHANGED <<StaticSame, pc, chan>>
  PROVE  StaticInv'
<1> SUFFICES ASSUME NEW c \in Channels, c \notin Elements(handed') PROVE Turns(c)'
  BY DEF StaticInv
<1>1. CalmData(c)
  BY SameCalm DEF StaticSame
<1>2. CalmThreads(c)
  BY DEF CalmThreads, Opening
<1> QED
  BY <1>1, <1>2, CalmTurns

LEMMA DeathKeepsTurns == ASSUME StaticInv, NEW how, Die(how) PROVE StaticInv'
  BY StaticFrame DEF Die, StaticSame, loopVars, kernelVars, callerVars, historyVars

\* A call begins on a channel that never had a dynamic request: nothing overlaps it.
LEMMA TakesTurn ==
  ASSUME TypeOK, CallInv, StaticInv, NEW t \in Threads, NEW c \in Channels,
         c \notin Elements(handed), chan[t] = c,
         pc[t] \in {"load", "reading", "writing", "serve", "tail"}, NoteOverlap(t, c)
  PROVE  overlapped' = overlapped
<1>1. Turns(c)
  BY DEF StaticInv
<1>2. "main" \in Threads /\ "loop" \in Threads /\ Threads = {"loop", "main", "cgi"}
  BY DEF Threads
<1>3. t = "main" => Opening(c)
  BY DEF CallInv, Opening, OpeningPCs
<1>4. ~Posted(c)
  BY <1>1, <1>2, <1>3 DEF Turns, Untouched
<1>5. \A u \in Threads \ {t} : chan[u] = c => pc[u] \notin InCall
  <2>1. CASE t = "main"
    BY <1>1, <1>2, <1>3, <2>1 DEF Turns, Untouched
  <2>2. CASE t = "loop"
    <3>1. ~Opening(c)
      BY <1>1, <2>2 DEF Turns, Untouched
    <3> QED
      BY <1>1, <1>2, <2>2, <3>1 DEF Turns, Opening, OpeningPCs, CallInv, InCall
  <2>3. CASE t = "cgi"
    BY <1>1, <2>3 DEF Turns
  <2> QED
    BY <1>2, <2>1, <2>2, <2>3
<1> QED
  BY <1>4, <1>5, PostedIn DEF NoteOverlap, Unsettled, TypeOK

\* The steps that begin a call and move the thread to l.
LEMMA BeginKeepsTurns ==
  ASSUME TypeOK, CallInv, StaticInv, NEW t \in Threads, NEW c \in Channels, chan[t] = c,
         pc[t] \in {"load", "reading", "writing", "serve", "tail"}, NoteOverlap(t, c),
         UNCHANGED <<pending, batch, handed, cgiQueue, accepted, registered, ready>>,
         chan' = chan, NEW l, Moves(t, l),
         t = "main" => pc["main"] \in OpeningPCs
  PROVE  StaticInv'
<1> SUFFICES ASSUME NEW d \in Channels, d \notin Elements(handed') PROVE Turns(d)'
  BY DEF StaticInv
<1>1. d \in overlapped' => d \in overlapped
  BY TakesTurn DEF NoteOverlap
<1>2. CalmData(d)
  BY <1>1, SameBacklog DEF CalmData
<1>3. CalmThreads(d)
  BY CalmMove
<1> QED
  BY <1>2, <1>3, CalmTurns

LEMMA ChannelStepTurns ==
  ASSUME TypeOK, CallInv, StaticInv, NEW t \in Threads, ChannelStep(t)
  PROVE  StaticInv'
<1>0. /\ pc[t] \notin RestPCs => chan[t] \in Channels
      /\ \A l : t = "main" /\ pc[t] = l => l \in {"idle", "load", "store", "update", "notify"}
  BY DEF TypeOK, ThreadType, CallInv
<1>1. CASE ChannelLoad(t)
  <2>1. CASE \E how : Die(how)
    BY <2>1, DeathKeepsTurns
  <2>2. CASE ~\E how : Die(how)
    <3>1. PICK k : /\ pc[t] = "load" /\ NoteOverlap(t, chan[t])
                   /\ call' = [call EXCEPT ![t] = k]
                   /\ Goto(t, "store")
                   /\ UNCHANGED <<loopVars, kernelVars, chan, callerVars>>
      BY <1>1, <2>2 DEF ChannelLoad
    <3>2. chan[t] \in Channels
      BY <1>0, <3>1 DEF RestPCs
    <3>3. Moves(t, "store")
      BY <3>1, Movers
    <3> QED
      BY <3>1, <3>2, <3>3, BeginKeepsTurns DEF loopVars, kernelVars, callerVars, OpeningPCs
  <2> QED
    BY <2>1, <2>2
<1>2. CASE ChannelStore(t)
  <2>1. CASE live[chan[t]]
    <3>1. pc[t] = "store" /\ Moves(t, "update")
      BY <1>2, <2>1, Movers DEF ChannelStore
    <3> QED
      BY <1>2, <2>1, <3>1, CalmStep
         DEF ChannelStore, StaticSame, loopVars, kernelVars, callerVars, historyVars, OpeningPCs
  <2> QED
    BY <1>2, <2>1, DeathKeepsTurns DEF ChannelStore
<1>3. CASE Update(t)
  <2>1. CASE ~live[chan[t]]
    BY <1>3, <2>1, DeathKeepsTurns DEF Update
  <2>2. CASE live[chan[t]] /\ t = "loop"
    <3>1. Moves(t, "ctl")
      BY <1>3, <2>2, Movers DEF Update
    <3> QED
      BY <1>3, <2>2, <3>1, CalmStep
         DEF Update, StaticSame, kernelVars, callerVars, historyVars
  <2>3. CASE live[chan[t]] /\ t # "loop"
    <3>1. /\ pc[t] = "update" /\ Goto(t, "notify")
          /\ pending' = Append(pending, chan[t])
          /\ UNCHANGED <<batch, handed, cgiQueue, accepted, registered, ready, overlapped,
                         chan, call>>
      BY <1>3, <2>3 DEF Update, kernelVars, callerVars, historyVars
    <3>2. PICK x \in Channels : x = chan[t]
      BY <1>0, <3>1 DEF RestPCs
    <3>3. Moves(t, "notify") /\ pc'[t] = "notify"
      BY <3>1, Movers, MovesPc
    <3>4. Backlog' = Append(Backlog, x) /\ Backlog \in Seq(Channels)
      BY <3>1, <3>2, BacklogType, BacklogGrows DEF TypeOK
    <3>5. Elements(Backlog') = Elements(Backlog) \cup {x}
      BY <3>4, AppendEntries
    <3> SUFFICES ASSUME NEW c \in Channels, c \notin Elements(handed') PROVE Turns(c)'
      BY DEF StaticInv
    <3>6. CalmThreads(c)
      BY <3>1, <3>3, CalmMove DEF OpeningPCs
    <3>7. CASE c # x
      <4>1. CalmData(c)
        BY <3>1, <3>4, <3>5, <3>7, AppendEntries DEF CalmData, Posted
      <4> QED
        BY <3>6, <4>1, CalmTurns
    <3>8. CASE c = x
      <4>1. Turns(c)
        BY <3>1 DEF StaticInv
      <4>2. t = "main"
        BY <2>3, <3>2, <3>8, <4>1 DEF Turns, Threads
      <4>3. Opening(c)
        BY <3>1, <3>2, <3>8, <4>2 DEF Opening, OpeningPCs
      <4>4. Untouched(c) /\ ~Posted(c) /\ c \in accepted
        BY <4>1, <4>3 DEF Turns, Opening
      <4>5. OnceIn(Backlog', c)
        BY <3>4, <3>8, <4>4, AppendEntries DEF Posted
      <4>6. Untouched(c)' /\ ~Opening(c)'
        BY <3>1, <3>3, <4>2, <4>4 DEF Untouched, Opening, OpeningPCs
      <4> QED
        BY <3>1, <4>1, <4>4, <4>5, <4>6 DEF Turns
    <3> QED
      BY <3>7, <3>8
  <2> QED
    BY <2>1, <2>2, <2>3
<1>4. CASE Notify(t)
  <2>1. Moves(t, call[t].ret) /\ (t = "main" => call[t].ret = "idle")
    BY <1>4, Movers DEF Notify, CallInv
  <2>2. \A c \in Channels : chan'[t] = c => chan[t] = c
    BY <1>4, Holds DEF Notify
  <2> QED
    BY <1>4, <2>1, <2>2, CalmStep
       DEF Notify, StaticSame, kernelVars, callerVars, OpeningPCs
<1>5. CASE CloseFd(t)
  <2>0. t # "main"
    BY <1>0, <1>5 DEF CloseFd
  <2>1. CASE ~live[chan[t]]
    BY <1>5, <2>1, DeathKeepsTurns DEF CloseFd
  <2>2. CASE live[chan[t]]
    <3>1. PICK l : Moves(t, l) /\ \A c \in Channels : chan'[t] = c => chan[t] = c
      <4>1. CASE call[t].back = Home(t)
        BY <1>5, <2>2, <4>1, Movers, Holds DEF CloseFd
      <4>2. CASE call[t].back # Home(t)
        BY <1>5, <2>2, <4>2, Movers DEF CloseFd
      <4> QED
        BY <4>1, <4>2
    <3>2. /\ registered' = [registered EXCEPT ![chan[t]] = FALSE]
          /\ UNCHANGED <<pending, batch, handed, cgiQueue, overlapped, accepted, ready>>
      BY <1>5, <2>2 DEF CloseFd, loopVars, historyVars
    <3> SUFFICES ASSUME NEW c \in Channels, c \notin Elements(handed') PROVE Turns(c)'
      BY DEF StaticInv
    <3>3. CalmThreads(c)
      BY <2>0, <3>1, CalmMove
    <3>4. CalmData(c)
      BY <3>2, SameBacklog DEF CalmData, TypeOK, SharedType
    <3> QED
      BY <3>3, <3>4, CalmTurns
  <2> QED
    BY <2>1, <2>2
<1> QED
  BY <1>1, <1>2, <1>3, <1>4, <1>5 DEF ChannelStep

LEMMA FreeKeepsTurns ==
  ASSUME TypeOK, CallInv, StaticInv, NEW t \in Threads, t # "main",
         pc[t] \in ClosePCs, NEW back, ChannelFree(t, chan[t], back)
  PROVE  StaticInv'
<1>1. chan[t] \in Channels
  BY DEF ClosePCs, TypeOK, ThreadType, RestPCs
<1>2. Moves(t, "update")
  BY Movers
<1> QED
  BY <1>1, <1>2, BeginKeepsTurns DEF ClosePCs, ChannelFree, loopVars, kernelVars, callerVars

LEMMA ThreadStepTurns ==
  ASSUME TypeOK, CallInv, StaticInv, NEW t \in Threads, ThreadStep(t)
  PROVE  StaticInv'
<1>0. t = "main" => pc[t] \in {"idle", "load", "store", "update", "notify"}
  BY DEF CallInv
<1>1. CASE ChannelStep(t)
  BY <1>1, ChannelStepTurns
<1>2. CASE TouchFreed(t)
  BY <1>2, DeathKeepsTurns DEF TouchFreed
<1>3. CASE Leave(t)
  BY <1>0, <1>3, Movers, Holds, CalmStep
     DEF Leave, StaticSame, loopVars, kernelVars, callerVars, historyVars
<1>4. CASE SendPartial(t)
  BY <1>0, <1>4, Movers, Holds, CalmStep
     DEF SendPartial, StaticSame, loopVars, kernelVars, callerVars, historyVars
<1>5. CASE SendFails(t)
  BY <1>0, <1>5, FreeKeepsTurns DEF SendFails, ClosePCs
<1>6. CASE BeginDispatch(t)
  BY <1>0, <1>6, Movers, Holds, CalmStep
     DEF BeginDispatch, StaticSame, loopVars, kernelVars, callerVars, historyVars
<1>7. CASE Dispatch(t)
  <2>1. /\ pc[t] = "dispatch" /\ Goto(t, "pushed")
        /\ cgiQueue' = Append(cgiQueue, chan[t])
        /\ handed' = Append(handed, chan[t])
        /\ UNCHANGED <<pending, batch, overlapped, accepted, registered, ready, chan, call>>
    BY <1>7 DEF Dispatch, loopVars, kernelVars, historyVars
  <2>2. chan[t] \in Channels /\ cgiQueue \in Seq(Channels) /\ handed \in Seq(Channels)
    BY <2>1 DEF TypeOK, SharedType, ThreadType, RestPCs
  <2>3. /\ Elements(cgiQueue') = Elements(cgiQueue) \cup {chan[t]}
        /\ Elements(handed') = Elements(handed) \cup {chan[t]}
    BY <2>1, <2>2, AppendEntries
  <2> SUFFICES ASSUME NEW c \in Channels, c \notin Elements(handed') PROVE Turns(c)'
    BY DEF StaticInv
  <2>4. CalmThreads(c)
    BY <1>0, <2>1, Movers, CalmMove
  <2>5. CalmData(c)
    BY <2>1, <2>3, SameBacklog DEF CalmData
  <2> QED
    BY <2>4, <2>5, CalmTurns
<1>8. CASE LinkBuffer(t)
  BY <1>0, <1>8, Movers, Holds, CalmStep
     DEF LinkBuffer, StaticSame, loopVars, kernelVars, historyVars
<1>9. CASE Close(t)
  BY <1>0, <1>9, FreeKeepsTurns DEF Close, ClosePCs
<1>10. CASE CloseDeferred(t)
  <2>1. UNCHANGED StaticSame
    BY <1>10 DEF CloseDeferred, StaticSame, loopVars, kernelVars, historyVars
  <2>2. CASE Rest(t)
    BY <1>0, <1>10, <2>1, <2>2, Movers, Holds, CalmStep DEF CloseDeferred, ClosePCs
  <2>3. CASE UNCHANGED <<pc, chan, call>>
    BY <2>1, <2>3, StaticFrame
  <2> QED
    BY <1>10, <2>2, <2>3 DEF CloseDeferred
<1> QED
  BY <1>1, <1>2, <1>3, <1>4, <1>5, <1>6, <1>7, <1>8, <1>9, <1>10 DEF ThreadStep

LEMMA LoopStepTurns ==
  ASSUME TypeOK, CallInv, BatchInv, StaticInv, LoopStep
  PROVE  StaticInv'
<1>0. "loop" \in Threads /\ "loop" # "main" /\ SharedType
  BY DEF Threads, TypeOK
<1>1. CASE LoopSetThread
  BY <1>0, <1>1, Movers, CalmStep
     DEF LoopSetThread, StaticSame, kernelVars, callerVars, historyVars
<1>2. CASE EpollWait
  <2>1. /\ ready' \subseteq Reportable
        /\ UNCHANGED <<pending, batch, handed, cgiQueue, overlapped, accepted, registered, pc, chan>>
    BY <1>2 DEF EpollWait, kernelVars, callerVars, historyVars
  <2> SUFFICES ASSUME NEW c \in Channels, c \notin Elements(handed') PROVE Turns(c)'
    BY DEF StaticInv
  <2>2. Turns(c) /\ Opening(c)' = Opening(c) /\ Posted(c)' = Posted(c)
        /\ OnceIn(Backlog, c)' = OnceIn(Backlog, c)
    BY <2>1, SameBacklog DEF StaticInv, Opening
  <2>3. Untouched(c) => Untouched(c)'
    <3>1. ASSUME NEW bit \in Bits, <<c, bit>> \in Reportable PROVE registered[c]
      BY <3>1, NoChannelAssumption DEF Reportable, EventFd
    <3> QED
      BY <2>1, <3>1 DEF Untouched
  <2> QED
    BY <2>1, <2>2, <2>3 DEF Turns
<1>3. CASE ReadEventfd
  <2> SUFFICES ASSUME NEW c \in Channels, c \notin Elements(handed') PROVE Turns(c)'
    BY DEF StaticInv
  <2>1. CalmThreads(c)
    BY <1>0, <1>3, Movers, CalmMove DEF ReadEventfd
  <2>2. CalmData(c)
    BY <1>3, SameBacklog DEF ReadEventfd, CalmData, kernelVars, callerVars, historyVars
  <2> QED
    BY <2>1, <2>2, CalmTurns
<1>4. CASE SwapPending
  <2>1. batch' = pending /\ pending' = <<>> /\ Goto("loop", "apply")
        /\ UNCHANGED <<handed, cgiQueue, overlapped, accepted, registered, ready, chan, call>>
    BY <1>4 DEF SwapPending, kernelVars, callerVars
  <2> SUFFICES ASSUME NEW c \in Channels, c \notin Elements(handed') PROVE Turns(c)'
    BY DEF StaticInv
  <2>2. CalmThreads(c)
    BY <1>0, <2>1, Movers, CalmMove
  <2>3. batch = <<>>
    BY <1>4 DEF SwapPending, BatchInv
  <2>4. CalmData(c)
    BY <1>0, <2>1, <2>3, BacklogSwapped DEF CalmData, Posted
  <2> QED
    BY <2>2, <2>4, CalmTurns
<1>5. CASE ApplyNext
  <2>1. CASE batch = <<>>
    BY <1>0, <1>5, <2>1, Movers, Holds, CalmStep
       DEF ApplyNext, StaticSame, kernelVars, callerVars, historyVars
  <2>2. CASE batch # <<>>
    <3> DEFINE x == Head(batch)
    <3>1. /\ Goto("loop", "ctl")
          /\ chan' = [chan EXCEPT !["loop"] = x]
          /\ batch' = Tail(batch)
          /\ UNCHANGED <<pending, handed, cgiQueue, overlapped, accepted, registered, ready>>
      BY <1>5, <2>2 DEF ApplyNext, kernelVars, callerVars, historyVars
    <3>2. Moves("loop", "ctl") /\ chan'["loop"] = x
      BY <1>0, <1>5, <2>2, Movers DEF ApplyNext, TypeOK, ThreadType
    <3>3. /\ Backlog \in Seq(Channels) /\ Backlog # <<>> /\ Head(Backlog) = x
          /\ Backlog' = Tail(Backlog)
      BY <1>0, <2>2, <3>1, BacklogType, BacklogShrinks
    <3> HIDE DEF x
    <3> SUFFICES ASSUME NEW c \in Channels, c \notin Elements(handed') PROVE Turns(c)'
      BY DEF StaticInv
    <3>4. CalmData(c)
      BY <3>1, <3>3, TailEntries DEF CalmData, Posted
    <3>5. CASE c # x
      <4>1. CalmThreads(c)
        BY <1>0, <3>2, <3>5, CalmMove
      <4> QED
        BY <3>4, <4>1, CalmTurns
    <3>6. CASE c = x
      <4>1. Turns(c) /\ Posted(c)
        BY <3>1, <3>3, <3>6, TailEntries DEF StaticInv, Posted
      <4>2. ~Posted(c)'
        BY <3>3, <3>6, <4>1, TailEntries DEF Turns, Posted
      <4>3. ~Opening(c)' /\ chan'["cgi"] # c
        BY <1>0, <3>2, <4>1, MovesPc DEF Turns, Opening, Threads
      <4> QED
        BY <3>1, <4>1, <4>2, <4>3 DEF Turns
    <3> QED
      BY <3>5, <3>6
  <2> QED
    BY <2>1, <2>2
<1>6. ASSUME NEW d \in Channels, NEW bit \in Bits, Fire(d, bit) PROVE StaticInv'
  <2>1. CASE \E how : Die(how)
    BY <2>1, DeathKeepsTurns
  <2>2. CASE ~\E how : Die(how)
    <3> DEFINE l == IF bit = "r" THEN "reading" ELSE "writing"
    <3>1. /\ <<d, bit>> \in ready
          /\ ready' = ready \ {<<d, bit>>}
          /\ chan' = [chan EXCEPT !["loop"] = d]
          /\ Goto("loop", l)
          /\ UNCHANGED <<pending, batch, handed, cgiQueue, overlapped, accepted, registered, call>>
      BY <1>6, <2>2 DEF Fire, kernelVars, callerVars, historyVars
    <3>2. Moves("loop", l) /\ chan'["loop"] = d
      BY <1>0, <3>1, Movers DEF TypeOK, ThreadType
    <3> SUFFICES ASSUME NEW c \in Channels, c \notin Elements(handed') PROVE Turns(c)'
      BY DEF StaticInv
    <3>3. CalmData(c)
      BY <3>1, SameBacklog DEF CalmData
    <3>4. CASE c # d
      <4>1. CalmThreads(c)
        BY <1>0, <3>2, <3>4, CalmMove
      <4> QED
        BY <3>3, <4>1, CalmTurns
    <3>5. CASE c = d
      <4>1. Turns(c) /\ ~Untouched(c)
        BY <3>1, <3>5 DEF StaticInv, Untouched
      <4>2. ~Opening(c)' /\ chan'["cgi"] # c
        BY <1>0, <3>2, <4>1, MovesPc DEF Turns, Opening, Threads
      <4>3. ~Posted(c)'
        BY <3>3, <4>1 DEF CalmData, Turns
      <4> QED
        BY <3>1, <4>1, <4>2, <4>3 DEF Turns
    <3> QED
      BY <3>4, <3>5
  <2> QED
    BY <2>1, <2>2
<1>7. CASE WriteAll
  BY <1>0, <1>7, Movers, Holds, CalmStep
     DEF WriteAll, StaticSame, loopVars, kernelVars, callerVars, historyVars
<1>8. CASE ModifyCtl
  <2>1. CASE ~live[chan["loop"]]
    BY <1>8, <2>1, DeathKeepsTurns DEF ModifyCtl
  <2>2. CASE live[chan["loop"]]
    <3>1. /\ Goto("loop", "clear")
          /\ EpollCtl(chan["loop"], op[chan["loop"]], events[chan["loop"]])
          /\ UNCHANGED <<pending, batch, handed, cgiQueue, overlapped, accepted, ready, chan, call>>
      BY <1>8, <2>2 DEF ModifyCtl, loopVars, callerVars, historyVars
    <3>2. Moves("loop", "clear")
      BY <1>0, <3>1, Movers
    <3> SUFFICES ASSUME NEW c \in Channels, c \notin Elements(handed') PROVE Turns(c)'
      BY DEF StaticInv
    <3>3. CalmThreads(c)
      BY <1>0, <3>1, <3>2, CalmMove
    <3>4. CASE c # chan["loop"]
      <4>1. registered'[c] = registered[c]
        BY <1>0, <3>1, <3>4 DEF EpollCtl, kernelVars, SharedType
      <4>2. CalmData(c)
        BY <3>1, <4>1, SameBacklog DEF CalmData
      <4> QED
        BY <3>3, <4>2, CalmTurns
    <3>5. CASE c = chan["loop"]
      <4>1. Turns(c) /\ ~Untouched(c)
        BY <3>1, <3>5 DEF StaticInv, Untouched
      <4>2. ~Opening(c)' /\ chan'["cgi"] # c
        BY <3>1, <3>3, <4>1 DEF Turns, CalmThreads
      <4>3. ~Posted(c)'
        BY <3>1, <4>1, SameBacklog DEF Turns
      <4> QED
        BY <3>1, <4>1, <4>2, <4>3 DEF Turns
    <3> QED
      BY <3>4, <3>5
  <2> QED
    BY <2>1, <2>2
<1>9. CASE ModifyClear
  <2>1. CASE ~live[chan["loop"]]
    BY <1>9, <2>1, DeathKeepsTurns DEF ModifyClear
  <2>2. CASE live[chan["loop"]]
    BY <1>0, <1>9, <2>2, Movers, Holds, CalmStep
       DEF ModifyClear, StaticSame, loopVars, kernelVars, callerVars, historyVars
  <2> QED
    BY <2>1, <2>2
<1>10. CASE Written
  BY <1>0, <1>10, DeathKeepsTurns, Movers, Holds, CalmStep
     DEF Written, StaticSame, loopVars, kernelVars, callerVars, historyVars
<1> QED
  BY <1>1, <1>2, <1>3, <1>4, <1>5, <1>6, <1>7, <1>8, <1>9, <1>10 DEF LoopStep

LEMMA CallerStepTurns ==
  ASSUME TypeOK, CallInv, StaticInv, CallerStep
  PROVE  StaticInv'
<1>0. "main" \in Threads /\ "cgi" \in Threads /\ "loop" \in Threads
  BY DEF Threads
<1>1. ASSUME NEW d \in Channels, Accept(d) PROVE StaticInv'
  <2>1. /\ pc["main"] = "idle" /\ d \notin accepted
        /\ accepted' = accepted \cup {d}
        /\ Call("main", d, "r", TRUE, "idle")
        /\ UNCHANGED <<pending, batch, handed, cgiQueue, overlapped, registered, ready>>
    BY <1>1 DEF Accept, loopVars, kernelVars, historyVars
  <2>2. Moves("main", "load") /\ chan'["main"] = d /\ pc'["main"] = "load"
    <3>1. Moves("main", "load")
      BY <1>0, <2>1, Movers
    <3> QED
      BY <1>0, <2>1, <3>1, MovesPc DEF Call, TypeOK, ThreadType
  <2> SUFFICES ASSUME NEW c \in Channels, c \notin Elements(handed') PROVE Turns(c)'
    BY DEF StaticInv
  <2>3. Turns(c)
    BY <2>1 DEF StaticInv
  <2>4. chan'["loop"] = chan["loop"] /\ chan'["cgi"] = chan["cgi"]
    BY <1>0, <2>2, MovesPc
  <2>5. (Posted(c)' <=> Posted(c)) /\ (OnceIn(Backlog, c)' <=> OnceIn(Backlog, c))
    BY <2>1, SameBacklog
  <2>6. Untouched(c) => Untouched(c)'
    BY <2>1, <2>4 DEF Untouched
  <2>7. CASE c = d
    BY <2>1, <2>3, <2>4, <2>5, <2>6, <2>7 DEF Turns
  <2>8. CASE c # d
    BY <2>1, <2>2, <2>3, <2>4, <2>5, <2>6, <2>8 DEF Turns, Opening
  <2> QED
    BY <2>7, <2>8
<1>2. CASE CgiBegin
  <2>1. /\ cgiQueue # <<>> /\ cgiQueue' = Tail(cgiQueue)
        /\ chan' = [chan EXCEPT !["cgi"] = Head(cgiQueue)]
        /\ Goto("cgi", "serve")
        /\ UNCHANGED <<pending, batch, handed, overlapped, accepted, registered, ready, call>>
    BY <1>2 DEF CgiBegin, loopVars, kernelVars, historyVars
  <2>2. Moves("cgi", "serve") /\ chan'["cgi"] = Head(cgiQueue)
    BY <1>0, <2>1, Movers DEF TypeOK, ThreadType
  <2>3. Elements(cgiQueue) = Elements(cgiQueue') \cup {Head(cgiQueue)}
    BY <2>1, TailEntries DEF TypeOK, SharedType
  <2> SUFFICES ASSUME NEW c \in Channels, c \notin Elements(handed') PROVE Turns(c)'
    BY DEF StaticInv
  <2>4. c # Head(cgiQueue)
    BY <2>1, <2>3 DEF StaticInv, Turns
  <2>5. CalmThreads(c)
    BY <1>0, <2>2, <2>4, CalmMove
  <2>6. CalmData(c)
    BY <2>1, <2>3, SameBacklog DEF CalmData
  <2> QED
    BY <2>5, <2>6, CalmTurns
<1>3. CASE CgiComplete
  BY <1>0, <1>3, Movers, Holds, CalmStep
     DEF CgiComplete, StaticSame, loopVars, kernelVars, callerVars, historyVars
<1> QED
  BY <1>1, <1>2, <1>3 DEF CallerStep

LEMMA TurnsTaken == Spec => []StaticInv
<1>1. Init => StaticInv
  <2> SUFFICES ASSUME Init, NEW c \in Channels PROVE Turns(c)
    BY DEF StaticInv
  <2>1. ~Posted(c)
    BY DEF Init, Posted, Backlog, Elements
  <2>2. c \notin Elements(cgiQueue)
    BY DEF Init, Elements
  <2>3. \A t \in Threads : chan[t] # c
    BY NoChannelAssumption DEF Init
  <2> QED
    BY <2>1, <2>2, <2>3 DEF Init, Turns, Untouched, Opening, Threads
<1>2. InterestInv => BatchInv
  BY DEF InterestInv
<1>3. TypeOK /\ CallInv /\ BatchInv /\ StaticInv /\ [Next]_vars => StaticInv'
  <2> SUFFICES ASSUME TypeOK, CallInv, BatchInv, StaticInv, [Next]_vars PROVE StaticInv'
    OBVIOUS
  <2>1. CASE UNCHANGED vars
    BY <2>1, StaticFrame
       DEF vars, StaticSame, loopVars, kernelVars, callerVars, historyVars
  <2>2. CASE Next
    BY <2>2, LoopStepTurns, CallerStepTurns, ThreadStepTurns DEF Next
  <2> QED
    BY <2>1, <2>2
<1> QED
  BY <1>1, <1>2, <1>3, TypeCorrect, CallsReturn, InterestInvariant, PTL DEF Spec

\* A connection without a dynamic request needs no lock: although the acceptor's
\* thread switches its reading on and the loop's thread does everything after, no
\* two Channel calls on it overlap (tcpconn.c, eventloop.c).
THEOREM StaticSerial == Spec => []StaticCallsSerial
<1>1. StaticInv => StaticCallsSerial
  BY DEF StaticInv, Turns, StaticCallsSerial
<1> QED
  BY <1>1, TurnsTaken, PTL

\* Nothing is excepted for a connection without a dynamic request: once no call on
\* it is under way and no operation waits, the kernel watches its descriptor for
\* exactly what the channel asks for (eventloop.c).
THEOREM StaticInterest == Spec => []StaticCoherent
<1>1. InterestCoherent /\ StaticCallsSerial => StaticCoherent
  BY DEF InterestCoherent, StaticCallsSerial, StaticCoherent
<1> QED
  BY <1>1, InterestKept, StaticSerial, PTL

-----------------------------------------------------------------------------
(* Runs without a dynamic request.                                         *)

Static == handed = <<>>

\* The mask a call computes.
Masked(f, old) == IF f.on THEN old \cup {f.bit} ELSE old \ {f.bit}

\* A mask the loop's call on c may leave: reading stays on where the loop goes on with
\* c or waits for it, and a report of room that Loop still has to handle stays valid.
Good(c, ev) ==
  /\ call["loop"].ret \in {"reading", "written", "wait", "apply"} => "r" \in ev
  /\ call["loop"].ret = "written" => "w" \notin ev
  /\ <<c, "w">> \in ready => "w" \in ev

HeldPCs == {"reading", "writing", "written", "dispatch", "apply", "close", "load"} \cup BusyPCs

\* The loop's call frees c, and the handler that goes on behind it is one whose send
\* was refused.
Frees(c) ==
  /\ events[c] = {}
  /\ call["loop"].back = "reading" => c \in refused
  /\ call["loop"].back \in {"wait", "reading"}

\* What holds of the channel the loop has in hand.
Held(c) ==
  /\ pc["loop"] \in HeldPCs
  /\ live[c] /\ <<c, "r">> \notin ready
  /\ pc["loop"] \in {"reading", "writing", "written", "apply"} => "r" \in events[c]
  /\ pc["loop"] = "writing" => "w" \in events[c] /\ <<c, "w">> \notin ready
  /\ pc["loop"] = "written" => "w" \notin events[c]
  /\ pc["loop"] = "close" => Frees(c)
  /\ pc["loop"] = "load" =>
       /\ (call["loop"].bit \in events[c]) # call["loop"].on
       /\ call["loop"].ret \in {"reading", "written", "dispatch"}
       /\ Good(c, Masked(call["loop"], events[c]))
  /\ pc["loop"] = "store" => call["loop"].ret # "close" /\ Good(c, call["loop"].ev)
  /\ pc["loop"] \in {"update", "ctl", "clear"} =>
       /\ Good(c, events[c])
       /\ call["loop"].ret = "close" => Frees(c)

\* The read handler goes on with c, which its refused send has freed.
Refused(c) ==
  /\ pc["loop"] = "reading" /\ c \in refused
  /\ ~live[c] /\ ~registered[c] /\ \A bit \in Bits : <<c, bit>> \notin ready

\* What holds of the channel the acceptor's thread switches on.
Begins(c) ==
  /\ pc["main"] = "load" => events[c] = {} /\ call["main"].on /\ call["main"].bit = "r"
  /\ pc["main"] = "store" => "r" \in call["main"].ev
  /\ pc["main"] = "update" => "r" \in events[c]

\* Reading is on wherever the kernel or the backlog will bring the channel up, and
\* every report that Loop still has to handle is one that its handler expects.
SafeFor(c) ==
  /\ c \notin accepted => live[c] /\ events[c] = {}
  /\ Opening(c) => live[c] /\ Begins(c)
  /\ Posted(c) => live[c] /\ "r" \in events[c]
  /\ chan["loop"] = c => Held(c) \/ Refused(c)
  /\ registered[c] /\ chan["loop"] # c => live[c] /\ "r" \in events[c]
  /\ \A bit \in Bits : <<c, bit>> \in ready =>
       live[c] /\ bit \in events[c] /\ (chan["loop"] # c => "r" \in events[c])

AllSafe == fate = "run" /\ \A c \in Channels : SafeFor(c)

\* The process ended in that handler.
EndedRefused ==
  /\ fate = "uaf" /\ pc["loop"] = "reading"
  /\ chan["loop"] \in refused /\ ~live[chan["loop"]]

SafeInv == Static => AllSafe \/ EndedRefused

Known == TypeOK /\ CallInv /\ InterestInv /\ StaticInv /\ Static /\ AllSafe

\* The CGI thread has nothing to do.
LEMMA CgiAsleep ==
  ASSUME Known
  PROVE  /\ pc["cgi"] = "idle" /\ cgiQueue = <<>>
         /\ \A c \in Channels : Turns(c)
<1>1. \A c \in Channels : Turns(c)
  BY DEF Known, StaticInv, Static, Elements
<1>2. pc["cgi"] = "idle"
  <2>1. chan["cgi"] \notin Channels
    BY <1>1 DEF Turns
  <2>2. pc["cgi"] \in RestPCs /\ pc["cgi"] \in OtherPCs
    BY <2>1 DEF Known, TypeOK, ThreadType, Threads, PCsOf
  <2> QED
    BY <2>2 DEF RestPCs, OtherPCs
<1>3. cgiQueue = <<>>
  <2> SUFFICES ASSUME cgiQueue # <<>> PROVE FALSE
    OBVIOUS
  <2>1. Head(cgiQueue) \in Channels /\ Head(cgiQueue) \in Elements(cgiQueue)
    BY TailEntries DEF Known, TypeOK, SharedType
  <2> QED
    BY <1>1, <2>1 DEF Turns
<1> QED
  BY <1>1, <1>2, <1>3

\* What is recorded about c does not grow.
DataKept(c) ==
  /\ events'[c] = events[c] /\ live'[c] = live[c]
  /\ registered'[c] => registered[c]
  /\ c \in accepted => c \in accepted'
  /\ c \in refused => c \in refused'
  /\ Posted(c)' => Posted(c)
  /\ \A bit \in Bits : <<c, bit>> \in ready' => <<c, bit>> \in ready

LEMMA SafeFrame ==
  ASSUME NEW c \in Channels, SafeFor(c), DataKept(c),
         Opening(c)' => Opening(c) /\ pc'["main"] = pc["main"] /\ call'["main"] = call["main"],
         (chan'["loop"] = c) <=> (chan["loop"] = c),
         chan["loop"] = c => pc'["loop"] = pc["loop"] /\ call'["loop"] = call["loop"]
  PROVE  SafeFor(c)'
<1>1. Bits = {"r", "w"}
  BY DEF Bits
<1>2. Opening(c)' => live'[c] /\ Begins(c)'
  BY DEF SafeFor, DataKept, Begins
<1>3. chan'["loop"] = c /\ Refused(c) => Refused(c)'
  BY DEF Refused, DataKept
<1>4. chan'["loop"] = c /\ Held(c) => Held(c)'
  <2> SUFFICES ASSUME chan'["loop"] = c, Held(c) PROVE Held(c)'
    OBVIOUS
  <2>1. \A ev : Good(c, ev) => Good(c, ev)'
    BY <1>1 DEF Good, DataKept
  <2>2. Held(c) /\ pc'["loop"] = pc["loop"] /\ call'["loop"] = call["loop"] /\ events'[c] = events[c]
    BY DEF DataKept
  <2>0. Frees(c) => Frees(c)'
    BY <2>2 DEF Frees, DataKept
  <2>3. Masked(call["loop"], events[c])' = Masked(call["loop"], events[c])
    BY <2>2 DEF Masked
  <2>4. pc["loop"] = "load" => Good(c, Masked(call["loop"], events[c]))'
    BY <2>1, <2>2, <2>3 DEF Held, Good
  <2>5. pc["loop"] = "store" => Good(c, call["loop"].ev)'
    BY <2>1, <2>2 DEF Held, Good
  <2>6. pc["loop"] \in {"update", "ctl", "clear"} => Good(c, events[c])'
    BY <2>1, <2>2 DEF Held, Good
  <2>7. live'[c] /\ <<c, "r">> \notin ready' /\ (<<c, "w">> \notin ready => <<c, "w">> \notin ready')
    BY <1>1, <2>2 DEF Held, DataKept
  <2> QED
    BY <2>0, <2>2, <2>4, <2>5, <2>6, <2>7 DEF Held
<1> QED
  BY <1>2, <1>3, <1>4 DEF SafeFor, DataKept

\* The loop's thread moves, and c is not the channel it has in hand.
LEMMA LoopElsewhere ==
  ASSUME TypeOK, NEW c \in Channels, SafeFor(c), DataKept(c), NEW l, Moves("loop", l),
         chan["loop"] # c, chan'["loop"] # c
  PROVE  SafeFor(c)'
<1>1. pc'["main"] = pc["main"] /\ call'["main"] = call["main"] /\ chan'["main"] = chan["main"]
  BY MovesPc DEF Threads
<1> QED
  BY <1>1, SafeFrame DEF Opening

\* The acceptor's thread moves, and c is not a channel it switches on.
LEMMA MainElsewhere ==
  ASSUME TypeOK, NEW c \in Channels, SafeFor(c), DataKept(c), NEW l, Moves("main", l),
         chan'["main"] # c \/ l \notin OpeningPCs
  PROVE  SafeFor(c)'
<1>1. /\ pc'["loop"] = pc["loop"] /\ call'["loop"] = call["loop"] /\ chan'["loop"] = chan["loop"]
      /\ pc'["main"] = l
  BY MovesPc DEF Threads
<1> QED
  BY <1>1, SafeFrame DEF Opening

\* The loop's thread moves, with c in hand.
LEMMA InHand ==
  ASSUME Known, NEW c \in Channels, NEW l, Moves("loop", l), chan["loop"] = c,
         accepted' = accepted, Posted(c)' => Posted(c),
         chan'["loop"] = c => Held(c)' \/ Refused(c)',
         registered'[c] /\ chan'["loop"] # c => live'[c] /\ "r" \in events'[c],
         \A bit \in Bits : <<c, bit>> \in ready' =>
           live'[c] /\ bit \in events'[c] /\ (chan'["loop"] # c => "r" \in events'[c])
  PROVE  SafeFor(c)'
<1>1. Turns(c)
  BY CgiAsleep
<1>2. c \in accepted /\ ~Opening(c) /\ ~Posted(c)
  BY <1>1 DEF Turns, Untouched
<1>3. ~Opening(c)'
  BY <1>2, MovesPc DEF Opening, Threads, Known
<1> QED
  BY <1>2, <1>3 DEF SafeFor

LEMMA KeptData ==
  ASSUME NEW c,
         UNCHANGED <<pending, batch, ready, events, live, registered, accepted, refused>>
  PROVE  DataKept(c)
  BY SameBacklog DEF DataKept

\* The facts about the loop's channel that every step of the loop starts from.
LEMMA LoopHolds ==
  ASSUME Known, pc["loop"] \notin RestPCs \/ chan["loop"] \in Channels,
         pc["loop"] # "reading" \/ live[chan["loop"]]
  PROVE  chan["loop"] \in Channels /\ Held(chan["loop"])
<1>1. chan["loop"] \in Channels
  BY DEF Known, TypeOK, ThreadType, Threads
<1> QED
  BY <1>1 DEF Known, AllSafe, SafeFor, Refused

LEMMA LoopFree ==
  ASSUME Known, pc["loop"] \in {"boot", "wait", "swap"}, NEW c \in Channels
  PROVE  chan["loop"] # c
<1>1. chan["loop"] = c => Held(c) \/ Refused(c)
  BY DEF Known, AllSafe, SafeFor
<1> QED
  BY <1>1 DEF Held, HeldPCs, BusyPCs, Refused

\* The loop moves and takes no data with it.
LEMMA LoopIdle ==
  ASSUME Known, pc["loop"] \in {"boot", "wait", "swap"}, NEW l, Moves("loop", l),
         chan' = chan, fate' = fate, \A c \in Channels : DataKept(c)
  PROVE  AllSafe'
<1>1. ASSUME NEW c \in Channels PROVE SafeFor(c)'
  BY LoopFree, LoopElsewhere DEF Known, AllSafe
<1> QED
  BY <1>1 DEF Known, AllSafe

LEMMA InHandOthers ==
  ASSUME Known, NEW c \in Channels, chan["loop"] = c, NEW l, Moves("loop", l),
         fate' = fate, \A d \in Channels : d # c => chan'["loop"] # d /\ DataKept(d), SafeFor(c)'
  PROVE  AllSafe'
<1>1. ASSUME NEW d \in Channels PROVE SafeFor(d)'
  BY LoopElsewhere DEF Known, AllSafe
<1> QED
  BY <1>1 DEF Known, AllSafe

\* The loop goes on with the channel it has in hand, and changes nothing else.
LEMMA InHandSame ==
  ASSUME Known, NEW c \in Channels, chan["loop"] = c, NEW l, Moves("loop", l),
         UNCHANGED <<pending, batch, ready, events, live, accepted, refused, fate>>,
         \A d \in Channels : d # c => chan'["loop"] # d /\ (registered'[d] => registered[d]),
         Held(c), chan'["loop"] = c => Held(c)',
         chan'["loop"] # c => "r" \in events[c]
  PROVE  AllSafe'
<1>1. Held(c) /\ SafeFor(c)
  BY DEF Known, AllSafe
<1>2. ASSUME NEW d \in Channels, d # c PROVE DataKept(d)
  BY <1>2, SameBacklog DEF DataKept
<1>3. SafeFor(c)'
  <2>1. Posted(c)' => Posted(c)
    BY SameBacklog
  <2>2. registered'[c] /\ chan'["loop"] # c => live'[c] /\ "r" \in events'[c]
    BY <1>1 DEF Held
  <2>3. \A bit \in Bits : <<c, bit>> \in ready' =>
          live'[c] /\ bit \in events'[c] /\ (chan'["loop"] # c => "r" \in events'[c])
    BY <1>1 DEF SafeFor
  <2> QED
    BY <2>1, <2>2, <2>3, InHand
<1> QED
  BY <1>2, <1>3, InHandOthers

LEMMA BootSafe ==
  ASSUME Known, LoopSetThread \/ ReadEventfd
  PROVE  AllSafe'
<1>0. "loop" \in Threads /\ TypeOK
  BY DEF Threads, Known
<1>1. PICK l : /\ pc["loop"] \in {"boot", "wait"} /\ Goto("loop", l)
               /\ ready' \subseteq ready
               /\ UNCHANGED <<pending, batch, events, live, registered, accepted, refused, chan, call, fate>>
  BY DEF LoopSetThread, ReadEventfd, channelVars, kernelVars, callerVars, historyVars
<1>2. Moves("loop", l)
  BY <1>0, <1>1, Movers
<1>3. \A c \in Channels : DataKept(c)
  BY <1>1, SameBacklog DEF DataKept
<1> QED
  BY <1>1, <1>2, <1>3, LoopIdle

LEMMA WaitSafe ==
  ASSUME Known, EpollWait
  PROVE  AllSafe'
<1>0. TypeOK /\ InterestInv
  BY DEF Known
<1>1. /\ pc["loop"] = "wait"
      /\ ready' \subseteq Reportable
      /\ UNCHANGED <<pending, batch, events, live, op, registered, interest, accepted, refused, pc, chan, call, fate>>
  BY DEF EpollWait, channelVars, kernelVars, callerVars, historyVars
<1>2. ASSUME NEW c \in Channels PROVE SafeFor(c)'
  <2>1. chan["loop"] # c /\ SafeFor(c) /\ Turns(c)
    BY <1>1, LoopFree, CgiAsleep DEF Known, AllSafe
  <2>2. \A bit \in Bits : <<c, bit>> \in Reportable => registered[c] /\ (bit = "r" \/ bit \in interest[c])
    BY NoChannelAssumption DEF Reportable, EventFd
  <2>3. ASSUME registered[c] PROVE interest[c] = events[c] /\ live[c] /\ "r" \in events[c]
    <3>1. live[c] /\ "r" \in events[c]
      BY <2>1, <2>3 DEF SafeFor
    <3>2. Settling(c)
      BY <1>0, <2>1, <3>1 DEF InterestInv, Settles, Turns
    <3>3. ~Posted(c) /\ ~Opening(c)
      BY <2>1, <2>3 DEF Turns, Untouched
    <3>4. \A t \in Threads : ~Busy(t, c)
      BY <2>1, <3>3, CgiAsleep DEF Threads, Busy, BusyPCs, Opening, OpeningPCs, CallInv, Known
    <3> QED
      BY <3>1, <3>2, <3>3, <3>4 DEF Settling, Coherent
  <2>4. \A bit \in Bits : <<c, bit>> \in ready' =>
           live[c] /\ bit \in events[c] /\ "r" \in events[c]
    BY <1>1, <2>2, <2>3
  <2>5. Posted(c)' = Posted(c) /\ Opening(c)' = Opening(c) /\ Begins(c)' = Begins(c)
    BY <1>1, SameBacklog DEF Opening, Begins
  <2> QED
    BY <1>1, <2>1, <2>4, <2>5 DEF SafeFor
<1> QED
  BY <1>1, <1>2 DEF Known, AllSafe

LEMMA SwapSafe ==
  ASSUME Known, SwapPending
  PROVE  AllSafe'
<1>0. "loop" \in Threads /\ TypeOK /\ SharedType
  BY DEF Threads, Known, TypeOK
<1>1. /\ pc["loop"] = "swap" /\ Goto("loop", "apply")
      /\ batch' = pending /\ pending' = <<>>
      /\ UNCHANGED <<ready, events, live, registered, accepted, refused, chan, call, fate>>
  BY DEF SwapPending, channelVars, kernelVars, callerVars, historyVars
<1>2. batch = <<>>
  BY <1>1 DEF Known, InterestInv, BatchInv
<1>3. Moves("loop", "apply")
  BY <1>0, <1>1, Movers
<1>4. \A c \in Channels : DataKept(c)
  BY <1>0, <1>1, <1>2, BacklogSwapped DEF DataKept, Posted
<1> QED
  BY <1>1, <1>3, <1>4, LoopIdle

LEMMA ApplySafe ==
  ASSUME Known, ApplyNext
  PROVE  AllSafe'
<1>0. "loop" \in Threads /\ TypeOK /\ SharedType /\ BatchInv
  BY DEF Threads, Known, TypeOK, InterestInv
<1>1. /\ pc["loop"] = "apply"
      /\ UNCHANGED <<pending, ready, events, live, registered, accepted, refused, fate>>
  BY DEF ApplyNext, channelVars, kernelVars, callerVars, historyVars
<1>2. CASE batch = <<>>
  <2>1. Rest("loop") /\ batch' = batch
    BY <1>2 DEF ApplyNext
  <2>2. Moves("loop", Home("loop")) /\ chan'["loop"] = NoChannel
    BY <1>0, <2>1, Movers DEF Rest, TypeOK, ThreadType
  <2>3. CASE chan["loop"] \in Channels
    <3>1. PICK c \in Channels : chan["loop"] = c
      BY <2>3
    <3>2. Held(c) /\ "r" \in events[c]
      BY <1>1, <3>1, LoopHolds DEF Held
    <3>3. \A d \in Channels : chan'["loop"] # d
      BY <2>2, NoChannelAssumption
    <3> QED
      BY <1>1, <2>1, <2>2, <3>1, <3>2, <3>3, InHandSame
  <2>4. CASE chan["loop"] \notin Channels
    <3>1. ASSUME NEW d \in Channels PROVE SafeFor(d)'
      <4>1. chan["loop"] # d /\ chan'["loop"] # d
        BY <2>2, <2>4, NoChannelAssumption
      <4>2. DataKept(d)
        BY <1>1, <2>1, KeptData
      <4> QED
        BY <1>0, <2>2, <4>1, <4>2, LoopElsewhere DEF Known, AllSafe
    <3> QED
      BY <1>1, <3>1 DEF Known, AllSafe
  <2> QED
    BY <2>3, <2>4
<1>3. CASE batch # <<>>
  <2>0. PICK x \in Channels : x = Head(batch)
    BY <1>0, <1>3 DEF SharedType
  <2> DEFINE k == [call["loop"] EXCEPT !.ret = "apply"]
  <2>1. /\ Goto("loop", "ctl")
        /\ chan' = [chan EXCEPT !["loop"] = x]
        /\ call' = [call EXCEPT !["loop"] = k]
        /\ batch' = Tail(batch)
    BY <1>3, <2>0 DEF ApplyNext
  <2>2. call'["loop"].ret = "apply" /\ chan'["loop"] = x
    BY <1>0, <2>1 DEF TypeOK, ThreadType, CallsOf
  <2> HIDE DEF k
  <2>3. Moves("loop", "ctl") /\ pc'["loop"] = "ctl"
    BY <1>0, <2>1, Movers, MovesPc
  <2>4. /\ Posted(x)
        /\ \A d : Posted(d)' => Posted(d)
        /\ OnceIn(Backlog, x) => ~Posted(x)'
    <3>1. Backlog \in Seq(Channels) /\ Backlog # <<>> /\ Head(Backlog) = x /\ Backlog' = Tail(Backlog)
      BY <1>0, <1>1, <1>3, <2>0, <2>1, BacklogType, BacklogShrinks
    <3> QED
      BY <3>1, TailEntries DEF Posted
  <2>5. /\ chan["loop"] # x /\ ~Opening(x) /\ x \in accepted /\ ~Posted(x)'
        /\ \A bit \in Bits : <<x, bit>> \notin ready
        /\ live[x] /\ "r" \in events[x]
    <3>1. Turns(x) /\ SafeFor(x)
      BY CgiAsleep DEF Known, AllSafe
    <3> QED
      BY <2>4, <3>1 DEF Turns, Untouched, SafeFor
  <2>6. SafeFor(x)'
    <3>1. ~Opening(x)'
      BY <1>0, <2>3, <2>5, MovesPc DEF Opening, Threads
    <3>2. Held(x)'
      BY <1>1, <2>2, <2>3, <2>5 DEF Held, HeldPCs, BusyPCs, Good, Bits
    <3> QED
      BY <1>1, <2>2, <2>5, <3>1, <3>2 DEF SafeFor
  <2>7. ASSUME NEW d \in Channels, d # x PROVE SafeFor(d)'
    <3>1. DataKept(d)
      BY <1>1, <2>4 DEF DataKept
    <3>2. CASE chan["loop"] # d
      BY <1>0, <2>2, <2>3, <2>7, <3>1, <3>2, LoopElsewhere DEF Known, AllSafe
    <3>3. CASE chan["loop"] = d
      <4>1. Held(d) /\ SafeFor(d)
        BY <1>1, <3>3, LoopHolds DEF Known, AllSafe
      <4>2. live[d] /\ "r" \in events[d]
        BY <1>1, <4>1 DEF Held
      <4>3. \A bit \in Bits : <<d, bit>> \in ready => bit \in events[d]
        BY <4>1 DEF SafeFor
      <4> QED
        BY <1>1, <2>2, <2>3, <2>7, <3>1, <3>3, <4>2, <4>3, InHand DEF DataKept
    <3> QED
      BY <3>2, <3>3
  <2> QED
    BY <1>1, <2>6, <2>7 DEF Known, AllSafe
<1> QED
  BY <1>2, <1>3

LEMMA FireSafe ==
  ASSUME Known, NEW c \in Channels, NEW bit \in Bits, Fire(c, bit)
  PROVE  AllSafe'
<1>0. "loop" \in Threads /\ TypeOK /\ Bits = {"r", "w"}
  BY DEF Threads, Known, Bits
<1>1. SafeFor(c) /\ Turns(c) /\ pc["loop"] = "wait" /\ <<c, bit>> \in ready
  BY CgiAsleep DEF Known, AllSafe, Fire
<1>2. \A d \in Channels : chan["loop"] # d
  BY <1>1, LoopFree
<1>3. live[c] /\ bit \in events[c] /\ "r" \in events[c] /\ (bit = "w" => <<c, "r">> \notin ready)
  BY <1>1, <1>2 DEF SafeFor, Fire
<1> DEFINE l == IF bit = "r" THEN "reading" ELSE "writing"
<1>4. /\ ready' = ready \ {<<c, bit>>}
      /\ chan' = [chan EXCEPT !["loop"] = c]
      /\ Goto("loop", l)
      /\ UNCHANGED <<pending, batch, events, live, registered, accepted, refused, call, fate>>
  BY <1>3 DEF Fire, channelVars, kernelVars, callerVars, historyVars
<1>5. Moves("loop", l) /\ chan'["loop"] = c /\ pc'["loop"] = l
  BY <1>0, <1>4, Movers DEF Goto, TypeOK, ThreadType
<1>6. \A d \in Channels : DataKept(d)
  BY <1>4, SameBacklog DEF DataKept
<1>7. ASSUME NEW d \in Channels, d # c PROVE SafeFor(d)'
  BY <1>0, <1>2, <1>5, <1>6, <1>7, LoopElsewhere DEF Known, AllSafe
<1>8. SafeFor(c)'
  <2>1. c \in accepted /\ ~Opening(c) /\ ~Posted(c)
    BY <1>1 DEF Turns, Untouched
  <2>2. ~Opening(c)'
    BY <1>0, <1>5, <2>1, MovesPc DEF Opening, Threads
  <2>3. ~Posted(c)'
    BY <1>6, <2>1 DEF DataKept
  <2>4. Held(c)'
    BY <1>0, <1>3, <1>4, <1>5 DEF Held, HeldPCs
  <2>5. \A b \in Bits : <<c, b>> \in ready' => live'[c] /\ b \in events'[c]
    BY <1>1, <1>4 DEF SafeFor
  <2> QED
    BY <1>4, <1>5, <2>1, <2>2, <2>3, <2>4, <2>5 DEF SafeFor
<1> QED
  BY <1>4, <1>7, <1>8 DEF Known, AllSafe

\* The loop begins a Channel call on the channel it has in hand.
LEMMA CallSafe ==
  ASSUME Known, NEW c \in Channels, chan["loop"] = c, NEW bit, NEW on, NEW ret,
         Call("loop", c, bit, on, ret),
         UNCHANGED <<pending, batch, ready, events, live, registered, accepted, refused, fate>>,
         ret \in {"reading", "written", "dispatch"},
         Held(c), (bit \in events[c]) # on,
         ret # "dispatch" => "r" \in events[c] /\ bit = "w",
         ret = "written" => ~on,
         bit = "w" /\ ~on => <<c, "w">> \notin ready
  PROVE  AllSafe'
<1>0. "loop" \in Threads /\ TypeOK
  BY DEF Threads, Known
<1> DEFINE k == [call["loop"] EXCEPT !.bit = bit, !.on = on, !.ret = ret]
<1>1. k.bit = bit /\ k.on = on /\ k.ret = ret
  BY <1>0 DEF TypeOK, ThreadType, CallsOf
<1>2. Moves("loop", "load") /\ chan'["loop"] = c /\ pc'["loop"] = "load" /\ call'["loop"] = k
  BY <1>0, Movers DEF Call, Goto, TypeOK, ThreadType
<1> HIDE DEF k
<1>3. Held(c)'
  <2>2. live[c] /\ <<c, "r">> \notin ready /\ (<<c, "w">> \in ready => "w" \in events[c])
    BY DEF Known, AllSafe, SafeFor, Held, Bits
  <2>3. (call["loop"].bit \in events[c])' # call'["loop"].on
    BY <1>1, <1>2
  <2>4. Good(c, Masked(call["loop"], events[c]))'
    <3>1. Masked(call["loop"], events[c])' = IF on THEN events[c] \cup {bit} ELSE events[c] \ {bit}
      BY <1>1, <1>2 DEF Masked
    <3>2. /\ ret # "dispatch" => "r" \in Masked(call["loop"], events[c])'
          /\ ret = "written" => "w" \notin Masked(call["loop"], events[c])'
      BY <3>1
    <3>3. <<c, "w">> \in ready => "w" \in Masked(call["loop"], events[c])'
      BY <2>2, <3>1
    <3> QED
      BY <1>1, <1>2, <3>2, <3>3 DEF Good
  <2> QED
    BY <1>1, <1>2, <2>2, <2>3, <2>4 DEF Held, HeldPCs, BusyPCs
<1> QED
  BY <1>2, <1>3, InHandSame

\* The loop's own steps inside a Channel call.
LEMMA LoopLoadSafe ==
  ASSUME Known, ChannelLoad("loop")
  PROVE  AllSafe'
<1>0. "loop" \in Threads /\ TypeOK
  BY DEF Threads, Known
<1>1. PICK c \in Channels : chan["loop"] = c /\ Held(c) /\ pc["loop"] = "load"
  BY LoopHolds DEF ChannelLoad, RestPCs
<1> DEFINE f == call["loop"]
           k == [f EXCEPT !.ev = Masked(f, events[c]),
                          !.op = OpFor(f.on, events[c], Masked(f, events[c]))]
<1>2. live[c] /\ (f.bit \in events[c]) # f.on
  BY <1>1 DEF Held
<1>3. /\ call' = [call EXCEPT !["loop"] = k]
      /\ Goto("loop", "store")
      /\ UNCHANGED <<pending, batch, ready, events, live, registered, accepted, refused, chan, fate>>
  BY <1>1, <1>2 DEF ChannelLoad, Masked, loopVars, channelVars, kernelVars, callerVars, historyVars
<1>4. k.ev = Masked(f, events[c]) /\ k.ret = f.ret
  BY <1>0 DEF TypeOK, ThreadType, CallsOf
<1>5. Moves("loop", "store") /\ pc'["loop"] = "store" /\ call'["loop"] = k
  BY <1>0, <1>3, Movers DEF Goto, TypeOK, ThreadType
<1> HIDE DEF k
<1>6. Held(c)'
  BY <1>1, <1>3, <1>4, <1>5 DEF Held, HeldPCs, BusyPCs, Good
<1> QED
  BY <1>1, <1>3, <1>5, <1>6, InHandSame

LEMMA LoopStoreSafe ==
  ASSUME Known, ChannelStore("loop")
  PROVE  AllSafe'
<1>0. "loop" \in Threads /\ TypeOK
  BY DEF Threads, Known
<1>1. PICK c \in Channels : chan["loop"] = c /\ Held(c) /\ pc["loop"] = "store"
  BY LoopHolds DEF ChannelStore, RestPCs
<1>2. live[c] /\ <<c, "r">> \notin ready /\ call["loop"].ret # "close" /\ Good(c, call["loop"].ev)
  BY <1>1 DEF Held
<1>3. /\ events' = [events EXCEPT ![c] = call["loop"].ev]
      /\ Goto("loop", "update")
      /\ UNCHANGED <<pending, batch, ready, live, registered, accepted, refused, chan, call, fate>>
  BY <1>1, <1>2 DEF ChannelStore, loopVars, kernelVars, callerVars, historyVars
<1>4. Moves("loop", "update") /\ pc'["loop"] = "update" /\ events'[c] = call["loop"].ev
  BY <1>0, <1>3, Movers DEF Goto, TypeOK, ThreadType, SharedType
<1>5. Held(c)'
  BY <1>2, <1>3, <1>4 DEF Held, HeldPCs, BusyPCs, Good
<1>6. SafeFor(c)'
  <2>1. \A bit \in Bits : <<c, bit>> \in ready' => bit \in events'[c]
    BY <1>2, <1>3, <1>4 DEF Good, Bits
  <2>2. Posted(c)' = Posted(c)
    BY <1>3, SameBacklog
  <2> QED
    BY <1>1, <1>2, <1>3, <1>4, <1>5, <2>1, <2>2, InHand
<1>7. ASSUME NEW d \in Channels, d # c PROVE DataKept(d)
  BY <1>0, <1>3, <1>7, SameBacklog DEF DataKept, TypeOK, SharedType
<1> QED
  BY <1>1, <1>3, <1>4, <1>6, <1>7, InHandOthers

LEMMA LoopUpdateSafe ==
  ASSUME Known, Update("loop")
  PROVE  AllSafe'
<1>0. "loop" \in Threads /\ TypeOK
  BY DEF Threads, Known
<1>1. PICK c \in Channels : chan["loop"] = c /\ Held(c) /\ pc["loop"] = "update"
  BY LoopHolds DEF Update, RestPCs
<1>2. /\ Goto("loop", "ctl")
      /\ UNCHANGED <<pending, batch, ready, events, live, registered, accepted, refused, chan, call, fate>>
  BY <1>1 DEF Update, Held, kernelVars, callerVars, historyVars
<1>3. Moves("loop", "ctl") /\ pc'["loop"] = "ctl"
  BY <1>0, <1>2, Movers, MovesPc
<1>4. Held(c)'
  BY <1>1, <1>2, <1>3 DEF Held, HeldPCs, BusyPCs, Good, Frees
<1> QED
  BY <1>1, <1>2, <1>3, <1>4, InHandSame

LEMMA CtlSafe ==
  ASSUME Known, ModifyCtl
  PROVE  AllSafe'
<1>0. "loop" \in Threads /\ TypeOK
  BY DEF Threads, Known
<1>1. PICK c \in Channels : chan["loop"] = c /\ Held(c) /\ pc["loop"] = "ctl"
  BY LoopHolds DEF ModifyCtl, RestPCs
<1>2. /\ Goto("loop", "clear")
      /\ EpollCtl(c, op[c], events[c])
      /\ UNCHANGED <<pending, batch, ready, events, live, accepted, refused, chan, call, fate>>
  BY <1>1 DEF ModifyCtl, Held, loopVars, channelVars, callerVars, historyVars
<1>3. Moves("loop", "clear") /\ pc'["loop"] = "clear"
  BY <1>0, <1>2, Movers, MovesPc
<1>4. Held(c)'
  BY <1>1, <1>2, <1>3 DEF Held, HeldPCs, BusyPCs, Good, Frees
<1>5. \A d \in Channels : d # c => registered'[d] = registered[d]
  BY <1>0, <1>2 DEF EpollCtl, kernelVars, TypeOK, SharedType
<1> QED
  BY <1>1, <1>2, <1>3, <1>4, <1>5, InHandSame

LEMMA ClearSafe ==
  ASSUME Known, ModifyClear
  PROVE  AllSafe'
<1>0. "loop" \in Threads /\ TypeOK
  BY DEF Threads, Known
<1>1. PICK c \in Channels : chan["loop"] = c /\ Held(c) /\ pc["loop"] = "clear"
  BY LoopHolds DEF ModifyClear, RestPCs
<1> DEFINE l == call["loop"].ret
<1>2. /\ Return("loop")
      /\ UNCHANGED <<pending, batch, ready, events, live, registered, accepted, refused, fate>>
  BY <1>1 DEF ModifyClear, Held, loopVars, kernelVars, callerVars, historyVars
<1>3. /\ Moves("loop", l) /\ pc'["loop"] = l
      /\ call'["loop"] = IF l = "close" THEN call["loop"] ELSE NoCall("loop")
      /\ chan'["loop"] = IF l = "wait" THEN NoChannel ELSE c
  BY <1>0, <1>1, <1>2, Movers DEF Return, Goto, Home, TypeOK, ThreadType
<1>4. l \in {"wait", "reading", "written", "dispatch", "apply", "close"}
  <2>1. l \in ReturnPCs /\ l \in LoopPCs
    BY <1>0 DEF Known, CallInv, TypeOK, ThreadType, CallsOf, PCsOf
  <2> QED
    BY <2>1 DEF ReturnPCs, LoopPCs, InCall
<1>5. /\ live[c] /\ <<c, "r">> \notin ready
      /\ l \in {"reading", "written", "wait", "apply"} => "r" \in events[c]
      /\ l = "written" => "w" \notin events[c]
      /\ l = "close" => Frees(c)
  BY <1>1 DEF Held, Good
<1>6. l = "close" => Frees(c)'
  BY <1>2, <1>3, <1>5 DEF Frees
<1>7. chan'["loop"] = c => Held(c)'
  BY <1>2, <1>3, <1>4, <1>5, <1>6, NoChannelAssumption DEF Held, HeldPCs
<1>8. chan'["loop"] # c => "r" \in events[c]
  BY <1>3, <1>5
<1>9. \A d \in Channels : d # c => chan'["loop"] # d
  BY <1>3, NoChannelAssumption
<1> QED
  BY <1>1, <1>2, <1>3, <1>7, <1>8, <1>9, InHandSame

LEMMA LoopCloseFdSafe ==
  ASSUME Known, CloseFd("loop")
  PROVE  AllSafe'
<1>0. "loop" \in Threads /\ TypeOK
  BY DEF Threads, Known
<1>1. PICK c \in Channels : chan["loop"] = c /\ Held(c) /\ pc["loop"] = "close"
  BY LoopHolds DEF CloseFd, RestPCs
<1> DEFINE back == call["loop"].back
<1>2. /\ live[c] /\ events[c] = {} /\ Home("loop") = "wait"
      /\ back \in {"wait", "reading"} /\ (back = "reading" => c \in refused)
  BY <1>1 DEF Held, Frees, Home
<1>3. /\ registered' = [registered EXCEPT ![c] = FALSE]
      /\ live' = [live EXCEPT ![c] = FALSE]
      /\ UNCHANGED <<pending, batch, ready, events, accepted, refused, fate>>
      /\ IF back = "wait"
         THEN Rest("loop")
         ELSE Goto("loop", back) /\ UNCHANGED chan
              /\ call' = [call EXCEPT !["loop"] = NoCall("loop")]
  BY <1>1, <1>2 DEF CloseFd, loopVars, historyVars
<1>4. /\ Moves("loop", back) /\ pc'["loop"] = back
      /\ chan'["loop"] = IF back = "wait" THEN NoChannel ELSE c
  BY <1>0, <1>1, <1>2, <1>3, Movers DEF Rest, Goto, TypeOK, ThreadType
<1> HIDE DEF back
<1>5. \A bit \in Bits : <<c, bit>> \notin ready
  BY <1>2 DEF Known, AllSafe, SafeFor
<1>6. SafeFor(c)'
  <2>1. Posted(c)' = Posted(c) /\ registered'[c] = FALSE /\ live'[c] = FALSE
    BY <1>0, <1>3, SameBacklog DEF TypeOK, SharedType
  <2>2. chan'["loop"] = c => Refused(c)'
    BY <1>2, <1>3, <1>4, <1>5, <2>1, NoChannelAssumption DEF Refused
  <2> QED
    BY <1>1, <1>3, <1>4, <1>5, <2>1, <2>2, InHand
<1>7. ASSUME NEW d \in Channels, d # c PROVE chan'["loop"] # d /\ DataKept(d)
  BY <1>0, <1>3, <1>4, <1>7, SameBacklog, NoChannelAssumption DEF DataKept, TypeOK, SharedType
<1> QED
  BY <1>1, <1>3, <1>4, <1>6, <1>7, InHandOthers

\* The loop begins to free the connection its read handler serves.
LEMMA LoopFreeSafe ==
  ASSUME Known, NEW c \in Channels, chan["loop"] = c, Held(c), pc["loop"] = "reading",
         NEW back \in {"wait", "reading"}, ChannelFree("loop", c, back),
         refused \subseteq refused', back = "reading" => c \in refused'
  PROVE  AllSafe'
<1>0. "loop" \in Threads /\ TypeOK
  BY DEF Threads, Known
<1> DEFINE k == [call["loop"] EXCEPT !.op = "DEL", !.ret = "close", !.back = back]
<1>3. /\ live[c] /\ "w" \notin events[c]
      /\ events' = [events EXCEPT ![c] = {}]
      /\ call' = [call EXCEPT !["loop"] = k]
      /\ Goto("loop", "update")
      /\ UNCHANGED <<pending, batch, ready, live, registered, accepted, chan, fate>>
  BY DEF ChannelFree, loopVars, kernelVars, callerVars
<1>4. k.ret = "close" /\ k.back = back
  BY <1>0 DEF TypeOK, ThreadType, CallsOf
<1>5. /\ Moves("loop", "update") /\ pc'["loop"] = "update" /\ call'["loop"] = k
      /\ events'[c] = {}
  BY <1>0, <1>3, Movers DEF Goto, TypeOK, ThreadType, SharedType
<1> HIDE DEF k
<1>6. \A bit \in Bits : <<c, bit>> \notin ready
  BY <1>3 DEF Known, AllSafe, SafeFor, Held, Bits
<1>7. Held(c)'
  BY <1>3, <1>4, <1>5, <1>6 DEF Held, HeldPCs, BusyPCs, Good, Bits, Frees
<1>8. SafeFor(c)'
  <2>1. Posted(c)' = Posted(c)
    BY <1>3, SameBacklog
  <2> QED
    BY <1>3, <1>5, <1>6, <1>7, <2>1, InHand
<1>9. ASSUME NEW d \in Channels, d # c PROVE DataKept(d)
  BY <1>0, <1>3, <1>9, SameBacklog DEF DataKept, TypeOK, SharedType
<1> QED
  BY <1>3, <1>5, <1>8, <1>9, InHandOthers

\* A handler is through with the channel, which may be gone.
LEMMA LoopRestSafe ==
  ASSUME Known, pc["loop"] \in {"reading", "writing", "written"}, Rest("loop"),
         UNCHANGED <<pending, batch, ready, events, live, registered, accepted, refused, fate>>
  PROVE  AllSafe'
<1>0. "loop" \in Threads /\ TypeOK
  BY DEF Threads, Known
<1>1. PICK c \in Channels : chan["loop"] = c /\ (Held(c) \/ Refused(c))
  BY DEF RestPCs, Known, AllSafe, SafeFor, TypeOK, ThreadType, Threads
<1>2. Moves("loop", Home("loop")) /\ chan'["loop"] = NoChannel
  BY <1>0, Movers DEF Rest, TypeOK, ThreadType
<1>3. SafeFor(c)'
  <2>1. Posted(c)' = Posted(c)
    BY SameBacklog
  <2>2. registered[c] => live[c] /\ "r" \in events[c]
    BY <1>1 DEF Held, Refused
  <2>3. \A bit \in Bits : <<c, bit>> \in ready =>
          live[c] /\ bit \in events[c] /\ "r" \in events[c]
    BY <1>1 DEF Held, Refused, Known, AllSafe, SafeFor
  <2> QED
    BY <1>1, <1>2, <2>1, <2>2, <2>3, NoChannelAssumption, InHand
<1>4. ASSUME NEW d \in Channels PROVE DataKept(d)
  BY KeptData
<1> QED
  BY <1>1, <1>2, <1>3, <1>4, InHandOthers, NoChannelAssumption

LEMMA LoopThreadSafe ==
  ASSUME Known, ThreadStep("loop"), Static'
  PROVE  AllSafe' \/ EndedRefused'
<1> DEFINE c == chan["loop"]
<1>0. /\ "loop" \in Threads /\ TypeOK
      /\ pc["loop"] \notin RestPCs => c \in Channels /\ (Held(c) \/ Refused(c))
      /\ pc["loop"] \notin RestPCs /\ (live[c] \/ pc["loop"] # "reading") => Held(c)
  BY LoopHolds DEF Threads, Known, AllSafe, SafeFor, TypeOK, ThreadType
<1>1. CASE ChannelStep("loop")
  <2>1. ~Notify("loop")
    BY <1>0 DEF Notify, Held, Refused, HeldPCs, BusyPCs, RestPCs
  <2> QED
    BY <1>1, <2>1, LoopLoadSafe, LoopStoreSafe, LoopUpdateSafe, LoopCloseFdSafe DEF ChannelStep
<1>2. CASE TouchFreed("loop")
  <2>1. pc["loop"] \in {"reading", "writing", "written", "serve", "tail", "pushed"}
    BY <1>2 DEF TouchFreed, HasBuffer
  <2>2. Refused(c)
    BY <1>0, <1>2, <2>1 DEF TouchFreed, HasBuffer, Held, HeldPCs, BusyPCs, RestPCs
  <2>3. Die("uaf")
    BY <1>2 DEF TouchFreed
  <2> QED
    BY <2>2, <2>3 DEF Refused, EndedRefused, Die, channelVars, historyVars
<1>3. CASE Leave("loop")
  <2>1. pc["loop"] \in {"reading", "writing"}
    BY <1>0, <1>3 DEF Leave, Held, Refused, HeldPCs, BusyPCs, RestPCs
  <2> QED
    BY <1>3, <2>1, LoopRestSafe
       DEF Leave, loopVars, channelVars, kernelVars, callerVars, historyVars
<1>4. CASE SendPartial("loop")
  <2>1. pc["loop"] = "reading" /\ c \in Channels /\ Held(c)
    BY <1>0, <1>4 DEF SendPartial, Held, HeldPCs, BusyPCs, RestPCs
  <2>2. "r" \in events[c]
    BY <2>1 DEF Held
  <2> QED
    BY <1>4, <2>1, <2>2, CallSafe
       DEF SendPartial, loopVars, channelVars, kernelVars, callerVars, historyVars
<1>5. CASE SendFails("loop")
  <2>1. /\ pc["loop"] = "reading" /\ c \in Channels /\ Held(c)
        /\ ChannelFree("loop", c, "reading")
    BY <1>0, <1>5 DEF SendFails, ChannelFree, Held, HeldPCs, BusyPCs, RestPCs
  <2> QED
    BY <1>5, <2>1, LoopFreeSafe DEF SendFails
<1>6. CASE BeginDispatch("loop")
  <2>1. pc["loop"] = "reading" /\ c \in Channels /\ Held(c)
    BY <1>0, <1>6 DEF BeginDispatch, Held, HeldPCs, BusyPCs, RestPCs
  <2>2. "r" \in events[c]
    BY <2>1 DEF Held
  <2> QED
    BY <1>6, <2>1, <2>2, CallSafe
       DEF BeginDispatch, loopVars, channelVars, kernelVars, callerVars, historyVars
<1>7. CASE Dispatch("loop")
  <2>1. handed' = Append(handed, c) /\ handed = <<>>
    BY <1>7 DEF Dispatch, Known, Static
  <2> QED
    BY <2>1 DEF Static
<1>8. CASE LinkBuffer("loop")
  BY <1>0, <1>8 DEF LinkBuffer, Held, HeldPCs, BusyPCs, RestPCs
<1>9. CASE Close("loop")
  <2>1. PICK back \in BackFromClose("loop") : ChannelFree("loop", c, back)
    BY <1>9 DEF Close
  <2>2. /\ pc["loop"] = "reading" /\ c \in Channels /\ Held(c)
    BY <1>0, <1>9, <2>1 DEF Close, ClosePCs, ChannelFree, Held, HeldPCs, BusyPCs, RestPCs
  <2>3. back = "wait"
    BY <2>2 DEF BackFromClose, Home
  <2> QED
    BY <1>9, <2>1, <2>2, <2>3, LoopFreeSafe DEF Close
<1>10. CASE CloseDeferred("loop")
  <2>1. pc["loop"] \in {"reading", "writing"}
    BY <1>0, <1>10 DEF CloseDeferred, ClosePCs, Held, Refused, HeldPCs, BusyPCs, RestPCs
  <2> QED
    BY <1>10, <2>1, LoopRestSafe
       DEF CloseDeferred, loopVars, channelVars, kernelVars, historyVars
<1> QED
  BY <1>1, <1>2, <1>3, <1>4, <1>5, <1>6, <1>7, <1>8, <1>9, <1>10 DEF ThreadStep

LEMMA LoopStepSafe ==
  ASSUME Known, LoopStep
  PROVE  AllSafe'
<1>1. CASE WriteAll
  <2>1. pc["loop"] = "writing" /\ chan["loop"] \in Channels /\ Held(chan["loop"])
    BY <1>1, LoopHolds DEF WriteAll, RestPCs
  <2>2. {"r", "w"} \subseteq events[chan["loop"]] /\ <<chan["loop"], "w">> \notin ready
    BY <2>1 DEF Held
  <2> QED
    BY <1>1, <2>1, <2>2, CallSafe DEF WriteAll, loopVars, channelVars, kernelVars, callerVars, historyVars
<1>2. CASE Written
  <2>1. pc["loop"] = "written" /\ Held(chan["loop"])
    BY <1>2, LoopHolds DEF Written, RestPCs
  <2>2. "w" \notin events[chan["loop"]]
    BY <2>1 DEF Held
  <2> QED
    BY <1>2, <2>1, <2>2, LoopRestSafe
       DEF Written, loopVars, channelVars, kernelVars, callerVars, historyVars
<1> QED
  BY <1>1, <1>2, BootSafe, WaitSafe, SwapSafe, ApplySafe, FireSafe, CtlSafe, ClearSafe DEF LoopStep

\* The acceptor's thread moves with c in hand, whose opening it has to finish.
LEMMA MainStepSafe ==
  ASSUME Known, NEW c \in Channels, chan["main"] = c, NEW l, Moves("main", l),
         chan'["main"] \in {c, NoChannel}, fate' = fate,
         \A d \in Channels : d # c => DataKept(d), SafeFor(c)'
  PROVE  AllSafe'
<1>1. ASSUME NEW d \in Channels PROVE SafeFor(d)'
  BY NoChannelAssumption, MainElsewhere DEF Known, AllSafe
<1> QED
  BY <1>1 DEF Known, AllSafe

\* What the acceptor's thread knows of the channel it is opening.
LEMMA OpeningHolds ==
  ASSUME Known, pc["main"] \in OpeningPCs
  PROVE  LET c == chan["main"] IN
         /\ c \in Channels /\ live[c] /\ Begins(c) /\ c \in accepted
         /\ ~Posted(c) /\ Untouched(c)
<1> DEFINE c == chan["main"]
<1>1. c \in Channels
  BY DEF Known, TypeOK, ThreadType, Threads, OpeningPCs, RestPCs
<1>2. Opening(c) /\ Turns(c) /\ SafeFor(c)
  BY <1>1, CgiAsleep DEF Opening, Known, AllSafe
<1> QED
  BY <1>1, <1>2 DEF Turns, SafeFor

\* While the acceptor's thread opens c, the loop and the kernel do not know of it.
LEMMA OpeningKept ==
  ASSUME Known, NEW c \in Channels, Untouched(c), c \in accepted, NEW l, Moves("main", l),
         UNCHANGED <<ready, live, registered, accepted>>, live[c],
         Opening(c)' => Begins(c)', Posted(c)' => "r" \in events'[c]
  PROVE  SafeFor(c)'
<1>1. chan'["loop"] = chan["loop"]
  BY MovesPc DEF Known, Threads
<1> QED
  BY <1>1 DEF SafeFor, Untouched

LEMMA MainThreadSafe ==
  ASSUME Known, ThreadStep("main")
  PROVE  AllSafe'
<1>0. /\ "main" \in Threads /\ TypeOK /\ SharedType
      /\ pc["main"] \in {"idle", "load", "store", "update", "notify"}
      /\ "main" # "loop"
  BY DEF Threads, Known, CallInv, TypeOK
<1>1. CASE ChannelLoad("main")
  <2>1. PICK c \in Channels : /\ chan["main"] = c /\ pc["main"] = "load" /\ live[c] /\ Begins(c)
                              /\ c \in accepted /\ ~Posted(c) /\ Untouched(c)
    BY <1>1, OpeningHolds DEF ChannelLoad, OpeningPCs
  <2> DEFINE f == call["main"]
             k == [f EXCEPT !.ev = events[c] \cup {f.bit},
                            !.op = OpFor(f.on, events[c], events[c] \cup {f.bit})]
  <2>2. events[c] = {} /\ f.on /\ f.bit = "r"
    BY <2>1 DEF Begins
  <2>3. /\ call' = [call EXCEPT !["main"] = k]
        /\ Goto("main", "store")
        /\ UNCHANGED <<pending, batch, ready, events, live, registered, accepted, refused, chan, fate>>
    BY <1>1, <2>1, <2>2 DEF ChannelLoad, loopVars, channelVars, kernelVars, callerVars, historyVars
  <2>4. "r" \in k.ev
    BY <1>0, <2>2 DEF TypeOK, ThreadType, CallsOf
  <2>5. Moves("main", "store") /\ pc'["main"] = "store" /\ call'["main"] = k
    BY <1>0, <2>3, Movers DEF Goto, TypeOK, ThreadType
  <2> HIDE DEF k
  <2>6. SafeFor(c)'
    <3>1. Begins(c)'
      BY <2>4, <2>5 DEF Begins
    <3>2. ~Posted(c)'
      BY <2>1, <2>3, SameBacklog
    <3> QED
      BY <2>1, <2>3, <2>5, <3>1, <3>2, OpeningKept
  <2>7. \A d \in Channels : DataKept(d)
    BY <2>3, KeptData
  <2> QED
    BY <2>1, <2>3, <2>5, <2>6, <2>7, MainStepSafe
<1>2. CASE ChannelStore("main")
  <2>1. PICK c \in Channels : /\ chan["main"] = c /\ pc["main"] = "store" /\ live[c] /\ Begins(c)
                              /\ c \in accepted /\ ~Posted(c) /\ Untouched(c)
    BY <1>2, OpeningHolds DEF ChannelStore, OpeningPCs
  <2>2. /\ events' = [events EXCEPT ![c] = call["main"].ev]
        /\ Goto("main", "update")
        /\ UNCHANGED <<pending, batch, ready, live, registered, accepted, refused, chan, call, fate>>
    BY <1>2, <2>1 DEF ChannelStore, loopVars, kernelVars, callerVars, historyVars
  <2>3. Moves("main", "update") /\ pc'["main"] = "update" /\ "r" \in events'[c]
    BY <1>0, <2>1, <2>2, Movers DEF Begins, Goto, TypeOK, ThreadType, SharedType
  <2>4. SafeFor(c)'
    BY <2>1, <2>2, <2>3, OpeningKept DEF Begins
  <2>5. ASSUME NEW d \in Channels, d # c PROVE DataKept(d)
    BY <1>0, <2>2, <2>5, SameBacklog DEF DataKept, SharedType
  <2> QED
    BY <2>1, <2>2, <2>3, <2>4, <2>5, MainStepSafe
<1>3. CASE Update("main")
  <2>1. PICK c \in Channels : /\ chan["main"] = c /\ pc["main"] = "update" /\ live[c] /\ Begins(c)
                              /\ c \in accepted /\ ~Posted(c) /\ Untouched(c)
    BY <1>3, OpeningHolds DEF Update, OpeningPCs
  <2>2. /\ Goto("main", "notify")
        /\ pending' = Append(pending, c)
        /\ UNCHANGED <<batch, ready, events, live, registered, accepted, refused, chan, call, fate>>
    BY <1>0, <1>3, <2>1 DEF Update, kernelVars, callerVars, historyVars
  <2>3. Moves("main", "notify") /\ pc'["main"] = "notify" /\ "r" \in events'[c]
    BY <1>0, <2>1, <2>2, Movers, MovesPc DEF Begins
  <2>4. SafeFor(c)'
    BY <2>1, <2>2, <2>3, OpeningKept DEF Opening, OpeningPCs
  <2>5. ASSUME NEW d \in Channels, d # c PROVE DataKept(d)
    <3>1. Backlog' = Append(Backlog, c) /\ Backlog \in Seq(Channels)
      BY <1>0, <2>2, BacklogType, BacklogGrows
    <3>2. Elements(Backlog') = Elements(Backlog) \cup {c}
      BY <3>1, AppendEntries
    <3> QED
      BY <2>2, <2>5, <3>2 DEF DataKept, Posted
  <2> QED
    BY <2>1, <2>2, <2>3, <2>4, <2>5, MainStepSafe
<1>4. CASE Notify("main")
  <2>1. /\ Moves("main", "idle")
        /\ UNCHANGED <<pending, batch, ready, events, live, registered, accepted, refused, fate>>
    BY <1>0, <1>4, Movers DEF Notify, Known, CallInv, channelVars, kernelVars, callerVars, historyVars
  <2>2. ASSUME NEW d \in Channels PROVE SafeFor(d)'
    BY <1>0, <2>1, KeptData, MainElsewhere DEF Known, AllSafe, OpeningPCs
  <2> QED
    BY <2>1, <2>2 DEF Known, AllSafe
<1>5. ~CloseFd("main") /\ ~TouchFreed("main") /\ ~Leave("main")
  BY <1>0 DEF CloseFd, TouchFreed, Leave, HasBuffer
<1>6. ~SendPartial("main") /\ ~SendFails("main") /\ ~BeginDispatch("main")
  BY <1>0 DEF SendPartial, SendFails, BeginDispatch
<1>7. ~Dispatch("main") /\ ~LinkBuffer("main") /\ ~Close("main") /\ ~CloseDeferred("main")
  BY <1>0 DEF Dispatch, LinkBuffer, Close, CloseDeferred, ClosePCs
<1> QED
  BY <1>1, <1>2, <1>3, <1>4, <1>5, <1>6, <1>7 DEF ThreadStep, ChannelStep

LEMMA CallerSafe ==
  ASSUME Known, CallerStep
  PROVE  AllSafe'
<1>0. "main" \in Threads /\ TypeOK
  BY DEF Threads, Known
<1>1. ASSUME NEW c \in Channels, Accept(c) PROVE AllSafe'
  <2>1. /\ c \notin accepted /\ accepted' = accepted \cup {c}
        /\ Call("main", c, "r", TRUE, "idle")
        /\ UNCHANGED <<pending, batch, ready, events, live, registered, refused, fate>>
    BY <1>1 DEF Accept, loopVars, channelVars, kernelVars, historyVars
  <2> DEFINE k == [call["main"] EXCEPT !.bit = "r", !.on = TRUE, !.ret = "idle"]
  <2>2. k.on /\ k.bit = "r"
    BY <1>0 DEF TypeOK, ThreadType, CallsOf
  <2>3. Moves("main", "load")
    BY <1>0, <2>1, Movers
  <2>4. chan'["main"] = c /\ pc'["main"] = "load" /\ call'["main"] = k
    BY <1>0, <2>1, <2>3, MovesPc DEF Call, TypeOK, ThreadType
  <2> HIDE DEF k
  <2>5. SafeFor(c) /\ Turns(c)
    BY CgiAsleep DEF Known, AllSafe
  <2>6. SafeFor(c)'
    <3>1. chan'["loop"] = chan["loop"]
      BY <1>0, <2>3, MovesPc DEF Threads
    <3>2. live[c] /\ events[c] = {} /\ ~Posted(c) /\ Untouched(c)
      BY <2>1, <2>5 DEF SafeFor, Turns
    <3>3. ~Posted(c)'
      BY <2>1, <3>2, SameBacklog
    <3>4. Begins(c)'
      BY <2>1, <2>2, <2>4, <3>2 DEF Begins
    <3> QED
      BY <2>1, <3>1, <3>2, <3>3, <3>4 DEF SafeFor, Untouched
  <2>7. ASSUME NEW d \in Channels, d # c PROVE SafeFor(d)'
    <3>1. DataKept(d)
      BY <2>1, SameBacklog DEF DataKept
    <3> QED
      BY <1>0, <2>3, <2>4, <2>7, <3>1, MainElsewhere DEF Known, AllSafe
  <2> QED
    BY <2>1, <2>6, <2>7 DEF Known, AllSafe
<1>2. ~CgiBegin /\ ~CgiComplete
  BY CgiAsleep DEF CgiBegin, CgiComplete
<1> QED
  BY <1>1, <1>2 DEF CallerStep

LEMMA CgiThreadAsleep ==
  ASSUME Known
  PROVE  ~ThreadStep("cgi")
<1>1. pc["cgi"] = "idle"
  BY CgiAsleep
<1>2. ~ChannelStep("cgi")
  BY <1>1 DEF ChannelStep, ChannelLoad, ChannelStore, Update, Notify, CloseFd
<1>3. ~TouchFreed("cgi") /\ ~Leave("cgi") /\ ~SendPartial("cgi") /\ ~SendFails("cgi")
  BY <1>1 DEF TouchFreed, HasBuffer, Leave, SendPartial, SendFails
<1>4. ~BeginDispatch("cgi") /\ ~Dispatch("cgi") /\ ~LinkBuffer("cgi")
  BY <1>1 DEF BeginDispatch, Dispatch, LinkBuffer
<1>5. ~Close("cgi") /\ ~CloseDeferred("cgi")
  BY <1>1 DEF Close, CloseDeferred, ClosePCs
<1> QED
  BY <1>2, <1>3, <1>4, <1>5 DEF ThreadStep

\* A static run has been static all along.
LEMMA StaticBefore ==
  ASSUME TypeOK, [Next]_vars, Static'
  PROVE  Static
<1>0. SUFFICES ASSUME handed' # handed PROVE Static
  BY DEF Static
<1>1. ASSUME NEW t \in Threads, ThreadStep(t) PROVE Static
  <2>1. CASE Dispatch(t)
    <3>1. handed' = Append(handed, chan[t]) /\ handed \in Seq(Channels) /\ chan[t] \in Channels
      BY <2>1 DEF Dispatch, TypeOK, SharedType, ThreadType, RestPCs
    <3>2. handed' # <<>>
      BY <3>1
    <3> QED
      BY <3>2 DEF Static
  <2>2. CASE ChannelStep(t)
    BY <1>0, <2>2 DEF ChannelStep, ChannelLoad, ChannelStore, Update, Notify, CloseFd, Die,
                      callerVars
  <2>3. CASE TouchFreed(t)
    BY <1>0, <2>3 DEF TouchFreed, Die, callerVars
  <2>4. CASE Leave(t) \/ SendPartial(t) \/ BeginDispatch(t)
    BY <1>0, <2>4 DEF Leave, SendPartial, BeginDispatch, callerVars
  <2>5. CASE SendFails(t) \/ LinkBuffer(t) \/ Close(t) \/ CloseDeferred(t)
    BY <1>0, <2>5 DEF SendFails, LinkBuffer, Close, CloseDeferred, ChannelFree, callerVars
  <2> QED
    BY <1>1, <2>1, <2>2, <2>3, <2>4, <2>5 DEF ThreadStep
<1>2. CASE LoopStep
  BY <1>0, <1>2
     DEF LoopStep, LoopSetThread, EpollWait, ReadEventfd, SwapPending, ApplyNext,
         Fire, WriteAll, Written, ModifyCtl, ModifyClear, Die, callerVars
<1>3. CASE CallerStep
  BY <1>0, <1>3 DEF CallerStep, Accept, CgiBegin, CgiComplete, callerVars
<1>4. CASE UNCHANGED vars
  BY <1>0, <1>4 DEF vars, callerVars
<1> QED
  BY <1>1, <1>2, <1>3, <1>4 DEF Next

LEMMA StaticStaysSafe == Spec => []SafeInv
<1>1. Init => SafeInv
  <2> SUFFICES ASSUME Init, NEW c \in Channels PROVE SafeFor(c)
    BY DEF Init, SafeInv, AllSafe
  <2>1. ~Posted(c)
    BY DEF Init, Posted, Backlog, Elements
  <2>2. \A t \in Threads : chan[t] # c
    BY NoChannelAssumption DEF Init
  <2> QED
    BY <2>1, <2>2 DEF Init, SafeFor, Opening, Threads
<1>2. TypeOK /\ CallInv /\ InterestInv /\ StaticInv /\ SafeInv /\ [Next]_vars => SafeInv'
  <2> SUFFICES ASSUME TypeOK, CallInv, InterestInv, StaticInv, SafeInv, [Next]_vars, Static'
               PROVE  AllSafe' \/ EndedRefused'
    BY DEF SafeInv
  <2>1. Static /\ (AllSafe \/ EndedRefused)
    BY StaticBefore DEF SafeInv
  <2>2. CASE EndedRefused
    <3>1. UNCHANGED vars
      BY <2>2 DEF EndedRefused, Next
    <3> QED
      BY <2>2, <3>1 DEF EndedRefused, vars, channelVars, historyVars
  <2>3. CASE AllSafe /\ UNCHANGED vars
    <3>1. ASSUME NEW c \in Channels PROVE SafeFor(c)'
      <4>1. DataKept(c)
        BY <2>3, KeptData DEF vars, loopVars, channelVars, kernelVars, callerVars, historyVars
      <4> QED
        BY <2>3, <4>1, SafeFrame DEF AllSafe, Opening, vars
    <3> QED
      BY <2>3, <3>1 DEF AllSafe, vars
  <2>4. CASE AllSafe /\ Next
    <3>1. Known
      BY <2>1, <2>4 DEF Known
    <3>2. CASE \E t \in Threads : ThreadStep(t)
      BY <3>1, <3>2, LoopThreadSafe, MainThreadSafe, CgiThreadAsleep DEF Threads
    <3> QED
      BY <2>4, <3>1, <3>2, LoopStepSafe, CallerSafe DEF Next
  <2> QED
    BY <2>1, <2>2, <2>3, <2>4
<1> QED
  BY <1>1, <1>2, TypeCorrect, CallsReturn, InterestInvariant, TurnsTaken, PTL DEF Spec

\* As long as no request is dynamic, in whatever order the loop gets its events and for
\* any number of connections, no assertion on a Channel fails (the handlers of
\* tcpconn.c, ChannelShutDownWrite, the four mask calls), and freed memory is used in one
\* place only: in the read handler that goes on after TCPConnSend was refused and freed
\* the connection under it (tcpconn.c:21, parse.c:260).
THEOREM StaticSafe == Spec => []StaticRunsSafe
<1>1. SafeInv => StaticRunsSafe
  BY DEF SafeInv, AllSafe, EndedRefused, Static, StaticRunsSafe
<1> QED
  BY <1>1, StaticStaysSafe, PTL
=============================================================================
