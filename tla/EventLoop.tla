------------------------------ MODULE EventLoop ------------------------------
(***************************************************************************)
(* A worker EventLoop (src/src/eventloop.c) and the threads that use the   *)
(* Channels assigned to it:                                                *)
(*                                                                         *)
(*   "loop"  the worker thread that runs Loop(), its handlers, and         *)
(*           evtfdHandleRead;                                              *)
(*   "main"  the acceptor's thread, which registers a fresh connection;    *)
(*   "cgi"   the CGI consumer thread, which answers a dynamic request and  *)
(*           switches reading back on (cgi.c, HTTPSendComplete).           *)
(*                                                                         *)
(* The interest mask of a Channel (events), its single outstanding epoll   *)
(* operation (op) and the list pendingChannels are shared; only the list   *)
(* is under a mutex.  Each access the threads can interleave on is a step. *)
(* What the connection does with its bytes is abstracted to the Channel    *)
(* calls a handler may make.                                               *)
(***************************************************************************)
EXTENDS Naturals, Sequences, FiniteSets

CONSTANTS
  Channels,    \* the Channel objects assigned to this loop
  NoChannel,   \* what a thread at rest is working on
  MaxDispatch, \* bound: dynamic requests handed to the CGI thread
  MaxPending   \* bound: entries of pendingChannels (the code's array grows)

ASSUME NoChannelAssumption == NoChannel \notin Channels
ASSUME BoundsAssumption == MaxDispatch \in Nat /\ MaxPending \in Nat

Threads == {"loop", "main", "cgi"}
Bits    == {"r", "w"}                       \* readEvent, writeEvent
Ops     == {"none", "ADD", "MOD", "DEL"}    \* Channel.op, "none" is 0
Fates   == {"run", "assert", "uaf"}         \* how the process stands

\* What epoll_wait can report: a channel and a bit, or the eventfd.
EventFd == <<NoChannel, "r">>
Reports == (Channels \X Bits) \cup {EventFd}

(***************************************************************************)
(* Program counters: inside a Channel call, at rest, or between two calls  *)
(* of a handler.  Only the loop is ever inside modifyChannel ("ctl",       *)
(* "clear").                                                               *)
(***************************************************************************)
InCall   == {"load", "store", "update", "ctl", "clear", "close"}
RestPCs  == {"boot", "wait", "swap", "apply", "idle"}
LoopPCs  == {"boot", "wait", "swap", "apply", "reading", "writing",
             "written", "dispatch", "pushed"} \cup InCall
OtherPCs == {"idle", "serve", "tail", "dispatch", "pushed", "load", "store",
             "update", "notify", "close"}
PCs      == LoopPCs \cup OtherPCs
PCsOf(t) == IF t = "loop" THEN LoopPCs ELSE OtherPCs

\* Where a thread waits for its next piece of work.
Home(t) == IF t = "loop" THEN "wait" ELSE "idle"

\* The locals of a Channel call: the bit and its direction, the mask and the
\* operation computed, where the call returns to, and where TCPConnClose does.
CallsOf(t) == [bit : Bits, on : BOOLEAN, ev : SUBSET Bits, op : Ops,
               ret : PCsOf(t), back : PCsOf(t)]

NoCall(t) == [bit |-> "r", on |-> TRUE, ev |-> {}, op |-> "none",
              ret |-> Home(t), back |-> Home(t)]

VARIABLES
  evtReady,    \* LoopSetThread has created the eventfd of this loop
  signalled,   \* the eventfd counter is positive
  pending,     \* EventLoop.pendingChannels
  batch,       \* the local array of evtfdHandleRead
  ready,       \* what epoll_wait reported and Loop has not handled yet
  events,      \* Channel.events
  op,          \* Channel.op
  live,        \* the Channel's memory has not been freed
  registered,  \* the fd is in the kernel's epoll set ...
  interest,    \* ... with this mask
  pc,          \* where each thread stands ...
  chan,        \* ... the channel it is working on ...
  call,        \* ... and the locals of the Channel call it is in
  accepted,    \* connections the acceptor has given to this loop
  cgiQueue,    \* requests pushed by CGIPush
  linked,      \* channels whose HTTPClient.buffer has been assigned
  closed,      \* channels whose TCPConn.closed is set
  handed,      \* history: the channels given to the CGI thread, in order
  overlapped,  \* history: channels on which two Channel calls overlapped
  stray,       \* history: a wakeup was written before the eventfd existed
  refused,     \* history: channels whose connection a refused send has freed
  fate         \* "assert": abort(); "uaf": the address sanitizer stopped it

loopVars    == <<evtReady, signalled, pending, batch, ready>>
channelVars == <<events, op, live>>
kernelVars  == <<registered, interest>>
callerVars  == <<accepted, cgiQueue, linked, closed, handed>>
historyVars == <<overlapped, stray, refused>>
vars == <<loopVars, channelVars, kernelVars, pc, chan, call, callerVars,
          historyVars, fate>>

Init ==
  /\ evtReady = FALSE /\ signalled = FALSE
  /\ pending = <<>> /\ batch = <<>> /\ ready = {}
  /\ events = [c \in Channels |-> {}]
  /\ op = [c \in Channels |-> "none"]
  /\ live = [c \in Channels |-> TRUE]
  /\ registered = [c \in Channels |-> FALSE]
  /\ interest = [c \in Channels |-> {}]
  /\ pc = [t \in Threads |-> IF t = "loop" THEN "boot" ELSE "idle"]
  /\ chan = [t \in Threads |-> NoChannel]
  /\ call = [t \in Threads |-> NoCall(t)]
  /\ accepted = {} /\ cgiQueue = <<>> /\ linked = {} /\ closed = {} /\ handed = <<>>
  /\ overlapped = {} /\ stray = FALSE /\ refused = {} /\ fate = "run"

-----------------------------------------------------------------------------
(* Helpers.                                                                *)

Goto(t, l) == pc' = [pc EXCEPT ![t] = l]

\* The call returns to where it was made from; ChannelFree goes on with its
\* caller TCPConnClose, which still has to return to its own.
Return(t) ==
  /\ Goto(t, call[t].ret)
  /\ call' = [call EXCEPT ![t] = IF @.ret = "close" THEN @ ELSE NoCall(t)]
  /\ chan' = [chan EXCEPT ![t] = IF call[t].ret = Home(t) THEN NoChannel ELSE @]

\* The thread is through with the channel.
Rest(t) ==
  /\ Goto(t, Home(t))
  /\ chan' = [chan EXCEPT ![t] = NoChannel]
  /\ call' = [call EXCEPT ![t] = NoCall(t)]

Die(how) ==
  /\ fate' = how
  /\ UNCHANGED <<loopVars, channelVars, kernelVars, pc, chan, call, callerVars,
                 historyVars>>

\* Thread t begins ChannelEnable/Disable{Reading,Writing}(c); it goes on at
\* ret when the call returns.
Call(t, c, bit, on, ret) ==
  /\ chan' = [chan EXCEPT ![t] = c]
  /\ call' = [call EXCEPT ![t] = [@ EXCEPT !.bit = bit, !.on = on, !.ret = ret]]
  /\ Goto(t, "load")

\* Mutant: a first bit is switched on with MOD.
OpForNoAdd(on, old, new) == IF new = {} THEN "DEL" ELSE "MOD"

\* The operation the four Channel calls choose: the old mask decides between
\* ADD and MOD when a bit is switched on, the new one between DEL and MOD when
\* it is switched off.
OpFor(on, old, new) ==
  IF on THEN (IF old = {} THEN "ADD" ELSE "MOD")
        ELSE (IF new = {} THEN "DEL" ELSE "MOD")

\* What epoll_ctl does: a refused operation only writes a log line.
EpollCtl(c, o, ev) ==
  \/ /\ o = "ADD" /\ ~registered[c]
     /\ registered' = [registered EXCEPT ![c] = TRUE]
     /\ interest' = [interest EXCEPT ![c] = ev]
  \/ /\ o = "MOD" /\ registered[c]
     /\ interest' = [interest EXCEPT ![c] = ev]
     /\ UNCHANGED registered
  \/ /\ o = "DEL" /\ registered[c]
     /\ registered' = [registered EXCEPT ![c] = FALSE]
     /\ interest' = [interest EXCEPT ![c] = {}]
  \/ /\ \/ o = "none"
        \/ o = "ADD" /\ registered[c]
        \/ o \in {"MOD", "DEL"} /\ ~registered[c]
     /\ UNCHANGED kernelVars

-----------------------------------------------------------------------------
(* The Channel calls, step by step, by any thread.                         *)

Elements(seq) == {seq[i] : i \in DOMAIN seq}

\* An operation on c is recorded but not applied, or a thread other than t is
\* in the middle of one.
Unsettled(t, c) ==
  \/ c \in Elements(pending) \cup Elements(batch)
  \/ \E u \in Threads \ {t} : chan[u] = c /\ pc[u] \in InCall

NoteOverlap(t, c) ==
  overlapped' = IF Unsettled(t, c) THEN overlapped \cup {c} ELSE overlapped

\* The assertion on the bit and the load of the mask.
ChannelLoad(t) ==
  /\ pc[t] = "load"
  /\ LET c   == chan[t]
         f   == call[t]
         old == events[c]
         new == IF f.on THEN old \cup {f.bit} ELSE old \ {f.bit}
     IN \/ ~live[c] /\ Die("uaf")
        \/ live[c] /\ (f.bit \in old) = f.on /\ Die("assert")
        \/ /\ live[c] /\ (f.bit \in old) # f.on
           /\ call' = [call EXCEPT ![t] = [@ EXCEPT !.ev = new,
                                             !.op = OpFor(f.on, old, new)]]
           /\ Goto(t, "store")
           /\ NoteOverlap(t, c)
           /\ UNCHANGED <<loopVars, channelVars, kernelVars, chan, callerVars,
                          stray, refused, fate>>

\* The store of the new mask.
ChannelStore(t) ==
  /\ pc[t] = "store"
  /\ IF live[chan[t]]
     THEN /\ events' = [events EXCEPT ![chan[t]] = call[t].ev]
          /\ Goto(t, "update")
          /\ UNCHANGED <<loopVars, op, live, kernelVars, chan, call, callerVars,
                         historyVars, fate>>
     ELSE Die("uaf")

\* Mutant: every thread applies its operation itself.
UpdateInPlace(t) ==
  /\ pc[t] = "update"
  /\ live[chan[t]]
  /\ op' = [op EXCEPT ![chan[t]] = call[t].op]
  /\ Goto(t, "ctl")
  /\ UNCHANGED <<loopVars, events, live, kernelVars, chan, call, callerVars,
                 historyVars, fate>>

\* update(): record the operation; the loop's own thread applies it at once,
\* any other thread puts the channel on pendingChannels, under the lock.
Update(t) ==
  /\ pc[t] = "update"
  /\ LET c == chan[t] IN
     IF live[c]
     THEN /\ op' = [op EXCEPT ![c] = call[t].op]
          /\ IF t = "loop"
             THEN Goto(t, "ctl") /\ UNCHANGED pending
             ELSE /\ Len(pending) < MaxPending
                  /\ pending' = Append(pending, c)
                  /\ Goto(t, "notify")
          /\ UNCHANGED <<evtReady, signalled, batch, ready, events, live, kernelVars,
                         chan, call, callerVars, historyVars, fate>>
     ELSE Die("uaf")

\* Mutant: the poster does not write to the eventfd.
NotifyNobody(t) ==
  /\ pc[t] = "notify"
  /\ Return(t)
  /\ UNCHANGED <<loopVars, channelVars, kernelVars, callerVars, historyVars, fate>>

\* The write to the eventfd.  Before LoopSetThread the descriptor field is
\* still 0, so the eight bytes go to standard input and wake nobody.
Notify(t) ==
  /\ pc[t] = "notify"
  /\ Return(t)
  /\ IF evtReady
     THEN signalled' = TRUE /\ UNCHANGED stray
     ELSE stray' = TRUE /\ UNCHANGED signalled
  /\ UNCHANGED <<evtReady, pending, batch, ready, channelVars, kernelVars, callerVars,
                 overlapped, refused, fate>>

\* modifyChannel(), first half: epoll_ctl with the channel's mask and op.
ModifyCtl ==
  /\ pc["loop"] = "ctl"
  /\ LET c == chan["loop"] IN
     IF live[c]
     THEN /\ EpollCtl(c, op[c], events[c])
          /\ Goto("loop", "clear")
          /\ UNCHANGED <<loopVars, channelVars, chan, call, callerVars, historyVars, fate>>
     ELSE Die("uaf")

\* modifyChannel(), second half: chan->op = 0.
ModifyClear ==
  /\ pc["loop"] = "clear"
  /\ LET c == chan["loop"] IN
     IF live[c]
     THEN /\ op' = [op EXCEPT ![c] = "none"]
          /\ Return("loop")
          /\ UNCHANGED <<loopVars, events, live, kernelVars, callerVars, historyVars,
                         fate>>
     ELSE Die("uaf")

\* Mutant: the connection is closed at once although output is waiting.
CloseAnyway(t, c, back) ==
  /\ live[c]
  /\ events' = [events EXCEPT ![c] = {}]
  /\ call' = [call EXCEPT ![t] = [@ EXCEPT !.op = "DEL",
                                    !.ret = "close", !.back = back]]
  /\ Goto(t, "update")
  /\ NoteOverlap(t, c)
  /\ UNCHANGED <<loopVars, op, live, kernelVars, chan, callerVars, stray, fate>>

\* ChannelFree(), called by TCPConnClose when no output is waiting: the mask is
\* cleared and DEL requested ...
ChannelFree(t, c, back) ==
  /\ live[c] /\ "w" \notin events[c]
  /\ events' = [events EXCEPT ![c] = {}]
  /\ call' = [call EXCEPT ![t] = [@ EXCEPT !.op = "DEL",
                                    !.ret = "close", !.back = back]]
  /\ Goto(t, "update")
  /\ NoteOverlap(t, c)
  /\ UNCHANGED <<loopVars, op, live, kernelVars, chan, callerVars, stray, fate>>

\* ... then the fd is closed, which takes it out of the epoll set, and the
\* connection that contains the Channel is freed.  After TCPConnClose the thread
\* is through, as a rule; a TCPConnSend that failed returns into the handler.
CloseFd(t) ==
  /\ pc[t] = "close"
  /\ LET c == chan[t] IN
     IF live[c]
     THEN /\ registered' = [registered EXCEPT ![c] = FALSE]
          /\ interest' = [interest EXCEPT ![c] = {}]
          /\ live' = [live EXCEPT ![c] = FALSE]
          /\ closed' = closed \ {c}
          /\ IF call[t].back = Home(t)
             THEN Rest(t)
             ELSE /\ Goto(t, call[t].back)
                  /\ call' = [call EXCEPT ![t] = NoCall(t)]
                  /\ UNCHANGED chan
          /\ UNCHANGED <<loopVars, events, op, accepted, cgiQueue, linked, handed,
                         historyVars, fate>>
     ELSE Die("uaf")

ChannelStep(t) ==
  \/ ChannelLoad(t) \/ ChannelStore(t) \/ Update(t) \/ Notify(t) \/ CloseFd(t)

-----------------------------------------------------------------------------
(* The loop thread: boot, epoll_wait, evtfdHandleRead, handlers.           *)

LoopSetThread ==
  /\ pc["loop"] = "boot"
  /\ evtReady' = TRUE
  /\ Goto("loop", "wait")
  /\ UNCHANGED <<signalled, pending, batch, ready, channelVars, kernelVars, chan, call,
                 callerVars, historyVars, fate>>

\* What may be ready: which sockets have data or room, or were reset, is up to the
\* peers.  EPOLLHUP, which Loop treats like EPOLLIN, needs no bit in the mask.
Reportable ==
  {e \in Channels \X Bits : registered[e[1]] /\ (e[2] = "r" \/ e[2] \in interest[e[1]])}
    \cup (IF signalled THEN {EventFd} ELSE {})

\* epoll_wait reports some of the descriptors that are ready, 200 at most.
EpollWait ==
  /\ pc["loop"] = "wait" /\ ready = {}
  /\ ready' \in SUBSET Reportable \ {{}}
  /\ UNCHANGED <<evtReady, signalled, pending, batch, channelVars, kernelVars, pc,
                 chan, call, callerVars, historyVars, fate>>

\* evtfdHandleRead reads the eventfd down to zero.
ReadEventfd ==
  /\ pc["loop"] = "wait" /\ EventFd \in ready
  /\ ready' = ready \ {EventFd}
  /\ signalled' = FALSE
  /\ Goto("loop", "swap")
  /\ UNCHANGED <<evtReady, pending, batch, channelVars, kernelVars, chan, call,
                 callerVars, historyVars, fate>>

\* Mutant: the list is copied and not emptied.
CopyPending ==
  /\ pc["loop"] = "swap"
  /\ batch' = pending /\ stray' = FALSE
  /\ Goto("loop", "apply")
  /\ UNCHANGED <<evtReady, signalled, pending, ready, channelVars, kernelVars, chan, call,
                 callerVars, overlapped, refused, fate>>

\* DArraySwap under the lock: the loop takes the whole list.
SwapPending ==
  /\ pc["loop"] = "swap"
  /\ batch' = pending /\ pending' = <<>> /\ stray' = FALSE
  /\ Goto("loop", "apply")
  /\ UNCHANGED <<evtReady, signalled, ready, channelVars, kernelVars, chan, call,
                 callerVars, overlapped, refused, fate>>

\* modifyChannel for each entry of the array, in order.
ApplyNext ==
  /\ pc["loop"] = "apply"
  /\ IF batch = <<>>
     THEN Rest("loop") /\ UNCHANGED batch
     ELSE /\ chan' = [chan EXCEPT !["loop"] = Head(batch)]
          /\ call' = [call EXCEPT !["loop"] = [@ EXCEPT !.ret = "apply"]]
          /\ batch' = Tail(batch)
          /\ Goto("loop", "ctl")
  /\ UNCHANGED <<evtReady, signalled, pending, ready, channelVars, kernelVars,
                 callerVars, historyVars, fate>>

\* Loop handles one report: for one channel handleRead comes before handleWrite.
\* The handlers begin with assert(Channel{Reading,Writing}Enabled(ch)).
Fire(c, bit) ==
  /\ pc["loop"] = "wait" /\ <<c, bit>> \in ready
  /\ bit = "w" => <<c, "r">> \notin ready
  /\ \/ ~live[c] /\ Die("uaf")
     \/ live[c] /\ bit \notin events[c] /\ Die("assert")
     \/ /\ live[c] /\ bit \in events[c]
        /\ ready' = ready \ {<<c, bit>>}
        /\ chan' = [chan EXCEPT !["loop"] = c]
        /\ Goto("loop", IF bit = "r" THEN "reading" ELSE "writing")
        /\ UNCHANGED <<evtReady, signalled, pending, batch, channelVars, kernelVars,
                       call, callerVars, historyVars, fate>>

\* The CGI thread parses on from client->buffer, which must have been assigned.
HasBuffer(t) == pc[t] = "tail" => chan[t] \in linked

\* A thread that is inside a handler touches the connection it serves, or a buffer
\* that nobody has set.
TouchFreed(t) ==
  /\ \/ pc[t] \in {"reading", "writing", "written", "serve", "tail", "pushed"} /\ ~live[chan[t]]
     \/ ~HasBuffer(t)
  /\ Die("uaf")

\* The handler, or the CGI thread, is through with the connection.  It may be
\* freed by then: a refused answer to a POST outside /cgi is not followed by a use.
Leave(t) ==
  /\ pc[t] \in {"reading", "writing", "tail"} /\ HasBuffer(t)
  /\ Rest(t)
  /\ UNCHANGED <<loopVars, channelVars, kernelVars, callerVars, historyVars, fate>>

\* TCPConnSend wrote only part of the output: ask for EPOLLOUT.
SendPartial(t) ==
  /\ pc[t] \in {"reading", "serve", "tail"} /\ HasBuffer(t)
  /\ LET c == chan[t] IN
       live[c] /\ "w" \notin events[c] /\ Call(t, c, "w", TRUE, pc[t])
  /\ UNCHANGED <<loopVars, channelVars, kernelVars, callerVars, historyVars, fate>>

\* TCPConnSend was refused (the peer has reset the connection): it closes and
\* frees the connection and returns into the handler.
SendFails(t) ==
  /\ pc[t] \in {"reading", "serve", "tail"} /\ HasBuffer(t)
  /\ ChannelFree(t, chan[t], pc[t])
  /\ refused' = refused \cup {chan[t]}

\* TCPConnHandleWrite wrote all that was left ...
WriteAll ==
  /\ pc["loop"] = "writing" /\ live[chan["loop"]]
  /\ Call("loop", chan["loop"], "w", FALSE, "written")
  /\ UNCHANGED <<loopVars, channelVars, kernelVars, callerVars, historyVars, fate>>

\* ... and then looks at closed: a close that had to wait is carried out as a
\* ChannelShutDownWrite, which asserts that no output has been left over since.
Written ==
  /\ pc["loop"] = "written" /\ live[chan["loop"]]
  /\ IF chan["loop"] \in closed /\ "w" \in events[chan["loop"]]
     THEN Die("assert")
     ELSE /\ Rest("loop")
          /\ UNCHANGED <<loopVars, channelVars, kernelVars, callerVars, historyVars, fate>>

\* HTTPClientHandleMessage parsed a dynamic request: reading is switched off ...
BeginDispatch(t) ==
  /\ pc[t] \in {"reading", "tail"} /\ HasBuffer(t)
  /\ live[chan[t]] /\ Len(handed) < MaxDispatch
  /\ Call(t, chan[t], "r", FALSE, "dispatch")
  /\ UNCHANGED <<loopVars, channelVars, kernelVars, callerVars, historyVars, fate>>

\* ... the client is put on the CGI queue ...
Dispatch(t) ==
  /\ pc[t] = "dispatch"
  /\ cgiQueue' = Append(cgiQueue, chan[t])
  /\ handed' = Append(handed, chan[t])
  /\ Goto(t, "pushed")
  /\ UNCHANGED <<loopVars, channelVars, kernelVars, chan, call, accepted, linked,
                 closed, historyVars, fate>>

\* ... and only then client->buffer is assigned.
LinkBuffer(t) ==
  /\ pc[t] = "pushed" /\ live[chan[t]]
  /\ linked' = linked \cup {chan[t]}
  /\ Rest(t)
  /\ UNCHANGED <<loopVars, channelVars, kernelVars, accepted, cgiQueue, closed,
                 handed, historyVars, fate>>

\* Where TCPConnClose returns to: the thread is through with the connection, but
\* when the second wait for the CGI child fails processRequest goes on.
ClosePCs == {"reading", "writing", "serve", "tail"}
BackFromClose(t) == {Home(t)} \cup ({"serve"} \cap {pc[t]})

\* TCPConnClose with no output waiting: the peer is gone, a response that ends
\* the connection was sent, or a request failed.
Close(t) ==
  /\ pc[t] \in ClosePCs /\ HasBuffer(t)
  /\ \E back \in BackFromClose(t) : ChannelFree(t, chan[t], back)
  /\ UNCHANGED refused

\* TCPConnClose while output is waiting, also after a write error in
\* TCPConnHandleWrite: the connection is only marked.
CloseDeferred(t) ==
  /\ pc[t] \in ClosePCs /\ HasBuffer(t)
  /\ live[chan[t]] /\ "w" \in events[chan[t]]
  /\ closed' = closed \cup {chan[t]}
  /\ \/ Rest(t)
     \/ pc[t] = "serve" /\ UNCHANGED <<pc, chan, call>>
  /\ UNCHANGED <<loopVars, channelVars, kernelVars, accepted, cgiQueue, linked, handed,
                 historyVars, fate>>

-----------------------------------------------------------------------------
(* The acceptor's thread and the CGI thread.                               *)

\* TCPConnHandleNewConn: ChannelInit, then ChannelEnableReading.
Accept(c) ==
  /\ pc["main"] = "idle" /\ c \notin accepted
  /\ accepted' = accepted \cup {c}
  /\ Call("main", c, "r", TRUE, "idle")
  /\ UNCHANGED <<loopVars, channelVars, kernelVars, cgiQueue, linked, closed, handed,
                 historyVars, fate>>

\* The consumer thread takes the next request of its queue.
CgiBegin ==
  /\ pc["cgi"] = "idle" /\ cgiQueue # <<>>
  /\ cgiQueue' = Tail(cgiQueue)
  /\ chan' = [chan EXCEPT !["cgi"] = Head(cgiQueue)]
  /\ Goto("cgi", "serve")
  /\ UNCHANGED <<loopVars, channelVars, kernelVars, call, accepted, linked, closed,
                 handed, historyVars, fate>>

\* HTTPSendComplete: reading is switched on, and then the requests already in
\* the input buffer are parsed, still in this thread.
CgiComplete ==
  /\ pc["cgi"] = "serve" /\ live[chan["cgi"]]
  /\ Call("cgi", chan["cgi"], "r", TRUE, "tail")
  /\ UNCHANGED <<loopVars, channelVars, kernelVars, callerVars, historyVars, fate>>

-----------------------------------------------------------------------------
ThreadStep(t) ==
  \/ ChannelStep(t) \/ TouchFreed(t) \/ Leave(t) \/ SendPartial(t)
  \/ SendFails(t) \/ BeginDispatch(t) \/ Dispatch(t) \/ LinkBuffer(t) \/ Close(t)
  \/ CloseDeferred(t)

LoopStep ==
  \/ LoopSetThread \/ EpollWait \/ ReadEventfd \/ SwapPending \/ ApplyNext
  \/ \E c \in Channels, bit \in Bits : Fire(c, bit)
  \/ WriteAll \/ Written \/ ModifyCtl \/ ModifyClear

CallerStep ==
  \/ \E c \in Channels : Accept(c)
  \/ CgiBegin \/ CgiComplete

Next ==
  /\ fate = "run"
  /\ LoopStep \/ CallerStep \/ \E t \in Threads : ThreadStep(t)

Spec == Init /\ [][Next]_vars

(***************************************************************************)
(* Fairness: a thread that can take a step of its own takes one.  The      *)
(* kernel reports ready descriptors in rotation, so a signalled eventfd is *)
(* reported sooner or later; and Loop handles every report it was given.   *)
(* New connections are the environment's and are owed nothing.             *)
(***************************************************************************)
LoopProgress == fate = "run" /\ (LoopStep \/ ThreadStep("loop"))
MainProgress == fate = "run" /\ ThreadStep("main")
CgiProgress  == fate = "run" /\ (CgiBegin \/ CgiComplete \/ ThreadStep("cgi"))

FairSpec ==
  /\ Spec
  /\ WF_vars(LoopProgress) /\ WF_vars(MainProgress) /\ WF_vars(CgiProgress)
  /\ SF_vars(fate = "run" /\ EpollWait /\ EventFd \in ready')

-----------------------------------------------------------------------------
(* Properties.                                                             *)

SharedType ==
  /\ evtReady \in BOOLEAN /\ signalled \in BOOLEAN
  /\ pending \in Seq(Channels) /\ batch \in Seq(Channels)
  /\ ready \in SUBSET Reports
  /\ events \in [Channels -> SUBSET Bits]
  /\ op \in [Channels -> Ops]
  /\ live \in [Channels -> BOOLEAN]
  /\ registered \in [Channels -> BOOLEAN]
  /\ interest \in [Channels -> SUBSET Bits]
  /\ accepted \in SUBSET Channels /\ linked \in SUBSET Channels
  /\ closed \in SUBSET Channels
  /\ cgiQueue \in Seq(Channels) /\ handed \in Seq(Channels)
  /\ overlapped \in SUBSET Channels /\ refused \in SUBSET Channels
  /\ stray \in BOOLEAN /\ fate \in Fates

ThreadType ==
  /\ pc \in [Threads -> PCs]
  /\ chan \in [Threads -> Channels \cup {NoChannel}]
  /\ DOMAIN call = Threads
  /\ \A t \in Threads :
       /\ pc[t] \in PCsOf(t)
       /\ call[t] \in CallsOf(t)
       /\ pc[t] \notin RestPCs => chan[t] \in Channels

\* Types and bounds; in particular only the loop's own thread is ever inside
\* modifyChannel ("ctl", "clear"), which is what its assertion on
\* pthread_self() demands, and no thread is in a Channel call without a channel.
TypeOK == SharedType /\ ThreadType

\* No lost wakeup: a channel on pendingChannels has a wakeup on its way.  The
\* push and the write to the eventfd are separate steps of the poster, the
\* read of the eventfd and the swap of the list separate steps of the loop.
\* The one exception is a wakeup written before the loop had its eventfd.
NoLostWakeup ==
  pending # <<>> =>
    \/ signalled
    \/ pc["loop"] = "swap"
    \/ \E t \in {"main", "cgi"} : pc[t] = "notify"
    \/ stray

\* Nothing is outstanding on the channel: no call, and no operation to apply.
Settled(c) ==
  /\ live[c] /\ c \notin Elements(pending) \cup Elements(batch)
  /\ \A t \in Threads : chan[t] = c => pc[t] \notin InCall

InterestMatches(c) ==
  registered[c] = (events[c] # {}) /\ interest[c] = events[c]

\* As long as calls on a channel do not overlap, what the kernel watches is what
\* the channel asks for, once nothing is outstanding: the choice between ADD, MOD
\* and DEL was right each time, in whichever thread it was made.
InterestCoherent ==
  \A c \in Channels : Settled(c) /\ c \notin overlapped => InterestMatches(c)

\* Whatever happened to it, a connection that never had a dynamic request is
\* watched for what it asks for: the acceptor's ADD, applied by the loop later,
\* and the changes of the loop's own handlers never get into each other's way.
StaticCoherent ==
  \A c \in Channels :
    Settled(c) /\ c \notin Elements(handed) => InterestMatches(c)

\* A connection that never had a dynamic request is used by one thread at a time,
\* although the acceptor's thread opens it and the loop's thread serves it.
StaticCallsSerial ==
  \A c \in Channels : c \notin Elements(handed) => c \notin overlapped

\* Without a dynamic request no assertion on a Channel fails, and freed memory is
\* touched in one way only, in whatever order the loop gets its events: the read
\* handler goes on with a connection that its own refused send has freed.  No
\* report that Loop still has to handle is invalidated by a handler before it, and
\* no operation is applied to a channel that is gone.
StaticRunsSafe ==
  handed = <<>> =>
    \/ fate = "run"
    \/ /\ fate = "uaf" /\ pc["loop"] = "reading"
       /\ chan["loop"] \in refused /\ ~live[chan["loop"]]

\* evtfdHandleRead comes to apply every channel put on pendingChannels, whatever
\* else is ready and however often it is posted again, unless a wakeup has been
\* written before the loop had its eventfd.
PendingApplied ==
  \A c \in Channels :
    (c \in Elements(pending)) ~>
      \/ stray \/ fate # "run"
      \/ pc["loop"] = "ctl" /\ chan["loop"] = c /\ call["loop"].ret = "apply"

-----------------------------------------------------------------------------
(* Claims of the source that the code does not keep.                       *)

\* TCPConnHandleRead: assert(ChannelReadingEnabled(ch)).
ReadHandlerAssertion ==
  \A c \in Channels :
    pc["loop"] = "wait" /\ <<c, "r">> \in ready /\ live[c] => "r" \in events[c]

\* The program is built to stop at an access to freed memory: modifyChannel is
\* never given a Channel that was freed after it was posted.
ModifiesLiveChannel ==
  pc["loop"] \in {"ctl", "clear"} => live[chan["loop"]]
=============================================================================
