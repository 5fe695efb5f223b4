----------------------------- MODULE BlockQueue -----------------------------
(***************************************************************************)
(* A BlockQueue (src/src/utils.c) and its threads: any number push, one    *)
(* waits for a batch, handles it and waits again.  The log uses one        *)
(* (log.c), the CGI requests another (cgi.c).  The CGI consumer pushes     *)
(* itself: when it has answered a request it parses the next one of that   *)
(* connection, which may be dynamic too.                                   *)
(*                                                                         *)
(* Steps are the pthread calls and the accesses between them.  The mutex   *)
(* is not fair and pthread_cond_wait may return without a signal.          *)
(***************************************************************************)
EXTENDS Integers, Sequences, FiniteSets

CONSTANTS
  Producers,      \* the threads that only push
  Consumer,       \* the thread that runs consumer()
  Nobody,         \* holder of a free mutex
  ConsumerPushes, \* the consumer pushes while it handles an item (cgi.c)
  MaxItems        \* bound: items pushed

ASSUME ThreadAssumption ==
  /\ IsFiniteSet(Producers)
  /\ Consumer \notin Producers /\ Nobody \notin Producers \cup {Consumer}
  /\ ConsumerPushes \in BOOLEAN /\ MaxItems \in Nat

Threads == Producers \cup {Consumer}

VARIABLES
  data,      \* BlockQueue.data, a DArray
  mutex,     \* who holds BlockQueue.mutex
  array,     \* the consumer's DArray tmp
  done,      \* how many elements of tmp it has handled
  pc,        \* where each thread stands
  pushed,    \* history: items pushed so far; an item is its number
  delivered  \* history: the items handled, in order

vars == <<data, mutex, array, done, pc, pushed, delivered>>

Init ==
  /\ data = <<>> /\ mutex = Nobody /\ array = <<>> /\ done = 0
  /\ pc = [t \in Threads |-> IF t = Consumer THEN "enter" ELSE "idle"]
  /\ pushed = 0 /\ delivered = <<>>

-----------------------------------------------------------------------------
Goto(t, l) == pc' = [pc EXCEPT ![t] = l]

\* Where a thread is when it is not pushing.
Base(t) == IF t = Consumer THEN "handle" ELSE "idle"

\* pthread_mutex_lock and pthread_mutex_unlock.
Lock(t, from, to) ==
  /\ pc[t] = from /\ mutex = Nobody
  /\ mutex' = t
  /\ Goto(t, to)
  /\ UNCHANGED <<data, array, done, pushed, delivered>>

Unlock(t, from, to) ==
  /\ pc[t] = from
  /\ mutex' = Nobody
  /\ Goto(t, to)
  /\ UNCHANGED <<data, array, done, pushed, delivered>>

-----------------------------------------------------------------------------
(* BlockQueuePushBack.                                                     *)

PushBegin(t) ==
  /\ pc[t] = Base(t) /\ (t = Consumer => ConsumerPushes)
  /\ pushed + Cardinality({u \in Threads : pc[u] \in {"lock", "push"}}) < MaxItems
  /\ Goto(t, "lock")
  /\ UNCHANGED <<data, mutex, array, done, pushed, delivered>>

PushLock(t) == Lock(t, "lock", "push")

Push(t) ==
  /\ pc[t] = "push"
  /\ data' = Append(data, pushed)
  /\ pushed' = pushed + 1
  /\ Goto(t, "unlock")
  /\ UNCHANGED <<mutex, array, done, delivered>>

PushUnlock(t) == Unlock(t, "unlock", "signal")

\* Mutant: nobody is signalled.
SignalNobody(t) ==
  /\ pc[t] = "signal"
  /\ Goto(t, Base(t))
  /\ UNCHANGED <<data, mutex, array, done, pushed, delivered>>

\* pthread_cond_signal, after the unlock: a waiting consumer is woken.
Signal(t) ==
  /\ pc[t] = "signal"
  /\ pc' = [u \in Threads |->
       IF u = t THEN Base(t)
       ELSE IF u = Consumer /\ pc[u] = "wait" THEN "relock"
       ELSE pc[u]]
  /\ UNCHANGED <<data, mutex, array, done, pushed, delivered>>

PushStep(t) ==
  PushBegin(t) \/ PushLock(t) \/ Push(t) \/ PushUnlock(t) \/ Signal(t)

-----------------------------------------------------------------------------
(* BlockQueueWaitAndSwap and the consumer's loop.                          *)

Enter == Lock(Consumer, "enter", "check")

\* Mutant: the consumer waits with the mutex in its hand.
CheckHolding ==
  /\ pc[Consumer] = "check"
  /\ Goto(Consumer, IF data = <<>> THEN "wait" ELSE "swap")
  /\ UNCHANGED <<data, mutex, array, done, pushed, delivered>>

\* The while condition; pthread_cond_wait releases the mutex and waits.
Check ==
  /\ pc[Consumer] = "check"
  /\ IF data = <<>>
     THEN mutex' = Nobody /\ Goto(Consumer, "wait")
     ELSE Goto(Consumer, "swap") /\ UNCHANGED mutex
  /\ UNCHANGED <<data, array, done, pushed, delivered>>

\* pthread_cond_wait returns although nobody signalled.
SpuriousWakeup ==
  /\ pc[Consumer] = "wait"
  /\ Goto(Consumer, "relock")
  /\ UNCHANGED <<data, mutex, array, done, pushed, delivered>>

Relock == Lock(Consumer, "relock", "check")

\* DArraySwap: the queue gets the consumer's array.
Swap ==
  /\ pc[Consumer] = "swap"
  /\ array' = data /\ data' = array
  /\ Goto(Consumer, "unlockSwap")
  /\ UNCHANGED <<mutex, done, pushed, delivered>>

SwapUnlock == Unlock(Consumer, "unlockSwap", "handle")

\* One element of the batch: a line written, a request answered.
Handle ==
  /\ pc[Consumer] = "handle" /\ done < Len(array)
  /\ delivered' = Append(delivered, array[done + 1])
  /\ done' = done + 1
  /\ UNCHANGED <<data, mutex, array, pc, pushed>>

\* Mutant: the batch is not cleared.
ClearNot ==
  /\ pc[Consumer] = "handle" /\ done = Len(array)
  /\ done' = 0
  /\ Goto(Consumer, "enter")
  /\ UNCHANGED <<data, mutex, array, pushed, delivered>>

\* DArrayClear, and around the loop.
Clear ==
  /\ pc[Consumer] = "handle" /\ done = Len(array)
  /\ array' = <<>> /\ done' = 0
  /\ Goto(Consumer, "enter")
  /\ UNCHANGED <<data, mutex, pushed, delivered>>

ConsumerStep ==
  \/ Enter \/ Check \/ SpuriousWakeup \/ Relock \/ Swap \/ SwapUnlock
  \/ Handle \/ Clear

-----------------------------------------------------------------------------
Next == ConsumerStep \/ \E t \in Threads : PushStep(t)

Spec == Init /\ [][Next]_vars

(***************************************************************************)
(* Fairness: a thread that can go on does.  A producer that asks for the   *)
(* mutex while spurious wakeups make the consumer take it again and again  *)
(* gets it in the end (SF); nobody has to push, and no wakeup has to be    *)
(* spurious.                                                               *)
(***************************************************************************)
FairSpec ==
  /\ Spec
  /\ \A t \in Threads :
       SF_vars(PushLock(t)) /\ WF_vars(Push(t) \/ PushUnlock(t) \/ Signal(t))
  /\ WF_vars(Enter \/ Check \/ Relock \/ Swap \/ SwapUnlock)
  /\ WF_vars(Handle \/ Clear)

-----------------------------------------------------------------------------
(* Properties.                                                             *)

Critical == {"push", "unlock", "check", "swap", "unlockSwap"}

ProducerPCs == {"idle", "lock", "push", "unlock", "signal"}
ConsumerPCs == {"enter", "check", "wait", "relock", "swap", "unlockSwap",
                "handle", "lock", "push", "unlock", "signal"}

\* Types, and who is inside: the holder of the mutex and nobody else.
TypeOK ==
  /\ data \in Seq(Nat) /\ array \in Seq(Nat) /\ delivered \in Seq(Nat)
  /\ pushed \in Nat /\ done \in 0..Len(array)
  /\ pc \in [Threads -> ProducerPCs \cup ConsumerPCs]
  /\ \A t \in Producers : pc[t] \in ProducerPCs
  /\ pc[Consumer] \in ConsumerPCs
  /\ mutex \in Threads \cup {Nobody}
  /\ \A t \in Threads : (mutex = t) <=> pc[t] \in Critical

\* While the consumer sleeps on a queue that is not empty, a producer is on its
\* way to signal it: it has pushed, and unlocked or is about to.
NoLostSignal ==
  pc[Consumer] = "wait" /\ data # <<>> =>
    \E t \in Producers : pc[t] \in {"unlock", "signal"}

\* Every item is in one place, and in order: what was handled, what is left of the
\* batch, the queue.
Left == Len(array) - done

InOrder ==
  /\ pushed = Len(delivered) + Left + Len(data)
  /\ \A i \in 1..Len(delivered) : delivered[i] = i - 1
  /\ \A i \in (done + 1)..Len(array) : array[i] = Len(delivered) + (i - done) - 1
  /\ \A i \in 1..Len(data) : data[i] = Len(delivered) + Left + i - 1

\* A BlockQueue and its consumer implement FifoQueue.
Fifo == INSTANCE FifoQueue WITH
          contents <- SubSeq(array, done + 1, Len(array)) \o data,
          next <- pushed

ImplementsFifo == Fifo!Spec

\* Every item pushed is handled in the end, whoever else pushes.
AllDelivered ==
  \A n \in 1..MaxItems : (pushed >= n) ~> (Len(delivered) >= n)
=============================================================================
