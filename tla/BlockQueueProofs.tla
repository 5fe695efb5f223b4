-------------------------- MODULE BlockQueueProofs --------------------------
(***************************************************************************)
(* Theorems about BlockQueue, for every set of producers and any number of *)
(* items.                                                                  *)
(***************************************************************************)
EXTENDS BlockQueue, NumberFacts, FiniteSetTheorems

-----------------------------------------------------------------------------
(* Types and mutual exclusion.                                             *)

\* One thread moves between program counters of its own, and holds the mutex
\* afterwards exactly if its new place is a critical one.
Moved(t, l) ==
  /\ Goto(t, l)
  /\ t \in Producers => l \in ProducerPCs
  /\ t = Consumer => l \in ConsumerPCs
  /\ \/ l \in Critical /\ mutex \in {t, Nobody} /\ mutex' = t
     \/ l \notin Critical /\ pc[t] \in Critical /\ mutex' = Nobody
     \/ l \notin Critical /\ pc[t] \notin Critical /\ mutex' = mutex

ControlType ==
  /\ pc \in [Threads -> ProducerPCs \cup ConsumerPCs]
  /\ \A t \in Producers : pc[t] \in ProducerPCs
  /\ pc[Consumer] \in ConsumerPCs
  /\ mutex \in Threads \cup {Nobody}
  /\ \A t \in Threads : (mutex = t) <=> pc[t] \in Critical

LEMMA MovedType ==
  ASSUME ControlType, NEW t \in Threads, NEW l, Moved(t, l)
  PROVE  ControlType'
<1>1. l \in ProducerPCs \cup ConsumerPCs
  BY DEF Moved, Threads
<1>2. /\ pc' \in [Threads -> ProducerPCs \cup ConsumerPCs]
      /\ pc'[t] = l /\ \A u \in Threads \ {t} : pc'[u] = pc[u]
  BY <1>1 DEF Moved, Goto, ControlType
<1>3. /\ \A u \in Producers : pc'[u] \in ProducerPCs
      /\ pc'[Consumer] \in ConsumerPCs
  BY <1>2 DEF Moved, ControlType, Threads
<1>4. mutex' \in Threads \cup {Nobody}
  BY DEF Moved, ControlType
<1>5. ASSUME NEW u \in Threads PROVE (mutex' = u) <=> pc'[u] \in Critical
  BY <1>2, ThreadAssumption DEF Moved, ControlType, Threads
<1> QED
  BY <1>2, <1>3, <1>4, <1>5 DEF ControlType

LEMMA InitType == Init => TypeOK
<1> SUFFICES ASSUME Init PROVE TypeOK
  OBVIOUS
<1>1. \A t \in Threads : pc[t] \notin Critical /\ mutex # t
  BY ThreadAssumption DEF Init, Threads, Critical
<1>2. /\ pc \in [Threads -> ProducerPCs \cup ConsumerPCs]
      /\ \A t \in Producers : pc[t] \in ProducerPCs
      /\ pc[Consumer] \in ConsumerPCs
  BY ThreadAssumption DEF Init, Threads, ProducerPCs, ConsumerPCs
<1> QED
  BY <1>1, <1>2 DEF Init, TypeOK

\* Each step moves one thread, except a signal, which may move the consumer too.
LEMMA PushControl ==
  ASSUME TypeOK, NEW t \in Threads, PushStep(t)
  PROVE  ControlType'
<1> USE DEF TypeOK, ControlType
<1>0. /\ Base(t) \notin Critical
      /\ t \in Producers => Base(t) \in ProducerPCs
      /\ t = Consumer => Base(t) \in ConsumerPCs
  BY ThreadAssumption DEF Base, Critical, ProducerPCs, ConsumerPCs
<1>1. CASE PushBegin(t)
  <2>1. Moved(t, "lock")
    BY <1>0, <1>1 DEF PushBegin, Moved, Critical, ProducerPCs, ConsumerPCs
  <2> QED
    BY <2>1, MovedType
<1>2. CASE PushLock(t)
  <2>1. Moved(t, "push")
    BY <1>2 DEF PushLock, Lock, Moved, Critical, ProducerPCs, ConsumerPCs
  <2> QED
    BY <2>1, MovedType
<1>3. CASE Push(t)
  <2>1. Moved(t, "unlock")
    BY <1>3 DEF Push, Moved, Critical, ProducerPCs, ConsumerPCs
  <2> QED
    BY <2>1, MovedType
<1>4. CASE PushUnlock(t)
  <2>1. Moved(t, "signal")
    BY <1>4 DEF PushUnlock, Unlock, Moved, Critical, ProducerPCs, ConsumerPCs
  <2> QED
    BY <2>1, MovedType
<1>5. CASE Signal(t)
  <2>1. mutex' = mutex
    BY <1>5 DEF Signal
  <2>2. \A u \in Threads : pc[u] \in Critical <=> pc'[u] \in Critical
    BY <1>0, <1>5 DEF Signal, Critical
  <2>3. \A u \in Producers : pc'[u] \in ProducerPCs
    BY <1>0, <1>5, ThreadAssumption DEF Signal, Threads
  <2>4. pc'[Consumer] \in ConsumerPCs
    BY <1>0, <1>5 DEF Signal, Threads, ConsumerPCs
  <2>5. pc' \in [Threads -> ProducerPCs \cup ConsumerPCs]
    BY <1>5, <2>3, <2>4 DEF Signal, Threads
  <2> QED
    BY <2>1, <2>2, <2>3, <2>4, <2>5
<1> QED
  BY <1>1, <1>2, <1>3, <1>4, <1>5 DEF PushStep

LEMMA ConsumerControl ==
  ASSUME TypeOK, ConsumerStep
  PROVE  ControlType'
<1> USE DEF TypeOK, ControlType
<1>0. Consumer \in Threads /\ Consumer \notin Producers
  BY ThreadAssumption DEF Threads
<1> USE <1>0
<1> SUFFICES ASSUME ~(\E l \in ConsumerPCs : Moved(Consumer, l)), ~(pc' = pc /\ mutex' = mutex)
             PROVE  FALSE
  BY MovedType
<1>1. CASE Enter
  BY <1>1 DEF Enter, Lock, Moved, Critical, ConsumerPCs
<1>2. CASE Check
  BY <1>2 DEF Check, Moved, Critical, ConsumerPCs
<1>3. CASE SpuriousWakeup
  BY <1>3 DEF SpuriousWakeup, Moved, Critical, ConsumerPCs
<1>4. CASE Relock
  BY <1>4 DEF Relock, Lock, Moved, Critical, ConsumerPCs
<1>5. CASE Swap
  BY <1>5 DEF Swap, Moved, Critical, ConsumerPCs
<1>6. CASE SwapUnlock
  BY <1>6 DEF SwapUnlock, Unlock, Moved, Critical, ConsumerPCs
<1>7. CASE Handle
  BY <1>7 DEF Handle
<1>8. CASE Clear
  BY <1>8 DEF Clear, Moved, Critical, ConsumerPCs
<1> QED
  BY <1>1, <1>2, <1>3, <1>4, <1>5, <1>6, <1>7, <1>8 DEF ConsumerStep

DataType ==
  /\ data \in Seq(Nat) /\ array \in Seq(Nat) /\ delivered \in Seq(Nat)
  /\ pushed \in Nat /\ done \in 0..Len(array)

\* What assert(DArraySize(array) == 0) in BlockQueueWaitAndSwap demands: the
\* consumer comes to the swap with nothing left in its array.
BatchEmpty ==
  pc[Consumer] \in {"enter", "check", "wait", "relock", "swap"} =>
    array = <<>> /\ done = 0

IInv == TypeOK /\ BatchEmpty /\ InOrder

LEMMA PushData ==
  ASSUME IInv, NEW t \in Threads, PushStep(t)
  PROVE  DataType' /\ BatchEmpty' /\ InOrder'
<1>0. Consumer \in Threads /\ (t # Consumer => t \in Producers) /\ Consumer \notin Producers
  BY ThreadAssumption DEF Threads
<1>1. DataType /\ BatchEmpty /\ InOrder
  BY DEF IInv, TypeOK, DataType
<1>2. pc'[Consumer] \in {"enter", "check", "wait", "relock", "swap"} =>
        pc[Consumer] \in {"enter", "check", "wait", "relock", "swap"}
  <2>1. pc \in [Threads -> ProducerPCs \cup ConsumerPCs]
    BY DEF IInv, TypeOK
  <2>2. CASE PushBegin(t)
    BY <1>0, <2>1, <2>2 DEF PushBegin, Goto
  <2>3. CASE PushLock(t)
    BY <1>0, <2>1, <2>3 DEF PushLock, Lock, Goto
  <2>4. CASE Push(t)
    BY <1>0, <2>1, <2>4 DEF Push, Goto
  <2>5. CASE PushUnlock(t)
    BY <1>0, <2>1, <2>5 DEF PushUnlock, Unlock, Goto
  <2>6. CASE Signal(t)
    BY <1>0, <2>1, <2>6 DEF Signal, Base
  <2> QED
    BY <2>2, <2>3, <2>4, <2>5, <2>6 DEF PushStep
<1>3. UNCHANGED <<array, done, delivered>>
  BY DEF PushStep, PushBegin, PushLock, Lock, Push, PushUnlock, Unlock, Signal
<1>4. BatchEmpty'
  BY <1>1, <1>2, <1>3 DEF BatchEmpty
<1>5. CASE Push(t)
  <2>1. data' = Append(data, pushed) /\ pushed' = pushed + 1
    BY <1>5 DEF Push
  <2>2. DataType'
    BY <1>1, <1>3, <2>1 DEF DataType
  <2>3. /\ Len(data') = Len(data) + 1 /\ data'[Len(data) + 1] = pushed
        /\ \A i \in 1..Len(data) : data'[i] = data[i]
    BY <1>1, <2>1 DEF DataType
  <2>4. pushed = Len(delivered) + Left + Len(data) /\ Left' = Left /\ Left \in Int
    BY <1>1, <1>3 DEF InOrder, Left, DataType
  <2>5. ASSUME NEW i \in 1..Len(data')
        PROVE  data'[i] = Len(delivered') + Left' + i - 1
    <3>1. CASE i = Len(data) + 1
      BY <1>1, <1>3, <2>3, <2>4, <3>1 DEF DataType
    <3>2. CASE i # Len(data) + 1
      <4>1. i \in 1..Len(data)
        BY <1>1, <2>3, <3>2 DEF DataType
      <4> QED
        BY <1>1, <1>3, <2>3, <2>4, <4>1 DEF InOrder
    <3> QED
      BY <3>1, <3>2
  <2>6. pushed' = Len(delivered') + Left' + Len(data')
    BY <1>1, <1>3, <2>1, <2>3, <2>4 DEF DataType
  <2>7. InOrder'
    BY <1>1, <1>3, <2>5, <2>6 DEF InOrder
  <2> QED
    BY <1>4, <2>2, <2>7
<1>6. CASE ~Push(t)
  <2>1. data' = data /\ pushed' = pushed
    BY <1>6 DEF PushStep, PushBegin, PushLock, Lock, PushUnlock, Unlock, Signal
  <2> QED
    BY <1>1, <1>3, <1>4, <2>1 DEF DataType, InOrder, Left
<1> QED
  BY <1>5, <1>6

LEMMA ConsumerData ==
  ASSUME IInv, ConsumerStep
  PROVE  DataType' /\ BatchEmpty' /\ InOrder'
<1>0. Consumer \in Threads /\ pc \in [Threads -> ProducerPCs \cup ConsumerPCs]
  BY DEF Threads, IInv, TypeOK
<1>1. DataType /\ BatchEmpty /\ InOrder
  BY DEF IInv, TypeOK, DataType
<1>2. CASE Enter \/ Check \/ SpuriousWakeup \/ Relock
  <2>1. UNCHANGED <<data, array, done, pushed, delivered>>
    BY <1>2 DEF Enter, Check, SpuriousWakeup, Relock, Lock
  <2>2. pc[Consumer] \in {"enter", "check", "wait", "relock", "swap"}
    BY <1>2 DEF Enter, Check, SpuriousWakeup, Relock, Lock
  <2> QED
    BY <1>1, <2>1, <2>2 DEF DataType, BatchEmpty, InOrder, Left
<1>3. CASE Swap
  <2>1. /\ array = <<>> /\ done = 0 /\ array' = data /\ data' = array
        /\ UNCHANGED <<done, pushed, delivered>>
    BY <1>1, <1>3 DEF Swap, BatchEmpty
  <2>2. pc'[Consumer] = "unlockSwap"
    BY <1>0, <1>3 DEF Swap, Goto
  <2>3. DataType' /\ BatchEmpty'
    BY <1>1, <2>1, <2>2 DEF DataType, BatchEmpty
  <2>4. Len(data') = 0 /\ Len(array) = 0 /\ done' = 0 /\ Left = 0 /\ Left' = Len(data)
    BY <1>1, <2>1 DEF Left, DataType
  <2>5. InOrder'
    BY <1>1, <2>1, <2>4 DEF InOrder, DataType
  <2> QED
    BY <2>3, <2>5
<1>4. CASE SwapUnlock
  <2>1. UNCHANGED <<data, array, done, pushed, delivered>>
    BY <1>4 DEF SwapUnlock, Unlock
  <2>2. pc'[Consumer] = "handle"
    BY <1>0, <1>4 DEF SwapUnlock, Unlock, Goto
  <2> QED
    BY <1>1, <2>1, <2>2 DEF DataType, BatchEmpty, InOrder, Left
<1>5. CASE Handle
  <2>1. /\ done < Len(array) /\ done' = done + 1
        /\ delivered' = Append(delivered, array[done + 1])
        /\ UNCHANGED <<data, array, pushed, pc>> /\ pc[Consumer] = "handle"
    BY <1>5 DEF Handle
  <2>2. done + 1 \in (done + 1)..Len(array) /\ array[done + 1] = Len(delivered)
    BY <1>1, <2>1 DEF DataType, InOrder
  <2>3. DataType'
    BY <1>1, <2>1, <2>2 DEF DataType
  <2>4. /\ Len(delivered') = Len(delivered) + 1
        /\ delivered'[Len(delivered) + 1] = Len(delivered)
        /\ \A i \in 1..Len(delivered) : delivered'[i] = delivered[i]
    BY <1>1, <2>1, <2>2 DEF DataType
  <2>5. Left' = Left - 1 /\ Left \in Int
    BY <1>1, <2>1 DEF Left, DataType
  <2>6. pushed' = Len(delivered') + Left' + Len(data')
    BY <1>1, <2>1, <2>4, <2>5 DEF InOrder, DataType
  <2>7. ASSUME NEW i \in 1..Len(delivered') PROVE delivered'[i] = i - 1
    <3>1. Len(delivered) \in Nat /\ \A k \in 1..Len(delivered) : delivered[k] = k - 1
      BY <1>1 DEF InOrder, DataType
    <3>2. CASE i = Len(delivered) + 1
      BY <2>4, <3>1, <3>2
    <3>3. CASE i # Len(delivered) + 1
      BY <2>4, <3>1, <3>3
    <3> QED
      BY <3>2, <3>3
  <2>8. \A i \in (done' + 1)..Len(array') : array'[i] = Len(delivered') + (i - done') - 1
    BY <1>1, <2>1, <2>4 DEF InOrder, DataType
  <2>9. \A i \in 1..Len(data') : data'[i] = Len(delivered') + Left' + i - 1
    BY <1>1, <2>1, <2>4, <2>5 DEF InOrder, DataType
  <2>10. InOrder'
    BY <2>6, <2>7, <2>8, <2>9 DEF InOrder
  <2>11. BatchEmpty'
    BY <2>1 DEF BatchEmpty
  <2> QED
    BY <2>3, <2>10, <2>11
<1>6. CASE Clear
  <2>1. /\ done = Len(array) /\ array' = <<>> /\ done' = 0
        /\ UNCHANGED <<data, pushed, delivered>>
    BY <1>6 DEF Clear
  <2>2. Left = 0 /\ Left' = 0 /\ Len(array') = 0
    BY <1>1, <2>1 DEF Left, DataType
  <2>3. DataType' /\ BatchEmpty'
    BY <1>1, <2>1, <2>2 DEF DataType, BatchEmpty
  <2>4. InOrder'
    BY <1>1, <2>1, <2>2 DEF InOrder, DataType
  <2> QED
    BY <2>3, <2>4
<1> QED
  BY <1>2, <1>3, <1>4, <1>5, <1>6 DEF ConsumerStep

LEMMA InitData == Init => DataType /\ BatchEmpty /\ InOrder
BY DEF Init, DataType, BatchEmpty, InOrder, Left

-----------------------------------------------------------------------------
\* The inductive invariant: types and mutual exclusion, an empty array at every
\* swap, and the order of the items over the three places they can be in.
THEOREM Invariance == Spec => []IInv
<1>1. Init => IInv
  BY InitType, InitData DEF IInv
<1>2. IInv /\ [Next]_vars => IInv'
  <2> SUFFICES ASSUME IInv, [Next]_vars PROVE IInv'
    OBVIOUS
  <2>1. TypeOK
    BY DEF IInv
  <2>2. CASE UNCHANGED vars
    BY <2>2 DEF IInv, TypeOK, BatchEmpty, InOrder, Left, vars
  <2>3. CASE Next
    <3>1. ControlType'
      BY <2>1, <2>3, PushControl, ConsumerControl DEF Next
    <3>2. DataType' /\ BatchEmpty' /\ InOrder'
      BY <2>3, PushData, ConsumerData DEF Next
    <3> QED
      BY <3>1, <3>2 DEF IInv, TypeOK, ControlType, DataType
  <2> QED
    BY <2>2, <2>3
<1> QED
  BY <1>1, <1>2, PTL DEF Spec

\* Types, and that only the holder of the mutex is between lock and unlock.
THEOREM TypeCorrect == Spec => []TypeOK
<1>1. IInv => TypeOK
  BY DEF IInv
<1> QED
  BY <1>1, Invariance, PTL

\* No item is lost, repeated or overtaken between BlockQueuePushBack and the loop
\* of the consumer, whichever threads push.
THEOREM OrderKept == Spec => []InOrder
<1>1. IInv => InOrder
  BY DEF IInv
<1> QED
  BY <1>1, Invariance, PTL

LEMMA PushSignal ==
  ASSUME TypeOK, NoLostSignal, NEW t \in Threads, PushStep(t)
  PROVE  NoLostSignal'
<1>0. /\ Consumer \in Threads /\ Producers \subseteq Threads
      /\ t # Consumer => t \in Producers
      /\ pc \in [Threads -> ProducerPCs \cup ConsumerPCs]
  BY DEF Threads, TypeOK
<1>1. CASE PushBegin(t)
  BY <1>0, <1>1 DEF PushBegin, Goto, NoLostSignal, Base
<1>2. CASE PushLock(t)
  BY <1>0, <1>2 DEF PushLock, Lock, Goto, NoLostSignal
<1>3. CASE Push(t)
  BY <1>0, <1>3 DEF Push, Goto, NoLostSignal
<1>4. CASE PushUnlock(t)
  BY <1>0, <1>4 DEF PushUnlock, Unlock, Goto, NoLostSignal
<1>5. CASE Signal(t)
  <2>1. pc'[Consumer] # "wait"
    BY <1>0, <1>5 DEF Signal, Base
  <2> QED
    BY <2>1 DEF NoLostSignal
<1> QED
  BY <1>1, <1>2, <1>3, <1>4, <1>5 DEF PushStep

LEMMA ConsumerSignal ==
  ASSUME TypeOK, NoLostSignal, ConsumerStep
  PROVE  NoLostSignal'
<1>0. Consumer \in Threads /\ pc \in [Threads -> ProducerPCs \cup ConsumerPCs]
  BY DEF Threads, TypeOK
<1>1. CASE Check
  BY <1>0, <1>1 DEF Check, Goto, NoLostSignal
<1>2. CASE ~Check
  <2>1. pc'[Consumer] # "wait"
    BY <1>0, <1>2 DEF ConsumerStep, Enter, SpuriousWakeup, Relock, Lock, Swap,
                      SwapUnlock, Unlock, Handle, Clear, Goto
  <2> QED
    BY <2>1 DEF NoLostSignal
<1> QED
  BY <1>1, <1>2

\* The signal after the unlock comes late but not too late: the consumer never
\* sleeps on a filled queue with no signal on its way (utils.c, BlockQueuePushBack).
THEOREM SignalKept == Spec => []NoLostSignal
<1>1. Init => NoLostSignal
  BY DEF Init, NoLostSignal
<1>2. TypeOK /\ NoLostSignal /\ [Next]_vars => NoLostSignal'
  <2> SUFFICES ASSUME TypeOK, NoLostSignal, [Next]_vars PROVE NoLostSignal'
    OBVIOUS
  <2>1. CASE UNCHANGED vars
    BY <2>1 DEF NoLostSignal, vars
  <2>2. CASE Next
    BY <2>2, PushSignal, ConsumerSignal DEF Next
  <2> QED
    BY <2>1, <2>2
<1> QED
  BY <1>1, <1>2, TypeCorrect, PTL DEF Spec

-----------------------------------------------------------------------------
(* A BlockQueue and its consumer are a FifoQueue.                          *)

\* The threads that have been let in and have not yet pushed.
Pushing == {t \in Threads : pc[t] \in {"lock", "push"}}

\* There is room left for each of them.
PushBound == pushed \in Nat /\ pushed + Cardinality(Pushing) <= MaxItems

LEMMA PushingFinite == IsFiniteSet(Pushing) /\ Cardinality(Pushing) \in Nat
<1>1. IsFiniteSet(Threads)
  BY ThreadAssumption, FS_AddElement DEF Threads
<1>2. Pushing \subseteq Threads
  BY DEF Pushing
<1> QED
  BY <1>1, <1>2, FS_Subset, FS_CardinalityType

LEMMA InitBound == Init => PushBound
<1> SUFFICES ASSUME Init PROVE PushBound
  OBVIOUS
<1>1. Pushing = {}
  BY DEF Init, Pushing
<1>2. Cardinality(Pushing) = 0
  BY <1>1, FS_EmptySet
<1> QED
  BY <1>2, ThreadAssumption DEF Init, PushBound

\* A step in which nobody is let in and nobody pushes.
LEMMA SameBound ==
  ASSUME PushBound, pushed' = pushed,
         \A u \in Threads : pc'[u] \in {"lock", "push"} <=> pc[u] \in {"lock", "push"}
  PROVE  PushBound'
<1>1. Pushing' = Pushing
  BY DEF Pushing
<1> QED
  BY <1>1 DEF PushBound

LEMMA PushStepBound ==
  ASSUME TypeOK, PushBound, NEW t \in Threads, PushStep(t)
  PROVE  PushBound'
<1>0. /\ pc \in [Threads -> ProducerPCs \cup ConsumerPCs]
      /\ Base(t) \notin {"lock", "push"}
  BY DEF TypeOK, Base
<1>1. CASE PushBegin(t)
  <2>1. Pushing' = Pushing \cup {t} /\ t \notin Pushing
    BY <1>0, <1>1 DEF PushBegin, Goto, Pushing
  <2>2. Cardinality(Pushing') = Cardinality(Pushing) + 1
    BY <2>1, PushingFinite, FS_AddElement
  <2>3. pushed + Cardinality(Pushing) < MaxItems /\ pushed' = pushed
    BY <1>1 DEF PushBegin, Pushing
  <2> QED
    BY <2>2, <2>3, PushingFinite, ThreadAssumption DEF PushBound
<1>2. CASE PushLock(t)
  BY <1>0, <1>2, SameBound DEF PushLock, Lock, Goto
<1>3. CASE Push(t)
  <2>1. Pushing' = Pushing \ {t} /\ t \in Pushing
    BY <1>0, <1>3 DEF Push, Goto, Pushing
  <2>2. Cardinality(Pushing') = Cardinality(Pushing) - 1
    BY <2>1, PushingFinite, FS_RemoveElement
  <2>3. pushed' = pushed + 1
    BY <1>3 DEF Push
  <2> QED
    BY <2>2, <2>3, PushingFinite, ThreadAssumption DEF PushBound
<1>4. CASE PushUnlock(t)
  BY <1>0, <1>4, SameBound DEF PushUnlock, Unlock, Goto
<1>5. CASE Signal(t)
  <2>1. \A u \in Threads : pc'[u] \in {"lock", "push"} <=> pc[u] \in {"lock", "push"}
    BY <1>0, <1>5 DEF Signal
  <2> QED
    BY <1>5, <2>1, SameBound DEF Signal
<1> QED
  BY <1>1, <1>2, <1>3, <1>4, <1>5 DEF PushStep

LEMMA ConsumerBound == ASSUME TypeOK, PushBound, ConsumerStep PROVE PushBound'
<1>1. Consumer \in Threads /\ pc \in [Threads -> ProducerPCs \cup ConsumerPCs]
  BY DEF Threads, TypeOK
<1>2. /\ pushed' = pushed
      /\ pc' = pc \/ (pc[Consumer] \notin {"lock", "push"} /\
                      \E l : l \notin {"lock", "push"} /\ Goto(Consumer, l))
  BY DEF ConsumerStep, Enter, Check, SpuriousWakeup, Relock, Lock, Swap,
         SwapUnlock, Unlock, Handle, Clear
<1>3. \A u \in Threads : pc'[u] \in {"lock", "push"} <=> pc[u] \in {"lock", "push"}
  BY <1>1, <1>2 DEF Goto
<1> QED
  BY <1>2, <1>3, SameBound

LEMMA BoundKept == Spec => []PushBound
<1>1. TypeOK /\ PushBound /\ [Next]_vars => PushBound'
  <2>1. ASSUME PushBound, UNCHANGED vars PROVE PushBound'
    BY <2>1, SameBound DEF vars
  <2> QED
    BY <2>1, PushStepBound, ConsumerBound DEF Next
<1> QED
  BY InitBound, <1>1, TypeCorrect, PTL DEF Spec

\* What FifoQueue's contents are here.
Contents == SubSeq(array, done + 1, Len(array)) \o data

\* They are the numbers between what was handled and what was pushed.
Waiting == Len(delivered)

ContentsIsRun ==
  /\ Waiting \in Nat /\ pushed \in Nat /\ pushed - Waiting \in Nat
  /\ Contents = Run(Waiting, pushed - Waiting)

LEMMA ContentsRun == DataType /\ InOrder => ContentsIsRun
<1> SUFFICES ASSUME DataType, InOrder PROVE ContentsIsRun
  OBVIOUS
<1> DEFINE left == SubSeq(array, done + 1, Len(array))
<1>1. /\ Waiting \in Nat /\ pushed \in Nat /\ Left \in Nat /\ Len(data) \in Nat
      /\ Len(array) \in Nat /\ done \in Nat
      /\ pushed = Waiting + Left + Len(data) /\ Left = Len(array) - done
  BY DEF DataType, InOrder, Left, Waiting
<1>2. \A i \in (done + 1)..Len(array) : array[i] \in Nat /\ array[i] = Waiting + (i - done) - 1
  BY <1>1 DEF DataType, InOrder, Waiting
<1>3. /\ left \in Seq(Nat) /\ Len(left) = Left
      /\ \A k \in 1..Left : left[k] = array[done + k]
  <2>1. /\ left \in Seq(Nat)
        /\ Len(left) = IF done + 1 <= Len(array) THEN Len(array) - (done + 1) + 1 ELSE 0
        /\ \A k \in 1..(Len(array) - (done + 1) + 1) : left[k] = array[(done + 1) + k - 1]
    BY <1>1, <1>2, SubSeqProperties
  <2> HIDE DEF left
  <2> QED
    BY <1>1, <2>1
<1>4. \A k \in 1..Left : left[k] = Waiting + k - 1
  <2> HIDE DEF left
  <2> QED
    BY <1>1, <1>2, <1>3
<1>5. left = Run(Waiting, Left)
  <2> HIDE DEF left
  <2> QED
    BY <1>1, <1>3, <1>4, IsRun
<1>6. data = Run(Waiting + Left, Len(data))
  <2>1. data \in Seq(Nat) /\ \A k \in 1..Len(data) : data[k] = (Waiting + Left) + k - 1
    BY <1>1 DEF DataType, InOrder, Waiting
  <2> QED
    BY <1>1, <2>1, IsRun
<1>7. Contents = Run(Waiting, Left + Len(data))
  <2>1. Waiting \in Nat /\ Left \in Nat /\ Len(data) \in Nat
    BY <1>1
  <2>2. Run(Waiting, Left) \o Run(Waiting + Left, Len(data)) = Run(Waiting, Left + Len(data))
    BY <2>1, RunConcat
  <2> QED
    BY <1>5, <1>6, <2>2, Zenon DEF Contents
<1>8. pushed - Waiting = Left + Len(data)
  BY <1>1
<1> QED
  BY <1>1, <1>7, <1>8 DEF ContentsIsRun

\* A push puts one item, a handled element is one taken; every other step stutters.
LEMMA StepFifo ==
  ASSUME ContentsIsRun, ContentsIsRun', TypeOK, PushBound, [Next]_vars
  PROVE  [Fifo!Next]_(Fifo!vars)
<1>0. /\ Waiting \in Nat /\ pushed \in Nat /\ pushed - Waiting \in Nat
      /\ Contents = Run(Waiting, pushed - Waiting)
      /\ Waiting' \in Nat /\ pushed' \in Nat /\ pushed' - Waiting' \in Nat
      /\ Contents' = Run(Waiting', pushed' - Waiting')
  BY DEF ContentsIsRun
<1>1. ASSUME Waiting' = Waiting, pushed' = pushed
      PROVE  UNCHANGED Fifo!vars
  <2>1. Contents' = Contents
    BY <1>0, <1>1
  <2> QED
    BY <1>1, <2>1 DEF Fifo!vars, Contents
<1>2. ASSUME NEW t \in Threads, Push(t) PROVE Fifo!Next
  <2>1. pushed' = pushed + 1 /\ Waiting' = Waiting
    BY <1>2 DEF Push, Waiting
  <2>2. pushed + 1 <= MaxItems
    <3>1. t \in Pushing
      BY <1>2 DEF Push, Pushing
    <3>2. Cardinality(Pushing) # 0
      BY <3>1, PushingFinite, FS_EmptySet
    <3> QED
      BY <3>2, PushingFinite, ThreadAssumption DEF PushBound
  <2> DEFINE m == pushed - Waiting
  <2>3. m \in Nat /\ pushed = Waiting + m /\ pushed' - Waiting' = m + 1
    BY <1>0, <2>1
  <2>4. Contents = Run(Waiting, m) /\ Contents' = Run(Waiting, m + 1)
    BY <1>0, <2>1, <2>3
  <2> HIDE DEF m
  <2>5. Contents' = Contents \o Run(pushed, 1)
    <3>1. Waiting \in Nat /\ m \in Nat /\ 1 \in Nat
      BY <1>0, <2>3
    <3>2. Run(Waiting, m) \o Run(Waiting + m, 1) = Run(Waiting, m + 1)
      BY <3>1, RunConcat
    <3> QED
      BY <2>3, <2>4, <3>2
  <2>6. Fifo!Put(1)
    BY <2>1, <2>2, <2>5, Zenon DEF Fifo!Put, Contents, Run
  <2>7. 1 \in 1..MaxItems
    BY <1>0, <2>2, ThreadAssumption
  <2> QED
    BY <2>6, <2>7 DEF Fifo!Next
<1>3. ASSUME Handle PROVE Fifo!Next
  <2>1. pushed' = pushed /\ Waiting' = Waiting + 1
    BY <1>3 DEF Handle, Waiting, TypeOK
  <2> DEFINE m == pushed - Waiting
  <2>2. m \in Nat /\ pushed' - Waiting' = m - 1 /\ 1 \in 0..m
    BY <1>0, <2>1
  <2>3. Contents = Run(Waiting, m) /\ Contents' = Run(Waiting + 1, m - 1)
    BY <1>0, <2>1, <2>2
  <2> HIDE DEF m
  <2>4. SubSeq(Run(Waiting, m), 1 + 1, m) = Run(Waiting + 1, m - 1) /\ Len(Run(Waiting, m)) = m
    BY <1>0, <2>2, RunDrop, RunType
  <2>5. Contents' = SubSeq(Contents, 1 + 1, Len(Contents)) /\ 1 <= Len(Contents)
    BY <2>2, <2>3, <2>4
  <2>6. Fifo!Take(1)
    BY <2>1, <2>5, Zenon DEF Fifo!Take, Contents
  <2>7. 1 \in 1..MaxItems
    <3>1. pushed <= MaxItems
      BY PushingFinite, ThreadAssumption DEF PushBound
    <3> QED
      BY <1>0, <2>1, <3>1, ThreadAssumption
  <2> QED
    BY <2>6, <2>7 DEF Fifo!Next
<1>4. CASE UNCHANGED vars
  BY <1>1, <1>4 DEF vars, Waiting
<1>5. ASSUME NEW t \in Threads, PushStep(t), ~Push(t) PROVE UNCHANGED Fifo!vars
  BY <1>1, <1>5 DEF PushStep, PushBegin, PushLock, Lock, PushUnlock, Unlock, Signal, Waiting
<1>6. ASSUME ConsumerStep, ~Handle PROVE UNCHANGED Fifo!vars
  BY <1>1, <1>6 DEF ConsumerStep, Enter, Check, SpuriousWakeup, Relock, Lock, Swap,
                    SwapUnlock, Unlock, Clear, Waiting
<1> QED
  BY <1>2, <1>3, <1>4, <1>5, <1>6 DEF Next

\* A BlockQueue and its consumer are a FifoQueue, whichever threads push: an item goes in
\* at BlockQueuePushBack and comes out in the consumer's loop; that it moves with a batch
\* from one array to the other in between is not seen.
THEOREM QueueIsFifo == Spec => ImplementsFifo
<1>1. Init => Fifo!Init
  BY DEF Init, Fifo!Init
<1>2. IInv => TypeOK /\ DataType /\ InOrder
  BY DEF IInv, TypeOK, DataType
<1>3. /\ ContentsIsRun /\ ContentsIsRun' /\ TypeOK /\ PushBound /\ [Next]_vars
      => [Fifo!Next]_(Fifo!vars)
  BY StepFifo
<1> QED
  BY <1>1, <1>2, <1>3, ContentsRun, Invariance, BoundKept, PTL
     DEF Spec, ImplementsFifo, Fifo!Spec
=============================================================================
