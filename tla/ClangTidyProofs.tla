-------------------------- MODULE ClangTidyProofs ---------------------------
(***************************************************************************)
(* Theorems about ClangTidy, for any pool of threads and any number of     *)
(* files.  The inductive invariant says where every file is: not put yet,  *)
(* waiting in the queue, with one thread, or through.                      *)
(***************************************************************************)
EXTENDS ClangTidy, FiniteSetTheorems, TLAPS

In(f, queue)           == \E i \in DOMAIN queue : queue[i] = f
With(f, holders, names) == \E w \in holders : names[w] = f

\* No file is in two places, and none that is not put yet is in any.
Placed ==
  /\ \A i \in DOMAIN taskQueue : taskQueue[i] < next
  /\ \A i, j \in DOMAIN taskQueue : taskQueue[i] = taskQueue[j] => i = j
  /\ \A w \in Holders : name[w] < next /\ ~In(name[w], taskQueue)
  /\ \A v, w \in Holders : name[v] = name[w] => v = w

\* How often clang-tidy has run for a file follows from where the file is.
Ran ==
  /\ \A f \in Files : f >= next \/ In(f, taskQueue) => runs[f] = 0
  /\ \A w \in Workers : pc[w] = "check" => runs[name[w]] = 0
  /\ \A w \in Workers : pc[w] \in {"failed", "print"} =>
       runs[name[w]] = 1 /\ name[w] \notin opts.thirdParty
  /\ \A f \in Files : f < next /\ ~In(f, taskQueue) /\ ~With(f, Holders, name) =>
       runs[f] = IF f \in opts.thirdParty THEN 0 ELSE 1

\* A failure that is not recorded yet is with the thread that saw it.
Failures ==
  /\ failed \subseteq bad
  /\ \A f \in bad : f \in failed \/ \E w \in Workers : pc[w] = "failed" /\ name[w] = f
  /\ \A w \in Workers : pc[w] = "failed" => name[w] \in bad

\* What main knows, by how far it is.
Told == returnCode = IF bad = {} /\ broken \subseteq {"status"} THEN 0 ELSE 1
Behind ==
  /\ main \in {"start", "put"} => returnCode = 0 /\ broken = {}
  /\ main = "start" => tmpdir = "none"
  /\ main \in {"export", "fix"} => next > NumFiles /\ unfinished = 0 /\ Told
  /\ main = "export" => broken = {}
  /\ main = "fix" => broken \subseteq {"export"}

Part1 == TypeOK /\ TasksCounted
Part2 == Placed /\ Ran
Part3 == Failures /\ Behind /\ ExitTells
IInv  == Part1 /\ Part2 /\ Part3

-----------------------------------------------------------------------------
(* Sequences and sets of holders.                                          *)

LEMMA AppendFacts ==
  ASSUME NEW S, NEW q \in Seq(S), NEW x \in S
  PROVE  /\ Append(q, x) \in Seq(S) /\ Len(Append(q, x)) = Len(q) + 1
         /\ DOMAIN Append(q, x) = 1..(Len(q) + 1)
         /\ \A i \in 1..Len(q) : Append(q, x)[i] = q[i]
         /\ Append(q, x)[Len(q) + 1] = x
  OBVIOUS

LEMMA TailFacts ==
  ASSUME NEW S, NEW q \in Seq(S), q # <<>>
  PROVE  /\ Head(q) = q[1] /\ q[1] \in S
         /\ Tail(q) \in Seq(S) /\ Len(Tail(q)) = Len(q) - 1 /\ Len(q) > 0
         /\ DOMAIN Tail(q) = 1..(Len(q) - 1)
         /\ \A i \in 1..(Len(q) - 1) : Tail(q)[i] = q[i + 1]
  OBVIOUS

LEMMA HoldersFinite == IsFiniteSet(Holders) /\ Cardinality(Holders) \in Nat
<1>1. Holders \in SUBSET Workers
  BY DEF Holders
<1>2. IsFiniteSet(Holders)
  BY <1>1, PoolAssumption, FS_Subset
<1> QED
  BY <1>2, FS_CardinalityType

\* A thread that has a task is counted.
LEMMA HolderCounted ==
  ASSUME TypeOK, TasksCounted, NEW w \in Holders
  PROVE  unfinished > 0
<1>1. Cardinality(Holders) # 0
  BY HoldersFinite, FS_EmptySet
<1>2. Len(taskQueue) \in Nat
  BY DEF TypeOK
<1> QED
  BY <1>1, <1>2, HoldersFinite DEF TasksCounted

\* What pc and the set of holders become when thread w goes to place l.
LEMMA HoldersMoved ==
  ASSUME TypeOK, NEW w \in Workers, NEW l \in {"get", "check", "failed", "print", "dead"},
         pc' = [pc EXCEPT ![w] = l]
  PROVE  /\ pc' \in [Workers -> {"get", "check", "failed", "print", "dead"}]
         /\ pc'[w] = l /\ \A v \in Workers \ {w} : pc'[v] = pc[v]
         /\ Holders' = IF l = "get" THEN Holders \ {w} ELSE Holders \cup {w}
<1>1. /\ pc' \in [Workers -> {"get", "check", "failed", "print", "dead"}]
      /\ pc'[w] = l /\ \A v \in Workers \ {w} : pc'[v] = pc[v]
  BY DEF TypeOK
<1> QED
  BY <1>1 DEF Holders

-----------------------------------------------------------------------------
(* Types and the count of unfinished tasks.                                *)

LEMMA InitPart1 == Init => Part1
<1> SUFFICES ASSUME Init PROVE Part1
  OBVIOUS
<1>1. Holders = {}
  BY DEF Init, Holders
<1>2. NumFiles \in Nat
  BY PoolAssumption
<1>3. TypeOK
  BY <1>1, <1>2 DEF Init, TypeOK, Files
<1>4. TasksCounted
  BY <1>1, FS_EmptySet DEF Init, TasksCounted
<1> QED
  BY <1>3, <1>4 DEF Part1

LEMMA MainPart1 ==
  ASSUME Part1, Main \/ Interrupt
  PROVE  Part1'
<1> USE DEF Part1
<1>0. NumFiles \in Nat /\ next \in Nat /\ 1 <= next /\ next <= NumFiles + 1
  BY PoolAssumption DEF TypeOK
<1>1. CASE Put
  <2>1. next \in Files /\ next' \in 1..(NumFiles + 1)
    BY <1>0, <1>1 DEF Put, Files
  <2>2. taskQueue' \in Seq(Files) /\ Len(taskQueue') = Len(taskQueue) + 1
    BY <2>1, <1>1, AppendFacts DEF Put, TypeOK
  <2>3. Holders' = Holders
    BY <1>1 DEF Put, Holders
  <2>4. unfinished' = unfinished + 1 /\ unfinished' \in Nat
    BY <1>1 DEF Put, TypeOK
  <2>5. TypeOK'
    BY <2>1, <2>2, <2>3, <2>4, <1>1 DEF Put, TypeOK
  <2>6. Len(taskQueue) \in Nat
    BY DEF TypeOK
  <2>7. TasksCounted'
    BY <2>2, <2>3, <2>4, <2>6, HoldersFinite DEF TasksCounted
  <2> QED
    BY <2>5, <2>7
<1>2. CASE ~Put
  <2>1. UNCHANGED <<pool, next, opts>>
    BY <1>2 DEF Main, PrepareFails, BadPattern, Prepare, Join, ExportFixes, ApplyFixes, Interrupt, rest
  <2>2. UNCHANGED <<taskQueue, unfinished, pc, name, failed, runs, bad, next, opts>>
    BY <2>1 DEF pool
  <2>3. Holders' = Holders
    BY <2>2 DEF Holders
  <2>4. TasksCounted'
    BY <2>2, <2>3 DEF TasksCounted
  <2>5. CASE PrepareFails
    BY <2>2, <2>3, <2>4, <2>5 DEF PrepareFails, rest, TypeOK
  <2>6. CASE Prepare
    BY <2>2, <2>3, <2>4, <2>6 DEF Prepare, rest, TypeOK
  <2>7. CASE Join
    BY <2>2, <2>3, <2>4, <2>7 DEF Join, rest, TypeOK
  <2>8. CASE ExportFixes
    BY <2>2, <2>3, <2>4, <2>8 DEF ExportFixes, rest, TypeOK
  <2>9. CASE ApplyFixes
    BY <2>2, <2>3, <2>4, <2>9 DEF ApplyFixes, rest, TypeOK
  <2>10. CASE Interrupt
    BY <2>2, <2>3, <2>4, <2>10 DEF Interrupt, rest, TypeOK
  <2>11. CASE BadPattern
    BY <2>2, <2>3, <2>4, <2>11 DEF BadPattern, rest, TypeOK
  <2> QED
    BY <1>2, <2>5, <2>6, <2>7, <2>8, <2>9, <2>10, <2>11 DEF Main
<1> QED
  BY <1>1, <1>2

LEMMA ThreadPart1 ==
  ASSUME Part1, NEW w \in Workers, Thread(w) \/ ThreadRaises(w)
  PROVE  Part1'
<1> USE DEF Part1
<1>0. /\ UNCHANGED <<main, next, opts, returnCode, tmpdir, broken>>
      /\ Len(taskQueue) \in Nat /\ unfinished \in Nat
      /\ IsFiniteSet(Holders) /\ Cardinality(Holders) \in Nat
  BY HoldersFinite DEF Thread, ThreadRaises, rest, TypeOK
<1>1. CASE Get(w)
  <2>1. /\ pc' = [pc EXCEPT ![w] = "check"] /\ w \notin Holders
        /\ taskQueue # <<>> /\ name' = [name EXCEPT ![w] = Head(taskQueue)]
        /\ taskQueue' = Tail(taskQueue) /\ UNCHANGED <<unfinished, failed, runs, bad>>
    BY <1>1 DEF Get, Holders
  <2>2. /\ pc' \in [Workers -> {"get", "check", "failed", "print", "dead"}]
        /\ Holders' = Holders \cup {w}
    BY <2>1, HoldersMoved
  <2>3. /\ taskQueue' \in Seq(Files) /\ Len(taskQueue') = Len(taskQueue) - 1
        /\ Head(taskQueue) \in Files
    BY <2>1, TailFacts DEF TypeOK
  <2>4. /\ name' \in [Workers -> {0} \cup Files]
        /\ \A v \in Holders' : name'[v] \in Files
    BY <2>1, <2>2, <2>3 DEF TypeOK
  <2>5. TypeOK'
    BY <1>0, <2>1, <2>2, <2>3, <2>4 DEF TypeOK
  <2>6. Cardinality(Holders') = Cardinality(Holders) + 1
    BY <1>0, <2>1, <2>2, FS_AddElement
  <2>7. TasksCounted'
    BY <1>0, <2>1, <2>3, <2>6 DEF TasksCounted
  <2> QED
    BY <2>5, <2>7
<1>2. CASE Skip(w) \/ Report(w)
  <2>1. /\ pc' = [pc EXCEPT ![w] = "get"] /\ w \in Holders /\ unfinished' = unfinished - 1
        /\ UNCHANGED <<taskQueue, name, failed, runs, bad>>
    BY <1>2 DEF Skip, Report, TaskDone, Holders
  <2>2. /\ pc' \in [Workers -> {"get", "check", "failed", "print", "dead"}]
        /\ Holders' = Holders \ {w}
    BY <2>1, HoldersMoved
  <2>3. unfinished' \in Nat
    BY <1>0, <2>1, HolderCounted
  <2>4. TypeOK'
    BY <1>0, <2>1, <2>2, <2>3 DEF TypeOK
  <2>5. Cardinality(Holders') = Cardinality(Holders) - 1
    BY <1>0, <2>1, <2>2, FS_RemoveElement
  <2>6. TasksCounted'
    BY <1>0, <2>1, <2>5 DEF TasksCounted
  <2> QED
    BY <2>4, <2>6
<1>3. CASE RunTidy(w) \/ RecordFailure(w) \/ Raise(w)
  <2>1. PICK l \in {"failed", "print", "dead"} : pc' = [pc EXCEPT ![w] = l]
    BY <1>3 DEF RunTidy, RecordFailure, Raise
  <2>2. w \in Holders /\ UNCHANGED <<unfinished, taskQueue, name>>
    BY <1>3 DEF RunTidy, RecordFailure, Raise, Holders
  <2>3. /\ pc' \in [Workers -> {"get", "check", "failed", "print", "dead"}]
        /\ Holders' = Holders
    <3>1. l \in {"get", "check", "failed", "print", "dead"} /\ l # "get" /\ w \in Workers
      BY <2>1
    <3>2. /\ pc' \in [Workers -> {"get", "check", "failed", "print", "dead"}]
          /\ Holders' = Holders \cup {w}
      BY <2>1, <3>1, HoldersMoved
    <3> QED
      BY <2>2, <3>2
  <2>4. name[w] \in Files
    BY <2>2 DEF TypeOK
  <2>5. runs' \in [Files -> Nat] /\ bad' \in SUBSET Files /\ failed' \in SUBSET Files
    BY <1>3, <2>4 DEF RunTidy, RecordFailure, Raise, TypeOK
  <2>6. TypeOK'
    BY <1>0, <2>2, <2>3, <2>5 DEF TypeOK
  <2>7. TasksCounted'
    BY <2>2, <2>3 DEF TasksCounted
  <2> QED
    BY <2>6, <2>7
<1> QED
  BY <1>1, <1>2, <1>3 DEF Thread, ThreadRaises

LEMMA StutterPart1 == Part1 /\ UNCHANGED vars => Part1'
<1> SUFFICES ASSUME Part1, UNCHANGED vars PROVE Part1'
  OBVIOUS
<1>1. /\ UNCHANGED <<taskQueue, unfinished, pc, name, failed, runs, bad>>
      /\ UNCHANGED <<main, next, returnCode, tmpdir, opts, broken>>
  BY DEF vars, pool
<1>2. Holders' = Holders
  BY <1>1 DEF Holders
<1> QED
  BY <1>1, <1>2 DEF Part1, TypeOK, TasksCounted

\* run_clang_tidy.py:200-375.  For any pool and any database, every variable keeps its type.
THEOREM TypeCorrect == Spec => []TypeOK
<1>1. Init => Part1
  BY InitPart1
<1>2. Part1 /\ [Next]_vars => Part1'
  BY MainPart1, ThreadPart1, StutterPart1 DEF Next
<1>3. Part1 => TypeOK
  BY DEF Part1
<1> QED
  BY <1>1, <1>2, <1>3, PTL DEF Spec

\* run_clang_tidy.py:162-196.  For any pool and any database, the queue's count of unfinished
\* tasks is that of the files that wait in it and those that a thread has and not reported.
THEOREM CountKept == Spec => []TasksCounted
<1>1. Init => Part1
  BY InitPart1
<1>2. Part1 /\ [Next]_vars => Part1'
  BY MainPart1, ThreadPart1, StutterPart1 DEF Next
<1>3. Part1 => TasksCounted
  BY DEF Part1
<1> QED
  BY <1>1, <1>2, <1>3, PTL DEF Spec

-----------------------------------------------------------------------------
(* Where every file is, and how often clang-tidy has run for it.           *)

LEMMA InitPart2 == Init => Part2
<1> SUFFICES ASSUME Init PROVE Part2
  OBVIOUS
<1>1. Holders = {} /\ DOMAIN taskQueue = {} /\ \A f \in Files : ~(f < next)
  BY PoolAssumption DEF Init, Holders, Files
<1>2. Placed
  BY <1>1 DEF Placed
<1>3. Ran
  BY <1>1 DEF Init, Ran
<1> QED
  BY <1>2, <1>3 DEF Part2

\* What the invariant says depends on main's steps through put() only.
LEMMA MainPart2 ==
  ASSUME TypeOK, Part2, Main \/ Interrupt
  PROVE  Part2'
<1> USE DEF Part2
<1>0. NumFiles \in Nat /\ next \in Nat /\ \A f \in Files : f \in Nat
  BY PoolAssumption DEF TypeOK, Files
<1>1. CASE Put
  <2>1. /\ next \in Files /\ next' = next + 1 /\ taskQueue' = Append(taskQueue, next)
        /\ UNCHANGED <<pc, name, runs, opts>>
    <3>1. next \in Files
      BY <1>0, <1>1 DEF Put, Files, TypeOK
    <3> QED
      BY <3>1, <1>1 DEF Put
  <2>2. Holders' = Holders
    BY <2>1 DEF Holders
  <2>3. /\ DOMAIN taskQueue = 1..Len(taskQueue) /\ Len(taskQueue) \in Nat
        /\ DOMAIN taskQueue' = 1..(Len(taskQueue) + 1)
        /\ \A i \in 1..Len(taskQueue) : taskQueue'[i] = taskQueue[i] /\ taskQueue[i] \in Files
        /\ taskQueue'[Len(taskQueue) + 1] = next
    BY <2>1, AppendFacts DEF TypeOK
  <2>4. \A f : In(f, taskQueue') <=> In(f, taskQueue) \/ f = next
    BY <2>3 DEF In
  <2>5. \A f : With(f, Holders', name') <=> With(f, Holders, name)
    BY <2>1, <2>2 DEF With
  <2>6. \A w \in Holders : name[w] \in Files /\ name[w] < next
    BY DEF TypeOK, Placed
  <2>7. Placed'
    <3>1. \A i \in DOMAIN taskQueue' : taskQueue'[i] < next'
      <4>1. SUFFICES ASSUME NEW i \in 1..(Len(taskQueue) + 1) PROVE taskQueue'[i] < next + 1
        BY <2>1, <2>3
      <4>2. CASE i = Len(taskQueue) + 1
        BY <1>0, <2>3, <4>2
      <4>3. CASE i # Len(taskQueue) + 1
        <5>1. i \in 1..Len(taskQueue)
          BY <2>3, <4>3
        <5>2. taskQueue[i] < next /\ taskQueue[i] \in Nat /\ taskQueue'[i] = taskQueue[i]
          BY <1>0, <2>3, <5>1 DEF Placed
        <5> QED
          BY <1>0, <5>2
      <4> QED
        BY <4>2, <4>3
    <3>2. \A i, j \in DOMAIN taskQueue' : taskQueue'[i] = taskQueue'[j] => i = j
      BY <1>0, <2>3 DEF Placed
    <3>3. \A w \in Holders' : name'[w] < next' /\ ~In(name'[w], taskQueue')
      <4>1. SUFFICES ASSUME NEW w \in Holders
                     PROVE  name[w] < next + 1 /\ ~In(name[w], taskQueue')
        BY <2>1, <2>2
      <4>2. name[w] \in Nat /\ name[w] < next /\ ~In(name[w], taskQueue)
        BY <1>0, <2>6 DEF Placed
      <4>3. name[w] < next + 1 /\ name[w] # next
        BY <1>0, <4>2
      <4> QED
        BY <2>4, <4>2, <4>3
    <3>4. \A v, w \in Holders' : name'[v] = name'[w] => v = w
      BY <2>1, <2>2 DEF Placed
    <3> QED
      BY <2>1, <3>1, <3>2, <3>3, <3>4 DEF Placed
  <2>8. Ran'
    <3>1. \A f \in Files : f >= next' \/ In(f, taskQueue') => runs'[f] = 0
      BY <1>0, <2>1, <2>4 DEF Ran
    <3>2. \A w \in Workers : pc'[w] = "check" => runs'[name'[w]] = 0
      BY <2>1 DEF Ran
    <3>3. \A w \in Workers : pc'[w] \in {"failed", "print"} =>
            runs'[name'[w]] = 1 /\ name'[w] \notin opts'.thirdParty
      BY <2>1 DEF Ran
    <3>4. \A f \in Files : f < next' /\ ~In(f, taskQueue') /\ ~With(f, Holders', name') =>
            runs'[f] = IF f \in opts'.thirdParty THEN 0 ELSE 1
      BY <1>0, <2>1, <2>4, <2>5 DEF Ran
    <3> QED
      BY <3>1, <3>2, <3>3, <3>4 DEF Ran
  <2> QED
    BY <2>7, <2>8
<1>2. CASE ~Put
  <2>1. UNCHANGED <<pool, next, opts>>
    BY <1>2 DEF Main, PrepareFails, BadPattern, Prepare, Join, ExportFixes, ApplyFixes, Interrupt, rest
  <2>2. UNCHANGED <<taskQueue, pc, name, runs, next, opts>>
    BY <2>1 DEF pool
  <2> QED
    BY <2>2 DEF Placed, Ran, Holders, In, With
<1> QED
  BY <1>1, <1>2

LEMMA ThreadPart2 ==
  ASSUME TypeOK, Part2, NEW w \in Workers, Thread(w) \/ ThreadRaises(w)
  PROVE  Part2'
<1> USE DEF Part2
<1>0. /\ UNCHANGED <<next, opts>> /\ next \in Nat
      /\ \A f \in Files : f \in Nat
      /\ DOMAIN taskQueue = 1..Len(taskQueue) /\ Len(taskQueue) \in Nat
      /\ \A v \in Holders : name[v] \in Files
  BY PoolAssumption DEF Thread, ThreadRaises, rest, TypeOK, Files
<1>1. CASE Get(w)
  <2>1. /\ pc' = [pc EXCEPT ![w] = "check"] /\ w \notin Holders
        /\ taskQueue # <<>> /\ name' = [name EXCEPT ![w] = Head(taskQueue)]
        /\ taskQueue' = Tail(taskQueue) /\ runs' = runs
    BY <1>1 DEF Get, Holders
  <2>2. /\ pc'[w] = "check" /\ \A v \in Workers \ {w} : pc'[v] = pc[v]
        /\ Holders' = Holders \cup {w}
    BY <2>1, HoldersMoved
  <2>3. /\ Head(taskQueue) = taskQueue[1] /\ taskQueue[1] \in Files /\ Len(taskQueue) > 0
        /\ DOMAIN taskQueue' = 1..(Len(taskQueue) - 1)
        /\ \A i \in 1..(Len(taskQueue) - 1) : taskQueue'[i] = taskQueue[i + 1]
    BY <2>1, TailFacts DEF TypeOK
  <2>4. name'[w] = taskQueue[1] /\ \A v \in Workers \ {w} : name'[v] = name[v]
    BY <2>1, <2>3 DEF TypeOK
  <2>5. \A i \in 1..(Len(taskQueue) - 1) : taskQueue[i + 1] # taskQueue[1]
    BY <1>0, <2>3 DEF Placed
  <2>6. \A f : In(f, taskQueue) <=> In(f, taskQueue') \/ f = taskQueue[1]
    <3>1. ASSUME NEW f, In(f, taskQueue) PROVE In(f, taskQueue') \/ f = taskQueue[1]
      <4>1. PICK i \in 1..Len(taskQueue) : taskQueue[i] = f
        BY <1>0, <3>1 DEF In
      <4>2. CASE i = 1
        BY <4>1, <4>2
      <4>3. CASE i # 1
        <5>1. i - 1 \in 1..(Len(taskQueue) - 1) /\ (i - 1) + 1 = i
          BY <1>0, <4>1, <4>3
        <5> QED
          BY <2>3, <4>1, <5>1 DEF In
      <4> QED
        BY <4>2, <4>3
    <3>2. ASSUME NEW f, In(f, taskQueue') PROVE In(f, taskQueue)
      <4>1. PICK i \in 1..(Len(taskQueue) - 1) : taskQueue'[i] = f
        BY <2>3, <3>2 DEF In
      <4>2. i + 1 \in 1..Len(taskQueue) /\ taskQueue[i + 1] = f
        BY <1>0, <2>3, <4>1
      <4> QED
        BY <1>0, <4>2 DEF In
    <3>3. In(taskQueue[1], taskQueue)
      BY <1>0, <2>3 DEF In
    <3> QED
      BY <3>1, <3>2, <3>3
  <2>7. ~In(taskQueue[1], taskQueue')
    BY <2>3, <2>5 DEF In
  <2>8. \A f : With(f, Holders', name') <=> With(f, Holders, name) \/ f = taskQueue[1]
    BY <2>1, <2>2, <2>4 DEF With, Holders
  <2>9. Placed'
    <3>1. \A i \in DOMAIN taskQueue' : taskQueue'[i] < next'
      BY <1>0, <2>3 DEF Placed
    <3>2. \A i, j \in DOMAIN taskQueue' : taskQueue'[i] = taskQueue'[j] => i = j
      <4>1. SUFFICES ASSUME NEW i \in 1..(Len(taskQueue) - 1), NEW j \in 1..(Len(taskQueue) - 1),
                            taskQueue[i + 1] = taskQueue[j + 1]
                     PROVE  i = j
        BY <2>3
      <4>2. i + 1 \in DOMAIN taskQueue /\ j + 1 \in DOMAIN taskQueue
        BY <1>0
      <4>3. i + 1 = j + 1
        BY <4>1, <4>2 DEF Placed
      <4> QED
        BY <4>3
    <3>3. \A v \in Holders' : name'[v] < next' /\ ~In(name'[v], taskQueue')
      <4>1. taskQueue[1] < next
        BY <1>0, <2>3 DEF Placed
      <4>2. \A v \in Holders : name'[v] = name[v]
        BY <2>1, <2>4 DEF Holders
      <4> QED
        BY <1>0, <2>2, <2>4, <2>6, <2>7, <4>1, <4>2 DEF Placed
    <3>4. \A u, v \in Holders' : name'[u] = name'[v] => u = v
      <4>1. \A v \in Holders : v # w /\ name'[v] = name[v] /\ name[v] # taskQueue[1]
        BY <2>1, <2>4, <2>6 DEF Holders, Placed
      <4> QED
        BY <2>2, <2>4, <4>1 DEF Placed
    <3> QED
      BY <3>1, <3>2, <3>3, <3>4 DEF Placed
  <2>10. Ran'
    <3>1. \A f \in Files : f >= next' \/ In(f, taskQueue') => runs'[f] = 0
      BY <1>0, <2>1, <2>6 DEF Ran
    <3>2. \A v \in Workers : pc'[v] = "check" => runs'[name'[v]] = 0
      BY <2>1, <2>2, <2>3, <2>4, <2>6 DEF Ran
    <3>3. \A v \in Workers : pc'[v] \in {"failed", "print"} =>
            runs'[name'[v]] = 1 /\ name'[v] \notin opts'.thirdParty
      BY <1>0, <2>1, <2>2, <2>4 DEF Ran
    <3>4. \A f \in Files : f < next' /\ ~In(f, taskQueue') /\ ~With(f, Holders', name') =>
            runs'[f] = IF f \in opts'.thirdParty THEN 0 ELSE 1
      BY <1>0, <2>1, <2>6, <2>8 DEF Ran
    <3> QED
      BY <3>1, <3>2, <3>3, <3>4 DEF Ran
  <2> QED
    BY <2>9, <2>10
<1>2. CASE Skip(w) \/ Report(w)
  <2>1. /\ pc' = [pc EXCEPT ![w] = "get"] /\ w \in Holders
        /\ UNCHANGED <<taskQueue, name, runs>>
        /\ \/ pc[w] = "check" /\ name[w] \in opts.thirdParty
           \/ pc[w] = "print"
    BY <1>2 DEF Skip, Report, TaskDone, Holders, ShouldSkip
  <2>2. /\ pc'[w] = "get" /\ \A v \in Workers \ {w} : pc'[v] = pc[v]
        /\ Holders' = Holders \ {w}
    BY <2>1, HoldersMoved
  <2>3. \A f : In(f, taskQueue') <=> In(f, taskQueue)
    BY <2>1 DEF In
  <2>4. \A f : With(f, Holders', name') <=> With(f, Holders, name) /\ f # name[w]
    BY <2>1, <2>2 DEF With, Placed
  <2>5. Placed'
    <3>1. \A v \in Holders' : name'[v] < next' /\ ~In(name'[v], taskQueue')
      BY <1>0, <2>1, <2>2, <2>3 DEF Placed
    <3> QED
      BY <1>0, <2>1, <2>2, <3>1 DEF Placed
  <2>6. Ran'
    <3>1. \A f \in Files : f >= next' \/ In(f, taskQueue') => runs'[f] = 0
      BY <1>0, <2>1, <2>3 DEF Ran
    <3>2. \A v \in Workers : pc'[v] = "check" => runs'[name'[v]] = 0
      BY <2>1, <2>2 DEF Ran
    <3>3. \A v \in Workers : pc'[v] \in {"failed", "print"} =>
            runs'[name'[v]] = 1 /\ name'[v] \notin opts'.thirdParty
      BY <1>0, <2>1, <2>2 DEF Ran
    <3>4. runs[name[w]] = IF name[w] \in opts.thirdParty THEN 0 ELSE 1
      BY <2>1 DEF Ran
    <3>5. \A f \in Files : f < next' /\ ~In(f, taskQueue') /\ ~With(f, Holders', name') =>
            runs'[f] = IF f \in opts'.thirdParty THEN 0 ELSE 1
      BY <1>0, <2>1, <2>3, <2>4, <3>4 DEF Ran
    <3> QED
      BY <3>1, <3>2, <3>3, <3>5 DEF Ran
  <2> QED
    BY <2>5, <2>6
<1>3. CASE RunTidy(w) \/ RecordFailure(w) \/ Raise(w)
  <2>1. PICK l \in {"failed", "print", "dead"} : pc' = [pc EXCEPT ![w] = l]
    BY <1>3 DEF RunTidy, RecordFailure, Raise
  <2>2. w \in Holders /\ UNCHANGED <<taskQueue, name>> /\ name[w] \in Files
    BY <1>0, <1>3 DEF RunTidy, RecordFailure, Raise, Holders
  <2>3. /\ pc'[w] = l /\ \A v \in Workers \ {w} : pc'[v] = pc[v]
        /\ Holders' = Holders
    <3>1. l \in {"get", "check", "failed", "print", "dead"} /\ l # "get" /\ w \in Workers
      BY <2>1
    <3>2. /\ pc'[w] = l /\ \A v \in Workers \ {w} : pc'[v] = pc[v]
          /\ Holders' = Holders \cup {w}
      BY <2>1, <3>1, HoldersMoved
    <3> QED
      BY <2>2, <3>2
  <2>4. (\A f : In(f, taskQueue') <=> In(f, taskQueue)) /\ (\A f : With(f, Holders', name') <=> With(f, Holders, name))
    BY <2>2, <2>3 DEF In, With
  <2>5. Placed'
    <3>1. \A v \in Holders' : name'[v] < next' /\ ~In(name'[v], taskQueue')
      BY <1>0, <2>2, <2>3, <2>4 DEF Placed
    <3> QED
      BY <1>0, <2>2, <2>3, <3>1 DEF Placed
  <2>6. /\ \A f \in Files : f # name[w] => runs'[f] = runs[f]
        /\ l \in {"failed", "print"} => runs'[name[w]] = 1 /\ name[w] \notin opts.thirdParty
    <3>1. CASE RunTidy(w)
      <4>1. /\ pc[w] = "check" /\ name[w] \notin opts.thirdParty
            /\ runs' = [runs EXCEPT ![name[w]] = @ + 1]
        BY <3>1 DEF RunTidy, ShouldSkip
      <4>2. runs[name[w]] = 0
        BY <4>1 DEF Ran
      <4> QED
        BY <2>2, <4>1, <4>2 DEF TypeOK
    <3>2. CASE RecordFailure(w)
      BY <3>2 DEF RecordFailure, Ran
    <3>3. CASE Raise(w)
      <4>1. pc'[w] = "dead" /\ runs' = runs
        BY <3>3 DEF Raise, TypeOK
      <4> QED
        BY <2>3, <4>1
    <3> QED
      BY <1>3, <3>1, <3>2, <3>3
  <2>7. \A v \in Holders : v # w => name[v] # name[w]
    BY <2>2 DEF Placed
  <2>8. name[w] < next /\ ~In(name[w], taskQueue) /\ With(name[w], Holders, name)
    BY <2>2 DEF Placed, With
  <2>9. Ran'
    <3>1. \A f \in Files : f >= next' \/ In(f, taskQueue') => runs'[f] = 0
      BY <1>0, <2>2, <2>4, <2>6, <2>8 DEF Ran
    <3>2. \A v \in Workers : pc'[v] = "check" => runs'[name'[v]] = 0
      <4>1. SUFFICES ASSUME NEW v \in Workers, pc'[v] = "check" PROVE runs'[name'[v]] = 0
        OBVIOUS
      <4>2. v # w /\ pc[v] = "check" /\ v \in Holders
        BY <2>1, <2>3, <4>1 DEF Holders
      <4>3. runs[name[v]] = 0 /\ name[v] # name[w] /\ name[v] \in Files
        BY <1>0, <2>7, <4>2 DEF Ran
      <4> QED
        BY <2>2, <2>6, <4>3
    <3>3. \A v \in Workers : pc'[v] \in {"failed", "print"} =>
            runs'[name'[v]] = 1 /\ name'[v] \notin opts'.thirdParty
      <4>1. SUFFICES ASSUME NEW v \in Workers, pc'[v] \in {"failed", "print"}
                     PROVE  runs'[name'[v]] = 1 /\ name'[v] \notin opts'.thirdParty
        OBVIOUS
      <4>2. CASE v = w
        BY <1>0, <2>2, <2>3, <2>6, <4>1, <4>2
      <4>3. CASE v # w
        <5>1. pc[v] \in {"failed", "print"} /\ v \in Holders
          BY <2>3, <4>1, <4>3 DEF Holders
        <5>2. runs[name[v]] = 1 /\ name[v] \notin opts.thirdParty
              /\ name[v] # name[w] /\ name[v] \in Files
          BY <1>0, <2>7, <4>3, <5>1 DEF Ran
        <5> QED
          BY <1>0, <2>2, <2>6, <5>2
      <4> QED
        BY <4>2, <4>3
    <3>4. \A f \in Files : f < next' /\ ~In(f, taskQueue') /\ ~With(f, Holders', name') =>
            runs'[f] = IF f \in opts'.thirdParty THEN 0 ELSE 1
      BY <1>0, <2>4, <2>6, <2>8 DEF Ran
    <3> QED
      BY <3>1, <3>2, <3>3, <3>4 DEF Ran
  <2> QED
    BY <2>5, <2>9
<1> QED
  BY <1>1, <1>2, <1>3 DEF Thread, ThreadRaises

LEMMA StutterPart2 == Part2 /\ UNCHANGED vars => Part2'
<1> SUFFICES ASSUME Part2, UNCHANGED vars PROVE Part2'
  OBVIOUS
<1>1. UNCHANGED <<taskQueue, pc, name, runs, next, opts>>
  BY DEF vars, pool
<1> QED
  BY <1>1 DEF Part2, Placed, Ran, Holders, In, With

-----------------------------------------------------------------------------
(* Failures, and what main makes of them.                                  *)

\* Nothing is unfinished behind join(): no thread has a task and none waits.
LEMMA NothingLeft ==
  ASSUME Part1, unfinished = 0
  PROVE  Holders = {} /\ taskQueue = <<>>
<1>1. Len(taskQueue) \in Nat /\ taskQueue \in Seq(Files)
  BY DEF Part1, TypeOK
<1>2. Cardinality(Holders) = 0 /\ Len(taskQueue) = 0
  BY <1>1, HoldersFinite DEF Part1, TasksCounted
<1>3. Holders = {}
  BY <1>2, HoldersFinite, FS_EmptySet
<1> QED
  BY <1>1, <1>2, <1>3

\* The barrier: behind join() each file has been through clang-tidy.
LEMMA Barrier ==
  ASSUME Part1, Part2, unfinished = 0, next > NumFiles
  PROVE  /\ Holders = {} /\ taskQueue = <<>>
         /\ \A f \in Files : runs[f] = IF f \in opts.thirdParty THEN 0 ELSE 1
<1>1. Holders = {} /\ taskQueue = <<>>
  BY NothingLeft
<1>2. \A f : ~In(f, taskQueue) /\ ~With(f, Holders, name)
  BY <1>1 DEF In, With
<1>3. \A f \in Files : f < next
  BY PoolAssumption DEF Files, Part1, TypeOK
<1> QED
  BY <1>1, <1>2, <1>3 DEF Part2, Ran

LEMMA InitPart3 == Init => Part3
<1> SUFFICES ASSUME Init PROVE Part3
  OBVIOUS
<1>1. Failures
  BY DEF Init, Failures
<1>2. Behind
  BY DEF Init, Behind
<1>3. ExitTells
  BY DEF Init, ExitTells
<1> QED
  BY <1>1, <1>2, <1>3 DEF Part3

LEMMA MainPart3 ==
  ASSUME Part1, Part2, Part3, Main \/ Interrupt
  PROVE  Part3'
<1>1. UNCHANGED <<pc, name, failed, runs, bad, opts>>
  BY DEF Main, Put, PrepareFails, BadPattern, Prepare, Join, ExportFixes, ApplyFixes, Interrupt, rest, pool
<1>2. Failures'
  BY <1>1 DEF Part3, Failures
<1>3. Behind' /\ ExitTells'
  <2>1. CASE PrepareFails
    BY <1>1, <2>1 DEF PrepareFails, rest, Part3, Behind, ExitTells
  <2>2. CASE Prepare
    BY <1>1, <2>2 DEF Prepare, rest, Part3, Behind, ExitTells
  <2>3. CASE Put
    BY <1>1, <2>3 DEF Put, Part3, Behind, ExitTells
  <2>4. CASE Join
    <3>1. /\ main = "put" /\ main' = "export" /\ next > NumFiles /\ unfinished = 0
          /\ UNCHANGED <<next, unfinished, tmpdir, broken>>
          /\ returnCode' = IF failed # {} THEN 1 ELSE returnCode
      BY <2>4 DEF Join, rest, pool
    <3>2. Holders = {}
      BY <3>1, NothingLeft
    <3>3. \A w \in Workers : pc[w] # "failed"
      BY <3>2 DEF Holders
    <3>4. failed = bad
      BY <3>3 DEF Part3, Failures
    <3>5. Told' /\ broken' = {}
      BY <1>1, <3>1, <3>4 DEF Part3, Behind, Told
    <3> QED
      BY <3>1, <3>5 DEF Behind, ExitTells
  <2>5. CASE ExportFixes
    <3>1. /\ main = "export" /\ main' = "fix" /\ broken = {} /\ Told
          /\ next > NumFiles /\ unfinished = 0 /\ UNCHANGED <<next, unfinished, tmpdir>>
      BY <2>5 DEF ExportFixes, pool, rest, Part3, Behind
    <3>2. CASE UNCHANGED <<returnCode, broken>>
      BY <1>1, <3>1, <3>2 DEF Behind, ExitTells, Told
    <3>3. CASE returnCode' = 1 /\ broken' = broken \cup {"export"}
      <4>1. broken' = {"export"} /\ Told'
        BY <3>1, <3>3 DEF Told
      <4> QED
        BY <3>1, <4>1 DEF Behind, ExitTells
    <3> QED
      BY <2>5, <3>2, <3>3 DEF ExportFixes
  <2>6. CASE ApplyFixes
    <3>1. main = "fix" /\ main' = "exited" /\ tmpdir' = "none" /\ Told
      BY <2>6 DEF ApplyFixes, Part3, Behind
    <3>2. Told'
      BY <1>1, <2>6, <3>1 DEF ApplyFixes, Told
    <3> QED
      BY <3>1, <3>2 DEF Behind, ExitTells, Told
  <2>7. CASE Interrupt
    BY <2>7 DEF Interrupt, Behind, ExitTells
  <2>8. CASE BadPattern
    BY <1>1, <2>8 DEF BadPattern, rest, Part3, Behind, ExitTells
  <2> QED
    BY <2>1, <2>2, <2>3, <2>4, <2>5, <2>6, <2>7, <2>8 DEF Main
<1> QED
  BY <1>2, <1>3 DEF Part3

LEMMA ThreadPart3 ==
  ASSUME Part1, Part3, NEW w \in Workers, Thread(w) \/ ThreadRaises(w)
  PROVE  Part3'
<1>0. /\ UNCHANGED <<main, next, opts, returnCode, tmpdir, broken>>
      /\ main \notin {"start", "exited", "killed"} /\ TypeOK
  BY DEF Thread, ThreadRaises, rest, Running, Part1
<1>1. main = "put"
  <2>1. main \in {"export", "fix"} => Holders = {} /\ taskQueue = <<>>
    BY NothingLeft DEF Part3, Behind
  <2>2. w \in Holders \/ taskQueue # <<>>
    BY DEF Thread, ThreadRaises, Get, Skip, RunTidy, RecordFailure, Report, Raise, Holders
  <2> QED
    BY <1>0, <2>1, <2>2 DEF TypeOK
<1>2. Behind' /\ ExitTells'
  BY <1>0, <1>1 DEF Part3, Behind, ExitTells
<1>3. Failures'
  <2>1. CASE Get(w)
    <3>1. /\ pc[w] = "get" /\ pc' = [pc EXCEPT ![w] = "check"] /\ UNCHANGED <<failed, bad>>
          /\ \A v \in Workers \ {w} : name'[v] = name[v] /\ pc'[v] = pc[v]
          /\ pc'[w] = "check"
      BY <1>0, <2>1 DEF Get, TypeOK
    <3> QED
      BY <3>1 DEF Part3, Failures
  <2>2. CASE Skip(w) \/ Report(w) \/ Raise(w)
    <3>1. PICK l \in {"get", "dead"} : pc' = [pc EXCEPT ![w] = l]
      BY <2>2 DEF Skip, Report, Raise, TaskDone
    <3>2. /\ UNCHANGED <<failed, bad, name>> /\ pc[w] # "failed" /\ pc'[w] # "failed"
          /\ \A v \in Workers \ {w} : pc'[v] = pc[v]
      BY <1>0, <2>2, <3>1 DEF Skip, Report, Raise, TypeOK
    <3> QED
      BY <3>2 DEF Part3, Failures
  <2>3. CASE RunTidy(w)
    <3>1. /\ pc[w] = "check" /\ UNCHANGED <<failed, name>>
          /\ \A v \in Workers \ {w} : pc'[v] = pc[v]
          /\ \/ pc'[w] = "print" /\ bad' = bad
             \/ pc'[w] = "failed" /\ bad' = bad \cup {name[w]}
      BY <1>0, <2>3 DEF RunTidy, TypeOK
    <3> QED
      BY <3>1 DEF Part3, Failures
  <2>4. CASE RecordFailure(w)
    <3>1. /\ pc[w] = "failed" /\ UNCHANGED <<bad, name>> /\ failed' = failed \cup {name[w]}
          /\ pc'[w] = "print" /\ \A v \in Workers \ {w} : pc'[v] = pc[v]
      BY <1>0, <2>4 DEF RecordFailure, TypeOK
    <3> QED
      BY <3>1 DEF Part3, Failures
  <2> QED
    BY <2>1, <2>2, <2>3, <2>4 DEF Thread, ThreadRaises
<1> QED
  BY <1>2, <1>3 DEF Part3

LEMMA StutterPart3 == Part3 /\ UNCHANGED vars => Part3'
<1> SUFFICES ASSUME Part3, UNCHANGED vars PROVE Part3'
  OBVIOUS
<1>1. /\ UNCHANGED <<taskQueue, unfinished, pc, name, failed, runs, bad>>
      /\ UNCHANGED <<main, next, returnCode, tmpdir, opts, broken>>
  BY DEF vars, pool
<1> QED
  BY <1>1 DEF Part3, Failures, Behind, Told, ExitTells

-----------------------------------------------------------------------------
(* The invariant, and what follows from it.                                *)

LEMMA Inductive == Spec => []IInv
<1>1. Init => IInv
  BY InitPart1, InitPart2, InitPart3 DEF IInv
<1>2. IInv /\ [Next]_vars => IInv'
  <2> SUFFICES ASSUME IInv, [Next]_vars PROVE IInv'
    OBVIOUS
  <2>0. Part1 /\ Part2 /\ Part3 /\ TypeOK
    BY DEF IInv, Part1
  <2>1. CASE Main \/ Interrupt
    BY <2>0, <2>1, MainPart1, MainPart2, MainPart3 DEF IInv
  <2>2. ASSUME NEW w \in Workers, Thread(w) \/ ThreadRaises(w) PROVE IInv'
    BY <2>0, <2>2, ThreadPart1, ThreadPart2, ThreadPart3 DEF IInv
  <2>3. CASE UNCHANGED vars
    BY <2>0, <2>3, StutterPart1, StutterPart2, StutterPart3 DEF IInv
  <2> QED
    BY <2>1, <2>2, <2>3 DEF Next
<1> QED
  BY <1>1, <1>2, PTL DEF Spec

\* run_clang_tidy.py:317-371.  For any pool and any database, when join() has returned every
\* file has been through clang-tidy exactly once, third-party files never, and no thread
\* is at work.
THEOREM JoinIsBarrier == Spec => []JoinComplete
<1>1. IInv => JoinComplete
  <2> SUFFICES ASSUME IInv, main \in {"export", "fix"}
               PROVE  /\ Holders = {} /\ taskQueue = <<>>
                      /\ \A f \in Files : runs[f] = IF f \in opts.thirdParty THEN 0 ELSE 1
    BY DEF JoinComplete
  <2>1. next > NumFiles /\ unfinished = 0
    BY DEF IInv, Part3, Behind
  <2> QED
    BY <2>1, Barrier DEF IInv
<1> QED
  BY <1>1, Inductive, PTL

\* run_clang_tidy.py:286-375.  For any pool and any database, the exit status tells
\* whether anything failed, except what clang-apply-replacements reports, and only a bad
\* pattern leaves a temporary directory behind.
THEOREM ExitIsTold == Spec => []ExitTells
<1>1. IInv => ExitTells
  BY DEF IInv, Part3
<1> QED
  BY <1>1, Inductive, PTL
=============================================================================
