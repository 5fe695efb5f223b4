---------------------------- MODULE NumberFacts ------------------------------
(***************************************************************************)
(* Facts about numbers that the proofs about several components use.       *)
(*                                                                         *)
(* Runs of consecutive numbers are what a FifoQueue holds: what it gets    *)
(* behind a run is a run, and what is left when the first items are taken  *)
(* is one.  Induction is stated for sets of numbers.                       *)
(***************************************************************************)
EXTENDS Integers, Sequences, SequenceTheorems, FiniteSetTheorems, WellFoundedInduction, TLAPS

-----------------------------------------------------------------------------
(* Induction.                                                              *)

\* A set of numbers has a least element: the finite sets 0..n are well-founded under
\* inclusion.
LEMMA LeastElement ==
  ASSUME NEW S \in SUBSET Nat, S # {}
  PROVE  \E n \in S : \A m \in S : n <= m
<1> DEFINE T == {0..n : n \in S}
<1>1. \A n \in Nat : IsFiniteSet(0..n)
  BY FS_Interval
<1>2. T \subseteq FiniteSubsetsOf(Nat)
  BY <1>1 DEF FiniteSubsetsOf
<1>3. T # {}
  OBVIOUS
<1>4. \E x \in T : \A y \in T : ~(<<y, x>> \in StrictSubsetOrdering(Nat))
  <2> HIDE DEF T
  <2> QED
    BY <1>2, <1>3, FS_StrictSubsetOrderingWellFounded, WFMin, Zenon
<1>5. PICK n \in S : \A m \in S : ~(<<0..m, 0..n>> \in StrictSubsetOrdering(Nat))
  BY <1>4
<1>6. ASSUME NEW m \in S, m < n PROVE FALSE
  <2>1. 0..m \subseteq 0..n /\ n \in 0..n /\ n \notin 0..m
    BY <1>6
  <2>2. <<0..m, 0..n>> \in StrictSubsetOrdering(Nat)
    BY <2>1 DEF StrictSubsetOrdering
  <2> QED
    BY <1>5, <2>2
<1> QED
  BY <1>6

\* A set that holds 0 and with every number the next one holds all.
LEMMA AllNumbers ==
  ASSUME NEW S, 0 \in S, \A n \in Nat : n \in S => n + 1 \in S
  PROVE  \A n \in Nat : n \in S
<1> SUFFICES ASSUME NEW k \in Nat, k \notin S PROVE FALSE
  OBVIOUS
<1> DEFINE T == {n \in Nat : n \notin S}
<1>1. PICK n \in T : \A m \in T : n <= m
  <2>1. T \in SUBSET Nat /\ T # {}
    OBVIOUS
  <2> HIDE DEF T
  <2> QED
    BY <2>1, LeastElement
<1>2. n # 0 /\ n - 1 \in Nat /\ n - 1 < n
  BY <1>1
<1>3. n - 1 \in S
  BY <1>1, <1>2
<1>4. (n - 1) + 1 = n
  BY <1>1
<1> QED
  BY <1>1, <1>2, <1>3, <1>4

-----------------------------------------------------------------------------
(* Runs.                                                                   *)

\* n numbers from a on.
Run(a, n) == [k \in 1..n |-> a + k - 1]

LEMMA RunType ==
  ASSUME NEW a \in Nat, NEW n \in Nat
  PROVE  /\ Run(a, n) \in Seq(Nat) /\ Len(Run(a, n)) = n
         /\ \A k \in 1..n : Run(a, n)[k] = a + k - 1
<1>1. \A k \in 1..n : a + k - 1 \in Nat
  OBVIOUS
<1> QED
  BY <1>1 DEF Run

LEMMA EmptyRun == ASSUME NEW a \in Nat PROVE Run(a, 0) = <<>>
  BY RunType

\* What is known of a sequence's length and elements makes it a run.
LEMMA IsRun ==
  ASSUME NEW s \in Seq(Nat), NEW a \in Nat, NEW n \in Nat, Len(s) = n,
         \A k \in 1..n : s[k] = a + k - 1
  PROVE  s = Run(a, n)
<1>1. DOMAIN s = 1..n /\ s = [k \in 1..n |-> s[k]]
  BY LenProperties
<1> QED
  BY <1>1 DEF Run

LEMMA RunConcat ==
  ASSUME NEW a \in Nat, NEW n \in Nat, NEW m \in Nat
  PROVE  Run(a, n) \o Run(a + n, m) = Run(a, n + m)
<1> DEFINE s == Run(a, n)
           t == Run(a + n, m)
<1>0. a + n \in Nat /\ n + m \in Nat
  OBVIOUS
<1>1. /\ s \in Seq(Nat) /\ Len(s) = n /\ \A k \in 1..n : s[k] = a + k - 1
      /\ t \in Seq(Nat) /\ Len(t) = m /\ \A k \in 1..m : t[k] = a + n + k - 1
  BY <1>0, RunType
<1> HIDE DEF s, t
<1>2. /\ s \o t \in Seq(Nat) /\ Len(s \o t) = n + m
      /\ \A k \in 1..(n + m) : (s \o t)[k] = IF k <= n THEN s[k] ELSE t[k - n]
  BY <1>1, ConcatProperties
<1>3. \A k \in 1..(n + m) : (s \o t)[k] = a + k - 1
  BY <1>1, <1>2
<1>4. s \o t = Run(a, n + m)
  BY <1>0, <1>2, <1>3, IsRun
<1> QED
  BY <1>4 DEF s, t

LEMMA RunDrop ==
  ASSUME NEW a \in Nat, NEW n \in Nat, NEW m \in 0..n
  PROVE  SubSeq(Run(a, n), m + 1, n) = Run(a + m, n - m)
<1> DEFINE s == Run(a, n)
           t == SubSeq(s, m + 1, n)
<1>1. s \in Seq(Nat) /\ Len(s) = n /\ \A k \in 1..n : s[k] = a + k - 1
  BY RunType
<1> HIDE DEF s
<1>2. \A k \in (m + 1)..n : s[k] \in Nat
  BY <1>1
<1>3. /\ t \in Seq(Nat) /\ Len(t) = n - m
      /\ \A k \in 1..(n - m) : t[k] = s[m + k]
  <2>1. m + 1 \in Int /\ n \in Int
    OBVIOUS
  <2>2. /\ t \in Seq(Nat)
        /\ Len(t) = IF m + 1 <= n THEN n - (m + 1) + 1 ELSE 0
        /\ \A k \in 1..(n - (m + 1) + 1) : t[k] = s[(m + 1) + k - 1]
    BY <1>2, <2>1, SubSeqProperties
  <2> HIDE DEF t
  <2>3. n - (m + 1) + 1 = n - m /\ \A k \in 1..(n - m) : (m + 1) + k - 1 = m + k
    OBVIOUS
  <2> QED
    BY <2>2, <2>3
<1>4. \A k \in 1..(n - m) : t[k] = a + m + k - 1
  BY <1>1, <1>3
<1>5. t = Run(a + m, n - m)
  <2> HIDE DEF t
  <2> QED
    BY <1>3, <1>4, IsRun
<1> QED
  BY <1>5 DEF s
=============================================================================
