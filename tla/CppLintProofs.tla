---------------------------- MODULE CppLintProofs -----------------------------
(***************************************************************************)
(* For all calls of cpplint.py, whatever their files, configurations and   *)
(* arguments hold: the filters of a configuration end with its file,       *)
(* whether an error is printed is up to its own file, the file's           *)
(* directories and the arguments, no branch forgets the headers included   *)
(* before it, the system headers reported are those out of order, and what *)
(* lies behind #else leaves the blocks alone.                              *)
(*                                                                         *)
(* FiltersRestored speaks of the moments between two files.  It is kept    *)
(* because the backup that is taken before the configurations are read     *)
(* holds the filters of the arguments all the while a file is looked at.   *)
(*                                                                         *)
(* PrintedExactly is kept because all that an error is judged by is of     *)
(* the file in hand: the filters, the global suppressions, the text, and   *)
(* the marks of a set of lines that holds every line before the next one.  *)
(* An error about a line is raised when its line and the one before have   *)
(* been looked at, one about the file when all have; before the first line *)
(* only the errors about the header guard are, whose lines are looked at   *)
(* just for them.                                                          *)
(*                                                                         *)
(* TopLevelRemembered and OrderFollowsGuide speak of the include lists,    *)
(* which are followed line by line (IncludeInv): the lists that no open    *)
(* conditional has made keep the headers of depth 0 (Kept), the section is *)
(* the one that the includes since the last directive lead to              *)
(* (SectionFits), and no error about an include is reported on a line that *)
(* has not been looked at (Raised).                                        *)
(*                                                                         *)
(* StackFollowsBranches compares the nesting of a file with that of the    *)
(* file without the parts behind #else, line by line (Paired).  While the  *)
(* open branches are first ones both are the same.  Else the second stays  *)
(* as it was at the outermost #else, which the first remembers and goes    *)
(* back to at its #endif.  The empty lines that the second reads meanwhile *)
(* do not leave its stack alone: they end an assembly block whose          *)
(* parentheses have closed (Calm), once and no more (CalmCounts).  A line  *)
(* of code does the same to both, as it is read by itself when class heads *)
(* are told on their own lines (InnerAlike).                               *)
(*                                                                         *)
(* The files, the configurations and the raw strings are read by folds.    *)
(* What a fold comes to is unfolded place by place.                        *)
(***************************************************************************)
EXTENDS CppLint, NumberFacts

Given == DefaultFilters \o job.args.filters

\* With those of the file's directories, which do not depend on the options before them.
FileFilters == Given \o ReadConfigs(file.configs, DefaultOptions).filters

\* While a file is looked at, what RestoreFilters will bring back.
BackedUp == phase = "lines" => backup = Given

IInv == FiltersRestored /\ BackedUp

\* The call does not change, and with it the filters of its arguments.
LEMMA GivenKept == ASSUME UNCHANGED job PROVE Given' = Given
  BY DEF Given

LEMMA InitIInv == Init => IInv
  BY DEF Init, IInv, FiltersRestored, BackedUp

LEMMA NextIInv == IInv /\ [Next]_vars => IInv'
<1> SUFFICES ASSUME IInv, [Next]_vars
             PROVE  IInv'
  OBVIOUS
<1> USE DEF IInv, FiltersRestored, BackedUp, Given
<1>1. CASE ParseArguments
  BY <1>1 DEF ParseArguments, Crash
<1>2. CASE SkipFile
  BY <1>2 DEF SkipFile
<1>3. CASE BadConfig
  BY <1>3 DEF BadConfig, Crash
<1>4. CASE BeginFile
  <2>1. phase = "next" /\ phase' = "lines" /\ backup' = filters /\ UNCHANGED job
    BY <1>4 DEF BeginFile
  <2> QED
    BY <2>1
<1>5. CASE ProcessLine
  <2>1. UNCHANGED <<phase, settings>> /\ phase = "lines"
    BY <1>5 DEF ProcessLine
  <2> QED
    BY <2>1 DEF settings
<1>6. CASE FinishFile
  <2>1. phase = "lines" /\ filters' = backup /\ phase' = "next" /\ UNCHANGED job
    BY <1>6 DEF FinishFile, RestoredFilters
  <2> QED
    BY <2>1
<1>7. CASE Exit
  BY <1>7 DEF Exit
<1>8. CASE UNCHANGED vars
  BY <1>8 DEF vars, settings
<1> QED
  BY <1>1, <1>2, <1>3, <1>4, <1>5, <1>6, <1>7, <1>8 DEF Next

\* cpplint.py:1079-1085, 6334, 6407.  Between two files the filters are those of the
\* arguments, whichever files were left out, not readable or linted before.
THEOREM FiltersAreRestored == Spec => []FiltersRestored
<1>1. IInv => FiltersRestored
  BY DEF IInv
<1> QED
  BY InitIInv, NextIInv, <1>1, PTL DEF Spec

-----------------------------------------------------------------------------
(* Folds.                                                                  *)

\* The steps of the folds that are followed here, by what is read.
StepOf(kind, st, x) ==
  CASE kind[1] = "files"   -> Retain(st, x)
    [] kind[1] = "option"  -> ReadOption(st, x)
    [] kind[1] = "configs" -> ReadConfig(st, x)
    [] kind[1] = "raw"     -> CleanseRawLine(st, x)
    [] kind[1] = "depth"   -> DepthStep(st, x)
    [] kind[1] = "skip"    -> SkipStep(st, x)
    [] kind[1] = "nest"    -> Update(st, kind[2], x)
    [] kind[1] = "spaces"  -> TakeNamespace(st, kind[2], kind[3])
    [] kind[1] = "tokens"  -> TakeNext(st, kind[2], x, kind[3])
    [] kind[1] = "cut"     -> CutNextRawString(st, x)

\* What a fold over a set of places of s is: the greatest one comes last.
FoldOver(kind, base, s, g, t) ==
  IF t = {} THEN base ELSE StepOf(kind, g[t \ {Max(t)}], s[Max(t)])

IsFold(kind, base, s, n, g) ==
  /\ g = [t \in SUBSET (1..n) |-> g[t]]
  /\ \A t \in SUBSET (1..n) : g[t] = FoldOver(kind, base, s, g, t)

\* The greatest place of a set, and the ones before it.
LEMMA LastPlace ==
  ASSUME NEW k \in Nat, NEW t \in SUBSET (1..(k + 1)), k + 1 \in t
  PROVE  Max(t) = k + 1 /\ t \ {Max(t)} \in SUBSET (1..k) /\ t # {}
<1>1. \A y \in t : k + 1 >= y
  OBVIOUS
<1>2. \A x \in t : (\A y \in t : x >= y) => x = k + 1
  OBVIOUS
<1>3. Max(t) = k + 1
  BY <1>1, <1>2 DEF Max
<1>4. t \ {k + 1} \in SUBSET (1..k)
  OBVIOUS
<1> QED
  BY <1>3, <1>4

\* The function by which a fold is defined exists: it is built place by place.
LEMMA FoldExists ==
  ASSUME NEW kind, NEW base, NEW s, NEW n \in Nat
  PROVE  \E g : IsFold(kind, base, s, n, g)
<1> DEFINE UpTo(k, g) == /\ DOMAIN g = SUBSET (1..n)
                         /\ \A t \in SUBSET (1..n) :
                              t \subseteq 1..k => g[t] = FoldOver(kind, base, s, g, t)
           S == {k \in Nat : \E g : UpTo(k, g)}
<1>1. 0 \in S
  <2> DEFINE g == [t \in SUBSET (1..n) |-> base]
  <2>1. \A t : t \subseteq 1..0 => t = {}
    OBVIOUS
  <2>2. UpTo(0, g)
    BY <2>1 DEF FoldOver
  <2> QED
    BY <2>2
<1>2. ASSUME NEW k \in Nat, k \in S PROVE k + 1 \in S
  <2>1. PICK g : UpTo(k, g)
    BY <1>2
  <2> DEFINE h == [t \in SUBSET (1..n) |->
                     IF t \subseteq 1..k THEN g[t] ELSE FoldOver(kind, base, s, g, t)]
  <2>2. \A t \in SUBSET (1..n) : t \subseteq 1..k => h[t] = g[t]
    OBVIOUS
  <2>3. ASSUME NEW t \in SUBSET (1..n), t \subseteq 1..(k + 1)
        PROVE  /\ h[t] = FoldOver(kind, base, s, g, t)
               /\ FoldOver(kind, base, s, g, t) = FoldOver(kind, base, s, h, t)
    <3>1. CASE t \subseteq 1..k
      <4>1. h[t] = FoldOver(kind, base, s, g, t)
        BY <2>1, <3>1
      <4>2. t \ {Max(t)} \subseteq 1..k /\ t \ {Max(t)} \in SUBSET (1..n)
        BY <3>1
      <4>3. h[t \ {Max(t)}] = g[t \ {Max(t)}]
        BY <2>2, <4>2
      <4> HIDE DEF h
      <4> QED
        BY <4>1, <4>3 DEF FoldOver
    <3>2. CASE ~(t \subseteq 1..k)
      <4>1. h[t] = FoldOver(kind, base, s, g, t)
        BY <3>2
      <4>2. k + 1 \in t
        BY <2>3, <3>2
      <4>3. t \ {Max(t)} \subseteq 1..k /\ t \ {Max(t)} \in SUBSET (1..n)
        BY <2>3, <4>2, LastPlace
      <4>4. h[t \ {Max(t)}] = g[t \ {Max(t)}]
        BY <2>2, <4>3
      <4> HIDE DEF h
      <4> QED
        BY <4>1, <4>4 DEF FoldOver
    <3> QED
      BY <3>1, <3>2
  <2>4. DOMAIN h = SUBSET (1..n)
    OBVIOUS
  <2> HIDE DEF h
  <2>5. UpTo(k + 1, h)
    BY <2>3, <2>4
  <2> HIDE DEF UpTo
  <2>6. \E f : UpTo(k + 1, f)
    BY <2>5
  <2> QED
    BY <2>6
<1>3. n \in S
  <2> HIDE DEF S
  <2>1. \A k \in Nat : k \in S
    BY <1>1, <1>2, AllNumbers
  <2> QED
    BY <2>1
<1>4. PICK g : UpTo(n, g)
  BY <1>3
<1>5. DOMAIN g = SUBSET (1..n) /\ \A t \in SUBSET (1..n) : g[t] = FoldOver(kind, base, s, g, t)
  BY <1>4
<1>6. PICK f : f = [t \in SUBSET (1..n) |-> FoldOver(kind, base, s, g, t)]
  OBVIOUS
<1>7. \A t \in SUBSET (1..n) : t \ {Max(t)} \in SUBSET (1..n)
  OBVIOUS
<1>8. \A t \in SUBSET (1..n) : f[t \ {Max(t)}] = g[t \ {Max(t)}]
  BY <1>5, <1>6, <1>7
<1>9. \A t \in SUBSET (1..n) : FoldOver(kind, base, s, g, t) = FoldOver(kind, base, s, f, t)
  BY <1>8 DEF FoldOver
<1>10. IsFold(kind, base, s, n, f)
  BY <1>6, <1>9 DEF IsFold
<1> QED
  BY <1>10

\* What a fold comes to, place by place.
Follows(kind, base, s, n, f) ==
  f[0] = base /\ \A k \in 1..n : f[k] = StepOf(kind, f[k - 1], s[k])

\* It is followed along the sets of the first places.
LEMMA FoldPrefixes ==
  ASSUME NEW kind, NEW base, NEW s, NEW n \in Nat, NEW g,
         IsFold(kind, base, s, n, g)
  PROVE  \E f : Follows(kind, base, s, n, f) /\ f[n] = g[1..n]
<1>1. PICK f : f = [k \in 0..n |-> g[1..k]]
  OBVIOUS
<1>2. f[0] = base
  <2>1. 1..0 = {} /\ {} \in SUBSET (1..n)
    OBVIOUS
  <2>2. g[{}] = base
    BY <2>1 DEF FoldOver, IsFold
  <2> QED
    BY <1>1, <2>1, <2>2
<1>3. ASSUME NEW k \in 1..n PROVE f[k] = StepOf(kind, f[k - 1], s[k])
  <2>1. PICK m \in Nat : k = m + 1
    BY <1>3
  <2>2. 1..k \in SUBSET (1..n) /\ 1..k \in SUBSET (1..(m + 1)) /\ m + 1 \in 1..k
    BY <2>1
  <2>3. Max(1..k) = k /\ 1..k # {}
    BY <2>1, <2>2, LastPlace
  <2>4. (1..k) \ {k} = 1..(k - 1)
    OBVIOUS
  <2>5. g[1..k] = StepOf(kind, g[1..(k - 1)], s[k])
    BY <2>2, <2>3, <2>4 DEF FoldOver, IsFold
  <2>6. k \in 0..n /\ k - 1 \in 0..n
    OBVIOUS
  <2> QED
    BY <1>1, <2>5, <2>6
<1>4. f[n] = g[1..n]
  BY <1>1
<1> QED
  BY <1>2, <1>3, <1>4 DEF Follows

\* What FoldLeft comes to, for each of the steps.
LEMMA FilesFold ==
  ASSUME NEW base, NEW s, NEW n \in Nat, DOMAIN s = 1..n
  PROVE  \E f : Follows(<<"files">>, base, s, n, f) /\ f[n] = FoldLeft(Retain, base, s)
<1> DEFINE P(g) == g = [t \in SUBSET (1..n) |-> IF t = {} THEN base
                                            ELSE Retain(g[t \ {Max(t)}], s[Max(t)])]
<1>1. \A g : P(g) <=> IsFold(<<"files">>, base, s, n, g)
  BY DEF IsFold, FoldOver, StepOf
<1> HIDE DEF P
<1>2. PICK g : P(g) /\ g = (CHOOSE h : P(h))
  BY <1>1, FoldExists
<1>3. IsFold(<<"files">>, base, s, n, g)
  BY <1>1, <1>2
<1>4. FoldLeft(Retain, base, s) = g[1..n]
  BY <1>2 DEF P, FoldLeft, MapThenFoldSet
<1> QED
  BY <1>3, <1>4, FoldPrefixes

LEMMA OptionFold ==
  ASSUME NEW base, NEW s, NEW n \in Nat, DOMAIN s = 1..n
  PROVE  \E f : Follows(<<"option">>, base, s, n, f) /\ f[n] = FoldLeft(ReadOption, base, s)
<1> DEFINE P(g) == g = [t \in SUBSET (1..n) |-> IF t = {} THEN base
                                            ELSE ReadOption(g[t \ {Max(t)}], s[Max(t)])]
<1>1. \A g : P(g) <=> IsFold(<<"option">>, base, s, n, g)
  BY DEF IsFold, FoldOver, StepOf
<1> HIDE DEF P
<1>2. PICK g : P(g) /\ g = (CHOOSE h : P(h))
  BY <1>1, FoldExists
<1>3. IsFold(<<"option">>, base, s, n, g)
  BY <1>1, <1>2
<1>4. FoldLeft(ReadOption, base, s) = g[1..n]
  BY <1>2 DEF P, FoldLeft, MapThenFoldSet
<1> QED
  BY <1>3, <1>4, FoldPrefixes

LEMMA ConfigsFold ==
  ASSUME NEW base, NEW s, NEW n \in Nat, DOMAIN s = 1..n
  PROVE  \E f : Follows(<<"configs">>, base, s, n, f) /\ f[n] = FoldLeft(ReadConfig, base, s)
<1> DEFINE P(g) == g = [t \in SUBSET (1..n) |-> IF t = {} THEN base
                                            ELSE ReadConfig(g[t \ {Max(t)}], s[Max(t)])]
<1>1. \A g : P(g) <=> IsFold(<<"configs">>, base, s, n, g)
  BY DEF IsFold, FoldOver, StepOf
<1> HIDE DEF P
<1>2. PICK g : P(g) /\ g = (CHOOSE h : P(h))
  BY <1>1, FoldExists
<1>3. IsFold(<<"configs">>, base, s, n, g)
  BY <1>1, <1>2
<1>4. FoldLeft(ReadConfig, base, s) = g[1..n]
  BY <1>2 DEF P, FoldLeft, MapThenFoldSet
<1> QED
  BY <1>3, <1>4, FoldPrefixes

LEMMA RawFold ==
  ASSUME NEW base, NEW s, NEW n \in Nat, DOMAIN s = 1..n
  PROVE  \E f : Follows(<<"raw">>, base, s, n, f) /\ f[n] = FoldLeft(CleanseRawLine, base, s)
<1> DEFINE P(g) == g = [t \in SUBSET (1..n) |-> IF t = {} THEN base
                                            ELSE CleanseRawLine(g[t \ {Max(t)}], s[Max(t)])]
<1>1. \A g : P(g) <=> IsFold(<<"raw">>, base, s, n, g)
  BY DEF IsFold, FoldOver, StepOf
<1> HIDE DEF P
<1>2. PICK g : P(g) /\ g = (CHOOSE h : P(h))
  BY <1>1, FoldExists
<1>3. IsFold(<<"raw">>, base, s, n, g)
  BY <1>1, <1>2
<1>4. FoldLeft(CleanseRawLine, base, s) = g[1..n]
  BY <1>2 DEF P, FoldLeft, MapThenFoldSet
<1> QED
  BY <1>3, <1>4, FoldPrefixes

LEMMA DepthFold ==
  ASSUME NEW base, NEW s, NEW n \in Nat, DOMAIN s = 1..n
  PROVE  \E f : Follows(<<"depth">>, base, s, n, f) /\ f[n] = FoldLeft(DepthStep, base, s)
<1> DEFINE P(g) == g = [t \in SUBSET (1..n) |-> IF t = {} THEN base
                                            ELSE DepthStep(g[t \ {Max(t)}], s[Max(t)])]
<1>1. \A g : P(g) <=> IsFold(<<"depth">>, base, s, n, g)
  BY DEF IsFold, FoldOver, StepOf
<1> HIDE DEF P
<1>2. PICK g : P(g) /\ g = (CHOOSE h : P(h))
  BY <1>1, FoldExists
<1>3. IsFold(<<"depth">>, base, s, n, g)
  BY <1>1, <1>2
<1>4. FoldLeft(DepthStep, base, s) = g[1..n]
  BY <1>2 DEF P, FoldLeft, MapThenFoldSet
<1> QED
  BY <1>3, <1>4, FoldPrefixes

LEMMA SkipFold ==
  ASSUME NEW base, NEW s, NEW n \in Nat, DOMAIN s = 1..n
  PROVE  \E f : Follows(<<"skip">>, base, s, n, f) /\ f[n] = FoldLeft(SkipStep, base, s)
<1> DEFINE P(g) == g = [t \in SUBSET (1..n) |-> IF t = {} THEN base
                                            ELSE SkipStep(g[t \ {Max(t)}], s[Max(t)])]
<1>1. \A g : P(g) <=> IsFold(<<"skip">>, base, s, n, g)
  BY DEF IsFold, FoldOver, StepOf
<1> HIDE DEF P
<1>2. PICK g : P(g) /\ g = (CHOOSE h : P(h))
  BY <1>1, FoldExists
<1>3. IsFold(<<"skip">>, base, s, n, g)
  BY <1>1, <1>2
<1>4. FoldLeft(SkipStep, base, s) = g[1..n]
  BY <1>2 DEF P, FoldLeft, MapThenFoldSet
<1> QED
  BY <1>3, <1>4, FoldPrefixes

LEMMA CutFold ==
  ASSUME NEW base, NEW s, NEW n \in Nat, DOMAIN s = 1..n
  PROVE  \E f : Follows(<<"cut">>, base, s, n, f) /\ f[n] = FoldLeft(CutNextRawString, base, s)
<1> DEFINE P(g) == g = [t \in SUBSET (1..n) |-> IF t = {} THEN base
                                            ELSE CutNextRawString(g[t \ {Max(t)}], s[Max(t)])]
<1>1. \A g : P(g) <=> IsFold(<<"cut">>, base, s, n, g)
  BY DEF IsFold, FoldOver, StepOf
<1> HIDE DEF P
<1>2. PICK g : P(g) /\ g = (CHOOSE h : P(h))
  BY <1>1, FoldExists
<1>3. IsFold(<<"cut">>, base, s, n, g)
  BY <1>1, <1>2
<1>4. FoldLeft(CutNextRawString, base, s) = g[1..n]
  BY <1>2 DEF P, FoldLeft, MapThenFoldSet
<1> QED
  BY <1>3, <1>4, FoldPrefixes

LEMMA NestFold ==
  ASSUME NEW ls, NEW n \in Nat, NEW t, t = [i \in 1..n |-> i]
  PROVE  \E f : Follows(<<"nest", ls>>, NoNesting, t, n, f) /\ f[n] = NestOf(ls, n)
<1> DEFINE s == [i \in 1..n |-> i]
           P(g) == g = [p \in SUBSET (1..n) |-> IF p = {} THEN NoNesting
                                            ELSE Update(g[p \ {Max(p)}], ls, s[Max(p)])]
<1>1. \A g : P(g) <=> IsFold(<<"nest", ls>>, NoNesting, s, n, g)
  BY DEF IsFold, FoldOver, StepOf
<1> HIDE DEF P
<1>2. PICK g : P(g) /\ g = (CHOOSE h : P(h))
  BY <1>1, FoldExists
<1>3. IsFold(<<"nest", ls>>, NoNesting, s, n, g)
  BY <1>1, <1>2
<1>4. NestOf(ls, n) = g[1..n]
  BY <1>2 DEF P, NestOf, FoldLeft, MapThenFoldSet
<1> HIDE DEF s
<1>5. PICK f : Follows(<<"nest", ls>>, NoNesting, s, n, f) /\ f[n] = g[1..n]
  BY <1>3, FoldPrefixes
<1> QED
  BY <1>4, <1>5 DEF s

LEMMA SpacesFold ==
  ASSUME NEW stack, NEW s, NEW n \in Nat, DOMAIN s = 1..n, NEW k
  PROVE  \E f : /\ Follows(<<"spaces", s, k>>, [stack |-> stack, from |-> 0], s, n, f)
                /\ f[n] = TakeNamespaces(stack, s, k)
<1> DEFINE P(g) == g = [t \in SUBSET (1..n) |-> IF t = {} THEN [stack |-> stack, from |-> 0]
                                            ELSE TakeNamespace(g[t \ {Max(t)}], s, k)]
<1>1. \A g : P(g) <=> IsFold(<<"spaces", s, k>>, [stack |-> stack, from |-> 0], s, n, g)
  BY DEF IsFold, FoldOver, StepOf
<1> HIDE DEF P
<1>2. PICK g : P(g) /\ g = (CHOOSE h : P(h))
  BY <1>1, FoldExists
<1>3. IsFold(<<"spaces", s, k>>, [stack |-> stack, from |-> 0], s, n, g)
  BY <1>1, <1>2
<1>4. TakeNamespaces(stack, s, k) = g[1..n]
  BY <1>2 DEF P, TakeNamespaces, FoldLeft, MapThenFoldSet
<1> QED
  BY <1>3, <1>4, FoldPrefixes

LEMMA TokensFold ==
  ASSUME NEW left, NEW code, NEW n \in Nat, DOMAIN code = 1..n, NEW k
  PROVE  \E f : /\ Follows(<<"tokens", code, k>>, left, [i \in DOMAIN code |-> i], n, f)
                /\ f[n].stack = TakeTokens(left, code, k)
<1> DEFINE s == [i \in DOMAIN code |-> i]
           P(g) == g = [t \in SUBSET (1..n) |-> IF t = {} THEN left
                                            ELSE TakeNext(g[t \ {Max(t)}], code, s[Max(t)], k)]
<1>1. \A g : P(g) <=> IsFold(<<"tokens", code, k>>, left, s, n, g)
  BY DEF IsFold, FoldOver, StepOf
<1> HIDE DEF P
<1>2. PICK g : P(g) /\ g = (CHOOSE h : P(h))
  BY <1>1, FoldExists
<1>3. IsFold(<<"tokens", code, k>>, left, s, n, g)
  BY <1>1, <1>2
<1>4. g[1..n].stack = TakeTokens(left, code, k)
  <2>1. DOMAIN s = 1..n
    OBVIOUS
  <2> QED
    BY <1>2, <2>1 DEF P, TakeTokens, FoldLeft, MapThenFoldSet
<1> HIDE DEF s
<1>5. PICK f : Follows(<<"tokens", code, k>>, left, s, n, f) /\ f[n] = g[1..n]
  BY <1>3, FoldPrefixes
<1> QED
  BY <1>4, <1>5 DEF s

\* What is followed depends on what is read only, place by place.
LEMMA FollowsAgree ==
  ASSUME NEW kind, NEW base, NEW s, NEW t, NEW n \in Nat, NEW m \in Nat, n <= m,
         NEW f, NEW g, Follows(kind, base, s, n, f), Follows(kind, base, t, m, g),
         \A k \in 1..n : s[k] = t[k]
  PROVE  f[n] = g[n]
<1> DEFINE S == {k \in Nat : k <= n => f[k] = g[k]}
<1>1. 0 \in S
  BY DEF Follows
<1>2. ASSUME NEW k \in Nat, k \in S PROVE k + 1 \in S
  <2> SUFFICES ASSUME k + 1 <= n PROVE f[k + 1] = g[k + 1]
    OBVIOUS
  <2>1. k + 1 \in 1..n /\ k + 1 \in 1..m /\ (k + 1) - 1 = k /\ f[k] = g[k]
    BY <1>2
  <2>2. f[k + 1] = StepOf(kind, f[k], s[k + 1]) /\ g[k + 1] = StepOf(kind, g[k], t[k + 1])
    BY <2>1 DEF Follows
  <2> QED
    BY <2>1, <2>2
<1> HIDE DEF S
<1>3. \A k \in Nat : k \in S
  BY <1>1, <1>2, AllNumbers
<1>4. n \in S
  BY <1>3
<1> QED
  BY <1>4 DEF S

-----------------------------------------------------------------------------
(* What the folds come to.                                                 *)

\* The files of a call are a sequence of its files.
LEMMA FilesAreSequence ==
  ASSUME NEW R, job.files \in Seq(R)
  PROVE  FilesOf \in Seq(R)
<1>0. PICK n \in Nat, s \in Seq(R) : s = job.files /\ n = Len(s)
  OBVIOUS
<1>1. DOMAIN s = 1..n /\ \A k \in 1..n : s[k] \in R
  BY <1>0
<1>2. PICK f : Follows(<<"files">>, <<>>, s, n, f) /\ f[n] = FilesOf
  BY <1>0, <1>1, FilesFold DEF FilesOf
<1> DEFINE S == {k \in Nat : k <= n => f[k] \in Seq(R)}
<1>3. 0 \in S
  <2>1. f[0] = <<>> /\ <<>> \in Seq(R)
    BY <1>2 DEF Follows
  <2> QED
    BY <2>1
<1>4. ASSUME NEW k \in Nat, k \in S PROVE k + 1 \in S
  <2> SUFFICES ASSUME k + 1 <= n PROVE f[k + 1] \in Seq(R)
    OBVIOUS
  <2>1. k + 1 \in 1..n /\ (k + 1) - 1 = k /\ f[k] \in Seq(R)
    BY <1>4
  <2>2. f[k + 1] = Retain(f[k], s[k + 1])
    BY <1>2, <2>1 DEF Follows, StepOf
  <2>3. f[k + 1] = f[k] \/ f[k + 1] = Append(f[k], s[k + 1])
    BY <2>2 DEF Retain
  <2>4. PICK fk \in Seq(R), x \in R : fk = f[k] /\ x = s[k + 1]
    BY <1>1, <2>1
  <2>5. Append(fk, x) \in Seq(R)
    OBVIOUS
  <2> QED
    BY <2>3, <2>4, <2>5
<1> HIDE DEF S
<1>5. \A k \in Nat : k \in S
  BY <1>3, <1>4, AllNumbers
<1>6. n \in S
  BY <1>5
<1>7. f[n] \in Seq(R)
  BY <1>6 DEF S
<1> QED
  BY <1>2, <1>7

\* Raw strings are cut out line by line: no line is lost or added.
LEMMA RawLineAdded == ASSUME NEW st, NEW s
                      PROVE  \E x : CleanseRawLine(st, s).lines = Append(st.lines, x)
  BY DEF CleanseRawLine

LEMMA RawLines ==
  ASSUME NEW n \in Nat, NEW s, DOMAIN s = 1..n
  PROVE  DOMAIN CleanseRawStrings(s) = 1..n
<1>1. PICK f : /\ Follows(<<"raw">>, [lines |-> <<>>, open |-> FALSE], s, n, f)
               /\ f[n] = FoldLeft(CleanseRawLine, [lines |-> <<>>, open |-> FALSE], s)
  BY RawFold
<1> DEFINE Fits(x, k) == \E E : x \in Seq(E) /\ Len(x) = k
           S == {k \in Nat : k <= n => Fits(f[k].lines, k)}
<1>2. 0 \in S
  <2>1. f[0].lines = <<>>
    BY <1>1 DEF Follows
  <2>2. <<>> \in Seq({}) /\ Len(<<>>) = 0
    OBVIOUS
  <2>3. Fits(<<>>, 0)
    BY <2>2
  <2> HIDE DEF Fits
  <2> QED
    BY <2>1, <2>3
<1>3. ASSUME NEW k \in Nat, k \in S PROVE k + 1 \in S
  <2> SUFFICES ASSUME k + 1 <= n
               PROVE  Fits(f[k + 1].lines, k + 1)
    OBVIOUS
  <2>1. k + 1 \in 1..n /\ (k + 1) - 1 = k
    OBVIOUS
  <2>2. f[k + 1] = CleanseRawLine(f[k], s[k + 1])
    BY <1>1, <2>1 DEF Follows, StepOf
  <2>3. PICK x : f[k + 1].lines = Append(f[k].lines, x)
    <3>1. \E x : CleanseRawLine(f[k], s[k + 1]).lines = Append(f[k].lines, x)
      BY RawLineAdded, Zenon
    <3> QED
      BY <2>2, <3>1
  <2>4. PICK E : f[k].lines \in Seq(E) /\ Len(f[k].lines) = k
    BY <1>3, <2>1
  <2>5. PICK t \in Seq(E \cup {x}), y \in E \cup {x} : t = f[k].lines /\ Len(t) = k /\ y = x
    BY <2>4
  <2>6. Append(t, y) \in Seq(E \cup {x}) /\ Len(Append(t, y)) = Len(t) + 1
    OBVIOUS
  <2> QED
    BY <2>3, <2>5, <2>6
<1> HIDE DEF S
<1>4. \A k \in Nat : k \in S
  BY <1>2, <1>3, AllNumbers
<1>5. n \in S
  BY <1>4
<1>6. Fits(f[n].lines, n)
  BY <1>5 DEF S
<1>7. CleanseRawStrings(s) = f[n].lines
  BY <1>1 DEF CleanseRawStrings
<1> QED
  BY <1>6, <1>7

\* A state of the reading of configurations.
Read(fs, opts, excluded, noparent, looking) ==
  [filters |-> fs, options |-> opts, excluded |-> excluded, noparent |-> noparent,
   looking |-> looking]

\* Two readings of the same configurations that began with different options.
Alike(a, b) ==
  \E fs, k, l, excluded, noparent, looking :
    a = Read(fs, k, excluded, noparent, looking) /\ b = Read(fs, l, excluded, noparent, looking)

\* An option, and a configuration, keep two readings alike.
LEMMA OptionAlike ==
  ASSUME NEW a, NEW b, Alike(a, b), NEW o \in ConfigOptions
  PROVE  Alike(ReadOption(a, o), ReadOption(b, o))
<1>1. \/ o.name \in {"filter", "exclude_files", "set noparent"}
      \/ o.name \in {"linelength", "extensions", "headers", "root"}
  BY DEF ConfigOptions
<1>2. PICK fs, k, l, excluded, noparent, looking :
        /\ a = Read(fs, k, excluded, noparent, looking)
        /\ b = Read(fs, l, excluded, noparent, looking)
  BY DEF Alike
<1>3. CASE excluded \/ ~looking
  <2>1. ReadOption(a, o) = a /\ ReadOption(b, o) = b
    BY <1>2, <1>3 DEF ReadOption, Read
  <2> QED
    BY <2>1
<1>4. CASE ~(excluded \/ ~looking) /\ o.name = "filter"
  <2>1. ReadOption(a, o) = Read(o.filters \o fs, k, excluded, noparent, looking)
    BY <1>2, <1>4 DEF ReadOption, Read
  <2>2. ReadOption(b, o) = Read(o.filters \o fs, l, excluded, noparent, looking)
    BY <1>2, <1>4 DEF ReadOption, Read
  <2> QED
    BY <2>1, <2>2 DEF Alike
<1>5. /\ ~(excluded \/ ~looking)
      /\ o.name \in {"linelength", "extensions", "headers", "root"}
      => Alike(ReadOption(a, o), ReadOption(b, o))
  <2> SUFFICES ASSUME ~(excluded \/ ~looking),
                      o.name \in {"linelength", "extensions", "headers", "root"}
               PROVE  Alike(ReadOption(a, o), ReadOption(b, o))
    OBVIOUS
  <2>1. ReadOption(a, o) = Read(fs, SetOption(k, o), excluded, noparent, looking)
    BY <1>2 DEF ReadOption, Read
  <2>2. ReadOption(b, o) = Read(fs, SetOption(l, o), excluded, noparent, looking)
    BY <1>2 DEF ReadOption, Read
  <2> QED
    BY <2>1, <2>2 DEF Alike
<1>6. CASE ~(excluded \/ ~looking) /\ o.name = "exclude_files"
  <2>1. ReadOption(a, o) = Read(fs, k, TRUE, noparent, looking)
    BY <1>2, <1>6 DEF ReadOption, Read
  <2>2. ReadOption(b, o) = Read(fs, l, TRUE, noparent, looking)
    BY <1>2, <1>6 DEF ReadOption, Read
  <2> QED
    BY <2>1, <2>2 DEF Alike
<1>7. CASE ~(excluded \/ ~looking) /\ o.name = "set noparent"
  <2>1. ReadOption(a, o) = Read(fs, k, excluded, TRUE, looking)
    BY <1>2, <1>7 DEF ReadOption, Read
  <2>2. ReadOption(b, o) = Read(fs, l, excluded, TRUE, looking)
    BY <1>2, <1>7 DEF ReadOption, Read
  <2> QED
    BY <2>1, <2>2 DEF Alike
<1> QED
  BY <1>1, <1>3, <1>4, <1>5, <1>6, <1>7

LEMMA ConfigAlike ==
  ASSUME NEW a, NEW b, Alike(a, b), NEW config \in Seq(ConfigOptions)
  PROVE  Alike(ReadConfig(a, config), ReadConfig(b, config))
<1>0. PICK n \in Nat : n = Len(config)
  OBVIOUS
<1>1. DOMAIN config = 1..n /\ \A k \in 1..n : config[k] \in ConfigOptions
  BY <1>0
<1>2. PICK f : Follows(<<"option">>, a, config, n, f) /\ f[n] = FoldLeft(ReadOption, a, config)
  BY <1>1, OptionFold
<1>3. PICK g : Follows(<<"option">>, b, config, n, g) /\ g[n] = FoldLeft(ReadOption, b, config)
  BY <1>1, OptionFold
<1> DEFINE S == {k \in Nat : k <= n => Alike(f[k], g[k])}
<1>4. 0 \in S
  <2>1. Alike(f[0], g[0])
    BY <1>2, <1>3 DEF Follows
  <2> QED
    BY <2>1
<1>5. ASSUME NEW k \in Nat, k \in S PROVE k + 1 \in S
  <2> SUFFICES ASSUME k + 1 <= n PROVE Alike(f[k + 1], g[k + 1])
    OBVIOUS
  <2>1. k + 1 \in 1..n /\ (k + 1) - 1 = k /\ Alike(f[k], g[k])
    BY <1>5
  <2>2. f[k + 1] = ReadOption(f[k], config[k + 1]) /\ g[k + 1] = ReadOption(g[k], config[k + 1])
    BY <1>2, <1>3, <2>1 DEF Follows, StepOf
  <2> QED
    BY <1>1, <2>1, <2>2, OptionAlike
<1> HIDE DEF S
<1>6. \A k \in Nat : k \in S
  BY <1>4, <1>5, AllNumbers
<1>7. Alike(f[n], g[n])
  BY <1>6 DEF S
<1>8. ReadConfig(a, config) = [f[n] EXCEPT !.looking = @ /\ ~f[n].noparent]
      /\ ReadConfig(b, config) = [g[n] EXCEPT !.looking = @ /\ ~g[n].noparent]
  BY <1>2, <1>3 DEF ReadConfig
<1>9. PICK fs, k, l, excluded, noparent, looking :
        /\ f[n] = Read(fs, k, excluded, noparent, looking)
        /\ g[n] = Read(fs, l, excluded, noparent, looking)
  BY <1>7 DEF Alike
<1>10. ReadConfig(a, config) = Read(fs, k, excluded, noparent, looking /\ ~noparent)
  BY <1>8, <1>9 DEF Read
<1>11. ReadConfig(b, config) = Read(fs, l, excluded, noparent, looking /\ ~noparent)
  BY <1>8, <1>9 DEF Read
<1> QED
  BY <1>10, <1>11 DEF Alike

\* The filters of a file's configurations do not depend on the options before them.
LEMMA FiltersRead ==
  ASSUME NEW configs \in Seq(Seq(ConfigOptions)), NEW x, NEW y
  PROVE  ReadConfigs(configs, x).filters = ReadConfigs(configs, y).filters
<1>0. PICK n \in Nat : n = Len(configs)
  OBVIOUS
<1> DEFINE start(l) == [filters |-> <<>>, options |-> l, excluded |-> FALSE,
                        noparent |-> FALSE, looking |-> TRUE]
<1>1. DOMAIN configs = 1..n /\ \A k \in 1..n : configs[k] \in Seq(ConfigOptions)
  BY <1>0
<1>2. PICK f : Follows(<<"configs">>, start(x), configs, n, f) /\ f[n] = ReadConfigs(configs, x)
  BY <1>1, ConfigsFold DEF ReadConfigs
<1>3. PICK g : Follows(<<"configs">>, start(y), configs, n, g) /\ g[n] = ReadConfigs(configs, y)
  BY <1>1, ConfigsFold DEF ReadConfigs
<1> DEFINE S == {k \in Nat : k <= n => Alike(f[k], g[k])}
<1>4. 0 \in S
  <2>1. /\ start(x) = Read(<<>>, x, FALSE, FALSE, TRUE)
        /\ start(y) = Read(<<>>, y, FALSE, FALSE, TRUE)
    BY DEF Read
  <2>2. Alike(start(x), start(y))
    BY <2>1 DEF Alike
  <2> QED
    BY <1>2, <1>3, <2>2 DEF Follows
<1>5. ASSUME NEW k \in Nat, k \in S PROVE k + 1 \in S
  <2> SUFFICES ASSUME k + 1 <= n PROVE Alike(f[k + 1], g[k + 1])
    OBVIOUS
  <2>1. k + 1 \in 1..n /\ (k + 1) - 1 = k /\ Alike(f[k], g[k])
    BY <1>5
  <2>2. f[k + 1] = ReadConfig(f[k], configs[k + 1]) /\ g[k + 1] = ReadConfig(g[k], configs[k + 1])
    BY <1>2, <1>3, <2>1 DEF Follows, StepOf
  <2> QED
    BY <1>1, <2>1, <2>2, ConfigAlike
<1> HIDE DEF S
<1>6. \A k \in Nat : k \in S
  BY <1>4, <1>5, AllNumbers
<1>7. Alike(f[n], g[n])
  BY <1>6 DEF S
<1>8. f[n].filters = g[n].filters
  BY <1>7 DEF Alike, Read
<1> QED
  BY <1>2, <1>3, <1>8

-----------------------------------------------------------------------------
(* The NOLINT marks.                                                       *)

\* The least and the greatest of a set of places.
LEMMA LeastOf == ASSUME NEW S \in SUBSET Nat, S # {} PROVE Min(S) \in S /\ \A y \in S : Min(S) <= y
<1>1. \E x \in S : \A y \in S : x <= y
  BY LeastElement
<1> QED
  BY <1>1 DEF Min

LEMMA GreatestOf ==
  ASSUME NEW n \in Nat, NEW S \in SUBSET (0..n), S # {}
  PROVE  Max(S) \in S /\ \A y \in S : y <= Max(S)
<1> DEFINE T == {k \in Nat : \A y \in S : y <= k}
<1>1. T \in SUBSET Nat /\ T # {}
  <2>1. n \in T
    OBVIOUS
  <2> QED
    BY <2>1
<1>2. PICK k \in T : \A m \in T : k <= m
  <2> HIDE DEF T
  <2> QED
    BY <1>1, LeastElement
<1>3. k \in S
  <2> SUFFICES ASSUME k \notin S PROVE FALSE
    OBVIOUS
  <2>1. \A y \in S : y <= k - 1
    BY <1>2
  <2>2. k - 1 \in Nat
    <3>1. PICK y \in S : TRUE
      OBVIOUS
    <3> QED
      BY <1>2, <2>1, <3>1
  <2>3. k - 1 \in T
    BY <2>1, <2>2
  <2> QED
    BY <1>2, <2>3
<1>4. k \in S /\ \A y \in S : k >= y
  BY <1>2, <1>3
<1>5. Max(S) \in S /\ \A y \in S : Max(S) >= y
  BY <1>4 DEF Max
<1>6. \A y \in S : y \in Nat
  OBVIOUS
<1> QED
  BY <1>5, <1>6

\* A mark is one of the tokens of its line.
LEMMA MarkInLine ==
  ASSUME NEW T, NEW s \in Seq(T), NEW m \in NolintMark(s)
  PROVE  \E i \in 1..Len(s) : s[i] \in DOMAIN Nolint /\ m = Nolint[s[i]]
<1> DEFINE at == {i \in DOMAIN s : s[i] \in DOMAIN Nolint}
<1>1. at # {} /\ m = Nolint[s[Min(at)]]
  BY DEF NolintMark
<1>2. at \in SUBSET Nat
  OBVIOUS
<1> HIDE DEF at
<1>3. Min(at) \in at
  BY <1>1, <1>2, LeastOf
<1>4. Min(at) \in 1..Len(s) /\ s[Min(at)] \in DOMAIN Nolint
  BY <1>3 DEF at
<1> QED
  BY <1>1, <1>4

\* A mark for the next line is NOLINTNEXTLINE.
LEMMA NextLineMark ==
  ASSUME NEW T, NEW s \in Seq(T), NEW m \in NolintMark(s), m.next
  PROVE  "NOLINTNEXTLINE" \in Range(s)
<1>1. PICK i \in 1..Len(s) : s[i] \in DOMAIN Nolint /\ m = Nolint[s[i]]
  BY MarkInLine
<1>2. s[i] = "NOLINTNEXTLINE"
  BY <1>1 DEF Nolint
<1> QED
  BY <1>1, <1>2 DEF Range

\* The mark is about the error.
About(m, n, e) ==
  e.line = (IF m.next THEN n + 1 ELSE n) /\ m.category \in {All, e.category}

\* What is suppressed when the lines of a set have been looked at.
SuppressedBy(clean, seen) == UNION {NolintOf(clean[n], n) : n \in seen}

Unknown == <<"unknown", "">>

\* What the mark of a line suppresses.
LEMMA NolintSeen ==
  ASSUME NEW s, NEW n, NEW c, NEW k
  PROVE  <<c, k>> \in NolintOf(s, n) <=>
           /\ c # Unknown
           /\ \E m \in NolintMark(s) : m.category = c /\ k = (IF m.next THEN n + 1 ELSE n)
  BY DEF NolintOf, Unknown

\* An error is suppressed by a mark about it, or globally.
LEMMA Suppression ==
  ASSUME NEW clean, NEW seen, NEW e, NEW global, e.category # Unknown
  PROVE  IsSuppressed(SuppressedBy(clean, seen), global, e.category, e.line) <=>
           e.category \in global \/ \E n \in seen : \E m \in NolintMark(clean[n]) : About(m, n, e)
<1>1. \A c : <<c, e.line>> \in SuppressedBy(clean, seen) <=>
               \E n \in seen : <<c, e.line>> \in NolintOf(clean[n], n)
  BY DEF SuppressedBy
<1>2. \A c, n : <<c, e.line>> \in NolintOf(clean[n], n) <=>
               c # Unknown /\ \E m \in NolintMark(clean[n]) :
                                m.category = c /\ e.line = (IF m.next THEN n + 1 ELSE n)
  <2> TAKE c, n
  <2> DEFINE s == clean[n]
             k == e.line
  <2> HIDE DEF s, k
  <2>1. <<c, k>> \in NolintOf(s, n) <=>
           /\ c # Unknown
           /\ \E m \in NolintMark(s) : m.category = c /\ k = (IF m.next THEN n + 1 ELSE n)
    BY NolintSeen
  <2> QED
    BY <2>1 DEF s, k
<1>3. All # Unknown
  BY DEF All, Unknown
<1> QED
  BY <1>1, <1>2, <1>3 DEF IsSuppressed, About

\* An error is judged as it should be when the marks about it have been seen.
LEMMA Judged ==
  ASSUME NEW f, NEW clean, NEW seen, NEW e, NEW fs,
         e.category # Unknown,
         clean = RemoveMultiLineComments(f.lines),
         seen \subseteq DOMAIN clean,
         \A n \in DOMAIN clean : \A m \in NolintMark(clean[n]) : About(m, n, e) => n \in seen,
         fs = Given \o ReadConfigs(f.configs, DefaultOptions).filters
  PROVE  ShouldPrint(e, SuppressedBy(clean, seen), GlobalSuppressions(f.lines), fs,
                     job.args.verbose)
           <=> Wanted(f, e)
<1>1. IsSuppressed(SuppressedBy(clean, seen), GlobalSuppressions(f.lines), e.category, e.line) <=>
        \/ e.category \in GlobalSuppressions(f.lines)
        \/ \E n \in seen : \E m \in NolintMark(clean[n]) : About(m, n, e)
  BY Suppression, Zenon
<1>2. (\E n \in seen : \E m \in NolintMark(clean[n]) : About(m, n, e))
        <=> \E n \in DOMAIN clean : \E m \in NolintMark(clean[n]) : About(m, n, e)
  OBVIOUS
<1>3. Wanted(f, e) <=>
        /\ ~\E n \in DOMAIN clean : \E m \in NolintMark(clean[n]) : About(m, n, e)
        /\ e.category \notin GlobalSuppressions(f.lines)
        /\ e.confidence >= job.args.verbose /\ ~IsFiltered(fs, e.category)
  BY DEF Wanted, About, Given
<1> QED
  BY <1>1, <1>2, <1>3 DEF ShouldPrint

-----------------------------------------------------------------------------
(* The lines of a file, and the errors about them.                         *)

\* What the tokens of a line are: to the provers "/*" is not a STRING.
Tokens == STRING \cup {"/*", "*/"}

\* Comments are blanked line by line.
LEMMA CleanLines ==
  ASSUME NEW ls \in Seq(Seq(STRING)), NEW clean, clean = RemoveMultiLineComments(ls)
  PROVE  /\ DOMAIN clean = 1..Len(ls)
         /\ \A n \in DOMAIN clean : clean[n] \in Seq(Tokens) /\ clean[n] \in {Blank, ls[n]}
<1>1. DOMAIN ls = 1..Len(ls) /\ \A n \in 1..Len(ls) : ls[n] \in Seq(STRING)
  OBVIOUS
<1>2. Blank \in Seq(Tokens)
  BY DEF Blank, Tokens
<1>3. \A n \in 1..Len(ls) : ls[n] \in Seq(Tokens)
  <2>1. \A s \in Seq(STRING) : s \in Seq(Tokens)
    BY DEF Tokens
  <2> QED
    BY <1>1, <2>1
<1> QED
  BY <1>1, <1>2, <1>3 DEF RemoveMultiLineComments

\* No line is lost by the cleansing.
LEMMA ElidedLines ==
  ASSUME NEW ls \in Seq(Seq(STRING))
  PROVE  DOMAIN Elided(ls) = 1..Len(ls) /\ Len(Elided(ls)) = Len(ls)
<1>1. DOMAIN ls = 1..Len(ls) /\ Len(ls) \in Nat
  OBVIOUS
<1>2. DOMAIN Elided(ls) = 1..Len(ls)
  BY <1>1 DEF Elided
<1>3. PICK g : g = [i \in 1..Len(ls) |-> Elided(ls)[i]]
  OBVIOUS
<1>4. g = Elided(ls)
  BY <1>1, <1>3 DEF Elided
<1>5. Len(g) = Len(ls)
  BY <1>1, <1>3
<1> QED
  BY <1>2, <1>4, <1>5

\* No mark for the next line is made where the file has none.
LEMMA NoNextLine ==
  ASSUME NEW ls \in Seq(Seq(STRING)), NEW clean, clean = RemoveMultiLineComments(ls),
         \A n \in DOMAIN ls : "NOLINTNEXTLINE" \notin Range(ls[n]),
         NEW n \in DOMAIN clean, NEW m \in NolintMark(clean[n])
  PROVE  ~m.next
<1>1. clean[n] \in Seq(Tokens) /\ clean[n] \in {Blank, ls[n]} /\ n \in DOMAIN ls
  BY CleanLines
<1>2. "NOLINTNEXTLINE" \notin Range(Blank)
  BY DEF Range, Blank
<1>3. "NOLINTNEXTLINE" \notin Range(clean[n])
  BY <1>1, <1>2
<1> QED
  BY <1>1, <1>3, NextLineMark

\* Errors that are not the one about unknown marks.
Known(S) == \A e \in S : e.category # Unknown
\* Errors of one line.
OnLine(S, n) == Known(S) /\ \A e \in S : e.line = n

\* Errors about line n that have nothing to do with its includes.
OfLine(S, n) == \A e \in S : e.line = n /\ e.category[1] \in {"readability", "whitespace"}

\* The errors about the header guard are on the lines whose marks are looked for, or on none.
LEMMA GuardLines ==
  ASSUME NEW f, NEW o, NEW ls, NEW n \in Nat, DOMAIN ls = 1..n,
         NEW g, g = CheckForHeaderGuard(f, o, ls)
  PROVE  /\ g.parsed \subseteq 0..n /\ Known(g.errors)
         /\ \A e \in g.errors : e.line \in g.parsed \cup {0}
                                /\ e.category = <<"build", "header_guard">>
<1> DEFINE waived == \E k \in DOMAIN ls :
                       \/ HasTokens(ls[k], <<"//", "NOLINT(build/header_guard)">>)
                       \/ Starts(ls[k], {"#pragma once"})
           guards == f.guards[o.root]
           Confidence(name) == IF name = guards[2] THEN 0 ELSE 5
           ifndef == FirstName(ls, "#ifndef")
           begins == {k \in DOMAIN ls : Starts(ls[k], {"#ifndef"}) /\ Len(ls[k]) > 1}
           ends   == {k \in DOMAIN ls : Starts(ls[k], Endifs)}
           atEnd  == IF ends = {} THEN 0 ELSE Max(ends)
           named  == IF ends = {} THEN "" ELSE EndifName(ls, ls[atEnd], guards)
           guard(k, c) == Mistake(k, <<"build", "header_guard">>, c)
           Wrong(k, found) == IF found = guards[1] THEN {}
                              ELSE {Mistake(k, <<"build", "header_guard">>, Confidence(found))}
           other  == f.ext \notin HeaderExtensions(o) \/ waived
           absent == ifndef = "" \/ ifndef # FirstName(ls, "#define")
<1>1. \A k, c : /\ guard(k, c).line = k /\ guard(k, c).category # Unknown
                /\ guard(k, c).category = <<"build", "header_guard">>
  BY DEF Mistake, Unknown
<1>2. CASE other
  <2>1. g = [errors |-> {}, parsed |-> {}]
    BY <1>2 DEF CheckForHeaderGuard
  <2> QED
    BY <2>1 DEF Known
<1>3. CASE ~other /\ absent
  <2>1. g = [[errors |-> {}, parsed |-> {}] EXCEPT !.errors = {guard(0, 5)}]
    BY <1>3 DEF CheckForHeaderGuard
  <2>2. g.errors = {guard(0, 5)} /\ g.parsed = {}
    BY <2>1
  <2> HIDE DEF guard
  <2> QED
    BY <1>1, <2>2 DEF Known
<1>4. CASE ~other /\ ~absent
  <2>1. g = [errors |-> Wrong(Min(begins), ifndef) \cup Wrong(atEnd, named),
             parsed |-> (IF ifndef # guards[1] THEN {Min(begins)} ELSE {}) \cup {atEnd}]
    BY <1>4 DEF CheckForHeaderGuard
  <2>2. begins # {}
    <3>1. ifndef # ""
      BY <1>4
    <3> QED
      BY <3>1 DEF FirstName
  <2>3. begins \subseteq 1..n /\ begins \in SUBSET Nat
    <3>1. DOMAIN ls \subseteq 1..n /\ DOMAIN ls \subseteq Nat
      OBVIOUS
    <3> QED
      BY <3>1
  <2>4. Min(begins) \in 1..n
    <3> HIDE DEF begins
    <3> QED
      BY <2>2, <2>3, LeastOf
  <2>5. atEnd \in 0..n
    <3>1. ends \in SUBSET (1..n) /\ ends \in SUBSET (0..n)
      OBVIOUS
    <3> HIDE DEF ends
    <3>2. CASE ends = {}
      <4>1. atEnd = 0
        BY <3>2
      <4> HIDE DEF atEnd
      <4> QED
        BY <4>1
    <3>3. CASE ends # {}
      <4>1. Max(ends) \in ends
        BY <3>1, <3>3, GreatestOf
      <4>2. Max(ends) \in 1..n
        BY <3>1, <4>1
      <4>3. atEnd = Max(ends)
        BY <3>3
      <4> HIDE DEF atEnd
      <4> QED
        BY <4>2, <4>3
    <3> QED
      BY <3>2, <3>3
  <2>6. \A k, found : \A e \in Wrong(k, found) :
          found # guards[1] /\ e = guard(k, Confidence(found))
    OBVIOUS
  <2> HIDE DEF begins, ends, atEnd, named, ifndef, guards, Confidence, guard, Wrong
  <2>7. \A e \in g.errors : \/ ifndef # guards[1] /\ e = guard(Min(begins), Confidence(ifndef))
                            \/ e = guard(atEnd, Confidence(named))
    BY <2>1, <2>6
  <2>8. g.parsed = (IF ifndef # guards[1] THEN {Min(begins)} ELSE {}) \cup {atEnd}
    BY <2>1
  <2> QED
    BY <1>1, <2>4, <2>5, <2>7, <2>8 DEF Known
<1> QED
  BY <1>2, <1>3, <1>4

\* An error of another kind than that about unknown marks.
LEMMA OtherKind ==
  ASSUME NEW n, NEW a, NEW c, NEW k, a # "unknown"
  PROVE  Mistake(n, <<a, c>>, k).line = n /\ Mistake(n, <<a, c>>, k).category # Unknown
<1>1. <<a, c>>[1] = a /\ Unknown[1] = "unknown"
  BY DEF Unknown
<1>2. <<a, c>> # Unknown
  BY <1>1
<1> QED
  BY <1>2 DEF Mistake

LEMMA ReadabilityOfLine ==
  ASSUME NEW n, NEW c, NEW k PROVE OfLine({Mistake(n, <<"readability", c>>, k)}, n)
  BY DEF OfLine, Mistake

LEMMA OfLineOnLine == ASSUME NEW n, NEW S, OfLine(S, n) PROVE OnLine(S, n)
<1>1. Unknown[1] = "unknown"
  BY DEF Unknown
<1>2. \A e \in S : e.category # Unknown
  BY <1>1 DEF OfLine
<1> QED
  BY <1>2 DEF OfLine, OnLine, Known

LEMMA BuildOnLine ==
  ASSUME NEW n, NEW c, NEW k PROVE OnLine({Mistake(n, <<"build", c>>, k)}, n)
<1>1. Mistake(n, <<"build", c>>, k).line = n /\ Mistake(n, <<"build", c>>, k).category # Unknown
  BY OtherKind
<1> QED
  BY <1>1 DEF OnLine, Known

LEMMA NothingOnLine == ASSUME NEW n PROVE OnLine({}, n) /\ OfLine({}, n)
  BY DEF OnLine, OfLine, Known

LEMMA BothOnLine ==
  ASSUME NEW n, NEW S, NEW T, OnLine(S, n), OnLine(T, n) PROVE OnLine(S \cup T, n)
  BY DEF OnLine, Known

LEMMA BothOfLine ==
  ASSUME NEW n, NEW S, NEW T, OfLine(S, n), OfLine(T, n) PROVE OfLine(S \cup T, n)
  BY DEF OfLine

\* The errors that ProcessLine raises are about its line.
LEMMA NolintErrorsOfLine == ASSUME NEW s, NEW n PROVE OfLine(NolintErrors(s, n), n)
<1>1. NolintErrors(s, n) \subseteq {Mistake(n, <<"readability", "nolint">>, 5)}
  BY DEF NolintErrors
<1>2. OfLine({Mistake(n, <<"readability", "nolint">>, 5)}, n)
  BY ReadabilityOfLine
<1> QED
  BY <1>1, <1>2 DEF OfLine

LEMMA FunctionErrorsOfLine == ASSUME NEW n PROVE OfLine(CheckForFunctionLengths(n).errors, n)
<1>1. OfLine(FunctionErrors(n), n)
  BY NothingOnLine, ReadabilityOfLine DEF FunctionErrors
<1> DEFINE s == Uncollapsed[n]
           r == CheckForFunctionLengths(n)
<1>2. CASE StartsFunction(s)
  <2>1. s # <<"}">>
    <3>1. ~StartsFunction(<<"}">>)
      BY DEF StartsFunction
    <3> QED
      BY <1>2, <3>1
  <2>2. r.errors = IF BodyMark(Uncollapsed, n) # "none" THEN {}
                   ELSE {Mistake(n, <<"readability", "fn_size">>, 5)}
    BY <1>2, <2>1 DEF CheckForFunctionLengths
  <2> QED
    BY <2>2, NothingOnLine, ReadabilityOfLine
<1>3. CASE ~StartsFunction(s) /\ s = <<"}">>
  <2>1. r.errors = FunctionErrors(n)
    BY <1>3 DEF CheckForFunctionLengths
  <2> QED
    BY <1>1, <2>1
<1>4. CASE ~StartsFunction(s) /\ s # <<"}">>
  <2>1. r.errors = {}
    BY <1>4 DEF CheckForFunctionLengths
  <2> QED
    BY <2>1, NothingOnLine
<1> QED
  BY <1>2, <1>3, <1>4

LEMMA MultilineOfLine == ASSUME NEW n PROVE OfLine(MultilineMistakes(n), n)
<1>1. \A e \in MultilineMistakes(n) : \E kind : e = Mistake(n, <<"readability", kind>>, 5)
  BY DEF MultilineMistakes
<1> QED
  BY <1>1 DEF OfLine, Mistake

LEMMA StyleOfLine == ASSUME NEW n PROVE OfLine(StyleErrors(n), n)
<1>1. StyleErrors(n) \subseteq {Mistake(n, <<"whitespace", "line_length">>, 2)}
  BY DEF StyleErrors
<1> QED
  BY <1>1 DEF OfLine, Mistake

LEMMA IncludeOnLine ==
  ASSUME NEW i, NEW f, NEW o, NEW ls, NEW n
  PROVE  OnLine(CheckIncludeLine(i, f, o, ls, n).errors, n)
<1> DEFINE h == Headers[ls[n][1]]
           style == IF ~h.system /\ h.dir = "" /\ ~h.third /\ h.ext = "h"
                    THEN {Mistake(n, <<"build", "include_subdir">>, 4)} ELSE {}
           refused == FindHeader(i, h.name) \/ IsForeignSource(f, o, h)
           taken == [i EXCEPT !.lists = Append(Front(@), Last(@) \cup {<<h.name, n>>})]
           order == CheckNextIncludeOrder(taken, ClassifyInclude(f, h))
           alpha == InAlphabeticalOrder(order.inc, ls, n, h)
           A == IF order.wrong THEN {Mistake(n, <<"build", "include_order">>, 4)} ELSE {}
           B == IF alpha THEN {} ELSE {Mistake(n, <<"build", "include_alpha">>, 4)}
           r == CheckIncludeLine(i, f, o, ls, n)
<1>1. OnLine(style, n) /\ OnLine(A, n) /\ OnLine(B, n)
  <2> HIDE DEF h, order, alpha
  <2> QED
    BY NothingOnLine, BuildOnLine
<1>2. OnLine({Mistake(n, <<"build", "include">>, 4)}, n)
  BY BuildOnLine
<1>3. r = IF refused
          THEN [inc |-> i, errors |-> style \cup {Mistake(n, <<"build", "include">>, 4)}]
          ELSE IF IsThirdParty(f, o, h) THEN [inc |-> i, errors |-> style]
          ELSE [inc |-> [order.inc EXCEPT !.last = h.rank], errors |-> style \cup A \cup B]
  BY DEF CheckIncludeLine
<1> HIDE DEF h, style, refused, order, A, B, r
<1>4. \/ r.errors = style \cup {Mistake(n, <<"build", "include">>, 4)}
      \/ r.errors = style
      \/ r.errors = style \cup A \cup B
  BY <1>3
<1>5. /\ OnLine(style \cup {Mistake(n, <<"build", "include">>, 4)}, n)
      /\ OnLine(style \cup A \cup B, n)
  BY <1>1, <1>2, BothOnLine
<1> QED
  BY <1>1, <1>4, <1>5 DEF r

LEMMA LanguageOfLine ==
  ASSUME NEW n, ~IsInclude(lines[n]) PROVE OfLine(CheckLanguage(n).errors, n)
<1>1. \/ CheckLanguage(n).errors = {}
      \/ CheckLanguage(n).errors = {Mistake(n, <<"readability", "casting">>, 4)}
  BY DEF CheckLanguage
<1> QED
  BY <1>1, NothingOnLine, ReadabilityOfLine

LEMMA LanguageOnLine == ASSUME NEW n PROVE OnLine(CheckLanguage(n).errors, n)
<1>1. CASE IsInclude(lines[n])
  <2>1. CheckLanguage(n) = CheckIncludeLine(inc, file, options, lines, n)
    BY <1>1 DEF CheckLanguage
  <2> QED
    BY <2>1, IncludeOnLine
<1>2. CASE ~IsInclude(lines[n])
  BY <1>2, LanguageOfLine, OfLineOnLine
<1> QED
  BY <1>1, <1>2

\* What is found on a line besides its includes.
Rest(n) == CheckForFunctionLengths(n).errors \cup MultilineMistakes(n) \cup StyleErrors(n)

LEMMA RestOfLine == ASSUME NEW n PROVE OfLine(Rest(n), n)
  BY FunctionErrorsOfLine, MultilineOfLine, StyleOfLine, BothOfLine DEF Rest

\* None of the errors about the whole file is about unknown marks.
LEMMA EndErrorsKnown ==
  Known(BlockErrors \cup IncludeWhatYouUse(inc, file, options, lines)
          \cup HeaderFileIncluded(inc, file, options) \cup EndingErrors)
<1>1. \A n, k, c : /\ Mistake(n, <<"build", c>>, k).category # Unknown
                   /\ Mistake(n, <<"whitespace", c>>, k).category # Unknown
  BY OtherKind
<1>2. Known(BlockErrors)
  BY <1>1 DEF BlockErrors, Known
<1>3. Known(IncludeWhatYouUse(inc, file, options, lines))
  BY <1>1 DEF IncludeWhatYouUse, Known
<1>4. Known(HeaderFileIncluded(inc, file, options))
  BY <1>1 DEF HeaderFileIncluded, Known
<1>5. Known(EndingErrors)
  BY <1>1 DEF EndingErrors, Known
<1> QED
  BY <1>2, <1>3, <1>4, <1>5 DEF Known

-----------------------------------------------------------------------------
(* The reports.                                                            *)

\* What the call says does not change.
LEMMA FilesStay == ASSUME UNCHANGED job PROVE FilesOf' = FilesOf
  BY DEF FilesOf, Retain, FoldLeft, MapThenFoldSet

LEMMA WantedStay ==
  ASSUME UNCHANGED job, NEW f, NEW g, f = g, NEW e PROVE Wanted(f, e)' = Wanted(g, e)
  BY DEF Wanted

\* What is said of a report depends on the call only.
Right(r) == RaisedEarly(r) \/ (r.printed <=> Wanted(FileOf(r), r.error))

LEMMA RightStays == ASSUME UNCHANGED job, NEW r PROVE Right(r)' <=> Right(r)
<1>1. FilesOf' = FilesOf
  BY FilesStay
<1>2. FileOf(r)' = FileOf(r)
  BY <1>1 DEF FileOf
<1>3. RaisedEarly(r)' <=> RaisedEarly(r)
  BY <1>2 DEF RaisedEarly
<1>4. Wanted(FileOf(r), r.error)' = Wanted(FileOf(r), r.error)
  BY <1>2 DEF Wanted
<1> QED
  BY <1>3, <1>4 DEF Right

\* What is judged rightly may be reported.
LEMMA ReportKeeps ==
  ASSUME PrintedExactly, UNCHANGED job,
         NEW mistakes, NEW nolint, NEW global, NEW fs, NEW early \in BOOLEAN,
         Report(mistakes, nolint, global, fs, early),
         FilesOf[Len(FilesOf) + 1 - Len(todo)] = file,
         \A m \in mistakes :
           \/ /\ early
              /\ \/ m.category = <<"readability", "multiline_comment">>
                 \/ \E n \in DOMAIN file.lines : "NOLINTNEXTLINE" \in Range(file.lines[n])
           \/ ShouldPrint(m, nolint, global, fs, job.args.verbose) <=> Wanted(file, m)
  PROVE  PrintedExactly'
<1> DEFINE Seen(m) == IF early /\ m.category = <<"readability", "multiline_comment">>
                     THEN {} ELSE nolint
           Printed(m) == ShouldPrint(m, Seen(m), global, fs, job.args.verbose)
           rep(m) == [left |-> Len(todo), error |-> m, printed |-> Printed(m), early |-> early]
<1>1. reports' = reports \cup {rep(m) : m \in mistakes}
  BY DEF Report
<1>2. ASSUME NEW m \in mistakes PROVE Right(rep(m))
  <2>1. rep(m).left = Len(todo) /\ rep(m).error = m /\ rep(m).early = early
        /\ (rep(m).printed <=> Printed(m))
    OBVIOUS
  <2> HIDE DEF rep
  <2>2. FileOf(rep(m)) = file
    BY <2>1 DEF FileOf
  <2>3. CASE /\ early
             /\ \/ m.category = <<"readability", "multiline_comment">>
                \/ \E n \in DOMAIN file.lines : "NOLINTNEXTLINE" \in Range(file.lines[n])
    BY <2>1, <2>2, <2>3 DEF Right, RaisedEarly
  <2>4. CASE /\ ~(early /\ m.category = <<"readability", "multiline_comment">>)
             /\ ShouldPrint(m, nolint, global, fs, job.args.verbose) <=> Wanted(file, m)
    <3>1. Seen(m) = nolint
      BY <2>4
    <3>2. Printed(m) <=> Wanted(file, m)
      BY <2>4, <3>1
    <3> QED
      BY <2>1, <2>2, <3>2 DEF Right
  <2> QED
    BY <2>3, <2>4
<1> HIDE DEF rep
<1>3. \A r \in reports' : Right(r)
  BY <1>1, <1>2 DEF PrintedExactly, Right
<1>4. \A r \in reports' : Right(r)'
  BY <1>3, RightStays
<1> QED
  BY <1>4 DEF PrintedExactly, Right

-----------------------------------------------------------------------------
(* The invariant.                                                          *)

AsGiven == \E about \in DOMAIN Jobs : job \in Jobs[about]

\* The files that are left are the last ones of the call.
Remaining ==
  phase \in {"next", "lines"} =>
    /\ todo \in Seq(Range(job.files)) /\ Len(todo) <= Len(FilesOf)
    /\ \A i \in 1..Len(todo) : todo[i] = FilesOf[Len(FilesOf) - Len(todo) + i]

\* What the state holds of the file that is looked at is of this file.
Prepared ==
  phase = "lines" =>
    /\ todo # <<>>
    /\ raw = RemoveMultiLineComments(file.lines) /\ Len(lines) = Len(file.lines)
    /\ everywhere = GlobalSuppressions(file.lines)
    /\ filters = FileFilters
    /\ line \in 1..(Len(lines) + 1)
    /\ \E seen \in SUBSET DOMAIN raw : /\ 1..(line - 1) \subseteq seen
                                       /\ suppressed = SuppressedBy(raw, seen)

PrintInv == IInv /\ AsGiven /\ Remaining /\ Prepared /\ PrintedExactly

\* What the assumption on the calls says of this one.
LEMMA FilesTyped ==
  ASSUME AsGiven
  PROVE  /\ FilesOf \in Seq(Range(job.files))
         /\ \A f \in Range(job.files) :
              f.lines \in Seq(Seq(STRING)) /\ f.configs \in Seq(Seq(ConfigOptions))
<1>1. /\ job.files \in Seq(Range(job.files))
      /\ \A f \in Range(job.files) :
           f.lines \in Seq(Seq(STRING)) /\ f.configs \in Seq(Seq(ConfigOptions))
  BY JobsAssumption DEF AsGiven
<1>2. FilesOf \in Seq(Range(job.files))
  BY <1>1, FilesAreSequence
<1> QED
  BY <1>1, <1>2

\* The file in hand, and where it is among the files of the call.
LEMMA InHand ==
  ASSUME AsGiven, Remaining, phase \in {"next", "lines"}, todo # <<>>
  PROVE  /\ file.lines \in Seq(Seq(STRING)) /\ file.configs \in Seq(Seq(ConfigOptions))
         /\ FilesOf[Len(FilesOf) + 1 - Len(todo)] = file
<1>1. /\ FilesOf \in Seq(Range(job.files)) /\ todo \in Seq(Range(job.files))
      /\ Len(todo) <= Len(FilesOf)
  BY FilesTyped DEF Remaining
<1>2. PICK s \in Seq(Range(job.files)), t \in Seq(Range(job.files)) : s = FilesOf /\ t = todo
  BY <1>1
<1>3. t # <<>> => Len(t) \in Nat /\ 1 \in 1..Len(t) /\ Head(t) = t[1] /\ t[1] \in Range(job.files)
  OBVIOUS
<1>4. file = todo[1] /\ file \in Range(job.files) /\ 1 \in 1..Len(todo)
  BY <1>2, <1>3 DEF file
<1>5. todo[1] = FilesOf[Len(FilesOf) - Len(todo) + 1]
  BY <1>4 DEF Remaining
<1>6. Len(s) - Len(t) + 1 = Len(s) + 1 - Len(t)
  OBVIOUS
<1> QED
  BY <1>2, <1>4, <1>5, <1>6, FilesTyped

\* When the first file is done with, the others are left.
LEMMA OneLess ==
  ASSUME AsGiven, Remaining, phase \in {"next", "lines"}, todo # <<>>,
         UNCHANGED job, todo' = Tail(todo)
  PROVE  Remaining'
<1>1. /\ FilesOf \in Seq(Range(job.files)) /\ todo \in Seq(Range(job.files))
      /\ Len(todo) <= Len(FilesOf)
      /\ \A i \in 1..Len(todo) : todo[i] = FilesOf[Len(FilesOf) - Len(todo) + i]
  BY FilesTyped DEF Remaining
<1>2. PICK s \in Seq(Range(job.files)), t \in Seq(Range(job.files)) : s = FilesOf /\ t = todo
  BY <1>1
<1>3. t # <<>> => /\ Tail(t) \in Seq(Range(job.files)) /\ Len(Tail(t)) = Len(t) - 1
                  /\ Len(t) \in Nat /\ Len(t) > 0
                  /\ \A i \in 1..Len(Tail(t)) : Tail(t)[i] = t[i + 1]
  OBVIOUS
<1>4. \A i \in 1..Len(Tail(t)) :
        i + 1 \in 1..Len(t) /\ Len(s) - Len(t) + (i + 1) = Len(s) - Len(Tail(t)) + i
  BY <1>2, <1>3
<1>5. \A i \in 1..Len(Tail(t)) : Tail(t)[i] = s[Len(s) - Len(Tail(t)) + i]
  BY <1>1, <1>2, <1>3, <1>4
<1>6. /\ Tail(t) \in Seq(Range(job.files)) /\ Len(Tail(t)) <= Len(s)
  BY <1>1, <1>2, <1>3
<1>7. FilesOf' = s /\ todo' = Tail(t) /\ job' = job
  BY <1>2, FilesStay
<1> QED
  BY <1>5, <1>6, <1>7 DEF Remaining

\* At the start there is no file and no report.
LEMMA InitPrintInv == Init => PrintInv
<1> SUFFICES ASSUME Init PROVE PrintInv
  OBVIOUS
<1>1. IInv
  BY InitIInv
<1>2. AsGiven
  BY DEF Init, AsGiven
<1>3. phase = "start" /\ reports = {}
  BY DEF Init
<1> QED
  BY <1>1, <1>2, <1>3 DEF PrintInv, Remaining, Prepared, PrintedExactly

\* What was judged rightly stays so.
LEMMA ReportsStay ==
  ASSUME PrintedExactly, UNCHANGED <<job, reports>> PROVE PrintedExactly'
<1>1. \A r \in reports : Right(r)'
  BY RightStays DEF PrintedExactly, Right
<1> QED
  BY <1>1 DEF PrintedExactly, Right

\* BeginFile: whatever is judged before the first line is looked at.
LEMMA BeginPrints ==
  ASSUME PrintInv, BeginFile PROVE Remaining' /\ Prepared' /\ PrintedExactly'
<1> DEFINE cfg   == ReadConfigs(file.configs, options)
           fs    == filters \o cfg.filters
           open  == CommentRanges(file.lines).open
           clean == RemoveMultiLineComments(file.lines)
           guard == CheckForHeaderGuard(file, cfg.options, CleanseRawStrings(clean))
           seen  == guard.parsed \ {0}
           nolint == ResetNolintSuppressions.suppressed
                       \cup UNION {NolintOf(clean[n], n) : n \in guard.parsed \ {0}}
           global == ResetNolintSuppressions.everywhere \cup GlobalSuppressions(file.lines)
           comment == IF open = 0 THEN {}
                      ELSE {Mistake(open + 1, <<"readability", "multiline_comment">>, 5)}
           malformed == UNION {NolintErrors(clean[n], n) : n \in guard.parsed \ {0}}
           mistakes == comment \cup guard.errors \cup malformed
<1>1. /\ phase = "next" /\ todo # <<>> /\ phase' = "lines" /\ line' = 1
      /\ UNCHANGED <<job, todo>>
      /\ filters' = fs /\ raw' = clean /\ lines' = Elided(file.lines)
      /\ suppressed' = nolint /\ everywhere' = global
      /\ Report(mistakes, nolint, global, fs, TRUE)
  BY DEF BeginFile
<1>2. /\ file.lines \in Seq(Seq(STRING)) /\ file.configs \in Seq(Seq(ConfigOptions))
      /\ FilesOf[Len(FilesOf) + 1 - Len(todo)] = file
  BY <1>1, InHand DEF PrintInv
<1>3. nolint = SuppressedBy(clean, seen) /\ global = GlobalSuppressions(file.lines)
  BY DEF ResetNolintSuppressions, SuppressedBy
<1>4. fs = FileFilters
  <2>1. filters = Given
    BY <1>1 DEF PrintInv, IInv, FiltersRestored, Given
  <2>2. cfg.filters = ReadConfigs(file.configs, DefaultOptions).filters
    BY <1>2, FiltersRead
  <2> QED
    BY <2>1, <2>2 DEF FileFilters
<1>5. /\ DOMAIN clean = 1..Len(file.lines) /\ Len(file.lines) \in Nat
      /\ Len(Elided(file.lines)) = Len(file.lines)
  BY <1>2, CleanLines, ElidedLines
<1>6. /\ guard.parsed \subseteq 0..Len(file.lines) /\ Known(guard.errors)
      /\ \A e \in guard.errors : e.line \in guard.parsed \cup {0}
  <2>1. DOMAIN CleanseRawStrings(clean) = 1..Len(file.lines)
    BY <1>5, RawLines
  <2> QED
    BY <1>5, <2>1, GuardLines
<1>7. seen \subseteq DOMAIN clean
  BY <1>5, <1>6
<1> HIDE DEF cfg, fs, guard, nolint, global, seen
<1>8. Remaining'
  <2>1. FilesOf' = FilesOf
    BY <1>1, FilesStay
  <2> QED
    BY <1>1, <2>1 DEF Remaining, PrintInv
<1>9. Prepared'
  <2>1. file' = file
    BY <1>1 DEF file
  <2>2. (1..(1 - 1)) \subseteq seen
    OBVIOUS
  <2>3. FileFilters' = FileFilters
    BY <1>1, <2>1 DEF FileFilters, Given
  <2>4. line' = 1 /\ 1 \in 1..(Len(lines') + 1) /\ 1..(line' - 1) \subseteq seen
    BY <1>1, <1>5, <2>2
  <2>5. suppressed' = SuppressedBy(raw', seen) /\ seen \in SUBSET DOMAIN raw'
    BY <1>1, <1>3, <1>7
  <2>6. /\ todo' # <<>> /\ raw' = RemoveMultiLineComments(file'.lines)
        /\ Len(lines') = Len(file'.lines)
        /\ everywhere' = GlobalSuppressions(file'.lines)
        /\ filters' = FileFilters'
    BY <1>1, <1>3, <1>4, <1>5, <2>1, <2>3
  <2> QED
    BY <2>4, <2>5, <2>6 DEF Prepared
<1>10. ASSUME NEW e \in mistakes
       PROVE  \/ /\ TRUE
                 /\ \/ e.category = <<"readability", "multiline_comment">>
                    \/ \E n \in DOMAIN file.lines : "NOLINTNEXTLINE" \in Range(file.lines[n])
              \/ ShouldPrint(e, nolint, global, fs, job.args.verbose) <=> Wanted(file, e)
  <2>1. CASE e \in comment
    BY <2>1 DEF Mistake
  <2>2. CASE \E n \in DOMAIN file.lines : "NOLINTNEXTLINE" \in Range(file.lines[n])
    BY <2>2
  <2>3. CASE /\ ~\E n \in DOMAIN file.lines : "NOLINTNEXTLINE" \in Range(file.lines[n])
             /\ e \notin comment
    <3>1. e.category # Unknown /\ e.line \in guard.parsed \cup {0}
      <4>1. CASE e \in guard.errors
        BY <1>6, <4>1 DEF Known
      <4>2. CASE e \notin guard.errors
        <5>1. PICK n \in guard.parsed \ {0} : e \in NolintErrors(clean[n], n)
          BY <2>3, <4>2
        <5>2. OnLine(NolintErrors(clean[n], n), n)
          BY NolintErrorsOfLine, OfLineOnLine
        <5> QED
          BY <5>1, <5>2 DEF OnLine, Known
      <4> QED
        BY <4>1, <4>2
    <3>2. ASSUME NEW n \in DOMAIN clean, NEW m \in NolintMark(clean[n]), About(m, n, e)
          PROVE  n \in seen
      <4>1. ~m.next
        BY <1>2, <2>3, NoNextLine
      <4>2. e.line = n /\ n # 0
        BY <1>5, <3>2, <4>1 DEF About
      <4> QED
        BY <3>1, <4>2 DEF seen
    <3> HIDE DEF clean
    <3>3. clean = RemoveMultiLineComments(file.lines)
      BY DEF clean
    <3>4. ShouldPrint(e, SuppressedBy(clean, seen), GlobalSuppressions(file.lines), fs,
                      job.args.verbose)
            <=> Wanted(file, e)
      BY <1>4, <1>7, <3>1, <3>2, <3>3, Judged DEF FileFilters
    <3> QED
      BY <1>3, <3>4 DEF clean
  <2> QED
    BY <2>1, <2>2, <2>3
<1>11. PrintedExactly'
  <2> HIDE DEF mistakes
  <2>1. TRUE \in BOOLEAN /\ PrintedExactly /\ UNCHANGED job
    BY <1>1 DEF PrintInv
  <2> QED
    BY <1>1, <1>2, <1>10, <2>1, ReportKeeps
<1> QED
  BY <1>8, <1>9, <1>11

\* A line, when its own mark and all before it have been seen.
LEMMA LinePrints ==
  ASSUME PrintInv, ProcessLine PROVE Remaining' /\ Prepared' /\ PrintedExactly'
<1> DEFINE nolint   == suppressed \cup NolintOf(raw[line], line)
           exempt   == InAsmBlock(nest'.stack)
           function == CheckForFunctionLengths(line)
           language == CheckLanguage(line)
           checks   == function.errors \cup MultilineMistakes(line)
                         \cup StyleErrors(line) \cup language.errors
           mistakes == NolintErrors(raw[line], line) \cup (IF exempt THEN {} ELSE checks)
<1>1. /\ phase = "lines" /\ line <= Len(lines) /\ line' = line + 1
      /\ UNCHANGED <<phase, job, todo, filters, everywhere, raw, lines>>
      /\ suppressed' = nolint
      /\ Report(mistakes, nolint, everywhere, filters, FALSE)
  BY DEF ProcessLine, settings, text
<1>2. /\ todo # <<>> /\ raw = RemoveMultiLineComments(file.lines) /\ Len(lines) = Len(file.lines)
      /\ everywhere = GlobalSuppressions(file.lines)
      /\ filters = FileFilters
      /\ line \in 1..(Len(lines) + 1)
      /\ \E seen \in SUBSET DOMAIN raw : /\ 1..(line - 1) \subseteq seen
                                         /\ suppressed = SuppressedBy(raw, seen)
  BY <1>1 DEF PrintInv, Prepared
<1>3. PICK old \in SUBSET DOMAIN raw :
        1..(line - 1) \subseteq old /\ suppressed = SuppressedBy(raw, old)
  BY <1>2
<1>4. /\ file.lines \in Seq(Seq(STRING))
      /\ FilesOf[Len(FilesOf) + 1 - Len(todo)] = file
  BY <1>1, <1>2, InHand DEF PrintInv
<1>5. DOMAIN raw = 1..Len(file.lines) /\ Len(file.lines) \in Nat
  BY <1>2, <1>4, CleanLines
<1> DEFINE seen == old \cup {line}
<1>6. seen \subseteq DOMAIN raw /\ 1..line \subseteq seen
  BY <1>1, <1>2, <1>3, <1>5
<1>7. nolint = SuppressedBy(raw, seen)
  BY <1>3 DEF SuppressedBy
<1>8. OnLine(mistakes, line)
  <2>1. OnLine(checks, line)
    BY RestOfLine, OfLineOnLine, LanguageOnLine, BothOnLine DEF Rest
  <2>2. OnLine(NolintErrors(raw[line], line), line)
    BY NolintErrorsOfLine, OfLineOnLine
  <2> HIDE DEF checks, exempt
  <2> QED
    BY <2>1, <2>2, NothingOnLine, BothOnLine
<1> HIDE DEF nolint, seen, mistakes
<1>9. Remaining'
  <2>1. FilesOf' = FilesOf
    BY <1>1, FilesStay
  <2> QED
    BY <1>1, <2>1 DEF Remaining, PrintInv
<1>10. Prepared'
  <2>1. file' = file
    BY <1>1 DEF file
  <2>2. FileFilters' = FileFilters
    BY <1>1, <2>1 DEF FileFilters, Given
  <2>3. line' \in 1..(Len(lines') + 1) /\ 1..(line' - 1) \subseteq seen
    BY <1>1, <1>2, <1>5, <1>6
  <2>4. suppressed' = SuppressedBy(raw', seen) /\ seen \in SUBSET DOMAIN raw'
    BY <1>1, <1>6, <1>7
  <2>5. /\ todo' # <<>> /\ raw' = RemoveMultiLineComments(file'.lines)
        /\ Len(lines') = Len(file'.lines)
        /\ everywhere' = GlobalSuppressions(file'.lines)
        /\ filters' = FileFilters'
    BY <1>1, <1>2, <2>1, <2>2
  <2> QED
    BY <2>3, <2>4, <2>5 DEF Prepared
<1>11. ASSUME NEW e \in mistakes
       PROVE  ShouldPrint(e, nolint, everywhere, filters, job.args.verbose) <=> Wanted(file, e)
  <2>1. e.category # Unknown /\ e.line = line
    BY <1>8 DEF OnLine, Known
  <2>2. ASSUME NEW n \in DOMAIN raw, NEW m \in NolintMark(raw[n]), About(m, n, e)
        PROVE  n \in seen
    <3>1. line = n \/ line = n + 1
      BY <2>1, <2>2 DEF About
    <3>2. n \in 1..line
      BY <1>2, <1>5, <3>1
    <3> QED
      BY <1>6, <3>2
  <2>3. ShouldPrint(e, SuppressedBy(raw, seen), GlobalSuppressions(file.lines), filters,
                    job.args.verbose)
          <=> Wanted(file, e)
    BY <1>2, <1>6, <2>1, <2>2, Judged DEF FileFilters
  <2> QED
    BY <1>2, <1>7, <2>3
<1>12. PrintedExactly'
  <2>1. FALSE \in BOOLEAN /\ PrintedExactly /\ UNCHANGED job
    BY <1>1 DEF PrintInv
  <2> QED
    BY <1>1, <1>4, <1>11, <2>1, ReportKeeps
<1> QED
  BY <1>9, <1>10, <1>12

\* The checks of the whole file, when all marks have been seen.
LEMMA FinishPrints ==
  ASSUME PrintInv, FinishFile PROVE Remaining' /\ Prepared' /\ PrintedExactly'
<1> DEFINE mistakes == BlockErrors \cup IncludeWhatYouUse(inc, file, options, lines)
                         \cup HeaderFileIncluded(inc, file, options) \cup EndingErrors
<1>1. /\ phase = "lines" /\ line > Len(lines) /\ phase' = "next" /\ todo' = Tail(todo)
      /\ UNCHANGED job
      /\ Report(mistakes, suppressed, everywhere, filters, FALSE)
  BY DEF FinishFile
<1>2. /\ todo # <<>> /\ raw = RemoveMultiLineComments(file.lines) /\ Len(lines) = Len(file.lines)
      /\ everywhere = GlobalSuppressions(file.lines)
      /\ filters = FileFilters
      /\ line \in 1..(Len(lines) + 1)
      /\ \E seen \in SUBSET DOMAIN raw : /\ 1..(line - 1) \subseteq seen
                                         /\ suppressed = SuppressedBy(raw, seen)
  BY <1>1 DEF PrintInv, Prepared
<1>3. PICK seen \in SUBSET DOMAIN raw :
        1..(line - 1) \subseteq seen /\ suppressed = SuppressedBy(raw, seen)
  BY <1>2
<1>4. /\ file.lines \in Seq(Seq(STRING))
      /\ FilesOf[Len(FilesOf) + 1 - Len(todo)] = file
  BY <1>1, <1>2, InHand DEF PrintInv
<1>5. DOMAIN raw = 1..Len(file.lines) /\ Len(file.lines) \in Nat
  BY <1>2, <1>4, CleanLines
<1>6. DOMAIN raw \subseteq seen
  BY <1>1, <1>2, <1>3, <1>5
<1>7. Known(mistakes)
  BY EndErrorsKnown
<1> HIDE DEF mistakes
<1>8. ASSUME NEW e \in mistakes
      PROVE  ShouldPrint(e, suppressed, everywhere, filters, job.args.verbose) <=> Wanted(file, e)
  <2>1. e.category # Unknown
    BY <1>7 DEF Known
  <2>2. \A n \in DOMAIN raw : \A m \in NolintMark(raw[n]) : About(m, n, e) => n \in seen
    BY <1>6
  <2>3. ShouldPrint(e, SuppressedBy(raw, seen), GlobalSuppressions(file.lines), filters,
                    job.args.verbose)
          <=> Wanted(file, e)
    BY <1>2, <1>3, <2>1, <2>2, Judged DEF FileFilters
  <2> QED
    BY <1>2, <1>3, <2>3
<1>9. PrintedExactly'
  <2>1. FALSE \in BOOLEAN /\ PrintedExactly
    BY DEF PrintInv
  <2> QED
    BY <1>1, <1>4, <1>8, <2>1, ReportKeeps
<1>10. Remaining'
  BY <1>1, <1>2, OneLess DEF PrintInv
<1> QED
  BY <1>1, <1>9, <1>10 DEF Prepared

\* Every step keeps the invariant.
LEMMA NextPrintInv == PrintInv /\ [Next]_vars => PrintInv'
<1> SUFFICES ASSUME PrintInv, [Next]_vars
             PROVE  PrintInv'
  OBVIOUS
<1>1. IInv'
  BY NextIInv DEF PrintInv
<1>2. UNCHANGED job
  BY DEF Next, ParseArguments, SkipFile, BadConfig, BeginFile, ProcessLine, FinishFile, Exit,
         Crash, vars, settings
<1>3. AsGiven'
  BY <1>2 DEF PrintInv, AsGiven
<1>4. UNCHANGED reports => PrintedExactly'
  BY <1>2, ReportsStay DEF PrintInv
<1>5. CASE ParseArguments
  <2>1. UNCHANGED reports /\ phase' # "lines" /\ todo' = FilesOf
    BY <1>5 DEF ParseArguments, Crash
  <2>2. Remaining'
    <3>1. FilesOf' = FilesOf /\ FilesOf \in Seq(Range(job.files))
      BY <1>2, FilesStay, FilesTyped DEF PrintInv
    <3>2. PICK s \in Seq(Range(job.files)) : s = FilesOf
      BY <3>1
    <3>3. Len(s) \in Nat /\ \A i \in 1..Len(s) : Len(s) - Len(s) + i = i
      OBVIOUS
    <3> QED
      BY <1>2, <2>1, <3>1, <3>2, <3>3 DEF Remaining
  <2> QED
    BY <1>1, <1>3, <1>4, <2>1, <2>2 DEF PrintInv, Prepared
<1>6. CASE SkipFile
  <2>1. /\ phase = "next" /\ todo # <<>> /\ todo' = Tail(todo)
        /\ UNCHANGED <<reports, phase>>
    BY <1>6 DEF SkipFile
  <2>2. Remaining'
    BY <1>2, <2>1, OneLess DEF PrintInv
  <2> QED
    BY <1>1, <1>3, <1>4, <2>1, <2>2 DEF PrintInv, Prepared
<1>7. CASE BadConfig \/ Exit
  <2>1. UNCHANGED reports /\ phase' = "exited"
    BY <1>7 DEF BadConfig, Exit, Crash
  <2> QED
    BY <1>1, <1>3, <1>4, <2>1 DEF PrintInv, Prepared, Remaining
<1>8. CASE BeginFile
  BY <1>1, <1>3, <1>8, BeginPrints DEF PrintInv
<1>9. CASE ProcessLine
  BY <1>1, <1>3, <1>9, LinePrints DEF PrintInv
<1>10. CASE FinishFile
  BY <1>1, <1>3, <1>10, FinishPrints DEF PrintInv
<1>11. CASE UNCHANGED vars
  <2>1. UNCHANGED <<reports, phase, todo, filters, everywhere, suppressed, raw, lines, line>>
    BY <1>11 DEF vars, settings, marks, text
  <2>2. Remaining'
    <3>1. FilesOf' = FilesOf
      BY <1>2, FilesStay
    <3> QED
      BY <1>2, <2>1, <3>1 DEF PrintInv, Remaining
  <2>3. Prepared'
    <3>1. file' = file
      BY <2>1 DEF file
    <3>2. FileFilters' = FileFilters
      BY <1>2, <3>1 DEF FileFilters, Given
    <3> QED
      BY <2>1, <3>1, <3>2 DEF PrintInv, Prepared
  <2> QED
    BY <1>1, <1>3, <1>4, <2>1, <2>2, <2>3 DEF PrintInv
<1> QED
  BY <1>5, <1>6, <1>7, <1>8, <1>9, <1>10, <1>11 DEF Next

\* cpplint.py:1410-1435, 6180-6229, 6318-6407.  Whether an error is printed depends on its
\* own file, its directories and the arguments, whatever files were looked at before.
THEOREM PrintedAsWanted == Spec => []PrintedExactly
<1>1. PrintInv => PrintedExactly
  BY DEF PrintInv
<1> QED
  BY InitPrintInv, NextPrintInv, <1>1, PTL DEF Spec

-----------------------------------------------------------------------------
(* Folds over the lines of a file.                                         *)

\* The first lines of a file.
LEMMA FirstLines ==
  ASSUME NEW X, NEW ls \in Seq(X), NEW n \in Nat, n <= Len(ls)
  PROVE  /\ DOMAIN SubSeq(ls, 1, n) = 1..n
         /\ \A k \in 1..n : SubSeq(ls, 1, n)[k] = ls[k]
  OBVIOUS

\* The depth of conditionals is found line by line, and so are the branches.
DepthOf(ls, n) == FoldLeft(DepthStep, 0, SubSeq(ls, 1, n))

LEMMA DepthNext ==
  ASSUME NEW X, NEW ls \in Seq(X)
  PROVE  /\ DepthOf(ls, 0) = 0
         /\ \A n \in Nat : n < Len(ls) => DepthOf(ls, n + 1) = DepthStep(DepthOf(ls, n), ls[n + 1])
<1>1. ASSUME NEW n \in Nat, n <= Len(ls)
      PROVE  \E f : Follows(<<"depth">>, 0, ls, n, f) /\ f[n] = DepthOf(ls, n)
  <2>1. PICK f : Follows(<<"depth">>, 0, SubSeq(ls, 1, n), n, f) /\ f[n] = DepthOf(ls, n)
    BY <1>1, FirstLines, DepthFold DEF DepthOf
  <2>2. Follows(<<"depth">>, 0, ls, n, f)
    BY <1>1, <2>1, FirstLines DEF Follows
  <2> QED
    BY <2>1, <2>2
<1>2. DepthOf(ls, 0) = 0
  <2>1. 0 <= Len(ls)
    OBVIOUS
  <2> QED
    BY <1>1, <2>1 DEF Follows
<1>3. ASSUME NEW n \in Nat, n < Len(ls)
      PROVE  DepthOf(ls, n + 1) = DepthStep(DepthOf(ls, n), ls[n + 1])
  <2>1. PICK f : Follows(<<"depth">>, 0, ls, n, f) /\ f[n] = DepthOf(ls, n)
    BY <1>1, <1>3
  <2>2. n + 1 <= Len(ls) /\ n + 1 \in Nat /\ n <= n + 1 /\ n + 1 \in 1..(n + 1) /\ (n + 1) - 1 = n
    BY <1>3
  <2>3. PICK g : Follows(<<"depth">>, 0, ls, n + 1, g) /\ g[n + 1] = DepthOf(ls, n + 1)
    BY <1>1, <2>2
  <2>4. f[n] = g[n]
    BY <2>1, <2>2, <2>3, FollowsAgree
  <2>5. g[n + 1] = DepthStep(g[n], ls[n + 1])
    BY <2>2, <2>3 DEF Follows, StepOf
  <2> QED
    BY <2>1, <2>3, <2>4, <2>5
<1> QED
  BY <1>2, <1>3

LEMMA SkipNext ==
  ASSUME NEW X, NEW ls \in Seq(X)
  PROVE  /\ Branches(ls, 0) = <<>>
         /\ \A n \in Nat : n < Len(ls) => Branches(ls, n + 1) = SkipStep(Branches(ls, n), ls[n + 1])
<1>1. ASSUME NEW n \in Nat, n <= Len(ls)
      PROVE  \E f : Follows(<<"skip">>, <<>>, ls, n, f) /\ f[n] = Branches(ls, n)
  <2>1. PICK f : Follows(<<"skip">>, <<>>, SubSeq(ls, 1, n), n, f) /\ f[n] = Branches(ls, n)
    BY <1>1, FirstLines, SkipFold DEF Branches
  <2>2. Follows(<<"skip">>, <<>>, ls, n, f)
    BY <1>1, <2>1, FirstLines DEF Follows
  <2> QED
    BY <2>1, <2>2
<1>2. Branches(ls, 0) = <<>>
  <2>1. 0 <= Len(ls)
    OBVIOUS
  <2> QED
    BY <1>1, <2>1 DEF Follows
<1>3. ASSUME NEW n \in Nat, n < Len(ls)
      PROVE  Branches(ls, n + 1) = SkipStep(Branches(ls, n), ls[n + 1])
  <2>1. PICK f : Follows(<<"skip">>, <<>>, ls, n, f) /\ f[n] = Branches(ls, n)
    BY <1>1, <1>3
  <2>2. n + 1 <= Len(ls) /\ n + 1 \in Nat /\ n <= n + 1 /\ n + 1 \in 1..(n + 1) /\ (n + 1) - 1 = n
    BY <1>3
  <2>3. PICK g : Follows(<<"skip">>, <<>>, ls, n + 1, g) /\ g[n + 1] = Branches(ls, n + 1)
    BY <1>1, <2>2
  <2>4. f[n] = g[n]
    BY <2>1, <2>2, <2>3, FollowsAgree
  <2>5. g[n + 1] = SkipStep(g[n], ls[n + 1])
    BY <2>2, <2>3 DEF Follows, StepOf
  <2> QED
    BY <2>1, <2>3, <2>4, <2>5
<1> QED
  BY <1>2, <1>3

\* The nesting is found line by line.
LEMMA NestNext ==
  ASSUME NEW ls
  PROVE  /\ NestOf(ls, 0) = NoNesting
         /\ \A n \in Nat : NestOf(ls, n + 1) = Update(NestOf(ls, n), ls, n + 1)
<1>1. NestOf(ls, 0) = NoNesting
  <2>1. PICK t : t = [i \in 1..0 |-> i]
    OBVIOUS
  <2>2. PICK f : Follows(<<"nest", ls>>, NoNesting, t, 0, f) /\ f[0] = NestOf(ls, 0)
    BY <2>1, NestFold
  <2> QED
    BY <2>2 DEF Follows
<1>2. ASSUME NEW n \in Nat PROVE NestOf(ls, n + 1) = Update(NestOf(ls, n), ls, n + 1)
  <2>1. PICK m \in Nat : m = n + 1
    OBVIOUS
  <2>2. PICK s, t : s = [i \in 1..n |-> i] /\ t = [i \in 1..m |-> i]
    OBVIOUS
  <2>3. n <= m /\ m \in 1..m /\ m - 1 = n /\ \A k \in 1..n : s[k] = t[k]
    BY <2>1, <2>2
  <2>4. PICK f : Follows(<<"nest", ls>>, NoNesting, s, n, f) /\ f[n] = NestOf(ls, n)
    BY <2>2, NestFold
  <2>5. PICK g : Follows(<<"nest", ls>>, NoNesting, t, m, g) /\ g[m] = NestOf(ls, m)
    BY <2>2, NestFold
  <2>6. f[n] = g[n]
    BY <2>3, <2>4, <2>5, FollowsAgree
  <2>7. g[m] = Update(g[n], ls, m)
    BY <2>2, <2>3, <2>5 DEF Follows, StepOf
  <2> QED
    BY <2>1, <2>4, <2>5, <2>6, <2>7
<1> QED
  BY <1>1, <1>2

-----------------------------------------------------------------------------
(* The include lists and the order.                                        *)

\* The places of the sections.
LEMMA Places5 ==
  /\ Place("initial") = 1 /\ Place("my_h") = 2 /\ Place("c") = 3 /\ Place("cpp") = 4
  /\ Place("other_h") = 5
<1>1. /\ Sections[1] = "initial" /\ Sections[2] = "my_h" /\ Sections[3] = "c"
      /\ Sections[4] = "cpp" /\ Sections[5] = "other_h"
  BY DEF Sections
<1>2. \A i \in 1..5 : i \in {1, 2, 3, 4, 5}
  OBVIOUS
<1>3. /\ \A i \in 1..5 : Sections[i] = "initial" <=> i = 1
      /\ \A i \in 1..5 : Sections[i] = "my_h" <=> i = 2
      /\ \A i \in 1..5 : Sections[i] = "c" <=> i = 3
      /\ \A i \in 1..5 : Sections[i] = "cpp" <=> i = 4
      /\ \A i \in 1..5 : Sections[i] = "other_h" <=> i = 5
  BY <1>1, <1>2
<1> QED
  BY <1>3 DEF Place

Kinds == {"c_sys", "cpp_sys", "likely", "possible", "other"}

LEMMA ClassifyKind == ASSUME NEW f, NEW h PROVE ClassifyInclude(f, h) \in Kinds
  BY DEF ClassifyInclude, Kinds

LEMMA SectionValues ==
  /\ SectionOf["c_sys"] = "c" /\ SectionOf["cpp_sys"] = "cpp" /\ SectionOf["likely"] = "my_h"
  /\ SectionOf["possible"] = "my_h" /\ SectionOf["other"] = "other_h"
  BY DEF SectionOf

\* An include list, as a record.
IncOf(i) == i = [lists |-> i.lists, section |-> i.section, last |-> i.last]

LEMMA IncExcept ==
  ASSUME NEW i, IncOf(i), NEW x
  PROVE  /\ [i EXCEPT !.lists = x] = [lists |-> x, section |-> i.section, last |-> i.last]
         /\ [i EXCEPT !.section = x] = [lists |-> i.lists, section |-> x, last |-> i.last]
         /\ [i EXCEPT !.last = x] = [lists |-> i.lists, section |-> i.section, last |-> x]
<1>1. PICK l, s, k : i = [lists |-> l, section |-> s, last |-> k]
  BY DEF IncOf
<1>2. [[lists |-> l, section |-> s, last |-> k] EXCEPT !.lists = x]
      = [lists |-> x, section |-> s, last |-> k]
  OBVIOUS
<1>3. [[lists |-> l, section |-> s, last |-> k] EXCEPT !.section = x]
      = [lists |-> l, section |-> x, last |-> k]
  OBVIOUS
<1>4. [[lists |-> l, section |-> s, last |-> k] EXCEPT !.last = x]
      = [lists |-> l, section |-> s, last |-> x]
  OBVIOUS
<1> QED
  BY <1>1, <1>2, <1>3, <1>4

\* What comes behind an include of a type that the order takes.
NextSection(section, type) ==
  CASE type = "c_sys" -> IF section \in {"initial", "my_h", "c"} THEN "c" ELSE section
    [] type = "cpp_sys" -> IF section = "other_h" THEN section ELSE "cpp"
    [] type \in {"likely", "possible"} ->
         IF section \in {"initial", "my_h"} THEN "my_h" ELSE "other_h"
    [] OTHER -> "other_h"
Misplaced(section, type) ==
  \/ type = "c_sys" /\ section \in {"cpp", "other_h"}
  \/ type = "cpp_sys" /\ section = "other_h"

LEMMA OrderStep ==
  ASSUME NEW i, IncOf(i), i.section \in {"initial", "my_h", "c", "cpp", "other_h"},
         NEW type \in Kinds
  PROVE  LET r == CheckNextIncludeOrder(i, type)
         IN /\ IncOf(r.inc) /\ r.inc.lists = i.lists
            /\ r.inc.section = NextSection(i.section, type)
            /\ r.wrong <=> Misplaced(i.section, type)
<1> DEFINE behind  == Place(i.section) > Place(SectionOf[type])
           wrong   == behind /\ type \in {"c_sys", "cpp_sys"}
           section == IF wrong THEN i.section
                      ELSE IF behind THEN "other_h" ELSE SectionOf[type]
           last == IF wrong \/ section # i.section THEN 0 ELSE i.last
           r == CheckNextIncludeOrder(i, type)
<1>1. r = [inc |-> [i EXCEPT !.section = section, !.last = last], wrong |-> wrong]
  BY DEF CheckNextIncludeOrder
<1>2. section = NextSection(i.section, type) /\ (wrong <=> Misplaced(i.section, type))
  BY Places5, SectionValues DEF Kinds, NextSection, Misplaced
<1> HIDE DEF section, wrong, last
<1>3. [i EXCEPT !.section = section, !.last = last]
      = [lists |-> i.lists, section |-> section, last |-> last]
  <2>1. PICK u : u = [i EXCEPT !.section = section]
    OBVIOUS
  <2>2. u = [lists |-> i.lists, section |-> section, last |-> i.last]
    BY <2>1, IncExcept
  <2>3. [[lists |-> i.lists, section |-> section, last |-> i.last] EXCEPT !.last = last]
        = [lists |-> i.lists, section |-> section, last |-> last]
    OBVIOUS
  <2> QED
    BY <2>1, <2>2, <2>3
<1> QED
  BY <1>1, <1>2, <1>3 DEF IncOf

Doubled == <<"build", "include">>
Disordered == <<"build", "include_order">>
InOrder(section) == section \in {"initial", "my_h", "c", "cpp", "other_h"}
\* The lists with one header more.
With(lists, h, n) == Append(Front(lists), Last(lists) \cup {<<h.name, n>>})

\* An include line: refused, left alone, or taken into the lists and the order.
Raises(S, category) == \E e \in S : e.category = category
Refused(i, f, o, h) == FindHeader(i, h.name) \/ IsForeignSource(f, o, h)
Alone(f, o, h) == IsThirdParty(f, o, h)

LEMMA IncludeParts ==
  ASSUME NEW i, IncOf(i), InOrder(i.section),
         NEW f, NEW o, NEW ls, NEW n, NEW h, h = Headers[ls[n][1]], NEW type, type = ClassifyInclude(f, h),
         NEW r, r = CheckIncludeLine(i, f, o, ls, n)
  PROVE  /\ Raises(r.errors, Doubled) <=> Refused(i, f, o, h)
         /\ Raises(r.errors, Disordered)
              <=> ~Refused(i, f, o, h) /\ ~Alone(f, o, h) /\ Misplaced(i.section, type)
         /\ Refused(i, f, o, h) \/ Alone(f, o, h) => r.inc = i
         /\ ~(Refused(i, f, o, h) \/ Alone(f, o, h)) =>
              /\ IncOf(r.inc)
              /\ r.inc.lists = With(i.lists, h, n)
              /\ r.inc.section = NextSection(i.section, type)
<1> USE DEF InOrder, Doubled, Disordered, With
<1> DEFINE style == IF ~h.system /\ h.dir = "" /\ ~h.third /\ h.ext = "h"
                    THEN {Mistake(n, <<"build", "include_subdir">>, 4)} ELSE {}
           taken == [i EXCEPT !.lists = Append(Front(@), Last(@) \cup {<<h.name, n>>})]
           order == CheckNextIncludeOrder(taken, type)
           alpha == InAlphabeticalOrder(order.inc, ls, n, h)
           A == IF order.wrong THEN {Mistake(n, <<"build", "include_order">>, 4)} ELSE {}
           B == IF alpha THEN {} ELSE {Mistake(n, <<"build", "include_alpha">>, 4)}
<1>1. r = IF Refused(i, f, o, h)
          THEN [inc |-> i, errors |-> style \cup {Mistake(n, <<"build", "include">>, 4)}]
          ELSE IF Alone(f, o, h) THEN [inc |-> i, errors |-> style]
          ELSE [inc |-> [order.inc EXCEPT !.last = h.rank], errors |-> style \cup A \cup B]
  BY DEF CheckIncludeLine, Refused, Alone
<1>2. ASSUME NEW c, c \in {"include", "include_order", "include_subdir", "include_alpha"},
             NEW d, d \in {"include", "include_order"}
      PROVE  Mistake(n, <<"build", c>>, 4).category = <<"build", d>> <=> c = d
  BY DEF Mistake
<1>3. ASSUME NEW d, d \in {"include", "include_order"}
      PROVE  ~Raises(style, <<"build", d>>) /\ ~Raises(B, <<"build", d>>)
  <2>1. d # "include_subdir" /\ d # "include_alpha"
    BY <1>3
  <2> HIDE DEF alpha
  <2> QED
    BY <1>2, <1>3, <2>1 DEF Raises
<1>4. Raises(A, <<"build", "include_order">>) <=> order.wrong
  <2> HIDE DEF order
  <2> QED
    BY <1>2 DEF Raises
<1>5. ~Raises(A, <<"build", "include">>)
  <2> HIDE DEF order
  <2> QED
    BY <1>2 DEF Raises
<1>6. /\ IncOf(taken) /\ taken.section = i.section
      /\ taken.lists = Append(Front(i.lists), Last(i.lists) \cup {<<h.name, n>>})
  BY IncExcept DEF IncOf
<1>7. /\ IncOf(order.inc) /\ order.inc.lists = taken.lists
      /\ order.inc.section = NextSection(i.section, type)
      /\ order.wrong <=> Misplaced(i.section, type)
  <2> HIDE DEF taken
  <2>1. type \in Kinds
    BY ClassifyKind
  <2> QED
    BY <1>6, <2>1, OrderStep
<1> HIDE DEF style, taken, order, A, B
<1>8. IncOf([order.inc EXCEPT !.last = h.rank]) /\ [order.inc EXCEPT !.last = h.rank].lists = taken.lists
      /\ [order.inc EXCEPT !.last = h.rank].section = NextSection(i.section, type)
  BY <1>7 DEF IncOf
<1>9. CASE Refused(i, f, o, h)
  <2>1. r.inc = i /\ r.errors = style \cup {Mistake(n, <<"build", "include">>, 4)}
    BY <1>1, <1>9
  <2>2. Mistake(n, <<"build", "include">>, 4).category = <<"build", "include">>
        /\ Mistake(n, <<"build", "include">>, 4).category # <<"build", "include_order">>
    BY <1>2
  <2> QED
    BY <1>3, <1>9, <2>1, <2>2 DEF Raises
<1>10. CASE ~Refused(i, f, o, h) /\ Alone(f, o, h)
  <2>1. r.inc = i /\ r.errors = style
    BY <1>1, <1>10
  <2> QED
    BY <1>3, <1>10, <2>1
<1>11. CASE ~Refused(i, f, o, h) /\ ~Alone(f, o, h)
  <2>1. r.inc = [order.inc EXCEPT !.last = h.rank] /\ r.errors = style \cup A \cup B
    BY <1>1, <1>11
  <2>2. \A c : Raises(style \cup A \cup B, c) <=> Raises(style, c) \/ Raises(A, c) \/ Raises(B, c)
    BY DEF Raises
  <2> QED
    BY <1>3, <1>4, <1>5, <1>6, <1>7, <1>8, <1>11, <2>1, <2>2
<1> QED
  BY <1>9, <1>10, <1>11

LEMMA IncludeLine ==
  ASSUME NEW i, IncOf(i), InOrder(i.section),
         NEW f, NEW o, NEW ls, NEW n
  PROVE  LET h == Headers[ls[n][1]]
             r == CheckIncludeLine(i, f, o, ls, n)
         IN /\ Raises(r.errors, Doubled) <=> Refused(i, f, o, h)
            /\ Raises(r.errors, Disordered)
                 <=> ~Refused(i, f, o, h) /\ ~Alone(f, o, h)
                     /\ Misplaced(i.section, ClassifyInclude(f, h))
            /\ Refused(i, f, o, h) \/ Alone(f, o, h) => r.inc = i
            /\ ~(Refused(i, f, o, h) \/ Alone(f, o, h)) =>
                 /\ IncOf(r.inc)
                 /\ r.inc.lists = With(i.lists, h, n)
                 /\ r.inc.section = NextSection(i.section, ClassifyInclude(f, h))
<1>1. PICK h, r, type : /\ h = Headers[ls[n][1]] /\ r = CheckIncludeLine(i, f, o, ls, n)
                        /\ type = ClassifyInclude(f, h)
  OBVIOUS
<1>2. /\ Raises(r.errors, Doubled) <=> Refused(i, f, o, h)
      /\ Raises(r.errors, Disordered)
           <=> ~Refused(i, f, o, h) /\ ~Alone(f, o, h) /\ Misplaced(i.section, type)
      /\ Refused(i, f, o, h) \/ Alone(f, o, h) => r.inc = i
      /\ ~(Refused(i, f, o, h) \/ Alone(f, o, h)) =>
           /\ IncOf(r.inc)
           /\ r.inc.lists = With(i.lists, h, n)
           /\ r.inc.section = NextSection(i.section, type)
  BY <1>1, IncludeParts
<1> QED
  BY <1>1, <1>2

-----------------------------------------------------------------------------
(* What is known of the includes, line by line.                            *)

\* The lines and the nesting are those of the file.
Following ==
  phase = "lines" => /\ lines = Elided(file.lines)
                     /\ nest = NestOf(lines, line - 1)

\* Errors about includes are reported for the lines that have been looked at.
Included == {<<"build", "include">>, <<"build", "include_order">>}
Raised ==
  /\ phase = "start" => reports = {}
  /\ phase = "next" => \A r \in reports : r.left \in Nat /\ r.left > Len(todo)
  /\ phase = "lines" =>
       \A r \in reports : /\ r.left \in Nat /\ r.left >= Len(todo)
                          /\ r.left = Len(todo) /\ r.error.category \in Included =>
                               r.error.line \in 1..(line - 1)

LEMMA LinesTyped ==
  ASSUME AsGiven, Remaining, Prepared, Following, phase = "lines"
  PROVE  /\ lines \in Seq(Range(lines)) /\ Len(lines) \in Nat
         /\ line \in 1..(Len(lines) + 1) /\ todo # <<>> /\ Len(todo) \in Nat
<1>1. todo # <<>> /\ line \in 1..(Len(lines) + 1) /\ lines = Elided(file.lines)
      /\ todo \in Seq(Range(job.files))
  BY DEF Prepared, Following, Remaining
<1>2. file.lines \in Seq(Seq(STRING))
  BY <1>1, InHand
<1>3. DOMAIN lines = 1..Len(lines) /\ Len(lines) \in Nat
  <2>1. Len(file.lines) \in Nat
    BY <1>2
  <2> QED
    BY <1>1, <1>2, <2>1, ElidedLines
<1>4. lines = [i \in 1..Len(lines) |-> lines[i]]
  BY <1>1, <1>3 DEF Elided
<1>5. \A i \in 1..Len(lines) : lines[i] \in Range(lines)
  BY <1>3 DEF Range
<1>6. lines \in Seq(Range(lines))
  BY <1>3, <1>4, <1>5
<1> QED
  BY <1>1, <1>3, <1>6

\* A line in inline assembly stays one.
LEMMA AsmKept ==
  ASSUME UNCHANGED lines, line \in Nat, line' = line + 1
  PROVE  /\ DirectiveInAsm => DirectiveInAsm'
         /\ line > 0 /\ (IsInclude(lines[line]) \/ IsDirective(lines[line]))
              /\ InAsmBlock(StackOf(lines, line)) => DirectiveInAsm'
<1>1. 1..(line - 1) \subseteq 1..(line' - 1) /\ line > 0 => line \in 1..(line' - 1)
  OBVIOUS
<1>2. DirectiveInAsm' <=> \E n \in 1..(line' - 1) : (IsInclude(lines[n]) \/ IsDirective(lines[n]))
                                                     /\ InAsmBlock(StackOf(lines, n))
  BY DEF DirectiveInAsm
<1> QED
  BY <1>1, <1>2 DEF DirectiveInAsm

\* What ProcessLine does to the include lists and which errors about includes it adds.
LEMMA LineFacts ==
  ASSUME AsGiven, Remaining, Prepared, Following, Raised, ProcessLine
  PROVE  /\ phase = "lines" /\ line \in 1..Len(lines) /\ Len(lines) \in Nat /\ line' = line + 1
         /\ UNCHANGED <<phase, job, todo, lines, options>>
         /\ nest' = NestOf(lines, line)
         /\ ~DirectiveInAsm' => ~DirectiveInAsm
         /\ ~DirectiveInAsm' =>
              inc' = IF IsInclude(lines[line]) THEN CheckIncludeLine(inc, file, options, lines, line).inc
                     ELSE IF IsDirective(lines[line]) THEN ResetSection(inc, lines[line]) ELSE inc
         /\ \A c \in Included : \A k : k # line => (Reported(k, c)' <=> Reported(k, c))
         /\ ~DirectiveInAsm' /\ IsInclude(lines[line]) =>
              \A c \in Included : \A k : k = line =>
                (Reported(k, c)' <=> Raises(CheckIncludeLine(inc, file, options, lines, line).errors, c))
         /\ Raised'
<1> DEFINE nolint   == suppressed \cup NolintOf(raw[line], line)
           exempt   == InAsmBlock(nest'.stack)
           function == CheckForFunctionLengths(line)
           language == CheckLanguage(line)
           checks   == function.errors \cup MultilineMistakes(line)
                         \cup StyleErrors(line) \cup language.errors
           mistakes == NolintErrors(raw[line], line) \cup (IF exempt THEN {} ELSE checks)
<1>1. /\ phase = "lines" /\ line <= Len(lines) /\ line' = line + 1
      /\ UNCHANGED <<phase, job, todo, lines, options>>
      /\ nest' = Update(nest, lines, line)
      /\ inc' = IF exempt THEN inc ELSE language.inc
      /\ Report(mistakes, nolint, everywhere, filters, FALSE)
  BY DEF ProcessLine, settings, text
<1>2. /\ lines \in Seq(Range(lines)) /\ Len(lines) \in Nat
      /\ line \in 1..Len(lines) /\ Len(todo) \in Nat
  BY <1>1, LinesTyped
<1>3. nest' = NestOf(lines, line)
  <2>1. line - 1 \in Nat /\ (line - 1) + 1 = line
    BY <1>2
  <2> QED
    BY <1>1, <2>1, NestNext DEF Following
<1>4. exempt <=> InAsmBlock(StackOf(lines, line))
  BY <1>3 DEF StackOf
<1> HIDE DEF exempt
<1>5. /\ ~DirectiveInAsm' => ~DirectiveInAsm
      /\ ~DirectiveInAsm' /\ (IsInclude(lines[line]) \/ IsDirective(lines[line])) => ~exempt
  <2>1. line \in Nat /\ line > 0
    BY <1>2
  <2> QED
    BY <1>1, <1>4, <2>1, AsmKept
<1>6. language.inc = IF IsInclude(lines[line]) THEN CheckIncludeLine(inc, file, options, lines, line).inc
                     ELSE IF IsDirective(lines[line]) THEN ResetSection(inc, lines[line]) ELSE inc
  BY DEF CheckLanguage
<1>7. /\ OnLine(mistakes, line)
      /\ \A c \in Included :
           Raises(mistakes, c) <=> ~exempt /\ IsInclude(lines[line]) /\ Raises(language.errors, c)
  <2>1. \A S : OfLine(S, line) => \A c \in Included : ~Raises(S, c)
    <3>1. \A c \in Included : c[1] = "build"
      BY DEF Included
    <3> QED
      BY <3>1 DEF OfLine, Raises
  <2>2. OfLine(NolintErrors(raw[line], line), line) /\ OfLine(Rest(line), line)
    BY NolintErrorsOfLine, RestOfLine
  <2>3. ~IsInclude(lines[line]) => OfLine(language.errors, line)
    BY LanguageOfLine
  <2>4. checks = Rest(line) \cup language.errors
    BY DEF Rest
  <2>5. mistakes = NolintErrors(raw[line], line)
                     \cup (IF exempt THEN {} ELSE Rest(line) \cup language.errors)
    BY <2>4
  <2>6. OnLine(mistakes, line)
    BY <2>2, <2>5, OfLineOnLine, LanguageOnLine, NothingOnLine, BothOnLine
  <2> HIDE DEF mistakes, language
  <2> QED
    BY <2>1, <2>2, <2>3, <2>5, <2>6 DEF Raises
<1>8. reports' = reports \cup
        {[left |-> Len(todo), error |-> m,
          printed |-> ShouldPrint(m, nolint, everywhere, filters, job.args.verbose),
          early |-> FALSE] : m \in mistakes}
  BY <1>1 DEF Report
<1> HIDE DEF mistakes, language
<1> DEFINE new == {[left |-> Len(todo), error |-> m,
                   printed |-> ShouldPrint(m, nolint, everywhere, filters, job.args.verbose),
                   early |-> FALSE] : m \in mistakes}
           reportOf(m) ==
             [left |-> Len(todo), error |-> m,
              printed |-> ShouldPrint(m, nolint, everywhere, filters, job.args.verbose),
              early |-> FALSE]
<1>15. /\ \A r \in new : r.left = Len(todo) /\ r.error \in mistakes
       /\ \A m \in mistakes : \E r \in new : r.left = Len(todo) /\ r.error = m
  <2> HIDE DEF mistakes
  <2>1. \A m \in mistakes : reportOf(m) \in new
    OBVIOUS
  <2>2. \A m : reportOf(m).left = Len(todo) /\ reportOf(m).error = m
    OBVIOUS
  <2>3. \A r \in new : \E m \in mistakes : r = reportOf(m)
    OBVIOUS
  <2> HIDE DEF new, reportOf
  <2> QED
    BY <2>1, <2>2, <2>3
<1> HIDE DEF new
<1>9. \A k, c : Reported(k, c)' <=> Reported(k, c) \/ \E m \in mistakes : m.line = k /\ m.category = c
  <2>1. \A k, c : Reported(k, c)' <=> \E r \in reports' : r.left = Len(todo) /\ r.error.line = k
                                                            /\ r.error.category = c
    BY <1>1 DEF Reported
  <2>2. reports' = reports \cup new
    BY <1>8 DEF new
  <2> QED
    BY <1>15, <2>1, <2>2 DEF Reported
<1>10. \A c \in Included : \A k : k # line => (Reported(k, c)' <=> Reported(k, c))
  BY <1>7, <1>9 DEF OnLine
<1>11. \A c \in Included : ~Reported(line, c)
  <2>1. \A r \in reports : r.left = Len(todo) /\ r.error.category \in Included => r.error.line # line
    BY <1>1, <1>2 DEF Raised
  <2> QED
    BY <2>1 DEF Reported
<1>12. ASSUME NEW c \in Included, NEW k, k = line PROVE Reported(k, c)' <=> Raises(mistakes, c)
  <2>1. Reported(k, c)' <=> \E m \in mistakes : m.line = k /\ m.category = c
    BY <1>9, <1>11, <1>12
  <2> QED
    BY <1>7, <1>12, <2>1 DEF OnLine, Raises
<1>13. IsInclude(lines[line]) => language.errors = CheckIncludeLine(inc, file, options, lines, line).errors
  BY DEF language, CheckLanguage
<1>14. Raised'
  <2>1. \A r \in reports : r.left \in Nat /\ r.left >= Len(todo)
                           /\ (r.left = Len(todo) /\ r.error.category \in Included =>
                                 r.error.line \in 1..line)
    BY <1>1, <1>2 DEF Raised
  <2>2. \A m \in mistakes : m.line \in 1..line
    BY <1>2, <1>7 DEF OnLine
  <2>3. reports' = reports \cup new
    BY <1>8 DEF new
  <2>4. line' - 1 = line
    BY <1>1, <1>2
  <2> QED
    BY <1>1, <1>2, <1>15, <2>1, <2>2, <2>3, <2>4 DEF Raised
<1> QED
  BY <1>1, <1>2, <1>3, <1>5, <1>6, <1>7, <1>10, <1>12, <1>13, <1>14

-----------------------------------------------------------------------------
(* The headers that are remembered.                                        *)

LEMMA DepthInt ==
  ASSUME NEW X, NEW ls \in Seq(X)
  PROVE  \A n \in Nat : n <= Len(ls) => DepthOf(ls, n) \in Int
<1> DEFINE S == {n \in Nat : n <= Len(ls) => DepthOf(ls, n) \in Int}
<1>1. 0 \in S
  BY DepthNext
<1>2. ASSUME NEW n \in Nat, n \in S PROVE n + 1 \in S
  <2> SUFFICES ASSUME n + 1 <= Len(ls) PROVE DepthOf(ls, n + 1) \in Int
    OBVIOUS
  <2>1. n < Len(ls) /\ DepthOf(ls, n) \in Int
    BY <1>2
  <2>2. DepthOf(ls, n + 1) = DepthStep(DepthOf(ls, n), ls[n + 1])
    BY <2>1, DepthNext
  <2> QED
    BY <2>1, <2>2 DEF DepthStep
<1> HIDE DEF S
<1>3. \A n \in Nat : n \in S
  BY <1>1, <1>2, AllNumbers
<1> QED
  BY <1>3 DEF S

\* One of the first n lists has the name.
Holds(lists, n, name) == \E i \in 1..n : \E f \in lists[i] : f[1] = name

Whole(lists) == \E X : lists \in Seq(X) /\ lists # <<>>

\* All but the last of a sequence.
LEMMA FrontOf ==
  ASSUME NEW E, NEW m \in Seq(E), m # <<>>
  PROVE  \E b \in Seq(E) : /\ b = Front(m) /\ Len(b) = Len(m) - 1
                           /\ \A k \in 1..(Len(m) - 1) : b[k] = m[k]
<1>1. Len(m) \in Nat /\ Len(m) > 0 /\ \A k \in 1..(Len(m) - 1) : m[k] \in E
  OBVIOUS
<1> DEFINE b == SubSeq(m, 1, Len(m) - 1)
<1>2. /\ b \in Seq(E) /\ Len(b) = IF 1 <= Len(m) - 1 THEN (Len(m) - 1) - 1 + 1 ELSE 0
      /\ \A k \in 1..((Len(m) - 1) - 1 + 1) : b[k] = m[1 + k - 1]
  <2> HIDE DEF b
  <2>1. Len(m) - 1 \in Int /\ 1 \in Int
    BY <1>1
  <2> QED
    BY <1>1, <2>1, SubSeqProperties DEF b
<1> HIDE DEF b
<1>3. Len(b) = Len(m) - 1 /\ \A k \in 1..(Len(m) - 1) : b[k] = m[k]
  <2>5. \A i \in Nat : i > 0 => i - 1 \in Nat
    OBVIOUS
  <2>6. Len(m) - 1 \in Nat
    BY <1>1, <2>5
  <2>1. PICK last \in Nat : last = Len(m) - 1
    BY <2>6
  <2>2. (IF 1 <= last THEN last - 1 + 1 ELSE 0) = last /\ last - 1 + 1 = last
        /\ \A k \in 1..last : 1 + k - 1 = k
    OBVIOUS
  <2>3. Len(b) = last
    BY <1>2, <2>1, <2>2
  <2>4. \A k \in 1..last : b[k] = m[1 + k - 1]
    BY <1>2, <2>1, <2>2
  <2> QED
    BY <2>1, <2>2, <2>3, <2>4
<1> QED
  BY <1>2, <1>3 DEF Front, b

\* A directive forgets no list of a conditional that is still open behind it.
LEMMA ResetKeeps ==
  ASSUME NEW i, Whole(i.lists), NEW s, IsDirective(s), NEW r, r = ResetSection(i, s)
  PROVE  /\ IncOf(r) /\ r.section = "initial" /\ Whole(r.lists)
         /\ \A d \in Nat : Len(i.lists) > d /\ DepthStep(d, s) >= 0 =>
              /\ Len(r.lists) > DepthStep(d, s)
              /\ \A name : Holds(i.lists, Len(i.lists) - d, name) =>
                           Holds(r.lists, Len(r.lists) - DepthStep(d, s), name)
<1>1. PICK X : i.lists \in Seq(X) /\ i.lists # <<>>
  BY DEF Whole
<1>2. PICK l \in Seq(X \cup {{}}) : l = i.lists /\ l # <<>>
  BY <1>1
<1>3. Len(l) \in Nat /\ Len(l) > 0
  BY <1>2
<1>4. s # <<>> /\ s[1] \in Ifs \cup Elses \cup Endifs
  BY DEF IsDirective, Starts
<1>5. /\ Ifs \cap Elses = {} /\ Ifs \cap Endifs = {} /\ Elses \cap Endifs = {}
  BY DEF Ifs, Elses, Endifs
<1>6. IncOf(r) /\ r.section = "initial"
  BY DEF ResetSection, IncOf
<1>10. PICK e \in X \cup {{}} : e = {}
  OBVIOUS
<1>11. /\ Append(l, e) \in Seq(X \cup {{}}) /\ Append(l, e) # <<>>
       /\ Len(Append(l, e)) = Len(l) + 1 /\ \A k \in 1..Len(l) : Append(l, e)[k] = l[k]
  OBVIOUS
<1>12. PICK b \in Seq(X \cup {{}}) :
         b = Front(l) /\ Len(b) = Len(l) - 1 /\ \A k \in 1..(Len(l) - 1) : b[k] = l[k]
  BY <1>2, FrontOf
<1>13. /\ Append(b, e) \in Seq(X \cup {{}}) /\ Append(b, e) # <<>>
       /\ Len(Append(b, e)) = Len(b) + 1 /\ \A k \in 1..Len(b) : Append(b, e)[k] = b[k]
  OBVIOUS
<1>14. ASSUME NEW m, NEW c \in Nat, \A k \in 1..c : m[k] = l[k], NEW name, Holds(l, c, name)
       PROVE  Holds(m, c, name)
  BY <1>14 DEF Holds
<1>7. CASE s[1] \in Ifs
  <2>1. r.lists = Append(l, e)
    BY <1>2, <1>4, <1>7, <1>10 DEF ResetSection, Starts
  <2>2. Whole(r.lists)
    BY <2>1, <1>11 DEF Whole
  <2>3. ASSUME NEW d \in Nat, Len(l) > d
        PROVE  /\ DepthStep(d, s) = d + 1 /\ Len(r.lists) > d + 1
               /\ Len(r.lists) - (d + 1) = Len(l) - d
               /\ \A k \in 1..(Len(l) - d) : r.lists[k] = l[k]
    <3>1. DepthStep(d, s) = d + 1
      BY <1>4, <1>7 DEF DepthStep, Starts
    <3>2. Len(r.lists) = Len(l) + 1
      BY <1>11, <2>1
    <3>3. /\ Len(l) + 1 > d + 1 /\ Len(l) + 1 - (d + 1) = Len(l) - d
          /\ \A k \in 1..(Len(l) - d) : k \in 1..Len(l)
      BY <1>3, <2>3
    <3>4. \A k \in 1..(Len(l) - d) : r.lists[k] = l[k]
      BY <1>11, <2>1, <3>3
    <3> QED
      BY <3>1, <3>2, <3>3, <3>4
  <2>4. ASSUME NEW d \in Nat, Len(l) > d, NEW name, Holds(l, Len(l) - d, name)
        PROVE  Holds(r.lists, Len(l) - d, name)
    <3>1. Len(l) - d \in Nat
      BY <1>3, <2>4
    <3> QED
      BY <1>14, <2>3, <2>4, <3>1
  <2> QED
    BY <1>2, <1>6, <2>2, <2>3, <2>4
<1>8. CASE s[1] \in Elses
  <2>1. r.lists = Append(b, e)
    BY <1>2, <1>4, <1>5, <1>8, <1>10, <1>12 DEF ResetSection, Starts
  <2>2. Whole(r.lists)
    BY <2>1, <1>13 DEF Whole
  <2>3. ASSUME NEW d \in Nat, Len(l) > d, DepthStep(d, s) >= 0
        PROVE  /\ DepthStep(d, s) = d /\ d > 0 /\ Len(r.lists) = Len(l)
               /\ \A k \in 1..(Len(l) - d) : r.lists[k] = l[k]
    <3>1. DepthStep(d, s) = d /\ d > 0
      BY <1>4, <1>5, <1>8, <2>3 DEF DepthStep, Starts
    <3> QED
      BY <1>3, <1>12, <1>13, <2>1, <3>1
  <2>4. ASSUME NEW d \in Nat, Len(l) > d, DepthStep(d, s) >= 0, NEW name,
               Holds(l, Len(l) - d, name)
        PROVE  Holds(r.lists, Len(l) - d, name)
    <3>1. Len(l) - d \in Nat
      BY <1>3, <2>4
    <3> QED
      BY <1>14, <2>3, <2>4, <3>1
  <2> QED
    BY <1>2, <1>6, <2>2, <2>3, <2>4
<1>9. CASE s[1] \in Endifs
  <2>1. r.lists = l
    BY <1>2, <1>4, <1>5, <1>9 DEF ResetSection, Starts
  <2>2. \A d \in Nat : DepthStep(d, s) = d - 1
    BY <1>4, <1>5, <1>9 DEF DepthStep, Starts
  <2>3. \A d \in Nat : /\ Len(l) > d => Len(l) > d - 1
                       /\ \A k \in 1..(Len(l) - d) : k \in 1..(Len(l) - (d - 1))
    BY <1>3
  <2>4. ASSUME NEW d \in Nat, Len(l) > d, NEW name, Holds(l, Len(l) - d, name)
        PROVE  Holds(l, Len(l) - (d - 1), name)
    BY <2>3, <2>4 DEF Holds
  <2> QED
    BY <1>1, <1>2, <1>6, <2>1, <2>2, <2>3, <2>4
<1> QED
  BY <1>4, <1>7, <1>8, <1>9

LEMMA ResetDepth ==
  ASSUME NEW i, Whole(i.lists), NEW s, IsDirective(s),
         NEW d \in Nat, Len(i.lists) > d, DepthStep(d, s) >= 0
  PROVE  LET r == ResetSection(i, s)
         IN /\ Len(r.lists) > DepthStep(d, s)
            /\ \A name : Holds(i.lists, Len(i.lists) - d, name) =>
                         Holds(r.lists, Len(r.lists) - DepthStep(d, s), name)
<1>1. PICK r : r = ResetSection(i, s)
  OBVIOUS
<1>2. \A c \in Nat : Len(i.lists) > c /\ DepthStep(c, s) >= 0 =>
        /\ Len(r.lists) > DepthStep(c, s)
        /\ \A name : Holds(i.lists, Len(i.lists) - c, name) =>
                     Holds(r.lists, Len(r.lists) - DepthStep(c, s), name)
  BY <1>1, ResetKeeps
<1> HIDE DEF Holds
<1> QED
  BY <1>1, <1>2

\* An include adds to the last list.
LEMMA AddKeeps ==
  ASSUME NEW l, Whole(l), NEW x, NEW r, r = Append(Front(l), Last(l) \cup {x})
  PROVE  /\ Whole(r) /\ Len(r) = Len(l) /\ Len(l) \in Nat /\ Len(l) > 0
         /\ x \in r[Len(l)]
         /\ \A k \in 1..Len(l) : l[k] \subseteq r[k]
<1>1. PICK X : l \in Seq(X) /\ l # <<>>
  BY DEF Whole
<1>2. PICK E : E = X \cup {Last(l) \cup {x}}
  OBVIOUS
<1>9. PICK y \in E : y = Last(l) \cup {x}
  BY <1>2
<1>10. PICK m \in Seq(E) : m = l /\ m # <<>>
  BY <1>1, <1>2
<1>3. Len(m) \in Nat /\ Len(m) > 0
  BY <1>10
<1>4. PICK b \in Seq(E) :
        b = Front(m) /\ Len(b) = Len(m) - 1 /\ \A k \in 1..(Len(m) - 1) : b[k] = m[k]
  BY <1>10, FrontOf
<1>5. /\ Append(b, y) \in Seq(E) /\ Append(b, y) # <<>> /\ Len(Append(b, y)) = Len(m)
      /\ Append(b, y)[Len(m)] = y
      /\ \A k \in 1..(Len(m) - 1) : Append(b, y)[k] = m[k]
  BY <1>3, <1>4
<1>6. y = m[Len(m)] \cup {x}
  BY <1>9, <1>10 DEF Last
<1>7. \A k \in 1..Len(m) : m[k] \subseteq Append(b, y)[k]
  <2>1. \A k \in 1..Len(m) : k = Len(m) \/ k \in 1..(Len(m) - 1)
    BY <1>3
  <2> QED
    BY <1>5, <1>6, <2>1
<1>8. r = Append(b, y) /\ Whole(r)
  BY <1>4, <1>5, <1>9, <1>10 DEF Whole
<1> QED
  BY <1>3, <1>5, <1>6, <1>7, <1>8, <1>10

\* An include is no directive, and changes no depth.
LEMMA IncludeIsNone ==
  ASSUME NEW s PROVE IsInclude(s) => ~IsDirective(s)
  BY HeadersAssumption DEF IsInclude, IsDirective, Starts

LEMMA OtherDepth ==
  ASSUME NEW s, ~IsDirective(s), NEW d \in Int PROVE DepthStep(d, s) = d
  BY DEF IsDirective, DepthStep, Starts

\* The headers of the includes at the depth 0 are in lists that no open conditional made.
KeptIn(f, o, lists, ls, n) ==
  LET outer == Len(lists) - DepthOf(ls, n)
  IN /\ outer > 0
     /\ \A k \in 1..n : IsInclude(ls[k]) /\ DepthOf(ls, k) = 0 =>
          LET h == Headers[ls[k][1]]
          IN \/ Alone(f, o, h)
             \/ IsForeignSource(f, o, h)
             \/ Holds(lists, outer, h.name)

\* A name that is found is in one of the lists.
LEMMA FoundHeld ==
  ASSUME NEW i, Whole(i.lists), NEW name
  PROVE  FindHeader(i, name) <=> Holds(i.lists, Len(i.lists), name)
<1>1. PICK X : i.lists \in Seq(X)
  BY DEF Whole
<1>2. DOMAIN i.lists = 1..Len(i.lists)
  BY <1>1
<1> QED
  BY <1>2 DEF FindHeader, Remembered, Holds, Range

\* One line more.
LEMMA KeptNext ==
  ASSUME NEW X, NEW ls \in Seq(X), NEW n \in 1..Len(ls), NEW i, IncOf(i), Whole(i.lists),
         InOrder(i.section), NEW f, NEW o, NEW r,
         DepthOf(ls, n - 1) >= 0 => KeptIn(f, o, i.lists, ls, n - 1),
         r = IF IsInclude(ls[n]) THEN CheckIncludeLine(i, f, o, ls, n).inc
             ELSE IF IsDirective(ls[n]) THEN ResetSection(i, ls[n]) ELSE i
  PROVE  IncOf(r) /\ Whole(r.lists) /\ (DepthOf(ls, n) >= 0 => KeptIn(f, o, r.lists, ls, n))
<1> DEFINE b == DepthOf(ls, n - 1)
           e == DepthOf(ls, n)
<1>1. Len(ls) \in Nat /\ n - 1 \in Nat /\ n - 1 < Len(ls) /\ (n - 1) + 1 = n
  OBVIOUS
<1>2. e = DepthStep(b, ls[n])
  BY <1>1, DepthNext
<1>3. b \in Int /\ e \in Int
  BY <1>1, DepthInt
<1>4. e >= 0 => b >= 0
  BY <1>2, <1>3 DEF DepthStep
<1>5. \A k \in 1..n : k \in 1..(n - 1) \/ k = n
  OBVIOUS
<1>6. PICK X2 : i.lists \in Seq(X2) /\ i.lists # <<>>
  BY DEF Whole
<1>7. Len(i.lists) \in Nat
  BY <1>6
<1>8. CASE IsInclude(ls[n])
  <2> DEFINE h == Headers[ls[n][1]]
             l == i.lists
             new == Last(l) \cup {<<h.name, n>>}
  <2>1. ~IsDirective(ls[n]) /\ e = b
    BY <1>2, <1>3, <1>8, IncludeIsNone, OtherDepth
  <2>2. r = CheckIncludeLine(i, f, o, ls, n).inc
    BY <1>8
  <2>4. /\ Refused(i, f, o, h) \/ Alone(f, o, h) => r = i
        /\ ~(Refused(i, f, o, h) \/ Alone(f, o, h)) => IncOf(r) /\ r.lists = With(l, h, n)
    BY <2>2, IncludeLine
  <2>5. CASE Refused(i, f, o, h) \/ Alone(f, o, h)
    <3>1. r = i
      BY <2>4, <2>5
    <3>2. Alone(f, o, h) \/ IsForeignSource(f, o, h) \/ Holds(i.lists, Len(i.lists), h.name)
      BY <2>5, FoundHeld DEF Refused
    <3>3. e = 0 => Len(i.lists) - e = Len(i.lists)
      BY <1>7
    <3> QED
      BY <1>4, <1>5, <2>1, <3>1, <3>2, <3>3 DEF KeptIn
  <2>6. CASE ~(Refused(i, f, o, h) \/ Alone(f, o, h))
    <3>1. IncOf(r) /\ r.lists = Append(Front(l), new)
      BY <2>4, <2>6 DEF With
    <3>2. PICK x : x = <<h.name, n>>
      OBVIOUS
    <3>3. r.lists = Append(Front(l), Last(l) \cup {x})
      BY <3>1, <3>2
    <3> HIDE DEF new
    <3>4. /\ Whole(r.lists) /\ Len(r.lists) = Len(l) /\ Len(l) \in Nat /\ Len(l) > 0
          /\ x \in r.lists[Len(l)] /\ \A k \in 1..Len(l) : l[k] \subseteq r.lists[k]
      BY <3>3, AddKeeps
    <3>5. x[1] = h.name
      BY <3>2
    <3>6. ASSUME e = 0 PROVE Holds(r.lists, Len(r.lists) - e, h.name)
      <4>1. Len(r.lists) - e = Len(l) /\ Len(l) \in 1..Len(l)
        BY <3>4, <3>6
      <4> QED
        BY <3>4, <3>5, <4>1 DEF Holds
    <3>7. ASSUME e >= 0, NEW name, Holds(l, Len(l) - e, name)
          PROVE  Holds(r.lists, Len(r.lists) - e, name)
      <4>1. \A k \in 1..(Len(l) - e) : k \in 1..Len(l)
        BY <1>3, <3>4, <3>7
      <4> QED
        BY <3>4, <3>7, <4>1 DEF Holds
    <3>8. e >= 0 => KeptIn(f, o, r.lists, ls, n)
      <4> SUFFICES ASSUME e >= 0 PROVE KeptIn(f, o, r.lists, ls, n)
        OBVIOUS
      <4>1. KeptIn(f, o, l, ls, n - 1)
        BY <1>4
      <4> QED
        BY <1>5, <2>1, <3>4, <3>6, <3>7, <4>1 DEF KeptIn
    <3> QED
      BY <3>1, <3>4, <3>8
  <2> QED
    BY <2>5, <2>6
<1>9. CASE IsDirective(ls[n])
  <2>1. ~IsInclude(ls[n]) /\ r = ResetSection(i, ls[n])
    BY <1>9, IncludeIsNone
  <2>2. IncOf(r) /\ Whole(r.lists)
    BY <1>9, <2>1, ResetKeeps
  <2>3. ASSUME e >= 0 PROVE KeptIn(f, o, r.lists, ls, n)
    <3>1. KeptIn(f, o, i.lists, ls, n - 1) /\ b \in Nat
      BY <1>3, <1>4, <2>3
    <3>2. Len(i.lists) - b > 0
      BY <3>1 DEF KeptIn
    <3>3. Len(i.lists) > b
      BY <1>7, <3>1, <3>2
    <3>4. /\ Len(r.lists) > e
          /\ \A name : Holds(i.lists, Len(i.lists) - b, name) => Holds(r.lists, Len(r.lists) - e, name)
      BY <1>2, <1>9, <2>1, <2>3, <3>1, <3>3, ResetDepth
    <3>5. Len(r.lists) - e > 0
      <4>1. PICK X3 : r.lists \in Seq(X3)
        BY <2>2 DEF Whole
      <4>2. Len(r.lists) \in Nat
        BY <4>1
      <4> QED
        BY <1>3, <3>4, <4>2
    <3> QED
      BY <1>5, <2>1, <3>1, <3>4, <3>5 DEF KeptIn
  <2> QED
    BY <2>2, <2>3
<1>10. CASE ~IsInclude(ls[n]) /\ ~IsDirective(ls[n])
  <2>1. r = i /\ e = b
    BY <1>2, <1>3, <1>10, OtherDepth
  <2> QED
    BY <1>4, <1>5, <1>10, <2>1 DEF KeptIn
<1> QED
  BY <1>8, <1>9, <1>10

-----------------------------------------------------------------------------
(* The order of the includes.                                              *)

TypeOf(f, ls, k) == ClassifyInclude(f, Headers[ls[k][1]])

\* The includes of T before line n that no directive separates from it.
Fresh(ls, T, n) == {k \in 1..(n - 1) : k \in T /\ \A j \in k..(n - 1) : ~IsDirective(ls[j])}

\* An own header behind system headers, or another's.
LateIn(f, ls, T, n) ==
  \E k \in Fresh(ls, T, n) :
    \/ TypeOf(f, ls, k) = "other"
    \/ /\ TypeOf(f, ls, k) \in {"likely", "possible"}
       /\ \E j \in Fresh(ls, T, k) : TypeOf(f, ls, j) \in {"c_sys", "cpp_sys"}
OfType(f, ls, T, n, type) == \E k \in Fresh(ls, T, n) : TypeOf(f, ls, k) = type

\* The section that the includes before line n lead to.
Fit(f, ls, T, n) ==
  IF LateIn(f, ls, T, n) THEN "other_h"
  ELSE IF OfType(f, ls, T, n, "cpp_sys") THEN "cpp"
  ELSE IF OfType(f, ls, T, n, "c_sys") THEN "c"
  ELSE IF Fresh(ls, T, n) # {} THEN "my_h" ELSE "initial"

\* One line more, behind which U has what T has before it.
SameBefore(T, U, n) == \A k \in 1..(n - 1) : k \in T <=> k \in U

LEMMA FreshSame ==
  ASSUME NEW ls, NEW n \in Nat, NEW T, NEW U, SameBefore(T, U, n), NEW m \in 1..n
  PROVE  Fresh(ls, U, m) = Fresh(ls, T, m)
<1>1. \A k \in 1..(m - 1) : k \in 1..(n - 1)
  OBVIOUS
<1> QED
  BY <1>1 DEF Fresh, SameBefore

LEMMA FreshNext ==
  ASSUME NEW ls, NEW n \in Nat \ {0}, NEW T, NEW U, SameBefore(T, U, n),
         n \in U => ~IsDirective(ls[n])
  PROVE  Fresh(ls, U, n + 1) = IF IsDirective(ls[n]) THEN {}
                               ELSE IF n \in U THEN Fresh(ls, T, n) \cup {n}
                               ELSE Fresh(ls, T, n)
<1>2. n + 1 - 1 = n /\ n \in 1..n /\ \A k \in 1..n : k = n \/ k \in 1..(n - 1)
  OBVIOUS
<1>3. \A k \in 1..n : \A j \in k..n : j = n \/ j \in k..(n - 1)
  OBVIOUS
<1>4. /\ \A k \in 1..(n - 1) : k \in 1..n /\ k # n
      /\ \A k \in 1..n : n \in k..n /\ \A j \in k..(n - 1) : j \in k..n
      /\ \A j \in n..n : j = n
  OBVIOUS
<1>5. Fresh(ls, U, n + 1) = {k \in 1..n : k \in U /\ \A j \in k..n : ~IsDirective(ls[j])}
  BY <1>2 DEF Fresh
<1>6. CASE IsDirective(ls[n])
  BY <1>4, <1>5, <1>6
<1>7. CASE ~IsDirective(ls[n])
  <2>1. Fresh(ls, T, n) = {k \in 1..(n - 1) : k \in U /\ \A j \in k..(n - 1) : ~IsDirective(ls[j])}
    BY DEF Fresh, SameBefore
  <2>2. \A k \in 1..(n - 1) : (\A j \in k..n : ~IsDirective(ls[j]))
                                <=> (\A j \in k..(n - 1) : ~IsDirective(ls[j]))
    BY <1>3, <1>4, <1>7
  <2>3. \A j \in n..n : ~IsDirective(ls[j])
    BY <1>4, <1>7
  <2>4. CASE n \in U
    <3>1. Fresh(ls, U, n + 1) = Fresh(ls, T, n) \cup {n}
      BY <1>2, <1>4, <1>5, <2>1, <2>2, <2>3, <2>4
    <3> QED
      BY <1>7, <2>4, <3>1
  <2>5. CASE n \notin U
    <3>1. Fresh(ls, U, n + 1) = Fresh(ls, T, n)
      BY <1>2, <1>4, <1>5, <2>1, <2>2, <2>5
    <3> QED
      BY <1>7, <2>5, <3>1
  <2> QED
    BY <2>4, <2>5
<1> QED
  BY <1>6, <1>7

LEMMA FitNext ==
  ASSUME NEW f, NEW ls, NEW n \in Nat \ {0}, NEW T, NEW U,
         SameBefore(T, U, n), n \in U => ~IsDirective(ls[n]),
         NEW m, m = n + 1
  PROVE  /\ InOrder(Fit(f, ls, T, n))
         /\ Fit(f, ls, U, m) = IF IsDirective(ls[n]) THEN "initial"
                                   ELSE IF n \in U THEN NextSection(Fit(f, ls, T, n), TypeOf(f, ls, n))
                                   ELSE Fit(f, ls, T, n)
<1>1. ASSUME NEW k \in 1..n PROVE Fresh(ls, U, k) = Fresh(ls, T, k)
  BY <1>1, FreshSame
<1>2. Fresh(ls, U, n + 1) = IF IsDirective(ls[n]) THEN {}
                            ELSE IF n \in U THEN Fresh(ls, T, n) \cup {n} ELSE Fresh(ls, T, n)
  BY FreshNext
<1>3. \A k \in Fresh(ls, T, n) : k \in 1..n
  BY DEF Fresh
<1>4. n \in 1..n
  OBVIOUS
<1>5. InOrder(Fit(f, ls, T, n))
  BY DEF Fit, InOrder
<1>6. CASE IsDirective(ls[n])
  BY <1>2, <1>5, <1>6 DEF Fit, LateIn, OfType
<1>7. CASE ~IsDirective(ls[n]) /\ n \notin U
  <2>1. Fresh(ls, U, n + 1) = Fresh(ls, T, n)
    BY <1>2, <1>7
  <2>2. LateIn(f, ls, U, n + 1) <=> LateIn(f, ls, T, n)
    BY <1>1, <1>3, <2>1 DEF LateIn
  <2>3. \A type : OfType(f, ls, U, n + 1, type) <=> OfType(f, ls, T, n, type)
    BY <2>1 DEF OfType
  <2> QED
    BY <1>5, <1>7, <2>1, <2>2, <2>3 DEF Fit
<1>8. CASE ~IsDirective(ls[n]) /\ n \in U
  <2> DEFINE type == TypeOf(f, ls, n)
  <2>1. Fresh(ls, U, n + 1) = Fresh(ls, T, n) \cup {n}
    BY <1>2, <1>8
  <2>2. LateIn(f, ls, U, n + 1)
          <=> \/ LateIn(f, ls, T, n)
              \/ type = "other"
              \/ /\ type \in {"likely", "possible"}
                 /\ OfType(f, ls, T, n, "c_sys") \/ OfType(f, ls, T, n, "cpp_sys")
    BY <1>1, <1>3, <1>4, <2>1 DEF LateIn, OfType
  <2>3. \A t : OfType(f, ls, U, n + 1, t) <=> OfType(f, ls, T, n, t) \/ type = t
    BY <2>1 DEF OfType
  <2>4. type \in Kinds
    BY ClassifyKind DEF TypeOf
  <2>5. Fresh(ls, U, n + 1) # {}
    BY <2>1
  <2> HIDE DEF type
  <2>6. \A t : OfType(f, ls, T, n, t) => Fresh(ls, T, n) # {}
    BY DEF OfType
  <2>7. Fit(f, ls, U, m) = NextSection(Fit(f, ls, T, n), type)
    BY <2>2, <2>3, <2>4, <2>5, <2>6 DEF Fit, NextSection, Kinds
  <2> QED
    BY <1>5, <1>8, <2>7 DEF type
<1> QED
  BY <1>6, <1>7, <1>8

LEMMA FitSame ==
  ASSUME NEW f, NEW ls, NEW n \in Nat \ {0}, NEW T, NEW U, SameBefore(T, U, n)
  PROVE  Fit(f, ls, U, n) = Fit(f, ls, T, n)
<1>1. ASSUME NEW m \in 1..n PROVE Fresh(ls, U, m) = Fresh(ls, T, m)
  BY <1>1, FreshSame
<1>2. n \in 1..n /\ \A k \in Fresh(ls, T, n) : k \in 1..n
  BY DEF Fresh
<1>3. Fresh(ls, U, n) = Fresh(ls, T, n)
  BY <1>1, <1>2
<1>4. LateIn(f, ls, U, n) <=> LateIn(f, ls, T, n)
  BY <1>1, <1>2, <1>3 DEF LateIn
<1> QED
  BY <1>3, <1>4 DEF Fit, OfType

\* A system header is misplaced where one before it should be behind it.
LEMMA MisplacedIs ==
  ASSUME NEW f, NEW ls, NEW T, NEW n, NEW type \in Kinds
  PROVE  Misplaced(Fit(f, ls, T, n), type)
           <=> /\ type \in {"c_sys", "cpp_sys"}
               /\ LateIn(f, ls, T, n) \/ (type = "c_sys" /\ OfType(f, ls, T, n, "cpp_sys"))
  BY DEF Misplaced, Fit, Kinds

\* Behind the last directive is where no directive follows.
LEMMA CutOf ==
  ASSUME NEW ls, NEW P, NEW n \in Nat \ {0}
  PROVE  LET cut == Max({0} \cup {k \in 1..(n - 1) : IsDirective(ls[k])})
         IN {k \in (cut + 1)..(n - 1) : k \in P} = Fresh(ls, P, n)
<1> DEFINE D == {0} \cup {k \in 1..(n - 1) : IsDirective(ls[k])}
           cut == Max(D)
<1>1. n - 1 \in Nat /\ D \in SUBSET (0..(n - 1)) /\ D # {}
  OBVIOUS
<1>2. cut \in D /\ \A y \in D : y <= cut
  <2> HIDE DEF D
  <2> QED
    BY <1>1, GreatestOf
<1>3. cut \in 0..(n - 1) /\ (cut # 0 => IsDirective(ls[cut]))
  BY <1>2
<1>4. \A k \in 1..(n - 1) : IsDirective(ls[k]) => k <= cut
  BY <1>2
<1> HIDE DEF cut
<1>5. ASSUME NEW k \in (cut + 1)..(n - 1)
      PROVE  k \in 1..(n - 1) /\ \A j \in k..(n - 1) : ~IsDirective(ls[j])
  <2>1. \A j \in k..(n - 1) : j \in 1..(n - 1) /\ ~(j <= cut)
    BY <1>3
  <2> QED
    BY <1>3, <1>4, <2>1
<1>6. ASSUME NEW k \in 1..(n - 1), \A j \in k..(n - 1) : ~IsDirective(ls[j])
      PROVE  k \in (cut + 1)..(n - 1)
  <2>1. cut = 0 \/ cut \notin k..(n - 1)
    BY <1>3, <1>6
  <2> QED
    BY <1>3, <2>1
<1>7. {k \in (cut + 1)..(n - 1) : k \in P} = Fresh(ls, P, n)
  BY <1>5, <1>6 DEF Fresh
<1> QED
  BY <1>7 DEF cut

\* The includes that the lists of the file took.
Taken ==
  {k \in 1..(line - 1) :
     IsInclude(lines[k]) /\ ~LeftAlone(k) /\ ~Reported(k, <<"build", "include">>)}

LEMMA BeforeIsFresh ==
  ASSUME line \in Nat \ {0}, NEW n \in 1..line
  PROVE  SectionBefore(n) = Fresh(lines, Taken, n)
<1>1. PICK cut : cut = Max({0} \cup {k \in 1..(n - 1) : IsDirective(lines[k])})
  OBVIOUS
<1>2. {k \in (cut + 1)..(n - 1) : k \in Taken} = Fresh(lines, Taken, n)
  BY <1>1, CutOf
<1>3. cut \in Nat
  <2> DEFINE D == {0} \cup {k \in 1..(n - 1) : IsDirective(lines[k])}
  <2>1. n - 1 \in Nat /\ D \in SUBSET (0..(n - 1)) /\ D # {}
    OBVIOUS
  <2> HIDE DEF D
  <2>2. Max(D) \in D
    BY <2>1, GreatestOf
  <2> QED
    BY <1>1, <2>1, <2>2 DEF D
<1>4. \A k \in (cut + 1)..(n - 1) : k \in 1..(line - 1)
  BY <1>3
<1>5. SectionBefore(n) = {k \in (cut + 1)..(n - 1) :
                            IsInclude(lines[k]) /\ ~LeftAlone(k) /\ ~Reported(k, <<"build", "include">>)}
  BY <1>1 DEF SectionBefore
<1> QED
  BY <1>2, <1>4, <1>5 DEF Taken

\* What the guide says of an include, and what CheckIncludeLine does.
GuideOf(n) ==
  Reported(n, <<"build", "include_order">>) <=>
    /\ TypeAt(n) \in {"c_sys", "cpp_sys"} /\ \E k \in SectionBefore(n) : TooEarly(k, n)
    /\ ~LeftAlone(n) /\ ~Reported(n, <<"build", "include">>)


GuideFollows ==
  line \in Nat \ {0} =>
    \A n \in 1..line :
      (TypeAt(n) \in {"c_sys", "cpp_sys"} /\ \E k \in SectionBefore(n) : TooEarly(k, n))
        <=> Misplaced(Fit(file, lines, Taken, n), TypeAt(n))

LEMMA GuideIs == GuideFollows
<1> SUFFICES ASSUME line \in Nat \ {0}, NEW n \in 1..line
    PROVE  (TypeAt(n) \in {"c_sys", "cpp_sys"} /\ \E k \in SectionBefore(n) : TooEarly(k, n))
             <=> Misplaced(Fit(file, lines, Taken, n), TypeAt(n))
  BY DEF GuideFollows
<1>1. \A m \in 1..line : SectionBefore(m) = Fresh(lines, Taken, m)
  BY BeforeIsFresh
<1>2. \A k \in Fresh(lines, Taken, n) : k \in 1..line
  BY DEF Fresh
<1>3. \A k : TypeAt(k) = TypeOf(file, lines, k)
  BY DEF TypeAt, TypeOf
<1>4. TypeAt(n) \in Kinds
  BY ClassifyKind DEF TypeAt
<1>5. (\E k \in SectionBefore(n) : TooEarly(k, n))
        <=> \/ LateIn(file, lines, Taken, n)
            \/ TypeAt(n) = "c_sys" /\ OfType(file, lines, Taken, n, "cpp_sys")
  BY <1>1, <1>2, <1>3 DEF TooEarly, LateIn, OfType
<1> QED
  BY <1>4, <1>5, MisplacedIs


LEMMA GuideIsNext == GuideFollows'
  BY GuideIs, PTL

-----------------------------------------------------------------------------
(* The include lists, line by line.                                        *)

\* The lists hold what they should, unless inline assembly has hidden a line from them.
Kept ==
  phase = "lines" =>
    \/ /\ IncOf(inc) /\ Whole(inc.lists)
       /\ DepthOf(lines, line - 1) >= 0 => KeptIn(file, options, inc.lists, lines, line - 1)
    \/ DirectiveInAsm
SectionFits ==
  phase = "lines" => inc.section = Fit(file, lines, Taken, line) \/ DirectiveInAsm

IncludeInv ==
  PrintInv /\ Following /\ Raised /\ Kept /\ SectionFits /\ OrderFollowsGuide

\* A line of the file.
LEMMA LineKeeps ==
  ASSUME IncludeInv, ProcessLine
  PROVE  Following' /\ Raised' /\ Kept' /\ SectionFits' /\ OrderFollowsGuide'
<1> DEFINE h == Headers[lines[line][1]]
           r == CheckIncludeLine(inc, file, options, lines, line)
           T == Taken
           U == Taken'
<1>1. AsGiven /\ Remaining /\ Prepared /\ Following /\ Raised
  BY DEF IncludeInv, PrintInv
<1>2. /\ phase = "lines" /\ line \in 1..Len(lines) /\ Len(lines) \in Nat /\ line' = line + 1
      /\ phase' = phase /\ todo' = todo /\ lines' = lines /\ options' = options
      /\ nest' = NestOf(lines, line) /\ Raised'
  BY <1>1, LineFacts
<1>3. file' = file /\ line' - 1 = line /\ line \in Nat \ {0} /\ line' \in Nat \ {0}
  BY <1>2 DEF file
<1>4. Following'
  BY <1>1, <1>2, <1>3 DEF Following
<1>5. CASE DirectiveInAsm'
  BY <1>2, <1>4, <1>5 DEF Kept, SectionFits, OrderFollowsGuide
<1>6. CASE ~DirectiveInAsm'
  <2>1. /\ ~DirectiveInAsm
        /\ inc' = IF IsInclude(lines[line]) THEN r.inc
                  ELSE IF IsDirective(lines[line]) THEN ResetSection(inc, lines[line]) ELSE inc
        /\ \A k : k # line => (Reported(k, Doubled)' <=> Reported(k, Doubled))
        /\ IsInclude(lines[line]) => \A k : k = line =>
             /\ Reported(k, Doubled)' <=> Raises(r.errors, Doubled)
             /\ Reported(k, Disordered)' <=> Raises(r.errors, Disordered)
    <3>1. Doubled \in Included /\ Disordered \in Included
      BY DEF Doubled, Disordered, Included
    <3> QED
      BY <1>1, <1>6, <3>1, LineFacts
  <2>2. /\ IncOf(inc) /\ Whole(inc.lists) /\ inc.section = Fit(file, lines, T, line)
        /\ DepthOf(lines, line - 1) >= 0 => KeptIn(file, options, inc.lists, lines, line - 1)
    BY <1>2, <2>1 DEF IncludeInv, Kept, SectionFits
  <2>3. InOrder(inc.section)
    BY <2>2 DEF Fit, InOrder
  <2>4. lines \in Seq(Range(lines))
    BY <1>1, <1>2, LinesTyped
  <2>5. IncOf(inc') /\ Whole(inc'.lists) /\ (DepthOf(lines, line) >= 0 => KeptIn(file, options, inc'.lists, lines, line))
    BY <1>2, <2>1, <2>2, <2>3, <2>4, KeptNext
  <2>6. Kept'
    BY <1>2, <1>3, <2>5 DEF Kept
  <2>7. IsInclude(lines[line]) =>
          /\ Raises(r.errors, Doubled) <=> Refused(inc, file, options, h)
          /\ Raises(r.errors, Disordered)
               <=> ~Refused(inc, file, options, h) /\ ~Alone(file, options, h)
                   /\ Misplaced(inc.section, TypeOf(file, lines, line))
          /\ Refused(inc, file, options, h) \/ Alone(file, options, h) => r.inc = inc
          /\ ~(Refused(inc, file, options, h) \/ Alone(file, options, h)) =>
               r.inc.section = NextSection(inc.section, TypeOf(file, lines, line))
    BY <2>2, <2>3, IncludeLine DEF TypeOf
  <2>8. \A k : LeftAlone(k) <=> Alone(file, options, Headers[lines[k][1]])
    BY DEF LeftAlone, Alone
  <2>9. \A k : LeftAlone(k)' <=> LeftAlone(k)
    BY <1>2, <1>3 DEF LeftAlone
  <2>10. \A k : k \in U <=> k \in 1..line /\ IsInclude(lines[k]) /\ ~LeftAlone(k) /\ ~Reported(k, Doubled)'
    BY <1>2, <1>3, <2>9 DEF Taken, Doubled
  <2>11. \A k : k \in T <=> /\ k \in 1..(line - 1) /\ IsInclude(lines[k]) /\ ~LeftAlone(k)
                            /\ ~Reported(k, Doubled)
    BY DEF Taken, Doubled
  <2>12. SameBefore(T, U, line)
    <3>1. \A k \in 1..(line - 1) : k \in 1..line /\ k # line
      BY <1>3
    <3> HIDE DEF T, U
    <3> QED
      BY <2>1, <2>10, <2>11, <3>1 DEF SameBefore
  <2>13. line \in U <=> IsInclude(lines[line]) /\ ~Refused(inc, file, options, h) /\ ~Alone(file, options, h)
    <3>1. \A k : k = line => (k \in U <=> /\ IsInclude(lines[line])
                                          /\ ~Refused(inc, file, options, h) /\ ~Alone(file, options, h))
      <4>1. line \in 1..line
        BY <1>3
      <4> HIDE DEF U, h, r
      <4> QED
        BY <2>1, <2>7, <2>8, <2>10, <4>1 DEF h
    <3> HIDE DEF U
    <3> QED
      BY <3>1
  <2>14. line \in U => ~IsDirective(lines[line])
    BY <2>13, IncludeIsNone
  <2> HIDE DEF T, U
  <2>15. Fit(file, lines, U, line + 1)
           = IF IsDirective(lines[line]) THEN "initial"
             ELSE IF line \in U THEN NextSection(Fit(file, lines, T, line), TypeOf(file, lines, line))
             ELSE Fit(file, lines, T, line)
    <3>1. PICK f, ls, a, b, m : f = file /\ ls = lines /\ a = T /\ b = U /\ m = line + 1
      OBVIOUS
    <3>2. PICK n \in Nat \ {0} : n = line
      BY <1>3
    <3>3. SameBefore(a, b, n)
      BY <2>12, <3>1, <3>2
    <3>4. n \in b => ~IsDirective(ls[n])
      BY <2>14, <3>1, <3>2
    <3>5. m = n + 1
      BY <3>1, <3>2
    <3>6. Fit(f, ls, b, m)
            = IF IsDirective(ls[n]) THEN "initial"
              ELSE IF n \in b THEN NextSection(Fit(f, ls, a, n), TypeOf(f, ls, n))
              ELSE Fit(f, ls, a, n)
      BY <3>3, <3>4, <3>5, FitNext
    <3> QED
      BY <3>1, <3>2, <3>6
  <2>16. inc'.section = Fit(file, lines, U, line + 1)
    <3>1. CASE IsInclude(lines[line])
      <4>1. ~IsDirective(lines[line]) /\ inc' = r.inc
        BY <2>1, <3>1, IncludeIsNone
      <4> HIDE DEF r, h
      <4> QED
        BY <2>2, <2>7, <2>13, <2>15, <3>1, <4>1
    <3>2. CASE ~IsInclude(lines[line]) /\ IsDirective(lines[line])
      <4>1. inc' = ResetSection(inc, lines[line])
        BY <2>1, <3>2
      <4>2. inc'.section = "initial"
        BY <4>1 DEF ResetSection
      <4> QED
        BY <2>15, <3>2, <4>2
    <3>3. CASE ~IsInclude(lines[line]) /\ ~IsDirective(lines[line])
      BY <2>1, <2>2, <2>13, <2>15, <3>3
    <3> QED
      BY <3>1, <3>2, <3>3
  <2>17. SectionFits'
    BY <1>2, <1>3, <2>16 DEF SectionFits, U
  <2>18. OrderFollowsGuide'
    <3> SUFFICES ASSUME IsInclude(lines[line]), NEW n, n = line
                 PROVE  Reported(n, Disordered)' <=>
                          /\ /\ TypeAt(n)' \in {"c_sys", "cpp_sys"}
                             /\ \E k \in SectionBefore(n)' : TooEarly(k, n)'
                          /\ ~LeftAlone(n)' /\ ~Reported(n, Doubled)'
      BY <1>2, <1>3 DEF OrderFollowsGuide, Disordered, Doubled
    <3>1. n \in 1..line' /\ n \in 1..line
      BY <1>2, <1>3
    <3>2. (TypeAt(n)' \in {"c_sys", "cpp_sys"} /\ \E k \in SectionBefore(n)' : TooEarly(k, n)')
            <=> Misplaced(Fit(file, lines, U, n), TypeAt(n)')
      BY <1>2, <1>3, <3>1, GuideIsNext DEF GuideFollows, U
    <3>3. TypeAt(n)' = TypeOf(file, lines, line)
      BY <1>2, <1>3 DEF TypeAt, TypeOf
    <3>4. Fit(file, lines, U, n) = Fit(file, lines, T, line)
      <4>3. PICK a, b : a = T /\ b = U
        OBVIOUS
      <4>1. PICK m \in Nat \ {0} : m = line
        BY <1>3
      <4>2. Fit(file, lines, b, m) = Fit(file, lines, a, m)
        BY <2>12, <4>1, <4>3, FitSame
      <4> QED
        BY <4>1, <4>2, <4>3
    <3> QED
      BY <2>1, <2>2, <2>7, <2>8, <2>9, <3>2, <3>3, <3>4
  <2> QED
    BY <1>2, <1>4, <2>6, <2>17, <2>18
<1> QED
  BY <1>5, <1>6

LEMMA ElidedSeq ==
  ASSUME NEW ls \in Seq(Seq(STRING))
  PROVE  Elided(ls) \in Seq(Range(Elided(ls)))
<1>1. DOMAIN Elided(ls) = 1..Len(ls) /\ Len(ls) \in Nat
  BY ElidedLines
<1>2. Elided(ls) = [i \in 1..Len(ls) |-> Elided(ls)[i]]
  BY <1>1 DEF Elided
<1>3. \A i \in 1..Len(ls) : Elided(ls)[i] \in Range(Elided(ls))
  BY <1>1 DEF Range
<1> QED
  BY <1>1, <1>2, <1>3

\* Before the first line nothing is included, and no error about an include is reported.
LEMMA BeginKeeps ==
  ASSUME IncludeInv, BeginFile
  PROVE  Following' /\ Raised' /\ Kept' /\ SectionFits' /\ OrderFollowsGuide'
<1> DEFINE cfg   == ReadConfigs(file.configs, options)
           fs    == filters \o cfg.filters
           open  == CommentRanges(file.lines).open
           clean == RemoveMultiLineComments(file.lines)
           guard == CheckForHeaderGuard(file, cfg.options, CleanseRawStrings(clean))
           nolint == ResetNolintSuppressions.suppressed
                       \cup UNION {NolintOf(clean[n], n) : n \in guard.parsed \ {0}}
           global == ResetNolintSuppressions.everywhere \cup GlobalSuppressions(file.lines)
           comment == IF open = 0 THEN {}
                      ELSE {Mistake(open + 1, <<"readability", "multiline_comment">>, 5)}
           malformed == UNION {NolintErrors(clean[n], n) : n \in guard.parsed \ {0}}
           mistakes == comment \cup guard.errors \cup malformed
<1>1. /\ phase = "next" /\ todo # <<>> /\ phase' = "lines" /\ line' = 1
      /\ todo' = todo /\ lines' = Elided(file.lines) /\ nest' = NoNesting /\ inc' = NoIncludes
      /\ Report(mistakes, nolint, global, fs, TRUE)
  BY DEF BeginFile
<1>2. file.lines \in Seq(Seq(STRING)) /\ file' = file
  BY <1>1, InHand DEF IncludeInv, PrintInv, file
<1>3. \A m \in mistakes : m.category \notin Included
  <2>1. /\ \A m \in comment : m.category = <<"readability", "multiline_comment">>
        /\ \A m \in guard.errors : m.category = <<"build", "header_guard">>
        /\ \A m \in malformed : m.category[1] \in {"readability", "whitespace"}
    <3>1. DOMAIN CleanseRawStrings(clean) = 1..Len(file.lines) /\ Len(file.lines) \in Nat
      BY <1>2, CleanLines, RawLines
    <3>2. \A m \in guard.errors : m.category = <<"build", "header_guard">>
      BY <3>1, GuardLines
    <3>3. \A n : OfLine(NolintErrors(clean[n], n), n)
      BY NolintErrorsOfLine
    <3>4. ASSUME NEW m \in malformed
          PROVE  m.category[1] \in {"readability", "whitespace"}
      <4>1. PICK n : m \in NolintErrors(clean[n], n)
        BY <3>4
      <4> QED
        BY <3>3, <4>1 DEF OfLine
    <3>5. \A m \in comment : m.category = <<"readability", "multiline_comment">>
      BY DEF Mistake
    <3> QED
      BY <3>2, <3>4, <3>5
  <2>2. \A c \in Included : c[1] = "build" /\ c[2] \in {"include", "include_order"}
    BY DEF Included
  <2>3. \A m \in mistakes : m \in comment \/ m \in guard.errors \/ m \in malformed
    OBVIOUS
  <2> HIDE DEF mistakes, comment, guard, malformed
  <2> QED
    BY <2>1, <2>2, <2>3
<1>4. \A r \in reports' : \/ r \in reports
                          \/ r.left = Len(todo) /\ r.error.category \notin Included
  <2> HIDE DEF mistakes, nolint, global, fs
  <2>1. \A r \in reports' : r \in reports \/ (r.left = Len(todo) /\ r.error \in mistakes)
    BY <1>1 DEF Report
  <2> QED
    BY <1>3, <2>1
<1> HIDE DEF mistakes, nolint, global, fs
<1>5. Len(todo) \in Nat
  <2>1. todo \in Seq(Range(job.files))
    BY <1>1 DEF IncludeInv, PrintInv, Remaining
  <2> QED
    BY <2>1
<1>6. \A r \in reports : r.left \in Nat /\ r.left > Len(todo)
  BY <1>1 DEF IncludeInv, Raised
<1>7. Raised'
  <2>1. \A r \in reports : r.left # Len(todo) /\ r.left >= Len(todo)
    BY <1>5, <1>6
  <2> QED
    BY <1>1, <1>4, <1>5, <1>6, <2>1 DEF Raised
<1>8. Following'
  BY <1>1, <1>2, NestNext DEF Following
<1>9. Kept'
  <2>1. lines' \in Seq(Range(lines'))
    BY <1>1, <1>2, ElidedSeq
  <2>2. line' - 1 = 0 /\ DepthOf(lines', 0) = 0
    BY <1>1, <2>1, DepthNext
  <2>3. IncOf(inc') /\ inc'.lists = <<{}>>
    BY <1>1 DEF IncOf, NoIncludes
  <2>4. Whole(inc'.lists) /\ Len(inc'.lists) = 1
    <3>1. PICK e : e = {}
      OBVIOUS
    <3>2. <<e>> \in Seq({e}) /\ <<e>> # <<>> /\ Len(<<e>>) = 1
      OBVIOUS
    <3> QED
      BY <2>3, <3>1, <3>2 DEF Whole
  <2>5. KeptIn(file, options', inc'.lists, lines', 0)
    BY <2>2, <2>4 DEF KeptIn
  <2> QED
    BY <1>2, <2>2, <2>3, <2>4, <2>5 DEF Kept
<1>10. SectionFits'
  <2>1. \A T : Fresh(lines', T, 1) = {}
    BY DEF Fresh
  <2>2. inc'.section = "initial"
    BY <1>1 DEF NoIncludes
  <2>3. \A T : Fit(file, lines', T, 1) = "initial"
    BY <2>1 DEF Fit, LateIn, OfType
  <2>4. Fit(file', lines', Taken', line') = "initial"
    BY <1>1, <1>2, <2>3
  <2> QED
    BY <2>2, <2>4 DEF SectionFits
<1>11. OrderFollowsGuide'
  BY <1>1 DEF OrderFollowsGuide
<1> QED
  BY <1>7, <1>8, <1>9, <1>10, <1>11

LEMMA InitIncludeInv == Init => IncludeInv
<1> SUFFICES ASSUME Init PROVE IncludeInv
  OBVIOUS
<1>1. PrintInv
  BY InitPrintInv
<1>2. phase = "start" /\ reports = {}
  BY DEF Init
<1> QED
  BY <1>1, <1>2 DEF IncludeInv, Following, Raised, Kept, SectionFits, OrderFollowsGuide

LEMMA NextIncludeInv == IncludeInv /\ [Next]_vars => IncludeInv'
<1> SUFFICES ASSUME IncludeInv, [Next]_vars
             PROVE  IncludeInv'
  OBVIOUS
<1>1. PrintInv'
  BY NextPrintInv DEF IncludeInv
<1>2. phase' # "lines" => Following' /\ Kept' /\ SectionFits' /\ OrderFollowsGuide'
  BY DEF Following, Kept, SectionFits, OrderFollowsGuide
<1>3. phase' = "exited" => IncludeInv'
  BY <1>1, <1>2 DEF IncludeInv, Raised
<1>4. phase \in {"next", "lines"} /\ todo # <<>> => Len(todo) \in Nat /\ Len(Tail(todo)) = Len(todo) - 1
  <2> SUFFICES ASSUME phase \in {"next", "lines"}, todo # <<>>
               PROVE  Len(todo) \in Nat /\ Len(Tail(todo)) = Len(todo) - 1
    OBVIOUS
  <2>1. PICK t \in Seq(Range(job.files)) : t = todo /\ t # <<>>
    BY DEF IncludeInv, PrintInv, Remaining
  <2>2. Len(t) \in Nat /\ Len(Tail(t)) = Len(t) - 1
    BY <2>1
  <2> QED
    BY <2>1, <2>2
<1>5. CASE ParseArguments
  <2>1. reports = {} /\ reports' = reports /\ phase' \in {"next", "exited"}
    BY <1>5 DEF ParseArguments, Crash, IncludeInv, Raised
  <2> QED
    BY <1>1, <1>2, <2>1 DEF IncludeInv, Raised
<1>6. CASE SkipFile
  <2>1. phase = "next" /\ todo # <<>> /\ todo' = Tail(todo) /\ reports' = reports /\ phase' = phase
    BY <1>6 DEF SkipFile
  <2>2. \A x \in reports' : x.left \in Nat /\ x.left > Len(todo')
    BY <1>4, <2>1 DEF IncludeInv, Raised
  <2> QED
    BY <1>1, <1>2, <2>1, <2>2 DEF IncludeInv, Raised
<1>7. CASE BadConfig \/ Exit
  BY <1>3, <1>7 DEF BadConfig, Exit, Crash
<1>8. CASE BeginFile
  BY <1>1, <1>8, BeginKeeps DEF IncludeInv
<1>9. CASE ProcessLine
  BY <1>1, <1>9, LineKeeps DEF IncludeInv
<1>10. CASE FinishFile
  <2>1. /\ phase = "lines" /\ todo' = Tail(todo) /\ phase' = "next"
        /\ Report(BlockErrors \cup IncludeWhatYouUse(inc, file, options, lines)
                    \cup HeaderFileIncluded(inc, file, options) \cup EndingErrors,
                  suppressed, everywhere, filters, FALSE)
    BY <1>10 DEF FinishFile
  <2>2. todo # <<>>
    BY <2>1 DEF IncludeInv, PrintInv, Prepared
  <2>3. \A x \in reports' : x \in reports \/ x.left = Len(todo)
    BY <2>1 DEF Report
  <2>4. \A x \in reports : x.left \in Nat /\ x.left >= Len(todo)
    BY <2>1 DEF IncludeInv, Raised
  <2>5. \A x \in reports' : x.left \in Nat /\ x.left > Len(todo')
    BY <1>4, <2>1, <2>2, <2>3, <2>4
  <2> QED
    BY <1>1, <1>2, <2>1, <2>5 DEF IncludeInv, Raised
<1>11. CASE UNCHANGED vars
  <2>1. UNCHANGED <<reports, phase, todo, inc, nest, lines, line, options>>
    BY <1>11 DEF vars, settings, text, scans
  <2>2. file' = file /\ (DirectiveInAsm' <=> DirectiveInAsm) /\ Taken' = Taken
    BY <2>1 DEF file, DirectiveInAsm, Taken, LeftAlone, Reported
  <2>3. Following' /\ Raised' /\ Kept' /\ SectionFits'
    BY <2>1, <2>2 DEF IncludeInv, Following, Raised, Kept, SectionFits
  <2>4. OrderFollowsGuide'
    <3>1. \A k : TypeAt(k)' = TypeAt(k) /\ (LeftAlone(k)' <=> LeftAlone(k))
      BY <2>1, <2>2 DEF TypeAt, LeftAlone
    <3>2. \A k, c : Reported(k, c)' <=> Reported(k, c)
      BY <2>1 DEF Reported
    <3>3. \A k : SectionBefore(k)' = SectionBefore(k)
      BY <2>1, <3>1, <3>2 DEF SectionBefore
    <3>4. \A k, n : TooEarly(k, n)' <=> TooEarly(k, n)
      BY <3>1, <3>3 DEF TooEarly
    <3> QED
      BY <2>1, <2>2, <3>1, <3>2, <3>3, <3>4 DEF IncludeInv, OrderFollowsGuide
  <2> QED
    BY <1>1, <2>3, <2>4 DEF IncludeInv
<1> QED
  BY <1>5, <1>6, <1>7, <1>8, <1>9, <1>10, <1>11 DEF Next

\* cpplint.py:893-909.  A header included outside of all conditionals is not forgotten in
\* any of the branches that follow, for all files.
THEOREM TopLevelIncludesRemembered == Spec => []TopLevelRemembered
<1>1. IncludeInv => TopLevelRemembered
  <2> SUFFICES ASSUME IncludeInv, phase = "lines", IfDepth(line - 1) >= 0, ~DirectiveInAsm,
                      NEW n \in 1..(line - 1), IsInclude(lines[n]), IfDepth(n) = 0
               PROVE  RememberedFrom(n)
    BY DEF TopLevelRemembered
  <2>1. /\ Whole(inc.lists) /\ DepthOf(lines, line - 1) >= 0
        /\ KeptIn(file, options, inc.lists, lines, line - 1) /\ DepthOf(lines, n) = 0
    BY DEF IncludeInv, Kept, IfDepth, DepthOf
  <2>2. PICK X : inc.lists \in Seq(X)
    BY <2>1 DEF Whole
  <2>3. lines \in Seq(Range(lines)) /\ line \in 1..(Len(lines) + 1) /\ Len(lines) \in Nat
    BY LinesTyped DEF IncludeInv, PrintInv
  <2>4. line - 1 \in Nat /\ line - 1 <= Len(lines)
    BY <2>3
  <2>5. DepthOf(lines, line - 1) \in Int
    BY <2>3, <2>4, DepthInt
  <2> DEFINE outer == Len(inc.lists) - DepthOf(lines, line - 1)
             h == Headers[lines[n][1]]
  <2>6. \A i \in 1..outer : i \in 1..Len(inc.lists)
    BY <2>1, <2>2, <2>5
  <2>7. Alone(file, options, h) \/ IsForeignSource(file, options, h) \/ Holds(inc.lists, outer, h.name)
    BY <2>1 DEF KeptIn
  <2>8. Holds(inc.lists, outer, h.name) => Holds(inc.lists, Len(inc.lists), h.name)
    BY <2>6 DEF Holds
  <2> QED
    BY <2>1, <2>7, <2>8, FoundHeld DEF RememberedFrom, LeftAlone, Alone
<1> QED
  BY InitIncludeInv, NextIncludeInv, <1>1, PTL DEF Spec

\* cpplint.py:4839-4844.  A system header is reported exactly when the guide has it come
\* before one that its section already holds, whatever the file includes.
THEOREM OrderIsTheGuides == Spec => []OrderFollowsGuide
<1>1. IncludeInv => OrderFollowsGuide
  BY DEF IncludeInv
<1> QED
  BY InitIncludeInv, NextIncludeInv, <1>1, PTL DEF Spec

-----------------------------------------------------------------------------
(* The tokens of the cleansed lines.                                     *)

\* What the tokens of a cleansed line are.
Coded == Tokens \cup {Quote}

\* A piece of a sequence.
LEMMA PieceOf ==
  ASSUME NEW E, NEW s \in Seq(E), NEW m \in Nat \ {0}, NEW n \in Int, n <= Len(s)
  PROVE  SubSeq(s, m, n) \in Seq(E)
<1>1. \A i \in m..n : s[i] \in E
  OBVIOUS
<1> QED
  BY <1>1, SubSeqProperties

LEMMA TailOf ==
  ASSUME NEW E, NEW s \in Seq(E), NEW m \in Nat \ {0}
  PROVE  From(s, m) \in Seq(E)
<1>1. Len(s) \in Int /\ Len(s) <= Len(s)
  OBVIOUS
<1> QED
  BY <1>1, PieceOf DEF From

\* Where str.find looks.
LEMMA FindIs ==
  ASSUME NEW E, NEW s \in Seq(E), NEW p, NEW m \in Nat \ {0}, Len(p) = m, NEW from \in Nat \ {0}
  PROVE  Find(s, p, from) = 0 \/ Find(s, p, from) \in from..(Len(s) + 1 - m)
<1>1. PICK at : at = {i \in from..(Len(s) + 1 - Len(p)) : SubSeq(s, i, i + Len(p) - 1) = p}
  OBVIOUS
<1>2. at \in SUBSET (from..(Len(s) + 1 - m)) /\ Len(s) \in Nat
  BY <1>1
<1>3. at \in SUBSET Nat
  BY <1>2
<1>4. CASE at = {}
  BY <1>1, <1>4 DEF Find
<1>5. CASE at # {}
  <2>1. Min(at) \in at
    BY <1>3, <1>5, LeastOf
  <2>2. Find(s, p, from) = Min(at)
    BY <1>1, <1>5 DEF Find
  <2> QED
    BY <1>2, <2>1, <2>2
<1> QED
  BY <1>4, <1>5

LEMMA CutTyped ==
  ASSUME NEW s \in Seq(Coded), NEW b \in 1..Len(s)
  PROVE  CutRawString(s, b).text \in Seq(Coded)
<1>1. Len(s) \in Nat /\ b \in Nat \ {0} /\ b + 3 \in Nat \ {0} /\ 1 \in Nat \ {0} /\ b - 1 \in Int /\ b - 1 <= Len(s)
  OBVIOUS
<1>2. PICK tail \in Seq(Coded) : tail = From(s, b + 3)
  BY <1>1, TailOf
<1>3. PICK e : e = Find(tail, RawEnd, 1)
  OBVIOUS
<1>4. Len(RawEnd) = 2
  BY DEF RawEnd
<1>5. e = 0 \/ e \in 1..(Len(tail) + 1 - 2)
  <2>1. 2 \in Nat \ {0} /\ 1 \in Nat \ {0}
    OBVIOUS
  <2> QED
    BY <1>2, <1>3, <1>4, <2>1, FindIs
<1>6. Len(tail) \in Nat
  BY <1>2
<1>7. PICK front \in Seq(Coded) : front = SubSeq(s, 1, b - 1)
  BY <1>1, PieceOf
<1>8. PICK head \in Seq(Coded) : head = Append(Append(SubSeq(s, 1, b - 1), Quote), Quote)
  <2>1. PICK q \in Coded : q = Quote
    BY DEF Coded
  <2>2. Append(Append(front, q), q) \in Seq(Coded)
    OBVIOUS
  <2> QED
    BY <1>7, <2>1, <2>2
<1>9. CASE e > 0
  <2>1. e + 2 \in Nat \ {0}
    BY <1>5, <1>6, <1>9
  <2>2. PICK rest \in Seq(Coded) : rest = From(tail, e + 2)
    BY <1>2, <2>1, TailOf
  <2>3. head \o rest \in Seq(Coded)
    OBVIOUS
  <2>4. CutRawString(s, b).text = head \o rest
    BY <1>2, <1>3, <1>8, <1>9, <2>2 DEF CutRawString
  <2> QED
    BY <2>3, <2>4
<1>10. CASE ~(e > 0)
  BY <1>2, <1>3, <1>8, <1>10 DEF CutRawString
<1> QED
  BY <1>9, <1>10

LEMMA CutNextTyped ==
  ASSUME NEW st, NEW turn, st.text \in Seq(Coded)
  PROVE  CutNextRawString(st, turn).text \in Seq(Coded)
<1>1. PICK s \in Seq(Coded) : s = st.text
  OBVIOUS
<1>2. PICK b : b = Find(s, RawBegin, 1)
  OBVIOUS
<1>3. Len(RawBegin) = 3 /\ 3 \in Nat \ {0} /\ 1 \in Nat \ {0}
  BY DEF RawBegin
<1>4. b = 0 \/ b \in 1..(Len(s) + 1 - 3)
  BY <1>2, <1>3, FindIs
<1>5. Len(s) \in Nat
  OBVIOUS
<1>6. CutNextRawString(st, turn) = st \/ (b # 0 /\ CutNextRawString(st, turn) = CutRawString(s, b))
  BY <1>1, <1>2 DEF CutNextRawString
<1>7. b # 0 => b \in 1..Len(s)
  BY <1>4, <1>5
<1> QED
  BY <1>1, <1>6, <1>7, CutTyped

\* The lines stay lines of tokens.
LEMMA RawLineTyped ==
  ASSUME NEW st, NEW s \in Seq(Coded)
  PROVE  \E x \in Seq(Coded) : CleanseRawLine(st, s).lines = Append(st.lines, x)
<1>1. Len(s) \in Nat
  OBVIOUS
<1> PICK n \in Nat : n = Len(s)
  BY <1>1
<1>2. PICK turns : turns = [i \in 1..Len(s) |-> i]
  OBVIOUS
<1>3. DOMAIN turns = 1..n
  BY <1>2
<1>4. PICK e : e = Find(s, RawEnd, 1)
  OBVIOUS
<1>5. e = 0 \/ e \in 1..(Len(s) + 1 - 2)
  <2>1. 2 \in Nat \ {0} /\ 1 \in Nat \ {0} /\ Len(RawEnd) = 2
    BY DEF RawEnd
  <2> QED
    BY <1>4, <2>1, FindIs
<1>6. PICK empty \in Seq(Coded) : empty = <<Quote, Quote>>
  <2>1. PICK q \in Coded : q = Quote
    BY DEF Coded
  <2>2. <<q, q>> \in Seq(Coded)
    OBVIOUS
  <2> QED
    BY <2>1, <2>2
<1>7. PICK start : start = IF st.open /\ e > 0
                           THEN [text |-> <<Quote, Quote>> \o From(s, e + 2), open |-> FALSE]
                           ELSE IF st.open THEN [text |-> <<Quote, Quote>>, open |-> TRUE]
                           ELSE [text |-> s, open |-> FALSE]
  OBVIOUS
<1>8. start.text \in Seq(Coded)
  <2>1. CASE st.open /\ e > 0
    <3>1. e + 2 \in Nat \ {0}
      BY <1>1, <1>5, <2>1
    <3>2. PICK rest \in Seq(Coded) : rest = From(s, e + 2)
      BY <3>1, TailOf
    <3>3. empty \o rest \in Seq(Coded)
      OBVIOUS
    <3> QED
      BY <1>6, <1>7, <2>1, <3>2, <3>3
  <2>2. CASE ~(st.open /\ e > 0)
    BY <1>6, <1>7, <2>2
  <2> QED
    BY <2>1, <2>2
<1>9. PICK f : /\ Follows(<<"cut">>, start, turns, n, f)
               /\ f[n] = FoldLeft(CutNextRawString, start, turns)
  BY <1>3, CutFold
<1> DEFINE S == {k \in Nat : k <= n => f[k].text \in Seq(Coded)}
<1>10. 0 \in S
  BY <1>8, <1>9 DEF Follows
<1>11. ASSUME NEW k \in Nat, k \in S PROVE k + 1 \in S
  <2> SUFFICES ASSUME k + 1 <= n PROVE f[k + 1].text \in Seq(Coded)
    OBVIOUS
  <2>1. k + 1 \in 1..n /\ (k + 1) - 1 = k /\ f[k].text \in Seq(Coded)
    BY <1>11
  <2>2. f[k + 1] = CutNextRawString(f[k], turns[k + 1])
    BY <1>9, <2>1 DEF Follows, StepOf
  <2> QED
    BY <2>1, <2>2, CutNextTyped
<1> HIDE DEF S
<1>12. \A k \in Nat : k \in S
  BY <1>10, <1>11, AllNumbers
<1>13. n \in S
  BY <1>12
<1>14. f[n].text \in Seq(Coded)
  BY <1>13 DEF S
<1>15. CleanseRawLine(st, s).lines = Append(st.lines, f[n].text)
  BY <1>2, <1>4, <1>7, <1>9 DEF CleanseRawLine
<1> QED
  BY <1>14, <1>15

LEMMA RawTyped ==
  ASSUME NEW n \in Nat, NEW s, DOMAIN s = 1..n, \A k \in 1..n : s[k] \in Seq(Coded)
  PROVE  CleanseRawStrings(s) \in Seq(Seq(Coded)) /\ Len(CleanseRawStrings(s)) = n
<1>1. PICK f : /\ Follows(<<"raw">>, [lines |-> <<>>, open |-> FALSE], s, n, f)
               /\ f[n] = FoldLeft(CleanseRawLine, [lines |-> <<>>, open |-> FALSE], s)
  BY RawFold
<1> DEFINE Fits(x, k) == x \in Seq(Seq(Coded)) /\ Len(x) = k
           S == {k \in Nat : k <= n => Fits(f[k].lines, k)}
<1>2. 0 \in S
  <2>1. f[0].lines = <<>>
    BY <1>1 DEF Follows
  <2>2. Fits(<<>>, 0)
    OBVIOUS
  <2> HIDE DEF Fits
  <2> QED
    BY <2>1, <2>2
<1>3. ASSUME NEW k \in Nat, k \in S PROVE k + 1 \in S
  <2> SUFFICES ASSUME k + 1 <= n
               PROVE  Fits(f[k + 1].lines, k + 1)
    OBVIOUS
  <2>1. k + 1 \in 1..n /\ (k + 1) - 1 = k
    OBVIOUS
  <2>2. f[k + 1] = CleanseRawLine(f[k], s[k + 1])
    BY <1>1, <2>1 DEF Follows, StepOf
  <2>3. PICK x \in Seq(Coded) : f[k + 1].lines = Append(f[k].lines, x)
    <3>1. PICK a, b : a = f[k] /\ b = s[k + 1] /\ b \in Seq(Coded)
      BY <2>1
    <3>2. \E x \in Seq(Coded) : CleanseRawLine(a, b).lines = Append(a.lines, x)
      BY <3>1, RawLineTyped
    <3> QED
      BY <2>2, <3>1, <3>2
  <2>4. PICK t \in Seq(Seq(Coded)) : t = f[k].lines /\ Len(t) = k
    BY <1>3, <2>1
  <2>5. Append(t, x) \in Seq(Seq(Coded)) /\ Len(Append(t, x)) = Len(t) + 1
    OBVIOUS
  <2> QED
    BY <2>3, <2>4, <2>5
<1> HIDE DEF S
<1>4. \A k \in Nat : k \in S
  BY <1>2, <1>3, AllNumbers
<1>5. n \in S
  BY <1>4
<1>6. Fits(f[n].lines, n)
  BY <1>5 DEF S
<1>7. CleanseRawStrings(s) = f[n].lines
  BY <1>1 DEF CleanseRawStrings
<1> QED
  BY <1>6, <1>7

\* What the recursion that goes on behind place i of a line is at place i.
Onwards(stop, val, pre, nx, g, i) == IF stop[i] THEN val[i] ELSE pre[i] \o g[nx[i]]

GoesOn(n, stop, nx) == \A i \in 1..n : ~stop[i] => nx[i] \in (i + 1)..n
IsOnwards(n, stop, val, pre, nx, g) == g = [i \in 1..n |-> Onwards(stop, val, pre, nx, g, i)]
Typed(n, stop, val, pre) ==
  \A i \in 1..n : IF stop[i] THEN val[i] \in Seq(Coded) ELSE pre[i] \in Seq(Coded)

\* It is defined at all places, from the last one on.
LEMMA OnwardsExists ==
  ASSUME NEW n \in Nat, NEW stop, NEW val, NEW pre, NEW nx, GoesOn(n, stop, nx)
  PROVE  \E g : IsOnwards(n, stop, val, pre, nx, g)
<1>0. \A i \in 1..n : ~stop[i] => nx[i] \in (i + 1)..n
  BY DEF GoesOn
<1> DEFINE UpTo(k, g) == \A i \in 1..n : i + k > n => g[i] = Onwards(stop, val, pre, nx, g, i)
           S == {k \in Nat : \E g : DOMAIN g = 1..n /\ UpTo(k, g)}
<1>1. 0 \in S
  <2> DEFINE g == [i \in 1..n |-> 0]
  <2>1. DOMAIN g = 1..n /\ UpTo(0, g)
    OBVIOUS
  <2> QED
    BY <2>1
<1>2. ASSUME NEW k \in Nat, k \in S PROVE k + 1 \in S
  <2>1. PICK g : DOMAIN g = 1..n /\ UpTo(k, g)
    BY <1>2
  <2>2. PICK h : h = [i \in 1..n |-> IF i + k > n THEN g[i] ELSE Onwards(stop, val, pre, nx, g, i)]
    OBVIOUS
  <2>3. \A i \in 1..n : i + k > n => h[i] = g[i]
    BY <2>2
  <2>4. ASSUME NEW i \in 1..n, i + (k + 1) > n
        PROVE  h[i] = Onwards(stop, val, pre, nx, h, i)
    <3>1. h[i] = Onwards(stop, val, pre, nx, g, i)
      BY <2>1, <2>2
    <3>2. ~stop[i] => nx[i] \in 1..n /\ nx[i] + k > n
      BY <1>0, <2>4
    <3>3. ~stop[i] => h[nx[i]] = g[nx[i]]
      BY <2>3, <3>2
    <3> QED
      BY <3>1, <3>3 DEF Onwards
  <2>5. DOMAIN h = 1..n
    BY <2>2
  <2>6. UpTo(k + 1, h)
    BY <2>4
  <2> HIDE DEF UpTo
  <2> QED
    BY <2>5, <2>6
<1> HIDE DEF S
<1>3. \A k \in Nat : k \in S
  BY <1>1, <1>2, AllNumbers
<1>4. n \in S
  BY <1>3
<1>5. PICK g : DOMAIN g = 1..n /\ UpTo(n, g)
  BY <1>4 DEF S
<1>6. PICK h : h = [i \in 1..n |-> Onwards(stop, val, pre, nx, g, i)]
  OBVIOUS
<1>7. \A i \in 1..n : h[i] = g[i]
  BY <1>5, <1>6
<1>8. \A i \in 1..n : Onwards(stop, val, pre, nx, g, i) = Onwards(stop, val, pre, nx, h, i)
  BY <1>0, <1>7 DEF Onwards
<1>9. IsOnwards(n, stop, val, pre, nx, h)
  BY <1>6, <1>8 DEF IsOnwards
<1> QED
  BY <1>9

\* And it is a sequence of tokens, when its parts are.
LEMMA OnwardsTyped ==
  ASSUME NEW n \in Nat, NEW stop, NEW val, NEW pre, NEW nx, NEW g,
         GoesOn(n, stop, nx), Typed(n, stop, val, pre), IsOnwards(n, stop, val, pre, nx, g)
  PROVE  \A i \in 1..n : g[i] \in Seq(Coded)
<1> DEFINE S == {k \in Nat : \A i \in 1..n : i + k > n => g[i] \in Seq(Coded)}
<1>1. 0 \in S
  OBVIOUS
<1>2. ASSUME NEW k \in Nat, k \in S PROVE k + 1 \in S
  <2> SUFFICES ASSUME NEW i \in 1..n, i + (k + 1) > n PROVE g[i] \in Seq(Coded)
    OBVIOUS
  <2>1. g[i] = Onwards(stop, val, pre, nx, g, i)
    BY DEF IsOnwards
  <2>2. CASE stop[i]
    BY <2>1, <2>2 DEF Onwards, Typed
  <2>3. CASE ~stop[i]
    <3>1. nx[i] \in 1..n /\ nx[i] + k > n
      BY <2>3 DEF GoesOn
    <3>2. pre[i] \in Seq(Coded)
      BY <2>3 DEF Typed
    <3>3. PICK a, b \in Seq(Coded) : a = pre[i] /\ b = g[nx[i]]
      BY <1>2, <3>1, <3>2
    <3>4. a \o b \in Seq(Coded)
      OBVIOUS
    <3> QED
      BY <2>1, <2>3, <3>3, <3>4 DEF Onwards
  <2> QED
    BY <2>2, <2>3
<1> HIDE DEF S
<1>3. \A k \in Nat : k \in S
  BY <1>1, <1>2, AllNumbers
<1>4. n \in S
  BY <1>3
<1> QED
  BY <1>4 DEF S

LEMMA DropTyped ==
  ASSUME NEW s \in Seq(Coded)
  PROVE  DropClosedComments(s) \in Seq(Coded)
<1> DEFINE O(i) == Find(s, <<"/*">>, i)
           C(i) == IF O(i) = 0 THEN 0 ELSE Find(s, <<"*/">>, O(i) + 1)
           P(g) == g = [i \in 1..(Len(s) + 1) |-> IF C(i) = 0 THEN From(s, i)
                                                 ELSE SubSeq(s, i, O(i) - 1) \o g[C(i) + 1]]
<1>1. DropClosedComments(s) = (CHOOSE g : P(g))[1]
  BY DEF DropClosedComments
<1>2. \A i \in Nat \ {0} : O(i) = 0 \/ O(i) \in i..Len(s)
  <2>1. Len(<<"/*">>) = 1 /\ 1 \in Nat \ {0} /\ Len(s) \in Nat /\ Len(s) + 1 - 1 = Len(s)
    OBVIOUS
  <2> QED
    BY <2>1, FindIs
<1>3. \A i \in Nat \ {0} : C(i) = 0 \/ (O(i) \in i..Len(s) /\ C(i) \in (O(i) + 1)..Len(s))
  <2>1. Len(<<"*/">>) = 1 /\ 1 \in Nat \ {0} /\ Len(s) \in Nat /\ Len(s) + 1 - 1 = Len(s)
    OBVIOUS
  <2> SUFFICES ASSUME NEW i \in Nat \ {0}, C(i) # 0
               PROVE  O(i) \in i..Len(s) /\ C(i) \in (O(i) + 1)..Len(s)
    OBVIOUS
  <2>2. O(i) \in i..Len(s) /\ C(i) = Find(s, <<"*/">>, O(i) + 1)
    BY <1>2
  <2>3. PICK o \in Nat \ {0} : o = O(i) + 1
    BY <2>2
  <2>4. Find(s, <<"*/">>, o) = 0 \/ Find(s, <<"*/">>, o) \in o..(Len(s) + 1 - 1)
    BY <2>1, FindIs
  <2> HIDE DEF O, C
  <2> QED
    BY <2>1, <2>2, <2>3, <2>4
<1> HIDE DEF O, C
<1>4. PICK n \in Nat : n = Len(s) + 1 /\ 1 \in 1..n
  OBVIOUS
<1>5. PICK stop, val, pre, nx : /\ stop = [i \in 1..n |-> C(i) = 0]
                               /\ val = [i \in 1..n |-> From(s, i)]
                               /\ pre = [i \in 1..n |-> SubSeq(s, i, O(i) - 1)]
                               /\ nx = [i \in 1..n |-> C(i) + 1]
  OBVIOUS
<1>6. \A i \in 1..n : (stop[i] <=> C(i) = 0) /\ nx[i] = C(i) + 1 /\ i \in Nat \ {0}
  <2> SUFFICES ASSUME NEW i \in 1..n
               PROVE  (stop[i] <=> C(i) = 0) /\ nx[i] = C(i) + 1 /\ i \in Nat \ {0}
    OBVIOUS
  <2>1. stop[i] = (C(i) = 0)
    BY <1>5
  <2>2. nx[i] = C(i) + 1
    BY <1>5
  <2>3. stop[i] <=> C(i) = 0
    BY <2>1, Zenon
  <2>4. i \in Nat \ {0}
    OBVIOUS
  <2> QED
    BY <2>2, <2>3, <2>4, Zenon
<1>7. Len(s) \in Nat
  OBVIOUS
<1>8. GoesOn(n, stop, nx)
  <2> SUFFICES ASSUME NEW i \in 1..n, ~stop[i] PROVE nx[i] \in (i + 1)..n
    BY DEF GoesOn
  <2>1. C(i) # 0 /\ O(i) \in i..Len(s) /\ C(i) \in (O(i) + 1)..Len(s) /\ nx[i] = C(i) + 1
    BY <1>3, <1>6
  <2> QED
    BY <1>4, <1>7, <2>1
<1>9. \A i \in 1..n : stop[i] => val[i] \in Seq(Coded)
  BY <1>5, TailOf
<1>10. \A i \in 1..n : ~stop[i] => pre[i] \in Seq(Coded)
  <2> SUFFICES ASSUME NEW i \in 1..n, ~stop[i] PROVE SubSeq(s, i, O(i) - 1) \in Seq(Coded)
    BY <1>5
  <2>1. O(i) - 1 \in Int /\ O(i) - 1 <= Len(s) /\ i \in Nat \ {0}
    <3>1. O(i) \in i..Len(s) /\ i \in Nat \ {0}
      BY <1>3, <1>6
    <3> QED
      BY <1>7, <3>1
  <2> QED
    BY <2>1, PieceOf
<1>11. Typed(n, stop, val, pre)
  BY <1>9, <1>10 DEF Typed
<1>12. \A g : P(g) <=> IsOnwards(n, stop, val, pre, nx, g)
  BY <1>4, <1>5 DEF Onwards, IsOnwards
<1> HIDE DEF P
<1>13. PICK g : P(g) /\ g = (CHOOSE h : P(h))
  BY <1>8, <1>12, OnwardsExists
<1>14. IsOnwards(n, stop, val, pre, nx, g)
  BY <1>12, <1>13
<1>15. g[1] \in Seq(Coded)
  BY <1>4, <1>8, <1>11, <1>14, OnwardsTyped
<1> QED
  BY <1>1, <1>13, <1>15

LEMMA CollapseTyped ==
  ASSUME NEW s \in Seq(Coded)
  PROVE  CollapseStrings(s) \in Seq(Coded)
<1> DEFINE O(i) == Find(s, <<Quote>>, i)
           C(i) == IF O(i) = 0 THEN 0 ELSE Find(s, <<Quote>>, O(i) + 1)
           P(g) == g = [i \in 1..(Len(s) + 1) |->
                          IF C(i) = 0 THEN From(s, i)
                          ELSE SubSeq(s, i, O(i) - 1) \o <<Quote, Quote>> \o g[C(i) + 1]]
<1>1. CollapseStrings(s) = (CHOOSE g : P(g))[1]
  BY DEF CollapseStrings
<1>2. \A i \in Nat \ {0} : O(i) = 0 \/ O(i) \in i..Len(s)
  <2>1. Len(<<Quote>>) = 1 /\ 1 \in Nat \ {0} /\ Len(s) \in Nat /\ Len(s) + 1 - 1 = Len(s)
    OBVIOUS
  <2> QED
    BY <2>1, FindIs
<1>3. \A i \in Nat \ {0} : C(i) = 0 \/ (O(i) \in i..Len(s) /\ C(i) \in (O(i) + 1)..Len(s))
  <2>1. Len(<<Quote>>) = 1 /\ 1 \in Nat \ {0} /\ Len(s) \in Nat /\ Len(s) + 1 - 1 = Len(s)
    OBVIOUS
  <2> SUFFICES ASSUME NEW i \in Nat \ {0}, C(i) # 0
               PROVE  O(i) \in i..Len(s) /\ C(i) \in (O(i) + 1)..Len(s)
    OBVIOUS
  <2>2. O(i) \in i..Len(s) /\ C(i) = Find(s, <<Quote>>, O(i) + 1)
    BY <1>2
  <2>3. PICK o \in Nat \ {0} : o = O(i) + 1
    BY <2>2
  <2>4. Find(s, <<Quote>>, o) = 0 \/ Find(s, <<Quote>>, o) \in o..(Len(s) + 1 - 1)
    BY <2>1, FindIs
  <2> HIDE DEF O, C
  <2> QED
    BY <2>1, <2>2, <2>3, <2>4
<1> HIDE DEF O, C
<1>4. PICK n \in Nat : n = Len(s) + 1 /\ 1 \in 1..n
  OBVIOUS
<1>5. PICK stop, val, pre, nx : /\ stop = [i \in 1..n |-> C(i) = 0]
                               /\ val = [i \in 1..n |-> From(s, i)]
                               /\ pre = [i \in 1..n |-> SubSeq(s, i, O(i) - 1) \o <<Quote, Quote>>]
                               /\ nx = [i \in 1..n |-> C(i) + 1]
  OBVIOUS
<1>6. \A i \in 1..n : (stop[i] <=> C(i) = 0) /\ nx[i] = C(i) + 1 /\ i \in Nat \ {0}
  <2> SUFFICES ASSUME NEW i \in 1..n
               PROVE  (stop[i] <=> C(i) = 0) /\ nx[i] = C(i) + 1 /\ i \in Nat \ {0}
    OBVIOUS
  <2>1. stop[i] = (C(i) = 0)
    BY <1>5
  <2>2. nx[i] = C(i) + 1
    BY <1>5
  <2>3. stop[i] <=> C(i) = 0
    BY <2>1, Zenon
  <2>4. i \in Nat \ {0}
    OBVIOUS
  <2> QED
    BY <2>2, <2>3, <2>4, Zenon
<1>7. Len(s) \in Nat
  OBVIOUS
<1>8. GoesOn(n, stop, nx)
  <2> SUFFICES ASSUME NEW i \in 1..n, ~stop[i] PROVE nx[i] \in (i + 1)..n
    BY DEF GoesOn
  <2>1. C(i) # 0 /\ O(i) \in i..Len(s) /\ C(i) \in (O(i) + 1)..Len(s) /\ nx[i] = C(i) + 1
    BY <1>3, <1>6
  <2> QED
    BY <1>4, <1>7, <2>1
<1>9. \A i \in 1..n : stop[i] => val[i] \in Seq(Coded)
  BY <1>5, TailOf
<1>10. \A i \in 1..n : ~stop[i] => pre[i] \in Seq(Coded)
  <2> SUFFICES ASSUME NEW i \in 1..n, ~stop[i]
               PROVE  SubSeq(s, i, O(i) - 1) \o <<Quote, Quote>> \in Seq(Coded)
    BY <1>5
  <2>1. O(i) - 1 \in Int /\ O(i) - 1 <= Len(s) /\ i \in Nat \ {0}
    <3>1. O(i) \in i..Len(s) /\ i \in Nat \ {0}
      BY <1>3, <1>6
    <3> QED
      BY <1>7, <3>1
  <2>2. PICK a \in Seq(Coded) : a = SubSeq(s, i, O(i) - 1)
    BY <2>1, PieceOf
  <2>3. PICK q \in Coded : q = Quote
    BY DEF Coded
  <2>4. a \o <<q, q>> \in Seq(Coded)
    OBVIOUS
  <2> QED
    BY <2>2, <2>3, <2>4
<1>11. Typed(n, stop, val, pre)
  BY <1>9, <1>10 DEF Typed
<1>12. \A g : P(g) <=> IsOnwards(n, stop, val, pre, nx, g)
  BY <1>4, <1>5 DEF Onwards, IsOnwards
<1> HIDE DEF P
<1>13. PICK g : P(g) /\ g = (CHOOSE h : P(h))
  BY <1>8, <1>12, OnwardsExists
<1>14. IsOnwards(n, stop, val, pre, nx, g)
  BY <1>12, <1>13
<1>15. g[1] \in Seq(Coded)
  BY <1>4, <1>8, <1>11, <1>14, OnwardsTyped
<1> QED
  BY <1>1, <1>13, <1>15

LEMMA ElidedTyped ==
  ASSUME NEW ls \in Seq(Seq(STRING))
  PROVE  Elided(ls) \in Seq(Seq(Coded))
<1>1. PICK n \in Nat : n = Len(ls) /\ DOMAIN ls = 1..n
  OBVIOUS
<1>2. PICK clean : clean = RemoveMultiLineComments(ls)
  OBVIOUS
<1>3. DOMAIN clean = 1..n /\ \A k \in 1..n : clean[k] \in Seq(Tokens)
  BY <1>1, <1>2, CleanLines
<1>4. \A s \in Seq(Tokens) : s \in Seq(Coded)
  BY DEF Coded
<1>5. CleanseRawStrings(clean) \in Seq(Seq(Coded)) /\ Len(CleanseRawStrings(clean)) = n
  BY <1>3, <1>4, RawTyped
<1>6. PICK cut \in Seq(Seq(Coded)) : cut = CleanseRawStrings(clean) /\ Len(cut) = n
  BY <1>5
<1>7. Elided(ls) = [i \in 1..n |-> CleanseComments(CollapseStrings(cut[i]))]
  BY <1>1, <1>2, <1>6 DEF Elided
<1>8. ASSUME NEW i \in 1..n PROVE CleanseComments(CollapseStrings(cut[i])) \in Seq(Coded)
  <2>1. cut[i] \in Seq(Coded)
    BY <1>6
  <2>2. PICK s \in Seq(Coded) : s = CollapseStrings(cut[i])
    BY <2>1, CollapseTyped
  <2>3. PICK p : p = Find(s, <<"//">>, 1)
    OBVIOUS
  <2>4. p = 0 \/ p \in 1..Len(s)
    <3>1. Len(<<"//">>) = 1 /\ 1 \in Nat \ {0} /\ Len(s) \in Nat /\ Len(s) + 1 - 1 = Len(s)
      OBVIOUS
    <3> QED
      BY <2>3, <3>1, FindIs
  <2>5. p > 0 => SubSeq(s, 1, p - 1) \in Seq(Coded)
    <3> SUFFICES ASSUME p > 0 PROVE SubSeq(s, 1, p - 1) \in Seq(Coded)
      OBVIOUS
    <3>1. p - 1 \in Int /\ p - 1 <= Len(s) /\ 1 \in Nat \ {0}
      BY <2>4
    <3> QED
      BY <3>1, PieceOf
  <2>6. PICK r \in Seq(Coded) : CleanseComments(s) = DropClosedComments(r)
    BY <2>3, <2>5 DEF CleanseComments
  <2> QED
    BY <2>2, <2>6, DropTyped
<1> QED
  BY <1>7, <1>8

-----------------------------------------------------------------------------
(* The blocks behind an empty line.                                      *)

\* Blocks in which no end of an asm statement is still to be noticed.
BlockTypes == {"namespace", "class", "extern", "block"}
AsmStates == {"no", "inside", "end", "block"}
Shape(type, start, seen, parens, asm) ==
  [type |-> type, start |-> start, seen |-> seen, parens |-> parens, asm |-> asm]
SettledBlocks ==
  {b \in [type : BlockTypes, start : Nat, seen : BOOLEAN, parens : Int, asm : AsmStates] :
     ~(b.asm = "inside" /\ b.parens = 0)}
Stacks == Seq(SettledBlocks)

\* A block behind a line.
CountedBlock(b, change, starts) ==
  Shape(b.type, b.start, b.seen, b.parens + change,
        IF b.asm \in {"no", "end"}
        THEN IF change # 0 /\ b.parens + change = 1 /\ starts THEN "inside" ELSE "no"
        ELSE IF b.asm = "inside" /\ b.parens + change = 0 THEN "end" ELSE b.asm)

LEMMA CountNat ==
  ASSUME NEW E, NEW s \in Seq(E), NEW t
  PROVE  Count(s, t) \in Nat
<1>1. IsFiniteSet(1..Len(s)) /\ DOMAIN s = 1..Len(s)
  BY FS_Interval
<1>2. {i \in DOMAIN s : s[i] = t} \in SUBSET (1..Len(s))
  BY <1>1
<1> QED
  BY <1>1, <1>2, FS_Subset, FS_CardinalityType DEF Count

LEMMA CountNone == ASSUME NEW t PROVE Count(<<>>, t) = 0
<1>1. {i \in DOMAIN <<>> : <<>>[i] = t} = {}
  OBVIOUS
<1> QED
  BY <1>1, FS_EmptySet DEF Count

LEMMA BlockShape ==
  ASSUME NEW b \in SettledBlocks
  PROVE  /\ b = Shape(b.type, b.start, b.seen, b.parens, b.asm)
         /\ b.parens \in Int /\ b.type \in BlockTypes /\ b.start \in Nat /\ b.seen \in BOOLEAN
         /\ b.asm \in AsmStates /\ ~(b.asm = "inside" /\ b.parens = 0)
  BY DEF SettledBlocks, Shape

LEMMA ShapeSettled ==
  ASSUME NEW t \in BlockTypes, NEW s \in Nat, NEW o \in BOOLEAN, NEW p \in Int, NEW a \in AsmStates,
         ~(a = "inside" /\ p = 0)
  PROVE  Shape(t, s, o, p, a) \in SettledBlocks
  BY DEF SettledBlocks, Shape

LEMMA CountedSettled ==
  ASSUME NEW b \in SettledBlocks, NEW c \in Int, NEW starts \in BOOLEAN
  PROVE  CountedBlock(b, c, starts) \in SettledBlocks
<1>1. /\ b.parens \in Int /\ b.type \in BlockTypes /\ b.start \in Nat /\ b.seen \in BOOLEAN
      /\ b.asm \in AsmStates
  BY BlockShape
<1>2. PICK p \in Int : p = b.parens + c
  BY <1>1
<1>3. PICK a : a = IF b.asm \in {"no", "end"}
                   THEN IF c # 0 /\ p = 1 /\ starts THEN "inside" ELSE "no"
                   ELSE IF b.asm = "inside" /\ p = 0 THEN "end" ELSE b.asm
  OBVIOUS
<1>4. a \in AsmStates /\ ~(a = "inside" /\ p = 0)
  BY <1>1, <1>3 DEF AsmStates
<1>5. CountedBlock(b, c, starts) = Shape(b.type, b.start, b.seen, p, a)
  BY <1>2, <1>3 DEF CountedBlock
<1> QED
  BY <1>1, <1>4, <1>5, ShapeSettled

\* A line without parentheses makes no difference to what the next one does.
LEMMA CountedTwice ==
  ASSUME NEW b \in SettledBlocks, NEW c \in Int, NEW starts \in BOOLEAN
  PROVE  CountedBlock(CountedBlock(b, 0, FALSE), c, starts) = CountedBlock(b, c, starts)
<1>1. /\ b.parens \in Int /\ b.asm \in AsmStates /\ ~(b.asm = "inside" /\ b.parens = 0)
  BY BlockShape
<1>2. PICK d : d = CountedBlock(b, 0, FALSE)
  OBVIOUS
<1>3. /\ d.type = b.type /\ d.start = b.start /\ d.seen = b.seen
      /\ d.asm = IF b.asm \in {"no", "end"} THEN "no" ELSE b.asm
  BY <1>1, <1>2 DEF CountedBlock, Shape
<1>4. d.parens = b.parens
  BY <1>1, <1>2 DEF CountedBlock, Shape
<1>5. /\ d.asm \in {"no", "end"} <=> b.asm \in {"no", "end"}
      /\ b.asm \notin {"no", "end"} => d.asm = b.asm
  BY <1>3
<1> QED
  BY <1>2, <1>3, <1>4, <1>5 DEF CountedBlock

\* The counting is done in the innermost block.
LEMMA CountOnTop ==
  ASSUME NEW stack \in Stacks, NEW E, NEW code \in Seq(E), stack # <<>>
  PROVE  \E c \in Int : \E starts \in BOOLEAN :
           /\ c = Count(code, "(") - Count(code, ")") /\ starts = StartsAsm(code)
           /\ CountParentheses(stack, code) =
                Append(Front(stack), CountedBlock(Last(stack), c, starts))
<1>1. PICK c \in Int : c = Count(code, "(") - Count(code, ")")
  BY CountNat
<1>2. PICK starts \in BOOLEAN : starts = StartsAsm(code)
  BY DEF StartsAsm
<1>3. PICK b \in SettledBlocks : b = Last(stack)
  BY DEF Last, Stacks
<1>4. b = Shape(b.type, b.start, b.seen, b.parens, b.asm)
  BY BlockShape
<1>5. \A p, a : [b EXCEPT !.parens = p, !.asm = a] = Shape(b.type, b.start, b.seen, p, a)
  <2>1. PICK t, s, o, q, m : t = b.type /\ s = b.start /\ o = b.seen /\ q = b.parens /\ m = b.asm
    OBVIOUS
  <2>2. b = Shape(t, s, o, q, m)
    BY <1>4, <2>1
  <2> SUFFICES ASSUME NEW p, NEW a
               PROVE  [b EXCEPT !.parens = p, !.asm = a] = Shape(t, s, o, p, a)
    BY <2>1
  <2>3. [b EXCEPT !.parens = p, !.asm = a] = [[b EXCEPT !.parens = p] EXCEPT !.asm = a]
    OBVIOUS
  <2>4. [b EXCEPT !.parens = p] = Shape(t, s, o, p, m)
    BY <2>2 DEF Shape
  <2>5. PICK d : d = Shape(t, s, o, p, m)
    OBVIOUS
  <2>6. [d EXCEPT !.asm = a] = Shape(t, s, o, p, a)
    BY <2>5 DEF Shape
  <2> QED
    BY <2>3, <2>4, <2>5, <2>6
<1>6. PICK now : now = IF b.asm \in {"no", "end"}
             THEN IF c # 0 /\ b.parens + c = 1 /\ starts THEN "inside" ELSE "no"
             ELSE IF b.asm = "inside" /\ b.parens + c = 0 THEN "end" ELSE b.asm
  OBVIOUS
<1>7. CountParentheses(stack, code) =
        Append(Front(stack), [b EXCEPT !.parens = b.parens + c, !.asm = now])
  BY <1>1, <1>2, <1>3, <1>6 DEF CountParentheses
<1>8. [b EXCEPT !.parens = b.parens + c, !.asm = now] = CountedBlock(b, c, starts)
  BY <1>5, <1>6 DEF CountedBlock
<1> QED
  BY <1>1, <1>2, <1>3, <1>7, <1>8

LEMMA AppendParts ==
  ASSUME NEW E, NEW s \in Seq(E), NEW x \in E
  PROVE  /\ Append(s, x) \in Seq(E) /\ Append(s, x) # <<>>
         /\ Front(Append(s, x)) = s /\ Last(Append(s, x)) = x
<1>1. Append(s, x) \in Seq(E) /\ Len(Append(s, x)) = Len(s) + 1 /\ Len(s) \in Nat
      /\ \A k \in 1..Len(s) : Append(s, x)[k] = s[k]
  OBVIOUS
<1>2. Append(s, x)[Len(s) + 1] = x
  OBVIOUS
<1>3. PICK m \in Seq(E) : m = Append(s, x)
  BY <1>1
<1>4. m # <<>>
  BY <1>1, <1>3
<1>5. PICK b \in Seq(E) : b = Front(m) /\ Len(b) = Len(m) - 1 /\ \A k \in 1..(Len(m) - 1) : b[k] = m[k]
  BY <1>4, FrontOf
<1>6. Len(b) = Len(s) /\ \A k \in 1..Len(s) : b[k] = s[k]
  BY <1>1, <1>3, <1>5
<1>7. b = s
  BY <1>6, SeqEqual
<1> QED
  BY <1>1, <1>2, <1>3, <1>4, <1>5, <1>7 DEF Last

LEMMA CountSettles ==
  ASSUME NEW stack \in Stacks, NEW E, NEW code \in Seq(E)
  PROVE  CountParentheses(stack, code) \in Stacks
<1>1. CASE stack = <<>>
  BY <1>1 DEF CountParentheses
<1>2. CASE stack # <<>>
  <2>1. PICK c \in Int, starts \in BOOLEAN :
          CountParentheses(stack, code) = Append(Front(stack), CountedBlock(Last(stack), c, starts))
    BY <1>2, CountOnTop
  <2>2. PICK b \in SettledBlocks : b = Last(stack)
    BY <1>2 DEF Last, Stacks
  <2>3. PICK f \in Seq(SettledBlocks) : f = Front(stack)
    BY <1>2, FrontOf DEF Stacks
  <2>4. CountedBlock(b, c, starts) \in SettledBlocks
    BY CountedSettled
  <2>5. PICK d \in SettledBlocks : d = CountedBlock(b, c, starts)
    BY <2>4
  <2>6. Append(f, d) \in Seq(SettledBlocks)
    OBVIOUS
  <2> QED
    BY <2>1, <2>2, <2>3, <2>5, <2>6 DEF Stacks
<1> QED
  BY <1>1, <1>2

\* The stack behind a line that has nothing.
Calm(stack) == CountParentheses(stack, <<>>)

LEMMA CalmCounts ==
  ASSUME NEW stack \in Stacks, NEW E, NEW code \in Seq(E)
  PROVE  CountParentheses(Calm(stack), code) = CountParentheses(stack, code)
<1>1. CASE stack = <<>>
  BY <1>1 DEF CountParentheses, Calm
<1>2. CASE stack # <<>>
  <2>1. PICK b \in SettledBlocks : b = Last(stack)
    BY <1>2 DEF Last, Stacks
  <2>2. PICK f \in Seq(SettledBlocks) : f = Front(stack)
    BY <1>2, FrontOf DEF Stacks
  <2>3. PICK none \in Seq({}) : none = <<>>
    <3>1. <<>> \in Seq({})
      OBVIOUS
    <3> QED
      BY <3>1
  <2>4. PICK c0 \in Int, s0 \in BOOLEAN :
          /\ c0 = Count(none, "(") - Count(none, ")") /\ s0 = StartsAsm(none)
          /\ CountParentheses(stack, none) = Append(Front(stack), CountedBlock(Last(stack), c0, s0))
    BY <1>2, CountOnTop
  <2>5. c0 = 0 /\ s0 = FALSE
    <3>1. c0 = 0
      BY <2>3, <2>4, CountNone
    <3>2. ~StartsAsm(none)
      BY <2>3 DEF StartsAsm
    <3> QED
      BY <2>4, <3>1, <3>2
  <2>6. PICK d \in SettledBlocks : d = CountedBlock(b, 0, FALSE)
    <3>1. 0 \in Int /\ FALSE \in BOOLEAN
      OBVIOUS
    <3>2. CountedBlock(b, 0, FALSE) \in SettledBlocks
      BY <3>1, CountedSettled
    <3> QED
      BY <3>2
  <2>7. PICK calm \in Stacks : calm = Append(f, d)
    <3>1. Append(f, d) \in Stacks
      BY AppendParts DEF Stacks
    <3> QED
      BY <3>1
  <2>8. calm = Calm(stack)
    BY <2>1, <2>2, <2>3, <2>4, <2>5, <2>6, <2>7 DEF Calm
  <2>9. calm # <<>> /\ Front(calm) = f /\ Last(calm) = d
    BY <2>7, AppendParts
  <2>10. PICK c1 \in Int, s1 \in BOOLEAN :
          /\ c1 = Count(code, "(") - Count(code, ")") /\ s1 = StartsAsm(code)
          /\ CountParentheses(calm, code) = Append(Front(calm), CountedBlock(Last(calm), c1, s1))
    BY <2>9, CountOnTop
  <2>11. PICK c2 \in Int, s2 \in BOOLEAN :
          /\ c2 = Count(code, "(") - Count(code, ")") /\ s2 = StartsAsm(code)
          /\ CountParentheses(stack, code) = Append(Front(stack), CountedBlock(Last(stack), c2, s2))
    BY <1>2, CountOnTop
  <2>12. CountedBlock(d, c1, s1) = CountedBlock(b, c1, s1)
    BY <2>6, CountedTwice
  <2> QED
    BY <2>1, <2>2, <2>8, <2>9, <2>10, <2>11, <2>12
<1> QED
  BY <1>1, <1>2

-----------------------------------------------------------------------------
(* The search for template arguments.                                    *)

\* A search that goes on from place to place, whose least answer is taken.
Answer(a, b, nx, P, f, p) == IF p \in a THEN p \in b ELSE nx[p] \in P /\ f[nx[p]]

IsAnswer(a, b, nx, P, f) == f = [p \in P |-> Answer(a, b, nx, P, f, p)]

LEMMA AnswerExists ==
  ASSUME NEW P, NEW a, NEW b, NEW nx
  PROVE  \E f : IsAnswer(a, b, nx, P, f)
<1> DEFINE Reached(S, p) == IF p \in a THEN p \in b ELSE nx[p] \in S
           Closed(S) == \A p \in P : Reached(S, p) => p \in S
           L == {p \in P : \A S \in SUBSET P : Closed(S) => p \in S}
           M == {p \in P : Reached(L, p)}
<1>1. ASSUME NEW p \in P, Reached(L, p), NEW S \in SUBSET P, Closed(S) PROVE p \in S
  <2>1. p \notin a => nx[p] \in S
    BY <1>1
  <2>2. Reached(S, p)
    BY <1>1, <2>1
  <2> QED
    BY <1>1, <2>2
<1>2. M \subseteq L
  BY <1>1
<1>3. Closed(M)
  <2> SUFFICES ASSUME NEW p \in P, Reached(M, p) PROVE Reached(L, p)
    OBVIOUS
  <2> HIDE DEF M, L
  <2> QED
    BY <1>2
<1>4. L \subseteq M
  <2>1. M \in SUBSET P
    OBVIOUS
  <2> HIDE DEF M
  <2> QED
    BY <1>3, <2>1
<1>5. \A p \in P : p \in L <=> Reached(L, p)
  <2>1. \A p \in P : p \in M <=> Reached(L, p)
    OBVIOUS
  <2>2. L = M
    BY <1>2, <1>4
  <2> HIDE DEF L, M, Reached
  <2> QED
    BY <2>1, <2>2
<1>6. L \subseteq P
  OBVIOUS
<1> HIDE DEF L, M
<1>7. PICK f : f = [p \in P |-> p \in L]
  OBVIOUS
<1>8. ASSUME NEW p \in P PROVE f[p] = Answer(a, b, nx, P, f, p)
  <2>1. f[p] = (p \in L)
    BY <1>7
  <2>2. p \in L <=> Reached(L, p)
    BY <1>5
  <2>3. nx[p] \in P => f[nx[p]] = (nx[p] \in L)
    BY <1>7
  <2>4. CASE p \in a
    <3>1. (p \in L) = (p \in b)
      BY <2>2, <2>4
    <3>2. Answer(a, b, nx, P, f, p) = (p \in b)
      BY <2>4 DEF Answer
    <3> QED
      BY <2>1, <3>1, <3>2, Zenon
  <2>5. CASE p \notin a
    <3>1. p \in L <=> nx[p] \in L
      BY <2>2, <2>5
    <3>2. CASE nx[p] \in P
      <4>1. (p \in L) = (nx[p] \in P /\ nx[p] \in L)
        BY <3>1, <3>2
      <4>2. Answer(a, b, nx, P, f, p) = (nx[p] \in P /\ f[nx[p]])
        BY <2>5, Zenon DEF Answer
      <4>3. f[nx[p]] = (nx[p] \in L)
        BY <2>3, <3>2
      <4> QED
        BY <2>1, <4>1, <4>2, <4>3, Zenon
    <3>3. CASE nx[p] \notin P
      <4>1. p \notin L
        BY <1>6, <3>1, <3>3
      <4>2. Answer(a, b, nx, P, f, p) = FALSE
        BY <2>5, <3>3, Zenon DEF Answer
      <4>3. (p \in L) = FALSE
        BY <4>1
      <4> QED
        BY <2>1, <4>2, <4>3, Zenon
    <3> QED
      BY <3>2, <3>3
  <2> QED
    BY <2>4, <2>5
<1>9. f = [p \in P |-> Answer(a, b, nx, P, f, p)]
  <2>1. DOMAIN f = P /\ f = [p \in P |-> f[p]]
    BY <1>7
  <2> QED
    BY <1>8, <2>1
<1> QED
  BY <1>9 DEF IsAnswer

\* The marks of a line behind place i.
Marks(s, i) == {j \in (i + 1)..Len(s) : s[j] \in HeadMarks}

LEMMA TemplateOfLine ==
  ASSUME NEW ls \in Seq(Seq(Coded)), NEW n \in 1..Len(ls), NEW i \in Nat,
         Marks(ls[n], i) # {}, ls[n][Min(Marks(ls[n], i))] # "<"
  PROVE  InTemplateArgumentList(ls, n, i) <=> ls[n][Min(Marks(ls[n], i))] \in {">", "=", "[", "]"}
<1> DEFINE P == (n..Len(ls)) \X Nat
           F(p) == {j \in (p[2] + 1)..Len(ls[p[1]]) : ls[p[1]][j] \in HeadMarks}
           T(p) == ls[p[1]][Min(F(p))]
           X(p) == IF F(p) = {} THEN <<p[1] + 1, 0>> ELSE CloseExpression(ls, p[1], Min(F(p)))
           Q(g) == g = [p \in P |-> IF F(p) # {} /\ T(p) # "<" THEN T(p) \in {">", "=", "[", "]"}
                                  ELSE X(p) \in P /\ g[X(p)]]
<1>1. InTemplateArgumentList(ls, n, i) = (CHOOSE g : Q(g))[<<n, i>>]
  BY DEF InTemplateArgumentList
<1>2. F(<<n, i>>) = Marks(ls[n], i)
  BY DEF Marks
<1>3. <<n, i>> \in P
  OBVIOUS
<1> HIDE DEF P, F, X
<1>4. PICK a, b, nx : /\ a = {p \in P : F(p) # {} /\ T(p) # "<"}
                      /\ b = {p \in P : T(p) \in {">", "=", "[", "]"}}
                      /\ nx = [p \in P |-> X(p)]
  OBVIOUS
<1>5. \A g : Q(g) <=> IsAnswer(a, b, nx, P, g)
  <2> HIDE DEF T
  <2>1. ASSUME NEW g, NEW p \in P
        PROVE  (IF F(p) # {} /\ T(p) # "<" THEN T(p) \in {">", "=", "[", "]"} ELSE X(p) \in P /\ g[X(p)])
               = Answer(a, b, nx, P, g, p)
    <3>1. (p \in a <=> F(p) # {} /\ T(p) # "<") /\ (p \in b <=> T(p) \in {">", "=", "[", "]"}) /\ nx[p] = X(p)
      BY <1>4
    <3>2. (T(p) \in {">", "=", "[", "]"}) = (p \in b)
      BY <3>1
    <3> QED
      BY <3>1, <3>2 DEF Answer
  <2> QED
    BY <2>1 DEF IsAnswer
<1> HIDE DEF Q, T
<1>6. PICK g : Q(g) /\ g = (CHOOSE h : Q(h))
  <2>1. \E g : IsAnswer(a, b, nx, P, g)
    BY AnswerExists
  <2> QED
    BY <1>5, <2>1
<1>7. g[<<n, i>>] = Answer(a, b, nx, P, g, <<n, i>>)
  BY <1>3, <1>5, <1>6 DEF IsAnswer
<1>8. T(<<n, i>>) = ls[n][Min(Marks(ls[n], i))]
  BY <1>2 DEF T
<1>9. <<n, i>> \in a /\ (<<n, i>> \in b <=> ls[n][Min(Marks(ls[n], i))] \in {">", "=", "[", "]"})
  BY <1>2, <1>3, <1>4, <1>8
<1> QED
  BY <1>1, <1>6, <1>7, <1>9 DEF Answer

-----------------------------------------------------------------------------
(* What a line does to the blocks.                                       *)

\* A line with a class head that is not told on it.
SplitOn(s) == "class" \in Range(s) /\ (Marks(s, 1) = {} \/ s[Min(Marks(s, 1))] = "<")

\* What Update does behind the preprocessor and the parentheses.
Inner(stack, ls, n) ==
  TakeTokens(TakeClass(TakeNamespaces(stack, ls[n], n), ls, n), ls[n], n)

LEMMA BlockSettled ==
  ASSUME NEW t \in BlockTypes, NEW n \in Nat, NEW o \in BOOLEAN
  PROVE  /\ Block(t, n, o) \in SettledBlocks
         /\ [Block(t, n, o) EXCEPT !.asm = "block"] \in SettledBlocks
         /\ [Block(t, n, o) EXCEPT !.asm = "no"] \in SettledBlocks
<1>1. Block(t, n, o) = Shape(t, n, o, 0, "no")
  BY DEF Block, Shape
<1>2. [Block(t, n, o) EXCEPT !.asm = "block"] = Shape(t, n, o, 0, "block")
  BY DEF Block, Shape
<1>3. [Block(t, n, o) EXCEPT !.asm = "no"] = Shape(t, n, o, 0, "no")
  BY DEF Block, Shape
<1>4. ASSUME NEW a \in {"no", "block"} PROVE Shape(t, n, o, 0, a) \in SettledBlocks
  <2>1. 0 \in Int /\ a \in AsmStates /\ a # "inside"
    BY DEF AsmStates
  <2> QED
    BY <2>1, ShapeSettled
<1>5. Shape(t, n, o, 0, "no") \in SettledBlocks /\ Shape(t, n, o, 0, "block") \in SettledBlocks
  BY <1>4
<1> QED
  BY <1>1, <1>2, <1>3, <1>5

LEMMA SeenSettled ==
  ASSUME NEW b \in SettledBlocks
  PROVE  [b EXCEPT !.seen = TRUE] \in SettledBlocks
<1>1. /\ b = Shape(b.type, b.start, b.seen, b.parens, b.asm)
      /\ b.parens \in Int /\ b.type \in BlockTypes /\ b.start \in Nat
      /\ b.asm \in AsmStates /\ ~(b.asm = "inside" /\ b.parens = 0)
  BY BlockShape
<1>2. PICK t, s, o, p, a : t = b.type /\ s = b.start /\ o = b.seen /\ p = b.parens /\ a = b.asm
  OBVIOUS
<1>3. b = Shape(t, s, o, p, a)
  BY <1>1, <1>2
<1>4. PICK v \in BOOLEAN : v = TRUE
  OBVIOUS
<1>5. [b EXCEPT !.seen = v] = Shape(t, s, v, p, a)
  BY <1>3 DEF Shape
<1>6. Shape(t, s, v, p, a) \in SettledBlocks
  BY <1>1, <1>2, ShapeSettled
<1> QED
  BY <1>4, <1>5, <1>6

LEMMA Pushed ==
  ASSUME NEW stack \in Stacks, NEW b \in SettledBlocks
  PROVE  Append(stack, b) \in Stacks
  BY AppendParts DEF Stacks

LEMMA Popped ==
  ASSUME NEW stack \in Stacks, stack # <<>>
  PROVE  Front(stack) \in Stacks /\ Last(stack) \in SettledBlocks
<1>1. Front(stack) \in Stacks
  BY FrontOf DEF Stacks
<1>2. Last(stack) \in SettledBlocks
  BY DEF Stacks, Last
<1> QED
  BY <1>1, <1>2

LEMMA NamespaceTyped ==
  ASSUME NEW left, left.stack \in Stacks, left.from \in Nat, NEW s \in Seq(Coded), NEW n \in Nat
  PROVE  TakeNamespace(left, s, n).stack \in Stacks /\ TakeNamespace(left, s, n).from \in Nat
<1>1. PICK brace : brace = {i \in (left.from + 1)..Len(s) : s[i] = "{"}
  OBVIOUS
<1>2. Len(s) \in Nat
  OBVIOUS
<1>3. brace \in SUBSET Nat
  <2>1. PICK m \in Nat : m = left.from + 1
    OBVIOUS
  <2>2. \A i \in m..Len(s) : i \in Nat
    BY <1>2
  <2> QED
    BY <1>1, <2>1, <2>2
<1>4. brace # {} => Min(brace) \in Nat
  BY <1>3, LeastOf
<1>5. PICK b \in SettledBlocks : b = Block("namespace", n, brace # {})
  <2>1. "namespace" \in BlockTypes
    BY DEF BlockTypes
  <2>2. PICK o \in BOOLEAN : o = (brace # {})
    OBVIOUS
  <2>3. Block("namespace", n, o) \in SettledBlocks
    BY <2>1, BlockSettled
  <2> QED
    BY <2>2, <2>3
<1>6. PICK old, new \in Stacks : old = left.stack /\ new = Append(old, b)
  BY Pushed
<1>7. PICK to : to = IF brace = {} THEN left.from + 1 ELSE Min(brace)
  OBVIOUS
<1>8. to \in Nat
  BY <1>4, <1>7
<1>9. TakeNamespace(left, s, n) \in {left, [stack |-> new, from |-> to]}
  BY <1>1, <1>5, <1>6, <1>7 DEF TakeNamespace
<1> QED
  BY <1>8, <1>9

LEMMA NamespacesTyped ==
  ASSUME NEW stack \in Stacks, NEW s \in Seq(Coded), NEW n \in Nat
  PROVE  TakeNamespaces(stack, s, n).stack \in Stacks /\ TakeNamespaces(stack, s, n).from \in Nat
<1>1. PICK k \in Nat : k = Len(s) /\ DOMAIN s = 1..k
  OBVIOUS
<1>2. PICK f : /\ Follows(<<"spaces", s, n>>, [stack |-> stack, from |-> 0], s, k, f)
               /\ f[k] = TakeNamespaces(stack, s, n)
  BY <1>1, SpacesFold
<1> DEFINE S == {i \in Nat : i <= k => f[i].stack \in Stacks /\ f[i].from \in Nat}
<1>3. 0 \in S
  BY <1>2 DEF Follows
<1>4. ASSUME NEW i \in Nat, i \in S PROVE i + 1 \in S
  <2> SUFFICES ASSUME i + 1 <= k PROVE f[i + 1].stack \in Stacks /\ f[i + 1].from \in Nat
    OBVIOUS
  <2>1. i + 1 \in 1..k /\ (i + 1) - 1 = i /\ f[i].stack \in Stacks /\ f[i].from \in Nat
    BY <1>4
  <2>2. f[i + 1] = TakeNamespace(f[i], s, n)
    BY <1>2, <2>1 DEF Follows, StepOf
  <2>3. PICK left : left = f[i]
    OBVIOUS
  <2>4. TakeNamespace(left, s, n).stack \in Stacks /\ TakeNamespace(left, s, n).from \in Nat
    BY <2>1, <2>3, NamespaceTyped
  <2> QED
    BY <2>2, <2>3, <2>4
<1> HIDE DEF S
<1>5. \A i \in Nat : i \in S
  BY <1>3, <1>4, AllNumbers
<1>6. k \in S
  BY <1>5
<1>7. f[k].stack \in Stacks /\ f[k].from \in Nat
  BY <1>6 DEF S
<1> QED
  BY <1>2, <1>7

LEMMA ClassTyped ==
  ASSUME NEW left, left.stack \in Stacks, NEW ls, NEW n \in Nat
  PROVE  TakeClass(left, ls, n).stack \in Stacks
<1>1. PICK b \in SettledBlocks : b = Block("class", n, FALSE)
  <2>1. "class" \in BlockTypes /\ FALSE \in BOOLEAN
    BY DEF BlockTypes
  <2>2. Block("class", n, FALSE) \in SettledBlocks
    BY <2>1, BlockSettled
  <2> QED
    BY <2>2
<1>2. PICK old, new \in Stacks : old = left.stack /\ new = Append(old, b)
  BY Pushed
<1>3. TakeClass(left, ls, n) \in {left, [stack |-> new, from |-> left.from + 1]}
  BY <1>1, <1>2 DEF TakeClass
<1> QED
  BY <1>3

LEMMA TokenTyped ==
  ASSUME NEW stack \in Stacks, NEW rest, NEW token, NEW n \in Nat
  PROVE  TakeToken(stack, rest, token, n) \in Stacks
<1>1. stack # <<>> => Front(stack) \in Stacks /\ Last(stack) \in SettledBlocks
  BY Popped
<1>2. ~SeenOpenBrace(stack) => stack # <<>>
  BY DEF SeenOpenBrace
<1>3. TRUE \in BOOLEAN /\ "extern" \in BlockTypes /\ "block" \in BlockTypes
  BY DEF BlockTypes
<1>4. CASE token = "{" /\ ~SeenOpenBrace(stack)
  <2>1. PICK f \in Stacks, b \in SettledBlocks : f = Front(stack) /\ b = Last(stack)
    BY <1>1, <1>2, <1>4
  <2>2. PICK c \in SettledBlocks : c = [b EXCEPT !.seen = TRUE]
    BY SeenSettled
  <2>3. Append(f, c) \in Stacks
    BY Pushed
  <2> QED
    BY <1>4, <2>1, <2>2, <2>3 DEF TakeToken
<1>5. CASE token = "{" /\ SeenOpenBrace(stack) /\ rest = <<"extern", "{">>
  <2>1. Block("extern", n, TRUE) \in SettledBlocks
    BY <1>3, BlockSettled
  <2>2. Append(stack, Block("extern", n, TRUE)) \in Stacks
    BY <2>1, Pushed
  <2> QED
    BY <1>5, <2>2 DEF TakeToken
<1>6. CASE token = "{" /\ SeenOpenBrace(stack) /\ rest # <<"extern", "{">>
  <2>1. PICK a : a = IF StartsAsm(rest) THEN "block" ELSE "no"
    OBVIOUS
  <2>2. [Block("block", n, TRUE) EXCEPT !.asm = a] \in SettledBlocks
    <3>1. /\ [Block("block", n, TRUE) EXCEPT !.asm = "block"] \in SettledBlocks
          /\ [Block("block", n, TRUE) EXCEPT !.asm = "no"] \in SettledBlocks
      BY <1>3, BlockSettled
    <3>2. a = "block" \/ a = "no"
      BY <2>1
    <3> QED
      BY <3>1, <3>2
  <2>3. Append(stack, [Block("block", n, TRUE) EXCEPT !.asm = a]) \in Stacks
    BY <2>2, Pushed
  <2>4. TakeToken(stack, rest, token, n) = Append(stack, [Block("block", n, TRUE) EXCEPT !.asm = a])
    BY <1>6, <2>1 DEF TakeToken
  <2> QED
    BY <2>3, <2>4
<1>7. CASE token # "{"
  <2>1. TakeToken(stack, rest, token, n) = stack
          \/ (stack # <<>> /\ TakeToken(stack, rest, token, n) = Front(stack))
    BY <1>2, <1>7 DEF TakeToken
  <2> QED
    BY <1>1, <2>1
<1> QED
  BY <1>4, <1>5, <1>6, <1>7

LEMMA TokensTyped ==
  ASSUME NEW left, left.stack \in Stacks, NEW s \in Seq(Coded), NEW n \in Nat
  PROVE  TakeTokens(left, s, n) \in Stacks
<1>1. PICK k \in Nat : k = Len(s) /\ DOMAIN s = 1..k
  OBVIOUS
<1>2. PICK t : t = [i \in DOMAIN s |-> i]
  OBVIOUS
<1>3. PICK f : Follows(<<"tokens", s, n>>, left, t, k, f) /\ f[k].stack = TakeTokens(left, s, n)
  <2>1. PICK f : /\ Follows(<<"tokens", s, n>>, left, [i \in DOMAIN s |-> i], k, f)
                 /\ f[k].stack = TakeTokens(left, s, n)
    <3>1. DOMAIN s = 1..k
      BY <1>1
    <3> QED
      BY <3>1, TokensFold
  <2>2. Follows(<<"tokens", s, n>>, left, t, k, f)
    BY <1>2, <2>1
  <2> QED
    BY <2>1, <2>2
<1> DEFINE S == {i \in Nat : i <= k => f[i].stack \in Stacks}
<1>4. 0 \in S
  BY <1>3 DEF Follows
<1>5. ASSUME NEW i \in Nat, i \in S PROVE i + 1 \in S
  <2> SUFFICES ASSUME i + 1 <= k PROVE f[i + 1].stack \in Stacks
    OBVIOUS
  <2>1. i + 1 \in 1..k /\ (i + 1) - 1 = i /\ f[i].stack \in Stacks /\ t[i + 1] = i + 1
    BY <1>1, <1>2, <1>5
  <2>2. f[i + 1] = TakeNext(f[i], s, i + 1, n)
    BY <1>3, <2>1 DEF Follows, StepOf
  <2>3. PICK old \in Stacks : old = f[i].stack
    BY <2>1
  <2> PICK rest, token : token = s[i + 1] /\ rest = SubSeq(s, f[i].from + 1, i + 1)
    OBVIOUS
  <2>4. f[i + 1] = f[i] \/ f[i + 1] = [stack |-> TakeToken(old, rest, token, n), from |-> i + 1]
    BY <2>2, <2>3 DEF TakeNext
  <2>5. TakeToken(old, rest, token, n) \in Stacks
    BY TokenTyped
  <2> QED
    BY <2>1, <2>4, <2>5
<1> HIDE DEF S
<1>6. \A i \in Nat : i \in S
  BY <1>4, <1>5, AllNumbers
<1>7. k \in S
  BY <1>6
<1> QED
  BY <1>3, <1>7 DEF S

LEMMA InnerTyped ==
  ASSUME NEW stack \in Stacks, NEW ls \in Seq(Seq(Coded)), NEW n \in 1..Len(ls)
  PROVE  Inner(stack, ls, n) \in Stacks
<1>1. PICK s \in Seq(Coded) : s = ls[n]
  OBVIOUS
<1>2. n \in Nat
  OBVIOUS
<1>3. PICK left : left = TakeNamespaces(stack, s, n) /\ left.stack \in Stacks
  BY <1>2, NamespacesTyped
<1>4. PICK next : next = TakeClass(left, ls, n) /\ next.stack \in Stacks
  BY <1>2, <1>3, ClassTyped
<1>5. TakeTokens(next, s, n) \in Stacks
  BY <1>2, <1>4, TokensTyped
<1> QED
  BY <1>1, <1>3, <1>4, <1>5 DEF Inner

\* What a line does to the stack does not depend on the other lines.
LEMMA InnerAlike ==
  ASSUME NEW stack \in Stacks, NEW ls \in Seq(Seq(Coded)), NEW ks \in Seq(Seq(Coded)),
         NEW n \in 1..Len(ls), n \in 1..Len(ks), ks[n] = ls[n], ~SplitOn(ls[n])
  PROVE  Inner(stack, ls, n) = Inner(stack, ks, n)
<1>1. PICK s \in Seq(Coded) : s = ls[n] /\ s = ks[n]
  OBVIOUS
<1>2. n \in Nat
  OBVIOUS
<1>3. PICK left : left = TakeNamespaces(stack, s, n) /\ left.from \in Nat
  BY <1>2, NamespacesTyped
<1>4. IsNext(s, left.from, "class") =>
        (InTemplateArgumentList(ls, n, 1) <=> InTemplateArgumentList(ks, n, 1))
  <2> SUFFICES ASSUME IsNext(s, left.from, "class")
               PROVE  InTemplateArgumentList(ls, n, 1) <=> InTemplateArgumentList(ks, n, 1)
    OBVIOUS
  <2>1. "class" \in Range(s)
    BY <1>3 DEF IsNext, Range
  <2>2. Marks(s, 1) # {} /\ s[Min(Marks(s, 1))] # "<"
    BY <1>1, <2>1 DEF SplitOn
  <2>3. InTemplateArgumentList(ls, n, 1) <=> s[Min(Marks(s, 1))] \in {">", "=", "[", "]"}
    BY <1>1, <2>2, TemplateOfLine
  <2>4. InTemplateArgumentList(ks, n, 1) <=> s[Min(Marks(s, 1))] \in {">", "=", "[", "]"}
    BY <1>1, <2>2, TemplateOfLine
  <2> QED
    BY <2>3, <2>4
<1>5. TakeClass(left, ls, n) = TakeClass(left, ks, n)
  BY <1>1, <1>4 DEF TakeClass
<1> QED
  BY <1>1, <1>3, <1>5 DEF Inner

\* An empty line leaves the blocks as they are.
LEMMA InnerEmpty ==
  ASSUME NEW stack, NEW ls, NEW n, ls[n] = <<>>
  PROVE  Inner(stack, ls, n) = stack
<1>1. PICK s : s = <<>> /\ s = ls[n] /\ DOMAIN s = 1..0 /\ Len(s) = 0 /\ 0 \in Nat
  OBVIOUS
<1>2. TakeNamespaces(stack, s, n) = [stack |-> stack, from |-> 0]
  <2>1. PICK f : /\ Follows(<<"spaces", s, n>>, [stack |-> stack, from |-> 0], s, 0, f)
                 /\ f[0] = TakeNamespaces(stack, s, n)
    BY <1>1, SpacesFold
  <2> QED
    BY <2>1 DEF Follows
<1>3. PICK left : left = [stack |-> stack, from |-> 0]
  OBVIOUS
<1>4. TakeClass(left, ls, n) = left
  BY <1>1, <1>3 DEF TakeClass, IsNext
<1>5. TakeTokens(left, s, n) = left.stack
  <2>1. PICK t : t = [i \in DOMAIN s |-> i]
    OBVIOUS
  <2>2. PICK k \in Nat : k = 0 /\ DOMAIN s = 1..k
    BY <1>1
  <2>3. PICK f : Follows(<<"tokens", s, n>>, left, t, k, f) /\ f[k].stack = TakeTokens(left, s, n)
    BY <2>1, <2>2, TokensFold
  <2> QED
    BY <2>2, <2>3 DEF Follows
<1> QED
  BY <1>1, <1>2, <1>3, <1>4, <1>5 DEF Inner

-----------------------------------------------------------------------------
(* The checkpoints.                                                      *)

Mark(if, else, seen) == [beforeIf |-> if, beforeElse |-> else, seenElse |-> seen]
Marked == [beforeIf : Stacks, beforeElse : Stacks, seenElse : BOOLEAN]
Nest(stack, pp) == [stack |-> stack, pp |-> pp]
Nests == [stack : Stacks, pp : Seq(Marked)]

LEMMA NestParts ==
  ASSUME NEW N \in Nests
  PROVE  N = Nest(N.stack, N.pp) /\ N.stack \in Stacks /\ N.pp \in Seq(Marked)
  BY DEF Nests, Nest

LEMMA MarkParts ==
  ASSUME NEW c \in Marked
  PROVE  /\ c = Mark(c.beforeIf, c.beforeElse, c.seenElse)
         /\ c.beforeIf \in Stacks /\ c.beforeElse \in Stacks /\ c.seenElse \in BOOLEAN
  BY DEF Marked, Mark

LEMMA MarkMade ==
  ASSUME NEW i \in Stacks, NEW e \in Stacks, NEW s \in BOOLEAN
  PROVE  Mark(i, e, s) \in Marked
  BY DEF Marked, Mark

LEMMA NestMade ==
  ASSUME NEW s \in Stacks, NEW p \in Seq(Marked)
  PROVE  Nest(s, p) \in Nests
  BY DEF Nests, Nest

\* The ways a sequence is changed at its end.
LEMMA AppendedParts ==
  ASSUME NEW E, NEW s \in Seq(E), NEW x \in E
  PROVE  /\ Append(s, x) \in Seq(E) /\ Len(Append(s, x)) = Len(s) + 1
         /\ \A i \in 1..Len(s) : Append(s, x)[i] = s[i]
         /\ Append(s, x)[Len(s) + 1] = x
  OBVIOUS

LEMMA SwappedParts ==
  ASSUME NEW E, NEW s \in Seq(E), s # <<>>, NEW x \in E
  PROVE  /\ Append(Front(s), x) \in Seq(E) /\ Len(Append(Front(s), x)) = Len(s)
         /\ \A i \in 1..(Len(s) - 1) : Append(Front(s), x)[i] = s[i]
         /\ Append(Front(s), x)[Len(s)] = x
<1>1. PICK f \in Seq(E) : f = Front(s) /\ Len(f) = Len(s) - 1 /\ \A i \in 1..(Len(s) - 1) : f[i] = s[i]
  BY FrontOf
<1>2. /\ Append(f, x) \in Seq(E) /\ Len(Append(f, x)) = Len(f) + 1
      /\ \A i \in 1..Len(f) : Append(f, x)[i] = f[i]
      /\ Append(f, x)[Len(f) + 1] = x
  BY AppendedParts
<1>3. Len(f) + 1 = Len(s)
  <2>1. Len(s) \in Nat
    OBVIOUS
  <2> QED
    BY <1>1, <2>1
<1>4. PICK r : r = Append(f, x)
  OBVIOUS
<1>5. Len(f) = Len(s) - 1
  BY <1>1
<1>6. \A i \in 1..(Len(s) - 1) : r[i] = f[i]
  BY <1>2, <1>4, <1>5
<1>7. \A i \in 1..(Len(s) - 1) : r[i] = s[i]
  BY <1>1, <1>6
<1> QED
  BY <1>1, <1>2, <1>3, <1>4, <1>7

LEMMA TopOf ==
  ASSUME NEW E, NEW s \in Seq(E), s # <<>>
  PROVE  Last(s) \in E /\ Last(s) = s[Len(s)] /\ Len(s) \in Nat \ {0}
  BY DEF Last

\* What the directives do.
LEMMA Directives ==
  ASSUME NEW N \in Nests
  PROVE  /\ PushIf(N) = Nest(N.stack, Append(N.pp, Mark(N.stack, <<>>, FALSE)))
         /\ N.pp # <<>> =>
              LET top == Last(N.pp)
                  out == IF top.seenElse THEN top.beforeElse ELSE N.stack
              IN /\ TurnElse(N) = Nest(top.beforeIf, Append(Front(N.pp), Mark(top.beforeIf, out, TRUE)))
                 /\ PopIf(N) = Nest(out, Front(N.pp))
                 /\ top \in Marked /\ out \in Stacks
<1>1. PICK stack \in Stacks, pp \in Seq(Marked) : N = Nest(stack, pp) /\ stack = N.stack /\ pp = N.pp
  BY NestParts
<1>2. PushIf(N) = Nest(N.stack, Append(N.pp, Mark(N.stack, <<>>, FALSE)))
  <2>1. PICK c, q : c = Mark(stack, <<>>, FALSE) /\ q = Append(pp, c)
    OBVIOUS
  <2>2. [N EXCEPT !.pp = q] = Nest(stack, q)
    BY <1>1 DEF Nest
  <2>3. PushIf(N) = [N EXCEPT !.pp = q]
    BY <1>1, <2>1 DEF PushIf, Mark
  <2> QED
    BY <1>1, <2>1, <2>2, <2>3
<1>3. ASSUME pp # <<>>
      PROVE  LET top == Last(pp)
                 out == IF top.seenElse THEN top.beforeElse ELSE stack
             IN /\ TurnElse(N) = Nest(top.beforeIf, Append(Front(pp), Mark(top.beforeIf, out, TRUE)))
                /\ PopIf(N) = Nest(out, Front(pp))
                /\ top \in Marked /\ out \in Stacks
  <2>1. PICK top \in Marked : top = Last(pp)
    BY <1>3, TopOf
  <2>2. PICK i \in Stacks, e \in Stacks, s \in BOOLEAN :
          top = Mark(i, e, s) /\ i = top.beforeIf /\ e = top.beforeElse /\ s = top.seenElse
    BY MarkParts
  <2>3. PICK out \in Stacks : out = IF s THEN e ELSE stack
    OBVIOUS
  <2>4. PICK seen \in BOOLEAN : seen = TRUE
    OBVIOUS
  <2>5. [top EXCEPT !.seenElse = seen, !.beforeElse = stack] = Mark(i, stack, seen)
    <3>1. [top EXCEPT !.seenElse = seen, !.beforeElse = stack]
          = [[top EXCEPT !.seenElse = seen] EXCEPT !.beforeElse = stack]
      OBVIOUS
    <3>2. [top EXCEPT !.seenElse = seen] = Mark(i, e, seen)
      BY <2>2 DEF Mark
    <3>3. PICK d : d = Mark(i, e, seen)
      OBVIOUS
    <3>4. [d EXCEPT !.beforeElse = stack] = Mark(i, stack, seen)
      BY <3>3 DEF Mark
    <3> QED
      BY <3>1, <3>2, <3>3, <3>4
  <2>6. (IF top.seenElse THEN top ELSE [top EXCEPT !.seenElse = seen, !.beforeElse = stack])
        = Mark(i, out, seen)
    <3>1. CASE s
      BY <2>2, <2>3, <2>4, <3>1
    <3>2. CASE ~s
      BY <2>2, <2>3, <2>5, <3>2
    <3> QED
      BY <3>1, <3>2
  <2>7. TurnElse(N) = Nest(i, Append(Front(pp), Mark(i, out, seen)))
    BY <1>1, <2>1, <2>2, <2>4, <2>6 DEF TurnElse, Nest
  <2>8. PopIf(N) = Nest(out, Front(pp))
    BY <1>1, <2>1, <2>2, <2>3 DEF PopIf, Nest
  <2> QED
    BY <2>1, <2>2, <2>3, <2>4, <2>7, <2>8
<1> QED
  BY <1>1, <1>2, <1>3

\* The checkpoints of a nesting, one for each conditional that is open.
Track(N, o) ==
  /\ N \in Nests /\ o \in Seq(BOOLEAN) /\ Len(N.pp) = Len(o)
  /\ \A i \in 1..Len(o) : N.pp[i].seenElse <=> o[i]

\* What a directive does to them: P and u are the nesting and the branches behind it.
Held(N, o, m) == IF o[m] THEN N.pp[m].beforeElse ELSE N.stack
Same(N, o, P, u, m) == \A i \in 1..m : (u[i] <=> o[i]) /\ P.pp[i] = N.pp[i]
Pushes(N, o, P, u) ==
  Len(u) = Len(o) + 1 /\ Same(N, o, P, u, Len(o)) /\ ~u[Len(u)]
Turns(N, o, P, u) ==
  /\ o # <<>> /\ Len(u) = Len(o) /\ Same(N, o, P, u, Len(o) - 1)
  /\ u[Len(o)] /\ P.pp[Len(o)].beforeElse = Held(N, o, Len(o))
Pops(N, o, P, u) ==
  /\ o # <<>> /\ Len(u) = Len(o) - 1 /\ Same(N, o, P, u, Len(o) - 1)
  /\ P.pp = Front(N.pp) /\ P.stack = Held(N, o, Len(o))
Moves(N, o, P, u, s) ==
  \/ Starts(s, Ifs) /\ Pushes(N, o, P, u)
  \/ ~Starts(s, Ifs) /\ Starts(s, Elses) /\ Turns(N, o, P, u)
  \/ ~Starts(s, Ifs) /\ ~Starts(s, Elses) /\ Starts(s, Endifs) /\ Pops(N, o, P, u)
  \/ P = N /\ u = o

LEMMA TrackNext ==
  ASSUME NEW N, NEW o, Track(N, o), NEW s
  PROVE  LET P == UpdatePreprocessor(N, s)
             u == SkipStep(o, s)
         IN Track(P, u) /\ Moves(N, o, P, u, s)
<1>1. PICK stack \in Stacks, pp \in Seq(Marked) : N = Nest(stack, pp) /\ stack = N.stack /\ pp = N.pp
  BY NestParts DEF Track
<1>2. N \in Nests /\ o \in Seq(BOOLEAN) /\ Len(pp) = Len(o) /\ Len(o) \in Nat
  BY <1>1 DEF Track
<1>3. \A i \in 1..Len(o) : pp[i].seenElse <=> o[i]
  BY <1>1 DEF Track
<1>4. pp = <<>> <=> o = <<>>
  BY <1>2
<1>5. CASE Starts(s, Ifs)
  <2>1. PICK c \in Marked : c = Mark(stack, <<>>, FALSE)
    <3>1. <<>> \in Stacks /\ FALSE \in BOOLEAN
      BY DEF Stacks
    <3> QED
      BY <3>1, MarkMade
  <2>2. PICK q \in Seq(Marked) : q = Append(pp, c) /\ Len(q) = Len(pp) + 1
                                 /\ (\A i \in 1..Len(pp) : q[i] = pp[i]) /\ q[Len(pp) + 1] = c
    BY AppendedParts
  <2>3. PICK v \in BOOLEAN : v = FALSE
    OBVIOUS
  <2>4. PICK r \in Seq(BOOLEAN) : r = Append(o, v) /\ Len(r) = Len(o) + 1
                                 /\ (\A i \in 1..Len(o) : r[i] = o[i]) /\ r[Len(o) + 1] = v
    BY <1>2, AppendedParts
  <2>5. UpdatePreprocessor(N, s) = Nest(stack, q) /\ SkipStep(o, s) = r
    BY <1>1, <1>2, <1>5, <2>1, <2>2, <2>3, <2>4, Directives DEF UpdatePreprocessor, SkipStep
  <2>6. ~c.seenElse
    BY <2>1 DEF Mark
  <2>7. \A i \in 1..Len(r) : q[i].seenElse <=> r[i]
    <3> SUFFICES ASSUME NEW i \in 1..Len(r) PROVE q[i].seenElse <=> r[i]
      OBVIOUS
    <3>1. i \in 1..Len(o) \/ i = Len(o) + 1
      BY <1>2, <2>4
    <3> QED
      BY <1>2, <1>3, <2>2, <2>3, <2>4, <2>6, <3>1
  <2>8. Nest(stack, q) \in Nests /\ Nest(stack, q).pp = q
    BY NestMade DEF Nest
  <2>9. PICK P \in Nests : P = Nest(stack, q) /\ P.pp = q
    BY <2>8
  <2>10. Track(P, r)
    BY <1>2, <2>2, <2>4, <2>7, <2>9 DEF Track
  <2>11. Pushes(N, o, P, r)
    <3>1. Same(N, o, P, r, Len(o))
      BY <1>1, <1>2, <2>2, <2>4, <2>9 DEF Same
    <3>2. Len(r) = Len(o) + 1 /\ ~r[Len(r)]
      BY <2>3, <2>4
    <3> QED
      BY <3>1, <3>2 DEF Pushes
  <2> QED
    BY <1>5, <2>5, <2>9, <2>10, <2>11 DEF Moves
<1>6. CASE ~Starts(s, Ifs) /\ o = <<>>
  BY <1>1, <1>4, <1>6 DEF UpdatePreprocessor, SkipStep, Moves
<1>7. CASE ~Starts(s, Ifs) /\ o # <<>> /\ Starts(s, Elses)
  <2>1. PICK top \in Marked, out \in Stacks :
          /\ TurnElse(N) = Nest(top.beforeIf, Append(Front(pp), Mark(top.beforeIf, out, TRUE)))
          /\ top = Last(pp) /\ out = IF top.seenElse THEN top.beforeElse ELSE stack
    BY <1>1, <1>2, <1>4, <1>7, Directives
  <2>2. PICK i0 \in Stacks : i0 = top.beforeIf
    BY MarkParts
  <2>3. PICK v \in BOOLEAN : v = TRUE
    OBVIOUS
  <2>4. PICK c \in Marked : c = Mark(i0, out, v)
    BY MarkMade
  <2>5. PICK q \in Seq(Marked) : q = Append(Front(pp), c) /\ Len(q) = Len(pp)
                                 /\ (\A i \in 1..(Len(pp) - 1) : q[i] = pp[i]) /\ q[Len(pp)] = c
    BY <1>4, <1>7, SwappedParts
  <2>6. PICK r \in Seq(BOOLEAN) : r = Append(Front(o), v) /\ Len(r) = Len(o)
                                 /\ (\A i \in 1..(Len(o) - 1) : r[i] = o[i]) /\ r[Len(o)] = v
    BY <1>2, <1>7, SwappedParts
  <2>7. UpdatePreprocessor(N, s) = Nest(i0, q) /\ SkipStep(o, s) = r
    BY <1>1, <1>4, <1>7, <2>1, <2>2, <2>3, <2>4, <2>5, <2>6 DEF UpdatePreprocessor, SkipStep
  <2>8. c.seenElse
    BY <2>3, <2>4 DEF Mark
  <2>9. \A i \in 1..Len(r) : q[i].seenElse <=> r[i]
    <3> SUFFICES ASSUME NEW i \in 1..Len(r) PROVE q[i].seenElse <=> r[i]
      OBVIOUS
    <3>1. i \in 1..(Len(o) - 1) \/ i = Len(o)
      BY <1>2, <2>6
    <3>2. i \in 1..(Len(o) - 1) => i \in 1..Len(o) /\ i \in 1..(Len(pp) - 1)
      BY <1>2
    <3>3. CASE i = Len(o)
      <4>1. q[i] = c /\ r[i] = v
        BY <1>2, <2>5, <2>6, <3>3
      <4> QED
        BY <2>3, <2>8, <4>1
    <3>4. CASE i \in 1..(Len(o) - 1)
      BY <1>3, <2>5, <2>6, <3>2, <3>4
    <3> QED
      BY <3>1, <3>3, <3>4
  <2>10. Nest(i0, q) \in Nests /\ Nest(i0, q).pp = q
    BY NestMade DEF Nest
  <2>11. PICK P \in Nests : P = Nest(i0, q) /\ P.pp = q
    BY <2>10
  <2>12. Track(P, r)
    BY <1>2, <2>5, <2>6, <2>9, <2>11 DEF Track
  <2>13. Turns(N, o, P, r)
    <3>1. Same(N, o, P, r, Len(o) - 1)
      <4>1. \A i \in 1..(Len(o) - 1) : i \in 1..(Len(pp) - 1)
        BY <1>2
      <4> QED
        BY <1>1, <1>2, <2>5, <2>6, <2>11, <4>1 DEF Same
    <3>2. q[Len(o)] = c /\ c.beforeElse = out
      BY <1>2, <2>4, <2>5 DEF Mark
    <3>3. out = Held(N, o, Len(o))
      <4>1. Len(o) \in 1..Len(o) /\ top = pp[Len(o)]
        BY <1>2, <1>4, <1>7, <2>1, TopOf
      <4>2. top.seenElse <=> o[Len(o)]
        BY <1>3, <4>1
      <4> QED
        BY <1>1, <2>1, <4>1, <4>2 DEF Held
    <3>4. r[Len(o)]
      BY <2>3, <2>6
    <3> QED
      BY <1>7, <2>6, <2>11, <3>1, <3>2, <3>3, <3>4 DEF Turns
  <2> QED
    BY <1>7, <2>7, <2>11, <2>12, <2>13 DEF Moves
<1>8. CASE ~Starts(s, Ifs) /\ o # <<>> /\ ~Starts(s, Elses) /\ Starts(s, Endifs)
  <2>1. PICK top \in Marked, out \in Stacks :
          /\ PopIf(N) = Nest(out, Front(pp))
          /\ top = Last(pp) /\ out = IF top.seenElse THEN top.beforeElse ELSE stack
    BY <1>1, <1>2, <1>4, <1>8, Directives
  <2>2. PICK q \in Seq(Marked) : q = Front(pp) /\ Len(q) = Len(pp) - 1
                                 /\ \A i \in 1..(Len(pp) - 1) : q[i] = pp[i]
    BY <1>4, <1>8, FrontOf
  <2>3. PICK r \in Seq(BOOLEAN) : r = Front(o) /\ Len(r) = Len(o) - 1
                                 /\ \A i \in 1..(Len(o) - 1) : r[i] = o[i]
    BY <1>2, <1>8, FrontOf
  <2>4. UpdatePreprocessor(N, s) = Nest(out, q) /\ SkipStep(o, s) = r
    BY <1>1, <1>4, <1>8, <2>1, <2>2, <2>3 DEF UpdatePreprocessor, SkipStep
  <2>5. \A i \in 1..Len(r) : q[i].seenElse <=> r[i]
    <3> SUFFICES ASSUME NEW i \in 1..Len(r) PROVE q[i].seenElse <=> r[i]
      OBVIOUS
    <3>1. i \in 1..(Len(o) - 1) /\ i \in 1..Len(o) /\ i \in 1..(Len(pp) - 1)
      BY <1>2, <2>3
    <3> QED
      BY <1>3, <2>2, <2>3, <3>1
  <2>6. Nest(out, q) \in Nests /\ Nest(out, q).pp = q
    BY NestMade DEF Nest
  <2>7. PICK P \in Nests : P = Nest(out, q) /\ P.pp = q /\ P.stack = out
    BY <2>6 DEF Nest
  <2>8. Track(P, r)
    BY <1>2, <2>2, <2>3, <2>5, <2>7 DEF Track
  <2>9. Pops(N, o, P, r)
    <3>1. Same(N, o, P, r, Len(o) - 1)
      <4>1. \A i \in 1..(Len(o) - 1) : i \in 1..(Len(pp) - 1)
        BY <1>2
      <4> QED
        BY <1>1, <1>2, <2>2, <2>3, <2>7, <4>1 DEF Same
    <3>2. out = Held(N, o, Len(o))
      <4>1. Len(o) \in 1..Len(o) /\ top = pp[Len(o)]
        BY <1>2, <1>4, <1>8, <2>1, TopOf
      <4>2. top.seenElse <=> o[Len(o)]
        BY <1>3, <4>1
      <4> QED
        BY <1>1, <2>1, <4>1, <4>2 DEF Held
    <3> QED
      BY <1>1, <1>8, <2>2, <2>3, <2>7, <3>1, <3>2 DEF Pops
  <2> QED
    BY <1>8, <2>4, <2>7, <2>8, <2>9 DEF Moves
<1>9. CASE ~Starts(s, Ifs) /\ ~Starts(s, Elses) /\ ~Starts(s, Endifs)
  BY <1>9 DEF UpdatePreprocessor, SkipStep, Moves
<1> QED
  BY <1>5, <1>6, <1>7, <1>8, <1>9

-----------------------------------------------------------------------------
(* The branches that count.                                              *)

\* Update is the directive, the parentheses, and the rest.
LEMMA UpdateIs ==
  ASSUME NEW N \in Nests, NEW P \in Nests, NEW ls, NEW n, P = UpdatePreprocessor(N, ls[n])
  PROVE  Update(N, ls, n) = Nest(Inner(CountParentheses(P.stack, ls[n]), ls, n), P.pp)
<1>1. PICK stack, pp : P = Nest(stack, pp) /\ stack = P.stack /\ pp = P.pp
  BY NestParts
<1>2. PICK x : x = Inner(CountParentheses(stack, ls[n]), ls, n)
  OBVIOUS
<1>3. [P EXCEPT !.stack = x] = Nest(x, pp)
  BY <1>1 DEF Nest
<1>4. Update(N, ls, n) = [P EXCEPT !.stack = x]
  BY <1>1, <1>2 DEF Update, Inner
<1> QED
  BY <1>1, <1>2, <1>3, <1>4

LEMMA UpdateTyped ==
  ASSUME NEW N, NEW o, Track(N, o), NEW ls \in Seq(Seq(Coded)), NEW n \in 1..Len(ls)
  PROVE  LET P == UpdatePreprocessor(N, ls[n])
             u == SkipStep(o, ls[n])
         IN /\ Track(P, u) /\ Moves(N, o, P, u, ls[n])
            /\ Update(N, ls, n) = Nest(Inner(CountParentheses(P.stack, ls[n]), ls, n), P.pp)
            /\ Update(N, ls, n) \in Nests /\ Update(N, ls, n).pp = P.pp
            /\ Track(Update(N, ls, n), u)
<1>1. PICK s \in Seq(Coded) : s = ls[n]
  OBVIOUS
<1>2. PICK P, u : P = UpdatePreprocessor(N, s) /\ u = SkipStep(o, s)
  OBVIOUS
<1>3. Track(P, u) /\ Moves(N, o, P, u, s)
  BY <1>2, TrackNext
<1>4. N \in Nests /\ P \in Nests
  BY <1>3 DEF Track
<1>5. P.stack \in Stacks /\ P.pp \in Seq(Marked)
  BY <1>4, NestParts
<1>6. PICK a \in Stacks : a = CountParentheses(P.stack, s)
  BY <1>5, CountSettles
<1>7. PICK x \in Stacks : x = Inner(a, ls, n)
  BY InnerTyped
<1>8. Update(N, ls, n) = Nest(x, P.pp)
  BY <1>1, <1>2, <1>4, <1>6, <1>7, UpdateIs
<1>9. PICK M \in Nests : M = Nest(x, P.pp) /\ M.pp = P.pp
  BY <1>5, NestMade DEF Nest
<1>10. Track(M, u)
  BY <1>3, <1>9 DEF Track
<1> QED
  BY <1>1, <1>2, <1>3, <1>6, <1>7, <1>8, <1>9, <1>10

\* An empty line.
LEMMA UpdateEmpty ==
  ASSUME NEW R \in Nests, NEW ks, NEW n, ks[n] = <<>>
  PROVE  /\ Update(R, ks, n) = Nest(Calm(R.stack), R.pp)
         /\ Calm(R.stack) \in Stacks /\ Nest(Calm(R.stack), R.pp) \in Nests
<1>1. PICK s \in Seq(Coded) : s = <<>>
  <2>1. <<>> \in Seq(Coded)
    OBVIOUS
  <2> QED
    BY <2>1
<1>2. UpdatePreprocessor(R, s) = R
  BY <1>1 DEF UpdatePreprocessor, Starts
<1>3. Update(R, ks, n) = Nest(Inner(CountParentheses(R.stack, ks[n]), ks, n), R.pp)
  BY <1>1, <1>2, UpdateIs
<1>4. R.stack \in Stacks /\ R.pp \in Seq(Marked)
  BY NestParts
<1>5. PICK x \in Stacks : x = Calm(R.stack) /\ x = CountParentheses(R.stack, s)
  BY <1>1, <1>4, CountSettles DEF Calm
<1>6. Inner(x, ks, n) = x
  BY InnerEmpty
<1> QED
  BY <1>1, <1>3, <1>4, <1>5, <1>6, NestMade

\* The nestings of a file, N, and of the file without the parts behind #else, R.
AllFirst(o) == \A i \in 1..Len(o) : ~o[i]
Turned(N, R, o, m) ==
  /\ m \in 1..Len(o) /\ o[m] /\ (\A i \in 1..(m - 1) : ~o[i])
  /\ R.stack = Calm(N.pp[m].beforeElse)
  /\ Len(R.pp) = m /\ ~R.pp[m].seenElse /\ \A i \in 1..(m - 1) : R.pp[i] = N.pp[i]
Paired(N, R, o) ==
  /\ Track(N, o) /\ R \in Nests
  /\ IF AllFirst(o) THEN R = N ELSE \E m \in 1..Len(o) : Turned(N, R, o, m)

\* In a branch that counts they are the same.
LEMMA FirstGoesOn ==
  ASSUME NEW N, NEW o, Paired(N, N, o), AllFirst(o),
         NEW ls \in Seq(Seq(Coded)), NEW ks \in Seq(Seq(Coded)),
         NEW n \in 1..Len(ls), n \in 1..Len(ks), ks[n] = ls[n], ~SplitOn(ls[n])
  PROVE  Update(N, ls, n) = Update(N, ks, n)
<1>1. Track(N, o) /\ N \in Nests
  BY DEF Paired, Track
<1>2. PICK s \in Seq(Coded) : s = ls[n] /\ s = ks[n]
  OBVIOUS
<1>3. PICK P \in Nests : P = UpdatePreprocessor(N, s)
  BY <1>1, TrackNext DEF Track
<1>4. PICK a \in Stacks : a = CountParentheses(P.stack, s)
  BY NestParts, CountSettles
<1>5. Inner(a, ls, n) = Inner(a, ks, n)
  BY InnerAlike
<1>6. Update(N, ls, n) = Nest(Inner(a, ls, n), P.pp)
  BY <1>1, <1>2, <1>3, <1>4, UpdateIs
<1>7. Update(N, ks, n) = Nest(Inner(a, ks, n), P.pp)
  BY <1>1, <1>2, <1>3, <1>4, UpdateIs
<1> QED
  BY <1>5, <1>6, <1>7

\* #else puts the one aside and leaves the other.
LEMMA FirstTurns ==
  ASSUME NEW N, NEW o, Track(N, o), AllFirst(o), NEW M, NEW u, Track(M, u), NEW P, NEW s,
         M.pp = P.pp, Moves(N, o, P, u, s), ~AllFirst(u), NEW R \in Nests,
         R = Nest(Calm(N.stack), N.pp)
  PROVE  Paired(M, R, u)
<1>1. /\ N \in Nests /\ o \in Seq(BOOLEAN) /\ Len(N.pp) = Len(o) /\ Len(o) \in Nat
      /\ \A i \in 1..Len(o) : (N.pp[i].seenElse <=> o[i])
  BY DEF Track
<1>2. \A i \in 1..Len(o) : ~o[i]
  BY DEF AllFirst
<1>3. PICK k \in 1..Len(u) : u[k]
  BY DEF AllFirst
<1>4. u \in Seq(BOOLEAN) /\ Len(u) \in Nat
  BY DEF Track
<1>5. ~Pushes(N, o, P, u)
  <2> SUFFICES ASSUME Pushes(N, o, P, u) PROVE FALSE
    OBVIOUS
  <2>1. k \in 1..Len(o) \/ k = Len(u)
    BY <1>1, <1>3 DEF Pushes
  <2> QED
    BY <1>2, <1>3, <2>1 DEF Pushes, Same
<1>6. ~Pops(N, o, P, u)
  <2> SUFFICES ASSUME Pops(N, o, P, u) PROVE FALSE
    OBVIOUS
  <2>1. k \in 1..(Len(o) - 1) /\ k \in 1..Len(o)
    BY <1>1, <1>3 DEF Pops
  <2> QED
    BY <1>2, <1>3, <2>1 DEF Pops, Same
<1>7. u # o
  BY <1>2, <1>3
<1>8. Turns(N, o, P, u)
  BY <1>5, <1>6, <1>7 DEF Moves
<1>9. PICK m \in Nat \ {0} : m = Len(o) /\ m \in 1..Len(u) /\ m \in 1..Len(o)
  <2>1. Len(o) # 0
    BY <1>1, <1>8 DEF Turns
  <2> QED
    BY <1>1, <1>8, <2>1 DEF Turns
<1>10. u[m] /\ P.pp[m].beforeElse = N.stack
  BY <1>2, <1>8, <1>9 DEF Turns, Held
<1>11. \A i \in 1..(m - 1) : ~u[i] /\ P.pp[i] = N.pp[i]
  <2> SUFFICES ASSUME NEW i \in 1..(m - 1) PROVE ~u[i] /\ P.pp[i] = N.pp[i]
    OBVIOUS
  <2>1. i \in 1..Len(o) /\ i \in 1..(Len(o) - 1)
    BY <1>9
  <2> QED
    BY <1>2, <1>8, <2>1 DEF Turns, Same
<1>12. R.stack = Calm(N.stack) /\ R.pp = N.pp
  BY DEF Nest
<1>13. ~N.pp[m].seenElse
  BY <1>1, <1>2, <1>9
<1>14. Turned(M, R, u, m)
  BY <1>1, <1>9, <1>10, <1>11, <1>12, <1>13 DEF Turned
<1> QED
  BY <1>9, <1>14 DEF Paired

\* Up to its #endif the one stays where it is.
LEMMA TurnedStays ==
  ASSUME NEW N, NEW o, Track(N, o), NEW M, NEW u, Track(M, u), NEW P, NEW s,
         M.pp = P.pp, Moves(N, o, P, u, s), NEW Q \in Nests, NEW m, Turned(N, Q, o, m),
         ~AllFirst(u), NEW R \in Nests, R = Nest(Calm(Q.stack), Q.pp)
  PROVE  Paired(M, R, u)
<1>1. /\ N \in Nests /\ o \in Seq(BOOLEAN) /\ Len(N.pp) = Len(o) /\ Len(o) \in Nat
      /\ \A i \in 1..Len(o) : (N.pp[i].seenElse <=> o[i])
  BY DEF Track
<1>2. /\ m \in 1..Len(o) /\ o[m] /\ (\A i \in 1..(m - 1) : ~o[i])
      /\ Q.stack = Calm(N.pp[m].beforeElse)
      /\ Len(Q.pp) = m /\ ~Q.pp[m].seenElse /\ \A i \in 1..(m - 1) : Q.pp[i] = N.pp[i]
  BY DEF Turned
<1>3. PICK k \in 1..Len(u) : u[k]
  BY DEF AllFirst
<1>4. Len(u) \in Nat
  BY DEF Track
<1>5. /\ m \in 1..Len(u) /\ u[m] /\ P.pp[m].beforeElse = N.pp[m].beforeElse
      /\ \A i \in 1..(m - 1) : ~u[i] /\ P.pp[i] = N.pp[i]
  <2>1. ASSUME Pushes(N, o, P, u) \/ (P = N /\ u = o)
        PROVE  m \in 1..Len(u) /\ Same(N, o, P, u, Len(o))
    BY <1>1, <1>2, <2>1 DEF Pushes, Same
  <2>2. CASE Pushes(N, o, P, u) \/ (P = N /\ u = o)
    <3>1. \A i \in 1..(m - 1) : i \in 1..Len(o)
      BY <1>1, <1>2
    <3> QED
      BY <1>2, <2>1, <2>2, <3>1 DEF Same
  <2>3. ASSUME Turns(N, o, P, u) \/ Pops(N, o, P, u), m # Len(o)
        PROVE  m \in 1..Len(u) /\ m \in 1..(Len(o) - 1) /\ Same(N, o, P, u, Len(o) - 1)
    BY <1>1, <1>2, <1>4, <2>3 DEF Turns, Pops
  <2>4. CASE (Turns(N, o, P, u) \/ Pops(N, o, P, u)) /\ m # Len(o)
    <3>1. \A i \in 1..(m - 1) : i \in 1..(Len(o) - 1)
      BY <1>1, <1>2
    <3> QED
      BY <1>2, <2>3, <2>4, <3>1 DEF Same
  <2>5. CASE Turns(N, o, P, u) /\ m = Len(o)
    <3>1. \A i \in 1..(m - 1) : i \in 1..(Len(o) - 1)
      BY <1>1, <1>2, <2>5
    <3>2. m \in 1..Len(u) /\ u[m] /\ P.pp[m].beforeElse = N.pp[m].beforeElse
      BY <1>2, <2>5 DEF Turns, Held
    <3> QED
      BY <1>2, <2>5, <3>1, <3>2 DEF Turns, Same
  <2>6. CASE Pops(N, o, P, u) /\ m = Len(o)
    <3>1. k \in 1..(m - 1) /\ k \in 1..(Len(o) - 1)
      BY <1>1, <1>2, <1>3, <2>6 DEF Pops
    <3> QED
      BY <1>2, <1>3, <2>6, <3>1 DEF Pops, Same
  <2> QED
    BY <2>2, <2>4, <2>5, <2>6 DEF Moves
<1>6. R.stack = Calm(Q.stack) /\ R.pp = Q.pp
  BY DEF Nest
<1>7. Calm(Q.stack) = Q.stack
  <2>1. N.pp \in Seq(Marked) /\ m \in 1..Len(N.pp)
    BY <1>1, <1>2, NestParts
  <2>2. PICK e \in Stacks : e = N.pp[m].beforeElse
    <3>1. N.pp[m] \in Marked
      BY <2>1
    <3> QED
      BY <3>1, MarkParts
  <2>3. PICK none \in Seq(Coded) : none = <<>>
    <3>1. <<>> \in Seq(Coded)
      OBVIOUS
    <3> QED
      BY <3>1
  <2>4. CountParentheses(Calm(e), none) = CountParentheses(e, none)
    BY CalmCounts
  <2> QED
    BY <1>2, <2>2, <2>3, <2>4 DEF Calm
<1>8. Turned(M, R, u, m)
  BY <1>2, <1>5, <1>6, <1>7 DEF Turned
<1> QED
  BY <1>5, <1>8 DEF Paired

\* The #endif brings them together.
LEMMA TurnedEnds ==
  ASSUME NEW N, NEW o, Track(N, o), NEW Q \in Nests, NEW m, Turned(N, Q, o, m),
         NEW ls \in Seq(Seq(Coded)), NEW ks \in Seq(Seq(Coded)),
         NEW n \in 1..Len(ls), n \in 1..Len(ks), ks[n] = ls[n], ~SplitOn(ls[n]),
         AllFirst(SkipStep(o, ls[n]))
  PROVE  Update(N, ls, n) = Update(Q, ks, n)
<1>1. /\ N \in Nests /\ o \in Seq(BOOLEAN) /\ Len(N.pp) = Len(o) /\ Len(o) \in Nat
      /\ \A i \in 1..Len(o) : (N.pp[i].seenElse <=> o[i])
  BY DEF Track
<1>2. /\ m \in 1..Len(o) /\ o[m] /\ (\A i \in 1..(m - 1) : ~o[i])
      /\ Q.stack = Calm(N.pp[m].beforeElse)
      /\ Len(Q.pp) = m /\ ~Q.pp[m].seenElse /\ \A i \in 1..(m - 1) : Q.pp[i] = N.pp[i]
  BY DEF Turned
<1> PICK s \in Seq(Coded) : s = ls[n]
  OBVIOUS
<1>3. PICK u, P : /\ s = ls[n] /\ s = ks[n]
                  /\ u = SkipStep(o, s) /\ P = UpdatePreprocessor(N, s)
  OBVIOUS
<1>4. Track(P, u) /\ Moves(N, o, P, u, s)
  BY <1>3, TrackNext
<1>5. (\A i \in 1..Len(u) : ~u[i]) /\ Len(u) \in Nat
  BY <1>3, <1>4 DEF AllFirst, Track
<1>6. ~Pushes(N, o, P, u) /\ u # o
  <2>1. Pushes(N, o, P, u) => m \in 1..Len(u) /\ u[m]
    BY <1>1, <1>2 DEF Pushes, Same
  <2> QED
    BY <1>2, <1>5, <2>1
<1>7. ~Turns(N, o, P, u)
  <2> SUFFICES ASSUME Turns(N, o, P, u) PROVE FALSE
    OBVIOUS
  <2>1. Len(o) \in 1..Len(u) /\ u[Len(o)]
    BY <1>1, <1>2 DEF Turns
  <2> QED
    BY <1>5, <2>1
<1>8. /\ ~Starts(s, Ifs) /\ ~Starts(s, Elses) /\ Starts(s, Endifs)
      /\ Pops(N, o, P, u)
  BY <1>4, <1>6, <1>7 DEF Moves
<1>9. m = Len(o)
  <2> SUFFICES ASSUME m # Len(o) PROVE FALSE
    OBVIOUS
  <2>1. m \in 1..(Len(o) - 1) /\ m \in 1..Len(u)
    BY <1>1, <1>2, <1>8 DEF Pops
  <2> QED
    BY <1>2, <1>5, <1>8, <2>1 DEF Pops, Same
<1>10. N.pp \in Seq(Marked) /\ Q.pp \in Seq(Marked)
  BY <1>1, NestParts
<1>11. PICK e \in Stacks : e = N.pp[m].beforeElse /\ P.stack = e /\ Q.stack = Calm(e)
  <2>1. N.pp[m] \in Marked
    BY <1>1, <1>2, <1>10
  <2>2. N.pp[m].beforeElse \in Stacks
    BY <2>1, MarkParts
  <2>3. P.stack = N.pp[m].beforeElse
    BY <1>2, <1>8, <1>9 DEF Pops, Held
  <2> QED
    BY <1>2, <2>2, <2>3
<1>12. Front(Q.pp) = Front(N.pp)
  <2>1. N.pp # <<>> /\ Q.pp # <<>>
    BY <1>1, <1>2, <1>10
  <2>2. PICK a \in Seq(Marked) : /\ a = Front(N.pp) /\ Len(a) = Len(N.pp) - 1
                                 /\ \A i \in 1..(Len(N.pp) - 1) : a[i] = N.pp[i]
    BY <1>10, <2>1, FrontOf
  <2>3. PICK b \in Seq(Marked) : /\ b = Front(Q.pp) /\ Len(b) = Len(Q.pp) - 1
                                 /\ \A i \in 1..(Len(Q.pp) - 1) : b[i] = Q.pp[i]
    BY <1>10, <2>1, FrontOf
  <2>4. Len(a) = Len(b) /\ \A i \in 1..Len(a) : a[i] = b[i]
    BY <1>1, <1>2, <1>9, <2>2, <2>3
  <2>5. a = b
    BY <2>4, SeqEqual
  <2> QED
    BY <2>2, <2>3, <2>5
<1>13. P.pp = Front(N.pp)
  BY <1>8 DEF Pops
<1>14. PICK O \in Nests : O = UpdatePreprocessor(Q, s) /\ O.stack = Q.stack /\ O.pp = Front(Q.pp)
  <2>1. Q.pp # <<>>
    BY <1>2, <1>10
  <2>2. PICK top : top = Last(Q.pp) /\ top = Q.pp[m]
    BY <1>2, <1>10, <2>1, TopOf
  <2>3. PopIf(Q) = Nest(Q.stack, Front(Q.pp))
    BY <1>2, <2>1, <2>2, Directives
  <2>4. UpdatePreprocessor(Q, s) = Nest(Q.stack, Front(Q.pp))
    BY <1>8, <2>1, <2>3 DEF UpdatePreprocessor
  <2>5. Q.stack \in Stacks /\ Front(Q.pp) \in Seq(Marked)
    BY <1>10, <2>1, FrontOf, NestParts
  <2>6. Nest(Q.stack, Front(Q.pp)) \in Nests
    BY <2>5, NestMade
  <2>7. Nest(Q.stack, Front(Q.pp)).stack = Q.stack /\ Nest(Q.stack, Front(Q.pp)).pp = Front(Q.pp)
    BY DEF Nest
  <2> QED
    BY <2>4, <2>6, <2>7
<1>15. PICK a \in Stacks : a = CountParentheses(e, s) /\ a = CountParentheses(Calm(e), s)
  BY CalmCounts, CountSettles
<1>16. Inner(a, ls, n) = Inner(a, ks, n)
  BY InnerAlike
<1>17. P \in Nests
  BY <1>4 DEF Track
<1>18. Update(N, ls, n) = Nest(Inner(a, ls, n), P.pp)
  <2>1. N \in Nests /\ P \in Nests /\ P = UpdatePreprocessor(N, ls[n])
    BY <1>1, <1>3, <1>17
  <2>2. Update(N, ls, n) = Nest(Inner(CountParentheses(P.stack, ls[n]), ls, n), P.pp)
    BY <2>1, UpdateIs
  <2> QED
    BY <1>3, <1>11, <1>15, <2>2
<1>19. Update(Q, ks, n) = Nest(Inner(a, ks, n), O.pp)
  BY <1>3, <1>11, <1>14, <1>15, UpdateIs
<1> QED
  BY <1>12, <1>13, <1>14, <1>16, <1>18, <1>19

LEMMA PairedNext ==
  ASSUME NEW N, NEW R, NEW o, Paired(N, R, o),
         NEW ls \in Seq(Seq(Coded)), NEW ks \in Seq(Seq(Coded)),
         NEW n \in 1..Len(ls), n \in 1..Len(ks), ~SplitOn(ls[n]),
         ks[n] = IF AllFirst(SkipStep(o, ls[n])) THEN ls[n] ELSE <<>>
  PROVE  Paired(Update(N, ls, n), Update(R, ks, n), SkipStep(o, ls[n]))
<1>1. PICK s, u, P, M : /\ s = ls[n] /\ u = SkipStep(o, s) /\ P = UpdatePreprocessor(N, s)
                        /\ M = Update(N, ls, n)
  OBVIOUS
<1>2. Track(N, o) /\ R \in Nests
  BY DEF Paired
<1>3. Track(M, u) /\ Moves(N, o, P, u, s) /\ M.pp = P.pp /\ M \in Nests
  BY <1>1, <1>2, UpdateTyped
<1>4. CASE AllFirst(u)
  <2>1. M = Update(R, ks, n)
    <3>1. CASE AllFirst(o)
      <4>1. R = N
        BY <3>1 DEF Paired
      <4>2. Update(N, ls, n) = Update(N, ks, n)
        BY <1>1, <1>4, <3>1, <4>1, FirstGoesOn
      <4> QED
        BY <1>1, <4>1, <4>2
    <3>2. CASE ~AllFirst(o)
      <4>1. PICK m \in 1..Len(o) : Turned(N, R, o, m)
        BY <3>2 DEF Paired
      <4>2. Update(N, ls, n) = Update(R, ks, n)
        BY <1>1, <1>2, <1>4, <4>1, TurnedEnds
      <4> QED
        BY <1>1, <4>2
    <3> QED
      BY <3>1, <3>2
  <2>2. Paired(M, M, u)
    BY <1>3, <1>4 DEF Paired
  <2> QED
    BY <1>1, <2>1, <2>2
<1>5. CASE ~AllFirst(u)
  <2>1. PICK S \in Nests : S = Update(R, ks, n) /\ S = Nest(Calm(R.stack), R.pp)
    BY <1>1, <1>2, <1>5, UpdateEmpty
  <2>2. Paired(M, S, u)
    <3>1. CASE AllFirst(o)
      <4>1. R = N
        BY <3>1 DEF Paired
      <4> QED
        BY <1>2, <1>3, <1>5, <2>1, <3>1, <4>1, FirstTurns
    <3>2. CASE ~AllFirst(o)
      <4>1. PICK m \in 1..Len(o) : Turned(N, R, o, m)
        BY <3>2 DEF Paired
      <4> QED
        BY <1>2, <1>3, <1>5, <2>1, <4>1, TurnedStays
    <3> QED
      BY <3>1, <3>2
  <2> QED
    BY <1>1, <2>1, <2>2
<1> QED
  BY <1>4, <1>5

LEMMA FirstInRange ==
  ASSUME NEW u \in Seq(BOOLEAN)
  PROVE  TRUE \in Range(u) <=> ~AllFirst(u)
<1>1. DOMAIN u = 1..Len(u) /\ \A i \in 1..Len(u) : u[i] \in BOOLEAN
  OBVIOUS
<1>2. ASSUME TRUE \in Range(u) PROVE ~AllFirst(u)
  <2>1. PICK i \in 1..Len(u) : u[i] = TRUE
    BY <1>1, <1>2 DEF Range
  <2>2. u[i]
    BY <2>1
  <2> QED
    BY <2>2 DEF AllFirst
<1>3. ASSUME ~AllFirst(u) PROVE TRUE \in Range(u)
  <2>1. PICK i \in 1..Len(u) : u[i]
    BY <1>3 DEF AllFirst
  <2>2. u[i] = TRUE
    BY <1>1, <2>1
  <2>3. u[i] \in Range(u)
    BY <1>1 DEF Range
  <2> QED
    BY <2>2, <2>3
<1> QED
  BY <1>2, <1>3

\* Line by line, the nesting of a file and that of its first branches.
LEMMA BranchesPaired ==
  ASSUME NEW ls \in Seq(Seq(Coded)), NEW ks, ks = FirstBranches(ls),
         \A n \in 1..Len(ls) : ~SplitOn(ls[n])
  PROVE  \A n \in Nat : n <= Len(ls) => Paired(NestOf(ls, n), NestOf(ks, n), Branches(ls, n))
<1> DEFINE S == {n \in Nat : n <= Len(ls) => Paired(NestOf(ls, n), NestOf(ks, n), Branches(ls, n))}
<1>1. Len(ls) \in Nat /\ DOMAIN ls = 1..Len(ls)
  OBVIOUS
<1>2. ks = [i \in 1..Len(ls) |-> IF Skipped(ls, i) THEN <<>> ELSE ls[i]]
  BY <1>1 DEF FirstBranches
<1>3. ks \in Seq(Seq(Coded)) /\ Len(ks) = Len(ls)
  <2>1. <<>> \in Seq(Coded)
    OBVIOUS
  <2> QED
    BY <1>1, <1>2, <2>1
<1>4. 0 \in S
  <2>1. PICK N, o : N = Nest(<<>>, <<>>) /\ o = <<>>
    OBVIOUS
  <2>2. NestOf(ls, 0) = N /\ NestOf(ks, 0) = N /\ Branches(ls, 0) = o
    BY <2>1, NestNext, SkipNext DEF NoNesting, Nest
  <2>3. N \in Nests /\ N.pp = <<>>
    <3>1. <<>> \in Stacks /\ <<>> \in Seq(Marked)
      BY DEF Stacks
    <3> QED
      BY <2>1, <3>1, NestMade DEF Nest
  <2>4. o \in Seq(BOOLEAN) /\ Len(o) = 0
    BY <2>1
  <2>5. Paired(N, N, o)
    BY <2>1, <2>3, <2>4 DEF Paired, Track, AllFirst
  <2> QED
    BY <2>2, <2>5
<1>5. ASSUME NEW n \in Nat, n \in S PROVE n + 1 \in S
  <2> SUFFICES ASSUME n + 1 <= Len(ls)
               PROVE  Paired(NestOf(ls, n + 1), NestOf(ks, n + 1), Branches(ls, n + 1))
    OBVIOUS
  <2>1. PICK k \in 1..Len(ls) : k = n + 1 /\ k \in 1..Len(ks)
    BY <1>1, <1>3
  <2>2. PICK N, R, o : N = NestOf(ls, n) /\ R = NestOf(ks, n) /\ o = Branches(ls, n)
    OBVIOUS
  <2>3. Paired(N, R, o)
    BY <1>5, <2>2
  <2>4. NestOf(ls, n + 1) = Update(N, ls, k) /\ NestOf(ks, n + 1) = Update(R, ks, k)
    BY <2>1, <2>2, NestNext
  <2>5. Branches(ls, n + 1) = SkipStep(o, ls[k])
    BY <2>1, <2>2, SkipNext
  <2>6. ~SplitOn(ls[k])
    OBVIOUS
  <2>7. Skipped(ls, k) <=> ~AllFirst(SkipStep(o, ls[k]))
    <3>1. PICK u : u = SkipStep(o, ls[k]) /\ u = Branches(ls, k)
      BY <2>1, <2>5
    <3>2. u \in Seq(BOOLEAN)
      BY <2>3, <3>1, TrackNext DEF Paired, Track
    <3>3. TRUE \in Range(u) <=> ~AllFirst(u)
      BY <3>2, FirstInRange
    <3> QED
      BY <3>1, <3>3 DEF Skipped
  <2>8. ks[k] = IF AllFirst(SkipStep(o, ls[k])) THEN ls[k] ELSE <<>>
    BY <1>2, <2>7
  <2>9. Paired(Update(N, ls, k), Update(R, ks, k), SkipStep(o, ls[k]))
    BY <1>3, <2>1, <2>3, <2>6, <2>8, PairedNext
  <2> QED
    BY <2>4, <2>5, <2>9
<1>6. \A n \in Nat : n \in S
  <2> HIDE DEF S
  <2> QED
    BY <1>4, <1>5, AllNumbers
<1> QED
  BY <1>6

\* cpplint.py:2765-2772.  What lies behind #else and #elif does not affect the nesting
\* stack, for all files whose class heads are told on their own lines.
THEOREM BranchesAreFollowed == Spec => []StackFollowsBranches
<1>1. IncludeInv => StackFollowsBranches
  <2> SUFFICES ASSUME IncludeInv, phase = "lines", ~Skipped(lines, line - 1), ~SplitHead
               PROVE  nest.stack = StackOf(FirstBranches(lines), line - 1)
    BY DEF StackFollowsBranches
  <2>1. /\ AsGiven /\ Remaining /\ Prepared /\ Following /\ todo # <<>>
        /\ lines = Elided(file.lines) /\ nest = NestOf(lines, line - 1)
    BY DEF IncludeInv, PrintInv, Prepared, Following
  <2>2. PICK ls, n : ls = lines /\ n = line - 1
    OBVIOUS
  <2>3. ls \in Seq(Seq(Coded))
    <3>1. file.lines \in Seq(Seq(STRING))
      BY <2>1, InHand
    <3>2. PICK fs \in Seq(Seq(STRING)) : fs = file.lines
      BY <3>1
    <3>3. Elided(fs) \in Seq(Seq(Coded))
      BY ElidedTyped
    <3> QED
      BY <2>1, <2>2, <3>2, <3>3
  <2>4. n \in Nat /\ n <= Len(ls)
    BY <2>1, <2>2, LinesTyped
  <2>5. \A k \in 1..Len(ls) : ~SplitOn(ls[k])
    <3> SUFFICES ASSUME NEW k \in 1..Len(ls), SplitOn(ls[k]) PROVE FALSE
      OBVIOUS
    <3>1. /\ "class" \in Range(lines[k]) /\ k \in DOMAIN lines
          /\ Marks(lines[k], 1) = {} \/ lines[k][Min(Marks(lines[k], 1))] = "<"
      BY <2>2, <2>3 DEF SplitOn
    <3>2. PICK s, at : s = lines[k] /\ at = {j \in 2..Len(s) : s[j] \in HeadMarks}
      OBVIOUS
    <3>3. at = Marks(s, 1)
      BY <3>2 DEF Marks
    <3> QED
      BY <3>1, <3>2, <3>3 DEF SplitHead
  <2>6. PICK ks, R, o : ks = FirstBranches(ls) /\ R = NestOf(ks, n) /\ o = Branches(ls, n)
    OBVIOUS
  <2>7. Paired(NestOf(ls, n), R, o)
    BY <2>3, <2>4, <2>5, <2>6, BranchesPaired
  <2>8. AllFirst(o)
    <3>1. o \in Seq(BOOLEAN)
      BY <2>7 DEF Paired, Track
    <3>2. TRUE \notin Range(o)
      BY <2>2, <2>6 DEF Skipped
    <3> QED
      BY <3>1, <3>2, FirstInRange
  <2>9. R = NestOf(ls, n)
    BY <2>7, <2>8 DEF Paired
  <2> QED
    BY <2>1, <2>2, <2>6, <2>9 DEF StackOf
<1> QED
  BY InitIncludeInv, NextIncludeInv, <1>1, PTL DEF Spec
=============================================================================
