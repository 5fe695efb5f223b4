------------------------------ MODULE LintExpr ------------------------------
(***************************************************************************)
(* The matching of brackets in cpplint.py, forwards and backwards, over    *)
(* lines that are already cleansed.  Whether "<" and ">" are brackets or   *)
(* operators is guessed, in each direction by rules of its own.            *)
(*                                                                         *)
(* A line is a sequence of characters.  "operator" stands for the keyword  *)
(* right before the next character; blanks are left out, and with them the *)
(* exception for ">=".                                                     *)
(***************************************************************************)
EXTENDS Integers, Sequences, SequencesExt

Opening == {"(", "[", "{"}
Closing == {")", "]", "}"}
Partner == [c \in Opening |-> CASE c = "(" -> ")" [] c = "[" -> "]" [] c = "{" -> "}"]

\* Mutant: only the topmost angle bracket is taken off.
DropOneAngle(stack, angle) ==
  IF stack # <<>> /\ Last(stack) = angle THEN Front(stack) ELSE stack

\* The stack without the angle brackets on its top, which must have been operators.
DropAngles(stack, angle) ==
  LET keep == {0} \cup {i \in DOMAIN stack : stack[i] # angle}
  IN SubSeq(stack, 1, Max(keep))

Pop(stack) == Front(stack)
Before(line, i) == IF i > 1 THEN line[i - 1] ELSE "none"

\* How a scan stands: at is 0 while it looks on, -1 when it has given up, and
\* otherwise the place it has found.
Looking(stack) == [at |-> 0, stack |-> stack]
GivenUp        == [at |-> -1, stack |-> <<>>]
Found(i)       == [at |-> i, stack |-> <<>>]

\* Pop the top; the expression is complete, with the given outcome, when none is left.
PopOr(stack, outcome) == IF Len(stack) = 1 THEN outcome ELSE Looking(Pop(stack))

\* One character of FindEndOfExpressionInLine.
EndStep(line, st, i) ==
  LET c == line[i]
      stack == st.stack
      rest == DropAngles(stack, "<")
      angleOnTop == stack # <<>> /\ Last(stack) = "<"
  IN CASE c \in Opening -> Looking(Append(stack, c))
       [] c = "<" /\ Before(line, i) = "<" ->
            IF angleOnTop THEN PopOr(stack, GivenUp) ELSE st
       [] c = "<" /\ Before(line, i) = "operator" -> st
       [] c = "<" /\ Before(line, i) \notin {"<", "operator"} -> Looking(Append(stack, "<"))
       [] c \in Closing ->
            IF rest = <<>> THEN GivenUp
            ELSE IF Partner[Last(rest)] = c THEN PopOr(rest, Found(i)) ELSE GivenUp
       [] c = ">" ->
            IF Before(line, i) # "-" /\ Before(line, i - 1) # "operator" /\ angleOnTop
            THEN PopOr(stack, Found(i)) ELSE st
       [] c = ";" -> IF rest = <<>> THEN GivenUp ELSE Looking(rest)
       [] OTHER -> st

\* FindEndOfExpressionInLine from place `start' on.
FindEnd(line, start, stack) ==
  FoldLeft(LAMBDA st, i : IF st.at # 0 THEN st ELSE EndStep(line, st, i),
           Looking(stack), [k \in 1..(Len(line) + 1 - start) |-> start + k - 1])

\* CloseExpression: the place <<line, column>> of the bracket that closes the one at
\* <<n, i>>, or <<>>.
CloseExpression(lines, n, i) ==
  LET close[m \in n..Len(lines), stack \in Seq(Opening \cup {"<"})] ==
        LET st == FindEnd(lines[m], IF m = n THEN i ELSE 1, stack)
        IN IF st.at > 0 THEN <<m, st.at>>
           ELSE IF st.at < 0 \/ st.stack = <<>> \/ m = Len(lines) THEN <<>>
           ELSE close[m + 1, st.stack]
      shift == lines[n][i] = "<" /\ i < Len(lines[n]) /\ lines[n][i + 1] \in {"<", "="}
  IN IF lines[n][i] \notin Opening \cup {"<"} \/ shift THEN <<>> ELSE close[n, <<>>]

\* One character of FindStartOfExpressionInLine; skip says that the next one to the
\* left belongs to an operator.
StartStep(line, st, i) ==
  LET c == line[i]
      stack == st.stack
      rest == DropAngles(stack, ">")
  IN CASE c \in Closing -> Looking(Append(stack, c))
       [] c = ">" /\ Before(line, i) \in {"-", "operator"} -> st
       [] c = ">" /\ Before(line, i) \notin {"-", "operator"} -> Looking(Append(stack, ">"))
       [] c = "<" ->
            IF Before(line, i) # "<" /\ stack # <<>> /\ Last(stack) = ">"
            THEN PopOr(stack, Found(i)) ELSE st
       [] c \in Opening ->
            IF rest = <<>> THEN GivenUp
            ELSE IF Last(rest) = Partner[c] THEN PopOr(rest, Found(i)) ELSE GivenUp
       [] c = ";" -> IF rest = <<>> THEN GivenUp ELSE Looking(rest)
       [] OTHER -> st

\* In a shift or an arrow the character to the left is passed over.
PassedOver(line, from) ==
  LET passed[i \in 1..(from + 1)] ==
        IF i = from + 1 THEN FALSE
        ELSE /\ i < from /\ ~passed[i + 1]
             /\ \/ line[i + 1] = "<" /\ line[i] = "<"
                \/ line[i + 1] = ">" /\ line[i] \in {"-", "operator"}
  IN {i \in 1..from : passed[i]}

\* FindStartOfExpressionInLine from place `from' on leftwards.
FindStart(line, from, stack) ==
  FoldLeft(LAMBDA st, i : IF st.at # 0 \/ i \in PassedOver(line, from) THEN st
                          ELSE StartStep(line, st, i),
           Looking(stack), [k \in 1..from |-> from + 1 - k])

\* ReverseCloseExpression: the place of the bracket that opens the one at <<n, i>>.
ReverseCloseExpression(lines, n, i) ==
  LET open[m \in 1..n, stack \in Seq(Closing \cup {">"})] ==
        LET st == FindStart(lines[m], IF m = n THEN i ELSE Len(lines[m]), stack)
        IN IF st.at > 0 THEN <<m, st.at>>
           ELSE IF st.at < 0 \/ st.stack = <<>> \/ m = 1 THEN <<>>
           ELSE open[m - 1, st.stack]
  IN IF lines[n][i] \notin Closing \cup {">"} THEN <<>> ELSE open[n, <<>>]
=============================================================================
