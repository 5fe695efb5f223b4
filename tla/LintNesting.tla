---------------------------- MODULE LintNesting -----------------------------
(***************************************************************************)
(* NestingState of cpplint.py: the stack of blocks that is open at a line, *)
(* kept by a line-by-line reading of braces, parentheses and heads, with   *)
(* checkpoints where the preprocessor branches.                            *)
(*                                                                         *)
(* The tokens of an elided line: "namespace", "class" (class or struct     *)
(* with its name), "extern" (extern "C"), "asm", the brackets, ";", "=",   *)
(* and the directives "#if", "#ifndef", "#else" and "#endif" (#ifdef and   *)
(* #elif are like them).  Access specifiers, the alignment of braces, the  *)
(* comment that ends a namespace and a template's head before a class are  *)
(* left out.                                                               *)
(***************************************************************************)
EXTENDS LintExpr, LintText

Starts(line, tokens) == line # <<>> /\ line[1] \in tokens
Ifs    == {"#if", "#ifndef"}
Elses  == {"#else"}
Endifs == {"#endif"}

\* _BlockInfo, _ExternCInfo, _ClassInfo, _NamespaceInfo: the head has been read at line
\* start; seen tells whether its opening brace has been.
Block(type, start, seen) ==
  [type |-> type, start |-> start, seen |-> seen, parens |-> 0, asm |-> "no"]

NoNesting == [stack |-> <<>>, pp |-> <<>>]

SeenOpenBrace(stack) == stack = <<>> \/ Last(stack).seen
InAsmBlock(stack) == stack # <<>> /\ Last(stack).asm # "no"

-----------------------------------------------------------------------------
(* UpdatePreprocessor: the branch up to #else counts, the others do not.   *)

PushIf(nest) ==
  [nest EXCEPT !.pp = Append(@, [beforeIf |-> nest.stack, beforeElse |-> <<>>,
                                 seenElse |-> FALSE])]

\* Mutant: every #else or #elif takes the checkpoint.
TurnEveryElse(nest) ==
  LET top == Last(nest.pp)
      kept == [top EXCEPT !.seenElse = TRUE, !.beforeElse = nest.stack]
  IN [stack |-> top.beforeIf, pp |-> Append(Front(nest.pp), kept)]

TurnElse(nest) ==
  LET top == Last(nest.pp)
      kept == IF top.seenElse THEN top
              ELSE [top EXCEPT !.seenElse = TRUE, !.beforeElse = nest.stack]
  IN [stack |-> top.beforeIf, pp |-> Append(Front(nest.pp), kept)]

PopIf(nest) ==
  LET top == Last(nest.pp)
  IN [stack |-> IF top.seenElse THEN top.beforeElse ELSE nest.stack, pp |-> Front(nest.pp)]

UpdatePreprocessor(nest, line) ==
  IF Starts(line, Ifs) THEN PushIf(nest)
  ELSE IF nest.pp = <<>> THEN nest
  ELSE IF Starts(line, Elses) THEN TurnElse(nest)
  ELSE IF Starts(line, Endifs) THEN PopIf(nest)
  ELSE nest

-----------------------------------------------------------------------------
(* Update.                                                                 *)

\* _MATCH_ASM
StartsAsm(line) == Len(line) > 1 /\ line[1] = "asm" /\ line[2] \in {"(", "{"}

\* Mutant: the line that ends an asm statement leaves it at once.
CountParenthesesShort(stack, line) ==
  LET change == Count(line, "(") - Count(line, ")")
      parens == Last(stack).parens + change
      asm == Last(stack).asm
      now == IF asm \in {"no", "end"}
             THEN IF change # 0 /\ parens = 1 /\ StartsAsm(line) THEN "inside" ELSE "no"
             ELSE IF asm = "inside" /\ parens = 0 THEN "no" ELSE asm
  IN IF stack = <<>> THEN stack
     ELSE Append(Front(stack), [Last(stack) EXCEPT !.parens = parens, !.asm = now])

\* The parentheses of the line are counted in the innermost block, where an asm
\* statement begins and ends by them.
CountParentheses(stack, line) ==
  LET change == Count(line, "(") - Count(line, ")")
      parens == Last(stack).parens + change
      asm == Last(stack).asm
      now == IF asm \in {"no", "end"}
             THEN IF change # 0 /\ parens = 1 /\ StartsAsm(line) THEN "inside" ELSE "no"
             ELSE IF asm = "inside" /\ parens = 0 THEN "end" ELSE asm
  IN IF stack = <<>> THEN stack
     ELSE Append(Front(stack), [Last(stack) EXCEPT !.parens = parens, !.asm = now])

\* The line has the token behind its first k.
IsNext(line, k, token) == k < Len(line) /\ line[k + 1] = token

\* A namespace head behind the first left.from tokens of the line, which are taken.
TakeNamespace(left, line, n) ==
  LET brace == {i \in (left.from + 1)..Len(line) : line[i] = "{"}
  IN IF ~IsNext(line, left.from, "namespace") THEN left
     ELSE [stack |-> Append(left.stack, Block("namespace", n, brace # {})),
           from  |-> IF brace = {} THEN left.from + 1 ELSE Min(brace)]

\* The namespace heads at the beginning of the line, in no more turns than tokens.
TakeNamespaces(stack, line, n) ==
  FoldLeft(LAMBDA left, turn : TakeNamespace(left, line, n), [stack |-> stack, from |-> 0], line)

\* The characters that a class head is told by.
HeadMarks == {"{", "}", ";", "=", "[", "]", "<", ">"}

\* InTemplateArgumentList from behind place i of line n on.
InTemplateArgumentList(lines, n, i) ==
  LET places == (n..Len(lines)) \X Nat
      in[p \in places] ==
        LET m     == p[1]
            found == {j \in (p[2] + 1)..Len(lines[m]) : lines[m][j] \in HeadMarks}
            token == lines[m][Min(found)]
            next  == IF found = {} THEN <<m + 1, 0>> ELSE CloseExpression(lines, m, Min(found))
        IN IF found # {} /\ token # "<" THEN token \in {">", "=", "[", "]"}
           ELSE next \in places /\ in[next]
  IN in[<<n, i>>]

\* A class head next in the line.  Its length, one token, is taken for a place of the
\* whole line, also where namespaces stand before it.
TakeClass(left, lines, n) ==
  IF /\ IsNext(lines[n], left.from, "class")
     /\ left.stack = <<>> \/ Last(left.stack).parens = 0
     /\ ~InTemplateArgumentList(lines, n, 1)
  THEN [stack |-> Append(left.stack, Block("class", n, FALSE)), from |-> left.from + 1]
  ELSE left

\* Mutant: a forward declaration leaves its head open.
TakeTokenBrace(stack, text, token, n) ==
  LET top == Last(stack)
  IN CASE token = "{" ->
            IF ~SeenOpenBrace(stack) THEN Append(Front(stack), [top EXCEPT !.seen = TRUE])
            ELSE Append(stack, Block("block", n, TRUE))
       [] token \in {";", ")"} -> stack
       [] OTHER -> IF stack = <<>> THEN stack ELSE Front(stack)

\* A brace, a semicolon or a closed parenthesis; text is what the line has from the
\* token before on.
TakeToken(stack, text, token, n) ==
  LET top == Last(stack)
  IN CASE token = "{" ->
            IF ~SeenOpenBrace(stack) THEN Append(Front(stack), [top EXCEPT !.seen = TRUE])
            ELSE IF text = <<"extern", "{">> THEN Append(stack, Block("extern", n, TRUE))
            ELSE Append(stack, [Block("block", n, TRUE) EXCEPT
                                  !.asm = IF StartsAsm(text) THEN "block" ELSE "no"])
       [] token \in {";", ")"} -> IF SeenOpenBrace(stack) THEN stack ELSE Front(stack)
       [] OTHER -> IF stack = <<>> THEN stack ELSE Front(stack)

\* The token at place i, unless it is taken already.
TakeNext(left, line, i, n) ==
  IF i <= left.from \/ line[i] \notin {"{", "}", ";", ")"} THEN left
  ELSE [stack |-> TakeToken(left.stack, SubSeq(line, left.from + 1, i), line[i], n),
        from  |-> i]

\* The braces, semicolons and closed parentheses of the rest of the line.
TakeTokens(left, line, n) ==
  FoldLeft(LAMBDA st, i : TakeNext(st, line, i, n), left, [i \in DOMAIN line |-> i]).stack

\* Update on line n of the elided lines.
Update(nest, lines, n) ==
  LET before == UpdatePreprocessor(nest, lines[n])
      spaces == TakeNamespaces(CountParentheses(before.stack, lines[n]), lines[n], n)
  IN [before EXCEPT !.stack = TakeTokens(TakeClass(spaces, lines, n), lines[n], n)]

\* CheckCompletedBlocks: the blocks that are reported at the end of the file.
IncompleteBlocks(stack) ==
  {b \in {stack[i] : i \in DOMAIN stack} : b.type \in {"class", "namespace"}}

-----------------------------------------------------------------------------
(* The references.                                                         *)

\* One entry for each #if that is open: whether its #else has come.
SkipStep(open, line) ==
  IF Starts(line, Ifs) THEN Append(open, FALSE)
  ELSE IF open = <<>> THEN open
  ELSE IF Starts(line, Elses) THEN Append(Front(open), TRUE)
  ELSE IF Starts(line, Endifs) THEN Front(open)
  ELSE open
Branches(lines, n) == FoldLeft(SkipStep, <<>>, SubSeq(lines, 1, n))

\* Whether line n is in a part behind #else, the directives of that part included.
Skipped(lines, n) == TRUE \in Range(Branches(lines, n))

\* The file without the parts behind #else.
FirstBranches(lines) == [i \in DOMAIN lines |-> IF Skipped(lines, i) THEN <<>> ELSE lines[i]]

\* The nesting behind line n of a file.
NestOf(lines, n) ==
  FoldLeft(LAMBDA nest, i : Update(nest, lines, i), NoNesting, [i \in 1..n |-> i])
StackOf(lines, n) == NestOf(lines, n).stack
=============================================================================
