------------------------------ MODULE LintText ------------------------------
(***************************************************************************)
(* How cpplint.py takes comments and strings out of a file before it looks *)
(* at the code: RemoveMultiLineComments on whole lines, CleanseRawStrings  *)
(* across lines, then _CollapseStrings and CleanseComments line by line.   *)
(* Each is a heuristic that does not know what the others know.            *)
(*                                                                         *)
(* A line is a sequence of tokens.  "/*", "*/" and "//" are comment marks, *)
(* Quote is a double quote, and <<"R", Quote, "(">> and <<")", Quote>>     *)
(* begin and end a raw string; every other token is code.  Blanks,         *)
(* escapes, single quotes and raw string delimiters are left out.          *)
(***************************************************************************)
EXTENDS Integers, Sequences, SequencesExt

Quote    == "dquote"
RawBegin == <<"R", Quote, "(">>
RawEnd   == <<")", Quote>>
Blank    == <<"/*", "*/">> \* what a line inside a comment is replaced by

\* str.find: the first place at or behind from where pattern is in s, or 0.
Find(s, pattern, from) ==
  LET at == {i \in from..(Len(s) + 1 - Len(pattern)) :
               SubSeq(s, i, i + Len(pattern) - 1) = pattern}
  IN IF at = {} THEN 0 ELSE Min(at)

From(s, i) == SubSeq(s, i, Len(s))
Count(s, token) == Cardinality({i \in DOMAIN s : s[i] = token})

\* IsCppString: what follows the text is inside a string.
IsCppString(s) == Count(s, Quote) % 2 = 1

-----------------------------------------------------------------------------
(* Comments over several lines.                                            *)

StartsComment(s) == s # <<>> /\ s[1] = "/*" /\ Find(s, <<"*/">>, 2) = 0
EndsComment(s)   == s # <<>> /\ s[Len(s)] = "*/"

\* FindNextMultiLineCommentStart, FindNextMultiLineCommentEnd: Len(lines) + 1 for none.
NextCommentStart(lines, from) ==
  Min({i \in from..Len(lines) : StartsComment(lines[i])} \cup {Len(lines) + 1})
NextCommentEnd(lines, from) ==
  Min({i \in from..Len(lines) : EndsComment(lines[i])} \cup {Len(lines) + 1})

\* RemoveMultiLineComments from line `from' on: the lines that are blanked, and the
\* first line of a comment that does not end, or 0.
CommentRanges(lines) ==
  LET ranges[from \in 1..(Len(lines) + 1)] ==
        LET begin == NextCommentStart(lines, from)
            end   == NextCommentEnd(lines, begin)
        IN IF begin > Len(lines) THEN [blanked |-> {}, open |-> 0]
           ELSE IF end > Len(lines) THEN [blanked |-> {}, open |-> begin]
           ELSE [ranges[end + 1] EXCEPT !.blanked = @ \cup begin..end]
  IN ranges[1]

RemoveMultiLineComments(lines) ==
  [i \in DOMAIN lines |->
     IF i \in CommentRanges(lines).blanked THEN Blank ELSE lines[i]]

-----------------------------------------------------------------------------
(* Raw strings.                                                            *)

\* The text is the head of a line comment, as CleanseRawStrings sees it.
InLineComment(s) ==
  \E i \in DOMAIN s : s[i] = "//" /\ ~IsCppString(SubSeq(s, 1, i - 1))

\* One raw string, from its beginning at place b of the line.
CutRawString(s, b) ==
  LET tail == From(s, b + 3)
      e    == Find(tail, RawEnd, 1)
      head == Append(Append(SubSeq(s, 1, b - 1), Quote), Quote)
  IN IF e > 0 THEN [text |-> head \o From(tail, e + 2), open |-> FALSE]
              ELSE [text |-> head, open |-> TRUE]

\* Mutant: raw strings are looked for in line comments, too.
CutRawStringAnywhere(st, turn) ==
  LET b == Find(st.text, RawBegin, 1)
  IN IF st.open \/ b = 0 THEN st ELSE CutRawString(st.text, b)

\* One turn of the loop over the raw strings of a line.
CutNextRawString(st, turn) ==
  LET b == Find(st.text, RawBegin, 1)
  IN IF st.open \/ b = 0 \/ InLineComment(SubSeq(st.text, 1, b - 1)) THEN st
     ELSE CutRawString(st.text, b)

\* One line, where st.open says that it begins inside a raw string.
CleanseRawLine(st, s) ==
  LET e == Find(s, RawEnd, 1)
      start == IF st.open /\ e > 0
               THEN [text |-> <<Quote, Quote>> \o From(s, e + 2), open |-> FALSE]
               ELSE IF st.open THEN [text |-> <<Quote, Quote>>, open |-> TRUE]
               ELSE [text |-> s, open |-> FALSE]
      turns == [i \in 1..Len(s) |-> i] \* no line has more raw strings than tokens
      end   == FoldLeft(CutNextRawString, start, turns)
  IN [lines |-> Append(st.lines, end.text), open |-> end.open]

CleanseRawStrings(lines) ==
  FoldLeft(CleanseRawLine, [lines |-> <<>>, open |-> FALSE], lines).lines

-----------------------------------------------------------------------------
(* One line.                                                               *)

\* _RE_PATTERN_CLEANSE_LINE_C_COMMENTS.sub: the closed comments of a line go.
DropClosedComments(s) ==
  LET drop[i \in 1..(Len(s) + 1)] ==
        LET o == Find(s, <<"/*">>, i)
            c == IF o = 0 THEN 0 ELSE Find(s, <<"*/">>, o + 1)
        IN IF c = 0 THEN From(s, i) ELSE SubSeq(s, i, o - 1) \o drop[c + 1]
  IN drop[1]

CleanseComments(s) ==
  LET p == Find(s, <<"//">>, 1)
  IN DropClosedComments(IF p > 0 /\ ~IsCppString(SubSeq(s, 1, p - 1))
                        THEN SubSeq(s, 1, p - 1) ELSE s)

\* CleansedLines._CollapseStrings: every closed string becomes an empty one.
CollapseStrings(s) ==
  LET collapse[i \in 1..(Len(s) + 1)] ==
        LET q == Find(s, <<Quote>>, i)
            r == IF q = 0 THEN 0 ELSE Find(s, <<Quote>>, q + 1)
        IN IF r = 0 THEN From(s, i)
           ELSE SubSeq(s, i, q - 1) \o <<Quote, Quote>> \o collapse[r + 1]
  IN collapse[1]

\* RemoveMultiLineComments and then CleansedLines: the member elided.
Elided(lines) ==
  LET raw == CleanseRawStrings(RemoveMultiLineComments(lines))
  IN [i \in DOMAIN lines |-> CleanseComments(CollapseStrings(raw[i]))]

\* CheckForMultilineCommentsAndStrings on an elided line: the errors it reports.
MultilineErrors(s) ==
  (IF Count(s, "/*") > Count(s, "*/") THEN {"multiline_comment"} ELSE {})
    \cup (IF IsCppString(s) THEN {"multiline_string"} ELSE {})

-----------------------------------------------------------------------------
(* The reference: one pass over the tokens that knows what it is in.       *)

\* mode is "code", "line", "block", "string" or "raw"; last holds the two tokens before,
\* modes the mode that each token so far was met in.
Lex(st, t) ==
  LET mode ==
        CASE st.mode = "code" ->
               (CASE t = "//" -> "line" [] t = "/*" -> "block" [] t = Quote -> "string"
                  [] OTHER -> "code")
          [] st.mode = "block" -> IF t = "*/" THEN "code" ELSE "block"
          [] st.mode = "string" ->
               IF t = Quote THEN "code"
               ELSE IF t = "(" /\ st.last = <<"R", Quote>> THEN "raw" ELSE "string"
          [] st.mode = "raw" -> IF t = Quote /\ st.last[2] = ")" THEN "code" ELSE "raw"
          [] OTHER -> st.mode
  IN [mode |-> mode, last |-> <<st.last[2], t>>, modes |-> Append(st.modes, st.mode),
      code |-> IF st.mode = "code" /\ mode = "code" THEN Append(st.code, t) ELSE st.code]

\* The code of every line, the mode every line begins in (a comment or a raw string goes
\* on over the end of a line), and the modes of its tokens.
LexLines(lines) ==
  LET LexLine(st, s) ==
        LET start == [mode |-> st.mode, last |-> <<"", "">>, modes |-> <<>>, code |-> <<>>]
            end   == FoldLeft(Lex, start, s)
        IN [mode |-> IF end.mode \in {"block", "raw"} THEN end.mode ELSE "code",
            begins |-> Append(st.begins, st.mode),
            modes |-> Append(st.modes, end.modes),
            code |-> Append(st.code, end.code)]
  IN FoldLeft(LexLine, [mode |-> "code", begins |-> <<>>, modes |-> <<>>, code |-> <<>>], lines)
=============================================================================
