------------------------------ MODULE CppLint -------------------------------
(***************************************************************************)
(* cpplint.py as `make check-lint' runs it: the arguments, then each file  *)
(* with the configuration of its directories, line by line.  What one file *)
(* or one line leaves behind in the module's globals meets the next.       *)
(*                                                                         *)
(* The checks that are modelled are the ones with a state of their own or  *)
(* that are about such a state; of the many that look at one line only,    *)
(* the line's width and the casts stand for all.                           *)
(*                                                                         *)
(* More tokens of a line: "f" (a function's name at the beginning of the   *)
(* line), "wide" (the line is too long for 80 columns and not for 120),    *)
(* "cast" (a C-style cast), "LINT_C_FILE", and the NOLINT marks.           *)
(*                                                                         *)
(* A job is what one call of the program is given: args with filters,      *)
(* options, verbose and excluded (the files --exclude names), and the      *)
(* files, which also have readable, configs (what the CPPLINT.cfg files on *)
(* the way from the file's directory to the root say), lines, crlf (the    *)
(* lines that end in CR LF) and newline (whether the last line ends).  A   *)
(* filter is [sign, top, sub], a category <<top, sub>>.                    *)
(***************************************************************************)
EXTENDS LintIncludes

CONSTANTS
  Jobs,           \* the calls considered, by what they are about
  NormalTrigger   \* _NORMAL_TRIGGER: lines of a function that are too many at --v=0

ASSUME TriggerAssumption == NormalTrigger \in Nat \ {0}

Filters == [sign : STRING, top : STRING, sub : STRING]
ConfigOptions == [name : {"filter"}, filters : Seq(Filters)]
                   \cup [name : {"linelength"}, length : Int]
                   \cup [name : {"extensions", "headers"}, extensions : SUBSET STRING]
                   \cup [name : {"root"}, root : STRING]
                   \cup [name : {"exclude_files", "set noparent"}]

\* The lines of a file are sequences of tokens, its configurations of options.
ASSUME JobsAssumption ==
  \A about \in DOMAIN Jobs : \A call \in Jobs[about] :
    /\ call.files \in Seq(Range(call.files))
    /\ \A f \in Range(call.files) :
         f.lines \in Seq(Seq(STRING)) /\ f.configs \in Seq(Seq(ConfigOptions))

VARIABLES
  job,        \* the call
  phase,      \* "start", "next" (before a file), "lines" or "exited"
  todo,       \* the files that are left, the current one at the head
  filters,    \* _cpplint_state.filters
  backup,     \* _cpplint_state._filters_backup
  options,    \* _line_length, _valid_extensions, _hpp_headers and _root
  errorCount, \* _cpplint_state.error_count
  status,     \* the exit status, -1 for none
  suppressed, \* _error_suppressions, a set of <<category, line>>
  everywhere, \* _global_error_suppressions
  raw,        \* clean_lines.raw_lines
  lines,      \* clean_lines.elided
  line,       \* the line that comes next
  nest, inc, fn, \* nesting_state, include_state, function_state
  reports     \* history: every error raised, and whether it was printed

settings == <<job, todo, filters, backup, options>>
marks    == <<suppressed, everywhere>>
text     == <<raw, lines>>
scans    == <<nest, inc, fn>>
vars == <<phase, settings, errorCount, status, marks, text, line, scans, reports>>

file == Head(todo)

-----------------------------------------------------------------------------
(* Which errors are printed.                                               *)

All == <<"", "">>

\* What each mark of a NOLINT comment suppresses, and whether on the next line.
Nolint ==
  [t \in {"NOLINT", "NOLINTNEXTLINE", "NOLINT(line_length)", "NOLINT(build/header_guard)",
          "NOLINT(?)"} |->
     [next |-> t = "NOLINTNEXTLINE",
      category |-> CASE t = "NOLINT(line_length)" -> <<"whitespace", "line_length">>
                     [] t = "NOLINT(build/header_guard)" -> <<"build", "header_guard">>
                     [] t = "NOLINT(?)" -> <<"unknown", "">>
                     [] OTHER -> All]]

\* The first mark of a line, as a set.
NolintMark(s) ==
  LET at == {i \in DOMAIN s : s[i] \in DOMAIN Nolint}
  IN IF at = {} THEN {} ELSE {Nolint[s[Min(at)]]}

\* ParseNolintSuppressions: what line n suppresses, and its error.
NolintOf(s, n) ==
  {<<m.category, IF m.next THEN n + 1 ELSE n>> :
     m \in {k \in NolintMark(s) : k.category # <<"unknown", "">>}}
NolintErrors(s, n) ==
  {Mistake(n, <<"readability", "nolint">>, 5) :
     m \in {k \in NolintMark(s) : k.category = <<"unknown", "">>}}

\* ProcessGlobalSuppresions
GlobalSuppressions(ls) ==
  IF \E n \in DOMAIN ls : "LINT_C_FILE" \in Range(ls[n]) THEN {<<"readability", "casting">>}
  ELSE {}

\* IsErrorSuppressedByNolint
IsSuppressed(nolint, global, category, n) ==
  category \in global \/ <<category, n>> \in nolint \/ <<All, n>> \in nolint

\* The subcategories that begin with sub.  A filter that ends within a word is left out.
Beginning(sub) ==
  IF sub = "include"
  THEN {sub, "include_alpha", "include_order", "include_subdir", "include_what_you_use"}
  ELSE {sub}

\* category.startswith(one_filter[1:])
Covers(filter, category) ==
  \/ filter.top = ""
  \/ filter.top = category[1] /\ (filter.sub = "" \/ category[2] \in Beginning(filter.sub))

\* The last filter that covers the category decides.
IsFiltered(fs, category) ==
  LET at == {i \in DOMAIN fs : Covers(fs[i], category)}
  IN at # {} /\ fs[Max(at)].sign = "-"

\* _ShouldPrintError
ShouldPrint(m, nolint, global, fs, verbose) ==
  /\ ~IsSuppressed(nolint, global, m.category, m.line)
  /\ m.confidence >= verbose
  /\ ~IsFiltered(fs, m.category)

\* Error, on every mistake of a step; early tells that the lines are not read yet, and
\* a comment that does not end is reported before any NOLINT at all is.
Report(mistakes, nolint, global, fs, early) ==
  LET Known(m) == IF early /\ m.category = <<"readability", "multiline_comment">> THEN {}
                  ELSE nolint
      Printed(m) == ShouldPrint(m, Known(m), global, fs, job.args.verbose)
  IN /\ errorCount' = errorCount + Cardinality({m \in mistakes : Printed(m)})
     /\ reports' = reports \cup
          {[left |-> Len(todo), error |-> m, printed |-> Printed(m), early |-> early] :
             m \in mistakes}

\* AddFilters raises ValueError for a filter without a sign.
SignsGiven(fs) == \A i \in DOMAIN fs : fs[i].sign \in {"+", "-"}

DefaultFilters == <<[sign |-> "-", top |-> "build", sub |-> "include_alpha"]>>

-----------------------------------------------------------------------------
(* The arguments and the files.                                            *)

NoFunction == [inside |-> FALSE, count |-> 0]
DefaultOptions == [length |-> 80, extensions |-> {}, headers |-> {}, root |-> ""]

Init ==
  /\ \E about \in DOMAIN Jobs : job \in Jobs[about]
  /\ phase = "start" /\ todo = <<>> /\ filters = DefaultFilters /\ backup = DefaultFilters
  /\ options = DefaultOptions /\ errorCount = 0 /\ status = -1
  /\ suppressed = {} /\ everywhere = {} /\ raw = <<>> /\ lines = <<>> /\ line = 1
  /\ nest = NoNesting /\ inc = NoIncludes /\ fn = NoFunction /\ reports = {}

\* A traceback: Python exits with 1.
Crash ==
  /\ phase' = "exited" /\ status' = 1
  /\ UNCHANGED <<job, errorCount, marks, text, line, scans, reports>>

\* _FilterExcludedFiles: the files of the call that --exclude does not name.
Retain(files, f) == IF f.base \in job.args.excluded THEN files ELSE Append(files, f)
FilesOf == FoldLeft(Retain, <<>>, job.files)

\* ParseArguments and ResetErrorCounts: the globals are set, excluded files dropped.
ParseArguments ==
  /\ phase = "start"
  /\ options' = job.args.options
  /\ todo' = FilesOf
  /\ filters' = DefaultFilters \o job.args.filters
  /\ UNCHANGED backup
  /\ IF ~SignsGiven(job.args.filters) THEN Crash
     ELSE /\ phase' = "next"
          /\ UNCHANGED <<job, errorCount, status, marks, text, line, scans, reports>>

\* A global that a configuration sets, which the files behind this one keep.
SetOption(opts, o) ==
  CASE o.name = "linelength" -> [opts EXCEPT !.length = o.length]
    [] o.name = "extensions" -> [opts EXCEPT !.extensions = o.extensions]
    [] o.name = "headers" -> [opts EXCEPT !.headers = o.extensions]
    [] o.name = "root" -> [opts EXCEPT !.root = o.root]

\* ProcessConfigOverrides on one option of a configuration: st holds the filters so far,
\* those of nearer configurations last, and the globals, which the last option sets.
ReadOption(st, o) ==
  IF st.excluded \/ ~st.looking THEN st
  ELSE CASE o.name = "filter" -> [st EXCEPT !.filters = o.filters \o @]
         [] o.name = "exclude_files" -> [st EXCEPT !.excluded = TRUE]
         [] o.name = "set noparent" -> [st EXCEPT !.noparent = TRUE]
         [] o.name \in {"linelength", "extensions", "headers", "root"} ->
              [st EXCEPT !.options = SetOption(@, o)]

\* One configuration: behind one with "set noparent" no other is looked for.
ReadConfig(st, config) ==
  LET end == FoldLeft(ReadOption, st, config)
  IN [end EXCEPT !.looking = @ /\ ~end.noparent]

\* ProcessConfigOverrides, from the nearest configuration to the root.
ReadConfigs(configs, opts) ==
  FoldLeft(ReadConfig, [filters |-> <<>>, options |-> opts, excluded |-> FALSE,
                        noparent |-> FALSE, looking |-> TRUE], configs)

\* ProcessFile for a file that is not linted: excluded by a configuration (of which the
\* options read so far stay), not readable, or not of a known extension.
SkipFile ==
  /\ phase = "next" /\ todo # <<>>
  /\ LET cfg == ReadConfigs(file.configs, options)
         unknown == file.ext \notin AllExtensions(cfg.options)
     IN /\ cfg.excluded \/ (SignsGiven(cfg.filters) /\ (~file.readable \/ unknown))
        /\ options' = cfg.options
  /\ backup' = filters
  /\ todo' = Tail(todo)
  /\ UNCHANGED <<phase, job, filters, errorCount, status, marks, text, line, scans, reports>>

\* _AddFilters raises for a filter of a configuration.
BadConfig ==
  /\ phase = "next" /\ todo # <<>>
  /\ LET cfg == ReadConfigs(file.configs, options)
     IN /\ ~cfg.excluded /\ ~SignsGiven(cfg.filters)
        /\ filters' = filters \o cfg.filters
        /\ options' = cfg.options
  /\ backup' = filters
  /\ UNCHANGED todo
  /\ Crash

\* Mutant: the suppressions of the file before stay.
KeepNolintSuppressions == [suppressed |-> suppressed, everywhere |-> everywhere]

\* ResetNolintSuppressions: what is left of the file before.
ResetNolintSuppressions == [suppressed |-> {}, everywhere |-> {}]

\* ProcessFile and ProcessFileData up to the loop over the lines.  A comment that does
\* not end is reported on the line behind its first, and the header guard is checked,
\* before any line has been looked at for NOLINT.
BeginFile ==
  /\ phase = "next" /\ todo # <<>> /\ file.readable
  /\ LET cfg   == ReadConfigs(file.configs, options)
         fs    == filters \o cfg.filters
         open  == CommentRanges(file.lines).open
         clean == RemoveMultiLineComments(file.lines)
         guard == CheckForHeaderGuard(file, cfg.options, CleanseRawStrings(clean))
         nolint == ResetNolintSuppressions.suppressed
                     \cup UNION {NolintOf(clean[n], n) : n \in guard.parsed \ {0}}
         global == ResetNolintSuppressions.everywhere \cup GlobalSuppressions(file.lines)
         comment == IF open = 0 THEN {}
                    ELSE {Mistake(open + 1, <<"readability", "multiline_comment">>, 5)}
         malformed == UNION {NolintErrors(clean[n], n) : n \in guard.parsed \ {0}}
     IN /\ ~cfg.excluded /\ SignsGiven(cfg.filters)
        /\ file.ext \in AllExtensions(cfg.options)
        /\ filters' = fs /\ options' = cfg.options
        /\ raw' = clean /\ lines' = Elided(file.lines)
        /\ suppressed' = nolint /\ everywhere' = global
        /\ Report(comment \cup guard.errors \cup malformed, nolint, global, fs, TRUE)
  /\ backup' = filters
  /\ phase' = "lines" /\ line' = 1
  /\ nest' = NoNesting /\ inc' = NoIncludes /\ fn' = NoFunction
  /\ UNCHANGED <<job, todo, status>>

-----------------------------------------------------------------------------
(* A line.                                                                 *)

\* clean_lines.lines: without comments and raw strings, other strings are kept.
Uncollapsed == LET s == CleanseRawStrings(raw) IN [k \in DOMAIN s |-> CleanseComments(s[k])]

\* The token with which the search for a function's body ends, from line n on.
BodyMark(code, n) ==
  LET Marks(k) == Range(code[k]) \cap {";", "{", "}"}
      at == {k \in n..Len(code) : Marks(k) # {}}
  IN IF at = {} THEN "none"
     ELSE IF Marks(Min(at)) \cap {";", "}"} # {} THEN "declaration" ELSE "body"

StartsFunction(s) == Len(s) > 1 /\ s[1] = "f" /\ s[2] = "("

\* _FunctionState.Check: 2 ** verbose times the trigger is too long.
FunctionErrors(n) ==
  LET lengths == {k \in 0..5 : NormalTrigger * 2 ^ k <= fn.count}
  IN IF fn.inside /\ fn.count > NormalTrigger * 2 ^ job.args.verbose
     THEN {Mistake(n, <<"readability", "fn_size">>, Max(lengths))} ELSE {}

\* CheckForFunctionLengths: the new function_state and the errors.
CheckForFunctionLengths(n) ==
  LET code == Uncollapsed
      s == code[n]
      mark == BodyMark(code, n)
  IN CASE StartsFunction(s) ->
            [fn |-> IF mark = "body" THEN [inside |-> TRUE, count |-> 0] ELSE fn,
             errors |-> IF mark # "none" THEN {}
                        ELSE {Mistake(n, <<"readability", "fn_size">>, 5)}]
       [] s = <<"}">> -> [fn |-> [fn EXCEPT !.inside = FALSE], errors |-> FunctionErrors(n)]
       [] OTHER -> [fn |-> IF fn.inside /\ s # <<>> THEN [fn EXCEPT !.count = @ + 1] ELSE fn,
                    errors |-> {}]

\* CheckStyle: the width, of the line with its comments.
StyleErrors(n) ==
  LET s == CleanseRawStrings(raw)[n]
  IN IF "wide" \in Range(s) /\ options.length < 120 /\ ~IsInclude(s)
     THEN {Mistake(n, <<"whitespace", "line_length">>, 2)} ELSE {}

IsDirective(s) == Starts(s, Ifs \cup Elses \cup Endifs)

\* CheckLanguage: an include line, a directive, or a line of code.
CheckLanguage(n) ==
  LET s == lines[n]
      code == [inc |-> IF IsDirective(s) THEN ResetSection(inc, s) ELSE inc,
               errors |-> IF "cast" \in Range(s) THEN {Mistake(n, <<"readability", "casting">>, 4)}
                          ELSE {}]
  IN IF IsInclude(s) THEN CheckIncludeLine(inc, file, options, lines, n) ELSE code

MultilineMistakes(n) ==
  {Mistake(n, <<"readability", kind>>, 5) : kind \in MultilineErrors(lines[n])}

\* ProcessLine.  A line of inline assembly is not checked.
ProcessLine ==
  /\ phase = "lines" /\ line <= Len(lines)
  /\ nest' = Update(nest, lines, line)
  /\ LET nolint   == suppressed \cup NolintOf(raw[line], line)
         exempt   == InAsmBlock(nest'.stack)
         function == CheckForFunctionLengths(line)
         language == CheckLanguage(line)
         checks   == function.errors \cup MultilineMistakes(line)
                       \cup StyleErrors(line) \cup language.errors
     IN /\ suppressed' = nolint
        /\ fn' = IF exempt THEN fn ELSE function.fn
        /\ inc' = IF exempt THEN inc ELSE language.inc
        /\ Report(NolintErrors(raw[line], line) \cup (IF exempt THEN {} ELSE checks),
                  nolint, everywhere, filters, FALSE)
  /\ line' = line + 1
  /\ UNCHANGED <<phase, settings, status, everywhere, text>>

-----------------------------------------------------------------------------
(* The end of a file, and of the run.                                      *)

BlockErrors ==
  {Mistake(b.start, IF b.type = "class" THEN <<"build", "class">>
                    ELSE <<"build", "namespaces">>, 5) : b \in IncompleteBlocks(nest.stack)}

\* CheckForNewlineAtEOF, and the lines with CR LF where some have LF only: a last line
\* that does not end is neither.
EndingErrors ==
  LET ended == {n \in DOMAIN file.lines : n < Len(file.lines) \/ file.newline}
      crlf  == file.crlf \cap ended
  IN (IF file.newline THEN {}
      ELSE {Mistake(Len(file.lines), <<"whitespace", "ending_newline">>, 5)})
       \cup (IF crlf = ended THEN {}
             ELSE {Mistake(n, <<"whitespace", "newline">>, 1) : n \in crlf})

\* RestoreFilters
RestoredFilters == backup

\* The checks of the whole file, and RestoreFilters.
FinishFile ==
  /\ phase = "lines" /\ line > Len(lines)
  /\ Report(BlockErrors \cup IncludeWhatYouUse(inc, file, options, lines)
              \cup HeaderFileIncluded(inc, file, options) \cup EndingErrors,
            suppressed, everywhere, filters, FALSE)
  /\ filters' = RestoredFilters
  /\ todo' = Tail(todo) /\ phase' = "next"
  /\ UNCHANGED <<job, backup, options, status, marks, text, line, scans>>

\* main: sys.exit(error_count > 0)
Exit ==
  /\ phase = "next" /\ todo = <<>>
  /\ phase' = "exited" /\ status' = IF errorCount > 0 THEN 1 ELSE 0
  /\ UNCHANGED <<settings, errorCount, marks, text, line, scans, reports>>

Next ==
  \/ ParseArguments \/ SkipFile \/ BadConfig \/ BeginFile
  \/ ProcessLine \/ FinishFile \/ Exit

Spec == Init /\ [][Next]_vars

-----------------------------------------------------------------------------
(* Properties.                                                             *)

\* The file is read and none of its lines has been looked at.
Opened == phase = "lines" /\ line = 1

\* An error about comments or strings is reported for the file, or the reference finds
\* the end of a comment that was never begun.
Suspect ==
  \/ CommentRanges(file.lines).open > 0
  \/ \E n \in DOMAIN lines : MultilineErrors(lines[n]) # {}
  \/ LET lexed == LexLines(file.lines)
     IN \E n \in DOMAIN lines : Count(lexed.code[n], "*/") > 0

\* A comment of several lines that ends before the end of a line: the rest of that line,
\* or the lines up to the next one that ends a comment, are dropped (cpplint.py:1603).
EndsMidLine ==
  LET lexed == LexLines(file.lines)
  IN \E n \in DOMAIN lines :
       /\ lexed.begins[n] = "block"
       /\ Find(file.lines[n], <<"*/">>, 1) \in 1..(Len(file.lines[n]) - 1)

\* A line of a raw string that begins like a comment of several lines: it is taken for one,
\* with the end of the raw string (cpplint.py:1592).
CommentInRaw ==
  LET lexed == LexLines(file.lines)
  IN \E n \in DOMAIN lines : lexed.begins[n] = "raw" /\ StartsComment(file.lines[n])

\* A quote that is none, or the wrong one: it stands in a comment of one line, or ends a
\* string with an R before a parenthesis (cpplint.py:1550, 1676).
MisleadingQuote ==
  LET lexed == LexLines(file.lines)
  IN \E n \in DOMAIN lines : \E i \in DOMAIN file.lines[n] :
       /\ file.lines[n][i] = Quote
       /\ \/ /\ lexed.modes[n][i] = "block" /\ lexed.begins[n] # "block"
             /\ ~StartsComment(file.lines[n])
          \/ /\ lexed.modes[n][i] = "string" /\ i < Len(file.lines[n])
             /\ SubSeq(file.lines[n], i - 1, i + 1) = RawBegin

\* cpplint.py:1513-1741.  Of a file that gets no error about comments or strings, the code
\* that is looked at is the code there is: no brace of a comment or of a string is taken
\* for code, and none is lost.  Three things that the heuristics are known not to see
\* through are excepted: what stands behind a comment of several lines on its last line,
\* a comment's beginning in a raw string, and quotes that mean something else.
CodeFound ==
  Opened =>
    \/ Suspect \/ EndsMidLine \/ CommentInRaw \/ MisleadingQuote
    \/ LET lexed == LexLines(file.lines)
       IN \A n \in DOMAIN lines : Count(lines[n], "{") = Count(lexed.code[n], "{")

Places == UNION {{<<n, i>> : i \in DOMAIN lines[n]} : n \in DOMAIN lines}
PlacesOf(tokens) == {p \in Places : lines[p[1]][p[2]] \in tokens}
CloseOf(p) == CloseExpression(lines, p[1], p[2])
OpenOf(p)  == ReverseCloseExpression(lines, p[1], p[2])

\* cpplint.py:1744-1978.  For round, square and curly brackets the search forwards and the
\* search backwards, which judge "<" and ">" by different rules, find the same pairs.  The
\* pairs of "<" and ">" themselves are left out: there the two searches differ.
BracketsPair ==
  Opened => /\ \A p \in PlacesOf(Opening) : CloseOf(p) # <<>> => OpenOf(CloseOf(p)) = p
            /\ \A p \in PlacesOf(Closing) : OpenOf(p) # <<>> => CloseOf(OpenOf(p)) = p

\* A line with a class head whose first mark is "<" or on another line:
\* InTemplateArgumentList may read on over #else (cpplint.py:2723).
SplitHead ==
  \E n \in DOMAIN lines :
    LET s  == lines[n]
        at == {i \in 2..Len(s) : s[i] \in HeadMarks}
    IN "class" \in Range(s) /\ (at = {} \/ s[Min(at)] = "<")

\* cpplint.py:2765-2772.  The lines behind #else and #elif do not affect the nesting stack:
\* it is the stack of the file without them, in each part of the file that counts.
StackFollowsBranches ==
  phase = "lines" /\ ~Skipped(lines, line - 1) /\ ~SplitHead =>
    nest.stack = StackOf(FirstBranches(lines), line - 1)

\* The reference reading, token by token: the kinds of the blocks that are open, the head
\* that waits for its brace, the depth in parentheses, the asm statement that goes on or
\* ends on the line, and whether all is plain so far.  A head counts at the beginning of a
\* line; extern "C" and asm want their brace right behind.
ReadHeads == {"namespace", "class", "extern", "asm"}

\* What the property leaves out: a head inside a line, behind a head that waits, or in
\* inline assembly; a block that ends while one waits; a namespace head with more than a
\* brace behind it; "<" in a class head; a namespace, asm or brace in parentheses.
PlainToken(st, t, head) ==
  /\ t \in ReadHeads => /\ head = "none"
                        /\ st.first \/ st.depth > 0
                        /\ st.open = <<>> \/ Last(st.open) # "asm"
  /\ t = "}" => head = "none"
  /\ t \in {"=", "(", ")", ";", "[", "]", "<", ">"} => head # "namespace"
  /\ t = "<" => head # "class"
  /\ t \in {"namespace", "asm", "{", "}"} => st.depth = 0

ReadToken(st, t) ==
  LET head == IF st.head \in {"extern", "asm"} /\ t # "{" THEN "none" ELSE st.head
  IN [st EXCEPT
        !.first = FALSE,
        !.plain = @ /\ PlainToken(st, t, head),
        !.depth = CASE t = "(" -> @ + 1 [] t = ")" -> @ - 1 [] OTHER -> @,
        !.head = CASE t \in ReadHeads /\ st.first -> t
                   [] t \in HeadMarks \cup {")"} -> "none"
                   [] OTHER -> head,
        !.open = CASE t = "{" -> Append(@, IF head = "none" THEN "block" ELSE head)
                   [] t = "}" /\ @ # <<>> -> Front(@)
                   [] OTHER -> @]

\* An asm statement begins in a block, by a line that leaves its parenthesis open.
AsmOf(st, s, depth) ==
  IF st.asm = "inside" THEN IF depth = 0 THEN "end" ELSE "inside"
  ELSE IF StartsAsm(s) /\ s[2] = "(" /\ st.open # <<>> /\ st.depth = 0 /\ depth = 1
       THEN "inside" ELSE "no"

\* A line is plain if it has braces only where it begins and ends outside of parentheses,
\* and ends in parentheses only where no head waits.
ReadLine(st, s) ==
  LET end  == FoldLeft(ReadToken, [st EXCEPT !.first = TRUE], s)
      head == IF end.head \in {"extern", "asm"} THEN "none" ELSE end.head
      braces == Range(s) \cap {"{", "}"} # {}
  IN [end EXCEPT
        !.head = head,
        !.asm = AsmOf(st, s, end.depth),
        !.plain = @ /\ end.depth >= 0
                    /\ (braces => st.depth = 0 /\ end.depth = 0)
                    /\ (end.depth > 0 => st.head = "none" /\ head = "none")]

Reading(n) ==
  FoldLeft(ReadLine, [open |-> <<>>, head |-> "none", depth |-> 0, asm |-> "no",
                      first |-> TRUE, plain |-> TRUE], SubSeq(lines, 1, n))

\* The file so far is plain and has no #else (StackFollowsBranches is about those).
PlainSoFar ==
  /\ phase = "lines" /\ \A n \in 1..(line - 1) : ~Starts(lines[n], Elses)
  /\ Reading(line - 1).plain

\* cpplint.py:2867-2974.  In a plain file the heads of classes and namespaces, forward
\* declarations, arguments with "class" or "struct", asm blocks and extern "C" are told
\* apart line by line as a reading of all tokens does: the open blocks are of the same
\* kinds, from the outermost in.  An extern "C" with its brace on the next line is taken
\* for a plain block.
BlocksMatchBraces ==
  PlainSoFar =>
    LET seen == SelectSeq(nest.stack, LAMBDA b : b.seen)
        Kind(b) == IF b.asm = "block" THEN "asm" ELSE b.type
    IN [i \in DOMAIN seen |-> Kind(seen[i])] = Reading(line - 1).open

\* cpplint.py:2840-2861, 6090.  In a plain file the lines exempt from the checks are those
\* of an asm statement of several lines in a block, up to the line that closes its
\* parenthesis, and those of an asm block, but for the blocks inside it.  A statement on
\* one line is not exempt.
AsmExempt ==
  PlainSoFar /\ line > 1 =>
    LET reading == Reading(line - 1)
    IN InAsmBlock(nest.stack) <=>
         reading.asm # "no" \/ (reading.open # <<>> /\ Last(reading.open) = "asm")

\* Open conditionals behind line n, -1 when one has been closed that was not open.
DepthStep(d, s) ==
  IF d < 0 THEN d
  ELSE IF Starts(s, Ifs) THEN d + 1
  ELSE IF Starts(s, Endifs) \/ (Starts(s, Elses) /\ d = 0) THEN d - 1
  ELSE d
IfDepth(n) == FoldLeft(DepthStep, 0, SubSeq(lines, 1, n))

\* A directive or an include in inline assembly: the line is exempt from the checks, those
\* of the include lists with them (cpplint.py:6090).
DirectiveInAsm ==
  \E n \in 1..(line - 1) : (IsInclude(lines[n]) \/ IsDirective(lines[n]))
                            /\ InAsmBlock(StackOf(lines, n))

\* A header of a third party is left alone, a source of another directory is not taken.
LeftAlone(n) == IsThirdParty(file, options, Headers[lines[n][1]])
RememberedFrom(n) ==
  LET h == Headers[lines[n][1]]
  IN LeftAlone(n) \/ IsForeignSource(file, options, h) \/ FindHeader(inc, h.name)

\* cpplint.py:893-909.  A header included outside of all conditionals is not forgotten
\* in any of the branches that follow, so that a second #include of it is reported.
TopLevelRemembered ==
  phase = "lines" /\ IfDepth(line - 1) >= 0 =>
    \/ \A n \in 1..(line - 1) : IsInclude(lines[n]) /\ IfDepth(n) = 0 => RememberedFrom(n)
    \/ DirectiveInAsm

\* An error of the category has been reported on line n of the file.
Reported(n, category) ==
  \E r \in reports : r.left = Len(todo) /\ r.error.line = n /\ r.error.category = category

\* The includes before line n since the last directive that the file's lists took.
SectionBefore(n) ==
  LET cut == Max({0} \cup {k \in 1..(n - 1) : IsDirective(lines[k])})
  IN {k \in (cut + 1)..(n - 1) :
        IsInclude(lines[k]) /\ ~LeftAlone(k) /\ ~Reported(k, <<"build", "include">>)}
TypeAt(k) == ClassifyInclude(file, Headers[lines[k][1]])

\* An include that the system headers behind it should have come before.
TooEarly(k, n) ==
  \/ TypeAt(k) = "other"
  \/ TypeAt(k) = "cpp_sys" /\ TypeAt(n) = "c_sys"
  \/ /\ TypeAt(k) \in {"likely", "possible"}
     /\ \E j \in SectionBefore(k) : TypeAt(j) \in {"c_sys", "cpp_sys"}

\* cpplint.py:4839-4844.  The order is the file's own header, C, C++, its own header again,
\* others: a system header is reported when one of a later kind, or an own header behind
\* system headers, comes before it in its section.
OrderFollowsGuide ==
  phase = "lines" /\ line > 1 /\ IsInclude(lines[line - 1]) =>
    LET n == line - 1
    IN \/ Reported(n, <<"build", "include_order">>) <=>
            /\ TypeAt(n) \in {"c_sys", "cpp_sys"} /\ \E k \in SectionBefore(n) : TooEarly(k, n)
            /\ ~LeftAlone(n) /\ ~Reported(n, <<"build", "include">>)
       \/ DirectiveInAsm

\* The file a report was made in.
FileOf(r) == FilesOf[Len(FilesOf) + 1 - r.left]

\* What the file itself, its own directories and the arguments say of an error.
Wanted(f, e) ==
  LET clean == RemoveMultiLineComments(f.lines)
      marked == \E n \in DOMAIN clean : \E m \in NolintMark(clean[n]) :
                  /\ e.line = (IF m.next THEN n + 1 ELSE n)
                  /\ m.category \in {All, e.category}
      fs == DefaultFilters \o job.args.filters \o ReadConfigs(f.configs, DefaultOptions).filters
  IN /\ ~marked /\ e.category \notin GlobalSuppressions(f.lines)
     /\ e.confidence >= job.args.verbose /\ ~IsFiltered(fs, e.category)

\* Errors that are raised before the NOLINT of their line is looked for: a comment that
\* does not end, and a header guard under NOLINTNEXTLINE (cpplint.py:6201, 6205).
RaisedEarly(r) ==
  /\ r.early
  /\ \/ r.error.category = <<"readability", "multiline_comment">>
     \/ \E n \in DOMAIN FileOf(r).lines : "NOLINTNEXTLINE" \in Range(FileOf(r).lines[n])

\* cpplint.py:1410-1435, 6180-6229, 6318-6407.  Whether an error is printed depends on its
\* own file, its directories and the arguments: no NOLINT, global suppression or filter
\* of another file or line has a part in it.
PrintedExactly ==
  \A r \in reports : RaisedEarly(r) \/ (r.printed <=> Wanted(FileOf(r), r.error))

\* cpplint.py:1079-1085.  Between two files the filters are those of the arguments.
FiltersRestored ==
  phase = "next" => filters = DefaultFilters \o job.args.filters

\* The line length of the nearest configuration that sets one, or of the arguments.
LengthOf(f) ==
  LET Options(config) == {o \in Range(config) : o.name = "linelength"}
      sets == {i \in DOMAIN f.configs : Options(f.configs[i]) # {}}
  IN IF sets = {} THEN job.args.options.length
     ELSE (CHOOSE o \in Options(f.configs[Min(sets)]) : TRUE).length

\* cpplint.py:253: "CPPLINT.cfg has an effect on files in the same directory and all
\* sub-directories, unless overridden by a nested configuration file."
ConfigHasItsScope == phase = "lines" => options.length = LengthOf(file)
=============================================================================
