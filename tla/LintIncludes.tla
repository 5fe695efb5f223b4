---------------------------- MODULE LintIncludes ----------------------------
(***************************************************************************)
(* _IncludeState of cpplint.py and the checks on it: which headers a file  *)
(* has included so far, in lists that follow the preprocessor's branches;  *)
(* the order of the include lines; the headers a file should include.      *)
(*                                                                         *)
(* A header is a record: name, as it is included; dir, stem (the base      *)
(* without a suffix like -inl) and ext; first, the first component of its  *)
(* base; rank, the place of its canonical path in the alphabet; system (in *)
(* angle brackets); std (a C++ standard header); third (named like a third *)
(* party's).                                                               *)
(* A file has dir, public (the directory ../public), base, stem, ext,      *)
(* first, test (a test by its name), and what the program finds by looking *)
(* at paths as text: akin[e], the names of the headers whose path contains *)
(* the file's own with the extension e, or is contained in it; header, the *)
(* extension of the header beside it, "" for none; module, for each header *)
(* name whose path without /public/, /internal/ and -inl ends the file's   *)
(* own and that can be opened, the names this header includes; guards, for *)
(* each --root, the guard's name and this name with one more underscore.   *)
(* The options are the globals that --linelength, --extensions, --headers  *)
(* and --root set, and CPPLINT.cfg files too.                              *)
(***************************************************************************)
EXTENDS LintNesting

CONSTANTS
  Headers, \* the header of each #include token
  Uses     \* the name of the header that each token using a template needs

\* An #include is no other directive.
ASSUME HeadersAssumption == DOMAIN Headers \cap (Ifs \cup Elses \cup Endifs) = {}

\* GetHeaderExtensions, GetAllExtensions, GetNonHeaderExtensions; of the extensions with
\* an h in them only the usual ones are considered.
UsualHeaders == {"h", "hh", "hpp", "hxx", "h++", "cuh"}
UsualSources == {"c", "cc", "cpp", "cxx", "c++", "cu"}
HeaderExtensions(options) ==
  IF options.headers # {} THEN options.headers
  ELSE IF options.extensions # {} THEN options.extensions \cap UsualHeaders ELSE UsualHeaders
AllExtensions(options) ==
  HeaderExtensions(options)
    \cup (IF options.extensions # {} THEN options.extensions ELSE UsualSources)
SourceExtensions(options) == AllExtensions(options) \ HeaderExtensions(options)

Mistake(line, category, confidence) ==
  [line |-> line, category |-> category, confidence |-> confidence]

IsInclude(line) == Starts(line, DOMAIN Headers)

\* lists holds <<name, line>> of the headers, section the place in the order, last the
\* rank of the header before, 0 for none.
NoIncludes == [lists |-> <<{}>>, section |-> "initial", last |-> 0]

Remembered(inc) == UNION Range(inc.lists)

\* FindHeader
FindHeader(inc, name) == \E f \in Remembered(inc) : f[1] = name

\* Mutant: at #else every list is emptied.
ResetSectionAll(inc, line) ==
  [lists |-> IF Starts(line, Ifs) THEN Append(inc.lists, {})
             ELSE IF Starts(line, Elses) THEN [i \in DOMAIN inc.lists |-> {}]
             ELSE inc.lists,
   section |-> "initial", last |-> 0]

\* ResetSection, for the directive at the beginning of a line.
ResetSection(inc, line) ==
  [lists |-> IF Starts(line, Ifs) THEN Append(inc.lists, {})
             ELSE IF Starts(line, Elses) THEN Append(Front(inc.lists), {})
             ELSE inc.lists,
   section |-> "initial", last |-> 0]

-----------------------------------------------------------------------------
(* The order.                                                              *)

\* _ClassifyInclude
ClassifyInclude(file, h) ==
  LET system == h.system /\ h.ext \notin {"hpp", "hxx", "h++"}
      likely == h.stem = file.stem /\ h.dir \in {file.dir, file.public}
  IN CASE system -> IF h.std THEN "cpp_sys" ELSE "c_sys"
       [] ~system /\ likely -> "likely"
       [] ~system /\ ~likely -> IF h.first = file.first THEN "possible" ELSE "other"

Sections == <<"initial", "my_h", "c", "cpp", "other_h">>
Place(section) == CHOOSE i \in 1..5 : Sections[i] = section
SectionOf == [c_sys |-> "c", cpp_sys |-> "cpp", likely |-> "my_h", possible |-> "my_h",
              other |-> "other_h"]

\* Mutant: a header out of order starts its section anew.
CheckOrderBackwards(inc, type) ==
  LET behind  == Place(inc.section) > Place(SectionOf[type])
      wrong   == behind /\ type \in {"c_sys", "cpp_sys"}
      section == IF behind /\ ~wrong THEN "other_h" ELSE SectionOf[type]
  IN [inc |-> [inc EXCEPT !.section = section,
                 !.last = IF wrong \/ section # inc.section THEN 0 ELSE @],
      wrong |-> wrong]

\* CheckNextIncludeOrder: the state behind an include of the type, and whether it is
\* out of order.  Only system headers can be.
CheckNextIncludeOrder(inc, type) ==
  LET behind  == Place(inc.section) > Place(SectionOf[type])
      wrong   == behind /\ type \in {"c_sys", "cpp_sys"}
      section == IF wrong THEN inc.section
                 ELSE IF behind THEN "other_h" ELSE SectionOf[type]
  IN [inc |-> [inc EXCEPT !.section = section,
                 !.last = IF wrong \/ section # inc.section THEN 0 ELSE @],
      wrong |-> wrong]

\* IsInAlphabeticalOrder
InAlphabeticalOrder(inc, lines, n, h) ==
  ~(inc.last > h.rank /\ n > 1 /\ IsInclude(lines[n - 1]))

\* A path of the file's with one of the extensions contains the header's, or is
\* contained in it.
IsOwnHeader(file, h, extensions) ==
  \E e \in extensions \cap DOMAIN file.akin : h.name \in file.akin[e]

\* A source file of another directory.
IsForeignSource(file, options, h) ==
  h.ext \in SourceExtensions(options) /\ h.dir # file.dir

\* A header named like a third party's that is not the file's own.
IsThirdParty(file, options, h) ==
  h.third /\ ~IsOwnHeader(file, h, HeaderExtensions(options))

\* CheckIncludeLine on line n: the state behind it and the errors it reports.
CheckIncludeLine(inc, file, options, lines, n) ==
  LET h == Headers[lines[n][1]]
      style == IF ~h.system /\ h.dir = "" /\ ~h.third /\ h.ext = "h"
               THEN {Mistake(n, <<"build", "include_subdir">>, 4)} ELSE {}
      refused == FindHeader(inc, h.name) \/ IsForeignSource(file, options, h)
      taken == [inc EXCEPT !.lists = Append(Front(@), Last(@) \cup {<<h.name, n>>})]
      order == CheckNextIncludeOrder(taken, ClassifyInclude(file, h))
      alpha == InAlphabeticalOrder(order.inc, lines, n, h)
  IN IF refused THEN [inc |-> inc, errors |-> style \cup {Mistake(n, <<"build", "include">>, 4)}]
     ELSE IF IsThirdParty(file, options, h) THEN [inc |-> inc, errors |-> style]
     ELSE [inc |-> [order.inc EXCEPT !.last = h.rank],
           errors |-> style
             \cup (IF order.wrong THEN {Mistake(n, <<"build", "include_order">>, 4)} ELSE {})
             \cup (IF alpha THEN {} ELSE {Mistake(n, <<"build", "include_alpha">>, 4)})]

-----------------------------------------------------------------------------
(* At the end of the file.                                                 *)

\* FilesBelongToSameModule and UpdateIncludeState: the names by which the file has
\* included a header of its own module that can be opened.
OwnModule(inc, file, options) ==
  {name \in {f[1] : f \in Remembered(inc)} \cap DOMAIN file.module :
     /\ file.ext \in SourceExtensions(options)
     /\ \E t \in DOMAIN Headers : Headers[t].name = name
                                 /\ Headers[t].ext \in HeaderExtensions(options)}

\* A line of code that uses the template of the header; a directive is none.
UsesOf(name, lines) ==
  {n \in DOMAIN lines : /\ \E i \in DOMAIN lines[n] : lines[n][i] \in DOMAIN Uses
                                                      /\ Uses[lines[n][i]] = name
                        /\ ~Starts(lines[n], Ifs \cup Elses \cup Endifs \cup DOMAIN Headers)
                        /\ ~Starts(lines[n], {"#define", "#pragma once"})}

\* CheckForIncludeWhatYouUse: a template is reported where it is used last.  A source
\* file may leave it to its own header, which must be found for a report.
IncludeWhatYouUse(inc, file, options, lines) ==
  LET own   == OwnModule(inc, file, options)
      known == {f[1] : f \in Remembered(inc)} \cup UNION {file.module[name] : name \in own}
  IN IF own = {} /\ file.ext \in SourceExtensions(options) THEN {}
     ELSE {Mistake(Max(UsesOf(name, lines)), <<"build", "include_what_you_use">>, 4) :
             name \in {u \in Range(Uses) : UsesOf(u, lines) # {} /\ u \notin known}}

\* CheckHeaderFileIncluded: reported at the first header the file includes.
HeaderFileIncluded(inc, file, options) ==
  LET beside == {file.header} \cap HeaderExtensions(options)
      included == {f \in Remembered(inc) :
                     \E t \in DOMAIN Headers : Headers[t].name = f[1]
                                               /\ IsOwnHeader(file, Headers[t], beside)}
      first == IF Remembered(inc) = {} THEN 0 ELSE Min({f[2] : f \in Remembered(inc)})
  IN IF file.ext \notin SourceExtensions(options) \/ file.test \/ beside = {} \/ included # {}
     THEN {} ELSE {Mistake(first, <<"build", "include">>, 5)}

-----------------------------------------------------------------------------
(* The header guard: "#ifndef" and "#define" are followed by a name.       *)

\* The name on the first line that begins with the directive, "" for none.
FirstName(raw, directive) ==
  LET at == {n \in DOMAIN raw : Starts(raw[n], {directive}) /\ Len(raw[n]) > 1}
  IN IF at = {} THEN "" ELSE raw[Min(at)][2]

\* The line has the tokens one behind the other.
HasTokens(line, tokens) == Find(line, tokens, 1) > 0

\* The name in the comment of the last #endif, "" for none of the guard's names: behind //,
\* or between /* and */ in a file that has no // at all.
EndifName(raw, end, guards) ==
  LET named == {g \in Range(guards) :
                  \/ Find(end, <<"#endif", "//", g>>, 1) = 1
                  \/ /\ Find(end, <<"#endif", "/*", g, "*/">>, 1) = 1
                     /\ \A n \in DOMAIN raw : ~InLineComment(raw[n])}
  IN IF named = {} THEN "" ELSE CHOOSE g \in named : TRUE

\* CheckForHeaderGuard: the errors, and the lines whose NOLINT it looks for first.  The
\* guard's name with one more underscore is an error of confidence 0.
CheckForHeaderGuard(file, options, raw) ==
  LET none   == [errors |-> {}, parsed |-> {}]
      waived == \E n \in DOMAIN raw : \/ HasTokens(raw[n], <<"//", "NOLINT(build/header_guard)">>)
                                      \/ Starts(raw[n], {"#pragma once"})
      guards == file.guards[options.root]
      Confidence(name) == IF name = guards[2] THEN 0 ELSE 5
      ifndef == FirstName(raw, "#ifndef")
      atIf   == Min({n \in DOMAIN raw : Starts(raw[n], {"#ifndef"}) /\ Len(raw[n]) > 1})
      ends   == {n \in DOMAIN raw : Starts(raw[n], Endifs)}
      atEnd  == IF ends = {} THEN 0 ELSE Max(ends)
      name   == IF ends = {} THEN "" ELSE EndifName(raw, raw[atEnd], guards)
      Wrong(n, found) == IF found = guards[1] THEN {}
                         ELSE {Mistake(n, <<"build", "header_guard">>, Confidence(found))}
  IN IF file.ext \notin HeaderExtensions(options) \/ waived THEN none
     ELSE IF ifndef = "" \/ ifndef # FirstName(raw, "#define")
     THEN [none EXCEPT !.errors = {Mistake(0, <<"build", "header_guard">>, 5)}]
     ELSE [errors |-> Wrong(atIf, ifndef) \cup Wrong(atEnd, name),
           parsed |-> (IF ifndef # guards[1] THEN {atIf} ELSE {}) \cup {atEnd}]
=============================================================================
