----------------------------- MODULE MCCppLint ------------------------------
(* Calls of cpplint.py for TLC: all short files over an alphabet of lines for each of   *)
(* the states it keeps, and pairs of files over a few files and configurations.     *)
EXTENDS CppLint

\* Includes of a source file src/lua.c.  A third party's headers are told by names like
\* lua.h, which may be the file's own.
Header(name, dir, stem, ext, first, rank) ==
  [name |-> name, dir |-> dir, stem |-> stem, ext |-> ext, first |-> first, rank |-> rank,
   system |-> FALSE, std |-> FALSE, third |-> FALSE]

\* "mine" is named like a third party's header and is part of the path src/lua.h.
MCHeaders ==
  [t \in {"own", "like", "other", "c", "cpp", "third", "mine", "source"} |->
     CASE t = "own"    -> Header("src/lua.h", "src", "lua", "h", "lua", 5)
       [] t = "like"   -> Header("lua-b.h", "", "lua-b", "h", "lua", 2)
       [] t = "other"  -> Header("lib/z.h", "lib", "z", "h", "z", 3)
       [] t = "c"      -> [Header("c.h", "", "c", "h", "c", 4) EXCEPT !.system = TRUE]
       [] t = "cpp"    -> [Header("map", "", "map", "", "map", 6) EXCEPT
                             !.system = TRUE, !.std = TRUE]
       [] t = "third"  -> [Header("lualib.h", "", "lualib", "h", "lualib", 7) EXCEPT
                             !.third = TRUE]
       [] t = "mine"   -> [Header("lua.h", "", "lua", "h", "lua", 1) EXCEPT !.third = TRUE]
       [] t = "source" -> Header("lib/y.c", "lib", "y", "c", "y", 8)]

MCUses == [t \in {"map<>"} |-> "map"]

\* The file src/lua.c; src/lua.h includes map, and can be opened under either of its names.
Plain ==
  [ext |-> "c", dir |-> "src", public |-> "public", base |-> "lua", stem |-> "lua",
   first |-> "lua", test |-> FALSE, header |-> "", readable |-> TRUE,
   akin |-> [e \in {"h", "hpp"} |-> IF e = "h" THEN {"src/lua.h", "lua.h"} ELSE {}],
   module |-> [name \in {"src/lua.h", "lua.h"} |-> {"map"}],
   guards |-> [root \in {"", "sub"} |-> IF root = "" THEN <<"G_", "G__">> ELSE <<"X_", "X__">>],
   configs |-> <<>>, lines |-> <<>>, crlf |-> {}, newline |-> TRUE]
DefaultArgs == [filters |-> <<>>, options |-> DefaultOptions, verbose |-> 1, excluded |-> {}]

Call(f) == [files |-> <<f>>, args |-> DefaultArgs]
CallsOn(contents) == {Call([Plain EXCEPT !.lines = ls]) : ls \in contents}

\* Up to n of the pieces, one after the other.
Pieces(S, n) == {FlattenSeq(s) : s \in UNION {[1..k -> S] : k \in 0..n}}

\* Two lines of n of the pieces each.
TwoLines(S, n) == [1..2 -> {FlattenSeq(s) : s \in [1..n -> S]}]

TextCalls ==
  CallsOn([1..3 -> Pieces({<<"/*">>, <<"*/">>, <<"{">>}, 2)]
    \cup [1..2 -> Pieces({<<"/*">>, <<"*/">>, <<"//">>, <<"{">>}, 2)]
    \cup [1..2 -> Pieces({<<Quote>>, RawBegin, RawEnd, <<"//">>, <<"{">>}, 2)]
    \cup TwoLines({<<Quote>>, RawBegin, RawEnd, <<"{">>}, 3)
    \cup [1..3 -> {<<"/*">>, <<"*/">>, <<"/*", "*/">>, RawBegin, RawEnd, <<"{">>,
                   RawEnd \o <<"{">>, RawEnd \o <<"{", "//", "*/">>, <<"*/", "{", "/*", "*/">>,
                   <<"//">> \o RawBegin, <<"/*">> \o RawBegin \o <<"*/">>}]
    \cup [1..1 -> Pieces({<<"/*">>, <<"*/">>, <<"//">>, <<Quote>>, RawBegin, RawEnd, <<"{">>}, 4)]
    \cup [1..1 -> Pieces({<<Quote>>, RawBegin, RawEnd, <<"{">>}, 5)])

ExprCalls ==
  LET c == {<<t>> : t \in {"(", ")", "{", "}", "<", ">", ";", "-", "operator"}}
      d == {<<t>> : t \in {"(", ")", "<", ">"}}
  IN CallsOn([1..1 -> Pieces(c \cup {<<"x">>}, 3) \cup Pieces(c, 4)] \cup TwoLines(d, 3)
       \cup [1..2 -> Pieces(d \cup {<<";">>}, 2)])

NestCalls ==
  LET heads == {<<"namespace", "{">>, <<"class", "{">>, <<"class">>, <<"extern", "{">>,
                <<"extern">>, <<"{">>, <<"}">>}
      odd == {<<"class", ";">>, <<"class", "=", "{">>, <<"class", ")">>,
                 <<"f", "(", "class">>}
      more == {<<"class", "{", "class", "{">>, <<"namespace", "{", "class", "{">>,
               <<"namespace">>, <<"class", ">">>, <<"class", "<">>, <<"class", "(", ")">>,
               <<";">>, <<"{">>, <<"}", "}">>, <<"extern", "{", "}">>, <<"x", "(">>, <<")">>}
      branch == {<<"class", "{">>, <<"}">>, <<"#if">>, <<"#else">>, <<"#endif">>}
      asm == {<<"asm", "(">>, <<")", ";">>, <<"{">>, <<"}">>, <<"g", "(">>, <<"asm", "{">>}
      asm3 == {<<"asm", "(", ")">>, <<"g", "(", "{">>, <<"}", ")", ";">>}
      Inside(contents) == {<<<<"f", "(", ")", "{">>>> \o ls : ls \in contents}
  IN CallsOn([1..4 -> heads] \cup [1..3 -> heads \cup odd] \cup [1..3 -> more]
       \cup [1..5 -> branch] \cup Inside([1..4 -> asm] \cup [1..3 -> asm \cup asm3]))

IncludeCalls ==
  LET names == {<<t>> : t \in DOMAIN MCHeaders}
      branch == {<<"c">>, <<"map<>">>, <<"#if">>, <<"#else">>, <<"#endif">>}
      kinds == {<<t>> : t \in {"own", "like", "other", "c", "cpp"}}
      ls == [1..4 -> kinds \cup {<<>>}] \cup [1..3 -> names] \cup [1..5 -> branch]
  IN {Call([Plain EXCEPT !.lines = l, !.header = "h"]) : l \in ls}

\* Files about NOLINT, header guards, line lengths, functions and endings.
SmallFiles ==
  LET Src(ls) == [Plain EXCEPT !.lines = ls]
      Hdr(ls) == [Plain EXCEPT !.lines = ls, !.ext = "h"]
      body == <<"x">>
      Guard(first, name, last) == Hdr(first \o <<<<"#ifndef", name>>, <<"#define", name>>, last>>)
  IN { Src(<<<<"wide">>, <<"wide", "//", "NOLINT(line_length)">>, <<"cast">>>>),
       Src(<<<<"//", "NOLINTNEXTLINE">>, <<"wide">>, <<"cast", "//", "NOLINT(?)">>>>),
       Src(<<<<"//", "LINT_C_FILE">>, <<"cast">>, <<"wide">>>>),
       Src(<<<<"f", "(", ")", "{">>, body, body, <<"cast">>, <<"}">>, <<"f", "(">>>>),
       Src(<<<<"x">>, <<"/*", "NOLINT">>, <<"cast">>>>),
       Src(<<<<"/*">>, <<"cast", "//", "NOLINT">>>>),
       Guard(<<<<"//", "NOLINTNEXTLINE">>>>, "X_", <<"#endif", "//", "G_">>),
       Guard(<<>>, "G__", <<"#endif", "/*", "G_", "*/">>),
       Guard(<<<<"NOLINT(build/header_guard)">>>>, "X_", <<"#endif", "//", "NOLINT">>),
       Guard(<<<<"//", "NOLINTNEXTLINE">>>>, "X_",
             <<"#endif", "//", "G__", "//", "NOLINT(build/header_guard)">>),
       Hdr(<<<<"#ifndef", "G_">>, <<"#define", "G_">>, <<"map<>">>, <<"#endif">>>>),
       Hdr(<<<<"#pragma once">>, <<"namespace", "{">>, <<"class">>, <<"like">>, <<"other">>>>) }

SmallConfigs ==
  LET Filter(sign, top, sub) ==
        [name |-> "filter", filters |-> <<[sign |-> sign, top |-> top, sub |-> sub]>>]
      Length(n) == [name |-> "linelength", length |-> n]
      Extensions(name, set) == [name |-> name, extensions |-> set]
      Option(name) == [name |-> name]
  IN { <<>>,
       << <<Length(120)>>, <<Filter("-", "readability", ""), Length(80)>> >>,
       << <<Filter("+", "readability", "casting"), Option("set noparent")>>,
          <<Filter("-", "whitespace", "")>> >>,
       << <<Length(120), Filter("-", "build", "include"), Option("exclude_files")>> >>,
       << <<Filter("", "build", "")>> >>,
       << <<Filter("-", "build", "include"), Extensions("headers", {"c"})>>,
          <<[name |-> "root", root |-> "sub"], Extensions("extensions", {"c", "h"})>> >>,
       << <<Filter("+", "build", "include_alpha"), Filter("-", "", "")>>,
          <<Filter("+", "whitespace", "")>> >> }

SmallArgs ==
  LET f(sign, top, sub) == [sign |-> sign, top |-> top, sub |-> sub]
  IN { DefaultArgs,
       [DefaultArgs EXCEPT !.filters = <<f("-", "readability", "casting"), f("-", "legal", "")>>,
                           !.options = [@ EXCEPT !.length = 120], !.verbose = 2],
       [DefaultArgs EXCEPT !.filters = <<f("", "whitespace", "")>>],
       [DefaultArgs EXCEPT !.verbose = 0, !.excluded = {"b"}] }

SecondFiles ==
  { [Plain EXCEPT !.lines = <<<<"wide">>, <<"cast">>, <<"third">>>>, !.newline = FALSE,
                  !.crlf = {1, 3}, !.header = "h"],
    [Plain EXCEPT !.base = "b", !.lines = <<<<"wide">>>>],
    [Plain EXCEPT !.readable = FALSE],
    [Plain EXCEPT !.ext = "txt"] }

\* Of the two configurations and the arguments, at least one is the default.
Settings ==
  {<<c, d, a>> \in SmallConfigs \X SmallConfigs \X SmallArgs :
     c = <<>> \/ d = <<>> \/ a = DefaultArgs}

PairCalls ==
  {[files |-> <<[f EXCEPT !.configs = s[1]], [g EXCEPT !.configs = s[2]]>>, args |-> s[3]] :
     f \in SmallFiles \cup SecondFiles, g \in SecondFiles, s \in Settings}

MCJobs == [text |-> TextCalls, brackets |-> ExprCalls, nesting |-> NestCalls,
           includes |-> IncludeCalls, pairs |-> PairCalls]
=============================================================================
