------------------------------- MODULE IniFile -------------------------------
(***************************************************************************)
(* src/src/inifile.cpp.  A file is a sequence of lines, a line a sequence  *)
(* of characters without the newline; kvmap_ is a function on pairs of a   *)
(* key and a section, which the code joins by "$$".                        *)
(***************************************************************************)
EXTENDS Integers, Sequences, SequencesExt, Functions

isspace(c) == c \in {" ", "\t"}

\* from the first character that is no blank to the last
trim(str) ==
  LET dark == {n \in DOMAIN str : ~isspace(str[n])}
  IN IF dark = {} THEN <<>>
     ELSE SubSeq(str, CHOOSE n \in dark : \A k \in dark : n <= k,
                      CHOOSE n \in dark : \A k \in dark : k <= n)

\* the place of the first c, or 0
find(str, c) == SelectInSeq(str, LAMBDA x : x = c)

is_empty_line(line)    == line = <<>>
is_comment_line(line)  == line[1] = "#"
is_section_start(line) == line[1] = "["

\* without a ] the section stays the one before
get_section(line, section) ==
  IF find(line, "]") = 0 THEN section ELSE trim(SubSeq(line, 2, find(line, "]") - 1))

\* Mutant of parse_line: a comment behind the value is not cut off.
parse_lineComment(line) ==
  LET pos == find(line, "=")
  IN [key   |-> trim(IF pos = 0 THEN line ELSE SubSeq(line, 1, pos - 1)),
      value |-> trim(SubSeq(line, pos + 1, Len(line)))]

\* without a = the key and the value are the whole line
parse_line(line) ==
  LET text == IF find(line, "#") = 0 THEN line ELSE SubSeq(line, 1, find(line, "#") - 1)
      pos  == find(text, "=")
  IN [key   |-> trim(IF pos = 0 THEN text ELSE SubSeq(text, 1, pos - 1)),
      value |-> trim(SubSeq(text, pos + 1, Len(text)))]

LoadsLine(s, raw) ==
  LET line == trim(raw)
      kv   == parse_line(line)
      at   == <<kv.key, s.section>>
  IN IF is_empty_line(line) \/ is_comment_line(line) THEN s
     ELSE IF is_section_start(line) THEN [s EXCEPT !.section = get_section(line, @)]
     ELSE [s EXCEPT !.kvmap = [x \in DOMAIN @ \cup {at} |-> IF x = at THEN kv.value ELSE @[x]]]

\* what is there stays, unless the file has it again
load(kvmap, file) == FoldLeft(LoadsLine, [kvmap |-> kvmap, section |-> <<>>], file).kvmap

reload(kvmap, file) == load(<<>>, file)
==============================================================================
