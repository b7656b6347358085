------------------------------ MODULE TextTools ------------------------------
(***************************************************************************)
(* cat+grep/mycat.c and cat+grep/mygrep.c: two programs that read a text   *)
(* file line by line with getline().  mycat reads it twice, first to learn *)
(* how wide the line numbers are.  Another program may append to the file  *)
(* meanwhile.                                                              *)
(*                                                                         *)
(* A file is a sequence of characters without NUL; reading goes to the     *)
(* file itself, not to a buffer of the stream.                             *)
(***************************************************************************)
EXTENDS Naturals, Sequences, SequencesExt

CONSTANTS
    Letters,     \* characters other than the newline
    X,           \* the letter the patterns are about
    NL,          \* the newline
    Base,        \* of the printed numbers, 10 in the code
    MaxLength,   \* bound: length of the file when it is opened
    MaxAppends   \* bound: characters appended later

ASSUME TextAssumption ==
    /\ X \in Letters /\ NL \notin Letters
    /\ Base \in Nat /\ Base > 1
    /\ MaxLength \in Nat /\ MaxAppends \in Nat

VARIABLES
    tool,     \* which of the programs runs: "cat" or "grep"
    flags,    \* of mycat: subset of {"num", "nenum", "end"}
    pattern,  \* of mygrep
    file,     \* what the file contains
    opened,   \* history: what it contained when it was opened
    pc,       \* where the program is
    pos, eof, \* the stream: characters read, end of file met
    l, nel,   \* lines and non-empty lines: counted, then printed
    line_align, neline_align,   \* widths of the numbers
    out       \* what was printed, a record per line

vars == <<tool, flags, pattern, file, opened, pc, pos, eof, l, nel, line_align, neline_align, out>>

command == <<tool, flags, pattern>>

Patterns == {"x", "^x", "x$", "^$"}

Init ==
    /\ tool = "none" /\ flags = {} /\ pattern = "none"
    /\ \E n \in 0 .. MaxLength : file \in [1 .. n -> Letters \cup {NL}]
    /\ opened = file
    /\ pc = "options"
    /\ pos = 0 /\ eof = FALSE
    /\ l = 0 /\ nel = 0 /\ line_align = 0 /\ neline_align = 0
    /\ out = <<>>

-----------------------------------------------------------------------------
\* main() of either: options, fopen(), regcomp(); "refused" without a file
\* or with wrong arguments, "helped" after -h.
Options ==
    /\ pc = "options"
    /\ \/ /\ tool' = "cat" /\ flags' \in SUBSET {"num", "nenum", "end"}
          /\ pc' = "count" /\ UNCHANGED pattern
       \/ /\ tool' = "grep" /\ pattern' \in Patterns
          /\ pc' = "filter" /\ UNCHANGED flags
       \/ /\ tool' \in {"cat", "grep"} /\ pc' \in {"helped", "refused"}
          /\ UNCHANGED <<flags, pattern>>
    /\ opened' = file
    /\ UNCHANGED <<file, pos, eof, l, nel, line_align, neline_align, out>>

\* getline(): up to the next newline, that included, or to the end of the
\* file, which the stream then remembers.
Line ==
    LET rest == SubSeq(file, pos + 1, Len(file))
        newlines == { k \in DOMAIN rest : rest[k] = NL }
    IN  IF newlines = {} THEN rest
        ELSE SubSeq(rest, 1, CHOOSE k \in newlines : \A j \in newlines : k <= j)
HasLine == ~eof /\ Line # <<>>
GetLine ==
    /\ HasLine
    /\ pos' = pos + Len(Line)
    /\ eof' = (Last(Line) # NL)

\* A read that fails, of a directory say or after some lines, ends either
\* program: errno is looked at behind each loop.
ReadFails ==
    /\ pc \in {"count", "print", "filter"}
    /\ pc' = "failed"
    /\ UNCHANGED command
    /\ UNCHANGED <<file, opened, pos, eof, l, nel, line_align, neline_align, out>>

-----------------------------------------------------------------------------
(* mycat                                                                   *)

\* bytes > 1
NonEmptyWithNewline(s) == Len(s) > 0               \* mutant
NonEmpty(s) == Len(s) > 1

CountLine ==
    /\ pc = "count" /\ GetLine
    /\ l' = l + 1
    /\ nel' = IF NonEmpty(Line) THEN nel + 1 ELSE nel
    /\ UNCHANGED command
    /\ UNCHANGED <<file, opened, pc, line_align, neline_align, out>>

Digits[n \in Nat] == IF n = 0 THEN 0 ELSE 1 + Digits[n \div Base]

\* The widths, rewind(); l and nel number the printed lines from 1.
CountEnd ==
    /\ pc = "count" /\ ~HasLine
    /\ line_align' = Digits[l] /\ neline_align' = Digits[nel]
    /\ pos' = 0 /\ eof' = FALSE
    /\ l' = 1 /\ nel' = 1
    /\ pc' = "print"
    /\ UNCHANGED command /\ UNCHANGED <<file, opened, out>>

\* printf("%.*s", bytes - 1, line): the last character is taken to be the
\* newline.
ShownWhole(s) == s                                 \* mutant
Shown(s) == Front(s)

PrintedLine(s) ==
    [number |-> IF "nenum" \in flags THEN (IF NonEmpty(s) THEN nel ELSE 0)
                ELSE IF "num" \in flags THEN l ELSE 0,
     width |-> IF "nenum" \in flags THEN neline_align ELSE line_align,
     text |-> Shown(s),
     dollar |-> "end" \in flags]

PrintLine ==
    /\ pc = "print" /\ GetLine
    /\ out' = Append(out, PrintedLine(Line))
    /\ nel' = IF "nenum" \in flags /\ NonEmpty(Line) THEN nel + 1 ELSE nel
    /\ l' = IF "num" \in flags /\ "nenum" \notin flags THEN l + 1 ELSE l
    /\ UNCHANGED command
    /\ UNCHANGED <<file, opened, pc, line_align, neline_align>>

-----------------------------------------------------------------------------
(* mygrep                                                                  *)

\* regexec() on what getline() returned: REG_NEWLINE is not set, so the
\* newline is a character like any other and $ is the end behind it.
Matches(p, s) ==
    CASE p = "x"  -> \E k \in DOMAIN s : s[k] = X
      [] p = "^x" -> s # <<>> /\ Head(s) = X
      [] p = "x$" -> s # <<>> /\ Last(s) = X
      [] p = "^$" -> s = <<>>

KeepsOthers(s) == ~Matches(pattern, s)             \* mutant
Keeps(s) == Matches(pattern, s)

FilterLine ==
    /\ pc = "filter" /\ GetLine
    /\ out' = IF Keeps(Line) THEN Append(out, [text |-> Line]) ELSE out
    /\ UNCHANGED command
    /\ UNCHANGED <<file, opened, pc, l, nel, line_align, neline_align>>

Finish ==
    /\ pc \in {"print", "filter"} /\ ~HasLine
    /\ pc' = "done"
    /\ UNCHANGED command
    /\ UNCHANGED <<file, opened, pos, eof, l, nel, line_align, neline_align, out>>

-----------------------------------------------------------------------------
Ended == {"helped", "refused", "failed", "done"}

\* Another program.
AppendToFile(c) ==
    /\ pc \notin Ended \cup {"options"} /\ Len(file) < Len(opened) + MaxAppends
    /\ file' = Append(file, c)
    /\ UNCHANGED command
    /\ UNCHANGED <<opened, pc, pos, eof, l, nel, line_align, neline_align, out>>

Step == Options \/ ReadFails \/ CountLine \/ CountEnd \/ PrintLine \/ FilterLine \/ Finish

Next ==
    \/ Step
    \/ \E c \in Letters \cup {NL} : AppendToFile(c)
    \/ pc \in Ended /\ UNCHANGED vars

Spec == Init /\ [][Next]_vars

-----------------------------------------------------------------------------
(* Properties.  When a program ends it has read a beginning of the file    *)
(* that has all the file had when it was opened.  The help texts speak of  *)
(* lines; a last one without a newline is not treated as one, see          *)
(* PrintsContents, and the properties below claim nothing of it.           *)

Done(t) == tool = t /\ pc = "done"

HasRead == SubSeq(file, 1, pos)

\* The lines of f that end in a newline.
Complete(f) == SubSeq(f, 1, Max({0} \cup { k \in DOMAIN f : f[k] = NL }))

Printed == FlattenSeq([k \in DOMAIN out |-> Append(out[k].text, NL)])

\* mycat prints the file, all of it and nothing else (mycat.c:103-123), as
\* far as it consists of lines that end in a newline, also when it grows
\* before, between or during the two passes.
CatPrintsFile ==
    Done("cat") =>
        /\ pos >= Len(opened)
        /\ IsPrefix(Complete(HasRead), Printed)
        /\ Complete(HasRead) = HasRead => Printed = HasRead

\* "mycat - print file contents" (mycat.c:53): of any file, if nobody
\* changes it.
PrintsContents == Done("cat") /\ file = opened /\ flags = {} => Printed = file

\* -n numbers the lines, -b those that are not empty, from 1 without gaps;
\* and the column is as wide as its last number, unless the file grew
\* between the passes (mycat.c:101-115, 157-187).
Numbers == SelectSeq([k \in DOMAIN out |-> out[k].number], LAMBDA n : n > 0)
NumbersFit ==
    Done("cat") =>
        /\ Numbers = [k \in DOMAIN Numbers |-> k]
        /\ \A k \in DOMAIN out :
              k < Len(out) \/ Complete(HasRead) = HasRead =>
                  (out[k].number > 0 <=> \/ "nenum" \in flags /\ out[k].text # <<>>
                                         \/ "nenum" \notin flags /\ "num" \in flags)
        /\ file = opened /\ Numbers # <<>> =>
              \A k \in DOMAIN out : out[k].width = Digits[Len(Numbers)]

\* mygrep prints, in order and whole, the lines that satisfy the pattern
\* (mygrep.c:98-107).  Of a pattern that ends in $ nothing is claimed in a
\* file with a newline.
Lines(f) ==
    LET Ends == { k \in DOMAIN f : f[k] = NL \/ k = Len(f) }
        Start(e) == Max({0} \cup { d \in Ends : d < e })
    IN  [n \in 1 .. Cardinality(Ends) |->
            LET e == CHOOSE e \in Ends : Cardinality({ d \in Ends : d <= e }) = n
            IN  SubSeq(f, Start(e) + 1, e)]
Satisfies(s) ==
    LET body == IF Last(s) = NL THEN Front(s) ELSE s
    IN  CASE pattern = "x" -> X \in Range(body)
          [] pattern = "^x" -> body # <<>> /\ body[1] = X
          [] pattern = "x$" -> body # <<>> /\ body[Len(body)] = X
          [] pattern = "^$" -> body = <<>>
GrepPrintsLines ==
    Done("grep") /\ (pattern \in {"x$", "^$"} => NL \notin Range(HasRead)) =>
        /\ pos >= Len(opened)
        /\ FlattenSeq([k \in DOMAIN out |-> out[k].text]) =
              FlattenSeq(SelectSeq(Lines(HasRead), Satisfies))
=============================================================================
