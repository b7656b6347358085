------------------------------- MODULE MyChmod -------------------------------
(***************************************************************************)
(* chmod/mychmod.c: the automaton of parse_mode_str over a mode string and *)
(* the loop of main that applies what it parsed to one file after another. *)
(*                                                                         *)
(* A set of flags is a set of the characters that stand for them, and a    *)
(* mode is the set of its nine permission bits, each a class and a         *)
(* permission; bits above them keep their value and are left out.          *)
(***************************************************************************)
EXTENDS Naturals, Sequences, SequencesExt

CONSTANTS
    Inputs,      \* mode strings: sequences of one-character strings
    InitFiles    \* initial states of the files named after the mode

Classes == {"u", "g", "o"}
Perms == {"r", "w", "x"}
Bits == Classes \X Perms
Digits == {"0", "1", "2", "3", "4", "5", "6", "7"}

\* chmod() fails on a file of somebody else.
File == [exists : BOOLEAN, owned : BOOLEAN, mode : SUBSET Bits]

Nul == "nul"                                       \* '\0', which ends a string

ASSUME ChmodAssumption ==
    /\ InitFiles \subseteq Seq(File)
    /\ Inputs \subseteq Seq(STRING \ {Nul})

VARIABLES
    input,        \* argv[1]
    files,        \* the files argv[2], ...
    original,     \* their state at the start
    state,        \* where the program is
    str_index,    \* str_index, from 1; 0 stands for -1
    cur_char,     \* cur_char, which keeps its value from one turn to the next
    perm_groups,  \* parsed_mode.perm_groups
    perms,        \* parsed_mode.perms
    i             \* the file main is at

parserVars == <<str_index, cur_char, perm_groups, perms>>
vars == <<input, files, original, state, parserVars, i>>

CharAt(n) == IF n <= Len(input) THEN input[n] ELSE Nul

Init ==
    /\ input \in Inputs
    /\ files \in InitFiles /\ original = files
    /\ state = "classify"
    /\ str_index = 0 /\ cur_char = Nul
    /\ perm_groups = {} /\ perms = <<>>
    /\ i = 1

-----------------------------------------------------------------------------
\* strspn(mode_str, "01234567") == strlen(mode_str)
IsNumberPrefix == input # <<>> /\ input[1] \in Digits   \* mutant
IsNumber == ToSet(input) \subseteq Digits

Classify ==
    /\ state = "classify"
    /\ state' = IF IsNumber THEN "stat" ELSE "entry"
    /\ UNCHANGED <<input, files, original, parserVars, i>>

\* STATE_ENTRY
Entry ==
    /\ state = "entry"
    /\ str_index' = str_index + 1
    /\ cur_char' = CharAt(str_index')
    /\ state' = CASE cur_char' \in {"+", "-"}           -> "modificator"
                  [] cur_char' \in {"u", "g", "o", "a"} -> "permgroups"
                  [] OTHER                              -> "failed"
    /\ UNCHANGED <<input, files, original, perm_groups, perms, i>>

\* STATE_SET_PERMGROUPS
SetPermgroups ==
    /\ state = "permgroups"
    /\ perm_groups' = perm_groups \cup {cur_char}
    /\ state' = "entry"
    /\ UNCHANGED <<input, files, original, str_index, cur_char, perms, i>>

\* STATE_SET_MODIFICATOR: a new element of the list, then the next character.
SetModificator ==
    /\ state = "modificator"
    /\ str_index' = str_index + 1
    /\ cur_char' = CharAt(str_index')
    /\ perms' = Append(perms, [mod |-> cur_char, copied |-> cur_char' \in Classes, flags |-> {}])
    /\ state' = CASE cur_char' \in Classes -> "copiedGroup"
                  [] cur_char' \in Perms   -> "perm"
                  [] cur_char' = Nul       -> "stat"
                  [] OTHER                 -> "failed"
    /\ UNCHANGED <<input, files, original, perm_groups, i>>

\* STATE_SET_COPIED_GROUP and STATE_SET_PERM: the character goes to the last
\* element, then the next one decides.
NextIndexStuck == str_index                        \* mutant
NextIndexTwice == str_index + 2                    \* mutant
NextIndex == str_index + 1

Collect(here, own) ==
    /\ state = here
    /\ perms' = [perms EXCEPT ![Len(perms)].flags = @ \cup {cur_char}]
    /\ str_index' = NextIndex
    /\ cur_char' = CharAt(str_index')
    /\ state' = CASE cur_char' \in own        -> here
                  [] cur_char' \in {"+", "-"} -> "modificator"
                  [] cur_char' = Nul          -> "stat"
                  [] OTHER                    -> "failed"
    /\ UNCHANGED <<input, files, original, perm_groups, i>>

-----------------------------------------------------------------------------
\* strtoul(mode_str, NULL, 8): the last three digits give the nine bits.
PermsOfDigit(d) ==
    {p \in Perms : \/ p = "r" /\ d \in {"4", "5", "6", "7"}
                   \/ p = "w" /\ d \in {"2", "3", "6", "7"}
                   \/ p = "x" /\ d \in {"1", "3", "5", "7"}}

DigitOf(s, class) ==
    LET n == Len(s) - (CASE class = "u" -> 2 [] class = "g" -> 1 [] class = "o" -> 0)
    IN  IF n >= 1 THEN s[n] ELSE "0"

Octal(s) == {b \in Bits : b[2] \in PermsOfDigit(DigitOf(s, b[1]))}

\* apply_modes: the bits a clause is about, limited to bmask.
Bmask(groups) ==
    IF groups = {} \/ "a" \in groups THEN Bits ELSE {b \in Bits : b[1] \in groups}

PmaskUnlimited(groups, p) ==                       \* mutant
    {b \in Bits : IF p.copied THEN b[1] \in p.flags ELSE b[2] \in p.flags}
Pmask(groups, p) ==
    {b \in Bits : IF p.copied THEN b[1] \in p.flags ELSE b[2] \in p.flags} \cap Bmask(groups)

ApplyModes(mode, groups, list) ==
    FoldLeft(LAMBDA m, p : IF p.mod = "+" THEN m \cup Pmask(groups, p)
                           ELSE m \ Pmask(groups, p),
             mode, list)

\* stat(argv[i]): the loop ends after the last file, or at a missing one.
StatFile ==
    /\ state = "stat"
    /\ state' = CASE i > Len(files)                      -> "done"
                  [] i <= Len(files) /\ files[i].exists  -> "chmod"
                  [] i <= Len(files) /\ ~files[i].exists -> "failed"
    /\ UNCHANGED <<input, files, original, parserVars, i>>

\* chmod(argv[i], initial_mode)
NewMode(mode) == IF IsNumber THEN Octal(input) ELSE ApplyModes(mode, perm_groups, perms)

ChmodFile ==
    /\ state = "chmod"
    /\ IF files[i].owned
       THEN /\ files' = [files EXCEPT ![i].mode = NewMode(@)]
            /\ state' = "stat" /\ i' = i + 1
       ELSE state' = "failed" /\ UNCHANGED <<files, i>>
    /\ UNCHANGED <<input, original, parserVars>>

Ended == state \in {"done", "failed"} /\ UNCHANGED vars

Step ==
    \/ Classify \/ Entry \/ SetPermgroups \/ SetModificator
    \/ Collect("copiedGroup", Classes) \/ Collect("perm", Perms)
    \/ StatFile \/ ChmodFile

Next == Step \/ Ended

Spec == Init /\ [][Next]_vars

\* One process that nothing makes wait.
FairSpec == Spec /\ WF_vars(Step)

-----------------------------------------------------------------------------
(* What a mode string is meant to be, read off the string: the regular     *)
(* expression of the comment (mychmod.c:10) and clause after clause.       *)

\* The regular expression: [ugoa]*([-+=]([rwxXst]*|[ugo]))+|[0-7]+
Regex(s) ==
    LET signs == {n \in DOMAIN s : s[n] \in {"+", "-", "="}}
        Clause(n) == {k \in DOMAIN s : k > n /\ \A j \in n + 1 .. k : j \notin signs}
    IN  \/ s # <<>> /\ ToSet(s) \subseteq Digits
        \/ /\ signs # {}
           /\ \A k \in DOMAIN s :
                 (\A j \in 1 .. k : j \notin signs) => s[k] \in {"u", "g", "o", "a"}
           /\ \A n \in signs :
                 \/ \A k \in Clause(n) : s[k] \in {"r", "w", "x", "X", "s", "t"}
                 \/ \E k \in DOMAIN s : Clause(n) = {k} /\ s[k] \in Classes

\* A clause is a sign and what follows it up to the next sign or the end.
Signs(s) == {n \in DOMAIN s : s[n] \in {"+", "-"}}
Body(s, n) == {s[m] : m \in {k \in DOMAIN s : k > n /\ \A j \in n + 1 .. k : j \notin Signs(s)}}
WhoChars(s) == {s[m] : m \in {k \in DOMAIN s : \A j \in 1 .. k : j \notin Signs(s)}}

\* The program leaves out part of the regular expression: =, X, s, t and a
\* clause without letters before another one.  And it goes beyond it, with
\* the empty string, taken for a number, and several classes after a sign.
LeftOut(s) ==
    \/ ToSet(s) \cap {"=", "X", "s", "t"} # {}
    \/ \E n \in Signs(s) : n + 1 \in Signs(s)
Extra(s) ==
    \/ s = <<>>
    \/ \E n \in Signs(s) : n + 2 \in DOMAIN s /\ s[n + 1] \in Classes /\ s[n + 2] \in Classes

\* Whether a clause borrows the permissions of classes (mychmod.c:50-52), and
\* the bits that it may set or clear.
Borrows(s, n) == Body(s, n) \cap Classes # {}
Concerns(s, n, b) ==
    /\ WhoChars(s) = {} \/ "a" \in WhoChars(s) \/ b[1] \in WhoChars(s)
    /\ b[2] \in Body(s, n) \/ Borrows(s, n)

-----------------------------------------------------------------------------
(* Properties.                                                             *)

States == {"classify", "entry", "permgroups", "modificator", "copiedGroup", "perm",
           "stat", "chmod", "done", "failed"}

TypeOK ==
    /\ input \in Inputs
    /\ files \in Seq(File)
    /\ original \in InitFiles
    /\ state \in States
    /\ str_index \in 0 .. Len(input) + 1
    /\ cur_char \in ToSet(input) \cup {Nul}
    /\ perm_groups \subseteq {"u", "g", "o", "a"}
    /\ \A n \in DOMAIN perms :
          /\ perms[n].mod \in {"+", "-"}
          /\ perms[n].flags \subseteq IF perms[n].copied THEN Classes ELSE Perms
    /\ i \in 1 .. Len(files) + 1

\* The automaton that simulates the regular expression (mychmod.c:151) lets a
\* string through to the files only if it matches, but for Extra(), and fails
\* on one that matches only at a file, but for LeftOut().
AcceptsGrammar ==
    /\ state \in {"stat", "chmod", "done"} /\ ~Extra(input) => Regex(input)
    /\ state = "failed" /\ Regex(input) /\ ~LeftOut(input) =>
          i <= Len(files) /\ ~(files[i].exists /\ files[i].owned)

\* Whenever the program stops, for whatever reason, the file it was at and
\* those behind it are as they were.  In those before it the last clause that
\* concerns a bit has decided it, if that one does not borrow, and a bit that
\* no clause concerns has kept its value; a number gives the whole mode.
LastClauseDecides ==
    \A n \in DOMAIN files :
        /\ n >= i => files[n] = original[n]
        /\ n < i /\ input # <<>> /\ IsNumber => files[n].mode = Octal(input)
        /\ n < i /\ ~IsNumber =>
              \A b \in Bits :
                  LET about == {m \in Signs(input) : Concerns(input, m, b)}
                  IN  /\ about = {} => (b \in files[n].mode <=> b \in original[n].mode)
                      /\ \A m \in about :
                            (\A k \in about : k <= m) /\ ~Borrows(input, m) =>
                                (b \in files[n].mode <=> input[m] = "+")

\* The program ends on every string and any files.
Termination == <>(state \in {"done", "failed"})
=============================================================================
