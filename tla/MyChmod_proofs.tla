--------------------------- MODULE MyChmod_proofs ---------------------------
(***************************************************************************)
(* Proofs about MyChmod, for mode strings of any length and any files.     *)
(*                                                                         *)
(* ParseInv says that after n characters perm_groups and perms are the     *)
(* classes and clauses of the first n: some h puts each clause where its   *)
(* sign is in the string, in order and without leaving one out.  At the    *)
(* end of the string it gives exactly what is accepted (Grammatical) and,  *)
(* with what FoldLeft makes of a list of clauses (ApplyModesDecides), what *)
(* exactly is applied (Meaning); the regular expression of the comment and *)
(* the reading clause after clause follow from these.                      *)
(*                                                                         *)
(* Induction over the list is by the least counterexample (Least), which   *)
(* needs no theorem about a predicate.                                     *)
(***************************************************************************)
EXTENDS MyChmod, WellFoundedInduction, TLAPS

-----------------------------------------------------------------------------
(* What the automaton and apply_modes() make of a mode string, read off    *)
(* the string.  The code is proved to do exactly this; the properties of   *)
(* MyChmod then follow from it.                                            *)

\* [ugoa]*([-+]([rwx]+|[ugo]+))*[-+]([rwx]*|[ugo]*), or octal digits
Grammatical(s) ==
    \/ ToSet(s) \subseteq Digits
    \/ /\ Signs(s) # {}
       /\ WhoChars(s) \subseteq {"u", "g", "o", "a"}
       /\ \A n \in Signs(s) : /\ Body(s, n) \subseteq Perms \/ Body(s, n) \subseteq Classes
                              /\ Body(s, n) = {} => n = Len(s)

\* A class after a sign stands for its three bits.
About(s, n, b) ==
    /\ b[1] \in Body(s, n) \/ b[2] \in Body(s, n)
    /\ WhoChars(s) = {} \/ "a" \in WhoChars(s) \/ b[1] \in WhoChars(s)

\* The last clause that is about a bit decides it; no clause leaves it.
Meaning(s, mode) ==
    IF ToSet(s) \subseteq Digits THEN Octal(s)
    ELSE {b \in Bits :
            LET about == {n \in Signs(s) : About(s, n, b)}
            IN  IF about = {} THEN b \in mode
                ELSE \E n \in about : s[n] = "+" /\ \A m \in about : m <= n}

AcceptsExactly ==
    /\ state \in {"stat", "chmod", "done"} => Grammatical(input)
    /\ state = "failed" /\ Grammatical(input) =>
          i <= Len(files) /\ ~(files[i].exists /\ files[i].owned)

AppliedExactly ==
    \A n \in DOMAIN files :
        files[n] = IF n < i THEN [original[n] EXCEPT !.mode = Meaning(input, @)] ELSE original[n]

-----------------------------------------------------------------------------
(* What FoldLeft makes of a list of clauses.                               *)

LEMMA Least ==
    ASSUME NEW S, S \subseteq Nat, S # {}
    PROVE  \E n \in S : \A m \in S : n <= m
<1> DEFINE R == {p \in Nat \X Nat : p[1] < p[2]}
<1>1. IsWellFoundedOn(R, Nat)
  BY NatLessThanWellFounded DEF OpToRel
<1>2. PICK n \in S : \A m \in S : <<m, n>> \notin R
  <2> HIDE DEF R
  <2>1. QED
    BY <1>1, WFMin
<1>3. ASSUME NEW m \in S PROVE n <= m
  <2>1. <<m, n>> \notin R /\ m \in Nat /\ n \in Nat
    BY <1>2
  <2>2. QED
    BY <2>1
<1>4. QED
  BY <1>3

LEMMA MaxOfSet ==
    ASSUME NEW L \in Nat, NEW S, S \subseteq 1 .. L, S # {}
    PROVE  Max(S) \in S /\ \A n \in S : n <= Max(S)
<1> DEFINE T == {L - n : n \in S}
<1>1. T \subseteq Nat /\ T # {}
  <2>1. \A n \in S : n \in 1 .. L
    OBVIOUS
  <2>2. \A n \in 1 .. L : L - n \in Nat
    OBVIOUS
  <2>3. QED
    BY <2>1, <2>2
<1>2. PICK t \in T : \A u \in T : t <= u
  <2> HIDE DEF T
  <2>1. QED
    BY <1>1, Least
<1>3. PICK x \in S : t = L - x
  BY <1>2
<1>4. ASSUME NEW n \in S PROVE x >= n
  <2>1. L - n \in T
    BY <1>4
  <2>2. L - x <= L - n
    BY <2>1, <1>2, <1>3
  <2>3. x \in Nat /\ n \in Nat
    BY <1>3
  <2>4. QED
    BY <2>2, <2>3
<1>5. \E y \in S : \A n \in S : y >= n
  BY <1>4
<1>6. Max(S) \in S /\ \A n \in S : Max(S) >= n
  BY <1>5 DEF Max
<1>7. \A n \in S : n \in Nat
  OBVIOUS
<1>8. Max(S) \in Nat
  BY <1>6, <1>7
<1>9. QED
  BY <1>6, <1>7, <1>8

\* The clauses at positions S that are about bit b, and the bits they make
\* of a mode: the last one of them decides.
Hits(groups, list, S, b) == {n \in S : b \in Pmask(groups, list[n])}

Decided(mode, groups, list, S) ==
    {b \in Bits :
        \/ Hits(groups, list, S, b) = {} /\ b \in mode
        \/ \E n \in Hits(groups, list, S, b) :
              list[n].mod = "+" /\ \A m \in Hits(groups, list, S, b) : m <= n}

\* What one clause makes of a mode, and the function that FoldLeft iterates.
After(groups, clause, mode) ==
    IF clause.mod = "+" THEN mode \cup Pmask(groups, clause) ELSE mode \ Pmask(groups, clause)

IsFold(it, mode, groups, list) ==
    it = [S \in SUBSET DOMAIN list |->
            IF S = {} THEN mode ELSE After(groups, list[Max(S)], it[S \ {Max(S)}])]

IsLast(x, S) == x \in S /\ S \subseteq Nat /\ \A n \in S : n <= x

\* One more clause, x, after those of S.
LEMMA DecidedStep ==
    ASSUME NEW mode, NEW groups, NEW list, NEW S, NEW x, IsLast(x, S)
    PROVE  Decided(mode, groups, list, S)
              = After(groups, list[x], Decided(mode, groups, list, S \ {x}))
<1> DEFINE H(b) == Hits(groups, list, S, b)
           G(b) == Hits(groups, list, S \ {x}, b)
<1>1. ASSUME NEW b, b \in Pmask(groups, list[x])
      PROVE  /\ b \in Bits /\ x \in H(b) /\ \A m \in H(b) : m <= x
             /\ \A n \in H(b) : (\A m \in H(b) : m <= n) => n = x
  <2>1. b \in Bits
    BY <1>1 DEF Pmask
  <2>2. x \in H(b) /\ \A m \in H(b) : m <= x /\ m \in Nat
    BY <1>1 DEF Hits, IsLast
  <2>3. QED
    BY <2>1, <2>2
<1>2. ASSUME NEW b, b \notin Pmask(groups, list[x]) PROVE H(b) = G(b)
  BY <1>2 DEF Hits
<1>3. ASSUME NEW b, b \in Pmask(groups, list[x])
      PROVE  b \in Decided(mode, groups, list, S) <=> list[x].mod = "+"
  BY <1>1, <1>3 DEF Decided
<1>4. ASSUME NEW b, b \notin Pmask(groups, list[x])
      PROVE  b \in Decided(mode, groups, list, S) <=> b \in Decided(mode, groups, list, S \ {x})
  <2>1. Hits(groups, list, S, b) = Hits(groups, list, S \ {x}, b)
    BY <1>2, <1>4
  <2>2. QED
    BY <2>1 DEF Decided
<1>5. QED
  BY <1>3, <1>4 DEF After

LEMMA DecidedNext ==
    ASSUME NEW mode, NEW groups, NEW list, NEW n \in Nat, n # 0
    PROVE  Decided(mode, groups, list, 1 .. n)
              = After(groups, list[n], Decided(mode, groups, list, 1 .. (n - 1)))
<1>1. IsLast(n, 1 .. n)
  BY DEF IsLast
<1>2. (1 .. n) \ {n} = 1 .. (n - 1)
  OBVIOUS
<1>3. PICK T, x : T = 1 .. n /\ x = n
  OBVIOUS
<1>4. IsLast(x, T)
  BY <1>1, <1>3
<1>5. Decided(mode, groups, list, T) = After(groups, list[x], Decided(mode, groups, list, T \ {x}))
  BY <1>4, DecidedStep
<1>6. QED
  BY <1>2, <1>3, <1>5

LEMMA FoldExists ==
    ASSUME NEW mode, mode \subseteq Bits, NEW groups, NEW list, NEW L \in Nat, DOMAIN list = 1 .. L
    PROVE  \E it : IsFold(it, mode, groups, list)
<1> DEFINE it == [S \in SUBSET DOMAIN list |-> Decided(mode, groups, list, S)]
<1>1. ASSUME NEW S \in SUBSET DOMAIN list
      PROVE  it[S] = IF S = {} THEN mode
                     ELSE After(groups, list[Max(S)], it[S \ {Max(S)}])
  <2>1. CASE S = {}
    <3>1. \A b : Hits(groups, list, S, b) = {}
      BY <2>1 DEF Hits
    <3>2. Decided(mode, groups, list, S) = mode
      BY <3>1 DEF Decided
    <3>3. QED
      BY <2>1, <3>2
  <2>2. CASE S # {}
    <3>1. Max(S) \in S /\ (\A n \in S : n <= Max(S)) /\ S \subseteq Nat
      BY <2>2, MaxOfSet
    <3>2. S \ {Max(S)} \in SUBSET DOMAIN list
      OBVIOUS
    <3>3. it[S] = Decided(mode, groups, list, S)
          /\ it[S \ {Max(S)}] = Decided(mode, groups, list, S \ {Max(S)})
      BY <3>2
    <3> HIDE DEF it
    <3>4. IsLast(Max(S), S)
      BY <3>1 DEF IsLast
    <3>5. PICK l, T, x : l = list /\ T = S /\ x = Max(S)
      OBVIOUS
    <3>6. IsLast(x, T)
      BY <3>4, <3>5
    <3>7. Decided(mode, groups, l, T) = After(groups, l[x], Decided(mode, groups, l, T \ {x}))
      BY <3>6, DecidedStep
    <3>8. QED
      BY <2>2, <3>3, <3>5, <3>7
  <2>3. QED
    BY <2>1, <2>2
<1>2. IsFold(it, mode, groups, list)
  <2> DEFINE rhs == [S \in SUBSET DOMAIN list |->
            IF S = {} THEN mode ELSE After(groups, list[Max(S)], it[S \ {Max(S)}])]
  <2>1. DOMAIN it = SUBSET DOMAIN list /\ it = [S \in DOMAIN it |-> it[S]]
    OBVIOUS
  <2> HIDE DEF it
  <2>2. it = rhs
    BY <1>1, <2>1
  <2>3. QED
    BY <2>2 DEF IsFold
<1>3. QED
  BY <1>2

LEMMA FoldDecided ==
    ASSUME NEW mode, mode \subseteq Bits, NEW groups, NEW list, NEW L \in Nat, DOMAIN list = 1 .. L,
           NEW it, IsFold(it, mode, groups, list)
    PROVE  it[1 .. L] = Decided(mode, groups, list, 1 .. L)
<1> DEFINE Bad == {n \in 0 .. L : it[1 .. n] # Decided(mode, groups, list, 1 .. n)}
<1>0. ASSUME NEW S \in SUBSET DOMAIN list
      PROVE  it[S] = IF S = {} THEN mode
                     ELSE After(groups, list[Max(S)], it[S \ {Max(S)}])
  <2> DEFINE F(S1) == IF S1 = {} THEN mode
                     ELSE After(groups, list[Max(S1)], it[S1 \ {Max(S1)}])
  <2>1. it = [S1 \in SUBSET DOMAIN list |-> F(S1)]
    BY DEF IsFold
  <2> HIDE DEF F
  <2>2. it[S] = F(S)
    BY <2>1
  <2>3. QED
    BY <2>2 DEF F
<1>1. ASSUME NEW n \in Bad, \A m \in Bad : n <= m PROVE FALSE
  <2>1. n \in 0 .. L /\ it[1 .. n] # Decided(mode, groups, list, 1 .. n)
    OBVIOUS
  <2>2. CASE n = 0
    <3>1. 1 .. n = {}
      BY <2>2
    <3>2. \A b : Hits(groups, list, {}, b) = {}
      BY DEF Hits
    <3>3. Decided(mode, groups, list, {}) = mode
      BY <3>2 DEF Decided
    <3>4. it[{}] = mode
      BY <1>0
    <3>5. QED
      BY <2>1, <3>1, <3>3, <3>4
  <2>3. CASE n # 0
    <3> DEFINE S == 1 .. n
               k == n - 1
    <3>1. k \in 0 .. L /\ k < n /\ n \in 1 .. L /\ k \in Nat
      BY <2>1, <2>3
    <3>2. it[1 .. k] = Decided(mode, groups, list, 1 .. k)
      <4>1. k \notin Bad
        BY <1>1, <3>1
      <4>2. QED
        BY <4>1, <3>1
    <3>3. S \subseteq 1 .. L /\ n \in S /\ S # {} /\ S \ {n} = 1 .. k /\ \A m \in S : m <= n /\ m \in Nat
      BY <3>1
    <3>4. Max(S) = n
      <4>1. Max(S) \in S /\ \A m \in S : m <= Max(S)
        BY <3>3, MaxOfSet
      <4>2. Max(S) <= n /\ n <= Max(S) /\ Max(S) \in Nat
        BY <4>1, <3>3
      <4>3. QED
        BY <4>2, <3>1
    <3> HIDE DEF S, k, Bad
    <3>5. it[S] = After(groups, list[n], it[1 .. k])
      BY <1>0, <3>3, <3>4
    <3>6. Decided(mode, groups, list, 1 .. n)
             = After(groups, list[n], Decided(mode, groups, list, 1 .. k))
      BY <3>1, DecidedNext DEF k
    <3>7. QED
      BY <2>1, <3>2, <3>5, <3>6 DEF S
  <2>4. QED
    BY <2>2, <2>3
<1>2. Bad = {}
  <2>1. Bad \subseteq Nat
    OBVIOUS
  <2> HIDE DEF Bad
  <2>2. QED
    BY <1>1, <2>1, Least
<1>3. L \notin Bad
  BY <1>2
<1>4. QED
  BY <1>3

\* apply_modes() gives each bit to the last clause that is about it.
LEMMA ApplyModesDecides ==
    ASSUME NEW mode, mode \subseteq Bits, NEW groups, NEW list, NEW L \in Nat, DOMAIN list = 1 .. L
    PROVE  ApplyModes(mode, groups, list) = Decided(mode, groups, list, 1 .. L)
<1> DEFINE it == CHOOSE f : IsFold(f, mode, groups, list)
<1>1. IsFold(it, mode, groups, list)
  BY FoldExists
<1>2. ApplyModes(mode, groups, list) = it[DOMAIN list]
  BY DEF ApplyModes, FoldLeft, MapThenFoldSet, IsFold, After
<1>3. QED
  <2> HIDE DEF it
  <2>1. it[1 .. L] = Decided(mode, groups, list, 1 .. L)
    BY <1>1, FoldDecided
  <2>2. QED
    BY <1>2, <2>1

-----------------------------------------------------------------------------
(* The automaton.                                                          *)

\* The classes before the first sign, and what follows the sign at j up to
\* the next, as far as the first n characters go.
WhoTo(s, n) == {s[m] : m \in {k \in 1 .. n : \A j \in 1 .. k : j \notin Signs(s)}}
BodyTo(s, j, n) ==
    {s[m] : m \in {k \in 1 .. n : k > j /\ \A l \in j + 1 .. k : l \notin Signs(s)}}

\* list has the clauses of the first n characters of s; h says where their
\* signs are.
ClausesAt(s, list, h, n) ==
    /\ h \in [DOMAIN list -> 1 .. n]
    /\ \A j, k \in DOMAIN list : j < k => h[j] < h[k]
    /\ \A m \in 1 .. n : m \in Signs(s) => \E j \in DOMAIN list : h[j] = m
    /\ \A j \in DOMAIN list :
          /\ h[j] \in Signs(s)
          /\ list[j].mod = s[h[j]]
          /\ list[j].flags = BodyTo(s, h[j], n)
          /\ list[j].flags = {} => h[j] = n

Clause == [mod : {"+", "-"}, copied : BOOLEAN, flags : SUBSET (Classes \cup Perms)]

Parsed(n) ==
    /\ n <= Len(input)
    /\ perm_groups = WhoTo(input, n)
    /\ \E h : ClausesAt(input, perms, h, n)

Consumed == IF state = "entry" THEN str_index ELSE str_index - 1

Parsing == {"entry", "permgroups", "modificator", "copiedGroup", "perm"}
Applying == {"stat", "chmod", "done"}

\* What is known of the characters at each label.
Here ==
    /\ state \in {"permgroups", "modificator", "copiedGroup", "perm"} =>
          str_index \in 1 .. Len(input) /\ cur_char = input[str_index]
    /\ state \in {"entry", "permgroups"} => perms = <<>>
    /\ state = "permgroups" => cur_char \in {"u", "g", "o", "a"}
    /\ state = "modificator" =>
          cur_char \in {"+", "-"} /\ \A j \in DOMAIN perms : perms[j].flags # {}
    /\ state = "copiedGroup" => cur_char \in Classes /\ perms # <<>> /\ perms[Len(perms)].copied
    /\ state = "perm" => cur_char \in Perms /\ perms # <<>> /\ ~perms[Len(perms)].copied

ParseInv ==
    /\ state = "classify" => str_index = 0 /\ perm_groups = {} /\ perms = <<>>
    /\ state \in Parsing => ~IsNumber /\ Parsed(Consumed) /\ Here
    /\ state \in Applying /\ ~IsNumber =>
          str_index = Len(input) + 1 /\ Parsed(Len(input)) /\ perms # <<>>

LoopInv == state = "chmod" => i <= Len(files) /\ files[i].exists

TypeInv == TypeOK /\ perms \in Seq(Clause) /\ input \in Seq(STRING \ {Nul})

LEMMA InputFacts ==
    ASSUME TypeInv
    PROVE  /\ input \in Seq(STRING \ {Nul}) /\ Len(input) \in Nat
           /\ DOMAIN input = 1 .. Len(input)
           /\ \A n \in 1 .. Len(input) : input[n] # Nul /\ input[n] \in ToSet(input)
           /\ \A n \in Nat : n # 0 => (CharAt(n) = Nul <=> n > Len(input))
           /\ \A n \in 1 .. Len(input) : CharAt(n) = input[n]
           /\ \A n \in Nat : n # 0 => CharAt(n) \in ToSet(input) \cup {Nul}
<1>1. input \in Seq(STRING \ {Nul}) /\ Len(input) \in Nat /\ DOMAIN input = 1 .. Len(input)
  BY DEF TypeInv
<1>2. \A n \in 1 .. Len(input) : input[n] \in STRING \ {Nul}
  BY <1>1
<1>3. \A n \in 1 .. Len(input) : input[n] # Nul /\ input[n] \in ToSet(input)
  BY <1>1, <1>2 DEF ToSet
<1>4. \A n \in 1 .. Len(input) : CharAt(n) = input[n]
  BY <1>1 DEF CharAt
<1>5. \A n \in Nat : n # 0 => (CharAt(n) = Nul <=> n > Len(input))
  BY <1>1, <1>3 DEF CharAt
<1>6. \A n \in Nat : n # 0 => CharAt(n) \in ToSet(input) \cup {Nul}
  BY <1>1, <1>3 DEF CharAt
<1>7. QED
  BY <1>1, <1>3, <1>4, <1>5, <1>6

LEMMA TypeInit == Init => TypeInv
<1> SUFFICES ASSUME Init PROVE TypeInv
  OBVIOUS
<1>1. input \in Seq(STRING \ {Nul}) /\ files \in Seq(File)
  BY ChmodAssumption DEF Init
<1>2. perms \in Seq(Clause) /\ DOMAIN perms = {}
  BY DEF Init
<1>3. Len(input) \in Nat /\ Len(files) \in Nat
  BY <1>1
<1>4. QED
  BY <1>1, <1>2, <1>3 DEF Init, TypeInv, TypeOK, States

LEMMA NewModeType ==
    ASSUME TypeInv, NEW mode, mode \subseteq Bits
    PROVE  NewMode(mode) \subseteq Bits
<1>1. Octal(input) \subseteq Bits
  BY DEF Octal
<1>2. DOMAIN perms = 1 .. Len(perms) /\ Len(perms) \in Nat
  BY DEF TypeInv
<1>3. ApplyModes(mode, perm_groups, perms) = Decided(mode, perm_groups, perms, 1 .. Len(perms))
  BY <1>2, ApplyModesDecides
<1>4. ApplyModes(mode, perm_groups, perms) \subseteq Bits
  BY <1>3 DEF Decided
<1>5. QED
  BY <1>1, <1>4 DEF NewMode

LEMMA TypeNext == TypeInv /\ ParseInv /\ LoopInv /\ [Next]_vars => TypeInv'
<1> SUFFICES ASSUME TypeInv, ParseInv, LoopInv, [Next]_vars PROVE TypeInv'
  OBVIOUS
<1>1. CASE UNCHANGED vars
  BY <1>1 DEF vars, parserVars, TypeInv, TypeOK
<1>2. CASE Classify
  BY <1>2 DEF Classify, parserVars, TypeInv, TypeOK, States
<1>3. CASE Entry
  <2>1. state = "entry" /\ str_index \in 0 .. Len(input) /\ str_index' = str_index + 1
    BY <1>3, InputFacts DEF Entry, ParseInv, Parsed, Consumed, Parsing, TypeInv, TypeOK
  <2>2. str_index' \in 0 .. Len(input) + 1
    BY <2>1, InputFacts
  <2>3. cur_char' \in ToSet(input) \cup {Nul}
    <3>1. cur_char' = CharAt(str_index + 1) /\ str_index + 1 \in Nat /\ str_index + 1 # 0
      BY <1>3, <2>1 DEF Entry
    <3>2. QED
      BY <3>1, InputFacts
  <2>4. state' \in States
    BY <1>3 DEF Entry, States
  <2>5. QED
    BY <1>3, <2>2, <2>3, <2>4 DEF Entry, TypeInv, TypeOK
<1>4. CASE SetPermgroups
  <2>1. cur_char \in {"u", "g", "o", "a"}
    BY <1>4 DEF SetPermgroups, ParseInv, Parsing, Here
  <2>2. QED
    BY <1>4, <2>1 DEF SetPermgroups, TypeInv, TypeOK, States
<1>5. CASE SetModificator
  <2>1. str_index \in 1 .. Len(input) /\ cur_char \in {"+", "-"}
    BY <1>5 DEF SetModificator, ParseInv, Parsing, Here
  <2>2. str_index' \in 0 .. Len(input) + 1
    BY <1>5, <2>1, InputFacts DEF SetModificator
  <2>3. cur_char' \in ToSet(input) \cup {Nul}
    <3>1. cur_char' = CharAt(str_index + 1) /\ str_index + 1 \in Nat /\ str_index + 1 # 0
      BY <1>5, <2>1 DEF SetModificator
    <3>2. QED
      BY <3>1, InputFacts
  <2>4. state' \in States
    BY <1>5 DEF SetModificator, States
  <2> DEFINE c == [mod |-> cur_char, copied |-> cur_char' \in Classes, flags |-> {}]
  <2>5. c \in Clause /\ perms' = Append(perms, c)
    BY <1>5, <2>1 DEF SetModificator, Clause
  <2>6. c.mod \in {"+", "-"} /\ c.flags = {}
    BY <2>1
  <2> HIDE DEF c
  <2>7. perms' \in Seq(Clause) /\ \A n \in DOMAIN perms' :
           /\ n \in DOMAIN perms => perms'[n] = perms[n]
           /\ n \notin DOMAIN perms => perms'[n] = c
    BY <2>5 DEF TypeInv
  <2>8. \A n \in DOMAIN perms' :
          /\ perms'[n].mod \in {"+", "-"}
          /\ perms'[n].flags \subseteq IF perms'[n].copied THEN Classes ELSE Perms
    BY <2>6, <2>7 DEF TypeInv, TypeOK
  <2>9. QED
    BY <1>5, <2>2, <2>3, <2>4, <2>7, <2>8 DEF SetModificator, TypeInv, TypeOK
<1>6. ASSUME NEW here, NEW own, Collect(here, own),
             \/ here = "copiedGroup" /\ own = Classes
             \/ here = "perm" /\ own = Perms
      PROVE  TypeInv'
  <2> DEFINE L == Len(perms)
             c == [perms[L] EXCEPT !.flags = @ \cup {cur_char}]
  <2>1. /\ str_index \in 1 .. Len(input) /\ perms # <<>> /\ cur_char \in own
        /\ perms[L].copied <=> own = Classes
    BY <1>6 DEF Collect, ParseInv, Parsing, Here, Classes, Perms
  <2>2. str_index' \in 0 .. Len(input) + 1
    BY <1>6, <2>1, InputFacts DEF Collect, NextIndex
  <2>3. cur_char' \in ToSet(input) \cup {Nul}
    <3>1. cur_char' = CharAt(str_index + 1) /\ str_index + 1 \in Nat /\ str_index + 1 # 0
      BY <1>6, <2>1 DEF Collect, NextIndex
    <3>2. QED
      BY <3>1, InputFacts
  <2>4. state' \in States
    BY <1>6 DEF Collect, States
  <2>5. L \in DOMAIN perms /\ perms[L] \in Clause /\ perms \in Seq(Clause)
    BY <2>1 DEF TypeInv
  <2>6. c \in Clause /\ c.mod = perms[L].mod /\ c.copied = perms[L].copied
        /\ c.flags = perms[L].flags \cup {cur_char}
    BY <1>6, <2>1, <2>5 DEF Clause
  <2>7. perms' = [perms EXCEPT ![L] = c]
    BY <1>6 DEF Collect
  <2> HIDE DEF c
  <2>8. perms' \in Seq(Clause) /\ DOMAIN perms' = DOMAIN perms /\ perms'[L] = c
        /\ \A n \in DOMAIN perms : n # L => perms'[n] = perms[n]
    BY <2>5, <2>6, <2>7
  <2>9. c.mod \in {"+", "-"} /\ c.flags \subseteq IF c.copied THEN Classes ELSE Perms
    <3>1. perms[L].mod \in {"+", "-"}
          /\ perms[L].flags \subseteq IF perms[L].copied THEN Classes ELSE Perms
      BY <2>5 DEF TypeInv, TypeOK
    <3>2. Classes # Perms
      BY DEF Classes, Perms
    <3>3. QED
      BY <1>6, <2>1, <2>6, <3>1, <3>2
  <2>10. \A n \in DOMAIN perms' :
          /\ perms'[n].mod \in {"+", "-"}
          /\ perms'[n].flags \subseteq IF perms'[n].copied THEN Classes ELSE Perms
    BY <2>8, <2>9 DEF TypeInv, TypeOK
  <2>11. QED
    BY <1>6, <2>2, <2>3, <2>4, <2>8, <2>10 DEF Collect, TypeInv, TypeOK
<1>7. CASE StatFile
  <2>1. state' \in States
    BY <1>7 DEF StatFile, States, TypeInv, TypeOK, File
  <2>2. QED
    BY <1>7, <2>1 DEF StatFile, parserVars, TypeInv, TypeOK
<1>8. CASE ChmodFile
  <2>1. files \in Seq(File) /\ i \in 1 .. Len(files) + 1 /\ Len(files) \in Nat
    BY DEF TypeInv, TypeOK
  <2>2. CASE files[i].owned
    <3>1. i \in 1 .. Len(files)
      BY <1>8, <2>1 DEF LoopInv, ChmodFile
    <3> DEFINE f == [files[i] EXCEPT !.mode = NewMode(@)]
    <3>2. files[i] \in File /\ files' = [files EXCEPT ![i] = f] /\ state' = "stat" /\ i' = i + 1
      BY <1>8, <2>1, <2>2, <3>1 DEF ChmodFile
    <3>3. f \in File
      BY <3>2, NewModeType DEF File
    <3> HIDE DEF f
    <3>4. files' \in Seq(File) /\ Len(files') = Len(files)
      BY <2>1, <3>1, <3>2, <3>3
    <3>5. i' \in 1 .. Len(files') + 1
      BY <3>1, <3>2, <3>4, <2>1
    <3>6. QED
      BY <1>8, <3>2, <3>4, <3>5 DEF ChmodFile, TypeInv, TypeOK, States, parserVars
  <2>3. CASE ~files[i].owned
    BY <1>8, <2>3 DEF ChmodFile, TypeInv, TypeOK, States, parserVars
  <2>4. QED
    BY <2>2, <2>3
<1>9. QED
  BY <1>1, <1>2, <1>3, <1>4, <1>5, <1>6, <1>7, <1>8 DEF Next, Step, Ended

-----------------------------------------------------------------------------
(* One more character.                                                     *)

LEMMA SignFacts ==
    ASSUME NEW s \in Seq(STRING \ {Nul})
    PROVE  \A m : m \in Signs(s) <=> m \in 1 .. Len(s) /\ s[m] \in {"+", "-"}
  BY DEF Signs

LEMMA WhoStep ==
    ASSUME NEW s, NEW n \in Nat
    PROVE  /\ (\E j \in 1 .. n + 1 : j \in Signs(s)) => WhoTo(s, n + 1) = WhoTo(s, n)
           /\ (\A j \in 1 .. n + 1 : j \notin Signs(s)) => WhoTo(s, n + 1) = WhoTo(s, n) \cup {s[n + 1]}
<1> DEFINE K(x) == {k \in 1 .. x : \A j \in 1 .. k : j \notin Signs(s)}
<1>1. (\E j \in 1 .. n + 1 : j \in Signs(s)) => K(n + 1) = K(n)
  <2> SUFFICES ASSUME NEW j \in 1 .. n + 1, j \in Signs(s) PROVE K(n + 1) = K(n)
    OBVIOUS
  <2>1. n + 1 \notin K(n + 1)
    OBVIOUS
  <2>2. \A k : k \in 1 .. n + 1 /\ k # n + 1 <=> k \in 1 .. n
    OBVIOUS
  <2>3. QED
    BY <2>1, <2>2
<1>2. (\A j \in 1 .. n + 1 : j \notin Signs(s)) => K(n + 1) = K(n) \cup {n + 1}
  <2> SUFFICES ASSUME \A j \in 1 .. n + 1 : j \notin Signs(s) PROVE K(n + 1) = K(n) \cup {n + 1}
    OBVIOUS
  <2>1. n + 1 \in K(n + 1)
    OBVIOUS
  <2>2. \A k : k \in 1 .. n + 1 /\ k # n + 1 <=> k \in 1 .. n
    OBVIOUS
  <2>3. QED
    BY <2>1, <2>2
<1>3. \A x \in Nat : WhoTo(s, x) = {s[k] : k \in K(x)}
  BY DEF WhoTo
<1> HIDE DEF K
<1>4. n + 1 \in Nat
  OBVIOUS
<1>5. QED
  BY <1>1, <1>2, <1>3, <1>4

LEMMA BodyStep ==
    ASSUME NEW s, NEW n \in Nat, NEW j \in 1 .. n
    PROVE  /\ (\E l \in j + 1 .. n + 1 : l \in Signs(s)) => BodyTo(s, j, n + 1) = BodyTo(s, j, n)
           /\ (\A l \in j + 1 .. n + 1 : l \notin Signs(s))
                 => BodyTo(s, j, n + 1) = BodyTo(s, j, n) \cup {s[n + 1]}
<1> DEFINE K(x) == {k \in 1 .. x : k > j /\ \A l \in j + 1 .. k : l \notin Signs(s)}
<1>0. \A k : k \in 1 .. n + 1 /\ k # n + 1 <=> k \in 1 .. n
  OBVIOUS
<1>1. (\E l \in j + 1 .. n + 1 : l \in Signs(s)) => K(n + 1) = K(n)
  <2> SUFFICES ASSUME NEW l \in j + 1 .. n + 1, l \in Signs(s) PROVE K(n + 1) = K(n)
    OBVIOUS
  <2>1. n + 1 \notin K(n + 1)
    OBVIOUS
  <2>2. QED
    BY <2>1, <1>0
<1>2. (\A l \in j + 1 .. n + 1 : l \notin Signs(s)) => K(n + 1) = K(n) \cup {n + 1}
  <2> SUFFICES ASSUME \A l \in j + 1 .. n + 1 : l \notin Signs(s) PROVE K(n + 1) = K(n) \cup {n + 1}
    OBVIOUS
  <2>1. n + 1 \in K(n + 1)
    OBVIOUS
  <2>2. QED
    BY <2>1, <1>0
<1>3. \A x \in Nat : BodyTo(s, j, x) = {s[k] : k \in K(x)}
  BY DEF BodyTo
<1> HIDE DEF K
<1>4. n + 1 \in Nat
  OBVIOUS
<1>5. QED
  BY <1>1, <1>2, <1>3, <1>4

LEMMA BodyAtSign == ASSUME NEW s, NEW n \in Nat PROVE BodyTo(s, n, n) = {}
<1>1. {k \in 1 .. n : k > n /\ \A l \in n + 1 .. k : l \notin Signs(s)} = {}
  OBVIOUS
<1>2. QED
  BY <1>1 DEF BodyTo

\* A sign begins a clause, and the one before it is not empty.
LEMMA NewClause ==
    ASSUME NEW s, NEW n \in Nat, n + 1 \in Signs(s),
           NEW list \in Seq(Clause), NEW h, ClausesAt(s, list, h, n),
           \A j \in DOMAIN list : list[j].flags # {},
           NEW c \in Clause, c.mod = s[n + 1], c.flags = {}
    PROVE  \E g : ClausesAt(s, Append(list, c), g, n + 1)
<1> DEFINE L == Len(list)
           new == Append(list, c)
           g == [j \in 1 .. L + 1 |-> IF j = L + 1 THEN n + 1 ELSE h[j]]
<1>1. L \in Nat /\ DOMAIN list = 1 .. L /\ DOMAIN new = 1 .. L + 1
      /\ new[L + 1] = c /\ \A j \in 1 .. L : new[j] = list[j]
  OBVIOUS
<1>2. /\ h \in [1 .. L -> 1 .. n]
      /\ \A j, k \in 1 .. L : j < k => h[j] < h[k]
      /\ \A m \in 1 .. n : m \in Signs(s) => \E j \in 1 .. L : h[j] = m
      /\ \A j \in 1 .. L :
          /\ h[j] \in Signs(s)
          /\ list[j].mod = s[h[j]]
          /\ list[j].flags = BodyTo(s, h[j], n)
  BY <1>1 DEF ClausesAt
<1> HIDE DEF L, new
<1>3. g[L + 1] = n + 1 /\ \A j \in 1 .. L : g[j] = h[j] /\ h[j] \in 1 .. n
  <2>1. L + 1 \in 1 .. L + 1 /\ \A j \in 1 .. L : j \in 1 .. L + 1 /\ j # L + 1
    BY <1>1
  <2>2. \A j \in 1 .. L : h[j] \in 1 .. n
    BY <1>2
  <2>3. QED
    BY <2>1, <2>2
<1>4. \A j \in 1 .. L + 1 : j = L + 1 \/ j \in 1 .. L
  BY <1>1
<1>5. g \in [1 .. L + 1 -> 1 .. n + 1]
  <2>1. n + 1 \in 1 .. n + 1 /\ \A x \in 1 .. n : x \in 1 .. n + 1
    OBVIOUS
  <2>2. \A j \in 1 .. L + 1 : g[j] \in 1 .. n + 1
    BY <1>3, <1>4, <2>1
  <2>3. QED
    BY <2>2
<1> HIDE DEF g
<1>6. \A j, k \in 1 .. L + 1 : j < k => g[j] < g[k]
  <2> SUFFICES ASSUME NEW j \in 1 .. L + 1, NEW k \in 1 .. L + 1, j < k PROVE g[j] < g[k]
    OBVIOUS
  <2>1. j \in 1 .. L
    BY <1>1
  <2>2. CASE k = L + 1
    BY <1>3, <2>1, <2>2
  <2>3. CASE k \in 1 .. L
    BY <1>2, <1>3, <2>1, <2>3
  <2>4. QED
    BY <1>4, <2>2, <2>3
<1>7. \A m \in 1 .. n + 1 : m \in Signs(s) => \E j \in 1 .. L + 1 : g[j] = m
  <2> SUFFICES ASSUME NEW m \in 1 .. n + 1, m \in Signs(s) PROVE \E j \in 1 .. L + 1 : g[j] = m
    OBVIOUS
  <2>1. CASE m = n + 1
    BY <1>1, <1>3, <2>1
  <2>2. CASE m # n + 1
    <3>1. m \in 1 .. n
      BY <2>2
    <3>2. PICK j \in 1 .. L : h[j] = m
      BY <1>2, <3>1
    <3>3. j \in 1 .. L + 1
      BY <1>1
    <3>4. QED
      BY <1>3, <3>2, <3>3
  <2>3. QED
    BY <2>1, <2>2
<1>8. \A j \in 1 .. L :
          /\ g[j] \in Signs(s)
          /\ new[j].mod = s[g[j]]
          /\ new[j].flags = BodyTo(s, g[j], n + 1)
          /\ new[j].flags # {}
  <2> SUFFICES ASSUME NEW j \in 1 .. L
               PROVE  /\ h[j] \in Signs(s)
                      /\ list[j].mod = s[h[j]]
                      /\ list[j].flags = BodyTo(s, h[j], n + 1)
                      /\ list[j].flags # {}
    BY <1>1, <1>3
  <2>1. h[j] \in 1 .. n
    BY <1>3
  <2>2. n + 1 \in h[j] + 1 .. n + 1
    BY <2>1
  <2>3. BodyTo(s, h[j], n + 1) = BodyTo(s, h[j], n)
    BY <2>1, <2>2, BodyStep
  <2>4. QED
    BY <1>1, <1>2, <2>3
<1>9. /\ g[L + 1] \in Signs(s)
      /\ new[L + 1].mod = s[g[L + 1]]
      /\ new[L + 1].flags = BodyTo(s, g[L + 1], n + 1)
  <2>1. n + 1 \in Nat
    OBVIOUS
  <2>2. BodyTo(s, n + 1, n + 1) = {}
    BY <2>1, BodyAtSign
  <2>3. QED
    BY <1>1, <1>3, <2>2
<1>10. \A j \in 1 .. L + 1 :
          /\ g[j] \in Signs(s)
          /\ new[j].mod = s[g[j]]
          /\ new[j].flags = BodyTo(s, g[j], n + 1)
          /\ new[j].flags = {} => g[j] = n + 1
  BY <1>3, <1>4, <1>8, <1>9
<1>11. ClausesAt(s, new, g, n + 1)
  BY <1>1, <1>5, <1>6, <1>7, <1>10 DEF ClausesAt
<1>12. QED
  BY <1>11 DEF new

LEMMA NoClause ==
    ASSUME NEW s, NEW n \in Nat, \A j \in 1 .. n : j \notin Signs(s)
    PROVE  \E h : ClausesAt(s, <<>>, h, n)
<1> DEFINE h == [j \in {} |-> 0]
<1>1. h \in [{} -> 1 .. n]
  OBVIOUS
<1>2. DOMAIN <<>> = {}
  OBVIOUS
<1>3. ClausesAt(s, <<>>, h, n)
  BY <1>1, <1>2 DEF ClausesAt
<1>4. QED
  BY <1>3

\* The last clause reaches to the end of what was read.
LEMMA LastClause ==
    ASSUME NEW s, NEW n \in Nat, NEW list \in Seq(Clause), list # <<>>, NEW h, ClausesAt(s, list, h, n)
    PROVE  /\ h[Len(list)] \in 1 .. n /\ h[Len(list)] \in Signs(s)
           /\ \A m \in h[Len(list)] + 1 .. n : m \notin Signs(s)
<1> DEFINE L == Len(list)
<1>1. L \in Nat /\ DOMAIN list = 1 .. L /\ L \in 1 .. L
  OBVIOUS
<1> HIDE DEF L
<1>2. /\ h \in [1 .. L -> 1 .. n]
      /\ \A j, k \in 1 .. L : j < k => h[j] < h[k]
      /\ \A m \in 1 .. n : m \in Signs(s) => \E j \in 1 .. L : h[j] = m
      /\ h[L] \in Signs(s)
  BY <1>1 DEF ClausesAt
<1>3. \A j \in 1 .. L : h[j] \in 1 .. n
  BY <1>2
<1>4. ASSUME NEW m \in h[L] + 1 .. n, m \in Signs(s) PROVE FALSE
  <2>1. m \in 1 .. n /\ h[L] < m
    BY <1>1, <1>3
  <2>2. PICK j \in 1 .. L : h[j] = m
    BY <1>2, <1>4, <2>1
  <2>3. j < L \/ j = L
    BY <1>1
  <2>4. h[j] < h[L] \/ h[j] = h[L]
    BY <1>1, <1>2, <2>3
  <2>5. h[L] \in Nat /\ m \in Nat
    BY <1>1, <1>3, <2>1
  <2>6. QED
    BY <2>1, <2>2, <2>4, <2>5
<1>5. QED
  BY <1>1, <1>2, <1>3, <1>4 DEF L

\* Any other character goes to the last clause.
LEMMA GrownClause ==
    ASSUME NEW s, NEW n \in Nat, n + 1 \notin Signs(s),
           NEW list \in Seq(Clause), list # <<>>, NEW h, ClausesAt(s, list, h, n),
           NEW c \in Clause, c.mod = list[Len(list)].mod,
           c.flags = list[Len(list)].flags \cup {s[n + 1]}
    PROVE  ClausesAt(s, [list EXCEPT ![Len(list)] = c], h, n + 1)
<1> DEFINE L == Len(list)
           new == [list EXCEPT ![L] = c]
<1>1. L \in Nat /\ DOMAIN list = 1 .. L /\ DOMAIN new = 1 .. L /\ L \in 1 .. L
      /\ new[L] = c /\ \A j \in 1 .. L : j # L => new[j] = list[j]
  OBVIOUS
<1>2. h[L] \in 1 .. n /\ h[L] \in Signs(s) /\ \A m \in h[L] + 1 .. n : m \notin Signs(s)
  BY LastClause
<1>3. c.mod = list[L].mod /\ c.flags = list[L].flags \cup {s[n + 1]}
  OBVIOUS
<1> HIDE DEF L, new
<1>4. /\ h \in [1 .. L -> 1 .. n]
      /\ \A j, k \in 1 .. L : j < k => h[j] < h[k]
      /\ \A m \in 1 .. n : m \in Signs(s) => \E j \in 1 .. L : h[j] = m
      /\ \A j \in 1 .. L :
          /\ h[j] \in Signs(s)
          /\ list[j].mod = s[h[j]]
          /\ list[j].flags = BodyTo(s, h[j], n)
          /\ list[j].flags = {} => h[j] = n
  BY <1>1 DEF ClausesAt
<1>5. h \in [1 .. L -> 1 .. n + 1]
  <2>1. \A x \in 1 .. n : x \in 1 .. n + 1
    OBVIOUS
  <2>2. QED
    BY <1>4, <2>1
<1>6. \A m \in 1 .. n + 1 : m \in Signs(s) => \E j \in 1 .. L : h[j] = m
  <2>1. \A m \in 1 .. n + 1 : m = n + 1 \/ m \in 1 .. n
    OBVIOUS
  <2>2. QED
    BY <1>4, <2>1
<1>7. ASSUME NEW j \in 1 .. L, j # L
      PROVE  /\ new[j] = list[j] /\ list[j].flags = BodyTo(s, h[j], n + 1)
             /\ list[j].flags # {}
  <2>1. j < L
    BY <1>1, <1>7
  <2>2. h[j] < h[L] /\ h[j] \in 1 .. n
    BY <1>1, <1>4, <2>1
  <2>3. h[L] \in h[j] + 1 .. n + 1
    BY <1>2, <2>2
  <2>4. BodyTo(s, h[j], n + 1) = BodyTo(s, h[j], n)
    BY <1>2, <2>2, <2>3, BodyStep
  <2>5. h[j] # n
    BY <1>2, <2>2
  <2>6. QED
    BY <1>1, <1>4, <1>7, <2>4, <2>5
<1>8. c.flags = BodyTo(s, h[L], n + 1)
  <2>1. \A m \in h[L] + 1 .. n + 1 : m = n + 1 \/ m \in h[L] + 1 .. n
    BY <1>2
  <2>2. \A m \in h[L] + 1 .. n + 1 : m \notin Signs(s)
    BY <1>2, <2>1
  <2>3. BodyTo(s, h[L], n + 1) = BodyTo(s, h[L], n) \cup {s[n + 1]}
    BY <1>2, <2>2, BodyStep
  <2>4. QED
    BY <1>1, <1>3, <1>4, <2>3
<1>9. \A j \in 1 .. L :
          /\ h[j] \in Signs(s)
          /\ new[j].mod = s[h[j]]
          /\ new[j].flags = BodyTo(s, h[j], n + 1)
          /\ new[j].flags = {} => h[j] = n + 1
  <2>1. c.flags # {}
    BY <1>3
  <2>2. \A j \in 1 .. L : new[j].mod = list[j].mod
    BY <1>1, <1>3
  <2>3. QED
    BY <1>1, <1>4, <1>7, <1>8, <2>1, <2>2
<1>10. ClausesAt(s, new, h, n + 1)
  BY <1>1, <1>4, <1>5, <1>6, <1>9 DEF ClausesAt
<1>11. QED
  BY <1>10 DEF new, L

-----------------------------------------------------------------------------
(* Why a string is refused.                                                *)

LEMMA GrammarOfSigns ==
    ASSUME NEW s, ~(ToSet(s) \subseteq Digits), Grammatical(s)
    PROVE  /\ Signs(s) # {} /\ WhoChars(s) \subseteq {"u", "g", "o", "a"}
           /\ \A n \in Signs(s) : /\ Body(s, n) \subseteq Perms \/ Body(s, n) \subseteq Classes
                                  /\ Body(s, n) = {} => n = Len(s)
  BY DEF Grammatical

LEMMA NotClass ==
    ASSUME NEW s \in Seq(STRING \ {Nul}), ~(ToSet(s) \subseteq Digits), NEW n \in Nat, n <= Len(s),
           \A j \in 1 .. n : j \notin Signs(s),
           n < Len(s) => s[n + 1] \notin {"u", "g", "o", "a", "+", "-"}, Grammatical(s)
    PROVE  FALSE
<1>1. Len(s) \in Nat /\ DOMAIN s = 1 .. Len(s)
  OBVIOUS
<1>2. CASE n = Len(s)
  <2>1. Signs(s) = {}
    BY <1>1, <1>2 DEF Signs
  <2>2. QED
    BY <2>1, GrammarOfSigns
<1>3. CASE n < Len(s)
  <2>1. n + 1 \notin Signs(s) /\ n + 1 \in DOMAIN s
    BY <1>1, <1>3 DEF Signs
  <2>2. \A j \in 1 .. n + 1 : j = n + 1 \/ j \in 1 .. n
    OBVIOUS
  <2>3. \A j \in 1 .. n + 1 : j \notin Signs(s)
    BY <2>1, <2>2
  <2>4. s[n + 1] \in WhoChars(s)
    BY <2>1, <2>3 DEF WhoChars
  <2>5. s[n + 1] \notin {"u", "g", "o", "a"}
    BY <1>3
  <2>6. \A x \in WhoChars(s) : x \in {"u", "g", "o", "a"}
    BY GrammarOfSigns
  <2>7. QED
    BY <2>4, <2>5, <2>6
<1>4. \A b \in Nat : n <= b => n = b \/ n < b
  OBVIOUS
<1>5. n = Len(s) \/ n < Len(s)
  BY <1>1, <1>4
<1>6. QED
  BY <1>2, <1>3, <1>5

LEMMA NotBody ==
    ASSUME NEW s \in Seq(STRING \ {Nul}), ~(ToSet(s) \subseteq Digits), NEW n \in Signs(s),
           NEW m \in 1 .. Len(s), n < m, \A j \in n + 1 .. m : j \notin Signs(s),
           \/ s[m] \notin Classes \cup Perms
           \/ /\ n < m - 1
              /\ \/ s[m] \notin Classes /\ s[m - 1] \in Classes
                 \/ s[m] \notin Perms /\ s[m - 1] \in Perms, Grammatical(s)
    PROVE  FALSE
<1>1. Len(s) \in Nat /\ DOMAIN s = 1 .. Len(s) /\ n \in 1 .. Len(s)
  BY DEF Signs
<1>2. s[m] \in Body(s, n)
  BY <1>1 DEF Body
<1>3. n < m - 1 => s[m - 1] \in Body(s, n)
  <2> SUFFICES ASSUME n < m - 1 PROVE s[m - 1] \in Body(s, n)
    OBVIOUS
  <2>1. m - 1 \in DOMAIN s /\ m - 1 > n
    BY <1>1
  <2>2. \A j \in n + 1 .. m - 1 : j \in n + 1 .. m
    BY <1>1
  <2>3. \A j \in n + 1 .. m - 1 : j \notin Signs(s)
    BY <2>2
  <2>4. QED
    BY <2>1, <2>3 DEF Body
<1>4. Classes \cap Perms = {}
  BY DEF Classes, Perms
<1>5. ~(Body(s, n) \subseteq Perms) /\ ~(Body(s, n) \subseteq Classes)
  BY <1>2, <1>3, <1>4
<1>6. QED
  BY <1>5, GrammarOfSigns

LEMMA NotEmpty ==
    ASSUME NEW s \in Seq(STRING \ {Nul}), ~(ToSet(s) \subseteq Digits), NEW n \in Signs(s),
           n + 1 \in Signs(s), Grammatical(s)
    PROVE  FALSE
<1>1. n \in Nat /\ n + 1 <= Len(s) /\ Len(s) \in Nat /\ DOMAIN s = 1 .. Len(s)
  BY DEF Signs
<1>2. Body(s, n) = {}
  <2>1. ASSUME NEW k \in DOMAIN s, k > n PROVE n + 1 \in n + 1 .. k
    BY <1>1, <2>1
  <2>2. QED
    BY <2>1 DEF Body
<1>3. n # Len(s)
  <2>1. \A a, b \in Nat : a + 1 <= b => a # b
    OBVIOUS
  <2>2. QED
    BY <1>1, <2>1
<1>4. QED
  BY <1>2, <1>3, GrammarOfSigns

-----------------------------------------------------------------------------
(* A string read to its end.                                               *)

LEMMA WholeString ==
    ASSUME NEW s \in Seq(STRING \ {Nul})
    PROVE  /\ WhoTo(s, Len(s)) = WhoChars(s)
           /\ \A j : BodyTo(s, j, Len(s)) = Body(s, j)
<1>1. DOMAIN s = 1 .. Len(s)
  OBVIOUS
<1>2. QED
  BY <1>1 DEF WhoTo, WhoChars, BodyTo, Body

LEMMA ParsedGrammatical ==
    ASSUME TypeInv, Parsed(Len(input)), perms # <<>>
    PROVE  Grammatical(input)
<1>1. input \in Seq(STRING \ {Nul}) /\ Len(input) \in Nat /\ DOMAIN input = 1 .. Len(input)
      /\ perms \in Seq(Clause)
  BY DEF TypeInv
<1>2. PICK h : ClausesAt(input, perms, h, Len(input))
  BY DEF Parsed
<1>3. Len(perms) \in DOMAIN perms
  BY <1>1
<1>4. Signs(input) # {}
  BY <1>2, <1>3 DEF ClausesAt
<1>5. WhoChars(input) \subseteq {"u", "g", "o", "a"}
  <2>1. WhoChars(input) = perm_groups
    BY <1>1, WholeString DEF Parsed
  <2>2. QED
    BY <2>1 DEF TypeInv, TypeOK
<1>6. ASSUME NEW n \in Signs(input)
      PROVE  /\ Body(input, n) \subseteq Perms \/ Body(input, n) \subseteq Classes
             /\ Body(input, n) = {} => n = Len(input)
  <2>1. n \in 1 .. Len(input)
    BY <1>1 DEF Signs
  <2>2. PICK j \in DOMAIN perms : h[j] = n
    BY <1>2, <2>1 DEF ClausesAt
  <2>3. perms[j].flags = Body(input, n) /\ (perms[j].flags = {} => n = Len(input))
    BY <1>1, <1>2, <2>2, WholeString DEF ClausesAt
  <2>4. perms[j].flags \subseteq Perms \/ perms[j].flags \subseteq Classes
    BY DEF TypeInv, TypeOK
  <2>5. QED
    BY <2>3, <2>4
<1>7. QED
  BY <1>4, <1>5, <1>6 DEF Grammatical

\* A clause changes the bits it is about in the string.
LEMMA ClauseAbout ==
    ASSUME NEW s, NEW groups, NEW c \in Clause, NEW n,
           c.flags \subseteq IF c.copied THEN Classes ELSE Perms,
           c.flags = Body(s, n), groups = WhoChars(s), NEW b \in Bits
    PROVE  b \in Pmask(groups, c) <=> About(s, n, b)
<1>1. b[1] \in Classes /\ b[2] \in Perms /\ Classes \cap Perms = {}
  BY DEF Bits, Classes, Perms
<1>2. (IF c.copied THEN b[1] \in c.flags ELSE b[2] \in c.flags)
         <=> b[1] \in Body(s, n) \/ b[2] \in Body(s, n)
  BY <1>1 DEF Clause
<1>3. b \in Bmask(groups) <=> groups = {} \/ "a" \in groups \/ b[1] \in groups
  BY DEF Bmask
<1>4. QED
  BY <1>2, <1>3 DEF Pmask, About

LEMMA ParsedMeaning ==
    ASSUME TypeInv, Parsed(Len(input)), ~IsNumber, NEW mode, mode \subseteq Bits
    PROVE  ApplyModes(mode, perm_groups, perms) = Meaning(input, mode)
<1> DEFINE s == input
           L == Len(perms)
           Hit(b) == {j \in 1 .. L : b \in Pmask(perm_groups, perms[j])}
           about(b) == {n \in Signs(s) : About(s, n, b)}
<1>1. s \in Seq(STRING \ {Nul}) /\ Len(s) \in Nat /\ DOMAIN s = 1 .. Len(s)
      /\ perms \in Seq(Clause) /\ L \in Nat /\ DOMAIN perms = 1 .. L
  BY DEF TypeInv
<1>2. PICK h : ClausesAt(s, perms, h, Len(s))
  BY DEF Parsed
<1>3. /\ \A j \in 1 .. L : h[j] \in 1 .. Len(s) /\ h[j] \in Signs(s) /\ perms[j].mod = s[h[j]]
      /\ \A j, k \in 1 .. L : j < k => h[j] < h[k]
      /\ \A n \in Signs(s) : \E j \in 1 .. L : h[j] = n
  <2>1. \A n \in Signs(s) : n \in 1 .. Len(s)
    BY <1>1 DEF Signs
  <2>2. QED
    BY <1>1, <1>2, <2>1 DEF ClausesAt
<1>4. \A j, k \in 1 .. L : j <= k <=> h[j] <= h[k]
  <2> SUFFICES ASSUME NEW j \in 1 .. L, NEW k \in 1 .. L PROVE j <= k <=> h[j] <= h[k]
    OBVIOUS
  <2>1. h[j] \in Nat /\ h[k] \in Nat
    BY <1>3
  <2>2. /\ j < k => h[j] < h[k]
        /\ k < j => h[k] < h[j]
        /\ j = k => h[j] = h[k]
    BY <1>3
  <2>3. j \in Nat /\ k \in Nat
    BY <1>1
  <2> HIDE DEF L
  <2>4. QED
    BY <2>1, <2>2, <2>3
<1>5. \A b \in Bits : \A j \in 1 .. L : b \in Pmask(perm_groups, perms[j]) <=> About(s, h[j], b)
  <2> SUFFICES ASSUME NEW b \in Bits, NEW j \in 1 .. L
               PROVE  b \in Pmask(perm_groups, perms[j]) <=> About(s, h[j], b)
    OBVIOUS
  <2>1. perms[j] \in Clause /\ perms[j].flags \subseteq IF perms[j].copied THEN Classes ELSE Perms
    BY <1>1 DEF TypeInv, TypeOK
  <2>2. perms[j].flags = Body(s, h[j])
    BY <1>1, <1>2, WholeString DEF ClausesAt
  <2>3. perm_groups = WhoChars(s)
    BY <1>1, WholeString DEF Parsed
  <2>4. QED
    BY <2>1, <2>2, <2>3, ClauseAbout
<1> HIDE DEF s, L
<1>6. ASSUME NEW b \in Bits
      PROVE  /\ \A j \in Hit(b) : h[j] \in about(b)
             /\ \A n \in about(b) : \E j \in Hit(b) : h[j] = n
  BY <1>3, <1>5
<1>7. \A b : Hit(b) = Hits(perm_groups, perms, 1 .. L, b) /\ Hit(b) \subseteq 1 .. L
  BY DEF Hits
<1>8. Decided(mode, perm_groups, perms, 1 .. L) =
        {b \in Bits : \/ Hit(b) = {} /\ b \in mode
                      \/ \E j \in Hit(b) : perms[j].mod = "+" /\ \A k \in Hit(b) : k <= j}
  BY <1>7 DEF Decided
<1>9. Meaning(s, mode) =
        {b \in Bits : IF about(b) = {} THEN b \in mode
                      ELSE \E n \in about(b) : s[n] = "+" /\ \A m \in about(b) : m <= n}
  BY DEF Meaning, IsNumber, s
<1> HIDE DEF Hit, about
<1>10. ASSUME NEW b \in Bits
       PROVE  (\E j \in Hit(b) : perms[j].mod = "+" /\ \A k \in Hit(b) : k <= j)
                 <=> \E n \in about(b) : s[n] = "+" /\ \A m \in about(b) : m <= n
  <2>1. ASSUME NEW j \in Hit(b), perms[j].mod = "+", \A k \in Hit(b) : k <= j
        PROVE  \E n \in about(b) : s[n] = "+" /\ \A m \in about(b) : m <= n
    <3>1. h[j] \in about(b) /\ s[h[j]] = "+"
      BY <1>3, <1>6, <1>7, <2>1
    <3>2. ASSUME NEW m \in about(b) PROVE m <= h[j]
      <4>1. PICK k \in Hit(b) : h[k] = m
        BY <1>6
      <4>2. QED
        BY <1>4, <1>7, <2>1, <4>1
    <3>3. QED
      BY <3>1, <3>2
  <2>2. ASSUME NEW n \in about(b), s[n] = "+", \A m \in about(b) : m <= n
        PROVE  \E j \in Hit(b) : perms[j].mod = "+" /\ \A k \in Hit(b) : k <= j
    <3>1. PICK j \in Hit(b) : h[j] = n
      BY <1>6
    <3>2. perms[j].mod = "+"
      BY <1>3, <1>7, <2>2, <3>1
    <3>3. ASSUME NEW k \in Hit(b) PROVE k <= j
      BY <1>4, <1>6, <1>7, <2>2, <3>1
    <3>4. QED
      BY <3>2, <3>3
  <2>3. QED
    BY <2>1, <2>2
<1>11. ASSUME NEW b \in Bits PROVE Hit(b) = {} <=> about(b) = {}
  BY <1>6
<1>12. Decided(mode, perm_groups, perms, 1 .. L) = Meaning(s, mode)
  <2>1. ASSUME NEW b \in Bits
        PROVE  b \in Decided(mode, perm_groups, perms, 1 .. L) <=> b \in Meaning(s, mode)
    BY <1>8, <1>9, <1>10, <1>11
  <2>2. QED
    BY <2>1, <1>8, <1>9
<1>13. QED
  BY <1>1, <1>12, ApplyModesDecides DEF s

-----------------------------------------------------------------------------
(* The automaton reads what the grammar says, and refuses only what is not *)
(* of the grammar.                                                         *)

Stopped == state = "failed" => ~Grammatical(input)

LEMMA EntryParses ==
    ASSUME TypeInv, ParseInv, Entry
    PROVE  ParseInv' /\ Stopped'
<1>0. PICK n : n = str_index
  OBVIOUS
<1>1. /\ state = "entry" /\ ~IsNumber /\ n = str_index /\ n \in Nat /\ n <= Len(input)
      /\ perm_groups = WhoTo(input, n) /\ perms = <<>> /\ \E h : ClausesAt(input, perms, h, n)
  BY <1>0 DEF Entry, ParseInv, Parsing, Parsed, Consumed, Here, TypeInv, TypeOK
<1>2. /\ str_index' = n + 1 /\ cur_char' = CharAt(n + 1)
      /\ UNCHANGED <<input, perm_groups, perms>>
      /\ state' = CASE cur_char' \in {"+", "-"}           -> "modificator"
                    [] cur_char' \in {"u", "g", "o", "a"} -> "permgroups"
                    [] OTHER                              -> "failed"
  BY <1>1 DEF Entry
<1>3. input \in Seq(STRING \ {Nul}) /\ Len(input) \in Nat
  BY DEF TypeInv
<1>4. cur_char' # Nul => n + 1 \in 1 .. Len(input) /\ cur_char' = input[n + 1]
  <2>1. n + 1 \in Nat /\ n + 1 # 0
    BY <1>1
  <2>2. cur_char' # Nul => n + 1 <= Len(input)
    BY <1>2, <1>3, <2>1, InputFacts
  <2>3. QED
    BY <1>1, <1>2, <1>3, <2>2, InputFacts
<1>5. (~IsNumber)' /\ (Parsed(n))'
  BY <1>1, <1>2 DEF IsNumber, Parsed
<1>6. CASE cur_char' \in {"+", "-"}
  <2>1. state' = "modificator" /\ cur_char' # Nul
    BY <1>2, <1>6 DEF Nul
  <2>2. Consumed' = n
    BY <1>1, <1>2, <2>1 DEF Consumed
  <2>3. Here'
    BY <1>1, <1>2, <1>4, <1>6, <2>1 DEF Here
  <2>4. QED
    BY <1>5, <2>1, <2>2, <2>3 DEF ParseInv, Parsing, Applying, Stopped
<1>7. CASE cur_char' \in {"u", "g", "o", "a"}
  <2>1. state' = "permgroups" /\ cur_char' # Nul
    BY <1>2, <1>7 DEF Nul
  <2>2. Consumed' = n
    BY <1>1, <1>2, <2>1 DEF Consumed
  <2>3. Here'
    BY <1>1, <1>2, <1>4, <1>7, <2>1 DEF Here
  <2>4. QED
    BY <1>5, <2>1, <2>2, <2>3 DEF ParseInv, Parsing, Applying, Stopped
<1>8. CASE cur_char' \notin {"u", "g", "o", "a", "+", "-"}
  <2>1. state' = "failed"
    BY <1>2, <1>8
  <2>2. \A j \in 1 .. n : j \notin Signs(input)
    BY <1>1 DEF ClausesAt
  <2>3. n < Len(input) => input[n + 1] \notin {"u", "g", "o", "a", "+", "-"}
    <3> SUFFICES ASSUME n < Len(input) PROVE input[n + 1] = cur_char'
      BY <1>8
    <3>1. n + 1 \in 1 .. Len(input)
      BY <1>1, <1>3
    <3>2. QED
      BY <1>2, <3>1, InputFacts
  <2>4. ~Grammatical(input)
    BY <1>1, <1>3, <2>2, <2>3, NotClass DEF IsNumber
  <2>5. QED
    BY <1>2, <2>1, <2>4 DEF ParseInv, Parsing, Applying, Stopped
<1>9. QED
  BY <1>6, <1>7, <1>8

LEMMA SetPermgroupsParses ==
    ASSUME TypeInv, ParseInv, SetPermgroups
    PROVE  ParseInv' /\ Stopped'
<1>1. PICK n : n = str_index - 1
  OBVIOUS
<1>2. /\ state = "permgroups" /\ ~IsNumber /\ n \in Nat /\ n + 1 = str_index /\ n + 1 \in 1 .. Len(input)
      /\ perm_groups = WhoTo(input, n) /\ perms = <<>> /\ \E h : ClausesAt(input, perms, h, n)
      /\ cur_char = input[n + 1] /\ cur_char \in {"u", "g", "o", "a"}
      /\ input \in Seq(STRING \ {Nul}) /\ Len(input) \in Nat
  BY <1>1 DEF SetPermgroups, ParseInv, Parsing, Parsed, Consumed, Here, TypeInv
<1>3. /\ state' = "entry" /\ perm_groups' = perm_groups \cup {cur_char}
      /\ UNCHANGED <<input, str_index, perms>>
  BY DEF SetPermgroups
<1>4. \A j \in 1 .. n + 1 : j \notin Signs(input)
  <2>1. \A j \in 1 .. n + 1 : j = n + 1 \/ j \in 1 .. n
    BY <1>2
  <2>2. \A j \in 1 .. n : j \notin Signs(input)
    BY <1>2 DEF ClausesAt
  <2>3. n + 1 \notin Signs(input)
    BY <1>2 DEF Signs
  <2>4. QED
    BY <2>1, <2>2, <2>3
<1>5. WhoTo(input, n + 1) = perm_groups'
  BY <1>2, <1>3, <1>4, WhoStep
<1>6. \E h : ClausesAt(input, <<>>, h, n + 1)
  BY <1>2, <1>4, NoClause
<1>7. Parsed(n + 1)'
  BY <1>2, <1>3, <1>5, <1>6 DEF Parsed
<1>8. Consumed' = n + 1 /\ Here' /\ (~IsNumber)'
  BY <1>2, <1>3 DEF Consumed, Here, IsNumber
<1>9. QED
  BY <1>3, <1>7, <1>8 DEF ParseInv, Parsing, Applying, Stopped

LEMMA SetModificatorParses ==
    ASSUME TypeInv, ParseInv, SetModificator
    PROVE  ParseInv' /\ Stopped'
<1>1. PICK n : n = str_index - 1
  OBVIOUS
<1>2. PICK c : c = [mod |-> cur_char, copied |-> cur_char' \in Classes, flags |-> {}]
  OBVIOUS
<1>3. /\ state = "modificator" /\ ~IsNumber /\ n \in Nat /\ n + 1 = str_index /\ n + 1 \in 1 .. Len(input)
      /\ perm_groups = WhoTo(input, n)
      /\ \A j \in DOMAIN perms : perms[j].flags # {}
      /\ cur_char = input[n + 1] /\ cur_char \in {"+", "-"}
      /\ input \in Seq(STRING \ {Nul}) /\ Len(input) \in Nat /\ perms \in Seq(Clause)
  BY <1>1 DEF SetModificator, ParseInv, Parsing, Parsed, Consumed, Here, TypeInv
<1>4. PICK h : ClausesAt(input, perms, h, n)
  BY <1>1 DEF SetModificator, ParseInv, Parsing, Parsed, Consumed
<1>5. /\ str_index' = n + 2 /\ cur_char' = CharAt(n + 2) /\ perms' = Append(perms, c)
      /\ UNCHANGED <<input, perm_groups>>
      /\ state' = CASE cur_char' \in Classes -> "copiedGroup"
                    [] cur_char' \in Perms   -> "perm"
                    [] cur_char' = Nul       -> "stat"
                    [] OTHER                 -> "failed"
  BY <1>2, <1>3 DEF SetModificator
<1>6. n + 1 \in Signs(input)
  BY <1>3, SignFacts
<1>7. c \in Clause /\ c.mod = input[n + 1] /\ c.flags = {} /\ (c.copied <=> cur_char' \in Classes)
  <2>1. c.mod = input[n + 1] /\ c.flags = {} /\ c.copied = (cur_char' \in Classes)
    BY <1>2, <1>3
  <2>2. c \in Clause
    BY <1>2, <1>3 DEF Clause
  <2>3. QED
    BY <2>1, <2>2
<1>8. Parsed(n + 1)'
  <2>1. WhoTo(input, n + 1) = WhoTo(input, n)
    BY <1>3, <1>6, WhoStep
  <2>2. \E g : ClausesAt(input, Append(perms, c), g, n + 1)
    BY <1>3, <1>4, <1>6, <1>7, NewClause
  <2>3. QED
    BY <1>3, <1>5, <2>1, <2>2 DEF Parsed
<1>9. perms' # <<>> /\ perms'[Len(perms')] = c
  BY <1>3, <1>5
<1>10. (cur_char' = Nul <=> n + 1 = Len(input)) /\ (cur_char' # Nul => n + 2 \in 1 .. Len(input))
  <2>1. n + 2 \in Nat /\ n + 2 # 0
    BY <1>3
  <2>2. cur_char' = Nul <=> n + 2 > Len(input)
    BY <1>5, <2>1, InputFacts
  <2>3. QED
    BY <1>3, <2>2
<1>11. n + 2 \in 1 .. Len(input) => cur_char' = input[n + 2]
  BY <1>5, InputFacts
<1>12. (~IsNumber)' /\ (state' # "entry" => Consumed' = n + 1)
  BY <1>3, <1>5 DEF IsNumber, Consumed
<1>13. Classes \cap Perms = {} /\ Nul \notin Classes \cup Perms
  BY DEF Classes, Perms, Nul
<1>14. CASE cur_char' \in Classes
  <2>1. state' = "copiedGroup" /\ cur_char' # Nul
    BY <1>5, <1>13, <1>14
  <2>2. Here'
    BY <1>5, <1>7, <1>9, <1>10, <1>11, <1>14, <2>1 DEF Here
  <2>3. QED
    BY <1>8, <1>12, <2>1, <2>2 DEF ParseInv, Parsing, Applying, Stopped
<1>15. CASE cur_char' \in Perms
  <2>1. state' = "perm" /\ cur_char' # Nul
    BY <1>5, <1>13, <1>15
  <2>2. Here'
    BY <1>5, <1>7, <1>9, <1>10, <1>11, <1>13, <1>15, <2>1 DEF Here
  <2>3. QED
    BY <1>8, <1>12, <2>1, <2>2 DEF ParseInv, Parsing, Applying, Stopped
<1>16. CASE cur_char' = Nul
  <2>1. state' = "stat" /\ n + 1 = Len(input)
    BY <1>5, <1>10, <1>13, <1>16
  <2>2. str_index' = Len(input)' + 1 /\ Parsed(Len(input))'
    BY <1>3, <1>5, <1>8, <2>1 DEF Parsed
  <2>3. QED
    BY <1>9, <2>1, <2>2 DEF ParseInv, Parsing, Applying, Stopped
<1>17. CASE cur_char' \notin Classes \cup Perms \cup {Nul}
  <2>1. state' = "failed" /\ n + 2 \in 1 .. Len(input) /\ cur_char' = input[n + 2]
    BY <1>5, <1>10, <1>11, <1>17
  <2>2. n + 1 + 1 = n + 2 /\ n + 1 < n + 2 /\ \A j \in n + 1 + 1 .. n + 2 : j = n + 2
    BY <1>3
  <2>3. CASE n + 2 \in Signs(input)
    <3>1. ~Grammatical(input)
      BY <1>3, <1>6, <2>2, <2>3, NotEmpty DEF IsNumber
    <3>2. QED
      BY <1>5, <2>1, <3>1 DEF ParseInv, Parsing, Applying, Stopped
  <2>4. CASE n + 2 \notin Signs(input)
    <3>1. \A j \in n + 1 + 1 .. n + 2 : j \notin Signs(input)
      BY <2>2, <2>4
    <3>2. input[n + 2] \notin Classes \cup Perms
      BY <1>17, <2>1
    <3>3. ~Grammatical(input)
      BY <1>3, <1>6, <2>1, <2>2, <3>1, <3>2, NotBody DEF IsNumber
    <3>4. QED
      BY <1>5, <2>1, <3>3 DEF ParseInv, Parsing, Applying, Stopped
  <2>5. QED
    BY <2>3, <2>4
<1>18. QED
  BY <1>14, <1>15, <1>16, <1>17

LEMMA CollectParses ==
    ASSUME TypeInv, ParseInv, NEW here, NEW own, Collect(here, own),
           \/ here = "copiedGroup" /\ own = Classes
           \/ here = "perm" /\ own = Perms
    PROVE  ParseInv' /\ Stopped'
<1>1. PICK n, L : n = str_index - 1 /\ L = Len(perms)
  OBVIOUS
<1>2. PICK c : c = [perms[L] EXCEPT !.flags = @ \cup {cur_char}]
  OBVIOUS
<1>3. /\ state = here /\ ~IsNumber /\ n \in Nat /\ n + 1 = str_index /\ n + 1 \in 1 .. Len(input)
      /\ perm_groups = WhoTo(input, n)
      /\ perms # <<>> /\ perms \in Seq(Clause) /\ L \in DOMAIN perms /\ L \in Nat
      /\ perms[L].copied <=> own = Classes
      /\ cur_char = input[n + 1] /\ cur_char \in own
      /\ input \in Seq(STRING \ {Nul}) /\ Len(input) \in Nat
  <2>1. state = here /\ here \in {"copiedGroup", "perm"} /\ Classes # Perms
    BY DEF Collect, Classes, Perms
  <2>2. /\ state = here /\ ~IsNumber /\ n + 1 = str_index /\ n + 1 \in 1 .. Len(input)
        /\ perm_groups = WhoTo(input, n) /\ cur_char = input[n + 1] /\ cur_char \in own
        /\ perms # <<>> /\ (perms[L].copied <=> own = Classes)
        /\ perms \in Seq(Clause) /\ input \in Seq(STRING \ {Nul})
    BY <1>1, <2>1 DEF ParseInv, Parsing, Parsed, Consumed, Here, TypeInv, TypeOK
  <2>3. Len(perms) \in DOMAIN perms /\ Len(perms) \in Nat /\ L = Len(perms)
    BY <1>1, <2>2
  <2>4. n \in Nat
    BY <1>1, <2>2
  <2>5. QED
    BY <2>2, <2>3, <2>4
<1>4. PICK h : ClausesAt(input, perms, h, n)
  <2>1. state \in Parsing /\ state # "entry"
    BY DEF Collect, Parsing
  <2>2. QED
    BY <1>1, <2>1 DEF ParseInv, Parsed, Consumed
<1>5. /\ str_index' = n + 2 /\ cur_char' = CharAt(n + 2) /\ perms' = [perms EXCEPT ![Len(perms)] = c]
      /\ UNCHANGED <<input, perm_groups>>
      /\ state' = CASE cur_char' \in own        -> here
                    [] cur_char' \in {"+", "-"} -> "modificator"
                    [] cur_char' = Nul          -> "stat"
                    [] OTHER                    -> "failed"
  BY <1>1, <1>2, <1>3 DEF Collect, NextIndex
<1>6. c \in Clause /\ c.mod = perms[L].mod /\ c.copied = perms[L].copied
      /\ c.flags = perms[L].flags \cup {input[n + 1]}
  <2>1. perms[L] \in Clause /\ cur_char \in Classes \cup Perms
    BY <1>3
  <2>2. QED
    BY <1>2, <1>3, <2>1 DEF Clause
<1>7. n + 1 \notin Signs(input)
  <2>1. cur_char \notin {"+", "-"}
    BY <1>3 DEF Classes, Perms
  <2>2. QED
    BY <1>3, <2>1 DEF Signs
<1>8. ClausesAt(input, perms', h, n + 1)
  BY <1>1, <1>3, <1>4, <1>5, <1>6, <1>7, GrownClause
<1>9. /\ perms' \in Seq(Clause) /\ perms' # <<>> /\ Len(perms') = L /\ perms'[L] = c
  BY <1>1, <1>3, <1>5, <1>6
<1>10. /\ h[L] \in 1 .. n /\ h[L] \in Signs(input)
       /\ \A m \in h[L] + 1 .. n + 1 : m \notin Signs(input)
  <2>1. h[L] \in 1 .. n /\ h[L] \in Signs(input)
    BY <1>1, <1>3, <1>4, LastClause
  <2>2. n + 1 \in Nat
    BY <1>3
  <2>3. \A m \in h[L] + 1 .. n + 1 : m \notin Signs(input)
    BY <1>8, <1>9, <2>2, LastClause
  <2>4. QED
    BY <2>1, <2>3
<1>11. Parsed(n + 1)'
  <2>1. h[L] \in 1 .. n + 1
    BY <1>3, <1>10
  <2>2. WhoTo(input, n + 1) = WhoTo(input, n)
    BY <1>3, <1>10, <2>1, WhoStep
  <2>3. QED
    BY <1>3, <1>5, <1>8, <2>2 DEF Parsed
<1>12. \A j \in DOMAIN perms' : perms'[j].flags # {}
  <2>1. DOMAIN perms' = DOMAIN perms /\ h \in [DOMAIN perms -> 1 .. n]
    BY <1>3, <1>4, <1>5 DEF ClausesAt
  <2>2. ASSUME NEW j \in DOMAIN perms PROVE h[j] # n + 1
    <3>1. h[j] \in 1 .. n
      BY <2>1
    <3>2. QED
      BY <1>3, <3>1
  <2>3. QED
    BY <1>8, <2>1, <2>2 DEF ClausesAt
<1>13. (cur_char' = Nul <=> n + 1 = Len(input)) /\ (cur_char' # Nul => n + 2 \in 1 .. Len(input))
  <2>1. n + 2 \in Nat /\ n + 2 # 0
    BY <1>3
  <2>2. cur_char' = Nul <=> n + 2 > Len(input)
    BY <1>5, <2>1, InputFacts
  <2>3. QED
    BY <1>3, <2>2
<1>14. n + 2 \in 1 .. Len(input) => cur_char' = input[n + 2]
  BY <1>5, InputFacts
<1>15. (~IsNumber)' /\ (state' # "entry" => Consumed' = n + 1)
  BY <1>3, <1>5 DEF IsNumber, Consumed
<1>16. Classes \cap Perms = {} /\ Nul \notin Classes \cup Perms \cup {"+", "-"}
       /\ "+" \notin Classes \cup Perms /\ "-" \notin Classes \cup Perms
  BY DEF Classes, Perms, Nul
<1>17. CASE cur_char' \in own
  <2>1. state' = here /\ cur_char' # Nul
    BY <1>5, <1>16, <1>17
  <2>2. perms'[Len(perms')].copied <=> own = Classes
    BY <1>3, <1>6, <1>9
  <2>3. Here'
    BY <1>5, <1>9, <1>13, <1>14, <1>17, <2>1, <2>2 DEF Here, Classes, Perms
  <2>4. here \in {"copiedGroup", "perm"}
    OBVIOUS
  <2>5. QED
    BY <1>11, <1>15, <2>1, <2>3, <2>4 DEF ParseInv, Parsing, Applying, Stopped
<1>18. CASE cur_char' \in {"+", "-"}
  <2>1. cur_char' \notin own /\ cur_char' # Nul
    BY <1>16, <1>18
  <2>2. state' = "modificator"
    BY <1>5, <1>18, <2>1
  <2>3. Here'
    BY <1>5, <1>12, <1>13, <1>14, <1>18, <2>1, <2>2 DEF Here
  <2>4. QED
    BY <1>11, <1>15, <2>2, <2>3 DEF ParseInv, Parsing, Applying, Stopped
<1>19. CASE cur_char' = Nul
  <2>1. cur_char' \notin own \cup {"+", "-"}
    BY <1>16, <1>19
  <2>2. state' = "stat" /\ n + 1 = Len(input)
    BY <1>5, <1>13, <1>19, <2>1
  <2>3. str_index' = Len(input)' + 1 /\ Parsed(Len(input))'
    BY <1>3, <1>5, <1>11, <2>2 DEF Parsed
  <2>4. QED
    BY <1>9, <2>2, <2>3 DEF ParseInv, Parsing, Applying, Stopped
<1>20. CASE cur_char' \notin own \cup {"+", "-", Nul}
  <2>1. state' = "failed" /\ n + 2 \in 1 .. Len(input) /\ cur_char' = input[n + 2]
    BY <1>5, <1>13, <1>14, <1>20
  <2>2. n + 2 \notin Signs(input)
    BY <1>20, <2>1 DEF Signs
  <2>3. h[L] < n + 2 /\ h[L] < n + 2 - 1 /\ n + 2 - 1 = n + 1
        /\ \A j \in h[L] + 1 .. n + 2 : j = n + 2 \/ j \in h[L] + 1 .. n + 1
    BY <1>3, <1>10
  <2>4. \A j \in h[L] + 1 .. n + 2 : j \notin Signs(input)
    BY <1>10, <2>2, <2>3
  <2>5. input[n + 2] \notin own /\ input[n + 1] \in own
    BY <1>3, <1>20, <2>1
  <2>6. ~Grammatical(input)
    <3>1. ~(ToSet(input) \subseteq Digits)
      BY <1>3 DEF IsNumber
    <3>2. input[n + 2 - 1] \in own
      BY <2>3, <2>5
    <3>3. QED
      BY <1>3, <1>10, <2>1, <2>3, <2>4, <2>5, <3>1, <3>2, NotBody
  <2>7. QED
    BY <1>5, <2>1, <2>6 DEF ParseInv, Parsing, Applying, Stopped
<1>21. QED
  BY <1>17, <1>18, <1>19, <1>20

-----------------------------------------------------------------------------
(* The loop over the files.                                                *)

Files ==
    /\ Len(original) = Len(files) /\ AppliedExactly
    /\ state \in {"classify"} \cup Parsing => i = 1

Inv == TypeInv /\ ParseInv /\ LoopInv /\ Files /\ AcceptsExactly

LEMMA ParsingLeavesFiles ==
    ASSUME Inv, Classify \/ Entry \/ SetPermgroups \/ SetModificator
                \/ Collect("copiedGroup", Classes) \/ Collect("perm", Perms)
    PROVE  LoopInv' /\ Files'
<1>1. /\ UNCHANGED <<input, files, original, i>> /\ state \in {"classify"} \cup Parsing
      /\ state' # "chmod"
  BY DEF Classify, Entry, SetPermgroups, SetModificator, Collect, parserVars, Parsing
<1>2. QED
  BY <1>1 DEF Inv, Files, LoopInv, AppliedExactly

\* Once the string is read, NewMode() is what the string means.
LEMMA NewModeMeans ==
    ASSUME TypeInv, ParseInv, state = "chmod", NEW mode, mode \subseteq Bits
    PROVE  NewMode(mode) = Meaning(input, mode)
<1>1. CASE IsNumber
  BY <1>1 DEF NewMode, Meaning, IsNumber
<1>2. CASE ~IsNumber
  <2>1. Parsed(Len(input))
    BY <1>2 DEF ParseInv, Applying
  <2>2. ApplyModes(mode, perm_groups, perms) = Meaning(input, mode)
    BY <1>2, <2>1, ParsedMeaning
  <2>3. QED
    BY <1>2, <2>2 DEF NewMode
<1>3. QED
  BY <1>1, <1>2

LEMMA Accepts == TypeInv /\ ParseInv /\ state \in Applying => Grammatical(input)
<1> SUFFICES ASSUME TypeInv, ParseInv, state \in Applying PROVE Grammatical(input)
  OBVIOUS
<1>1. CASE IsNumber
  BY <1>1 DEF IsNumber, Grammatical
<1>2. CASE ~IsNumber
  BY <1>2, ParsedGrammatical DEF ParseInv
<1>3. QED
  BY <1>1, <1>2

LEMMA ChmodApplies ==
    ASSUME Inv, ChmodFile
    PROVE  ParseInv' /\ LoopInv' /\ Files' /\ AcceptsExactly'
<1>1. /\ files \in Seq(File) /\ original \in Seq(File) /\ Len(files) = Len(original)
      /\ Len(files) \in Nat /\ i \in 1 .. Len(files) /\ state = "chmod" /\ AppliedExactly
      /\ DOMAIN files = 1 .. Len(files) /\ TypeInv /\ ParseInv
  BY ChmodAssumption DEF Inv, Files, LoopInv, TypeInv, TypeOK, ChmodFile
<1>2. UNCHANGED <<input, original, str_index, cur_char, perm_groups, perms>>
  BY DEF ChmodFile, parserVars
<1>3. Grammatical(input)
  BY <1>1, Accepts DEF Applying
<1>4. CASE files[i].owned
  <2> DEFINE f == [files[i] EXCEPT !.mode = NewMode(@)]
  <2>1. state' = "stat" /\ i' = i + 1 /\ files' = [files EXCEPT ![i] = f]
    BY <1>1, <1>4 DEF ChmodFile
  <2>2. files[i] \in File /\ files[i] = original[i]
    BY <1>1 DEF AppliedExactly
  <2>3. f = [original[i] EXCEPT !.mode = Meaning(input, @)]
    <3>1. NewMode(files[i].mode) = Meaning(input, files[i].mode)
      BY <1>1, <2>2, NewModeMeans DEF File
    <3>2. QED
      BY <2>2, <3>1
  <2> HIDE DEF f
  <2>4. DOMAIN files' = DOMAIN files /\ Len(files') = Len(files) /\ files'[i] = f
        /\ \A n \in DOMAIN files : n # i => files'[n] = files[n]
    BY <1>1, <2>1
  <2>5. AppliedExactly'
    <3> SUFFICES ASSUME NEW n \in DOMAIN files
                 PROVE  files'[n] = IF n < i + 1 THEN [original[n] EXCEPT !.mode = Meaning(input, @)]
                                    ELSE original[n]
      BY <1>2, <2>1, <2>4 DEF AppliedExactly, Meaning
    <3>1. n \in Nat /\ i \in Nat
      BY <1>1
    <3>2. CASE n = i
      BY <2>3, <2>4, <3>1, <3>2
    <3>3. CASE n # i
      <4>1. n < i + 1 <=> n < i
        BY <3>1, <3>3
      <4>2. files'[n] = files[n]
        BY <2>4, <3>3
      <4>3. QED
        BY <1>1, <4>1, <4>2 DEF AppliedExactly
    <3>4. QED
      BY <3>2, <3>3
  <2>6. ParseInv'
    BY <1>1, <1>2, <2>1 DEF ParseInv, Parsing, Applying, Parsed, IsNumber
  <2>7. QED
    BY <1>1, <1>2, <1>3, <2>1, <2>4, <2>5, <2>6 DEF LoopInv, Files, Parsing, AcceptsExactly
<1>5. CASE ~files[i].owned
  <2>1. state' = "failed" /\ UNCHANGED <<files, i>>
    BY <1>5 DEF ChmodFile
  <2>2. ParseInv'
    BY <2>1 DEF ParseInv, Parsing, Applying
  <2>3. AppliedExactly' /\ Len(original') = Len(files')
    BY <1>1, <1>2, <2>1 DEF AppliedExactly
  <2>4. AcceptsExactly'
    BY <1>1, <1>5, <2>1 DEF AcceptsExactly
  <2>5. QED
    BY <2>1, <2>2, <2>3, <2>4 DEF LoopInv, Files, Parsing
<1>6. QED
  BY <1>4, <1>5

LEMMA StatLooks ==
    ASSUME Inv, StatFile
    PROVE  ParseInv' /\ LoopInv' /\ Files' /\ AcceptsExactly'
<1>1. /\ state = "stat" /\ Len(files) \in Nat /\ i \in 1 .. Len(files) + 1
      /\ UNCHANGED <<input, files, original, str_index, cur_char, perm_groups, perms, i>>
  BY DEF StatFile, parserVars, Inv, TypeInv, TypeOK
<1>2. \/ i > Len(files) /\ state' = "done"
      \/ i <= Len(files) /\ files[i].exists /\ state' = "chmod"
      \/ i <= Len(files) /\ ~files[i].exists /\ state' = "failed"
  <2>1. i > Len(files) \/ i <= Len(files)
    BY <1>1
  <2>2. ~(i > Len(files) /\ i <= Len(files))
    BY <1>1
  <2>3. QED
    BY <2>1, <2>2 DEF StatFile
<1>3. Grammatical(input)
  BY <1>1, Accepts DEF Applying, Inv
<1>4. ParseInv'
  BY <1>1, <1>2 DEF Inv, ParseInv, Parsing, Applying, Parsed, IsNumber
<1>5. LoopInv' /\ Files'
  BY <1>1, <1>2 DEF Inv, LoopInv, Files, AppliedExactly, Parsing
<1>6. AcceptsExactly'
  BY <1>1, <1>2, <1>3 DEF AcceptsExactly
<1>7. QED
  BY <1>4, <1>5, <1>6

LEMMA ClassifyParses ==
    ASSUME Inv, Classify
    PROVE  ParseInv' /\ Stopped'
<1>1. /\ str_index = 0 /\ perm_groups = {} /\ perms = <<>> /\ state = "classify"
      /\ UNCHANGED <<input, str_index, cur_char, perm_groups, perms>>
      /\ state' = IF IsNumber THEN "stat" ELSE "entry"
      /\ input \in Seq(STRING \ {Nul})
  BY DEF Classify, Inv, ParseInv, TypeInv, parserVars
<1>2. CASE IsNumber
  <2>1. IsNumber' /\ state' = "stat"
    BY <1>1, <1>2 DEF IsNumber
  <2>2. QED
    BY <2>1 DEF ParseInv, Parsing, Applying, Stopped
<1>3. CASE ~IsNumber
  <2>1. (~IsNumber)' /\ state' = "entry" /\ Consumed' = 0
    BY <1>1, <1>3 DEF IsNumber, Consumed
  <2>2. WhoTo(input, 0) = {}
    BY DEF WhoTo
  <2>3. \E h : ClausesAt(input, <<>>, h, 0)
    BY NoClause
  <2>4. Parsed(0)'
    BY <1>1, <2>2, <2>3 DEF Parsed
  <2>5. Here'
    BY <1>1, <2>1 DEF Here
  <2>6. QED
    BY <2>1, <2>4, <2>5 DEF ParseInv, Parsing, Applying, Stopped
<1>4. QED
  BY <1>2, <1>3

LEMMA InvInit == Init => Inv
<1> SUFFICES ASSUME Init PROVE Inv
  OBVIOUS
<1>1. TypeInv
  BY TypeInit
<1>2. ParseInv /\ LoopInv /\ AcceptsExactly
  BY DEF Init, ParseInv, LoopInv, AcceptsExactly, Parsing, Applying
<1>3. Files
  <2>1. files \in Seq(File)
    BY <1>1 DEF TypeInv, TypeOK
  <2>2. \A n \in DOMAIN files : ~(n < 1)
    BY <2>1
  <2>3. QED
    BY <2>2 DEF Init, Files, AppliedExactly
<1>4. QED
  BY <1>1, <1>2, <1>3 DEF Inv

LEMMA InvNext == Inv /\ [Next]_vars => Inv'
<1> SUFFICES ASSUME Inv, [Next]_vars PROVE Inv'
  OBVIOUS
<1>1. TypeInv'
  BY TypeNext DEF Inv
<1>2. CASE UNCHANGED vars
  <2>1. LoopInv' /\ Files' /\ AcceptsExactly'
    BY <1>2 DEF vars, Inv, LoopInv, Files, AppliedExactly, AcceptsExactly
  <2>2. ParseInv'
    BY <1>2 DEF vars, parserVars, Inv, ParseInv, Parsed, Consumed, Here, IsNumber
  <2>3. QED
    BY <1>1, <2>1, <2>2 DEF Inv
<1>3. CASE Classify \/ Entry \/ SetPermgroups \/ SetModificator
           \/ Collect("copiedGroup", Classes) \/ Collect("perm", Perms)
  <2>1. ParseInv' /\ Stopped'
    BY <1>3, ClassifyParses, EntryParses, SetPermgroupsParses, SetModificatorParses, CollectParses
       DEF Inv
  <2>2. LoopInv' /\ Files'
    BY <1>3, ParsingLeavesFiles
  <2>3. AcceptsExactly'
    <3>1. (state \in Applying => Grammatical(input))'
      BY <1>1, <2>1, Accepts, PTL
    <3>2. QED
      BY <2>1, <3>1 DEF AcceptsExactly, Stopped, Applying
  <2>4. QED
    BY <1>1, <2>1, <2>2, <2>3 DEF Inv
<1>4. CASE StatFile
  BY <1>1, <1>4, StatLooks DEF Inv
<1>5. CASE ChmodFile
  BY <1>1, <1>5, ChmodApplies DEF Inv
<1>6. QED
  BY <1>2, <1>3, <1>4, <1>5 DEF Next, Step, Ended

\* The invariant behind the theorems below.
THEOREM Invariance == Spec => []Inv
  BY InvInit, InvNext, PTL DEF Spec

\* Every variable of the parser keeps its type on every string.
THEOREM TypeCorrect == Spec => []TypeOK
<1>1. Inv => TypeOK
  BY DEF Inv, TypeInv
<1>2. QED
  BY Invariance, <1>1, PTL

-----------------------------------------------------------------------------
(* What is accepted, against the regular expression.                       *)

LEMMA BodyChars ==
    ASSUME NEW s, NEW n, NEW k \in DOMAIN s, k > n, \A j \in n + 1 .. k : j \notin Signs(s)
    PROVE  s[k] \in Body(s, n)
  BY DEF Body

\* Every character belongs to a class, a sign or a clause.
LEMMA Covered ==
    ASSUME NEW s \in Seq(STRING), NEW k \in 1 .. Len(s), k \notin Signs(s)
    PROVE  s[k] \in WhoChars(s) \/ \E n \in Signs(s) : s[k] \in Body(s, n)
<1> DEFINE S == {j \in 1 .. k : j \in Signs(s)}
<1>1. DOMAIN s = 1 .. Len(s) /\ Len(s) \in Nat /\ k \in Nat
  OBVIOUS
<1>2. CASE S = {}
  BY <1>1, <1>2 DEF WhoChars
<1>3. CASE S # {}
  <2>1. PICK n \in S : \A j \in S : j <= n
    <3> HIDE DEF S
    <3>1. S \subseteq 1 .. k
      BY DEF S
    <3>2. QED
      BY <1>1, <1>3, <3>1, MaxOfSet
  <2>2. n \in 1 .. k /\ n \in Signs(s) /\ n # k
    BY <2>1
  <2>3. k > n
    BY <1>1, <2>2
  <2>4. ASSUME NEW j \in n + 1 .. k PROVE j \notin Signs(s)
    <3>1. j \in 1 .. k /\ ~(j <= n)
      BY <1>1, <2>2
    <3>2. QED
      BY <2>1, <3>1
  <2>5. s[k] \in Body(s, n)
    BY <1>1, <2>3, <2>4, BodyChars
  <2>6. QED
    BY <2>2, <2>5
<1>4. QED
  BY <1>2, <1>3

\* Regex() with the signs + and - alone.
LEMMA RegexOfSigns ==
    ASSUME NEW s \in Seq(STRING), "=" \notin ToSet(s)
    PROVE  Regex(s) <=>
             \/ s # <<>> /\ ToSet(s) \subseteq Digits
             \/ /\ Signs(s) # {}
                /\ WhoChars(s) \subseteq {"u", "g", "o", "a"}
                /\ \A n \in Signs(s) :
                      LET C == {k \in DOMAIN s : k > n /\ \A j \in n + 1 .. k : j \notin Signs(s)}
                      IN  \/ \A k \in C : s[k] \in {"r", "w", "x", "X", "s", "t"}
                          \/ \E k \in DOMAIN s : C = {k} /\ s[k] \in Classes
<1>1. \A n \in DOMAIN s : s[n] # "="
  BY DEF ToSet
<1>2. {n \in DOMAIN s : s[n] \in {"+", "-", "="}} = Signs(s)
  BY <1>1 DEF Signs
<1>3. WhoChars(s) \subseteq {"u", "g", "o", "a"} <=>
        \A k \in DOMAIN s : (\A j \in 1 .. k : j \notin Signs(s)) => s[k] \in {"u", "g", "o", "a"}
  BY DEF WhoChars
<1> DEFINE signs == {n \in DOMAIN s : s[n] \in {"+", "-", "="}}
           Part(n) == {k \in DOMAIN s : k > n /\ \A j \in n + 1 .. k : j \notin signs}
           Rest == \A n \in signs :
                      \/ \A k \in Part(n) : s[k] \in {"r", "w", "x", "X", "s", "t"}
                      \/ \E k \in DOMAIN s : Part(n) = {k} /\ s[k] \in Classes
           Who == \A k \in DOMAIN s : (\A j \in 1 .. k : j \notin signs) => s[k] \in {"u", "g", "o", "a"}
<1>4. Regex(s) <=> \/ s # <<>> /\ ToSet(s) \subseteq Digits
                   \/ signs # {} /\ Who /\ Rest
  BY DEF Regex
<1>5. Who <=> WhoChars(s) \subseteq {"u", "g", "o", "a"}
  BY <1>2, <1>3
<1> DEFINE C(n) == {k \in DOMAIN s : k > n /\ \A j \in n + 1 .. k : j \notin Signs(s)}
<1>6. Rest <=> \A n \in Signs(s) : \/ \A k \in C(n) : s[k] \in {"r", "w", "x", "X", "s", "t"}
                                   \/ \E k \in DOMAIN s : C(n) = {k} /\ s[k] \in Classes
  <2>1. \A n : Part(n) = C(n)
    BY <1>2
  <2> HIDE DEF signs, C, Part
  <2>2. signs = Signs(s)
    BY <1>2 DEF signs
  <2>3. QED
    BY <2>1, <2>2
<1>7. Regex(s) <=>
         \/ s # <<>> /\ ToSet(s) \subseteq Digits
         \/ /\ Signs(s) # {}
            /\ WhoChars(s) \subseteq {"u", "g", "o", "a"}
            /\ \A n \in Signs(s) : \/ \A k \in C(n) : s[k] \in {"r", "w", "x", "X", "s", "t"}
                                   \/ \E k \in DOMAIN s : C(n) = {k} /\ s[k] \in Classes
  <2> HIDE DEF Who, Rest, C
  <2>1. signs = Signs(s)
    BY <1>2
  <2>2. QED
    BY <2>1, <1>4, <1>5, <1>6
<1>8. QED
  BY <1>7

LEMMA GrammaticalMatches ==
    ASSUME NEW s \in Seq(STRING), Grammatical(s), ~Extra(s)
    PROVE  Regex(s)
<1>1. s # <<>> /\ DOMAIN s = 1 .. Len(s) /\ Len(s) \in Nat
  BY DEF Extra
<1>2. CASE ToSet(s) \subseteq Digits
  BY <1>1, <1>2 DEF Regex
<1>3. CASE ~(ToSet(s) \subseteq Digits)
  <2>1. /\ Signs(s) # {} /\ WhoChars(s) \subseteq {"u", "g", "o", "a"}
        /\ \A n \in Signs(s) : Body(s, n) \subseteq Perms \/ Body(s, n) \subseteq Classes
    BY <1>3 DEF Grammatical
  <2>2. "=" \notin ToSet(s)
    <3> SUFFICES ASSUME NEW k \in 1 .. Len(s), s[k] = "=" PROVE FALSE
      BY <1>1 DEF ToSet
    <3>1. k \notin Signs(s)
      BY DEF Signs
    <3>2. s[k] \in WhoChars(s) \/ \E n \in Signs(s) : s[k] \in Body(s, n)
      BY <3>1, Covered
    <3>3. QED
      BY <2>1, <3>2 DEF Perms, Classes
  <2>3. ASSUME NEW n \in Signs(s)
        PROVE  LET C == {k \in DOMAIN s : k > n /\ \A j \in n + 1 .. k : j \notin Signs(s)}
               IN  \/ \A k \in C : s[k] \in {"r", "w", "x", "X", "s", "t"}
                   \/ \E k \in DOMAIN s : C = {k} /\ s[k] \in Classes
    <3> DEFINE C == {k \in DOMAIN s : k > n /\ \A j \in n + 1 .. k : j \notin Signs(s)}
    <3>1. \A k \in C : s[k] \in Body(s, n)
      BY DEF Body
    <3>2. n \in Nat /\ n \in DOMAIN s
      BY <1>1 DEF Signs
    <3>3. CASE Body(s, n) \subseteq Perms
      BY <3>1, <3>3 DEF Perms
    <3>4. CASE C = {}
      BY <3>4
    <3>5. CASE Body(s, n) \subseteq Classes /\ C # {}
      <4>1. \A k \in C : n + 1 \in C /\ k >= n + 1
        BY <1>1, <3>2
      <4>2. ASSUME NEW k \in C, k # n + 1 PROVE FALSE
        <5>1. n + 1 \in C /\ n + 2 \in C /\ n + 2 \in DOMAIN s
          BY <1>1, <3>2, <4>1, <4>2
        <5>2. s[n + 1] \in Classes /\ s[n + 2] \in Classes
          BY <3>1, <3>5, <5>1
        <5>3. QED
          BY <5>1, <5>2 DEF Extra
      <4>3. C = {n + 1} /\ n + 1 \in DOMAIN s /\ s[n + 1] \in Classes
        BY <3>1, <3>5, <4>1, <4>2
      <4>4. QED
        BY <4>3
    <3>6. QED
      BY <2>1, <3>3, <3>4, <3>5
  <2>4. QED
    BY <2>1, <2>2, <2>3, RegexOfSigns
<1>4. QED
  BY <1>2, <1>3

LEMMA MatchingGrammatical ==
    ASSUME NEW s \in Seq(STRING), Regex(s), ~LeftOut(s)
    PROVE  Grammatical(s)
<1>1. DOMAIN s = 1 .. Len(s) /\ Len(s) \in Nat /\ "=" \notin ToSet(s)
  BY DEF LeftOut
<1>2. CASE ToSet(s) \subseteq Digits
  BY <1>2 DEF Grammatical
<1>3. CASE ~(ToSet(s) \subseteq Digits)
  <2>1. /\ Signs(s) # {} /\ WhoChars(s) \subseteq {"u", "g", "o", "a"}
        /\ \A n \in Signs(s) :
              LET C == {k \in DOMAIN s : k > n /\ \A j \in n + 1 .. k : j \notin Signs(s)}
              IN  \/ \A k \in C : s[k] \in {"r", "w", "x", "X", "s", "t"}
                  \/ \E k \in DOMAIN s : C = {k} /\ s[k] \in Classes
    BY <1>1, <1>3, RegexOfSigns
  <2>2. ASSUME NEW n \in Signs(s)
        PROVE  /\ Body(s, n) \subseteq Perms \/ Body(s, n) \subseteq Classes
               /\ Body(s, n) = {} => n = Len(s)
    <3> DEFINE C == {k \in DOMAIN s : k > n /\ \A j \in n + 1 .. k : j \notin Signs(s)}
    <3>1. Body(s, n) = {s[k] : k \in C}
      BY DEF Body
    <3>2. \A k \in C : s[k] \notin {"X", "s", "t"}
      <4>1. \A k \in DOMAIN s : s[k] \in ToSet(s)
        BY DEF ToSet
      <4>2. QED
        BY <4>1 DEF LeftOut
    <3>3. \/ \A k \in C : s[k] \in {"r", "w", "x", "X", "s", "t"}
          \/ \E k \in DOMAIN s : C = {k} /\ s[k] \in Classes
      BY <2>1
    <3>4. n \in Nat /\ n \in 1 .. Len(s)
      BY <1>1 DEF Signs
    <3>5. ASSUME n # Len(s) PROVE C # {}
      <4>0. \A m \in Signs(s) : m + 1 \notin Signs(s)
        BY Zenon DEF LeftOut
      <4>1. n + 1 \in DOMAIN s /\ n + 1 > n /\ \A j \in n + 1 .. n + 1 : j = n + 1
        <5>1. PICK q \in Nat : q = Len(s)
          BY <1>1
        <5>2. n \in 1 .. q /\ n # q /\ DOMAIN s = 1 .. q
          BY <1>1, <3>4, <3>5, <5>1
        <5>3. n + 1 \in 1 .. q
          BY <5>2
        <5>4. n + 1 > n /\ \A j \in n + 1 .. n + 1 : j = n + 1
          BY <3>4
        <5>5. QED
          BY <5>2, <5>3, <5>4
      <4>2. n + 1 \notin Signs(s)
        BY <4>0, Zenon
      <4>3. n + 1 \in C
        <5>1. \A j \in n + 1 .. n + 1 : j \notin Signs(s)
          BY <4>1, <4>2
        <5>2. QED
          BY <4>1, <5>1, Zenon
      <4>4. QED
        BY <4>3
    <3> HIDE DEF C
    <3>6. Body(s, n) \subseteq Perms \/ Body(s, n) \subseteq Classes
      BY <3>1, <3>2, <3>3 DEF Perms
    <3>7. QED
      BY <3>1, <3>5, <3>6
  <2>3. QED
    BY <2>1, <2>2 DEF Grammatical
<1>4. QED
  BY <1>2, <1>3

LEMMA AcceptsAsWritten == Inv => AcceptsGrammar
<1> SUFFICES ASSUME Inv PROVE AcceptsGrammar
  OBVIOUS
<1>1. input \in Seq(STRING) /\ AcceptsExactly
  <2>1. input \in Seq(STRING \ {Nul}) /\ AcceptsExactly
    BY DEF Inv, TypeInv
  <2>2. QED
    BY <2>1
<1>2. QED
  BY <1>1, GrammaticalMatches, MatchingGrammatical DEF AcceptsExactly, AcceptsGrammar

-----------------------------------------------------------------------------
(* What is applied, clause after clause.                                   *)

LEMMA AppliedAsWritten == Inv => LastClauseDecides
<1> SUFFICES ASSUME Inv PROVE LastClauseDecides
  OBVIOUS
<1>1. /\ files \in Seq(File) /\ original \in Seq(File) /\ Len(original) = Len(files)
      /\ AppliedExactly /\ i \in Nat
  BY ChmodAssumption DEF Inv, TypeInv, TypeOK, Files
<1> SUFFICES ASSUME NEW n \in DOMAIN files
             PROVE  /\ n >= i => files[n] = original[n]
                    /\ n < i /\ input # <<>> /\ IsNumber => files[n].mode = Octal(input)
                    /\ n < i /\ ~IsNumber =>
                          \A b \in Bits :
                            LET about == {m \in Signs(input) : Concerns(input, m, b)}
                            IN  /\ about = {} => (b \in files[n].mode <=> b \in original[n].mode)
                                /\ \A m \in about :
                                      (\A k \in about : k <= m) /\ ~Borrows(input, m) =>
                                          (b \in files[n].mode <=> input[m] = "+")
  BY DEF LastClauseDecides
<1>2. n \in Nat /\ original[n] \in File
  <2>1. n \in DOMAIN original /\ n \in Nat
    BY <1>1
  <2>2. QED
    BY <1>1, <2>1
<1>3. n >= i => files[n] = original[n]
  BY <1>1, <1>2 DEF AppliedExactly
<1>4. n < i => files[n].mode = Meaning(input, original[n].mode)
  BY <1>1, <1>2 DEF AppliedExactly, File
<1>5. n < i /\ IsNumber => files[n].mode = Octal(input)
  BY <1>4 DEF Meaning, IsNumber
<1>6. ASSUME n < i, ~IsNumber, NEW b \in Bits
      PROVE  LET about == {m \in Signs(input) : Concerns(input, m, b)}
             IN  /\ about = {} => (b \in files[n].mode <=> b \in original[n].mode)
                 /\ \A m \in about :
                       (\A k \in about : k <= m) /\ ~Borrows(input, m) =>
                           (b \in files[n].mode <=> input[m] = "+")
  <2> DEFINE A == {m \in Signs(input) : About(input, m, b)}
             C == {m \in Signs(input) : Concerns(input, m, b)}
  <2>1. b[1] \in Classes
    BY DEF Bits
  <2>2. A \subseteq C
    BY <2>1 DEF About, Concerns, Borrows
  <2>3. b \in files[n].mode <=>
          IF A = {} THEN b \in original[n].mode
          ELSE \E m \in A : input[m] = "+" /\ \A k \in A : k <= m
    BY <1>4, <1>6 DEF Meaning, IsNumber
  <2>4. \A m \in C : ~Borrows(input, m) => m \in A
    BY DEF About, Concerns
  <2>5. \A j, k \in C : j <= k /\ k <= j => j = k
    <3>1. input \in Seq(STRING \ {Nul})
      BY DEF Inv, TypeInv
    <3>2. C \subseteq Nat
      BY <3>1 DEF Signs
    <3>3. QED
      BY <3>2
  <2> HIDE DEF A, C
  <2>6. C = {} => (b \in files[n].mode <=> b \in original[n].mode)
    BY <2>2, <2>3
  <2>7. ASSUME NEW m \in C, \A k \in C : k <= m, ~Borrows(input, m)
        PROVE  b \in files[n].mode <=> input[m] = "+"
    <3>1. m \in A /\ \A k \in A : k <= m
      BY <2>2, <2>4, <2>7
    <3>2. \A j \in A : (\A k \in A : k <= j) => j = m
      BY <2>2, <2>5, <3>1
    <3>3. QED
      BY <2>3, <3>1, <3>2
  <2>8. QED
    BY <2>6, <2>7 DEF C
<1>7. QED
  BY <1>3, <1>5, <1>6

-----------------------------------------------------------------------------
(* The theorems.                                                           *)

\* parse_mode_str() lets a string of any length through to the files only if
\* it matches the regular expression of mychmod.c:10, and rejects none that
\* does, but for the named forms in which it does less or more.
THEOREM ParserAccepts == Spec => []AcceptsGrammar
  BY Invariance, AcceptsAsWritten, PTL

\* Each file that was reached has in each bit what the last clause about it
\* says, unless that clause borrows; the others are untouched.
THEOREM ModesAsWritten == Spec => []LastClauseDecides
  BY Invariance, AppliedAsWritten, PTL
=============================================================================
