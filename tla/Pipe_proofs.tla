----------------------------- MODULE Pipe_proofs -----------------------------
(***************************************************************************)
(* Proofs about Pipe, for any capacity of the pipe.                        *)
(*                                                                         *)
(* The invariant says who holds which end at which label, and that the     *)
(* string is in the pipe from the parent's write() to the child's read().  *)
(***************************************************************************)
EXTENDS Pipe, TLAPS

PipeSet == [data : {<<>>, <<"string">>}, rd : SUBSET Procs, wr : SUBSET Procs]

ParentWrites == {"fork", "closeUnused", "compose", "write", "claim", "wait", "closeUsed"}
AfterWrite == {"claim", "wait", "closeUsed", "done"}
ChildReads == {"closeUnused", "sleep", "read", "print"}

TypeInv ==
    /\ TypeOK /\ pipe \in PipeSet /\ pc \in [Procs -> ParentLabels \cup ChildLabels]
    /\ pc["child"] \notin {"failed", "sigpipe"} /\ pc["parent"] # "absent"

\* Who holds which end; without a pipe nobody.
Ends ==
    /\ "parent" \in pipe.rd <=> piped /\ pc["parent"] \in {"fork", "closeUnused"}
    /\ "parent" \in pipe.wr <=> piped /\ pc["parent"] \in ParentWrites
    /\ "child" \in pipe.rd <=> piped /\ pc["child"] \in ChildReads
    /\ "child" \in pipe.wr <=> piped /\ pc["child"] = "closeUnused"
    /\ pc["parent"] = "pipe" => ~piped

\* How far the parent is when the child is.
Order ==
    /\ pc["parent"] \in {"pipe", "fork", "failed"} => pc["child"] = "absent"
    /\ pc["child"] = "absent" => pc["parent"] \in {"pipe", "fork", "failed", "killed"}
    /\ pc["parent"] \in {"closeUsed", "done"} => pc["child"] \in {"done", "killed"}
    /\ pc["parent"] = "sigpipe" => pc["child"] = "killed"

\* Where the string is.
Strings ==
    /\ pc["parent"] = "write" => wrbuf = "string"
    /\ piped /\ pc["parent"] \in AfterWrite => wrote
    /\ wrote => piped /\ pc["parent"] \in AfterWrite \cup {"killed"}
    /\ pipe.data # <<>> => wrote
    /\ wrote /\ pc["child"] \in {"closeUnused", "sleep", "read"} => pipe.data # <<>>
    /\ claimed => pc["parent"] \in {"wait", "closeUsed", "done", "killed"} /\ (piped => wrote)
    /\ rdbuf = "string" => wrote
    /\ pc["child"] \in {"print", "done"} /\ piped =>
          rdbuf = "string" \/ (pc["parent"] = "killed" /\ ~wrote)
    /\ pc["child"] = "done" => printed = rdbuf
    /\ pc["child"] # "done" => printed = "nothing"

Inv == TypeInv /\ Ends /\ Order /\ Strings

-----------------------------------------------------------------------------
LEMMA Data == /\ Append(<<>>, "string") = <<"string">> /\ <<>> # <<"string">>
              /\ Head(<<"string">>) = "string" /\ Tail(<<"string">>) = <<>>
  OBVIOUS

LEMMA FreshIn == Fresh \in PipeSet /\ Fresh.data = <<>> /\ Fresh.rd = {} /\ Fresh.wr = {}
  BY DEF Fresh, PipeSet

\* What is left of a pipe when a process closes some of its ends.
LEMMA WithoutFacts ==
    ASSUME NEW x \in PipeSet, NEW p \in Procs, NEW S \in SUBSET {"rd", "wr"}
    PROVE  /\ Without(x, p, S) \in PipeSet
           /\ "rd" \in S => Without(x, p, S).rd = x.rd \ {p}
           /\ "rd" \notin S => Without(x, p, S).rd = x.rd
           /\ "wr" \in S => Without(x, p, S).wr = x.wr \ {p}
           /\ "wr" \notin S => Without(x, p, S).wr = x.wr
           /\ \/ Without(x, p, S).data = x.data
              \/ /\ Without(x, p, S).data = <<>>
                 /\ Without(x, p, S).rd = {} /\ Without(x, p, S).wr = {}
<1> DEFINE q == [x EXCEPT !.rd = IF "rd" \in S THEN @ \ {p} ELSE @,
                          !.wr = IF "wr" \in S THEN @ \ {p} ELSE @]
<1>1. /\ q \in PipeSet /\ q.data = x.data
      /\ q.rd = IF "rd" \in S THEN x.rd \ {p} ELSE x.rd
      /\ q.wr = IF "wr" \in S THEN x.wr \ {p} ELSE x.wr
  BY DEF PipeSet
<1>2. Without(x, p, S) = IF q.rd \cup q.wr = {} THEN Fresh ELSE q
  BY DEF Without, Held
<1> HIDE DEF q
<1>3. CASE q.rd \cup q.wr = {}
  <2>1. Without(x, p, S) = Fresh /\ q.rd = {} /\ q.wr = {}
    BY <1>2, <1>3
  <2>2. QED
    BY <1>1, <2>1, FreshIn
<1>4. CASE q.rd \cup q.wr # {}
  BY <1>1, <1>2, <1>4
<1>5. QED
  BY <1>3, <1>4

LEMMA GotoFacts ==
    ASSUME TypeInv, NEW p \in Procs, NEW l, Goto(p, l)
    PROVE  pc'[p] = l /\ \A q \in Procs : q # p => pc'[q] = pc[q]
  BY DEF TypeInv, Goto

\* The type after a step that only sets the variables to values they may have.
LEMMA Typed ==
    ASSUME TypeInv, NEW p \in Procs, NEW l, Goto(p, l),
           l \in (IF p = "parent" THEN ParentLabels ELSE ChildLabels \ {"failed", "sigpipe"}),
           pipe' \in PipeSet, piped' \in BOOLEAN, wrote' \in BOOLEAN, claimed' \in BOOLEAN,
           wrbuf' \in {"garbage", "string"}, rdbuf' \in {"garbage", "string"},
           printed' \in {"nothing", "garbage", "string"}
    PROVE  TypeInv'
<1>1. "parent" \in Procs /\ "child" \in Procs /\ (p = "parent" \/ p = "child")
  BY DEF Procs
<1>2. pc' = [pc EXCEPT ![p] = l] /\ l \in ParentLabels \cup ChildLabels
  BY <1>1 DEF Goto
<1>3. pc' \in [Procs -> ParentLabels \cup ChildLabels]
  BY <1>2 DEF TypeInv
<1>4. DOMAIN pc' = Procs
  BY <1>3
<1>5. /\ pc'["parent"] \in ParentLabels /\ pc'["child"] \in ChildLabels
      /\ pc'["child"] \notin {"failed", "sigpipe"} /\ pc'["parent"] # "absent"
  BY <1>1, GotoFacts DEF TypeInv, TypeOK, ParentLabels, Ended
<1>6. pipe'.data \in {<<>>, <<"string">>} /\ pipe'.rd \subseteq Procs /\ pipe'.wr \subseteq Procs
  BY DEF PipeSet
<1>7. QED
  BY <1>3, <1>4, <1>5, <1>6 DEF TypeInv, TypeOK

LEMMA InvInit == Init => Inv
<1> SUFFICES ASSUME Init
             PROVE  Inv
  OBVIOUS
<1>1. pc["parent"] = "pipe" /\ pc["child"] = "absent" /\ pc \in [Procs -> {"pipe", "absent"}]
  BY DEF Init, Procs
<1>2. TypeInv
  BY <1>1, FreshIn DEF Init, TypeInv, TypeOK, PipeSet, ParentLabels, ChildLabels
<1>3. QED
  BY <1>1, <1>2, FreshIn DEF Init, Inv, Ends, Order, Strings, ParentWrites, ChildReads, AfterWrite

LEMMA MakePipeStep == ASSUME Inv, MakePipe PROVE Inv'
<1>1. "parent" \in Procs /\ "child" \in Procs
  BY DEF Procs
<1>2. pc["parent"] = "pipe" /\ pc'["parent"] = "fork" /\ pc'["child"] = pc["child"]
      /\ UNCHANGED <<wrbuf, rdbuf, printed, wrote, claimed>> /\ pc["child"] = "absent"
  BY <1>1, GotoFacts DEF MakePipe, Inv, Order
<1>3. pipe \in PipeSet /\ pipe.rd = {} /\ pipe.wr = {} /\ ~piped /\ pipe.data = <<>> /\ ~wrote
  BY <1>2 DEF Inv, TypeInv, Ends, Strings, PipeSet, Procs, AfterWrite, ParentWrites, ChildReads
<1>4. CASE piped' = TRUE /\ pipe' = [pipe EXCEPT !.rd = {"parent"}, !.wr = {"parent"}]
  <2>1. pipe' \in PipeSet /\ pipe'.rd = {"parent"} /\ pipe'.wr = {"parent"} /\ pipe'.data = <<>>
    BY <1>1, <1>3, <1>4 DEF PipeSet
  <2>2. TypeInv'
    BY <1>1, <1>2, <1>4, <2>1, Typed DEF MakePipe, Inv, TypeInv, TypeOK, ParentLabels
  <2>3. QED
    BY <1>2, <1>3, <1>4, <2>1, <2>2 DEF Inv, Ends, Order, Strings, ParentWrites, ChildReads, AfterWrite
<1>5. CASE UNCHANGED <<piped, pipe>>
  <2>1. TypeInv'
    BY <1>1, <1>2, <1>5, Typed DEF MakePipe, Inv, TypeInv, TypeOK, ParentLabels
  <2>2. QED
    BY <1>2, <1>3, <1>5, <2>1 DEF Inv, Ends, Order, Strings, ParentWrites, ChildReads, AfterWrite
<1>6. QED
  BY <1>4, <1>5 DEF MakePipe

\* Ending: every other variable stays, and the process holds nothing.
LEMMA EndFacts ==
    ASSUME Inv, NEW p \in Procs, NEW l, End(p, l)
    PROVE  /\ pc'[p] = l /\ \A q \in Procs : q # p => pc'[q] = pc[q]
           /\ pipe' \in PipeSet /\ pipe'.rd = pipe.rd \ {p} /\ pipe'.wr = pipe.wr \ {p}
           /\ pipe'.data = pipe.data \/ (pipe'.data = <<>> /\ pipe'.rd = {} /\ pipe'.wr = {})
<1>1. pc'[p] = l /\ \A q \in Procs : q # p => pc'[q] = pc[q]
  BY GotoFacts DEF End, Inv
<1>2. pipe' = Without(pipe, p, {"rd", "wr"}) /\ pipe \in PipeSet
  BY DEF End, Inv, TypeInv
<1> DEFINE S == {"rd", "wr"}
<1>3. S \in SUBSET {"rd", "wr"} /\ "rd" \in S /\ "wr" \in S /\ pipe' = Without(pipe, p, S)
  BY <1>2
<1> HIDE DEF S
<1>4. QED
  BY <1>1, <1>2, <1>3, WithoutFacts

LEMMA ForkStep == ASSUME Inv, Fork PROVE Inv'
<1>1. "parent" \in Procs /\ "child" \in Procs
  BY DEF Procs
<1>2. pc["parent"] = "fork" /\ UNCHANGED <<piped, wrbuf, rdbuf, printed, wrote, claimed>>
      /\ pc["child"] = "absent" /\ pipe \in PipeSet
  BY DEF Fork, Inv, Order, TypeInv
<1>3. ~wrote /\ pipe.data = <<>> /\ ~claimed
  BY <1>2 DEF Inv, Strings, AfterWrite
<1>4. CASE /\ pc' = [pc EXCEPT !["parent"] = "closeUnused", !["child"] = "closeUnused"]
           /\ pipe' = IF piped THEN [pipe EXCEPT !.rd = Procs, !.wr = Procs] ELSE pipe
  <2>1. pc'["parent"] = "closeUnused" /\ pc'["child"] = "closeUnused"
        /\ pc' \in [Procs -> ParentLabels \cup ChildLabels] /\ DOMAIN pc' = Procs
    BY <1>1, <1>4 DEF Inv, TypeInv, ParentLabels
  <2>2. /\ pipe' \in PipeSet /\ pipe'.data = <<>>
        /\ piped => pipe'.rd = Procs /\ pipe'.wr = Procs
        /\ ~piped => pipe' = pipe
    BY <1>2, <1>3, <1>4 DEF PipeSet
  <2>3. TypeInv'
    BY <1>2, <2>1, <2>2 DEF Inv, TypeInv, TypeOK, PipeSet, ParentLabels, ChildLabels
  <2>4. QED
    BY <1>1, <1>2, <1>3, <2>1, <2>2, <2>3
    DEF Inv, Ends, Order, Strings, ParentWrites, ChildReads, AfterWrite
<1>5. CASE End("parent", "failed")
  <2>1. TypeInv'
    BY <1>1, <1>2, <1>5, EndFacts, Typed DEF End, Inv, TypeInv, TypeOK, ParentLabels, Ended
  <2>2. QED
    BY <1>1, <1>2, <1>3, <1>5, <2>1, EndFacts
    DEF Inv, Ends, Order, Strings, ParentWrites, ChildReads, AfterWrite
<1>6. QED
  BY <1>4, <1>5 DEF Fork

LEMMA CloseUnusedStep == ASSUME Inv, NEW p \in Procs, CloseUnused(p) PROVE Inv'
<1>1. "parent" \in Procs /\ "child" \in Procs /\ (p = "parent" \/ p = "child")
  BY DEF Procs
<1>2. pc[p] = "closeUnused" /\ UNCHANGED <<piped, wrbuf, rdbuf, printed, wrote, claimed>>
  BY DEF CloseUnused
<1>3. /\ pipe' \in PipeSet
      /\ pipe'.rd = IF p = "child" THEN pipe.rd ELSE pipe.rd \ {p}
      /\ pipe'.wr = IF p = "child" THEN pipe.wr \ {p} ELSE pipe.wr
      /\ pipe'.data = pipe.data \/ (pipe'.data = <<>> /\ pipe'.rd = {} /\ pipe'.wr = {})
  <2> DEFINE S == {Unused(p)}
  <2>1. /\ pipe' = Without(pipe, p, S) /\ pipe \in PipeSet /\ S \in SUBSET {"rd", "wr"}
        /\ p = "child" => "rd" \notin S /\ "wr" \in S
        /\ p # "child" => "rd" \in S /\ "wr" \notin S
    BY <1>1 DEF CloseUnused, Unused, Inv, TypeInv
  <2> HIDE DEF S
  <2>2. CASE p = "child"
    BY <2>1, <2>2, WithoutFacts
  <2>3. CASE p # "child"
    BY <2>1, <2>3, WithoutFacts
  <2>4. QED
    BY <2>2, <2>3
<1>4. Goto(p, IF p = "child" THEN "sleep" ELSE "compose")
  BY DEF CloseUnused
<1>5. pc'[p] = (IF p = "child" THEN "sleep" ELSE "compose") /\ \A q \in Procs : q # p => pc'[q] = pc[q]
  BY <1>4, GotoFacts DEF Inv
<1>6. TypeInv'
  BY <1>1, <1>2, <1>3, <1>4, Typed DEF Inv, TypeInv, TypeOK, ParentLabels, ChildLabels
<1>7. QED
  BY <1>1, <1>2, <1>3, <1>5, <1>6
  DEF Inv, Ends, Order, Strings, ParentWrites, ChildReads, AfterWrite

LEMMA KillStep == ASSUME Inv, NEW p \in Procs, Kill(p) PROVE Inv'
<1>1. "parent" \in Procs /\ "child" \in Procs /\ (p = "parent" \/ p = "child")
  BY DEF Procs
<1>2. /\ pc[p] \notin Ended \cup {"absent"}
      /\ UNCHANGED <<piped, wrbuf, rdbuf, printed, wrote, claimed>>
  BY DEF Kill
<1>3. /\ pc'[p] = "killed" /\ \A q \in Procs : q # p => pc'[q] = pc[q]
      /\ pipe' \in PipeSet /\ pipe'.rd = pipe.rd \ {p} /\ pipe'.wr = pipe.wr \ {p}
      /\ pipe'.data = pipe.data \/ (pipe'.data = <<>> /\ pipe'.rd = {} /\ pipe'.wr = {})
  BY EndFacts DEF Kill
<1>4. TypeInv'
  BY <1>1, <1>2, <1>3, Typed DEF Kill, End, Inv, TypeInv, TypeOK, ParentLabels, ChildLabels, Ended
<1>5. QED
  BY <1>1, <1>2, <1>3, <1>4
  DEF Inv, Ends, Order, Strings, ParentWrites, ChildReads, AfterWrite, Ended, TypeInv, TypeOK

LEMMA WakeStep == ASSUME Inv, Wake PROVE Inv'
<1>1. "parent" \in Procs /\ "child" \in Procs
  BY DEF Procs
<1>2. TypeInv'
  BY <1>1, Typed DEF Wake, Inv, TypeInv, TypeOK, ChildLabels
<1>3. pc'["child"] = "read" /\ pc'["parent"] = pc["parent"]
  BY <1>1, GotoFacts DEF Wake, Inv
<1>4. QED
  BY <1>2, <1>3 DEF Wake, Inv, Ends, Order, Strings, ChildReads

LEMMA ReadStep == ASSUME Inv, Read PROVE Inv'
<1>1. "parent" \in Procs /\ "child" \in Procs
  BY DEF Procs
<1>2. /\ pc["child"] = "read" /\ pc'["child"] = "print" /\ pc'["parent"] = pc["parent"]
      /\ UNCHANGED <<piped, wrbuf, printed, wrote, claimed>> /\ Goto("child", "print")
  BY <1>1, GotoFacts DEF Read, Inv
<1>3. pipe \in PipeSet /\ ("child" \in pipe.rd <=> piped)
  BY <1>2 DEF Inv, TypeInv, Ends, ChildReads
<1>4. CASE ~piped
  <2>1. UNCHANGED <<rdbuf, pipe>>
    BY <1>3, <1>4 DEF Read
  <2>2. TypeInv'
    BY <1>1, <1>2, <2>1, Typed DEF Inv, TypeInv, TypeOK, ChildLabels
  <2>3. QED
    BY <1>2, <1>4, <2>1, <2>2 DEF Inv, Ends, Order, Strings, ChildReads
<1>5. CASE piped /\ pipe.data = <<>>
  <2>1. UNCHANGED <<rdbuf, pipe>> /\ pipe.wr = {}
    BY <1>3, <1>5 DEF Read, Received, Rest, Readable
  <2>2. TypeInv'
    BY <1>1, <1>2, <2>1, Typed DEF Inv, TypeInv, TypeOK, ChildLabels
  <2>3. ~wrote /\ pc["parent"] = "killed"
    BY <1>2, <1>5, <2>1
    DEF Inv, Strings, Ends, Order, TypeInv, TypeOK, ParentLabels, Ended, ParentWrites, AfterWrite
  <2>4. QED
    BY <1>2, <1>5, <2>1, <2>2, <2>3 DEF Inv, Ends, Order, Strings, ChildReads
<1>6. CASE piped /\ pipe.data # <<>>
  <2>1. pipe.data = <<"string">> /\ wrote
    BY <1>3, <1>6 DEF PipeSet, Inv, Strings
  <2>2. rdbuf' = "string" /\ pipe' = [pipe EXCEPT !.data = Tail(pipe.data)]
    BY <1>3, <1>6, <2>1, Data DEF Read, Received, Rest
  <2>3. pipe' \in PipeSet /\ pipe'.data = <<>> /\ pipe'.rd = pipe.rd /\ pipe'.wr = pipe.wr
    BY <1>3, <2>1, <2>2, Data DEF PipeSet
  <2>4. TypeInv'
    BY <1>1, <1>2, <2>2, <2>3, Typed DEF Inv, TypeInv, TypeOK, ChildLabels
  <2>5. QED
    BY <1>2, <1>6, <2>1, <2>2, <2>3, <2>4 DEF Inv, Ends, Order, Strings, ChildReads
<1>7. QED
  BY <1>4, <1>5, <1>6

LEMMA PrintStep == ASSUME Inv, PrintString PROVE Inv'
<1>1. "parent" \in Procs /\ "child" \in Procs
  BY DEF Procs
<1>2. /\ pc["child"] = "print" /\ printed' = rdbuf
      /\ UNCHANGED <<piped, wrbuf, rdbuf, wrote, claimed>>
  BY DEF PrintString
<1>3. /\ pc'["child"] = "done" /\ pc'["parent"] = pc["parent"]
      /\ pipe' \in PipeSet /\ pipe'.rd = pipe.rd \ {"child"} /\ pipe'.wr = pipe.wr \ {"child"}
      /\ pipe'.data = pipe.data \/ (pipe'.data = <<>> /\ pipe'.rd = {} /\ pipe'.wr = {})
  BY <1>1, EndFacts DEF PrintString
<1>4. TypeInv'
  BY <1>1, <1>2, <1>3, Typed DEF PrintString, End, Inv, TypeInv, TypeOK, ChildLabels, Ended
<1>5. QED
  BY <1>2, <1>3, <1>4 DEF Inv, Ends, Order, Strings, ChildReads

LEMMA ComposeStep == ASSUME Inv, Compose PROVE Inv'
<1>1. "parent" \in Procs /\ "child" \in Procs
  BY DEF Procs
<1>2. TypeInv'
  BY <1>1, Typed DEF Compose, Inv, TypeInv, TypeOK, ParentLabels
<1>3. pc'["parent"] = "write" /\ pc'["child"] = pc["child"]
  BY <1>1, GotoFacts DEF Compose, Inv
<1>4. QED
  BY <1>2, <1>3 DEF Compose, Inv, Ends, Order, Strings, ParentWrites, AfterWrite

LEMMA WriteStep == ASSUME Inv, Write PROVE Inv'
<1>1. "parent" \in Procs /\ "child" \in Procs
  BY DEF Procs
<1>2. /\ pc["parent"] = "write" /\ wrbuf = "string" /\ ~wrote /\ pipe.data = <<>>
      /\ pipe \in PipeSet /\ ("parent" \in pipe.wr <=> piped)
      /\ UNCHANGED <<piped, wrbuf, rdbuf, printed, claimed>>
  BY DEF Write, Inv, Strings, TypeInv, Ends, ParentWrites, AfterWrite
<1>3. CASE ~piped
  <2>1. Goto("parent", "claim") /\ UNCHANGED <<pipe, wrote>>
    BY <1>2, <1>3 DEF Write
  <2>2. TypeInv'
    BY <1>1, <1>2, <2>1, Typed DEF Inv, TypeInv, TypeOK, ParentLabels
  <2>3. pc'["parent"] = "claim" /\ pc'["child"] = pc["child"]
    BY <1>1, <2>1, GotoFacts DEF Inv
  <2>4. QED
    BY <1>2, <1>3, <2>1, <2>2, <2>3 DEF Inv, Ends, Order, Strings, ParentWrites, AfterWrite
<1>4. CASE piped /\ Broken(pipe)
  <2>1. End("parent", "sigpipe") /\ UNCHANGED wrote
    BY <1>2, <1>4 DEF Write
  <2>2. /\ pc'["parent"] = "sigpipe" /\ pc'["child"] = pc["child"]
        /\ pipe' \in PipeSet /\ pipe'.rd = pipe.rd \ {"parent"} /\ pipe'.wr = pipe.wr \ {"parent"}
        /\ pipe'.data = <<>>
    BY <1>1, <1>2, <2>1, EndFacts
  <2>3. TypeInv'
    BY <1>1, <1>2, <2>1, <2>2, Typed DEF End, Inv, TypeInv, TypeOK, ParentLabels, Ended
  <2>4. pc["child"] = "killed"
    <3>1. pc["child"] \notin ChildReads /\ pc["child"] # "absent"
      BY <1>2, <1>4 DEF Broken, Inv, Ends, Order
    <3>2. pc["child"] # "done"
      BY <1>2, <1>4 DEF Inv, Strings
    <3>3. QED
      BY <3>1, <3>2 DEF Inv, TypeInv, TypeOK, ChildLabels, ChildReads, Ended
  <2>5. QED
    BY <1>2, <1>4, <2>1, <2>2, <2>3, <2>4
    DEF Inv, Ends, Order, Strings, ParentWrites, AfterWrite, ChildReads
<1>5. CASE piped /\ ~Broken(pipe)
  <2>1. Goto("parent", "claim") /\ wrote' = TRUE /\ pipe' = [pipe EXCEPT !.data = Append(@, wrbuf)]
    BY <1>2, <1>5 DEF Write
  <2>2. pipe' = [pipe EXCEPT !.data = <<"string">>]
    BY <1>2, <2>1, Data
  <2>3. pipe' \in PipeSet /\ pipe'.data = <<"string">> /\ pipe'.rd = pipe.rd /\ pipe'.wr = pipe.wr
    BY <1>2, <2>2 DEF PipeSet
  <2>4. TypeInv'
    BY <1>1, <1>2, <2>1, <2>3, Typed DEF Inv, TypeInv, TypeOK, ParentLabels
  <2>5. pc'["parent"] = "claim" /\ pc'["child"] = pc["child"]
    BY <1>1, <2>1, GotoFacts DEF Inv
  <2>6. QED
    BY <1>2, <1>5, <2>1, <2>3, <2>4, <2>5, Data DEF Inv, Ends, Order, Strings, ParentWrites, AfterWrite
<1>6. QED
  BY <1>3, <1>4, <1>5

LEMMA ClaimStep == ASSUME Inv, Claim PROVE Inv'
<1>1. "parent" \in Procs /\ "child" \in Procs
  BY DEF Procs
<1>2. TypeInv'
  BY <1>1, Typed DEF Claim, Inv, TypeInv, TypeOK, ParentLabels
<1>3. pc'["parent"] = "wait" /\ pc'["child"] = pc["child"]
  BY <1>1, GotoFacts DEF Claim, Inv
<1>4. QED
  BY <1>2, <1>3 DEF Claim, Inv, Ends, Order, Strings, ParentWrites, AfterWrite

LEMMA WaitStep == ASSUME Inv, Wait PROVE Inv'
<1>1. "parent" \in Procs /\ "child" \in Procs
  BY DEF Procs
<1>2. TypeInv'
  BY <1>1, Typed DEF Wait, Inv, TypeInv, TypeOK, ParentLabels
<1>3. pc'["parent"] = "closeUsed" /\ pc'["child"] = pc["child"] /\ pc["child"] \in {"done", "killed"}
  BY <1>1, GotoFacts DEF Wait, Inv, TypeInv, Ended
<1>4. QED
  BY <1>2, <1>3 DEF Wait, Inv, Ends, Order, Strings, ParentWrites, AfterWrite

LEMMA CloseUsedStep == ASSUME Inv, CloseUsed PROVE Inv'
<1>1. "parent" \in Procs /\ "child" \in Procs
  BY DEF Procs
<1>2. /\ pc["parent"] = "closeUsed" /\ UNCHANGED <<piped, wrbuf, rdbuf, printed, wrote, claimed>>
      /\ pc["child"] \in {"done", "killed"}
  BY DEF CloseUsed, Inv, Order
<1>3. /\ pc'["parent"] = "done" /\ pc'["child"] = pc["child"]
      /\ pipe' \in PipeSet /\ pipe'.rd = pipe.rd \ {"parent"} /\ pipe'.wr = pipe.wr \ {"parent"}
      /\ pipe'.data = pipe.data \/ (pipe'.data = <<>> /\ pipe'.rd = {} /\ pipe'.wr = {})
  BY <1>1, EndFacts DEF CloseUsed
<1>4. TypeInv'
  BY <1>1, <1>2, <1>3, Typed DEF CloseUsed, End, Inv, TypeInv, TypeOK, ParentLabels, Ended
<1>5. QED
  BY <1>2, <1>3, <1>4 DEF Inv, Ends, Order, Strings, ParentWrites, AfterWrite

LEMMA InvNext == ASSUME Inv, [Next]_vars PROVE Inv'
<1>1. CASE UNCHANGED vars
  BY <1>1 DEF vars, Inv, TypeInv, TypeOK, Ends, Order, Strings
<1>2. CASE ParentStep \/ ChildStep
  BY <1>2, MakePipeStep, ForkStep, CloseUnusedStep, ComposeStep, WriteStep, ClaimStep, WaitStep,
     CloseUsedStep, WakeStep, ReadStep, PrintStep DEF ParentStep, ChildStep, Procs
<1>3. QED
  BY <1>1, <1>2, KillStep DEF Next

LEMMA InvInvariant == Spec => []Inv
  BY InvInit, InvNext, PTL DEF Spec

-----------------------------------------------------------------------------
\* Every variable always has its type; in particular there is never more
\* than the one record in the pipe (pipe.c:49).
THEOREM TypeCorrect == Spec => []TypeOK
<1>1. Inv => TypeOK
  BY DEF Inv, TypeInv
<1>2. QED
  BY <1>1, InvInvariant, PTL

\* Neither side takes the pipe from the other, however large the pipe is:
\* garbage and SIGPIPE (pipe.c:30, 49) come from kills or a failed pipe().
THEOREM KillsOnly == Spec => []OnlyKillsBreakThePipe
<1>1. Inv => OnlyKillsBreakThePipe
  <2> SUFFICES ASSUME Inv
               PROVE  OnlyKillsBreakThePipe
    OBVIOUS
  <2>1. printed = "garbage" => pc["child"] = "done" /\ rdbuf = "garbage"
    BY DEF Inv, Strings
  <2>2. pc["parent"] = "sigpipe" => pc["child"] = "killed" /\ printed = "nothing"
    BY DEF Inv, Order, Strings
  <2>3. QED
    BY <2>1, <2>2 DEF Inv, Strings, OnlyKillsBreakThePipe
<1>2. QED
  BY <1>1, InvInvariant, PTL

\* What the parent prints is true (pipe.c:51, 54).
THEOREM ParentTellsTruth == Spec => []MessagesTrue
<1>1. Inv => MessagesTrue
  <2> SUFFICES ASSUME Inv, piped
               PROVE  /\ claimed => wrote
                      /\ pc["parent"] \in {"closeUsed", "done"} =>
                             printed = "string" \/ pc["child"] = "killed"
    BY DEF MessagesTrue
  <2>1. claimed => wrote
    BY DEF Inv, Strings
  <2>2. pc["parent"] \in {"closeUsed", "done"} /\ pc["child"] = "done" => printed = "string"
    BY DEF Inv, Strings
  <2>3. QED
    BY <2>1, <2>2 DEF Inv, Order
<1>2. QED
  BY <1>1, InvInvariant, PTL
=============================================================================
