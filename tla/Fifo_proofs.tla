----------------------------- MODULE Fifo_proofs -----------------------------
(***************************************************************************)
(* Proofs about Fifo, for any numbers of readers and writers, any number   *)
(* of kills and any capacity.                                              *)
(*                                                                         *)
(* Base: the types, and that the ends of a fifo are held by exactly the    *)
(* processes between open() and close().  On it stand three invariants:    *)
(* Rendezvous and OneFifo (who waits for whom), Strings (a string is in    *)
(* one place at most; the refinement follows) and Causes (what explains a  *)
(* read() that finds nothing).                                             *)
(***************************************************************************)
EXTENDS Fifo, TLAPS, SequenceTheorems

(***************************************************************************)
(* Strings in a queue.                                                     *)
(***************************************************************************)
In(w, s) == \E k \in 1 .. Len(s) : s[k] = w
Once(s) == \A j, k \in 1 .. Len(s) : s[j] = s[k] => j = k

LEMMA InEmpty == \A w : ~In(w, <<>>)
  BY DEF In

LEMMA OnceEmpty == Once(<<>>)
  BY DEF Once

\* Append adds one string behind the others.
LEMMA InAppend ==
    ASSUME NEW S, NEW s \in Seq(S), NEW e \in S
    PROVE  /\ Append(s, e) \in Seq(S) /\ Len(Append(s, e)) = Len(s) + 1
           /\ \A w : In(w, Append(s, e)) <=> In(w, s) \/ w = e
           /\ Once(s) /\ ~In(e, s) => Once(Append(s, e))
<1>1. /\ Append(s, e) \in Seq(S) /\ Len(Append(s, e)) = Len(s) + 1 /\ Len(s) \in Nat
      /\ \A k \in 1 .. Len(s) : Append(s, e)[k] = s[k]
      /\ Append(s, e)[Len(s) + 1] = e
  BY AppendProperties, LenProperties
<1>2. \A k \in 1 .. Len(Append(s, e)) : k \in 1 .. Len(s) \/ k = Len(s) + 1
  BY <1>1
<1>3. ASSUME NEW w, In(w, Append(s, e)), ~In(w, s)
      PROVE  w = e
  BY <1>1, <1>2, <1>3 DEF In
<1>4. ASSUME NEW w, In(w, s)
      PROVE  In(w, Append(s, e))
  BY <1>1, <1>4 DEF In
<1>5. In(e, Append(s, e))
  BY <1>1 DEF In
<1>6. ASSUME Once(s), ~In(e, s)
      PROVE  Once(Append(s, e))
  BY <1>1, <1>2, <1>6 DEF In, Once
<1>7. QED
  BY <1>1, <1>3, <1>4, <1>5, <1>6

\* Tail takes the oldest string away, and only that.
LEMMA InTail ==
    ASSUME NEW S, NEW s \in Seq(S), s # <<>>
    PROVE  /\ Tail(s) \in Seq(S) /\ Len(Tail(s)) = Len(s) - 1
           /\ Head(s) \in S /\ In(Head(s), s)
           /\ \A w : In(w, Tail(s)) => In(w, s)
           /\ \A w : In(w, s) /\ w # Head(s) => In(w, Tail(s))
           /\ Once(s) => Once(Tail(s)) /\ ~In(Head(s), Tail(s))
<1>1. /\ Tail(s) \in Seq(S) /\ Len(Tail(s)) = Len(s) - 1 /\ Len(s) \in Nat /\ Len(s) > 0
      /\ \A k \in 1 .. Len(Tail(s)) : Tail(s)[k] = s[k + 1]
      /\ Head(s) = s[1] /\ Head(s) \in S
  BY HeadTailProperties, LenProperties, EmptySeq
<1>2. In(Head(s), s)
  BY <1>1 DEF In
<1>3. ASSUME NEW w, In(w, Tail(s))
      PROVE  In(w, s)
  BY <1>1, <1>3 DEF In
<1>4. ASSUME NEW w, In(w, s), w # Head(s)
      PROVE  In(w, Tail(s))
  <2>1. PICK k \in 1 .. Len(s) : s[k] = w
    BY <1>4 DEF In
  <2>2. k # 1 /\ k - 1 \in 1 .. Len(Tail(s)) /\ Tail(s)[k - 1] = s[k]
    BY <1>1, <1>4, <2>1
  <2>3. QED
    BY <2>1, <2>2 DEF In
<1>5. ASSUME Once(s)
      PROVE  Once(Tail(s)) /\ ~In(Head(s), Tail(s))
  BY <1>1, <1>5 DEF In, Once
<1>6. QED
  BY <1>1, <1>2, <1>3, <1>4, <1>5

-----------------------------------------------------------------------------
(***************************************************************************)
(* The type of the state, and who holds which end.                         *)
(***************************************************************************)
PipeSet == [data : Seq(Writers), rd : SUBSET Readers, wr : SUBSET Writers]

Holding == {"blocked", "read", "write", "close"}
ReaderLabels == {"mkfifo", "open", "blocked", "read", "close", "remove", "done", "killed"}
WriterLabels == {"mkfifo", "open", "blocked", "write", "close", "done", "killed"}

TypeInv ==
    /\ name \in Procs \cup {None}
    /\ fifo \in [Procs -> PipeSet]
    /\ \A p \in Procs : Len(fifo[p].data) <= Capacity
    /\ pc \in [Procs -> Labels]
    /\ \A r \in Readers : pc[r] \in ReaderLabels
    /\ \A w \in Writers : pc[w] \in WriterLabels
    /\ fd \in [Procs -> Procs \cup {None}]
    /\ \A p \in Procs : pc[p] \in {"mkfifo", "open"} => fd[p] = None
    /\ got \in [Readers -> Writers \cup {None}]
    /\ sent \subseteq Writers
    /\ kills \in 0 .. MaxKills

\* An end of a fifo is held by the processes between open() and close().
Ends ==
    \A f \in Procs :
        /\ \A r \in Readers : r \in fifo[f].rd <=> fd[r] = f /\ pc[r] \in Holding
        /\ \A w \in Writers : w \in fifo[f].wr <=> fd[w] = f /\ pc[w] \in Holding

Base == TypeInv /\ Ends

LEMMA Kinds ==
    /\ None \notin Procs
    /\ \A r \in Readers : r \in Procs /\ r \notin Writers
    /\ \A w \in Writers : w \in Procs /\ w \notin Readers
    /\ \A p \in Procs : p \in Readers \/ p \in Writers
  BY FifoAssumption DEF Procs

LEMMA FreshIn == Fresh \in PipeSet /\ Fresh.data = <<>> /\ Fresh.rd = {} /\ Fresh.wr = {}
                 /\ Len(Fresh.data) = 0
  BY EmptySeq DEF Fresh, PipeSet

\* Closing takes a process out of the fifo it has open; the strings stay
\* as long as somebody holds it.
LEMMA Releasing ==
    ASSUME Base, NEW p \in Procs, Release(p), pc[p] \in Holding \/ fd[p] = None
    PROVE  /\ fifo' \in [Procs -> PipeSet]
           /\ \A f \in Procs : /\ fifo'[f].rd = fifo[f].rd \ {p}
                               /\ fifo'[f].wr = fifo[f].wr \ {p}
                               /\ \/ fifo'[f].data = fifo[f].data
                                  \/ /\ fifo'[f].data = <<>>
                                     /\ fifo'[f].rd = {} /\ fifo'[f].wr = {}
<1>1. \A f \in Procs : fd[p] # f => p \notin fifo[f].rd /\ p \notin fifo[f].wr
  BY Kinds DEF Base, TypeInv, Ends, PipeSet
<1>2. CASE fd[p] = None
  BY <1>1, <1>2, Kinds DEF Release, Base, TypeInv, PipeSet
<1>3. CASE fd[p] # None
  <2> DEFINE f0 == fd[p]
             q == [fifo[f0] EXCEPT !.rd = @ \ {p}, !.wr = @ \ {p}]
  <2>1. f0 \in Procs /\ fifo[f0] \in PipeSet
    BY <1>3 DEF Base, TypeInv
  <2>2. Without(fifo[f0], p, {"rd", "wr"}) = IF q.rd \cup q.wr = {} THEN Fresh ELSE q
    BY <2>1 DEF Without, Held, PipeSet
  <2>3. q \in PipeSet /\ q.data = fifo[f0].data /\ q.rd = fifo[f0].rd \ {p} /\ q.wr = fifo[f0].wr \ {p}
    BY <2>1 DEF PipeSet
  <2>4. fifo' = [fifo EXCEPT ![f0] = Without(fifo[f0], p, {"rd", "wr"})]
    BY <1>3 DEF Release
  <2> DEFINE x == Without(fifo[f0], p, {"rd", "wr"})
  <2>5. /\ x \in PipeSet /\ x.rd = fifo[f0].rd \ {p} /\ x.wr = fifo[f0].wr \ {p}
        /\ x.data = fifo[f0].data \/ (x.data = <<>> /\ x.rd = {} /\ x.wr = {})
    <3> HIDE DEF q
    <3>1. CASE q.rd \cup q.wr = {}
      <4>1. x = Fresh /\ q.rd = {} /\ q.wr = {}
        BY <2>2, <3>1
      <4>2. QED
        BY <4>1, <2>3, FreshIn
    <3>2. CASE q.rd \cup q.wr # {}
      BY <2>2, <2>3, <3>2
    <3>3. QED
      BY <3>1, <3>2
  <2>6. fifo' = [fifo EXCEPT ![f0] = x]
    BY <2>4
  <2>7. fifo \in [Procs -> PipeSet]
    BY DEF Base, TypeInv
  <2> HIDE DEF x, f0
  <2>8. fifo' \in [Procs -> PipeSet]
    BY <2>1, <2>5, <2>6, <2>7
  <2>9. fifo'[f0] = x /\ \A f \in Procs : f # f0 => fifo'[f] = fifo[f]
    BY <2>1, <2>6, <2>7
  <2>10. \A f \in Procs : f # f0 => fifo[f].rd = fifo[f].rd \ {p} /\ fifo[f].wr = fifo[f].wr \ {p}
    BY <1>1 DEF f0
  <2>11. QED
    BY <2>5, <2>8, <2>9, <2>10
<1>4. QED
  BY <1>2, <1>3

LEMMA GotoFacts ==
    ASSUME TypeInv, NEW p \in Procs, NEW l \in Labels, Goto(p, l)
    PROVE  /\ pc' \in [Procs -> Labels] /\ pc'[p] = l
           /\ \A q \in Procs : q # p => pc'[q] = pc[q]
  BY DEF TypeInv, Goto

LEMMA BaseInit == Init => Base
<1> SUFFICES ASSUME Init
             PROVE  Base
  OBVIOUS
<1>1. TypeInv
  BY Kinds, FreshIn, CapacityAssumption, FifoAssumption
  DEF Init, TypeInv, Labels, ReaderLabels, WriterLabels
<1>2. Ends
  BY Kinds, FreshIn DEF Init, Ends, Holding
<1>3. QED
  BY <1>1, <1>2 DEF Base

LEMMA BaseMkfifo ==
    ASSUME Base, NEW p \in Procs, Mkfifo(p)
    PROVE  Base'
<1>1. pc' \in [Procs -> Labels] /\ pc'[p] = "open" /\ \A q \in Procs : q # p => pc'[q] = pc[q]
  BY GotoFacts DEF Mkfifo, Base, Labels
<1>2. TypeInv'
  BY <1>1, Kinds DEF Mkfifo, Base, TypeInv, ReaderLabels, WriterLabels
<1>3. Ends'
  BY <1>1, Kinds DEF Mkfifo, Base, Ends, Holding
<1>4. QED
  BY <1>2, <1>3 DEF Base

\* What open() does: the process holds its end, and those that waited for
\* it go on.
Woken(p) == { q \in Procs : name # None /\ q \in Partners(name, p) /\ pc[q] = "blocked" }

LEMMA Opening ==
    ASSUME Base, NEW p \in Procs, Open(p)
    PROVE  /\ fifo' \in [Procs -> PipeSet] /\ pc' \in [Procs -> Labels]
           /\ \A f \in Procs :
                 /\ fifo'[f].data = fifo[f].data
                 /\ fifo'[f].rd = fifo[f].rd \cup (IF f = name /\ p \in Readers THEN {p} ELSE {})
                 /\ fifo'[f].wr = fifo[f].wr \cup (IF f = name /\ p \in Writers THEN {p} ELSE {})
           /\ fd'[p] = name /\ fd' \in [Procs -> Procs \cup {None}]
           /\ \A q \in Procs : q # p => fd'[q] = fd[q]
           /\ pc'[p] = IF name # None /\ Partners(name, p) = {} THEN "blocked" ELSE AfterOpen(p)
           /\ \A q \in Procs : q # p =>
                 pc'[q] = IF q \in Woken(p) THEN AfterOpen(q) ELSE pc[q]
<1>1. \A q \in Procs : AfterOpen(q) \in Labels /\ "blocked" \in Labels
  BY DEF AfterOpen, Labels
<1>2. fd' \in [Procs -> Procs \cup {None}] /\ fd'[p] = name
      /\ \A q \in Procs : q # p => fd'[q] = fd[q]
  BY DEF Open, Base, TypeInv
<1>3. fifo \in [Procs -> PipeSet] /\ pc \in [Procs -> Labels] /\ name \in Procs \cup {None}
  BY DEF Base, TypeInv
<1>4. CASE name = None
  <2>1. fifo' = fifo /\ Goto(p, AfterOpen(p)) /\ Woken(p) = {}
    BY <1>4 DEF Open, Woken
  <2>2. pc' \in [Procs -> Labels] /\ pc'[p] = AfterOpen(p)
        /\ \A q \in Procs : q # p => pc'[q] = pc[q]
    BY <2>1, <1>1, GotoFacts DEF Base
  <2>3. \A f \in Procs : f # name
    BY <1>4, Kinds
  <2>4. QED
    BY <1>2, <1>3, <1>4, <2>1, <2>2, <2>3
<1>5. CASE name # None
  <2>1. name \in Procs /\ fifo[name] \in PipeSet
    BY <1>3, <1>5
  <2>2. fifo' = [fifo EXCEPT ![name] = Opened(name, p)]
    BY <1>5 DEF Open
  <2>3. /\ Opened(name, p) \in PipeSet
        /\ Opened(name, p).data = fifo[name].data
        /\ Opened(name, p).rd = fifo[name].rd \cup (IF p \in Readers THEN {p} ELSE {})
        /\ Opened(name, p).wr = fifo[name].wr \cup (IF p \in Writers THEN {p} ELSE {})
    <3>1. CASE p \in Readers
      BY <2>1, <3>1, Kinds DEF Opened, PipeSet
    <3>2. CASE p \in Writers
      BY <2>1, <3>2, Kinds DEF Opened, PipeSet
    <3>3. QED
      BY <3>1, <3>2, Kinds
  <2>4. fifo' \in [Procs -> PipeSet] /\ fifo'[name] = Opened(name, p)
        /\ \A f \in Procs : f # name => fifo'[f] = fifo[f]
    BY <1>3, <2>1, <2>2, <2>3
  <2>5. pc' = [q \in Procs |->
                IF q = p THEN IF Partners(name, p) = {} THEN "blocked" ELSE AfterOpen(p)
                ELSE IF q \in Partners(name, p) /\ pc[q] = "blocked" THEN AfterOpen(q)
                ELSE pc[q]]
    BY <1>5 DEF Open
  <2>6. \A q \in Procs : q \in Woken(p) <=> q \in Partners(name, p) /\ pc[q] = "blocked"
    BY <1>5 DEF Woken
  <2>7. pc' \in [Procs -> Labels]
    BY <1>1, <1>3, <2>5
  <2>8. QED
    BY <1>2, <1>5, <2>1, <2>3, <2>4, <2>5, <2>6, <2>7
<1>6. QED
  BY <1>4, <1>5

LEMMA BaseOpen ==
    ASSUME Base, NEW p \in Procs, Open(p)
    PROVE  Base'
<1>1. pc[p] = "open" /\ fd[p] = None /\ UNCHANGED <<name, got, sent, kills>>
  BY DEF Open, Base, TypeInv
<1>2. \A q \in Procs : q # p => \/ pc'[q] = pc[q]
                                \/ pc[q] = "blocked" /\ pc'[q] = AfterOpen(q)
  BY Opening DEF Woken
<1>3. pc'[p] \in {"blocked", AfterOpen(p)}
  BY Opening
<1>4. \A r \in Readers : AfterOpen(r) = "read"
  BY DEF AfterOpen
<1>5. \A w \in Writers : AfterOpen(w) = "write"
  BY Kinds DEF AfterOpen
<1>6. \A q \in Procs : q # p => (pc'[q] \in Holding <=> pc[q] \in Holding)
  BY <1>2, <1>4, <1>5, Kinds DEF Holding
<1>7. pc'[p] \in Holding
  BY <1>3, <1>4, <1>5, Kinds DEF Holding
<1>8. TypeInv'
  <2>1. \A r \in Readers : pc'[r] \in ReaderLabels
    BY <1>2, <1>3, <1>4, Kinds DEF Base, TypeInv, ReaderLabels
  <2>2. \A w \in Writers : pc'[w] \in WriterLabels
    BY <1>2, <1>3, <1>5, Kinds DEF Base, TypeInv, WriterLabels
  <2>3. \A q \in Procs : pc'[q] \in {"mkfifo", "open"} => fd'[q] = None
    BY <1>2, <1>6, <1>7, Opening DEF Base, TypeInv, Holding
  <2>4. \A q \in Procs : Len(fifo'[q].data) <= Capacity
    BY Opening DEF Base, TypeInv
  <2>5. QED
    BY <1>1, <2>1, <2>2, <2>3, <2>4, Opening DEF Base, TypeInv
<1>9. Ends'
  <2> SUFFICES ASSUME NEW f \in Procs
               PROVE  /\ \A r \in Readers : r \in fifo'[f].rd <=> fd'[r] = f /\ pc'[r] \in Holding
                      /\ \A w \in Writers : w \in fifo'[f].wr <=> fd'[w] = f /\ pc'[w] \in Holding
    BY DEF Ends
  <2>1. \A r \in Readers : r \in fifo'[f].rd <=> fd'[r] = f /\ pc'[r] \in Holding
    <3> TAKE r \in Readers
    <3>1. CASE r = p
      <4>1. r \notin fifo[f].rd
        BY <1>1, <3>1, Kinds DEF Base, Ends, Holding
      <4>2. QED
        BY <1>7, <3>1, <4>1, Opening, Kinds
    <3>2. CASE r # p
      <4>1. r \in fifo'[f].rd <=> r \in fifo[f].rd
        BY <3>2, Opening
      <4>2. fd'[r] = fd[r] /\ (pc'[r] \in Holding <=> pc[r] \in Holding)
        BY <1>6, <3>2, Opening, Kinds
      <4>3. QED
        BY <4>1, <4>2 DEF Base, Ends
    <3>3. QED
      BY <3>1, <3>2
  <2>2. \A w \in Writers : w \in fifo'[f].wr <=> fd'[w] = f /\ pc'[w] \in Holding
    <3> TAKE w \in Writers
    <3>1. CASE w = p
      <4>1. w \notin fifo[f].wr
        BY <1>1, <3>1, Kinds DEF Base, Ends, Holding
      <4>2. QED
        BY <1>7, <3>1, <4>1, Opening, Kinds
    <3>2. CASE w # p
      <4>1. w \in fifo'[f].wr <=> w \in fifo[f].wr
        BY <3>2, Opening
      <4>2. fd'[w] = fd[w] /\ (pc'[w] \in Holding <=> pc[w] \in Holding)
        BY <1>6, <3>2, Opening, Kinds
      <4>3. QED
        BY <4>1, <4>2 DEF Base, Ends
    <3>3. QED
      BY <3>1, <3>2
  <2>3. QED
    BY <2>1, <2>2
<1>10. QED
  BY <1>8, <1>9 DEF Base

\* A process that closes or is ended holds nothing afterwards.
LEMMA BaseEnding ==
    ASSUME Base, NEW p \in Procs, Release(p), pc[p] \in Holding \/ fd[p] = None,
           NEW l \in {"remove", "done", "killed"}, Goto(p, l),
           p \in Writers => l # "remove",
           UNCHANGED <<name, fd, got>>, sent' \subseteq Writers, kills' \in 0 .. MaxKills
    PROVE  Base'
<1>1. pc' \in [Procs -> Labels] /\ pc'[p] = l /\ \A q \in Procs : q # p => pc'[q] = pc[q]
  BY GotoFacts DEF Base, Labels, Ended
<1>2. /\ fifo' \in [Procs -> PipeSet]
      /\ \A f \in Procs : /\ fifo'[f].rd = fifo[f].rd \ {p} /\ fifo'[f].wr = fifo[f].wr \ {p}
                          /\ fifo'[f].data = fifo[f].data \/ fifo'[f].data = <<>>
  BY Releasing
<1>3. \A f \in Procs : Len(fifo'[f].data) <= Capacity
  <2>1. Len(<<>>) = 0 /\ 0 <= Capacity
    BY CapacityAssumption
  <2>2. QED
    BY <1>2, <2>1 DEF Base, TypeInv
<1>4. TypeInv'
  BY <1>1, <1>2, <1>3, Kinds DEF Base, TypeInv, ReaderLabels, WriterLabels
<1>5. Ends'
  BY <1>1, <1>2, Kinds DEF Base, Ends, Holding
<1>6. QED
  BY <1>4, <1>5 DEF Base

LEMMA BaseClose ==
    ASSUME Base, NEW p \in Procs, Close(p)
    PROVE  Base'
  BY BaseEnding, Kinds DEF Close, Holding, Base, TypeInv

LEMMA BaseKill ==
    ASSUME Base, NEW p \in Procs, Kill(p)
    PROVE  Base'
<1>1. kills' \in 0 .. MaxKills /\ sent' \subseteq Writers /\ UNCHANGED <<name, fd, got, sent>>
  BY FifoAssumption DEF Kill, Base, TypeInv
<1>2. CASE pc[p] \in {"mkfifo", "open", "remove"}
  <2>1. fifo' = fifo /\ Goto(p, "killed")
    BY <1>2 DEF Kill
  <2>2. pc' \in [Procs -> Labels] /\ pc'[p] = "killed" /\ \A q \in Procs : q # p => pc'[q] = pc[q]
    BY <2>1, GotoFacts DEF Base, Labels, Ended
  <2>3. TypeInv'
    BY <1>1, <2>1, <2>2, Kinds DEF Base, TypeInv, ReaderLabels, WriterLabels
  <2>4. Ends'
    BY <1>1, <1>2, <2>1, <2>2, Kinds DEF Base, Ends, Holding
  <2>5. QED
    BY <2>3, <2>4 DEF Base
<1>3. CASE pc[p] \notin {"mkfifo", "open", "remove"}
  <2>1. Release(p) /\ Goto(p, "killed") /\ pc[p] \in Holding
    BY <1>3 DEF Kill, Base, TypeInv, Labels, Ended, Holding
  <2>2. QED
    BY <1>1, <2>1, BaseEnding
<1>4. QED
  BY <1>2, <1>3

LEMMA BaseRemove ==
    ASSUME Base, NEW r \in Readers, Remove(r)
    PROVE  Base'
<1>1. pc' \in [Procs -> Labels] /\ pc'[r] = "done" /\ \A q \in Procs : q # r => pc'[q] = pc[q]
  BY GotoFacts, Kinds DEF Remove, Base, Labels, Ended
<1>2. TypeInv'
  BY <1>1, Kinds DEF Remove, Base, TypeInv, ReaderLabels, WriterLabels
<1>3. Ends'
  BY <1>1, Kinds DEF Remove, Base, Ends, Holding
<1>4. QED
  BY <1>2, <1>3 DEF Base

\* read() takes the oldest string of the fifo, if there is one.
LEMMA Reading ==
    ASSUME Base, NEW r \in Readers, Read(r), fd[r] # None
    PROVE  LET f == fd[r]
           IN  /\ f \in Procs /\ fifo[f].data \in Seq(Writers)
               /\ fifo' \in [Procs -> PipeSet]
               /\ \A g \in Procs : /\ fifo'[g].rd = fifo[g].rd /\ fifo'[g].wr = fifo[g].wr
                                   /\ g # f => fifo'[g].data = fifo[g].data
               /\ \A q \in Readers : q # r => got'[q] = got[q]
               /\ fifo[f].data = <<>> => /\ fifo'[f].data = <<>> /\ got'[r] = None
                                         /\ fifo[f].wr = {}
               /\ fifo[f].data # <<>> => /\ fifo'[f].data = Tail(fifo[f].data)
                                         /\ got'[r] = Head(fifo[f].data)
<1> DEFINE f == fd[r]
           x == fifo[f]
<1>1. f \in Procs /\ fifo \in [Procs -> PipeSet] /\ x \in PipeSet /\ got \in [Readers -> Writers \cup {None}]
  BY Kinds DEF Base, TypeInv
<1>2. x.data \in Seq(Writers) /\ x.rd \subseteq Readers /\ x.wr \subseteq Writers
  BY <1>1 DEF PipeSet
<1>3. Readable(x) /\ got' = [got EXCEPT ![r] = Received(x, None)] /\ fifo' = [fifo EXCEPT ![f] = Rest(x)]
  BY DEF Read, Left
<1>4. CASE x.data = <<>>
  <2>1. Rest(x) = x /\ Received(x, None) = None /\ x.wr = {}
    BY <1>3, <1>4 DEF Rest, Received, Readable
  <2>2. QED
    BY <1>1, <1>2, <1>3, <1>4, <2>1
<1>5. CASE x.data # <<>>
  <2>1. Tail(x.data) \in Seq(Writers)
    BY <1>2, <1>5, InTail
  <2>2. Received(x, None) = Head(x.data) /\ Rest(x) = [x EXCEPT !.data = Tail(x.data)]
    BY <1>5 DEF Rest, Received
  <2>3. Rest(x) \in PipeSet /\ Rest(x).data = Tail(x.data) /\ Rest(x).rd = x.rd /\ Rest(x).wr = x.wr
    BY <1>1, <2>1, <2>2 DEF PipeSet
  <2>4. QED
    <3> HIDE DEF x
    <3>1. fifo' \in [Procs -> PipeSet] /\ fifo'[f] = Rest(x) /\ \A g \in Procs : g # f => fifo'[g] = fifo[g]
      BY <1>1, <1>3, <2>3
    <3>2. got'[r] = Head(x.data) /\ \A q \in Readers : q # r => got'[q] = got[q]
      BY <1>1, <1>3, <2>2
    <3>3. QED
      BY <1>1, <1>2, <1>5, <2>3, <3>1, <3>2 DEF x
<1>6. QED
  BY <1>4, <1>5

LEMMA BaseRead ==
    ASSUME Base, NEW r \in Readers, Read(r)
    PROVE  Base'
<1>1. pc[r] = "read" /\ pc' \in [Procs -> Labels] /\ pc'[r] = "close"
      /\ \A q \in Procs : q # r => pc'[q] = pc[q]
  BY GotoFacts, Kinds DEF Read, Base, Labels
<1>2. UNCHANGED <<name, fd, sent, kills>>
  BY DEF Read
<1>3. CASE fd[r] = None
  <2>1. fifo' = fifo /\ got' = got
    BY <1>3 DEF Read
  <2>2. TypeInv'
    BY <1>1, <1>2, <2>1, Kinds DEF Base, TypeInv, ReaderLabels, WriterLabels
  <2>3. Ends'
    BY <1>1, <1>2, <2>1, Kinds DEF Base, Ends, Holding
  <2>4. QED
    BY <2>2, <2>3 DEF Base
<1>4. CASE fd[r] # None
  <2> DEFINE f == fd[r]
  <2>1. /\ f \in Procs /\ fifo[f].data \in Seq(Writers)
        /\ fifo' \in [Procs -> PipeSet]
        /\ \A g \in Procs : /\ fifo'[g].rd = fifo[g].rd /\ fifo'[g].wr = fifo[g].wr
                            /\ g # f => fifo'[g].data = fifo[g].data
        /\ \A q \in Readers : q # r => got'[q] = got[q]
        /\ fifo[f].data = <<>> => /\ fifo'[f].data = <<>> /\ got'[r] = None
        /\ fifo[f].data # <<>> => /\ fifo'[f].data = Tail(fifo[f].data)
                                  /\ got'[r] = Head(fifo[f].data)
    BY <1>4, Reading
  <2>2. fifo[f].data # <<>> => /\ Len(Tail(fifo[f].data)) = Len(fifo[f].data) - 1
                               /\ Head(fifo[f].data) \in Writers
    BY <2>1, InTail
  <2>3. Len(fifo[f].data) \in Nat
    BY <2>1, LenProperties
  <2>4. \A g \in Procs : Len(fifo'[g].data) <= Capacity
    <3> SUFFICES ASSUME NEW g \in Procs
                 PROVE  Len(fifo'[g].data) <= Capacity
      OBVIOUS
    <3>1. Len(fifo[g].data) <= Capacity /\ Len(fifo[f].data) <= Capacity
      BY <2>1 DEF Base, TypeInv
    <3> DEFINE n == Len(fifo[f].data)
               m == Len(fifo'[g].data)
    <3>2. CASE g # f
      BY <2>1, <3>1, <3>2
    <3>3. CASE g = f /\ fifo[f].data = <<>>
      <4>1. fifo'[g].data = fifo[g].data
        BY <2>1, <3>3
      <4>2. QED
        BY <3>1, <4>1
    <3>4. CASE g = f /\ fifo[f].data # <<>>
      <4>1. m = n - 1
        BY <2>1, <2>2, <3>4
      <4>2. n \in Nat /\ n <= Capacity
        BY <2>3, <3>1
      <4> HIDE DEF m, n
      <4>3. m <= Capacity
        BY <4>1, <4>2, CapacityAssumption
      <4>4. QED
        BY <4>3 DEF m
    <3>5. QED
      BY <3>2, <3>3, <3>4
  <2>5. got' \in [Readers -> Writers \cup {None}]
    <3>1. got' = [got EXCEPT ![r] = Received(fifo[f], None)] /\ got \in [Readers -> Writers \cup {None}]
      BY <1>4 DEF Read, Base, TypeInv
    <3>2. got'[r] \in Writers \cup {None}
      BY <2>1, <2>2
    <3>3. QED
      BY <3>1, <3>2
  <2> HIDE DEF f
  <2>6. TypeInv'
    BY <1>1, <1>2, <2>1, <2>4, <2>5, Kinds DEF Base, TypeInv, ReaderLabels, WriterLabels
  <2>7. Ends'
    BY <1>1, <1>2, <2>1, Kinds DEF Base, Ends, Holding
  <2>8. QED
    BY <2>6, <2>7 DEF Base
<1>5. QED
  BY <1>3, <1>4

\* write() puts the string behind the others, or there is no reader.
LEMMA Writing ==
    ASSUME Base, NEW w \in Writers, Write(w), fd[w] # None, ~Broken(fifo[fd[w]])
    PROVE  LET f == fd[w]
           IN  /\ f \in Procs /\ fifo[f].data \in Seq(Writers)
               /\ fifo' \in [Procs -> PipeSet]
               /\ \A g \in Procs : /\ fifo'[g].rd = fifo[g].rd /\ fifo'[g].wr = fifo[g].wr
                                   /\ g # f => fifo'[g].data = fifo[g].data
               /\ fifo'[f].data = Append(fifo[f].data, w)
               /\ Len(fifo[f].data) < Capacity
               /\ sent' = sent \cup {w} /\ Goto(w, "close")
<1> DEFINE f == fd[w]
           x == fifo[f]
<1>1. f \in Procs /\ fifo \in [Procs -> PipeSet] /\ x \in PipeSet
  BY Kinds DEF Base, TypeInv
<1>2. x.data \in Seq(Writers) /\ x.rd \subseteq Readers /\ x.wr \subseteq Writers
  BY <1>1 DEF PipeSet
<1>3. /\ Writable(x) /\ fifo' = [fifo EXCEPT ![f].data = Append(@, w)]
      /\ sent' = sent \cup {w} /\ Goto(w, "close")
  BY DEF Write
<1>4. Len(x.data) < Capacity
  BY <1>3 DEF Writable
<1>5. Append(x.data, w) \in Seq(Writers)
  BY <1>2, InAppend
<1>6. fifo' = [fifo EXCEPT ![f] = [x EXCEPT !.data = Append(x.data, w)]]
  BY <1>3
<1> DEFINE y == [x EXCEPT !.data = Append(x.data, w)]
<1>7. y \in PipeSet /\ y.data = Append(x.data, w) /\ y.rd = x.rd /\ y.wr = x.wr
  BY <1>1, <1>5 DEF PipeSet
<1>8. fifo' = [fifo EXCEPT ![f] = y]
  BY <1>6
<1> HIDE DEF x, y
<1>9. fifo' \in [Procs -> PipeSet] /\ fifo'[f] = y /\ \A g \in Procs : g # f => fifo'[g] = fifo[g]
  BY <1>1, <1>7, <1>8
<1>10. QED
  BY <1>1, <1>2, <1>3, <1>4, <1>7, <1>9 DEF x

LEMMA BaseWrite ==
    ASSUME Base, NEW w \in Writers, Write(w)
    PROVE  Base'
<1>1. pc[w] = "write" /\ UNCHANGED <<name, fd, got, kills>> /\ w \in Procs /\ w \notin Readers
  BY Kinds DEF Write
<1>2. CASE fd[w] = None
  <2>1. Goto(w, "close") /\ UNCHANGED <<fifo, sent>>
    BY <1>2 DEF Write
  <2>2. pc' \in [Procs -> Labels] /\ pc'[w] = "close" /\ \A q \in Procs : q # w => pc'[q] = pc[q]
    BY <1>1, <2>1, GotoFacts DEF Base, Labels
  <2>3. TypeInv'
    BY <1>1, <2>1, <2>2, Kinds DEF Base, TypeInv, ReaderLabels, WriterLabels
  <2>4. Ends'
    BY <1>1, <2>1, <2>2, Kinds DEF Base, Ends, Holding
  <2>5. QED
    BY <2>3, <2>4 DEF Base
<1>3. CASE fd[w] # None /\ Broken(fifo[fd[w]])
  <2>1. Goto(w, "killed") /\ Release(w) /\ UNCHANGED sent
    BY <1>3 DEF Write
  <2>2. kills' \in 0 .. MaxKills /\ sent' \subseteq Writers
    BY <1>1, <2>1 DEF Base, TypeInv
  <2>3. QED
    BY <1>1, <2>1, <2>2, BaseEnding DEF Holding
<1>4. CASE fd[w] # None /\ ~Broken(fifo[fd[w]])
  <2> DEFINE f == fd[w]
  <2>1. /\ f \in Procs /\ fifo[f].data \in Seq(Writers)
        /\ fifo' \in [Procs -> PipeSet]
        /\ \A g \in Procs : /\ fifo'[g].rd = fifo[g].rd /\ fifo'[g].wr = fifo[g].wr
                            /\ g # f => fifo'[g].data = fifo[g].data
        /\ fifo'[f].data = Append(fifo[f].data, w) /\ Len(fifo[f].data) < Capacity
        /\ sent' = sent \cup {w} /\ Goto(w, "close")
    BY <1>4, Writing
  <2>2. pc' \in [Procs -> Labels] /\ pc'[w] = "close" /\ \A q \in Procs : q # w => pc'[q] = pc[q]
    BY <1>1, <2>1, GotoFacts DEF Base, Labels
  <2>3. Len(Append(fifo[f].data, w)) = Len(fifo[f].data) + 1 /\ Len(fifo[f].data) \in Nat
    BY <2>1, InAppend, LenProperties
  <2> HIDE DEF f
  <2>4. \A g \in Procs : Len(fifo'[g].data) <= Capacity
    <3> SUFFICES ASSUME NEW g \in Procs
                 PROVE  Len(fifo'[g].data) <= Capacity
      OBVIOUS
    <3> DEFINE n == Len(fifo[f].data)
               m == Len(fifo'[g].data)
    <3>1. CASE g # f
      BY <2>1, <3>1 DEF Base, TypeInv
    <3>2. CASE g = f
      <4>1. m = n + 1 /\ n \in Nat /\ n < Capacity
        BY <2>1, <2>3, <3>2
      <4> HIDE DEF m, n
      <4>2. m <= Capacity
        BY <4>1, CapacityAssumption
      <4>3. QED
        BY <4>2 DEF m
    <3>3. QED
      BY <3>1, <3>2
  <2>5. TypeInv'
    BY <1>1, <2>1, <2>2, <2>4, Kinds DEF Base, TypeInv, ReaderLabels, WriterLabels
  <2>6. Ends'
    BY <1>1, <2>1, <2>2, Kinds DEF Base, Ends, Holding
  <2>7. QED
    BY <2>5, <2>6 DEF Base
<1>5. QED
  BY <1>2, <1>3, <1>4

LEMMA BaseNext ==
    ASSUME Base, [Next]_vars
    PROVE  Base'
<1>1. CASE UNCHANGED vars
  BY <1>1 DEF vars, Base, TypeInv, Ends
<1>2. CASE \E p \in Procs : Step(p) \/ Kill(p)
  BY <1>2, BaseMkfifo, BaseOpen, BaseClose, BaseRead, BaseRemove, BaseWrite, BaseKill DEF Step
<1>3. QED
  BY <1>1, <1>2 DEF Next, Quiet

LEMMA BaseInvariant == Spec => []Base
  BY BaseInit, BaseNext, PTL DEF Spec

\* Every variable always has its type, and no fifo holds more records than
\* fit (read_fifo.c, write_fifo.c).
THEOREM TypeCorrect == Spec => []TypeOK
<1>1. Base => TypeOK
  BY Kinds DEF Base, TypeInv, TypeOK, PipeSet
<1>2. QED
  BY <1>1, BaseInvariant, PTL

-----------------------------------------------------------------------------
(***************************************************************************)
(* Who misses whom.                                                        *)
(***************************************************************************)
SomeoneRemoved == \E q \in Readers : pc[q] = "done"

\* Nobody waits in open() for a partner that is there.
Rendezvous ==
    /\ \A p \in Procs : pc[p] = "blocked" => fd[p] # None
    /\ \A r \in Readers, w \in Writers :
          fd[r] = fd[w] /\ fd[r] # None /\ pc[r] \in Holding /\ pc[w] \in Holding =>
              pc[r] # "blocked" /\ pc[w] # "blocked"

\* Until the name is removed there is one fifo.
OneFifo == SomeoneRemoved \/ \A p \in Procs : fd[p] # None => fd[p] = name

\* What every step but open() leaves alone, and where it leads.
LEMMA OtherSteps ==
    ASSUME Base, NEW p \in Procs, Step(p) \/ Kill(p), ~Open(p)
    PROVE  /\ UNCHANGED fd
           /\ \A q \in Procs : q # p => pc'[q] = pc[q]
           /\ pc[p] \notin {"done", "killed"}
           /\ pc'[p] \in {"open", "close", "remove", "done", "killed"}
           /\ pc'[p] \in Holding => pc[p] \in Holding /\ pc[p] # "blocked"
           /\ pc'[p] = "open" <=> pc[p] = "mkfifo" /\ pc'[p] # "killed"
           /\ p \in Readers /\ pc'[p] = "close" => pc[p] = "read"
           /\ p \in Readers /\ pc'[p] = "remove" => pc[p] = "close"
           /\ p \in Readers /\ pc'[p] = "done" => pc[p] = "remove"
           /\ \/ name' = name /\ (pc'[p] = "open" => name # None)
              \/ name = None /\ name' = p /\ pc'[p] = "open"
              \/ p \in Readers /\ pc'[p] = "done"
<1>1. CASE Mkfifo(p)
  BY <1>1, GotoFacts, Kinds DEF Mkfifo, Base, Labels, Holding
<1>2. CASE Close(p)
  <2>1. pc' = [pc EXCEPT ![p] = IF p \in Readers THEN "remove" ELSE "done"]
    BY <1>2 DEF Close, Goto
  <2>2. pc'[p] = (IF p \in Readers THEN "remove" ELSE "done") /\ \A q \in Procs : q # p => pc'[q] = pc[q]
    BY <2>1 DEF Base, TypeInv
  <2>3. pc[p] = "close" /\ UNCHANGED <<name, fd>>
    BY <1>2 DEF Close
  <2>4. QED
    BY <2>2, <2>3 DEF Holding
<1>3. CASE p \in Readers /\ Read(p)
  BY <1>3, GotoFacts DEF Read, Base, Labels, Holding
<1>4. CASE p \in Readers /\ Remove(p)
  BY <1>4, GotoFacts DEF Remove, Base, Labels, Ended, Holding
<1>5. CASE p \in Writers /\ Write(p)
  <2>1. Goto(p, "close") \/ Goto(p, "killed")
    BY <1>5 DEF Write
  <2>2. pc'[p] \in {"close", "killed"} /\ \A q \in Procs : q # p => pc'[q] = pc[q]
    BY <2>1, GotoFacts DEF Base, Labels, Ended
  <2>3. pc[p] = "write" /\ UNCHANGED <<name, fd>> /\ p \notin Readers
    BY <1>5, Kinds DEF Write
  <2>4. QED
    BY <2>2, <2>3 DEF Holding
<1>6. CASE Kill(p)
  BY <1>6, GotoFacts DEF Kill, Base, Labels, Ended, Holding
<1>7. QED
  BY <1>1, <1>2, <1>3, <1>4, <1>5, <1>6 DEF Step

\* open() by p, of the labels.
LEMMA OpenSteps ==
    ASSUME Base, NEW p \in Procs, Open(p)
    PROVE  /\ pc[p] = "open" /\ UNCHANGED <<name, got, sent>> /\ fd'[p] = name
           /\ \A q \in Procs : q # p => fd'[q] = fd[q]
           /\ pc'[p] \in {"blocked", "read", "write"}
           /\ pc'[p] = "read" => p \in Readers
           /\ pc'[p] = "blocked" => name # None
           /\ \A q \in Procs : q # p => \/ pc'[q] = pc[q]
                                        \/ pc[q] = "blocked" /\ q \in Readers /\ pc'[q] = "read"
                                        \/ pc[q] = "blocked" /\ q \in Writers /\ pc'[q] = "write"
<1>1. \A q \in Procs : AfterOpen(q) = IF q \in Readers THEN "read" ELSE "write"
  BY DEF AfterOpen
<1>2. pc[p] = "open" /\ UNCHANGED <<name, got, sent>>
  BY DEF Open
<1>3. QED
  BY <1>1, <1>2, Opening, Kinds DEF Woken

LEMMA RendezvousOpen ==
    ASSUME Base, Rendezvous, NEW p \in Procs, Open(p)
    PROVE  Rendezvous'
<1>1. \A q \in Procs : pc'[q] = "blocked" => fd'[q] # None
  BY OpenSteps DEF Rendezvous
<1>2. ASSUME NEW r \in Readers, NEW w \in Writers, fd'[r] = fd'[w], fd'[r] # None,
             pc'[r] \in Holding, pc'[w] \in Holding
      PROVE  pc'[r] # "blocked" /\ pc'[w] # "blocked"
  <2>1. r \in Procs /\ w \in Procs /\ r # w
    BY Kinds
  <2>2. \A q \in Procs : q # p /\ pc'[q] \in Holding => pc[q] \in Holding
    BY OpenSteps DEF Holding
  <2>3. CASE r = p
    <3>1. fd[w] = name /\ name # None /\ pc[w] \in Holding
      BY <1>2, <2>1, <2>2, <2>3, OpenSteps
    <3>2. name \in Procs
      BY <3>1 DEF Base, TypeInv
    <3>3. w \in Partners(name, p)
      BY <2>3, <3>1, <3>2 DEF Partners, Base, Ends
    <3>4. pc'[p] = AfterOpen(p) /\ pc'[p] = "read"
      BY <2>3, <3>1, <3>3, Opening DEF AfterOpen
    <3>5. pc[w] = "blocked" => w \in Woken(p)
      BY <2>1, <3>1, <3>3 DEF Woken
    <3>6. pc'[w] # "blocked"
      BY <2>1, <2>3, <3>5, Opening, Kinds DEF AfterOpen
    <3>7. QED
      BY <2>3, <3>4, <3>6
  <2>4. CASE w = p
    <3>1. fd[r] = name /\ name # None /\ pc[r] \in Holding
      BY <1>2, <2>1, <2>2, <2>4, OpenSteps
    <3>2. name \in Procs
      BY <3>1 DEF Base, TypeInv
    <3>3. r \in Partners(name, p)
      BY <2>4, <3>1, <3>2, Kinds DEF Partners, Base, Ends
    <3>4. pc'[p] = AfterOpen(p) /\ pc'[p] = "write"
      BY <2>4, <3>1, <3>3, Opening, Kinds DEF AfterOpen
    <3>5. pc[r] = "blocked" => r \in Woken(p)
      BY <2>1, <3>1, <3>3 DEF Woken
    <3>6. pc'[r] # "blocked"
      BY <2>1, <2>4, <3>5, Opening DEF AfterOpen
    <3>7. QED
      BY <2>4, <3>4, <3>6
  <2>5. CASE r # p /\ w # p
    <3>1. fd[r] = fd[w] /\ fd[r] # None /\ pc[r] \in Holding /\ pc[w] \in Holding
      BY <1>2, <2>1, <2>2, <2>5, OpenSteps
    <3>2. pc[r] # "blocked" /\ pc[w] # "blocked"
      BY <3>1 DEF Rendezvous
    <3>3. QED
      BY <2>1, <2>5, <3>2, OpenSteps
  <2>6. QED
    BY <2>3, <2>4, <2>5
<1>3. QED
  BY <1>1, <1>2 DEF Rendezvous

LEMMA MeetNext ==
    ASSUME Base, Rendezvous, OneFifo, [Next]_vars
    PROVE  Rendezvous' /\ OneFifo'
<1>1. CASE UNCHANGED vars
  BY <1>1 DEF vars, Rendezvous, OneFifo, SomeoneRemoved
<1>2. ASSUME NEW p \in Procs, Open(p)
      PROVE  Rendezvous' /\ OneFifo'
  <2>1. SomeoneRemoved => SomeoneRemoved'
    BY <1>2, OpenSteps, Kinds DEF SomeoneRemoved
  <2>2. OneFifo'
    BY <1>2, <2>1, OpenSteps DEF OneFifo
  <2>3. QED
    BY <1>2, <2>2, RendezvousOpen
<1>3. ASSUME NEW p \in Procs, Step(p) \/ Kill(p), ~Open(p)
      PROVE  Rendezvous' /\ OneFifo'
  <2>1. SomeoneRemoved => SomeoneRemoved'
    BY <1>3, OtherSteps, Kinds DEF SomeoneRemoved
  <2>2. Rendezvous'
    BY <1>3, OtherSteps, Kinds DEF Rendezvous
  <2>3. OneFifo'
    <3>1. CASE name' = name \/ name = None
      BY <1>3, <2>1, <3>1, OtherSteps DEF OneFifo
    <3>2. CASE p \in Readers /\ pc'[p] = "done"
      BY <3>2 DEF OneFifo, SomeoneRemoved
    <3>3. QED
      BY <1>3, <3>1, <3>2, OtherSteps
  <2>4. QED
    BY <2>2, <2>3
<1>4. QED
  BY <1>1, <1>2, <1>3 DEF Next, Quiet

LEMMA MeetInvariant == Spec => [](Base /\ Rendezvous /\ OneFifo)
<1>1. Init => Rendezvous /\ OneFifo
  BY Kinds DEF Init, Rendezvous, OneFifo, Holding
<1>2. QED
  BY <1>1, BaseInit, BaseNext, MeetNext, PTL DEF Spec

\* A reader and a writer that both wait in open() wait on two fifos, and a
\* third process removed the name between them (read_fifo.c:13, 23).
THEOREM OnlyRemovalParts == Spec => []MissedByRemoval
<1>1. Base /\ Rendezvous /\ OneFifo => MissedByRemoval
  <2> SUFFICES ASSUME Base, Rendezvous, OneFifo, NEW r \in Readers, NEW w \in Writers,
                      pc[r] = "blocked", pc[w] = "blocked"
               PROVE  fd[r] # fd[w] /\ \E q \in Readers \ {r} : pc[q] = "done"
    BY DEF MissedByRemoval
  <2>1. fd[r] # None /\ fd[w] # None /\ fd[r] # fd[w]
    BY Kinds DEF Rendezvous, Holding
  <2>2. SomeoneRemoved
    BY <2>1, Kinds DEF OneFifo
  <2>3. QED
    BY <2>1, <2>2 DEF SomeoneRemoved
<1>2. QED
  BY <1>1, MeetInvariant, PTL

-----------------------------------------------------------------------------
(***************************************************************************)
(* Where the strings are.                                                  *)
(***************************************************************************)
AfterWrite == {"close", "done", "killed"}
AfterRead == {"close", "remove", "done", "killed"}

\* A string is in one place at most, and only once it was sent.
Strings ==
    /\ \A p \in Procs, w \in Writers : In(w, fifo[p].data) => w \in sent
    /\ \A r \in Readers : got[r] # None => got[r] \in sent
    /\ \A w \in sent : pc[w] \in AfterWrite
    /\ \A r \in Readers : got[r] # None => pc[r] \in AfterRead
    /\ \A p \in Procs : Once(fifo[p].data)
    /\ \A p, q \in Procs, w \in Writers : In(w, fifo[p].data) /\ In(w, fifo[q].data) => p = q
    /\ \A r \in Readers, p \in Procs : got[r] # None => ~In(got[r], fifo[p].data)
    /\ \A r, q \in Readers : got[r] # None /\ got[r] = got[q] => r = q

\* What a step may do to the strings: none, but that a fifo nobody holds
\* any more loses what is in it; ...
Less ==
    /\ UNCHANGED sent /\ \A r \in Readers : got'[r] = got[r]
    /\ \A f \in Procs : \/ fifo'[f].data = fifo[f].data
                        \/ /\ fifo'[f].data = <<>>
                           /\ fifo'[f].rd = {} /\ fifo'[f].wr = {}

\* ... a reader takes the oldest of its fifo; ...
Takes(r) ==
    /\ pc[r] = "read" /\ fd[r] \in Procs /\ fifo[fd[r]].data # <<>>
    /\ fifo'[fd[r]].data = Tail(fifo[fd[r]].data)
    /\ \A f \in Procs : f # fd[r] => fifo'[f].data = fifo[f].data
    /\ got'[r] = Head(fifo[fd[r]].data)
    /\ \A q \in Readers : q # r => got'[q] = got[q]
    /\ UNCHANGED sent /\ pc'[r] = "close"

\* ... or a writer puts its own behind the others.
Puts(w) ==
    /\ pc[w] = "write" /\ fd[w] \in Procs
    /\ fifo'[fd[w]].data = Append(fifo[fd[w]].data, w)
    /\ \A f \in Procs : f # fd[w] => fifo'[f].data = fifo[f].data
    /\ \A r \in Readers : got'[r] = got[r]
    /\ sent' = sent \cup {w} /\ pc'[w] = "close"

Effect == Less \/ (\E r \in Readers : Takes(r)) \/ (\E w \in Writers : Puts(w))

LEMMA Effects ==
    ASSUME Base, Strings, NEW p \in Procs, Step(p) \/ Kill(p)
    PROVE  Effect
<1>1. CASE Mkfifo(p)
  BY <1>1 DEF Mkfifo, Less, Effect
<1>2. CASE Open(p)
  BY <1>2, Opening, OpenSteps DEF Less, Effect
<1>3. CASE Close(p)
  BY <1>3, Releasing DEF Close, Holding, Less, Effect
<1>4. CASE p \in Readers /\ Remove(p)
  BY <1>4 DEF Remove, Less, Effect
<1>5. CASE Kill(p)
  <2>1. CASE pc[p] \in {"mkfifo", "open", "remove"}
    BY <1>5, <2>1 DEF Kill, Less, Effect
  <2>2. CASE pc[p] \notin {"mkfifo", "open", "remove"}
    <3>1. Release(p) /\ pc[p] \in Holding
      BY <1>5, <2>2 DEF Kill, Base, TypeInv, Labels, Ended, Holding
    <3>2. QED
      BY <1>5, <3>1, Releasing DEF Kill, Less, Effect
  <2>3. QED
    BY <2>1, <2>2
<1>6. CASE p \in Readers /\ Read(p)
  <2>1. pc[p] = "read" /\ pc'[p] = "close" /\ UNCHANGED sent
    BY <1>6, GotoFacts DEF Read, Base, Labels
  <2>2. CASE fd[p] = None
    BY <1>6, <2>1, <2>2 DEF Read, Less, Effect
  <2>3. CASE fd[p] # None /\ fifo[fd[p]].data = <<>>
    <3>1. got[p] = None
      BY <1>6, <2>1 DEF Strings, AfterRead
    <3>2. Less
      BY <1>6, <2>1, <2>3, <3>1, Reading DEF Less
    <3>3. QED
      BY <3>2 DEF Effect
  <2>4. CASE fd[p] # None /\ fifo[fd[p]].data # <<>>
    <3>1. Takes(p)
      BY <1>6, <2>1, <2>4, Reading DEF Takes
    <3>2. QED
      BY <1>6, <3>1 DEF Effect
  <2>5. QED
    BY <2>2, <2>3, <2>4
<1>7. CASE p \in Writers /\ Write(p)
  <2>1. pc[p] = "write" /\ got' = got
    BY <1>7 DEF Write
  <2>2. CASE fd[p] = None
    BY <1>7, <2>1, <2>2 DEF Write, Less, Effect
  <2>3. CASE fd[p] # None /\ Broken(fifo[fd[p]])
    <3>1. Release(p) /\ UNCHANGED sent
      BY <1>7, <2>3 DEF Write
    <3>2. Less
      BY <2>1, <3>1, Releasing DEF Less, Holding
    <3>3. QED
      BY <3>2 DEF Effect
  <2>4. CASE fd[p] # None /\ ~Broken(fifo[fd[p]])
    <3>1. Goto(p, "close")
      BY <1>7, <2>4, Writing
    <3>2. pc'[p] = "close"
      BY <3>1, GotoFacts DEF Base, Labels
    <3>3. Puts(p)
      BY <1>7, <2>1, <2>4, <3>2, Writing DEF Puts
    <3>4. QED
      BY <1>7, <3>3 DEF Effect
  <2>5. QED
    BY <2>2, <2>3, <2>4
<1>8. QED
  BY <1>1, <1>2, <1>3, <1>4, <1>5, <1>6, <1>7 DEF Step

\* A process that has written, read or been killed stays past that.
LEMMA LabelsAdvance ==
    ASSUME Base, NEW p \in Procs, Step(p) \/ Kill(p)
    PROVE  /\ \A w \in Writers : pc[w] \in AfterWrite => pc'[w] \in AfterWrite
           /\ \A r \in Readers : pc[r] \in AfterRead => pc'[r] \in AfterRead
           /\ \A q \in Procs : pc[q] = "killed" => pc'[q] = "killed"
           /\ \A r \in Readers : pc[r] = "done" => pc'[r] = "done"
<1>1. CASE Open(p)
  BY <1>1, OpenSteps, Kinds DEF AfterWrite, AfterRead
<1>2. CASE ~Open(p)
  <2>1. \A q \in Procs : q # p => pc'[q] = pc[q]
    BY <1>2, OtherSteps
  <2>2. pc[p] \notin {"done", "killed"} /\ pc'[p] \in {"open", "close", "remove", "done", "killed"}
        /\ (pc'[p] = "open" => pc[p] = "mkfifo")
    BY <1>2, OtherSteps
  <2>3. p \in Writers => pc'[p] \in WriterLabels
    BY BaseNext DEF Base, TypeInv, Next
  <2>4. QED
    BY <2>1, <2>2, <2>3, Kinds DEF AfterWrite, AfterRead, WriterLabels
<1>3. QED
  BY <1>1, <1>2

LEMMA StringsLess ==
    ASSUME Base, Strings, NEW p \in Procs, Step(p) \/ Kill(p), Less
    PROVE  Strings'
<1>1. \A f \in Procs : \A w : In(w, fifo'[f].data) => In(w, fifo[f].data)
  BY InEmpty DEF Less
<1>2. \A f \in Procs : Once(fifo'[f].data)
  BY OnceEmpty DEF Less, Strings
<1>3. \A w \in sent : w \in Writers
  BY DEF Base, TypeInv
<1>4. sent' = sent /\ \A r \in Readers : got'[r] = got[r]
  BY DEF Less
<1>5. \A w \in sent' : pc'[w] \in AfterWrite
  BY <1>3, <1>4, LabelsAdvance DEF Strings
<1>6. \A r \in Readers : got'[r] # None => got'[r] \in sent' /\ pc'[r] \in AfterRead
  BY <1>4, LabelsAdvance DEF Strings
<1>7. \A p1 \in Procs, w \in Writers : In(w, fifo'[p1].data) => w \in sent'
  BY <1>1, <1>4 DEF Strings
<1>8. \A f, g \in Procs, w \in Writers : In(w, fifo'[f].data) /\ In(w, fifo'[g].data) => f = g
  BY <1>1 DEF Strings
<1>9. \A r \in Readers, f \in Procs : got'[r] # None => ~In(got'[r], fifo'[f].data)
  BY <1>1, <1>4 DEF Strings
<1>10. \A r, q \in Readers : got'[r] # None /\ got'[r] = got'[q] => r = q
  BY <1>4 DEF Strings
<1>11. QED
  BY <1>2, <1>5, <1>6, <1>7, <1>8, <1>9, <1>10 DEF Strings

LEMMA StringsTakes ==
    ASSUME Base, Strings, NEW p \in Procs, Step(p) \/ Kill(p), NEW r \in Readers, Takes(r)
    PROVE  Strings'
<1> DEFINE f == fd[r]
           s == fifo[f].data
           v == Head(s)
<1>1. f \in Procs /\ s \in Seq(Writers) /\ s # <<>> /\ r \in Procs
  BY Kinds DEF Takes, Base, TypeInv, PipeSet
<1>2. /\ v \in Writers /\ In(v, s) /\ Once(s) /\ Once(Tail(s)) /\ ~In(v, Tail(s))
      /\ \A w : In(w, Tail(s)) => In(w, s)
  BY <1>1, InTail DEF Strings
<1>3. fifo'[f].data = Tail(s) /\ \A g \in Procs : g # f => fifo'[g].data = fifo[g].data
  BY DEF Takes
<1>4. got'[r] = v /\ (\A q \in Readers : q # r => got'[q] = got[q]) /\ UNCHANGED sent /\ pc'[r] = "close"
  BY DEF Takes
<1> HIDE DEF v
<1>5. \A g \in Procs : \A w : In(w, fifo'[g].data) => In(w, fifo[g].data)
  BY <1>2, <1>3
<1>6. \A g \in Procs : Once(fifo'[g].data)
  BY <1>2, <1>3 DEF Strings
<1>7. \A g \in Procs : ~In(v, fifo'[g].data)
  <2> SUFFICES ASSUME NEW g \in Procs, In(v, fifo'[g].data)
               PROVE  FALSE
    OBVIOUS
  <2>1. CASE g = f
    BY <1>2, <1>3, <2>1
  <2>2. CASE g # f
    BY <1>1, <1>2, <1>3, <2>2 DEF Strings
  <2>3. QED
    BY <2>1, <2>2
<1>8. v \in sent /\ \A q \in Readers : got[q] # v
  BY <1>1, <1>2, Kinds DEF Strings
<1>9. v # None /\ \A w \in sent : w \in Writers
  BY <1>2, Kinds DEF Base, TypeInv
<1> HIDE DEF s, f
<1>10. \A q \in Readers, g \in Procs : got'[q] # None => ~In(got'[q], fifo'[g].data)
  BY <1>4, <1>5, <1>7 DEF Strings
<1>11. \A q, t \in Readers : got'[q] # None /\ got'[q] = got'[t] => q = t
  BY <1>4, <1>8 DEF Strings
<1>12. \A q \in Readers : got'[q] # None => got'[q] \in sent' /\ pc'[q] \in AfterRead
  BY <1>4, <1>8, LabelsAdvance DEF Strings, AfterRead
<1>13. \A w \in sent' : pc'[w] \in AfterWrite
  BY <1>4, <1>9, LabelsAdvance DEF Strings
<1>14. \A g, h \in Procs, w \in Writers : In(w, fifo'[g].data) /\ In(w, fifo'[h].data) => g = h
  BY <1>5 DEF Strings
<1>15. \A g \in Procs, w \in Writers : In(w, fifo'[g].data) => w \in sent'
  BY <1>4, <1>5 DEF Strings
<1>16. QED
  BY <1>6, <1>10, <1>11, <1>12, <1>13, <1>14, <1>15 DEF Strings

LEMMA StringsPuts ==
    ASSUME Base, Strings, NEW p \in Procs, Step(p) \/ Kill(p), NEW v \in Writers, Puts(v)
    PROVE  Strings'
<1> DEFINE f == fd[v]
           s == fifo[f].data
<1>1. f \in Procs /\ s \in Seq(Writers) /\ v \in Procs
  BY Kinds DEF Puts, Base, TypeInv, PipeSet
<1>2. v \notin sent /\ sent \subseteq Writers
  BY DEF Strings, Puts, AfterWrite, Base, TypeInv
<1>3. \A g \in Procs : ~In(v, fifo[g].data)
  BY <1>2 DEF Strings
<1>4. /\ \A w : In(w, Append(s, v)) <=> In(w, s) \/ w = v
      /\ Once(Append(s, v))
  BY <1>1, <1>3, InAppend DEF Strings
<1>5. fifo'[f].data = Append(s, v) /\ \A g \in Procs : g # f => fifo'[g].data = fifo[g].data
  BY DEF Puts
<1>6. sent' = sent \cup {v} /\ (\A r \in Readers : got'[r] = got[r]) /\ pc'[v] = "close"
  BY DEF Puts
<1> HIDE DEF s
<1>7. \A g \in Procs : \A w : In(w, fifo'[g].data) <=> In(w, fifo[g].data) \/ (g = f /\ w = v)
  BY <1>4, <1>5 DEF s
<1>8. \A g \in Procs : Once(fifo'[g].data)
  BY <1>4, <1>5 DEF Strings
<1> HIDE DEF f
<1>9. \A r \in Readers : got[r] # v
  BY <1>2, Kinds DEF Strings
<1>10. \A r \in Readers, g \in Procs : got'[r] # None => ~In(got'[r], fifo'[g].data)
  BY <1>6, <1>7, <1>9 DEF Strings
<1>11. \A r, q \in Readers : got'[r] # None /\ got'[r] = got'[q] => r = q
  BY <1>6 DEF Strings
<1>12. \A r \in Readers : got'[r] # None => got'[r] \in sent' /\ pc'[r] \in AfterRead
  BY <1>6, LabelsAdvance DEF Strings
<1>13. \A w \in sent' : pc'[w] \in AfterWrite
  BY <1>2, <1>6, LabelsAdvance DEF Strings, AfterWrite
<1>14. \A g, h \in Procs, w \in Writers : In(w, fifo'[g].data) /\ In(w, fifo'[h].data) => g = h
  BY <1>3, <1>7 DEF Strings
<1>15. \A g \in Procs, w \in Writers : In(w, fifo'[g].data) => w \in sent'
  BY <1>6, <1>7 DEF Strings
<1>16. QED
  BY <1>8, <1>10, <1>11, <1>12, <1>13, <1>14, <1>15 DEF Strings

LEMMA StringsNext ==
    ASSUME Base, Strings, [Next]_vars
    PROVE  Strings'
<1>1. CASE UNCHANGED vars
  BY <1>1 DEF vars, Strings
<1>2. ASSUME NEW p \in Procs, Step(p) \/ Kill(p)
      PROVE  Strings'
  BY <1>2, Effects, StringsLess, StringsTakes, StringsPuts DEF Effect
<1>3. QED
  BY <1>1, <1>2 DEF Next, Quiet

LEMMA StringsInvariant == Spec => [](Base /\ Strings)
<1>1. Init => Strings
  BY Kinds, FreshIn, InEmpty, OnceEmpty DEF Init, Strings
<1>2. QED
  BY <1>1, BaseInit, BaseNext, StringsNext, PTL DEF Spec

-----------------------------------------------------------------------------
(***************************************************************************)
(* The refinement.                                                         *)
(***************************************************************************)
LEMMA FateFacts ==
    ASSUME Base, Strings, NEW w \in Writers
    PROVE  /\ w \notin sent => Fate(w) = "unsent"
           /\ \A r \in Readers : got[r] = w => Fate(w) = r
           /\ w \in sent /\ (\A r \in Readers : got[r] # w) =>
                 Fate(w) = IF InFifo(w) THEN "waiting" ELSE "lost"
           /\ InFifo(w) <=> \E p \in Procs : In(w, fifo[p].data)
           /\ Fate(w) \in {"unsent", "waiting", "lost"} \/ \E r \in Readers : got[r] = w /\ Fate(w) = r
<1>1. InFifo(w) <=> \E p \in Procs : In(w, fifo[p].data)
  BY DEF InFifo, In
<1>2. ASSUME NEW r \in Readers, got[r] = w
      PROVE  Fate(w) = r
  <2>1. w \in sent /\ \A q \in Readers : got[q] = w => q = r
    BY <1>2, Kinds DEF Strings
  <2>2. (CHOOSE q \in Readers : got[q] = w) = r
    BY <1>2, <2>1
  <2>3. QED
    BY <1>2, <2>1, <2>2 DEF Fate
<1>3. w \notin sent => Fate(w) = "unsent"
  BY DEF Fate
<1>4. w \in sent /\ (\A r \in Readers : got[r] # w) =>
         Fate(w) = IF InFifo(w) THEN "waiting" ELSE "lost"
  BY DEF Fate
<1>5. QED
  BY <1>1, <1>2, <1>3, <1>4

LEMMA FateFactsPrime ==
    ASSUME Base', Strings', NEW w \in Writers
    PROVE  /\ w \notin sent' => Fate(w)' = "unsent"
           /\ \A r \in Readers : got'[r] = w => Fate(w)' = r
           /\ w \in sent' /\ (\A r \in Readers : got'[r] # w) =>
                 Fate(w)' = IF InFifo(w)' THEN "waiting" ELSE "lost"
           /\ InFifo(w)' <=> \E p \in Procs : In(w, fifo'[p].data)
<1>1. InFifo(w)' <=> \E p \in Procs : In(w, fifo'[p].data)
  BY DEF InFifo, In
<1>2. ASSUME NEW r \in Readers, got'[r] = w
      PROVE  Fate(w)' = r
  <2>1. w \in sent' /\ \A q \in Readers : got'[q] = w => q = r
    BY <1>2, Kinds DEF Strings
  <2>2. (CHOOSE q \in Readers : got'[q] = w) = r
    BY <1>2, <2>1
  <2>3. QED
    BY <1>2, <2>1, <2>2 DEF Fate
<1>3. w \notin sent' => Fate(w)' = "unsent"
  BY DEF Fate
<1>4. w \in sent' /\ (\A r \in Readers : got'[r] # w) =>
         Fate(w)' = IF InFifo(w)' THEN "waiting" ELSE "lost"
  BY DEF Fate
<1>5. QED
  BY <1>1, <1>2, <1>3, <1>4

Fates == [w \in Writers |-> Fate(w)]

\* A fifo that nobody holds any more loses what waits in it.
LEMMA LessMaps ==
    ASSUME Base, Strings, Base', Strings', Less
    PROVE  \E S \in SUBSET Writers : Abstract!Lose(S)
<1> DEFINE S == { w \in Writers : Fate(w) = "waiting" /\ Fate(w)' = "lost" }
<1>1. \A p \in Procs : \A w : In(w, fifo'[p].data) => In(w, fifo[p].data)
  BY InEmpty DEF Less
<1>2. ASSUME NEW w \in Writers, w \notin S
      PROVE  Fate(w)' = Fate(w)
  <2>1. CASE w \notin sent
    BY <2>1, FateFacts, FateFactsPrime DEF Less
  <2>2. CASE \E r \in Readers : got[r] = w
    BY <2>2, FateFacts, FateFactsPrime DEF Less
  <2>3. CASE w \in sent /\ \A r \in Readers : got[r] # w
    <3>1. w \in sent' /\ \A r \in Readers : got'[r] # w
      BY <2>3 DEF Less
    <3>2. InFifo(w)' => InFifo(w)
      BY <1>1, FateFacts, FateFactsPrime
    <3>3. QED
      BY <1>2, <2>3, <3>1, <3>2, FateFacts, FateFactsPrime
  <2>4. QED
    BY <2>1, <2>2, <2>3
<1>3. Fates' = [w \in Writers |-> IF w \in S THEN "lost" ELSE Fates[w]]
  BY <1>2 DEF Fates
<1>4. \A w \in S : Fates[w] = "waiting"
  BY DEF Fates
<1>5. S \in SUBSET Writers
  OBVIOUS
<1> HIDE DEF S
<1>6. Abstract!Lose(S)
  BY <1>3, <1>4 DEF Abstract!Lose, Fates
<1>7. QED
  BY <1>5, <1>6

\* A read() that finds a string delivers it.
LEMMA TakesMaps ==
    ASSUME Base, Strings, Base', Strings', NEW r \in Readers, Takes(r)
    PROVE  \E v \in Writers : Abstract!Deliver(v, r)
<1> DEFINE f == fd[r]
           s == fifo[f].data
<1> PICK v : v = Head(s)
  OBVIOUS
<1>1. f \in Procs /\ s \in Seq(Writers) /\ s # <<>>
  BY DEF Takes, Base, TypeInv, PipeSet
<1>2. /\ v \in Writers /\ In(v, s)
      /\ \A w : In(w, Tail(s)) => In(w, s)
      /\ \A w : In(w, s) /\ w # v => In(w, Tail(s))
  BY <1>1, InTail
<1>3. fifo'[f].data = Tail(s) /\ \A g \in Procs : g # f => fifo'[g].data = fifo[g].data
  BY DEF Takes
<1>4. got'[r] = v /\ (\A q \in Readers : q # r => got'[q] = got[q]) /\ sent' = sent /\ pc[r] = "read"
  BY DEF Takes
<1>5. \A g \in Procs : \A w : w # v => (In(w, fifo'[g].data) <=> In(w, fifo[g].data))
  BY <1>1, <1>2, <1>3
<1>6. v \in sent /\ (\A q \in Readers : got[q] # v) /\ InFifo(v)
  BY <1>1, <1>2, Kinds, FateFacts DEF Strings
<1>7. Fate(v) = "waiting" /\ Fate(v)' = r
  BY <1>2, <1>4, <1>6, FateFacts, FateFactsPrime
<1>8. got[r] = None
  BY <1>4 DEF Strings, AfterRead
<1>9. ASSUME NEW w \in Writers
      PROVE  Fate(w) # r
  <2>1. r \notin {"unsent", "waiting", "lost"}
    BY FifoAssumption
  <2>2. got[r] # w
    BY <1>8, Kinds
  <2>3. QED
    BY <2>1, <2>2, FateFacts
<1>10. ASSUME NEW w \in Writers, w # v
       PROVE  Fate(w)' = Fate(w)
  <2>1. CASE w \notin sent
    BY <1>4, <2>1, FateFacts, FateFactsPrime
  <2>2. CASE \E q \in Readers : got[q] = w
    <3>1. PICK q \in Readers : got[q] = w
      BY <2>2
    <3>2. q # r
      BY <1>8, <3>1, Kinds
    <3>3. got'[q] = w
      BY <1>4, <3>1, <3>2
    <3>4. QED
      BY <3>1, <3>3, FateFacts, FateFactsPrime
  <2>3. CASE w \in sent /\ \A q \in Readers : got[q] # w
    <3>1. w \in sent' /\ \A q \in Readers : got'[q] # w
      BY <1>4, <1>10, <2>3
    <3>2. InFifo(w)' <=> InFifo(w)
      BY <1>5, <1>10, FateFacts, FateFactsPrime
    <3>3. QED
      BY <2>3, <3>1, <3>2, FateFacts, FateFactsPrime
  <2>4. QED
    BY <2>1, <2>2, <2>3
<1>11. Fates' = [Fates EXCEPT ![v] = r]
  BY <1>2, <1>7, <1>10 DEF Fates
<1>12. Fates[v] = "waiting" /\ \A w \in Writers : Fates[w] # r
  BY <1>2, <1>7, <1>9 DEF Fates
<1>13. Abstract!Deliver(v, r)
  BY <1>11, <1>12 DEF Abstract!Deliver, Fates
<1>14. QED
  BY <1>2, <1>13

\* A write() that finds a reader sends its string.
LEMMA PutsMaps ==
    ASSUME Base, Strings, Base', Strings', NEW v \in Writers, Puts(v)
    PROVE  Abstract!Send(v)
<1> DEFINE f == fd[v]
           s == fifo[f].data
<1>1. f \in Procs /\ s \in Seq(Writers)
  BY DEF Puts, Base, TypeInv, PipeSet
<1>2. v \notin sent
  BY DEF Strings, Puts, AfterWrite
<1>3. \A w : In(w, Append(s, v)) <=> In(w, s) \/ w = v
  BY <1>1, InAppend
<1>4. fifo'[f].data = Append(s, v) /\ \A g \in Procs : g # f => fifo'[g].data = fifo[g].data
  BY DEF Puts
<1>5. sent' = sent \cup {v} /\ \A r \in Readers : got'[r] = got[r]
  BY DEF Puts
<1>6. \A g \in Procs : \A w : w # v => (In(w, fifo'[g].data) <=> In(w, fifo[g].data))
  BY <1>3, <1>4
<1>7. In(v, fifo'[f].data)
  BY <1>3, <1>4
<1>8. \A r \in Readers : got[r] # v
  BY <1>2, Kinds DEF Strings
<1>9. Fate(v) = "unsent" /\ Fate(v)' = "waiting"
  BY <1>1, <1>2, <1>5, <1>7, <1>8, FateFacts, FateFactsPrime
<1>10. ASSUME NEW w \in Writers, w # v
       PROVE  Fate(w)' = Fate(w)
  <2>1. CASE w \notin sent
    BY <1>5, <1>10, <2>1, FateFacts, FateFactsPrime
  <2>2. CASE \E q \in Readers : got[q] = w
    BY <1>5, <2>2, FateFacts, FateFactsPrime
  <2>3. CASE w \in sent /\ \A q \in Readers : got[q] # w
    <3>1. w \in sent' /\ \A q \in Readers : got'[q] # w
      BY <1>5, <2>3
    <3>2. InFifo(w)' <=> InFifo(w)
      BY <1>6, <1>10, FateFacts, FateFactsPrime
    <3>3. QED
      BY <2>3, <3>1, <3>2, FateFacts, FateFactsPrime
  <2>4. QED
    BY <2>1, <2>2, <2>3
<1>11. Fates' = [Fates EXCEPT ![v] = "waiting"] /\ Fates[v] = "unsent"
  BY <1>9, <1>10 DEF Fates
<1>12. QED
  BY <1>11 DEF Abstract!Send, Fates

LEMMA NextMaps ==
    ASSUME Base, Strings, [Next]_vars
    PROVE  [Abstract!Next]_Fates
<1>1. Base' /\ Strings'
  BY BaseNext, StringsNext
<1>2. CASE UNCHANGED vars
  BY <1>2 DEF vars, Fates, Fate, InFifo
<1>3. ASSUME NEW p \in Procs, Step(p) \/ Kill(p)
      PROVE  Abstract!Next
  <2>1. CASE Less
    BY <1>1, <2>1, LessMaps DEF Abstract!Next
  <2>2. ASSUME NEW r \in Readers, Takes(r)
        PROVE  Abstract!Next
    BY <1>1, <2>2, TakesMaps DEF Abstract!Next
  <2>3. ASSUME NEW v \in Writers, Puts(v)
        PROVE  Abstract!Next
    BY <1>1, <2>3, PutsMaps DEF Abstract!Next
  <2>4. QED
    BY <1>3, <2>1, <2>2, <2>3, Effects DEF Effect
<1>4. QED
  BY <1>2, <1>3 DEF Next, Quiet

\* The two programs implement Mailbox, however many of them run: a string
\* reaches one reader whole or is lost, and a reader gets one at most
\* (read_fifo.c:19, write_fifo.c:25).
THEOREM ImplementsMailbox == Spec => MailboxSpec
<1>1. Init => Abstract!Init
  BY DEF Init, Abstract!Init, Fate
<1>2. Base /\ Strings /\ [Next]_vars => [Abstract!Next]_Fates
  BY NextMaps
<1>3. QED
  BY <1>1, <1>2, StringsInvariant, PTL DEF Spec, MailboxSpec, Abstract!Spec, Fates

-----------------------------------------------------------------------------
(***************************************************************************)
(* Who prints an uninitialised buffer.                                     *)
(***************************************************************************)
OtherRemoved(r) == \E q \in Readers \ {r} : pc[q] = "done"

Delivered(w) == \E q \in Readers : got[q] = w

\* Why f is not at its end for a reader: of the writers that opened it one
\* has still to write, or was killed, or its string is there or was taken.
Witness(f, w) ==
    fd[w] = f /\ (pc[w] = "write" \/ pc[w] = "killed" \/ In(w, fifo[f].data) \/ Delivered(w))

\* Without a name somebody removed it.
Named == \A p \in Procs : pc[p] = "open" /\ name = None => SomeoneRemoved

NoDescriptor == \A r \in Readers : pc[r] \in PastRead \cup {"read"} /\ fd[r] = None => OtherRemoved(r)

WriterMet == \A r \in Readers : pc[r] = "read" /\ fd[r] # None => \E w \in Writers : Witness(fd[r], w)

\* What a writer wrote is not lost before it closes.
NotLostYet ==
    \A w \in Writers : pc[w] = "close" /\ fd[w] # None =>
        In(w, fifo[fd[w]].data) \/ Delivered(w)

Causes == Named /\ NoDescriptor /\ WriterMet /\ NotLostYet /\ GarbageExplained

LEMMA GotKept ==
    ASSUME Base, Strings, NEW p \in Procs, Step(p) \/ Kill(p)
    PROVE  \A q \in Readers : got[q] # None \/ pc[q] # "read" => got'[q] = got[q]
<1>1. \A q \in Readers : pc[q] = "read" => got[q] = None
  BY DEF Strings, AfterRead
<1>2. QED
  BY <1>1, Effects DEF Effect, Less, Takes, Puts

\* A string in a fifo that somebody holds stays there or is delivered.
LEMMA InKept ==
    ASSUME Base, Strings, NEW p \in Procs, Step(p) \/ Kill(p),
           NEW f \in Procs, NEW w \in Writers, In(w, fifo[f].data) \/ Delivered(w),
           fifo'[f].rd # {} \/ fifo'[f].wr # {}
    PROVE  In(w, fifo'[f].data) \/ Delivered(w)'
<1>1. CASE Delivered(w)
  BY <1>1, GotKept, Kinds DEF Delivered
<1>2. CASE In(w, fifo[f].data) /\ Less
  BY <1>2 DEF Less
<1>3. ASSUME In(w, fifo[f].data), NEW r \in Readers, Takes(r)
      PROVE  In(w, fifo'[f].data) \/ Delivered(w)'
  <2>1. CASE f # fd[r]
    BY <1>3, <2>1 DEF Takes
  <2>2. CASE f = fd[r]
    <3>1. fifo[f].data \in Seq(Writers) /\ fifo[f].data # <<>>
      BY <1>3, <2>2 DEF Takes, Base, TypeInv, PipeSet
    <3>2. w # Head(fifo[f].data) => In(w, Tail(fifo[f].data))
      BY <1>3, <3>1, InTail
    <3>3. fifo'[f].data = Tail(fifo[f].data) /\ got'[r] = Head(fifo[f].data)
      BY <1>3, <2>2 DEF Takes
    <3>4. QED
      BY <3>2, <3>3 DEF Delivered
  <2>3. QED
    BY <2>1, <2>2
<1>4. ASSUME In(w, fifo[f].data), NEW v \in Writers, Puts(v)
      PROVE  In(w, fifo'[f].data)
  <2>1. CASE f # fd[v]
    BY <1>4, <2>1 DEF Puts
  <2>2. CASE f = fd[v]
    <3>1. fifo[f].data \in Seq(Writers)
      BY DEF Base, TypeInv, PipeSet
    <3>2. In(w, Append(fifo[f].data, v))
      BY <1>4, <3>1, InAppend
    <3>3. QED
      BY <1>4, <2>2, <3>2 DEF Puts
  <2>3. QED
    BY <2>1, <2>2
<1>5. QED
  BY <1>1, <1>2, <1>3, <1>4, Effects DEF Effect

\* A writer about to write puts its string into the fifo or is ended.
LEMMA WriteOutcome ==
    ASSUME Base, NEW w \in Writers, Step(w) \/ Kill(w), pc[w] = "write", fd[w] # None
    PROVE  pc'[w] = "killed" \/ (pc'[w] = "close" /\ In(w, fifo'[fd[w]].data))
<1>1. CASE Kill(w)
  BY <1>1, GotoFacts, Kinds DEF Kill, Base, Labels, Ended
<1>2. CASE Step(w)
  <2>1. Write(w) /\ w \in Procs
    BY <1>2, Kinds DEF Step, Mkfifo, Open, Close
  <2>2. CASE Broken(fifo[fd[w]])
    BY <2>1, <2>2, GotoFacts DEF Write, Base, Labels, Ended
  <2>3. CASE ~Broken(fifo[fd[w]])
    <3>1. fifo[fd[w]].data \in Seq(Writers) /\ fifo'[fd[w]].data = Append(fifo[fd[w]].data, w)
          /\ Goto(w, "close")
      BY <2>1, <2>3, Writing
    <3>2. In(w, Append(fifo[fd[w]].data, w))
      BY <3>1, InAppend
    <3>3. QED
      BY <2>1, <3>1, <3>2, GotoFacts DEF Base, Labels
  <2>4. QED
    BY <2>2, <2>3
<1>3. QED
  BY <1>1, <1>2

LEMMA WitnessKept ==
    ASSUME Base, Strings, NEW p \in Procs, Step(p) \/ Kill(p),
           NEW f \in Procs, NEW w \in Writers, Witness(f, w), fifo'[f].rd # {}
    PROVE  Witness(f, w)'
<1>1. fd[w] = f /\ f # None /\ w \in Procs
  BY Kinds DEF Witness
<1>2. fd'[w] = f
  BY <1>1, OpenSteps, OtherSteps, Kinds DEF Base, TypeInv
<1>3. CASE pc[w] = "write"
  <2>1. CASE w = p
    BY <1>1, <1>2, <1>3, <2>1, WriteOutcome DEF Witness
  <2>2. CASE w # p
    BY <1>1, <1>2, <1>3, <2>2, OpenSteps, OtherSteps DEF Witness
  <2>3. QED
    BY <2>1, <2>2
<1>4. CASE pc[w] = "killed"
  BY <1>1, <1>2, <1>4, LabelsAdvance DEF Witness
<1>5. CASE In(w, fifo[f].data) \/ Delivered(w)
  BY <1>2, <1>5, InKept DEF Witness
<1>6. QED
  BY <1>3, <1>4, <1>5 DEF Witness

LEMMA RemovedStays ==
    ASSUME Base, NEW p \in Procs, Step(p) \/ Kill(p)
    PROVE  /\ SomeoneRemoved => SomeoneRemoved'
           /\ \A r \in Readers : OtherRemoved(r) => OtherRemoved(r)'
  BY LabelsAdvance DEF SomeoneRemoved, OtherRemoved

LEMMA NamedNext ==
    ASSUME Base, Named, NEW p \in Procs, Step(p) \/ Kill(p)
    PROVE  Named'
<1>1. CASE Open(p)
  BY <1>1, OpenSteps, RemovedStays DEF Named
<1>2. CASE ~Open(p)
  <2>1. CASE p \in Readers /\ pc'[p] = "done"
    BY <2>1 DEF Named, SomeoneRemoved
  <2>2. CASE name = None /\ name' = p
    BY <2>2, Kinds DEF Named
  <2>3. CASE name' = name /\ (pc'[p] = "open" => name # None)
    BY <1>2, <2>3, OtherSteps, RemovedStays DEF Named
  <2>4. QED
    BY <1>2, <2>1, <2>2, <2>3, OtherSteps
<1>3. QED
  BY <1>1, <1>2

LEMMA NoDescriptorNext ==
    ASSUME Base, Named, Rendezvous, NoDescriptor, NEW p \in Procs, Step(p) \/ Kill(p)
    PROVE  NoDescriptor'
<1> SUFFICES ASSUME NEW r \in Readers, pc'[r] \in PastRead \cup {"read"}, fd'[r] = None
             PROVE  OtherRemoved(r)'
  BY DEF NoDescriptor
<1>1. r \in Procs
  BY Kinds
<1>2. CASE pc[r] \in PastRead \cup {"read"} /\ fd[r] = None
  BY <1>2, RemovedStays DEF NoDescriptor
<1>3. CASE Open(p) /\ p = r
  <2>1. SomeoneRemoved /\ pc[r] = "open"
    BY <1>3, OpenSteps DEF Named
  <2>2. OtherRemoved(r)
    BY <2>1 DEF SomeoneRemoved, OtherRemoved
  <2>3. QED
    BY <2>2, RemovedStays
<1>4. CASE Open(p) /\ p # r
  <2>1. fd[r] = None /\ (pc'[r] = pc[r] \/ pc[r] = "blocked")
    BY <1>1, <1>4, OpenSteps
  <2>2. pc[r] # "blocked"
    BY <1>1, <2>1 DEF Rendezvous
  <2>3. QED
    BY <1>2, <2>1, <2>2
<1>5. CASE ~Open(p)
  <2>1. fd[r] = None /\ pc[r] \in PastRead \cup {"read"}
    BY <1>1, <1>5, OtherSteps DEF PastRead
  <2>2. QED
    BY <1>2, <2>1
<1>6. QED
  BY <1>3, <1>4, <1>5

LEMMA WriterMetNext ==
    ASSUME Base, Base', Strings, Rendezvous, WriterMet, NotLostYet,
           NEW p \in Procs, Step(p) \/ Kill(p)
    PROVE  WriterMet'
<1> SUFFICES ASSUME NEW r \in Readers, pc'[r] = "read", fd'[r] # None,
                    NEW f, f = fd'[r]
             PROVE  \E w \in Writers : Witness(f, w)'
  BY DEF WriterMet, Witness, Delivered
<1>1. r \in Procs /\ f \in Procs /\ fifo'[f].rd # {}
  BY Kinds DEF Base, TypeInv, Ends, Holding
<1>2. CASE pc[r] = "read" /\ fd[r] = fd'[r]
  <2>1. PICK w \in Writers : Witness(fd[r], w)
    BY <1>2 DEF WriterMet
  <2>2. QED
    BY <1>1, <1>2, <2>1, WitnessKept
<1>3. CASE Open(p) /\ p = r
  <2>1. fd'[r] = name /\ name \in Procs /\ pc'[r] # "blocked"
    BY <1>1, <1>3, OpenSteps
  <2>2. PICK w \in Writers : w \in fifo[name].wr
    <3>1. Partners(name, p) # {} /\ Partners(name, p) = fifo[name].wr
      BY <1>3, <2>1, Opening, Kinds DEF Partners
    <3>2. fifo[name].wr \subseteq Writers
      BY <2>1 DEF Base, TypeInv, PipeSet
    <3>3. QED
      BY <3>1, <3>2
  <2>3. fd[w] = name /\ pc[w] \in Holding /\ w \in Procs /\ w # p
    BY <1>3, <2>1, <2>2, Kinds DEF Base, Ends
  <2>4. fd'[w] = name
    BY <1>3, <2>3, OpenSteps
  <2>5. CASE pc[w] = "blocked"
    <3>1. w \in Woken(p)
      BY <1>3, <2>1, <2>2, <2>3, <2>5, Kinds DEF Woken, Partners
    <3>2. pc'[w] = "write"
      BY <1>3, <2>3, <3>1, Opening, Kinds DEF AfterOpen
    <3>3. QED
      BY <2>1, <2>4, <3>2 DEF Witness
  <2>6. CASE pc[w] = "write"
    <3>1. pc'[w] = "write"
      BY <1>3, <2>3, <2>6, OpenSteps
    <3>2. QED
      BY <2>1, <2>4, <3>1 DEF Witness
  <2>7. CASE pc[w] = "close"
    <3>1. In(w, fifo[name].data) \/ Delivered(w)
      BY <2>1, <2>3, <2>7, Kinds DEF NotLostYet
    <3>2. In(w, fifo'[name].data) \/ Delivered(w)'
      BY <1>1, <2>1, <3>1, InKept
    <3>3. QED
      BY <2>1, <2>4, <3>2 DEF Witness
  <2>8. QED
    BY <2>3, <2>5, <2>6, <2>7 DEF Holding, Base, TypeInv, WriterLabels
<1>4. CASE Open(p) /\ p # r /\ pc[r] = "blocked"
  <2>1. fd'[r] = fd[r] /\ r \in Woken(p)
    BY <1>1, <1>4, Opening
  <2>2. name \in Procs /\ r \in Partners(name, p)
    BY <2>1 DEF Woken, Base, TypeInv
  <2>3. p \in Writers /\ r \in fifo[name].rd
    <3>1. fifo[name].wr \subseteq Writers
      BY <2>2 DEF Base, TypeInv, PipeSet
    <3>2. QED
      BY <2>2, <3>1, Kinds DEF Partners
  <2>4. fd[r] = name /\ pc'[p] = "write" /\ fd'[p] = name
    BY <1>4, <2>2, <2>3, Opening, Kinds DEF AfterOpen, Base, Ends
  <2>5. QED
    BY <2>1, <2>3, <2>4 DEF Witness
<1>5. \/ pc[r] = "read" /\ fd[r] = fd'[r]
      \/ Open(p) /\ p = r
      \/ Open(p) /\ p # r /\ pc[r] = "blocked"
  BY <1>1, OpenSteps, OtherSteps
<1>6. QED
  BY <1>2, <1>3, <1>4, <1>5

LEMMA NotLostYetNext ==
    ASSUME Base, Base', Strings, NotLostYet, NEW p \in Procs, Step(p) \/ Kill(p)
    PROVE  NotLostYet'
<1> SUFFICES ASSUME NEW w \in Writers, pc'[w] = "close", fd'[w] # None
             PROVE  In(w, fifo'[fd'[w]].data) \/ Delivered(w)'
  BY DEF NotLostYet
<1>1. w \in Procs /\ fd'[w] \in Procs /\ fifo'[fd'[w]].wr # {}
  BY Kinds DEF Base, TypeInv, Ends, Holding
<1>2. CASE pc[w] = "close" /\ fd'[w] = fd[w]
  BY <1>1, <1>2, InKept DEF NotLostYet
<1>3. CASE pc[w] = "write" /\ w = p /\ fd'[w] = fd[w]
  BY <1>1, <1>3, WriteOutcome
<1>4. \/ pc[w] = "close" /\ fd'[w] = fd[w]
      \/ pc[w] = "write" /\ w = p /\ fd'[w] = fd[w]
  <2>1. CASE Open(p)
    BY <1>1, <2>1, OpenSteps
  <2>2. CASE ~Open(p)
    <3>1. fd' = fd /\ (w # p => pc'[w] = pc[w])
      BY <1>1, <2>2, OtherSteps
    <3>2. w = p => pc[w] \in Holding /\ pc[w] # "blocked"
      BY <2>2, OtherSteps DEF Holding
    <3>3. QED
      BY <3>1, <3>2 DEF Holding, Base, TypeInv, WriterLabels
  <2>3. QED
    BY <2>1, <2>2
<1>5. QED
  BY <1>2, <1>3, <1>4

LEMMA GarbageNext ==
    ASSUME Base, Strings, NoDescriptor, WriterMet, GarbageExplained,
           NEW p \in Procs, Step(p) \/ Kill(p)
    PROVE  GarbageExplained'
<1> SUFFICES ASSUME NEW r \in Readers, pc'[r] \in PastRead, got'[r] = None
             PROVE  IF fd'[r] = None THEN OtherRemoved(r)'
                    ELSE \E w \in Writers : /\ fd'[w] = fd'[r]
                                            /\ \/ pc'[w] = "killed"
                                               \/ \E q \in Readers \ {r} : got'[q] = w
  BY DEF GarbageExplained, OtherRemoved
<1>1. r \in Procs
  BY Kinds
<1>2. \A w \in Procs : fd[w] # None => fd'[w] = fd[w]
  BY OpenSteps, OtherSteps DEF Base, TypeInv
<1>3. \/ pc[r] \in PastRead /\ fd'[r] = fd[r] /\ got[r] = None
      \/ pc[r] = "read" /\ p = r /\ fd'[r] = fd[r]
  <2>1. CASE Open(p)
    <3>1. pc[r] \in PastRead /\ r # p
      BY <1>1, <2>1, OpenSteps DEF PastRead
    <3>2. fd'[r] = fd[r] /\ got'[r] = got[r]
      BY <1>1, <2>1, <3>1, OpenSteps
    <3>3. QED
      BY <3>1, <3>2
  <2>2. CASE ~Open(p)
    <3>1. fd' = fd /\ (pc[r] \in PastRead \/ (pc[r] = "read" /\ p = r))
      BY <1>1, <2>2, OtherSteps DEF PastRead
    <3>2. pc[r] \in PastRead => got[r] = None
      BY <1>1, GotKept DEF PastRead
    <3>3. QED
      BY <3>1, <3>2
  <2>3. QED
    BY <2>1, <2>2
<1>4. CASE fd'[r] = None
  <2>1. OtherRemoved(r)
    BY <1>3, <1>4 DEF NoDescriptor
  <2>2. QED
    BY <1>4, <2>1, RemovedStays
<1>5. CASE fd'[r] # None /\ pc[r] \in PastRead /\ fd'[r] = fd[r] /\ got[r] = None
  <2>1. PICK w \in Writers : fd[w] = fd[r] /\ (pc[w] = "killed" \/ \E q \in Readers \ {r} : got[q] = w)
    BY <1>5 DEF GarbageExplained
  <2>2. fd'[w] = fd'[r] /\ (pc[w] = "killed" => pc'[w] = "killed")
    BY <1>2, <1>5, <2>1, LabelsAdvance, Kinds
  <2>3. \A q \in Readers : got[q] = w => got'[q] = w
    BY GotKept, Kinds
  <2>4. QED
    BY <1>5, <2>1, <2>2, <2>3
<1>6. CASE fd'[r] # None /\ pc[r] = "read" /\ p = r /\ fd'[r] = fd[r]
  <2>1. Read(r)
    <3>1. ~Kill(r)
      <4>1. pc'[r] # "killed"
        BY DEF PastRead
      <4>2. QED
        BY <1>1, <4>1, GotoFacts DEF Kill, Base, Labels, Ended
    <3>2. QED
      BY <1>6, <3>1, Kinds DEF Step, Mkfifo, Open, Close, Remove
  <2>2. fd[r] \in Procs /\ fifo[fd[r]].data \in Seq(Writers)
    BY <1>6, <2>1, Reading
  <2>3. fifo[fd[r]].data = <<>> /\ fifo[fd[r]].wr = {}
    <3>1. CASE fifo[fd[r]].data # <<>>
      <4>1. got'[r] \in Writers
        BY <1>6, <2>1, <2>2, <3>1, Reading, InTail
      <4>2. QED
        BY <4>1, Kinds
    <3>2. QED
      BY <1>6, <2>1, <3>1, Reading
  <2>4. PICK w \in Writers : Witness(fd[r], w)
    BY <1>6 DEF WriterMet
  <2>5. fd[w] = fd[r] /\ (pc[w] = "killed" \/ Delivered(w))
    BY <2>2, <2>3, <2>4, InEmpty, Kinds DEF Witness, Base, Ends, Holding
  <2>6. got[r] = None
    BY <1>6 DEF Strings, AfterRead
  <2>7. fd'[w] = fd'[r] /\ (pc[w] = "killed" => pc'[w] = "killed")
    BY <1>2, <1>6, <2>5, LabelsAdvance, Kinds
  <2>8. Delivered(w) => \E q \in Readers \ {r} : got'[q] = w
    BY <2>6, GotKept, Kinds DEF Delivered
  <2>9. QED
    BY <1>6, <2>5, <2>7, <2>8
<1>7. QED
  BY <1>3, <1>4, <1>5, <1>6

LEMMA CausesNext ==
    ASSUME Base, Strings, Rendezvous, Causes, [Next]_vars
    PROVE  Causes'
<1>1. CASE UNCHANGED vars
  BY <1>1 DEF vars, Causes, Named, NoDescriptor, WriterMet, NotLostYet, GarbageExplained,
              SomeoneRemoved, OtherRemoved, Witness, Delivered
<1>2. ASSUME NEW p \in Procs, Step(p) \/ Kill(p)
      PROVE  Causes'
  BY <1>2, BaseNext, NamedNext, NoDescriptorNext, WriterMetNext, NotLostYetNext, GarbageNext
  DEF Causes
<1>3. QED
  BY <1>1, <1>2 DEF Next, Quiet

\* A reader that prints an uninitialised buffer was late for the name, or a
\* writer of its fifo was killed, or served another reader
\* (read_fifo.c:13-21), however many processes run.
THEOREM GarbageHasCause == Spec => []GarbageExplained
<1>1. Init => Causes
  BY Kinds DEF Init, Causes, Named, NoDescriptor, WriterMet, NotLostYet, GarbageExplained, PastRead
<1>2. Base /\ Strings /\ Rendezvous /\ Causes /\ [Next]_vars => Causes'
  BY CausesNext
<1>3. Causes => GarbageExplained
  BY DEF Causes
<1>4. QED
  BY <1>1, <1>2, <1>3, MeetInvariant, StringsInvariant, PTL DEF Spec
=============================================================================
