----------------------------- MODULE Fork_proofs -----------------------------
(***************************************************************************)
(* Proofs about Fork, for any number of signals from outside.              *)
(*                                                                         *)
(* FamilyInv says what each process knows of the other: a pid is stored    *)
(* only once fork() has returned, and whom a handler reached follows from  *)
(* the pid it used.  HandlerInv: from fork() on, the child has the handler *)
(* of SIGTERM unless the flags may have reset it.  ToldInv: a parent that  *)
(* leaves its handler has left the child ended or with a signal.           *)
(***************************************************************************)
EXTENDS Fork, TLAPS

-----------------------------------------------------------------------------
(* Types.                                                                  *)

TypeInv ==
    /\ TypeOK
    /\ \A p \in Procs : pc[p] = "caught" => serving[p] \in Signals

LEMMA TypeInit == Init => TypeInv
<1> SUFFICES ASSUME Init PROVE TypeInv
  OBVIOUS
<1>1. outside \in [Procs \X Signals -> 0 .. MaxSignals]
  BY ForkAssumption DEF Init
<1>2. QED
  BY <1>1 DEF Init, TypeInv, TypeOK, Procs, Signals, Labels

LEMMA TypeForward ==
    ASSUME TypeInv, NEW p \in Procs, Forward(p)
    PROVE  TypeInv'
<1>1. /\ pc[p] = "caught" /\ pc' = [pc EXCEPT ![p] = "exit1"]
      /\ UNCHANGED <<pid, handlers, flags, masked, serving, status, reaped, outside>>
  BY DEF Forward, Goto
<1>2. pending' \in [Procs -> SUBSET Signals]
  <2>1. serving[p] \in Signals /\ pending \in [Procs -> SUBSET Signals] /\ "child" \in Procs
    BY <1>1 DEF TypeInv, TypeOK, Procs
  <2>2. Send(serving[p], "child") \in [Procs -> SUBSET Signals]
    BY <2>1 DEF Send
  <2>3. pending' = pending \/ pending' = Send(serving[p], "child")
    BY DEF Forward
  <2>4. QED
    BY <2>1, <2>2, <2>3
<1>3. reached' \subseteq {"child", "everyone", "stranger"}
  <2>1. CASE pid[p] = "zero"
    BY <2>1 DEF Forward, TypeInv, TypeOK
  <2>2. CASE pid[p] # "zero"
    <3>1. pid[p] \in {"child", "error"}
      BY <2>2 DEF TypeInv, TypeOK
    <3>2. Target(p) \in {"child", "everyone", "stranger"}
      BY <3>1 DEF Target
    <3>3. QED
      BY <2>2, <3>2 DEF Forward, TypeInv, TypeOK
  <2>3. QED
    BY <2>1, <2>2
<1>4. TypeOK'
  BY <1>1, <1>2, <1>3 DEF TypeInv, TypeOK, Labels
<1>5. \A q \in Procs : pc'[q] = "caught" => serving'[q] \in Signals
  BY <1>1 DEF TypeInv, TypeOK
<1>6. QED
  BY <1>4, <1>5 DEF TypeInv

LEMMA TypeStep == TypeInv /\ [Next]_vars => TypeInv'
<1> SUFFICES ASSUME TypeInv, [Next]_vars PROVE TypeInv'
  OBVIOUS
<1>1. ASSUME NEW p \in Procs, Forward(p) PROVE TypeInv'
  BY <1>1, TypeForward
<1> USE DEF TypeInv, TypeOK, Procs, Signals, Labels, Goto, noSignals
<1>2. CASE Sigaction
  BY <1>2 DEF Sigaction
<1>3. CASE ForkChild
  BY <1>3 DEF ForkChild
<1>4. CASE Assign
  BY <1>4 DEF Assign
<1>5. CASE Wake
  BY <1>5 DEF Wake
<1>6. CASE Wait
  BY <1>6 DEF Wait
<1>7. ASSUME NEW p \in Procs, SignalInt(p) PROVE TypeInv'
  BY <1>7 DEF SignalInt
<1>8. ASSUME NEW p \in Procs, Exit(p) PROVE TypeInv'
  BY <1>8 DEF Exit, End
<1>9. ASSUME NEW p \in Procs, NEW s \in Signals, Deliver(p, s) PROVE TypeInv'
  <2>1. CASE s \in handlers[p]
    BY <1>9, <2>1 DEF Deliver
  <2>2. CASE s \notin handlers[p]
    BY <1>9, <2>2 DEF Deliver, End
  <2>3. QED
    BY <2>1, <2>2
<1>10. ASSUME NEW p \in Procs, NEW s \in Signals, FromOutside(p, s) PROVE TypeInv'
  BY <1>10, ForkAssumption DEF FromOutside, Send
<1>11. CASE UNCHANGED vars
  BY <1>11 DEF vars
<1>12. QED
  BY <1>1, <1>2, <1>3, <1>4, <1>5, <1>6, <1>7, <1>8, <1>9, <1>10, <1>11
     DEF Next, Step, Over

-----------------------------------------------------------------------------
(* What the processes know of each other.                                  *)

FamilyInv ==
    /\ pc["parent"] \in {"sigaction", "fork"} => pc["child"] = "absent"
    /\ pc["parent"] \in {"sigaction", "fork", "assign"} => pid["parent"] = "zero"
    /\ pc["parent"] \notin {"absent", "sleep"}
    /\ pid["child"] = "zero"
    /\ pid["parent"] = "child" => pc["child"] # "absent"
    /\ pid["parent"] = "error" => pc["child"] = "absent"
    /\ status["parent"] # "none" => pc["parent"] = "ended"
    /\ reaped => pc["child"] = "ended"
    /\ "everyone" \in reached => pid["parent"] = "error"
    /\ "stranger" \in reached => reaped

LEMMA FamilyInit == Init => FamilyInv
  BY DEF Init, FamilyInv, Procs

LEMMA FamilyStep == TypeInv /\ FamilyInv /\ [Next]_vars => FamilyInv'
<1> SUFFICES ASSUME TypeInv, FamilyInv, [Next]_vars PROVE FamilyInv'
  OBVIOUS
<1> USE DEF FamilyInv, TypeInv, TypeOK, Procs, Goto, Alive, noSignals
<1>1. CASE Sigaction
  BY <1>1 DEF Sigaction
<1>2. CASE ForkChild
  BY <1>2 DEF ForkChild
<1>3. CASE Assign
  BY <1>3 DEF Assign
<1>4. CASE Wake
  BY <1>4 DEF Wake
<1>5. CASE Wait
  BY <1>5 DEF Wait
<1>6. ASSUME NEW p \in Procs, SignalInt(p) PROVE FamilyInv'
  BY <1>6 DEF SignalInt
<1>7. ASSUME NEW p \in Procs, Exit(p) PROVE FamilyInv'
  <2>1. /\ pc' = [pc EXCEPT ![p] = "ended"] /\ status' = [status EXCEPT ![p] = pc[p]]
        /\ pc[p] \in {"exit0", "exit1"} /\ UNCHANGED <<pid, reaped, reached>>
    BY <1>7 DEF Exit, End
  <2>2. CASE p = "parent"
    BY <2>1, <2>2
  <2>3. CASE p = "child"
    BY <2>1, <2>3
  <2>4. QED
    BY <2>2, <2>3
<1>8. ASSUME NEW p \in Procs, Forward(p) PROVE FamilyInv'
  <2>1. CASE pid[p] = "zero"
    BY <1>8, <2>1 DEF Forward
  <2>2. CASE pid[p] # "zero"
    <3>1. p = "parent" /\ reached' = reached \cup {Target("parent")}
      BY <1>8, <2>2 DEF Forward
    <3>2. "everyone" \in reached' => pid["parent"] = "error"
      BY <3>1 DEF Target
    <3>3. "stranger" \in reached' => reaped
      BY <3>1 DEF Target
    <3>4. /\ pc["parent"] = "caught" /\ pc' = [pc EXCEPT !["parent"] = "exit1"]
          /\ UNCHANGED <<pid, status, reaped>>
      BY <1>8, <3>1 DEF Forward
    <3>5. QED
      BY <3>2, <3>3, <3>4
  <2>3. QED
    BY <2>1, <2>2
<1>9. ASSUME NEW p \in Procs, NEW s \in Signals, Deliver(p, s) PROVE FamilyInv'
  <2>1. pc[p] # "absent" /\ pc[p] # "ended"
    BY <1>9 DEF Deliver
  <2>2. /\ pc' = [pc EXCEPT ![p] = "caught"] \/ pc' = [pc EXCEPT ![p] = "ended"]
        /\ UNCHANGED <<pid, reaped, reached>>
        /\ \/ status' = status
           \/ pc'[p] = "ended" /\ status' = [status EXCEPT ![p] = s]
    BY <1>9 DEF Deliver, End
  <2>3. QED
    BY <2>1, <2>2
<1>10. ASSUME NEW p \in Procs, NEW s \in Signals, FromOutside(p, s) PROVE FamilyInv'
  BY <1>10 DEF FromOutside
<1>11. CASE UNCHANGED vars
  BY <1>11 DEF vars
<1>12. QED
  BY <1>1, <1>2, <1>3, <1>4, <1>5, <1>6, <1>7, <1>8, <1>9, <1>10, <1>11
     DEF Next, Step, Over

-----------------------------------------------------------------------------
(* The handler of SIGTERM.                                                 *)

HandlerInv ==
    /\ pc["parent"] = "fork" => "TERM" \in handlers["parent"]
    /\ Alive("child") => "TERM" \in handlers["child"] \/ "resethand" \in flags
    /\ pc["child"] = "absent" => status["child"] = "none"
    /\ ChildCatchesTerm

LEMMA HandlerInit == Init => HandlerInv
  BY DEF Init, HandlerInv, ChildCatchesTerm, Alive, Procs

LEMMA HandlerStep == TypeInv /\ FamilyInv /\ HandlerInv /\ [Next]_vars => HandlerInv'
<1> SUFFICES ASSUME TypeInv, FamilyInv, HandlerInv, [Next]_vars PROVE HandlerInv'
  OBVIOUS
<1> USE DEF HandlerInv, ChildCatchesTerm, FamilyInv, TypeInv, TypeOK, Procs, Goto, Alive, noSignals
<1>1. CASE Sigaction
  BY <1>1 DEF Sigaction
<1>2. CASE ForkChild
  BY <1>2 DEF ForkChild
<1>3. CASE Assign
  BY <1>3 DEF Assign
<1>4. CASE Wake
  BY <1>4 DEF Wake
<1>5. CASE Wait
  BY <1>5 DEF Wait
<1>6. ASSUME NEW p \in Procs, SignalInt(p) PROVE HandlerInv'
  BY <1>6 DEF SignalInt
<1>7. ASSUME NEW p \in Procs, Exit(p) PROVE HandlerInv'
  BY <1>7 DEF Exit, End
<1>8. ASSUME NEW p \in Procs, Forward(p) PROVE HandlerInv'
  BY <1>8 DEF Forward
<1>9. ASSUME NEW p \in Procs, NEW s \in Signals, Deliver(p, s) PROVE HandlerInv'
  <2>1. pc[p] # "absent" /\ pc[p] # "ended" /\ UNCHANGED flags
    BY <1>9 DEF Deliver
  <2>2. CASE s \in handlers[p]
    BY <1>9, <2>1, <2>2 DEF Deliver, Signals
  <2>3. CASE s \notin handlers[p]
    BY <1>9, <2>1, <2>3 DEF Deliver, End, Signals
  <2>4. QED
    BY <2>2, <2>3
<1>10. ASSUME NEW p \in Procs, NEW s \in Signals, FromOutside(p, s) PROVE HandlerInv'
  BY <1>10 DEF FromOutside
<1>11. CASE UNCHANGED vars
  BY <1>11 DEF vars
<1>12. QED
  BY <1>1, <1>2, <1>3, <1>4, <1>5, <1>6, <1>7, <1>8, <1>9, <1>10, <1>11
     DEF Next, Step, Over

-----------------------------------------------------------------------------
(* The child is told.                                                      *)

Told == ~Alive("child") \/ pending["child"] # {} \/ serving["child"] # "none"

ToldInv ==
    (pc["parent"] = "exit1" \/ status["parent"] = "exit1") /\ pid["parent"] = "child" => Told

LEMMA ToldInit == Init => ToldInv
  BY DEF Init, ToldInv, Procs

\* Once told, the child stays told.
LEMMA ToldStays ==
    ASSUME TypeInv, FamilyInv, [Next]_vars, Told, pid["parent"] = "child"
    PROVE  Told'
<1> USE DEF Told, FamilyInv, TypeInv, TypeOK, Procs, Signals, Goto, Alive, noSignals
<1>1. CASE Sigaction
  BY <1>1 DEF Sigaction
<1>2. CASE ForkChild
  BY <1>2 DEF ForkChild
<1>3. CASE Assign
  BY <1>3 DEF Assign
<1>4. CASE Wake
  BY <1>4 DEF Wake
<1>5. CASE Wait
  BY <1>5 DEF Wait
<1>6. ASSUME NEW p \in Procs, SignalInt(p) PROVE Told'
  BY <1>6 DEF SignalInt
<1>7. ASSUME NEW p \in Procs, Exit(p) PROVE Told'
  BY <1>7 DEF Exit, End
<1>8. ASSUME NEW p \in Procs, Forward(p) PROVE Told'
  <2>1. pending' = pending \/ pending' = Send(serving[p], "child")
    BY <1>8 DEF Forward
  <2>2. pending["child"] \subseteq pending'["child"]
    BY <2>1 DEF Send
  <2>3. /\ pc[p] = "caught" /\ pc' = [pc EXCEPT ![p] = "exit1"] /\ UNCHANGED serving
    BY <1>8 DEF Forward
  <2>4. QED
    BY <2>2, <2>3
<1>9. ASSUME NEW p \in Procs, NEW s \in Signals, Deliver(p, s) PROVE Told'
  <2>1. CASE s \in handlers[p]
    BY <1>9, <2>1 DEF Deliver
  <2>2. CASE s \notin handlers[p]
    BY <1>9, <2>2 DEF Deliver, End
  <2>3. QED
    BY <2>1, <2>2
<1>10. ASSUME NEW p \in Procs, NEW s \in Signals, FromOutside(p, s) PROVE Told'
  BY <1>10 DEF FromOutside, Send
<1>11. CASE UNCHANGED vars
  BY <1>11 DEF vars
<1>12. QED
  BY <1>1, <1>2, <1>3, <1>4, <1>5, <1>6, <1>7, <1>8, <1>9, <1>10, <1>11
     DEF Next, Step, Over

LEMMA ToldStep == TypeInv /\ FamilyInv /\ ToldInv /\ [Next]_vars => ToldInv'
<1> SUFFICES ASSUME TypeInv, FamilyInv, ToldInv, [Next]_vars,
                    pc'["parent"] = "exit1" \/ status'["parent"] = "exit1",
                    pid'["parent"] = "child"
             PROVE  Told'
  BY DEF ToldInv
<1>a. ASSUME (pc["parent"] = "exit1" \/ status["parent"] = "exit1") /\ pid["parent"] = "child"
      PROVE  Told'
  BY <1>a, ToldStays DEF ToldInv
<1> USE DEF FamilyInv, TypeInv, TypeOK, Procs, Signals, Goto, noSignals
<1>1. CASE Sigaction
  BY <1>1, <1>a DEF Sigaction
<1>2. CASE ForkChild
  BY <1>2, <1>a DEF ForkChild
<1>3. CASE Assign
  BY <1>3, <1>a DEF Assign
<1>4. CASE Wake
  BY <1>4, <1>a DEF Wake
<1>5. CASE Wait
  BY <1>5, <1>a DEF Wait
<1>6. ASSUME NEW p \in Procs, SignalInt(p) PROVE Told'
  BY <1>6, <1>a DEF SignalInt
<1>7. ASSUME NEW p \in Procs, Exit(p) PROVE Told'
  BY <1>7, <1>a DEF Exit, End
<1>8. ASSUME NEW p \in Procs, Forward(p) PROVE Told'
  <2>1. CASE p = "parent"
    <3>1. pid["parent"] = "child" /\ pc' = [pc EXCEPT !["parent"] = "exit1"]
      BY <1>8, <2>1 DEF Forward
    <3>2. CASE ~Alive("child")
      BY <3>1, <3>2 DEF Told, Alive
    <3>3. CASE Alive("child")
      <4>1. ~reaped
        BY <3>3 DEF Alive
      <4>2. pending' = [pending EXCEPT !["child"] = @ \cup {serving["parent"]}]
        BY <1>8, <2>1, <3>1, <3>3, <4>1 DEF Forward, Target, Send
      <4>3. QED
        BY <4>2 DEF Told
    <3>4. QED
      BY <3>2, <3>3
  <2>2. CASE p # "parent"
    BY <1>8, <1>a, <2>2 DEF Forward
  <2>3. QED
    BY <2>1, <2>2
<1>9. ASSUME NEW p \in Procs, NEW s \in Signals, Deliver(p, s) PROVE Told'
  <2>1. CASE s \in handlers[p]
    BY <1>9, <1>a, <2>1 DEF Deliver
  <2>2. CASE s \notin handlers[p]
    BY <1>9, <1>a, <2>2 DEF Deliver, End
  <2>3. QED
    BY <2>1, <2>2
<1>10. ASSUME NEW p \in Procs, NEW s \in Signals, FromOutside(p, s) PROVE Told'
  BY <1>10, <1>a DEF FromOutside
<1>11. CASE UNCHANGED vars
  BY <1>11, <1>a DEF vars
<1>12. QED
  BY <1>1, <1>2, <1>3, <1>4, <1>5, <1>6, <1>7, <1>8, <1>9, <1>10, <1>11
     DEF Next, Step, Over

-----------------------------------------------------------------------------
(* The theorems.                                                           *)

IInv == TypeInv /\ FamilyInv /\ HandlerInv /\ ToldInv

\* The inductive invariant.
THEOREM Invariance == Spec => []IInv
<1>1. Init => IInv
  BY TypeInit, FamilyInit, HandlerInit, ToldInit DEF IInv
<1>2. IInv /\ [Next]_vars => IInv'
  BY TypeStep, FamilyStep, HandlerStep, ToldStep DEF IInv
<1>3. QED
  BY <1>1, <1>2, PTL DEF Spec

\* Types, for any number of signals.  Nobody ever calls kill(0): a handler
\* passes its signal on only when the pid is not 0 (main.c:18, 28).
THEOREM TypeCorrect == Spec => []TypeOK
<1>1. IInv => TypeOK
  BY DEF IInv, TypeInv
<1>2. QED
  BY <1>1, Invariance, PTL

\* While the child lives, the handlers' kill() (main.c:20, 30) reaches nobody
\* but the child, whenever and however often signals come.  Nothing is
\* claimed after a failed fork() or once wait() has collected the child.
THEOREM WhileTheChildLives == Spec => []OnlyTheLivingChild
<1>1. IInv => OnlyTheLivingChild
  BY DEF IInv, TypeInv, TypeOK, FamilyInv, OnlyTheLivingChild, Alive
<1>2. QED
  BY <1>1, Invariance, PTL

\* A parent that ends in a handler and knows the child does not leave it
\* asleep (main.c:18-22, 28-32).
THEOREM TellsTheChild == Spec => []ChildTold
<1>1. IInv => ChildTold
  BY DEF IInv, ToldInv, Told, ChildTold
<1>2. QED
  BY <1>1, Invariance, PTL

\* The child has the handler of SIGTERM from its first instruction on
\* (main.c:45-51).
THEOREM CatchesTerm == Spec => []ChildCatchesTerm
<1>1. IInv => ChildCatchesTerm
  BY DEF IInv, HandlerInv
<1>2. QED
  BY <1>1, Invariance, PTL
=============================================================================
