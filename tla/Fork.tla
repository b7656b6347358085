-------------------------------- MODULE Fork --------------------------------
(***************************************************************************)
(* fork/main.c: a parent that waits for its sleeping child; either catches *)
(* SIGTERM and SIGINT, and the handlers of the parent pass the signal on   *)
(* to the process whose id is in the global pid.                           *)
(*                                                                         *)
(* A signal may come at any moment, from the other process or from         *)
(* outside.  Handlers end in exit(), so of nested handlers only the        *)
(* innermost ever goes on.                                                 *)
(***************************************************************************)
EXTENDS Naturals

CONSTANT MaxSignals   \* bound: how often a signal comes from outside to a process

ASSUME ForkAssumption == MaxSignals \in Nat

Procs == {"parent", "child"}
Signals == {"TERM", "INT"}

VARIABLES
    pc,       \* where each process is
    pid,      \* the global of each process: "zero", "child" or "error" (-1)
    handlers, \* signals each process has a handler for
    flags,    \* of the uninitialised sa.sa_flags what matters here
    pending,  \* signals sent to each process and not yet delivered
    masked,   \* signals each process blocks, because their handler runs
    serving,  \* the signal whose handler a process is in
    status,   \* how each process ended: its exit code or the signal
    reaped,   \* the parent's wait() collected the child
    reached,  \* history: whom the handlers' kill() may have reached
    outside   \* of each signal, how often it can still come to each process

vars == <<pc, pid, handlers, flags, pending, masked, serving, status, reaped, reached, outside>>

Init ==
    /\ pc = [p \in Procs |-> IF p = "parent" THEN "sigaction" ELSE "absent"]
    /\ pid = [p \in Procs |-> "zero"]
    /\ handlers = [p \in Procs |-> {}]
    /\ flags = {}
    /\ pending = [p \in Procs |-> {}]
    /\ masked = [p \in Procs |-> {}]
    /\ serving = [p \in Procs |-> "none"]
    /\ status = [p \in Procs |-> "none"]
    /\ reaped = FALSE
    /\ reached = {}
    /\ outside = [to \in Procs \X Signals |-> MaxSignals]

Goto(p, label) == pc' = [pc EXCEPT ![p] = label]
Alive(p) == pc[p] \notin {"absent", "ended"}
noSignals == <<flags, pending, masked, serving, reached, outside>>

-----------------------------------------------------------------------------
(* main()                                                                  *)

\* sigaction(SIGTERM, &sa, NULL) with whatever sa_flags holds.
Sigaction ==
    /\ pc["parent"] = "sigaction"
    /\ handlers' = [handlers EXCEPT !["parent"] = {"TERM"}]
    /\ flags' \in SUBSET {"resethand", "nodefer"}
    /\ Goto("parent", "fork")
    /\ UNCHANGED <<pid, pending, masked, serving, status, reaped, reached, outside>>

\* The child has its parent's handlers and no pending signal; fork() may fail.
ForkBeforeHandlers ==                              \* mutant
    /\ pc["parent"] = "fork"
    /\ \/ pc' = [pc EXCEPT !["parent"] = "assign", !["child"] = "signal"]
       \/ Goto("parent", "assign")
    /\ UNCHANGED <<pid, handlers, status, reaped>> /\ UNCHANGED noSignals

ForkChild ==
    /\ pc["parent"] = "fork"
    /\ \/ /\ pc' = [pc EXCEPT !["parent"] = "assign", !["child"] = "signal"]
          /\ handlers' = [handlers EXCEPT !["child"] = handlers["parent"]]
       \/ Goto("parent", "assign") /\ UNCHANGED handlers
    /\ UNCHANGED <<pid, status, reaped>> /\ UNCHANGED noSignals

\* pid = fork() stores the result; in the child pid stays 0.
Assign ==
    /\ pc["parent"] = "assign"
    /\ pid' = [pid EXCEPT !["parent"] = IF pc["child"] = "absent" THEN "error" ELSE "child"]
    /\ Goto("parent", IF pc["child"] = "absent" THEN "exit1" ELSE "signal")
    /\ UNCHANGED <<handlers, status, reaped>> /\ UNCHANGED noSignals

\* signal(SIGINT, catch_sigint), after the fork in both.
SignalInt(p) ==
    /\ pc[p] = "signal"
    /\ handlers' = [handlers EXCEPT ![p] = @ \cup {"INT"}]
    /\ Goto(p, IF p = "child" THEN "sleep" ELSE "wait")
    /\ UNCHANGED <<pid, status, reaped>> /\ UNCHANGED noSignals

\* sleep(sleep_dur) ends, the child returns from main().
Wake ==
    /\ pc["child"] = "sleep"
    /\ Goto("child", "exit0")
    /\ UNCHANGED <<pid, handlers, status, reaped>> /\ UNCHANGED noSignals

\* wait(&wstatus)
Wait ==
    /\ pc["parent"] = "wait"
    /\ pc["child"] = "ended"
    /\ reaped' = TRUE
    /\ Goto("parent", "exit0")
    /\ UNCHANGED <<pid, handlers, status>> /\ UNCHANGED noSignals

\* exit(): print_pid_at_exit(), and the process is gone.
End(p, how) ==
    /\ Goto(p, "ended")
    /\ status' = [status EXCEPT ![p] = how]
    /\ pending' = [pending EXCEPT ![p] = {}]

Exit(p) ==
    /\ pc[p] \in {"exit0", "exit1"}
    /\ End(p, pc[p])
    /\ UNCHANGED <<pid, handlers, flags, masked, serving, reaped, reached, outside>>

-----------------------------------------------------------------------------
(* Signals                                                                 *)

Send(s, p) == IF Alive(p) THEN [pending EXCEPT ![p] = @ \cup {s}] ELSE pending

\* kill(1), a terminal or another program.
FromOutside(p, s) ==
    /\ Alive(p) /\ outside[<<p, s>>] > 0
    /\ outside' = [outside EXCEPT ![<<p, s>>] = @ - 1]
    /\ pending' = Send(s, p)
    /\ UNCHANGED <<pc, pid, handlers, flags, masked, serving, status, reaped, reached>>

\* A signal without a handler ends the process; a handler blocks its signal
\* while it runs, which is until the end, unless sa_flags says otherwise.
Deliver(p, s) ==
    /\ Alive(p) /\ s \in pending[p] \ masked[p]
    /\ IF s \in handlers[p]
       THEN /\ pending' = [pending EXCEPT ![p] = @ \ {s}]
            /\ serving' = [serving EXCEPT ![p] = s]
            /\ masked' = IF s = "TERM" /\ "nodefer" \in flags THEN masked
                         ELSE [masked EXCEPT ![p] = @ \cup {s}]
            /\ handlers' = IF s = "TERM" /\ "resethand" \in flags
                           THEN [handlers EXCEPT ![p] = @ \ {s}] ELSE handlers
            /\ Goto(p, "caught")
            /\ UNCHANGED status
       ELSE End(p, s) /\ UNCHANGED <<serving, masked, handlers>>
    /\ UNCHANGED <<pid, flags, reaped, reached, outside>>

\* catch_sigint, catch_sigterm: if (pid) kill(pid, s); exit(EXIT_FAILURE).
\* kill(-1) reaches every process of the user but this one; the id of a
\* child that was reaped may be somebody else's by now.
Target(p) ==
    IF pid[p] = "error" THEN "everyone"
    ELSE IF pid[p] = "child" THEN (IF reaped THEN "stranger" ELSE "child")
    ELSE "group"                                   \* kill(0)

ForwardAlways(p) ==                                \* mutant
    /\ pc[p] = "caught"
    /\ reached' = reached \cup {Target(p)}
    /\ pending' = IF Target(p) = "child" THEN Send(serving[p], "child") ELSE pending
    /\ Goto(p, "exit1")
    /\ UNCHANGED <<pid, handlers, flags, masked, serving, status, reaped, outside>>

ForwardToNobody(p) ==                              \* mutant
    /\ pc[p] = "caught"
    /\ Goto(p, "exit1")
    /\ UNCHANGED <<pid, handlers, status, reaped>> /\ UNCHANGED noSignals

Forward(p) ==
    /\ pc[p] = "caught"
    /\ IF pid[p] = "zero" THEN UNCHANGED <<reached, pending>>
       ELSE /\ reached' = reached \cup {Target(p)}
            /\ pending' = IF Target(p) = "child" THEN Send(serving[p], "child") ELSE pending
    /\ Goto(p, "exit1")
    /\ UNCHANGED <<pid, handlers, flags, masked, serving, status, reaped, outside>>

-----------------------------------------------------------------------------
Step ==
    \/ Sigaction \/ ForkChild \/ Assign \/ Wake \/ Wait
    \/ \E p \in Procs : SignalInt(p) \/ Exit(p) \/ Forward(p) \/ \E s \in Signals : Deliver(p, s)

\* Both have ended; TLC reports every other state without a step.
Over == (\A p \in Procs : ~Alive(p)) /\ UNCHANGED vars

Next == Step \/ Over \/ \E p \in Procs, s \in Signals : FromOutside(p, s)

Spec == Init /\ [][Next]_vars

-----------------------------------------------------------------------------
(* Properties.                                                             *)

Labels == {"absent", "sigaction", "fork", "assign", "signal", "sleep", "wait",
           "caught", "exit0", "exit1", "ended"}

\* In particular nobody ever calls kill(0), which reaches the whole group.
TypeOK ==
    /\ pc \in [Procs -> Labels]
    /\ pid \in [Procs -> {"zero", "child", "error"}]
    /\ handlers \in [Procs -> SUBSET Signals]
    /\ flags \subseteq {"resethand", "nodefer"}
    /\ pending \in [Procs -> SUBSET Signals]
    /\ masked \in [Procs -> SUBSET Signals]
    /\ serving \in [Procs -> Signals \cup {"none"}]
    /\ status \in [Procs -> Signals \cup {"none", "exit0", "exit1"}]
    /\ reaped \in BOOLEAN
    /\ reached \subseteq {"child", "everyone", "stranger"}
    /\ outside \in [Procs \X Signals -> 0 .. MaxSignals]

\* While the child lives, the handlers' kill() (main.c:20, 30) reaches nobody
\* but the child.  After a failed fork(), when pid is -1, and after wait(),
\* when pid is stale, nothing is claimed: it may then reach everybody, or a
\* stranger.
OnlyTheLivingChild == reached \subseteq {"child"} \/ ~Alive("child")

\* A parent that ends in a handler and knows the child (the result of fork()
\* was stored, main.c:51) does not leave it asleep: the child has ended, or
\* has been sent a signal that will end it.
ChildTold ==
    status["parent"] = "exit1" /\ pid["parent"] = "child" =>
        ~Alive("child") \/ pending["child"] # {} \/ serving["child"] # "none"

\* Because the handler of SIGTERM is installed before fork() (main.c:45), the
\* child always ends through it, and says so, however early the signal
\* comes; the exception is SA_RESETHAND among the uninitialised flags.
ChildCatchesTerm == status["child"] = "TERM" => "resethand" \in flags
=============================================================================
