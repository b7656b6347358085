-------------------------------- MODULE Pipe --------------------------------
(***************************************************************************)
(* pipe/pipe.c: a parent writes one string of BUFSIZE bytes into a pipe,   *)
(* its child reads and prints it.  Each side closes the end it does not    *)
(* use; pipe(), read() and write() are not checked.  Either process may be *)
(* killed at any moment.                                                   *)
(***************************************************************************)
EXTENDS KernelPipe

Procs == {"parent", "child"}

VARIABLES
    piped,    \* pipe() succeeded; otherwise pipe_fds holds no open descriptors
    pipe,     \* the kernel's pipe
    pc,       \* where each process is
    wrbuf,    \* the parent's buffer
    rdbuf,    \* the child's buffer
    printed,  \* what the child printed as the gotten string
    wrote,    \* history: the parent's write() returned BUFSIZE
    claimed   \* the parent printed "string has been written!"

vars == <<piped, pipe, pc, wrbuf, rdbuf, printed, wrote, claimed>>

Init ==
    /\ piped = FALSE
    /\ pipe = Fresh
    /\ pc = [p \in Procs |-> IF p = "parent" THEN "pipe" ELSE "absent"]
    /\ wrbuf = "garbage" /\ rdbuf = "garbage" /\ printed = "nothing"
    /\ wrote = FALSE /\ claimed = FALSE

Goto(p, label) == pc' = [pc EXCEPT ![p] = label]

\* A process that ends closes what it still has open.
End(p, label) == Goto(p, label) /\ pipe' = Without(pipe, p, {"rd", "wr"})

Ended == {"done", "failed", "killed", "sigpipe"}

-----------------------------------------------------------------------------
(* Both                                                                    *)

MakePipe ==
    /\ pc["parent"] = "pipe"
    /\ \/ piped' = TRUE /\ pipe' = [pipe EXCEPT !.rd = {"parent"}, !.wr = {"parent"}]
       \/ UNCHANGED <<piped, pipe>>
    /\ Goto("parent", "fork")
    /\ UNCHANGED <<wrbuf, rdbuf, printed, wrote, claimed>>

\* fork(): the child has both ends too; or it fails and the parent exits.
Fork ==
    /\ pc["parent"] = "fork"
    /\ \/ /\ pc' = [pc EXCEPT !["parent"] = "closeUnused", !["child"] = "closeUnused"]
          /\ pipe' = IF piped THEN [pipe EXCEPT !.rd = Procs, !.wr = Procs] ELSE pipe
       \/ End("parent", "failed")
    /\ UNCHANGED <<piped, wrbuf, rdbuf, printed, wrote, claimed>>

\* The end a process does not use.
UnusedOther(p) == "wr"                             \* mutant
UnusedNone(p) == IF p = "child" THEN "none" ELSE "rd"  \* mutant
Unused(p) == IF p = "child" THEN "wr" ELSE "rd"

CloseUnused(p) ==
    /\ pc[p] = "closeUnused"
    /\ pipe' = Without(pipe, p, {Unused(p)})
    /\ Goto(p, IF p = "child" THEN "sleep" ELSE "compose")
    /\ UNCHANGED <<piped, wrbuf, rdbuf, printed, wrote, claimed>>

Kill(p) ==
    /\ pc[p] \notin Ended \cup {"absent"}
    /\ End(p, "killed")
    /\ UNCHANGED <<piped, wrbuf, rdbuf, printed, wrote, claimed>>

-----------------------------------------------------------------------------
(* The child                                                               *)

\* sleep(SLEEPDUR) ends.
Wake ==
    /\ pc["child"] = "sleep"
    /\ Goto("child", "read")
    /\ UNCHANGED <<piped, pipe, wrbuf, rdbuf, printed, wrote, claimed>>

\* read(): rdbuf stays as it was at the end of the file and after an error.
Read ==
    /\ pc["child"] = "read"
    /\ "child" \in pipe.rd => Readable(pipe)
    /\ IF "child" \in pipe.rd
       THEN rdbuf' = Received(pipe, rdbuf) /\ pipe' = Rest(pipe)
       ELSE UNCHANGED <<rdbuf, pipe>>
    /\ Goto("child", "print")
    /\ UNCHANGED <<piped, wrbuf, printed, wrote, claimed>>

PrintString ==
    /\ pc["child"] = "print"
    /\ printed' = rdbuf
    /\ End("child", "done")
    /\ UNCHANGED <<piped, wrbuf, rdbuf, wrote, claimed>>

-----------------------------------------------------------------------------
(* The parent                                                              *)

\* memset, sprintf, strcat: the rest of the buffer is zero.
Compose ==
    /\ pc["parent"] = "compose"
    /\ wrbuf' = "string"
    /\ Goto("parent", "write")
    /\ UNCHANGED <<piped, pipe, rdbuf, printed, wrote, claimed>>

\* SIGPIPE without a reader.
Write ==
    /\ pc["parent"] = "write"
    /\ IF "parent" \notin pipe.wr                            \* EBADF
       THEN Goto("parent", "claim") /\ UNCHANGED <<pipe, wrote>>
       ELSE /\ Writable(pipe)
            /\ IF Broken(pipe) THEN End("parent", "sigpipe") /\ UNCHANGED wrote
               ELSE /\ pipe' = [pipe EXCEPT !.data = Append(@, wrbuf)]
                    /\ wrote' = TRUE
                    /\ Goto("parent", "claim")
    /\ UNCHANGED <<piped, wrbuf, rdbuf, printed, claimed>>

\* printf() says that the string has been written, write() failed or not.
Claim ==
    /\ pc["parent"] = "claim"
    /\ claimed' = TRUE
    /\ Goto("parent", "wait")
    /\ UNCHANGED <<piped, pipe, wrbuf, rdbuf, printed, wrote>>

WaitSkipped ==                                     \* mutant
    /\ pc["parent"] = "wait"
    /\ Goto("parent", "closeUsed")
    /\ UNCHANGED <<piped, pipe, wrbuf, rdbuf, printed, wrote, claimed>>

\* wait() returns once the child has ended, however; "done" is printed.
Wait ==
    /\ pc["parent"] = "wait"
    /\ pc["child"] \in Ended
    /\ Goto("parent", "closeUsed")
    /\ UNCHANGED <<piped, pipe, wrbuf, rdbuf, printed, wrote, claimed>>

\* close(pipe_fds[FD_WRITE]) and the end of main().
CloseUsed ==
    /\ pc["parent"] = "closeUsed"
    /\ End("parent", "done")
    /\ UNCHANGED <<piped, wrbuf, rdbuf, printed, wrote, claimed>>

-----------------------------------------------------------------------------
ParentStep == MakePipe \/ Fork \/ CloseUnused("parent") \/ Compose \/ Write \/ Claim \/ Wait \/ CloseUsed
ChildStep == CloseUnused("child") \/ Wake \/ Read \/ PrintString

Over == \A p \in Procs : pc[p] \in Ended \cup {"absent"}

Next == \/ ParentStep \/ ChildStep
        \/ \E p \in Procs : Kill(p)
        \/ Over /\ UNCHANGED vars

Spec == Init /\ [][Next]_vars

\* The kernel runs who can run; sleep() ends.
FairSpec == Spec /\ WF_vars(ParentStep) /\ WF_vars(ChildStep)

-----------------------------------------------------------------------------
(* Properties.                                                             *)

ParentLabels == {"pipe", "fork", "closeUnused", "compose", "write", "claim", "wait",
                 "closeUsed"} \cup Ended
ChildLabels == {"absent", "closeUnused", "sleep", "read", "print"} \cup Ended

TypeOK ==
    /\ piped \in BOOLEAN /\ wrote \in BOOLEAN /\ claimed \in BOOLEAN
    /\ pipe.data \in {<<>>, <<"string">>} /\ pipe.rd \subseteq Procs /\ pipe.wr \subseteq Procs
    /\ pc["parent"] \in ParentLabels /\ pc["child"] \in ChildLabels
    /\ DOMAIN pc = Procs
    /\ wrbuf \in {"garbage", "string"} /\ rdbuf \in {"garbage", "string"}
    /\ printed \in {"nothing", "garbage", "string"}

\* The child prints an uninitialised buffer (pipe.c:30-31) only if there was
\* no pipe or the parent was killed before its write(), and the parent is
\* ended by SIGPIPE (pipe.c:49) only if the child was killed before it read:
\* neither side, left alone, takes the pipe from the other.
OnlyKillsBreakThePipe ==
    /\ printed = "garbage" => ~piped \/ (pc["parent"] = "killed" /\ ~wrote)
    /\ pc["parent"] = "sigpipe" => pc["child"] = "killed" /\ printed = "nothing"

\* With a pipe, the parent's messages are true: "has been written" (pipe.c:51)
\* is, and when it says "done" (pipe.c:54) the child has printed the string
\* or was killed.
MessagesTrue ==
    piped => /\ claimed => wrote
             /\ pc["parent"] \in {"closeUsed", "done"} =>
                    printed = "string" \/ pc["child"] = "killed"

\* Both processes end, whoever is killed and when: the child's read() meets
\* the end of the pipe because it closed its own write end (pipe.c:23), the
\* parent's write() never waits for a child that is gone.
Termination == <>Over
=============================================================================
