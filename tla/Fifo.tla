-------------------------------- MODULE Fifo --------------------------------
(***************************************************************************)
(* pipe/read_fifo.c and pipe/write_fifo.c: any number of readers and       *)
(* writers that make, open, use, close and (the readers) remove the named  *)
(* fifo ./tempfifo.  No return value is looked at.                         *)
(*                                                                         *)
(* A process runs its program once.  It makes at most one fifo, so a fifo  *)
(* is named after the process whose mkfifo() made it.                      *)
(***************************************************************************)
EXTENDS KernelPipe, FiniteSets

CONSTANTS
    Readers, Writers,  \* processes
    None,              \* no fifo, no descriptor, no string
    MaxKills           \* bound: processes killed from outside

ASSUME FifoAssumption ==
    /\ Readers \cap Writers = {}
    /\ None \notin Readers \cup Writers
    /\ {"unsent", "waiting", "lost"} \cap Readers = {}
    /\ MaxKills \in Nat

VARIABLES
    name,   \* the fifo ./tempfifo is bound to, or None
    fifo,   \* the kernel's pipe behind each fifo
    pc,     \* where each process is
    fd,     \* what its open() returned: a fifo, or None for -1
    got,    \* the string in a reader's buf, None while it is uninitialised
    sent,   \* history: writers whose write() put the string into a fifo
    kills   \* processes killed so far

vars == <<name, fifo, pc, fd, got, sent, kills>>

Procs == Readers \cup Writers

Init ==
    /\ name = None
    /\ fifo = [p \in Procs |-> Fresh]
    /\ pc = [p \in Procs |-> "mkfifo"]
    /\ fd = [p \in Procs |-> None]
    /\ got = [r \in Readers |-> None]
    /\ sent = {}
    /\ kills = 0

Goto(p, label) == pc' = [pc EXCEPT ![p] = label]

\* close(fd): of a process whose open() failed it does nothing.
Release(p) ==
    IF fd[p] = None THEN UNCHANGED fifo
    ELSE fifo' = [fifo EXCEPT ![fd[p]] = Without(@, p, {"rd", "wr"})]

-----------------------------------------------------------------------------
\* mkfifo("./tempfifo", 0666): EEXIST is not looked at.
MkfifoAnew(p) ==                                   \* mutant
    /\ pc[p] = "mkfifo"
    /\ name' = p
    /\ Goto(p, "open")
    /\ UNCHANGED <<fifo, fd, got, sent, kills>>

Mkfifo(p) ==
    /\ pc[p] = "mkfifo"
    /\ name' = IF name = None THEN p ELSE name
    /\ Goto(p, "open")
    /\ UNCHANGED <<fifo, fd, got, sent, kills>>

\* open() takes its end of the fifo at once and returns when the other end
\* is, or comes to be, taken; a partner that goes again has woken it all
\* the same.
Opened(f, p) == IF p \in Readers THEN [fifo[f] EXCEPT !.rd = @ \cup {p}]
                ELSE [fifo[f] EXCEPT !.wr = @ \cup {p}]
Partners(f, p) == IF p \in Readers THEN fifo[f].wr ELSE fifo[f].rd
AfterOpen(p) == IF p \in Readers THEN "read" ELSE "write"

OpenWithoutPartner(p) ==                           \* mutant
    /\ pc[p] = "open"
    /\ fd' = [fd EXCEPT ![p] = name]
    /\ Goto(p, AfterOpen(p))
    /\ IF name = None THEN UNCHANGED fifo ELSE fifo' = [fifo EXCEPT ![name] = Opened(name, p)]
    /\ UNCHANGED <<name, got, sent, kills>>

Open(p) ==
    /\ pc[p] = "open"
    /\ fd' = [fd EXCEPT ![p] = name]
    /\ IF name = None
       THEN /\ Goto(p, AfterOpen(p))               \* ENOENT: fd is -1
            /\ UNCHANGED fifo
       ELSE /\ fifo' = [fifo EXCEPT ![name] = Opened(name, p)]
            /\ pc' = [q \in Procs |->
                        IF q = p
                        THEN IF Partners(name, p) = {} THEN "blocked" ELSE AfterOpen(p)
                        ELSE IF q \in Partners(name, p) /\ pc[q] = "blocked"
                        THEN AfterOpen(q)
                        ELSE pc[q]]
    /\ UNCHANGED <<name, got, sent, kills>>

-----------------------------------------------------------------------------
\* The reader sleeps, reads once and prints.
LeftNothing(f) == [fifo[f] EXCEPT !.data = <<>>]   \* mutant
LeftAll(f) == fifo[f]                              \* mutant
Left(f) == Rest(fifo[f])

Read(r) ==
    /\ pc[r] = "read"
    /\ IF fd[r] = None THEN UNCHANGED <<fifo, got>>          \* EBADF
       ELSE /\ Readable(fifo[fd[r]])
            /\ got' = [got EXCEPT ![r] = Received(fifo[fd[r]], None)]
            /\ fifo' = [fifo EXCEPT ![fd[r]] = Left(fd[r])]
    /\ Goto(r, "close")
    /\ UNCHANGED <<name, fd, sent, kills>>

\* The writer composes its string and writes it; without a reader SIGPIPE
\* ends it.
WriteRetried(w) ==                                 \* mutant
    /\ pc[w] = "write" /\ fd[w] # None /\ ~Broken(fifo[fd[w]])
    /\ fifo' = [fifo EXCEPT ![fd[w]].data = @ \o <<w, w>>]
    /\ sent' = sent \cup {w}
    /\ Goto(w, "close")
    /\ UNCHANGED <<name, fd, got, kills>>

Write(w) ==
    /\ pc[w] = "write"
    /\ IF fd[w] = None                                       \* EBADF
       THEN Goto(w, "close") /\ UNCHANGED <<fifo, sent>>
       ELSE /\ Writable(fifo[fd[w]])
            /\ IF Broken(fifo[fd[w]])
               THEN Goto(w, "killed") /\ Release(w) /\ UNCHANGED sent
               ELSE /\ fifo' = [fifo EXCEPT ![fd[w]].data = Append(@, w)]
                    /\ sent' = sent \cup {w}
                    /\ Goto(w, "close")
    /\ UNCHANGED <<name, fd, got, kills>>

Close(p) ==
    /\ pc[p] = "close"
    /\ Release(p)
    /\ Goto(p, IF p \in Readers THEN "remove" ELSE "done")
    /\ UNCHANGED <<name, fd, got, sent, kills>>

\* remove("tempfifo"), whatever has the name now.
Remove(r) ==
    /\ pc[r] = "remove"
    /\ name' = None
    /\ Goto(r, "done")
    /\ UNCHANGED <<fifo, fd, got, sent, kills>>

Ended == {"done", "killed"}

Kill(p) ==
    /\ pc[p] \notin Ended /\ kills < MaxKills
    /\ kills' = kills + 1
    /\ IF pc[p] \in {"mkfifo", "open", "remove"} THEN UNCHANGED fifo ELSE Release(p)
    /\ Goto(p, "killed")
    /\ UNCHANGED <<name, fd, got, sent>>

-----------------------------------------------------------------------------
Step(p) ==
    \/ Mkfifo(p) \/ Open(p) \/ Close(p)
    \/ p \in Readers /\ (Read(p) \/ Remove(p))
    \/ p \in Writers /\ Write(p)

\* Whoever is left waits in open() for a partner that may never be started:
\* past open() nobody waits for ever, or TLC reports the deadlock.
Quiet == (\A p \in Procs : pc[p] \in Ended \cup {"blocked"}) /\ UNCHANGED vars

Next == Quiet \/ \E p \in Procs : Step(p) \/ Kill(p)

Spec == Init /\ [][Next]_vars

\* The kernel runs who can run; sleep() ends.
FairSpec == Spec /\ \A p \in Procs : WF_vars(Step(p))

-----------------------------------------------------------------------------
(* Properties.                                                             *)

Labels == {"mkfifo", "open", "blocked", "read", "write", "close", "remove"} \cup Ended

TypeOK ==
    /\ name \in Procs \cup {None}
    /\ \A p \in Procs : /\ fifo[p].data \in Seq(Writers) /\ Len(fifo[p].data) <= Capacity
                        /\ fifo[p].rd \subseteq Readers /\ fifo[p].wr \subseteq Writers
    /\ pc \in [Procs -> Labels]
    /\ fd \in [Procs -> Procs \cup {None}]
    /\ got \in [Readers -> Writers \cup {None}]
    /\ sent \subseteq Writers
    /\ kills \in 0 .. MaxKills

\* A string reaches one reader, whole, or is lost for good, and a reader
\* prints at most one string, one that was really written, whichever fifos
\* the two sides found under the name (read_fifo.c:19, write_fifo.c:25).
InFifo(w) == \E p \in Procs : \E k \in 1 .. Len(fifo[p].data) : fifo[p].data[k] = w
Fate(w) == IF w \notin sent THEN "unsent"
           ELSE IF \E r \in Readers : got[r] = w THEN CHOOSE r \in Readers : got[r] = w
           ELSE IF InFifo(w) THEN "waiting" ELSE "lost"
Abstract == INSTANCE Mailbox WITH Senders <- Writers, Receivers <- Readers,
                                  fate <- [w \in Writers |-> Fate(w)]
MailboxSpec == Abstract!Spec

\* A reader prints an uninitialised buffer (read_fifo.c:19-21) only if
\* another reader removed the name before its open(), or if a writer that
\* opened its fifo was killed or had its string taken by another reader.
PastRead == {"close", "remove", "done"}
GarbageExplained ==
    \A r \in Readers : pc[r] \in PastRead /\ got[r] = None =>
        IF fd[r] = None THEN \E q \in Readers \ {r} : pc[q] = "done"
        ELSE \E w \in Writers : /\ fd[w] = fd[r]
                                /\ pc[w] = "killed" \/ \E q \in Readers \ {r} : got[q] = w

\* A reader and a writer both wait in open() for a partner only if a third
\* process removed the name between them (read_fifo.c:23): the two sides
\* never miss each other by themselves, whichever of them makes the fifo.
MissedByRemoval ==
    \A r \in Readers, w \in Writers : pc[r] = "blocked" /\ pc[w] = "blocked" =>
        /\ fd[r] # fd[w]
        /\ \E q \in Readers \ {r} : pc[q] = "done"

\* A string that is not behind more strings than there are readers who have
\* still to read is delivered, unless a reader is killed: every reader
\* takes one string and leaves the next one to the others.
Waiting(f) == { r \in Readers : fd[r] = f /\ pc[r] = "read" }
InReach(w) ==
    \E p \in Procs : \E k \in 1 .. Cardinality(Waiting(p)) :
        k <= Len(fifo[p].data) /\ fifo[p].data[k] = w
EnoughReaders ==
    \A w \in Writers :
        InReach(w) ~> (\E r \in Readers : got[r] = w \/ pc[r] = "killed")
=============================================================================
