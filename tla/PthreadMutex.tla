---------------------------- MODULE PthreadMutex ----------------------------
(***************************************************************************)
(* pthread_mutex/main.c: main() creates one writer and THREAD_COUNT reader *)
(* threads that share the buffer str under the mutex str_mx, and joins     *)
(* them.  sprintf() and printf() touch str byte by byte, so a string under *)
(* construction is a value of its own, Torn.                               *)
(***************************************************************************)
EXTENDS Integers

CONSTANTS
    ReaderCount,   \* THREAD_COUNT, 10 in the code
    Limit          \* the writer stops when num reaches it, 6 in the code

ASSUME PthreadAssumption ==
    /\ ReaderCount \in Nat
    /\ Limit \in Nat \ {0}

Writer == 0
Readers == 1 .. ReaderCount
Threads == 0 .. ReaderCount
NoOne == -1

\* The contents of str.
Number(n) == [text |-> "num", n |-> n]      \* "worker wrote num=<n>"
Empty == [text |-> "empty", n |-> 0]        \* static storage
Torn == [text |-> "torn", n |-> 0]
Done == [text |-> "done", n |-> 0]

VARIABLES
    str,      \* the shared buffer
    owner,    \* the thread that holds str_mx, or NoOne
    num,      \* cnt in main(), which only the writer uses once it runs
    pc,       \* where each thread is
    main,     \* where main() is
    i,        \* main()'s loop counter
    checked,  \* what each reader's last strcmp() found in str
    printed   \* what each reader's last printf() found in str

vars == <<str, owner, num, pc, main, i, checked, printed>>

Init ==
    /\ str = Empty
    /\ owner = NoOne
    /\ num = 0
    /\ pc = [t \in Threads |-> "absent"]
    /\ main = "createWriter"
    /\ i = 1
    /\ checked = [r \in Readers |-> Empty]
    /\ printed = [r \in Readers |-> Empty]

-----------------------------------------------------------------------------
(* main()                                                                  *)

Running == main \notin {"exited", "failed"}

\* The writer's pthread_create() is not checked: when it fails, main() goes on.
CreateWriter ==
    /\ main = "createWriter"
    /\ \/ pc' = [pc EXCEPT ![Writer] = "lock"]
       \/ UNCHANGED pc
    /\ main' = "createReaders"
    /\ UNCHANGED <<str, owner, num, i, checked, printed>>

CreateReader ==
    /\ main = "createReaders" /\ i \in Readers
    /\ pc' = [pc EXCEPT ![i] = "lock"]
    /\ i' = i + 1
    /\ UNCHANGED <<str, owner, num, main, checked, printed>>

\* ... or it fails, and exit(EXIT_FAILURE) ends every thread.
CreateReaderFails ==
    /\ main = "createReaders" /\ i \in Readers
    /\ main' = "failed"
    /\ UNCHANGED <<str, owner, num, pc, i, checked, printed>>

AllCreated ==
    /\ main = "createReaders" /\ i > ReaderCount
    /\ main' = "joinReaders" /\ i' = 1
    /\ UNCHANGED <<str, owner, num, pc, checked, printed>>

JoinReader ==
    /\ main = "joinReaders" /\ i \in Readers
    /\ pc[i] = "returned"
    /\ i' = i + 1
    /\ UNCHANGED <<str, owner, num, pc, main, checked, printed>>

JoinWriterSkipped ==                               \* mutant
    /\ main = "joinReaders" /\ i > ReaderCount
    /\ main' = "exited"
    /\ UNCHANGED <<str, owner, num, pc, i, checked, printed>>

\* pthread_join(thread_writer) and the end of the process.
JoinWriter ==
    /\ main = "joinReaders" /\ i > ReaderCount
    /\ pc[Writer] = "returned"
    /\ main' = "exited"
    /\ UNCHANGED <<str, owner, num, pc, i, checked, printed>>

-----------------------------------------------------------------------------
(* What both kinds of threads do.                                          *)

Move(t, from, to) ==
    /\ pc[t] = from
    /\ pc' = [pc EXCEPT ![t] = to]

Lock(t, to) ==
    /\ Move(t, "lock", to)
    /\ owner = NoOne
    /\ owner' = t
    /\ UNCHANGED <<str, num, main, i, checked, printed>>

Unlock(t, from, to) ==
    /\ Move(t, from, to)
    /\ owner' = NoOne
    /\ UNCHANGED <<str, num, main, i, checked, printed>>

\* sleep(1) ends.
Wake(t) ==
    /\ Move(t, "sleep", "lock")
    /\ UNCHANGED <<str, owner, num, main, i, checked, printed>>

\* return NULL, after the mutex is free for the others.
Return(t) ==
    /\ Move(t, "returning", "returned")
    /\ UNCHANGED <<str, owner, num, main, i, checked, printed>>

-----------------------------------------------------------------------------
(* reader_func()                                                           *)

ReaderLock(r) == Lock(r, "check")

\* strcmp(str, "done")
Check(r) ==
    /\ Move(r, "check", IF str = Done THEN "leave" ELSE "print")
    /\ checked' = [checked EXCEPT ![r] = str]
    /\ UNCHANGED <<str, owner, num, main, i, printed>>

PrintString(r) ==
    /\ Move(r, "print", "unlock")
    /\ printed' = [printed EXCEPT ![r] = str]
    /\ UNCHANGED <<str, owner, num, main, i, checked>>

ReaderUnlockForgotten(r) ==                        \* mutant
    \/ Unlock(r, "unlock", "sleep")
    \/ /\ Move(r, "leave", "returning")
       /\ UNCHANGED <<str, owner, num, main, i, checked, printed>>

ReaderUnlock(r) ==
    \/ Unlock(r, "unlock", "sleep")
    \/ Unlock(r, "leave", "returning")

ReaderStep(r) == ReaderLock(r) \/ Check(r) \/ PrintString(r)
                 \/ ReaderUnlock(r) \/ Wake(r) \/ Return(r)

-----------------------------------------------------------------------------
(* writer_func()                                                           *)

WriterLockSkipped ==                               \* mutant
    /\ Move(Writer, "lock", "increment")
    /\ UNCHANGED <<str, owner, num, main, i, checked, printed>>

WriterLock == Lock(Writer, "increment")

Increment ==
    /\ Move(Writer, "increment", "format")
    /\ num' = num + 1
    /\ UNCHANGED <<str, owner, main, i, checked, printed>>

\* Both sprintf() calls: str is neither string while they run.
StartFormat ==
    /\ \/ Move(Writer, "format", "formatting")
       \/ Move(Writer, "formatDone", "formattingDone")
    /\ str' = Torn
    /\ UNCHANGED <<owner, num, main, i, checked, printed>>

FinishNumberOnly ==                                \* mutant
    /\ Move(Writer, "formatting", "unlock")
    /\ str' = Number(num)
    /\ UNCHANGED <<owner, num, main, i, checked, printed>>

FinishNumber ==
    /\ Move(Writer, "formatting", IF num = Limit THEN "formatDone" ELSE "unlock")
    /\ str' = Number(num)
    /\ UNCHANGED <<owner, num, main, i, checked, printed>>

FinishDone ==
    /\ Move(Writer, "formattingDone", "leave")
    /\ str' = Done
    /\ UNCHANGED <<owner, num, main, i, checked, printed>>

WriterUnlock ==
    \/ Unlock(Writer, "unlock", "sleep")
    \/ Unlock(Writer, "leave", "returning")

WriterStep ==
    \/ WriterLock \/ Increment \/ StartFormat \/ FinishNumber \/ FinishDone
    \/ WriterUnlock \/ Wake(Writer) \/ Return(Writer)

-----------------------------------------------------------------------------
MainStep ==
    \/ CreateWriter \/ CreateReader \/ CreateReaderFails \/ AllCreated
    \/ JoinReader \/ JoinWriter

\* The process is over.
Ended == ~Running /\ UNCHANGED vars

Next ==
    \/ MainStep
    \/ Running /\ WriterStep
    \/ \E r \in Readers : Running /\ ReaderStep(r)
    \/ Ended

Spec == Init /\ [][Next]_vars

\* The scheduler runs every thread that can run.  Each thread that releases
\* str_mx sleeps for a second before it asks for it again, so a thread that
\* waits for the mutex finds it free again and again, and is woken: lock is
\* strongly fair.
FairSpec ==
    /\ Spec
    /\ WF_vars(MainStep)
    /\ WF_vars(Running /\ WriterStep)
    /\ SF_vars(Running /\ WriterLock)
    /\ \A r \in Readers :
          WF_vars(Running /\ ReaderStep(r)) /\ SF_vars(Running /\ ReaderLock(r))

-----------------------------------------------------------------------------
(* Properties.                                                             *)

Strings == {Empty, Torn, Done} \cup { Number(n) : n \in 1 .. Limit }

ReaderLabels == {"absent", "lock", "check", "print", "unlock", "leave",
                 "sleep", "returning", "returned"}
WriterLabels == {"absent", "lock", "increment", "format", "formatting", "formatDone",
                 "formattingDone", "unlock", "leave", "sleep",
                 "returning", "returned"}

\* Every variable has its type; the counter never passes Limit, where the
\* writer compares it with == and would otherwise count for ever.
TypeOK ==
    /\ str \in Strings
    /\ owner \in Threads \cup {NoOne}
    /\ num \in 0 .. Limit
    /\ pc \in [Threads -> ReaderLabels \cup WriterLabels]
    /\ pc[Writer] \in WriterLabels
    /\ \A r \in Readers : pc[r] \in ReaderLabels
    /\ main \in {"createWriter", "createReaders", "joinReaders", "exited", "failed"}
    /\ i \in 1 .. ReaderCount + 1
    /\ checked \in [Readers -> Strings]
    /\ printed \in [Readers -> Strings]

\* Threads between lock and unlock touch str.
InCriticalSection(t) == pc[t] \notin {"absent", "lock", "sleep", "returning", "returned"}

\* No two threads are ever between lock and unlock (reader_func, writer_func).
MutualExclusion ==
    \A s, t \in Threads : InCriticalSection(s) /\ InCriticalSection(t) => s = t

\* The string a reader prints is the one it compared with "done", complete,
\* and neither "done" nor the number the writer replaces by it before it
\* unlocks: no reader ever shows num=6.
PrintsCheckedString ==
    \A r \in Readers : pc[r] = "print" =>
        /\ str = checked[r]
        /\ str \in {Empty} \cup { Number(n) : n \in 1 .. Limit - 1 }

\* What a reader prints never goes back to an older number, however the
\* mutex is handed over.
PrintedInOrder == [][\A r \in Readers : printed'[r].n >= printed[r].n]_vars

\* A reader only returns once the writer has written its last string, and
\* when main() has joined everybody all threads have returned.
ReturnsAfterDone ==
    /\ \A r \in Readers : pc[r] \in {"leave", "returning", "returned"} =>
          str = Done /\ num = Limit /\ pc[Writer] \in {"returning", "returned"}
    /\ main = "exited" => \A t \in Threads : pc[t] = "returned"

\* When the writer thread was created, the process ends: the readers all see
\* "done" and main() joins them.
Termination == pc[Writer] # "absent" ~> ~Running
=============================================================================
