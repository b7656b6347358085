-------------------------------- MODULE Shmem --------------------------------
(***************************************************************************)
(* shmem/writer.c and shmem/reader.c: writers that publish a string in a   *)
(* System V segment found through the inode of /tmp/.shmem-info, readers   *)
(* that copy it, and signals that end a writer before, after or inside its *)
(* clean-up handler.                                                       *)
(*                                                                         *)
(* A process runs its program once.  A writer creates at most one segment, *)
(* so a segment is named after the writer that created it.  The 512-byte   *)
(* memcpy of either side is two steps, one per half of the buffer.  A call *)
(* that the kernel refuses, for lack of memory, segments or rights, is a   *)
(* choice beside its success.                                              *)
(***************************************************************************)
EXTENDS Naturals, FiniteSets

CONSTANTS
    Writers, Readers,  \* processes
    Keys,              \* what ftok may make of an inode number
    None,              \* no file, no segment, no writer
    MaxSignals         \* bound: signals that the writers are sent

ASSUME ShmemAssumption ==
    /\ Writers \cap Readers = {}
    /\ None \notin Writers \cup Keys
    /\ MaxSignals \in Nat

VARIABLES
    file,       \* ftok key of FNAME, or None when there is no such file
    seg,        \* the segment each writer created
    pc,         \* where each process is
    key,        \* shmkey of each process
    shm,        \* shmid of each process: whose segment, or None
    attached,   \* processes whose shmaddr is mapped
    installed,  \* signals a writer has a handler for
    caught,     \* signals a writer was sent; bound: each kind once
    buf,        \* wrbuf: of a writer the string to write, of a reader the last read
    kills       \* SIGKILLs so far

vars == <<file, seg, pc, key, shm, attached, installed, caught, buf, kills>>

Procs == Writers \cup Readers
Signals == {"TERM", "INT"}

\* Half of a string: who wrote it and at which time (two alternate).
Half == [by : Writers \cup {None}, at : {0, 1}]
Blank == [by |-> None, at |-> 0]
Stamp(w, t) == [by |-> w, at |-> t]

Segment == [state : {"none", "live", "removed"}, key : Keys \cup {None}, data : [{1, 2} -> Half]]

Init ==
    /\ file = None
    /\ seg = [w \in Writers |->
                [state |-> "none", key |-> None, data |-> [h \in {1, 2} |-> Blank]]]
    /\ pc = [p \in Procs |-> IF p \in Writers THEN "open" ELSE "ftok"]
    /\ key = [p \in Procs |-> None]
    /\ shm = [p \in Procs |-> None]
    /\ installed = [w \in Writers |-> {}]
    /\ caught = [w \in Writers |-> {}]
    /\ buf = [p \in Procs |-> [h \in {1, 2} |-> Blank]]
    /\ attached = {}
    /\ kills = 0

Goto(p, label) == pc' = [pc EXCEPT ![p] = label]

\* The kernel detaches a process that ends.
End(p, label) == Goto(p, label) /\ attached' = attached \ {p}

\* The segment shmget finds under a key: IPC_RMID takes the key away, also
\* when the memory stays because a process is still attached.
Found(k) == { v \in Writers : seg[v].state = "live" /\ seg[v].key = k }

-----------------------------------------------------------------------------
\* open(FNAME, O_CREAT | O_WRONLY) without O_EXCL, then close; a new file has
\* any inode number, one that an unlinked file had included.  Its mode is
\* whatever the missing third argument was, so a later open may be denied.
OpenFile(w) ==
    /\ pc[w] = "open"
    /\ \/ /\ IF file = None THEN file' \in Keys ELSE UNCHANGED file
          /\ Goto(w, "ftok")
       \/ UNCHANGED file /\ Goto(w, "failed")
    /\ UNCHANGED <<seg, key, shm, attached, installed, caught, buf, kills>>

\* ftok(FNAME) of either program: ENOENT ends it.
Ftok(p) ==
    /\ pc[p] = "ftok"
    /\ Goto(p, IF file = None THEN "failed" ELSE "get")
    /\ key' = [key EXCEPT ![p] = file]
    /\ UNCHANGED <<file, seg, shm, attached, installed, caught, buf, kills>>

\* shmget(shmkey, BUFSIZE, IPC_CREAT | IPC_EXCL | 0660)
CreateSharedSegment(w) ==                          \* mutant
    /\ pc[w] = "get"
    /\ IF Found(key[w]) = {}
       THEN /\ seg' = [seg EXCEPT ![w].state = "live", ![w].key = key[w]]
            /\ shm' = [shm EXCEPT ![w] = w]
       ELSE /\ \E v \in Found(key[w]) : shm' = [shm EXCEPT ![w] = v]
            /\ UNCHANGED seg
    /\ Goto(w, "attach")
    /\ UNCHANGED <<file, key, attached, installed, caught, buf, kills>>

\* A key may also belong to another program's segment, and segments may run
\* out: the writer then leaves the file it has made ("refused").
CreateSegment(w) ==
    /\ pc[w] = "get"
    /\ \/ /\ Found(key[w]) = {}
          /\ seg' = [seg EXCEPT ![w].state = "live", ![w].key = key[w]]
          /\ shm' = [shm EXCEPT ![w] = w]
          /\ Goto(w, "attach")
       \/ /\ Goto(w, IF Found(key[w]) = {} THEN "refused" ELSE "failed")
          /\ UNCHANGED <<seg, shm>>
    /\ UNCHANGED <<file, key, attached, installed, caught, buf, kills>>

\* shmat, then signal(SIGTERM, ...), signal(SIGINT, ...), memset.  A writer
\* that cannot attach leaves the segment too.
AttachWriter(w) ==
    /\ pc[w] = "attach"
    /\ \/ attached' = attached \cup {w} /\ Goto(w, "sigterm")
       \/ UNCHANGED attached /\ Goto(w, "refused")
    /\ UNCHANGED <<file, seg, key, shm, installed, caught, buf, kills>>

InstallHandler(w, s, here, next) ==
    /\ pc[w] = here
    /\ installed' = [installed EXCEPT ![w] = @ \cup {s}]
    /\ Goto(w, next)
    /\ UNCHANGED <<file, seg, key, shm, attached, caught, buf, kills>>

Clear(w) ==
    /\ pc[w] = "clear"
    /\ seg' = [seg EXCEPT ![shm[w]].data = [h \in {1, 2} |-> Blank]]
    /\ Goto(w, "compose")
    /\ UNCHANGED <<file, key, shm, attached, installed, caught, buf, kills>>

\* write_string_in_shm: a new string in wrbuf, then memcpy.
Compose(w) ==
    /\ pc[w] = "compose"
    /\ buf' = [buf EXCEPT ![w] = [h \in {1, 2} |-> Stamp(w, 1 - @[1].at)]]
    /\ Goto(w, "copy1")
    /\ UNCHANGED <<file, seg, key, shm, attached, installed, caught, kills>>

CopyBack(w, h, here, next) ==                      \* mutant
    /\ pc[w] = here
    /\ buf' = [buf EXCEPT ![w][h] = seg[shm[w]].data[h]]
    /\ Goto(w, next)
    /\ UNCHANGED <<file, seg, key, shm, attached, installed, caught, kills>>

WriteHalf(w, h, here, next) ==
    /\ pc[w] = here
    /\ seg' = [seg EXCEPT ![shm[w]].data[h] = buf[w][h]]
    /\ Goto(w, next)
    /\ UNCHANGED <<file, key, shm, attached, installed, caught, buf, kills>>

-----------------------------------------------------------------------------
\* free_at_exit, entered from wherever the signal finds the writer; the
\* other signal may enter it again from the start.
AfterSwapped(label) ==                             \* mutant
    CASE label = "detach" -> "unlink" [] label = "unlink" -> "remove" [] OTHER -> "exited"
After(label) ==
    CASE label = "detach" -> "remove" [] label = "remove" -> "unlink" [] OTHER -> "exited"

Detach(w) ==
    /\ pc[w] = "detach"
    /\ attached' = attached \ {w}
    /\ Goto(w, After("detach"))
    /\ UNCHANGED <<file, seg, key, shm, installed, caught, buf, kills>>

\* shmctl(shmid, IPC_RMID)
RemoveSegment(w) ==
    /\ pc[w] = "remove"
    /\ seg' = [seg EXCEPT ![shm[w]].state = "removed"]
    /\ Goto(w, After("remove"))
    /\ UNCHANGED <<file, key, shm, attached, installed, caught, buf, kills>>

\* unlink(FNAME), whoever created the file that has the name now.
UnlinkFile(w) ==
    /\ pc[w] = "unlink"
    /\ file' = None
    /\ Goto(w, After("unlink"))
    /\ UNCHANGED <<seg, key, shm, attached, installed, caught, buf, kills>>

Stopped == {"exited", "failed", "refused", "killed", "faulted"}

Sent == Cardinality({ x \in Writers \X Signals : x[2] \in caught[x[1]] }) + kills

\* A signal with a handler starts it; without one it ends the process, and
\* the file and the segment stay.
Signal(w, s) ==
    /\ pc[w] \notin Stopped /\ s \notin caught[w] /\ Sent < MaxSignals
    /\ caught' = [caught EXCEPT ![w] = @ \cup {s}]
    /\ IF s \in installed[w] THEN Goto(w, "detach") /\ UNCHANGED attached ELSE End(w, "killed")
    /\ UNCHANGED <<file, seg, key, shm, installed, buf, kills>>

Kill(w) ==
    /\ pc[w] \notin Stopped /\ Sent < MaxSignals
    /\ kills' = kills + 1
    /\ End(w, "killed")
    /\ UNCHANGED <<file, seg, key, shm, installed, caught, buf>>

-----------------------------------------------------------------------------
\* The reader's shmget(shmkey, BUFSIZE, 0) and shmat, neither checked.
KeyForSegment(r) ==                                \* mutant
    /\ pc[r] = "get"
    /\ shm' = [shm EXCEPT ![r] = key[r]]
    /\ Goto(r, "attach")
    /\ UNCHANGED <<file, seg, key, attached, installed, caught, buf, kills>>

FindSegment(r) ==
    /\ pc[r] = "get"
    /\ IF Found(key[r]) = {} THEN UNCHANGED shm
       ELSE \E v \in Found(key[r]) : shm' = [shm EXCEPT ![r] = v]
    /\ Goto(r, "attach")
    /\ UNCHANGED <<file, seg, key, attached, installed, caught, buf, kills>>

\* shmat fails when the segment was never found or is gone for good, which
\* it is once it is removed and nobody is attached, and may fail anyway.
Gone(v) == seg[v].state = "removed" /\ \A p \in attached : shm[p] # v

AttachReader(r) ==
    /\ pc[r] = "attach"
    /\ \/ shm[r] # None /\ ~Gone(shm[r]) /\ attached' = attached \cup {r}
       \/ UNCHANGED attached
    /\ Goto(r, "copy1")
    /\ UNCHANGED <<file, seg, key, shm, installed, caught, buf, kills>>

\* memcpy(wrbuf, shmaddr, BUFSIZE); shmaddr is (void *)-1 if shmat failed.
ReadHalf(r, h, here, next) ==
    /\ pc[r] = here
    /\ IF r \notin attached THEN Goto(r, "faulted") /\ UNCHANGED buf
       ELSE /\ buf' = [buf EXCEPT ![r][h] = seg[shm[r]].data[h]]
            /\ Goto(r, next)
    /\ UNCHANGED <<file, seg, key, shm, attached, installed, caught, kills>>

StopReader(r) ==
    /\ pc[r] \notin Stopped
    /\ End(r, "exited")
    /\ UNCHANGED <<file, seg, key, shm, installed, caught, buf, kills>>

-----------------------------------------------------------------------------
WriterStep(w) ==
    \/ OpenFile(w) \/ Ftok(w) \/ CreateSegment(w) \/ AttachWriter(w)
    \/ InstallHandler(w, "TERM", "sigterm", "sigint")
    \/ InstallHandler(w, "INT", "sigint", "clear")
    \/ Clear(w) \/ Compose(w)
    \/ WriteHalf(w, 1, "copy1", "copy2") \/ WriteHalf(w, 2, "copy2", "compose")
    \/ Detach(w) \/ RemoveSegment(w) \/ UnlinkFile(w)

ReaderStep(r) ==
    \/ Ftok(r) \/ FindSegment(r) \/ AttachReader(r)
    \/ ReadHalf(r, 1, "copy1", "copy2") \/ ReadHalf(r, 2, "copy2", "copy1")

\* Everybody has ended.
Finished == (\A p \in Procs : pc[p] \in Stopped) /\ UNCHANGED vars

Next ==
    \/ \E w \in Writers : WriterStep(w) \/ Kill(w) \/ \E s \in Signals : Signal(w, s)
    \/ \E r \in Readers : ReaderStep(r) \/ StopReader(r)
    \/ Finished

Spec == Init /\ [][Next]_vars

\* sleep() ends and the kernel runs who can run; nobody has to be signalled.
FairSpec ==
    /\ Spec
    /\ \A w \in Writers : WF_vars(WriterStep(w))
    /\ \A r \in Readers : WF_vars(ReaderStep(r))

-----------------------------------------------------------------------------
(* Properties.                                                             *)

Labels == {"open", "ftok", "get", "attach", "sigterm", "sigint", "clear", "compose",
           "copy1", "copy2", "detach", "remove", "unlink"} \cup Stopped

TypeOK ==
    /\ file \in Keys \cup {None}
    /\ seg \in [Writers -> Segment]
    /\ pc \in [Procs -> Labels]
    /\ key \in [Procs -> Keys \cup {None}]
    /\ shm \in [Procs -> Writers \cup {None}]
    /\ attached \subseteq Procs
    /\ installed \in [Writers -> SUBSET Signals]
    /\ caught \in [Writers -> SUBSET Signals]
    /\ buf \in [Procs -> [{1, 2} -> Half]]
    /\ kills \in Nat

\* What a reader prints may be torn between two times, but never between two
\* writers: whatever the writers do to the file, a segment has one writer
\* (IPC_EXCL, writer.c:65).
OneSource ==
    \A r \in Readers : \A g, h \in {1, 2} :
        buf[r][g].by # None /\ buf[r][h].by # None => buf[r][g].by = buf[r][h].by

\* What outlives the writers is what a writer left that SIGKILL or a signal
\* before its handler ended, or that the kernel refused the segment or the
\* mapping (writer.c:66-77): a segment is left by its own writer, the file by
\* some writer.  One that only found the segment taken leaves a file that the
\* owner of the segment is still to unlink.
Abandoned == {"killed", "refused"}
NothingLeft ==
    /\ \A w \in Writers : pc[w] \in Stopped /\ seg[w].state = "live" => pc[w] \in Abandoned
    /\ file # None /\ (\A w \in Writers : pc[w] \in Stopped) =>
          \E w \in Writers : pc[w] \in Abandoned

\* A reader that attached to a segment reads the string of the writer that
\* made it, unless one of the two ends first.
StringArrives ==
    \A r \in Readers : \A w \in Writers :
        pc[r] = "copy1" /\ r \in attached /\ shm[r] = w ~>
            \/ buf[r][1].by = w
            \/ pc[r] \in Stopped
            \/ pc[w] \in Stopped \cup {"detach", "remove", "unlink"}

\* Only one writer is executed at a time (the message of writer.c:47).
Publishing == {"sigterm", "sigint", "clear", "compose", "copy1", "copy2"}
SingleWriter ==
    \A v, w \in Writers : pc[v] \in Publishing /\ pc[w] \in Publishing => v = w
=============================================================================
