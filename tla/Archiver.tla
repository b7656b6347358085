------------------------------ MODULE Archiver ------------------------------
(***************************************************************************)
(* Runs of archive/archiver.c against one directory, system call by system *)
(* call: several processes, each executing one command at a time (-i, -r,  *)
(* -e, -s), the archives and the work file as directory entries bound to   *)
(* inodes, and the files that are packed and unpacked.                     *)
(*                                                                         *)
(* A process may be killed between any two system calls, open() may fail,  *)
(* and other programs may change the packed files.                         *)
(***************************************************************************)
EXTENDS ArchiveFormat, Places

CONSTANTS
    Procs,         \* archiver processes
    Writers,       \* those that may run -i or -r
    Archives,      \* archive names
    Temp,          \* ".supertemp.egleser"
    Inodes, NoIno, \* inodes, and the absence of one
    Paths, Base,   \* paths of packed/unpacked files; Base[f]: f after its last '/'
    FileStates,    \* what a path may be: [kind, data, mode]
    InitDisk,      \* initial states of the packed files
    Commands,      \* [op, arch, files], files a sequence of paths or names
    UninitOffsets, \* what an uninitialised _offset may hold
    MaxCommands, MaxCrashes, MaxEdits, \* bounds on what the environment does
    MaxFails       \* bound: failing open()s that -r overlooks; with 0, none fails

\* What a path names, as stat() and open() tell it; a file is shorter than
\* 2^64 bytes.  "special": a fifo or device, which can be read to an end.
FileState ==
    [kind : {"missing", "regular", "directory", "special"},
     data : {d \in Seq(Cell) : Len(d) < Word}, mode : Modes]

Command ==
    [op : {"input", "remove", "extract", "stat"}, arch : Archives, files : Seq(Paths)]

ASSUME ArchiverAssumption ==
    /\ Writers \subseteq Procs
    /\ Temp \notin Archives
    /\ NoIno \notin Inodes
    /\ Names \subseteq Paths
    /\ Base \in [Paths -> Names]
    /\ FileStates \subseteq FileState
    /\ InitDisk \subseteq [Paths -> FileState]
    /\ Commands \subseteq Command
    /\ UninitOffsets \subseteq UInt
    /\ MaxCommands \in Nat /\ MaxCrashes \in Nat /\ MaxEdits \in Nat
    /\ MaxFails \in Nat

VARIABLES
    dir,     \* directory: archive and work-file names to inodes
    ino,     \* contents of every inode
    disk,    \* state of every packed or unpacked file
    pc,      \* where each process is
    loc,     \* its local variables and open descriptors
    budget   \* commands, crashes, edits and failures still allowed

vars == <<dir, ino, disk, pc, loc, budget>>

fsVars == <<dir, ino>>

Missing == [kind |-> "missing", data |-> <<>>, mode |-> {}]
Regular(f) == disk[f].kind = "regular"
Readable(f) == Regular(f) /\ "r" \in disk[f].mode
Special(f) == disk[f].kind = "special" /\ "r" \in disk[f].mode

NoCommand == [op |-> "none", arch |-> Temp, files |-> <<>>]

\* afd, tfd: descriptors of the archive read and of the work file; hdr, k:
\* the fi_list and the node (or argument) a loop is at; added:
\* inserted_files; raw: raw_off; left: bytes; pos: position in the packed
\* or unpacked file that is open; err: whether errno is set.
NoFd == [ino |-> NoIno, pos |-> 0]

Idle == [cmd |-> NoCommand, afd |-> NoFd, tfd |-> NoFd, hdr |-> <<>>,
         k |-> 0, added |-> 0, raw |-> 0, left |-> 0, pos |-> 0, err |-> FALSE]

Init ==
    /\ dir = [n \in Archives \cup {Temp} |-> NoIno]
    /\ ino = [i \in Inodes |-> <<>>]
    /\ disk \in InitDisk
    /\ pc = [p \in Procs |-> "idle"]
    /\ loc = [p \in Procs |-> Idle]
    /\ budget = [commands |-> MaxCommands, crashes |-> MaxCrashes, edits |-> MaxEdits,
                 fails |-> MaxFails]

-----------------------------------------------------------------------------
\* Control flow: one process moves to a label with new locals, or exits.
Goto(p, label, locals) ==
    /\ pc' = [pc EXCEPT ![p] = label]
    /\ loc' = [loc EXCEPT ![p] = locals]
    /\ UNCHANGED budget

Exit(p) == Goto(p, "idle", Idle)

Arch(p) == loc[p].cmd.arch
Op(p) == loc[p].cmd.op
Args(p) == loc[p].cmd.files
ArchFile(p) == ino[loc[p].afd.ino]
WorkFile(p) == ino[loc[p].tfd.ino]

OpenInodes == { dir[n] : n \in DOMAIN dir }
              \cup UNION { {loc[p].afd.ino, loc[p].tfd.ino} : p \in Procs }

\* open(name, O_CREAT | ...), which truncates nothing: the inode bound to
\* the name, or a new empty one that nothing refers to.
OpenCreate(name, i) ==
    IF dir[name] # NoIno
    THEN i = dir[name] /\ UNCHANGED fsVars
    ELSE /\ Inodes \ OpenInodes # {}
         /\ i = CHOOSE j \in Inodes : j \notin OpenInodes
         /\ dir' = [dir EXCEPT ![name] = i]
         /\ ino' = [ino EXCEPT ![i] = <<>>]

\* write(new_fd, b, Len(b)) at the work file's position.
WriteWork(p, b) ==
    /\ ino' = [ino EXCEPT ![loc[p].tfd.ino] = WriteAt(@, loc[p].tfd.pos, b)]
    /\ UNCHANGED dir

-----------------------------------------------------------------------------
\* main() dispatches a command; remove_files and extract_files open the
\* archive first, input_files the work file.  -r without names exits at once.
Start(p) ==
    /\ pc[p] = "idle" /\ budget.commands > 0
    /\ \E c \in Commands :
          /\ c.op \in {"input", "remove"} => p \in Writers
          /\ c.op = "remove" => c.files # <<>>
          /\ pc' = [pc EXCEPT ![p] =
                       IF c.op = "input" THEN "openWork" ELSE "openArchive"]
          /\ loc' = [loc EXCEPT ![p] = [Idle EXCEPT !.cmd = c]]
    /\ budget' = [budget EXCEPT !.commands = @ - 1]
    /\ UNCHANGED <<dir, ino, disk>>

WorkNameInPlace(p) == Arch(p)                      \* mutant
WorkName(p) == Temp

\* open(".supertemp.egleser", O_CREAT | ...)
OpenWork(p) ==
    /\ pc[p] = "openWork"
    /\ \E i \in Inodes :
          /\ OpenCreate(WorkName(p), i)
          /\ Goto(p, IF Op(p) = "input" THEN "openArchive" ELSE "readHeader",
                  [loc[p] EXCEPT !.tfd = [ino |-> i, pos |-> 0]])
    /\ UNCHANGED disk

\* open(archive, O_CREAT | O_RDONLY) for -i, open(archive, O_RDONLY) else.
OpenArchive(p) ==
    /\ pc[p] = "openArchive"
    /\ IF Op(p) # "input" /\ dir[Arch(p)] = NoIno
       THEN Exit(p) /\ UNCHANGED fsVars
       ELSE \E i \in Inodes :
               /\ OpenCreate(Arch(p), i)
               /\ Goto(p, IF Op(p) = "remove" THEN "openWork" ELSE "readHeader",
                       [loc[p] EXCEPT !.afd = [ino |-> i, pos |-> 0]])
    /\ UNCHANGED disk

\* An open() that fails and is noticed: the command ends.  -i looks only
\* when it has tried both (archiver.c:405-411).
MayFail == budget.fails > 0

Refuse(p) ==
    /\ MayFail
    /\ \/ pc[p] = "openArchive" /\ UNCHANGED fsVars
       \/ /\ pc[p] = "openWork" /\ Op(p) = "input"
          /\ UNCHANGED fsVars \/ \E i \in Inodes : OpenCreate(Arch(p), i)
    /\ Exit(p)
    /\ UNCHANGED disk

\* -r does not look whether open() of the work file failed (archiver.c:773):
\* what it writes from here on goes nowhere.
LoseWork(p) ==
    /\ MayFail
    /\ pc[p] = "openWork" /\ Op(p) = "remove"
    /\ pc' = [pc EXCEPT ![p] = "blind"]
    /\ budget' = [budget EXCEPT !.fails = @ - 1]
    /\ UNCHANGED <<dir, ino, disk, loc>>

\* All such a run still does before remove() is to read the header: with
\* errno set, the end of the file is an error there.
ReadBlind(p) ==
    LET c == ArchFile(p)
        n == Len(Header(c))
    IN  /\ pc[p] = "blind"
        /\ IF n = Len(c) THEN Exit(p)
           ELSE Goto(p, IF c[n + 1] = End THEN "unlink" ELSE "garbled", loc[p])
        /\ UNCHANGED <<dir, ino, disk>>

\* What follows read_header: the argument checks and the next loop.
AfterHeader(p, next) ==
    CASE Op(p) = "input" /\ Args(p) = <<>>    -> Exit(p)
      [] Op(p) = "input" /\ Args(p) # <<>>    -> Goto(p, "stat", next)
      [] Op(p) = "remove"                     -> Goto(p, "filter", next)
      [] Op(p) = "extract" /\ Args(p) # <<>>  -> Goto(p, "filter", next)
      [] Op(p) = "extract" /\ Args(p) = <<>>  -> Goto(p, "member", next)
      [] Op(p) = "stat"                       -> Exit(p)

\* One turn of read_header's loop: end of file or the four zero bytes end
\* the header and rewind; anything else is read as a file_info.
ReadHeader(p) ==
    LET pos == loc[p].afd.pos
        c == ArchFile(p)
    IN  /\ pc[p] = "readHeader"
        /\ IF pos < Len(c) /\ c[pos + 1].tag = "entry"
           THEN Goto(p, "readHeader",
                     [loc[p] EXCEPT !.hdr = Append(@, c[pos + 1]), !.afd.pos = @ + 1])
           ELSE IF pos < Len(c) /\ c[pos + 1] # End
           THEN Goto(p, "garbled", loc[p])
           ELSE AfterHeader(p, [loc[p] EXCEPT !.afd.pos = 0, !.k = 1])
        /\ UNCHANGED <<dir, ino, disk>>

-----------------------------------------------------------------------------
\* update_header_for_input: stat() the next argument, skip it if it is
\* missing (which sets errno) or not regular.
StatFile(p) ==
    LET me == loc[p]
        f == Args(p)[me.k]
    IN  /\ pc[p] = "stat"
        /\ IF me.k > Len(Args(p))
           THEN IF me.added = 0 THEN Exit(p)           \* ERR_INPUT_NOAPP
                ELSE Goto(p, "writeHeader", [me EXCEPT !.k = 1])
           ELSE IF Regular(f) THEN Goto(p, "measure", me)
           ELSE Goto(p, "stat", [me EXCEPT !.k = @ + 1,
                                     !.err = @ \/ disk[f].kind = "missing"])
        /\ UNCHANGED <<dir, ino, disk>>

\* lseek(open(f), 0, SEEK_END) stored in a uint64_t: -1 when open failed.
MeasuredSize(f) == IF Readable(f) THEN Len(disk[f].data) ELSE Word - 1

\* ... and the argument becomes the last node of the list.
MeasureFile(p) ==
    LET me == loc[p]
        f == Args(p)[me.k]
        fi == [tag |-> "entry", name |-> Base[f], size |-> MeasuredSize(f),
               mask |-> disk[f].mode, off |-> 0]
    IN  /\ pc[p] = "measure"
        /\ Goto(p, "stat", [me EXCEPT !.hdr = Append(@, fi), !.k = @ + 1,
                                      !.added = @ + 1, !.err = @ \/ ~Readable(f)])
        /\ UNCHANGED <<dir, ino, disk>>

\* remove_files_from_header: unlink the k-th node or keep it.
DroppedInverted(p, e) ==                           \* mutant
    LET listed == \E j \in DOMAIN Args(p) : Args(p)[j] = e.name
    IN  IF Op(p) = "extract" THEN listed ELSE ~listed

Dropped(p, e) ==
    LET listed == \E j \in DOMAIN Args(p) : Args(p)[j] = e.name
    IN  IF Op(p) = "remove" THEN listed ELSE ~listed

DropNodeAndRest(h, k) == SubSeq(h, 1, k - 1)       \* mutant
DropNodeNever(h, k) == h                           \* mutant
DropNode(h, k) == SubSeq(h, 1, k - 1) \o SubSeq(h, k + 1, Len(h))

FilterHeader(p) ==
    LET me == loc[p]
    IN  /\ pc[p] = "filter"
        /\ IF me.k > Len(me.hdr)
           THEN Goto(p, IF Op(p) = "remove" THEN "writeHeader" ELSE "member",
                     [me EXCEPT !.k = 1])
           ELSE IF Dropped(p, me.hdr[me.k])
           THEN Goto(p, "filter", [me EXCEPT !.hdr = DropNode(@, me.k)])
           ELSE Goto(p, "filter", [me EXCEPT !.k = @ + 1])
        /\ UNCHANGED <<dir, ino, disk>>

-----------------------------------------------------------------------------
\* update_offsets_in_header fused with the loop that writes the header: the
\* k-th node goes out with its new offset, the list keeps the old ones.
WriteHeader(p) ==
    LET me == loc[p]
        n == Len(me.hdr)
        e == me.hdr[me.k]
    IN  /\ pc[p] = "writeHeader"
        /\ IF me.k <= n
           THEN /\ WriteWork(p, <<[e EXCEPT !.off = EntryOffset(n, me.raw)]>>)
                /\ Goto(p, "writeHeader", [me EXCEPT !.k = @ + 1, !.tfd.pos = @ + 1,
                                               !.raw = NextRaw(@, e.size)])
           ELSE /\ WriteWork(p, <<End>>)
                /\ Goto(p, IF Op(p) = "input" THEN "locate" ELSE "member",
                        [me EXCEPT !.k = 1, !.raw = 0, !.tfd.pos = @ + 1])
        /\ UNCHANGED disk

\* oldh->data._offset: the first entry of the old archive, or a malloc'ed
\* node nobody wrote to when the old header has no entry.
RawStartHeader(c) == {Len(Header(c))}              \* mutant
RawStart(c) == IF Header(c) # <<>> THEN {Header(c)[1].off} ELSE UninitOffsets

\* insert_files_routine re-reads the old header (reaching the end of the file
\* with errno set is an error) and, unless the file is empty, seeks to the
\* old data.
LocateData(p) ==
    LET me == loc[p]
        c == ArchFile(p)
    IN  /\ pc[p] = "locate"
        /\ IF me.err /\ ~Ended(c) THEN Exit(p)
           ELSE IF c = <<>> THEN Goto(p, "copyOld", me)
           ELSE \E off \in RawStart(c) :
                   Goto(p, "copyOld", [me EXCEPT !.afd.pos = Seek(off, Len(c))])
        /\ UNCHANGED <<dir, ino, disk>>

\* while ((reads = read(fd, buf, BUFFER_SIZE)) > 0) write(new_fd, buf, reads)
CopyOld(p) ==
    LET me == loc[p]
        n == ReadCount(ArchFile(p), me.afd.pos, Buffer)
    IN  /\ pc[p] = "copyOld"
        /\ IF n = 0
           THEN Goto(p, "openSource", me) /\ UNCHANGED fsVars
           ELSE /\ WriteWork(p, ReadInto(ArchFile(p), me.afd.pos, n))
                /\ Goto(p, "copyOld", [me EXCEPT !.afd.pos = @ + n, !.tfd.pos = @ + n])
        /\ UNCHANGED disk

\* The loop over every argument, skipped ones included: open it again; what
\* cannot be opened or read (app_fd is never checked) contributes nothing, a
\* fifo or device all that it yields, though it has no node in the header.
OpenSource(p) ==
    LET me == loc[p]
    IN  /\ pc[p] = "openSource"
        /\ IF me.k > Len(Args(p)) THEN Goto(p, "unlink", me)
           ELSE IF Readable(Args(p)[me.k]) \/ Special(Args(p)[me.k])
           THEN Goto(p, "copySource", [me EXCEPT !.pos = 0])
           ELSE Goto(p, "openSource", [me EXCEPT !.k = @ + 1])
        /\ UNCHANGED <<dir, ino, disk>>

CopySource(p) ==
    LET me == loc[p]
        data == disk[Args(p)[me.k]].data
        n == ReadCount(data, me.pos, Buffer)
    IN  /\ pc[p] = "copySource"
        /\ IF n = 0
           THEN Goto(p, "openSource", [me EXCEPT !.k = @ + 1]) /\ UNCHANGED fsVars
           ELSE /\ WriteWork(p, ReadInto(data, me.pos, n))
                /\ Goto(p, "copySource", [me EXCEPT !.pos = @ + n, !.tfd.pos = @ + n])
        /\ UNCHANGED disk

-----------------------------------------------------------------------------
\* The loop over the header of -r and -e.  -e opens the file to unpack with
\* O_CREAT | O_WRONLY, skips it if that fails and chmods it; both then seek
\* to the member and copy it with copy_file.
Writable(name) == disk[name].kind = "missing" \/ (Regular(name) /\ "w" \in disk[name].mode)

CreatedFile(name, mask) == [kind |-> "regular", data |-> disk[name].data, mode |-> mask]

NextMember(p) ==
    LET me == loc[p]
        e == me.hdr[me.k]
        ready == [me EXCEPT !.left = e.size, !.pos = 0, !.afd.pos = Seek(e.off, @)]
    IN  /\ pc[p] = "member"
        /\ IF me.k > Len(me.hdr)
           THEN /\ IF Op(p) = "remove" THEN Goto(p, "unlink", me) ELSE Exit(p)
                /\ UNCHANGED disk
           ELSE IF Op(p) = "remove"
           THEN Goto(p, "copyMember", ready) /\ UNCHANGED disk
           ELSE IF Writable(e.name)
           THEN /\ disk' = [disk EXCEPT ![e.name] = CreatedFile(e.name, e.mask)]
                /\ Goto(p, "copyMember", ready)
           ELSE Goto(p, "member", [me EXCEPT !.k = @ + 1]) /\ UNCHANGED disk
        /\ UNCHANGED fsVars

\* copy_file: one read() and one write() of at most BUFFER_SIZE bytes; a
\* short read is not noticed, the whole chunk is written.
CopyMember(p) ==
    LET me == loc[p]
        n == ChunkSize(me.left)
        chunk == ReadInto(ArchFile(p), me.afd.pos, n)
        read == ReadCount(ArchFile(p), me.afd.pos, n)
        rest == [me EXCEPT !.left = @ - n, !.afd.pos = @ + read]
        name == me.hdr[me.k].name
    IN  /\ pc[p] = "copyMember"
        /\ IF me.left = 0
           THEN Goto(p, "member", [me EXCEPT !.k = @ + 1]) /\ UNCHANGED <<dir, ino, disk>>
           ELSE IF Op(p) = "remove"
           THEN /\ WriteWork(p, chunk)
                /\ Goto(p, "copyMember", [rest EXCEPT !.tfd.pos = @ + n])
                /\ UNCHANGED disk
           ELSE /\ disk' = [disk EXCEPT ![name].data = WriteAt(@, me.pos, chunk)]
                /\ Goto(p, "copyMember", [rest EXCEPT !.pos = @ + n])
                /\ UNCHANGED fsVars

-----------------------------------------------------------------------------
\* remove(archive)
Unlink(p) ==
    /\ pc[p] = "unlink"
    /\ dir' = [dir EXCEPT ![Arch(p)] = NoIno]
    /\ Goto(p, "rename", loc[p])
    /\ UNCHANGED <<ino, disk>>

\* rename(".supertemp.egleser", archive), whose failure is not noticed; a
\* blind -r publishes what an earlier run left, or nothing.
Rename(p) ==
    /\ pc[p] = "rename"
    /\ IF dir[Temp] = NoIno THEN UNCHANGED dir
       ELSE dir' = [dir EXCEPT ![Arch(p)] = dir[Temp], ![Temp] = NoIno]
    /\ Exit(p)
    /\ UNCHANGED <<ino, disk>>

-----------------------------------------------------------------------------
\* The process is killed: its descriptors close, the files stay.
Crash(p) ==
    /\ pc[p] # "idle" /\ budget.crashes > 0
    /\ pc' = [pc EXCEPT ![p] = "idle"]
    /\ loc' = [loc EXCEPT ![p] = Idle]
    /\ budget' = [budget EXCEPT !.crashes = @ - 1]
    /\ UNCHANGED <<dir, ino, disk>>

\* Another program creates, rewrites or chmods a packed file in place.
Edit(f) ==
    /\ budget.edits > 0
    /\ \E s \in FileStates :
          /\ s.kind = "regular" /\ s # disk[f]
          /\ disk[f].kind # "directory"
          /\ disk' = [disk EXCEPT ![f] = s]
    /\ budget' = [budget EXCEPT !.edits = @ - 1]
    /\ UNCHANGED <<dir, ino, pc, loc>>

\* Nothing is running and no command is left to start.
Finished ==
    /\ budget.commands = 0 /\ \A p \in Procs : pc[p] \in {"idle", "garbled"}
    /\ UNCHANGED vars

Step(p) ==
    \/ OpenWork(p) \/ OpenArchive(p) \/ ReadHeader(p)
    \/ StatFile(p) \/ MeasureFile(p) \/ FilterHeader(p)
    \/ WriteHeader(p) \/ LocateData(p) \/ CopyOld(p)
    \/ OpenSource(p) \/ CopySource(p)
    \/ NextMember(p) \/ CopyMember(p)
    \/ Unlink(p) \/ Rename(p) \/ Refuse(p)

Blindly(p) == LoseWork(p) \/ ReadBlind(p)

\* What happens as long as no -r goes on without its work file.
Running ==
    \/ \E p \in Procs : Start(p) \/ Step(p) \/ Crash(p)
    \/ \E f \in Paths : Edit(f)
    \/ Finished

Next == Running \/ \E p \in Procs : Blindly(p)

Spec == Init /\ [][Next]_vars

\* The kernel runs every process that can run, and no command blocks.
FairSpec == Spec /\ \A p \in Procs : WF_vars(Step(p) \/ Blindly(p))

-----------------------------------------------------------------------------
(* Properties.                                                             *)

Labels == {"idle", "openWork", "openArchive", "readHeader", "stat", "measure",
           "filter", "writeHeader", "locate", "copyOld", "openSource",
           "copySource", "member", "copyMember", "unlink", "rename", "garbled"}

Fd == [ino : Inodes \cup {NoIno}, pos : Nat]

Local == [cmd : Commands \cup {NoCommand}, afd : Fd, tfd : Fd, hdr : Seq(Entry),
          k : Nat, added : Nat, raw : UInt, left : UInt, pos : Nat, err : BOOLEAN]

\* Every variable has its type: sizes, raw_off and bytes stay 64-bit values,
\* headers hold nothing but file_info records.
TypeOK ==
    /\ dir \in [Archives \cup {Temp} -> Inodes \cup {NoIno}]
    /\ ino \in [Inodes -> Seq(Cell)]
    /\ disk \in [Paths -> FileState]
    /\ pc \in [Procs -> Labels \cup {"blind"}]
    /\ loc \in [Procs -> Local]
    /\ budget \in [commands : Nat, crashes : Nat, edits : Nat, fails : Nat]

\* No -r went on without its work file.  One that does removes the archive,
\* and puts in its place what lies under the work file's name, if anything
\* (archiver.c:773, 797-798): two of the properties below end there.
Opened == budget.fails = MaxFails

\* Whatever was killed, failed or raced before, as long as no -r lost its
\* work file, the file an archive name is bound to is one read_header can
\* parse, with the offsets that update_offsets_in_header computes: no
\* half-written archive is visible.
Parsable == \A a \in Archives : dir[a] # NoIno => WellFormed(ino[dir[a]])
ArchivesWellFormed == Opened => Parsable

\* -i and -r never write to a file that is an archive or that some process
\* has open as one, so an extraction running beside them reads one version.
Visible(i) == (\E a \in Archives : dir[a] = i) \/ (\E p \in Procs : loc[p].afd.ino = i)

PublishedImmutable ==
    [][\A i \in Inodes : Visible(i) => ino'[i] = ino[i]]_vars

\* The old members that must survive -i (all) or -r (those not named), by their
\* place in the old header.
MustKeep(p) ==
    LET h == Header(ArchFile(p))
    IN  {i \in DOMAIN h : Op(p) = "input" \/ h[i].name \notin ToSet(Args(p))}

\* When the old archive is about to be removed, the work file already holds
\* every member that must survive, in order and with its old data
\* (remove_files, input_files), and nothing else but what -i added, provided
\* the old archive held all the data it announced and no -r lost its work file.
CompleteBeforeUnlink ==
    Opened => \A p \in Procs : pc[p] \in {"unlink", "rename"} =>
        LET old == Header(ArchFile(p))
            kept == MustKeep(p)
            new == Members(WorkFile(p))
        IN  (\A i \in kept : Intact(ArchFile(p), old[i])) =>
                /\ Len(new) = Cardinality(kept) + loc[p].added
                /\ \A i \in kept :
                      new[Rank(kept, i)] =
                          [name |-> old[i].name, data |-> Region(ArchFile(p), old[i])]

\* The arguments -i takes, by their place: the regular files among them.
Taken(p) == {k \in DOMAIN Args(p) : Regular(Args(p)[k])}

\* The members -i adds hold what their files hold, in argument order, after
\* the old ones (archiver.c:23-24).
AppendedExact ==
    \A p \in Procs : pc[p] \in {"unlink", "rename"} /\ Op(p) = "input" =>
        LET new == Members(WorkFile(p))
            old == Len(new) - Cardinality(Taken(p))
        IN  \A k \in Taken(p) :
                new[old + Rank(Taken(p), k)] =
                    [name |-> Base[Args(p)[k]], data |-> disk[Args(p)[k]].data]

\* While -e copies a member, the unpacked file starts with the bytes of the
\* member copied so far and exactly the rest is still to come.
UnpackedPrefix ==
    \A p \in Procs : pc[p] = "copyMember" /\ Op(p) = "extract" =>
        LET me == loc[p]
            e == me.hdr[me.k]
        IN  /\ me.pos + me.left = e.size
            /\ SubSeq(disk[e.name].data, 1, me.pos)
                   = SubSeq(Region(ArchFile(p), e), 1, me.pos)

\* Once started, a command on an archive that the program made ends (or dies),
\* when its arguments are regular files, directories or missing: the loops
\* over header, arguments, members and bytes all come to an end.
Termination == \A p \in Procs : pc[p] # "idle" ~> pc[p] = "idle"

-----------------------------------------------------------------------------
(* The archive the user is promised.  Between remove() and rename() the    *)
(* new version exists under the work file's name only.                     *)

CONSTANT Absent

Replacing(a) == { p \in Procs : pc[p] = "rename" /\ Arch(p) = a }

AbsStore ==
    [a \in Archives |->
        IF dir[a] # NoIno THEN Members(ino[dir[a]])
        ELSE IF Replacing(a) # {} THEN Members(WorkFile(CHOOSE p \in Replacing(a) : TRUE))
        ELSE Absent]

Store == INSTANCE ArchiveStore WITH store <- AbsStore

\* With one writer, no crash, readable files that nobody changes meanwhile
\* and archives that are never emptied, -i and -r do to the archive exactly
\* what ArchiveStore says, in one step.
StoreSpec == Store!Spec
=============================================================================
