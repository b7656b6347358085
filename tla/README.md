# os_tasks in TLA+

A verification development for the programs of this repository: nine small C
programs written for a course on operating systems. They share no code and never
talk to each other, so the project is a set of independent specifications, each
with its TLC instances and, where there is one, a module of proofs.

`PROJECT.json` is the index: which definition translates which lines, which run
checks which property, which changed definition breaks it, the hazards found in
the code and two disagreements between the code and its own documentation.

## 1. Inventory

| component | source | state | operations | modelled in |
|---|---|---|---|---|
| archiver | `archive/archiver.c` | the archive, the work file `.supertemp.egleser`, the packed files, the decoded header `fi_list` | `-i`, `-r`, `-e`, `-s` | `ArchiveFormat`, `Archiver`, `ArchiveStore`, `Places` |
| pthread_mutex | `pthread_mutex/main.c` | `str`, `str_mx`, the writer's counter | create, lock, compare, print, format, unlock, join | `PthreadMutex` |
| shmem | `shmem/writer.c`, `shmem/reader.c` | `/tmp/.shmem-info`, a System V segment per writer, signal handlers | start-up, copy loop, clean-up on a signal | `Shmem` |
| chmod | `chmod/mychmod.c` | automaton state, list of clauses, modes of the files | parse a mode string, apply it file by file | `MyChmod` |
| fork | `fork/main.c` | `pid` of either process, handlers, masks and pending signals | fork, wait, signals and the handlers that forward them | `Fork` |
| pipe | `pipe/pipe.c` | a pipe, its four ends, two buffers | pipe, fork, close, one write, one read, wait | `Pipe`, `KernelPipe` |
| fifo | `pipe/read_fifo.c`, `pipe/write_fifo.c` | the name `./tempfifo`, the fifos that had it, the readers' buffers | mkfifo, open, read or write, close, remove | `Fifo`, `KernelPipe`, `Mailbox` |
| ls | `ls/main.c` | a `DIR` and its buffer, the array of pointers into it | count, rewind, fill, sort, look at each entry again and print | `Listing` |
| cat, grep | `cat+grep/mycat.c`, `mygrep.c` | a stream, two counters, two widths | count lines, number and print them; filter lines | `TextTools` |

### 1.1 archiver

*State.* On disk: the archive (packed `file_info` records, four zero bytes, the
members' bytes), a work file with one fixed name, the files packed and unpacked.
In memory: the `fi_list`, descriptors with their positions, `raw_off`, `errno`,
which `read_header` consults to tell an empty file from an error.

*Operations.* `-i` reads the header, appends a node per regular argument,
computes the offsets, writes header, old data and new data to the work file,
removes the archive and renames the work file. `-r` does the same with fewer
nodes and copies member by member. `-e` filters the list and copies each member
to a file of its name. `-s` reads the header and prints it.

*Interaction.* Only through the file system: other runs of the program and other
programs that change the packed files between two of its system calls.

*What is hard.* A kill anywhere; the left-over work file; a file that changes
between being measured and being copied; a file that cannot be opened, the work file
included, which `-r` does not notice; a reader that has the old archive open while
it is replaced; 64-bit offsets that wrap; header nodes and command-line arguments
that fall out of step.

*What makes it correct.* No archive name is ever bound to a half-written file; a
published archive is never written to; a replacement loses no old member; the new
members are the files, in order; an unpacked file is the member; all of it
together: an archive is a sequence of members that `-i` extends and `-r` filters
in one step.

### 1.2 pthread_mutex

One writer and ten readers share `str` under `str_mx`. The writer writes
`num=1` ... `num=6`, replaces the last by `done` before it unlocks and returns;
readers print `str` until they find `done`. *Hard:* the order in which the mutex
is handed over; that a reader compares and prints the same string; that nobody
sees `num=6`; that everybody ends. *Correct:* exclusion, checked = printed, no
going back, return only after `done`, termination.

### 1.3 shmem

A writer creates the file (without `O_EXCL`), derives a key from its inode,
creates a segment with `IPC_EXCL` and copies a fresh string into it every three
seconds; its handler detaches, removes the segment and unlinks the file. Readers
find the segment by the same key and copy it every second. *Hard:* writers racing
for file and key, keys that come back with a reused inode, calls the kernel
refuses, signals before the handlers and inside them, unsynchronised copies, a segment gone under a reader.
*Correct:* one writer per segment, nothing left behind without a cause, the string
arrives.

### 1.4 chmod

`parse_mode_str` simulates an automaton over the mode string and builds a list of
clauses; `main` then runs `stat`, `apply_modes`, `chmod` for one file after
another and stops at the first that fails. *Hard:* the hand-written automaton,
the order of clauses, stopping half-way. *Correct:* the strings of the regular
expression in its comment pass, as far as the program claims to know them, the last
clause about a bit decides it, files after a failure are untouched.

### 1.5 fork

The parent installs a handler for SIGTERM, forks, and both install one for SIGINT;
the child sleeps, the parent waits. A handler passes its signal on to the process
in the global `pid` and exits. *Hard:* signals before, inside and after `fork()`,
`pid` being 0 in the child and in a parent that has not stored the result yet, -1
after a failed `fork()`, stale after `wait()`; handlers inside handlers;
`sa.sa_flags` uninitialised. *Correct:* while the child lives nobody else is
signalled, a parent that knows its child does not leave it asleep, the child
catches SIGTERM from its first instruction on.

### 1.6 pipe

Parent writes one record of 1024 bytes, child sleeps, reads and prints it. Each
closes the end it does not use. *Hard:* either may be killed anywhere, `pipe()` may
fail unnoticed, an end left open keeps the other side waiting for ever. *Correct:*
both end; the messages they print are true; only a kill breaks the transfer.

### 1.7 fifo

Both programs call `mkfifo`, ignore EEXIST and open; the reader sleeps, takes one
record, closes and removes the name. *Hard:* several readers and writers at once;
removal of a name that belongs to a newer fifo by now; the rendezvous of two
`open`s; a killed partner. *Correct:* a record reaches one reader whole or nobody;
both sides only miss each other through a third process's `remove`; a reader
prints garbage only for a cause.

### 1.8 ls

`_prepare_files_list` counts the entries, rewinds, fills an array of that size
with the pointers `readdir` returns and sorts it; `_print_file` calls `lstat` and,
for links, `readlink` per entry. *Hard:* the directory changes between the passes
and after them; the pointers lead into the `DIR`'s buffer, which the next
`getdents` overwrites; any call may fail, a `readdir` of the second pass unnoticed.
*Correct:* what was there all the time is listed once, in order; nothing goes wrong
unless the directory changes or a call fails.

### 1.9 cat and grep

`mycat` reads the file twice, first to learn the widths of the numbers, and cuts a
character off each line; `mygrep` prints the lines `regexec` accepts. *Hard:* the
file grows meanwhile; a last line without a newline; lines of one character.
*Correct*, for lines that end in a newline: the text printed is the text of the
file; numbers are gapless and the column is as wide as its last number; exactly the
matching lines are printed.

### 1.10 Not modelled

* The listing (`-s`) and help output of the archiver: the control of `-s` is in
  `Archiver`, what it prints is formatting without state.
* `archive/scr.sh` and the Makefiles: they build and start the programs.

## 2. How the models correspond to the code

### ArchiveFormat

A file is a sequence of cells: a `file_info`, the four zero bytes, or one byte of
data. Sizes and offsets count cells, so `sizeof(file_info_t)` and
`HEADER_ENDING_SIZE` are both 1; `% Word` stands for the `uint64_t` wrap-around.
The abstraction keeps what the properties distinguish: whether the reader of a
header meets a record, the terminator, data or the end of the file, and where
members lie. A name that begins with four zero bytes cannot be given on a command
line, so a record is never mistaken for the terminator.

`Seek` fails on offsets with the sign bit set (`lseek` takes an `off_t`);
`ReadInto` leaves junk where a read came back short, because `copy_file` writes
the whole buffer; `WriteAt` fills gaps with zeros.

### Archiver

One action per system call that reads or changes shared state; what lies between
two calls belongs to the action of the first. `pc` names the call a process is about
to make, `loc` holds its locals and the two descriptors with their positions.

| actions | code |
|---|---|
| `Start`, `OpenWork`, `OpenArchive` | `main`, `parse_args`, the `open`s of each command in the order of that command (`-i` opens the work file first, `-r` the archive) |
| `ReadHeader`, `AfterHeader` | `read_header` and the argument checks after it |
| `StatFile`, `MeasureFile` | `update_header_for_input`; `stat` and `open`+`lseek` are two steps because the file may change between them |
| `FilterHeader` | `remove_files_from_header`, one node per step |
| `WriteHeader` | `update_offsets_in_header` with the loop that writes the records, then the terminator |
| `LocateData`, `CopyOld`, `OpenSource`, `CopySource` | `insert_files_routine` |
| `NextMember`, `CopyMember` | the loops of `extract_files` and `remove_files`, `copy_file` |
| `Unlink`, `Rename` | `remove(archive)`, `rename(work, archive)` |
| `Refuse`, `LoseWork`, `ReadBlind` | an `open` of the archive or the work file that fails: noticed, or, for the work file of `-r`, not; such a run still removes the archive and renames whatever has the work file's name |
| `Crash`, `Edit` | a kill between any two calls; another program rewriting or chmod-ing a packed file in place |

`read_header` is called twice by `-r` for two lists that `remove_files_from_header`
treats alike; the model keeps one list with the old offsets and writes the new
ones. The second read finds what the first found: a published archive is not
written to (`PublishedImmutable`). The label `garbled` is where `read_header`
would parse something that is not a record; only two concurrent writers can bring
a process there. `UninitOffsets` are the values the `_offset` of an unwritten
`malloc`ed node may have. `err` is `errno # 0`: set by a failed `stat` or `open`.

A path names a regular file, a directory, a "special" file, or nothing. A special one
is a fifo or a device whose bytes come to an end: `-i` makes no node for it and
prints that it is skipped, but the copy loop opens every argument again and copies
what it yields (`archiver.c:600-609`).

Which calls fail: `open` and `stat` of arguments and unpacked files as their kind and
mode say, without a bound; `open` of the archive and of the work file at any time.
`MaxFails` bounds only the ones `-r` overlooks, since they have an effect; with 0,
none of the archive and work file fails. Left out:

* failing and short `write`s, failing `remove`, `rename`, `chmod` and `malloc`;
* devices that never end and fifos nobody writes to, over which the copy loop
  never comes to an end, and an archive that is a directory, where `read` returns
  -1 and the loop of `read_header` (line 451) never ends: `Termination` speaks of
  the others;
* members named like an archive or like the work file: `-e` would write them into
  that file in place (708-717); in the model packed and unpacked files and archives
  are different files;
* unpacking to a name that is a fifo or device; a kill between the `open` and the
  `chmod` of an unpacked file, which are one step;
* the mask of a member comes from the `stat` of line 554, one step before the model
  takes it; no property looks at masks of files that change;
* names of 256 bytes and more, and what is printed.

`ArchiveStore` is the abstract archive: a sequence of members per name; `Insert`
appends, `Drop` filters, `Create` makes an empty one. `Archiver!AbsStore` is the
refinement mapping: the members of the file the name is bound to, and, between
`remove` and `rename`, those of the work file about to get the name.

`Places` is shared by both: a part of a sequence is given by the set of its places,
and `Rank` says where in the part a place comes (`Pick` is `SelectSeq` with a set for
a test). The arguments `-i` takes and the members `-r` keeps are such sets, in
`CompleteBeforeUnlink`, `AppendedExact` and `ArchiveStore`.

### PthreadMutex

`str` is a complete string or `Torn`, while one of the two `sprintf`s is at work;
lock, `strcmp`, `printf`, unlock, sleep and return are separate steps. `main` creates the
threads while the first ones already run, the writer's `pthread_create` may fail
unnoticed, a reader's ends the process.

### Shmem

Each writer creates at most one segment, so segments are named after writers. The
memory stays while somebody is attached, the key goes at once. The two 512-byte
`memcpy`s are two steps per side, one per half: enough for a torn read. A
signal may arrive at every step, each kind once per writer and `MaxSignals` in all,
SIGKILL included; with a handler it
enters `free_at_exit`, from inside `free_at_exit` too, without one it ends the
process. `open`, `shmget` and `shmat` may be refused at any time (no memory, too many
segments, a foreign segment with the key, the mode the file got from a missing
argument). A writer that is refused its segment or its mapping ends at the label
"refused", with the file, and perhaps the segment, left behind. A new file gets any key of `Keys`, a formerly used one included: that is
what `ftok` makes of a recycled inode number.
The second run of the handler does the three calls again from the start; after it
`exit` ends the process, so the interrupted first run is never resumed.

### MyChmod

One action per turn of the automaton, then `stat` and `chmod` per file. A mode is
a set of (class, permission) pairs and flags are sets of characters; `a` remains
a flag of its own, as `PG_ALL` does. `cur_char` is a variable: it is declared in
the loop's body without an initialiser and carried from one turn to the next,
which holds for the build in the Makefile (no optimisation, one stack slot).
The properties read the string without the automaton. `Regex` is the regular
expression of the comment at `mychmod.c:10`, as it stands there. `AcceptsGrammar`
compares the automaton with it, and `LeftOut` and `Extra` name the strings on which
they differ (see Disagreements). `Concerns` says which bits a clause is about: a
sign and what follows it up to the next one. A clause that names classes after its
sign `Borrows` the permissions of these, as `mychmod.c:50-52` puts it; the code does
something else with it, and `LastClauseDecides` claims nothing of the bits such a
clause decides. Numbers longer than 22 digits, where `strtoul` saturates, and set-id bits are
left out.

### Fork

`pc` names the next call of `main` in either process, `caught` the inside of a
handler, `exit0`/`exit1` the way to `exit`. Handlers never return, so a signal
that interrupts a handler leaves only the innermost one to go on and `serving` need
not be a stack. `Deliver` is the kernel: it masks the handler's own signal, unless
`sa_flags`, which `Sigaction` chooses from what garbage may hold, has SA_NODEFER,
and removes the handler with SA_RESETHAND. `ForkChild` copies the handlers;
between it and `Assign` `pid` is still 0. Every signal comes from outside at most
`MaxSignals` times to each process (`outside`); the ones the parent forwards come
on top. That
`wait` reports `WEXITSTATUS` of a child a signal ended is printing and left out.

### KernelPipe, Pipe, Fifo, Mailbox

`KernelPipe` is external: a queue of whole records with the processes that hold
either end. A record of 1024 bytes is below PIPE_BUF, so `write` never splits it.
The last `close` frees the data.

`Pipe` has one action per call of `pipe.c`. A failing `pipe()` leaves two
descriptors that are not open: every later call on them does nothing. `Kill` ends
either process anywhere, and ending closes what is still open.

`Fifo` has one action per call of either program. A fifo is named after the
process whose `mkfifo` made it, so the name can be bound to another fifo while the
old one is still in use. `Open` registers the process's end at once and wakes the
partners that wait there, as Linux does: a partner that goes again has still
completed the rendezvous. Without a name `open` returns -1 (`fd = None`) and the
process goes on. `sent` is a history variable for the refinement: `Mailbox` says
what happens to a string (unsent, waiting, with one reader, lost), and
`Fifo!Fate` is the mapping.

### Listing

`buffer` is the memory of the `DIR`; `Refill` is one `getdents`, which overwrites
it from the front, so that an index stored in `array` before may mean another
entry afterwards. Batches are full except for the last; entries that were there
since the rewind are returned once, others as the file system likes. Names are
equally long, so entries come to lie where entries were; names of different length
would give the same pointers something worse than another entry. "." is the name
0; ".." behaves like it. Fewer entries in the second pass leave uninitialised
pointers (`crashed`), more overwrite what lies behind the array, which may end the
run or not. `CallFails` is any call over an entry that is there, `lstat` without
permission to search the directory, `getpwuid`, `malloc`, and `readdir` of the
counting pass; `ReadFails` is `readdir` of the second pass, where the code does not
look. `faulted` remembers that there was one. The columns of `-l`, owners and times are formatting.

### TextTools

A file is a sequence of letters and newlines; `GetLine` is one `getline`, with the
stream's sticky end of file; a read may fail at any line of either pass
(`ReadFails`), and whether the part of a line read before it is printed is left
open, since the program then reports an error. Characters behind a NUL are left
out, and the stream has no buffer of its own: an append is seen at once, as it is by a
program whose buffer was empty. `Base` is 10 in the code; with 2 a width
changes within the few lines of an instance. Four patterns stand for the regular
expressions: unanchored, anchored at either end, and the empty line.

## 3. Runs

All instances are in the `MC` modules, or directly in the specification when
plain values do. Every run checks deadlock; `Finished`/`Ended` are the
only steps of a system that has stopped.

| run | question | bounds | result |
|---|---|---|---|
| `archiver_clean` | do `-i` and `-r` do what `ArchiveStore` says, beside a second process that unpacks, and does every command end? | 2 processes (1 writer), 2 files of 3 and 1 bytes, the second of which may be a directory, 3 commands, 2-byte buffer | holds |
| `archiver_faults` | well-formedness, completeness, immutability under kills, edits, failing `open`s, missing, unreadable and special files | the same with 1 kill, 1 edit, 1 overlooked failure, any number of noticed ones, four states of one file | holds |
| `pthread` | safety, and that the process ends | 3 readers, limit 3 | holds |
| `shmem` | can a reader mix two writers' strings; what is left when all writers have ended; does the string arrive? | 2 writers, 1 reader, 1 key, 2 signals of any kind in all | holds |
| `shmem_two_writers` | is there one writer at a time? | 3 writers, 2 keys, 4 signals | violated |
| `mychmod` | regular expression, last clause, termination | all strings of up to 4 of 9 characters, 2 files of which one may fail | holds |
| `fifo` | is a string delivered whole or lost; who can miss whom; is a string within reach delivered; does anybody past `open` wait for ever? | 2 readers, 2 writers, 1 kill, 2 records | holds |
| `pipe` | do both sides end, and are their messages true? | 1 record, any number of kills | holds |
| `fork` | whom do the handlers reach while the child lives, is it told, does it catch SIGTERM, do both end? | both signals up to twice to each process from outside | holds |
| `listing` | is what was there all the time listed once, and what can go wrong only because of changes or failures? | 4 names, 2 hidden, 1 link, 3 entries per buffer, 3 changes, any failing call | holds |
| `text` | is the file printed, are the numbers right, are the matching lines printed, as far as lines end in a newline? | all files of up to 5 of 3 characters, 2 appended | holds |
| `text_cat` | does `mycat` print the contents of any file? | all files of up to 3 of 3 characters, nothing appended | violated |

*Why the bounds are enough.* Three commands let one insertion build an archive,
another replace it while a third reads or follows a failed one, which are the
longest dependencies the file system carries (the archive and one left-over work
file). A 3-byte file with a 2-byte buffer needs a full and a short chunk; the
1-byte file one short chunk. `Word = 64` is far above any real size of the
instance, so only the size of an unreadable file, 63, wraps, as in the code. One
overlooked failure is enough, since two properties end at the first and the others
do not depend on how many there were. Two writers of the shared memory are one that
ends and one that takes over its file or its key; with one key every new file gets
the recycled inode, which is what lets them meet. With two writers a second key only
adds executions in which they do not (with two live segments a third writer would be
needed to look for either, as in `shmem_two_writers`). Two signals end both writers,
or enter one handler inside the other; `Shmem_proofs` needs neither bound. Four
characters hold a class, a clause and the beginning of a second.

Two readers and two writers are one pair to be disturbed and one that disturbs:
each property of `Fifo` speaks of one process, its partner and a third. With two
writers a fifo of two records is never full (a real one is with 65 writers, who
then wait as the model's `Writable` makes them). In `Listing` four names over a
buffer of three need a second `getdents`; three changes are enough to remove an
entry, create one, and do something in between. Five characters in `TextTools` are
three to five lines, so that binary numbers get a second and a third digit.

In `Fork` two signals of a kind are one that is being handled and one that comes
while it is; `Fork_proofs` does not need the bound.

The state graphs of `Fifo`, `Fork`, `Listing` and `TextTools` have no cycles but
the steps of a system that has stopped, so that the deadlock check of these runs
also shows that every execution comes to such an end.

*Disagreements between the sources' words and what they do.* The two runs that are
expected to find a violation, `shmem_two_writers` and `text_cat`, have their entries
under "findings" in `PROJECT.json`. Others were met while modelling. The models
contain them as behaviour, and the properties leave room for them, that is, they
claim nothing where the words and the code differ; they do not confirm the code.

* `-r` does not look whether it could open the work file (`archiver.c:773`). If it
  could not, it removes the archive and renames what an earlier run left, or nothing.
* After the last member was removed from an archive, the next insertion reads the
  offset of the old data from a node nobody has written (`archiver.c:584`).
* A work file left by a killed or failed run is opened without O_TRUNC
  (`archiver.c:406`) and its tail becomes part of the next archive.
* A fifo or device among the arguments of `-i` is reported as skipped
  (`archiver.c:524-531`), yet its bytes are copied into the data (602-608), where no
  node of the header counts them.
* Of two members with one name the extraction leaves a mixture, since the file is
  not truncated between them (`archiver.c:708`).
* A writer that is refused a segment or the mapping leaves its file, and segment, behind
  (`writer.c:66-77`).
* A reader of the shared memory without a writer is not always told so
  (`reader.c:36`): if the file is there and the segment is not, it is killed by
  SIGSEGV.
* `mychmod` does not accept the language of `mychmod.c:10`. Of the regular expression
  it rejects every string with `=`, `X`, `s` or `t`, and a clause without letters
  unless it is the last (`+-r`). Beyond it, it accepts the empty string, which it
  takes for the number 0, so that the files get the mode 000, and several
  classes after one sign (`+ug`).
* `mychmod` turns a clause that names classes into the rwx bits of those classes
  (`mychmod.c:361`); the comment at `mychmod.c:50-52` calls them the groups whose
  permissions are borrowed.
* The handlers of `fork` trust `pid`: after a failed `fork()` (`fork/main.c:51`) they
  call `kill(-1)`, after `wait()` they signal an id that may be a stranger's.
* `ls` over more entries than a `DIR` buffer holds (32 KiB) lists some entries
  twice and others not at all, also if nobody changes the directory
  (`ls/main.c:429`); `SteadyListed` therefore says `OneBatch`.
* `mycat -b` ("count every non-empty line in file", `mycat.c:56`) does not number a
  last line of one character without a newline (`mycat.c:107`), for the same reason
  for which it does not print it (`mycat.c:116`, the run `text_cat`).
* `mygrep` ("print lines that satisfy the given regexp", `mygrep.c:51`) hands
  `regexec` the newline with the line and does not set REG_NEWLINE
  (`mygrep.c:100`): a pattern that ends in `$` finds only an unterminated last line,
  and `^$` none.

## 4. Fairness

* *Archiver*: weak fairness of each process's own steps. No call it makes waits
  for another process, so the kernel runs it to its end. Starting commands, kills
  and edits are not fair.
* *PthreadMutex*: weak fairness of every thread and strong fairness of taking the
  mutex: a pthread mutex promises no order, but a thread that released it sleeps
  for a second before it asks again, so a waiting thread finds it free again and
  again and is woken.
* *Shmem*: weak fairness of both loops (`sleep` ends). No signal has to come.
* *MyChmod*: weak fairness of the single process.
* *Fifo*, *Pipe*: weak fairness of each process's own steps: the kernel runs who
  can run, and `sleep` ends. Waiting in `open`, `read`, `write` and `wait` is a
  guard, so it needs no assumption. Kills are not fair.
* *Fork*, *Listing*, *TextTools*: none is needed, see the remark on cycles above.

## 5. Proofs

The `_proofs` modules are checked by TLAPS for all values of the constants. Each
builds an inductive invariant in layers, one lemma per action and layer, and reads
the properties off it; `PROJECT.json` lists the results by name.

### Archiver_proofs

The module begins with what `ReadInto`, `WriteAt`, `Header` and the arithmetic
modulo `Word` return, for every file, position and size.

* `TypeCorrect`: `TypeOK`, from the inductive `TypeInv`, which adds what the type
  needs: indices stay inside the list they index where a step dereferences them,
  and a descriptor is open at the labels that use it.
* `Immutable`: `PublishedImmutable`. The strengthening is `Private`: the inode of
  the work file is bound to no archive and open as an archive by nobody, and an
  inode the writer holds as work file is the one bound to the work file's name.
  `PublishedImmutable` itself is about one step and says nothing of why the inode
  written to is invisible; `Private` does. The steps that write no file are handled
  by one lemma (`Quiet...`).
* `ArchivesComplete`: `ArchivesWellFormed`. The invariant is under `Opened`: it holds
  until a `-r` goes on without its work file (`Blindly`), and what is proved inductive
  is `Opened => Inv`, since `Opened` never comes back. The steps before are those of
  `Running`, of which all layers below speak. What is renamed must be well-formed, so
  the invariant has to follow the writer: `DraftInv` says that after k turns of the
  header loop the work file begins with the first k - 1 nodes of the list, that
  their offsets are the running sum modulo `Word` (`HeaderSoFar`), and that later
  writes stay behind the terminator (`HeaderDone`). A well-formed work file, a name
  that moves only in `Rename`, and `Private` make the step.
* `NothingLostByUnlink`: `CompleteBeforeUnlink`. Two more layers: `ListInv` says
  which nodes of the old header the list in memory still has (`Filtered`: each
  kept node stands in the list at its `Rank` among the kept places, then come the
  nodes not looked at yet), `CopiedInv` how much of whose data the work file
  holds. For `-i`, old offsets and data move by the same distance (`OffsetsShift`);
  for `-r`, a member's new place is the sum of the sizes before it.
* `UnpacksTheMember`: `UnpackedPrefix`. `UnpackedInv` says for an extraction in
  `copy_file` where it stands in the archive, or that it stands at the end of it
  where a copy that knew would stand too, and what the unpacked file begins with.
  `Private` again keeps the archive under it as it is.

* `AddedExactly`: `AppendedExact`. `AnnouncedInv` says that the nodes behind the old
  ones are the regular arguments looked at so far, in order and with their sizes;
  `SourcedInv` says, for each argument copied, that its data stands in the work file
  where its node says, and of the one being copied, how far it has come. The hard
  part is that the loop over the header and the loop over the arguments do not
  know of each other: the offsets come from the first, the bytes from the second,
  and they agree only as long as each argument contributes as many bytes as
  `lseek` measured.
* `RegularRuns`: `AppendedExact` again, and that every archive ends where its last
  member ends (`ExactArchives`), without assuming anything of the archives.
  `TidyInv` says that nothing lies in a work file behind what its writer wrote, and
  `LeftEmpty` that a work file nobody has open is empty (an insertion that finds
  nothing to add leaves one).
* `StoreRefined`: `StoreSpec`, that `Archiver` implements `ArchiveStore` under
  `AbsStore`. `CurrentInv` adds that the archive the writer read is the one its
  name is bound to until `remove`. Then `Unlink` is the step that changes the
  abstract archive: to the old members with the taken arguments behind them
  (`InputAppends`), or to those that are kept (`RemovePicks`); `OpenArchive` is
  `Create` where `-i` finds no archive; `Rename` and all other steps change nothing
  (`StoreStep`).

*What these theorems assume.* `ArchivesComplete`, `NothingLostByUnlink` and
`AddedExactly` say nothing after a `-r` has overlooked that `open` failed
(`Opened`; `archiver.c:773`), when the members are indeed lost. The others hold in
spite of it or exclude it by name. All but `TypeCorrect` assume `OneWriter`, at most one
process that runs `-i` or `-r`: with two, which share one work file name, the
properties are false, and nothing in the program or its documentation
promises them. `NothingLostByUnlink` is about states in which `FilesFit`: no file is
as long as an `off_t` cannot say (2^63 bytes); an unreadable file is entered with
the size 2^64 - 1 and a later `-r` that copies it would fill the disk, which the
model allows and no computer reaches. `UnpacksTheMember` speaks of extractions whose
file no other extraction (`Alone`) and no other program (`EditsElsewhere`)
writes to at the same time, and of members with an offset `lseek` accepts
(`Addressed`); it allows kills, failing `open`s, edits of other files, and insertions
and removals that replace the archive.

`AddedExactly` is about executions in which no step changes a file that is an
argument of an `-i` under way (`SourcesStay`), and about states in which the
arguments are readable files, directories or missing, and the archive `-i` read ends
with its last member (`SourcesGood`). The program promises nothing for the others: it measures a file
and copies it later, enters an unreadable one with the size -1, and puts new
data where the old file ends, whatever its header says, and copies fifos and devices
it has no node for. Kills are allowed.

`RegularRuns` and `StoreRefined` replace the assumption on the archive by ones on
the executions: besides `SourcesStay`, that no writer is killed and none of its
`open`s of archive and work file fails (`Undisturbed`), that arguments of `-i` are readable files or directories, that no `-r` removes all
members and that files fit (`Regularly`). Each is needed: a kill, or an `open` of the archive that fails, leaves a work file
whose tail gets into the next archive (`archiver.c:406`), a missing argument makes
the program exit with the same effect, an unreadable one is entered with a size of
its own, and an emptied archive lets the next insertion start from an
uninitialised offset (`archiver.c:584`). `StoreRefined` also needs that `Absent` is
no sequence of members (`AbsentIsNoArchive`). The commands, files and bounds of the
run `archiver_clean` are chosen so that all of this holds of each of its
executions. Other processes may unpack and list meanwhile, any number of them, and
may be killed.

### PthreadMutex_proofs

One inductive invariant `Inv` ties the mutex's owner to the labels between lock and
unlock, and `str` to the writer's label and counter; from it follow
`MutualExclusion`, `PrintsCheckedString`, `ReturnsAfterDone` and, as an action
property, `PrintedInOrder`, for any number of readers and any limit.

### Shmem_proofs

`NeverMixed`: `OneSource`, for any number of processes and keys. `Inv` says that a
writer past `shmget` refers to its own segment, that a segment holds only its
creator's strings or blanks, and that a reader's buffer holds only what the one
segment it looked up held. `CleanedUp`: `NothingLeft`. `CleanInv` says who will
clean up: a live segment has an owner that is before the removal in its handler or
that was killed or refused the mapping (`Owned`), and while the file exists some
writer has not reached its `unlink`, was killed, or was refused (`Tended`). A writer that finds the file of another is the
reason why the second part cannot name the creator.

### MyChmod_proofs

For strings of any length and any files. `TypeCorrect`; `ParserAccepts`
(`AcceptsGrammar`); `ModesAsWritten` (`LastClauseDecides`). `ParseInv` says what the
classes and the list of clauses are after n characters: there is an increasing
function from clauses to the places of their signs that leaves no sign out, and a
clause has the flags that stand between its sign and the next. The proof goes in two
steps. First the automaton's language and its result are described exactly, without
the automaton (`AcceptsExactly`, `AppliedExactly`, with `Grammatical` and `Meaning`,
which are the proof's own); then that language is compared with `Regex`, `Extra` and
`LeftOut`, and that result with the last clause that concerns a bit. What `FoldLeft` makes of a list of clauses (`ApplyModesDecides`: the last
clause about a bit decides it) is an induction over the list, see below. The files
before the current one have the meaning, the others are as they were.

### Listing_proofs

For any finite set of names, any size of buffer and any number of changes.
`TypeCorrect`; `OnlyChangesHurtIt` (`OnlyChangesHurt`); `ListsSteadily`
(`SteadyListed`). The layers: `DirInv`, what changes leave of the directory;
`CountInv`, the numbers both passes arrive at are the cardinalities of the sets of
names returned; `HurtInv`, what the second pass can find against what the first
counted, unless a call failed; `FillInv`, as long as all pointers are of one batch the batch is what was
fetched; `ListInv` and `PrintInv`, the sorted list has every name that stayed and
what is printed is what is visible of it. `Sorted` (`qsort`) is the choice of a
permutation that orders; `OrderingExists` proves that there is one.

### Fork_proofs

For any number of signals: `TypeCorrect`, `WhileTheChildLives`, `TellsTheChild` and
`CatchesTerm`, which are the run's four properties. `WhileTheChildLives` says that
while the child lives the handlers' `kill()` reaches nobody but the child; nothing is
claimed after a failed `fork()`, when the model too has it reach everybody, or after
the child has ended, when it may reach a stranger. `FamilyInv` says what
either process knows of the other (a pid is stored only after `fork` returned, a
reaped child has ended), `HandlerInv` that from `fork` on the child has the handler
of SIGTERM unless SA_RESETHAND took it, `ToldInv` that a parent that has left its
handler has left the child ended or with a signal.

### Fifo_proofs and Pipe_proofs

* `Fifo_proofs`, for any readers, writers, kills and capacity: `TypeOK`,
  `MissedByRemoval`, `GarbageExplained` and the refinement, `MailboxSpec`. `Base`
  adds to the types that the ends of a fifo are held by exactly the processes
  between `open` and `close` that have it. `Rendezvous` (nobody waits for a partner
  that is there) and `OneFifo` (until the first `remove` all descriptors are of the
  fifo that has the name) give `MissedByRemoval`. `Strings` (a string is in one
  fifo once, or with one reader, and only after its `write`) makes `Fate` a
  function of the state whose steps are those of `Mailbox`: `Effects` says that a
  step leaves the strings alone except those of a fifo nobody holds any more,
  takes the oldest of one fifo, or puts one behind the others. `Causes` carries, for
  each reader about to read, the writer that explains an empty fifo.
* `Pipe_proofs`, for any capacity: `TypeOK` (which no run repeats), and both
  safety properties, from one invariant on the ends, the order of the two
  processes and the place of the string.

### Assumptions on the constants

`MaxFails` and the other bounds are natural numbers; `Word` and `Buffer` are positive; archives and the work file have different names,
and `NoIno` is no inode; commands, file states and initial disks have their types.
In `MyChmod` mode strings hold no NUL, in `Listing` the set of names is finite, in
`Fork` the number of signals is a natural number. The run of each module evaluates
them.

### Induction

The library's induction theorems take a predicate as a parameter, and the provers
here cannot instantiate one. Where an induction over the length of a list is
needed (`OrderingExists`, `ApplyModesDecides`, `LeastNatural` with the
header of an archive, `RankOnto`) the proof takes the set of the lengths at which the claim
fails and derives a contradiction from its least element, which `WFMin` gives and
which needs sets only.

### Only model-checked

* Everything about `TextTools`: what it prints is made by `FlattenSeq`, `SelectSeq`
  and a recursion over digits, whose values on every input are out of the provers'
  reach.
* All liveness properties, and that no run deadlocks.

## 6. Plan

Done: every program of the repository has its model. Proved are all safety
properties of the archiver, the mutex program, the shared memory pair, `mychmod`,
the fifo programs, the pipe, the fork program and `ls`, and both refinements,
`ArchiveStore` and `Mailbox`.

What is left:

1. The widths and texts of `TextTools`, which need the values of recursive
   definitions on every input.
2. `Archiver` with two writers and with writes that fail: nothing in the program
   or its documentation promises anything for them; what survives is to be
   stated first.
3. Members unpacked into an archive or into the work file (`archiver.c:708`), for
   which packed files and archives have to become one file system.
