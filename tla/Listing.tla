------------------------------- MODULE Listing -------------------------------
(***************************************************************************)
(* ls/main.c on a directory that other programs change.  The directory is  *)
(* read twice with one DIR: _prepare_files_list() counts the entries, then *)
(* fills an array of that size with pointers into the buffer of the DIR,   *)
(* sorts it, and _print_file() looks at each entry again.                  *)
(*                                                                         *)
(* Names are numbers in the order of strcmp().  "." is 0; ".." behaves     *)
(* like it and is left out.  Names are taken to be equally long, so that   *)
(* a refill puts entries where entries were.                               *)
(*                                                                         *)
(* A call can also fail for a reason of its own: a directory that may be   *)
(* read but not searched, a name that is too long, no memory, an error of  *)
(* the disk.  That is CallFails and ReadFails; faulted remembers it.       *)
(***************************************************************************)
EXTENDS Naturals, Sequences, FiniteSets, Functions

CONSTANTS
    Names,       \* of directory entries
    Hidden,      \* those that begin with a dot
    Links,       \* names that are created as symbolic links
    BatchSize,   \* entries that fit into the buffer of a DIR (32 KiB)
    MaxChanges   \* bound: entries created or removed during a run

ASSUME ListingAssumption ==
    /\ Names \subseteq Nat /\ IsFiniteSet(Names) /\ 0 \in Hidden /\ Hidden \subseteq Names
    /\ Links \subseteq Names \ {0}
    /\ BatchSize \in Nat \ {0} /\ MaxChanges \in Nat

VARIABLES
    dir,       \* the names that exist
    flags,     \* subset of {"all", "long"}
    pc,        \* where ls is
    buffer,    \* the DIR: entries of the last getdents(), over older ones
    filled,    \* how many of them belong to that call
    pos,       \* how many readdir() has returned
    offered,   \* names readdir() has fetched since the last rewind
    since,     \* names that have existed since then
    size,      \* _files_list_size
    blocks,    \* _blocks, a block for each entry
    array,     \* _files_list while it is filled: places in the buffer
    list,      \* _files_list once it is sorted: what they point to
    i,         \* index of the loop that prints
    printed,   \* names printed so far
    initial,   \* history: the directory when ls began
    created, removed, \* history: changes during the run
    faulted    \* history: a call has failed over an entry that was there

vars == <<dir, flags, pc, buffer, filled, pos, offered, since, size, blocks, array, list,
          i, printed, initial, created, removed, faulted>>

stream == <<buffer, filled, pos, offered, since>>
world == <<dir, initial, created, removed, faulted>>

Visible(n) == "all" \in flags \/ n \notin Hidden

Init ==
    /\ dir \in { d \in SUBSET Names : 0 \in d }
    /\ initial = dir /\ created = {} /\ removed = {} /\ faulted = FALSE
    /\ flags = {}
    /\ pc = "options"
    /\ buffer = <<>> /\ filled = 0 /\ pos = 0
    /\ offered = {} /\ since = {}
    /\ size = 0 /\ blocks = 0
    /\ array = <<>> /\ list = <<>>
    /\ i = 1 /\ printed = <<>>

-----------------------------------------------------------------------------
\* main(): -h and unknown options end the program, as does opendir() on
\* something it cannot open ("refused").
Options ==
    /\ pc = "options"
    /\ \/ pc' = "helped" /\ UNCHANGED <<flags, since>>
       \/ pc' = "refused" /\ UNCHANGED <<flags, since>>
       \/ pc' = "count" /\ flags' \in SUBSET {"all", "long"} /\ since' = dir
    /\ UNCHANGED <<buffer, filled, pos, offered, size, blocks, array, list, i, printed>>
    /\ UNCHANGED world

\* readdir() when the buffer is used up.  Entries that were there since the
\* rewind are returned once; of the others, what the file system likes.
Batches ==
    LET Old == since \ offered
        New == (dir \ since) \ offered
    IN  { b \in UNION { [1 .. k -> Old \cup New] : k \in 1 .. BatchSize } :
            /\ \A j, k \in DOMAIN b : b[j] = b[k] => j = k
            /\ Len(b) = BatchSize \/ \A n \in Old : \E k \in DOMAIN b : b[k] = n }

Fetched(b) == { b[k] : k \in DOMAIN b }

\* The new entries are written over the old ones.
Overlay(b) == [k \in 1 .. (IF Len(b) > Len(buffer) THEN Len(b) ELSE Len(buffer)) |->
                  IF k <= Len(b) THEN b[k] ELSE buffer[k]]

Refill ==
    /\ pc \in {"count", "fill"} /\ pos = filled
    /\ \E b \in Batches :
          /\ buffer' = Overlay(b)
          /\ filled' = Len(b)
          /\ offered' = offered \cup Fetched(b)
    /\ pos' = 0
    /\ UNCHANGED <<flags, pc, since, size, blocks, array, list, i, printed>>
    /\ UNCHANGED world

\* readdir() has no entry left.
AtEnd == pos = filled /\ since \subseteq offered

-----------------------------------------------------------------------------
(* _prepare_files_list(), the counting pass                                *)

CountEntry ==
    /\ pc = "count" /\ pos < filled
    /\ pos' = pos + 1
    /\ pc' = "lstat"
    /\ UNCHANGED <<flags, buffer, filled, offered, since, size, blocks, array, list, i, printed>>
    /\ UNCHANGED world

\* lstat() of the entry just read; that it is gone ends the program.
StatCounted ==
    /\ pc = "lstat"
    /\ IF buffer[pos] \notin dir THEN pc' = "failed" /\ UNCHANGED <<size, blocks>>
       ELSE /\ pc' = "count"
            /\ size' = size + 1
            /\ blocks' = IF Visible(buffer[pos]) THEN blocks + 1 ELSE blocks
    /\ UNCHANGED <<flags, array, list, i, printed>> /\ UNCHANGED stream
    /\ UNCHANGED world

\* malloc() and rewinddir()
RewindNot ==                                       \* mutant
    /\ pc = "count" /\ AtEnd
    /\ pc' = "fill"
    /\ UNCHANGED <<flags, size, blocks, array, list, i, printed>> /\ UNCHANGED stream
    /\ UNCHANGED world

Rewind ==
    /\ pc = "count" /\ AtEnd
    /\ pc' = "fill"
    /\ filled' = 0 /\ pos' = 0
    /\ offered' = {} /\ since' = dir
    /\ UNCHANGED <<flags, buffer, size, blocks, array, list, i, printed>>
    /\ UNCHANGED world

-----------------------------------------------------------------------------
(* ... the filling pass and the sort                                       *)

\* _files_list[i++] = cur_file, which points into the buffer.
FillFromZero ==                                    \* mutant
    /\ pc = "fill" /\ pos < filled
    /\ pos' = pos + 1
    /\ array' = Append(array, pos)
    /\ UNCHANGED <<flags, pc, buffer, filled, offered, since, size, blocks, list, i, printed>>
    /\ UNCHANGED world

FillEntry ==
    /\ pc = "fill" /\ pos < filled
    /\ pos' = pos + 1
    /\ array' = Append(array, pos')
    /\ UNCHANGED <<flags, pc, buffer, filled, offered, since, size, blocks, list, i, printed>>
    /\ UNCHANGED world

Overrun == Len(array) > size

\* qsort() of the first size pointers by what they point to now.  With fewer
\* entries than counted it follows uninitialised pointers; with more, the
\* heap behind the array was overwritten, which may or may not end the run.
SortedUnsorted(s) == s                             \* mutant
Sorted(s) ==
    LET order == CHOOSE f \in Bijection(DOMAIN s, DOMAIN s) :
                    \A j, k \in DOMAIN s : j < k => s[f[j]] <= s[f[k]]
    IN  [k \in DOMAIN s |-> s[order[k]]]

Qsort ==
    /\ \/ /\ Len(array) >= size
          /\ list' = Sorted([k \in 1 .. size |-> buffer[array[k]]])
          /\ pc' = "print"
       \/ Len(array) # size /\ pc' = "crashed" /\ UNCHANGED list
    /\ UNCHANGED <<flags, size, blocks, array, i, printed>> /\ UNCHANGED stream

Sort == pc = "fill" /\ AtEnd /\ Qsort /\ UNCHANGED world

\* In this pass nobody looks at errno: a readdir() that fails ends it early.
ReadFails ==
    /\ pc = "fill" /\ pos = filled /\ Qsort
    /\ faulted' = TRUE /\ UNCHANGED <<dir, initial, created, removed>>

-----------------------------------------------------------------------------
(* _list_routine(), _print_file()                                          *)

SkipHidden ==
    /\ pc = "print" /\ i <= size /\ ~Visible(list[i])
    /\ i' = i + 1
    /\ UNCHANGED <<flags, pc, size, blocks, array, list, printed>> /\ UNCHANGED stream
    /\ UNCHANGED world

\* lstat() again and the entry; -l then reads where a link points to.
PrintEntry ==
    /\ pc = "print" /\ i <= size /\ Visible(list[i])
    /\ IF list[i] \notin dir THEN pc' = "failed" /\ UNCHANGED <<i, printed>>
       ELSE /\ printed' = Append(printed, list[i])
            /\ IF "long" \in flags /\ list[i] \in Links
               THEN pc' = "readlink" /\ UNCHANGED i
               ELSE i' = i + 1 /\ UNCHANGED pc
    /\ UNCHANGED <<flags, size, blocks, array, list>> /\ UNCHANGED stream
    /\ UNCHANGED world

ReadLink ==
    /\ pc = "readlink"
    /\ IF list[i] \notin dir THEN pc' = "failed" /\ UNCHANGED i
       ELSE pc' = "print" /\ i' = i + 1
    /\ UNCHANGED <<flags, size, blocks, array, list, printed>> /\ UNCHANGED stream
    /\ UNCHANGED world

Finish ==
    /\ pc = "print" /\ i > size
    /\ pc' = "done"
    /\ UNCHANGED <<flags, size, blocks, array, list, i, printed>> /\ UNCHANGED stream
    /\ UNCHANGED world

\* Any lstat(), readlink(), getpwuid() or malloc() of an entry, and readdir()
\* in the counting pass; the malloc() of the array is used unchecked.
CallFails ==
    /\ \/ pc = "count" /\ pos = filled /\ pc' = "failed"
       \/ pc = "count" /\ AtEnd /\ pc' = "crashed"
       \/ pc \in {"lstat", "readlink"} /\ pc' = "failed"
       \/ pc = "print" /\ i <= size /\ Visible(list[i]) /\ pc' = "failed"
    /\ faulted' = TRUE
    /\ UNCHANGED <<flags, size, blocks, array, list, i, printed>> /\ UNCHANGED stream
    /\ UNCHANGED <<dir, initial, created, removed>>

Ended == {"helped", "refused", "failed", "crashed", "done"}

-----------------------------------------------------------------------------
\* Another program; an entry that comes (back) may be returned (again).
Changes == Cardinality(created) + Cardinality(removed)

Create(n) ==
    /\ pc \notin Ended /\ Changes < MaxChanges
    /\ n \notin dir \cup created
    /\ dir' = dir \cup {n} /\ created' = created \cup {n}
    /\ offered' = offered \ {n}
    /\ UNCHANGED <<flags, pc, buffer, filled, pos, since, size, blocks, array, list, i,
                   printed, initial, removed, faulted>>

Remove(n) ==
    /\ pc \notin Ended /\ Changes < MaxChanges
    /\ n \in dir \ ({0} \cup removed)
    /\ dir' = dir \ {n} /\ removed' = removed \cup {n}
    /\ since' = since \ {n}
    /\ UNCHANGED <<flags, pc, buffer, filled, pos, offered, size, blocks, array, list, i,
                   printed, initial, created, faulted>>

-----------------------------------------------------------------------------
Step ==
    \/ Options \/ Refill \/ CountEntry \/ StatCounted \/ Rewind
    \/ FillEntry \/ Sort \/ SkipHidden \/ PrintEntry \/ ReadLink \/ Finish
    \/ ReadFails \/ CallFails

Next ==
    \/ Step
    \/ \E n \in Names : Create(n) \/ Remove(n)
    \/ pc \in Ended /\ UNCHANGED vars

Spec == Init /\ [][Next]_vars

-----------------------------------------------------------------------------
(* Properties.                                                             *)

Labels == {"options", "count", "lstat", "fill", "print", "readlink"} \cup Ended

TypeOK ==
    /\ dir \subseteq Names /\ initial \subseteq Names
    /\ created \subseteq Names /\ removed \subseteq Names /\ faulted \in BOOLEAN
    /\ flags \subseteq {"all", "long"}
    /\ pc \in Labels
    /\ buffer \in Seq(Names) /\ Len(buffer) <= BatchSize
    /\ filled \in 0 .. Len(buffer) /\ pos \in 0 .. filled
    /\ offered \subseteq Names /\ since \subseteq dir
    /\ size \in Nat /\ blocks \in 0 .. size
    /\ array \in Seq(1 .. Len(buffer))
    /\ list \in Seq(Names) /\ i \in 1 .. size + 1
    /\ printed \in Seq(Names)

\* All entries came with one getdents(): no pointer leads to a later entry.
OneBatch == \A k \in DOMAIN array : array[k] = k

Times(n) == Cardinality({ k \in DOMAIN printed : printed[k] = n })

\* A listing that comes to its end is in order and has every name that
\* existed all the time, once, and no other name twice unless it came back;
\* that is if no call failed, the array had room and the buffer was filled
\* only once (main.c:421-432).
SteadyListed ==
    pc = "done" /\ ~faulted /\ ~Overrun /\ OneBatch =>
        /\ \A j, k \in DOMAIN printed : j < k => printed[j] <= printed[k]
        /\ \A n \in initial \ removed : Visible(n) => Times(n) = 1
        /\ \A n \in Names \ created : Times(n) <= 1
        /\ created = {} /\ removed = {} => blocks = Len(printed)

\* ls ends with an error only if an entry went away or a call failed over one
\* that was there, writes behind its array (main.c:429) only if an entry came,
\* and follows an uninitialised pointer (main.c:432, 439) only if one went or
\* a call failed: over a directory that nobody changes, of whatever size, the
\* second pass finds what the first counted.
OnlyChangesHurt ==
    /\ pc = "failed" => removed # {} \/ faulted
    /\ Overrun => created # {}
    /\ pc = "crashed" => removed # {} \/ Overrun \/ faulted
=============================================================================
