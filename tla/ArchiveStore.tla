---------------------------- MODULE ArchiveStore ----------------------------
(***************************************************************************)
(* What archive/archiver.c promises its user: an archive is a sequence of  *)
(* members, -i appends the files it can take in the order of its           *)
(* arguments, -r drops the members with the given names and keeps the      *)
(* others in order, nothing else changes an archive.                       *)
(***************************************************************************)
EXTENDS Places, SequencesExt

CONSTANTS
    Archives,   \* archive names
    Absent,     \* the value of an archive that does not exist
    Paths, Base,
    Commands    \* [op, arch, files]

VARIABLES
    store,      \* members of every archive: sequences of [name, data]
    disk        \* files that can be packed: [kind, data, mode]

vars == <<store, disk>>

Init == store = [a \in Archives |-> Absent]

Held(a) == IF store[a] = Absent THEN <<>> ELSE store[a]

\* The arguments -i takes, in order: the regular files among them.
Taken(files) == Pick(files, {i \in DOMAIN files : disk[files[i]].kind = "regular"})

\* -i creates the archive it will insert into.
Create(a) ==
    /\ store[a] = Absent
    /\ store' = [store EXCEPT ![a] = <<>>]
    /\ UNCHANGED disk

Insert(a, files) ==
    LET taken == Taken(files)
    IN  /\ taken # <<>>
        /\ store' = [store EXCEPT ![a] = Held(a) \o
               [i \in DOMAIN taken |->
                   [name |-> Base[taken[i]], data |-> disk[taken[i]].data]]]
        /\ UNCHANGED disk

Drop(a, names) ==
    /\ store[a] # Absent
    /\ store' = [store EXCEPT ![a] =
           Pick(@, {i \in DOMAIN @ : @[i].name \notin ToSet(names)})]
    /\ UNCHANGED disk

\* Unpacking, and other programs, change files and no archive.
ChangeFiles == UNCHANGED store /\ disk' # disk

Next ==
    \/ \E a \in Archives : Create(a)
    \/ \E c \in Commands :
          \/ c.op = "input" /\ Insert(c.arch, c.files)
          \/ c.op = "remove" /\ Drop(c.arch, c.files)
    \/ ChangeFiles

Spec == Init /\ [][Next]_vars
=============================================================================
