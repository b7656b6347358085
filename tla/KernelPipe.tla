----------------------------- MODULE KernelPipe -----------------------------
(***************************************************************************)
(* What pipe(2), fifo(7), read(2) and write(2) do for the programs of      *)
(* pipe/: a queue of whole records, one BUFSIZE write each, and the        *)
(* processes that hold either end.  A write of BUFSIZE (1024) bytes is     *)
(* below PIPE_BUF and is never split; a read of BUFSIZE bytes takes one.   *)
(***************************************************************************)
EXTENDS Naturals, Sequences

CONSTANT Capacity   \* records that fit into a pipe, 64 for the default 64 KiB

ASSUME CapacityAssumption == Capacity \in Nat \ {0}

Fresh == [data |-> <<>>, rd |-> {}, wr |-> {}]

Held(p) == p.rd \cup p.wr

\* read() returns: a record, or 0 when nobody can write any more.
Readable(p) == p.data # <<>> \/ p.wr = {}

\* What read() leaves in the caller's buffer: the oldest record, or what
\* was there, for which `nothing' stands.
Received(p, nothing) == IF p.data = <<>> THEN nothing ELSE Head(p.data)
Rest(p) == IF p.data = <<>> THEN p ELSE [p EXCEPT !.data = Tail(@)]

\* write() returns or raises SIGPIPE: no reader, or room for the record.
Broken(p) == p.rd = {}
Writable(p) == Broken(p) \/ Len(p.data) < Capacity

\* A process closes the ends in S; the kernel frees the data with the last.
Without(p, who, S) ==
    LET q == [p EXCEPT !.rd = IF "rd" \in S THEN @ \ {who} ELSE @,
                       !.wr = IF "wr" \in S THEN @ \ {who} ELSE @]
    IN  IF Held(q) = {} THEN Fresh ELSE q
=============================================================================
