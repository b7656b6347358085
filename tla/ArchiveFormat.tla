---------------------------- MODULE ArchiveFormat ----------------------------
(***************************************************************************)
(* The archive file of archive/archiver.c as a sequence of cells, and the  *)
(* reads, writes and offset arithmetic the program performs on it.         *)
(*                                                                         *)
(* One cell stands for one unit the program reads or writes as a whole: a  *)
(* packed file_info, the four zero bytes that end the header, or one byte  *)
(* of file data.  Both header units therefore have size 1 here, where      *)
(* sizeof(file_info_t) = 280 and HEADER_ENDING_SIZE = 4 in the code.       *)
(***************************************************************************)
EXTENDS Integers, Sequences, SequencesExt

CONSTANTS
    Names,      \* file names as they are stored in a header
    Modes,      \* permission masks (st_mode & 0777)
    Data,       \* bytes a source file may hold
    Word,       \* uint64_t arithmetic is modulo Word (2^64 in the code)
    Buffer      \* BUFFER_SIZE: the most cells one read() asks for

ASSUME FormatAssumption ==
    /\ Word \in Nat \ {0}
    /\ Buffer \in Nat \ {0}

UInt == 0 .. Word - 1                      \* uint64_t

\* struct file_info, tagged so that it differs from the other two cells.
Entry == [tag : {"entry"}, name : Names, size : UInt, mask : Modes, off : UInt]

End == [tag |-> "end"]                     \* the four zero bytes
Byte(b) == [tag |-> "byte", b |-> b]
Junk == Byte("junk")                       \* left over in a stack buffer
Zero == Byte("zero")                       \* a hole in a sparse file

Cell == Entry \cup {End, Junk, Zero} \cup { Byte(b) : b \in Data }

-----------------------------------------------------------------------------
\* lseek(fd, off, SEEK_SET): a value whose sign bit is set is a negative
\* off_t, so the call fails with EINVAL and the position stays where it was.
SeekIgnored(off, pos) == pos                       \* mutant
Seek(off, pos) == IF off < (Word + 1) \div 2 THEN off ELSE pos

\* How many cells one read(fd, buf, n) at pos delivers.
ReadCount(c, pos, n) ==
    IF pos >= Len(c) THEN 0
    ELSE IF pos + n <= Len(c) THEN n ELSE Len(c) - pos

\* The n cells a buffer holds after read(fd, buf, n): what was read, then
\* whatever the buffer held before.
ReadInto(c, pos, n) ==
    [i \in 1 .. n |-> IF pos + i <= Len(c) THEN c[pos + i] ELSE Junk]

\* The file after write(fd, buf, Len(b)) at pos; a gap reads as zeros.
WriteAt(c, pos, b) ==
    IF pos <= Len(c)
    THEN SubSeq(c, 1, pos) \o b \o SubSeq(c, pos + Len(b) + 1, Len(c))
    ELSE c \o [i \in 1 .. pos - Len(c) |-> Zero] \o b

\* _offset of the next entry of a header of n entries, when the entries
\* before it hold raw bytes; and raw_off after an entry of the given size.
EntryOffsetNoEnd(n, raw) == (n + raw) % Word       \* mutant
EntryOffset(n, raw) == (n + 1 + raw) % Word

NextRawUnbounded(raw, size) == raw + size          \* mutant
NextRaw(raw, size) == (raw + size) % Word

\* bytes asked of one read() of copy_file, out of the bytes left to copy.
ChunkSize(left) == IF left > Buffer THEN Buffer ELSE left

-----------------------------------------------------------------------------
\* What an archive file says it holds.

\* The cells read_header turns into list nodes: those before the first END.
Header(c) ==
    LET stop == SelectInSeq(c, LAMBDA x : x.tag # "entry")
    IN  IF stop = 0 THEN c ELSE SubSeq(c, 1, stop - 1)

\* Whether read_header meets the four zero bytes before the end of the file.
Ended(c) == \E i \in DOMAIN c : c[i] = End

\* The bytes copy_file copies for entry e, and whether the file has them all.
Region(c, e) == ReadInto(c, e.off, e.size)
Intact(c, e) == e.off + e.size <= Len(c)

\* A file that read_header can parse and whose offsets are those that
\* update_offsets_in_header computes from its sizes.
WellFormed(c) ==
    LET h == Header(c)
        n == Len(h)
    IN  c = <<>> \/ /\ n < Len(c) /\ c[n + 1] = End
                    /\ n > 0 => h[1].off = (n + 1) % Word
                    /\ \A i \in 1 .. n - 1 :
                          h[i + 1].off = (h[i].off + h[i].size) % Word

\* The (name, data) pairs an extraction of everything would yield.
Members(c) ==
    [i \in DOMAIN Header(c) |->
        [name |-> Header(c)[i].name, data |-> Region(c, Header(c)[i])]]
=============================================================================
