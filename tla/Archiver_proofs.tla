--------------------------- MODULE Archiver_proofs ---------------------------
(***************************************************************************)
(* Proofs about Archiver, for any numbers of processes, archives, files,   *)
(* inodes and commands, with crashes and edits.                            *)
(*                                                                         *)
(* First what the operators of ArchiveFormat return, for every file,       *)
(* position and size.  TypeInv then says in addition to TypeOK what is     *)
(* known of a process at each label: which descriptors it has open, that   *)
(* the loop counters are in range where they index, and that only writers  *)
(* come near the work file.                                                *)
(*                                                                         *)
(* With one writer: Private, the writer's work file is nobody's archive;   *)
(* DraftInv, how far its header has come and what it lists; ListInv, which *)
(* members of the old header the list in memory still has; CopiedInv, how  *)
(* much of their data the work file holds.  UnpackedInv says the same of   *)
(* the files an extraction writes.                                         *)
(*                                                                         *)
(* While the arguments of -i stay as they are: AnnouncedInv, what is       *)
(* listed of them, and SourcedInv, how much of their data the work file    *)
(* holds.  In executions nobody disturbs: TidyInv, no work file is left    *)
(* behind; ExactArchives, every archive ends where its last member does;   *)
(* CurrentInv, the writer replaces the version it read.  From these, every *)
(* step is a step of ArchiveStore or leaves all archives as they were.     *)
(***************************************************************************)
EXTENDS Archiver, SequenceTheorems, NaturalsInduction, WellFoundedInduction,
        FiniteSetTheorems, TLAPS

-----------------------------------------------------------------------------
(* The operators of ArchiveFormat.                                         *)

LEMMA CellFacts ==
    /\ Entry \subseteq Cell
    /\ End \in Cell /\ Junk \in Cell /\ Zero \in Cell
    /\ \A c \in Cell : c.tag = "entry" => c \in Entry
  BY DEF Cell, Entry, End, Junk, Zero, Byte

\* Arithmetic on uint64_t stays in uint64_t.
LEMMA ModWord == ASSUME NEW x \in Nat PROVE x % Word \in UInt
  BY FormatAssumption DEF UInt

LEMMA OffsetIsUInt ==
    ASSUME NEW n \in Nat, NEW raw \in UInt, NEW size \in UInt
    PROVE  EntryOffset(n, raw) \in UInt /\ NextRaw(raw, size) \in UInt
<1>1. n + 1 + raw \in Nat /\ raw + size \in Nat
  BY FormatAssumption DEF UInt
<1>2. QED
  BY <1>1, ModWord DEF EntryOffset, NextRaw

\* An absolute seek ends at a position.
LEMMA SeekIsNat == ASSUME NEW off \in UInt, NEW pos \in Nat PROVE Seek(off, pos) \in Nat
  BY FormatAssumption DEF Seek, UInt

\* copy_file never asks for more than it still has to copy, and for something
\* while there is something to copy.
LEMMA ChunkFacts ==
    ASSUME NEW left \in UInt
    PROVE  /\ ChunkSize(left) \in 0 .. left
           /\ left # 0 => ChunkSize(left) # 0
  BY FormatAssumption DEF ChunkSize, UInt

\* A read delivers at most what was asked for.
LEMMA ReadCountFacts ==
    ASSUME NEW c \in Seq(Cell), NEW pos \in Nat, NEW n \in Nat
    PROVE  ReadCount(c, pos, n) \in 0 .. n
<1>1. Len(c) \in Nat
  BY LenProperties
<1>2. QED
  BY <1>1 DEF ReadCount

LEMMA ReadIntoFacts ==
    ASSUME NEW c \in Seq(Cell), NEW pos \in Nat, NEW n \in Nat
    PROVE  ReadInto(c, pos, n) \in Seq(Cell) /\ Len(ReadInto(c, pos, n)) = n
<1>1. \A i \in 1 .. n : (IF pos + i <= Len(c) THEN c[pos + i] ELSE Junk) \in Cell
  BY ElementOfSeq, CellFacts, LenProperties
<1>2. ReadInto(c, pos, n) \in [1 .. n -> Cell]
  BY <1>1 DEF ReadInto
<1>3. QED
  BY <1>2

\* A write leaves a file of cells, as long as it was or as long as the end of
\* what was written.
LEMMA WriteAtFacts ==
    ASSUME NEW c \in Seq(Cell), NEW pos \in Nat, NEW b \in Seq(Cell)
    PROVE  /\ WriteAt(c, pos, b) \in Seq(Cell)
           /\ Len(WriteAt(c, pos, b)) = IF pos + Len(b) > Len(c) THEN pos + Len(b) ELSE Len(c)
<1>1. Len(c) \in Nat /\ Len(b) \in Nat
  BY LenProperties
<1>2. CASE pos <= Len(c)
  <2> DEFINE front == SubSeq(c, 1, pos)
             back == SubSeq(c, pos + Len(b) + 1, Len(c))
  <2>1. front \in Seq(Cell) /\ Len(front) = pos
    BY <1>1, <1>2, SubSeqProperties, ElementOfSeq
  <2>2. /\ back \in Seq(Cell)
        /\ Len(back) = IF pos + Len(b) + 1 <= Len(c) THEN Len(c) - (pos + Len(b)) ELSE 0
    BY <1>1, <1>2, SubSeqProperties, ElementOfSeq
  <2> HIDE DEF front, back
  <2>3. front \o b \in Seq(Cell) /\ Len(front \o b) = pos + Len(b)
    BY <2>1, ConcatProperties
  <2>4. (front \o b) \o back \in Seq(Cell) /\ Len((front \o b) \o back) = pos + Len(b) + Len(back)
    BY <2>2, <2>3, ConcatProperties
  <2>5. WriteAt(c, pos, b) = (front \o b) \o back
    BY <1>2 DEF WriteAt, front, back
  <2>6. pos + Len(b) + Len(back) = IF pos + Len(b) > Len(c) THEN pos + Len(b) ELSE Len(c)
    <3> DEFINE lb == Len(b)  lc == Len(c)  lk == Len(back)
    <3>1. lb \in Nat /\ lc \in Nat /\ lk = IF pos + lb + 1 <= lc THEN lc - (pos + lb) ELSE 0
      BY <1>1, <2>2
    <3> HIDE DEF lb, lc, lk
    <3>2. pos + lb + lk = IF pos + lb > lc THEN pos + lb ELSE lc
      BY <3>1
    <3>3. QED
      BY <3>2 DEF lb, lc, lk
  <2>7. QED
    BY <2>4, <2>5, <2>6, Zenon
<1>3. CASE pos > Len(c)
  <2> DEFINE gap == [i \in 1 .. pos - Len(c) |-> Zero]
  <2>1. gap \in Seq(Cell) /\ Len(gap) = pos - Len(c)
    BY <1>1, <1>3, CellFacts
  <2> HIDE DEF gap
  <2>2. c \o gap \in Seq(Cell) /\ Len(c \o gap) = pos
    BY <1>1, <2>1, ConcatProperties
  <2>3. (c \o gap) \o b \in Seq(Cell) /\ Len((c \o gap) \o b) = pos + Len(b)
    BY <2>2, ConcatProperties
  <2>4. ~(pos <= Len(c)) /\ pos + Len(b) = IF pos + Len(b) > Len(c) THEN pos + Len(b) ELSE Len(c)
    BY <1>1, <1>3
  <2>5. WriteAt(c, pos, b) = (c \o gap) \o b
    BY <2>4, Zenon DEF WriteAt, gap
  <2>6. QED
    BY <2>3, <2>4, <2>5, Zenon
<1>4. QED
  BY <1>1, <1>2, <1>3

LEMMA LeastNatural ==
    ASSUME NEW S, S \subseteq Nat, S # {}
    PROVE  \E x \in S : \A y \in S : x <= y
<1> DEFINE R == {ss \in Nat \X Nat : ss[1] < ss[2]}
<1>1. IsWellFoundedOn(R, Nat)
  BY NatLessThanWellFounded, Zenon DEF OpToRel
<1> HIDE DEF R
<1>2. PICK x \in S : \A y \in S : ~(<<y, x>> \in R)
  BY <1>1, WFMin
<1>3. ASSUME NEW y \in S PROVE x <= y
  <2>1. <<y, x>> \in Nat \X Nat /\ <<y, x>>[1] = y /\ <<y, x>>[2] = x
    OBVIOUS
  <2>2. ~(<<y, x>>[1] < <<y, x>>[2])
    BY <1>2, <2>1, Zenon DEF R
  <2>3. ~(y < x) /\ x \in Nat /\ y \in Nat
    BY <2>1, <2>2
  <2>4. QED
    BY <2>3
<1>4. QED
  BY <1>3

\* read_header keeps the file_infos at the front of the file, and stops at
\* the first cell that is none.
LEMMA HeaderFacts ==
    ASSUME NEW c \in Seq(Cell)
    PROVE  /\ Header(c) \in Seq(Entry)
           /\ Len(Header(c)) <= Len(c)
           /\ \A i \in 1 .. Len(Header(c)) : Header(c)[i] = c[i]
           /\ Len(Header(c)) < Len(c) => c[Len(Header(c)) + 1].tag # "entry"
<1> DEFINE I == {i \in 1 .. Len(c) : c[i].tag # "entry"}
           stop == IF I # {} THEN Min(I) ELSE 0
<1>1. Len(c) \in Nat /\ c \in [1 .. Len(c) -> Cell]
  BY LenProperties
<1>2. Header(c) = IF stop = 0 THEN c ELSE SubSeq(c, 1, stop - 1)
  BY DEF Header, SelectInSeq
<1>3. CASE I = {}
  <2>1. \A i \in 1 .. Len(c) : c[i] \in Entry
    BY <1>1, <1>3, CellFacts
  <2>2. c \in Seq(Entry)
    BY <1>1, <2>1
  <2>3. QED
    BY <1>1, <1>2, <1>3, <2>2
<1>4. CASE I # {}
  <2>1. stop \in I /\ \A i \in I : stop <= i
    <3>1. \E x \in I : \A y \in I : x <= y
      <4>1. I \subseteq Nat
        BY <1>1
      <4> HIDE DEF I
      <4>2. QED
        BY <1>4, <4>1, LeastNatural
    <3>2. stop = CHOOSE x \in I : \A y \in I : x <= y
      BY <1>4 DEF Min
    <3> HIDE DEF I, stop
    <3>3. QED
      BY <3>1, <3>2
  <2>2. stop \in 1 .. Len(c) /\ c[stop].tag # "entry"
    BY <2>1
  <2>3. \A i \in 1 .. stop - 1 : c[i] \in Entry
    BY <1>1, <2>1, <2>2, CellFacts
  <2> HIDE DEF stop, I
  <2>4. Header(c) = SubSeq(c, 1, stop - 1)
    BY <1>2, <2>2
  <2>5. /\ SubSeq(c, 1, stop - 1) \in Seq(Entry)
        /\ Len(SubSeq(c, 1, stop - 1)) = stop - 1
        /\ \A i \in 1 .. stop - 1 : SubSeq(c, 1, stop - 1)[i] = c[i]
    BY <1>1, <2>2, <2>3, SubSeqProperties
  <2>6. QED
    BY <1>1, <2>2, <2>4, <2>5
<1>5. QED
  BY <1>3, <1>4

\* Sums modulo Word may be reduced at any point.
LEMMA ModWordUnique ==
    ASSUME NEW q \in Int, NEW s \in Int, NEW r \in UInt, NEW t \in UInt,
           q * Word + r = s * Word + t
    PROVE  r = t
<1>1. Word \in Nat /\ Word > 0 /\ r \in 0 .. Word - 1 /\ t \in 0 .. Word - 1
  BY FormatAssumption DEF UInt
<1>2. CASE q = s
  BY <1>1, <1>2
<1>3. CASE q > s
  <2>1. (q - s) * Word >= Word
    BY <1>1, <1>3
  <2>2. QED
    BY <1>1, <2>1
<1>4. CASE q < s
  <2>1. (s - q) * Word >= Word
    BY <1>1, <1>4
  <2>2. QED
    BY <1>1, <2>1
<1>5. QED
  BY <1>2, <1>3, <1>4

LEMMA ModWordSplit ==
    ASSUME NEW x \in Nat
    PROVE  \E q \in Int : x = q * Word + (x % Word)
<1>1. Word \in Nat /\ Word > 0
  BY FormatAssumption
<1>2. x = Word * (x \div Word) + (x % Word) /\ (x \div Word) \in Int
  BY <1>1
<1>3. QED
  BY <1>1, <1>2

LEMMA ModWordSum ==
    ASSUME NEW a \in Nat, NEW b \in Nat
    PROVE  /\ ((a % Word) + b) % Word = (a + b) % Word
           /\ (a + (b % Word)) % Word = (a + b) % Word
<1> DEFINE ra == a % Word  rb == b % Word  x == (ra + b) % Word  y == (a + rb) % Word
           z == (a + b) % Word
<1>1. ra \in UInt /\ rb \in UInt /\ x \in UInt /\ y \in UInt /\ z \in UInt
  <2>1. ra \in UInt /\ rb \in UInt
    BY ModWord
  <2> HIDE DEF ra, rb
  <2>2. ra + b \in Nat /\ a + rb \in Nat /\ a + b \in Nat
    BY <2>1 DEF UInt
  <2>3. QED
    BY <2>1, <2>2, ModWord
<1>2. /\ \E q \in Int : a = q * Word + ra
      /\ \E q \in Int : b = q * Word + rb
  BY ModWordSplit
<1>3. Word \in Nat
  BY FormatAssumption
<1> HIDE DEF ra, rb
<1>4. ra + b \in Nat /\ a + rb \in Nat /\ a + b \in Nat
  BY <1>1 DEF UInt
<1>5. /\ \E q \in Int : ra + b = q * Word + x
      /\ \E q \in Int : a + rb = q * Word + y
      /\ \E q \in Int : a + b = q * Word + z
  BY <1>4, ModWordSplit
<1> HIDE DEF x, y, z
<1>6. PICK qa \in Int, qb \in Int, qx \in Int, qy \in Int, qz \in Int :
        /\ a = qa * Word + ra /\ b = qb * Word + rb
        /\ ra + b = qx * Word + x /\ a + rb = qy * Word + y /\ a + b = qz * Word + z
  BY <1>2, <1>5
<1>7. (qa + qx) * Word + x = qz * Word + z /\ (qb + qy) * Word + y = qz * Word + z
  BY <1>1, <1>3, <1>6 DEF UInt
<1>8. qa + qx \in Int /\ qb + qy \in Int
  OBVIOUS
<1>9. x = z /\ y = z
  BY <1>1, <1>7, <1>8, ModWordUnique
<1>10. QED
  BY <1>9 DEF x, y, z, ra, rb

\* What a write leaves in front of it, and what it puts there.
LEMMA WriteAtCells ==
    ASSUME NEW c \in Seq(Cell), NEW pos \in Nat, NEW b \in Seq(Cell), pos <= Len(c)
    PROVE  /\ \A i \in 1 .. pos : WriteAt(c, pos, b)[i] = c[i]
           /\ \A i \in 1 .. Len(b) : WriteAt(c, pos, b)[pos + i] = b[i]
<1> DEFINE front == SubSeq(c, 1, pos)
           back == SubSeq(c, pos + Len(b) + 1, Len(c))
<1>1. Len(c) \in Nat /\ Len(b) \in Nat
  BY LenProperties
<1>2. /\ front \in Seq(Cell) /\ Len(front) = pos
      /\ \A i \in 1 .. pos : front[i] = c[i]
  BY <1>1, SubSeqProperties, ElementOfSeq
<1>3. back \in Seq(Cell) /\ Len(back) \in Nat
  BY <1>1, SubSeqProperties, ElementOfSeq
<1>4. WriteAt(c, pos, b) = (front \o b) \o back
  BY DEF WriteAt
<1> HIDE DEF front, back
<1>5. /\ front \o b \in Seq(Cell) /\ Len(front \o b) = pos + Len(b)
      /\ \A i \in 1 .. pos : (front \o b)[i] = c[i]
      /\ \A i \in 1 .. Len(b) : (front \o b)[pos + i] = b[i]
  <2>1. /\ front \o b \in Seq(Cell) /\ Len(front \o b) = pos + Len(b)
        /\ \A i \in 1 .. pos + Len(b) : (front \o b)[i] = IF i <= pos THEN front[i] ELSE b[i - pos]
    BY <1>2, ConcatProperties
  <2>2. QED
    BY <1>1, <1>2, <2>1
<1> DEFINE g == front \o b
<1>6. g \in Seq(Cell) /\ Len(g) = pos + Len(b)
  BY <1>5
<1> HIDE DEF g
<1>7. \A i \in 1 .. Len(g) : (g \o back)[i] = g[i]
  BY <1>3, <1>6, ConcatProperties
<1>8. QED
  BY <1>1, <1>4, <1>5, <1>6, <1>7, SMTT(30) DEF g

\* n file_infos and the four zero bytes are a header of n nodes, whatever
\* follows.
LEMMA HeaderIs ==
    ASSUME NEW c \in Seq(Cell), NEW n \in Nat, n < Len(c),
           \A i \in 1 .. n : c[i] \in Entry, c[n + 1] = End
    PROVE  Len(Header(c)) = n
<1> DEFINE l == Len(Header(c))
<1>1. /\ Header(c) \in Seq(Entry) /\ l \in Nat /\ Len(c) \in Nat /\ l <= Len(c)
      /\ \A i \in 1 .. l : Header(c)[i] = c[i]
      /\ l < Len(c) => c[l + 1].tag # "entry"
  BY HeaderFacts, LenProperties
<1>2. \A i \in 1 .. l : Header(c)[i] \in Entry
  BY <1>1, ElementOfSeq
<1>3. \A x \in Entry : x.tag = "entry"
  BY DEF Entry
<1>4. End \notin Entry
  BY DEF End, Entry
<1> HIDE DEF l
<1>5. ~(l > n)
  BY <1>1, <1>2, <1>4
<1>6. ~(l < n)
  BY <1>1, <1>3
<1>7. QED
  BY <1>1, <1>5, <1>6 DEF l

\* A file that agrees with a well-formed, non-empty one up to the end of its
\* header has the same header and is well-formed.
LEMMA SameHeader ==
    ASSUME NEW c \in Seq(Cell), NEW d \in Seq(Cell), NEW n \in Nat, n = Len(Header(c)),
           WellFormed(c), n < Len(c), n < Len(d), \A i \in 1 .. n + 1 : d[i] = c[i]
    PROVE  WellFormed(d) /\ Header(d) = Header(c)
<1>1. /\ Header(c) \in Seq(Entry) /\ Header(d) \in Seq(Entry)
      /\ \A i \in 1 .. n : Header(c)[i] = c[i] /\ Header(c)[i] \in Entry
  BY HeaderFacts, ElementOfSeq
<1>2. c[n + 1] = End
  BY HeaderFacts, EmptySeq DEF WellFormed
<1>3. Len(Header(d)) = n
  <2>1. d[n + 1] = End
    BY <1>2
  <2>2. \A i \in 1 .. n : d[i] \in Entry
    BY <1>1
  <2>3. QED
    BY <2>1, <2>2, HeaderIs
<1>4. \A i \in 1 .. n : Header(d)[i] = Header(c)[i]
  BY <1>1, <1>3, HeaderFacts
<1>5. Header(d) = Header(c)
  BY <1>1, <1>3, <1>4, SeqEqual
<1>6. c # <<>> /\ d[n + 1] = End
  BY <1>2
<1>7. /\ n > 0 => Header(c)[1].off = (n + 1) % Word
      /\ \A i \in 1 .. n - 1 :
            Header(c)[i + 1].off = (Header(c)[i].off + Header(c)[i].size) % Word
  BY <1>6 DEF WellFormed
<1>8. QED
  BY <1>5, <1>6, <1>7 DEF WellFormed

-----------------------------------------------------------------------------
(* Writing an archive front to back.                                       *)

\* A file in which the first k - 1 of n file_infos are written, the next one
\* coming after raw bytes of data: update_offsets_in_header half way.
HeaderSoFar(w, n, k, raw) ==
    /\ k - 1 <= Len(w)
    /\ \A i \in 1 .. k - 1 : w[i] \in Entry
    /\ k > 1 => w[1].off = (n + 1) % Word
    /\ \A i \in 1 .. k - 2 : w[i + 1].off = (w[i].off + w[i].size) % Word
    /\ EntryOffset(n, raw) = IF k = 1 THEN (n + 1) % Word
                             ELSE (w[k - 1].off + w[k - 1].size) % Word

\* The same member, wherever its data is.
SameMember(a, b) == a.name = b.name /\ a.size = b.size

\* A file whose header is written, when the next write goes to pos.
HeaderDone(w, pos) ==
    /\ WellFormed(w)
    /\ Len(Header(w)) < pos
    /\ pos <= Len(w)

LEMMA HeaderStarts ==
    ASSUME NEW w \in Seq(Cell), NEW n \in Nat
    PROVE  HeaderSoFar(w, n, 1, 0)
  BY LenProperties DEF HeaderSoFar, EntryOffset

LEMMA HeaderGrows ==
    ASSUME NEW w \in Seq(Cell), NEW n \in Nat, NEW k \in 1 .. n, NEW raw \in UInt,
           NEW e \in Entry, HeaderSoFar(w, n, k, raw)
    PROVE  /\ HeaderSoFar(WriteAt(w, k - 1, <<[e EXCEPT !.off = EntryOffset(n, raw)]>>),
                          n, k + 1, NextRaw(raw, e.size))
           /\ \A i \in 1 .. k - 1 :
                 WriteAt(w, k - 1, <<[e EXCEPT !.off = EntryOffset(n, raw)]>>)[i] = w[i]
           /\ SameMember(WriteAt(w, k - 1, <<[e EXCEPT !.off = EntryOffset(n, raw)]>>)[k], e)
<1> DEFINE f == [e EXCEPT !.off = EntryOffset(n, raw)]
           v == WriteAt(w, k - 1, <<f>>)
<1>1. /\ f \in Entry /\ f.off = EntryOffset(n, raw) /\ f.size = e.size /\ f.name = e.name
      /\ raw \in Nat /\ e.size \in Nat /\ EntryOffset(n, raw) \in UInt
  <2>1. e.size \in UInt /\ UInt \subseteq Nat
    BY DEF Entry, UInt
  <2>2. EntryOffset(n, raw) \in UInt
    BY <2>1, OffsetIsUInt
  <2>3. QED
    BY <2>1, <2>2 DEF Entry
<1> HIDE DEF f
<1>2. <<f>> \in Seq(Cell) /\ Len(<<f>>) = 1 /\ <<f>>[1] = f
  BY <1>1, CellFacts
<1>3. Len(w) \in Nat /\ k - 1 \in Nat /\ k - 1 <= Len(w)
  BY LenProperties DEF HeaderSoFar
<1>4. /\ v \in Seq(Cell) /\ Len(v) >= k
      /\ \A i \in 1 .. k - 1 : v[i] = w[i]
      /\ v[k] = f
  <2>1. /\ v \in Seq(Cell)
        /\ Len(v) = IF k - 1 + 1 > Len(w) THEN k - 1 + 1 ELSE Len(w)
    BY <1>2, <1>3, WriteAtFacts
  <2>2. /\ \A i \in 1 .. k - 1 : v[i] = w[i]
        /\ \A i \in 1 .. 1 : v[k - 1 + i] = <<f>>[i]
    BY <1>2, <1>3, WriteAtCells
  <2> HIDE DEF v
  <2>3. v[k - 1 + 1] = f /\ k - 1 + 1 = k
    BY <1>2, <2>2
  <2>4. QED
    BY <1>3, <2>1, <2>2, <2>3
<1> HIDE DEF v
<1>5. EntryOffset(n, NextRaw(raw, e.size)) = (f.off + f.size) % Word
  <2>1. n + 1 + raw \in Nat /\ raw + e.size \in Nat /\ n + 1 \in Nat
    BY <1>1
  <2>2. (n + 1 + ((raw + e.size) % Word)) % Word = (n + 1 + (raw + e.size)) % Word
    BY <2>1, ModWordSum
  <2>3. (((n + 1 + raw) % Word) + e.size) % Word = (n + 1 + raw + e.size) % Word
    BY <1>1, <2>1, ModWordSum
  <2>4. n + 1 + (raw + e.size) = n + 1 + raw + e.size
    BY <1>1
  <2>5. QED
    BY <1>1, <2>2, <2>3, <2>4 DEF EntryOffset, NextRaw
<1>6. \A i \in 1 .. k : v[i] \in Entry
  BY <1>1, <1>3, <1>4, SMTT(30) DEF HeaderSoFar
<1>7. v[1].off = (n + 1) % Word
  BY <1>1, <1>4 DEF HeaderSoFar
<1>8. \A i \in 1 .. k - 1 : v[i + 1].off = (v[i].off + v[i].size) % Word
  <2> SUFFICES ASSUME NEW i \in 1 .. k - 1
               PROVE  v[i + 1].off = (v[i].off + v[i].size) % Word
    OBVIOUS
  <2>1. CASE i = k - 1
    BY <1>1, <1>4, <2>1 DEF HeaderSoFar
  <2>2. CASE i # k - 1
    <3>1. i \in 1 .. k - 2 /\ i + 1 \in 1 .. k - 1 /\ i \in 1 .. k - 1
      BY <2>2
    <3>2. QED
      BY <1>4, <3>1 DEF HeaderSoFar
  <2>3. QED
    BY <2>1, <2>2
<1>9. HeaderSoFar(v, n, k + 1, NextRaw(raw, e.size))
  <2>1. k + 1 - 1 = k /\ k + 1 - 2 = k - 1 /\ k + 1 # 1
    OBVIOUS
  <2>2. QED
    BY <1>4, <1>5, <1>6, <1>7, <1>8, <2>1 DEF HeaderSoFar
<1>10. QED
  BY <1>1, <1>4, <1>9 DEF v, f, SameMember

LEMMA HeaderEnds ==
    ASSUME NEW w \in Seq(Cell), NEW n \in Nat, NEW raw, HeaderSoFar(w, n, n + 1, raw)
    PROVE  /\ HeaderDone(WriteAt(w, n, <<End>>), n + 1)
           /\ Len(Header(WriteAt(w, n, <<End>>))) = n
           /\ \A i \in 1 .. n : Header(WriteAt(w, n, <<End>>))[i] = w[i]
<1> DEFINE v == WriteAt(w, n, <<End>>)
<1>1. <<End>> \in Seq(Cell) /\ Len(<<End>>) = 1 /\ <<End>>[1] = End
  BY CellFacts
<1>2. Len(w) \in Nat /\ n <= Len(w)
  BY LenProperties DEF HeaderSoFar
<1>3. /\ v \in Seq(Cell) /\ Len(v) >= n + 1
      /\ \A i \in 1 .. n : v[i] = w[i]
      /\ v[n + 1] = End
  <2>1. /\ v \in Seq(Cell)
        /\ Len(v) = IF n + 1 > Len(w) THEN n + 1 ELSE Len(w)
    BY <1>1, <1>2, WriteAtFacts
  <2>2. /\ \A i \in 1 .. n : v[i] = w[i]
        /\ \A i \in 1 .. 1 : v[n + i] = <<End>>[i]
    BY <1>1, <1>2, WriteAtCells
  <2> HIDE DEF v
  <2>3. QED
    BY <1>1, <1>2, <2>1, <2>2
<1> HIDE DEF v
<1>4. n + 1 - 1 = n /\ n + 1 - 2 = n - 1
  OBVIOUS
<1>5. \A i \in 1 .. n : v[i] \in Entry
  BY <1>3, <1>4 DEF HeaderSoFar
<1>6. n < Len(v)
  BY <1>2, <1>3, LenProperties
<1>7. Len(Header(v)) = n
  BY <1>3, <1>5, <1>6, HeaderIs
<1>8. \A i \in 1 .. n : Header(v)[i] = v[i]
  BY <1>3, <1>7, HeaderFacts
<1>9. n > 0 => Header(v)[1].off = (n + 1) % Word
  BY <1>3, <1>8 DEF HeaderSoFar
<1>10. \A i \in 1 .. n - 1 : Header(v)[i + 1].off = (Header(v)[i].off + Header(v)[i].size) % Word
  <2> SUFFICES ASSUME NEW i \in 1 .. n - 1
               PROVE  Header(v)[i + 1].off = (Header(v)[i].off + Header(v)[i].size) % Word
    OBVIOUS
  <2>1. i \in 1 .. n /\ i + 1 \in 1 .. n
    OBVIOUS
  <2>2. QED
    BY <1>3, <1>4, <1>8, <2>1 DEF HeaderSoFar
<1>11. WellFormed(v)
  BY <1>3, <1>6, <1>7, <1>9, <1>10 DEF WellFormed
<1>12. QED
  BY <1>3, <1>7, <1>8, <1>11 DEF HeaderDone, v

\* Data written behind the header leaves the header alone.
LEMMA HeaderStays ==
    ASSUME NEW w \in Seq(Cell), NEW pos \in Nat, NEW b \in Seq(Cell), HeaderDone(w, pos)
    PROVE  /\ HeaderDone(WriteAt(w, pos, b), pos + Len(b))
           /\ Header(WriteAt(w, pos, b)) = Header(w)
<1> DEFINE v == WriteAt(w, pos, b)
           n == Len(Header(w))
<1>1. /\ Len(w) \in Nat /\ Len(b) \in Nat /\ n \in Nat /\ n < pos /\ pos <= Len(w)
      /\ WellFormed(w)
  BY HeaderFacts, LenProperties DEF HeaderDone
<1>2. /\ v \in Seq(Cell)
      /\ Len(v) = IF pos + Len(b) > Len(w) THEN pos + Len(b) ELSE Len(w)
      /\ \A i \in 1 .. pos : v[i] = w[i]
  BY <1>1, WriteAtFacts, WriteAtCells
<1> HIDE DEF v
<1>3. /\ n < Len(w) /\ n < Len(v) /\ pos + Len(b) <= Len(v) /\ n < pos + Len(b)
      /\ \A i \in 1 .. n + 1 : v[i] = w[i]
  <2>1. n + 1 <= pos
    BY <1>1
  <2> HIDE DEF n
  <2>2. QED
    BY <1>1, <1>2, <2>1
<1>4. WellFormed(v) /\ Header(v) = Header(w)
  BY <1>1, <1>2, <1>3, SameHeader
<1>5. QED
  BY <1>3, <1>4 DEF HeaderDone, v

LEMMA ReadCountIsNat ==
    ASSUME NEW c \in Seq(Cell), NEW pos \in Nat, NEW n \in Nat
    PROVE  ReadCount(c, pos, n) \in Nat
  BY LenProperties DEF ReadCount

LEMMA ChunkIsNat == ASSUME NEW left \in UInt PROVE ChunkSize(left) \in Nat
  BY ChunkFacts DEF UInt

-----------------------------------------------------------------------------
(* Types.                                                                  *)

WriterLabels == {"openWork", "blind", "stat", "measure", "writeHeader", "locate", "copyOld",
                 "openSource", "copySource", "unlink", "rename"}

LoopLabels == {"stat", "measure", "filter", "writeHeader", "locate", "copyOld",
               "openSource", "copySource", "member", "copyMember"}

\* What holds of process p at label l with locals m.
OpenedArchive(l, m) ==
    \/ l \in {"idle", "openArchive"}
    \/ l = "openWork" /\ m.cmd.op = "input"
    \/ m.afd.ino \in Inodes

InRange(l, m) ==
    /\ l \in LoopLabels => m.k # 0
    /\ l \in {"measure", "copySource"} => m.k <= Len(m.cmd.files)
    /\ l = "copyMember" => m.k <= Len(m.hdr)
    /\ l = "copyMember" /\ m.cmd.op # "remove" => m.pos + m.left < Word

WritersOnly(p, l, m) ==
    l \in WriterLabels \/ m.cmd.op \in {"input", "remove"} \/ m.tfd.ino # NoIno
        => p \in Writers

Reached(p, l, m) ==
    /\ l # "idle" => m.cmd \in Commands
    /\ OpenedArchive(l, m)
    /\ InRange(l, m)
    /\ WritersOnly(p, l, m)

\* No more open()s failed than may; a process that lost its work file was one.
FailsCounted ==
    budget.fails <= MaxFails /\ \A p \in Procs : pc[p] = "blind" => budget.fails < MaxFails

TypeInv == TypeOK /\ FailsCounted /\ \A p \in Procs : Reached(p, pc[p], loc[p])

-----------------------------------------------------------------------------
LEMMA CommandFacts ==
    /\ \A c \in Commands : /\ c.op \in {"input", "remove", "extract", "stat"}
                           /\ c.arch \in Archives
                           /\ c.files \in Seq(Paths)
    /\ NoCommand.op = "none" /\ NoCommand.arch = Temp /\ NoCommand.files = <<>>
  BY ArchiverAssumption DEF Command, NoCommand

LEMMA UIntFacts == UInt \subseteq Nat /\ 0 \in UInt /\ Word - 1 \in UInt /\ \A x \in UInt : x < Word
  BY FormatAssumption DEF UInt

LEMMA IdleFacts ==
    /\ Idle \in Local
    /\ Idle.cmd = NoCommand /\ Idle.afd.ino = NoIno /\ Idle.tfd.ino = NoIno
    /\ \A p \in Procs : Reached(p, "idle", Idle)
<1>1. Idle \in Local
  BY UIntFacts DEF Idle, Local, Fd, NoFd
<1>2. Idle.cmd = NoCommand /\ Idle.afd.ino = NoIno /\ Idle.tfd.ino = NoIno
  BY DEF Idle, NoFd
<1>3. QED
  BY <1>1, <1>2, CommandFacts
  DEF Reached, OpenedArchive, InRange, WritersOnly, WriterLabels, LoopLabels

\* The types of the variables a Goto does not touch.
FilesOK ==
    /\ dir \in [Archives \cup {Temp} -> Inodes \cup {NoIno}]
    /\ ino \in [Inodes -> Seq(Cell)]
    /\ disk \in [Paths -> FileState]

\* A process that moves to a label with locals that fit there keeps TypeInv.
LEMMA GotoInv ==
    ASSUME TypeInv, NEW p \in Procs, NEW l \in Labels, NEW m \in Local,
           Goto(p, l, m), Reached(p, l, m), FilesOK'
    PROVE  TypeInv'
<1>1. /\ pc' \in [Procs -> Labels \cup {"blind"}] /\ loc' \in [Procs -> Local]
      /\ pc'[p] = l /\ loc'[p] = m
      /\ \A q \in Procs : q # p => pc'[q] = pc[q] /\ loc'[q] = loc[q]
  BY DEF TypeInv, TypeOK, Goto
<1>2. TypeOK'
  BY <1>1 DEF TypeInv, TypeOK, FilesOK, Goto
<1>3. \A q \in Procs : Reached(q, pc'[q], loc'[q])
  BY <1>1, Zenon DEF TypeInv
<1>4. FailsCounted'
  <2>1. budget' = budget /\ l # "blind"
    BY DEF Goto, Labels
  <2>2. QED
    BY <1>1, <2>1 DEF TypeInv, FailsCounted
<1>5. QED
  BY <1>2, <1>3, <1>4 DEF TypeInv, Reached, OpenedArchive, InRange, WritersOnly

LEMMA ExitInv ==
    ASSUME TypeInv, NEW p \in Procs, Exit(p), FilesOK'
    PROVE  TypeInv'
  BY GotoInv, IdleFacts DEF Exit, Labels

\* Steps that bind no name and at most close descriptors.
Quiet ==
    /\ dir' = dir
    /\ \A q \in Procs : /\ loc'[q].afd.ino \in {loc[q].afd.ino, NoIno}
                        /\ loc'[q].tfd.ino \in {loc[q].tfd.ino, NoIno}

LEMMA StayInv ==
    ASSUME TypeInv, NEW p \in Procs, NEW l \in Labels, NEW m \in Local,
           Goto(p, l, m), Reached(p, l, m), FilesOK', dir' = dir,
           m.afd.ino = loc[p].afd.ino, m.tfd.ino = loc[p].tfd.ino
    PROVE  TypeInv' /\ Quiet
<1>1. loc'[p] = m /\ \A q \in Procs : q # p => loc'[q] = loc[q]
  BY DEF TypeInv, TypeOK, Goto
<1>2. QED
  BY <1>1, GotoInv DEF Quiet

LEMMA LeaveInv ==
    ASSUME TypeInv, NEW p \in Procs, Exit(p), FilesOK', dir' = dir
    PROVE  TypeInv' /\ Quiet
<1>1. loc'[p] = Idle /\ \A q \in Procs : q # p => loc'[q] = loc[q]
  BY DEF TypeInv, TypeOK, Exit, Goto
<1>2. QED
  BY <1>1, ExitInv, IdleFacts DEF Quiet

\* The parts of TypeInv an action of p uses.
LEMMA LocalFacts ==
    ASSUME TypeInv, NEW p \in Procs
    PROVE  /\ loc[p] \in Local /\ Reached(p, pc[p], loc[p])
           /\ pc[p] # "idle" => /\ Op(p) \in {"input", "remove", "extract", "stat"}
                                /\ Arch(p) \in Archives
                                /\ Args(p) \in Seq(Paths)
                                /\ loc[p].cmd \in Commands
           /\ loc[p].afd.ino \in Inodes => ArchFile(p) \in Seq(Cell)
           /\ FilesOK
<1>1. loc[p] \in Local /\ Reached(p, pc[p], loc[p]) /\ FilesOK
  BY DEF TypeInv, TypeOK, FilesOK
<1>2. pc[p] # "idle" => loc[p].cmd \in Commands
  BY <1>1 DEF Reached
<1>3. loc[p].afd.ino \in Inodes => ArchFile(p) \in Seq(Cell)
  BY <1>1 DEF ArchFile, FilesOK
<1>4. QED
  BY <1>1, <1>2, <1>3, CommandFacts DEF Op, Arch, Args

LEMMA OpenCreateOK ==
    ASSUME TypeInv, NEW name \in Archives \cup {Temp}, NEW i \in Inodes, OpenCreate(name, i)
    PROVE  dir' \in [Archives \cup {Temp} -> Inodes \cup {NoIno}] /\ ino' \in [Inodes -> Seq(Cell)]
<1>1. <<>> \in Seq(Cell)
  BY EmptySeq
<1>2. dir \in [Archives \cup {Temp} -> Inodes \cup {NoIno}] /\ ino \in [Inodes -> Seq(Cell)]
  BY DEF TypeInv, TypeOK
<1>3. QED
  BY <1>1, <1>2 DEF OpenCreate, fsVars

LEMMA WriteWorkOK ==
    ASSUME TypeInv, NEW p \in Procs, NEW b \in Seq(Cell), WriteWork(p, b)
    PROVE  dir' = dir /\ ino' \in [Inodes -> Seq(Cell)]
<1>1. loc[p].tfd.pos \in Nat
  BY DEF TypeInv, TypeOK, Local, Fd
<1>2. \A c \in Seq(Cell) : WriteAt(c, loc[p].tfd.pos, b) \in Seq(Cell)
  BY <1>1, WriteAtFacts
<1>3. QED
  BY <1>2 DEF TypeInv, TypeOK, WriteWork

-----------------------------------------------------------------------------
(* One lemma per action: it preserves TypeInv.                             *)

LEMMA StartInv == ASSUME TypeInv, NEW p \in Procs, Start(p) PROVE TypeInv'
<1>1. PICK c \in Commands :
        /\ c.op \in {"input", "remove"} => p \in Writers
        /\ pc' = [pc EXCEPT ![p] = IF c.op = "input" THEN "openWork" ELSE "openArchive"]
        /\ loc' = [loc EXCEPT ![p] = [Idle EXCEPT !.cmd = c]]
  BY DEF Start
<1> DEFINE m == [Idle EXCEPT !.cmd = c]
           l == IF c.op = "input" THEN "openWork" ELSE "openArchive"
<1>2. m \in Local /\ l \in Labels
  BY IdleFacts DEF Local, Labels
<1>3. m.cmd = c /\ m.tfd.ino = NoIno
  BY IdleFacts DEF Local
<1>4. Reached(p, l, m)
  BY <1>1, <1>3, CommandFacts
  DEF Reached, OpenedArchive, InRange, WritersOnly, WriterLabels, LoopLabels
<1> HIDE DEF m, l
<1>5. pc' = [pc EXCEPT ![p] = l] /\ loc' = [loc EXCEPT ![p] = m]
  BY <1>1 DEF m, l
<1>6. TypeOK'
  <2>1. pc' \in [Procs -> Labels \cup {"blind"}] /\ loc' \in [Procs -> Local]
    BY <1>2, <1>5 DEF TypeInv, TypeOK
  <2>2. budget' \in [commands : Nat, crashes : Nat, edits : Nat, fails : Nat]
    <3>1. budget.commands > 0 /\ budget' = [budget EXCEPT !.commands = @ - 1]
      BY DEF Start
    <3>2. QED
      BY <3>1, SMTT(30) DEF TypeInv, TypeOK
  <2>3. QED
    BY <2>1, <2>2 DEF Start, TypeInv, TypeOK
<1>7. \A q \in Procs : Reached(q, pc'[q], loc'[q])
  BY <1>4, <1>5 DEF TypeInv, TypeOK
<1>8. FailsCounted'
  <2>1. budget'.fails = budget.fails
    BY DEF Start, TypeInv, TypeOK
  <2>2. l # "blind"
    BY DEF l
  <2>3. QED
    BY <1>5, <2>1, <2>2 DEF TypeInv, TypeOK, FailsCounted
<1>9. QED
  BY <1>6, <1>7, <1>8 DEF TypeInv, Reached, OpenedArchive, InRange, WritersOnly

LEMMA CrashInv == ASSUME TypeInv, NEW p \in Procs, Crash(p) PROVE TypeInv'
<1>1. TypeOK'
  BY IdleFacts, SMTT(30) DEF Crash, TypeInv, TypeOK, Labels
<1>2. \A q \in Procs : Reached(q, pc'[q], loc'[q])
  BY IdleFacts DEF Crash, TypeInv, TypeOK
<1>3. FailsCounted'
  BY DEF Crash, TypeInv, TypeOK, FailsCounted
<1>4. QED
  BY <1>1, <1>2, <1>3 DEF TypeInv, Reached, OpenedArchive, InRange, WritersOnly

LEMMA EditInv == ASSUME TypeInv, NEW f \in Paths, Edit(f) PROVE TypeInv'
<1>1. FileStates \subseteq FileState
  BY ArchiverAssumption
<1>2. TypeOK'
  BY <1>1, SMTT(30) DEF Edit, TypeInv, TypeOK
<1>3. FailsCounted'
  BY DEF Edit, TypeInv, TypeOK, FailsCounted
<1>4. QED
  BY <1>2, <1>3 DEF Edit, TypeInv, Reached, OpenedArchive, InRange, WritersOnly

LEMMA OpenWorkInv == ASSUME TypeInv, NEW p \in Procs, OpenWork(p) PROVE TypeInv'
<1>1. PICK i \in Inodes :
        /\ OpenCreate(Temp, i)
        /\ Goto(p, IF Op(p) = "input" THEN "openArchive" ELSE "readHeader",
                [loc[p] EXCEPT !.tfd = [ino |-> i, pos |-> 0]])
  BY DEF OpenWork, WorkName
<1> DEFINE m == [loc[p] EXCEPT !.tfd = [ino |-> i, pos |-> 0]]
           l == IF Op(p) = "input" THEN "openArchive" ELSE "readHeader"
<1>2. FilesOK'
  BY <1>1, LocalFacts, OpenCreateOK DEF OpenWork, FilesOK
<1>3. m \in Local /\ l \in Labels
  BY LocalFacts, SMTT(30) DEF Local, Fd, Labels
<1>4. m.cmd = loc[p].cmd /\ m.afd = loc[p].afd
  BY LocalFacts DEF Local
<1>5. pc[p] = "openWork" /\ p \in Writers
  BY LocalFacts DEF OpenWork, Reached, WritersOnly, WriterLabels
<1>6. Reached(p, l, m)
  BY <1>4, <1>5, LocalFacts
  DEF Reached, OpenedArchive, InRange, WritersOnly, LoopLabels, Op
<1> HIDE DEF m, l
<1>7. Goto(p, l, m)
  BY <1>1 DEF m, l
<1>8. QED
  BY <1>2, <1>3, <1>6, <1>7, GotoInv

LEMMA OpenArchiveInv == ASSUME TypeInv, NEW p \in Procs, OpenArchive(p) PROVE TypeInv'
<1>1. CASE Exit(p) /\ UNCHANGED fsVars
  <2>1. FilesOK'
    BY <1>1, LocalFacts DEF OpenArchive, FilesOK, fsVars
  <2>2. QED
    BY <1>1, <2>1, ExitInv
<1>2. ASSUME NEW i \in Inodes, OpenCreate(Arch(p), i),
             Goto(p, IF Op(p) = "remove" THEN "openWork" ELSE "readHeader",
                  [loc[p] EXCEPT !.afd = [ino |-> i, pos |-> 0]])
      PROVE  TypeInv'
  <2> DEFINE m == [loc[p] EXCEPT !.afd = [ino |-> i, pos |-> 0]]
             l == IF Op(p) = "remove" THEN "openWork" ELSE "readHeader"
  <2>0. pc[p] = "openArchive"
    BY DEF OpenArchive
  <2>1. FilesOK'
    BY <1>2, <2>0, LocalFacts, OpenCreateOK DEF OpenArchive, FilesOK
  <2>2. m \in Local /\ l \in Labels
    BY LocalFacts DEF Local, Fd, Labels
  <2>3. m.cmd = loc[p].cmd /\ m.tfd = loc[p].tfd /\ m.afd.ino = i
    BY LocalFacts DEF Local
  <2>4. Reached(p, l, m)
    BY <2>0, <2>3, LocalFacts
    DEF Reached, OpenedArchive, InRange, WritersOnly, WriterLabels, LoopLabels, Op
  <2> HIDE DEF m, l
  <2>5. Goto(p, l, m)
    BY <1>2 DEF m, l
  <2>6. QED
    BY <2>1, <2>2, <2>4, <2>5, GotoInv
<1>3. QED
  BY <1>1, <1>2 DEF OpenArchive

\* The loop after read_header starts at the first node.
LEMMA AfterHeaderInv ==
    ASSUME TypeInv, NEW p \in Procs, NEW m \in Local, AfterHeader(p, m), FilesOK', dir' = dir,
           pc[p] # "idle", m.cmd = loc[p].cmd, m.tfd = loc[p].tfd,
           m.afd.ino = loc[p].afd.ino, m.afd.ino \in Inodes, m.k = 1
    PROVE  TypeInv' /\ Quiet
<1>1. Op(p) \in {"input", "remove", "extract", "stat"}
  BY LocalFacts
<1>2. CASE Exit(p)
  BY <1>2, LeaveInv
<1>3. CASE ~Exit(p)
  <2>1. /\ \E l \in {"stat", "filter", "member"} :
              Goto(p, l, m) /\ (l = "stat" => Op(p) = "input")
    BY <1>1, <1>3 DEF AfterHeader
  <2>2. PICK l \in {"stat", "filter", "member"} :
              Goto(p, l, m) /\ (l = "stat" => Op(p) = "input")
    BY <2>1
  <2>3. Reached(p, l, m)
    BY <2>2, LocalFacts
    DEF Reached, OpenedArchive, InRange, WritersOnly, WriterLabels, LoopLabels, Op
  <2>4. QED
    BY <2>2, <2>3, StayInv DEF Labels
<1>4. QED
  BY <1>2, <1>3

LEMMA ReadHeaderInv == ASSUME TypeInv, NEW p \in Procs, ReadHeader(p) PROVE TypeInv' /\ Quiet
<1> DEFINE me == loc[p]
           pos == me.afd.pos
           c == ArchFile(p)
<1>1. pc[p] = "readHeader" /\ me.afd.ino \in Inodes /\ me.afd.pos \in Nat /\ c \in Seq(Cell)
  BY LocalFacts DEF ReadHeader, Reached, OpenedArchive, Local, Fd
<1>2. FilesOK' /\ dir' = dir
  BY LocalFacts DEF ReadHeader, FilesOK
<1>3. CASE pos < Len(c) /\ c[pos + 1].tag = "entry"
  <2> DEFINE h == Append(me.hdr, c[pos + 1])
             m == [me EXCEPT !.hdr = h, !.afd.pos = @ + 1]
  <2>1. c[pos + 1] \in Entry
    BY <1>1, <1>3, LenProperties, ElementOfSeq, CellFacts
  <2>2. h \in Seq(Entry)
    BY <2>1, LocalFacts, AppendProperties DEF Local
  <2>3. Goto(p, "readHeader", m)
    BY <1>3, LocalFacts DEF ReadHeader, Local
  <2> HIDE DEF h
  <2>4. m \in Local
    <3>1. me \in Local
      BY LocalFacts
    <3>2. [me.afd EXCEPT !.pos = @ + 1] \in Fd
      BY <3>1 DEF Local, Fd
    <3>3. m = [me EXCEPT !.hdr = h, !.afd = [me.afd EXCEPT !.pos = @ + 1]]
      BY <3>1 DEF Local, Fd
    <3>4. QED
      BY <3>1, <3>2, <3>3, <2>2 DEF Local
  <2>5. m.cmd = me.cmd /\ m.tfd = me.tfd /\ m.afd.ino = me.afd.ino
    BY LocalFacts DEF Local, Fd
  <2>6. Reached(p, "readHeader", m)
    BY <1>1, <2>5, LocalFacts
    DEF Reached, OpenedArchive, InRange, WritersOnly, WriterLabels, LoopLabels
  <2> HIDE DEF m
  <2>7. QED
    BY <1>2, <2>3, <2>4, <2>5, <2>6, StayInv DEF Labels
<1>4. CASE Goto(p, "garbled", me)
  <2>1. Reached(p, "garbled", me)
    BY <1>1, LocalFacts DEF Reached, OpenedArchive, InRange, WritersOnly, WriterLabels, LoopLabels
  <2>2. QED
    BY <1>2, <1>4, <2>1, LocalFacts, StayInv DEF Labels
<1>5. CASE AfterHeader(p, [me EXCEPT !.afd.pos = 0, !.k = 1])
  <2> DEFINE m == [me EXCEPT !.afd.pos = 0, !.k = 1]
  <2>1. m \in Local /\ m.cmd = me.cmd /\ m.tfd = me.tfd /\ m.afd.ino = me.afd.ino /\ m.k = 1
    BY LocalFacts DEF Local, Fd
  <2>2. AfterHeader(p, m)
    BY <1>5
  <2> HIDE DEF m
  <2>3. QED
    BY <1>1, <1>2, <2>1, <2>2, AfterHeaderInv
<1>6. QED
  BY <1>3, <1>4, <1>5 DEF ReadHeader

\* Reached at the labels that ask for nothing special.
LEMMA ReachedPlain ==
    ASSUME NEW p \in Procs, NEW m,
           NEW l \in Labels \ {"idle", "openWork", "openArchive", "measure", "copySource",
                               "copyMember"},
           m.cmd \in Commands, m.afd.ino \in Inodes, m.k # 0,
           \/ p \in Writers
           \/ /\ l \notin WriterLabels
              /\ m.cmd.op \notin {"input", "remove"}
              /\ m.tfd.ino = NoIno
    PROVE  Reached(p, l, m)
  BY DEF Reached, OpenedArchive, InRange, WritersOnly

LEMMA StatFileInv == ASSUME TypeInv, NEW p \in Procs, StatFile(p) PROVE TypeInv' /\ Quiet
<1> DEFINE me == loc[p]
<1>1. /\ pc[p] = "stat" /\ me \in Local /\ me.afd.ino \in Inodes /\ me.k # 0 /\ p \in Writers
      /\ me.cmd \in Commands /\ Len(Args(p)) \in Nat
  BY LocalFacts, LenProperties
  DEF StatFile, Reached, OpenedArchive, InRange, WritersOnly, WriterLabels, LoopLabels
<1>2. FilesOK' /\ dir' = dir
  BY LocalFacts DEF StatFile, FilesOK
<1>3. CASE Exit(p)
  BY <1>2, <1>3, LeaveInv
<1>4. CASE Goto(p, "writeHeader", [me EXCEPT !.k = 1])
  <2> DEFINE m == [me EXCEPT !.k = 1]
  <2>1. m \in Local /\ Reached(p, "writeHeader", m) /\ m.afd = me.afd /\ m.tfd = me.tfd
    BY <1>1 DEF Local, Reached, OpenedArchive, InRange, WritersOnly, WriterLabels, LoopLabels
  <2>2. QED
    BY <1>2, <1>4, <2>1, StayInv DEF Labels
<1>5. CASE me.k <= Len(Args(p)) /\ Goto(p, "measure", me)
  <2>1. Reached(p, "measure", me)
    BY <1>1, <1>5
    DEF Reached, OpenedArchive, InRange, WritersOnly, WriterLabels, LoopLabels, Args
  <2>2. QED
    BY <1>1, <1>2, <1>5, <2>1, StayInv DEF Labels
<1>6. ASSUME NEW e \in BOOLEAN, Goto(p, "stat", [me EXCEPT !.k = @ + 1, !.err = e])
      PROVE  TypeInv' /\ Quiet
  <2> DEFINE k == me.k + 1
             m == [me EXCEPT !.k = k, !.err = e]
  <2>1. k \in Nat /\ k # 0
    BY <1>1 DEF Local
  <2>2. Goto(p, "stat", m)
    BY <1>6
  <2> HIDE DEF k
  <2>3. m \in Local /\ m.cmd = me.cmd /\ m.afd = me.afd /\ m.tfd = me.tfd /\ m.k # 0
    BY <1>1, <2>1 DEF Local
  <2>4. Reached(p, "stat", m)
    BY <1>1, <2>3, ReachedPlain DEF Labels
  <2>5. QED
    BY <1>2, <2>2, <2>3, <2>4, StayInv DEF Labels
<1>7. /\ me.k \in Nat
      /\ (me.err \/ disk[Args(p)[me.k]].kind = "missing") \in BOOLEAN
  BY <1>1 DEF Local
<1>8. CASE me.k > Len(Args(p))
  BY <1>3, <1>4, <1>8 DEF StatFile
<1>9. CASE me.k <= Len(Args(p))
  <2>1. ~(me.k > Len(Args(p)))
    BY <1>1, <1>7, <1>9
  <2> DEFINE e == (me.err \/ disk[Args(p)[me.k]].kind = "missing")
  <2>2. Goto(p, "measure", me) \/ Goto(p, "stat", [me EXCEPT !.k = @ + 1, !.err = e])
    BY <2>1, Zenon DEF StatFile
  <2> HIDE DEF e
  <2>3. e \in BOOLEAN
    BY <1>7 DEF e
  <2>4. QED
    BY <1>5, <1>6, <1>9, <2>2, <2>3, Zenon
<1>10. QED
  BY <1>1, <1>7, <1>8, <1>9

LEMMA MeasureFileInv == ASSUME TypeInv, NEW p \in Procs, MeasureFile(p) PROVE TypeInv' /\ Quiet
<1> DEFINE me == loc[p]
           f == Args(p)[me.k]
           fi == [tag |-> "entry", name |-> Base[f], size |-> MeasuredSize(f),
                  mask |-> disk[f].mode, off |-> 0]
<1>1. /\ pc[p] = "measure" /\ me \in Local /\ me.afd.ino \in Inodes /\ p \in Writers
      /\ me.cmd \in Commands /\ f \in Paths
  <2>1. /\ pc[p] = "measure" /\ me \in Local /\ me.afd.ino \in Inodes /\ p \in Writers
        /\ me.cmd \in Commands /\ Args(p) \in Seq(Paths)
        /\ me.k # 0 /\ me.k <= Len(Args(p)) /\ me.k \in Nat
    BY LocalFacts
    DEF MeasureFile, Reached, OpenedArchive, InRange, WritersOnly, WriterLabels, LoopLabels, Args,
        Local
  <2>2. QED
    BY <2>1, ElementOfSeq, LenProperties
<1>2. FilesOK' /\ dir' = dir
  BY LocalFacts DEF MeasureFile, FilesOK
<1>3. disk[f] \in FileState
  BY <1>1, LocalFacts DEF FilesOK
<1>4. MeasuredSize(f) \in UInt
  <2>1. Len(disk[f].data) \in Nat /\ Len(disk[f].data) < Word
    BY <1>3, LenProperties DEF FileState
  <2>2. QED
    BY <2>1, UIntFacts, FormatAssumption DEF MeasuredSize, UInt
<1>5. fi \in Entry
  <2>1. Base[f] \in Names
    BY <1>1, ArchiverAssumption
  <2>2. disk[f].mode \in Modes
    BY <1>3 DEF FileState
  <2>3. QED
    BY <1>4, <2>1, <2>2, UIntFacts DEF Entry
<1> HIDE DEF fi
<1> DEFINE h == Append(me.hdr, fi)
           e == (me.err \/ ~Readable(f))
           k == me.k + 1
           added == me.added + 1
           m == [me EXCEPT !.hdr = h, !.k = k, !.added = added, !.err = e]
<1>6. h \in Seq(Entry)
  BY <1>1, <1>5, AppendProperties DEF Local
<1>7. Goto(p, "stat", m)
  BY DEF MeasureFile, fi
<1>8. e \in BOOLEAN
  OBVIOUS
<1>9. k \in Nat /\ k # 0 /\ added \in Nat
  BY <1>1 DEF Local
<1> HIDE DEF h, e, k, added
<1>10. m \in Local /\ m.cmd = me.cmd /\ m.afd = me.afd /\ m.tfd = me.tfd /\ m.k # 0
  BY <1>1, <1>6, <1>8, <1>9 DEF Local
<1>11. Reached(p, "stat", m)
  BY <1>1, <1>10, ReachedPlain DEF Labels
<1> HIDE DEF m
<1>12. QED
  BY <1>2, <1>7, <1>10, <1>11, StayInv DEF Labels

LEMMA DropNodeFacts ==
    ASSUME NEW h \in Seq(Entry), NEW k \in 1 .. Len(h)
    PROVE  DropNode(h, k) \in Seq(Entry)
<1>1. Len(h) \in Nat /\ \A i \in 1 .. Len(h) : h[i] \in Entry
  BY LenProperties, ElementOfSeq
<1>2. SubSeq(h, 1, k - 1) \in Seq(Entry) /\ SubSeq(h, k + 1, Len(h)) \in Seq(Entry)
  BY <1>1, SubSeqProperties
<1>3. QED
  BY <1>2, ConcatProperties DEF DropNode

LEMMA FilterHeaderInv == ASSUME TypeInv, NEW p \in Procs, FilterHeader(p) PROVE TypeInv' /\ Quiet
<1> DEFINE me == loc[p]
<1>1. /\ pc[p] = "filter" /\ me \in Local /\ me.afd.ino \in Inodes /\ me.k # 0
      /\ me.cmd \in Commands /\ Reached(p, "filter", me) /\ Len(me.hdr) \in Nat
  BY LocalFacts, LenProperties DEF FilterHeader, Reached, OpenedArchive, InRange, LoopLabels, Local
<1>2. FilesOK' /\ dir' = dir
  BY LocalFacts DEF FilterHeader, FilesOK
<1>3. CASE me.k > Len(me.hdr)
  <2> DEFINE m == [me EXCEPT !.k = 1]
             l == IF Op(p) = "remove" THEN "writeHeader" ELSE "member"
  <2>1. m \in Local /\ Reached(p, l, m) /\ m.afd = me.afd /\ m.tfd = me.tfd
    BY <1>1
    DEF Local, Reached, OpenedArchive, InRange, WritersOnly, WriterLabels, LoopLabels, Op
  <2>2. Goto(p, l, m) /\ l \in Labels
    BY <1>3 DEF FilterHeader, Labels
  <2> HIDE DEF l, m
  <2>3. QED
    BY <1>2, <2>1, <2>2, StayInv
<1>4. CASE me.k <= Len(me.hdr)
  <2>1. me.k \in 1 .. Len(me.hdr) /\ me.hdr \in Seq(Entry)
    BY <1>1, <1>4 DEF Local
  <2> DEFINE h == DropNode(me.hdr, me.k)
  <2>2. h \in Seq(Entry)
    BY <2>1, DropNodeFacts
  <2> HIDE DEF h
  <2> DEFINE k == me.k + 1
  <2>3. k \in Nat /\ k # 0
    BY <1>1 DEF Local
  <2>4. Goto(p, "filter", [me EXCEPT !.hdr = h]) \/ Goto(p, "filter", [me EXCEPT !.k = k])
    <3>1. ~(me.k > Len(me.hdr))
      BY <1>1, <1>4 DEF Local
    <3>2. QED
      BY <3>1, Zenon DEF FilterHeader, h
  <2> HIDE DEF k
  <2>5. ASSUME NEW m \in {[me EXCEPT !.hdr = h], [me EXCEPT !.k = k]}
        PROVE  m \in Local /\ Reached(p, "filter", m) /\ m.afd = me.afd /\ m.tfd = me.tfd
    <3>1. m \in Local /\ m.cmd = me.cmd /\ m.afd = me.afd /\ m.tfd = me.tfd /\ m.k # 0
      BY <1>1, <2>2, <2>3, ZenonT(30) DEF Local
    <3>2. QED
      BY <1>1, <3>1 DEF Reached, OpenedArchive, InRange, WritersOnly
  <2>6. QED
    BY <1>2, <2>4, <2>5, StayInv DEF Labels
<1>5. QED
  BY <1>1, <1>3, <1>4 DEF Local

\* Descriptors stay descriptors when a read, a write or a seek moves them.
LEMMA MoveFd ==
    ASSUME NEW fd \in Fd, NEW n \in Nat
    PROVE  /\ [fd EXCEPT !.pos = n] \in Fd /\ [fd EXCEPT !.pos = n].ino = fd.ino
           /\ fd.pos + n \in Nat
           /\ [fd EXCEPT !.pos = @ + n] \in Fd /\ [fd EXCEPT !.pos = @ + n].ino = fd.ino
  BY DEF Fd

LEMMA WriteHeaderInv == ASSUME TypeInv, NEW p \in Procs, WriteHeader(p) PROVE TypeInv' /\ Quiet
<1> DEFINE me == loc[p]
           n == Len(me.hdr)
           e == me.hdr[me.k]
<1>1. /\ pc[p] = "writeHeader" /\ me \in Local /\ me.afd.ino \in Inodes /\ p \in Writers
      /\ me.cmd \in Commands /\ n \in Nat /\ me.k \in Nat \ {0}
  BY LocalFacts, LenProperties
  DEF WriteHeader, Reached, OpenedArchive, InRange, WritersOnly, WriterLabels, LoopLabels, Local
<1> DEFINE fd == [me.tfd EXCEPT !.pos = @ + 1]
<1>2. fd \in Fd /\ fd.ino = me.tfd.ino
  BY <1>1, MoveFd DEF Local
<1>3. CASE me.k <= n
  <2> DEFINE c == [e EXCEPT !.off = EntryOffset(n, me.raw)]
             k == me.k + 1
             raw == NextRaw(me.raw, e.size)
             m == [me EXCEPT !.k = k, !.tfd = fd, !.raw = raw]
  <2>1. e \in Entry
    BY <1>1, <1>3, ElementOfSeq DEF Local
  <2>2. e.size \in UInt /\ me.raw \in UInt
    BY <1>1, <2>1 DEF Entry, Local
  <2>3. EntryOffset(n, me.raw) \in UInt /\ raw \in UInt
    BY <1>1, <2>2, OffsetIsUInt
  <2>4. c \in Entry
    BY <2>1, <2>3 DEF Entry
  <2>5. <<c>> \in Seq(Cell)
    BY <2>4, CellFacts
  <2>6. WriteWork(p, <<c>>) /\ UNCHANGED disk
    BY <1>3 DEF WriteHeader
  <2>7. FilesOK' /\ dir' = dir
    BY <2>5, <2>6, WriteWorkOK, LocalFacts DEF FilesOK
  <2>8. Goto(p, "writeHeader", [me EXCEPT !.k = @ + 1, !.tfd.pos = @ + 1,
                                          !.raw = NextRaw(@, e.size)])
    BY <1>3 DEF WriteHeader
  <2>9. m = [me EXCEPT !.k = @ + 1, !.tfd.pos = @ + 1, !.raw = NextRaw(@, e.size)]
    BY <1>1 DEF Local, Fd
  <2>10. k \in Nat /\ k # 0
    BY <1>1
  <2> HIDE DEF k, raw, fd
  <2>11. m \in Local /\ m.cmd = me.cmd /\ m.afd = me.afd /\ m.tfd = fd /\ m.k # 0
    BY <1>1, <1>2, <2>3, <2>10 DEF Local
  <2>12. Reached(p, "writeHeader", m)
    BY <1>1, <2>11, ReachedPlain DEF Labels
  <2> HIDE DEF m
  <2>13. QED
    BY <1>2, <2>7, <2>8, <2>9, <2>11, <2>12, StayInv DEF Labels
<1>4. CASE me.k > n
  <2> DEFINE m == [me EXCEPT !.k = 1, !.raw = 0, !.tfd = fd]
             l == IF Op(p) = "input" THEN "locate" ELSE "member"
  <2>1. ~(me.k <= n)
    BY <1>1, <1>4
  <2>2. WriteWork(p, <<End>>) /\ UNCHANGED disk
        /\ Goto(p, l, [me EXCEPT !.k = 1, !.raw = 0, !.tfd.pos = @ + 1])
    BY <2>1, Zenon DEF WriteHeader
  <2>3. FilesOK' /\ dir' = dir
    <3>1. <<End>> \in Seq(Cell)
      BY CellFacts
    <3>2. QED
      BY <2>2, <3>1, WriteWorkOK, LocalFacts DEF FilesOK
  <2>4. m = [me EXCEPT !.k = 1, !.raw = 0, !.tfd.pos = @ + 1]
    BY <1>1 DEF Local, Fd
  <2> HIDE DEF fd
  <2>5. m \in Local /\ m.cmd = me.cmd /\ m.afd = me.afd /\ m.tfd = fd /\ m.k # 0
    <3>1. ASSUME NEW k \in Nat, NEW raw \in UInt
          PROVE  LET w == [me EXCEPT !.k = k, !.raw = raw, !.tfd = fd]
                 IN  w \in Local /\ w.cmd = me.cmd /\ w.afd = me.afd /\ w.tfd = fd /\ w.k = k
      BY <1>1, <1>2 DEF Local
    <3>2. 1 \in Nat /\ 0 \in UInt /\ 1 # 0
      BY UIntFacts
    <3>3. QED
      BY <3>1, <3>2, Zenon
  <2>6. Reached(p, l, m)
    BY <1>1, <2>5, ReachedPlain DEF Labels
  <2> HIDE DEF m
  <2>7. QED
    BY <1>2, <2>2, <2>3, <2>4, <2>5, <2>6, StayInv DEF Labels
<1>5. QED
  BY <1>1, <1>3, <1>4

\* The first old offset is a 64-bit value, also when nobody wrote it.
LEMMA RawStartFacts == ASSUME NEW c \in Seq(Cell) PROVE RawStart(c) \subseteq UInt
<1>1. CASE Header(c) = <<>>
  BY <1>1, ArchiverAssumption DEF RawStart
<1>2. CASE Header(c) # <<>>
  <2>1. Header(c) \in Seq(Entry) /\ 1 \in 1 .. Len(Header(c))
    BY <1>2, HeaderFacts, EmptySeq
  <2>2. Header(c)[1] \in Entry
    BY <2>1, ElementOfSeq
  <2>3. QED
    BY <1>2, <2>2 DEF RawStart, Entry
<1>3. QED
  BY <1>1, <1>2

\* What the actions that only -i executes may use.
LEMMA InsertFacts ==
    ASSUME TypeInv, NEW p \in Procs,
           pc[p] \in {"locate", "copyOld", "openSource", "copySource"}
    PROVE  /\ loc[p] \in Local /\ loc[p].cmd \in Commands /\ loc[p].afd.ino \in Inodes
           /\ loc[p].afd \in Fd /\ loc[p].tfd \in Fd /\ loc[p].afd.pos \in Nat
           /\ loc[p].k \in Nat \ {0} /\ p \in Writers
           /\ ArchFile(p) \in Seq(Cell) /\ Args(p) \in Seq(Paths)
<1>1. loc[p] \in Local /\ Reached(p, pc[p], loc[p])
  BY LocalFacts
<1>2. /\ loc[p].cmd \in Commands /\ loc[p].afd.ino \in Inodes
      /\ loc[p].k # 0 /\ p \in Writers
  BY <1>1 DEF Reached, OpenedArchive, InRange, WritersOnly, WriterLabels, LoopLabels
<1>3. loc[p].afd \in Fd /\ loc[p].tfd \in Fd /\ loc[p].afd.pos \in Nat /\ loc[p].k \in Nat
  BY <1>1 DEF Local, Fd
<1>4. QED
  BY <1>1, <1>2, <1>3, LocalFacts

LEMMA LocateDataInv == ASSUME TypeInv, NEW p \in Procs, LocateData(p) PROVE TypeInv' /\ Quiet
<1> DEFINE me == loc[p]
           c == ArchFile(p)
<1>1. pc[p] = "locate"
  BY DEF LocateData
<1>2. FilesOK' /\ dir' = dir
  BY LocalFacts DEF LocateData, FilesOK
<1>3. CASE Exit(p)
  BY <1>2, <1>3, LeaveInv
<1>4. CASE Goto(p, "copyOld", me)
  BY <1>1, <1>2, <1>4, InsertFacts, ReachedPlain, StayInv DEF Labels
<1>5. ASSUME NEW off \in RawStart(c),
             Goto(p, "copyOld", [me EXCEPT !.afd.pos = Seek(off, Len(c))])
      PROVE  TypeInv' /\ Quiet
  <2> DEFINE pos == Seek(off, Len(c))
             fd == [me.afd EXCEPT !.pos = pos]
             m == [me EXCEPT !.afd = fd]
  <2>1. pos \in Nat
    BY <1>1, <1>5, InsertFacts, RawStartFacts, SeekIsNat, LenProperties
  <2> HIDE DEF pos
  <2>2. fd \in Fd /\ fd.ino = me.afd.ino
    BY <1>1, <2>1, InsertFacts, MoveFd
  <2>3. m = [me EXCEPT !.afd.pos = pos]
    BY <1>1, InsertFacts DEF Local, Fd
  <2>4. Goto(p, "copyOld", m)
    BY <1>5, <2>3 DEF pos
  <2> HIDE DEF fd
  <2>5. m \in Local /\ m.cmd = me.cmd /\ m.afd = fd /\ m.tfd = me.tfd /\ m.k = me.k
    BY <1>1, <2>2, InsertFacts DEF Local
  <2> HIDE DEF m
  <2>6. QED
    BY <1>1, <1>2, <2>2, <2>4, <2>5, InsertFacts, ReachedPlain, StayInv DEF Labels
<1>6. QED
  BY <1>3, <1>4, <1>5 DEF LocateData

LEMMA CopyOldInv == ASSUME TypeInv, NEW p \in Procs, CopyOld(p) PROVE TypeInv' /\ Quiet
<1> DEFINE me == loc[p]
           n == ReadCount(ArchFile(p), me.afd.pos, Buffer)
           b == ReadInto(ArchFile(p), me.afd.pos, n)
           afd == [me.afd EXCEPT !.pos = @ + n]
           tfd == [me.tfd EXCEPT !.pos = @ + n]
<1>1. pc[p] = "copyOld"
  BY DEF CopyOld
<1>2. n \in Nat
  BY <1>1, InsertFacts, ReadCountFacts, FormatAssumption
<1>3. b \in Seq(Cell)
  BY <1>1, <1>2, InsertFacts, ReadIntoFacts
<1>4. afd \in Fd /\ tfd \in Fd /\ afd.ino = me.afd.ino /\ tfd.ino = me.tfd.ino
  BY <1>1, <1>2, InsertFacts, MoveFd
<1>5. CASE n = 0
  <2>1. Goto(p, "openSource", me) /\ UNCHANGED fsVars /\ UNCHANGED disk
    BY <1>5 DEF CopyOld
  <2>2. FilesOK' /\ dir' = dir
    BY <2>1, LocalFacts DEF FilesOK, fsVars
  <2>3. QED
    BY <1>1, <2>1, <2>2, InsertFacts, ReachedPlain, StayInv DEF Labels
<1>6. CASE n # 0
  <2> DEFINE m == [me EXCEPT !.afd = afd, !.tfd = tfd]
  <2>1. /\ WriteWork(p, b) /\ UNCHANGED disk
        /\ Goto(p, "copyOld", [me EXCEPT !.afd.pos = @ + n, !.tfd.pos = @ + n])
    BY <1>6 DEF CopyOld
  <2>2. FilesOK' /\ dir' = dir
    BY <1>3, <2>1, WriteWorkOK, LocalFacts DEF FilesOK
  <2>3. m = [me EXCEPT !.afd.pos = @ + n, !.tfd.pos = @ + n]
    BY <1>1, InsertFacts DEF Local, Fd
  <2>4. Goto(p, "copyOld", m)
    BY <2>1, <2>3
  <2> HIDE DEF afd, tfd
  <2>5. m \in Local /\ m.cmd = me.cmd /\ m.afd = afd /\ m.tfd = tfd /\ m.k = me.k
    BY <1>1, <1>4, InsertFacts DEF Local
  <2> HIDE DEF m
  <2>6. QED
    BY <1>1, <1>4, <2>2, <2>4, <2>5, InsertFacts, ReachedPlain, StayInv DEF Labels
<1>7. QED
  BY <1>5, <1>6

LEMMA OpenSourceInv == ASSUME TypeInv, NEW p \in Procs, OpenSource(p) PROVE TypeInv' /\ Quiet
<1> DEFINE me == loc[p]
<1>1. pc[p] = "openSource"
  BY DEF OpenSource
<1>2. FilesOK' /\ dir' = dir
  BY LocalFacts DEF OpenSource, FilesOK
<1>3. CASE Goto(p, "unlink", me)
  BY <1>1, <1>2, <1>3, InsertFacts, ReachedPlain, StayInv DEF Labels
<1>4. CASE ~(me.k > Len(Args(p))) /\ Goto(p, "copySource", [me EXCEPT !.pos = 0])
  <2> DEFINE m == [me EXCEPT !.pos = 0]
  <2>1. m \in Local /\ m.cmd = me.cmd /\ m.afd = me.afd /\ m.tfd = me.tfd /\ m.k = me.k
    BY <1>1, InsertFacts DEF Local
  <2>2. me.k <= Len(Args(p))
    BY <1>1, <1>4, InsertFacts, LenProperties
  <2>3. Reached(p, "copySource", m)
    BY <1>1, <2>1, <2>2, InsertFacts
    DEF Reached, OpenedArchive, InRange, WritersOnly, LoopLabels, Args
  <2> HIDE DEF m
  <2>4. QED
    BY <1>2, <1>4, <2>1, <2>3, StayInv DEF Labels, m
<1>5. CASE Goto(p, "openSource", [me EXCEPT !.k = @ + 1])
  <2> DEFINE k == me.k + 1
             m == [me EXCEPT !.k = k]
  <2>1. k \in Nat /\ k # 0
    BY <1>1, InsertFacts
  <2>2. Goto(p, "openSource", m)
    BY <1>5
  <2> HIDE DEF k
  <2>3. m \in Local /\ m.cmd = me.cmd /\ m.afd = me.afd /\ m.tfd = me.tfd /\ m.k # 0
    BY <1>1, <2>1, InsertFacts DEF Local
  <2> HIDE DEF m
  <2>4. QED
    BY <1>1, <1>2, <2>2, <2>3, InsertFacts, ReachedPlain, StayInv DEF Labels
<1>6. QED
  BY <1>3, <1>4, <1>5, Zenon DEF OpenSource

LEMMA CopySourceInv == ASSUME TypeInv, NEW p \in Procs, CopySource(p) PROVE TypeInv' /\ Quiet
<1> DEFINE me == loc[p]
           f == Args(p)[me.k]
           data == disk[f].data
           n == ReadCount(data, me.pos, Buffer)
           b == ReadInto(data, me.pos, n)
<1>1. pc[p] = "copySource" /\ me.k <= Len(Args(p)) /\ me.pos \in Nat
  BY LocalFacts DEF CopySource, Reached, InRange, Args, Local
<1>2. f \in Paths
  BY <1>1, InsertFacts, ElementOfSeq, LenProperties
<1>3. data \in Seq(Cell)
  BY <1>2, LocalFacts DEF FilesOK, FileState
<1>4. n \in Nat /\ b \in Seq(Cell)
  <2> HIDE DEF data
  <2>1. n \in 0 .. Buffer /\ Buffer \in Nat
    BY <1>1, <1>3, ReadCountFacts, FormatAssumption
  <2>2. n \in Nat
    BY <2>1
  <2>3. b \in Seq(Cell)
    BY <1>1, <1>3, <2>2, ReadIntoFacts
  <2>4. QED
    BY <2>2, <2>3
<1>5. /\ me.pos + n \in Nat /\ [me.tfd EXCEPT !.pos = @ + n] \in Fd
      /\ [me.tfd EXCEPT !.pos = @ + n].ino = me.tfd.ino
  <2>1. n \in Nat /\ me.pos \in Nat /\ me.tfd \in Fd
    BY <1>1, <1>4, InsertFacts
  <2> HIDE DEF n
  <2>2. me.pos + n \in Nat
    BY <2>1
  <2>3. QED
    BY <2>1, <2>2, MoveFd
<1>6. CASE n = 0
  <2> DEFINE k == me.k + 1
             m == [me EXCEPT !.k = k]
  <2>1. Goto(p, "openSource", m) /\ UNCHANGED fsVars /\ UNCHANGED disk
    BY <1>6 DEF CopySource
  <2>2. FilesOK' /\ dir' = dir
    BY <2>1, LocalFacts DEF FilesOK, fsVars
  <2>3. k \in Nat /\ k # 0
    BY <1>1, InsertFacts
  <2> HIDE DEF k
  <2>4. m \in Local /\ m.cmd = me.cmd /\ m.afd = me.afd /\ m.tfd = me.tfd /\ m.k # 0
    BY <1>1, <2>3, InsertFacts DEF Local
  <2> HIDE DEF m
  <2>5. QED
    BY <1>1, <2>1, <2>2, <2>4, InsertFacts, ReachedPlain, StayInv DEF Labels
<1>7. CASE n # 0
  <2> DEFINE pos == me.pos + n
             tfd == [me.tfd EXCEPT !.pos = @ + n]
             m == [me EXCEPT !.pos = pos, !.tfd = tfd]
  <2>1. /\ WriteWork(p, b) /\ UNCHANGED disk
        /\ Goto(p, "copySource", [me EXCEPT !.pos = @ + n, !.tfd.pos = @ + n])
    BY <1>7 DEF CopySource
  <2>2. FilesOK' /\ dir' = dir
    BY <1>4, <2>1, WriteWorkOK, LocalFacts DEF FilesOK
  <2>3. m = [me EXCEPT !.pos = @ + n, !.tfd.pos = @ + n]
    BY <1>1, InsertFacts DEF Local, Fd
  <2>4. Goto(p, "copySource", m)
    BY <2>1, <2>3
  <2>5. pos \in Nat /\ tfd \in Fd /\ tfd.ino = me.tfd.ino
    BY <1>5
  <2> HIDE DEF pos, tfd
  <2>6. m \in Local /\ m.cmd = me.cmd /\ m.afd = me.afd /\ m.tfd = tfd /\ m.k = me.k
    BY <1>1, <2>5, InsertFacts DEF Local
  <2> HIDE DEF m
  <2>7. Reached(p, "copySource", m)
    BY <1>1, <2>6, InsertFacts
    DEF Reached, OpenedArchive, InRange, WritersOnly, LoopLabels, Args
  <2>8. QED
    BY <2>2, <2>4, <2>5, <2>6, <2>7, StayInv DEF Labels
<1>8. QED
  BY <1>6, <1>7

\* What the two actions of the copying loop of -r and -e may use.
LEMMA MemberFacts ==
    ASSUME TypeInv, NEW p \in Procs, pc[p] \in {"member", "copyMember"}
    PROVE  /\ loc[p] \in Local /\ loc[p].cmd \in Commands /\ loc[p].afd.ino \in Inodes
           /\ loc[p].afd \in Fd /\ loc[p].tfd \in Fd
           /\ loc[p].afd.pos \in Nat /\ loc[p].pos \in Nat /\ loc[p].left \in UInt
           /\ loc[p].k \in Nat \ {0} /\ loc[p].hdr \in Seq(Entry) /\ Len(loc[p].hdr) \in Nat
           /\ loc[p].k <= Len(loc[p].hdr) => loc[p].hdr[loc[p].k] \in Entry
           /\ Op(p) \in {"input", "remove"} \/ loc[p].tfd.ino # NoIno => p \in Writers
           /\ ArchFile(p) \in Seq(Cell)
<1>1. loc[p] \in Local /\ Reached(p, pc[p], loc[p])
  BY LocalFacts
<1>2. /\ loc[p].cmd \in Commands /\ loc[p].afd.ino \in Inodes /\ loc[p].k # 0
      /\ Op(p) \in {"input", "remove"} \/ loc[p].tfd.ino # NoIno => p \in Writers
  BY <1>1 DEF Reached, OpenedArchive, InRange, WritersOnly, LoopLabels, Op
<1>3. /\ loc[p].afd \in Fd /\ loc[p].tfd \in Fd
      /\ loc[p].afd.pos \in Nat /\ loc[p].pos \in Nat /\ loc[p].left \in UInt
      /\ loc[p].k \in Nat /\ loc[p].hdr \in Seq(Entry)
  BY <1>1 DEF Local, Fd
<1>4. /\ Len(loc[p].hdr) \in Nat
      /\ loc[p].k <= Len(loc[p].hdr) => loc[p].hdr[loc[p].k] \in Entry
  BY <1>2, <1>3, ElementOfSeq, LenProperties
<1>5. QED
  BY <1>1, <1>2, <1>3, <1>4, LocalFacts

LEMMA NextMemberInv == ASSUME TypeInv, NEW p \in Procs, NextMember(p) PROVE TypeInv' /\ Quiet
<1> DEFINE me == loc[p]
           e == me.hdr[me.k]
<1>1. pc[p] = "member" /\ UNCHANGED fsVars
  BY DEF NextMember
<1>2. CASE me.k > Len(me.hdr)
  <2>1. ((Op(p) = "remove" /\ Goto(p, "unlink", me)) \/ Exit(p)) /\ UNCHANGED disk
    BY <1>2 DEF NextMember
  <2>2. FilesOK' /\ dir' = dir
    BY <1>1, <2>1, LocalFacts DEF FilesOK, fsVars
  <2>3. Op(p) = "remove" => Reached(p, "unlink", me)
    BY <1>1, MemberFacts, ReachedPlain DEF Labels
  <2>4. QED
    <3>1. CASE Exit(p)
      BY <2>2, <3>1, LeaveInv
    <3>2. CASE Op(p) = "remove" /\ Goto(p, "unlink", me)
      BY <1>1, <2>2, <2>3, <3>2, MemberFacts, StayInv DEF Labels
    <3>3. QED
      BY <2>1, <3>1, <3>2
<1>3. CASE me.k <= Len(me.hdr)
  <2> DEFINE apos == Seek(e.off, me.afd.pos)
             afd == [me.afd EXCEPT !.pos = apos]
             ready == [me EXCEPT !.left = e.size, !.pos = 0, !.afd = afd]
             skip == [me EXCEPT !.k = @ + 1]
  <2>1. e \in Entry /\ e.name \in Names /\ e.size \in UInt /\ e.off \in UInt /\ e.mask \in Modes
    BY <1>1, <1>3, MemberFacts DEF Entry
  <2>2. ready = [me EXCEPT !.left = e.size, !.pos = 0, !.afd.pos = Seek(e.off, @)]
    BY <1>1, MemberFacts DEF Local, Fd
  <2>3. ~(me.k > Len(me.hdr))
    BY <1>1, <1>3, MemberFacts
  <2>4. \/ Goto(p, "copyMember", ready) /\ UNCHANGED disk
        \/ /\ Goto(p, "copyMember", ready)
           /\ disk' = [disk EXCEPT ![e.name] = CreatedFile(e.name, e.mask)]
        \/ Goto(p, "member", skip) /\ UNCHANGED disk
    BY <2>2, <2>3 DEF NextMember
  <2>5. e.name \in Paths /\ disk[e.name] \in FileState
    BY <2>1, LocalFacts, ArchiverAssumption DEF FilesOK
  <2>6. CreatedFile(e.name, e.mask) \in FileState
    BY <2>1, <2>5 DEF CreatedFile, FileState
  <2>7. FilesOK' /\ dir' = dir
    BY <1>1, <2>4, <2>6, LocalFacts DEF FilesOK, fsVars
  <2>8. apos \in Nat
    BY <1>1, <2>1, MemberFacts, SeekIsNat
  <2>9. afd \in Fd /\ afd.ino = me.afd.ino
    BY <1>1, <2>8, MemberFacts, MoveFd
  <2> HIDE DEF apos, afd
  <2>10. /\ ready \in Local /\ Reached(p, "copyMember", ready)
         /\ ready.afd = afd /\ ready.tfd = me.tfd
    <3> DEFINE size == e.size
    <3>1. size \in UInt /\ size \in Nat /\ size < Word
      BY <2>1, UIntFacts
    <3> HIDE DEF size, e
    <3>2. /\ ready \in Local /\ ready.cmd = me.cmd /\ ready.afd = afd /\ ready.tfd = me.tfd
          /\ ready.k = me.k /\ ready.hdr = me.hdr /\ ready.left = size /\ ready.pos = 0
      BY <1>1, <2>9, <3>1, MemberFacts DEF Local, size
    <3> HIDE DEF ready
    <3>3. ready.pos + ready.left < Word
      BY <3>1, <3>2
    <3>4. QED
      BY <1>1, <1>3, <2>9, <3>2, <3>3, MemberFacts
      DEF Reached, OpenedArchive, InRange, WritersOnly, WriterLabels, Op
  <2>11. /\ skip \in Local /\ Reached(p, "member", skip)
         /\ skip.afd = me.afd /\ skip.tfd = me.tfd
    <3> DEFINE k == me.k + 1
    <3>1. k \in Nat /\ k # 0 /\ skip = [me EXCEPT !.k = k]
      BY <1>1, MemberFacts
    <3> HIDE DEF k, skip
    <3>2. /\ skip \in Local /\ skip.cmd = me.cmd /\ skip.afd = me.afd /\ skip.tfd = me.tfd
          /\ skip.k # 0
      BY <1>1, <3>1, MemberFacts DEF Local
    <3>3. QED
      BY <1>1, <3>2, MemberFacts
      DEF Reached, OpenedArchive, InRange, WritersOnly, WriterLabels, Op
  <2> HIDE DEF ready, skip
  <2>12. QED
    BY <2>4, <2>7, <2>9, <2>10, <2>11, StayInv, Zenon DEF Labels
<1>4. QED
  BY <1>1, <1>2, <1>3, MemberFacts

LEMMA CopyMemberInv == ASSUME TypeInv, NEW p \in Procs, CopyMember(p) PROVE TypeInv' /\ Quiet
<1> DEFINE me == loc[p]
           e == me.hdr[me.k]
           n == ChunkSize(me.left)
           chunk == ReadInto(ArchFile(p), me.afd.pos, n)
           read == ReadCount(ArchFile(p), me.afd.pos, n)
           afd == [me.afd EXCEPT !.pos = @ + read]
           tfd == [me.tfd EXCEPT !.pos = @ + n]
           left == me.left - n
           pos == me.pos + n
<1>1. pc[p] = "copyMember"
  BY Zenon DEF CopyMember
<1>2. /\ me.k <= Len(me.hdr) /\ e \in Entry /\ e.name \in Paths
      /\ Op(p) # "remove" => me.pos + me.left < Word
  <2>1. me.k <= Len(me.hdr) /\ (Op(p) # "remove" => me.pos + me.left < Word)
    BY <1>1, LocalFacts DEF Reached, InRange, Op
  <2>2. e \in Entry
    BY <1>1, <2>1, MemberFacts
  <2>3. QED
    BY <2>1, <2>2, ArchiverAssumption DEF Entry
<1>3. n \in 0 .. me.left /\ n \in Nat /\ me.left \in UInt /\ me.left \in Nat /\ me.pos \in Nat
  <2>1. me.left \in UInt /\ me.pos \in Nat
    BY <1>1, MemberFacts
  <2>2. n \in 0 .. me.left
    BY <2>1, ChunkFacts
  <2>3. me.left \in Nat
    BY <2>1, UIntFacts
  <2> HIDE DEF n
  <2>4. n \in Nat
    BY <2>2, <2>3
  <2>5. QED
    BY <2>1, <2>2, <2>3, <2>4
<1>4. left \in UInt /\ left \in Nat /\ pos \in Nat /\ pos + left = me.pos + me.left
  BY <1>3, FormatAssumption DEF UInt
<1>5. chunk \in Seq(Cell) /\ Len(chunk) = n /\ read \in Nat
  <2> HIDE DEF n
  <2>1. /\ ArchFile(p) \in Seq(Cell) /\ me.afd.pos \in Nat
    BY <1>1, MemberFacts
  <2>2. chunk \in Seq(Cell) /\ Len(chunk) = n /\ read \in 0 .. n
    BY <1>3, <2>1, ReadIntoFacts, ReadCountFacts
  <2>3. QED
    BY <1>3, <2>2
<1>6. afd \in Fd /\ afd.ino = me.afd.ino /\ tfd \in Fd /\ tfd.ino = me.tfd.ino
  <2>1. me.afd \in Fd /\ me.tfd \in Fd
    BY <1>1, MemberFacts
  <2> HIDE DEF n, read
  <2>2. QED
    BY <1>3, <1>5, <2>1, MoveFd
<1>7. CASE me.left = 0
  <2> DEFINE k == me.k + 1
             m == [me EXCEPT !.k = k]
  <2>1. Goto(p, "member", m) /\ UNCHANGED <<dir, ino, disk>>
    BY <1>7 DEF CopyMember
  <2>2. FilesOK' /\ dir' = dir
    BY <2>1, LocalFacts DEF FilesOK
  <2>3. k \in Nat /\ k # 0
    BY <1>1, MemberFacts
  <2> HIDE DEF k
  <2>4. m \in Local /\ m.cmd = me.cmd /\ m.afd = me.afd /\ m.tfd = me.tfd /\ m.k # 0
    BY <1>1, <2>3, MemberFacts DEF Local
  <2> HIDE DEF m
  <2>5. Reached(p, "member", m)
    BY <1>1, <2>4, MemberFacts, ReachedPlain DEF Labels, WriterLabels, Op
  <2>6. QED
    BY <2>1, <2>2, <2>4, <2>5, StayInv DEF Labels
<1>8. CASE me.left # 0 /\ Op(p) = "remove"
  <2> DEFINE m == [me EXCEPT !.left = left, !.afd = afd, !.tfd = tfd]
  <2>1. WriteWork(p, chunk) /\ UNCHANGED disk
    BY <1>8, Zenon DEF CopyMember
  <2>2. Goto(p, "copyMember", [[me EXCEPT !.left = @ - n, !.afd.pos = @ + read]
                               EXCEPT !.tfd.pos = @ + n])
    BY <1>8, Zenon DEF CopyMember
  <2>3. FilesOK' /\ dir' = dir
    BY <1>5, <2>1, WriteWorkOK, LocalFacts DEF FilesOK
  <2> HIDE DEF n, read
  <2>4. m = [[me EXCEPT !.left = @ - n, !.afd.pos = @ + read] EXCEPT !.tfd.pos = @ + n]
    BY <1>1, MemberFacts DEF Local, Fd
  <2> HIDE DEF left, afd, tfd
  <2>5. /\ m \in Local /\ m.cmd = me.cmd /\ m.afd = afd /\ m.tfd = tfd /\ m.k = me.k
        /\ m.hdr = me.hdr
    BY <1>1, <1>4, <1>6, MemberFacts DEF Local
  <2> HIDE DEF m
  <2>6. Reached(p, "copyMember", m)
    BY <1>1, <1>2, <1>6, <1>8, <2>5, MemberFacts
    DEF Reached, OpenedArchive, InRange, WritersOnly, WriterLabels, LoopLabels, Op
  <2>7. QED
    BY <1>6, <2>2, <2>3, <2>4, <2>5, <2>6, StayInv DEF Labels
<1>9. CASE me.left # 0 /\ Op(p) # "remove"
  <2> DEFINE m == [me EXCEPT !.left = left, !.afd = afd, !.pos = pos]
  <2>1. disk' = [disk EXCEPT ![e.name].data = WriteAt(@, me.pos, chunk)] /\ UNCHANGED fsVars
    BY <1>9, Zenon DEF CopyMember
  <2>2. Goto(p, "copyMember", [[me EXCEPT !.left = @ - n, !.afd.pos = @ + read]
                               EXCEPT !.pos = @ + n])
    BY <1>9, Zenon DEF CopyMember
  <2>3. FilesOK' /\ dir' = dir
    <3> HIDE DEF chunk, n, e
    <3>1. ASSUME NEW s \in FileState
          PROVE  [s EXCEPT !.data = WriteAt(@, me.pos, chunk)] \in FileState
      <4> DEFINE d == s.data
                 w == WriteAt(d, me.pos, chunk)
      <4>1. d \in Seq(Cell) /\ Len(d) \in Nat /\ Len(d) < Word
        BY LenProperties DEF FileState
      <4> HIDE DEF d
      <4>2. /\ w \in Seq(Cell)
            /\ Len(w) = IF me.pos + n > Len(d) THEN me.pos + n ELSE Len(d)
        BY <1>3, <1>5, <4>1, WriteAtFacts
      <4>3. me.pos + n < Word
        BY <1>2, <1>3, <1>9, FormatAssumption
      <4>4. Len(w) < Word
        BY <4>1, <4>2, <4>3
      <4> HIDE DEF w
      <4>5. [s EXCEPT !.data = w] \in FileState
        BY <4>2, <4>4 DEF FileState
      <4>6. QED
        BY <4>5 DEF w, d
    <3>2. disk' \in [Paths -> FileState]
      BY <1>2, <2>1, <3>1, LocalFacts DEF FilesOK
    <3>3. QED
      BY <2>1, <3>2, LocalFacts DEF FilesOK, fsVars
  <2> HIDE DEF n, read
  <2>4. m = [[me EXCEPT !.left = @ - n, !.afd.pos = @ + read] EXCEPT !.pos = @ + n]
    BY <1>1, MemberFacts DEF Local, Fd
  <2>5. left \in UInt /\ pos \in Nat /\ pos + left < Word
    BY <1>2, <1>4, <1>9
  <2> HIDE DEF left, afd, pos
  <2>6. /\ m \in Local /\ m.cmd = me.cmd /\ m.afd = afd /\ m.tfd = me.tfd /\ m.k = me.k
        /\ m.hdr = me.hdr /\ m.pos = pos /\ m.left = left
    BY <1>1, <1>6, <2>5, MemberFacts DEF Local
  <2> HIDE DEF m
  <2>7. Reached(p, "copyMember", m)
    BY <1>1, <1>2, <1>6, <2>5, <2>6, MemberFacts
    DEF Reached, OpenedArchive, InRange, WritersOnly, WriterLabels, LoopLabels, Op
  <2>8. QED
    BY <1>6, <2>2, <2>3, <2>4, <2>6, <2>7, StayInv DEF Labels
<1>10. QED
  BY <1>7, <1>8, <1>9

\* What the last two actions of -i and -r may use.
LEMMA PublishFacts ==
    ASSUME TypeInv, NEW p \in Procs, pc[p] \in {"unlink", "rename"}
    PROVE  /\ loc[p] \in Local /\ loc[p].cmd \in Commands /\ loc[p].afd.ino \in Inodes
           /\ p \in Writers /\ Arch(p) \in Archives
<1>1. loc[p] \in Local /\ Reached(p, pc[p], loc[p]) /\ Arch(p) \in Archives
  BY LocalFacts
<1>2. QED
  BY <1>1 DEF Reached, OpenedArchive, WritersOnly, WriterLabels

LEMMA UnlinkInv == ASSUME TypeInv, NEW p \in Procs, Unlink(p) PROVE TypeInv'
<1>1. pc[p] = "unlink" /\ Goto(p, "rename", loc[p])
  BY DEF Unlink
<1>2. FilesOK'
  BY <1>1, PublishFacts, LocalFacts DEF Unlink, FilesOK
<1>3. Reached(p, "rename", loc[p])
  BY <1>1, PublishFacts DEF Reached, OpenedArchive, InRange, WritersOnly, LoopLabels
<1>4. QED
  BY <1>1, <1>2, <1>3, PublishFacts, GotoInv DEF Labels

LEMMA RenameInv == ASSUME TypeInv, NEW p \in Procs, Rename(p) PROVE TypeInv'
<1>1. pc[p] = "rename" /\ Exit(p)
  BY DEF Rename
<1>2. FilesOK'
  BY <1>1, PublishFacts, LocalFacts DEF Rename, FilesOK
<1>3. QED
  BY <1>1, <1>2, ExitInv

LEMMA InitTypeInv == Init => TypeInv
<1> SUFFICES ASSUME Init PROVE TypeInv
  OBVIOUS
<1>1. <<>> \in Seq(Cell)
  OBVIOUS
<1>2. TypeOK
  BY <1>1, IdleFacts, ArchiverAssumption DEF Init, TypeOK, Labels
<1>3. \A p \in Procs : Reached(p, pc[p], loc[p])
  BY IdleFacts DEF Init
<1>4. FailsCounted
  BY ArchiverAssumption DEF Init, FailsCounted
<1>5. QED
  BY <1>2, <1>3, <1>4 DEF TypeInv

\* A failing open() that is noticed ends the command, and may leave a new
\* archive behind.
LEMMA RefuseFacts ==
    ASSUME TypeInv, NEW p \in Procs, Refuse(p)
    PROVE  /\ TypeInv' /\ Exit(p) /\ Arch(p) \in Archives
           /\ pc[p] \in {"openWork", "openArchive"} /\ disk' = disk
           /\ UNCHANGED fsVars \/ \E i \in Inodes : OpenCreate(Arch(p), i)
           /\ UNCHANGED fsVars \/ p \in Writers
<1>1. pc[p] \in {"openWork", "openArchive"} /\ Exit(p) /\ disk' = disk
  BY DEF Refuse
<1>2. Arch(p) \in Archives /\ FilesOK
  BY <1>1, LocalFacts
<1>3. UNCHANGED fsVars \/ (pc[p] = "openWork" /\ \E i \in Inodes : OpenCreate(Arch(p), i))
  BY DEF Refuse
<1>4. FilesOK'
  BY <1>1, <1>2, <1>3, OpenCreateOK DEF FilesOK, fsVars
<1>5. pc[p] = "openWork" => p \in Writers
  BY DEF TypeInv, Reached, WritersOnly, WriterLabels
<1>6. QED
  BY <1>1, <1>2, <1>3, <1>4, <1>5, ExitInv

\* A -r that goes on without its work file binds nothing and writes nothing
\* before remove().
LEMMA BlindFacts ==
    ASSUME TypeInv, NEW p \in Procs, Blindly(p)
    PROVE  /\ TypeInv' /\ Quiet /\ ino' = ino /\ disk' = disk /\ p \in Writers
           /\ pc'[p] \in {"blind", "idle", "unlink", "garbled"}
           /\ \A q \in Procs : q # p => pc'[q] = pc[q] /\ loc'[q] = loc[q]
           /\ budget'.fails < MaxFails
<1>1. /\ pc \in [Procs -> Labels \cup {"blind"}] /\ loc \in [Procs -> Local]
      /\ loc[p] \in Local /\ Reached(p, pc[p], loc[p]) /\ budget.fails <= MaxFails
      /\ budget \in [commands : Nat, crashes : Nat, edits : Nat, fails : Nat] /\ MaxFails \in Nat
  BY LocalFacts, ArchiverAssumption DEF TypeInv, TypeOK, FailsCounted
<1>2. ino' = ino /\ disk' = disk /\ dir' = dir /\ FilesOK /\ FilesOK'
  BY LocalFacts DEF Blindly, LoseWork, ReadBlind, FilesOK
<1>3. p \in Writers /\ loc[p].afd.ino \in Inodes /\ loc[p].cmd \in Commands
  BY <1>1 DEF Blindly, LoseWork, ReadBlind, Reached, OpenedArchive, WritersOnly, WriterLabels, Op
<1>4. \A l \in {"blind", "unlink", "garbled"} : Reached(p, l, loc[p])
  BY <1>3 DEF Reached, OpenedArchive, InRange, WritersOnly, LoopLabels
<1>5. CASE LoseWork(p)
  <2>1. pc' = [pc EXCEPT ![p] = "blind"] /\ loc' = loc
    BY <1>5 DEF LoseWork
  <2>2. budget.fails > 0 /\ budget' = [budget EXCEPT !.fails = @ - 1]
    BY <1>5 DEF LoseWork, MayFail
  <2>3. /\ budget' \in [commands : Nat, crashes : Nat, edits : Nat, fails : Nat]
        /\ budget'.fails < MaxFails
    BY <1>1, <2>2, SMTT(30)
  <2>4. TypeOK' /\ FailsCounted'
    BY <1>1, <1>2, <2>1, <2>3 DEF TypeInv, TypeOK, FailsCounted, FilesOK
  <2>5. \A q \in Procs : Reached(q, pc'[q], loc'[q])
    BY <1>1, <1>4, <2>1 DEF TypeInv
  <2>6. TypeInv'
    BY <2>4, <2>5 DEF TypeInv, Reached, OpenedArchive, InRange, WritersOnly
  <2>7. QED
    BY <1>1, <1>2, <1>3, <2>1, <2>3, <2>6 DEF Quiet
<1>6. CASE ReadBlind(p)
  <2>1. Exit(p) \/ \E l \in {"unlink", "garbled"} : Goto(p, l, loc[p])
    BY <1>6 DEF ReadBlind
  <2>2. TypeInv' /\ Quiet
    BY <1>1, <1>2, <1>4, <2>1, LeaveInv, StayInv DEF Labels
  <2>3. budget'.fails < MaxFails
    BY <1>6, <2>1 DEF ReadBlind, Exit, Goto, TypeInv, FailsCounted
  <2>4. QED
    BY <1>1, <1>2, <1>3, <2>1, <2>2, <2>3 DEF Exit, Goto
<1>7. QED
  BY <1>5, <1>6 DEF Blindly

LEMMA StepTypeInv == ASSUME TypeInv, NEW p \in Procs, Step(p) PROVE TypeInv'
  BY OpenWorkInv, OpenArchiveInv, ReadHeaderInv, StatFileInv, MeasureFileInv, FilterHeaderInv,
     WriteHeaderInv, LocateDataInv, CopyOldInv, OpenSourceInv, CopySourceInv, NextMemberInv,
     CopyMemberInv, UnlinkInv, RenameInv, RefuseFacts
  DEF Step

LEMMA StepQuiet ==
    ASSUME TypeInv, NEW p \in Procs, Step(p)
    PROVE  Quiet \/ OpenWork(p) \/ OpenArchive(p) \/ Unlink(p) \/ Rename(p) \/ Refuse(p)
  BY ReadHeaderInv, StatFileInv, MeasureFileInv, FilterHeaderInv, WriteHeaderInv, LocateDataInv,
     CopyOldInv, OpenSourceInv, CopySourceInv, NextMemberInv, CopyMemberInv DEF Step

LEMMA StutterTypeInv == TypeInv /\ UNCHANGED vars => TypeInv'
  BY DEF TypeInv, TypeOK, FailsCounted, Reached, OpenedArchive, InRange, WritersOnly, vars

THEOREM TypeInvariance == Spec => []TypeInv
<1>1. TypeInv /\ [Next]_vars => TypeInv'
  BY StartInv, StepTypeInv, CrashInv, EditInv, StutterTypeInv, BlindFacts
  DEF Next, Running, Finished
<1>2. QED
  BY InitTypeInv, <1>1, PTL DEF Spec

\* Type correctness, with crashes, failing open()s, edits and any number of writers: sizes,
\* offsets and byte counts stay 64-bit values and no header holds anything
\* but file_info records.
THEOREM TypeCorrect == Spec => []TypeOK
  BY TypeInvariance, PTL DEF TypeInv

-----------------------------------------------------------------------------
(* The work file is private.  With at most one process that may run -i or  *)
(* -r, what it writes to is never an archive and is never open as one.     *)

OneWriter == \A p, q \in Writers : p = q

FileNames == Archives \cup {Temp}

\* No two names are bound to one inode; the work file's inode is nobody's
\* archive; every work file descriptor refers to the work file's name.
Private ==
    /\ \A m, n \in FileNames : dir[m] = dir[n] /\ dir[m] # NoIno => m = n
    /\ \A p \in Procs : loc[p].afd.ino # NoIno => loc[p].afd.ino # dir[Temp]
    /\ \A p \in Procs : loc[p].tfd.ino # NoIno => loc[p].tfd.ino = dir[Temp]

LEMMA QuietPrivate == Private /\ Quiet => Private'
  BY DEF Private, Quiet

\* A command that starts, a kill, an edit: nothing is bound or opened.
LEMMA EnvironmentQuiet ==
    ASSUME TypeInv,
           \/ \E p \in Procs : Start(p) \/ Crash(p)
           \/ \E f \in Paths : Edit(f)
           \/ UNCHANGED vars
    PROVE  Quiet
<1>0. loc \in [Procs -> Local]
  BY DEF TypeInv, TypeOK
<1>1. ASSUME NEW p \in Procs, Start(p) PROVE Quiet
  <2>1. PICK c \in Commands : loc' = [loc EXCEPT ![p] = [Idle EXCEPT !.cmd = c]]
    BY <1>1 DEF Start
  <2>2. [Idle EXCEPT !.cmd = c].afd.ino = NoIno /\ [Idle EXCEPT !.cmd = c].tfd.ino = NoIno
    BY IdleFacts DEF Local
  <2>3. dir' = dir
    BY <1>1 DEF Start
  <2>4. QED
    BY <1>0, <2>1, <2>2, <2>3 DEF Quiet
<1>2. ASSUME NEW p \in Procs, Crash(p) PROVE Quiet
  BY <1>0, <1>2, IdleFacts DEF Crash, Quiet
<1>3. ASSUME NEW f \in Paths, Edit(f) PROVE Quiet
  BY <1>3 DEF Edit, Quiet
<1>4. CASE UNCHANGED vars
  BY <1>4 DEF vars, Quiet
<1>5. QED
  BY <1>1, <1>2, <1>3, <1>4

\* A writer is the only process with a work file open, and the only one that
\* is past openWork.
LEMMA OnlyWriter ==
    ASSUME TypeInv, OneWriter, NEW p \in Writers, NEW q \in Procs, q # p
    PROVE  loc[q].tfd.ino = NoIno
  BY DEF TypeInv, Reached, WritersOnly, OneWriter

\* What open() returns: the inode the name is bound to, or one nobody uses.
LEMMA OpenCreateFacts ==
    ASSUME NEW name \in FileNames, NEW i \in Inodes, OpenCreate(name, i),
           dir \in [FileNames -> Inodes \cup {NoIno}]
    PROVE  \/ i = dir[name] /\ dir' = dir /\ ino' = ino
           \/ /\ i \notin OpenInodes
              /\ dir' = [dir EXCEPT ![name] = i] /\ ino' = [ino EXCEPT ![i] = <<>>]
<1>1. CASE dir[name] # NoIno
  BY <1>1 DEF OpenCreate, fsVars
<1>2. CASE dir[name] = NoIno
  <2>1. /\ Inodes \ OpenInodes # {}
        /\ i = CHOOSE j \in Inodes : j \notin OpenInodes
        /\ dir' = [dir EXCEPT ![name] = i] /\ ino' = [ino EXCEPT ![i] = <<>>]
    BY <1>2 DEF OpenCreate
  <2>2. i \notin OpenInodes
    BY <2>1
  <2>3. QED
    BY <2>1, <2>2
<1>3. QED
  BY <1>1, <1>2

\* Every inode that a name or a descriptor refers to is in OpenInodes.
LEMMA OpenInodesFacts ==
    ASSUME TypeInv, NEW i, i \notin OpenInodes
    PROVE  /\ \A n \in FileNames : dir[n] # i
           /\ \A q \in Procs : loc[q].afd.ino # i /\ loc[q].tfd.ino # i
<1>1. DOMAIN dir = FileNames
  BY DEF TypeInv, TypeOK, FileNames
<1>2. QED
  BY <1>1 DEF OpenInodes

LEMMA OpenWorkPrivate ==
    ASSUME TypeInv, OneWriter, Private, NEW p \in Procs, OpenWork(p)
    PROVE  Private'
<1>1. pc[p] = "openWork" /\ p \in Writers /\ loc[p] \in Local
  BY LocalFacts DEF OpenWork, Reached, WritersOnly, WriterLabels
<1>2. PICK i \in Inodes : OpenCreate(Temp, i)
                          /\ loc' = [loc EXCEPT ![p] = [loc[p] EXCEPT !.tfd = [ino |-> i, pos |-> 0]]]
  BY DEF OpenWork, WorkName, Goto
<1>3. /\ dir \in [FileNames -> Inodes \cup {NoIno}] /\ Temp \in FileNames
      /\ loc \in [Procs -> Local] /\ NoIno \notin Inodes
  BY ArchiverAssumption DEF TypeInv, TypeOK, FileNames
<1>4. /\ loc'[p].afd = loc[p].afd /\ loc'[p].tfd.ino = i
      /\ \A q \in Procs : q # p => loc'[q] = loc[q]
  BY <1>1, <1>2, <1>3 DEF Local
<1>5. \/ dir' = dir /\ i = dir[Temp]
      \/ i \notin OpenInodes /\ dir' = [dir EXCEPT ![Temp] = i]
  BY <1>2, <1>3, OpenCreateFacts
<1>6. \A q \in Procs : q # p => loc[q].tfd.ino = NoIno
  BY <1>1, OnlyWriter
<1>7. dir'[Temp] = i
  BY <1>3, <1>5
<1>8. \A m, n \in FileNames : dir'[m] = dir'[n] /\ dir'[m] # NoIno => m = n
  BY <1>3, <1>5, OpenInodesFacts DEF Private
<1>9. \A q \in Procs : loc[q].afd.ino # NoIno => loc[q].afd.ino # i
  BY <1>5, OpenInodesFacts DEF Private
<1>10. QED
  BY <1>4, <1>6, <1>7, <1>8, <1>9 DEF Private

LEMMA OpenArchivePrivate ==
    ASSUME TypeInv, Private, NEW p \in Procs, OpenArchive(p)
    PROVE  Private'
<1>1. pc[p] = "openArchive" /\ loc[p] \in Local /\ Arch(p) \in Archives /\ Arch(p) # Temp
  BY LocalFacts, ArchiverAssumption DEF OpenArchive
<1>2. CASE Exit(p) /\ UNCHANGED fsVars
  <2>1. FilesOK' /\ dir' = dir
    BY <1>2, LocalFacts DEF OpenArchive, FilesOK, fsVars
  <2>2. QED
    BY <1>2, <2>1, LeaveInv, QuietPrivate
<1>3. ASSUME NEW i \in Inodes, OpenCreate(Arch(p), i),
             loc' = [loc EXCEPT ![p] = [loc[p] EXCEPT !.afd = [ino |-> i, pos |-> 0]]]
      PROVE  Private'
  <2>1. /\ dir \in [FileNames -> Inodes \cup {NoIno}] /\ Temp \in FileNames /\ Arch(p) \in FileNames
        /\ loc \in [Procs -> Local] /\ NoIno \notin Inodes
    BY <1>1, ArchiverAssumption DEF TypeInv, TypeOK, FileNames
  <2>2. /\ loc'[p].tfd = loc[p].tfd /\ loc'[p].afd.ino = i
        /\ \A q \in Procs : q # p => loc'[q] = loc[q]
    BY <1>1, <1>3, <2>1 DEF Local
  <2>3. \/ dir' = dir /\ i = dir[Arch(p)]
        \/ i \notin OpenInodes /\ dir' = [dir EXCEPT ![Arch(p)] = i]
    BY <1>3, <2>1, OpenCreateFacts
  <2>4. dir'[Temp] = dir[Temp] /\ i # dir[Temp]
    BY <1>1, <2>1, <2>3, OpenInodesFacts DEF Private
  <2>5. \A m, n \in FileNames : dir'[m] = dir'[n] /\ dir'[m] # NoIno => m = n
    BY <2>1, <2>3, OpenInodesFacts DEF Private
  <2>6. QED
    BY <2>2, <2>4, <2>5 DEF Private
<1>4. QED
  BY <1>2, <1>3 DEF OpenArchive, Goto

LEMMA RefusePrivate ==
    ASSUME TypeInv, Private, NEW p \in Procs, Refuse(p)
    PROVE  Private'
<1>1. /\ dir \in [FileNames -> Inodes \cup {NoIno}] /\ Temp \in FileNames /\ Arch(p) \in FileNames
      /\ loc \in [Procs -> Local] /\ NoIno \notin Inodes /\ Arch(p) # Temp
  BY RefuseFacts, ArchiverAssumption DEF TypeInv, TypeOK, FileNames
<1>2. loc'[p] = Idle /\ \A q \in Procs : q # p => loc'[q] = loc[q]
  BY <1>1, RefuseFacts DEF Exit, Goto
<1>3. dir' = dir \/ \E i \in Inodes : i \notin OpenInodes /\ dir' = [dir EXCEPT ![Arch(p)] = i]
  BY <1>1, RefuseFacts, OpenCreateFacts DEF fsVars
<1>4. dir'[Temp] = dir[Temp]
  BY <1>1, <1>3
<1>5. \A m, n \in FileNames : dir'[m] = dir'[n] /\ dir'[m] # NoIno => m = n
  BY <1>1, <1>3, OpenInodesFacts DEF Private
<1>6. QED
  BY <1>2, <1>4, <1>5, IdleFacts DEF Private

LEMMA UnlinkPrivate ==
    ASSUME TypeInv, Private, NEW p \in Procs, Unlink(p)
    PROVE  Private'
<1>1. pc[p] = "unlink" /\ Arch(p) \in Archives /\ Arch(p) # Temp
  BY PublishFacts, ArchiverAssumption DEF Unlink
<1>2. dir \in [FileNames -> Inodes \cup {NoIno}] /\ loc \in [Procs -> Local]
  BY DEF TypeInv, TypeOK, FileNames
<1>3. dir' = [dir EXCEPT ![Arch(p)] = NoIno] /\ loc' = loc
  BY <1>2 DEF Unlink, Goto
<1>4. QED
  BY <1>1, <1>2, <1>3 DEF Private, FileNames

LEMMA RenamePrivate ==
    ASSUME TypeInv, OneWriter, Private, NEW p \in Procs, Rename(p)
    PROVE  Private'
<1>1. pc[p] = "rename" /\ Arch(p) \in Archives /\ Arch(p) # Temp /\ p \in Writers
  BY PublishFacts, ArchiverAssumption DEF Rename
<1>2. dir \in [FileNames -> Inodes \cup {NoIno}] /\ loc \in [Procs -> Local]
  BY DEF TypeInv, TypeOK, FileNames
<1>3. loc'[p] = Idle /\ \A q \in Procs : q # p => loc'[q] = loc[q] /\ loc[q].tfd.ino = NoIno
  BY <1>1, <1>2, OnlyWriter DEF Rename, Exit, Goto
<1>4. CASE dir' = dir
  BY <1>3, <1>4, IdleFacts DEF Private
<1>5. CASE dir' = [dir EXCEPT ![Arch(p)] = dir[Temp], ![Temp] = NoIno]
  BY <1>1, <1>2, <1>3, <1>5, IdleFacts DEF Private, FileNames
<1>6. QED
  BY <1>4, <1>5 DEF Rename

LEMMA NextPrivate ==
    ASSUME TypeInv, OneWriter, Private, [Running]_vars
    PROVE  Private'
<1>1. ASSUME NEW p \in Procs, Step(p) PROVE Private'
  <2>1. CASE OpenWork(p) \/ OpenArchive(p) \/ Unlink(p) \/ Rename(p) \/ Refuse(p)
    BY <2>1, OpenWorkPrivate, OpenArchivePrivate, UnlinkPrivate, RenamePrivate, RefusePrivate
  <2>2. CASE ~(OpenWork(p) \/ OpenArchive(p) \/ Unlink(p) \/ Rename(p) \/ Refuse(p))
    BY <1>1, <2>2, QuietPrivate, StepQuiet
  <2>3. QED
    BY <2>1, <2>2
<1>2. QED
  BY <1>1, EnvironmentQuiet, QuietPrivate DEF Running, Finished

\* Whom a step can write to: the work file of the process that takes it, or
\* an inode it just created.
LEMMA StepWrites ==
    ASSUME TypeInv, NEW p \in Procs, Step(p)
    PROVE  \/ ino' = ino
           \/ \E b : WriteWork(p, b)
           \/ \E i \in Inodes : i \notin OpenInodes /\ ino' = [ino EXCEPT ![i] = <<>>]
<1> DEFINE Written == \/ ino' = ino
                      \/ \E b : WriteWork(p, b)
                      \/ \E i \in Inodes : i \notin OpenInodes /\ ino' = [ino EXCEPT ![i] = <<>>]
<1>1. CASE OpenWork(p) \/ OpenArchive(p) \/ Refuse(p)
  <2>1. dir \in [FileNames -> Inodes \cup {NoIno}] /\ Temp \in FileNames
    BY DEF TypeInv, TypeOK, FileNames
  <2>2. OpenArchive(p) \/ Refuse(p) => Arch(p) \in FileNames
    BY LocalFacts, RefuseFacts DEF OpenArchive, FileNames
  <2>3. CASE \E i \in Inodes : OpenCreate(Temp, i)
    BY <2>1, <2>3, OpenCreateFacts
  <2>4. CASE (OpenArchive(p) \/ Refuse(p)) /\ \E i \in Inodes : OpenCreate(Arch(p), i)
    BY <2>1, <2>2, <2>4, OpenCreateFacts
  <2>5. QED
    BY <1>1, <2>3, <2>4, RefuseFacts DEF OpenWork, OpenArchive, WorkName, fsVars
<1>2. CASE WriteHeader(p) \/ CopyOld(p) \/ CopySource(p) \/ CopyMember(p)
  BY <1>2, Zenon DEF WriteHeader, CopyOld, CopySource, CopyMember, fsVars
<1>3. CASE \/ ReadHeader(p) \/ StatFile(p) \/ MeasureFile(p) \/ FilterHeader(p) \/ LocateData(p)
           \/ OpenSource(p) \/ NextMember(p) \/ Unlink(p) \/ Rename(p)
  BY <1>3 DEF ReadHeader, StatFile, MeasureFile, FilterHeader, LocateData, OpenSource,
     NextMember, Unlink, Rename, fsVars
<1>4. QED
  BY <1>1, <1>2, <1>3 DEF Step

LEMMA WhatIsWritten ==
    ASSUME TypeInv, [Running]_vars
    PROVE  \/ ino' = ino
           \/ \E p \in Procs : \E b : WriteWork(p, b)
           \/ \E i \in Inodes : i \notin OpenInodes /\ ino' = [ino EXCEPT ![i] = <<>>]
  BY StepWrites DEF Running, Start, Crash, Edit, Finished, vars

LEMMA StepImmutable ==
    ASSUME TypeInv, Private, [Running]_vars, NEW i \in Inodes, Visible(i)
    PROVE  ino'[i] = ino[i]
<1>1. ino \in [Inodes -> Seq(Cell)] /\ NoIno \notin Inodes /\ Temp \notin Archives
  BY ArchiverAssumption DEF TypeInv, TypeOK
<1>2. i \in OpenInodes /\ i # dir[Temp]
  <2>1. CASE \E a \in Archives : dir[a] = i
    BY <1>1, <2>1, OpenInodesFacts DEF Private, FileNames
  <2>2. CASE \E p \in Procs : loc[p].afd.ino = i
    BY <1>1, <2>2, OpenInodesFacts DEF Private
  <2>3. QED
    BY <2>1, <2>2 DEF Visible
<1>3. ASSUME NEW p \in Procs, NEW b, WriteWork(p, b) PROVE ino'[i] = ino[i]
  <2>1. loc[p].tfd.ino # i
    BY <1>1, <1>2 DEF Private
  <2>2. QED
    BY <1>1, <1>3, <2>1 DEF WriteWork
<1>4. ASSUME NEW j \in Inodes, j \notin OpenInodes, ino' = [ino EXCEPT ![j] = <<>>]
      PROVE  ino'[i] = ino[i]
  BY <1>1, <1>2, <1>4
<1>5. QED
  BY <1>3, <1>4, WhatIsWritten

LEMMA InitPrivate == Init => Private
  BY IdleFacts DEF Init, Private, FileNames

\* With at most one process that may run -i or -r, and any number that read,
\* whatever is killed, edited or fails to open: a file that is an archive, or that somebody
\* opened as one, is never written to again.
THEOREM Immutable == OneWriter => (Spec => PublishedImmutable)
<1> SUFFICES ASSUME OneWriter PROVE Spec => PublishedImmutable
  OBVIOUS
<1>1. TypeInv /\ Private /\ [Next]_vars => Private'
  BY NextPrivate, BlindFacts, QuietPrivate DEF Next
<1>2. TypeInv /\ Private /\ [Next]_vars
        => [\A i \in Inodes : Visible(i) => ino'[i] = ino[i]]_vars
  BY StepImmutable, BlindFacts DEF Next
<1>3. QED
  BY InitPrivate, TypeInvariance, <1>1, <1>2, PTL DEF Spec, PublishedImmutable

-----------------------------------------------------------------------------
(* The work file's header.                                                 *)

\* The labels at which a process has a work file, those before it writes to
\* it, and those after it wrote the whole header.
HasWork(l, m) ==
    \/ l \in {"stat", "measure", "writeHeader", "locate", "copyOld", "openSource",
              "copySource", "unlink", "rename"}
    \/ m.cmd.op = "input" /\ l \in {"openArchive", "readHeader"}
    \/ m.cmd.op = "remove" /\ l \in {"readHeader", "filter", "member", "copyMember"}

EarlyLabels == {"openWork", "openArchive", "readHeader", "stat", "measure", "filter"}

LateLabels == {"locate", "copyOld", "openSource", "copySource", "member", "copyMember",
               "unlink", "rename"}

InputLabels == {"stat", "measure", "locate", "copyOld", "openSource", "copySource"}

\* A written header lists the members of h.
Lists(w, h) ==
    /\ Len(Header(w)) = Len(h)
    /\ \A i \in 1 .. Len(h) : SameMember(Header(w)[i], h[i])

\* What holds of the work file of a process at label l with locals m, when
\* the inodes hold files.
Draft(l, m, files) ==
    LET w == files[m.tfd.ino]
    IN  /\ l \in InputLabels => m.cmd.op = "input"
        /\ l \in {"writeHeader", "unlink", "rename"} => m.cmd.op \in {"input", "remove"}
        /\ l \in EarlyLabels => m.tfd.pos = 0 /\ m.raw = 0
        /\ HasWork(l, m) => m.tfd.ino \in Inodes
        /\ l = "writeHeader" =>
              /\ m.k <= Len(m.hdr) + 1 /\ m.tfd.pos = m.k - 1
              /\ HeaderSoFar(w, Len(m.hdr), m.k, m.raw)
              /\ \A i \in 1 .. m.k - 1 : SameMember(w[i], m.hdr[i])
        /\ HasWork(l, m) /\ l \in LateLabels => HeaderDone(w, m.tfd.pos) /\ Lists(w, m.hdr)
        /\ l = "locate" => m.tfd.pos = Len(m.hdr) + 1

DraftOf(p) == Draft(pc[p], loc[p], ino)

LEMMA DraftIdle == \A files : Draft("idle", Idle, files)
  BY CommandFacts, IdleFacts DEF Draft, HasWork, EarlyLabels, LateLabels, InputLabels

LEMMA GotoDraft ==
    ASSUME TypeInv, NEW p \in Procs, NEW l, NEW m, Goto(p, l, m), Draft(l, m, ino')
    PROVE  DraftOf(p)'
<1>1. pc'[p] = l /\ loc'[p] = m
  BY DEF TypeInv, TypeOK, Goto
<1>2. QED
  BY <1>1 DEF DraftOf

LEMMA ExitDraft == ASSUME TypeInv, NEW p \in Procs, Exit(p) PROVE DraftOf(p)'
  BY GotoDraft, DraftIdle DEF Exit

\* Locals with the same work file descriptor and raw_off, at labels where
\* nothing more is known of the work file.
LEMMA EarlyDraft ==
    ASSUME NEW l \in EarlyLabels, NEW m, NEW files,
           m.tfd.pos = 0, m.raw = 0, HasWork(l, m) => m.tfd.ino \in Inodes,
           l \in {"stat", "measure"} => m.cmd.op = "input"
    PROVE  Draft(l, m, files)
  BY DEF Draft, EarlyLabels, LateLabels, InputLabels

LEMMA StartDraft == ASSUME TypeInv, NEW p \in Procs, Start(p) PROVE DraftOf(p)'
<1>1. PICK c \in Commands :
        /\ pc' = [pc EXCEPT ![p] = IF c.op = "input" THEN "openWork" ELSE "openArchive"]
        /\ loc' = [loc EXCEPT ![p] = [Idle EXCEPT !.cmd = c]]
  BY DEF Start
<1>2. /\ pc'[p] = IF c.op = "input" THEN "openWork" ELSE "openArchive"
      /\ loc'[p] = [Idle EXCEPT !.cmd = c]
  BY <1>1 DEF TypeInv, TypeOK
<1>3. loc'[p].cmd = c /\ loc'[p].tfd.pos = 0 /\ loc'[p].raw = 0
  BY <1>2 DEF Idle, NoFd
<1>4. QED
  BY <1>2, <1>3 DEF DraftOf, Draft, HasWork, EarlyLabels, LateLabels, InputLabels

LEMMA OpenWorkDraft == ASSUME TypeInv, NEW p \in Procs, DraftOf(p), OpenWork(p) PROVE DraftOf(p)'
<1>1. PICK i \in Inodes :
        Goto(p, IF Op(p) = "input" THEN "openArchive" ELSE "readHeader",
             [loc[p] EXCEPT !.tfd = [ino |-> i, pos |-> 0]])
  BY DEF OpenWork
<1> DEFINE m == [loc[p] EXCEPT !.tfd = [ino |-> i, pos |-> 0]]
           l == IF Op(p) = "input" THEN "openArchive" ELSE "readHeader"
<1>2. m.tfd.ino = i /\ m.tfd.pos = 0 /\ m.raw = loc[p].raw
  BY LocalFacts DEF Local
<1>3. loc[p].raw = 0 /\ l \in EarlyLabels /\ l \notin {"stat", "measure"}
  BY DEF OpenWork, DraftOf, Draft, EarlyLabels
<1> HIDE DEF m, l
<1>4. Draft(l, m, ino')
  BY <1>2, <1>3, EarlyDraft
<1>5. QED
  BY <1>1, <1>4, GotoDraft DEF m, l

LEMMA OpenArchiveDraft ==
    ASSUME TypeInv, NEW p \in Procs, DraftOf(p), OpenArchive(p)
    PROVE  DraftOf(p)'
<1>1. CASE Exit(p)
  BY <1>1, ExitDraft
<1>2. ASSUME NEW i \in Inodes,
             Goto(p, IF Op(p) = "remove" THEN "openWork" ELSE "readHeader",
                  [loc[p] EXCEPT !.afd = [ino |-> i, pos |-> 0]])
      PROVE  DraftOf(p)'
  <2> DEFINE m == [loc[p] EXCEPT !.afd = [ino |-> i, pos |-> 0]]
             l == IF Op(p) = "remove" THEN "openWork" ELSE "readHeader"
  <2>1. m.tfd = loc[p].tfd /\ m.raw = loc[p].raw /\ m.cmd = loc[p].cmd
    BY LocalFacts DEF Local
  <2>2. /\ loc[p].raw = 0 /\ loc[p].tfd.pos = 0 /\ l \in EarlyLabels /\ l \notin {"stat", "measure"}
        /\ Op(p) = "input" => loc[p].tfd.ino \in Inodes
    BY DEF OpenArchive, DraftOf, Draft, EarlyLabels, InputLabels, HasWork, Op
  <2>3. HasWork(l, m) => Op(p) = "input"
    BY <2>1 DEF HasWork, Op
  <2> HIDE DEF m, l
  <2>4. Draft(l, m, ino')
    BY <2>1, <2>2, <2>3, EarlyDraft
  <2>5. QED
    BY <1>2, <2>4, GotoDraft DEF m, l
<1>3. QED
  BY <1>1, <1>2 DEF OpenArchive

LEMMA ReadHeaderDraft ==
    ASSUME TypeInv, NEW p \in Procs, DraftOf(p), ReadHeader(p)
    PROVE  DraftOf(p)'
<1> DEFINE me == loc[p]
<1>1. /\ pc[p] = "readHeader" /\ me \in Local /\ me.raw = 0 /\ me.tfd.pos = 0
      /\ Op(p) \in {"input", "remove"} => me.tfd.ino \in Inodes
      /\ Op(p) \in {"input", "remove", "extract", "stat"}
  BY LocalFacts DEF ReadHeader, DraftOf, Draft, EarlyLabels, InputLabels, HasWork, Op
<1>2. ASSUME NEW h, Goto(p, "readHeader", [me EXCEPT !.hdr = h, !.afd.pos = @ + 1])
      PROVE  DraftOf(p)'
  <2> DEFINE m == [me EXCEPT !.hdr = h, !.afd.pos = @ + 1]
  <2>1. m.tfd = me.tfd /\ m.raw = me.raw /\ m.cmd = me.cmd
    BY <1>1 DEF Local
  <2> HIDE DEF m
  <2>2. Draft("readHeader", m, ino')
    BY <1>1, <2>1, EarlyDraft DEF EarlyLabels, HasWork, Op
  <2>3. QED
    BY <1>2, <2>2, GotoDraft DEF m
<1>3. CASE Goto(p, "garbled", me)
  <2>1. Draft("garbled", me, ino')
    BY DEF Draft, HasWork, EarlyLabels, LateLabels, InputLabels
  <2>2. QED
    BY <1>3, <2>1, GotoDraft
<1>4. CASE AfterHeader(p, [me EXCEPT !.afd.pos = 0, !.k = 1])
  <2> DEFINE m == [me EXCEPT !.afd.pos = 0, !.k = 1]
  <2>1. m.tfd = me.tfd /\ m.raw = me.raw /\ m.cmd = me.cmd
    BY <1>1 DEF Local
  <2>2. AfterHeader(p, m)
    BY <1>4
  <2> HIDE DEF m
  <2>3. \/ Exit(p)
        \/ Op(p) = "input" /\ Goto(p, "stat", m)
        \/ Goto(p, "filter", m)
        \/ Op(p) = "extract" /\ Goto(p, "member", m)
    BY <1>1, <2>2 DEF AfterHeader
  <2>4. Op(p) = "input" => Draft("stat", m, ino')
    BY <1>1, <2>1, EarlyDraft DEF EarlyLabels, HasWork, Op
  <2>5. Draft("filter", m, ino')
    BY <1>1, <2>1, EarlyDraft DEF EarlyLabels, HasWork, Op
  <2>6. Op(p) = "extract" => Draft("member", m, ino')
    BY <1>1, <2>1 DEF Draft, EarlyLabels, LateLabels, InputLabels, HasWork, Op
  <2>7. QED
    BY <2>3, <2>4, <2>5, <2>6, ExitDraft, GotoDraft
<1>5. QED
  BY <1>2, <1>3, <1>4, Zenon DEF ReadHeader

LEMMA StatFileDraft == ASSUME TypeInv, NEW p \in Procs, DraftOf(p), StatFile(p) PROVE DraftOf(p)'
<1> DEFINE me == loc[p]
<1>1. /\ pc[p] = "stat" /\ me \in Local /\ me.raw = 0 /\ me.tfd.pos = 0
      /\ me.tfd.ino \in Inodes /\ me.cmd.op = "input"
  BY LocalFacts DEF StatFile, DraftOf, Draft, EarlyLabels, InputLabels, HasWork
<1>2. CASE Exit(p)
  BY <1>2, ExitDraft
<1>3. CASE Goto(p, "writeHeader", [me EXCEPT !.k = 1]) /\ ino' = ino
  <2> DEFINE m == [me EXCEPT !.k = 1]
  <2>1. m.tfd = me.tfd /\ m.raw = 0 /\ m.k = 1 /\ m.hdr \in Seq(Entry) /\ m.cmd = me.cmd
    BY <1>1 DEF Local
  <2> HIDE DEF m
  <2>2. ino[m.tfd.ino] \in Seq(Cell)
    BY <1>1, <2>1, LocalFacts DEF FilesOK
  <2>3. Len(m.hdr) \in Nat
    BY <2>1, LenProperties
  <2>4. HeaderSoFar(ino[m.tfd.ino], Len(m.hdr), 1, 0)
    BY <2>2, <2>3, HeaderStarts
  <2>5. Draft("writeHeader", m, ino)
    BY <1>1, <2>1, <2>3, <2>4 DEF Draft, EarlyLabels, LateLabels, InputLabels
  <2>6. QED
    BY <1>3, <2>5, GotoDraft DEF m
<1>4. CASE Goto(p, "measure", me)
  BY <1>1, <1>4, EarlyDraft, GotoDraft DEF EarlyLabels
<1>5. ASSUME NEW e, Goto(p, "stat", [me EXCEPT !.k = @ + 1, !.err = e])
      PROVE  DraftOf(p)'
  <2> DEFINE m == [me EXCEPT !.k = @ + 1, !.err = e]
  <2>1. m.tfd = me.tfd /\ m.raw = me.raw /\ m.cmd = me.cmd
    BY <1>1 DEF Local
  <2> HIDE DEF m
  <2>2. Draft("stat", m, ino')
    BY <1>1, <2>1, EarlyDraft DEF EarlyLabels
  <2>3. QED
    BY <1>5, <2>2, GotoDraft DEF m
<1>6. QED
  BY <1>2, <1>3, <1>4, <1>5, Zenon DEF StatFile

LEMMA MeasureFileDraft ==
    ASSUME TypeInv, NEW p \in Procs, DraftOf(p), MeasureFile(p)
    PROVE  DraftOf(p)'
<1> DEFINE me == loc[p]
<1>1. /\ pc[p] = "measure" /\ me \in Local /\ me.raw = 0 /\ me.tfd.pos = 0
      /\ me.tfd.ino \in Inodes /\ me.cmd.op = "input"
  BY LocalFacts DEF MeasureFile, DraftOf, Draft, EarlyLabels, InputLabels, HasWork
<1>2. PICK h, e : Goto(p, "stat", [me EXCEPT !.hdr = h, !.k = @ + 1, !.added = @ + 1, !.err = e])
  BY Zenon DEF MeasureFile
<1> DEFINE m == [me EXCEPT !.hdr = h, !.k = @ + 1, !.added = @ + 1, !.err = e]
<1>3. m.tfd = me.tfd /\ m.raw = me.raw /\ m.cmd = me.cmd
  BY <1>1 DEF Local
<1> HIDE DEF m
<1>4. Draft("stat", m, ino')
  BY <1>1, <1>3, EarlyDraft DEF EarlyLabels
<1>5. QED
  BY <1>2, <1>4, GotoDraft DEF m

LEMMA FilterHeaderDraft ==
    ASSUME TypeInv, NEW p \in Procs, DraftOf(p), FilterHeader(p)
    PROVE  DraftOf(p)'
<1> DEFINE me == loc[p]
<1>1. /\ pc[p] = "filter" /\ me \in Local /\ me.raw = 0 /\ me.tfd.pos = 0
      /\ Op(p) = "remove" => me.tfd.ino \in Inodes
  BY LocalFacts DEF FilterHeader, DraftOf, Draft, EarlyLabels, InputLabels, HasWork, Op
<1>2. CASE Op(p) = "remove" /\ Goto(p, "writeHeader", [me EXCEPT !.k = 1]) /\ ino' = ino
  <2> DEFINE m == [me EXCEPT !.k = 1]
  <2>1. m.tfd = me.tfd /\ m.raw = 0 /\ m.k = 1 /\ m.hdr \in Seq(Entry) /\ m.cmd.op = "remove"
    BY <1>1, <1>2 DEF Local, Op
  <2> HIDE DEF m
  <2>2. ino[m.tfd.ino] \in Seq(Cell) /\ m.tfd.ino \in Inodes
    BY <1>1, <1>2, <2>1, LocalFacts DEF FilesOK
  <2>3. Len(m.hdr) \in Nat
    BY <2>1, LenProperties
  <2>4. HeaderSoFar(ino[m.tfd.ino], Len(m.hdr), 1, 0)
    BY <2>2, <2>3, HeaderStarts
  <2>5. Draft("writeHeader", m, ino)
    BY <1>1, <2>1, <2>2, <2>3, <2>4 DEF Draft, EarlyLabels, LateLabels, InputLabels
  <2>6. QED
    BY <1>2, <2>5, GotoDraft DEF m
<1>3. CASE Op(p) # "remove" /\ Goto(p, "member", [me EXCEPT !.k = 1])
  <2> DEFINE m == [me EXCEPT !.k = 1]
  <2>1. m.cmd = me.cmd
    BY <1>1 DEF Local
  <2> HIDE DEF m
  <2>2. Draft("member", m, ino')
    BY <1>3, <2>1 DEF Draft, EarlyLabels, LateLabels, InputLabels, HasWork, Op
  <2>3. QED
    BY <1>3, <2>2, GotoDraft DEF m
<1>4. ASSUME NEW m \in {[me EXCEPT !.hdr = DropNode(@, me.k)], [me EXCEPT !.k = @ + 1]},
             Goto(p, "filter", m)
      PROVE  DraftOf(p)'
  <2>1. m.tfd = me.tfd /\ m.raw = me.raw /\ m.cmd = me.cmd
    BY <1>1 DEF Local
  <2>2. Draft("filter", m, ino')
    BY <1>1, <2>1, EarlyDraft DEF EarlyLabels, HasWork, Op
  <2>3. QED
    BY <1>4, <2>2, GotoDraft
<1>5. QED
  BY <1>2, <1>3, <1>4 DEF FilterHeader

LEMMA WriteHeaderDraft ==
    ASSUME TypeInv, NEW p \in Procs, DraftOf(p), WriteHeader(p)
    PROVE  DraftOf(p)'
<1> DEFINE me == loc[p]
           n == Len(me.hdr)
           e == me.hdr[me.k]
           w == WorkFile(p)
<1>1. /\ pc[p] = "writeHeader" /\ me \in Local /\ me.tfd \in Fd /\ me.hdr \in Seq(Entry)
      /\ n \in Nat /\ me.k \in Nat \ {0} /\ me.raw \in UInt
  BY LocalFacts, LenProperties DEF WriteHeader, Reached, InRange, LoopLabels, Local
<1>2. /\ me.tfd.ino \in Inodes /\ w \in Seq(Cell) /\ me.cmd.op \in {"input", "remove"}
      /\ me.k <= n + 1 /\ me.tfd.pos = me.k - 1 /\ HeaderSoFar(w, n, me.k, me.raw)
      /\ \A i \in 1 .. me.k - 1 : SameMember(w[i], me.hdr[i])
  BY <1>1, LocalFacts DEF DraftOf, Draft, HasWork, FilesOK, WorkFile
<1>3. \A b : WriteWork(p, b) => ino'[me.tfd.ino] = WriteAt(w, me.k - 1, b)
  BY <1>2, LocalFacts DEF WriteWork, WorkFile, FilesOK
<1>4. CASE me.k <= n
  <2> DEFINE c == [e EXCEPT !.off = EntryOffset(n, me.raw)]
             k == me.k + 1
             raw == NextRaw(me.raw, e.size)
             m == [me EXCEPT !.k = @ + 1, !.tfd.pos = @ + 1, !.raw = NextRaw(@, e.size)]
             v == WriteAt(w, me.k - 1, <<c>>)
  <2>1. e \in Entry /\ me.k \in 1 .. n
    BY <1>1, <1>4, ElementOfSeq
  <2>2. WriteWork(p, <<c>>) /\ Goto(p, "writeHeader", m)
    BY <1>4 DEF WriteHeader
  <2>3. /\ m.k = k /\ m.hdr = me.hdr /\ m.raw = raw /\ m.tfd.ino = me.tfd.ino
        /\ m.tfd.pos = me.tfd.pos + 1 /\ m.cmd = me.cmd
    BY <1>1 DEF Local, Fd
  <2> HIDE DEF m
  <2>4. /\ HeaderSoFar(v, n, k, raw)
        /\ \A i \in 1 .. me.k - 1 : v[i] = w[i]
        /\ SameMember(v[me.k], e)
    BY <1>1, <1>2, <2>1, HeaderGrows
  <2>5. ino'[me.tfd.ino] = v
    BY <1>3, <2>2
  <2> HIDE DEF v
  <2>6. \A i \in 1 .. k - 1 : SameMember(v[i], me.hdr[i])
    BY <1>1, <1>2, <2>4, SMTT(30)
  <2>7. k <= n + 1 /\ m.tfd.pos = k - 1
    BY <1>1, <1>2, <1>4, <2>3
  <2> HIDE DEF k, raw
  <2>8. Draft("writeHeader", m, ino')
    BY <1>2, <2>3, <2>4, <2>5, <2>6, <2>7 DEF Draft, EarlyLabels, LateLabels, InputLabels
  <2>9. QED
    BY <2>2, <2>8, GotoDraft
<1>5. CASE ~(me.k <= n)
  <2> DEFINE m == [me EXCEPT !.k = 1, !.raw = 0, !.tfd.pos = @ + 1]
             l == IF Op(p) = "input" THEN "locate" ELSE "member"
             v == WriteAt(w, n, <<End>>)
  <2>1. WriteWork(p, <<End>>) /\ Goto(p, l, m)
    BY <1>5, Zenon DEF WriteHeader
  <2>2. /\ m.tfd.ino = me.tfd.ino /\ m.tfd.pos = me.tfd.pos + 1 /\ m.hdr = me.hdr
        /\ m.cmd = me.cmd
    BY <1>1 DEF Local, Fd
  <2> HIDE DEF m
  <2>3. me.k = n + 1 /\ me.k - 1 = n
    <3>1. n \in Nat /\ me.k \in Nat /\ me.k <= n + 1 /\ ~(me.k <= n)
      BY <1>1, <1>2, <1>5
    <3> HIDE DEF n, me
    <3>2. QED
      BY <3>1
  <2>4. /\ HeaderDone(v, n + 1) /\ Len(Header(v)) = n
        /\ \A i \in 1 .. n : Header(v)[i] = w[i]
    BY <1>1, <1>2, <2>3, HeaderEnds
  <2>5. ino'[me.tfd.ino] = v
    BY <1>3, <2>1, <2>3
  <2> HIDE DEF v
  <2>6. Lists(v, me.hdr)
    BY <1>2, <2>3, <2>4 DEF Lists
  <2>7. m.tfd.pos = n + 1
    BY <1>2, <2>2, <2>3
  <2>8. Draft(l, m, ino')
    BY <1>2, <2>2, <2>4, <2>5, <2>6, <2>7 DEF Draft, EarlyLabels, LateLabels, InputLabels, Op
  <2>9. QED
    BY <2>1, <2>8, GotoDraft
<1>6. QED
  BY <1>4, <1>5

\* Behind the header nothing a process does to its work file hurts.
LEMMA LateStayDraft ==
    ASSUME TypeInv, NEW p \in Procs, DraftOf(p), HasWork(pc[p], loc[p]), pc[p] \in LateLabels,
           NEW l \in LateLabels \ {"locate"}, NEW m, Goto(p, l, m),
           l \in InputLabels => Op(p) = "input", l = "unlink" => Op(p) \in {"input", "remove"},
           l = "rename" => pc[p] = "unlink",
           m.tfd = loc[p].tfd, m.hdr = loc[p].hdr, m.cmd = loc[p].cmd, ino' = ino
    PROVE  DraftOf(p)'
<1>1. Draft(l, m, ino)
  BY DEF DraftOf, Draft, EarlyLabels, LateLabels, InputLabels, Op
<1>2. QED
  BY <1>1, GotoDraft

LEMMA LateWriteDraft ==
    ASSUME TypeInv, NEW p \in Procs, DraftOf(p), HasWork(pc[p], loc[p]),
           NEW b \in Seq(Cell), WriteWork(p, b),
           NEW l \in {"copyOld", "copySource", "copyMember"}, pc[p] = l,
           NEW m, Goto(p, l, m), m.hdr = loc[p].hdr, m.cmd = loc[p].cmd,
           m.tfd.ino = loc[p].tfd.ino, m.tfd.pos = loc[p].tfd.pos + Len(b)
    PROVE  DraftOf(p)'
<1> DEFINE me == loc[p]
           w == WorkFile(p)
           v == WriteAt(w, me.tfd.pos, b)
<1>1. /\ me.tfd.ino \in Inodes /\ w \in Seq(Cell) /\ me.tfd.pos \in Nat
      /\ HeaderDone(w, me.tfd.pos) /\ Lists(w, me.hdr)
      /\ l \in InputLabels => me.cmd.op = "input"
  BY LocalFacts DEF DraftOf, Draft, FilesOK, WorkFile, Local, Fd, LateLabels
<1>2. ino'[me.tfd.ino] = v
  BY <1>1, LocalFacts DEF WriteWork, WorkFile, FilesOK
<1>3. HeaderDone(v, me.tfd.pos + Len(b)) /\ Header(v) = Header(w)
  BY <1>1, HeaderStays
<1> HIDE DEF v
<1>4. Lists(v, me.hdr)
  BY <1>1, <1>3 DEF Lists
<1>5. Draft(l, m, ino')
  BY <1>1, <1>2, <1>3, <1>4 DEF Draft, EarlyLabels, LateLabels, InputLabels
<1>6. QED
  BY <1>5, GotoDraft

LEMMA LocateDataDraft ==
    ASSUME TypeInv, NEW p \in Procs, DraftOf(p), LocateData(p)
    PROVE  DraftOf(p)'
<1> DEFINE me == loc[p]
<1>1. pc[p] = "locate" /\ me \in Local /\ ino' = ino /\ HasWork(pc[p], me) /\ Op(p) = "input"
  BY LocalFacts DEF LocateData, HasWork, DraftOf, Draft, InputLabels, Op
<1>2. CASE Exit(p)
  BY <1>2, ExitDraft
<1>3. CASE Goto(p, "copyOld", me)
  BY <1>1, <1>3, LateStayDraft DEF LateLabels, InputLabels
<1>4. ASSUME NEW pos, Goto(p, "copyOld", [me EXCEPT !.afd.pos = pos]) PROVE DraftOf(p)'
  <2>1. \A m : m = [me EXCEPT !.afd.pos = pos]
           => m.tfd = me.tfd /\ m.hdr = me.hdr /\ m.cmd = me.cmd
    BY <1>1 DEF Local
  <2>2. QED
    BY <1>1, <1>4, <2>1, LateStayDraft DEF LateLabels, InputLabels
<1>5. QED
  BY <1>2, <1>3, <1>4 DEF LocateData

LEMMA CopyOldDraft == ASSUME TypeInv, NEW p \in Procs, DraftOf(p), CopyOld(p) PROVE DraftOf(p)'
<1> DEFINE me == loc[p]
           n == ReadCount(ArchFile(p), me.afd.pos, Buffer)
           b == ReadInto(ArchFile(p), me.afd.pos, n)
<1>1. pc[p] = "copyOld" /\ me \in Local /\ HasWork(pc[p], me) /\ Op(p) = "input"
  BY LocalFacts DEF CopyOld, HasWork, DraftOf, Draft, InputLabels, Op
<1>2. n \in Nat
  BY <1>1, InsertFacts, ReadCountIsNat, FormatAssumption
<1>3. b \in Seq(Cell) /\ Len(b) = n
  BY <1>1, <1>2, InsertFacts, ReadIntoFacts
<1>4. CASE n = 0
  <2>1. Goto(p, "openSource", me) /\ ino' = ino
    BY <1>4 DEF CopyOld, fsVars
  <2>2. QED
    BY <1>1, <2>1, LateStayDraft DEF LateLabels, InputLabels
<1>5. CASE n # 0
  <2> DEFINE m == [me EXCEPT !.afd.pos = @ + n, !.tfd.pos = @ + n]
  <2>1. WriteWork(p, b) /\ Goto(p, "copyOld", m)
    BY <1>5 DEF CopyOld
  <2> HIDE DEF n, b
  <2>2. /\ m.tfd.ino = me.tfd.ino /\ m.tfd.pos = me.tfd.pos + n
        /\ m.hdr = me.hdr /\ m.cmd = me.cmd
    BY <1>1 DEF Local, Fd
  <2> HIDE DEF m
  <2>3. QED
    BY <1>1, <1>3, <2>1, <2>2, LateWriteDraft
<1>6. QED
  BY <1>4, <1>5

LEMMA OpenSourceDraft ==
    ASSUME TypeInv, NEW p \in Procs, DraftOf(p), OpenSource(p)
    PROVE  DraftOf(p)'
<1> DEFINE me == loc[p]
<1>1. pc[p] = "openSource" /\ me \in Local /\ ino' = ino /\ HasWork(pc[p], me) /\ Op(p) = "input"
  BY LocalFacts DEF OpenSource, HasWork, DraftOf, Draft, InputLabels, Op
<1>2. CASE Goto(p, "unlink", me)
  BY <1>1, <1>2, LateStayDraft DEF LateLabels, InputLabels
<1>3. ASSUME NEW m \in {[me EXCEPT !.pos = 0], [me EXCEPT !.k = @ + 1]},
             NEW l \in {"copySource", "openSource"}, Goto(p, l, m)
      PROVE  DraftOf(p)'
  <2>1. m.tfd = me.tfd /\ m.hdr = me.hdr /\ m.cmd = me.cmd
    BY <1>1 DEF Local
  <2>2. QED
    BY <1>1, <1>3, <2>1, LateStayDraft DEF LateLabels, InputLabels
<1>4. QED
  BY <1>2, <1>3, Zenon DEF OpenSource

LEMMA CopySourceDraft ==
    ASSUME TypeInv, NEW p \in Procs, DraftOf(p), CopySource(p)
    PROVE  DraftOf(p)'
<1> DEFINE me == loc[p]
           data == disk[Args(p)[me.k]].data
           n == ReadCount(data, me.pos, Buffer)
           b == ReadInto(data, me.pos, n)
<1>1. pc[p] = "copySource" /\ me \in Local /\ HasWork(pc[p], me) /\ Op(p) = "input"
  BY LocalFacts DEF CopySource, HasWork, DraftOf, Draft, InputLabels, Op
<1>2. b \in Seq(Cell) /\ Len(b) = n
  <2>1. me.k <= Len(Args(p)) /\ me.pos \in Nat /\ me.k \in Nat \ {0}
    BY <1>1, LocalFacts, InsertFacts DEF Reached, InRange, Args, Local
  <2>2. Args(p)[me.k] \in Paths
    BY <1>1, <2>1, InsertFacts, ElementOfSeq, LenProperties
  <2>3. data \in Seq(Cell)
    BY <2>2, LocalFacts DEF FilesOK, FileState
  <2> HIDE DEF data
  <2>4. n \in Nat
    BY <2>1, <2>3, ReadCountIsNat, FormatAssumption
  <2> HIDE DEF n
  <2>5. QED
    BY <2>1, <2>3, <2>4, ReadIntoFacts
<1>3. CASE n = 0
  <2> DEFINE m == [me EXCEPT !.k = @ + 1]
  <2>1. Goto(p, "openSource", m) /\ ino' = ino
    BY <1>3 DEF CopySource, fsVars
  <2>2. m.tfd = me.tfd /\ m.hdr = me.hdr /\ m.cmd = me.cmd
    BY <1>1 DEF Local
  <2> HIDE DEF m
  <2>3. QED
    BY <1>1, <2>1, <2>2, LateStayDraft DEF LateLabels, InputLabels
<1>4. CASE n # 0
  <2> DEFINE m == [me EXCEPT !.pos = @ + n, !.tfd.pos = @ + n]
  <2>1. WriteWork(p, b) /\ Goto(p, "copySource", m)
    BY <1>4 DEF CopySource
  <2> HIDE DEF n, b
  <2>2. /\ m.tfd.ino = me.tfd.ino /\ m.tfd.pos = me.tfd.pos + n
        /\ m.hdr = me.hdr /\ m.cmd = me.cmd
    BY <1>1 DEF Local, Fd
  <2> HIDE DEF m
  <2>3. QED
    BY <1>1, <1>2, <2>1, <2>2, LateWriteDraft
<1>5. QED
  BY <1>3, <1>4

\* -e has no work file.
LEMMA NoWorkDraft ==
    ASSUME TypeInv, NEW p \in Procs, NEW l \in {"member", "copyMember"}, NEW m,
           Goto(p, l, m), m.cmd = loc[p].cmd, Op(p) # "remove"
    PROVE  DraftOf(p)'
<1>1. Draft(l, m, ino')
  BY DEF Draft, EarlyLabels, LateLabels, InputLabels, HasWork, Op
<1>2. QED
  BY <1>1, GotoDraft

LEMMA NextMemberDraft ==
    ASSUME TypeInv, NEW p \in Procs, DraftOf(p), NextMember(p)
    PROVE  DraftOf(p)'
<1> DEFINE me == loc[p]
           e == me.hdr[me.k]
           ready == [me EXCEPT !.left = e.size, !.pos = 0, !.afd.pos = Seek(e.off, @)]
           skip == [me EXCEPT !.k = @ + 1]
<1>1. pc[p] = "member" /\ me \in Local /\ ino' = ino
  BY LocalFacts DEF NextMember, fsVars
<1>2. Op(p) = "remove" => HasWork(pc[p], me)
  BY <1>1 DEF HasWork, Op
<1>3. /\ ready.tfd = me.tfd /\ ready.cmd = me.cmd /\ skip.cmd = me.cmd
      /\ ready.hdr = me.hdr
  BY <1>1 DEF Local
<1>4. \/ Exit(p)
      \/ Op(p) = "remove" /\ (Goto(p, "unlink", me) \/ Goto(p, "copyMember", ready))
      \/ Op(p) # "remove" /\ (Goto(p, "copyMember", ready) \/ Goto(p, "member", skip))
  BY Zenon DEF NextMember
<1> HIDE DEF ready, skip
<1>5. QED
  BY <1>1, <1>2, <1>3, <1>4, ExitDraft, LateStayDraft, NoWorkDraft DEF LateLabels, InputLabels

LEMMA CopyMemberDraft ==
    ASSUME TypeInv, NEW p \in Procs, DraftOf(p), CopyMember(p)
    PROVE  DraftOf(p)'
<1> DEFINE me == loc[p]
           n == ChunkSize(me.left)
           chunk == ReadInto(ArchFile(p), me.afd.pos, n)
           read == ReadCount(ArchFile(p), me.afd.pos, n)
           rest == [me EXCEPT !.left = @ - n, !.afd.pos = @ + read]
<1>1. pc[p] = "copyMember" /\ me \in Local
  BY LocalFacts, Zenon DEF CopyMember
<1>2. Op(p) = "remove" => HasWork(pc[p], me)
  BY <1>1 DEF HasWork, Op
<1>3. chunk \in Seq(Cell) /\ Len(chunk) = n
  <2>1. n \in Nat
    BY <1>1, MemberFacts, ChunkIsNat
  <2> HIDE DEF n
  <2>2. QED
    BY <1>1, <2>1, MemberFacts, ReadIntoFacts
<1> HIDE DEF n, chunk, read
<1>4. rest.tfd = me.tfd /\ rest.cmd = me.cmd /\ rest.hdr = me.hdr
  BY <1>1 DEF Local
<1>5. CASE Goto(p, "member", [me EXCEPT !.k = @ + 1]) /\ ino' = ino
  <2> DEFINE m == [me EXCEPT !.k = @ + 1]
  <2>1. m.tfd = me.tfd /\ m.cmd = me.cmd /\ m.hdr = me.hdr
    BY <1>1 DEF Local
  <2>2. Goto(p, "member", m)
    BY <1>5
  <2> HIDE DEF m
  <2>3. QED
    BY <1>1, <1>2, <1>5, <2>1, <2>2, LateStayDraft, NoWorkDraft DEF LateLabels, InputLabels
<1>6. CASE /\ Op(p) = "remove" /\ WriteWork(p, chunk)
           /\ Goto(p, "copyMember", [rest EXCEPT !.tfd.pos = @ + n])
  <2> DEFINE m == [rest EXCEPT !.tfd.pos = @ + n]
  <2>1. /\ m.tfd.ino = me.tfd.ino /\ m.tfd.pos = me.tfd.pos + n
        /\ m.hdr = me.hdr /\ m.cmd = me.cmd
    BY <1>1 DEF Local, Fd
  <2> HIDE DEF m, rest
  <2>2. Goto(p, "copyMember", m) /\ WriteWork(p, chunk)
    BY <1>6 DEF m
  <2>3. QED
    BY <1>1, <1>2, <1>3, <1>6, <2>1, <2>2, LateWriteDraft
<1>7. CASE Op(p) # "remove" /\ Goto(p, "copyMember", [rest EXCEPT !.pos = @ + n])
  <2>1. [rest EXCEPT !.pos = @ + n].cmd = me.cmd
    BY <1>1 DEF Local
  <2>2. QED
    BY <1>7, <2>1, NoWorkDraft
<1>8. QED
  BY <1>5, <1>6, <1>7, Zenon DEF CopyMember, n, chunk, read

LEMMA UnlinkDraft == ASSUME TypeInv, NEW p \in Procs, DraftOf(p), Unlink(p) PROVE DraftOf(p)'
<1>1. pc[p] = "unlink" /\ HasWork(pc[p], loc[p]) /\ ino' = ino /\ Goto(p, "rename", loc[p])
  BY DEF Unlink, HasWork
<1>2. QED
  BY <1>1, LateStayDraft DEF LateLabels, InputLabels

LEMMA StepDraft == ASSUME TypeInv, NEW p \in Procs, DraftOf(p), Step(p) PROVE DraftOf(p)'
  BY OpenWorkDraft, OpenArchiveDraft, ReadHeaderDraft, StatFileDraft, MeasureFileDraft,
     FilterHeaderDraft, WriteHeaderDraft, LocateDataDraft, CopyOldDraft, OpenSourceDraft,
     CopySourceDraft, NextMemberDraft, CopyMemberDraft, UnlinkDraft, ExitDraft
  DEF Step, Rename, Refuse

\* What a step of p leaves alone: the other processes, and every inode but
\* p's work file and one that nobody uses.
OthersStay(p) == \A q \in Procs : q # p => pc'[q] = pc[q] /\ loc'[q] = loc[q]

LEMMA GotoOthers ==
    ASSUME TypeInv, NEW p \in Procs, NEW l, NEW m, Goto(p, l, m)
    PROVE  OthersStay(p) /\ UNCHANGED budget
  BY DEF TypeInv, TypeOK, Goto, OthersStay

LEMMA ExitOthers == ASSUME TypeInv, NEW p \in Procs, Exit(p) PROVE OthersStay(p) /\ UNCHANGED budget
  BY GotoOthers DEF Exit

LEMMA StepOthers == ASSUME TypeInv, NEW p \in Procs, Step(p) PROVE OthersStay(p) /\ UNCHANGED budget
<1>1. CASE OpenWork(p) \/ OpenArchive(p)
  BY <1>1, GotoOthers, ExitOthers DEF OpenWork, OpenArchive
<1>2. CASE ReadHeader(p)
  <2>1. Op(p) \in {"input", "remove", "extract", "stat"}
    BY <1>2, LocalFacts DEF ReadHeader
  <2>2. \A m : AfterHeader(p, m) => OthersStay(p) /\ UNCHANGED budget
    BY <2>1, GotoOthers, ExitOthers DEF AfterHeader
  <2>3. QED
    BY <1>2, <2>2, GotoOthers DEF ReadHeader
<1>3. CASE StatFile(p) \/ MeasureFile(p) \/ FilterHeader(p)
  BY <1>3, GotoOthers, ExitOthers DEF StatFile, MeasureFile, FilterHeader
<1>4. CASE WriteHeader(p) \/ LocateData(p) \/ CopyOld(p) \/ OpenSource(p) \/ CopySource(p)
  BY <1>4, GotoOthers, ExitOthers, Zenon
  DEF WriteHeader, LocateData, CopyOld, OpenSource, CopySource
<1>5. CASE NextMember(p) \/ CopyMember(p)
  BY <1>5, GotoOthers, ExitOthers, Zenon DEF NextMember, CopyMember
<1>6. CASE Unlink(p) \/ Rename(p) \/ Refuse(p)
  BY <1>6, GotoOthers, ExitOthers DEF Unlink, Rename, Refuse
<1>7. QED
  BY <1>1, <1>2, <1>3, <1>4, <1>5, <1>6 DEF Step

\* As long as no -r lost its work file, only the actions of Running occur.
LEMMA StillOpened ==
    ASSUME TypeInv, [Next]_vars, Opened'
    PROVE  Opened /\ [Running]_vars
<1>1. \A p \in Procs : ~Blindly(p)
  BY BlindFacts, ArchiverAssumption DEF Opened
<1>2. [Running]_vars
  BY <1>1 DEF Next
<1>3. budget'.fails = budget.fails
  BY <1>2, StepOthers DEF Running, Start, Crash, Edit, Finished, vars, TypeInv, TypeOK
<1>4. QED
  BY <1>2, <1>3 DEF Opened

\* With one writer, a step of another process leaves the work file alone.
LEMMA OthersKeepWork ==
    ASSUME TypeInv, OneWriter, NEW p \in Procs, Step(p), NEW q \in Procs, q # p,
           loc[q].tfd.ino \in Inodes
    PROVE  ino'[loc[q].tfd.ino] = ino[loc[q].tfd.ino]
<1>1. ino \in [Inodes -> Seq(Cell)] /\ NoIno \notin Inodes
  BY ArchiverAssumption DEF TypeInv, TypeOK
<1>2. q \in Writers
  BY <1>1 DEF TypeInv, Reached, WritersOnly
<1>3. loc[p].tfd.ino = NoIno
  BY <1>2, OnlyWriter
<1>4. ASSUME NEW b, WriteWork(p, b) PROVE ino'[loc[q].tfd.ino] = ino[loc[q].tfd.ino]
  BY <1>1, <1>3, <1>4 DEF WriteWork
<1>5. ASSUME NEW i \in Inodes, i \notin OpenInodes, ino' = [ino EXCEPT ![i] = <<>>]
      PROVE  ino'[loc[q].tfd.ino] = ino[loc[q].tfd.ino]
  BY <1>1, <1>5, OpenInodesFacts
<1>6. QED
  BY <1>4, <1>5, StepWrites

DraftInv == \A p \in Procs : DraftOf(p)

LEMMA StepDraftInv ==
    ASSUME TypeInv, OneWriter, DraftInv, NEW p \in Procs, Step(p)
    PROVE  DraftInv'
<1>1. DraftOf(p)'
  BY StepDraft DEF DraftInv
<1>2. ASSUME NEW q \in Procs, q # p PROVE DraftOf(q)'
  <2>1. pc'[q] = pc[q] /\ loc'[q] = loc[q] /\ DraftOf(q)
    BY <1>2, StepOthers DEF OthersStay, DraftInv
  <2>2. loc[q].tfd.ino \in Inodes => ino'[loc[q].tfd.ino] = ino[loc[q].tfd.ino]
    BY <1>2, OthersKeepWork
  <2>3. HasWork(pc[q], loc[q]) => loc[q].tfd.ino \in Inodes
    BY <2>1 DEF DraftOf, Draft
  <2>4. pc[q] = "writeHeader" => HasWork(pc[q], loc[q])
    BY DEF HasWork
  <2>5. Draft(pc[q], loc[q], ino')
    BY <2>1, <2>2, <2>3, <2>4, Zenon DEF DraftOf, Draft
  <2>6. QED
    BY <2>1, <2>5 DEF DraftOf
<1>3. QED
  BY <1>1, <1>2 DEF DraftInv

LEMMA NextDraftInv ==
    ASSUME TypeInv, OneWriter, DraftInv, [Running]_vars
    PROVE  DraftInv'
<1>1. ASSUME NEW p \in Procs, Start(p) \/ Crash(p) PROVE DraftInv'
  <2>1. DraftOf(p)'
    <3>1. CASE Start(p)
      BY <3>1, StartDraft
    <3>2. CASE Crash(p)
      BY <3>2, DraftIdle DEF Crash, DraftOf, TypeInv, TypeOK
    <3>3. QED
      BY <1>1, <3>1, <3>2
  <2>2. OthersStay(p) /\ ino' = ino
    <3>1. CASE Start(p)
      BY <3>1 DEF Start, OthersStay, TypeInv, TypeOK
    <3>2. CASE Crash(p)
      BY <3>2 DEF Crash, OthersStay, TypeInv, TypeOK
    <3>3. QED
      BY <1>1, <3>1, <3>2
  <2>3. QED
    BY <2>1, <2>2 DEF DraftInv, DraftOf, OthersStay
<1>2. CASE UNCHANGED <<ino, pc, loc>>
  BY <1>2 DEF DraftInv, DraftOf
<1>3. QED
  BY <1>1, <1>2, StepDraftInv DEF Running, Edit, Finished, vars

LEMMA InitDraftInv == Init => DraftInv
  BY DraftIdle DEF Init, DraftInv, DraftOf

\* i is the work file of a process about to rename it.
Replaces(i) == \E p \in Procs : pc[p] = "rename" /\ i \in Inodes /\ loc[p].tfd.ino = i

\* Names are bound to a new empty file, or, by rename(), to the work file.
LEMMA NewBindings ==
    ASSUME TypeInv, OneWriter, Private, DraftInv, [Running]_vars,
           NEW a \in Archives, dir'[a] # NoIno
    PROVE  \/ dir'[a] = dir[a]
           \/ dir'[a] \in Inodes /\ ino'[dir'[a]] = <<>>
           \/ ino' = ino /\ Replaces(dir'[a])
<1>0. /\ dir \in [FileNames -> Inodes \cup {NoIno}] /\ ino \in [Inodes -> Seq(Cell)]
      /\ a \in FileNames /\ Temp \in FileNames /\ a # Temp
  BY ArchiverAssumption DEF TypeInv, TypeOK, FileNames
<1>1. ASSUME NEW p \in Procs, Rename(p), dir'[a] # dir[a]
      PROVE  ino' = ino /\ Replaces(dir'[a])
  <2>1. /\ pc[p] = "rename" /\ ino' = ino
        /\ dir' = [dir EXCEPT ![Arch(p)] = dir[Temp], ![Temp] = NoIno]
    BY <1>1 DEF Rename
  <2>2. a = Arch(p) /\ dir'[a] = dir[Temp]
    BY <1>0, <1>1, <2>1
  <2>3. loc[p].tfd.ino \in Inodes
    BY <2>1 DEF DraftInv, DraftOf, Draft, HasWork
  <2>4. loc[p].tfd.ino = dir[Temp]
    BY <2>3, ArchiverAssumption DEF Private
  <2>5. QED
    BY <2>1, <2>2, <2>3, <2>4 DEF Replaces
<1>2. ASSUME NEW p \in Procs, Unlink(p) PROVE dir'[a] = dir[a]
  BY <1>0, <1>2 DEF Unlink
<1>3. ASSUME NEW name \in FileNames, NEW i \in Inodes, OpenCreate(name, i), dir'[a] # dir[a]
      PROVE  dir'[a] \in Inodes /\ ino'[dir'[a]] = <<>>
  <2>1. dir' = [dir EXCEPT ![name] = i] /\ ino' = [ino EXCEPT ![i] = <<>>]
    BY <1>0, <1>3, OpenCreateFacts
  <2>2. a = name
    BY <1>0, <1>3, <2>1
  <2>3. QED
    BY <1>0, <2>1, <2>2
<1>4. ASSUME NEW p \in Procs, OpenWork(p) \/ OpenArchive(p) \/ Refuse(p), dir'[a] # dir[a]
      PROVE  dir'[a] \in Inodes /\ ino'[dir'[a]] = <<>>
  <2>1. OpenArchive(p) \/ Refuse(p) => Arch(p) \in FileNames
    BY LocalFacts, RefuseFacts DEF OpenArchive, FileNames
  <2>2. CASE OpenWork(p)
    BY <1>0, <1>3, <1>4, <2>2 DEF OpenWork, WorkName
  <2>3. CASE OpenArchive(p) \/ Refuse(p)
    BY <1>3, <1>4, <2>1, <2>3, RefuseFacts DEF OpenArchive, fsVars
  <2>4. QED
    BY <1>4, <2>2, <2>3
<1>5. ASSUME NEW p \in Procs, Step(p), ~(OpenWork(p) \/ OpenArchive(p) \/ Refuse(p)),
             ~(Unlink(p) \/ Rename(p))
      PROVE  dir' = dir
  BY <1>5, StepQuiet DEF Quiet
<1>6. ASSUME NEW p \in Procs, Step(p)
      PROVE  \/ dir'[a] = dir[a]
             \/ dir'[a] \in Inodes /\ ino'[dir'[a]] = <<>>
             \/ ino' = ino /\ Replaces(dir'[a])
  BY <1>1, <1>2, <1>4, <1>5, <1>6
<1>7. QED
  BY <1>6, EnvironmentQuiet DEF Running, Finished, Quiet

LEMMA NextWellFormed ==
    ASSUME TypeInv, OneWriter, Private, DraftInv, Parsable, [Running]_vars
    PROVE  Parsable'
<1> SUFFICES ASSUME NEW a \in Archives, dir'[a] # NoIno PROVE WellFormed(ino'[dir'[a]])
  BY DEF Parsable
<1>1. dir \in [Archives \cup {Temp} -> Inodes \cup {NoIno}]
  BY DEF TypeInv, TypeOK
<1>2. CASE dir'[a] = dir[a]
  <2>1. dir[a] \in Inodes /\ Visible(dir[a])
    BY <1>1, <1>2 DEF Visible
  <2>2. QED
    BY <1>2, <2>1, StepImmutable DEF Parsable
<1>3. CASE ino'[dir'[a]] = <<>>
  BY <1>3 DEF WellFormed
<1>4. CASE ino' = ino /\ Replaces(dir'[a])
  BY <1>4 DEF Replaces, DraftInv, DraftOf, Draft, HasWork, LateLabels, HeaderDone
<1>5. QED
  BY <1>2, <1>3, <1>4, NewBindings

\* With at most one process that may run -i or -r, whatever is killed,
\* edited or read beside it, and until a -r goes on without its work file:
\* the file an archive name is bound to is one read_header can parse, with
\* the offsets update_offsets_in_header computes.
THEOREM ArchivesComplete == OneWriter => (Spec => []ArchivesWellFormed)
<1> SUFFICES ASSUME OneWriter PROVE Spec => []ArchivesWellFormed
  OBVIOUS
<1> DEFINE Inv == Private /\ DraftInv /\ Parsable
<1>1. Init => Inv
  BY InitPrivate, InitDraftInv DEF Init, Parsable
<1>2. TypeInv /\ Inv /\ [Running]_vars => Inv'
  BY NextPrivate, NextDraftInv, NextWellFormed
<1> HIDE DEF Inv
<1>3. TypeInv /\ (Opened => Inv) /\ [Next]_vars => (Opened => Inv)'
  BY <1>2, StillOpened
<1>4. (Opened => Inv) => ArchivesWellFormed
  BY DEF Inv, ArchivesWellFormed
<1>5. QED
  BY TypeInvariance, <1>1, <1>3, <1>4, PTL DEF Spec

-----------------------------------------------------------------------------
(* Which members of the old header -i and -r keep.                         *)

\* Rank(S, j) counts the places up to j.
LEMMA RankStarts ==
    ASSUME NEW n \in Nat, NEW S, S \subseteq 1 .. n
    PROVE  Rank(S, 0) = 0 /\ Rank(S, n) = Cardinality(S)
<1>1. \A i \in S : i \in Nat /\ ~(i <= 0) /\ i <= n
  OBVIOUS
<1>2. {i \in S : i <= 0} = {} /\ {i \in S : i <= n} = S
  BY <1>1
<1>3. QED
  BY <1>2, FS_EmptySet DEF Rank

LEMMA FewPlaces ==
    ASSUME NEW n \in Nat, NEW S, S \subseteq 1 .. n, NEW j
    PROVE  /\ IsFiniteSet({i \in S : i <= j})
           /\ Rank(S, j) = Cardinality({i \in S : i <= j}) /\ Rank(S, j) \in Nat
<1> DEFINE K == {i \in S : i <= j}
<1>1. IsFiniteSet(1 .. n)
  BY FS_Interval
<1>2. K \in SUBSET (1 .. n)
  OBVIOUS
<1>3. Rank(S, j) = Cardinality(K)
  BY DEF Rank
<1> HIDE DEF K
<1>4. IsFiniteSet(K)
  BY <1>1, <1>2, FS_Subset
<1>5. Cardinality(K) \in Nat
  BY <1>4, FS_CardinalityType
<1>6. QED
  BY <1>3, <1>4, <1>5 DEF K

LEMMA RankGrows ==
    ASSUME NEW n \in Nat, NEW S, S \subseteq 1 .. n, NEW j \in 0 .. n - 1
    PROVE  /\ Rank(S, j) \in Nat
           /\ j + 1 \in S => Rank(S, j + 1) = Rank(S, j) + 1
           /\ j + 1 \notin S => Rank(S, j + 1) = Rank(S, j)
<1> DEFINE K == {i \in S : i <= j}
           L == {i \in S : i <= j + 1}
<1>1. /\ IsFiniteSet(K) /\ Rank(S, j) = Cardinality(K) /\ Rank(S, j) \in Nat
      /\ Rank(S, j + 1) = Cardinality(L)
  BY FewPlaces
<1>2. \A i \in S : i \in Nat
  OBVIOUS
<1>3. j \in Nat /\ \A i \in Nat : i <= j + 1 <=> i <= j \/ i = j + 1
  OBVIOUS
<1>4. j + 1 \notin K
  BY <1>3
<1>5. CASE j + 1 \in S
  <2>1. L = K \cup {j + 1}
    BY <1>2, <1>3, <1>5
  <2> HIDE DEF K, L
  <2>2. Cardinality(L) = Cardinality(K) + 1
    BY <1>1, <1>4, <2>1, FS_AddElement
  <2>3. QED
    BY <1>1, <1>5, <2>2
<1>6. CASE j + 1 \notin S
  <2>1. L = K
    BY <1>2, <1>3, <1>6
  <2>2. QED
    BY <1>1, <1>6, <2>1
<1>7. QED
  BY <1>5, <1>6

LEMMA RankOrders ==
    ASSUME NEW n \in Nat, NEW S, S \subseteq 1 .. n, NEW j \in Nat, NEW i \in S, i <= j
    PROVE  Rank(S, i) \in 1 .. Rank(S, j) /\ Rank(S, j) \in Nat
<1> DEFINE K == {x \in S : x <= i}
           L == {x \in S : x <= j}
<1>1. /\ IsFiniteSet(K) /\ Rank(S, i) = Cardinality(K) /\ Rank(S, i) \in Nat
      /\ IsFiniteSet(L) /\ Rank(S, j) = Cardinality(L) /\ Rank(S, j) \in Nat
  BY FewPlaces
<1>2. i \in Nat /\ \A x \in S : x \in Nat
  OBVIOUS
<1>3. \A x \in Nat : x <= i => x <= j
  BY <1>2
<1>4. K \in SUBSET L
  BY <1>2, <1>3
<1>5. i \in K
  BY <1>2
<1> HIDE DEF K, L
<1>6. Cardinality(K) <= Cardinality(L) /\ Cardinality(K) # 0
  BY <1>1, <1>4, <1>5, FS_Subset, FS_EmptySet
<1>7. QED
  BY <1>1, <1>6

LEMMA RankOfAll == ASSUME NEW n \in Nat, NEW i \in 0 .. n PROVE Rank(1 .. n, i) = i
<1>1. {j \in 1 .. n : j <= i} = 1 .. i
  OBVIOUS
<1>2. Cardinality(1 .. i) = i
  BY FS_Interval
<1>3. QED
  BY <1>1, <1>2 DEF Rank

\* The list hdr after remove_files_from_header looked at the first j nodes of
\* h and is at its node k: the nodes at the places of S up to j, in order,
\* and those it has not seen.
Filtered(h, hdr, k, S, j) ==
    /\ k = Rank(S, j) + 1
    /\ Len(hdr) = k - 1 + (Len(h) - j)
    /\ \A i \in S : i <= j => hdr[Rank(S, i)] = h[i]
    /\ \A r \in 1 .. k - 1 : \E i \in S : hdr[r] = h[i]
    /\ \A x \in 1 .. Len(h) - j : hdr[k - 1 + x] = h[j + x]

LEMMA FilterStarts ==
    ASSUME NEW h \in Seq(Entry), NEW S, S \subseteq 1 .. Len(h)
    PROVE  Filtered(h, h, 1, S, 0)
<1>1. Len(h) \in Nat
  BY LenProperties
<1>2. Rank(S, 0) = 0
  BY <1>1, RankStarts
<1>3. \A i \in S : ~(i <= 0)
  BY <1>1
<1>4. QED
  BY <1>1, <1>2, <1>3 DEF Filtered

LEMMA FilterKeeps ==
    ASSUME NEW h \in Seq(Entry), NEW hdr \in Seq(Entry), NEW S, S \subseteq 1 .. Len(h),
           NEW j \in 0 .. Len(h), NEW k \in Nat, Filtered(h, hdr, k, S, j), k <= Len(hdr),
           j + 1 \in S
    PROVE  Filtered(h, hdr, k + 1, S, j + 1) /\ j + 1 \in 0 .. Len(h)
<1> DEFINE n == Len(h)
           d == Len(hdr)
<1>1. n \in Nat /\ d \in Nat /\ j \in 0 .. n - 1
  BY LenProperties
<1>2. /\ Rank(S, j) \in Nat /\ Rank(S, j + 1) = Rank(S, j) + 1
      /\ k = Rank(S, j) + 1 /\ d = k - 1 + (n - j)
      /\ \A i \in S : i <= j => hdr[Rank(S, i)] = h[i]
      /\ \A r \in 1 .. k - 1 : \E i \in S : hdr[r] = h[i]
      /\ \A x \in 1 .. n - j : hdr[k - 1 + x] = h[j + x]
  BY <1>1, RankGrows DEF Filtered
<1> HIDE DEF n, d
<1>3. hdr[k] = h[j + 1]
  <2>1. 1 \in 1 .. n - j /\ k - 1 + 1 = k
    BY <1>1
  <2>2. QED
    BY <1>2, <2>1
<1>4. k + 1 = Rank(S, j + 1) + 1 /\ d = k + 1 - 1 + (n - (j + 1)) /\ j + 1 \in 0 .. n
  BY <1>1, <1>2, SMTT(30)
<1>5. \A i \in S : i <= j + 1 => hdr[Rank(S, i)] = h[i]
  <2> SUFFICES ASSUME NEW i \in S, i <= j + 1 PROVE hdr[Rank(S, i)] = h[i]
    OBVIOUS
  <2>1. i \in 1 .. n
    BY DEF n
  <2>2. CASE i = j + 1
    BY <1>2, <1>3, <2>2
  <2>3. CASE i # j + 1
    <3>1. i <= j
      BY <1>1, <2>1, <2>3
    <3>2. QED
      BY <1>2, <3>1
  <2>4. QED
    BY <2>2, <2>3
<1>6. \A r \in 1 .. k + 1 - 1 : \E i \in S : hdr[r] = h[i]
  <2> SUFFICES ASSUME NEW r \in 1 .. k PROVE \E i \in S : hdr[r] = h[i]
    OBVIOUS
  <2>1. CASE r = k
    BY <1>3, <2>1
  <2>2. CASE r # k
    <3>1. r \in 1 .. k - 1
      BY <2>2
    <3>2. QED
      BY <1>2, <3>1
  <2>3. QED
    BY <2>1, <2>2
<1>7. \A x \in 1 .. n - (j + 1) : hdr[k + 1 - 1 + x] = h[j + 1 + x]
  <2> SUFFICES ASSUME NEW x \in 1 .. n - (j + 1) PROVE hdr[k + 1 - 1 + x] = h[j + 1 + x]
    OBVIOUS
  <2>1. x + 1 \in 1 .. n - j /\ k - 1 + (x + 1) = k + 1 - 1 + x /\ j + (x + 1) = j + 1 + x
    BY <1>1
  <2>2. hdr[k - 1 + (x + 1)] = h[j + (x + 1)]
    BY <1>2, <2>1
  <2>3. QED
    BY <2>1, <2>2
<1>8. QED
  BY <1>4, <1>5, <1>6, <1>7, SMTT(30) DEF Filtered, n, d

LEMMA DropNodeCells ==
    ASSUME NEW h \in Seq(Entry), NEW k \in 1 .. Len(h)
    PROVE  /\ Len(DropNode(h, k)) = Len(h) - 1
           /\ \A i \in 1 .. k - 1 : DropNode(h, k)[i] = h[i]
           /\ \A i \in k .. Len(h) - 1 : DropNode(h, k)[i] = h[i + 1]
<1> DEFINE n == Len(h)
           a == SubSeq(h, 1, k - 1)
           b == SubSeq(h, k + 1, n)
<1>1. n \in Nat /\ k \in 1 .. n /\ \A i \in 1 .. n : h[i] \in Entry
  BY LenProperties, ElementOfSeq
<1>2. a \in Seq(Entry) /\ Len(a) = k - 1 /\ \A i \in 1 .. k - 1 : a[i] = h[i]
  BY <1>1, SubSeqProperties
<1>3. b \in Seq(Entry) /\ Len(b) = n - k /\ \A i \in 1 .. n - k : b[i] = h[k + i]
  <2>1. /\ b \in Seq(Entry) /\ Len(b) = IF k + 1 <= n THEN n - (k + 1) + 1 ELSE 0
        /\ \A i \in 1 .. n - (k + 1) + 1 : b[i] = h[k + 1 + i - 1]
    BY <1>1, SubSeqProperties
  <2> HIDE DEF n, b
  <2>2. n - (k + 1) + 1 = n - k /\ \A i \in 1 .. n - k : k + 1 + i - 1 = k + i
    BY <1>1
  <2>3. Len(b) = n - k
    BY <1>1, <2>1
  <2>4. QED
    BY <2>1, <2>2, <2>3
<1> HIDE DEF a, b, n
<1>4. /\ Len(a \o b) = k - 1 + (n - k)
      /\ \A i \in 1 .. k - 1 + (n - k) : (a \o b)[i] = IF i <= k - 1 THEN a[i] ELSE b[i - (k - 1)]
  <2>1. /\ Len(a \o b) = Len(a) + Len(b)
        /\ \A i \in 1 .. Len(a) + Len(b) : (a \o b)[i] = IF i <= Len(a) THEN a[i] ELSE b[i - Len(a)]
    BY <1>2, <1>3, ConcatProperties
  <2>2. QED
    BY <1>2, <1>3, <2>1
<1>5. \A i \in 1 .. k - 1 : (a \o b)[i] = h[i]
  BY <1>1, <1>2, <1>4
<1>6. \A i \in k .. n - 1 : (a \o b)[i] = h[i + 1]
  <2> SUFFICES ASSUME NEW i \in k .. n - 1 PROVE (a \o b)[i] = h[i + 1]
    OBVIOUS
  <2>1. /\ i \in 1 .. k - 1 + (n - k) /\ ~(i <= k - 1)
        /\ i - (k - 1) \in 1 .. n - k /\ k + (i - (k - 1)) = i + 1
    BY <1>1
  <2>2. QED
    BY <1>3, <1>4, <2>1
<1>7. DropNode(h, k) = a \o b /\ k - 1 + (n - k) = n - 1
  BY <1>1 DEF DropNode, a, b, n
<1>8. QED
  BY <1>4, <1>5, <1>6, <1>7 DEF n

LEMMA FilterDrops ==
    ASSUME NEW h \in Seq(Entry), NEW hdr \in Seq(Entry), NEW S, S \subseteq 1 .. Len(h),
           NEW j \in 0 .. Len(h), NEW k \in Nat, Filtered(h, hdr, k, S, j), k <= Len(hdr),
           j + 1 \notin S
    PROVE  Filtered(h, DropNode(hdr, k), k, S, j + 1) /\ j + 1 \in 0 .. Len(h)
<1> DEFINE n == Len(h)
           d == Len(hdr)
           new == DropNode(hdr, k)
<1>1. n \in Nat /\ d \in Nat /\ j \in 0 .. n
  BY LenProperties
<1>2. /\ k = Rank(S, j) + 1 /\ d = k - 1 + (n - j)
      /\ \A i \in S : i <= j => hdr[Rank(S, i)] = h[i]
      /\ \A r \in 1 .. k - 1 : \E i \in S : hdr[r] = h[i]
      /\ \A x \in 1 .. n - j : hdr[k - 1 + x] = h[j + x]
  BY DEF Filtered
<1>3. j \in 0 .. n - 1
  BY <1>1, <1>2
<1>4. Rank(S, j) \in Nat /\ Rank(S, j + 1) = Rank(S, j)
  BY <1>1, <1>3, RankGrows
<1>5. k \in 1 .. d
  BY <1>2, <1>4
<1>6. /\ Len(new) = d - 1
      /\ \A i \in 1 .. k - 1 : new[i] = hdr[i]
      /\ \A i \in k .. d - 1 : new[i] = hdr[i + 1]
  BY <1>5, DropNodeCells
<1>7. \A i \in S : i \in 1 .. n
  OBVIOUS
<1>8. \A i \in S : i <= j => Rank(S, i) \in 1 .. k - 1
  <2> SUFFICES ASSUME NEW i \in S, i <= j PROVE Rank(S, i) \in 1 .. k - 1
    OBVIOUS
  <2>1. Len(h) \in Nat /\ j \in Nat
    BY <1>1
  <2>2. Rank(S, i) \in 1 .. Rank(S, j)
    BY <2>1, RankOrders
  <2>3. QED
    BY <1>2, <1>4, <2>2, SMTT(30)
<1> HIDE DEF n, d, new
<1>9. k = Rank(S, j + 1) + 1 /\ Len(new) = k - 1 + (n - (j + 1)) /\ j + 1 \in 0 .. n
  BY <1>1, <1>2, <1>3, <1>4, <1>6, SMTT(30)
<1>10. \A i \in S : i <= j + 1 => new[Rank(S, i)] = h[i]
  <2> SUFFICES ASSUME NEW i \in S, i <= j + 1 PROVE new[Rank(S, i)] = h[i]
    OBVIOUS
  <2>1. i <= j
    BY <1>1, <1>7
  <2>2. QED
    BY <1>2, <1>6, <1>8, <2>1
<1>11. \A r \in 1 .. k - 1 : \E i \in S : new[r] = h[i]
  BY <1>2, <1>6
<1>12. \A x \in 1 .. n - (j + 1) : new[k - 1 + x] = h[j + 1 + x]
  <2> SUFFICES ASSUME NEW x \in 1 .. n - (j + 1) PROVE new[k - 1 + x] = h[j + 1 + x]
    OBVIOUS
  <2>1. x \in Nat /\ x >= 1 /\ x <= n - (j + 1) /\ j \in Nat /\ d = k - 1 + (n - j)
    BY <1>1, <1>2
  <2>2. /\ x + 1 \in 1 .. n - j /\ k - 1 + x \in k .. d - 1 /\ k - 1 + x + 1 = k - 1 + (x + 1)
        /\ j + (x + 1) = j + 1 + x
    BY <1>1, <2>1
  <2>3. new[k - 1 + x] = hdr[k - 1 + (x + 1)]
    BY <1>6, <2>2
  <2>4. hdr[k - 1 + (x + 1)] = h[j + (x + 1)]
    BY <1>2, <2>2
  <2>5. QED
    BY <2>2, <2>3, <2>4
<1>13. QED
  BY <1>9, <1>10, <1>11, <1>12 DEF Filtered, n, d, new

LEMMA FilterEnds ==
    ASSUME NEW h \in Seq(Entry), NEW hdr \in Seq(Entry), NEW S, S \subseteq 1 .. Len(h),
           NEW j \in 0 .. Len(h), NEW k \in Nat, Filtered(h, hdr, k, S, j), ~(k <= Len(hdr))
    PROVE  Filtered(h, hdr, Len(hdr) + 1, S, Len(h))
<1> DEFINE n == Len(h)
           d == Len(hdr)
<1>1. n \in Nat /\ d \in Nat /\ j \in 0 .. n
  BY LenProperties
<1>2. d = k - 1 + (n - j)
  BY DEF Filtered
<1> HIDE DEF n, d
<1>3. j = n /\ k = d + 1
  BY <1>1, <1>2 DEF d
<1>4. QED
  BY <1>3 DEF n, d

-----------------------------------------------------------------------------
(* The archive that is open, and the list read from it.                    *)

\* What is open as an archive can be parsed.
Formed == \A p \in Procs : loc[p].afd.ino \in Inodes => WellFormed(ArchFile(p))

\* What a process has open as an archive: what it had, a new empty file, or
\* the file its archive's name was bound to.
LEMMA NewlyOpened ==
    ASSUME TypeInv, [Running]_vars, NEW q \in Procs, loc'[q].afd.ino \in Inodes
    PROVE  \/ loc'[q].afd.ino = loc[q].afd.ino
           \/ ino'[loc'[q].afd.ino] = <<>>
           \/ /\ ino' = ino /\ dir' = dir /\ Arch(q) \in Archives
              /\ loc'[q].afd.ino = dir[Arch(q)]
<1> DEFINE Known == \/ loc'[q].afd.ino = loc[q].afd.ino
                     \/ ino'[loc'[q].afd.ino] = <<>>
                     \/ /\ ino' = ino /\ dir' = dir /\ Arch(q) \in Archives
                        /\ loc'[q].afd.ino = dir[Arch(q)]
<1>0. /\ NoIno \notin Inodes /\ loc \in [Procs -> Local]
      /\ dir \in [FileNames -> Inodes \cup {NoIno}] /\ ino \in [Inodes -> Seq(Cell)]
  BY ArchiverAssumption DEF TypeInv, TypeOK, FileNames
<1>1. CASE Quiet
  BY <1>0, <1>1 DEF Quiet
<1>2. ASSUME NEW p \in Procs, NEW l, NEW m, Goto(p, l, m), m.afd.ino \in {loc[p].afd.ino, NoIno}
      PROVE  Known
  <2>1. loc'[p] = m /\ (q # p => loc'[q] = loc[q])
    BY <1>0, <1>2 DEF Goto
  <2>2. QED
    BY <1>0, <1>2, <2>1
<1>3. ASSUME NEW p \in Procs, OpenWork(p) PROVE Known
  <2>1. PICK i \in Inodes :
          Goto(p, IF Op(p) = "input" THEN "openArchive" ELSE "readHeader",
               [loc[p] EXCEPT !.tfd = [ino |-> i, pos |-> 0]])
    BY <1>3 DEF OpenWork
  <2> DEFINE m == [loc[p] EXCEPT !.tfd = [ino |-> i, pos |-> 0]]
  <2>2. m.afd.ino = loc[p].afd.ino
    BY <1>0 DEF Local
  <2>3. QED
    BY <1>2, <2>1, <2>2
<1>4. ASSUME NEW p \in Procs, Unlink(p) \/ Rename(p) \/ Refuse(p) PROVE Known
  BY <1>2, <1>4, IdleFacts DEF Unlink, Rename, Refuse, Exit
<1>5. ASSUME NEW p \in Procs, OpenArchive(p) PROVE Known
  <2>1. CASE Exit(p)
    BY <1>2, <2>1, IdleFacts DEF Exit
  <2>2. ASSUME NEW i \in Inodes, OpenCreate(Arch(p), i),
               Goto(p, IF Op(p) = "remove" THEN "openWork" ELSE "readHeader",
                    [loc[p] EXCEPT !.afd = [ino |-> i, pos |-> 0]])
        PROVE  Known
    <3> DEFINE m == [loc[p] EXCEPT !.afd = [ino |-> i, pos |-> 0]]
    <3>1. loc'[p] = m /\ (q # p => loc'[q] = loc[q]) /\ m.afd.ino = i
      BY <1>0, <2>2 DEF Goto, Local
    <3> HIDE DEF m
    <3>2. Arch(p) \in Archives /\ Arch(p) \in FileNames
      BY <1>5, LocalFacts DEF OpenArchive, FileNames
    <3>3. CASE i = dir[Arch(p)] /\ ino' = ino /\ dir' = dir
      BY <3>1, <3>2, <3>3
    <3>4. CASE ino' = [ino EXCEPT ![i] = <<>>]
      BY <1>0, <3>1, <3>4
    <3>5. QED
      BY <1>0, <2>2, <3>2, <3>3, <3>4, OpenCreateFacts
  <2>3. QED
    BY <1>5, <2>1, <2>2 DEF OpenArchive
<1>6. ASSUME NEW p \in Procs, Step(p) PROVE Known
  <2>1. CASE ~(OpenWork(p) \/ OpenArchive(p) \/ Unlink(p) \/ Rename(p) \/ Refuse(p))
    BY <1>1, <1>6, <2>1, StepQuiet
  <2>2. QED
    BY <1>3, <1>4, <1>5, <1>6, <2>1
<1>7. QED
  BY <1>1, <1>6, EnvironmentQuiet DEF Running, Finished

LEMMA NextFormed ==
    ASSUME TypeInv, Private, Parsable, Formed, [Running]_vars
    PROVE  Formed'
<1> SUFFICES ASSUME NEW q \in Procs, loc'[q].afd.ino \in Inodes
             PROVE  WellFormed(ino'[loc'[q].afd.ino])
  BY DEF Formed, ArchFile
<1>1. CASE loc'[q].afd.ino = loc[q].afd.ino
  <2>1. Visible(loc[q].afd.ino)
    BY DEF Visible
  <2>2. QED
    BY <1>1, <2>1, StepImmutable DEF Formed, ArchFile
<1>2. CASE ino'[loc'[q].afd.ino] = <<>>
  BY <1>2 DEF WellFormed
<1>3. CASE ino' = ino /\ dir' = dir /\ Arch(q) \in Archives /\ loc'[q].afd.ino = dir[Arch(q)]
  BY <1>3, ArchiverAssumption DEF Parsable
<1>4. QED
  BY <1>1, <1>2, <1>3, NewlyOpened

LEMMA InitFormed == Init => Formed
  BY IdleFacts, ArchiverAssumption DEF Init, Formed

\* The places of the nodes of h that a command keeps.
Kept(h, cmd) == {i \in DOMAIN h : cmd.op = "input" \/ h[i].name \notin ToSet(cmd.files)}

\* What holds of the list at label l with locals m, when the inodes hold
\* files: while read_header runs it is the front of the archive's header,
\* then -i appends to it and -r takes nodes out.
Listed(l, m, files) ==
    LET h == Header(files[m.afd.ino])
    IN  /\ l \in {"openWork", "openArchive"} => m.hdr = <<>> /\ m.added = 0 /\ m.afd.pos = 0
        /\ l = "readHeader" =>
              /\ m.added = 0 /\ m.afd.pos <= Len(h)
              /\ Len(m.hdr) = m.afd.pos /\ \A i \in 1 .. Len(m.hdr) : m.hdr[i] = h[i]
        /\ m.cmd.op = "input" /\ l \in InputLabels \cup {"writeHeader", "unlink", "rename"} =>
              Len(m.hdr) = Len(h) + m.added /\ \A i \in 1 .. Len(h) : m.hdr[i] = h[i]
        /\ m.cmd.op = "remove" /\ l = "filter" =>
              /\ m.added = 0
              /\ \E j \in 0 .. Len(h) : Filtered(h, m.hdr, m.k, Kept(h, m.cmd), j)
        /\ m.cmd.op = "remove" /\ l \in {"writeHeader", "member", "copyMember", "unlink", "rename"} =>
              /\ m.added = 0
              /\ Filtered(h, m.hdr, Len(m.hdr) + 1, Kept(h, m.cmd), Len(h))

ListOf(p) == Listed(pc[p], loc[p], ino)

LEMMA GotoList ==
    ASSUME TypeInv, NEW p \in Procs, NEW l, NEW m, Goto(p, l, m), Listed(l, m, ino')
    PROVE  ListOf(p)'
<1>1. pc'[p] = l /\ loc'[p] = m
  BY DEF TypeInv, TypeOK, Goto
<1>2. QED
  BY <1>1 DEF ListOf

LEMMA ExitList == ASSUME TypeInv, NEW p \in Procs, Exit(p) PROVE ListOf(p)'
<1>1. Listed("idle", Idle, ino')
  BY DEF Listed, InputLabels
<1>2. QED
  BY <1>1, GotoList DEF Exit

\* Steps that leave the list, inserted_files and the archive alone.
LEMMA SameList ==
    ASSUME TypeInv, NEW p \in Procs, ListOf(p), NEW l, NEW m, Goto(p, l, m),
           m.hdr = loc[p].hdr, m.added = loc[p].added, m.cmd = loc[p].cmd,
           m.afd.ino = loc[p].afd.ino, ino'[loc[p].afd.ino] = ino[loc[p].afd.ino],
           \/ /\ pc[p] \in InputLabels \cup {"writeHeader", "unlink"} /\ Op(p) = "input"
              /\ l \in InputLabels \cup {"writeHeader", "unlink", "rename"}
           \/ /\ pc[p] \in {"writeHeader", "member", "copyMember", "unlink"} /\ Op(p) = "remove"
              /\ l \in {"writeHeader", "member", "copyMember", "unlink", "rename"}
           \/ Op(p) \notin {"input", "remove"} /\ l \in {"filter", "member", "copyMember"}
    PROVE  ListOf(p)'
<1>1. Listed(l, m, ino')
  <2>1. Op(p) = m.cmd.op
    BY DEF Op
  <2>2. Listed(pc[p], loc[p], ino)
    BY DEF ListOf
  <2>3. l \notin {"openWork", "openArchive", "readHeader"}
    BY DEF InputLabels
  <2>4. CASE /\ pc[p] \in InputLabels \cup {"writeHeader", "unlink"} /\ Op(p) = "input"
             /\ l \in InputLabels \cup {"writeHeader", "unlink", "rename"}
    BY <2>1, <2>2, <2>3, <2>4 DEF Listed
  <2>5. CASE /\ pc[p] \in {"writeHeader", "member", "copyMember", "unlink"} /\ Op(p) = "remove"
             /\ l \in {"writeHeader", "member", "copyMember", "unlink", "rename"}
    BY <2>1, <2>2, <2>3, <2>5 DEF Listed
  <2>6. CASE Op(p) \notin {"input", "remove"} /\ l \in {"filter", "member", "copyMember"}
    BY <2>1, <2>3, <2>6 DEF Listed
  <2>7. QED
    BY <2>4, <2>5, <2>6
<1>2. QED
  BY <1>1, GotoList

\* The archive a process reads stays as it is.
LEMMA ArchiveStays ==
    ASSUME TypeInv, Private, NEW p \in Procs, Step(p), loc[p].afd.ino \in Inodes
    PROVE  ino'[loc[p].afd.ino] = ino[loc[p].afd.ino]
<1>1. [Running]_vars
  BY DEF Running
<1>2. Visible(loc[p].afd.ino)
  BY DEF Visible
<1>3. QED
  BY <1>1, <1>2, StepImmutable

LEMMA KeptPlaces ==
    ASSUME NEW h \in Seq(Entry), NEW cmd
    PROVE  Kept(h, cmd) \subseteq 1 .. Len(h)
<1>1. DOMAIN h = 1 .. Len(h)
  OBVIOUS
<1>2. QED
  BY <1>1 DEF Kept

\* At the labels with the archive open, its file is one, and so is its list.
LEMMA ArchiveFacts ==
    ASSUME TypeInv, NEW p \in Procs, pc[p] \notin {"idle", "openWork", "openArchive"}
    PROVE  /\ loc[p].afd.ino \in Inodes /\ ArchFile(p) \in Seq(Cell)
           /\ Header(ArchFile(p)) \in Seq(Entry) /\ Len(Header(ArchFile(p))) \in Nat
           /\ Len(Header(ArchFile(p))) <= Len(ArchFile(p)) /\ Len(ArchFile(p)) \in Nat
           /\ loc[p].hdr \in Seq(Entry) /\ Len(loc[p].hdr) \in Nat /\ loc[p].added \in Nat
<1>1. loc[p] \in Local /\ Reached(p, pc[p], loc[p])
  BY LocalFacts
<1>2. loc[p].afd.ino \in Inodes
  BY <1>1 DEF Reached, OpenedArchive
<1>3. ArchFile(p) \in Seq(Cell) /\ loc[p].hdr \in Seq(Entry) /\ loc[p].added \in Nat
  BY <1>1, <1>2, LocalFacts DEF Local
<1>4. QED
  BY <1>2, <1>3, HeaderFacts, LenProperties

LEMMA EmptyList ==
    ASSUME NEW l \in {"openWork", "openArchive", "readHeader"}, NEW m, NEW files,
           m.hdr = <<>>, m.added = 0, m.afd.pos = 0,
           l = "readHeader" => files[m.afd.ino] \in Seq(Cell)
    PROVE  Listed(l, m, files)
<1>1. l = "readHeader" => Len(Header(files[m.afd.ino])) \in Nat
  BY HeaderFacts, LenProperties
<1>2. l \notin InputLabels \cup {"writeHeader", "unlink", "rename"}
  BY DEF InputLabels
<1>3. Len(m.hdr) = 0
  OBVIOUS
<1>4. QED
  BY <1>1, <1>2, <1>3 DEF Listed

LEMMA StartList == ASSUME TypeInv, NEW p \in Procs, Start(p) PROVE ListOf(p)'
<1>1. PICK c \in Commands :
        /\ pc' = [pc EXCEPT ![p] = IF c.op = "input" THEN "openWork" ELSE "openArchive"]
        /\ loc' = [loc EXCEPT ![p] = [Idle EXCEPT !.cmd = c]]
  BY DEF Start
<1>2. /\ pc'[p] \in {"openWork", "openArchive"}
      /\ loc'[p].hdr = <<>> /\ loc'[p].added = 0 /\ loc'[p].afd.pos = 0
  BY <1>1 DEF TypeInv, TypeOK, Idle, NoFd
<1>3. QED
  BY <1>2, EmptyList DEF ListOf

LEMMA OpenWorkList ==
    ASSUME TypeInv, NEW p \in Procs, ListOf(p), OpenWork(p)
    PROVE  ListOf(p)'
<1>1. PICK i \in Inodes :
        Goto(p, IF Op(p) = "input" THEN "openArchive" ELSE "readHeader",
             [loc[p] EXCEPT !.tfd = [ino |-> i, pos |-> 0]])
  BY DEF OpenWork
<1> DEFINE m == [loc[p] EXCEPT !.tfd = [ino |-> i, pos |-> 0]]
           l == IF Op(p) = "input" THEN "openArchive" ELSE "readHeader"
<1>2. /\ m.afd = loc[p].afd /\ m.hdr = <<>> /\ m.added = 0 /\ m.afd.pos = 0
  <2>1. m.afd = loc[p].afd /\ m.hdr = loc[p].hdr /\ m.added = loc[p].added
    BY LocalFacts DEF Local
  <2>2. QED
    BY <2>1 DEF OpenWork, ListOf, Listed
<1>3. ino' \in [Inodes -> Seq(Cell)]
  BY OpenWorkInv DEF TypeInv, TypeOK
<1>4. l = "readHeader" => m.afd.ino \in Inodes
  BY <1>2, LocalFacts DEF OpenWork, Reached, OpenedArchive, Op
<1> HIDE DEF m
<1>5. Listed(l, m, ino')
  BY <1>2, <1>3, <1>4, EmptyList
<1>6. QED
  BY <1>1, <1>5, GotoList DEF m

LEMMA OpenArchiveList ==
    ASSUME TypeInv, NEW p \in Procs, ListOf(p), OpenArchive(p)
    PROVE  ListOf(p)'
<1>1. CASE Exit(p)
  BY <1>1, ExitList
<1>2. ASSUME NEW i \in Inodes,
             Goto(p, IF Op(p) = "remove" THEN "openWork" ELSE "readHeader",
                  [loc[p] EXCEPT !.afd = [ino |-> i, pos |-> 0]])
      PROVE  ListOf(p)'
  <2> DEFINE m == [loc[p] EXCEPT !.afd = [ino |-> i, pos |-> 0]]
             l == IF Op(p) = "remove" THEN "openWork" ELSE "readHeader"
  <2>1. m.afd.ino = i /\ m.afd.pos = 0 /\ m.hdr = <<>> /\ m.added = 0
    <3>1. m.afd = [ino |-> i, pos |-> 0] /\ m.hdr = loc[p].hdr /\ m.added = loc[p].added
      BY LocalFacts DEF Local
    <3>2. QED
      BY <3>1 DEF OpenArchive, ListOf, Listed
  <2>2. ino' \in [Inodes -> Seq(Cell)]
    BY OpenArchiveInv DEF TypeInv, TypeOK
  <2> HIDE DEF m
  <2>3. Listed(l, m, ino')
    BY <2>1, <2>2, EmptyList
  <2>4. QED
    BY <1>2, <2>3, GotoList DEF m
<1>3. QED
  BY <1>1, <1>2 DEF OpenArchive

LEMMA ReadHeaderList ==
    ASSUME TypeInv, Formed, NEW p \in Procs, ListOf(p), ReadHeader(p)
    PROVE  ListOf(p)'
<1> DEFINE me == loc[p]
           c == ArchFile(p)
           h == Header(c)
           pos == me.afd.pos
<1>1. /\ pc[p] = "readHeader" /\ me \in Local /\ ino' = ino /\ pos \in Nat
      /\ Op(p) \in {"input", "remove", "extract", "stat"}
  BY LocalFacts DEF ReadHeader, Local, Fd
<1>2. /\ me.afd.ino \in Inodes /\ c \in Seq(Cell) /\ h \in Seq(Entry) /\ Len(h) \in Nat
      /\ Len(h) <= Len(c) /\ Len(c) \in Nat /\ me.hdr \in Seq(Entry) /\ WellFormed(c)
  BY <1>1, ArchiveFacts DEF Formed
<1>3. /\ me.added = 0 /\ pos <= Len(h) /\ Len(me.hdr) = pos
      /\ \A i \in 1 .. pos : me.hdr[i] = h[i]
  <2>1. /\ me.added = 0 /\ pos <= Len(h) /\ Len(me.hdr) = pos
        /\ \A i \in 1 .. Len(me.hdr) : me.hdr[i] = h[i]
    BY <1>1 DEF ListOf, Listed, ArchFile
  <2>2. QED
    BY <2>1
<1>4. /\ \A i \in 1 .. Len(h) : h[i] = c[i] /\ c[i] \in Entry /\ c[i].tag = "entry"
      /\ Len(h) < Len(c) => c[Len(h) + 1].tag # "entry"
  <2>1. \A i \in 1 .. Len(h) : h[i] \in Entry
    BY <1>2, ElementOfSeq
  <2>2. \A e \in Entry : e.tag = "entry"
    BY DEF Entry
  <2>3. QED
    BY <1>2, <2>1, <2>2, HeaderFacts
<1> HIDE DEF c, h, pos
<1>5. ASSUME pos < Len(c), c[pos + 1].tag = "entry",
             Goto(p, "readHeader", [me EXCEPT !.hdr = Append(@, c[pos + 1]), !.afd.pos = @ + 1])
      PROVE  ListOf(p)'
  <2> DEFINE m == [me EXCEPT !.hdr = Append(@, c[pos + 1]), !.afd.pos = @ + 1]
  <2>1. /\ m.hdr = Append(me.hdr, c[pos + 1]) /\ m.afd.pos = pos + 1 /\ m.added = me.added
        /\ m.afd.ino = me.afd.ino
    BY <1>1 DEF Local, Fd, pos
  <2>2. pos + 1 <= Len(h) /\ pos + 1 \in 1 .. Len(h)
    BY <1>1, <1>2, <1>3, <1>4, <1>5
  <2> HIDE DEF m
  <2>3. /\ Len(m.hdr) = pos + 1
        /\ \A i \in 1 .. pos : m.hdr[i] = h[i]
        /\ m.hdr[pos + 1] = h[pos + 1]
    <3>1. c[pos + 1] \in Entry /\ c[pos + 1] = h[pos + 1]
      BY <1>4, <2>2
    <3>2. QED
      BY <1>2, <1>3, <2>1, <3>1, AppendProperties, SMTT(30)
  <2>4. \A i \in 1 .. Len(m.hdr) : m.hdr[i] = h[i]
    <3>1. \A i \in 1 .. Len(m.hdr) : i \in 1 .. pos \/ i = pos + 1
      BY <1>1, <2>3
    <3>2. QED
      BY <2>3, <3>1
  <2>5. Header(ino'[m.afd.ino]) = h
    BY <1>1, <2>1 DEF h, c, ArchFile
  <2>6. Listed("readHeader", m, ino')
    BY <1>3, <2>1, <2>2, <2>3, <2>4, <2>5 DEF Listed, InputLabels
  <2>7. QED
    BY <1>5, <2>6, GotoList DEF m
<1>6. CASE Goto(p, "garbled", me)
  <2>1. Listed("garbled", me, ino')
    BY DEF Listed, InputLabels
  <2>2. QED
    BY <1>6, <2>1, GotoList
<1>7. ASSUME ~(pos < Len(c) /\ c[pos + 1].tag = "entry"),
             AfterHeader(p, [me EXCEPT !.afd.pos = 0, !.k = 1])
      PROVE  ListOf(p)'
  <2> DEFINE m == [me EXCEPT !.afd.pos = 0, !.k = 1]
  <2>1. /\ m.hdr = me.hdr /\ m.added = me.added /\ m.cmd = me.cmd /\ m.k = 1
        /\ m.afd.ino = me.afd.ino
    BY <1>1 DEF Local, Fd
  <2>2. AfterHeader(p, m)
    BY <1>7
  <2> HIDE DEF m
  <2>3. \/ Exit(p)
        \/ Op(p) = "input" /\ Goto(p, "stat", m)
        \/ Goto(p, "filter", m)
        \/ Op(p) = "extract" /\ Goto(p, "member", m)
    BY <1>1, <2>2 DEF AfterHeader
  <2>4. ~(pos < Len(h))
    <3>1. pos < Len(h) => pos + 1 \in 1 .. Len(h) /\ pos < Len(c)
      BY <1>1, <1>2
    <3>2. QED
      BY <1>4, <1>7, <3>1
  <2>5. me.hdr = h
    <3>1. Len(me.hdr) = Len(h) /\ pos = Len(h)
      BY <1>1, <1>2, <1>3, <2>4
    <3>2. QED
      BY <1>2, <1>3, <3>1, SeqEqual
  <2>6. Header(ino'[m.afd.ino]) = h
    BY <1>1, <2>1 DEF h, c, ArchFile
  <2>7. Op(p) = "input" => Listed("stat", m, ino')
    BY <1>2, <1>3, <2>1, <2>5, <2>6 DEF Listed, InputLabels, Op
  <2>8. Filtered(h, m.hdr, m.k, Kept(h, m.cmd), 0) /\ 0 \in 0 .. Len(h)
    BY <1>2, <2>1, <2>5, FilterStarts, KeptPlaces
  <2>9. Listed("filter", m, ino')
    BY <1>3, <2>1, <2>6, <2>8 DEF Listed, InputLabels
  <2>10. Op(p) = "extract" => Listed("member", m, ino')
    BY <2>1 DEF Listed, InputLabels, Op
  <2>11. QED
    BY <2>3, <2>7, <2>9, <2>10, ExitList, GotoList
<1>8. QED
  BY <1>5, <1>6, <1>7 DEF ReadHeader, c, pos

LEMMA StatFileList ==
    ASSUME TypeInv, NEW p \in Procs, DraftOf(p), ListOf(p), StatFile(p)
    PROVE  ListOf(p)'
<1> DEFINE me == loc[p]
<1>1. pc[p] = "stat" /\ me \in Local /\ ino' = ino /\ Op(p) = "input"
  BY LocalFacts DEF StatFile, DraftOf, Draft, InputLabels, Op
<1>2. CASE Exit(p)
  BY <1>2, ExitList
<1>3. ASSUME NEW l \in {"writeHeader", "measure", "stat"}, NEW m, Goto(p, l, m),
             \/ m = me \/ m = [me EXCEPT !.k = 1]
             \/ \E e : m = [me EXCEPT !.k = @ + 1, !.err = e]
      PROVE  ListOf(p)'
  <2>1. m.hdr = me.hdr /\ m.added = me.added /\ m.cmd = me.cmd /\ m.afd = me.afd
    BY <1>1, <1>3, Zenon DEF Local
  <2>2. QED
    BY <1>1, <1>3, <2>1, SameList, Zenon DEF InputLabels
<1>4. QED
  BY <1>2, <1>3, Zenon DEF StatFile

LEMMA MeasureFileList ==
    ASSUME TypeInv, NEW p \in Procs, DraftOf(p), ListOf(p), MeasureFile(p)
    PROVE  ListOf(p)'
<1> DEFINE me == loc[p]
           f == Args(p)[me.k]
           fi == [tag |-> "entry", name |-> Base[f], size |-> MeasuredSize(f),
                  mask |-> disk[f].mode, off |-> 0]
           m == [me EXCEPT !.hdr = Append(@, fi), !.k = @ + 1, !.added = @ + 1,
                           !.err = @ \/ ~Readable(f)]
           h == Header(ArchFile(p))
<1>1. /\ pc[p] = "measure" /\ me \in Local /\ ino' = ino /\ Op(p) = "input"
      /\ Goto(p, "stat", m)
  BY LocalFacts DEF MeasureFile, DraftOf, Draft, InputLabels, Op
<1>2. /\ Len(me.hdr) = Len(h) + me.added /\ \A i \in 1 .. Len(h) : me.hdr[i] = h[i]
  BY <1>1 DEF ListOf, Listed, InputLabels, Op, ArchFile
<1>3. Len(h) \in Nat /\ me.hdr \in Seq(Entry) /\ me.added \in Nat
  BY <1>1, ArchiveFacts
<1> HIDE DEF fi
<1>4. /\ m.hdr = Append(me.hdr, fi) /\ m.added = me.added + 1 /\ m.cmd = me.cmd
      /\ m.afd = me.afd
  BY <1>1 DEF Local
<1> HIDE DEF m
<1>5. Header(ino'[m.afd.ino]) = h
  BY <1>1, <1>4 DEF ArchFile
<1> HIDE DEF h
<1>6. /\ Len(m.hdr) = Len(me.hdr) + 1
      /\ \A i \in 1 .. Len(me.hdr) : m.hdr[i] = me.hdr[i]
  BY <1>3, <1>4
<1>7. Len(m.hdr) = Len(h) + m.added /\ \A i \in 1 .. Len(h) : m.hdr[i] = h[i]
  BY <1>2, <1>3, <1>4, <1>6, SMTT(30)
<1>8. Listed("stat", m, ino')
  BY <1>1, <1>4, <1>5, <1>7 DEF Listed, InputLabels, Op
<1>9. QED
  BY <1>1, <1>8, GotoList

LEMMA FilterHeaderList ==
    ASSUME TypeInv, NEW p \in Procs, ListOf(p), FilterHeader(p)
    PROVE  ListOf(p)'
<1> DEFINE me == loc[p]
           h == Header(ArchFile(p))
           S == Kept(h, me.cmd)
           n == Len(me.hdr)
           e == me.hdr[me.k]
<1>1. /\ pc[p] = "filter" /\ me \in Local /\ ino' = ino /\ me.k \in Nat
      /\ Op(p) = me.cmd.op
  BY LocalFacts DEF FilterHeader, Local, Op
<1>2. h \in Seq(Entry) /\ me.hdr \in Seq(Entry) /\ S \subseteq 1 .. Len(h)
  BY <1>1, ArchiveFacts, KeptPlaces
<1>3. CASE Op(p) = "remove"
  <2>1. PICK j \in 0 .. Len(h) : Filtered(h, me.hdr, me.k, S, j)
    BY <1>1, <1>3 DEF ListOf, Listed, ArchFile
  <2>2. me.added = 0
    BY <1>1, <1>3 DEF ListOf, Listed
  <2>3. \A m : m.afd = me.afd => Header(ino'[m.afd.ino]) = h
    BY <1>1 DEF ArchFile
  <2>4. CASE me.k > n
    <3> DEFINE m == [me EXCEPT !.k = 1]
    <3>1. m.hdr = me.hdr /\ m.added = me.added /\ m.cmd = me.cmd /\ m.afd = me.afd
      BY <1>1 DEF Local
    <3>2. Goto(p, "writeHeader", m)
      BY <1>3, <2>4 DEF FilterHeader
    <3> HIDE DEF m, h
    <3>3. Filtered(h, me.hdr, n + 1, S, Len(h))
      <4>1. ~(me.k <= Len(me.hdr))
        BY <1>1, <1>2, <2>4, LenProperties
      <4> HIDE DEF S
      <4>2. QED
        BY <1>1, <1>2, <2>1, <4>1, FilterEnds
    <3>4. Listed("writeHeader", m, ino')
      BY <1>1, <1>3, <2>2, <2>3, <3>1, <3>3 DEF Listed, InputLabels
    <3>5. QED
      BY <3>2, <3>4, GotoList
  <2>5. CASE ~(me.k > n)
    <3>1. me.k <= n /\ 1 <= me.k /\ me.k \in DOMAIN me.hdr
      <4>1. n \in Nat /\ me.k # 0
        BY <1>1, <1>2, LocalFacts, LenProperties DEF Reached, InRange, LoopLabels
      <4>2. QED
        BY <1>1, <1>2, <2>5, <4>1
    <3>2. e = h[j + 1] /\ j + 1 \in 1 .. Len(h)
      <4>1. /\ me.k = Rank(S, j) + 1 /\ n = me.k - 1 + (Len(h) - j)
            /\ \A x \in 1 .. Len(h) - j : me.hdr[me.k - 1 + x] = h[j + x]
        BY <2>1 DEF Filtered
      <4>2. Len(h) \in Nat /\ n \in Nat
        BY <1>2, LenProperties
      <4> HIDE DEF n, h, S
      <4>3. 1 \in 1 .. Len(h) - j /\ me.k - 1 + 1 = me.k /\ j + 1 \in 1 .. Len(h)
        BY <1>1, <2>1, <3>1, <4>1, <4>2
      <4>4. QED
        BY <4>1, <4>3
    <3>3. Dropped(p, e) <=> j + 1 \notin S
      <4>1. DOMAIN h = 1 .. Len(h)
        BY <1>2
      <4>2. j + 1 \in S <=> h[j + 1].name \notin ToSet(Args(p))
        BY <1>1, <1>3, <3>2, <4>1 DEF Kept, Args
      <4>3. Dropped(p, e) <=> e.name \in ToSet(Args(p))
        BY <1>3 DEF Dropped, ToSet
      <4>4. QED
        BY <3>2, <4>2, <4>3
    <3>4. CASE Dropped(p, e)
      <4> DEFINE m == [me EXCEPT !.hdr = DropNode(@, me.k)]
      <4>1. /\ m.hdr = DropNode(me.hdr, me.k) /\ m.added = me.added /\ m.cmd = me.cmd
            /\ m.afd = me.afd /\ m.k = me.k
        BY <1>1 DEF Local
      <4>2. Goto(p, "filter", m)
        BY <2>5, <3>4 DEF FilterHeader
      <4> HIDE DEF m, h
      <4>3. Filtered(h, DropNode(me.hdr, me.k), me.k, S, j + 1) /\ j + 1 \in 0 .. Len(h)
        <5>1. j + 1 \notin S /\ me.k <= Len(me.hdr)
          BY <3>1, <3>3, <3>4
        <5> HIDE DEF S
        <5>2. QED
          BY <1>1, <1>2, <2>1, <5>1, FilterDrops
      <4>4. Listed("filter", m, ino')
        BY <2>2, <2>3, <4>1, <4>3 DEF Listed, InputLabels
      <4>5. QED
        BY <4>2, <4>4, GotoList
    <3>5. CASE ~Dropped(p, e)
      <4> DEFINE m == [me EXCEPT !.k = @ + 1]
      <4>1. /\ m.hdr = me.hdr /\ m.added = me.added /\ m.cmd = me.cmd
            /\ m.afd = me.afd /\ m.k = me.k + 1
        BY <1>1 DEF Local
      <4>2. Goto(p, "filter", m)
        BY <2>5, <3>5 DEF FilterHeader
      <4> HIDE DEF m, h
      <4>3. Filtered(h, me.hdr, me.k + 1, S, j + 1) /\ j + 1 \in 0 .. Len(h)
        <5>1. j + 1 \in S /\ me.k <= Len(me.hdr)
          BY <3>1, <3>3, <3>5
        <5> HIDE DEF S
        <5>2. QED
          BY <1>1, <1>2, <2>1, <5>1, FilterKeeps
      <4>4. Listed("filter", m, ino')
        BY <2>2, <2>3, <4>1, <4>3 DEF Listed, InputLabels
      <4>5. QED
        BY <4>2, <4>4, GotoList
    <3>6. QED
      BY <3>4, <3>5
  <2>6. QED
    BY <2>4, <2>5
<1>4. CASE Op(p) # "remove"
  <2>1. \A l, m : l \in {"filter", "member"} /\ m.cmd = me.cmd => Listed(l, m, ino')
    BY <1>1, <1>4 DEF Listed, InputLabels
  <2>2. ASSUME NEW l \in {"filter", "member"}, NEW m, Goto(p, l, m),
               \/ m = [me EXCEPT !.k = 1] \/ m = [me EXCEPT !.hdr = DropNode(@, me.k)]
               \/ m = [me EXCEPT !.k = @ + 1]
        PROVE  ListOf(p)'
    <3>1. m.cmd = me.cmd
      BY <1>1, <2>2 DEF Local
    <3>2. QED
      BY <2>1, <2>2, <3>1, GotoList
  <2>3. QED
    BY <1>4, <2>2 DEF FilterHeader
<1>5. QED
  BY <1>3, <1>4

LEMMA WriteHeaderList ==
    ASSUME TypeInv, Private, NEW p \in Procs, DraftOf(p), ListOf(p), WriteHeader(p)
    PROVE  ListOf(p)'
<1> DEFINE me == loc[p]
<1>1. /\ pc[p] = "writeHeader" /\ me \in Local /\ Op(p) \in {"input", "remove"}
  BY LocalFacts DEF WriteHeader, DraftOf, Draft, Op
<1>2. ino'[me.afd.ino] = ino[me.afd.ino]
  BY <1>1, ArchiveStays, ArchiveFacts DEF Step
<1>3. ASSUME NEW l, l = IF Op(p) = "input" THEN "locate" ELSE "member", NEW m,
             m = [me EXCEPT !.k = 1, !.raw = 0, !.tfd.pos = @ + 1], Goto(p, l, m)
      PROVE  ListOf(p)'
  <2>1. m.hdr = me.hdr /\ m.added = me.added /\ m.cmd = me.cmd /\ m.afd = me.afd
    BY <1>1, <1>3 DEF Local
  <2>2. QED
    BY <1>1, <1>2, <1>3, <2>1, SameList DEF InputLabels
<1>4. ASSUME NEW m, NEW r, m = [me EXCEPT !.k = @ + 1, !.tfd.pos = @ + 1, !.raw = r],
             Goto(p, "writeHeader", m)
      PROVE  ListOf(p)'
  <2>1. m.hdr = me.hdr /\ m.added = me.added /\ m.cmd = me.cmd /\ m.afd = me.afd
    BY <1>1, <1>4 DEF Local
  <2>2. QED
    BY <1>1, <1>2, <1>4, <2>1, SameList
<1>5. QED
  BY <1>3, <1>4, Zenon DEF WriteHeader

LEMMA InsertList ==
    ASSUME TypeInv, Private, NEW p \in Procs, DraftOf(p), ListOf(p),
           LocateData(p) \/ CopyOld(p) \/ OpenSource(p) \/ CopySource(p)
    PROVE  ListOf(p)'
<1> DEFINE me == loc[p]
<1>1. /\ pc[p] \in {"locate", "copyOld", "openSource", "copySource"} /\ me \in Local
      /\ Op(p) = "input"
  BY LocalFacts
  DEF LocateData, CopyOld, OpenSource, CopySource, DraftOf, Draft, InputLabels, Op
<1>2. ino'[me.afd.ino] = ino[me.afd.ino]
  BY <1>1, ArchiveStays, ArchiveFacts DEF Step
<1>3. ASSUME NEW l \in {"copyOld", "openSource", "copySource", "unlink"}, NEW m, Goto(p, l, m),
             \/ m = me
             \/ \E x : m = [me EXCEPT !.afd.pos = x]
             \/ \E x : m = [me EXCEPT !.k = x]
             \/ \E x : m = [me EXCEPT !.pos = x]
             \/ \E x, y : m = [me EXCEPT !.afd.pos = x, !.tfd.pos = y]
             \/ \E x, y : m = [me EXCEPT !.pos = x, !.tfd.pos = y]
      PROVE  ListOf(p)'
  <2>1. m.hdr = me.hdr /\ m.added = me.added /\ m.cmd = me.cmd /\ m.afd.ino = me.afd.ino
    <3>1. me.afd \in Fd
      BY <1>1 DEF Local
    <3>2. CASE m = me \/ (\E x : m = [me EXCEPT !.k = x]) \/ (\E x : m = [me EXCEPT !.pos = x])
      BY <1>1, <3>2 DEF Local
    <3>3. CASE \E x : m = [me EXCEPT !.afd.pos = x]
      BY <1>1, <3>1, <3>3 DEF Local, Fd
    <3>4. CASE \E x, y : m = [me EXCEPT !.afd.pos = x, !.tfd.pos = y]
      BY <1>1, <3>1, <3>4 DEF Local, Fd
    <3>5. CASE \E x, y : m = [me EXCEPT !.pos = x, !.tfd.pos = y]
      BY <1>1, <3>1, <3>5 DEF Local
    <3>6. QED
      BY <1>3, <3>2, <3>3, <3>4, <3>5, Zenon
  <2>2. QED
    BY <1>1, <1>2, <1>3, <2>1, SameList, Zenon DEF InputLabels
<1>4. CASE LocateData(p)
  BY <1>3, <1>4, ExitList, Zenon DEF LocateData
<1>5. CASE CopyOld(p)
  BY <1>3, <1>5, Zenon DEF CopyOld
<1>6. CASE OpenSource(p)
  BY <1>3, <1>6, Zenon DEF OpenSource
<1>7. CASE CopySource(p)
  BY <1>3, <1>7, Zenon DEF CopySource
<1>8. QED
  BY <1>4, <1>5, <1>6, <1>7

LEMMA MemberList ==
    ASSUME TypeInv, Private, NEW p \in Procs, ListOf(p), NextMember(p) \/ CopyMember(p)
    PROVE  ListOf(p)'
<1> DEFINE me == loc[p]
<1>1. /\ pc[p] \in {"member", "copyMember"} /\ me \in Local
      /\ Op(p) \in {"input", "remove", "extract", "stat"}
  BY LocalFacts, Zenon DEF NextMember, CopyMember
<1>2. ino'[me.afd.ino] = ino[me.afd.ino]
  BY <1>1, ArchiveStays, ArchiveFacts DEF Step
<1>3. ASSUME NEW l \in {"member", "copyMember", "unlink"}, NEW m, Goto(p, l, m),
             l = "unlink" => Op(p) = "remove",
             \/ m = me \/ \E x : m = [me EXCEPT !.k = x]
             \/ \E x, y, z : m = [me EXCEPT !.left = x, !.pos = y, !.afd.pos = z]
             \/ \E x, y, z : m = [me EXCEPT !.left = x, !.afd.pos = y, !.tfd.pos = z]
             \/ \E x, y, z : m = [me EXCEPT !.left = x, !.afd.pos = y, !.pos = z]
      PROVE  ListOf(p)'
  <2>1. m.hdr = me.hdr /\ m.added = me.added /\ m.cmd = me.cmd /\ m.afd.ino = me.afd.ino
    <3>1. me.afd \in Fd
      BY <1>1 DEF Local
    <3>2. CASE m = me \/ \E x : m = [me EXCEPT !.k = x]
      BY <1>1, <3>2 DEF Local
    <3>3. CASE \E x, y, z : m = [me EXCEPT !.left = x, !.pos = y, !.afd.pos = z]
      BY <1>1, <3>1, <3>3 DEF Local, Fd
    <3>4. CASE \E x, y, z : m = [me EXCEPT !.left = x, !.afd.pos = y, !.tfd.pos = z]
      BY <1>1, <3>1, <3>4 DEF Local, Fd
    <3>5. CASE \E x, y, z : m = [me EXCEPT !.left = x, !.afd.pos = y, !.pos = z]
      BY <1>1, <3>1, <3>5 DEF Local, Fd
    <3>6. QED
      BY <1>3, <3>2, <3>3, <3>4, <3>5, Zenon
  <2>2. CASE Op(p) # "input"
    BY <1>1, <1>2, <1>3, <2>1, <2>2, SameList, Zenon
  <2>3. CASE Op(p) = "input"
    <3>1. Listed(l, m, ino')
      BY <1>3, <2>1, <2>3, Zenon DEF Listed, InputLabels, Op
    <3>2. QED
      BY <1>3, <3>1, GotoList, Zenon
  <2>4. QED
    BY <2>2, <2>3
<1>4. CASE NextMember(p)
  <2> DEFINE e == me.hdr[me.k]
             ready == [me EXCEPT !.left = e.size, !.pos = 0, !.afd.pos = Seek(e.off, @)]
  <2>1. \/ Exit(p)
        \/ Op(p) = "remove" /\ Goto(p, "unlink", me)
        \/ Goto(p, "copyMember", ready)
        \/ Goto(p, "member", [me EXCEPT !.k = @ + 1])
    BY <1>4, Zenon DEF NextMember
  <2>2. QED
    BY <1>3, <2>1, ExitList, Zenon
<1>5. CASE CopyMember(p)
  <2> DEFINE n == ChunkSize(me.left)
             read == ReadCount(ArchFile(p), me.afd.pos, n)
             rest == [me EXCEPT !.left = @ - n, !.afd.pos = @ + read]
  <2>1. \/ Goto(p, "member", [me EXCEPT !.k = @ + 1])
        \/ Goto(p, "copyMember", [rest EXCEPT !.tfd.pos = @ + n])
        \/ Goto(p, "copyMember", [rest EXCEPT !.pos = @ + n])
    BY <1>5, Zenon DEF CopyMember
  <2> HIDE DEF n, read
  <2>2. /\ \E x, y, z : [rest EXCEPT !.tfd.pos = @ + n]
                            = [me EXCEPT !.left = x, !.afd.pos = y, !.tfd.pos = z]
        /\ \E x, y, z : [rest EXCEPT !.pos = @ + n]
                            = [me EXCEPT !.left = x, !.afd.pos = y, !.pos = z]
    BY <1>1, Zenon DEF Local, Fd
  <2>3. QED
    BY <1>3, <2>1, <2>2, Zenon
<1>6. QED
  BY <1>4, <1>5

LEMMA UnlinkList ==
    ASSUME TypeInv, NEW p \in Procs, DraftOf(p), ListOf(p), Unlink(p)
    PROVE  ListOf(p)'
<1>1. pc[p] = "unlink" /\ Op(p) \in {"input", "remove"} /\ ino' = ino /\ Goto(p, "rename", loc[p])
  BY DEF Unlink, DraftOf, Draft, Op
<1>2. QED
  BY <1>1, SameList

LEMMA StepList ==
    ASSUME TypeInv, Private, Formed, NEW p \in Procs, DraftOf(p), ListOf(p), Step(p)
    PROVE  ListOf(p)'
  BY OpenWorkList, OpenArchiveList, ReadHeaderList, StatFileList, MeasureFileList,
     FilterHeaderList, WriteHeaderList, InsertList, MemberList, UnlinkList, ExitList
  DEF Step, Rename, Refuse

ListInv == \A p \in Procs : ListOf(p)

\* A process with a list has the archive open.
LEMMA ListOfOpen ==
    ASSUME TypeInv, NEW p \in Procs, ListOf(p), NEW files,
           files \in [Inodes -> Seq(Cell)],
           loc[p].afd.ino \in Inodes => files[loc[p].afd.ino] = ino[loc[p].afd.ino]
    PROVE  Listed(pc[p], loc[p], files)
<1>1. CASE pc[p] \in {"idle", "openWork", "openArchive"}
  <2>1. /\ pc[p] \notin InputLabels \cup {"writeHeader", "unlink", "rename"}
        /\ pc[p] \notin {"readHeader", "filter", "writeHeader", "member", "copyMember",
                         "unlink", "rename"}
    BY <1>1 DEF InputLabels
  <2> DEFINE l == pc[p]
             m == loc[p]
  <2>2. l \in {"openWork", "openArchive"} => m.hdr = <<>> /\ m.added = 0 /\ m.afd.pos = 0
    BY DEF ListOf, Listed
  <2> HIDE DEF l, m
  <2>3. /\ l \notin InputLabels \cup {"writeHeader", "unlink", "rename"}
        /\ l # "readHeader" /\ l # "filter"
        /\ l \notin {"writeHeader", "member", "copyMember", "unlink", "rename"}
    BY <2>1 DEF l
  <2>4. Listed(l, m, files)
    BY <2>2, <2>3, Zenon DEF Listed
  <2>5. QED
    BY <2>4 DEF l, m
<1>2. CASE pc[p] \notin {"idle", "openWork", "openArchive"}
  <2>1. files[loc[p].afd.ino] = ino[loc[p].afd.ino]
    BY <1>2, ArchiveFacts
  <2>2. QED
    BY <2>1, Zenon DEF ListOf, Listed
<1>3. QED
  BY <1>1, <1>2

LEMMA NextListInv ==
    ASSUME TypeInv, Private, Formed, DraftInv, ListInv, [Running]_vars
    PROVE  ListInv'
<1>0. ino' \in [Inodes -> Seq(Cell)]
  <2>1. TypeInv'
    BY StepTypeInv, StutterTypeInv, StartInv, CrashInv, EditInv DEF Running, Finished
  <2>2. QED
    BY <2>1 DEF TypeInv, TypeOK
<1>1. ASSUME NEW q \in Procs, pc'[q] = pc[q], loc'[q] = loc[q] PROVE ListOf(q)'
  <2>1. loc[q].afd.ino \in Inodes => ino'[loc[q].afd.ino] = ino[loc[q].afd.ino]
    BY StepImmutable DEF Visible
  <2>2. Listed(pc[q], loc[q], ino')
    BY <1>0, <2>1, ListOfOpen DEF ListInv
  <2>3. QED
    BY <1>1, <2>2 DEF ListOf
<1>2. ASSUME NEW p \in Procs, Start(p) \/ Crash(p) \/ Step(p) PROVE ListInv'
  <2>1. ListOf(p)'
    <3>1. CASE Crash(p)
      <4>1. Listed("idle", Idle, ino')
        BY DEF Listed, InputLabels
      <4>2. QED
        BY <3>1, <4>1 DEF Crash, ListOf, TypeInv, TypeOK
    <3>2. QED
      BY <1>2, <3>1, StartList, StepList DEF ListInv, DraftInv
  <2>2. OthersStay(p)
    <3>1. CASE Start(p)
      BY <3>1 DEF Start, OthersStay, TypeInv, TypeOK
    <3>2. CASE Crash(p)
      BY <3>2 DEF Crash, OthersStay, TypeInv, TypeOK
    <3>3. QED
      BY <1>2, <3>1, <3>2, StepOthers
  <2>3. QED
    BY <1>1, <2>1, <2>2 DEF ListInv, OthersStay
<1>3. CASE UNCHANGED <<pc, loc>>
  BY <1>1, <1>3 DEF ListInv
<1>4. QED
  BY <1>2, <1>3 DEF Running, Edit, Finished, vars

LEMMA InitListInv == Init => ListInv
  BY DEF Init, ListInv, ListOf, Listed, InputLabels

-----------------------------------------------------------------------------
(* The data of the members that are kept.                                  *)

\* A file that lseek() and off_t can address (the kernel lets no file grow
\* past the largest off_t).
Fits(c) == Len(c) < (Word + 1) \div 2

LEMMA FitsFacts ==
    ASSUME NEW c \in Seq(Cell), Fits(c)
    PROVE  /\ Len(c) \in Nat /\ Len(c) < Word
           /\ \A off \in Nat : \A pos : off <= Len(c) => Seek(off, pos) = off
<1>1. Len(c) \in Nat /\ Word \in Nat \ {0} /\ Len(c) < (Word + 1) \div 2
  BY LenProperties, FormatAssumption DEF Fits
<1>2. (Word + 1) \div 2 \in Nat /\ 2 * ((Word + 1) \div 2) <= Word + 1
  BY <1>1
<1>3. Len(c) < Word
  BY <1>1, <1>2
<1>4. QED
  BY <1>1, <1>2, <1>3 DEF Seek

LEMMA ModSmall == ASSUME NEW x \in Nat, x < Word PROVE x % Word = x
<1>1. Word \in Nat \ {0}
  BY FormatAssumption
<1>2. QED
  BY <1>1

\* Offsets of an intact archive lie behind its header.
LEMMA OffsetsBehind ==
    ASSUME NEW c \in Seq(Cell), WellFormed(c), c # <<>>, Fits(c), NEW n, n = Len(Header(c)),
           \A i \in 1 .. n : Intact(c, Header(c)[i])
    PROVE  \A i \in 1 .. n : Header(c)[i].off >= n + 1
<1> DEFINE h == Header(c)
           B == {i \in 1 .. n : ~(h[i].off >= n + 1)}
<1>1. /\ n \in Nat /\ Len(c) \in Nat /\ Len(c) < Word /\ n < Len(c) /\ Word \in Nat
      /\ \A i \in 1 .. n : h[i].off \in Nat /\ h[i].size \in Nat
  <2>1. h \in Seq(Entry) /\ n \in Nat /\ n < Len(c)
    BY HeaderFacts, LenProperties DEF WellFormed
  <2>2. \A i \in 1 .. n : h[i] \in Entry
    BY <2>1, ElementOfSeq
  <2>3. QED
    BY <2>1, <2>2, FitsFacts, FormatAssumption DEF Entry, UInt
<1>2. /\ n > 0 => h[1].off = (n + 1) % Word
      /\ \A i \in 1 .. n - 1 : h[i + 1].off = (h[i].off + h[i].size) % Word
      /\ \A i \in 1 .. n : h[i].off + h[i].size <= Len(c)
  BY DEF WellFormed, Intact
<1> HIDE DEF h
<1>3. n > 0 => h[1].off = n + 1
  <2>1. n + 1 \in Nat /\ n + 1 < Word
    BY <1>1
  <2>2. QED
    BY <1>2, <2>1, ModSmall
<1>4. ASSUME NEW i \in 1 .. n - 1, h[i].off >= n + 1 PROVE h[i + 1].off >= n + 1
  <2>1. h[i].off \in Nat /\ h[i].size \in Nat /\ h[i].off + h[i].size <= Len(c)
    BY <1>1, <1>2
  <2>2. h[i].off + h[i].size \in Nat /\ h[i].off + h[i].size < Word
    BY <1>1, <2>1, SMTT(30)
  <2>3. h[i + 1].off = h[i].off + h[i].size
    BY <1>2, <2>2, ModSmall
  <2>4. QED
    BY <1>1, <1>4, <2>1, <2>3, SMTT(30)
<1>5. B = {}
  <2> SUFFICES ASSUME B # {} PROVE FALSE
    OBVIOUS
  <2>1. B \subseteq Nat
    OBVIOUS
  <2>2. PICK i \in B : \A j \in B : i <= j
    <3> HIDE DEF B
    <3>1. QED
      BY <2>1, LeastNatural
  <2>3. i \in 1 .. n /\ ~(h[i].off >= n + 1)
    BY <2>2
  <2>4. i # 1
    BY <1>1, <1>3, <2>3
  <2>5. i - 1 \in 1 .. n - 1 /\ i - 1 \in 1 .. n /\ i - 1 + 1 = i /\ ~(i <= i - 1)
    BY <1>1, <2>3, <2>4
  <2>6. i - 1 \notin B
    BY <2>2, <2>5
  <2>7. h[i - 1].off >= n + 1
    BY <2>5, <2>6
  <2>8. QED
    BY <1>4, <2>3, <2>5, <2>7
<1>6. QED
  BY <1>5 DEF h

\* A header that goes on where another one ends has the same offsets, moved
\* by the room its other entries take.
LEMMA OffsetsShift ==
    ASSUME NEW c \in Seq(Cell), WellFormed(c), c # <<>>,
           NEW w \in Seq(Cell), WellFormed(w), w # <<>>,
           NEW n, n = Len(Header(c)), NEW a \in Nat, Len(Header(w)) = n + a,
           \A i \in 1 .. n : Header(w)[i].size = Header(c)[i].size
    PROVE  \A i \in 1 .. n : Header(w)[i].off = (Header(c)[i].off + a) % Word
<1> DEFINE h == Header(c)
           g == Header(w)
           B == {i \in 1 .. n : ~(g[i].off = (h[i].off + a) % Word)}
<1>1. /\ n \in Nat
      /\ \A i \in 1 .. n : h[i].off \in Nat /\ h[i].size \in Nat
  <2>1. h \in Seq(Entry) /\ n \in Nat
    BY HeaderFacts, LenProperties
  <2>2. \A i \in 1 .. n : h[i] \in Entry
    BY <2>1, ElementOfSeq
  <2>3. QED
    BY <2>1, <2>2 DEF Entry, UInt
<1>2. /\ n > 0 => h[1].off = (n + 1) % Word
      /\ \A i \in 1 .. n - 1 : h[i + 1].off = (h[i].off + h[i].size) % Word
  BY DEF WellFormed
<1>3. /\ n + a > 0 => g[1].off = (n + a + 1) % Word
      /\ \A i \in 1 .. n + a - 1 : g[i + 1].off = (g[i].off + g[i].size) % Word
  BY DEF WellFormed
<1>4. \A i \in 1 .. n : g[i].size = h[i].size
  OBVIOUS
<1> HIDE DEF h, g
<1>5. n > 0 => g[1].off = (h[1].off + a) % Word
  <2> SUFFICES ASSUME n > 0 PROVE g[1].off = (h[1].off + a) % Word
    OBVIOUS
  <2>1. n + 1 \in Nat /\ n + a > 0 /\ n + a + 1 = n + 1 + a
    BY <1>1
  <2>2. (((n + 1) % Word) + a) % Word = (n + 1 + a) % Word
    BY <2>1, ModWordSum
  <2>3. QED
    BY <1>2, <1>3, <2>1, <2>2
<1>6. ASSUME NEW i \in 1 .. n - 1, g[i].off = (h[i].off + a) % Word
      PROVE  g[i + 1].off = (h[i + 1].off + a) % Word
  <2> DEFINE o == h[i].off
             s == h[i].size
  <2>1. /\ i \in 1 .. n /\ i \in 1 .. n + a - 1 /\ o \in Nat /\ s \in Nat
        /\ g[i + 1].off = (g[i].off + s) % Word /\ h[i + 1].off = (o + s) % Word
    BY <1>1, <1>2, <1>3, <1>4
  <2>2. g[i].off = (o + a) % Word
    BY <1>6
  <2> HIDE DEF o, s
  <2>3. o + a \in Nat /\ o + s \in Nat
    BY <2>1
  <2>4. (((o + a) % Word) + s) % Word = (o + a + s) % Word
    BY <2>1, <2>3, ModWordSum
  <2>5. (((o + s) % Word) + a) % Word = (o + s + a) % Word
    BY <2>1, <2>3, ModWordSum
  <2>6. o + a + s = o + s + a
    BY <2>1
  <2>7. QED
    BY <2>1, <2>2, <2>4, <2>5, <2>6
<1>7. B = {}
  <2> SUFFICES ASSUME B # {} PROVE FALSE
    OBVIOUS
  <2>1. B \subseteq Nat
    OBVIOUS
  <2>2. PICK i \in B : \A j \in B : i <= j
    <3> HIDE DEF B
    <3>1. QED
      BY <2>1, LeastNatural
  <2>3. i \in 1 .. n /\ ~(g[i].off = (h[i].off + a) % Word)
    BY <2>2
  <2>4. i # 1
    BY <1>1, <1>5, <2>3
  <2>5. i - 1 \in 1 .. n - 1 /\ i - 1 \in 1 .. n /\ i - 1 + 1 = i /\ ~(i <= i - 1)
    BY <1>1, <2>3, <2>4
  <2>6. i - 1 \notin B
    BY <2>2, <2>5
  <2>7. g[i - 1].off = (h[i - 1].off + a) % Word
    BY <2>5, <2>6
  <2>8. g[i - 1 + 1].off = (h[i - 1 + 1].off + a) % Word
    BY <1>6, <2>5, <2>7
  <2>9. QED
    BY <2>3, <2>5, <2>8
<1>8. QED
  BY <1>7 DEF h, g

\* What a process writes behind what it wrote before.
LEMMA WriteBehind ==
    ASSUME NEW w \in Seq(Cell), NEW t \in Nat, t <= Len(w), NEW b \in Seq(Cell)
    PROVE  /\ WriteAt(w, t, b) \in Seq(Cell)
           /\ Len(w) <= Len(WriteAt(w, t, b)) /\ t + Len(b) <= Len(WriteAt(w, t, b))
           /\ Fits(WriteAt(w, t, b)) => Fits(w)
           /\ \A i \in 1 .. t : WriteAt(w, t, b)[i] = w[i]
           /\ \A i \in 1 .. Len(b) : WriteAt(w, t, b)[t + i] = b[i]
<1> DEFINE v == WriteAt(w, t, b)
<1>1. /\ v \in Seq(Cell) /\ Len(w) \in Nat /\ Len(b) \in Nat /\ Len(v) \in Nat
      /\ Len(v) = IF t + Len(b) > Len(w) THEN t + Len(b) ELSE Len(w)
      /\ \A i \in 1 .. t : v[i] = w[i]
      /\ \A i \in 1 .. Len(b) : v[t + i] = b[i]
  BY WriteAtFacts, WriteAtCells, LenProperties
<1> HIDE DEF v
<1>2. Len(w) <= Len(v) /\ t + Len(b) <= Len(v)
  BY <1>1
<1>3. Fits(v) => Fits(w)
  <2>1. Word \in Nat /\ (Word + 1) \div 2 \in Nat
    BY FormatAssumption
  <2>2. QED
    BY <1>1, <1>2, <2>1 DEF Fits
<1>4. QED
  BY <1>1, <1>2, <1>3 DEF v

\* One chunk copied from c at pos to w at t.
ChunkArrives(w, t, c, pos, n) ==
    \A i \in 1 .. n : WriteAt(w, t, ReadInto(c, pos, n))[t + i] = c[pos + i]

LEMMA CopiedChunk ==
    ASSUME NEW c \in Seq(Cell), NEW pos \in Nat, NEW n \in Nat, pos + n <= Len(c),
           NEW w \in Seq(Cell), NEW t \in Nat, t <= Len(w)
    PROVE  ChunkArrives(w, t, c, pos, n)
<1> DEFINE b == ReadInto(c, pos, n)
<1>1. b \in Seq(Cell) /\ Len(b) = n
  BY ReadIntoFacts
<1>2. \A i \in 1 .. n : b[i] = c[pos + i]
  <2>1. \A i \in 1 .. n : pos + i <= Len(c)
    BY LenProperties
  <2>2. QED
    BY <2>1 DEF ReadInto
<1> HIDE DEF b
<1>3. \A i \in 1 .. n : WriteAt(w, t, b)[t + i] = b[i]
  BY <1>1, WriteBehind
<1>4. QED
  BY <1>2, <1>3 DEF b, ChunkArrives

Whole(c, hdr) == \A r \in 1 .. Len(hdr) : Intact(c, hdr[r])

\* The r-th member of w, written up to position t, holds the data of entry e
\* of c.
Holds(w, r, t, c, e) ==
    /\ Header(w)[r].off + e.size <= t
    /\ \A x \in 1 .. e.size : w[Header(w)[r].off + x] = c[e.off + x]

\* What -i has copied of the old data, all of it behind the header.
CopiedOld(l, m, c, w) ==
    LET n == Len(Header(c))
    IN  m.cmd.op = "input" /\ Header(c) # <<>> /\ Fits(c) =>
          /\ l = "copyOld" =>
                /\ n + 1 <= m.afd.pos /\ m.afd.pos <= Len(c)
                /\ m.tfd.pos = m.afd.pos + m.added
                /\ \A x \in n + 2 .. m.afd.pos : w[x + m.added] = c[x]
          /\ l \in {"openSource", "copySource", "unlink", "rename"} =>
                /\ Len(c) + m.added <= m.tfd.pos
                /\ \A x \in n + 2 .. Len(c) : w[x + m.added] = c[x]

\* Where the first r members of w end.
EndOf(w, r) == IF r = 0 THEN Len(Header(w)) + 1 ELSE Header(w)[r].off + Header(w)[r].size

\* What -r has copied of the members it keeps.
CopiedMembers(l, m, c, w) ==
    LET n == Len(m.hdr)
        e == m.hdr[m.k]
        start == Header(w)[m.k].off
    IN  m.cmd.op = "remove" /\ Fits(c) /\ Fits(w) /\ Whole(c, m.hdr) =>
          /\ l = "member" =>
                /\ m.k <= n + 1
                /\ m.k <= n => start = m.tfd.pos
                /\ m.k = n + 1 => m.tfd.pos = EndOf(w, n)
                /\ \A r \in 1 .. m.k - 1 : Holds(w, r, m.tfd.pos, c, m.hdr[r])
          /\ l = "copyMember" =>
                /\ m.left <= e.size /\ m.tfd.pos = start + (e.size - m.left)
                /\ m.afd.pos = e.off + (e.size - m.left)
                /\ \A x \in 1 .. e.size - m.left : w[start + x] = c[e.off + x]
                /\ \A r \in 1 .. m.k - 1 : Holds(w, r, m.tfd.pos, c, m.hdr[r])
          /\ l \in {"unlink", "rename"} =>
                /\ m.tfd.pos = EndOf(w, n)
                /\ \A r \in 1 .. n : Holds(w, r, m.tfd.pos, c, m.hdr[r])

Copied(l, m, files) ==
    /\ CopiedOld(l, m, files[m.afd.ino], files[m.tfd.ino])
    /\ CopiedMembers(l, m, files[m.afd.ino], files[m.tfd.ino])

CopiedOf(p) == Copied(pc[p], loc[p], ino)

CopyLabels == {"copyOld", "openSource", "copySource", "member", "copyMember", "unlink", "rename"}

LEMMA NothingCopied ==
    ASSUME NEW l, l \notin CopyLabels, NEW m, NEW files
    PROVE  Copied(l, m, files)
  BY DEF CopyLabels, Copied, CopiedOld, CopiedMembers

LEMMA GotoCopied ==
    ASSUME TypeInv, NEW p \in Procs, NEW l, NEW m, Goto(p, l, m), Copied(l, m, ino')
    PROVE  CopiedOf(p)'
<1>1. pc'[p] = l /\ loc'[p] = m
  BY DEF TypeInv, TypeOK, Goto
<1>2. QED
  BY <1>1 DEF CopiedOf

LEMMA ExitCopied == ASSUME TypeInv, NEW p \in Procs, Exit(p) PROVE CopiedOf(p)'
  BY GotoCopied, NothingCopied DEF Exit, CopyLabels

\* What is known of a process that copies for -i or -r.
LEMMA CopyFacts ==
    ASSUME TypeInv, Formed, NEW p \in Procs, DraftOf(p), pc[p] \in LateLabels,
           HasWork(pc[p], loc[p])
    PROVE  /\ loc[p] \in Local /\ loc[p].afd \in Fd /\ loc[p].tfd \in Fd
           /\ loc[p].hdr \in Seq(Entry) /\ Len(loc[p].hdr) \in Nat
           /\ loc[p].afd.pos \in Nat /\ loc[p].tfd.pos \in Nat
           /\ loc[p].k \in Nat /\ loc[p].added \in Nat /\ loc[p].left \in Nat
           /\ loc[p].afd.ino \in Inodes /\ ArchFile(p) \in Seq(Cell) /\ WellFormed(ArchFile(p))
           /\ loc[p].tfd.ino \in Inodes /\ WorkFile(p) \in Seq(Cell)
           /\ HeaderDone(WorkFile(p), loc[p].tfd.pos) /\ Lists(WorkFile(p), loc[p].hdr)
<1>1. loc[p] \in Local /\ pc[p] \notin {"idle", "openWork", "openArchive"}
  BY LocalFacts DEF LateLabels
<1>2. /\ loc[p].tfd.ino \in Inodes /\ HeaderDone(WorkFile(p), loc[p].tfd.pos)
      /\ Lists(WorkFile(p), loc[p].hdr)
  BY DEF DraftOf, Draft, WorkFile
<1>3. /\ loc[p].afd.ino \in Inodes /\ ArchFile(p) \in Seq(Cell) /\ WellFormed(ArchFile(p))
      /\ loc[p].hdr \in Seq(Entry) /\ Len(loc[p].hdr) \in Nat /\ loc[p].added \in Nat
  BY <1>1, ArchiveFacts DEF Formed
<1>4. WorkFile(p) \in Seq(Cell)
  BY <1>2, LocalFacts DEF FilesOK, WorkFile
<1>5. /\ loc[p].afd \in Fd /\ loc[p].tfd \in Fd /\ loc[p].afd.pos \in Nat
      /\ loc[p].tfd.pos \in Nat /\ loc[p].k \in Nat /\ loc[p].left \in Nat
  BY <1>1, UIntFacts DEF Local, Fd
<1>6. QED
  BY <1>1, <1>2, <1>3, <1>4, <1>5

\* Steps that change neither file and none of what Copied looks at.
LEMMA SameCopied ==
    ASSUME TypeInv, NEW p \in Procs, CopiedOf(p), NEW l, NEW m, Goto(p, l, m), ino' = ino,
           m.cmd = loc[p].cmd, m.added = loc[p].added, m.hdr = loc[p].hdr,
           m.tfd = loc[p].tfd, m.afd = loc[p].afd,
           \/ /\ pc[p] \in {"openSource", "copySource"} /\ Op(p) = "input"
              /\ l \in {"openSource", "copySource", "unlink"}
           \/ pc[p] = "unlink" /\ l = "rename"
    PROVE  CopiedOf(p)'
<1>1. CopiedOld(l, m, ino[m.afd.ino], ino[m.tfd.ino])
  BY DEF CopiedOf, Copied, CopiedOld
<1>2. CopiedMembers(l, m, ino[m.afd.ino], ino[m.tfd.ino])
  BY Zenon DEF CopiedOf, Copied, CopiedMembers, Op
<1>3. QED
  BY <1>1, <1>2, GotoCopied DEF Copied

LEMMA LocateDataCopied ==
    ASSUME TypeInv, Formed, NEW p \in Procs, DraftOf(p), ListOf(p), LocateData(p)
    PROVE  CopiedOf(p)'
<1> DEFINE me == loc[p]
           c == ArchFile(p)
           h == Header(c)
           n == Len(h)
<1>1. pc[p] = "locate" /\ ino' = ino /\ Op(p) = "input"
  BY DEF LocateData, DraftOf, Draft, InputLabels, Op
<1>2. /\ me \in Local /\ me.afd \in Fd /\ me.afd.pos \in Nat /\ me.added \in Nat
      /\ c \in Seq(Cell) /\ WellFormed(c) /\ Len(me.hdr) \in Nat
  BY <1>1, CopyFacts DEF LateLabels, HasWork
<1>3. me.tfd.pos = Len(me.hdr) + 1 /\ Len(me.hdr) = n + me.added
  BY <1>1 DEF DraftOf, Draft, ListOf, Listed, InputLabels, ArchFile, Op
<1>4. n \in Nat /\ n <= Len(c) /\ Len(c) \in Nat /\ h \in Seq(Entry)
  BY <1>2, HeaderFacts, LenProperties
<1>5. CASE h = <<>> \/ ~Fits(c)
  <2>1. ASSUME NEW m, m.afd.ino = me.afd.ino, m.cmd = me.cmd, Goto(p, "copyOld", m)
        PROVE  CopiedOf(p)'
    <3>1. Copied("copyOld", m, ino')
      BY <1>1, <1>5, <2>1 DEF Copied, CopiedOld, CopiedMembers, ArchFile, Op
    <3>2. QED
      BY <2>1, <3>1, GotoCopied
  <2>2. \A pos : /\ [me EXCEPT !.afd.pos = pos].afd.ino = me.afd.ino
                 /\ [me EXCEPT !.afd.pos = pos].cmd = me.cmd
    BY <1>2 DEF Local, Fd
  <2>3. QED
    BY <2>1, <2>2, ExitCopied DEF LocateData
<1>6. CASE h # <<>> /\ Fits(c)
  <2>1. n > 0 /\ c # <<>>
    <3>1. n # 0
      BY <1>4, <1>6, EmptySeq
    <3>2. QED
      BY <1>4, <3>1, LenProperties, EmptySeq
  <2>2. h[1].off = (n + 1) % Word /\ n + 1 <= Len(c)
    <3>1. n < Len(c) /\ (n > 0 => h[1].off = (n + 1) % Word)
      BY <1>2, <2>1 DEF WellFormed
    <3>2. QED
      BY <1>4, <2>1, <3>1
  <2>3. h[1].off = n + 1 /\ Seek(n + 1, Len(c)) = n + 1
    <3>1. Len(c) < Word /\ (n + 1 <= Len(c) => Seek(n + 1, Len(c)) = n + 1)
      BY <1>2, <1>4, <1>6, FitsFacts
    <3>2. n + 1 \in Nat /\ n + 1 < Word
      BY <1>4, <2>2, <3>1, FormatAssumption
    <3>3. QED
      BY <2>2, <3>1, <3>2, ModSmall
  <2>4. \A off \in RawStart(c) : off = n + 1
    BY <1>6, <2>3 DEF RawStart
  <2> DEFINE m == [me EXCEPT !.afd.pos = n + 1]
  <2>5. /\ m.afd.ino = me.afd.ino /\ m.afd.pos = n + 1 /\ m.tfd = me.tfd /\ m.cmd = me.cmd
        /\ m.added = me.added
    BY <1>2 DEF Local, Fd
  <2>6. Exit(p) \/ Goto(p, "copyOld", m)
    BY <2>1, <2>3, <2>4 DEF LocateData
  <2> HIDE DEF m
  <2>7. CopiedOld("copyOld", m, c, ino[m.tfd.ino])
    <3>1. m.tfd.pos = m.afd.pos + m.added
      <4>1. m.tfd.pos = n + me.added + 1 /\ m.afd.pos = n + 1 /\ m.added = me.added
        BY <1>3, <2>5
      <4>2. me.added \in Nat /\ n \in Nat
        BY <1>2, <1>4
      <4> HIDE DEF n, me
      <4>3. QED
        BY <4>1, <4>2
    <3>2. \A x : x \notin n + 2 .. n + 1
      BY <1>4
    <3>3. QED
      BY <1>4, <2>2, <2>5, <3>1, <3>2 DEF CopiedOld
  <2>8. CopiedMembers("copyOld", m, c, ino[m.tfd.ino])
    BY DEF CopiedMembers
  <2>9. Copied("copyOld", m, ino')
    BY <1>1, <2>5, <2>7, <2>8 DEF Copied, ArchFile
  <2>10. QED
    BY <2>6, <2>9, ExitCopied, GotoCopied
<1>7. QED
  BY <1>5, <1>6

\* A read delivers what is there, and nothing only at the end.
LEMMA ReadStays ==
    ASSUME NEW c \in Seq(Cell), NEW pos \in Nat, NEW n \in Nat, n # 0
    PROVE  /\ ReadCount(c, pos, n) \in Nat
           /\ pos <= Len(c) => pos + ReadCount(c, pos, n) <= Len(c)
           /\ ReadCount(c, pos, n) = 0 => Len(c) <= pos
  BY LenProperties DEF ReadCount

LEMMA CopyOldCopied ==
    ASSUME TypeInv, Private, Formed, NEW p \in Procs, DraftOf(p), CopiedOf(p), CopyOld(p)
    PROVE  CopiedOf(p)'
<1> DEFINE me == loc[p]
           c == ArchFile(p)
           w == WorkFile(p)
           r == ReadCount(c, me.afd.pos, Buffer)
           b == ReadInto(c, me.afd.pos, r)
           v == WriteAt(w, me.tfd.pos, b)
           n == Len(Header(c))
           a == me.afd.pos
           t == me.tfd.pos
<1>1. pc[p] = "copyOld" /\ Op(p) = "input"
  BY DEF CopyOld, DraftOf, Draft, InputLabels, Op
<1>2. /\ me \in Local /\ me.afd \in Fd /\ me.tfd \in Fd /\ a \in Nat /\ t \in Nat
      /\ me.added \in Nat /\ c \in Seq(Cell) /\ w \in Seq(Cell)
      /\ me.tfd.ino \in Inodes /\ me.afd.ino \in Inodes /\ t <= Len(w)
  BY <1>1, CopyFacts DEF LateLabels, HasWork, HeaderDone
<1>3. ino'[me.afd.ino] = c
  BY <1>1, <1>2, ArchiveStays DEF Step, ArchFile
<1>4. Header(c) # <<>> /\ Fits(c) =>
        /\ n + 1 <= a /\ a <= Len(c) /\ t = a + me.added
        /\ \A x \in n + 2 .. a : w[x + me.added] = c[x]
  BY <1>1 DEF CopiedOf, Copied, CopiedOld, ArchFile, WorkFile, Op
<1>5. /\ r \in Nat /\ (a <= Len(c) => a + r <= Len(c)) /\ (r = 0 => Len(c) <= a)
      /\ n \in Nat /\ Len(c) \in Nat /\ n <= Len(c)
  BY <1>2, ReadStays, FormatAssumption, HeaderFacts, LenProperties
<1>6. CASE r = 0
  <2>1. Goto(p, "openSource", me) /\ ino' = ino
    BY <1>6 DEF CopyOld, fsVars
  <2>2. CopiedOld("openSource", me, c, w)
    <3>1. Header(c) # <<>> /\ Fits(c) => Len(c) = a /\ Len(c) + me.added <= t
      BY <1>2, <1>4, <1>5, <1>6
    <3>2. QED
      BY <1>4, <3>1 DEF CopiedOld
  <2>3. CopiedMembers("openSource", me, c, w)
    BY DEF CopiedMembers
  <2>4. Copied("openSource", me, ino')
    BY <2>1, <2>2, <2>3 DEF Copied, ArchFile, WorkFile
  <2>5. QED
    BY <2>1, <2>4, GotoCopied
<1>7. CASE r # 0
  <2> DEFINE m == [me EXCEPT !.afd.pos = @ + r, !.tfd.pos = @ + r]
  <2>1. WriteWork(p, b) /\ Goto(p, "copyOld", m)
    BY <1>7 DEF CopyOld
  <2>2. ino'[me.tfd.ino] = v
    BY <1>2, <2>1, LocalFacts DEF WriteWork, WorkFile, FilesOK
  <2>3. Header(c) # <<>> /\ Fits(c) =>
          /\ \A i \in 1 .. t : v[i] = w[i]
          /\ \A i \in 1 .. r : v[t + i] = c[a + i]
    <3>1. b \in Seq(Cell)
      BY <1>2, <1>5, ReadIntoFacts
    <3>2. \A i \in 1 .. t : v[i] = w[i]
      BY <1>2, <3>1, WriteBehind
    <3> HIDE DEF a, t, r, c, w
    <3>3. ASSUME a <= Len(c)
          PROVE  \A i \in 1 .. r : WriteAt(w, t, ReadInto(c, a, r))[t + i] = c[a + i]
      <4>1. c \in Seq(Cell) /\ w \in Seq(Cell) /\ a \in Nat /\ t \in Nat /\ t <= Len(w)
        BY <1>2
      <4>2. r \in Nat /\ a + r <= Len(c)
        BY <1>5, <3>3
      <4>3. ChunkArrives(w, t, c, a, r)
        BY <4>1, <4>2, CopiedChunk
      <4>4. QED
        BY <4>3 DEF ChunkArrives
    <3>4. QED
      BY <1>4, <3>2, <3>3 DEF a, t, r, c, w
  <2>4. /\ m.tfd.ino = me.tfd.ino /\ m.tfd.pos = t + r /\ m.afd.ino = me.afd.ino
        /\ m.afd.pos = a + r /\ m.added = me.added /\ m.cmd = me.cmd
    <3> HIDE DEF r
    <3>1. QED
      BY <1>2 DEF Local, Fd
  <2> HIDE DEF m, v
  <2>5. CopiedOld("copyOld", m, c, v)
    <3> DEFINE d == me.added
    <3> SUFFICES ASSUME Header(c) # <<>>, Fits(c)
                 PROVE  /\ n + 1 <= a + r /\ a + r <= Len(c) /\ t + r = a + r + d
                        /\ \A x \in n + 2 .. a + r : v[x + d] = c[x]
      BY <2>4 DEF CopiedOld
    <3>1. /\ n \in Nat /\ a \in Nat /\ r \in Nat /\ d \in Nat /\ t \in Nat
          /\ n + 1 <= a /\ a + r <= Len(c) /\ t = a + d
      BY <1>2, <1>4, <1>5
    <3>2. \A x \in n + 2 .. a : w[x + d] = c[x]
      BY <1>4
    <3>3. (\A i \in 1 .. t : v[i] = w[i]) /\ \A i \in 1 .. r : v[t + i] = c[a + i]
      BY <2>3
    <3> HIDE DEF n, a, r, d, t, c, w
    <3>4. ASSUME NEW x \in n + 2 .. a + r PROVE v[x + d] = c[x]
      <4>1. CASE x <= a
        <5>1. x \in n + 2 .. a /\ x + d \in 1 .. t
          BY <3>1, <4>1
        <5>2. QED
          BY <3>2, <3>3, <5>1
      <4>2. CASE ~(x <= a)
        <5>1. x - a \in 1 .. r /\ t + (x - a) = x + d /\ a + (x - a) = x
          BY <3>1, <4>2
        <5>2. v[t + (x - a)] = c[a + (x - a)]
          BY <3>3, <5>1
        <5>3. QED
          BY <5>1, <5>2
      <4>3. QED
        BY <4>1, <4>2
    <3>5. n + 1 <= a + r /\ t + r = a + r + d
      BY <3>1
    <3>6. QED
      BY <3>1, <3>4, <3>5
  <2>6. CopiedMembers("copyOld", m, c, v)
    BY DEF CopiedMembers
  <2>7. Copied("copyOld", m, ino')
    BY <1>3, <2>2, <2>4, <2>5, <2>6 DEF Copied
  <2>8. QED
    BY <2>1, <2>7, GotoCopied
<1>8. QED
  BY <1>6, <1>7

LEMMA OpenSourceCopied ==
    ASSUME TypeInv, NEW p \in Procs, DraftOf(p), CopiedOf(p), OpenSource(p)
    PROVE  CopiedOf(p)'
<1> DEFINE me == loc[p]
<1>1. pc[p] = "openSource" /\ Op(p) = "input" /\ ino' = ino /\ me \in Local
  BY LocalFacts DEF OpenSource, DraftOf, Draft, InputLabels, Op
<1>2. CASE Goto(p, "unlink", me)
  BY <1>1, <1>2, SameCopied
<1>3. ASSUME NEW m \in {[me EXCEPT !.pos = 0], [me EXCEPT !.k = @ + 1]},
             NEW l \in {"copySource", "openSource"}, Goto(p, l, m)
      PROVE  CopiedOf(p)'
  <2>1. m.tfd = me.tfd /\ m.hdr = me.hdr /\ m.cmd = me.cmd /\ m.added = me.added /\ m.afd = me.afd
    BY <1>1 DEF Local
  <2>2. QED
    BY <1>1, <1>3, <2>1, SameCopied
<1>4. QED
  BY <1>2, <1>3 DEF OpenSource

LEMMA CopySourceCopied ==
    ASSUME TypeInv, Private, Formed, NEW p \in Procs, DraftOf(p), CopiedOf(p), CopySource(p)
    PROVE  CopiedOf(p)'
<1> DEFINE me == loc[p]
           c == ArchFile(p)
           w == WorkFile(p)
           data == disk[Args(p)[me.k]].data
           r == ReadCount(data, me.pos, Buffer)
           b == ReadInto(data, me.pos, r)
           v == WriteAt(w, me.tfd.pos, b)
           n == Len(Header(c))
           t == me.tfd.pos
<1>1. pc[p] = "copySource" /\ Op(p) = "input"
  BY DEF CopySource, DraftOf, Draft, InputLabels, Op
<1>2. /\ me \in Local /\ me.afd \in Fd /\ me.tfd \in Fd /\ t \in Nat
      /\ me.added \in Nat /\ c \in Seq(Cell) /\ w \in Seq(Cell)
      /\ me.tfd.ino \in Inodes /\ me.afd.ino \in Inodes /\ t <= Len(w)
  BY <1>1, CopyFacts DEF LateLabels, HasWork, HeaderDone
<1>3. ino'[me.afd.ino] = c
  BY <1>1, <1>2, ArchiveStays DEF Step, ArchFile
<1>4. Header(c) # <<>> /\ Fits(c) =>
        /\ Len(c) + me.added <= t
        /\ \A x \in n + 2 .. Len(c) : w[x + me.added] = c[x]
  BY <1>1 DEF CopiedOf, Copied, CopiedOld, ArchFile, WorkFile, Op
<1>5. b \in Seq(Cell) /\ r \in Nat
  <2>1. me.k <= Len(Args(p)) /\ me.pos \in Nat /\ me.k \in Nat \ {0}
    BY <1>1, InsertFacts, LocalFacts DEF Reached, InRange, Args, Local
  <2>2. Args(p)[me.k] \in Paths
    BY <1>1, <2>1, InsertFacts, ElementOfSeq, LenProperties
  <2>3. data \in Seq(Cell)
    BY <2>2, LocalFacts DEF FilesOK, FileState
  <2> HIDE DEF data
  <2>4. r \in Nat
    BY <2>1, <2>3, ReadCountIsNat, FormatAssumption
  <2> HIDE DEF r
  <2>5. QED
    BY <2>1, <2>3, <2>4, ReadIntoFacts
<1>6. CASE r = 0
  <2> DEFINE m == [me EXCEPT !.k = @ + 1]
  <2>1. Goto(p, "openSource", m) /\ ino' = ino
    BY <1>6 DEF CopySource, fsVars
  <2>2. m.tfd = me.tfd /\ m.hdr = me.hdr /\ m.cmd = me.cmd /\ m.added = me.added /\ m.afd = me.afd
    BY <1>2 DEF Local
  <2> HIDE DEF m
  <2>3. QED
    BY <1>1, <2>1, <2>2, SameCopied
<1>7. CASE r # 0
  <2> DEFINE m == [me EXCEPT !.pos = @ + r, !.tfd.pos = @ + r]
  <2>1. WriteWork(p, b) /\ Goto(p, "copySource", m)
    BY <1>7 DEF CopySource
  <2>2. ino'[me.tfd.ino] = v
    BY <1>2, <2>1, LocalFacts DEF WriteWork, WorkFile, FilesOK
  <2>3. \A i \in 1 .. t : v[i] = w[i]
    BY <1>2, <1>5, WriteBehind, SMTT(30)
  <2>4. /\ m.tfd.ino = me.tfd.ino /\ m.tfd.pos = t + r /\ m.afd = me.afd
        /\ m.added = me.added /\ m.cmd = me.cmd
    <3> HIDE DEF r
    <3>1. QED
      BY <1>2 DEF Local, Fd
  <2> HIDE DEF m, v, r
  <2>5. CopiedOld("copySource", m, c, v)
    <3> DEFINE d == me.added
    <3> SUFFICES ASSUME Header(c) # <<>>, Fits(c)
                 PROVE  /\ Len(c) + d <= t + r
                        /\ \A x \in n + 2 .. Len(c) : v[x + d] = c[x]
      BY <2>4 DEF CopiedOld
    <3>1. /\ n \in Nat /\ r \in Nat /\ d \in Nat /\ t \in Nat /\ Len(c) \in Nat
          /\ Len(c) + d <= t
      BY <1>2, <1>4, <1>5, HeaderFacts, LenProperties
    <3>2. \A x \in n + 2 .. Len(c) : w[x + d] = c[x]
      BY <1>4
    <3> HIDE DEF n, d, t, c, w
    <3>3. ASSUME NEW x \in n + 2 .. Len(c) PROVE v[x + d] = c[x]
      <4>1. x + d \in 1 .. t
        BY <3>1
      <4>2. QED
        BY <2>3, <3>2, <4>1
    <3>4. QED
      BY <3>1, <3>3
  <2>6. CopiedMembers("copySource", m, c, v)
    BY DEF CopiedMembers
  <2>7. Copied("copySource", m, ino')
    BY <1>3, <2>2, <2>4, <2>5, <2>6 DEF Copied
  <2>8. QED
    BY <2>1, <2>7, GotoCopied
<1>8. QED
  BY <1>6, <1>7

LEMMA EntryFacts ==
    ASSUME NEW w \in Seq(Cell), NEW r \in 1 .. Len(Header(w))
    PROVE  /\ Header(w)[r] \in Entry
           /\ Header(w)[r].off \in Nat /\ Header(w)[r].size \in Nat
<1>1. Header(w)[r] \in Entry
  BY HeaderFacts, ElementOfSeq
<1>2. QED
  BY <1>1, UIntFacts DEF Entry

\* Where the members of a written header start, as long as the file fits.
LEMMA NextStart ==
    ASSUME NEW w \in Seq(Cell), NEW t \in Nat, HeaderDone(w, t), Fits(w)
    PROVE  /\ Len(Header(w)) > 0 => Header(w)[1].off = Len(Header(w)) + 1
           /\ \A r \in 1 .. Len(Header(w)) - 1 :
                 Header(w)[r].off + Header(w)[r].size <= t =>
                    Header(w)[r + 1].off = Header(w)[r].off + Header(w)[r].size
<1> DEFINE h == Header(w)
           n == Len(h)
<1>1. /\ n \in Nat /\ Len(w) \in Nat /\ Len(w) < Word /\ n < t /\ t <= Len(w) /\ Word \in Nat
  BY HeaderFacts, LenProperties, FitsFacts, FormatAssumption DEF HeaderDone
<1>2. w # <<>>
  BY <1>1, EmptySeq
<1>3. /\ n > 0 => h[1].off = (n + 1) % Word
      /\ \A r \in 1 .. n - 1 : h[r + 1].off = (h[r].off + h[r].size) % Word
  BY <1>2 DEF HeaderDone, WellFormed
<1>4. n + 1 \in Nat /\ n + 1 < Word
  BY <1>1
<1>5. (n + 1) % Word = n + 1
  BY <1>4, ModSmall
<1>6. ASSUME NEW r \in 1 .. n - 1, h[r].off + h[r].size <= t
      PROVE  h[r + 1].off = h[r].off + h[r].size
  <2>1. r \in 1 .. n
    BY <1>1
  <2>2. h[r].off \in Nat /\ h[r].size \in Nat
    BY <2>1, EntryFacts
  <2> DEFINE o == h[r].off + h[r].size
  <2>3. o \in Nat /\ o < Word
    BY <1>1, <1>6, <2>2, SMTT(30)
  <2>4. o % Word = o
    BY <2>3, ModSmall
  <2>5. QED
    BY <1>3, <2>4
<1>7. QED
  BY <1>3, <1>5, <1>6

\* What a member holds it keeps when more is written behind it.
LEMMA HoldsStays ==
    ASSUME NEW w \in Seq(Cell), NEW t \in Nat, NEW b \in Seq(Cell), HeaderDone(w, t),
           NEW r \in 1 .. Len(Header(w)), NEW c, NEW e \in Entry, Holds(w, r, t, c, e)
    PROVE  Holds(WriteAt(w, t, b), r, t + Len(b), c, e)
<1> DEFINE v == WriteAt(w, t, b)
           o == Header(w)[r].off
<1>1. /\ o \in Nat /\ e.size \in Nat /\ Len(b) \in Nat /\ o + e.size <= t
      /\ \A x \in 1 .. e.size : w[o + x] = c[e.off + x]
  BY EntryFacts, UIntFacts, LenProperties DEF Entry, Holds
<1>2. Header(v) = Header(w)
  BY HeaderStays
<1>3. t <= Len(w)
  BY DEF HeaderDone
<1>4. \A i \in 1 .. t : v[i] = w[i]
  BY <1>3, WriteBehind
<1> HIDE DEF o, v
<1>5. \A x \in 1 .. e.size : o + x \in 1 .. t
  BY <1>1
<1>6. o + e.size <= t + Len(b)
  BY <1>1
<1>7. \A x \in 1 .. e.size : v[o + x] = c[e.off + x]
  BY <1>1, <1>4, <1>5
<1>8. QED
  BY <1>2, <1>6, <1>7 DEF Holds, o, v

LEMMA WriteHeaderCopied ==
    ASSUME TypeInv, NEW p \in Procs, DraftOf(p), WriteHeader(p)
    PROVE  CopiedOf(p)'
<1> DEFINE me == loc[p]
<1>1. CASE \E m : Goto(p, "writeHeader", m) \/ Goto(p, "locate", m)
  BY <1>1, NothingCopied, GotoCopied DEF CopyLabels
<1>2. CASE Op(p) # "input" /\ ~(me.k <= Len(me.hdr))
  <2> DEFINE m == [me EXCEPT !.k = 1, !.raw = 0, !.tfd.pos = @ + 1]
             c == ino'[m.afd.ino]
             w == ino'[m.tfd.ino]
             n == Len(m.hdr)
  <2>1. /\ pc[p] = "writeHeader" /\ me \in Local /\ me.tfd \in Fd /\ me.hdr \in Seq(Entry)
        /\ me.tfd.ino \in Inodes /\ me.tfd.pos = me.k - 1 /\ me.k <= Len(me.hdr) + 1
        /\ me.k \in Nat /\ Len(me.hdr) \in Nat /\ me.cmd.op \in {"input", "remove"}
    BY LocalFacts, LenProperties DEF WriteHeader, DraftOf, Draft, HasWork, Local
  <2>2. Goto(p, "member", m)
    BY <1>2 DEF WriteHeader
  <2>3. /\ m.k = 1 /\ m.hdr = me.hdr /\ m.cmd = me.cmd /\ m.tfd.ino = me.tfd.ino
        /\ m.tfd.pos = me.tfd.pos + 1
    BY <2>1 DEF Local, Fd
  <2> HIDE DEF m
  <2>4. m.tfd.pos = n + 1 /\ n \in Nat
    <3>1. me.k = n + 1 /\ n \in Nat /\ me.tfd.pos = me.k - 1
      BY <1>2, <2>1, <2>3
    <3> HIDE DEF n, me
    <3>2. QED
      BY <2>3, <3>1
  <2>5. pc'[p] = "member" /\ loc'[p] = m
    BY <2>2 DEF TypeInv, TypeOK, Goto
  <2>6. HeaderDone(w, n + 1) /\ Lists(w, m.hdr)
    <3>1. DraftOf(p)'
      BY WriteHeaderDraft
    <3>2. m.cmd.op = "remove"
      BY <1>2, <2>1, <2>3 DEF Op
    <3>3. QED
      BY <2>4, <2>5, <3>1, <3>2 DEF DraftOf, Draft, HasWork, LateLabels
  <2>7. w \in Seq(Cell)
    <3>1. TypeInv'
      BY WriteHeaderInv
    <3>2. QED
      BY <2>1, <2>3, <3>1 DEF TypeInv, TypeOK
  <2> HIDE DEF w, c
  <2>8. Fits(w) => (m.k <= n => Header(w)[m.k].off = m.tfd.pos)
    <3>1. n + 1 \in Nat /\ Len(Header(w)) = n
      BY <2>4, <2>6 DEF Lists
    <3>2. Fits(w) => (n > 0 => Header(w)[1].off = n + 1)
      BY <2>6, <2>7, <3>1, NextStart
    <3>3. 1 <= n => n > 0
      BY <2>4
    <3>4. QED
      BY <2>3, <2>4, <3>2, <3>3
  <2>9. CopiedMembers("member", m, c, w)
    <3>1. m.k <= n + 1 /\ \A r : r \notin 1 .. m.k - 1
      BY <2>3, <2>4
    <3>2. m.k = n + 1 => m.tfd.pos = EndOf(w, n)
      <4>1. m.k = n + 1 => n = 0
        BY <2>3, <2>4
      <4>2. Len(Header(w)) = n
        BY <2>6 DEF Lists
      <4>3. QED
        BY <2>4, <4>1, <4>2 DEF EndOf
    <3>3. QED
      BY <2>8, <3>1, <3>2 DEF CopiedMembers
  <2>10. CopiedOld("member", m, c, w)
    BY DEF CopiedOld
  <2>11. Copied("member", m, ino')
    BY <2>9, <2>10 DEF Copied, c, w
  <2>12. QED
    BY <2>2, <2>11, GotoCopied
<1>3. QED
  BY <1>1, <1>2 DEF WriteHeader

\* -e copies nothing into a work file.
LEMMA NoWorkCopied ==
    ASSUME TypeInv, NEW p \in Procs, NEW l, NEW m, Goto(p, l, m), l \in {"member", "copyMember"},
           m.cmd = loc[p].cmd, Op(p) # "remove"
    PROVE  CopiedOf(p)'
<1>1. Copied(l, m, ino')
  BY DEF Copied, CopiedOld, CopiedMembers, Op
<1>2. QED
  BY <1>1, GotoCopied

LEMMA NextMemberCopied ==
    ASSUME TypeInv, Formed, NEW p \in Procs, DraftOf(p), CopiedOf(p), NextMember(p)
    PROVE  CopiedOf(p)'
<1> DEFINE me == loc[p]
           c == ArchFile(p)
           w == WorkFile(p)
           e == me.hdr[me.k]
           ready == [me EXCEPT !.left = e.size, !.pos = 0, !.afd.pos = Seek(e.off, @)]
           skip == [me EXCEPT !.k = @ + 1]
           n == Len(me.hdr)
<1>1. pc[p] = "member" /\ me \in Local /\ ino' = ino
  BY LocalFacts DEF NextMember, fsVars
<1>2. /\ ready.cmd = me.cmd /\ skip.cmd = me.cmd /\ ready.hdr = me.hdr /\ ready.tfd = me.tfd
      /\ ready.k = me.k /\ ready.left = e.size /\ ready.afd.ino = me.afd.ino
      /\ ready.afd.pos = Seek(e.off, me.afd.pos)
  BY <1>1 DEF Local, Fd
<1>3. \/ Exit(p)
      \/ Op(p) = "remove" /\ me.k > n /\ Goto(p, "unlink", me)
      \/ Op(p) = "remove" /\ ~(me.k > n) /\ Goto(p, "copyMember", ready)
      \/ Op(p) # "remove" /\ (Goto(p, "copyMember", ready) \/ Goto(p, "member", skip))
  BY DEF NextMember
<1> HIDE DEF ready, skip
<1>4. CASE Op(p) # "remove" /\ (Goto(p, "copyMember", ready) \/ Goto(p, "member", skip))
  BY <1>2, <1>4, NoWorkCopied
<1>5. ASSUME Op(p) = "remove" PROVE CopiedOf(p)'
  <2>1. /\ me.hdr \in Seq(Entry) /\ n \in Nat /\ me.k \in Nat /\ c \in Seq(Cell)
    BY <1>1, <1>5, CopyFacts DEF HasWork, LateLabels, Op
  <2>2. Fits(c) /\ Fits(w) /\ Whole(c, me.hdr) =>
          /\ me.k <= n + 1
          /\ me.k <= n => Header(w)[me.k].off = me.tfd.pos
          /\ me.k = n + 1 => me.tfd.pos = EndOf(w, n)
          /\ \A r \in 1 .. me.k - 1 : Holds(w, r, me.tfd.pos, c, me.hdr[r])
    BY <1>1, <1>5 DEF CopiedOf, Copied, CopiedMembers, ArchFile, WorkFile, Op
  <2>3. CASE me.k > n /\ Goto(p, "unlink", me)
    <3>1. CopiedMembers("unlink", me, c, w)
      <4>1. \A r \in 1 .. n : r \in 1 .. me.k - 1
        BY <2>1, <2>3
      <4>2. me.k <= n + 1 => me.k = n + 1
        BY <2>1, <2>3
      <4> HIDE DEF me, c, w, n
      <4>3. QED
        BY <2>2, <4>1, <4>2 DEF CopiedMembers, n
    <3>2. CopiedOld("unlink", me, c, w)
      BY <1>5 DEF CopiedOld, Op
    <3>3. Copied("unlink", me, ino')
      BY <1>1, <3>1, <3>2 DEF Copied, ArchFile, WorkFile
    <3>4. QED
      BY <2>3, <3>3, GotoCopied
  <2>4. CASE ~(me.k > n) /\ Goto(p, "copyMember", ready)
    <3>1. me.k \in 1 .. n
      <4>1. me.k # 0
        BY <1>1, LocalFacts DEF Reached, InRange, LoopLabels
      <4>2. QED
        BY <2>1, <2>4, <4>1
    <3>2. e \in Entry /\ e.off \in Nat /\ e.size \in Nat
      <4>1. e \in Entry
        BY <2>1, <3>1, ElementOfSeq
      <4>2. QED
        BY <4>1, UIntFacts DEF Entry
    <3>3. Fits(c) /\ Whole(c, me.hdr) => ready.afd.pos = e.off
      <4> SUFFICES ASSUME Fits(c), Whole(c, me.hdr) PROVE Seek(e.off, me.afd.pos) = e.off
        BY <1>2
      <4>1. e.off + e.size <= Len(c)
        BY <3>1 DEF Whole, Intact
      <4>2. e.off <= Len(c)
        BY <2>1, <3>2, <4>1, LenProperties, SMTT(30)
      <4>3. QED
        BY <2>1, <3>2, <4>2, FitsFacts
    <3>4. CopiedMembers("copyMember", ready, c, w)
      <4> SUFFICES ASSUME Fits(c), Fits(w), Whole(c, me.hdr)
                   PROVE  /\ e.size <= e.size
                          /\ me.tfd.pos = Header(w)[me.k].off + (e.size - e.size)
                          /\ ready.afd.pos = e.off + (e.size - e.size)
                          /\ \A x \in 1 .. e.size - e.size : w[Header(w)[me.k].off + x] = c[e.off + x]
                          /\ \A r \in 1 .. me.k - 1 : Holds(w, r, me.tfd.pos, c, me.hdr[r])
        BY <1>2, Zenon DEF CopiedMembers
      <4>1. Header(w)[me.k].off = me.tfd.pos /\ ready.afd.pos = e.off
        BY <2>2, <3>1, <3>3
      <4>2. me.tfd.pos \in Nat
        BY <1>1 DEF Local, Fd
      <4>3. e.size - e.size = 0 /\ e.size <= e.size
        BY <3>2
      <4>4. me.tfd.pos + 0 = me.tfd.pos /\ e.off + 0 = e.off /\ \A x : x \notin 1 .. 0
        BY <3>2, <4>2
      <4> HIDE DEF e, me
      <4>5. QED
        BY <2>2, <4>1, <4>3, <4>4
    <3>5. CopiedOld("copyMember", ready, c, w)
      BY DEF CopiedOld
    <3>6. Copied("copyMember", ready, ino')
      BY <1>1, <1>2, <3>4, <3>5 DEF Copied, ArchFile, WorkFile
    <3>7. QED
      BY <2>4, <3>6, GotoCopied
  <2>5. QED
    BY <1>3, <1>5, <2>3, <2>4, ExitCopied
<1>6. QED
  BY <1>3, <1>4, <1>5, ExitCopied

LEMMA CopyMemberCopied ==
    ASSUME TypeInv, Private, Formed, NEW p \in Procs, DraftOf(p), CopiedOf(p), CopyMember(p)
    PROVE  CopiedOf(p)'
<1> DEFINE me == loc[p]
           c == ArchFile(p)
           w == WorkFile(p)
           e == me.hdr[me.k]
           n == Len(me.hdr)
           a == me.afd.pos
           t == me.tfd.pos
           q == ChunkSize(me.left)
           chunk == ReadInto(c, a, q)
           read == ReadCount(c, a, q)
           rest == [me EXCEPT !.left = @ - q, !.afd.pos = @ + read]
           v == WriteAt(w, t, chunk)
<1>1. pc[p] = "copyMember" /\ me \in Local /\ me.k <= n
  BY LocalFacts, Zenon DEF CopyMember, Reached, InRange
<1>2. CASE Op(p) # "remove"
  <2>1. \/ Goto(p, "member", [me EXCEPT !.k = @ + 1])
        \/ Goto(p, "copyMember", [rest EXCEPT !.pos = @ + q])
    BY <1>2, Zenon DEF CopyMember
  <2> HIDE DEF q, read
  <2>2. /\ [me EXCEPT !.k = @ + 1].cmd = me.cmd
        /\ [rest EXCEPT !.pos = @ + q].cmd = me.cmd
    BY <1>1 DEF Local
  <2>3. QED
    BY <1>2, <2>1, <2>2, NoWorkCopied
<1>3. ASSUME Op(p) = "remove" PROVE CopiedOf(p)'
  <2>1. /\ me.afd \in Fd /\ me.tfd \in Fd /\ me.hdr \in Seq(Entry) /\ n \in Nat
        /\ a \in Nat /\ t \in Nat /\ me.k \in Nat /\ me.left \in Nat
        /\ me.afd.ino \in Inodes /\ c \in Seq(Cell)
        /\ me.tfd.ino \in Inodes /\ w \in Seq(Cell) /\ HeaderDone(w, t) /\ Lists(w, me.hdr)
    BY <1>1, <1>3, CopyFacts DEF HasWork, LateLabels, Op
  <2>2. me.k \in 1 .. n /\ e \in Entry /\ e.off \in Nat /\ e.size \in Nat
    <3>1. me.k # 0
      BY <1>1, LocalFacts DEF Reached, InRange, LoopLabels
    <3>2. me.k \in 1 .. n
      BY <1>1, <2>1, <3>1
    <3>3. e \in Entry
      BY <2>1, <3>2, ElementOfSeq
    <3>4. QED
      BY <3>2, <3>3, UIntFacts DEF Entry
  <2>3. Fits(c) /\ Fits(w) /\ Whole(c, me.hdr) =>
          /\ me.left <= e.size /\ t = Header(w)[me.k].off + (e.size - me.left)
          /\ a = e.off + (e.size - me.left)
          /\ \A x \in 1 .. e.size - me.left : w[Header(w)[me.k].off + x] = c[e.off + x]
          /\ \A r \in 1 .. me.k - 1 : Holds(w, r, t, c, me.hdr[r])
    BY <1>1, <1>3, Zenon DEF CopiedOf, Copied, CopiedMembers, ArchFile, WorkFile, Op
  <2>4. Len(Header(w)) = n /\ Header(w)[me.k].size = e.size /\ Header(w)[me.k].off \in Nat
    <3>1. Len(Header(w)) = n /\ Header(w)[me.k].size = e.size
      BY <2>1, <2>2 DEF Lists, SameMember
    <3>2. QED
      BY <2>1, <2>2, <3>1, EntryFacts
  <2>5. CASE me.left = 0
    <3> DEFINE m == [me EXCEPT !.k = @ + 1]
               start == Header(w)[me.k].off
    <3>1. Goto(p, "member", m) /\ ino' = ino
      BY <2>5 DEF CopyMember
    <3>2. /\ m.k = me.k + 1 /\ m.hdr = me.hdr /\ m.cmd = me.cmd /\ m.tfd = me.tfd
          /\ m.afd = me.afd
      BY <1>1 DEF Local
    <3> HIDE DEF m
    <3>3. CopiedMembers("member", m, c, w)
      <4> SUFFICES ASSUME Fits(c), Fits(w), Whole(c, m.hdr)
                   PROVE  /\ m.k <= n + 1
                          /\ m.k <= n => Header(w)[m.k].off = t
                          /\ m.k = n + 1 => t = EndOf(w, n)
                          /\ \A r \in 1 .. m.k - 1 : Holds(w, r, t, c, m.hdr[r])
        <5>1. Len(m.hdr) = n /\ m.tfd.pos = t
          BY <3>2
        <5> HIDE DEF c, w, n, t
        <5>2. QED
          BY <5>1 DEF CopiedMembers
      <4>1. /\ t = start + (e.size - me.left)
            /\ \A x \in 1 .. e.size - me.left : w[start + x] = c[e.off + x]
            /\ \A r \in 1 .. me.k - 1 : Holds(w, r, t, c, me.hdr[r])
        BY <2>3, <3>2
      <4>2. e.size - me.left = e.size /\ start \in Nat
        BY <2>2, <2>4, <2>5
      <4>3. t = start + e.size
        BY <4>1, <4>2
      <4>4. Holds(w, me.k, t, c, e)
        <5>1. start + e.size <= t
          BY <2>1, <4>3
        <5>2. \A x \in 1 .. e.size : w[start + x] = c[e.off + x]
          BY <4>1, <4>2
        <5>3. QED
          BY <5>1, <5>2 DEF Holds
      <4>5. \A r \in 1 .. me.k + 1 - 1 : r \in 1 .. me.k - 1 \/ r = me.k
        BY <2>1
      <4>6. \A r \in 1 .. me.k + 1 - 1 : Holds(w, r, t, c, me.hdr[r])
        BY <4>1, <4>4, <4>5
      <4>7. me.k + 1 <= n => Header(w)[me.k + 1].off = t
        <5> SUFFICES ASSUME me.k + 1 <= n PROVE Header(w)[me.k + 1].off = t
          OBVIOUS
        <5>1. me.k \in 1 .. Len(Header(w)) - 1
          <6>1. me.k \in 1 .. n /\ n \in Nat /\ me.k + 1 <= n
            BY <2>1, <2>2
          <6>2. QED
            BY <2>4, <6>1
        <5>2. start + Header(w)[me.k].size = t /\ start + Header(w)[me.k].size <= t
          BY <2>1, <2>4, <4>3
        <5>3. QED
          BY <2>1, <5>1, <5>2, NextStart
      <4>8. me.k + 1 <= n + 1
        BY <2>1, <2>2
      <4>9. me.k + 1 = n + 1 => t = EndOf(w, n)
        <5> SUFFICES ASSUME me.k + 1 = n + 1 PROVE t = EndOf(w, n)
          OBVIOUS
        <5>1. me.k = n /\ n # 0
          BY <2>1, <2>2
        <5>2. QED
          BY <2>4, <4>3, <5>1 DEF EndOf
      <4>10. QED
        <5>1. m.k = me.k + 1 /\ m.hdr = me.hdr
          BY <3>2
        <5> HIDE DEF me, n, t, w, c
        <5>2. m.k <= n + 1
          BY <4>8, <5>1
        <5>3. m.k <= n => Header(w)[m.k].off = t
          BY <4>7, <5>1
        <5>4. \A r \in 1 .. m.k - 1 : Holds(w, r, t, c, m.hdr[r])
          <6>1. m.k - 1 = me.k + 1 - 1
            BY <2>1, <5>1
          <6> TAKE r \in 1 .. m.k - 1
          <6>2. Holds(w, r, t, c, me.hdr[r])
            BY <4>6, <6>1
          <6>3. QED
            BY <5>1, <6>2
        <5>5. m.k = n + 1 => t = EndOf(w, n)
          BY <4>9, <5>1
        <5>6. QED
          BY <5>2, <5>3, <5>4, <5>5
    <3>4. CopiedOld("member", m, c, w)
      BY DEF CopiedOld
    <3>5. Copied("member", m, ino')
      BY <3>1, <3>2, <3>3, <3>4 DEF Copied, ArchFile, WorkFile
    <3>6. QED
      BY <3>1, <3>5, GotoCopied
  <2>6. CASE me.left # 0
    <3> DEFINE m == [rest EXCEPT !.tfd.pos = @ + q]
               start == Header(w)[me.k].off
    <3>1. WriteWork(p, chunk) /\ Goto(p, "copyMember", m)
      BY <1>3, <2>6 DEF CopyMember
    <3>2. q \in Nat /\ q <= me.left
      <4>1. me.left \in UInt
        BY <1>1, MemberFacts
      <4>2. q \in 0 .. me.left
        BY <4>1, ChunkFacts
      <4>3. QED
        BY <2>1, <4>2
    <3>3. ino'[me.tfd.ino] = v
      BY <2>1, <3>1, LocalFacts DEF WriteWork, WorkFile, FilesOK
    <3>4. ino'[me.afd.ino] = c
      BY <1>1, <2>1, ArchiveStays DEF Step, ArchFile
    <3> HIDE DEF q
    <3>5. chunk \in Seq(Cell) /\ Len(chunk) = q
      BY <2>1, <3>2, ReadIntoFacts
    <3> HIDE DEF read
    <3>6. /\ m.tfd.ino = me.tfd.ino /\ m.tfd.pos = t + q /\ m.afd.ino = me.afd.ino
          /\ m.afd.pos = a + read /\ m.cmd = me.cmd /\ m.hdr = me.hdr /\ m.k = me.k
          /\ m.left = me.left - q
      BY <1>1, <2>1 DEF Local, Fd
    <3> HIDE DEF m, chunk
    <3>7. /\ Header(v) = Header(w) /\ (Fits(v) => Fits(w))
          /\ \A i \in 1 .. t : v[i] = w[i]
      <4>1. t <= Len(w)
        BY <2>1 DEF HeaderDone
      <4>2. QED
        BY <2>1, <3>5, <4>1, HeaderStays, WriteBehind
    <3>8. CopiedMembers("copyMember", m, c, v)
      <4> DEFINE done == e.size - me.left
      <4> SUFFICES ASSUME Fits(c), Fits(v), Whole(c, me.hdr)
                   PROVE  /\ me.left - q <= e.size
                          /\ t + q = start + (e.size - (me.left - q))
                          /\ a + read = e.off + (e.size - (me.left - q))
                          /\ \A x \in 1 .. e.size - (me.left - q) : v[start + x] = c[e.off + x]
                          /\ \A r \in 1 .. me.k - 1 : Holds(v, r, t + q, c, me.hdr[r])
        BY <3>6, <3>7, Zenon DEF CopiedMembers
      <4>1. /\ me.left <= e.size /\ t = start + done /\ a = e.off + done
            /\ \A x \in 1 .. done : w[start + x] = c[e.off + x]
            /\ \A r \in 1 .. me.k - 1 : Holds(w, r, t, c, me.hdr[r])
        BY <2>3, <3>7
      <4>2. \A r \in 1 .. me.k - 1 : Holds(v, r, t + q, c, me.hdr[r])
        <5> TAKE r \in 1 .. me.k - 1
        <5>1. r \in 1 .. n
          BY <2>1, <2>2
        <5>2. me.hdr[r] \in Entry /\ r \in 1 .. Len(Header(w)) /\ Holds(w, r, t, c, me.hdr[r])
          BY <2>1, <2>4, <4>1, <5>1, ElementOfSeq, Zenon
        <5> HIDE DEF v, w
        <5>3. Holds(WriteAt(w, t, chunk), r, t + Len(chunk), c, me.hdr[r])
          BY <2>1, <3>5, <5>2, HoldsStays, Zenon
        <5>4. QED
          BY <3>5, <5>3 DEF v
      <4>3. /\ done \in Nat /\ start \in Nat /\ e.size - (me.left - q) = done + q
            /\ me.left - q <= e.size /\ done + q <= e.size
        <5>1. /\ e.size \in Nat /\ me.left \in Nat /\ q \in Nat /\ q <= me.left
              /\ me.left <= e.size /\ start \in Nat
          BY <2>1, <2>2, <2>4, <3>2, <4>1, Zenon
        <5> HIDE DEF e, me, start
        <5>2. QED
          BY <5>1
      <4>4. e.off + e.size <= Len(c) /\ Len(c) \in Nat
        BY <2>1, <2>2, LenProperties DEF Whole, Intact
      <4>5. a + q <= Len(c)
        <5>1. a = e.off + done /\ done + q <= e.size /\ done \in Nat /\ e.off \in Nat /\ e.size \in Nat
          BY <2>2, <4>1, <4>3, Zenon
        <5> HIDE DEF e, a, done
        <5>2. QED
          BY <3>2, <4>4, <5>1
      <4>6. read = q
        <5>1. \/ a >= Len(c) /\ q = 0 /\ read = 0
              \/ a < Len(c) /\ read = q
          BY <2>1, <3>2, <4>4, <4>5 DEF ReadCount, read
        <5>2. QED
          BY <5>1
      <4>7. \A x \in 1 .. q : v[t + x] = c[a + x]
        <5>1. t <= Len(w)
          BY <2>1 DEF HeaderDone
        <5> HIDE DEF a, t, c, w
        <5>2. ChunkArrives(w, t, c, a, q)
          BY <2>1, <3>2, <4>5, <5>1, CopiedChunk
        <5>3. QED
          BY <5>2 DEF ChunkArrives, v, chunk
      <4>8. \A x \in 1 .. done + q : v[start + x] = c[e.off + x]
        <5>1. /\ done \in Nat /\ start \in Nat /\ q \in Nat /\ e.off \in Nat
              /\ t = start + done /\ a = e.off + done
          BY <2>2, <3>2, <4>1, <4>3, Zenon
        <5>2. \A x \in 1 .. done : w[start + x] = c[e.off + x]
          BY <4>1
        <5>3. \A i \in 1 .. t : v[i] = w[i]
          BY <3>7
        <5> HIDE DEF done, start, t, a, e, v, w, c
        <5> TAKE x \in 1 .. done + q
        <5>4. CASE x <= done
          <6>1. x \in 1 .. done /\ start + x \in 1 .. t
            BY <5>1, <5>4
          <6>2. QED
            BY <5>2, <5>3, <6>1
        <5>5. CASE ~(x <= done)
          <6>1. x - done \in 1 .. q /\ t + (x - done) = start + x /\ a + (x - done) = e.off + x
            BY <5>1, <5>5
          <6>2. v[t + (x - done)] = c[a + (x - done)]
            BY <4>7, <6>1
          <6>3. QED
            BY <6>1, <6>2
        <5>6. QED
          BY <5>4, <5>5
      <4>9. t + q = start + (done + q) /\ a + read = e.off + (done + q)
        <5>1. /\ done \in Nat /\ start \in Nat /\ q \in Nat /\ e.off \in Nat
              /\ t = start + done /\ a = e.off + done /\ read = q
          BY <2>2, <3>2, <4>1, <4>3, <4>6, Zenon
        <5> HIDE DEF done, start, t, a, e
        <5>2. QED
          BY <5>1
      <4>10. QED
        BY <4>2, <4>3, <4>8, <4>9, Zenon
    <3>9. CopiedOld("copyMember", m, c, v)
      BY DEF CopiedOld
    <3>10. Copied("copyMember", m, ino')
      BY <3>3, <3>4, <3>6, <3>8, <3>9 DEF Copied
    <3>11. QED
      BY <3>1, <3>10, GotoCopied
  <2>7. QED
    BY <2>5, <2>6
<1>4. QED
  BY <1>2, <1>3

LEMMA UnlinkCopied ==
    ASSUME TypeInv, NEW p \in Procs, CopiedOf(p), Unlink(p)
    PROVE  CopiedOf(p)'
<1>1. pc[p] = "unlink" /\ ino' = ino /\ Goto(p, "rename", loc[p])
  BY DEF Unlink
<1>2. QED
  BY <1>1, SameCopied

LEMMA StepCopied ==
    ASSUME TypeInv, Private, Formed, NEW p \in Procs, DraftOf(p), ListOf(p), CopiedOf(p), Step(p)
    PROVE  CopiedOf(p)'
<1>1. ASSUME NEW l, l \notin CopyLabels, NEW m, Goto(p, l, m) PROVE CopiedOf(p)'
  BY <1>1, NothingCopied, GotoCopied
<1>2. CASE OpenWork(p) \/ OpenArchive(p)
  BY <1>1, <1>2, ExitCopied DEF OpenWork, OpenArchive, CopyLabels
<1>3. CASE ReadHeader(p)
  <2>1. Op(p) \in {"input", "remove", "extract", "stat"} /\ loc[p] \in Local
    BY <1>3, LocalFacts DEF ReadHeader
  <2>2. CASE \E m : Goto(p, "readHeader", m) \/ Goto(p, "garbled", m)
    BY <1>1, <2>2 DEF CopyLabels
  <2>3. CASE AfterHeader(p, [loc[p] EXCEPT !.afd.pos = 0, !.k = 1])
    <3> DEFINE m == [loc[p] EXCEPT !.afd.pos = 0, !.k = 1]
    <3>1. m.cmd = loc[p].cmd
      BY <2>1 DEF Local
    <3>2. AfterHeader(p, m)
      BY <2>3
    <3> HIDE DEF m
    <3>3. \/ Exit(p) \/ Goto(p, "stat", m) \/ Goto(p, "filter", m)
          \/ Op(p) # "remove" /\ Goto(p, "member", m)
      BY <2>1, <3>2 DEF AfterHeader
    <3>4. QED
      BY <1>1, <3>1, <3>3, ExitCopied, NoWorkCopied DEF CopyLabels
  <2>4. QED
    BY <1>3, <2>2, <2>3 DEF ReadHeader
<1>4. CASE StatFile(p) \/ MeasureFile(p)
  BY <1>1, <1>4, ExitCopied DEF StatFile, MeasureFile, CopyLabels
<1>5. CASE FilterHeader(p)
  <2>1. loc[p] \in Local
    BY LocalFacts
  <2>2. [loc[p] EXCEPT !.k = 1].cmd = loc[p].cmd
    BY <2>1 DEF Local
  <2>3. CASE \E m : Goto(p, "filter", m) \/ Goto(p, "writeHeader", m)
    BY <1>1, <2>3 DEF CopyLabels
  <2>4. CASE Op(p) # "remove" /\ Goto(p, "member", [loc[p] EXCEPT !.k = 1])
    BY <2>2, <2>4, NoWorkCopied
  <2>5. QED
    BY <1>5, <2>3, <2>4 DEF FilterHeader
<1>6. QED
  BY <1>2, <1>3, <1>4, <1>5, WriteHeaderCopied, LocateDataCopied, CopyOldCopied,
     OpenSourceCopied, CopySourceCopied, NextMemberCopied, CopyMemberCopied, UnlinkCopied,
     ExitCopied
  DEF Step, Rename, Refuse

CopiedInv == \A p \in Procs : CopiedOf(p)

LEMMA NextCopiedInv ==
    ASSUME TypeInv, OneWriter, Private, Formed, DraftInv, ListInv, CopiedInv, [Running]_vars
    PROVE  CopiedInv'
<1>1. ASSUME NEW q \in Procs, pc'[q] = pc[q], loc'[q] = loc[q],
             loc[q].tfd.ino \in Inodes => ino'[loc[q].tfd.ino] = ino[loc[q].tfd.ino]
      PROVE  CopiedOf(q)'
  <2>1. CASE /\ pc[q] \in CopyLabels
             /\ HasWork(pc[q], loc[q])
    <3>1. pc[q] \in LateLabels
      BY <2>1 DEF CopyLabels, LateLabels
    <3>2. loc[q].afd.ino \in Inodes /\ loc[q].tfd.ino \in Inodes
      BY <2>1, <3>1, CopyFacts DEF DraftInv
    <3>3. ino'[loc[q].afd.ino] = ino[loc[q].afd.ino]
      BY <3>2, StepImmutable DEF Visible
    <3>4. ino'[loc[q].tfd.ino] = ino[loc[q].tfd.ino]
      BY <1>1, <3>2
    <3>5. Copied(pc[q], loc[q], ino')
      BY <3>3, <3>4 DEF CopiedInv, CopiedOf, Copied
    <3>6. QED
      BY <1>1, <3>5 DEF CopiedOf
  <2>2. CASE pc[q] \notin CopyLabels
    <3>1. Copied(pc[q], loc[q], ino')
      BY <2>2, NothingCopied
    <3>2. QED
      BY <1>1, <3>1 DEF CopiedOf
  <2>3. CASE pc[q] \in CopyLabels /\ ~HasWork(pc[q], loc[q])
    <3>1. pc[q] \in {"member", "copyMember"} /\ loc[q].cmd.op # "remove"
      BY <2>3 DEF CopyLabels, HasWork
    <3>2. Copied(pc[q], loc[q], ino')
      BY <3>1, Zenon DEF Copied, CopiedOld, CopiedMembers
    <3>3. QED
      BY <1>1, <3>2 DEF CopiedOf
  <2>4. QED
    BY <2>1, <2>2, <2>3
<1>2. ASSUME NEW p \in Procs, Step(p) PROVE CopiedInv'
  <2>1. CopiedOf(p)'
    BY <1>2, StepCopied DEF DraftInv, ListInv, CopiedInv
  <2>2. ASSUME NEW q \in Procs, q # p PROVE CopiedOf(q)'
    BY <1>1, <1>2, <2>2, StepOthers, OthersKeepWork DEF OthersStay
  <2>3. QED
    BY <2>1, <2>2 DEF CopiedInv
<1>3. ASSUME NEW p \in Procs, Start(p) \/ Crash(p) PROVE CopiedInv'
  <2>1. pc'[p] \in {"idle", "openWork", "openArchive"}
    BY <1>3 DEF Start, Crash, TypeInv, TypeOK
  <2>2. Copied(pc'[p], loc'[p], ino')
    BY <2>1, NothingCopied DEF CopyLabels
  <2>3. ino' = ino /\ \A q \in Procs : q # p => pc'[q] = pc[q] /\ loc'[q] = loc[q]
    <3>1. CASE Start(p)
      BY <3>1 DEF Start, TypeInv, TypeOK
    <3>2. CASE Crash(p)
      BY <3>2 DEF Crash, TypeInv, TypeOK
    <3>3. QED
      BY <1>3, <3>1, <3>2
  <2>4. QED
    BY <1>1, <2>2, <2>3 DEF CopiedInv, CopiedOf
<1>4. CASE UNCHANGED <<ino, pc, loc>>
  BY <1>1, <1>4 DEF CopiedInv
<1>5. QED
  BY <1>2, <1>3, <1>4 DEF Running, Edit, Finished, vars

LEMMA InitCopiedInv == Init => CopiedInv
  BY NothingCopied DEF Init, CopiedInv, CopiedOf, CopyLabels

\* The r-th member of w, when it is entry e of c and has e's data.
LEMMA SameMemberData ==
    ASSUME NEW w \in Seq(Cell), NEW c \in Seq(Cell), NEW r \in 1 .. Len(Header(w)),
           NEW e \in Entry, SameMember(Header(w)[r], e), Intact(c, e),
           NEW t \in Nat, t <= Len(w), Holds(w, r, t, c, e)
    PROVE  Members(w)[r] = [name |-> e.name, data |-> Region(c, e)]
<1> DEFINE o == Header(w)[r].off
           u == e.off
           s == e.size
<1>1. o \in Nat /\ u \in Nat /\ s \in Nat /\ e.off \in Nat /\ e.size \in Nat
  BY EntryFacts, UIntFacts DEF Entry
<1>2. o + s <= Len(w) /\ u + s <= Len(c)
  <2>1. o + s <= t
    BY DEF Holds
  <2>2. QED
    BY <1>1, <2>1, LenProperties DEF Intact
<1>3. \A x \in 1 .. s : w[o + x] = c[u + x]
  BY DEF Holds
<1> HIDE DEF o, u, s
<1>4. ReadInto(w, o, s) = ReadInto(c, u, s)
  <2>1. \A x \in 1 .. s : o + x <= Len(w) /\ u + x <= Len(c)
    BY <1>1, <1>2, LenProperties
  <2>2. QED
    BY <1>3, <2>1 DEF ReadInto
<1>5. Header(w)[r].name = e.name /\ Header(w)[r].size = e.size
  BY DEF SameMember
<1>6. Region(w, Header(w)[r]) = Region(c, e)
  BY <1>4, <1>5 DEF Region, o, u, s
<1>7. DOMAIN Header(w) = 1 .. Len(Header(w))
  BY HeaderFacts
<1>8. QED
  BY <1>5, <1>6, <1>7 DEF Members

\* What -i copied lands where the new header says.
LEMMA OldDataHeld ==
    ASSUME NEW c \in Seq(Cell), WellFormed(c), Fits(c), NEW w \in Seq(Cell), Fits(w),
           NEW t \in Nat, HeaderDone(w, t), NEW a \in Nat, NEW n, n = Len(Header(c)),
           Len(Header(w)) = n + a, \A i \in 1 .. n : Header(w)[i].size = Header(c)[i].size,
           \A i \in 1 .. n : Intact(c, Header(c)[i]),
           Len(c) + a <= t, \A x \in n + 2 .. Len(c) : w[x + a] = c[x],
           NEW i \in 1 .. n
    PROVE  Holds(w, i, t, c, Header(c)[i])
<1> DEFINE e == Header(c)[i]
           o == Header(w)[i].off
           u == e.off
           s == e.size
<1>1. /\ n \in Nat /\ Len(c) \in Nat /\ Len(w) \in Nat /\ t <= Len(w) /\ n < t
      /\ n <= Len(c) /\ u \in Nat /\ s \in Nat /\ Len(w) < Word
  BY HeaderFacts, LenProperties, FitsFacts, EntryFacts DEF HeaderDone
<1>2. c # <<>> /\ w # <<>> /\ WellFormed(w)
  <2>1. Len(c) # 0 /\ Len(w) # 0
    BY <1>1
  <2>2. QED
    BY <2>1, EmptySeq DEF HeaderDone
<1>3. u >= n + 1
  BY <1>2, OffsetsBehind
<1>4. o = (u + a) % Word
  BY <1>2, OffsetsShift
<1>5. u + s <= Len(c)
  BY DEF Intact
<1> HIDE DEF e, o, u, s
<1>6. u + a \in Nat /\ u + a < Word /\ o = u + a
  <2>1. u + a \in Nat /\ u + a < Word
    BY <1>1, <1>5, FormatAssumption
  <2>2. QED
    BY <1>4, <2>1, ModSmall
<1>7. o + s <= t
  BY <1>1, <1>5, <1>6
<1>8. ASSUME NEW x \in 1 .. s PROVE w[o + x] = c[u + x]
  <2>1. u + x \in n + 2 .. Len(c) /\ o + x = u + x + a
    BY <1>1, <1>3, <1>5, <1>6
  <2>2. w[u + x + a] = c[u + x]
    BY <2>1
  <2>3. QED
    BY <2>1, <2>2
<1>9. QED
  BY <1>7, <1>8 DEF Holds, e, o, u, s

LEMMA PublishedWork ==
    ASSUME TypeInv, Formed, NEW p \in Procs, DraftOf(p), pc[p] \in {"unlink", "rename"}
    PROVE  /\ loc[p] \in Local /\ loc[p].hdr \in Seq(Entry) /\ Len(loc[p].hdr) \in Nat
           /\ loc[p].tfd.pos \in Nat /\ loc[p].added \in Nat
           /\ loc[p].afd.ino \in Inodes /\ ArchFile(p) \in Seq(Cell) /\ WellFormed(ArchFile(p))
           /\ loc[p].tfd.ino \in Inodes /\ WorkFile(p) \in Seq(Cell)
           /\ HeaderDone(WorkFile(p), loc[p].tfd.pos) /\ Lists(WorkFile(p), loc[p].hdr)
           /\ loc[p].tfd.pos <= Len(WorkFile(p)) /\ Op(p) \in {"input", "remove"}
<1>1. pc[p] \in LateLabels /\ HasWork(pc[p], loc[p]) /\ Op(p) \in {"input", "remove"}
  BY DEF LateLabels, HasWork, DraftOf, Draft, Op
<1>2. QED
  BY <1>1, CopyFacts DEF HeaderDone

\* The conclusion CompleteBeforeUnlink draws for p.
Complete(p) ==
    /\ Len(Members(WorkFile(p))) = Cardinality(MustKeep(p)) + loc[p].added
    /\ \A i \in MustKeep(p) :
          Members(WorkFile(p))[Rank(MustKeep(p), i)] =
             [name |-> Header(ArchFile(p))[i].name,
              data |-> Region(ArchFile(p), Header(ArchFile(p))[i])]

LEMMA MembersLen == ASSUME NEW w \in Seq(Cell) PROVE Len(Members(w)) = Len(Header(w))
<1>1. DOMAIN Members(w) = 1 .. Len(Header(w)) /\ Len(Header(w)) \in Nat
  BY HeaderFacts, LenProperties DEF Members
<1>2. QED
  BY <1>1

LEMMA InputComplete ==
    ASSUME TypeInv, Formed, NEW p \in Procs, DraftOf(p), ListOf(p), CopiedOf(p),
           pc[p] \in {"unlink", "rename"}, Op(p) = "input", Fits(ArchFile(p)), Fits(WorkFile(p)),
           \A i \in MustKeep(p) : Intact(ArchFile(p), Header(ArchFile(p))[i])
    PROVE  Complete(p)
<1> DEFINE c == ArchFile(p)
           w == WorkFile(p)
           h == Header(c)
           g == Header(w)
           hdr == loc[p].hdr
           a == loc[p].added
           t == loc[p].tfd.pos
           n == Len(h)
<1>1. /\ c \in Seq(Cell) /\ WellFormed(c) /\ w \in Seq(Cell) /\ a \in Nat /\ t \in Nat
      /\ HeaderDone(w, t) /\ Lists(w, hdr) /\ t <= Len(w)
  BY PublishedWork
<1>2. Len(hdr) = n + a /\ \A i \in 1 .. n : hdr[i] = h[i]
  BY DEF ListOf, Listed, ArchFile, Op
<1>3. n \in Nat /\ MustKeep(p) = 1 .. n /\ \A i \in 1 .. n : h[i] \in Entry
  <2>1. h \in Seq(Entry) /\ n \in Nat /\ DOMAIN h = 1 .. n
    BY <1>1, HeaderFacts, LenProperties
  <2>2. QED
    BY <2>1, ElementOfSeq DEF MustKeep
<1>4. Len(g) = n + a /\ \A i \in 1 .. n : SameMember(g[i], h[i]) /\ i \in 1 .. Len(g)
  <2>1. \A i \in 1 .. n : i \in 1 .. n + a
    BY <1>1, <1>3
  <2>2. QED
    BY <1>1, <1>2, <2>1 DEF Lists
<1>5. ASSUME NEW i \in 1 .. n
      PROVE  Members(w)[i] = [name |-> h[i].name, data |-> Region(c, h[i])]
  <2>1. h # <<>>
    BY <1>3, <1>5
  <2>2. /\ Len(c) + a <= t
        /\ \A x \in n + 2 .. Len(c) : w[x + a] = c[x]
    BY <2>1 DEF CopiedOf, Copied, CopiedOld, ArchFile, WorkFile, Op
  <2>3. \A j \in 1 .. n : g[j].size = h[j].size
    BY <1>4 DEF SameMember
  <2>4. \A j \in 1 .. n : Intact(c, h[j])
    BY <1>3
  <2>5. Fits(c) /\ Fits(w)
    OBVIOUS
  <2> HIDE DEF c, w, a, t
  <2>6. Holds(w, i, t, c, h[i])
    BY <1>1, <1>4, <1>5, <2>2, <2>3, <2>4, <2>5, OldDataHeld
  <2>7. QED
    BY <1>1, <1>3, <1>4, <1>5, <2>4, <2>6, SameMemberData, ZenonT(30)
<1>6. Cardinality(1 .. n) = n
  BY <1>3, RankOfAll, RankStarts
<1>7. \A i \in 1 .. n : Rank(1 .. n, i) = i
  BY <1>3, RankOfAll
<1>8. Len(Members(w)) = n + a
  BY <1>1, <1>4, MembersLen
<1>9. QED
  BY <1>3, <1>5, <1>6, <1>7, <1>8 DEF Complete

LEMMA RemoveComplete ==
    ASSUME TypeInv, Formed, NEW p \in Procs, DraftOf(p), ListOf(p), CopiedOf(p),
           pc[p] \in {"unlink", "rename"}, Op(p) = "remove", Fits(ArchFile(p)), Fits(WorkFile(p)),
           \A i \in MustKeep(p) : Intact(ArchFile(p), Header(ArchFile(p))[i])
    PROVE  Complete(p)
<1> DEFINE c == ArchFile(p)
           w == WorkFile(p)
           h == Header(c)
           g == Header(w)
           hdr == loc[p].hdr
           t == loc[p].tfd.pos
           n == Len(h)
           d == Len(hdr)
           S == MustKeep(p)
<1>1. /\ c \in Seq(Cell) /\ WellFormed(c) /\ w \in Seq(Cell) /\ t \in Nat
      /\ HeaderDone(w, t) /\ Lists(w, hdr) /\ t <= Len(w) /\ d \in Nat /\ hdr \in Seq(Entry)
  BY PublishedWork
<1>2. S = Kept(h, loc[p].cmd)
  BY DEF MustKeep, Kept, Op, Args
<1>3. loc[p].added = 0 /\ Filtered(h, hdr, d + 1, S, n)
  BY <1>2 DEF ListOf, Listed, ArchFile, Op
<1>4. n \in Nat /\ S \subseteq 1 .. n /\ h \in Seq(Entry) /\ \A i \in 1 .. n : h[i] \in Entry
  <2>1. h \in Seq(Entry) /\ n \in Nat
    BY <1>1, HeaderFacts, LenProperties
  <2>2. QED
    BY <1>2, <2>1, KeptPlaces, ElementOfSeq
<1> HIDE DEF n, d, S
<1>5. /\ d + 1 = Rank(S, n) + 1
      /\ \A i \in S : i <= n => hdr[Rank(S, i)] = h[i]
      /\ \A r \in 1 .. d : \E i \in S : hdr[r] = h[i]
  <2> HIDE DEF h, hdr
  <2>1. d + 1 = Rank(S, n) + 1
    BY <1>3 DEF Filtered
  <2>2. \A i \in S : i <= n => hdr[Rank(S, i)] = h[i]
    BY <1>3 DEF Filtered
  <2>3. \A r \in 1 .. d : \E i \in S : hdr[r] = h[i]
    <3> DEFINE k == d + 1
    <3> HIDE DEF k
    <3>1. Filtered(h, hdr, k, S, n)
      BY <1>3 DEF k
    <3>2. \A r \in 1 .. k - 1 : \E i \in S : hdr[r] = h[i]
      BY <3>1 DEF Filtered
    <3>3. k - 1 = d
      BY <1>1 DEF k
    <3>4. QED
      BY <3>2, <3>3
  <2>4. QED
    BY <2>1, <2>2, <2>3
<1>6. d = Rank(S, n) /\ Rank(S, n) = Cardinality(S) /\ Rank(S, n) \in Nat
  <2>1. Rank(S, n) = Cardinality(S) /\ Rank(S, n) \in Nat
    BY <1>4, RankStarts, FewPlaces
  <2>2. d \in Nat
    BY <1>1
  <2>3. QED
    BY <1>5, <2>1, <2>2
<1>7. Whole(c, hdr)
  BY <1>5 DEF Whole, d, S
<1>8. \A r \in 1 .. d : Holds(w, r, t, c, hdr[r])
  BY <1>7, Zenon DEF CopiedOf, Copied, CopiedMembers, ArchFile, WorkFile, Op, d
<1>9. Len(g) = d /\ \A r \in 1 .. d : SameMember(g[r], hdr[r])
  BY <1>1 DEF Lists, d
<1>10. ASSUME NEW i \in S
       PROVE  Members(w)[Rank(S, i)] = [name |-> h[i].name, data |-> Region(c, h[i])]
  <2>1. i \in 1 .. n /\ i <= n /\ n \in Nat
    BY <1>4
  <2>2. Rank(S, i) \in 1 .. d
    BY <1>4, <1>6, <2>1, RankOrders
  <2>3. hdr[Rank(S, i)] = h[i] /\ h[i] \in Entry
    BY <1>4, <1>5, <2>1
  <2>4. Intact(c, h[i])
    BY DEF S
  <2> DEFINE r == Rank(S, i)
  <2> HIDE DEF r, c, w, t
  <2>5. r \in 1 .. Len(Header(w)) /\ SameMember(Header(w)[r], h[i]) /\ Holds(w, r, t, c, h[i])
    BY <1>8, <1>9, <2>2, <2>3 DEF r
  <2>6. QED
    BY <1>1, <2>3, <2>4, <2>5, SameMemberData DEF r
<1>11. Len(Members(w)) = Cardinality(S) + loc[p].added
  BY <1>1, <1>3, <1>6, <1>9, MembersLen
<1>12. QED
  BY <1>10, <1>11 DEF Complete, S

\* Every file has a size that off_t can hold.
FilesFit == \A i \in Inodes : Fits(ino[i])

LEMMA CopiedComplete ==
    ASSUME TypeInv, Formed, DraftInv, ListInv, CopiedInv, FilesFit
    PROVE  CompleteBeforeUnlink
<1> SUFFICES ASSUME NEW p \in Procs, pc[p] \in {"unlink", "rename"},
                    \A i \in MustKeep(p) : Intact(ArchFile(p), Header(ArchFile(p))[i])
             PROVE  Complete(p)
  BY DEF CompleteBeforeUnlink, Complete
<1>1. DraftOf(p) /\ ListOf(p) /\ CopiedOf(p)
  BY DEF DraftInv, ListInv, CopiedInv
<1>2. /\ loc[p].afd.ino \in Inodes /\ loc[p].tfd.ino \in Inodes /\ Op(p) \in {"input", "remove"}
  BY <1>1, PublishedWork
<1>3. Fits(ArchFile(p)) /\ Fits(WorkFile(p))
  BY <1>2 DEF FilesFit, ArchFile, WorkFile
<1>4. QED
  BY <1>1, <1>2, <1>3, InputComplete, RemoveComplete

\* With at most one process that may run -i or -r, whatever is killed,
\* edited or read beside it, whichever open() fails and is noticed, and as
\* long as no file is larger than off_t can say: before -i or -r removes the
\* old archive, the work file holds every member that must survive, in order
\* and with its data.  A -r that does not notice that its work file could not
\* be opened loses them all; the property says nothing from there on.
THEOREM NothingLostByUnlink == OneWriter => (Spec => [](FilesFit => CompleteBeforeUnlink))
<1> SUFFICES ASSUME OneWriter PROVE Spec => [](FilesFit => CompleteBeforeUnlink)
  OBVIOUS
<1> DEFINE Inv == Private /\ Parsable /\ Formed /\ DraftInv /\ ListInv /\ CopiedInv
<1>1. Init => Inv
  BY InitPrivate, InitFormed, InitDraftInv, InitListInv, InitCopiedInv DEF Init, Parsable
<1>2. TypeInv /\ Inv /\ [Running]_vars => Inv'
  BY NextPrivate, NextWellFormed, NextFormed, NextDraftInv, NextListInv, NextCopiedInv
<1>3. TypeInv /\ Inv => (FilesFit => CompleteBeforeUnlink)
  BY CopiedComplete
<1> HIDE DEF Inv
<1>4. TypeInv /\ (Opened => Inv) /\ [Next]_vars => (Opened => Inv)'
  BY <1>2, StillOpened
<1>5. TypeInv /\ (Opened => Inv) => (FilesFit => CompleteBeforeUnlink)
  BY <1>3 DEF CompleteBeforeUnlink
<1>6. QED
  BY TypeInvariance, <1>1, <1>4, <1>5, PTL DEF Spec

-----------------------------------------------------------------------------
(* Unpacking.  An extraction that shares the file it unpacks with no other *)
(* program copies the member, whatever becomes of the archive meanwhile.   *)

\* Process p is copying a member into the file f.
Unpacks(p, f) ==
    pc[p] = "copyMember" /\ Op(p) = "extract" /\ loc[p].hdr[loc[p].k].name = f

\* No two extractions copy into one file at a time, and no other program
\* changes a file while a member is copied into it.
Alone == \A p, q \in Procs, f \in Paths : Unpacks(p, f) /\ Unpacks(q, f) => p = q

EditsElsewhere == \A f \in Paths : Edit(f) => \A p \in Procs : ~Unpacks(p, f)

\* The offset of a member is one lseek() accepts.
Reachable(e) == e.off < (Word + 1) \div 2

Addressed ==
    \A p \in Procs : pc[p] = "copyMember" /\ Op(p) = "extract" =>
        Reachable(loc[p].hdr[loc[p].k])

\* The first n cells of text d are those of entry e of archive c, and a is
\* where a copy of e that has done n cells stands in c: at its cell n or, like
\* that, at the end of c.
Starts(d, c, e, n) == n <= Len(d) /\ \A j \in 1 .. n : d[j] = Region(c, e)[j]

StandsAt(c, e, n, a) == \/ a = e.off + n
                        \/ Len(c) <= a /\ Len(c) <= e.off + n

UnpacksWell(m, c, e, d) ==
    /\ m.pos + m.left = e.size
    /\ Reachable(e) => StandsAt(c, e, m.pos, m.afd.pos) /\ Starts(d, c, e, m.pos)

Unpacked(l, m, files, texts) ==
    /\ l \in {"stat", "measure"} => m.cmd.op = "input"
    /\ l = "writeHeader" => m.cmd.op \in {"input", "remove"}
    /\ l \in {"filter", "member", "copyMember"} => m.cmd.op \in {"remove", "extract"}
    /\ l = "copyMember" /\ m.cmd.op = "extract" =>
          UnpacksWell(m, files[m.afd.ino], m.hdr[m.k], texts[m.hdr[m.k].name].data)

UnpackedOf(p) == Unpacked(pc[p], loc[p], ino, disk)

UnpackedInv == \A p \in Procs : UnpackedOf(p)

\* One turn of copy_file reads the next cells of the member, or junk behind
\* the end of the archive, and writes them behind those it wrote before.
LEMMA ReadOn ==
    ASSUME NEW c \in Seq(Cell), NEW e \in Entry, NEW done \in Nat, NEW a \in Nat,
           NEW n \in Nat, StandsAt(c, e, done, a)
    PROVE  StandsAt(c, e, done + n, a + ReadCount(c, a, n))
<1> DEFINE off == e.off
           last == Len(c)
<1>1. off \in Nat /\ last \in Nat
  BY UIntFacts, LenProperties DEF Entry
<1>2. a = off + done \/ (last <= a /\ last <= off + done)
  BY DEF StandsAt
<1>3. \/ last <= a /\ ReadCount(c, a, n) = 0
      \/ a < last /\ a + n <= last /\ ReadCount(c, a, n) = n
      \/ a < last /\ last < a + n /\ ReadCount(c, a, n) = last - a
  BY <1>1 DEF ReadCount
<1> HIDE DEF off, last
<1> DEFINE b == a + ReadCount(c, a, n)
<1>4. b = off + (done + n) \/ (last <= b /\ last <= off + (done + n))
  BY <1>1, <1>2, <1>3
<1> HIDE DEF b
<1>5. QED
  BY <1>4 DEF StandsAt, b, off, last

LEMMA ChunkUnpacked ==
    ASSUME NEW c \in Seq(Cell), NEW e \in Entry, NEW d \in Seq(Cell), NEW done \in Nat,
           NEW a \in Nat, NEW n \in Nat, done + n <= e.size,
           StandsAt(c, e, done, a), Starts(d, c, e, done)
    PROVE  Starts(WriteAt(d, done, ReadInto(c, a, n)), c, e, done + n)
<1> DEFINE b == ReadInto(c, a, n)
           v == WriteAt(d, done, b)
           g == Region(c, e)
           off == e.off
           size == e.size
<1>1. off \in Nat /\ size \in Nat /\ Len(c) \in Nat
  BY UIntFacts, LenProperties DEF Entry
<1>2. b \in Seq(Cell) /\ Len(b) = n
  BY ReadIntoFacts
<1>3. \A i \in 1 .. n : b[i] = g[done + i]
  <2> SUFFICES ASSUME NEW i \in 1 .. n PROVE b[i] = g[done + i]
    OBVIOUS
  <2>1. i \in Nat /\ done + i \in 1 .. size
    BY <1>1
  <2>2. b[i] = IF a + i <= Len(c) THEN c[a + i] ELSE Junk
    BY DEF ReadInto
  <2>3. g[done + i] = IF off + (done + i) <= Len(c) THEN c[off + (done + i)] ELSE Junk
    BY <2>1 DEF Region, ReadInto
  <2>4. a = off + done \/ (Len(c) <= a /\ Len(c) <= off + done)
    BY DEF StandsAt
  <2> HIDE DEF b, g, off, size
  <2>5. CASE a = off + done
    <3>1. a + i = off + (done + i)
      BY <1>1, <2>1, <2>5
    <3>2. QED
      BY <2>2, <2>3, <3>1
  <2>6. CASE Len(c) <= a /\ Len(c) <= off + done
    <3>1. ~(a + i <= Len(c)) /\ ~(off + (done + i) <= Len(c))
      BY <1>1, <2>1, <2>6
    <3>2. QED
      BY <2>2, <2>3, <3>1
  <2>7. QED
    BY <2>4, <2>5, <2>6
<1>4. done <= Len(d) /\ \A j \in 1 .. done : d[j] = g[j]
  BY DEF Starts
<1> HIDE DEF b, g
<1>5. /\ v \in Seq(Cell) /\ done + n <= Len(v)
      /\ \A i \in 1 .. done : v[i] = d[i]
      /\ \A i \in 1 .. n : v[done + i] = b[i]
  BY <1>2, <1>4, WriteBehind
<1> HIDE DEF v
<1>6. \A j \in 1 .. done + n : v[j] = g[j]
  <2> SUFFICES ASSUME NEW j \in 1 .. done + n PROVE v[j] = g[j]
    OBVIOUS
  <2>1. CASE j <= done
    BY <1>4, <1>5, <2>1
  <2>2. CASE done < j
    <3>1. j - done \in 1 .. n /\ done + (j - done) = j
      BY <2>2
    <3>2. v[done + (j - done)] = b[j - done] /\ b[j - done] = g[done + (j - done)]
      BY <1>3, <1>5, <3>1
    <3>3. QED
      BY <3>1, <3>2
  <2>3. QED
    BY <2>1, <2>2
<1>7. QED
  BY <1>5, <1>6 DEF Starts, g, v, b

LEMMA GotoUnpacked ==
    ASSUME TypeInv, NEW p \in Procs, NEW l, NEW m, Goto(p, l, m), Unpacked(l, m, ino', disk')
    PROVE  UnpackedOf(p)'
<1>1. pc'[p] = l /\ loc'[p] = m
  BY DEF Goto, TypeInv, TypeOK
<1>2. QED
  BY <1>1 DEF UnpackedOf

LEMMA ElsewhereUnpacked ==
    ASSUME TypeInv, NEW p \in Procs, NEW l, NEW m, Goto(p, l, m),
           \/ l \notin {"stat", "measure", "writeHeader", "filter", "member", "copyMember"}
           \/ m.cmd.op = "remove" /\ l \notin {"stat", "measure"}
           \/ m.cmd.op = "extract" /\ l \in {"filter", "member"}
           \/ m.cmd.op = "input" /\ l \in {"stat", "measure", "writeHeader"}
    PROVE  UnpackedOf(p)'
  BY GotoUnpacked DEF Unpacked

LEMMA ExitUnpacked == ASSUME TypeInv, NEW p \in Procs, Exit(p) PROVE UnpackedOf(p)'
  BY ElsewhereUnpacked DEF Exit

\* NextMember opens the file, seeks to the member and has copied none of it.
LEMMA NextMemberUnpacked ==
    ASSUME TypeInv, NEW p \in Procs, UnpackedOf(p), NextMember(p)
    PROVE  UnpackedOf(p)'
<1> DEFINE me == loc[p]
           e == me.hdr[me.k]
           afd == [me.afd EXCEPT !.pos = Seek(e.off, @)]
           ready == [me EXCEPT !.left = e.size, !.pos = 0, !.afd = afd]
<1>1. pc[p] = "member" /\ UNCHANGED fsVars /\ me.cmd.op \in {"remove", "extract"}
  BY DEF NextMember, UnpackedOf, Unpacked
<1>2. CASE me.k > Len(me.hdr)
  BY <1>2, ElsewhereUnpacked, ExitUnpacked DEF NextMember
<1>3. CASE me.k <= Len(me.hdr)
  <2>1. e \in Entry /\ e.name \in Paths /\ e.size \in UInt /\ e.size \in Nat
    BY <1>1, <1>3, MemberFacts, UIntFacts, ArchiverAssumption DEF Entry
  <2>2. ready = [me EXCEPT !.left = e.size, !.pos = 0, !.afd.pos = Seek(e.off, @)]
    BY <1>1, MemberFacts DEF Local, Fd
  <2>3. ~(me.k > Len(me.hdr))
    BY <1>1, <1>3, MemberFacts
  <2>4. \/ Goto(p, "copyMember", ready) /\ UNCHANGED disk
        \/ /\ Goto(p, "copyMember", ready)
           /\ disk' = [disk EXCEPT ![e.name] = CreatedFile(e.name, e.mask)]
        \/ Goto(p, "member", [me EXCEPT !.k = @ + 1]) /\ UNCHANGED disk
    BY <2>2, <2>3 DEF NextMember
  <2>5. disk'[e.name].data = disk[e.name].data /\ Len(disk[e.name].data) \in Nat
    <3>1. disk[e.name] \in FileState
      BY <2>1, LocalFacts DEF FilesOK
    <3>2. disk[e.name].data \in Seq(Cell)
      BY <3>1 DEF FileState
    <3>3. disk \in [Paths -> FileState]
      BY LocalFacts DEF FilesOK
    <3>4. disk' = disk \/ disk' = [disk EXCEPT ![e.name] = CreatedFile(e.name, e.mask)]
      BY <2>4, Zenon
    <3>5. CreatedFile(e.name, e.mask).data = disk[e.name].data
      BY DEF CreatedFile
    <3> HIDE DEF e
    <3>6. QED
      BY <2>1, <3>2, <3>3, <3>4, <3>5, LenProperties
  <2>6. /\ ready.pos = 0 /\ ready.left = e.size /\ ready.hdr = me.hdr /\ ready.k = me.k
        /\ ready.afd.ino = me.afd.ino /\ ready.cmd = me.cmd
        /\ Reachable(e) => ready.afd.pos = e.off
    <3>1. me \in Local /\ me.afd \in Fd
      BY <1>1, MemberFacts
    <3>2. ready.afd = afd /\ afd.ino = me.afd.ino /\ (Reachable(e) => afd.pos = e.off)
      BY <3>1 DEF Local, Fd, Seek, Reachable
    <3>3. QED
      BY <3>1, <3>2 DEF Local
  <2> DEFINE c == ino'[me.afd.ino]
             d == disk'[e.name].data
  <2>7. Starts(d, c, e, 0) /\ StandsAt(c, e, 0, e.off)
    <3>1. e.off \in Nat
      BY <2>1, UIntFacts DEF Entry
    <3>2. 1 .. 0 = {}
      OBVIOUS
    <3>3. Len(d) \in Nat
      BY <2>5
    <3> HIDE DEF d, c, e
    <3>4. QED
      BY <3>1, <3>2, <3>3 DEF Starts, StandsAt
  <2> HIDE DEF c, d
  <2>8. UnpacksWell(ready, c, e, d)
    <3> HIDE DEF ready, e
    <3>1. QED
      BY <2>1, <2>6, <2>7 DEF UnpacksWell
  <2> HIDE DEF ready
  <2>9. Unpacked("copyMember", ready, ino', disk')
    BY <1>1, <2>6, <2>8 DEF Unpacked, c, d
  <2>10. [me EXCEPT !.k = @ + 1].cmd = me.cmd
    BY <1>1, MemberFacts DEF Local
  <2>11. QED
    BY <1>1, <2>4, <2>9, <2>10, GotoUnpacked, ElsewhereUnpacked
<1>4. QED
  BY <1>1, <1>2, <1>3, MemberFacts

\* CopyMember copies the next chunk.
LEMMA CopyMemberUnpacked ==
    ASSUME TypeInv, Private, NEW p \in Procs, UnpackedOf(p), CopyMember(p)
    PROVE  UnpackedOf(p)'
<1> DEFINE me == loc[p]
           e == me.hdr[me.k]
           c == ArchFile(p)
           d == disk[e.name].data
           a == me.afd.pos
           n == ChunkSize(me.left)
           chunk == ReadInto(c, a, n)
           read == ReadCount(c, a, n)
           afd == [me.afd EXCEPT !.pos = @ + read]
           m == [me EXCEPT !.left = @ - n, !.afd = afd, !.pos = @ + n]
<1>1. pc[p] = "copyMember" /\ Step(p) /\ me.cmd.op \in {"remove", "extract"}
  BY Zenon DEF CopyMember, Step, UnpackedOf, Unpacked
<1>2. CASE me.left = 0
  <2>1. [me EXCEPT !.k = @ + 1].cmd = me.cmd
    BY <1>1, MemberFacts DEF Local
  <2>2. QED
    BY <1>1, <1>2, <2>1, ElsewhereUnpacked DEF CopyMember
<1>3. CASE me.left # 0 /\ Op(p) = "remove"
  <2> DEFINE l == [[me EXCEPT !.left = @ - n, !.afd.pos = @ + read] EXCEPT !.tfd.pos = @ + n]
  <2>1. Goto(p, "copyMember", l)
    BY <1>3, Zenon DEF CopyMember
  <2>2. l.cmd = me.cmd
    BY <1>1, MemberFacts DEF Local
  <2>3. l.cmd.op = "remove"
    BY <1>3, <2>2 DEF Op
  <2> HIDE DEF l
  <2>4. QED
    BY <2>1, <2>3, ElsewhereUnpacked
<1>4. CASE me.left # 0 /\ Op(p) = "extract"
  <2>1. disk' = [disk EXCEPT ![e.name].data = WriteAt(@, me.pos, chunk)] /\ UNCHANGED fsVars
    <3>1. Op(p) # "remove"
      BY <1>4
    <3>2. QED
      BY <1>4, <3>1, Zenon DEF CopyMember
  <2>2. Goto(p, "copyMember", [[me EXCEPT !.left = @ - n, !.afd.pos = @ + read]
                               EXCEPT !.pos = @ + n])
    <3>1. Op(p) # "remove"
      BY <1>4
    <3>2. QED
      BY <1>4, <3>1, Zenon DEF CopyMember
  <2>3. /\ me \in Local /\ me.afd \in Fd /\ me.afd.ino \in Inodes /\ a \in Nat /\ me.pos \in Nat
        /\ me.left \in UInt /\ me.left \in Nat /\ c \in Seq(Cell)
        /\ n \in 0 .. me.left /\ read \in Nat
    <3>1. /\ me \in Local /\ me.afd \in Fd /\ me.afd.ino \in Inodes /\ a \in Nat
          /\ me.pos \in Nat /\ me.left \in UInt /\ me.left \in Nat /\ c \in Seq(Cell)
      BY <1>1, MemberFacts, UIntFacts
    <3>2. n \in 0 .. me.left
      BY <3>1, ChunkFacts
    <3> HIDE DEF n, c, a
    <3>3. n \in Nat
      BY <3>1, <3>2
    <3>4. read \in 0 .. n
      BY <3>1, <3>3, ReadCountFacts
    <3>5. QED
      BY <3>1, <3>2, <3>3, <3>4
  <2>4. e \in Entry /\ e.name \in Paths /\ e.size \in Nat
    <3>1. me.k <= Len(me.hdr)
      BY <1>1, LocalFacts DEF Reached, InRange
    <3>2. e \in Entry
      BY <1>1, <3>1, MemberFacts
    <3>3. QED
      BY <3>2, UIntFacts, ArchiverAssumption DEF Entry
  <2>5. disk \in [Paths -> FileState] /\ d \in Seq(Cell)
    <3>1. disk \in [Paths -> FileState]
      BY LocalFacts DEF FilesOK
    <3>2. disk[e.name] \in FileState
      BY <2>4, <3>1
    <3>3. QED
      BY <3>1, <3>2 DEF FileState
  <2>6. disk'[e.name].data = WriteAt(d, me.pos, chunk)
    <3> HIDE DEF chunk, e
    <3>1. disk[e.name] \in FileState
      BY <2>4, <2>5
    <3>2. disk'[e.name] = [disk[e.name] EXCEPT !.data = WriteAt(@, me.pos, chunk)]
      BY <2>1, <2>4, <2>5
    <3>3. QED
      BY <3>1, <3>2 DEF FileState
  <2>7. UnpacksWell(me, c, e, d)
    BY <1>1, <1>4 DEF UnpackedOf, Unpacked, Op, ArchFile
  <2>8. Goto(p, "copyMember", m)
    <3> HIDE DEF n, read
    <3>1. m = [[me EXCEPT !.left = @ - n, !.afd.pos = @ + read] EXCEPT !.pos = @ + n]
      BY <2>3 DEF Local, Fd
    <3>2. QED
      BY <2>2, <3>1
  <2>9. /\ m.hdr = me.hdr /\ m.k = me.k /\ m.cmd = me.cmd /\ m.afd.ino = me.afd.ino
        /\ m.pos = me.pos + n /\ m.left = me.left - n /\ m.afd.pos = a + read
    <3> HIDE DEF n, read
    <3>1. QED
      BY <2>3 DEF Local, Fd
  <2>10. ino'[me.afd.ino] = c
    BY <1>1, <2>3, ArchiveStays DEF ArchFile
  <2>11. m.pos + m.left = e.size /\ me.pos + n <= e.size /\ n \in Nat
    <3>1. me.pos + me.left = e.size
      BY <2>7 DEF UnpacksWell
    <3> HIDE DEF n, e, m
    <3>2. QED
      BY <2>3, <2>9, <3>1
  <2>12. ASSUME Reachable(e)
         PROVE  StandsAt(c, e, m.pos, m.afd.pos) /\ Starts(disk'[e.name].data, c, e, m.pos)
    <3>1. StandsAt(c, e, me.pos, a) /\ Starts(d, c, e, me.pos)
      BY <2>7, <2>12 DEF UnpacksWell
    <3> HIDE DEF c, e, d, a, n, m
    <3>2. StandsAt(c, e, me.pos + n, a + read)
      BY <2>3, <2>4, <2>11, <3>1, ReadOn
    <3>3. Starts(WriteAt(d, me.pos, chunk), c, e, me.pos + n)
      BY <2>3, <2>4, <2>5, <2>11, <3>1, ChunkUnpacked
    <3> HIDE DEF read, chunk
    <3>4. QED
      BY <2>6, <2>9, <3>2, <3>3
  <2> HIDE DEF m, c
  <2>13. UnpacksWell(m, c, e, disk'[e.name].data)
    <3> HIDE DEF e
    <3>1. QED
      BY <2>11, <2>12 DEF UnpacksWell
  <2>14. Unpacked("copyMember", m, ino', disk')
    BY <1>1, <2>9, <2>10, <2>13 DEF Unpacked
  <2>15. QED
    BY <2>8, <2>14, GotoUnpacked
<1>5. QED
  BY <1>1, <1>2, <1>3, <1>4 DEF Op

LEMMA StepUnpacked ==
    ASSUME TypeInv, Private, NEW p \in Procs, UnpackedOf(p), Step(p)
    PROVE  UnpackedOf(p)'
<1> DEFINE me == loc[p]
<1>1. me \in Local
  BY LocalFacts
<1>2. CASE OpenWork(p) \/ OpenArchive(p)
  BY <1>2, ElsewhereUnpacked, ExitUnpacked DEF OpenWork, OpenArchive
<1>3. CASE ReadHeader(p)
  <2> DEFINE m == [me EXCEPT !.afd.pos = 0, !.k = 1]
  <2>1. Op(p) \in {"input", "remove", "extract", "stat"}
    BY <1>3, LocalFacts DEF ReadHeader
  <2>2. m.cmd.op = Op(p)
    BY <1>1 DEF Local, Op
  <2> HIDE DEF m
  <2>3. AfterHeader(p, m) => UnpackedOf(p)'
    BY <2>1, <2>2, ElsewhereUnpacked, ExitUnpacked DEF AfterHeader
  <2>4. QED
    BY <1>3, <2>3, ElsewhereUnpacked DEF ReadHeader, m
<1>4. CASE FilterHeader(p)
  <2>1. me.cmd.op \in {"remove", "extract"}
    BY <1>4 DEF FilterHeader, UnpackedOf, Unpacked
  <2>2. /\ [me EXCEPT !.k = 1].cmd = me.cmd /\ [me EXCEPT !.k = @ + 1].cmd = me.cmd
        /\ [me EXCEPT !.hdr = DropNode(@, me.k)].cmd = me.cmd
    BY <1>1 DEF Local
  <2>3. CASE me.k > Len(me.hdr)
    <3> DEFINE m == [me EXCEPT !.k = 1]
    <3>1. m.cmd.op = Op(p)
      BY <2>2 DEF Op
    <3>2. Goto(p, IF Op(p) = "remove" THEN "writeHeader" ELSE "member", m)
      BY <1>4, <2>3 DEF FilterHeader
    <3> HIDE DEF m
    <3>3. QED
      BY <2>1, <3>1, <3>2, ElsewhereUnpacked DEF Op
  <2>4. CASE ~(me.k > Len(me.hdr))
    BY <1>4, <2>1, <2>2, <2>4, ElsewhereUnpacked DEF FilterHeader
  <2>5. QED
    BY <2>3, <2>4
<1>5. CASE WriteHeader(p)
  <2> DEFINE m == [me EXCEPT !.k = 1, !.raw = 0, !.tfd.pos = @ + 1]
  <2>1. me.cmd.op \in {"input", "remove"}
    BY <1>5 DEF WriteHeader, UnpackedOf, Unpacked
  <2>2. m.cmd = me.cmd
    BY <1>1 DEF Local
  <2> HIDE DEF m
  <2>3. CASE Goto(p, IF Op(p) = "input" THEN "locate" ELSE "member", m)
    BY <2>1, <2>2, <2>3, ElsewhereUnpacked DEF Op
  <2> DEFINE m3 == [me EXCEPT !.k = @ + 1, !.tfd.pos = @ + 1,
                              !.raw = NextRaw(@, me.hdr[me.k].size)]
  <2>4. m3.cmd = me.cmd
    BY <1>1 DEF Local
  <2> HIDE DEF m3
  <2>5. CASE Goto(p, "writeHeader", m3)
    BY <2>1, <2>4, <2>5, ElsewhereUnpacked
  <2>6. QED
    BY <1>5, <2>3, <2>5 DEF WriteHeader, m, m3
<1>6. CASE LocateData(p) \/ CopyOld(p) \/ OpenSource(p) \/ CopySource(p)
  BY <1>6, ElsewhereUnpacked, ExitUnpacked
  DEF LocateData, CopyOld, OpenSource, CopySource
<1>7. CASE Unlink(p) \/ Rename(p) \/ Refuse(p)
  BY <1>7, ElsewhereUnpacked, ExitUnpacked DEF Unlink, Rename, Refuse
<1>8. CASE StatFile(p) \/ MeasureFile(p)
  <2>1. me.cmd.op = "input"
    BY <1>8 DEF StatFile, MeasureFile, UnpackedOf, Unpacked
  <2>2. \/ Exit(p)
        \/ \E l \in {"stat", "measure", "writeHeader"} : \E m : m.cmd = me.cmd /\ Goto(p, l, m)
    BY <1>1, <1>8 DEF StatFile, MeasureFile, Local
  <2>3. QED
    BY <2>1, <2>2, ElsewhereUnpacked, ExitUnpacked
<1>9. QED
  BY <1>2, <1>3, <1>4, <1>5, <1>6, <1>7, <1>8, NextMemberUnpacked, CopyMemberUnpacked DEF Step

\* What a process is unpacking is left alone by every other process.
LEMMA OthersKeepText ==
    ASSUME TypeInv, Alone, NEW p \in Procs, UnpackedOf(p), Step(p), NEW q \in Procs, q # p,
           NEW f \in Paths, Unpacks(q, f)
    PROVE  disk'[f].data = disk[f].data
<1> DEFINE e == loc[p].hdr[loc[p].k]
<1>1. disk \in [Paths -> FileState] /\ disk[f] \in FileState
  BY LocalFacts DEF FilesOK
<1>2. CASE disk' = disk
  BY <1>2
<1>3. CASE disk' = [disk EXCEPT ![e.name] = CreatedFile(e.name, e.mask)]
  <2>1. CreatedFile(e.name, e.mask).data = disk[e.name].data
    BY DEF CreatedFile
  <2> HIDE DEF e
  <2>2. QED
    BY <1>1, <1>3, <2>1
<1>4. ASSUME NEW d, pc[p] = "copyMember", Op(p) # "remove",
             disk' = [disk EXCEPT ![e.name].data = d]
      PROVE  disk'[f].data = disk[f].data
  <2>1. Op(p) = "extract"
    BY <1>4, Zenon DEF UnpackedOf, Unpacked, Op
  <2>2. e.name # f
    BY <1>4, <2>1 DEF Alone, Unpacks
  <2> HIDE DEF e
  <2>3. QED
    BY <1>1, <1>4, <2>2
<1>5. CASE NextMember(p)
  BY <1>2, <1>3, <1>5 DEF NextMember
<1>6. CASE CopyMember(p)
  <2> DEFINE d == WriteAt(disk[e.name].data, loc[p].pos,
                          ReadInto(ArchFile(p), loc[p].afd.pos, ChunkSize(loc[p].left)))
  <2>1. \/ disk' = disk
        \/ /\ pc[p] = "copyMember" /\ Op(p) # "remove"
           /\ disk' = [disk EXCEPT ![e.name].data =
                          WriteAt(@, loc[p].pos,
                                  ReadInto(ArchFile(p), loc[p].afd.pos, ChunkSize(loc[p].left)))]
    BY <1>6, Zenon DEF CopyMember
  <2>2. \/ disk' = disk
        \/ /\ pc[p] = "copyMember" /\ Op(p) # "remove"
           /\ disk' = [disk EXCEPT ![e.name].data = d]
    BY <2>1, Zenon
  <2> HIDE DEF d, e
  <2>3. QED
    BY <1>2, <1>4, <2>2, Zenon DEF e
<1>7. QED
  BY <1>2, <1>5, <1>6 DEF Step, OpenWork, OpenArchive, ReadHeader, StatFile, MeasureFile,
     FilterHeader, WriteHeader, LocateData, CopyOld, OpenSource, CopySource, Unlink, Rename, Refuse

\* The first n cells of two sequences that agree there.
LEMMA SamePrefix ==
    ASSUME NEW d \in Seq(Cell), NEW g \in Seq(Cell), NEW n \in Nat,
           n <= Len(d), n <= Len(g), \A j \in 1 .. n : d[j] = g[j]
    PROVE  SubSeq(d, 1, n) = SubSeq(g, 1, n)
<1>1. Len(d) \in Nat /\ Len(g) \in Nat
  BY LenProperties
<1>2. /\ SubSeq(d, 1, n) \in Seq(Cell) /\ Len(SubSeq(d, 1, n)) = n
      /\ \A j \in 1 .. n : SubSeq(d, 1, n)[j] = d[j]
  BY <1>1, SubSeqProperties, ElementOfSeq
<1>3. /\ SubSeq(g, 1, n) \in Seq(Cell) /\ Len(SubSeq(g, 1, n)) = n
      /\ \A j \in 1 .. n : SubSeq(g, 1, n)[j] = g[j]
  BY <1>1, SubSeqProperties, ElementOfSeq
<1>4. QED
  BY <1>2, <1>3, SeqEqual

LEMMA NextUnpackedInv ==
    ASSUME TypeInv, Private, UnpackedInv, Alone, [Next]_vars, [EditsElsewhere]_vars
    PROVE  UnpackedInv'
<1>1. ASSUME NEW q \in Procs, pc'[q] = pc[q], loc'[q] = loc[q],
             \A f \in Paths : Unpacks(q, f) => disk'[f].data = disk[f].data
      PROVE  UnpackedOf(q)'
  <2> DEFINE me == loc[q]
             e == me.hdr[me.k]
  <2>1. Unpacked(pc[q], me, ino, disk)
    BY DEF UnpackedInv, UnpackedOf
  <2>2. ASSUME pc[q] = "copyMember", me.cmd.op = "extract"
        PROVE  ino'[me.afd.ino] = ino[me.afd.ino] /\ disk'[e.name].data = disk[e.name].data
    <3>1. me.afd.ino \in Inodes /\ e.name \in Paths
      <4>1. me.k <= Len(me.hdr)
        BY <2>2, LocalFacts DEF Reached, InRange
      <4>2. QED
        BY <2>2, <4>1, MemberFacts, ArchiverAssumption DEF Entry
    <3>2. ino'[me.afd.ino] = ino[me.afd.ino]
      BY <3>1, StepImmutable, BlindFacts DEF Visible, Next
    <3>3. Unpacks(q, e.name)
      BY <2>2 DEF Unpacks, Op
    <3>4. QED
      BY <1>1, <3>1, <3>2, <3>3
  <2>3. Unpacked(pc[q], me, ino', disk')
    BY <2>1, <2>2 DEF Unpacked
  <2>4. QED
    BY <1>1, <2>3 DEF UnpackedOf
<1>2. ASSUME NEW p \in Procs, Step(p) PROVE UnpackedInv'
  <2>1. UnpackedOf(p)'
    BY <1>2, StepUnpacked DEF UnpackedInv
  <2>2. ASSUME NEW q \in Procs, q # p PROVE UnpackedOf(q)'
    <3>1. UnpackedOf(p)
      BY DEF UnpackedInv
    <3>2. QED
      BY <1>1, <1>2, <2>2, <3>1, StepOthers, OthersKeepText DEF OthersStay
  <2>3. QED
    BY <2>1, <2>2 DEF UnpackedInv
<1>3. ASSUME NEW p \in Procs, Start(p) \/ Crash(p) PROVE UnpackedInv'
  <2>1. pc'[p] \in {"idle", "openWork", "openArchive"}
    BY <1>3 DEF Start, Crash, TypeInv, TypeOK
  <2>2. UnpackedOf(p)'
    BY <2>1 DEF UnpackedOf, Unpacked
  <2>3. disk' = disk /\ \A q \in Procs : q # p => pc'[q] = pc[q] /\ loc'[q] = loc[q]
    <3>1. CASE Start(p)
      BY <3>1 DEF Start, TypeInv, TypeOK
    <3>2. CASE Crash(p)
      BY <3>2 DEF Crash, TypeInv, TypeOK
    <3>3. QED
      BY <1>3, <3>1, <3>2
  <2>4. QED
    BY <1>1, <2>2, <2>3 DEF UnpackedInv
<1>4. ASSUME NEW f \in Paths, Edit(f) PROVE UnpackedInv'
  <2>1. pc' = pc /\ loc' = loc /\ \E s : disk' = [disk EXCEPT ![f] = s]
    BY <1>4 DEF Edit
  <2>2. UNCHANGED vars \/ \A p \in Procs : ~Unpacks(p, f)
    BY <1>4 DEF EditsElsewhere
  <2>3. ASSUME NEW q \in Procs, NEW g \in Paths, Unpacks(q, g)
        PROVE  disk'[g].data = disk[g].data
    <3>1. CASE UNCHANGED vars
      BY <3>1 DEF vars
    <3>2. CASE g # f
      BY <2>1, <3>2, LocalFacts DEF FilesOK
    <3>3. QED
      BY <2>2, <2>3, <3>1, <3>2
  <2>4. QED
    BY <1>1, <2>1, <2>3 DEF UnpackedInv
<1>5. CASE UNCHANGED vars
  BY <1>1, <1>5 DEF UnpackedInv, vars
<1>6. ASSUME NEW p \in Procs, Blindly(p) PROVE UnpackedInv'
  <2>1. /\ pc'[p] \in {"blind", "idle", "unlink", "garbled"} /\ disk' = disk
        /\ \A q \in Procs : q # p => pc'[q] = pc[q] /\ loc'[q] = loc[q]
    BY <1>6, BlindFacts
  <2>2. UnpackedOf(p)'
    BY <2>1 DEF UnpackedOf, Unpacked
  <2>3. QED
    BY <1>1, <2>1, <2>2 DEF UnpackedInv
<1>7. QED
  BY <1>2, <1>3, <1>4, <1>5, <1>6 DEF Next, Running, Finished

LEMMA InitUnpackedInv == Init => UnpackedInv
  BY DEF Init, UnpackedInv, UnpackedOf, Unpacked

LEMMA UnpackedInvIs ==
    ASSUME TypeInv, UnpackedInv, Addressed
    PROVE  UnpackedPrefix
<1> SUFFICES ASSUME NEW p \in Procs, pc[p] = "copyMember", Op(p) = "extract"
             PROVE  LET me == loc[p]
                        e == me.hdr[me.k]
                    IN  /\ me.pos + me.left = e.size
                        /\ SubSeq(disk[e.name].data, 1, me.pos)
                               = SubSeq(Region(ArchFile(p), e), 1, me.pos)
  BY DEF UnpackedPrefix
<1> DEFINE me == loc[p]
           e == me.hdr[me.k]
           c == ArchFile(p)
           d == disk[e.name].data
           g == Region(c, e)
<1>1. UnpacksWell(me, c, e, d) /\ Reachable(e)
  BY DEF UnpackedInv, UnpackedOf, Unpacked, Op, ArchFile, Addressed
<1>2. e \in Entry /\ e.name \in Paths /\ e.size \in Nat /\ e.off \in Nat
  <2>1. me.k <= Len(me.hdr)
    BY LocalFacts DEF Reached, InRange
  <2>2. e \in Entry
    BY <2>1, MemberFacts
  <2>3. QED
    BY <2>2, UIntFacts, ArchiverAssumption DEF Entry
<1>3. c \in Seq(Cell) /\ me.pos \in Nat /\ me.left \in Nat
  BY MemberFacts, UIntFacts
<1>4. g \in Seq(Cell) /\ Len(g) = e.size
  BY <1>2, <1>3, ReadIntoFacts DEF Region
<1>5. d \in Seq(Cell)
  <2>1. disk[e.name] \in FileState
    BY <1>2, LocalFacts DEF FilesOK
  <2>2. QED
    BY <2>1 DEF FileState
<1>6. /\ me.pos + me.left = e.size
      /\ me.pos <= Len(d) /\ \A j \in 1 .. me.pos : d[j] = g[j]
  BY <1>1, Zenon DEF UnpacksWell, Starts
<1> HIDE DEF me, e, c, d, g
<1>7. me.pos <= Len(g)
  BY <1>2, <1>3, <1>4, <1>6
<1>8. SubSeq(d, 1, me.pos) = SubSeq(g, 1, me.pos)
  BY <1>3, <1>4, <1>5, <1>6, <1>7, SamePrefix
<1>9. QED
  BY <1>6, <1>8, Zenon DEF me, e, c, d, g

\* With at most one process that may run -i or -r, whatever is killed,
\* inserted, removed, edited or fails to open beside it: an extraction that
\* is the only one to write to the file it unpacks, from an archive whose
\* offsets lseek accepts, has written the first cells of the member, and has
\* the others still to come.
THEOREM UnpacksTheMember ==
    OneWriter => (Spec /\ []Alone /\ [][EditsElsewhere]_vars
                     => [](Addressed => UnpackedPrefix))
<1> SUFFICES ASSUME OneWriter
             PROVE  Spec /\ []Alone /\ [][EditsElsewhere]_vars
                       => [](Addressed => UnpackedPrefix)
  OBVIOUS
<1>1. Init => Private /\ UnpackedInv
  BY InitPrivate, InitUnpackedInv
<1>2. TypeInv /\ Private /\ UnpackedInv /\ Alone /\ [Next]_vars /\ [EditsElsewhere]_vars
        => (Private /\ UnpackedInv)'
  BY NextPrivate, NextUnpackedInv, BlindFacts, QuietPrivate DEF Next
<1>3. TypeInv /\ UnpackedInv => (Addressed => UnpackedPrefix)
  BY UnpackedInvIs
<1>4. QED
  BY TypeInvariance, <1>1, <1>2, <1>3, PTL DEF Spec

-----------------------------------------------------------------------------
(* The data of the members that -i adds.                                   *)

\* The places of the arguments f that name regular files, and whether all of
\* those can be read and none is a fifo or device, when texts are the files there are.
Regulars(f, texts) == {k \in DOMAIN f : texts[f[k]].kind = "regular"}

AllReadable(f, texts) ==
    /\ \A k \in DOMAIN f : texts[f[k]].kind # "special"
    /\ \A k \in Regulars(f, texts) : "r" \in texts[f[k]].mode

\* Node e of the list announces the file f.
Announces(e, f, texts) ==
    e.name = Base[f] /\ e.size = Len(texts[f].data) /\ e.off = 0

CopyingLabels == {"writeHeader", "locate", "copyOld", "openSource", "copySource",
                  "unlink", "rename"}

\* What the list of -i, behind the n nodes of the old header, says of the
\* files to add.
Announced(l, m, n, texts) ==
    LET f == m.cmd.files
        T == Regulars(f, texts)
    IN  m.cmd.op = "input" /\ AllReadable(f, texts) =>
          /\ l \in {"stat", "measure"} =>
                /\ m.k <= Len(f) + 1 /\ m.added = Rank(T, m.k - 1)
                /\ \A k \in T : k < m.k => Announces(m.hdr[n + Rank(T, k)], f[k], texts)
          /\ l = "measure" => m.k \in T
          /\ l \in CopyingLabels =>
                /\ m.added = Cardinality(T) /\ m.added # 0
                /\ \A k \in T : Announces(m.hdr[n + Rank(T, k)], f[k], texts)
          /\ l \in {"locate", "copyOld"} => m.k = 1

OldMembers(p) == Len(Header(ArchFile(p)))

AnnouncedOf(p) == Announced(pc[p], loc[p], OldMembers(p), disk)

AnnouncedLabels == {"stat", "measure"} \cup CopyingLabels

LEMMA RegularsFacts ==
    ASSUME NEW f \in Seq(Paths), NEW texts
    PROVE  Regulars(f, texts) \subseteq 1 .. Len(f) /\ Len(f) \in Nat
  BY DEF Regulars

LEMMA NothingAnnounced ==
    ASSUME NEW l, l \notin AnnouncedLabels, NEW m, NEW n, NEW texts
    PROVE  Announced(l, m, n, texts)
  BY DEF AnnouncedLabels, CopyingLabels, Announced

LEMMA GotoAnnounced ==
    ASSUME TypeInv, Private, NEW p \in Procs, Step(p), loc[p].afd.ino \in Inodes,
           NEW l, NEW m, Goto(p, l, m), m.afd.ino = loc[p].afd.ino,
           Announced(l, m, OldMembers(p), disk')
    PROVE  AnnouncedOf(p)'
<1>1. pc'[p] = l /\ loc'[p] = m
  BY DEF TypeInv, TypeOK, Goto
<1>2. ino'[loc[p].afd.ino] = ino[loc[p].afd.ino]
  BY ArchiveStays
<1>3. OldMembers(p)' = OldMembers(p)
  BY <1>1, <1>2 DEF OldMembers, ArchFile
<1>4. QED
  BY <1>1, <1>3 DEF AnnouncedOf

LEMMA AwayAnnounced ==
    ASSUME TypeInv, NEW p \in Procs, NEW l, l \notin AnnouncedLabels, NEW m, Goto(p, l, m)
    PROVE  AnnouncedOf(p)'
<1>1. pc'[p] = l
  BY DEF TypeInv, TypeOK, Goto
<1>2. QED
  BY <1>1, NothingAnnounced DEF AnnouncedOf

LEMMA ExitAnnounced == ASSUME TypeInv, NEW p \in Procs, Exit(p) PROVE AnnouncedOf(p)'
  BY AwayAnnounced DEF Exit, AnnouncedLabels, CopyingLabels

\* Steps that leave the list and the arguments alone.
LEMMA SameAnnounced ==
    ASSUME NEW l, NEW m, NEW n, NEW texts, Announced(l, m, n, texts),
           NEW l2 \in CopyingLabels, NEW m2, l \in CopyingLabels, m2.cmd = m.cmd, m2.hdr = m.hdr,
           m2.added = m.added,
           l2 \in {"locate", "copyOld"} => m2.k = 1
    PROVE  Announced(l2, m2, n, texts)
<1>1. l2 \notin {"stat", "measure"}
  BY DEF CopyingLabels
<1>2. QED
  BY <1>1, Zenon DEF Announced

LEMMA ReadHeaderAnnounced ==
    ASSUME TypeInv, Private, NEW p \in Procs, ListOf(p), ReadHeader(p)
    PROVE  AnnouncedOf(p)'
<1> DEFINE me == loc[p]
           m == [me EXCEPT !.afd.pos = 0, !.k = 1]
<1>1. /\ pc[p] = "readHeader" /\ me \in Local /\ disk' = disk
      /\ Op(p) \in {"input", "remove", "extract", "stat"} /\ Args(p) \in Seq(Paths)
      /\ Step(p) /\ me.afd.ino \in Inodes
  BY LocalFacts, ArchiveFacts DEF ReadHeader, Step
<1>2. CASE \E m2 : Goto(p, "readHeader", m2) \/ Goto(p, "garbled", m2)
  BY <1>2, AwayAnnounced DEF AnnouncedLabels, CopyingLabels
<1>3. m.cmd = me.cmd /\ m.k = 1 /\ m.added = me.added /\ m.afd.ino = me.afd.ino
  BY <1>1 DEF Local, Fd
<1> HIDE DEF m
<1>4. CASE AfterHeader(p, m)
  <2>1. Exit(p) \/ Goto(p, "stat", m) \/ Goto(p, "filter", m) \/ Goto(p, "member", m)
    BY <1>1, <1>4 DEF AfterHeader
  <2>2. CASE Goto(p, "stat", m)
    <3> DEFINE f == m.cmd.files
               T == Regulars(f, disk)
    <3>1. f \in Seq(Paths) /\ me.added = 0
      BY <1>1, <1>3 DEF Args, ListOf, Listed
    <3>2. T \subseteq 1 .. Len(f) /\ Len(f) \in Nat
      BY <3>1, RegularsFacts
    <3>3. Rank(T, 0) = 0 /\ \A k \in T : ~(k < 1)
      BY <3>2, RankStarts
    <3>4. 1 <= Len(f) + 1 /\ m.k - 1 = 0
      BY <1>3, <3>2
    <3> HIDE DEF f, T
    <3>5. Announced("stat", m, OldMembers(p), disk)
      BY <1>3, <3>1, <3>3, <3>4 DEF Announced, CopyingLabels, f, T
    <3>6. QED
      BY <1>1, <1>3, <2>2, <3>5, GotoAnnounced
  <2>3. QED
    BY <2>1, <2>2, AwayAnnounced, ExitAnnounced DEF AnnouncedLabels, CopyingLabels
<1>5. QED
  BY <1>2, <1>4 DEF ReadHeader, m

LEMMA StatFileAnnounced ==
    ASSUME TypeInv, Private, NEW p \in Procs, DraftOf(p), AnnouncedOf(p), StatFile(p)
    PROVE  AnnouncedOf(p)'
<1> DEFINE me == loc[p]
           f == me.cmd.files
           T == Regulars(f, disk)
           n == OldMembers(p)
           j == me.k
<1>1. /\ pc[p] = "stat" /\ me \in Local /\ disk' = disk /\ Op(p) = "input"
      /\ f \in Seq(Paths) /\ j \in Nat \ {0} /\ Step(p) /\ me.afd.ino \in Inodes
  <2>1. pc[p] = "stat" /\ disk' = disk /\ Op(p) = "input" /\ Step(p)
    BY DEF StatFile, DraftOf, Draft, InputLabels, Op, Step
  <2>2. me \in Local /\ j # 0 /\ f \in Seq(Paths) /\ me.afd.ino \in Inodes
    BY <2>1, LocalFacts, ArchiveFacts DEF Reached, InRange, LoopLabels, Args
  <2>3. QED
    BY <2>1, <2>2 DEF Local
<1>2. T \subseteq 1 .. Len(f) /\ Len(f) \in Nat
  BY <1>1, RegularsFacts
<1>3. AllReadable(f, disk) =>
        /\ j <= Len(f) + 1 /\ me.added = Rank(T, j - 1)
        /\ \A k \in T : k < j => Announces(me.hdr[n + Rank(T, k)], f[k], disk)
  BY <1>1 DEF AnnouncedOf, Announced, Op
<1>4. CASE Exit(p)
  BY <1>4, ExitAnnounced
<1>5. CASE j > Len(f) /\ me.added # 0 /\ Goto(p, "writeHeader", [me EXCEPT !.k = 1])
  <2> DEFINE m == [me EXCEPT !.k = 1]
  <2>1. m.cmd = me.cmd /\ m.hdr = me.hdr /\ m.added = me.added /\ m.afd = me.afd
    BY <1>1 DEF Local
  <2> HIDE DEF m
  <2>2. ASSUME AllReadable(f, disk)
        PROVE  /\ me.added = Cardinality(T)
               /\ \A k \in T : Announces(me.hdr[n + Rank(T, k)], f[k], disk)
    <3>1. j - 1 = Len(f) /\ \A k \in T : k < j
      <4> HIDE DEF j, f, T
      <4>1. j <= Len(f) + 1 /\ ~(j <= Len(f))
        BY <1>1, <1>2, <1>3, <1>5, <2>2
      <4>2. j - 1 = Len(f) /\ j = Len(f) + 1
        BY <1>1, <1>2, <4>1
      <4>3. \A k \in T : k \in 1 .. Len(f)
        BY <1>2
      <4>4. \A k \in 1 .. Len(f) : k < Len(f) + 1
        BY <1>2
      <4>5. QED
        BY <4>2, <4>3, <4>4
    <3>2. Rank(T, Len(f)) = Cardinality(T)
      BY <1>2, RankStarts
    <3>3. QED
      BY <1>3, <2>2, <3>1, <3>2
  <2> HIDE DEF n
  <2>3. Announced("writeHeader", m, n, disk)
    BY <1>5, <2>1, <2>2, Zenon DEF Announced
  <2>4. QED
    BY <1>1, <1>5, <2>1, <2>3, GotoAnnounced DEF m, n
<1>6. CASE ~(j > Len(f)) /\ Regular(f[j]) /\ Goto(p, "measure", me)
  <2>1. j \in T
    BY <1>1, <1>2, <1>6 DEF Regulars, Regular
  <2> HIDE DEF n
  <2>2. Announced("measure", me, n, disk)
    BY <1>3, <2>1 DEF Announced, CopyingLabels
  <2>3. QED
    BY <1>1, <1>6, <2>2, GotoAnnounced DEF n
<1>7. ASSUME ~(j > Len(f)), ~Regular(f[j]), NEW e,
             Goto(p, "stat", [me EXCEPT !.k = @ + 1, !.err = e])
      PROVE  AnnouncedOf(p)'
  <2> DEFINE m == [me EXCEPT !.k = @ + 1, !.err = e]
  <2>1. m.cmd = me.cmd /\ m.hdr = me.hdr /\ m.added = me.added /\ m.afd = me.afd /\ m.k = j + 1
    BY <1>1 DEF Local
  <2> HIDE DEF m
  <2>2. j \notin T
    BY <1>7 DEF Regulars, Regular
  <2> HIDE DEF n, f, T, j
  <2>3. j - 1 \in 0 .. Len(f) - 1 /\ j - 1 + 1 = j /\ m.k - 1 = j /\ j + 1 <= Len(f) + 1
    BY <1>1, <1>2, <1>7, <2>1
  <2>4. Rank(T, j) = Rank(T, j - 1)
    <3>1. PICK i \in 0 .. Len(f) - 1 : i = j - 1
      BY <2>3
    <3>2. j = i + 1
      BY <1>1, <3>1
    <3>3. Rank(T, i + 1) = Rank(T, i)
      BY <1>2, <2>2, <3>2, RankGrows
    <3>4. QED
      BY <3>1, <3>2, <3>3
  <2>5. \A k \in T : k < j + 1 => k < j
    BY <1>1, <1>2, <2>2
  <2>6. Announced("stat", m, n, disk)
    BY <1>3, <2>1, <2>3, <2>4, <2>5 DEF Announced, CopyingLabels, f, T
  <2>7. QED
    BY <1>1, <1>7, <2>1, <2>6, GotoAnnounced DEF m, n
<1>8. QED
  BY <1>4, <1>5, <1>6, <1>7, Zenon DEF StatFile, Args

LEMMA NextPlace ==
    ASSUME NEW n \in Nat, NEW a \in Nat, NEW l, l = n + a
    PROVE  n + (a + 1) = l + 1 /\ \A r \in 1 .. a : n + r \in 1 .. l
  OBVIOUS

LEMMA MeasureFileAnnounced ==
    ASSUME TypeInv, Private, NEW p \in Procs, DraftOf(p), ListOf(p), AnnouncedOf(p), MeasureFile(p)
    PROVE  AnnouncedOf(p)'
<1> DEFINE me == loc[p]
           f == me.cmd.files
           T == Regulars(f, disk)
           n == OldMembers(p)
           j == me.k
           fi == [tag |-> "entry", name |-> Base[f[j]], size |-> MeasuredSize(f[j]),
                  mask |-> disk[f[j]].mode, off |-> 0]
           m == [me EXCEPT !.hdr = Append(@, fi), !.k = @ + 1, !.added = @ + 1,
                           !.err = @ \/ ~Readable(f[j])]
<1>1. /\ pc[p] = "measure" /\ me \in Local /\ disk' = disk /\ Op(p) = "input"
      /\ f \in Seq(Paths) /\ j \in Nat \ {0} /\ Step(p) /\ me.afd.ino \in Inodes
      /\ me.hdr \in Seq(Entry) /\ me.added \in Nat /\ n \in Nat /\ j <= Len(f)
  <2>1. pc[p] = "measure" /\ disk' = disk /\ Op(p) = "input" /\ Step(p)
    BY DEF MeasureFile, DraftOf, Draft, InputLabels, Op, Step
  <2>2. /\ me \in Local /\ j # 0 /\ f \in Seq(Paths) /\ me.afd.ino \in Inodes /\ j <= Len(f)
        /\ me.hdr \in Seq(Entry) /\ me.added \in Nat /\ n \in Nat
    BY <2>1, LocalFacts, ArchiveFacts DEF Reached, InRange, LoopLabels, Args, OldMembers
  <2>3. QED
    BY <2>1, <2>2 DEF Local
<1>2. T \subseteq 1 .. Len(f) /\ Len(f) \in Nat
  BY <1>1, RegularsFacts
<1>3. Len(me.hdr) = n + me.added
  BY <1>1 DEF ListOf, Listed, InputLabels, Op, OldMembers, ArchFile
<1>4. AllReadable(f, disk) =>
        /\ j \in T /\ me.added = Rank(T, j - 1)
        /\ \A k \in T : k < j => Announces(me.hdr[n + Rank(T, k)], f[k], disk)
  BY <1>1 DEF AnnouncedOf, Announced, Op
<1>5. AllReadable(f, disk) /\ j \in T => Announces(fi, f[j], disk)
  BY DEF Announces, AllReadable, Regulars, MeasuredSize, Readable, Regular
<1>6. Goto(p, "stat", m)
  BY Zenon DEF MeasureFile, Args
<1> HIDE DEF fi
<1>7. /\ m.cmd = me.cmd /\ m.hdr = Append(me.hdr, fi) /\ m.added = me.added + 1
      /\ m.afd = me.afd /\ m.k = j + 1
  BY <1>1 DEF Local
<1> HIDE DEF m
<1>8. ASSUME AllReadable(f, disk)
      PROVE  /\ m.k <= Len(f) + 1 /\ m.added = Rank(T, m.k - 1)
             /\ \A k \in T : k < m.k => Announces(m.hdr[n + Rank(T, k)], f[k], disk)
  <2> DEFINE h == me.hdr
             a == me.added
  <2>1. /\ j \in T /\ a = Rank(T, j - 1) /\ Announces(fi, f[j], disk)
        /\ \A k \in T : k < j => Announces(h[n + Rank(T, k)], f[k], disk)
    BY <1>4, <1>5, <1>8
  <2> HIDE DEF f, T, n, j, h
  <2>2. PICK i \in 0 .. Len(f) - 1 : i = j - 1 /\ j = i + 1
    <3>1. j - 1 \in 0 .. Len(f) - 1 /\ j = j - 1 + 1
      BY <1>1, <1>2
    <3>2. QED
      BY <3>1
  <2>3. Rank(T, j) = a + 1 /\ Rank(T, i) = a
    <3>1. Rank(T, i + 1) = Rank(T, i) + 1
      BY <1>2, <2>1, <2>2, RankGrows
    <3>2. QED
      BY <2>1, <2>2, <3>1
  <2>4. /\ Len(h) = n + a /\ a \in Nat /\ m.hdr = Append(h, fi) /\ h \in Seq(Entry)
    BY <1>1, <1>3, <1>7 DEF h, n
  <2> HIDE DEF a
  <2>5. m.hdr[n + (a + 1)] = fi /\ \A r \in 1 .. a : m.hdr[n + r] = h[n + r]
    <3>1. n \in Nat
      BY <1>1
    <3>2. n + (a + 1) = Len(h) + 1 /\ \A r \in 1 .. a : n + r \in 1 .. Len(h)
      BY <2>4, <3>1, NextPlace
    <3>3. QED
      BY <2>4, <3>2
  <2>6. ASSUME NEW k \in T, k < j + 1
        PROVE  Announces(m.hdr[n + Rank(T, k)], f[k], disk)
    <3>1. CASE k = j
      BY <2>1, <2>3, <2>5, <3>1
    <3>2. CASE k # j
      <4>1. k \in Nat /\ k < j /\ k <= i /\ i \in Nat
        BY <1>1, <1>2, <2>2, <2>6, <3>2
      <4>2. Rank(T, k) \in 1 .. a
        BY <1>2, <2>3, <4>1, RankOrders
      <4>3. QED
        BY <2>1, <2>5, <4>1, <4>2
    <3>3. QED
      BY <3>1, <3>2
  <2>7. m.k = j + 1 /\ m.added = a + 1 /\ j + 1 - 1 = j /\ j + 1 <= Len(f) + 1
    BY <1>1, <1>2, <1>7, SMTT(30) DEF a, j, f
  <2>8. ASSUME NEW k \in T, k < m.k
        PROVE  Announces(m.hdr[n + Rank(T, k)], f[k], disk)
    <3>1. k < j + 1
      BY <2>7, <2>8, Zenon
    <3>2. QED
      BY <2>6, <3>1
  <2>9. m.k <= Len(f) + 1
    BY <2>7, Zenon
  <2>10. m.k - 1 = j
    <3>1. m.k = j + 1 /\ (j + 1) - 1 = j
      BY <1>1, <2>7 DEF j
    <3>2. m.k - 1 = (j + 1) - 1
      BY <3>1, Zenon
    <3>3. QED
      BY <3>1, <3>2, Zenon
  <2>11. m.added = Rank(T, m.k - 1)
    BY <2>3, <2>7, <2>10, Zenon
  <2>12. QED
    BY <2>8, <2>9, <2>11, Zenon
<1> HIDE DEF n
<1>9. Announced("stat", m, n, disk)
  BY <1>7, <1>8 DEF Announced, CopyingLabels
<1>10. QED
  BY <1>1, <1>6, <1>7, <1>9, GotoAnnounced DEF n

\* From the header on, -i changes neither its list nor its arguments.
LEMMA CopyAnnounced ==
    ASSUME TypeInv, Private, NEW p \in Procs, Step(p), DraftOf(p), AnnouncedOf(p),
           pc[p] \in CopyingLabels, disk' = disk,
           NEW l \in CopyingLabels, NEW m, Goto(p, l, m),
           m.cmd = loc[p].cmd, m.hdr = loc[p].hdr, m.added = loc[p].added,
           m.afd.ino = loc[p].afd.ino, l \in {"locate", "copyOld"} => m.k = 1 \/ Op(p) # "input"
    PROVE  AnnouncedOf(p)'
<1>1. loc[p].afd.ino \in Inodes
  BY ArchiveFacts DEF CopyingLabels
<1>2. Announced(l, m, OldMembers(p), disk)
  <2>1. CASE Op(p) = "input"
    BY <2>1, SameAnnounced DEF AnnouncedOf
  <2>2. CASE Op(p) # "input"
    BY <2>2 DEF Announced, Op
  <2>3. QED
    BY <2>1, <2>2
<1>3. QED
  BY <1>1, <1>2, GotoAnnounced

LEMMA InsertAnnounced ==
    ASSUME TypeInv, Private, NEW p \in Procs, DraftOf(p), AnnouncedOf(p),
           WriteHeader(p) \/ LocateData(p) \/ CopyOld(p) \/ OpenSource(p) \/ CopySource(p) \/ Unlink(p)
    PROVE  AnnouncedOf(p)'
<1> DEFINE me == loc[p]
<1>1. me \in Local /\ Step(p)
  BY LocalFacts DEF Step
<1>2. disk' = disk /\ pc[p] \in CopyingLabels
  BY DEF WriteHeader, LocateData, CopyOld, OpenSource, CopySource, Unlink, CopyingLabels
<1>3. CASE WriteHeader(p)
  <2> DEFINE m1 == [me EXCEPT !.k = @ + 1, !.tfd.pos = @ + 1, !.raw = NextRaw(@, me.hdr[me.k].size)]
             m2 == [me EXCEPT !.k = 1, !.raw = 0, !.tfd.pos = @ + 1]
  <2>1. /\ m1.cmd = me.cmd /\ m1.hdr = me.hdr /\ m1.added = me.added /\ m1.afd = me.afd
        /\ m2.cmd = me.cmd /\ m2.hdr = me.hdr /\ m2.added = me.added /\ m2.afd = me.afd
        /\ m2.k = 1
    BY <1>1 DEF Local, Fd
  <2>2. \/ Goto(p, "writeHeader", m1)
        \/ Goto(p, "locate", m2)
        \/ Goto(p, "member", m2)
    BY <1>3, Zenon DEF WriteHeader
  <2> HIDE DEF m1, m2
  <2>3. QED
    BY <1>1, <1>2, <2>1, <2>2, CopyAnnounced, AwayAnnounced DEF CopyingLabels, AnnouncedLabels
<1>4. ASSUME pc[p] \in {"locate", "copyOld"}, NEW l \in {"copyOld", "openSource"}, NEW m,
             m.cmd = me.cmd, m.hdr = me.hdr, m.added = me.added, m.afd.ino = me.afd.ino,
             m.k = me.k, Goto(p, l, m)
      PROVE  AnnouncedOf(p)'
  <2>1. AllReadable(me.cmd.files, disk) => m.k = 1
    BY <1>2, <1>4 DEF AnnouncedOf, Announced, DraftOf, Draft, InputLabels
  <2>2. CASE AllReadable(me.cmd.files, disk)
    BY <1>1, <1>2, <1>4, <2>1, <2>2, CopyAnnounced DEF CopyingLabels
  <2>3. CASE ~AllReadable(me.cmd.files, disk)
    <3>1. Announced(l, m, OldMembers(p), disk)
      BY <1>4, <2>3 DEF Announced
    <3>2. me.afd.ino \in Inodes
      BY <1>2, ArchiveFacts DEF CopyingLabels
    <3>3. QED
      BY <1>1, <1>2, <1>4, <3>1, <3>2, GotoAnnounced
  <2>4. QED
    BY <2>2, <2>3
<1>5. CASE LocateData(p)
  <2>1. \A pos : \A m : m = [me EXCEPT !.afd.pos = pos]
           => /\ m.cmd = me.cmd /\ m.hdr = me.hdr /\ m.added = me.added
              /\ m.afd.ino = me.afd.ino /\ m.k = me.k
    BY <1>1 DEF Local, Fd
  <2>2. pc[p] = "locate" /\ (Exit(p) \/ Goto(p, "copyOld", me)
                             \/ \E pos : Goto(p, "copyOld", [me EXCEPT !.afd.pos = pos]))
    BY <1>5, Zenon DEF LocateData
  <2>3. QED
    BY <1>4, <2>1, <2>2, ExitAnnounced
<1>6. CASE CopyOld(p)
  <2>1. \A x : \A m : m = [me EXCEPT !.afd.pos = @ + x, !.tfd.pos = @ + x]
           => /\ m.cmd = me.cmd /\ m.hdr = me.hdr /\ m.added = me.added
              /\ m.afd.ino = me.afd.ino /\ m.k = me.k
    BY <1>1 DEF Local, Fd
  <2>2. pc[p] = "copyOld" /\ (Goto(p, "openSource", me)
                             \/ \E x : Goto(p, "copyOld", [me EXCEPT !.afd.pos = @ + x, !.tfd.pos = @ + x]))
    BY <1>6, Zenon DEF CopyOld
  <2>3. QED
    BY <1>4, <2>1, <2>2
<1>7. ASSUME NEW l \in {"openSource", "copySource", "unlink", "rename"}, NEW m,
             m.cmd = me.cmd, m.hdr = me.hdr, m.added = me.added, m.afd.ino = me.afd.ino,
             Goto(p, l, m)
      PROVE  AnnouncedOf(p)'
  BY <1>1, <1>2, <1>7, CopyAnnounced DEF CopyingLabels
<1>8. CASE OpenSource(p)
  <2>1. \A m \in {[me EXCEPT !.pos = 0], [me EXCEPT !.k = @ + 1]} :
           m.cmd = me.cmd /\ m.hdr = me.hdr /\ m.added = me.added /\ m.afd.ino = me.afd.ino
    BY <1>1 DEF Local
  <2>2. Goto(p, "unlink", me) \/ Goto(p, "copySource", [me EXCEPT !.pos = 0])
        \/ Goto(p, "openSource", [me EXCEPT !.k = @ + 1])
    BY <1>8, Zenon DEF OpenSource
  <2>3. QED
    BY <1>7, <2>1, <2>2
<1>9. CASE CopySource(p)
  <2>1. \A x : \A m \in {[me EXCEPT !.pos = @ + x, !.tfd.pos = @ + x], [me EXCEPT !.k = @ + 1]} :
           m.cmd = me.cmd /\ m.hdr = me.hdr /\ m.added = me.added /\ m.afd.ino = me.afd.ino
    BY <1>1 DEF Local, Fd
  <2>2. Goto(p, "openSource", [me EXCEPT !.k = @ + 1])
        \/ \E x : Goto(p, "copySource", [me EXCEPT !.pos = @ + x, !.tfd.pos = @ + x])
    BY <1>9, Zenon DEF CopySource
  <2>3. QED
    BY <1>7, <2>1, <2>2
<1>10. CASE Unlink(p)
  BY <1>7, <1>10 DEF Unlink
<1>11. QED
  BY <1>3, <1>5, <1>6, <1>8, <1>9, <1>10

LEMMA StepAnnounced ==
    ASSUME TypeInv, Private, NEW p \in Procs, DraftOf(p), ListOf(p), AnnouncedOf(p), Step(p)
    PROVE  AnnouncedOf(p)'
<1>1. CASE OpenWork(p) \/ OpenArchive(p)
  BY <1>1, AwayAnnounced, ExitAnnounced DEF OpenWork, OpenArchive, AnnouncedLabels, CopyingLabels
<1>2. ASSUME Op(p) # "input", NEW l, NEW m, Goto(p, l, m), m.cmd = loc[p].cmd
      PROVE  AnnouncedOf(p)'
  <2>1. pc'[p] = l /\ loc'[p] = m
    BY <1>2 DEF TypeInv, TypeOK, Goto
  <2>2. \A n, texts : Announced(l, m, n, texts)
    BY <1>2 DEF Announced, Op
  <2>3. QED
    BY <2>1, <2>2 DEF AnnouncedOf
<1>3. CASE FilterHeader(p) /\ Op(p) # "input"
  <2>1. \A h : \A m \in {[loc[p] EXCEPT !.hdr = h], [loc[p] EXCEPT !.k = 1], [loc[p] EXCEPT !.k = @ + 1]} :
           m.cmd = loc[p].cmd
    BY LocalFacts DEF Local
  <2>2. \E h : \E m \in {[loc[p] EXCEPT !.hdr = h], [loc[p] EXCEPT !.k = 1], [loc[p] EXCEPT !.k = @ + 1]} :
           \E l : Goto(p, l, m)
    BY <1>3 DEF FilterHeader
  <2>3. QED
    BY <1>2, <1>3, <2>1, <2>2
<1>4. CASE FilterHeader(p) /\ Op(p) = "input"
  BY <1>4, AwayAnnounced DEF FilterHeader, AnnouncedLabels, CopyingLabels
<1>5. CASE NextMember(p) /\ Op(p) # "input"
  <2> DEFINE me == loc[p]
  <2>1. ASSUME NEW x, NEW z, Goto(p, "copyMember", [me EXCEPT !.left = x, !.pos = 0, !.afd.pos = z])
        PROVE  AnnouncedOf(p)'
    <3> DEFINE m == [me EXCEPT !.left = x, !.pos = 0, !.afd.pos = z]
    <3>1. m.cmd = me.cmd
      BY LocalFacts DEF Local
    <3> HIDE DEF m
    <3>2. QED
      BY <1>2, <1>5, <2>1, <3>1 DEF m
  <2>2. CASE Goto(p, "member", [me EXCEPT !.k = @ + 1])
    <3> DEFINE m == [me EXCEPT !.k = @ + 1]
    <3>1. m.cmd = me.cmd
      BY LocalFacts DEF Local
    <3> HIDE DEF m
    <3>2. QED
      BY <1>2, <1>5, <2>2, <3>1 DEF m
  <2>3. CASE Goto(p, "unlink", me)
    BY <1>2, <1>5, <2>3
  <2>4. Exit(p) \/ Goto(p, "unlink", me)
        \/ (\E x, z : Goto(p, "copyMember", [me EXCEPT !.left = x, !.pos = 0, !.afd.pos = z]))
        \/ Goto(p, "member", [me EXCEPT !.k = @ + 1])
    BY <1>5 DEF NextMember
  <2>5. QED
    BY <2>1, <2>2, <2>3, <2>4, ExitAnnounced
<1>6. CASE (NextMember(p) \/ CopyMember(p)) /\ Op(p) = "input"
  BY <1>6, AwayAnnounced, ExitAnnounced, Zenon
  DEF NextMember, CopyMember, AnnouncedLabels, CopyingLabels
<1>7. CASE CopyMember(p)
  BY <1>7, AwayAnnounced, Zenon DEF CopyMember, AnnouncedLabels, CopyingLabels
<1>8. QED
  BY <1>1, <1>3, <1>4, <1>5, <1>6, <1>7, ReadHeaderAnnounced, StatFileAnnounced,
     MeasureFileAnnounced, InsertAnnounced, ExitAnnounced DEF Step, Rename, Refuse

\* A file that ends where its last member does, with all it announces in it:
\* what an undisturbed -i or -r leaves.
Exact(c) ==
    LET h == Header(c)
    IN  c = <<>> \/ /\ h # <<>> /\ \A i \in 1 .. Len(h) : Intact(c, h[i])
                    /\ h[Len(h)].off + h[Len(h)].size = Len(c)

\* The data of argument k is in w, as the member behind the n old ones that
\* the list hdr announces; and that of all arguments before the i-th.
SourceHeld(w, t, n, hdr, f, texts, k) ==
    LET r == n + Rank(Regulars(f, texts), k)
    IN  Holds(w, r, t, texts[f[k]].data, hdr[r])

SourcesHeld(w, t, n, hdr, f, texts, i) ==
    \A k \in Regulars(f, texts) : k < i => SourceHeld(w, t, n, hdr, f, texts, k)

\* What -i has copied of the files it adds.
Sound(m, c, w, texts) ==
    m.cmd.op = "input" /\ AllReadable(m.cmd.files, texts) /\ Exact(c) /\ Fits(c) /\ Fits(w)

Sourced(l, m, c, w, texts) ==
    LET f == m.cmd.files
        n == Len(Header(c))
        t == m.tfd.pos
        start == EndOf(w, n + Rank(Regulars(f, texts), m.k - 1))
        text == texts[f[m.k]].data
    IN  Sound(m, c, w, texts) =>
          /\ l = "copyOld" => (c = <<>> => t = Len(m.hdr) + 1)
          /\ l = "openSource" =>
                /\ m.k <= Len(f) + 1 /\ t = start
                /\ SourcesHeld(w, t, n, m.hdr, f, texts, m.k)
          /\ l = "copySource" =>
                /\ m.k \in Regulars(f, texts) /\ m.pos <= Len(text) /\ t = start + m.pos
                /\ \A x \in 1 .. m.pos : w[start + x] = text[x]
                /\ SourcesHeld(w, t, n, m.hdr, f, texts, m.k)
          /\ l \in {"unlink", "rename"} =>
                /\ t = EndOf(w, Len(Header(w)))
                /\ SourcesHeld(w, t, n, m.hdr, f, texts, Len(f) + 1)

SourcedOf(p) == Sourced(pc[p], loc[p], ArchFile(p), WorkFile(p), disk)

SourcedLabels == {"copyOld", "openSource", "copySource", "unlink", "rename"}

LEMMA NothingSourced ==
    ASSUME NEW l, NEW m, l \notin SourcedLabels \/ m.cmd.op # "input", NEW c, NEW w, NEW texts
    PROVE  Sourced(l, m, c, w, texts)
  BY Zenon DEF SourcedLabels, Sourced, Sound

LEMMA GotoSourced ==
    ASSUME TypeInv, NEW p \in Procs, NEW l, NEW m, Goto(p, l, m),
           Sourced(l, m, ino'[m.afd.ino], ino'[m.tfd.ino], disk')
    PROVE  SourcedOf(p)'
<1>1. pc'[p] = l /\ loc'[p] = m
  BY DEF TypeInv, TypeOK, Goto
<1>2. QED
  BY <1>1 DEF SourcedOf, ArchFile, WorkFile

LEMMA AwaySourced ==
    ASSUME TypeInv, NEW p \in Procs, NEW l, NEW m, Goto(p, l, m),
           l \notin SourcedLabels \/ m.cmd.op # "input"
    PROVE  SourcedOf(p)'
  BY NothingSourced, GotoSourced

LEMMA ExitSourced == ASSUME TypeInv, NEW p \in Procs, Exit(p) PROVE SourcedOf(p)'
  BY AwaySourced DEF Exit, SourcedLabels

\* A list and files to add that a written header agrees with.
Prepared(c, w, t, hdr, f, texts) ==
    LET n == Len(Header(c))
        T == Regulars(f, texts)
    IN  /\ c \in Seq(Cell) /\ WellFormed(c)
        /\ w \in Seq(Cell) /\ t \in Nat /\ HeaderDone(w, t) /\ Lists(w, hdr)
        /\ hdr \in Seq(Entry) /\ f \in Seq(Paths)
        /\ Len(hdr) = n + Cardinality(T) /\ \A i \in 1 .. n : hdr[i] = Header(c)[i]
        /\ \A k \in T : /\ Announces(hdr[n + Rank(T, k)], f[k], texts)
                        /\ texts[f[k]].data \in Seq(Cell)

LEMMA PreparedPlaces ==
    ASSUME NEW c, NEW w, NEW t, NEW hdr, NEW f, NEW texts, Prepared(c, w, t, hdr, f, texts),
           NEW n, n = Len(Header(c)), NEW T, T = Regulars(f, texts)
    PROVE  /\ n \in Nat /\ Len(f) \in Nat /\ Cardinality(T) \in Nat /\ T \subseteq 1 .. Len(f)
           /\ Len(Header(w)) = n + Cardinality(T) /\ Len(hdr) = n + Cardinality(T)
           /\ \A k \in T : /\ Rank(T, k) \in Nat /\ n + Rank(T, k) \in 1 .. n + Cardinality(T)
                           /\ hdr[n + Rank(T, k)] \in Entry
                           /\ SameMember(Header(w)[n + Rank(T, k)], hdr[n + Rank(T, k)])
<1>1. /\ c \in Seq(Cell) /\ w \in Seq(Cell) /\ hdr \in Seq(Entry) /\ f \in Seq(Paths)
      /\ Lists(w, hdr) /\ Len(hdr) = n + Cardinality(T)
  BY DEF Prepared
<1>2. n \in Nat /\ Len(f) \in Nat /\ T \subseteq 1 .. Len(f)
  BY <1>1, HeaderFacts, LenProperties, RegularsFacts
<1>3. Rank(T, Len(f)) = Cardinality(T) /\ Cardinality(T) \in Nat
  <2>1. Rank(T, Len(f)) = Cardinality(T)
    BY <1>2, RankStarts
  <2>2. Rank(T, Len(f)) \in Nat
    BY <1>2, FewPlaces
  <2>3. QED
    BY <2>1, <2>2
<1>4. ASSUME NEW k \in T
      PROVE  /\ Rank(T, k) \in Nat /\ n + Rank(T, k) \in 1 .. n + Cardinality(T)
             /\ hdr[n + Rank(T, k)] \in Entry
             /\ SameMember(Header(w)[n + Rank(T, k)], hdr[n + Rank(T, k)])
  <2>1. Rank(T, k) \in 1 .. Cardinality(T)
    BY <1>2, <1>3, RankOrders
  <2>2. Rank(T, k) \in Nat /\ n + Rank(T, k) \in 1 .. n + Cardinality(T)
    BY <1>2, <1>3, <2>1
  <2>3. hdr[n + Rank(T, k)] \in Entry
    BY <1>1, <2>2, ElementOfSeq
  <2>4. QED
    BY <1>1, <2>2, <2>3 DEF Lists
<1>5. QED
  BY <1>1, <1>2, <1>3, <1>4 DEF Lists

\* A member starts where the one before it ends.
LEMMA StartIs ==
    ASSUME NEW w \in Seq(Cell), NEW t \in Nat, HeaderDone(w, t), Fits(w),
           NEW r \in 0 .. Len(Header(w)) - 1, EndOf(w, r) <= t
    PROVE  Header(w)[r + 1].off = EndOf(w, r)
<1>1. Len(Header(w)) \in Nat
  BY HeaderFacts, LenProperties
<1>2. CASE r = 0
  BY <1>1, <1>2, NextStart DEF EndOf
<1>3. CASE r # 0
  <2>1. r \in 1 .. Len(Header(w)) - 1
    BY <1>1, <1>3
  <2>2. QED
    BY <1>3, <2>1, NextStart DEF EndOf
<1>4. QED
  BY <1>2, <1>3

LEMMA StartNat ==
    ASSUME NEW w \in Seq(Cell), NEW r \in 0 .. Len(Header(w))
    PROVE  EndOf(w, r) \in Nat
<1>1. CASE r = 0
  BY <1>1, HeaderFacts, LenProperties DEF EndOf
<1>2. CASE r # 0
  <2>1. r \in 1 .. Len(Header(w))
    BY <1>2, HeaderFacts, LenProperties
  <2>2. Header(w)[r].off \in Nat /\ Header(w)[r].size \in Nat
    BY <2>1, EntryFacts
  <2>3. QED
    BY <1>2, <2>2 DEF EndOf
<1>3. QED
  BY <1>1, <1>2

LEMMA SumMoves ==
    ASSUME NEW o \in Nat, NEW s \in Nat, NEW a \in Nat, NEW l, l = o + s, NEW t, t = l + a
    PROVE  o + a \in Nat /\ (o + a) + s = t /\ o + a <= t /\ t \in Nat
  OBVIOUS

\* Where the old members end in the new file.
LEMMA OldEnd ==
    ASSUME NEW c, NEW w, NEW t, NEW hdr, NEW f, NEW texts, Prepared(c, w, t, hdr, f, texts),
           NEW n, n = Len(Header(c)), NEW a \in Nat, a = Cardinality(Regulars(f, texts)),
           Exact(c), Fits(w), c # <<>>, t = Len(c) + a
    PROVE  EndOf(w, n) = t
<1> DEFINE T == Regulars(f, texts)
           h == Header(c)
           g == Header(w)
<1>1. /\ c \in Seq(Cell) /\ WellFormed(c) /\ w \in Seq(Cell) /\ t \in Nat /\ HeaderDone(w, t)
      /\ Lists(w, hdr) /\ Len(hdr) = n + a /\ \A i \in 1 .. n : hdr[i] = h[i]
  BY DEF Prepared
<1>2. /\ n \in Nat /\ Len(c) \in Nat /\ Len(w) \in Nat /\ h # <<>> /\ h \in Seq(Entry)
      /\ h[n].off + h[n].size = Len(c) /\ t <= Len(w) /\ Len(g) < t
  BY <1>1, HeaderFacts, LenProperties DEF Exact, HeaderDone
<1>3. n \in 1 .. n
  <2>1. n # 0
    BY <1>2, EmptySeq
  <2>2. QED
    BY <1>2, <2>1
<1>4. h[n].off \in Nat /\ h[n].size \in Nat
  BY <1>1, <1>3, EntryFacts
<1>5. Len(g) = n + a /\ \A i \in 1 .. n : g[i].size = h[i].size
  <2>1. \A i \in 1 .. n : i \in 1 .. n + a
    BY <1>2
  <2>2. QED
    BY <1>1, <2>1 DEF Lists, SameMember
<1>6. w # <<>> /\ WellFormed(w)
  <2>1. Len(w) # 0
    BY <1>2, <1>3, <1>5
  <2>2. QED
    BY <1>1, <2>1, EmptySeq DEF HeaderDone
<1>7. g[n].off = (h[n].off + a) % Word
  <2>1. c \in Seq(Cell) /\ WellFormed(c) /\ w \in Seq(Cell)
    BY <1>1
  <2>2. \A i \in 1 .. n : g[i].off = (h[i].off + a) % Word
    BY <1>5, <1>6, <2>1, OffsetsShift, ZenonT(60)
  <2> HIDE DEF g, h
  <2>3. QED
    BY <1>3, <2>2
<1>8. Len(w) < Word
  BY <1>1, FitsFacts
<1> DEFINE o == h[n].off
           s == h[n].size
<1>9. o \in Nat /\ s \in Nat /\ o + s = Len(c) /\ g[n].off = (o + a) % Word /\ g[n].size = s
  BY <1>2, <1>3, <1>4, <1>5, <1>7
<1> HIDE DEF o, s, g
<1>10. o + a \in Nat /\ o + a < Word /\ (o + a) + s = t
  <2>1. o \in Nat /\ s \in Nat /\ Len(c) = o + s
    BY <1>9
  <2>2. o + a \in Nat /\ (o + a) + s = t /\ o + a <= t /\ t \in Nat
    BY <2>1, SumMoves
  <2>3. t <= Len(w) /\ Len(w) \in Nat /\ Word \in Nat
    BY <1>2, FormatAssumption
  <2>4. o + a < Word
    BY <1>8, <2>2, <2>3
  <2>5. QED
    BY <2>2, <2>4
<1>11. g[n].off = o + a
  BY <1>9, <1>10, ModSmall
<1>12. EndOf(w, n) = g[n].off + g[n].size
  BY <1>3 DEF EndOf, g
<1>13. QED
  BY <1>9, <1>10, <1>11, <1>12

\* Writing behind the members that are held.
LEMMA SourcesStayHeld ==
    ASSUME NEW c, NEW w, NEW t, NEW hdr, NEW f, NEW texts, Prepared(c, w, t, hdr, f, texts),
           NEW n, n = Len(Header(c)), NEW i, SourcesHeld(w, t, n, hdr, f, texts, i),
           NEW b \in Seq(Cell)
    PROVE  SourcesHeld(WriteAt(w, t, b), t + Len(b), n, hdr, f, texts, i)
<1> PICK T : T = Regulars(f, texts)
  OBVIOUS
<1> SUFFICES ASSUME NEW k \in T, k < i
             PROVE  SourceHeld(WriteAt(w, t, b), t + Len(b), n, hdr, f, texts, k)
  BY DEF SourcesHeld
<1> DEFINE r == n + Rank(T, k)
<1>1. Holds(w, r, t, texts[f[k]].data, hdr[r])
  BY DEF SourcesHeld, SourceHeld
<1>2. w \in Seq(Cell) /\ t \in Nat /\ HeaderDone(w, t)
  BY DEF Prepared
<1>3. r \in 1 .. Len(Header(w)) /\ hdr[r] \in Entry
  <2>1. /\ Len(Header(w)) = n + Cardinality(T)
        /\ \A j \in T : n + Rank(T, j) \in 1 .. n + Cardinality(T) /\ hdr[n + Rank(T, j)] \in Entry
    BY PreparedPlaces, SMTT(30)
  <2>2. QED
    BY <2>1, Zenon
<1> HIDE DEF r
<1>4. Holds(WriteAt(w, t, b), r, t + Len(b), texts[f[k]].data, hdr[r])
  BY <1>1, <1>2, <1>3, HoldsStays
<1>5. QED
  BY <1>4 DEF SourceHeld, r

LEMMA PlaceBefore ==
    ASSUME NEW n \in Nat, NEW x \in Nat, NEW r, r = n + (x + 1), NEW m \in Nat, r <= m
    PROVE  n + x \in 0 .. m - 1 /\ (n + x) + 1 = r
  OBVIOUS

\* One more file is copied.
LEMMA SourceDone ==
    ASSUME NEW c, NEW w, NEW t, NEW hdr, NEW f, NEW texts, Prepared(c, w, t, hdr, f, texts),
           Fits(w), NEW n, n = Len(Header(c)), NEW T, T = Regulars(f, texts), NEW k \in T,
           NEW text, text = texts[f[k]].data, NEW start, start = EndOf(w, n + Rank(T, k - 1)),
           t = start + Len(text), \A x \in 1 .. Len(text) : w[start + x] = text[x]
    PROVE  /\ t = EndOf(w, n + Rank(T, k))
           /\ SourceHeld(w, t, n, hdr, f, texts, k)
<1> DEFINE r == n + Rank(T, k)
           e == hdr[r]
           g == Header(w)
<1>1. /\ w \in Seq(Cell) /\ t \in Nat /\ HeaderDone(w, t)
      /\ Announces(e, f[k], texts) /\ text \in Seq(Cell)
  BY DEF Prepared
<1>2. /\ n \in Nat /\ Len(f) \in Nat /\ T \subseteq 1 .. Len(f) /\ Cardinality(T) \in Nat
      /\ Len(g) = n + Cardinality(T) /\ r \in 1 .. Len(g) /\ Rank(T, k) \in Nat
      /\ SameMember(g[r], e)
  BY PreparedPlaces, SMTT(30)
<1>3. PICK i \in 0 .. Len(f) - 1 : i = k - 1 /\ i + 1 = k
  <2>1. k - 1 \in 0 .. Len(f) - 1 /\ k - 1 + 1 = k
    BY <1>2
  <2>2. QED
    BY <2>1
<1>4. Rank(T, k) = Rank(T, i) + 1 /\ Rank(T, i) \in Nat
  <2>1. Rank(T, i + 1) = Rank(T, i) + 1
    BY <1>2, <1>3, RankGrows
  <2>2. Rank(T, i) \in Nat
    BY <1>2, <1>3, RankStarts, FewPlaces
  <2>3. QED
    BY <1>3, <2>1, <2>2
<1> DEFINE u == n + Rank(T, i)
<1>5. u \in 0 .. Len(g) - 1 /\ u + 1 = r
  <2>1. n \in Nat /\ Rank(T, i) \in Nat /\ r = n + (Rank(T, i) + 1)
    BY <1>2, <1>4
  <2>2. Len(g) \in Nat /\ r <= Len(g)
    BY <1>2
  <2> HIDE DEF r, g
  <2>3. QED
    BY <2>1, <2>2, PlaceBefore
<1>6. start = EndOf(w, u) /\ Len(text) \in Nat
  BY <1>1, <1>3, LenProperties
<1> HIDE DEF u
<1>8. start \in Nat
  <2>1. u \in 0 .. Len(Header(w))
    BY <1>2, <1>5, SMTT(30)
  <2>2. QED
    BY <1>1, <1>6, <2>1, StartNat
<1> HIDE DEF r, g, e
<1>9. start <= t
  BY <1>6, <1>8
<1>10. g[r].off = start
  <2>1. Header(w)[u + 1].off = EndOf(w, u)
    BY <1>1, <1>5, <1>6, <1>9, StartIs DEF g
  <2>2. QED
    BY <1>5, <1>6, <2>1 DEF g
<1>11. g[r].size = Len(text) /\ e.size = Len(text) /\ e.off = 0
  BY <1>1, <1>2 DEF SameMember, Announces
<1>12. r # 0
  BY <1>2
<1>13. t = EndOf(w, r)
  BY <1>10, <1>11, <1>12 DEF EndOf, g
<1>14. Holds(w, r, t, text, e)
  <2>1. \A x \in 1 .. Len(text) : 0 + x = x
    OBVIOUS
  <2>2. start + Len(text) <= t
    BY <1>1
  <2>3. QED
    BY <1>10, <1>11, <2>1, <2>2 DEF Holds, g
<1>15. QED
  BY <1>13, <1>14 DEF SourceHeld, r, e

\* What is known of -i while it copies readable files.
LEMMA SourceFacts ==
    ASSUME TypeInv, Formed, NEW p \in Procs, DraftOf(p), ListOf(p), AnnouncedOf(p),
           pc[p] \in {"copyOld", "openSource", "copySource", "unlink", "rename"},
           Op(p) = "input", AllReadable(Args(p), disk)
    PROVE  /\ Prepared(ArchFile(p), WorkFile(p), loc[p].tfd.pos, loc[p].hdr, Args(p), disk)
           /\ loc[p].added = Cardinality(Regulars(Args(p), disk))
           /\ pc[p] = "copyOld" => loc[p].k = 1
<1> DEFINE me == loc[p]
           f == Args(p)
           n == Len(Header(ArchFile(p)))
           T == Regulars(f, disk)
<1>1. pc[p] \in LateLabels /\ HasWork(pc[p], me) /\ pc[p] \in CopyingLabels
  BY DEF LateLabels, HasWork, CopyingLabels
<1>2. /\ ArchFile(p) \in Seq(Cell) /\ WellFormed(ArchFile(p)) /\ WorkFile(p) \in Seq(Cell)
      /\ me.tfd.pos \in Nat /\ HeaderDone(WorkFile(p), me.tfd.pos)
      /\ Lists(WorkFile(p), me.hdr) /\ me.hdr \in Seq(Entry)
  BY <1>1, CopyFacts
<1>3. f \in Seq(Paths)
  BY LocalFacts DEF Args
<1>4. /\ me.added = Cardinality(T)
      /\ \A k \in T : Announces(me.hdr[n + Rank(T, k)], f[k], disk)
      /\ pc[p] = "copyOld" => me.k = 1
  BY <1>1 DEF AnnouncedOf, Announced, OldMembers, Op, Args
<1>5. Len(me.hdr) = n + me.added /\ \A i \in 1 .. n : me.hdr[i] = Header(ArchFile(p))[i]
  BY <1>1 DEF ListOf, Listed, InputLabels, ArchFile, Op
<1>6. ASSUME NEW k \in T PROVE disk[f[k]].data \in Seq(Cell)
  <2>1. k \in 1 .. Len(f)
    BY <1>3, RegularsFacts
  <2>2. f[k] \in Paths
    BY <1>3, <2>1, ElementOfSeq
  <2>3. QED
    BY <2>2, LocalFacts DEF FilesOK, FileState
<1>7. QED
  BY <1>2, <1>3, <1>4, <1>5, <1>6 DEF Prepared

LEMMA LocateDataSourced ==
    ASSUME TypeInv, NEW p \in Procs, DraftOf(p), LocateData(p)
    PROVE  SourcedOf(p)'
<1> DEFINE me == loc[p]
<1>1. me \in Local /\ ino' = ino /\ me.tfd.pos = Len(me.hdr) + 1
  BY LocalFacts DEF LocateData, DraftOf, Draft
<1>2. ASSUME NEW m, m.hdr = me.hdr, m.tfd = me.tfd, Goto(p, "copyOld", m) PROVE SourcedOf(p)'
  <2>1. Sourced("copyOld", m, ino'[m.afd.ino], ino'[m.tfd.ino], disk')
    BY <1>1, <1>2 DEF Sourced
  <2>2. QED
    BY <1>2, <2>1, GotoSourced
<1>3. \A pos : [me EXCEPT !.afd.pos = pos].hdr = me.hdr /\ [me EXCEPT !.afd.pos = pos].tfd = me.tfd
  BY <1>1 DEF Local
<1>4. QED
  BY <1>2, <1>3, ExitSourced DEF LocateData

LEMMA CopyOldSourced ==
    ASSUME TypeInv, Private, Formed, NEW p \in Procs, DraftOf(p), ListOf(p), AnnouncedOf(p),
           CopiedOf(p), SourcedOf(p), CopyOld(p)
    PROVE  SourcedOf(p)'
<1> DEFINE me == loc[p]
           c == ArchFile(p)
           w == WorkFile(p)
           r == ReadCount(c, me.afd.pos, Buffer)
           n == Len(Header(c))
           f == Args(p)
           T == Regulars(f, disk)
           t == me.tfd.pos
<1>1. pc[p] = "copyOld" /\ Op(p) = "input" /\ disk' = disk
  BY DEF CopyOld, DraftOf, Draft, InputLabels, Op
<1>2. /\ me \in Local /\ me.afd \in Fd /\ me.tfd \in Fd /\ me.afd.pos \in Nat /\ t \in Nat
      /\ c \in Seq(Cell) /\ w \in Seq(Cell) /\ me.afd.ino \in Inodes /\ Len(c) \in Nat
      /\ me.added \in Nat
  BY <1>1, CopyFacts, LenProperties DEF LateLabels, HasWork
<1>3. ino'[me.afd.ino] = c
  BY <1>1, <1>2, ArchiveStays DEF Step, ArchFile
<1>4. CASE r = 0
  <2>1. Goto(p, "openSource", me) /\ ino' = ino
    BY <1>4 DEF CopyOld, fsVars
  <2>2. ASSUME AllReadable(f, disk), Exact(c), Fits(c), Fits(w)
        PROVE  /\ me.k = 1 /\ 1 <= Len(f) + 1 /\ t = EndOf(w, n + Rank(T, 1 - 1))
               /\ SourcesHeld(w, t, n, me.hdr, f, disk, 1)
    <3>1. /\ Prepared(c, w, t, me.hdr, f, disk) /\ me.added = Cardinality(T) /\ me.k = 1
      BY <1>1, <2>2, SourceFacts
    <3>2. /\ n \in Nat /\ Len(f) \in Nat /\ T \subseteq 1 .. Len(f)
          /\ Len(Header(w)) = n + Cardinality(T) /\ Len(me.hdr) = n + Cardinality(T)
      BY <3>1, PreparedPlaces
    <3>3. Rank(T, 1 - 1) = 0
      <4>1. Rank(T, 0) = 0 /\ 1 - 1 = 0
        BY <3>2, RankStarts
      <4>2. QED
        BY <4>1
    <3>4. n + Rank(T, 1 - 1) = n
      BY <3>2, <3>3
    <3>5. t = EndOf(w, n)
      <4>1. CASE c = <<>>
        <5>1. t = Len(me.hdr) + 1
          BY <1>1, <2>2, <4>1 DEF SourcedOf, Sourced, Sound, Op, Args
        <5>2. n = 0
          <6>1. n <= Len(c) /\ Len(c) = 0
            BY <1>2, <4>1, HeaderFacts
          <6>2. QED
            BY <3>2, <6>1
        <5>3. QED
          BY <3>2, <5>1, <5>2 DEF EndOf
      <4>2. CASE c # <<>>
        <5>1. Header(c) # <<>>
          BY <2>2, <4>2 DEF Exact
        <5>2. me.afd.pos <= Len(c) /\ t = me.afd.pos + me.added
          BY <1>1, <2>2, <5>1 DEF CopiedOf, Copied, CopiedOld, ArchFile, WorkFile, Op
        <5>3. Len(c) <= me.afd.pos
          BY <1>2, <1>4, ReadStays, FormatAssumption
        <5>4. t = Len(c) + me.added
          BY <1>2, <5>2, <5>3
        <5> HIDE DEF c, w, t, f
        <5>5. QED
          BY <1>2, <2>2, <3>1, <4>2, <5>4, OldEnd
      <4>3. QED
        BY <4>1, <4>2
    <3>6. SourcesHeld(w, t, n, me.hdr, f, disk, 1)
      <4>1. \A k \in T : ~(k < 1)
        BY <3>2
      <4>2. QED
        BY <4>1 DEF SourcesHeld
    <3>7. QED
      BY <3>1, <3>2, <3>4, <3>5, <3>6
  <2>3. Sourced("openSource", me, c, w, disk)
    BY <2>2 DEF Sourced, Sound, Args
  <2>4. QED
    BY <1>1, <2>1, <2>3, GotoSourced DEF ArchFile, WorkFile
<1>5. CASE r # 0
  <2> DEFINE m == [me EXCEPT !.afd.pos = @ + r, !.tfd.pos = @ + r]
  <2>1. Goto(p, "copyOld", m)
    BY <1>5 DEF CopyOld
  <2>2. m.afd.ino = me.afd.ino
    <3> HIDE DEF r
    <3>1. QED
      BY <1>2 DEF Local, Fd
  <2>3. c # <<>>
    <3>1. c = <<>> => Len(c) = 0
      OBVIOUS
    <3>2. me.afd.pos >= Len(c) => r = 0
      BY DEF ReadCount
    <3> HIDE DEF c, r, me
    <3>3. QED
      BY <1>2, <1>5, <3>1, <3>2
  <2> HIDE DEF m, r
  <2>4. Sourced("copyOld", m, ino'[m.afd.ino], ino'[m.tfd.ino], disk')
    BY <1>3, <2>2, <2>3 DEF Sourced
  <2>5. QED
    BY <2>1, <2>4, GotoSourced
<1>6. QED
  BY <1>4, <1>5

LEMMA OpenSourceSourced ==
    ASSUME TypeInv, Formed, NEW p \in Procs, DraftOf(p), ListOf(p), AnnouncedOf(p),
           SourcedOf(p), OpenSource(p)
    PROVE  SourcedOf(p)'
<1> DEFINE me == loc[p]
           c == ArchFile(p)
           w == WorkFile(p)
           n == Len(Header(c))
           f == Args(p)
           T == Regulars(f, disk)
           t == me.tfd.pos
           k == me.k
<1>1. /\ pc[p] = "openSource" /\ Op(p) = "input" /\ disk' = disk /\ ino' = ino /\ me \in Local
      /\ k \in Nat /\ k # 0
  <2>1. pc[p] = "openSource" /\ Op(p) = "input" /\ disk' = disk /\ ino' = ino /\ me \in Local
    BY LocalFacts DEF OpenSource, DraftOf, Draft, InputLabels, Op
  <2>2. QED
    BY <2>1, LocalFacts DEF Reached, InRange, LoopLabels, Local
<1>2. Sound(me, c, w, disk) =>
        /\ k <= Len(f) + 1 /\ t = EndOf(w, n + Rank(T, k - 1))
        /\ SourcesHeld(w, t, n, me.hdr, f, disk, k)
  BY <1>1 DEF SourcedOf, Sourced, Args
<1>3. Sound(me, c, w, disk) =>
        /\ Prepared(c, w, t, me.hdr, f, disk) /\ me.added = Cardinality(T)
        /\ n \in Nat /\ Len(f) \in Nat /\ T \subseteq 1 .. Len(f) /\ t \in Nat
        /\ Len(Header(w)) = n + Cardinality(T)
  <2>1. SUFFICES ASSUME Sound(me, c, w, disk)
                 PROVE  /\ Prepared(c, w, t, me.hdr, f, disk) /\ me.added = Cardinality(T)
                        /\ n \in Nat /\ Len(f) \in Nat /\ T \subseteq 1 .. Len(f) /\ t \in Nat
                        /\ Len(Header(w)) = n + Cardinality(T)
    OBVIOUS
  <2>2. Prepared(c, w, t, me.hdr, f, disk) /\ me.added = Cardinality(T)
    BY <1>1, <2>1, SourceFacts DEF Sound, Args
  <2>3. t \in Nat
    BY <2>2 DEF Prepared
  <2>4. n \in Nat /\ Len(f) \in Nat /\ T \subseteq 1 .. Len(f) /\ Len(Header(w)) = n + Cardinality(T)
    BY <2>2, PreparedPlaces
  <2>5. QED
    BY <2>2, <2>3, <2>4
<1>4. CASE k > Len(f) /\ Goto(p, "unlink", me)
  <2>1. ASSUME Sound(me, c, w, disk)
        PROVE  /\ t = EndOf(w, Len(Header(w)))
               /\ SourcesHeld(w, t, n, me.hdr, f, disk, Len(f) + 1)
    <3>1. k = Len(f) + 1 /\ k - 1 = Len(f)
      BY <1>1, <1>2, <1>3, <1>4, <2>1
    <3>2. Rank(T, Len(f)) = Cardinality(T)
      BY <1>3, <2>1, RankStarts
    <3>3. QED
      BY <1>2, <1>3, <2>1, <3>1, <3>2
  <2>2. Sourced("unlink", me, c, w, disk)
    BY <2>1 DEF Sourced, Args
  <2>3. QED
    BY <1>1, <1>4, <2>2, GotoSourced DEF ArchFile, WorkFile
<1>5. CASE ~(k > Len(f)) /\ (Readable(f[k]) \/ Special(f[k])) /\ Goto(p, "copySource", [me EXCEPT !.pos = 0])
  <2> DEFINE m == [me EXCEPT !.pos = 0]
  <2>1. m.cmd = me.cmd /\ m.hdr = me.hdr /\ m.tfd = me.tfd /\ m.afd = me.afd /\ m.k = k /\ m.pos = 0
    BY <1>1 DEF Local
  <2> HIDE DEF m
  <2>2. ASSUME Sound(me, c, w, disk)
        PROVE  /\ k \in T /\ 0 <= Len(disk[f[k]].data) /\ t = EndOf(w, n + Rank(T, k - 1)) + 0
               /\ \A x : x \notin 1 .. 0
    <3>1. k \in T
      <4>1. f \in Seq(Paths)
        BY <1>3, <2>2 DEF Prepared
      <4>2. k \in DOMAIN f
        BY <1>1, <1>3, <1>5, <2>2, <4>1
      <4>3. QED
        BY <1>5, <2>2, <4>2 DEF Sound, AllReadable, Args, Special, Regulars, Readable, Regular
    <3>2. disk[f[k]].data \in Seq(Cell)
      BY <1>3, <2>2, <3>1 DEF Prepared
    <3>3. Len(disk[f[k]].data) \in Nat
      BY <3>2, LenProperties
    <3>4. t + 0 = t
      BY <1>3, <2>2
    <3>5. QED
      BY <1>2, <2>2, <3>1, <3>3, <3>4
  <2>3. Sound(m, c, w, disk) = Sound(me, c, w, disk)
    BY <2>1 DEF Sound
  <2> HIDE DEF n, t, k
  <2>4. Sourced("copySource", m, c, w, disk)
    BY <1>2, <2>1, <2>2, <2>3, Zenon DEF Sourced, Args, n, t, k
  <2>5. QED
    BY <1>1, <1>5, <2>1, <2>4, GotoSourced DEF ArchFile, WorkFile, m
<1>6. CASE ~(k > Len(f)) /\ ~Readable(f[k]) /\ Goto(p, "openSource", [me EXCEPT !.k = @ + 1])
  <2> DEFINE m == [me EXCEPT !.k = @ + 1]
  <2>1. m.cmd = me.cmd /\ m.hdr = me.hdr /\ m.tfd = me.tfd /\ m.afd = me.afd /\ m.k = k + 1
    BY <1>1 DEF Local
  <2> HIDE DEF m
  <2>2. ASSUME Sound(me, c, w, disk)
        PROVE  /\ k + 1 <= Len(f) + 1 /\ t = EndOf(w, n + Rank(T, (k + 1) - 1))
               /\ SourcesHeld(w, t, n, me.hdr, f, disk, k + 1)
    <3>1. k \notin T
      BY <1>6, <2>2 DEF Sound, AllReadable, Args, Readable, Regular, Regulars
    <3>2. k \in Nat /\ k # 0 /\ k <= Len(f) /\ Len(f) \in Nat
      BY <1>1, <1>3, <1>6, <2>2
    <3> HIDE DEF k, f, T
    <3>3. k - 1 \in 0 .. Len(f) - 1 /\ k - 1 + 1 = k /\ (k + 1) - 1 = k /\ k + 1 <= Len(f) + 1
      BY <3>2
    <3>4. PICK i \in 0 .. Len(f) - 1 : i = k - 1 /\ i + 1 = k
      BY <3>3
    <3>5. Rank(T, i + 1) = Rank(T, i)
      BY <1>3, <2>2, <3>1, <3>2, <3>4, RankGrows
    <3>6. Rank(T, (k + 1) - 1) = Rank(T, k - 1)
      BY <3>3, <3>4, <3>5
    <3>7. \A j \in T : j < k + 1 => j < k
      BY <1>3, <2>2, <3>1, <3>2
    <3>8. SourcesHeld(w, t, n, me.hdr, f, disk, k + 1)
      BY <1>2, <2>2, <3>7 DEF SourcesHeld, T
    <3>9. QED
      BY <1>2, <2>2, <3>3, <3>6, <3>8
  <2>3. Sound(m, c, w, disk) = Sound(me, c, w, disk)
    BY <2>1 DEF Sound
  <2> HIDE DEF n, t, k
  <2>4. Sound(m, c, w, disk) =>
          /\ m.k <= Len(f) + 1 /\ m.tfd.pos = EndOf(w, n + Rank(T, m.k - 1))
          /\ SourcesHeld(w, m.tfd.pos, n, m.hdr, f, disk, m.k)
    <3>1. m.tfd.pos = t
      BY <2>1 DEF t
    <3> HIDE DEF c, w, f, T
    <3>2. QED
      BY <2>1, <2>2, <2>3, <3>1, Zenon
  <2>5. Sourced("openSource", m, c, w, disk)
    BY <2>1, <2>4, Zenon DEF Sourced, Args, n
  <2>6. QED
    BY <1>1, <1>6, <2>1, <2>5, GotoSourced DEF ArchFile, WorkFile, m
<1>7. QED
  BY <1>4, <1>5, <1>6, Zenon DEF OpenSource

LEMMA RankBound ==
    ASSUME NEW n \in Nat, NEW S, S \subseteq 1 .. n, NEW j
    PROVE  Rank(S, j) \in 0 .. Cardinality(S)
<1> DEFINE K == {i \in S : i <= j}
<1>1. IsFiniteSet(1 .. n)
  BY FS_Interval
<1>2. IsFiniteSet(S)
  BY <1>1, FS_Subset
<1>3. Cardinality(K) <= Cardinality(S) /\ Cardinality(S) \in Nat
  BY <1>2, FS_Subset, FS_CardinalityType
<1>4. Rank(S, j) = Cardinality(K) /\ Rank(S, j) \in Nat
  BY FewPlaces
<1> HIDE DEF K
<1>5. QED
  BY <1>3, <1>4

\* The argument that is copied exists.
LEMMA CopySourceAt ==
    ASSUME TypeInv, NEW p \in Procs, pc[p] = "copySource"
    PROVE  loc[p].k \in 1 .. Len(Args(p))
<1>1. loc[p].k <= Len(Args(p)) /\ loc[p].k \in Nat \ {0}
  BY InsertFacts, LocalFacts DEF Reached, InRange, Args, Local
<1>2. Len(Args(p)) \in Nat
  BY InsertFacts, LenProperties
<1>3. QED
  BY <1>1, <1>2

LEMMA CopySourceSourced ==
    ASSUME TypeInv, Private, Formed, NEW p \in Procs, DraftOf(p), ListOf(p), AnnouncedOf(p),
           SourcedOf(p), CopySource(p)
    PROVE  SourcedOf(p)'
<1> DEFINE me == loc[p]
           c == ArchFile(p)
           w == WorkFile(p)
           n == Len(Header(c))
           f == Args(p)
           T == Regulars(f, disk)
           t == me.tfd.pos
           k == me.k
           a == me.pos
           text == disk[f[k]].data
           start == EndOf(w, n + Rank(T, k - 1))
           r == ReadCount(text, a, Buffer)
           b == ReadInto(text, a, r)
           v == WriteAt(w, t, b)
<1>1. /\ pc[p] = "copySource" /\ Op(p) = "input" /\ disk' = disk /\ me \in Local /\ a \in Nat
      /\ k \in Nat /\ me.afd.ino \in Inodes /\ me.tfd.ino \in Inodes
      /\ c \in Seq(Cell) /\ w \in Seq(Cell)
  <2>1. pc[p] = "copySource" /\ Op(p) = "input" /\ disk' = disk /\ me \in Local
    BY LocalFacts DEF CopySource, DraftOf, Draft, InputLabels, Op
  <2>2. pc[p] \in LateLabels /\ HasWork(pc[p], me)
    BY <2>1 DEF LateLabels, HasWork
  <2>3. QED
    BY <2>1, <2>2, CopyFacts DEF Local
<1>2. ino'[me.afd.ino] = c
  BY <1>1, ArchiveStays DEF Step, ArchFile
<1>3. ASSUME Sound(me, c, w, disk)
      PROVE  /\ k \in T /\ a <= Len(text) /\ t = start + a /\ \A x \in 1 .. a : w[start + x] = text[x]
             /\ SourcesHeld(w, t, n, me.hdr, f, disk, k)
             /\ Prepared(c, w, t, me.hdr, f, disk) /\ Len(f) \in Nat /\ T \subseteq 1 .. Len(f)
             /\ text \in Seq(Cell) /\ Len(text) \in Nat /\ t \in Nat /\ Fits(w)
             /\ r \in Nat /\ a + r <= Len(text) /\ (r = 0 => a = Len(text))
  <2>1. /\ k \in T /\ a <= Len(text) /\ t = start + a /\ \A x \in 1 .. a : w[start + x] = text[x]
        /\ SourcesHeld(w, t, n, me.hdr, f, disk, k)
    BY <1>1, <1>3, Zenon DEF SourcedOf, Sourced, Args
  <2>2. Prepared(c, w, t, me.hdr, f, disk) /\ Fits(w)
    BY <1>1, <1>3, SourceFacts DEF Sound, Args
  <2>3. Len(f) \in Nat /\ T \subseteq 1 .. Len(f)
    BY <2>2, RegularsFacts DEF Prepared
  <2>4. text \in Seq(Cell) /\ t \in Nat
    BY <2>1, <2>2 DEF Prepared
  <2> HIDE DEF text
  <2>5. Len(text) \in Nat /\ r \in Nat /\ a + r <= Len(text) /\ (r = 0 => Len(text) <= a)
    BY <1>1, <2>1, <2>4, LenProperties, ReadStays, FormatAssumption
  <2>6. r = 0 => a = Len(text)
    BY <1>1, <2>1, <2>5
  <2>7. QED
    BY <2>1, <2>2, <2>3, <2>4, <2>5, <2>6
<1>4. CASE r = 0
  <2> DEFINE m == [me EXCEPT !.k = @ + 1]
  <2>1. m.cmd = me.cmd /\ m.hdr = me.hdr /\ m.tfd = me.tfd /\ m.afd = me.afd /\ m.k = k + 1
    BY <1>1 DEF Local
  <2>2. Goto(p, "openSource", m) /\ ino' = ino
    BY <1>4 DEF CopySource, fsVars
  <2> HIDE DEF m
  <2>3. ASSUME Sound(me, c, w, disk)
        PROVE  /\ k + 1 <= Len(f) + 1 /\ t = EndOf(w, n + Rank(T, (k + 1) - 1))
               /\ SourcesHeld(w, t, n, me.hdr, f, disk, k + 1)
    <3>1. /\ k \in T /\ a = Len(text) /\ t = start + a /\ \A x \in 1 .. a : w[start + x] = text[x]
          /\ SourcesHeld(w, t, n, me.hdr, f, disk, k) /\ Prepared(c, w, t, me.hdr, f, disk)
          /\ Len(f) \in Nat /\ T \subseteq 1 .. Len(f) /\ Fits(w)
      BY <1>3, <1>4, <2>3, Zenon
    <3>2. t = start + Len(text) /\ \A x \in 1 .. Len(text) : w[start + x] = text[x]
      BY <3>1, Zenon
    <3>3. /\ n = Len(Header(c)) /\ T = Regulars(f, disk) /\ text = disk[f[k]].data
          /\ start = EndOf(w, n + Rank(T, k - 1))
      OBVIOUS
    <3> HIDE DEF c, w, n, f, T, t, k, a, text, start
    <3>4. t = EndOf(w, n + Rank(T, k)) /\ SourceHeld(w, t, n, me.hdr, f, disk, k)
      BY <3>1, <3>2, <3>3, SourceDone, SMTT(30)
    <3>5. (k + 1) - 1 = k /\ k + 1 <= Len(f) + 1
      BY <1>1, <3>1
    <3>6. \A j \in T : j < k + 1 => j < k \/ j = k
      BY <1>1, <3>1
    <3>7. SourcesHeld(w, t, n, me.hdr, f, disk, k + 1)
      BY <3>1, <3>3, <3>4, <3>6 DEF SourcesHeld
    <3>8. QED
      BY <3>4, <3>5, <3>7
  <2>4. Sound(m, c, w, disk) = Sound(me, c, w, disk)
    BY <2>1 DEF Sound
  <2> HIDE DEF n, t, k
  <2>5. Sound(m, c, w, disk) =>
          /\ m.k <= Len(f) + 1 /\ m.tfd.pos = EndOf(w, n + Rank(T, m.k - 1))
          /\ SourcesHeld(w, m.tfd.pos, n, m.hdr, f, disk, m.k)
    <3>1. m.tfd.pos = t
      BY <2>1 DEF t
    <3> HIDE DEF c, w, f, T
    <3>2. QED
      BY <2>1, <2>3, <2>4, <3>1, Zenon
  <2>6. Sourced("openSource", m, c, w, disk)
    BY <2>1, <2>5, Zenon DEF Sourced, Args, n
  <2>7. QED
    BY <1>1, <2>1, <2>2, <2>6, GotoSourced DEF ArchFile, WorkFile
<1>5. CASE r # 0
  <2> DEFINE m == [me EXCEPT !.pos = @ + r, !.tfd.pos = @ + r]
  <2>1. WriteWork(p, b) /\ Goto(p, "copySource", m)
    BY <1>5 DEF CopySource
  <2>2. ino'[me.tfd.ino] = v
    BY <1>1, <2>1, LocalFacts DEF WriteWork, WorkFile, FilesOK
  <2>3. /\ m.tfd.ino = me.tfd.ino /\ m.tfd.pos = t + r /\ m.afd = me.afd /\ m.k = k
        /\ m.hdr = me.hdr /\ m.cmd = me.cmd /\ m.pos = a + r
    <3> HIDE DEF r
    <3>1. QED
      BY <1>1 DEF Local, Fd
  <2> HIDE DEF m
  <2>4. ASSUME AllReadable(f, disk), Exact(c), Fits(c), Fits(v)
        PROVE  /\ k \in T /\ a + r <= Len(text)
               /\ t + r = EndOf(v, n + Rank(T, k - 1)) + (a + r)
               /\ \A x \in 1 .. a + r : v[EndOf(v, n + Rank(T, k - 1)) + x] = text[x]
               /\ SourcesHeld(v, t + r, n, me.hdr, f, disk, k)
    <3>1. b \in Seq(Cell) /\ Len(b) = r /\ t <= Len(w) /\ t \in Nat /\ HeaderDone(w, t)
      <4>1. pc[p] \in LateLabels /\ HasWork(pc[p], me)
        BY <1>1 DEF LateLabels, HasWork
      <4>2. HeaderDone(w, t) /\ t \in Nat
        BY <4>1, CopyFacts
      <4>3. f \in Seq(Paths)
        BY <1>1, LocalFacts DEF Args
      <4>4. k \in 1 .. Len(f)
        BY <1>1, <2>4, <4>3, RegularsFacts, CopySourceAt
      <4>5. f[k] \in Paths
        BY <4>3, <4>4, ElementOfSeq
      <4>6. text \in Seq(Cell)
        BY <4>5, LocalFacts DEF FilesOK, FileState
      <4> HIDE DEF text
      <4>7. r \in Nat
        BY <1>1, <4>6, ReadCountIsNat, FormatAssumption
      <4> HIDE DEF r
      <4>8. QED
        BY <1>1, <4>2, <4>6, <4>7, ReadIntoFacts DEF HeaderDone
    <3>2. Fits(w)
      BY <1>1, <2>4, <3>1, WriteBehind
    <3>3. Sound(me, c, w, disk)
      BY <1>1, <2>4, <3>2 DEF Sound, Op, Args
    <3>4. /\ k \in T /\ t = start + a /\ \A x \in 1 .. a : w[start + x] = text[x]
          /\ SourcesHeld(w, t, n, me.hdr, f, disk, k) /\ Prepared(c, w, t, me.hdr, f, disk)
          /\ text \in Seq(Cell) /\ Len(text) \in Nat /\ r \in Nat /\ a + r <= Len(text)
      BY <1>3, <3>3
    <3>5. Header(v) = Header(w)
      BY <1>1, <3>1, HeaderStays
    <3>6. EndOf(v, n + Rank(T, k - 1)) = start
      BY <3>5 DEF EndOf
    <3>7. ChunkArrives(w, t, text, a, r)
      <4> HIDE DEF text, w, t, r
      <4>1. QED
        BY <1>1, <3>1, <3>4, CopiedChunk
    <3>8. SourcesHeld(v, t + Len(b), n, me.hdr, f, disk, k)
      <4>1. n = Len(Header(c))
        OBVIOUS
      <4> HIDE DEF c, w, n, f, t, k, b
      <4>2. QED
        BY <3>1, <3>4, <4>1, SourcesStayHeld
    <3>9. \A x \in 1 .. t : v[x] = w[x]
      BY <1>1, <3>1, WriteBehind
    <3>10. \A x \in 1 .. r : v[t + x] = text[a + x]
      BY <3>7 DEF ChunkArrives
    <3>11. start \in Nat
      <4>1. n \in Nat /\ Cardinality(T) \in Nat /\ Len(Header(w)) = n + Cardinality(T)
        BY <3>4, PreparedPlaces
      <4>2. Len(f) \in Nat /\ T \subseteq 1 .. Len(f) /\ k \in Nat
        BY <1>1, <3>4, PreparedPlaces
      <4>3. Rank(T, k - 1) \in 0 .. Cardinality(T)
        BY <4>2, RankBound
      <4>4. n + Rank(T, k - 1) \in 0 .. Len(Header(w))
        BY <4>1, <4>3
      <4>5. QED
        BY <1>1, <4>4, StartNat
    <3> HIDE DEF c, w, n, f, T, t, k, a, text, start, r, b, v
    <3>12. ASSUME NEW x \in 1 .. a + r PROVE v[start + x] = text[x]
      <4>1. CASE x <= a
        <5>1. x \in 1 .. a /\ start + x \in 1 .. t
          BY <1>1, <3>1, <3>4, <3>11, <4>1
        <5>2. QED
          BY <3>4, <3>9, <5>1
      <4>2. CASE ~(x <= a)
        <5>1. x - a \in 1 .. r /\ t + (x - a) = start + x /\ a + (x - a) = x
          BY <1>1, <3>1, <3>4, <3>11, <4>2
        <5>2. v[t + (x - a)] = text[a + (x - a)]
          BY <3>10, <5>1
        <5>3. QED
          BY <5>1, <5>2
      <4>3. QED
        BY <4>1, <4>2
    <3>13. t + r = start + (a + r)
      BY <1>1, <3>4, <3>11
    <3>14. QED
      BY <3>1, <3>4, <3>6, <3>8, <3>12, <3>13
  <2> HIDE DEF n, t, k, v, r, a, text
  <2>5. Sourced("copySource", m, c, v, disk)
    <3>1. m.tfd.pos = t + r /\ m.cmd.files = f
      BY <2>3 DEF Args
    <3>2. QED
      BY <2>3, <2>4, <3>1, Zenon DEF Sourced, Sound, n, text
  <2>6. QED
    BY <1>1, <1>2, <2>1, <2>2, <2>3, <2>5, GotoSourced
<1>6. QED
  BY <1>4, <1>5

LEMMA UnlinkSourced ==
    ASSUME TypeInv, NEW p \in Procs, SourcedOf(p), Unlink(p)
    PROVE  SourcedOf(p)'
<1>1. /\ pc[p] = "unlink" /\ ino' = ino /\ disk' = disk /\ Goto(p, "rename", loc[p])
  BY DEF Unlink
<1>2. Sourced("rename", loc[p], ArchFile(p), WorkFile(p), disk)
  BY <1>1, Zenon DEF SourcedOf, Sourced
<1>3. QED
  BY <1>1, <1>2, GotoSourced DEF ArchFile, WorkFile

LEMMA StepSourced ==
    ASSUME TypeInv, Private, Formed, NEW p \in Procs, DraftOf(p), ListOf(p), AnnouncedOf(p),
           CopiedOf(p), SourcedOf(p), Step(p)
    PROVE  SourcedOf(p)'
<1>1. CASE OpenWork(p) \/ OpenArchive(p)
  BY <1>1, AwaySourced, ExitSourced DEF OpenWork, OpenArchive, SourcedLabels
<1>2. CASE ReadHeader(p)
  <2>1. Op(p) \in {"input", "remove", "extract", "stat"}
    BY <1>2, LocalFacts DEF ReadHeader
  <2>2. \A m : AfterHeader(p, m) => SourcedOf(p)'
    BY <2>1, AwaySourced, ExitSourced DEF AfterHeader, SourcedLabels
  <2>3. QED
    BY <1>2, <2>2, AwaySourced DEF ReadHeader, SourcedLabels
<1>3. CASE StatFile(p) \/ MeasureFile(p) \/ FilterHeader(p) \/ WriteHeader(p)
  BY <1>3, AwaySourced, ExitSourced, Zenon
  DEF StatFile, MeasureFile, FilterHeader, WriteHeader, SourcedLabels
<1>4. CASE NextMember(p) \/ CopyMember(p)
  BY <1>4, AwaySourced, ExitSourced, Zenon DEF NextMember, CopyMember, SourcedLabels, Op
<1>5. QED
  BY <1>1, <1>2, <1>3, <1>4, LocateDataSourced, CopyOldSourced, OpenSourceSourced,
     CopySourceSourced, UnlinkSourced, ExitSourced
  DEF Step, Rename, Refuse

\* Nobody changes the arguments of a running -i.
SourcesStay ==
    \A p \in Procs : Op(p) = "input" =>
        \A k \in DOMAIN Args(p) : disk'[Args(p)[k]] = disk[Args(p)[k]]

AnnouncedInv == \A p \in Procs : AnnouncedOf(p)
SourcedInv == \A p \in Procs : SourcedOf(p)

LEMMA SameRegulars ==
    ASSUME NEW f, NEW texts, NEW later, \A k \in DOMAIN f : later[f[k]] = texts[f[k]]
    PROVE  /\ Regulars(f, later) = Regulars(f, texts)
           /\ (AllReadable(f, later) <=> AllReadable(f, texts))
           /\ \A k \in Regulars(f, texts) : \A e : Announces(e, f[k], later) <=> Announces(e, f[k], texts)
<1>1. Regulars(f, later) = Regulars(f, texts)
  BY DEF Regulars
<1>2. \A k \in Regulars(f, texts) : later[f[k]] = texts[f[k]]
  BY DEF Regulars
<1>3. (AllReadable(f, later) <=> AllReadable(f, texts))
  BY <1>1, <1>2 DEF AllReadable
<1>4. \A k \in Regulars(f, texts) : \A e : Announces(e, f[k], later) <=> Announces(e, f[k], texts)
  BY <1>2 DEF Announces
<1>5. QED
  BY <1>1, <1>3, <1>4

LEMMA SameTexts ==
    ASSUME NEW l, NEW m, NEW texts, NEW later,
           \A k \in DOMAIN m.cmd.files : later[m.cmd.files[k]] = texts[m.cmd.files[k]],
           NEW n, NEW c, NEW w
    PROVE  /\ Announced(l, m, n, texts) => Announced(l, m, n, later)
           /\ Sourced(l, m, c, w, texts) => Sourced(l, m, c, w, later)
<1>1. /\ Regulars(m.cmd.files, later) = Regulars(m.cmd.files, texts)
      /\ (AllReadable(m.cmd.files, later) <=> AllReadable(m.cmd.files, texts))
      /\ \A k \in Regulars(m.cmd.files, texts) : \A e :
            Announces(e, m.cmd.files[k], later) <=> Announces(e, m.cmd.files[k], texts)
  BY SameRegulars
<1>2. \A k \in Regulars(m.cmd.files, texts) : later[m.cmd.files[k]] = texts[m.cmd.files[k]]
  BY DEF Regulars
<1> PICK T : T = Regulars(m.cmd.files, texts)
  OBVIOUS
<1>3. Announced(l, m, n, texts) => Announced(l, m, n, later)
  <2>1. /\ (\A k \in T : k < m.k => Announces(m.hdr[n + Rank(T, k)], m.cmd.files[k], texts))
              => (\A k \in T : k < m.k => Announces(m.hdr[n + Rank(T, k)], m.cmd.files[k], later))
        /\ (\A k \in T : Announces(m.hdr[n + Rank(T, k)], m.cmd.files[k], texts))
              => (\A k \in T : Announces(m.hdr[n + Rank(T, k)], m.cmd.files[k], later))
    BY <1>1, Zenon
  <2>2. QED
    BY <1>1, <2>1, Zenon DEF Announced
<1>4. \A t, hdr, i, o : SourcesHeld(w, t, o, hdr, m.cmd.files, later, i)
                           <=> SourcesHeld(w, t, o, hdr, m.cmd.files, texts, i)
  BY <1>1, <1>2, Zenon DEF SourcesHeld, SourceHeld
<1>5. Sound(m, c, w, later) <=> Sound(m, c, w, texts)
  BY <1>1 DEF Sound
<1>6. ASSUME Sourced(l, m, c, w, texts) PROVE Sourced(l, m, c, w, later)
  <2> DEFINE n0 == Len(Header(c))
             t == m.tfd.pos
             start(files) == EndOf(w, n0 + Rank(Regulars(m.cmd.files, files), m.k - 1))
  <2>1. m.k \in T => later[m.cmd.files[m.k]] = texts[m.cmd.files[m.k]]
    BY <1>2
  <2>2. start(later) = start(texts)
    BY <1>1, Zenon
  <2>3. ASSUME Sound(m, c, w, texts), l = "openSource"
        PROVE  /\ m.k <= Len(m.cmd.files) + 1 /\ t = start(later)
               /\ SourcesHeld(w, t, n0, m.hdr, m.cmd.files, later, m.k)
    <3>1. /\ m.k <= Len(m.cmd.files) + 1 /\ t = start(texts)
          /\ SourcesHeld(w, t, n0, m.hdr, m.cmd.files, texts, m.k)
      BY <1>6, <2>3, Zenon DEF Sourced
    <3>2. QED
      BY <1>4, <2>2, <3>1, Zenon
  <2>4. ASSUME Sound(m, c, w, texts), l = "copySource"
        PROVE  /\ m.k \in Regulars(m.cmd.files, later)
               /\ m.pos <= Len(later[m.cmd.files[m.k]].data) /\ t = start(later) + m.pos
               /\ \A x \in 1 .. m.pos : w[start(later) + x] = later[m.cmd.files[m.k]].data[x]
               /\ SourcesHeld(w, t, n0, m.hdr, m.cmd.files, later, m.k)
    <3>1. /\ m.k \in Regulars(m.cmd.files, texts)
          /\ m.pos <= Len(texts[m.cmd.files[m.k]].data) /\ t = start(texts) + m.pos
          /\ \A x \in 1 .. m.pos : w[start(texts) + x] = texts[m.cmd.files[m.k]].data[x]
          /\ SourcesHeld(w, t, n0, m.hdr, m.cmd.files, texts, m.k)
      BY <1>6, <2>4, Zenon DEF Sourced
    <3>2. later[m.cmd.files[m.k]] = texts[m.cmd.files[m.k]]
      BY <1>2, <3>1
    <3> HIDE DEF start
    <3>3. QED
      BY <1>1, <1>4, <2>2, <3>1, <3>2, Zenon
  <2>5. ASSUME Sound(m, c, w, texts), l \in {"unlink", "rename"}
        PROVE  /\ t = EndOf(w, Len(Header(w)))
               /\ SourcesHeld(w, t, n0, m.hdr, m.cmd.files, later, Len(m.cmd.files) + 1)
    BY <1>4, <1>6, <2>5, Zenon DEF Sourced
  <2>6. Sound(m, c, w, texts) => (l = "copyOld" => (c = <<>> => t = Len(m.hdr) + 1))
    BY <1>6, Zenon DEF Sourced
  <2>7. QED
    BY <1>5, <2>3, <2>4, <2>5, <2>6, Zenon DEF Sourced
<1>7. QED
  BY <1>3, <1>6

\* Steps of others, when the arguments of -i stay as they are.
LEMMA OtherSources ==
    ASSUME TypeInv, Private, [Running]_vars, SourcesStay, NEW q \in Procs,
           pc'[q] = pc[q], loc'[q] = loc[q],
           loc[q].tfd.ino \in Inodes => ino'[loc[q].tfd.ino] = ino[loc[q].tfd.ino]
    PROVE  /\ AnnouncedOf(q) => AnnouncedOf(q)'
           /\ DraftOf(q) /\ SourcedOf(q) => SourcedOf(q)'
<1> DEFINE l == pc[q]
           m == loc[q]
<1>1. Op(q) = "input" =>
        \A k \in DOMAIN m.cmd.files : disk'[m.cmd.files[k]] = disk[m.cmd.files[k]]
  BY DEF SourcesStay, Args
<1>2. m.afd.ino \in Inodes => ino'[m.afd.ino] = ino[m.afd.ino]
  BY StepImmutable DEF Visible
<1>3. ASSUME AnnouncedOf(q) PROVE AnnouncedOf(q)'
  <2>1. CASE l \notin AnnouncedLabels
    <3>1. Announced(l, m, OldMembers(q)', disk')
      BY <2>1, NothingAnnounced
    <3>2. QED
      BY <3>1 DEF AnnouncedOf
  <2>2. CASE Op(q) # "input"
    <3>1. Announced(l, m, OldMembers(q)', disk')
      BY <2>2 DEF Announced, Op
    <3>2. QED
      BY <3>1 DEF AnnouncedOf
  <2>3. CASE l \in AnnouncedLabels /\ Op(q) = "input"
    <3>1. m.afd.ino \in Inodes
      BY <2>3, ArchiveFacts DEF AnnouncedLabels, CopyingLabels
    <3>2. OldMembers(q)' = OldMembers(q)
      BY <1>2, <3>1 DEF OldMembers, ArchFile
    <3>3. Announced(l, m, OldMembers(q), disk')
      BY <1>1, <1>3, <2>3, SameTexts DEF AnnouncedOf
    <3>4. QED
      BY <3>2, <3>3 DEF AnnouncedOf
  <2>4. QED
    BY <2>1, <2>2, <2>3
<1>4. ASSUME DraftOf(q), SourcedOf(q) PROVE SourcedOf(q)'
  <2>1. CASE l \notin SourcedLabels \/ Op(q) # "input"
    <3>1. Sourced(l, m, ArchFile(q)', WorkFile(q)', disk')
      BY <2>1, NothingSourced DEF Op
    <3>2. QED
      BY <3>1 DEF SourcedOf
  <2>2. CASE l \in SourcedLabels /\ Op(q) = "input"
    <3>1. HasWork(l, m) /\ l \in LateLabels
      BY <2>2 DEF SourcedLabels, HasWork, LateLabels
    <3>2. m.afd.ino \in Inodes /\ m.tfd.ino \in Inodes
      BY <1>4, <3>1, ArchiveFacts DEF DraftOf, Draft, LateLabels
    <3>3. ArchFile(q)' = ArchFile(q) /\ WorkFile(q)' = WorkFile(q)
      BY <1>2, <3>2 DEF ArchFile, WorkFile
    <3>4. Sourced(l, m, ArchFile(q), WorkFile(q), disk')
      BY <1>1, <1>4, <2>2, SameTexts DEF SourcedOf
    <3>5. QED
      BY <3>3, <3>4 DEF SourcedOf
  <2>3. QED
    BY <2>1, <2>2
<1>5. QED
  BY <1>3, <1>4

LEMMA NextSources ==
    ASSUME TypeInv, OneWriter, Private, Formed, DraftInv, ListInv, CopiedInv,
           AnnouncedInv, SourcedInv, SourcesStay, [Running]_vars
    PROVE  AnnouncedInv' /\ SourcedInv'
<1>1. ASSUME NEW q \in Procs, pc'[q] = pc[q], loc'[q] = loc[q],
             loc[q].tfd.ino \in Inodes => ino'[loc[q].tfd.ino] = ino[loc[q].tfd.ino]
      PROVE  AnnouncedOf(q)' /\ SourcedOf(q)'
  BY <1>1, OtherSources DEF AnnouncedInv, SourcedInv, DraftInv
<1>2. ASSUME NEW p \in Procs, Step(p) PROVE AnnouncedInv' /\ SourcedInv'
  <2>1. AnnouncedOf(p)' /\ SourcedOf(p)'
    BY <1>2, StepAnnounced, StepSourced DEF DraftInv, ListInv, CopiedInv, AnnouncedInv, SourcedInv
  <2>2. ASSUME NEW q \in Procs, q # p PROVE AnnouncedOf(q)' /\ SourcedOf(q)'
    BY <1>1, <1>2, <2>2, StepOthers, OthersKeepWork DEF OthersStay
  <2>3. QED
    BY <2>1, <2>2 DEF AnnouncedInv, SourcedInv
<1>3. ASSUME NEW p \in Procs, Start(p) \/ Crash(p) PROVE AnnouncedInv' /\ SourcedInv'
  <2>1. pc'[p] \in {"idle", "openWork", "openArchive"}
    BY <1>3 DEF Start, Crash, TypeInv, TypeOK
  <2>2. Announced(pc'[p], loc'[p], OldMembers(p)', disk')
    BY <2>1, NothingAnnounced DEF AnnouncedLabels, CopyingLabels
  <2>3. Sourced(pc'[p], loc'[p], ArchFile(p)', WorkFile(p)', disk')
    BY <2>1, NothingSourced DEF SourcedLabels
  <2>4. ino' = ino /\ \A q \in Procs : q # p => pc'[q] = pc[q] /\ loc'[q] = loc[q]
    <3>1. CASE Start(p)
      BY <3>1 DEF Start, TypeInv, TypeOK
    <3>2. CASE Crash(p)
      BY <3>2 DEF Crash, TypeInv, TypeOK
    <3>3. QED
      BY <1>3, <3>1, <3>2
  <2>5. QED
    BY <1>1, <2>2, <2>3, <2>4 DEF AnnouncedInv, AnnouncedOf, SourcedInv, SourcedOf
<1>4. CASE UNCHANGED <<ino, pc, loc>>
  BY <1>1, <1>4 DEF AnnouncedInv, SourcedInv
<1>5. QED
  BY <1>2, <1>3, <1>4 DEF Running, Edit, Finished, vars

LEMMA InitSources == Init => AnnouncedInv /\ SourcedInv
<1> SUFFICES ASSUME Init, NEW p \in Procs PROVE AnnouncedOf(p) /\ SourcedOf(p)
  BY DEF AnnouncedInv, SourcedInv
<1>1. pc[p] = "idle"
  BY DEF Init
<1>2. QED
  BY <1>1, NothingAnnounced, NothingSourced
  DEF AnnouncedOf, SourcedOf, AnnouncedLabels, CopyingLabels, SourcedLabels

\* Before remove(), the arguments of -i can be read and its archive ends
\* where its last member does.
SourcesGood ==
    \A p \in Procs : pc[p] \in {"unlink", "rename"} /\ Op(p) = "input" =>
        AllReadable(Args(p), disk) /\ Exact(ArchFile(p))

LEMMA AppendedHere ==
    ASSUME TypeInv, Formed, NEW p \in Procs, DraftOf(p), ListOf(p), AnnouncedOf(p), SourcedOf(p),
           pc[p] \in {"unlink", "rename"}, Op(p) = "input", AllReadable(Args(p), disk),
           Exact(ArchFile(p)), Fits(ArchFile(p)), Fits(WorkFile(p)), NEW k \in Taken(p)
    PROVE  Members(WorkFile(p))[Len(Members(WorkFile(p))) - Cardinality(Taken(p)) + Rank(Taken(p), k)] =
              [name |-> Base[Args(p)[k]], data |-> disk[Args(p)[k]].data]
<1> DEFINE c == ArchFile(p)
           w == WorkFile(p)
           n == Len(Header(c))
           f == Args(p)
           hdr == loc[p].hdr
           t == loc[p].tfd.pos
           text == disk[f[k]].data
<1>1. PICK T : T = Regulars(f, disk)
  OBVIOUS
<1>2. Taken(p) = T /\ k \in T
  BY <1>1 DEF Taken, Regulars, Regular
<1>3. Prepared(c, w, t, hdr, f, disk)
  BY SourceFacts
<1>4. SourcesHeld(w, t, n, hdr, f, disk, Len(f) + 1)
  BY DEF SourcedOf, Sourced, Sound, Op, Args
<1>5. /\ n \in Nat /\ Len(f) \in Nat /\ Cardinality(T) \in Nat /\ T \subseteq 1 .. Len(f)
      /\ Len(Header(w)) = n + Cardinality(T)
      /\ \A j \in T : /\ Rank(T, j) \in Nat /\ n + Rank(T, j) \in 1 .. n + Cardinality(T)
                      /\ hdr[n + Rank(T, j)] \in Entry
                      /\ SameMember(Header(w)[n + Rank(T, j)], hdr[n + Rank(T, j)])
  BY <1>1, <1>3, PreparedPlaces, SMTT(30)
<1> DEFINE r == n + Rank(T, k)
           e == hdr[r]
<1>6. k < Len(f) + 1
  BY <1>2, <1>5
<1>7. Holds(w, r, t, text, e)
  BY <1>1, <1>2, <1>4, <1>6 DEF SourcesHeld, SourceHeld
<1>8. /\ w \in Seq(Cell) /\ t \in Nat /\ t <= Len(w) /\ text \in Seq(Cell)
      /\ e.name = Base[f[k]] /\ e.size = Len(text) /\ e.off = 0
  BY <1>1, <1>2, <1>3 DEF Prepared, HeaderDone, Announces
<1>9. r \in 1 .. Len(Header(w)) /\ e \in Entry /\ SameMember(Header(w)[r], e)
  BY <1>2, <1>5
<1> HIDE DEF r, e, w, t, n
<1>10. Intact(text, e)
  BY <1>8, LenProperties DEF Intact
<1>11. Members(w)[r] = [name |-> e.name, data |-> Region(text, e)]
  BY <1>7, <1>8, <1>9, <1>10, SameMemberData
<1>12. Region(text, e) = text
  <2>1. \A i \in 1 .. Len(text) : 0 + i = i /\ i <= Len(text)
    BY <1>8, LenProperties
  <2>2. text = [i \in 1 .. Len(text) |-> text[i]]
    BY <1>8
  <2>3. QED
    BY <1>8, <2>1, <2>2 DEF Region, ReadInto
<1>13. Len(Members(w)) - Cardinality(T) + Rank(T, k) = r
  <2>1. Len(Members(w)) = n + Cardinality(T)
    BY <1>5, <1>8, MembersLen DEF w, n
  <2>2. Rank(T, k) \in Nat
    BY <1>2, <1>5
  <2>3. QED
    BY <1>5, <2>1, <2>2 DEF r
<1>14. QED
  BY <1>2, <1>8, <1>11, <1>12, <1>13 DEF w

LEMMA SourcedAppended ==
    ASSUME TypeInv, Formed, DraftInv, ListInv, AnnouncedInv, SourcedInv, FilesFit, SourcesGood
    PROVE  AppendedExact
<1> SUFFICES ASSUME NEW p \in Procs, pc[p] \in {"unlink", "rename"}, Op(p) = "input",
                    NEW k \in Taken(p)
             PROVE  Members(WorkFile(p))[Len(Members(WorkFile(p))) - Cardinality(Taken(p))
                                           + Rank(Taken(p), k)] =
                       [name |-> Base[Args(p)[k]], data |-> disk[Args(p)[k]].data]
  BY DEF AppendedExact
<1>1. DraftOf(p) /\ ListOf(p) /\ AnnouncedOf(p) /\ SourcedOf(p)
  BY DEF DraftInv, ListInv, AnnouncedInv, SourcedInv
<1>2. loc[p].afd.ino \in Inodes /\ loc[p].tfd.ino \in Inodes
  BY <1>1, PublishedWork
<1>3. Fits(ArchFile(p)) /\ Fits(WorkFile(p))
  BY <1>2 DEF FilesFit, ArchFile, WorkFile
<1>4. AllReadable(Args(p), disk) /\ Exact(ArchFile(p))
  BY DEF SourcesGood
<1>5. QED
  BY <1>1, <1>3, <1>4, AppendedHere

\* What AppendedExact says holds of the runs of one writer whose arguments no
\* other program touches while it packs them, whenever what it reads is sound:
\* no -r went on without its work file, the arguments are readable and no
\* fifo or device is among them, the archive ends where its last member does
\* and no text reaches 2^64 bytes.  The last two are what -i and -r leave
\* behind; archives of any other origin need not have them.
THEOREM AddedExactly ==
    OneWriter =>
        (Spec /\ [][SourcesStay]_vars
             => [](Opened /\ FilesFit /\ SourcesGood => AppendedExact))
<1> SUFFICES ASSUME OneWriter
             PROVE  Spec /\ [][SourcesStay]_vars
                       => [](Opened /\ FilesFit /\ SourcesGood => AppendedExact)
  OBVIOUS
<1> DEFINE Inv == /\ Private /\ Parsable /\ Formed /\ DraftInv /\ ListInv
                  /\ CopiedInv /\ AnnouncedInv /\ SourcedInv
<1>1. Init => Inv
  BY InitPrivate, InitFormed, InitDraftInv, InitListInv, InitCopiedInv, InitSources
  DEF Init, Parsable
<1>2. TypeInv /\ Inv /\ [Running]_vars /\ [SourcesStay]_vars => Inv'
  <2> SUFFICES ASSUME TypeInv, Inv, [Running]_vars, [SourcesStay]_vars PROVE Inv'
    OBVIOUS
  <2>1. SourcesStay
    BY DEF SourcesStay, vars
  <2>2. AnnouncedInv' /\ SourcedInv'
    BY <2>1, NextSources
  <2>3. QED
    BY <2>2, NextPrivate, NextWellFormed, NextFormed, NextDraftInv, NextListInv, NextCopiedInv
<1>3. TypeInv /\ Inv => (FilesFit /\ SourcesGood => AppendedExact)
  BY SourcedAppended
<1> HIDE DEF Inv
<1>4. TypeInv /\ (Opened => Inv) /\ [Next]_vars /\ [SourcesStay]_vars => (Opened => Inv)'
  BY <1>2, StillOpened
<1>5. QED
  BY TypeInvariance, <1>1, <1>3, <1>4, PTL DEF Spec

-----------------------------------------------------------------------------
(* Executions nobody disturbs: no writer is killed or fails to open a file, *)
(* no argument of -i is missing, special or unreadable, and no removal     *)
(* takes the last member.  Then no work file is left behind, and every     *)
(* archive ends where its last member does.                                *)

SourcesReadable ==
    \A p \in Procs : Op(p) = "input" =>
        \A k \in DOMAIN Args(p) : Readable(Args(p)[k]) \/ disk[Args(p)[k]].kind = "directory"

\* What holds of a process at label l with locals m: errno is not set, only
\* -i and -r have a work file, and nothing lies in it behind what they wrote.
Tidy(l, m, files) ==
    /\ ~m.err
    /\ l = "openWork" => m.cmd.op \in {"input", "remove"}
    /\ m.cmd.op = "input" => l \notin {"filter", "member", "copyMember"}
    /\ l \in {"idle", "openWork"} \/ (l = "openArchive" /\ m.cmd.op # "input") => m.tfd.ino = NoIno
    /\ m.tfd.ino # NoIno =>
          m.cmd.op \in {"input", "remove"} /\ Len(files[m.tfd.ino]) = m.tfd.pos

TidyOf(p) == Tidy(pc[p], loc[p], ino)

\* The step of p keeps its work file, or closes an empty one.
Closes(p) ==
    loc'[p].tfd.ino = loc[p].tfd.ino
    \/ loc[p].tfd.ino = NoIno \/ (UNCHANGED <<dir, ino>> /\ loc[p].tfd.pos = 0)

LEMMA GotoTidy ==
    ASSUME TypeInv, NEW p \in Procs, NEW l, NEW m, Goto(p, l, m), Tidy(l, m, ino')
    PROVE  TidyOf(p)'
<1>1. pc'[p] = l /\ loc'[p] = m
  BY DEF TypeInv, TypeOK, Goto
<1>2. QED
  BY <1>1 DEF TidyOf

LEMMA IdleTidy == \A files : Tidy("idle", Idle, files)
  BY IdleFacts DEF Tidy, Idle

\* Steps that write nothing.
LEMMA KeepTidy ==
    ASSUME TypeInv, NEW p \in Procs, TidyOf(p), NEW l, l \notin {"idle", "openWork", "openArchive"}, NEW m,
           Goto(p, l, m), m.cmd = loc[p].cmd, m.tfd = loc[p].tfd, ~m.err, ino' = ino,
           Op(p) = "input" => l \notin {"filter", "member", "copyMember"}
    PROVE  TidyOf(p)' /\ Closes(p)
<1>1. Tidy(l, m, ino')
  BY DEF TidyOf, Tidy, Op
<1>2. loc'[p] = m
  BY DEF TypeInv, TypeOK, Goto
<1>3. QED
  BY <1>1, <1>2, GotoTidy DEF Closes

\* Steps that write on at the end of the work file.
LEMMA WriteTidy ==
    ASSUME TypeInv, NEW p \in Procs, TidyOf(p), loc[p].tfd.ino \in Inodes,
           NEW b \in Seq(Cell), WriteWork(p, b),
           NEW l, l \notin {"idle", "openWork", "openArchive"}, NEW m, Goto(p, l, m), m.cmd = loc[p].cmd,
           m.tfd.ino = loc[p].tfd.ino, m.tfd.pos = loc[p].tfd.pos + Len(b), m.err = loc[p].err,
           Op(p) = "input" => l \notin {"filter", "member", "copyMember"}
    PROVE  TidyOf(p)' /\ Closes(p)
<1> DEFINE w == WorkFile(p)
           t == loc[p].tfd.pos
<1>1. /\ w \in Seq(Cell) /\ t \in Nat /\ Len(b) \in Nat /\ NoIno \notin Inodes
      /\ ino'[loc[p].tfd.ino] = WriteAt(w, t, b)
  <2>1. loc[p] \in Local /\ FilesOK
    BY LocalFacts
  <2>2. QED
    BY <2>1, LenProperties, ArchiverAssumption DEF Local, Fd, FilesOK, WriteWork, WorkFile
<1>2. /\ ~loc[p].err /\ loc[p].cmd.op \in {"input", "remove"} /\ Len(w) = t
  BY <1>1 DEF TidyOf, Tidy, WorkFile
<1>3. Len(WriteAt(w, t, b)) = t + Len(b)
  <2>1. Len(WriteAt(w, t, b)) = IF t + Len(b) > Len(w) THEN t + Len(b) ELSE Len(w)
    BY <1>1, WriteAtFacts
  <2> HIDE DEF t, w
  <2>2. QED
    BY <1>1, <1>2, <2>1
<1>4. Tidy(l, m, ino')
  BY <1>1, <1>2, <1>3, Zenon DEF Tidy, Op
<1>5. loc'[p] = m
  BY DEF TypeInv, TypeOK, Goto
<1>6. QED
  BY <1>4, <1>5, GotoTidy DEF Closes

LEMMA ExitTidy ==
    ASSUME TypeInv, NEW p \in Procs, Exit(p), UNCHANGED <<dir, ino>>,
           loc[p].tfd.ino # NoIno => loc[p].tfd.pos = 0
    PROVE  TidyOf(p)' /\ Closes(p)
  BY IdleTidy, GotoTidy DEF Exit, Closes

LEMMA StartTidy == ASSUME TypeInv, NEW p \in Procs, Start(p) PROVE TidyOf(p)'
<1>1. PICK c \in Commands :
        /\ pc' = [pc EXCEPT ![p] = IF c.op = "input" THEN "openWork" ELSE "openArchive"]
        /\ loc' = [loc EXCEPT ![p] = [Idle EXCEPT !.cmd = c]]
  BY DEF Start
<1>2. /\ pc'[p] = IF c.op = "input" THEN "openWork" ELSE "openArchive"
      /\ loc'[p] = [Idle EXCEPT !.cmd = c]
  BY <1>1 DEF TypeInv, TypeOK
<1>3. loc'[p].cmd = c /\ loc'[p].tfd.ino = NoIno /\ loc'[p].err = FALSE
  BY <1>2 DEF Idle, NoFd
<1>4. QED
  BY <1>2, <1>3 DEF TidyOf, Tidy

LEMMA OpenWorkTidy ==
    ASSUME TypeInv, OneWriter, Private, NEW p \in Procs, OpenWork(p), TidyOf(p),
           (\A q \in Procs : loc[q].tfd.ino = NoIno) /\ dir[Temp] # NoIno => ino[dir[Temp]] = <<>>
    PROVE  TidyOf(p)'
<1>1. /\ pc[p] = "openWork" /\ p \in Writers /\ loc[p] \in Local
      /\ dir \in [FileNames -> Inodes \cup {NoIno}] /\ ino \in [Inodes -> Seq(Cell)]
      /\ Temp \in FileNames
  BY LocalFacts DEF OpenWork, Reached, WritersOnly, WriterLabels, FilesOK, FileNames
<1>2. PICK i \in Inodes :
        /\ OpenCreate(Temp, i)
        /\ Goto(p, IF Op(p) = "input" THEN "openArchive" ELSE "readHeader",
                [loc[p] EXCEPT !.tfd = [ino |-> i, pos |-> 0]])
  BY DEF OpenWork, WorkName
<1> DEFINE m == [loc[p] EXCEPT !.tfd = [ino |-> i, pos |-> 0]]
           l == IF Op(p) = "input" THEN "openArchive" ELSE "readHeader"
<1>3. m.tfd.ino = i /\ m.tfd.pos = 0 /\ m.cmd = loc[p].cmd /\ m.err = loc[p].err
  BY <1>1 DEF Local
<1>4. /\ ~loc[p].err /\ loc[p].cmd.op \in {"input", "remove"} /\ loc[p].tfd.ino = NoIno
  BY <1>1 DEF TidyOf, Tidy
<1>5. \A q \in Procs : loc[q].tfd.ino = NoIno
  BY <1>1, <1>4, OnlyWriter
<1>6. ino'[i] = <<>>
  <2>1. CASE i = dir[Temp] /\ ino' = ino
    BY <1>5, <2>1, ArchiverAssumption
  <2>2. CASE ino' = [ino EXCEPT ![i] = <<>>]
    BY <1>1, <2>2
  <2>3. QED
    BY <1>1, <1>2, <2>1, <2>2, OpenCreateFacts
<1>7. Len(ino'[i]) = 0
  BY <1>6
<1>8. l \in {"openArchive", "readHeader"} /\ (l = "openArchive" => m.cmd.op = "input")
  BY <1>3 DEF Op
<1> HIDE DEF m, l
<1>9. Tidy(l, m, ino')
  BY <1>3, <1>4, <1>7, <1>8 DEF Tidy
<1>10. QED
  BY <1>2, <1>9, GotoTidy DEF m, l

LEMMA OpenArchiveTidy ==
    ASSUME TypeInv, NEW p \in Procs, OpenArchive(p), TidyOf(p)
    PROVE  TidyOf(p)' /\ loc'[p].tfd.ino = loc[p].tfd.ino
<1>1. /\ pc[p] = "openArchive" /\ loc[p] \in Local /\ Arch(p) \in FileNames
      /\ dir \in [FileNames -> Inodes \cup {NoIno}] /\ ino \in [Inodes -> Seq(Cell)]
  BY LocalFacts DEF OpenArchive, FilesOK, FileNames
<1>2. CASE Op(p) # "input" /\ Exit(p)
  <2>1. loc[p].tfd.ino = NoIno
    BY <1>1, <1>2 DEF TidyOf, Tidy, Op
  <2>2. loc'[p] = Idle
    BY <1>2 DEF TypeInv, TypeOK, Exit, Goto
  <2>3. QED
    BY <1>2, <2>1, <2>2, IdleTidy, IdleFacts, GotoTidy DEF Exit
<1>3. ASSUME NEW i \in Inodes, OpenCreate(Arch(p), i),
             Goto(p, IF Op(p) = "remove" THEN "openWork" ELSE "readHeader",
                  [loc[p] EXCEPT !.afd = [ino |-> i, pos |-> 0]])
      PROVE  TidyOf(p)' /\ loc'[p].tfd.ino = loc[p].tfd.ino
  <2> DEFINE m == [loc[p] EXCEPT !.afd = [ino |-> i, pos |-> 0]]
             l == IF Op(p) = "remove" THEN "openWork" ELSE "readHeader"
  <2>1. m.tfd = loc[p].tfd /\ m.cmd = loc[p].cmd /\ m.err = loc[p].err
    BY <1>1 DEF Local
  <2>2. loc[p].tfd.ino \in Inodes => ino'[loc[p].tfd.ino] = ino[loc[p].tfd.ino]
    BY <1>1, <1>3, OpenCreateFacts, OpenInodesFacts
  <2>3. loc[p].tfd.ino \in Inodes \cup {NoIno}
    BY <1>1 DEF Local, Fd
  <2>4. l \in {"openWork", "readHeader"} /\ (l = "openWork" => m.cmd.op = "remove")
    BY <2>1 DEF Op
  <2>5. l = "openWork" => loc[p].tfd.ino = NoIno
    BY <1>1 DEF TidyOf, Tidy, Op
  <2>6. loc'[p] = m
    BY <1>3 DEF TypeInv, TypeOK, Goto
  <2> HIDE DEF m, l
  <2>7. Tidy(l, m, ino')
    <3>1. /\ ~loc[p].err
          /\ loc[p].tfd.ino # NoIno =>
               loc[p].cmd.op \in {"input", "remove"} /\ Len(ino[loc[p].tfd.ino]) = loc[p].tfd.pos
      BY DEF TidyOf, Tidy
    <3>2. loc[p].tfd.ino # NoIno => ino'[loc[p].tfd.ino] = ino[loc[p].tfd.ino]
      BY <2>2, <2>3
    <3>3. QED
      BY <2>1, <2>4, <2>5, <3>1, <3>2 DEF Tidy
  <2>8. QED
    BY <1>3, <2>1, <2>6, <2>7, GotoTidy DEF m, l
<1>4. QED
  BY <1>2, <1>3 DEF OpenArchive

LEMMA ReadHeaderTidy ==
    ASSUME TypeInv, NEW p \in Procs, DraftOf(p), TidyOf(p), ReadHeader(p)
    PROVE  TidyOf(p)' /\ Closes(p)
<1> DEFINE me == loc[p]
           c == ArchFile(p)
           m1 == [me EXCEPT !.hdr = Append(@, c[me.afd.pos + 1]), !.afd.pos = @ + 1]
           m2 == [me EXCEPT !.afd.pos = 0, !.k = 1]
<1>1. /\ pc[p] = "readHeader" /\ me \in Local /\ dir' = dir /\ ino' = ino
      /\ Op(p) \in {"input", "remove", "extract", "stat"} /\ ~me.err
  BY LocalFacts DEF ReadHeader, TidyOf, Tidy
<1>2. /\ m1.cmd = me.cmd /\ m1.tfd = me.tfd /\ m1.err = me.err
      /\ m2.cmd = me.cmd /\ m2.tfd = me.tfd /\ m2.err = me.err
  BY <1>1 DEF Local, Fd
<1>3. Goto(p, "readHeader", m1) \/ Goto(p, "garbled", me) \/ AfterHeader(p, m2)
  BY DEF ReadHeader
<1> HIDE DEF m1, m2
<1>4. Goto(p, "readHeader", m1) \/ Goto(p, "garbled", me) \/ Exit(p)
      \/ Goto(p, "stat", m2)
      \/ (Op(p) # "input" /\ (Goto(p, "filter", m2) \/ Goto(p, "member", m2)))
  BY <1>1, <1>3 DEF AfterHeader
<1>5. me.tfd.pos = 0
  BY <1>1 DEF DraftOf, Draft, EarlyLabels
<1>6. QED
  BY <1>1, <1>2, <1>4, <1>5, KeepTidy, ExitTidy

LEMMA ReadableArguments ==
    ASSUME TypeInv, NEW p \in Procs, Op(p) = "input", SourcesReadable
    PROVE  AllReadable(Args(p), disk) /\ \A k \in Regulars(Args(p), disk) : Readable(Args(p)[k])
<1>1. \A k \in Regulars(Args(p), disk) : Readable(Args(p)[k])
  BY DEF SourcesReadable, Regulars
<1>2. \A k \in DOMAIN Args(p) : disk[Args(p)[k]].kind # "special"
  BY DEF SourcesReadable, Readable, Regular
<1>3. QED
  BY <1>1, <1>2 DEF AllReadable, Readable

LEMMA StatTidy ==
    ASSUME TypeInv, NEW p \in Procs, DraftOf(p), AnnouncedOf(p), TidyOf(p), SourcesReadable,
           StatFile(p) \/ MeasureFile(p) \/ FilterHeader(p)
    PROVE  TidyOf(p)' /\ Closes(p)
<1> DEFINE me == loc[p]
           f == Args(p)[me.k]
<1>1. /\ me \in Local /\ dir' = dir /\ ino' = ino /\ ~me.err
      /\ Args(p) \in Seq(Paths) /\ me.k \in Nat /\ Len(Args(p)) \in Nat
  <2>1. pc[p] # "idle"
    BY DEF StatFile, MeasureFile, FilterHeader
  <2>2. me \in Local /\ Args(p) \in Seq(Paths)
    BY <2>1, LocalFacts
  <2>3. QED
    BY <2>2 DEF Local, StatFile, MeasureFile, FilterHeader, TidyOf, Tidy
<1>2. CASE StatFile(p)
  <2> DEFINE next == [me EXCEPT !.k = @ + 1, !.err = @ \/ disk[f].kind = "missing"]
  <2>1. pc[p] = "stat" /\ Op(p) = "input" /\ me.tfd.pos = 0 /\ me.k # 0
    BY <1>2, LocalFacts
    DEF StatFile, DraftOf, Draft, InputLabels, EarlyLabels, Op, Reached, InRange, LoopLabels
  <2>2. ~(me.k > Len(Args(p))) => disk[f].kind # "missing"
    <3> SUFFICES ASSUME ~(me.k > Len(Args(p))) PROVE disk[f].kind # "missing"
      OBVIOUS
    <3>1. me.k \in DOMAIN Args(p)
      BY <1>1, <2>1
    <3>2. QED
      BY <2>1, <3>1 DEF SourcesReadable, Readable, Regular
  <2>3. /\ next.cmd = me.cmd /\ next.tfd = me.tfd
        /\ (disk[f].kind # "missing" => ~next.err)
        /\ [me EXCEPT !.k = 1].cmd = me.cmd /\ [me EXCEPT !.k = 1].tfd = me.tfd
        /\ ~[me EXCEPT !.k = 1].err
    BY <1>1 DEF Local
  <2>4. \/ Exit(p) \/ Goto(p, "writeHeader", [me EXCEPT !.k = 1]) \/ Goto(p, "measure", me)
        \/ ~(me.k > Len(Args(p))) /\ Goto(p, "stat", next)
    BY <1>2 DEF StatFile
  <2> HIDE DEF next
  <2>5. QED
    BY <1>1, <2>1, <2>2, <2>3, <2>4, KeepTidy, ExitTidy
<1>3. CASE MeasureFile(p)
  <2>1. pc[p] = "measure" /\ Op(p) = "input" /\ me.k # 0 /\ me.k <= Len(Args(p))
    BY <1>3, LocalFacts, Zenon
    DEF MeasureFile, DraftOf, Draft, InputLabels, Op, Args, Reached, InRange, LoopLabels
  <2>2. PICK fi : Goto(p, "stat", [me EXCEPT !.hdr = Append(@, fi), !.k = @ + 1,
                                             !.added = @ + 1, !.err = @ \/ ~Readable(f)])
    BY <1>3 DEF MeasureFile
  <2> DEFINE next == [me EXCEPT !.hdr = Append(@, fi), !.k = @ + 1,
                                !.added = @ + 1, !.err = @ \/ ~Readable(f)]
  <2>3. next.cmd = me.cmd /\ next.tfd = me.tfd /\ (Readable(f) => ~next.err)
    BY <1>1 DEF Local
  <2>4. Readable(f)
    <3>1. me.k \in Regulars(Args(p), disk)
      BY <2>1, ReadableArguments DEF AnnouncedOf, Announced, Op, Args
    <3>2. QED
      BY <2>1, <3>1, ReadableArguments
  <2>5. Goto(p, "stat", next)
    BY <2>2
  <2> HIDE DEF next
  <2>6. QED
    BY <1>1, <2>3, <2>4, <2>5, KeepTidy
<1>4. CASE FilterHeader(p)
  <2>1. \A h : \A m \in {[me EXCEPT !.hdr = h], [me EXCEPT !.k = 1], [me EXCEPT !.k = @ + 1]} :
           m.cmd = me.cmd /\ m.tfd = me.tfd /\ ~m.err
    BY <1>1 DEF Local
  <2>2. \E h : \E m \in {[me EXCEPT !.hdr = h], [me EXCEPT !.k = 1], [me EXCEPT !.k = @ + 1]} :
           \E l \in {"writeHeader", "member", "filter"} : Goto(p, l, m)
    BY <1>4 DEF FilterHeader
  <2>3. Op(p) # "input"
    BY <1>4 DEF FilterHeader, TidyOf, Tidy, Op
  <2>4. QED
    BY <1>1, <2>1, <2>2, <2>3, KeepTidy
<1>5. QED
  BY <1>2, <1>3, <1>4

LEMMA WriteHeaderTidy ==
    ASSUME TypeInv, NEW p \in Procs, DraftOf(p), TidyOf(p), WriteHeader(p)
    PROVE  TidyOf(p)' /\ Closes(p)
<1> DEFINE me == loc[p]
           n == Len(me.hdr)
           e == me.hdr[me.k]
           out == [e EXCEPT !.off = EntryOffset(n, me.raw)]
           m1 == [me EXCEPT !.k = @ + 1, !.tfd.pos = @ + 1, !.raw = NextRaw(@, e.size)]
           m2 == [me EXCEPT !.k = 1, !.raw = 0, !.tfd.pos = @ + 1]
<1>1. /\ pc[p] = "writeHeader" /\ me \in Local /\ me.tfd.ino \in Inodes
      /\ me.k \in Nat /\ me.k # 0 /\ me.hdr \in Seq(Entry) /\ me.raw \in UInt
  BY LocalFacts DEF WriteHeader, DraftOf, Draft, HasWork, Local, Reached, InRange, LoopLabels
<1>2. /\ m1.cmd = me.cmd /\ m1.tfd.ino = me.tfd.ino /\ m1.tfd.pos = me.tfd.pos + 1
      /\ m1.err = me.err
      /\ m2.cmd = me.cmd /\ m2.tfd.ino = me.tfd.ino /\ m2.tfd.pos = me.tfd.pos + 1
      /\ m2.err = me.err
  BY <1>1 DEF Local, Fd
<1>3. \/ me.k <= n /\ WriteWork(p, <<out>>) /\ Goto(p, "writeHeader", m1)
      \/ /\ WriteWork(p, <<End>>)
         /\ Goto(p, "locate", m2) \/ (Op(p) # "input" /\ Goto(p, "member", m2))
  BY DEF WriteHeader
<1>4. me.k <= n => out \in Cell
  <2> SUFFICES ASSUME me.k <= n PROVE out \in Cell
    OBVIOUS
  <2>1. n \in Nat
    BY <1>1, LenProperties
  <2>2. me.k \in 1 .. n
    BY <1>1, <2>1
  <2>3. e \in Entry
    BY <1>1, <2>2, ElementOfSeq
  <2>4. EntryOffset(n, me.raw) \in UInt
    BY <1>1, <2>1, OffsetIsUInt DEF Entry
  <2> HIDE DEF n
  <2>5. [e EXCEPT !.off = EntryOffset(n, me.raw)] \in Entry
    BY <2>3, <2>4 DEF Entry
  <2>6. QED
    BY <2>5, CellFacts
<1> HIDE DEF m1, m2, out, n
<1>5. CASE me.k <= n /\ WriteWork(p, <<out>>) /\ Goto(p, "writeHeader", m1)
  <2>1. <<out>> \in Seq(Cell) /\ Len(<<out>>) = 1
    BY <1>4, <1>5
  <2>2. QED
    BY <1>1, <1>2, <1>5, <2>1, WriteTidy
<1>6. CASE /\ WriteWork(p, <<End>>)
           /\ Goto(p, "locate", m2) \/ (Op(p) # "input" /\ Goto(p, "member", m2))
  <2>1. <<End>> \in Seq(Cell) /\ Len(<<End>>) = 1
    BY CellFacts
  <2>2. QED
    BY <1>1, <1>2, <1>6, <2>1, WriteTidy
<1>7. QED
  BY <1>3, <1>5, <1>6

LEMMA InsertTidy ==
    ASSUME TypeInv, NEW p \in Procs, DraftOf(p), TidyOf(p),
           LocateData(p) \/ CopyOld(p) \/ OpenSource(p) \/ CopySource(p)
    PROVE  TidyOf(p)' /\ Closes(p)
<1> DEFINE me == loc[p]
<1>1. /\ me \in Local /\ me.tfd.ino \in Inodes /\ ArchFile(p) \in Seq(Cell) /\ me.afd.pos \in Nat
      /\ me.k \in Nat \ {0} /\ Args(p) \in Seq(Paths) /\ me.pos \in Nat /\ ~me.err
      /\ pc[p] \in {"locate", "copyOld", "openSource", "copySource"}
  <2>1. pc[p] \in {"locate", "copyOld", "openSource", "copySource"}
    BY DEF LocateData, CopyOld, OpenSource, CopySource
  <2>2. me \in Local /\ ArchFile(p) \in Seq(Cell) /\ me.afd.pos \in Nat /\ me.k \in Nat \ {0}
        /\ Args(p) \in Seq(Paths)
    BY <2>1, InsertFacts
  <2>3. QED
    BY <2>1, <2>2 DEF DraftOf, Draft, HasWork, Local, TidyOf, Tidy
<1>2. CASE LocateData(p)
  <2>1. \A pos : [me EXCEPT !.afd.pos = pos].cmd = me.cmd /\ [me EXCEPT !.afd.pos = pos].tfd = me.tfd
                 /\ [me EXCEPT !.afd.pos = pos].err = me.err
    BY <1>1 DEF Local, Fd
  <2>2. dir' = dir /\ ino' = ino /\ (Goto(p, "copyOld", me)
                                     \/ \E pos : Goto(p, "copyOld", [me EXCEPT !.afd.pos = pos]))
    BY <1>1, <1>2 DEF LocateData
  <2>3. CASE Goto(p, "copyOld", me)
    BY <1>1, <2>2, <2>3, KeepTidy
  <2>4. ASSUME NEW pos, Goto(p, "copyOld", [me EXCEPT !.afd.pos = pos])
        PROVE  TidyOf(p)' /\ Closes(p)
    <3> DEFINE m == [me EXCEPT !.afd.pos = pos]
    <3>1. m.cmd = me.cmd /\ m.tfd = me.tfd /\ m.err = me.err /\ Goto(p, "copyOld", m)
      BY <2>1, <2>4
    <3> HIDE DEF m
    <3>2. QED
      BY <1>1, <2>2, <3>1, KeepTidy
  <2>5. QED
    BY <2>2, <2>3, <2>4
<1>3. CASE CopyOld(p)
  <2> DEFINE n == ReadCount(ArchFile(p), me.afd.pos, Buffer)
             m == [me EXCEPT !.afd.pos = @ + n, !.tfd.pos = @ + n]
             b == ReadInto(ArchFile(p), me.afd.pos, n)
  <2>1. \/ Goto(p, "openSource", me) /\ ino' = ino
        \/ WriteWork(p, b) /\ Goto(p, "copyOld", m)
    BY <1>3 DEF CopyOld, fsVars
  <2>2. n \in Nat
    BY <1>1, ReadCountIsNat, FormatAssumption
  <2>3. b \in Seq(Cell) /\ Len(b) = n
    BY <1>1, <2>2, ReadIntoFacts
  <2> HIDE DEF n
  <2>4. m.cmd = me.cmd /\ m.tfd.ino = me.tfd.ino /\ m.tfd.pos = me.tfd.pos + n /\ m.err = me.err
    BY <1>1 DEF Local, Fd
  <2> HIDE DEF m, b
  <2>5. QED
    BY <1>1, <2>1, <2>3, <2>4, KeepTidy, WriteTidy
<1>4. CASE OpenSource(p)
  <2>1. \A m \in {[me EXCEPT !.pos = 0], [me EXCEPT !.k = @ + 1], me} :
           m.cmd = me.cmd /\ m.tfd = me.tfd /\ ~m.err
    BY <1>1 DEF Local
  <2>2. /\ ino' = ino
        /\ \E m \in {[me EXCEPT !.pos = 0], [me EXCEPT !.k = @ + 1], me} :
              \E l \in {"unlink", "copySource", "openSource"} : Goto(p, l, m)
    BY <1>4 DEF OpenSource
  <2>3. QED
    BY <2>1, <2>2, KeepTidy
<1>5. CASE CopySource(p)
  <2> DEFINE data == disk[Args(p)[me.k]].data
             n == ReadCount(data, me.pos, Buffer)
             m == [me EXCEPT !.pos = @ + n, !.tfd.pos = @ + n]
             b == ReadInto(data, me.pos, n)
             next == [me EXCEPT !.k = @ + 1]
  <2>1. \/ Goto(p, "openSource", next) /\ ino' = ino
        \/ WriteWork(p, b) /\ Goto(p, "copySource", m)
    BY <1>5 DEF CopySource, fsVars
  <2>2. data \in Seq(Cell)
    <3>1. pc[p] = "copySource" /\ me.k <= Len(Args(p))
      BY <1>5, LocalFacts, Zenon DEF CopySource, Reached, InRange, Args
    <3>2. me.k \in 1 .. Len(Args(p))
      BY <1>1, <3>1
    <3>3. Args(p)[me.k] \in Paths
      BY <1>1, <3>2, ElementOfSeq
    <3>4. QED
      BY <3>3, LocalFacts DEF FilesOK, FileState
  <2>3. n \in Nat
    BY <1>1, <2>2, ReadCountIsNat, FormatAssumption
  <2>4. b \in Seq(Cell) /\ Len(b) = n
    BY <1>1, <2>2, <2>3, ReadIntoFacts
  <2> HIDE DEF n
  <2>5. /\ m.cmd = me.cmd /\ m.tfd.ino = me.tfd.ino /\ m.tfd.pos = me.tfd.pos + n /\ m.err = me.err
        /\ next.cmd = me.cmd /\ next.tfd = me.tfd /\ next.err = me.err
    BY <1>1 DEF Local, Fd
  <2> HIDE DEF m, b, next
  <2>6. QED
    BY <1>1, <2>1, <2>4, <2>5, KeepTidy, WriteTidy
<1>6. QED
  BY <1>2, <1>3, <1>4, <1>5

LEMMA MembersTidy ==
    ASSUME TypeInv, NEW p \in Procs, DraftOf(p), TidyOf(p), NextMember(p) \/ CopyMember(p)
    PROVE  TidyOf(p)' /\ Closes(p)
<1> DEFINE me == loc[p]
<1>1. /\ me \in Local /\ ~me.err /\ Op(p) \in {"input", "remove", "extract", "stat"}
      /\ pc[p] \in {"member", "copyMember"}
      /\ Op(p) \notin {"input", "remove"} => me.tfd.ino = NoIno
      /\ Op(p) = "remove" => me.tfd.ino \in Inodes
      /\ Op(p) # "input"
  <2>1. pc[p] \in {"member", "copyMember"}
    BY Zenon DEF NextMember, CopyMember
  <2>2. QED
    BY <2>1, LocalFacts DEF TidyOf, Tidy, Op, DraftOf, Draft, HasWork
<1>2. CASE NextMember(p)
  <2>1. ASSUME NEW x, NEW z, Goto(p, "copyMember", [me EXCEPT !.left = x, !.pos = 0, !.afd.pos = z]),
               ino' = ino
        PROVE  TidyOf(p)' /\ Closes(p)
    <3> DEFINE m == [me EXCEPT !.left = x, !.pos = 0, !.afd.pos = z]
    <3>1. m.cmd = me.cmd /\ m.tfd = me.tfd /\ m.err = me.err
      BY <1>1 DEF Local, Fd
    <3>2. Goto(p, "copyMember", m)
      BY <2>1
    <3> HIDE DEF m
    <3>3. QED
      BY <1>1, <2>1, <3>1, <3>2, KeepTidy
  <2>2. [me EXCEPT !.k = @ + 1].cmd = me.cmd /\ [me EXCEPT !.k = @ + 1].tfd = me.tfd
        /\ [me EXCEPT !.k = @ + 1].err = me.err
    BY <1>1 DEF Local
  <2>3. /\ ino' = ino /\ dir' = dir
        /\ \/ Exit(p) /\ Op(p) # "remove"
           \/ Goto(p, "unlink", me) \/ Goto(p, "member", [me EXCEPT !.k = @ + 1])
           \/ \E x, z : Goto(p, "copyMember", [me EXCEPT !.left = x, !.pos = 0, !.afd.pos = z])
    BY <1>2, Zenon DEF NextMember, fsVars
  <2>4. CASE Exit(p) /\ Op(p) # "remove"
    BY <1>1, <2>3, <2>4, ExitTidy
  <2>5. QED
    BY <1>1, <2>1, <2>2, <2>3, <2>4, KeepTidy
<1>3. CASE CopyMember(p)
  <2> DEFINE n == ChunkSize(me.left)
             chunk == ReadInto(ArchFile(p), me.afd.pos, n)
             read == ReadCount(ArchFile(p), me.afd.pos, n)
             rest == [me EXCEPT !.left = @ - n, !.afd.pos = @ + read]
             m1 == [me EXCEPT !.k = @ + 1]
             m2 == [rest EXCEPT !.tfd.pos = @ + n]
             m3 == [rest EXCEPT !.pos = @ + n]
  <2>1. \/ (Goto(p, "member", m1) \/ Goto(p, "copyMember", m3)) /\ ino' = ino
        \/ Op(p) = "remove" /\ WriteWork(p, chunk) /\ Goto(p, "copyMember", m2)
    BY <1>3, Zenon DEF CopyMember, fsVars
  <2>2. chunk \in Seq(Cell) /\ Len(chunk) = n
    <3>1. me.left \in UInt /\ me.afd.pos \in Nat /\ ArchFile(p) \in Seq(Cell)
      <4>1. pc[p] = "copyMember"
        BY <1>3, Zenon DEF CopyMember
      <4>2. me.afd.ino \in Inodes
        BY <4>1, LocalFacts DEF Reached, OpenedArchive
      <4>3. QED
        BY <1>1, <4>2, LocalFacts DEF Local, Fd
    <3>2. n \in Nat
      BY <3>1, ChunkIsNat
    <3> HIDE DEF n
    <3>3. QED
      BY <3>1, <3>2, ReadIntoFacts
  <2> HIDE DEF n, chunk, read
  <2>3. /\ m1.cmd = me.cmd /\ m1.tfd = me.tfd /\ m1.err = me.err
        /\ m3.cmd = me.cmd /\ m3.tfd = me.tfd /\ m3.err = me.err
        /\ m2.cmd = me.cmd /\ m2.tfd.ino = me.tfd.ino /\ m2.tfd.pos = me.tfd.pos + n
        /\ m2.err = me.err
    BY <1>1 DEF Local, Fd
  <2> HIDE DEF m1, m2, m3
  <2>4. QED
    BY <1>1, <2>1, <2>2, <2>3, KeepTidy, WriteTidy
<1>4. QED
  BY <1>2, <1>3

LEMMA RenameTidy == ASSUME TypeInv, NEW p \in Procs, Rename(p) PROVE TidyOf(p)'
  BY IdleTidy, GotoTidy DEF Rename, Exit

LEMMA UnlinkTidy ==
    ASSUME TypeInv, NEW p \in Procs, TidyOf(p), Unlink(p)
    PROVE  TidyOf(p)' /\ Closes(p)
<1>1. ~loc[p].err
  BY DEF TidyOf, Tidy
<1>2. QED
  BY <1>1, KeepTidy DEF Unlink

\* The work file nobody has open is empty: an insertion that found nothing to
\* add, or no argument, left it.
LeftEmpty ==
    (\A q \in Procs : loc[q].tfd.ino = NoIno) /\ dir[Temp] # NoIno => ino[dir[Temp]] = <<>>

LEMMA StepTidy ==
    ASSUME TypeInv, OneWriter, Private, LeftEmpty, SourcesReadable, NEW p \in Procs,
           DraftOf(p), AnnouncedOf(p), TidyOf(p), Step(p), p \in Writers => ~Refuse(p)
    PROVE  /\ TidyOf(p)'
           /\ Closes(p) \/ OpenWork(p) \/ OpenArchive(p) \/ Rename(p)
<1>1. CASE OpenWork(p) \/ OpenArchive(p) \/ Rename(p)
  BY <1>1, OpenWorkTidy, OpenArchiveTidy, RenameTidy DEF LeftEmpty
<1>2. CASE Refuse(p)
  <2>1. loc[p].tfd.ino = NoIno /\ UNCHANGED <<dir, ino>>
    BY <1>2, RefuseFacts DEF TypeInv, Reached, WritersOnly, fsVars
  <2>2. QED
    BY <1>2, <2>1, RefuseFacts, ExitTidy
<1>3. CASE ~(OpenWork(p) \/ OpenArchive(p) \/ Rename(p) \/ Refuse(p))
  BY <1>3, ReadHeaderTidy, StatTidy, WriteHeaderTidy, InsertTidy, MembersTidy, UnlinkTidy DEF Step
<1>4. QED
  BY <1>1, <1>2, <1>3

TidyInv == \A p \in Procs : TidyOf(p)

LEMMA StepLeftEmpty ==
    ASSUME TypeInv, OneWriter, Private, LeftEmpty, NEW p \in Procs, TidyOf(p), Step(p),
           p \in Writers => ~Refuse(p),
           Closes(p) \/ OpenWork(p) \/ OpenArchive(p) \/ Rename(p)
    PROVE  LeftEmpty'
<1> SUFFICES ASSUME \A q \in Procs : loc'[q].tfd.ino = NoIno, dir'[Temp] # NoIno
             PROVE  ino'[dir'[Temp]] = <<>>
  BY DEF LeftEmpty
<1>1. /\ dir \in [FileNames -> Inodes \cup {NoIno}] /\ ino \in [Inodes -> Seq(Cell)]
      /\ Temp \in FileNames /\ NoIno \notin Inodes /\ loc[p] \in Local
      /\ \A q \in Procs : q # p => loc'[q] = loc[q]
  BY LocalFacts, StepOthers, ArchiverAssumption DEF TypeInv, TypeOK, FileNames, OthersStay
<1>2. ASSUME loc[p].tfd.ino = NoIno, dir'[Temp] = dir[Temp] PROVE ino'[dir'[Temp]] = <<>>
  <2>1. ino[dir[Temp]] = <<>> /\ dir[Temp] \in Inodes
    BY <1>1, <1>2 DEF LeftEmpty
  <2>2. ASSUME NEW b, WriteWork(p, b) PROVE ino'[dir[Temp]] = ino[dir[Temp]]
    BY <1>1, <1>2, <2>1, <2>2 DEF WriteWork
  <2>3. ASSUME NEW i \in Inodes, i \notin OpenInodes, ino' = [ino EXCEPT ![i] = <<>>]
        PROVE  ino'[dir[Temp]] = ino[dir[Temp]]
    BY <1>1, <2>1, <2>3, OpenInodesFacts
  <2>4. QED
    BY <1>2, <2>1, <2>2, <2>3, StepWrites
<1>3. CASE OpenWork(p)
  <2>1. PICK i \in Inodes :
          Goto(p, IF Op(p) = "input" THEN "openArchive" ELSE "readHeader",
               [loc[p] EXCEPT !.tfd = [ino |-> i, pos |-> 0]])
    BY <1>3 DEF OpenWork
  <2>2. loc'[p] = [loc[p] EXCEPT !.tfd = [ino |-> i, pos |-> 0]]
    BY <2>1 DEF Goto, TypeInv, TypeOK
  <2>3. loc'[p].tfd.ino = i
    BY <1>1, <2>2 DEF Local
  <2>4. QED
    BY <1>1, <2>3
<1>4. CASE OpenArchive(p)
  <2>1. loc[p].tfd.ino = NoIno
    BY <1>4, OpenArchiveTidy
  <2>2. Arch(p) \in Archives /\ Arch(p) \in FileNames
    BY <1>4, LocalFacts DEF OpenArchive, FileNames
  <2>3. dir'[Temp] = dir[Temp]
    <3>1. CASE UNCHANGED fsVars
      BY <3>1 DEF fsVars
    <3>2. ASSUME NEW i \in Inodes, OpenCreate(Arch(p), i) PROVE dir'[Temp] = dir[Temp]
      BY <1>1, <2>2, <3>2, OpenCreateFacts, ArchiverAssumption
    <3>3. QED
      BY <1>4, <3>1, <3>2 DEF OpenArchive
  <2>4. QED
    BY <1>2, <2>1, <2>3
<1>5. CASE Rename(p)
  BY <1>1, <1>5 DEF Rename
<1>6. CASE Closes(p) /\ ~(OpenWork(p) \/ OpenArchive(p) \/ Rename(p))
  <2>1. dir'[Temp] = dir[Temp]
    <3>1. CASE Unlink(p)
      <4>1. Arch(p) \in Archives
        BY <3>1, LocalFacts DEF Unlink
      <4>2. QED
        BY <1>1, <3>1, <4>1, ArchiverAssumption DEF Unlink
    <3>2. CASE ~Unlink(p) /\ Refuse(p)
      BY <3>2, RefuseFacts DEF fsVars
    <3>3. CASE ~Unlink(p) /\ ~Refuse(p)
      BY <1>6, <3>3, StepQuiet DEF Quiet
    <3>4. QED
      BY <3>1, <3>2, <3>3
  <2>2. CASE loc[p].tfd.ino # NoIno
    <3>1. ino' = ino /\ loc[p].tfd.pos = 0
      BY <1>6, <2>2 DEF Closes
    <3>2. loc[p].tfd.ino = dir[Temp]
      BY <2>2 DEF Private
    <3>3. Len(ino[dir[Temp]]) = 0 /\ dir[Temp] \in Inodes
      BY <1>1, <2>1, <2>2, <3>1, <3>2 DEF TidyOf, Tidy
    <3>4. ino[dir[Temp]] \in Seq(Cell)
      BY <1>1, <3>3
    <3>5. ino[dir[Temp]] = <<>>
      BY <3>3, <3>4, EmptySeq
    <3>6. QED
      BY <2>1, <3>1, <3>5
  <2>3. QED
    BY <1>2, <2>1, <2>2
<1>7. QED
  BY <1>3, <1>4, <1>5, <1>6

\* No argument of -i changes while it runs, no writer is killed and none of
\* its open()s fails.
Undisturbed == SourcesStay /\ \A p \in Writers : ~(Crash(p) \/ Refuse(p) \/ Blindly(p))

LEMMA NextTidy ==
    ASSUME TypeInv, OneWriter, Private, DraftInv, AnnouncedInv, TidyInv, LeftEmpty,
           SourcesReadable, Undisturbed, [Running]_vars
    PROVE  TidyInv' /\ LeftEmpty'
<1>1. ASSUME NEW p \in Procs, Step(p) PROVE TidyInv' /\ LeftEmpty'
  <2>0. p \in Writers => ~Refuse(p)
    BY DEF Undisturbed
  <2>1. TidyOf(p)' /\ (Closes(p) \/ OpenWork(p) \/ OpenArchive(p) \/ Rename(p))
    BY <1>1, <2>0, StepTidy DEF DraftInv, AnnouncedInv, TidyInv
  <2>2. ASSUME NEW q \in Procs, q # p PROVE TidyOf(q)'
    <3>1. pc'[q] = pc[q] /\ loc'[q] = loc[q] /\ TidyOf(q)
      BY <1>1, <2>2, StepOthers DEF OthersStay, TidyInv
    <3>2. loc[q].tfd.ino # NoIno => ino'[loc[q].tfd.ino] = ino[loc[q].tfd.ino]
      <4>1. loc[q].tfd.ino \in Inodes \cup {NoIno}
        BY LocalFacts DEF Local, Fd
      <4>2. QED
        BY <1>1, <2>2, <4>1, OthersKeepWork
    <3>3. Tidy(pc[q], loc[q], ino')
      BY <3>1, <3>2 DEF TidyOf, Tidy
    <3>4. QED
      BY <3>1, <3>3 DEF TidyOf
  <2>3. LeftEmpty'
    BY <1>1, <2>0, <2>1, StepLeftEmpty DEF TidyInv
  <2>4. QED
    BY <2>1, <2>2, <2>3 DEF TidyInv
<1>2. ASSUME NEW p \in Procs, Start(p) \/ Crash(p) PROVE TidyInv' /\ LeftEmpty'
  <2>1. dir' = dir /\ ino' = ino /\ \A q \in Procs : q # p => pc'[q] = pc[q] /\ loc'[q] = loc[q]
    <3>1. CASE Start(p)
      BY <3>1 DEF Start, TypeInv, TypeOK
    <3>2. CASE Crash(p)
      BY <3>2 DEF Crash, TypeInv, TypeOK
    <3>3. QED
      BY <1>2, <3>1, <3>2
  <2>2. TidyOf(p)'
    <3>1. CASE Start(p)
      BY <3>1, StartTidy
    <3>2. CASE Crash(p)
      BY <3>2, IdleTidy DEF Crash, TidyOf, TypeInv, TypeOK
    <3>3. QED
      BY <1>2, <3>1, <3>2
  <2>3. loc[p].tfd.ino = NoIno
    <3>1. CASE Start(p)
      BY <3>1 DEF Start, TidyInv, TidyOf, Tidy
    <3>2. CASE Crash(p)
      BY <3>2 DEF Undisturbed, TypeInv, Reached, WritersOnly
    <3>3. QED
      BY <1>2, <3>1, <3>2
  <2>4. TidyInv'
    BY <2>1, <2>2 DEF TidyInv, TidyOf
  <2>5. LeftEmpty'
    BY <2>1, <2>3, Zenon DEF LeftEmpty
  <2>6. QED
    BY <2>4, <2>5
<1>3. CASE UNCHANGED <<dir, ino, pc, loc>>
  BY <1>3 DEF TidyInv, TidyOf, LeftEmpty
<1>4. QED
  BY <1>1, <1>2, <1>3 DEF Running, Edit, Finished, vars

LEMMA InitTidy == Init => TidyInv /\ LeftEmpty
  BY IdleTidy DEF Init, TidyInv, TidyOf, LeftEmpty

-----------------------------------------------------------------------------
(* Every archive ends where its last member does.                          *)

\* Every number up to the size of S is the number of a place.
LEMMA RankOnto ==
    ASSUME NEW n \in Nat, NEW S, S \subseteq 1 .. n, NEW r \in 1 .. Cardinality(S)
    PROVE  \E k \in S : Rank(S, k) = r
<1> DEFINE Far == {j \in 1 .. n : r <= Rank(S, j)}
<1>1. Rank(S, 0) = 0 /\ Rank(S, n) = Cardinality(S)
  BY RankStarts
<1>2. Cardinality(S) \in Nat
  BY <1>1, FewPlaces
<1>3. n \in Far
  <2>1. n # 0
    BY <1>1, <1>2
  <2>2. QED
    BY <1>1, <1>2, <2>1
<1>4. PICK k \in Far : \A y \in Far : k <= y
  <2>1. Far \subseteq Nat /\ Far # {}
    BY <1>3
  <2> HIDE DEF Far
  <2>2. QED
    BY <2>1, LeastNatural
<1>5. k \in 1 .. n /\ r <= Rank(S, k) /\ k - 1 \in 0 .. n - 1 /\ (k - 1) + 1 = k
  BY <1>4
<1>6. ~(r <= Rank(S, k - 1))
  <2>1. CASE k = 1
    BY <1>1, <2>1
  <2>2. CASE k # 1
    BY <1>4, <1>5, <2>2
  <2>3. QED
    BY <2>1, <2>2
<1> HIDE DEF Far
<1>7. Rank(S, k) \in Nat /\ Rank(S, k - 1) \in Nat
  BY FewPlaces
<1>8. /\ k \in S => Rank(S, k) = Rank(S, k - 1) + 1
      /\ k \notin S => Rank(S, k) = Rank(S, k - 1)
  <2>1. /\ (k - 1) + 1 \in S => Rank(S, (k - 1) + 1) = Rank(S, k - 1) + 1
        /\ (k - 1) + 1 \notin S => Rank(S, (k - 1) + 1) = Rank(S, k - 1)
    BY <1>5, RankGrows
  <2>2. QED
    BY <1>5, <2>1
<1>9. k \in S
  BY <1>5, <1>6, <1>8
<1>10. QED
  BY <1>5, <1>6, <1>7, <1>8, <1>9

ExactArchives == \A a \in Archives : dir[a] # NoIno => Exact(ino[dir[a]])
ExactOpen == \A p \in Procs : loc[p].afd.ino \in Inodes => Exact(ArchFile(p))

\* No removal takes the last member of an archive.
KeepsSome ==
    \A p \in Procs : pc[p] \in {"unlink", "rename"} /\ Op(p) = "remove" => loc[p].hdr # <<>>

LEMMA ExactIntact ==
    ASSUME NEW c \in Seq(Cell), Exact(c)
    PROVE  \A i \in 1 .. Len(Header(c)) : Intact(c, Header(c)[i])
<1>1. CASE c = <<>>
  <2>1. Len(c) = 0 /\ Len(Header(c)) <= Len(c) /\ Len(Header(c)) \in Nat
    BY <1>1, HeaderFacts, LenProperties
  <2>2. QED
    BY <2>1
<1>2. CASE c # <<>>
  BY <1>2 DEF Exact
<1>3. QED
  BY <1>1, <1>2

\* A work file that -i has finished is exact.
LEMMA InputExact ==
    ASSUME TypeInv, Formed, NEW p \in Procs, DraftOf(p), ListOf(p), CopiedOf(p), AnnouncedOf(p),
           SourcedOf(p), TidyOf(p), pc[p] \in {"unlink", "rename"}, Op(p) = "input",
           AllReadable(Args(p), disk), Exact(ArchFile(p)), Fits(ArchFile(p)), Fits(WorkFile(p))
    PROVE  Exact(WorkFile(p))
<1> DEFINE c == ArchFile(p)
           w == WorkFile(p)
           h == Header(c)
           g == Header(w)
           n == Len(h)
           f == Args(p)
           hdr == loc[p].hdr
           t == loc[p].tfd.pos
<1>1. PICK T : T = Regulars(f, disk)
  OBVIOUS
<1>2. loc[p].added = Cardinality(T) /\ Cardinality(T) # 0
  BY <1>1 DEF AnnouncedOf, Announced, CopyingLabels, Op, Args
<1>11. Prepared(c, w, t, hdr, f, disk)
  BY SourceFacts
<1>3. /\ t = EndOf(w, Len(g))
      /\ SourcesHeld(w, t, n, hdr, f, disk, Len(f) + 1)
  BY DEF SourcedOf, Sourced, Sound, Op, Args
<1>4. /\ n \in Nat /\ Len(f) \in Nat /\ Cardinality(T) \in Nat /\ T \subseteq 1 .. Len(f)
      /\ Len(g) = n + Cardinality(T)
      /\ \A k \in T : /\ Rank(T, k) \in Nat /\ n + Rank(T, k) \in 1 .. n + Cardinality(T)
                      /\ hdr[n + Rank(T, k)] \in Entry
                      /\ SameMember(g[n + Rank(T, k)], hdr[n + Rank(T, k)])
  <2> HIDE DEF c, w, t, hdr, f
  <2>1. PICK m : m = Len(Header(c))
    OBVIOUS
  <2>2. /\ m \in Nat /\ Len(f) \in Nat /\ Cardinality(T) \in Nat /\ T \subseteq 1 .. Len(f)
        /\ Len(Header(w)) = m + Cardinality(T)
        /\ \A k \in T : /\ Rank(T, k) \in Nat /\ m + Rank(T, k) \in 1 .. m + Cardinality(T)
                        /\ hdr[m + Rank(T, k)] \in Entry
                        /\ SameMember(Header(w)[m + Rank(T, k)], hdr[m + Rank(T, k)])
    BY <1>1, <1>11, <2>1, PreparedPlaces, SMTT(30)
  <2>3. QED
    BY <2>1, <2>2, Zenon
<1>5. /\ c \in Seq(Cell) /\ WellFormed(c) /\ w \in Seq(Cell) /\ t \in Nat /\ HeaderDone(w, t)
      /\ Lists(w, hdr) /\ \A i \in 1 .. n : hdr[i] = h[i]
  BY <1>11 DEF Prepared
<1>6. Len(w) = t
  BY <1>5, ArchiverAssumption, PublishedWork DEF TidyOf, Tidy, WorkFile
<1>7. ASSUME NEW i \in 1 .. Len(g) PROVE g[i].off + g[i].size <= Len(w)
  <2>1. CASE i <= n
    <3>1. i \in 1 .. n /\ h # <<>> /\ c # <<>>
      <4>1. i \in 1 .. n
        BY <1>4, <2>1
      <4>2. h # <<>>
        BY <1>4, <4>1
      <4>3. Len(h) <= Len(c) /\ Len(c) \in Nat
        BY <1>5, HeaderFacts, LenProperties
      <4>4. c # <<>>
        BY <1>4, <4>1, <4>3
      <4>5. QED
        BY <4>1, <4>2, <4>4
    <3>2. /\ Len(c) + loc[p].added <= t
          /\ \A x \in n + 2 .. Len(c) : w[x + loc[p].added] = c[x]
      BY <3>1 DEF CopiedOf, Copied, CopiedOld, ArchFile, WorkFile, Op
    <3>3. /\ \A j \in 1 .. n : SameMember(g[j], h[j])
          /\ \A j \in 1 .. n : Intact(c, h[j])
      <4>1. \A j \in 1 .. n : j \in 1 .. Len(hdr)
        <5>1. Len(hdr) = n + Cardinality(T)
          BY <1>1, <1>11 DEF Prepared
        <5>2. QED
          BY <1>4, <5>1
      <4>2. QED
        BY <1>5, <3>1, <4>1 DEF Lists, Exact
    <3>4. \A j \in 1 .. n : g[j].size = h[j].size
      BY <3>3 DEF SameMember
    <3>5. loc[p].added \in Nat /\ Len(g) = n + loc[p].added
      BY <1>2, <1>4
    <3>6. Fits(c) /\ Fits(w)
      OBVIOUS
    <3> HIDE DEF c, w, t
    <3>7. Holds(w, i, t, c, h[i])
      BY <1>5, <3>1, <3>2, <3>3, <3>4, <3>5, <3>6, OldDataHeld
    <3>8. g[i].off + h[i].size <= t /\ g[i].size = h[i].size
      BY <3>1, <3>4, <3>7 DEF Holds
    <3>9. QED
      BY <1>6, <3>8
  <2>2. CASE ~(i <= n)
    <3>1. i - n \in 1 .. Cardinality(T) /\ n + (i - n) = i
      BY <1>4, <2>2
    <3>2. PICK k \in T : Rank(T, k) = i - n
      <4> PICK m \in Nat : m = Len(f)
        BY <1>4
      <4> PICK r \in 1 .. Cardinality(T) : r = i - n
        BY <3>1
      <4>1. T \subseteq 1 .. m
        BY <1>4
      <4>2. \E k \in T : Rank(T, k) = r
        BY <4>1, RankOnto
      <4>3. QED
        BY <4>2
    <3>3. k < Len(f) + 1
      BY <1>4, <3>2
    <3>4. SourceHeld(w, t, n, hdr, f, disk, k)
      BY <1>1, <1>3, <3>2, <3>3 DEF SourcesHeld
    <3>5. g[i].off + hdr[i].size <= t
      BY <1>1, <3>1, <3>2, <3>4 DEF SourceHeld, Holds
    <3>6. g[i].size = hdr[i].size
      BY <1>4, <3>1, <3>2 DEF SameMember
    <3>7. QED
      BY <1>6, <3>5, <3>6
  <2>3. QED
    BY <2>1, <2>2
<1>8. Len(g) # 0 /\ g # <<>>
  <2>1. Len(g) # 0
    BY <1>2, <1>4
  <2>2. QED
    BY <2>1
<1>9. g[Len(g)].off + g[Len(g)].size = Len(w)
  BY <1>3, <1>6, <1>8 DEF EndOf
<1>10. QED
  BY <1>7, <1>8, <1>9 DEF Exact, Intact

\* So is one that -r has finished, unless nothing is left in it.
LEMMA RemoveExact ==
    ASSUME TypeInv, Formed, NEW p \in Procs, DraftOf(p), ListOf(p), CopiedOf(p), TidyOf(p),
           pc[p] \in {"unlink", "rename"}, Op(p) = "remove", loc[p].hdr # <<>>,
           Exact(ArchFile(p)), Fits(ArchFile(p)), Fits(WorkFile(p))
    PROVE  Exact(WorkFile(p)) /\ Whole(ArchFile(p), loc[p].hdr)
<1> DEFINE c == ArchFile(p)
           w == WorkFile(p)
           h == Header(c)
           g == Header(w)
           hdr == loc[p].hdr
           d == Len(hdr)
           t == loc[p].tfd.pos
           S == Kept(h, loc[p].cmd)
<1>1. /\ c \in Seq(Cell) /\ WellFormed(c) /\ w \in Seq(Cell) /\ t \in Nat
      /\ HeaderDone(w, t) /\ Lists(w, hdr) /\ t <= Len(w) /\ d \in Nat /\ hdr \in Seq(Entry)
      /\ loc[p].tfd.ino \in Inodes
  BY PublishedWork
<1>2. h \in Seq(Entry) /\ Len(h) \in Nat /\ S \subseteq 1 .. Len(h)
  BY <1>1, HeaderFacts, LenProperties, KeptPlaces
<1>3. \A r \in 1 .. d : \E i \in S : hdr[r] = h[i]
  <2>1. Filtered(h, hdr, d + 1, S, Len(h))
    BY DEF ListOf, Listed, ArchFile, Op
  <2>2. (d + 1) - 1 = d
    BY <1>1
  <2> HIDE DEF h, hdr, d, S
  <2>3. QED
    BY <2>1, <2>2 DEF Filtered
<1>4. d # 0
  BY <1>1, EmptySeq
<1>5. Whole(c, hdr)
  <2>1. \A i \in 1 .. Len(h) : Intact(c, h[i])
    BY <1>1, ExactIntact
  <2>2. QED
    BY <1>2, <1>3, <2>1 DEF Whole
<1>6. t = EndOf(w, d) /\ \A r \in 1 .. d : Holds(w, r, t, c, hdr[r])
  BY <1>5, Zenon DEF CopiedOf, Copied, CopiedMembers, ArchFile, WorkFile, Op
<1>7. Len(w) = t
  BY <1>1, ArchiverAssumption DEF TidyOf, Tidy, WorkFile
<1>8. Len(g) = d /\ \A r \in 1 .. d : SameMember(g[r], hdr[r])
  BY <1>1 DEF Lists
<1>9. \A r \in 1 .. d : g[r].off + g[r].size <= Len(w)
  BY <1>6, <1>7, <1>8 DEF Holds, SameMember
<1>10. g[d].off + g[d].size = Len(w) /\ g # <<>>
  BY <1>4, <1>6, <1>7, <1>8 DEF EndOf
<1>11. QED
  BY <1>5, <1>8, <1>9, <1>10 DEF Exact, Intact

\* What the theorem below assumes of every state: the arguments of -i can be
\* read, no removal takes the last member, no file is too large.
Regularly == SourcesReadable /\ KeepsSome /\ FilesFit

Finishes(p) == pc[p] \in {"unlink", "rename"}

LEMMA WorkExact ==
    ASSUME TypeInv, Formed, ExactOpen, Regularly, NEW p \in Procs, DraftOf(p), ListOf(p),
           CopiedOf(p), AnnouncedOf(p), SourcedOf(p), TidyOf(p), Finishes(p)
    PROVE  Exact(WorkFile(p))
<1>1. /\ loc[p].afd.ino \in Inodes /\ loc[p].tfd.ino \in Inodes /\ Op(p) \in {"input", "remove"}
  BY PublishedWork DEF Finishes
<1>2. Fits(ArchFile(p)) /\ Fits(WorkFile(p)) /\ Exact(ArchFile(p))
  BY <1>1 DEF Regularly, FilesFit, ExactOpen, ArchFile, WorkFile
<1>3. CASE Op(p) = "input"
  <2>1. AllReadable(Args(p), disk)
    BY <1>3, ReadableArguments DEF Regularly
  <2>2. QED
    BY <1>2, <1>3, <2>1, InputExact DEF Finishes
<1>4. CASE Op(p) = "remove"
  <2>1. loc[p].hdr # <<>>
    BY <1>4 DEF Regularly, KeepsSome, Finishes
  <2>2. QED
    BY <1>2, <1>4, <2>1, RemoveExact DEF Finishes
<1>5. QED
  BY <1>1, <1>3, <1>4

\* The invariant of the proofs on archives that stay exact.
DataInv ==
    /\ Private /\ Parsable /\ Formed /\ DraftInv /\ ListInv /\ CopiedInv
    /\ AnnouncedInv /\ SourcedInv /\ TidyInv /\ LeftEmpty /\ ExactArchives /\ ExactOpen

LEMMA NextExact ==
    ASSUME TypeInv, OneWriter, DataInv, Regularly, [Running]_vars
    PROVE  ExactArchives' /\ ExactOpen'
<1>0. NoIno \notin Inodes /\ dir \in [Archives \cup {Temp} -> Inodes \cup {NoIno}] /\ Exact(<<>>)
  BY ArchiverAssumption DEF TypeInv, TypeOK, Exact
<1>1. ASSUME NEW i \in Inodes, Visible(i), Exact(ino[i]) PROVE Exact(ino'[i])
  BY <1>1, StepImmutable DEF DataInv
<1>2. ASSUME NEW a \in Archives, dir'[a] # NoIno PROVE Exact(ino'[dir'[a]])
  <2>1. CASE dir'[a] = dir[a]
    <3>1. dir[a] \in Inodes /\ Visible(dir[a]) /\ Exact(ino[dir[a]])
      BY <1>0, <1>2, <2>1 DEF Visible, DataInv, ExactArchives
    <3>2. QED
      BY <1>1, <2>1, <3>1
  <2>2. CASE ino'[dir'[a]] = <<>>
    BY <1>0, <2>2
  <2>3. CASE ino' = ino /\ Replaces(dir'[a])
    <3>1. PICK p \in Procs : pc[p] = "rename" /\ loc[p].tfd.ino = dir'[a]
      BY <2>3 DEF Replaces
    <3>2. Exact(WorkFile(p))
      BY <3>1, WorkExact
      DEF DataInv, DraftInv, ListInv, CopiedInv, AnnouncedInv, SourcedInv, TidyInv, Finishes
    <3>3. QED
      BY <2>3, <3>1, <3>2 DEF WorkFile
  <2>4. QED
    BY <1>2, <2>1, <2>2, <2>3, NewBindings DEF DataInv
<1>3. ASSUME NEW q \in Procs, loc'[q].afd.ino \in Inodes PROVE Exact(ino'[loc'[q].afd.ino])
  <2>1. CASE loc'[q].afd.ino = loc[q].afd.ino
    <3>1. Visible(loc[q].afd.ino) /\ Exact(ino[loc[q].afd.ino]) /\ loc[q].afd.ino \in Inodes
      BY <1>3, <2>1 DEF Visible, DataInv, ExactOpen, ArchFile
    <3>2. QED
      BY <1>1, <2>1, <3>1
  <2>2. CASE ino'[loc'[q].afd.ino] = <<>>
    BY <1>0, <2>2
  <2>3. CASE ino' = ino /\ dir' = dir /\ Arch(q) \in Archives /\ loc'[q].afd.ino = dir[Arch(q)]
    BY <1>0, <1>3, <2>3 DEF DataInv, ExactArchives
  <2>4. QED
    BY <1>3, <2>1, <2>2, <2>3, NewlyOpened
<1>4. QED
  BY <1>2, <1>3 DEF ExactArchives, ExactOpen, ArchFile

LEMMA NextData ==
    ASSUME TypeInv, OneWriter, DataInv, Regularly, Undisturbed, [Running]_vars
    PROVE  DataInv'
<1>1. Private' /\ Parsable' /\ Formed' /\ DraftInv' /\ ListInv' /\ CopiedInv'
  BY NextPrivate, NextWellFormed, NextFormed, NextDraftInv, NextListInv, NextCopiedInv DEF DataInv
<1>2. AnnouncedInv' /\ SourcedInv'
  BY NextSources DEF DataInv, Undisturbed
<1>3. TidyInv' /\ LeftEmpty'
  BY NextTidy DEF DataInv, Regularly
<1>4. ExactArchives' /\ ExactOpen'
  BY NextExact
<1>5. QED
  BY <1>1, <1>2, <1>3, <1>4 DEF DataInv

LEMMA InitData == Init => DataInv
<1> SUFFICES ASSUME Init PROVE DataInv
  OBVIOUS
<1>1. Parsable /\ ExactArchives /\ ExactOpen
  BY IdleFacts, ArchiverAssumption DEF Init, Parsable, ExactArchives, ExactOpen
<1>2. QED
  BY <1>1, InitPrivate, InitFormed, InitDraftInv, InitListInv, InitCopiedInv, InitSources, InitTidy
  DEF DataInv

LEMMA DataAppended ==
    ASSUME TypeInv, DataInv, Regularly
    PROVE  AppendedExact
<1>1. SourcesGood
  <2> SUFFICES ASSUME NEW p \in Procs, pc[p] \in {"unlink", "rename"}, Op(p) = "input"
               PROVE  AllReadable(Args(p), disk) /\ Exact(ArchFile(p))
    BY DEF SourcesGood
  <2>1. AllReadable(Args(p), disk)
    BY ReadableArguments DEF Regularly
  <2>2. loc[p].afd.ino \in Inodes
    BY PublishedWork DEF DataInv, DraftInv
  <2>3. QED
    BY <2>1, <2>2 DEF DataInv, ExactOpen
<1>2. QED
  BY <1>1, SourcedAppended DEF DataInv, Regularly

\* A step that changes nothing disturbs nothing.
LEMMA UndisturbedStep ==
    ASSUME TypeInv, [Undisturbed]_vars, [Next]_vars
    PROVE  Undisturbed /\ [Running]_vars
<1>1. ASSUME UNCHANGED vars PROVE Undisturbed
  <2>1. SourcesStay
    BY <1>1 DEF SourcesStay, vars
  <2>2. \A p \in Writers : ~(Crash(p) \/ Refuse(p) \/ Blindly(p))
    BY <1>1, ArchiverAssumption
    DEF Crash, Refuse, Exit, Goto, Blindly, LoseWork, ReadBlind, vars, TypeInv, TypeOK
  <2>3. QED
    BY <2>1, <2>2 DEF Undisturbed
<1>2. Undisturbed
  BY <1>1
<1>3. QED
  BY <1>2, BlindFacts DEF Undisturbed, Next

\* Where nobody interferes - one writer that is not killed and whose open()s
\* succeed, arguments that can be read and stay as they are, archives never
\* emptied - everything that -i adds is what its arguments hold, and every
\* archive, at any moment, is as long as its header says.
THEOREM RegularRuns ==
    OneWriter => (Spec /\ [][Undisturbed]_vars /\ []Regularly
                      => []AppendedExact /\ []ExactArchives)
<1> SUFFICES ASSUME OneWriter
             PROVE  Spec /\ [][Undisturbed]_vars /\ []Regularly
                        => []AppendedExact /\ []ExactArchives
  OBVIOUS
<1>1. Init => DataInv
  BY InitData
<1>2. TypeInv /\ DataInv /\ Regularly /\ [Undisturbed]_vars /\ [Next]_vars => DataInv'
  <2> SUFFICES ASSUME TypeInv, DataInv, Regularly, [Undisturbed]_vars, [Next]_vars PROVE DataInv'
    OBVIOUS
  <2>1. QED
    BY UndisturbedStep, NextData
<1>3. TypeInv /\ DataInv /\ Regularly => AppendedExact /\ ExactArchives
  BY DataAppended DEF DataInv
<1>4. QED
  BY TypeInvariance, <1>1, <1>2, <1>3, PTL DEF Spec

-----------------------------------------------------------------------------
(* The archive the user is promised: StoreSpec.  Every step of such a run  *)
(* does to the archives what one action of ArchiveStore does, or nothing.  *)

LEMMA PlaceFacts ==
    ASSUME NEW n \in Nat, NEW S, S \subseteq 1 .. n, NEW r \in 1 .. Cardinality(S)
    PROVE  Place(S, r) \in S /\ Rank(S, Place(S, r)) = r
  BY RankOnto DEF Place

\* A sequence with the elements of s at the places of S, in order, is what
\* Pick picks.
LEMMA PickIs ==
    ASSUME NEW n \in Nat, NEW S, S \subseteq 1 .. n, NEW s, NEW v,
           v = [r \in 1 .. Cardinality(S) |-> v[r]], \A i \in S : v[Rank(S, i)] = s[i]
    PROVE  v = Pick(s, S)
<1>1. \A r \in 1 .. Cardinality(S) : v[r] = s[Place(S, r)]
  <2> SUFFICES ASSUME NEW r \in 1 .. Cardinality(S) PROVE v[r] = s[Place(S, r)]
    OBVIOUS
  <2>1. Place(S, r) \in S /\ Rank(S, Place(S, r)) = r
    BY PlaceFacts
  <2>2. QED
    BY <2>1
<1>2. QED
  BY <1>1 DEF Pick

LEMMA FunctionIsSeq ==
    ASSUME NEW n \in Nat, NEW S, NEW f \in [1 .. n -> S]
    PROVE  f \in Seq(S) /\ Len(f) = n
<1>1. f \in Seq(S)
  BY SeqDef
<1>2. QED
  BY <1>1, LenProperties

Member == [name : Names, data : Seq(Cell)]

LEMMA MembersFacts ==
    ASSUME NEW c \in Seq(Cell)
    PROVE  /\ Members(c) \in Seq(Member)
           /\ Len(Members(c)) = Len(Header(c)) /\ Len(Header(c)) \in Nat
           /\ DOMAIN Members(c) = 1 .. Len(Header(c))
           /\ Members(c) = [i \in 1 .. Len(Header(c)) |-> Members(c)[i]]
           /\ \A i \in 1 .. Len(Header(c)) :
                 Members(c)[i] = [name |-> Header(c)[i].name, data |-> Region(c, Header(c)[i])]
<1> DEFINE h == Header(c)
           n == Len(h)
<1>1. h \in Seq(Entry) /\ n \in Nat /\ DOMAIN h = 1 .. n
  BY HeaderFacts, LenProperties
<1>2. \A i \in 1 .. n : h[i].name \in Names /\ Region(c, h[i]) \in Seq(Cell)
  <2> SUFFICES ASSUME NEW i \in 1 .. n PROVE h[i].name \in Names /\ Region(c, h[i]) \in Seq(Cell)
    OBVIOUS
  <2>1. h[i] \in Entry
    BY <1>1, ElementOfSeq
  <2>2. h[i].name \in Names /\ h[i].off \in Nat /\ h[i].size \in Nat
    BY <2>1, UIntFacts DEF Entry
  <2>3. QED
    BY <2>2, ReadIntoFacts DEF Region
<1>3. /\ Members(c) = [i \in 1 .. n |-> [name |-> h[i].name, data |-> Region(c, h[i])]]
  BY <1>1 DEF Members
<1> HIDE DEF h, n
<1>4. /\ DOMAIN Members(c) = 1 .. n
      /\ \A i \in 1 .. n : Members(c)[i] = [name |-> h[i].name, data |-> Region(c, h[i])]
  BY <1>3
<1>5. Members(c) = [i \in 1 .. n |-> Members(c)[i]]
  BY <1>3
<1>6. \A i \in 1 .. n : Members(c)[i] \in Member
  BY <1>2, <1>4 DEF Member
<1>7. Members(c) \in Seq(Member)
  BY <1>1, <1>5, <1>6, FunctionIsSeq
<1>8. Len(Members(c)) = n
  BY <1>1, <1>5, <1>6, FunctionIsSeq
<1>9. QED
  BY <1>1, <1>4, <1>5, <1>7, <1>8 DEF h, n

\* -r leaves the members whose names its arguments do not list.
LEMMA RemovePicks ==
    ASSUME TypeInv, Formed, NEW p \in Procs, DraftOf(p), ListOf(p), CopiedOf(p), Finishes(p),
           Op(p) = "remove", Exact(ArchFile(p)), Fits(ArchFile(p)), Fits(WorkFile(p)),
           NEW s, s = Members(ArchFile(p))
    PROVE  Members(WorkFile(p)) = Pick(s, {i \in DOMAIN s : s[i].name \notin ToSet(Args(p))})
<1> DEFINE c == ArchFile(p)
           w == WorkFile(p)
           n == Len(Header(c))
           S == MustKeep(p)
<1>1. c \in Seq(Cell) /\ w \in Seq(Cell)
  BY PublishedWork DEF Finishes
<1>2. /\ n \in Nat /\ DOMAIN s = 1 .. n /\ DOMAIN Header(c) = 1 .. n
      /\ \A i \in 1 .. n : s[i] = [name |-> Header(c)[i].name, data |-> Region(c, Header(c)[i])]
  BY <1>1, MembersFacts, HeaderFacts, LenProperties
<1>3. /\ Members(w) = [r \in 1 .. Len(Members(w)) |-> Members(w)[r]]
  BY <1>1, MembersFacts
<1>4. S = {i \in DOMAIN s : s[i].name \notin ToSet(Args(p))} /\ S \subseteq 1 .. n
  BY <1>2 DEF MustKeep
<1>5. loc[p].added = 0
  BY DEF ListOf, Listed, Finishes, Op
<1>6. Complete(p)
  <2>1. \A i \in S : Intact(c, Header(c)[i])
    BY <1>1, <1>4, ExactIntact
  <2>2. QED
    BY <2>1, RemoveComplete DEF Finishes
<1>7. Len(Members(w)) = Cardinality(S)
  <2>1. Cardinality(S) \in Nat
    <3> HIDE DEF S, n
    <3>1. n \in Nat /\ S \subseteq 1 .. n
      BY <1>2, <1>4
    <3>2. Rank(S, n) = Cardinality(S)
      BY <3>1, RankStarts
    <3>3. Rank(S, n) \in Nat
      BY <3>1, FewPlaces
    <3>4. QED
      BY <3>2, <3>3
  <2>2. QED
    BY <1>5, <1>6, <2>1 DEF Complete
<1>8. \A i \in S : Members(w)[Rank(S, i)] = s[i]
  BY <1>2, <1>4, <1>6 DEF Complete
<1> HIDE DEF w, S, n
<1>9. Members(w) = Pick(s, S)
  BY <1>2, <1>3, <1>4, <1>7, <1>8, PickIs, SMTT(30)
<1>10. QED
  BY <1>4, <1>9 DEF w

\* -i appends a member for every regular file among its arguments.
LEMMA InputAppends ==
    ASSUME TypeInv, Formed, NEW p \in Procs, DraftOf(p), ListOf(p), CopiedOf(p), AnnouncedOf(p),
           SourcedOf(p), Finishes(p), Op(p) = "input", AllReadable(Args(p), disk),
           Exact(ArchFile(p)), Fits(ArchFile(p)), Fits(WorkFile(p)),
           NEW taken, taken = Pick(Args(p), Taken(p))
    PROVE  /\ taken # <<>>
           /\ Members(WorkFile(p)) = Members(ArchFile(p)) \o
                 [i \in DOMAIN taken |-> [name |-> Base[taken[i]], data |-> disk[taken[i]].data]]
<1> DEFINE c == ArchFile(p)
           w == WorkFile(p)
           n == Len(Header(c))
           f == Args(p)
           T == Taken(p)
           a == Cardinality(T)
           new(k) == [name |-> Base[f[k]], data |-> disk[f[k]].data]
           added == [i \in DOMAIN taken |-> [name |-> Base[taken[i]], data |-> disk[taken[i]].data]]
<1>1. /\ c \in Seq(Cell) /\ w \in Seq(Cell) /\ f \in Seq(Paths)
      /\ Base \in [Paths -> Names] /\ disk \in [Paths -> FileState]
  BY PublishedWork, LocalFacts, ArchiverAssumption DEF Finishes, FilesOK
<1>2. T = Regulars(f, disk) /\ T \subseteq 1 .. Len(f) /\ Len(f) \in Nat
  <2>1. T = Regulars(f, disk)
    BY DEF Taken, Regulars, Regular
  <2>2. QED
    BY <1>1, <2>1, RegularsFacts
<1>3. loc[p].added = a /\ a # 0 /\ a \in Nat
  <2>1. loc[p].added = a /\ a # 0
    BY <1>2 DEF AnnouncedOf, Announced, CopyingLabels, Finishes, Op, Args
  <2>2. loc[p].added \in Nat
    BY PublishedWork DEF Finishes
  <2>3. QED
    BY <2>1, <2>2
<1>4. n \in Nat /\ MustKeep(p) = 1 .. n
  BY <1>1, HeaderFacts, LenProperties DEF MustKeep
<1>5. Complete(p)
  BY <1>1, <1>4, ExactIntact, InputComplete DEF Finishes
<1>6. Cardinality(1 .. n) = n /\ \A i \in 1 .. n : Rank(1 .. n, i) = i
  BY <1>4, RankOfAll, RankStarts
<1>7. Len(Members(w)) = n + a
  BY <1>3, <1>4, <1>5, <1>6 DEF Complete
<1>8. \A i \in 1 .. n : Members(w)[i] = Members(c)[i]
  BY <1>1, <1>4, <1>5, <1>6, MembersFacts DEF Complete
<1>9. \A k \in T : Members(w)[n + Rank(T, k)] = new(k)
  <2> SUFFICES ASSUME NEW k \in T PROVE Members(w)[n + Rank(T, k)] = new(k)
    OBVIOUS
  <2>1. Members(w)[Len(Members(w)) - a + Rank(T, k)] = new(k)
    BY AppendedHere DEF Finishes
  <2>2. Rank(T, k) \in Nat
    BY <1>2, FewPlaces
  <2> HIDE DEF a, n, T
  <2>3. (n + a) - a + Rank(T, k) = n + Rank(T, k)
    BY <1>3, <1>4, <2>2
  <2>4. QED
    BY <1>7, <2>1, <2>3
<1>10. DOMAIN taken = 1 .. a /\ \A r \in 1 .. a : taken[r] = f[Place(T, r)]
  BY DEF Pick
<1>11. \A r \in 1 .. a : Place(T, r) \in T /\ Rank(T, Place(T, r)) = r
  <2> SUFFICES ASSUME NEW r \in 1 .. a PROVE Place(T, r) \in T /\ Rank(T, Place(T, r)) = r
    OBVIOUS
  <2>1. PICK m : m = Len(f)
    OBVIOUS
  <2>2. m \in Nat /\ T \subseteq 1 .. m
    BY <1>2, <2>1
  <2> HIDE DEF T
  <2>3. QED
    BY <2>2, PlaceFacts
<1>12. added \in Seq(Member) /\ Len(added) = a /\ \A r \in 1 .. a : added[r] = new(Place(T, r))
  <2>1. \A r \in 1 .. a : added[r] = new(Place(T, r))
    BY <1>10
  <2>2. \A k \in T : new(k) \in Member
    <3> SUFFICES ASSUME NEW k \in T PROVE new(k) \in Member
      OBVIOUS
    <3>1. f[k] \in Paths
      BY <1>1, <1>2, ElementOfSeq
    <3>2. disk[f[k]] \in FileState /\ Base[f[k]] \in Names
      BY <1>1, <3>1
    <3>3. disk[f[k]].data \in Seq(Cell)
      BY <3>2 DEF FileState
    <3>4. QED
      BY <3>2, <3>3 DEF Member
  <2>3. DOMAIN added = 1 .. a
    BY <1>10
  <2> HIDE DEF a, new, T
  <2>4. added \in [1 .. a -> Member]
    BY <1>11, <2>1, <2>2, <2>3
  <2> HIDE DEF added
  <2>5. QED
    BY <1>3, <2>1, <2>4, FunctionIsSeq
<1>13. /\ Members(c) \in Seq(Member) /\ Len(Members(c)) = n
       /\ Members(w) \in Seq(Member)
  BY <1>1, MembersFacts
<1> HIDE DEF added, a, n, c, w, T, new
<1>14. /\ Members(c) \o added \in Seq(Member)
       /\ Len(Members(c) \o added) = n + a
       /\ \A i \in 1 .. n + a : (Members(c) \o added)[i] =
                                   IF i <= n THEN Members(c)[i] ELSE added[i - n]
  BY <1>12, <1>13, ConcatProperties
<1>15. \A i \in 1 .. n + a : Members(w)[i] = (Members(c) \o added)[i]
  <2> SUFFICES ASSUME NEW i \in 1 .. n + a PROVE Members(w)[i] = (Members(c) \o added)[i]
    OBVIOUS
  <2>1. CASE i <= n
    <3>1. i \in 1 .. n
      BY <1>3, <1>4, <2>1
    <3>2. QED
      BY <1>8, <1>14, <2>1, <3>1
  <2>2. CASE ~(i <= n)
    <3>1. i - n \in 1 .. a /\ n + (i - n) = i
      BY <1>3, <1>4, <2>2
    <3>2. PICK k \in T : k = Place(T, i - n) /\ Rank(T, k) = i - n
      BY <1>11, <3>1
    <3>3. Members(w)[i] = new(k)
      BY <1>9, <3>1, <3>2
    <3>4. added[i - n] = new(k)
      BY <1>12, <3>1, <3>2
    <3>5. QED
      BY <1>14, <2>2, <3>3, <3>4
  <2>3. QED
    BY <2>1, <2>2
<1>16. Members(w) = Members(c) \o added
  BY <1>7, <1>13, <1>14, <1>15, SeqEqual
<1>17. taken # <<>>
  <2>1. 1 \in DOMAIN taken
    BY <1>3, <1>10
  <2>2. QED
    BY <2>1
<1>18. QED
  BY <1>16, <1>17 DEF added, c, w

\* A process that runs neither -i nor -r changes no archive and no work file.
LEMMA ReadersKeepFiles ==
    ASSUME TypeInv, NEW p \in Procs, p \notin Writers, Step(p)
    PROVE  UNCHANGED <<dir, ino>>
<1>1. /\ loc[p].tfd.ino = NoIno /\ Op(p) \notin {"input", "remove"} /\ pc[p] \notin WriterLabels
      /\ ino \in [Inodes -> Seq(Cell)] /\ NoIno \notin Inodes
  BY ArchiverAssumption DEF TypeInv, TypeOK, Reached, WritersOnly, Op
<1>2. CASE OpenArchive(p)
  BY <1>1, <1>2 DEF OpenArchive, OpenCreate, fsVars
<1>3. CASE Refuse(p)
  BY <1>3, RefuseFacts DEF fsVars
<1>4. CASE ~OpenArchive(p) /\ ~Refuse(p)
  <2>1. ~(OpenWork(p) \/ Unlink(p) \/ Rename(p))
    BY <1>1 DEF OpenWork, Unlink, Rename, WriterLabels
  <2>2. dir' = dir
    BY <1>4, <2>1, StepQuiet DEF Quiet
  <2>3. ASSUME NEW b, WriteWork(p, b) PROVE ino' = ino
    BY <1>1, <2>3 DEF WriteWork
  <2>4. ino' = ino
    <3>1. ~(WriteHeader(p) \/ CopyOld(p) \/ CopySource(p))
      BY <1>1 DEF WriteHeader, CopyOld, CopySource, WriterLabels
    <3>2. CopyMember(p) => ino' = ino
      BY <1>1, Zenon DEF CopyMember, fsVars
    <3>3. CASE \/ ReadHeader(p) \/ StatFile(p) \/ MeasureFile(p) \/ FilterHeader(p)
               \/ LocateData(p) \/ OpenSource(p) \/ NextMember(p)
      BY <3>3 DEF ReadHeader, StatFile, MeasureFile, FilterHeader, LocateData, OpenSource,
         NextMember, fsVars
    <3>4. QED
      BY <1>4, <2>1, <3>1, <3>2, <3>3 DEF Step
  <2>5. QED
    BY <2>2, <2>4
<1>5. QED
  BY <1>2, <1>3, <1>4

\* What a step of p does to its command: it keeps it, or the process exits;
\* only remove() leads to rename().
KeepsCommand(p) ==
    \/ pc'[p] = "idle" /\ loc'[p] = Idle
    \/ loc'[p].cmd = loc[p].cmd /\ (pc'[p] = "rename" => Unlink(p))

LEMMA GotoKeepsCommand ==
    ASSUME TypeInv, NEW p \in Procs, NEW l, l # "rename", NEW m, Goto(p, l, m), m.cmd = loc[p].cmd
    PROVE  KeepsCommand(p)
  BY DEF Goto, KeepsCommand, TypeInv, TypeOK

LEMMA ExitKeepsCommand == ASSUME TypeInv, NEW p \in Procs, Exit(p) PROVE KeepsCommand(p)
  BY DEF Exit, Goto, KeepsCommand, TypeInv, TypeOK

LEMMA StepKeepsCommand == ASSUME TypeInv, NEW p \in Procs, Step(p) PROVE KeepsCommand(p)
<1> DEFINE me == loc[p]
<1>0. me \in Local
  BY LocalFacts
<1>1. ASSUME NEW i, NEW l, l # "rename",
             \/ Goto(p, l, [me EXCEPT !.tfd = [ino |-> i, pos |-> 0]])
             \/ Goto(p, l, [me EXCEPT !.afd = [ino |-> i, pos |-> 0]])
      PROVE  KeepsCommand(p)
  <2> DEFINE m1 == [me EXCEPT !.tfd = [ino |-> i, pos |-> 0]]
             m2 == [me EXCEPT !.afd = [ino |-> i, pos |-> 0]]
  <2>1. m1.cmd = me.cmd /\ m2.cmd = me.cmd /\ (Goto(p, l, m1) \/ Goto(p, l, m2))
    BY <1>0, <1>1 DEF Local
  <2> HIDE DEF m1, m2
  <2>2. QED
    BY <1>1, <2>1, GotoKeepsCommand
<1>2. CASE OpenWork(p)
  <2>1. PICK i \in Inodes : \E l \in {"openArchive", "readHeader"} :
          Goto(p, l, [me EXCEPT !.tfd = [ino |-> i, pos |-> 0]])
    BY <1>2 DEF OpenWork
  <2>2. QED
    BY <1>1, <2>1
<1>3. CASE OpenArchive(p)
  <2>1. Exit(p) \/ \E i \in Inodes : \E l \in {"openWork", "readHeader"} :
          Goto(p, l, [me EXCEPT !.afd = [ino |-> i, pos |-> 0]])
    BY <1>3 DEF OpenArchive
  <2>2. QED
    BY <1>1, <2>1, ExitKeepsCommand
<1>4. CASE ReadHeader(p)
  <2> DEFINE e == ArchFile(p)[me.afd.pos + 1]
             m1 == [me EXCEPT !.hdr = Append(@, e), !.afd.pos = @ + 1]
             m2 == [me EXCEPT !.afd.pos = 0, !.k = 1]
  <2>1. m1.cmd = me.cmd /\ m2.cmd = me.cmd
    BY <1>0 DEF Local, Fd
  <2>2. Op(p) \in {"input", "remove", "extract", "stat"}
    BY <1>4, LocalFacts DEF ReadHeader
  <2>3. Goto(p, "readHeader", m1) \/ Goto(p, "garbled", me) \/ AfterHeader(p, m2)
    BY <1>4 DEF ReadHeader
  <2> HIDE DEF m1, m2
  <2>4. \/ Goto(p, "readHeader", m1) \/ Goto(p, "garbled", me) \/ Exit(p)
        \/ \E l \in {"stat", "filter", "member"} : Goto(p, l, m2)
    BY <2>2, <2>3 DEF AfterHeader
  <2>5. QED
    BY <2>1, <2>4, GotoKeepsCommand, ExitKeepsCommand
<1>5. CASE StatFile(p)
  <2> DEFINE m1 == [me EXCEPT !.k = 1]
             m2 == [me EXCEPT !.k = @ + 1, !.err = @ \/ disk[Args(p)[me.k]].kind = "missing"]
  <2>1. m1.cmd = me.cmd /\ m2.cmd = me.cmd
    BY <1>0 DEF Local
  <2>2. \/ Exit(p) \/ Goto(p, "writeHeader", m1) \/ Goto(p, "measure", me) \/ Goto(p, "stat", m2)
    BY <1>5 DEF StatFile
  <2> HIDE DEF m1, m2
  <2>3. QED
    BY <2>1, <2>2, GotoKeepsCommand, ExitKeepsCommand
<1>6. CASE MeasureFile(p)
  <2>1. PICK fi : Goto(p, "stat", [me EXCEPT !.hdr = Append(@, fi), !.k = @ + 1, !.added = @ + 1,
                                             !.err = @ \/ ~Readable(Args(p)[me.k])])
    BY <1>6 DEF MeasureFile
  <2> DEFINE m == [me EXCEPT !.hdr = Append(@, fi), !.k = @ + 1, !.added = @ + 1,
                             !.err = @ \/ ~Readable(Args(p)[me.k])]
  <2>2. m.cmd = me.cmd /\ Goto(p, "stat", m)
    BY <1>0, <2>1 DEF Local
  <2> HIDE DEF m
  <2>3. QED
    BY <2>2, GotoKeepsCommand
<1>7. CASE FilterHeader(p)
  <2> DEFINE m1 == [me EXCEPT !.k = 1]
             m2 == [me EXCEPT !.hdr = DropNode(@, me.k)]
             m3 == [me EXCEPT !.k = @ + 1]
  <2>1. m1.cmd = me.cmd /\ m2.cmd = me.cmd /\ m3.cmd = me.cmd
    BY <1>0 DEF Local
  <2>2. \/ \E l \in {"writeHeader", "member"} : Goto(p, l, m1)
        \/ Goto(p, "filter", m2) \/ Goto(p, "filter", m3)
    BY <1>7 DEF FilterHeader
  <2> HIDE DEF m1, m2, m3
  <2>3. QED
    BY <2>1, <2>2, GotoKeepsCommand
<1>8. CASE WriteHeader(p)
  <2> DEFINE m1 == [me EXCEPT !.k = @ + 1, !.tfd.pos = @ + 1, !.raw = NextRaw(@, me.hdr[me.k].size)]
             m2 == [me EXCEPT !.k = 1, !.raw = 0, !.tfd.pos = @ + 1]
  <2>1. m1.cmd = me.cmd /\ m2.cmd = me.cmd
    BY <1>0 DEF Local, Fd
  <2>2. Goto(p, "writeHeader", m1) \/ \E l \in {"locate", "member"} : Goto(p, l, m2)
    BY <1>8 DEF WriteHeader
  <2> HIDE DEF m1, m2
  <2>3. QED
    BY <2>1, <2>2, GotoKeepsCommand
<1>9. CASE LocateData(p)
  <2>1. \/ Exit(p) \/ Goto(p, "copyOld", me)
        \/ \E x : Goto(p, "copyOld", [me EXCEPT !.afd.pos = x])
    BY <1>9 DEF LocateData
  <2>2. ASSUME NEW x, Goto(p, "copyOld", [me EXCEPT !.afd.pos = x]) PROVE KeepsCommand(p)
    <3> DEFINE m == [me EXCEPT !.afd.pos = x]
    <3>1. m.cmd = me.cmd /\ Goto(p, "copyOld", m)
      BY <1>0, <2>2 DEF Local, Fd
    <3> HIDE DEF m
    <3>2. QED
      BY <3>1, GotoKeepsCommand
  <2>3. QED
    BY <2>1, <2>2, GotoKeepsCommand, ExitKeepsCommand
<1>10. CASE CopyOld(p) \/ OpenSource(p) \/ CopySource(p)
  <2> DEFINE m1(n) == [me EXCEPT !.afd.pos = @ + n, !.tfd.pos = @ + n]
             m2(n) == [me EXCEPT !.pos = @ + n, !.tfd.pos = @ + n]
             m3 == [me EXCEPT !.pos = 0]
             m4 == [me EXCEPT !.k = @ + 1]
  <2>1. \A n : m1(n).cmd = me.cmd /\ m2(n).cmd = me.cmd
    BY <1>0 DEF Local, Fd
  <2>2. m3.cmd = me.cmd /\ m4.cmd = me.cmd
    BY <1>0 DEF Local
  <2>3. \/ \E l \in {"openSource", "unlink"} : Goto(p, l, me)
        \/ \E n : Goto(p, "copyOld", m1(n)) \/ Goto(p, "copySource", m2(n))
        \/ Goto(p, "copySource", m3) \/ Goto(p, "openSource", m4)
    BY <1>10, Zenon DEF CopyOld, OpenSource, CopySource
  <2> HIDE DEF m1, m2, m3, m4
  <2>4. QED
    BY <2>1, <2>2, <2>3, GotoKeepsCommand
<1>11. CASE NextMember(p)
  <2> DEFINE m1(x, z) == [me EXCEPT !.left = x, !.pos = 0, !.afd.pos = z]
             m2 == [me EXCEPT !.k = @ + 1]
  <2>1. \A x, z : m1(x, z).cmd = me.cmd
    BY <1>0 DEF Local, Fd
  <2>2. m2.cmd = me.cmd
    BY <1>0 DEF Local
  <2>3. \/ Exit(p) \/ Goto(p, "unlink", me) \/ Goto(p, "member", m2)
        \/ \E x, z : Goto(p, "copyMember", m1(x, z))
    BY <1>11 DEF NextMember
  <2> HIDE DEF m1, m2
  <2>4. QED
    BY <2>1, <2>2, <2>3, GotoKeepsCommand, ExitKeepsCommand
<1>12. CASE CopyMember(p)
  <2> DEFINE n == ChunkSize(me.left)
             read == ReadCount(ArchFile(p), me.afd.pos, n)
             rest == [me EXCEPT !.left = @ - n, !.afd.pos = @ + read]
             m1 == [me EXCEPT !.k = @ + 1]
             m2 == [rest EXCEPT !.tfd.pos = @ + n]
             m3 == [rest EXCEPT !.pos = @ + n]
  <2>1. Goto(p, "member", m1) \/ Goto(p, "copyMember", m2) \/ Goto(p, "copyMember", m3)
    BY <1>12, Zenon DEF CopyMember
  <2> HIDE DEF n, read
  <2>2. m1.cmd = me.cmd /\ m2.cmd = me.cmd /\ m3.cmd = me.cmd
    BY <1>0 DEF Local, Fd
  <2> HIDE DEF m1, m2, m3
  <2>3. QED
    BY <2>1, <2>2, GotoKeepsCommand
<1>13. CASE Unlink(p)
  BY <1>13 DEF Unlink, Goto, KeepsCommand, TypeInv, TypeOK
<1>14. CASE Rename(p) \/ Refuse(p)
  BY <1>14, ExitKeepsCommand DEF Rename, Refuse
<1>15. QED
  BY <1>2, <1>3, <1>4, <1>5, <1>6, <1>7, <1>8, <1>9, <1>10, <1>11, <1>12, <1>13, <1>14 DEF Step

\* The archive the writer has open is the one its name is bound to, until
\* remove(); from there to rename() the name is not bound.
Current(l, m, d) ==
    /\ m.afd.ino # NoIno /\ l # "rename" => d[m.cmd.arch] = m.afd.ino
    /\ l = "rename" => d[m.cmd.arch] = NoIno

CurrentOf(p) == Current(pc[p], loc[p], dir)

CurrentInv == \A p \in Writers : CurrentOf(p)

\* What OpenWork and OpenArchive bind.
LEMMA OpenBinds ==
    ASSUME TypeInv, NEW p \in Procs
    PROVE  /\ OpenWork(p) =>
                /\ \A a \in Archives : dir'[a] = dir[a]
                /\ loc'[p].afd.ino = loc[p].afd.ino /\ pc'[p] # "rename"
           /\ OpenArchive(p) =>
                \/ pc'[p] = "idle" /\ loc'[p] = Idle /\ UNCHANGED fsVars
                \/ /\ pc'[p] # "rename" /\ loc'[p].cmd = loc[p].cmd
                   /\ \E i \in Inodes : OpenCreate(Arch(p), i) /\ loc'[p].afd.ino = i
<1>0. /\ dir \in [FileNames -> Inodes \cup {NoIno}] /\ Temp \in FileNames /\ Temp \notin Archives
      /\ loc \in [Procs -> Local] /\ pc \in [Procs -> Labels \cup {"blind"}] /\ Archives \subseteq FileNames
  BY ArchiverAssumption DEF TypeInv, TypeOK, FileNames
<1>1. ASSUME OpenWork(p)
      PROVE  /\ \A a \in Archives : dir'[a] = dir[a]
             /\ loc'[p].afd.ino = loc[p].afd.ino /\ pc'[p] # "rename"
  <2>1. PICK i \in Inodes :
          /\ OpenCreate(Temp, i)
          /\ Goto(p, IF Op(p) = "input" THEN "openArchive" ELSE "readHeader",
                  [loc[p] EXCEPT !.tfd = [ino |-> i, pos |-> 0]])
    BY <1>1 DEF OpenWork, WorkName
  <2>2. \A a \in Archives : dir'[a] = dir[a]
    BY <1>0, <2>1, OpenCreateFacts
  <2>3. loc'[p].afd.ino = loc[p].afd.ino /\ pc'[p] # "rename"
    BY <1>0, <2>1 DEF Goto, Local
  <2>4. QED
    BY <2>2, <2>3
<1>2. ASSUME OpenArchive(p)
      PROVE  \/ pc'[p] = "idle" /\ loc'[p] = Idle /\ UNCHANGED fsVars
             \/ /\ pc'[p] # "rename" /\ loc'[p].cmd = loc[p].cmd
                /\ \E i \in Inodes : OpenCreate(Arch(p), i) /\ loc'[p].afd.ino = i
  <2>1. CASE Op(p) # "input" /\ dir[Arch(p)] = NoIno
    BY <1>0, <1>2, <2>1 DEF OpenArchive, Exit, Goto
  <2>2. CASE ~(Op(p) # "input" /\ dir[Arch(p)] = NoIno)
    <3>1. PICK i \in Inodes :
            /\ OpenCreate(Arch(p), i)
            /\ Goto(p, IF Op(p) = "remove" THEN "openWork" ELSE "readHeader",
                    [loc[p] EXCEPT !.afd = [ino |-> i, pos |-> 0]])
      BY <1>2, <2>2 DEF OpenArchive
    <3>2. pc'[p] # "rename" /\ loc'[p].cmd = loc[p].cmd /\ loc'[p].afd.ino = i
      BY <1>0, <3>1 DEF Goto, Local
    <3>3. QED
      BY <3>1, <3>2
  <2>3. QED
    BY <2>1, <2>2
<1>3. QED
  BY <1>1, <1>2

LEMMA IdleCurrent == \A d : Current("idle", Idle, d)
  BY IdleFacts DEF Current

LEMMA StepCurrent ==
    ASSUME TypeInv, NEW p \in Procs, CurrentOf(p), Step(p)
    PROVE  CurrentOf(p)'
<1>0. /\ dir \in [FileNames -> Inodes \cup {NoIno}] /\ Temp \notin Archives /\ NoIno \notin Inodes
      /\ KeepsCommand(p)
  BY ArchiverAssumption, StepKeepsCommand DEF TypeInv, TypeOK, FileNames
<1>1. CASE pc'[p] = "idle" /\ loc'[p] = Idle
  BY <1>1, IdleCurrent DEF CurrentOf
<1>2. CASE OpenArchive(p) /\ ~(pc'[p] = "idle" /\ loc'[p] = Idle)
  <2>1. Arch(p) \in Archives
    BY <1>2, LocalFacts DEF OpenArchive, Arch
  <2>2. PICK i \in Inodes : OpenCreate(Arch(p), i) /\ loc'[p].afd.ino = i
    BY <1>2, OpenBinds
  <2>3. pc'[p] # "rename" /\ loc'[p].cmd = loc[p].cmd
    BY <1>2, OpenBinds
  <2>4. dir'[Arch(p)] = i
    BY <1>0, <2>1, <2>2, OpenCreateFacts DEF FileNames
  <2>5. QED
    BY <2>2, <2>3, <2>4 DEF CurrentOf, Current, Arch
<1>3. CASE OpenWork(p) /\ ~(pc'[p] = "idle" /\ loc'[p] = Idle)
  <2>1. Arch(p) \in Archives /\ pc[p] = "openWork"
    BY <1>3, LocalFacts DEF OpenWork, Arch
  <2>2. loc'[p].cmd = loc[p].cmd
    BY <1>0, <1>3 DEF KeepsCommand
  <2>3. dir'[Arch(p)] = dir[Arch(p)] /\ loc'[p].afd.ino = loc[p].afd.ino /\ pc'[p] # "rename"
    BY <1>3, <2>1, OpenBinds
  <2>4. QED
    BY <2>1, <2>2, <2>3 DEF CurrentOf, Current, Arch
<1>4. CASE Unlink(p)
  <2>1. /\ pc'[p] = "rename" /\ loc'[p] = loc[p] /\ dir' = [dir EXCEPT ![Arch(p)] = NoIno]
        /\ Arch(p) \in Archives
    BY <1>4, LocalFacts DEF Unlink, Goto, TypeInv, TypeOK, Arch
  <2>2. dir'[loc'[p].cmd.arch] = NoIno
    BY <1>0, <2>1 DEF Arch, FileNames
  <2>3. QED
    BY <2>1, <2>2 DEF CurrentOf, Current
<1>5. CASE Rename(p) \/ Refuse(p)
  <2>1. pc'[p] = "idle" /\ loc'[p] = Idle
    BY <1>5 DEF Rename, Refuse, Exit, Goto, TypeInv, TypeOK
  <2>2. QED
    BY <1>1, <2>1
<1>6. CASE Quiet /\ ~Unlink(p) /\ ~(pc'[p] = "idle" /\ loc'[p] = Idle)
  <2>1. loc'[p].cmd = loc[p].cmd /\ pc'[p] # "rename"
    BY <1>0, <1>6 DEF KeepsCommand
  <2>2. dir' = dir /\ loc'[p].afd.ino \in {loc[p].afd.ino, NoIno}
    BY <1>6 DEF Quiet
  <2>3. pc[p] # "rename"
    BY <1>5, <1>6, Zenon DEF Step, OpenWork, OpenArchive, ReadHeader, StatFile, MeasureFile,
       FilterHeader, WriteHeader, LocateData, CopyOld, OpenSource, CopySource, NextMember,
       CopyMember, Unlink, Rename, Refuse, Exit, Goto, TypeInv, TypeOK
  <2>4. QED
    BY <2>1, <2>2, <2>3 DEF CurrentOf, Current
<1>7. QED
  BY <1>1, <1>2, <1>3, <1>4, <1>5, <1>6, StepQuiet

LEMMA NextCurrent ==
    ASSUME TypeInv, OneWriter, CurrentInv, [Running]_vars
    PROVE  CurrentInv'
<1>1. ASSUME NEW p \in Procs, Step(p) PROVE CurrentInv'
  <2>1. OthersStay(p)
    BY <1>1, StepOthers
  <2>2. CASE p \in Writers
    <3>1. \A q \in Writers : q = p
      BY <2>2 DEF OneWriter
    <3>2. CurrentOf(p)'
      BY <1>1, <2>2, StepCurrent DEF CurrentInv
    <3>3. QED
      BY <3>1, <3>2 DEF CurrentInv
  <2>3. CASE p \notin Writers
    <3>1. dir' = dir
      BY <1>1, <2>3, ReadersKeepFiles
    <3>2. QED
      BY <2>1, <2>3, <3>1, ArchiverAssumption DEF CurrentInv, CurrentOf, OthersStay
  <2>4. QED
    BY <2>2, <2>3
<1>2. ASSUME NEW p \in Procs, Start(p) \/ Crash(p) PROVE CurrentInv'
  <2>1. /\ dir' = dir /\ \A q \in Procs : q # p => pc'[q] = pc[q] /\ loc'[q] = loc[q]
        /\ pc'[p] # "rename" /\ loc'[p].afd.ino = NoIno
    <3>1. CASE Start(p)
      <4>1. PICK c \in Commands : loc' = [loc EXCEPT ![p] = [Idle EXCEPT !.cmd = c]]
        BY <3>1 DEF Start
      <4>2. [Idle EXCEPT !.cmd = c].afd.ino = NoIno
        BY IdleFacts DEF Local
      <4>3. QED
        BY <3>1, <4>1, <4>2 DEF Start, TypeInv, TypeOK
    <3>2. CASE Crash(p)
      BY <3>2, IdleFacts DEF Crash, TypeInv, TypeOK
    <3>3. QED
      BY <1>2, <3>1, <3>2
  <2>2. QED
    BY <2>1, ArchiverAssumption DEF CurrentInv, CurrentOf, Current
<1>3. CASE UNCHANGED <<dir, pc, loc>>
  BY <1>3 DEF CurrentInv, CurrentOf
<1>4. QED
  BY <1>1, <1>2, <1>3 DEF Running, Edit, Finished, vars

LEMMA InitCurrent == Init => CurrentInv
  BY IdleFacts, ArchiverAssumption DEF Init, CurrentInv, CurrentOf, Current

\* What AbsStore is at one archive, before a step and after it.
LEMMA StoreAt ==
    ASSUME NEW a \in Archives
    PROVE  /\ dir[a] # NoIno => AbsStore[a] = Members(ino[dir[a]])
           /\ dir'[a] # NoIno => AbsStore'[a] = Members(ino'[dir'[a]])
           /\ dir[a] = NoIno /\ Replacing(a) = {} => AbsStore[a] = Absent
           /\ dir'[a] = NoIno /\ Replacing(a)' = {} => AbsStore'[a] = Absent
           /\ \A p : dir[a] = NoIno /\ Replacing(a) = {p} => AbsStore[a] = Members(WorkFile(p))
           /\ \A p : dir'[a] = NoIno /\ Replacing(a)' = {p}
                        => AbsStore'[a] = Members(ino'[loc'[p].tfd.ino])
<1>1. \A p : (CHOOSE q \in {p} : TRUE) = p
  OBVIOUS
<1>2. /\ dir[a] # NoIno => AbsStore[a] = Members(ino[dir[a]])
      /\ dir'[a] # NoIno => AbsStore'[a] = Members(ino'[dir'[a]])
  BY DEF AbsStore
<1>3. /\ dir[a] = NoIno /\ Replacing(a) = {} => AbsStore[a] = Absent
      /\ dir'[a] = NoIno /\ Replacing(a)' = {} => AbsStore'[a] = Absent
  BY DEF AbsStore
<1>4. ASSUME NEW p, dir[a] = NoIno, Replacing(a) = {p} PROVE AbsStore[a] = Members(WorkFile(p))
  <2>1. AbsStore[a] = Members(WorkFile(CHOOSE q \in Replacing(a) : TRUE))
    BY <1>4 DEF AbsStore
  <2>2. QED
    BY <1>1, <1>4, <2>1
<1>5. ASSUME NEW p, dir'[a] = NoIno, Replacing(a)' = {p}
      PROVE  AbsStore'[a] = Members(ino'[loc'[p].tfd.ino])
  <2>1. AbsStore'[a] = Members(ino'[loc'[CHOOSE q \in Replacing(a)' : TRUE].tfd.ino])
    BY <1>5 DEF AbsStore, WorkFile
  <2>2. QED
    BY <1>1, <1>5, <2>1
<1>6. QED
  BY <1>2, <1>3, <1>4, <1>5

\* AbsStore is a function on the archives, so it is known by its values.
LEMMA StoreIs ==
    /\ AbsStore = [a \in Archives |-> AbsStore[a]]
    /\ AbsStore' = [a \in Archives |-> AbsStore'[a]]
  BY DEF AbsStore

\* With one writer nobody else is between remove() and rename().
LEMMA OnlyReplacing ==
    ASSUME TypeInv, OneWriter, NEW p \in Procs, NEW a \in Archives
    PROVE  /\ pc[p] = "rename" /\ Arch(p) = a => Replacing(a) = {p}
           /\ pc[p] = "rename" /\ Arch(p) # a => Replacing(a) = {}
           /\ p \in Writers /\ pc[p] # "rename" => Replacing(a) = {}
<1>1. \A q \in Procs : pc[q] = "rename" => q \in Writers
  BY DEF TypeInv, Reached, WritersOnly, WriterLabels
<1>2. QED
  BY <1>1 DEF Replacing, OneWriter

LEMMA OnlyReplacingNext ==
    ASSUME TypeInv', OneWriter, NEW p \in Procs, NEW a \in Archives
    PROVE  /\ pc'[p] = "rename" /\ Arch(p)' = a => Replacing(a)' = {p}
           /\ pc'[p] = "rename" /\ Arch(p)' # a => Replacing(a)' = {}
           /\ p \in Writers /\ pc'[p] # "rename" => Replacing(a)' = {}
<1>1. \A q \in Procs : pc'[q] = "rename" => q \in Writers
  BY DEF TypeInv, Reached, WritersOnly, WriterLabels
<1>2. QED
  BY <1>1 DEF Replacing, OneWriter

\* A step that binds no archive and neither enters nor leaves the moment
\* between remove() and rename() leaves the archives as they were.
LEMMA StoreStays ==
    ASSUME TypeInv, Private, [Running]_vars, \A a \in Archives : dir'[a] = dir[a],
           \A q \in Procs : (pc'[q] = "rename" <=> pc[q] = "rename"),
           \A q \in Procs : pc[q] = "rename" => loc'[q] = loc[q],
           \A q \in Procs : pc[q] = "rename" => ino'[loc[q].tfd.ino] = ino[loc[q].tfd.ino]
    PROVE  AbsStore' = AbsStore
<1>1. ASSUME NEW a \in Archives PROVE AbsStore'[a] = AbsStore[a]
  <2>1. CASE dir[a] # NoIno
    <3>1. dir[a] \in Inodes /\ Visible(dir[a])
      BY <2>1 DEF TypeInv, TypeOK, Visible
    <3>2. ino'[dir[a]] = ino[dir[a]] /\ dir'[a] = dir[a]
      BY <3>1, StepImmutable
    <3>3. QED
      BY <2>1, <3>2, StoreAt
  <2>2. CASE dir[a] = NoIno
    <3>1. Replacing(a)' = Replacing(a)
      BY DEF Replacing, Arch
    <3>2. CASE Replacing(a) = {}
      BY <2>2, <3>1, <3>2, StoreAt
    <3>3. CASE Replacing(a) # {}
      <4>1. PICK q : q = CHOOSE r \in Replacing(a) : TRUE
        OBVIOUS
      <4>2. q \in Procs /\ pc[q] = "rename"
        BY <3>3, <4>1 DEF Replacing
      <4>3. AbsStore[a] = Members(ino[loc[q].tfd.ino])
        BY <2>2, <3>3, <4>1 DEF AbsStore, WorkFile
      <4>4. AbsStore'[a] = Members(ino'[loc'[q].tfd.ino])
        BY <2>2, <3>1, <3>3, <4>1 DEF AbsStore, WorkFile
      <4>5. QED
        BY <4>2, <4>3, <4>4
    <3>4. QED
      BY <3>2, <3>3
  <2>3. QED
    BY <2>1, <2>2
<1>2. QED
  BY <1>1, StoreIs

\* The same, for the steps of the only writer.
LEMMA WriterStays ==
    ASSUME TypeInv, TypeInv', OneWriter, Private, [Running]_vars, NEW p \in Procs, p \in Writers,
           pc[p] # "rename", pc'[p] # "rename", NEW b \in Archives,
           \A a \in Archives : a # b => dir'[a] = dir[a]
    PROVE  \A a \in Archives : a # b => AbsStore'[a] = AbsStore[a]
<1> SUFFICES ASSUME NEW a \in Archives, a # b PROVE AbsStore'[a] = AbsStore[a]
  OBVIOUS
<1>1. Replacing(a) = {} /\ Replacing(a)' = {} /\ dir'[a] = dir[a]
  BY OnlyReplacing, OnlyReplacingNext
<1>2. CASE dir[a] # NoIno
  <2>1. dir[a] \in Inodes /\ Visible(dir[a])
    BY <1>2 DEF TypeInv, TypeOK, Visible
  <2>2. ino'[dir[a]] = ino[dir[a]]
    BY <2>1, StepImmutable
  <2>3. QED
    BY <1>1, <1>2, <2>2, StoreAt
<1>3. CASE dir[a] = NoIno
  BY <1>1, <1>3, StoreAt
<1>4. QED
  BY <1>2, <1>3

\* The archive that -i opens and that was not there is created empty.
LEMMA OpenStores ==
    ASSUME TypeInv, TypeInv', OneWriter, Private, [Running]_vars, NEW p \in Procs, p \in Writers,
           OpenArchive(p)
    PROVE  AbsStore' = AbsStore \/ (disk' = disk /\ \E a \in Archives : Store!Create(a))
<1>0. /\ pc[p] = "openArchive" /\ disk' = disk /\ Arch(p) \in Archives
      /\ dir \in [FileNames -> Inodes \cup {NoIno}] /\ Archives \subseteq FileNames
      /\ ino \in [Inodes -> Seq(Cell)] /\ NoIno \notin Inodes
  BY LocalFacts, ArchiverAssumption DEF OpenArchive, Arch, TypeInv, TypeOK, FileNames
<1>1. pc'[p] # "rename" /\ (UNCHANGED fsVars \/ \E i \in Inodes : OpenCreate(Arch(p), i))
  BY OpenBinds
<1>2. \A a \in Archives : Replacing(a) = {} /\ Replacing(a)' = {}
  <2> SUFFICES ASSUME NEW a \in Archives PROVE Replacing(a) = {} /\ Replacing(a)' = {}
    OBVIOUS
  <2>1. pc[p] # "rename" /\ pc'[p] # "rename"
    BY <1>0, <1>1
  <2>2. QED
    BY <2>1, OnlyReplacing, OnlyReplacingNext
<1>3. CASE UNCHANGED fsVars
  <2>1. \A a \in Archives : AbsStore'[a] = AbsStore[a]
    <3> SUFFICES ASSUME NEW a \in Archives PROVE AbsStore'[a] = AbsStore[a]
      OBVIOUS
    <3>1. dir' = dir /\ ino' = ino
      BY <1>3 DEF fsVars
    <3>2. QED
      BY <1>2, <3>1, StoreAt
  <2>2. AbsStore' = AbsStore
    BY <2>1, StoreIs
  <2>3. QED
    BY <2>2
<1>4. CASE \E i \in Inodes : OpenCreate(Arch(p), i) /\ ~UNCHANGED fsVars
  <2>1. PICK i \in Inodes : OpenCreate(Arch(p), i) /\ ~UNCHANGED fsVars
    BY <1>4
  <2>2. /\ dir' = [dir EXCEPT ![Arch(p)] = i] /\ ino' = [ino EXCEPT ![i] = <<>>]
        /\ dir[Arch(p)] = NoIno
    BY <1>0, <2>1 DEF OpenCreate
  <2>3. AbsStore[Arch(p)] = Absent
    BY <1>0, <1>2, <2>2, StoreAt
  <2>4. AbsStore'[Arch(p)] = <<>>
    <3>1. dir'[Arch(p)] = i /\ ino'[i] = <<>>
      BY <1>0, <2>2
    <3>2. AbsStore'[Arch(p)] = Members(<<>>)
      BY <1>0, <2>1, <3>1, StoreAt
    <3>3. <<>> \in Seq(Cell) /\ Len(<<>>) = 0
      OBVIOUS
    <3>4. Members(<<>>) = <<>>
      <4>1. Header(<<>>) \in Seq(Entry) /\ Len(Header(<<>>)) = 0
        <5>1. Header(<<>>) \in Seq(Entry) /\ Len(Header(<<>>)) <= Len(<<>>)
          BY <3>3, HeaderFacts
        <5>2. Len(Header(<<>>)) \in Nat
          BY <5>1, LenProperties
        <5>3. QED
          BY <3>3, <5>1, <5>2
      <4>2. Members(<<>>) \in Seq(Member) /\ Len(Members(<<>>)) = 0
        BY <3>3, <4>1, MembersFacts
      <4>3. QED
        BY <4>2
    <3>5. QED
      BY <3>2, <3>4
  <2>5. \A a \in Archives : a # Arch(p) => AbsStore'[a] = AbsStore[a]
    <3>1. \A a \in Archives : a # Arch(p) => dir'[a] = dir[a]
      BY <1>0, <2>2
    <3>2. QED
      BY <1>0, <1>1, <3>1, WriterStays
  <2>6. AbsStore' = [AbsStore EXCEPT ![Arch(p)] = <<>>]
    BY <1>0, <2>4, <2>5, StoreIs
  <2>7. QED
    BY <1>0, <2>3, <2>6 DEF Store!Create
<1>5. QED
  BY <1>1, <1>3, <1>4

\* rename() gives the work file the archive's name: the same members.
LEMMA RenameStores ==
    ASSUME TypeInv, TypeInv', OneWriter, Private, DraftInv, CurrentInv, [Running]_vars,
           NEW p \in Procs, p \in Writers, Rename(p)
    PROVE  AbsStore' = AbsStore
<1>0. /\ pc[p] = "rename" /\ Arch(p) \in Archives /\ ino' = ino /\ pc'[p] = "idle"
      /\ dir \in [FileNames -> Inodes \cup {NoIno}] /\ Archives \subseteq FileNames
      /\ NoIno \notin Inodes /\ Temp \notin Archives /\ Temp \in FileNames
      /\ loc[p].tfd.ino \in Inodes
  BY LocalFacts, ArchiverAssumption
  DEF Rename, Exit, Goto, Arch, TypeInv, TypeOK, FileNames, DraftInv, DraftOf, Draft, HasWork
<1>1. dir[Temp] = loc[p].tfd.ino /\ dir[Arch(p)] = NoIno
  BY <1>0 DEF Private, CurrentInv, CurrentOf, Current, Arch
<1>2. dir' = [dir EXCEPT ![Arch(p)] = dir[Temp], ![Temp] = NoIno]
  BY <1>0, <1>1 DEF Rename
<1>3. ASSUME NEW a \in Archives PROVE AbsStore'[a] = AbsStore[a]
  <2>1. Replacing(a)' = {}
    BY <1>0, OnlyReplacingNext
  <2>2. CASE a = Arch(p)
    <3>1. AbsStore[a] = Members(WorkFile(p))
      BY <1>0, <1>1, <2>2, OnlyReplacing, StoreAt
    <3>2. dir'[a] = loc[p].tfd.ino
      BY <1>0, <1>1, <1>2, <2>2
    <3>3. AbsStore'[a] = Members(ino[loc[p].tfd.ino])
      BY <1>0, <3>2, StoreAt
    <3>4. QED
      BY <3>1, <3>3 DEF WorkFile
  <2>3. CASE a # Arch(p)
    <3>1. dir'[a] = dir[a] /\ Replacing(a) = {}
      BY <1>0, <1>2, <2>3, OnlyReplacing
    <3>2. QED
      BY <1>0, <2>1, <3>1, StoreAt
  <2>4. QED
    BY <2>2, <2>3
<1>4. QED
  BY <1>3, StoreIs

AbsentIsNoArchive == Absent \notin Seq(Member)

\* The operators ArchiveStore takes from Places are this module's own.
LEMMA StorePicks == ASSUME NEW s, NEW S PROVE Store!Pick(s, S) = Pick(s, S)
  BY DEF Store!Pick, Store!Place, Store!Rank, Store!Cardinality, Pick, Place, Rank, Cardinality

LEMMA StoreTakes == ASSUME NEW p PROVE Store!Taken(Args(p)) = Pick(Args(p), Taken(p))
  BY StorePicks DEF Store!Taken, Taken, Regular

\* remove() is the moment the archive changes: from the members of the old
\* one to those of the work file.
LEMMA UnlinkStores ==
    ASSUME TypeInv, TypeInv', OneWriter, DataInv, CurrentInv, Regularly, AbsentIsNoArchive,
           [Running]_vars, NEW p \in Procs, p \in Writers, Unlink(p)
    PROVE  \E c \in Commands : \/ c.op = "input" /\ Store!Insert(c.arch, c.files)
                               \/ c.op = "remove" /\ Store!Drop(c.arch, c.files)
<1> DEFINE a == Arch(p)
           taken == Pick(Args(p), Taken(p))
           added == [i \in DOMAIN taken |-> [name |-> Base[taken[i]], data |-> disk[taken[i]].data]]
           s == Members(ArchFile(p))
           kept == Pick(s, {i \in DOMAIN s : s[i].name \notin ToSet(Args(p))})
<1>0. /\ pc[p] = "unlink" /\ Finishes(p) /\ loc[p].cmd \in Commands /\ a \in Archives
      /\ pc'[p] = "rename" /\ loc'[p] = loc[p] /\ ino' = ino /\ disk' = disk
      /\ dir' = [dir EXCEPT ![a] = NoIno]
      /\ dir \in [FileNames -> Inodes \cup {NoIno}] /\ Archives \subseteq FileNames
      /\ NoIno \notin Inodes
  BY LocalFacts, ArchiverAssumption
  DEF Unlink, Goto, Arch, TypeInv, TypeOK, FileNames, Finishes, Reached
<1>1. /\ DraftOf(p) /\ ListOf(p) /\ CopiedOf(p) /\ AnnouncedOf(p) /\ SourcedOf(p) /\ Formed
      /\ Private /\ ExactOpen
  BY DEF DataInv, DraftInv, ListInv, CopiedInv, AnnouncedInv, SourcedInv
<1>2. /\ loc[p].afd.ino \in Inodes /\ loc[p].tfd.ino \in Inodes /\ Op(p) \in {"input", "remove"}
      /\ ArchFile(p) \in Seq(Cell)
  BY <1>0, <1>1, PublishedWork DEF Finishes
<1>3. Fits(ArchFile(p)) /\ Fits(WorkFile(p)) /\ Exact(ArchFile(p))
  BY <1>1, <1>2 DEF Regularly, FilesFit, ExactOpen, ArchFile, WorkFile
<1>4. dir[a] = loc[p].afd.ino
  BY <1>0, <1>2 DEF CurrentInv, CurrentOf, Current, Arch
<1>5. AbsStore[a] = s /\ s # Absent
  <2>1. AbsStore[a] = s
    BY <1>0, <1>2, <1>4, StoreAt DEF ArchFile
  <2>2. s \in Seq(Member)
    BY <1>2, MembersFacts
  <2>3. QED
    BY <2>1, <2>2 DEF AbsentIsNoArchive
<1>6. AbsStore'[a] = Members(WorkFile(p))
  <2>1. PICK b \in Archives : b = a
    BY <1>0
  <2>2. dir'[b] = NoIno /\ Arch(p)' = b
    BY <1>0, <2>1 DEF Arch
  <2>3. Replacing(b)' = {p}
    BY <1>0, <2>2, OnlyReplacingNext
  <2>4. AbsStore'[b] = Members(ino'[loc'[p].tfd.ino])
    BY <2>2, <2>3, StoreAt
  <2>5. QED
    BY <1>0, <2>1, <2>4 DEF WorkFile
<1>7. \A b \in Archives : b # a => AbsStore'[b] = AbsStore[b]
  <2> SUFFICES ASSUME NEW b \in Archives, b # a PROVE AbsStore'[b] = AbsStore[b]
    OBVIOUS
  <2>1. Replacing(b) = {} /\ Replacing(b)' = {} /\ dir'[b] = dir[b]
    BY <1>0, OnlyReplacing, OnlyReplacingNext DEF Arch
  <2>2. QED
    BY <1>0, <2>1, StoreAt
<1>8. AbsStore' = [AbsStore EXCEPT ![a] = Members(WorkFile(p))]
  <2> HIDE DEF a
  <2>1. QED
    BY <1>0, <1>6, <1>7, StoreIs
<1>9. CASE Op(p) = "input"
  <2>1. AllReadable(Args(p), disk)
    BY <1>0, <1>9, ReadableArguments DEF Regularly, Finishes
  <2>2. taken # <<>> /\ Members(WorkFile(p)) = s \o added
    BY <1>0, <1>1, <1>3, <1>9, <2>1, InputAppends
  <2>3. Store!Held(a) = s
    BY <1>5 DEF Store!Held
  <2>4. Store!Insert(a, Args(p))
    BY <1>0, <1>8, <2>2, <2>3, StoreTakes DEF Store!Insert
  <2>5. QED
    BY <1>0, <1>9, <2>4 DEF Op, Arch, Args
<1>10. CASE Op(p) = "remove"
  <2>1. Members(WorkFile(p)) = kept
    BY <1>0, <1>1, <1>3, <1>10, RemovePicks
  <2>2. AbsStore[a] # Absent /\ AbsStore' = [AbsStore EXCEPT ![a] = kept]
    BY <1>5, <1>8, <2>1
  <2>3. kept = Store!Pick(AbsStore[a], {i \in DOMAIN AbsStore[a] :
                                          AbsStore[a][i].name \notin Store!ToSet(Args(p))})
    BY <1>5, StorePicks DEF Store!ToSet, ToSet
  <2>4. Store!Drop(a, Args(p))
    <3> HIDE DEF kept, a
    <3>1. QED
      BY <1>0, <2>2, <2>3 DEF Store!Drop
  <2>5. QED
    BY <1>0, <1>10, <2>4 DEF Op, Arch, Args
<1>11. QED
  BY <1>2, <1>9, <1>10

\* Every step of the program, on the archives: a step of ArchiveStore.
LEMMA StoreStep ==
    ASSUME TypeInv, TypeInv', OneWriter, DataInv, CurrentInv, Regularly, Undisturbed,
           AbsentIsNoArchive, [Running]_vars
    PROVE  [Store!Next]_(Store!vars)
<1>0. Private /\ DraftInv /\ \A p \in Writers : ~Refuse(p)
  BY DEF DataInv, Undisturbed
<1>1. ASSUME AbsStore' = AbsStore PROVE [Store!Next]_(Store!vars)
  BY <1>1 DEF Store!Next, Store!ChangeFiles, Store!vars
<1>2. \A q \in Procs : pc[q] = "rename" => q \in Writers
  BY DEF TypeInv, Reached, WritersOnly, WriterLabels
<1>3. ASSUME NEW p \in Procs, p \in Writers, Step(p) PROVE [Store!Next]_(Store!vars)
  <2>1. CASE OpenArchive(p)
    BY <1>0, <1>1, <1>3, <2>1, OpenStores DEF Store!Next
  <2>2. CASE Unlink(p)
    BY <1>3, <2>2, UnlinkStores DEF Store!Next
  <2>3. CASE Rename(p)
    BY <1>0, <1>1, <1>3, <2>3, RenameStores
  <2>4. CASE ~(OpenArchive(p) \/ Unlink(p) \/ Rename(p))
    <3>1. \A a \in Archives : dir'[a] = dir[a]
      BY <1>0, <1>3, <2>4, StepQuiet, OpenBinds DEF Quiet
    <3>2. pc'[p] # "rename"
      BY <1>3, <2>4, StepKeepsCommand DEF KeepsCommand
    <3>3. pc[p] # "rename"
      BY <1>0, <1>3, <2>4, Zenon DEF Step, OpenWork, ReadHeader, StatFile, MeasureFile, FilterHeader,
         WriteHeader, LocateData, CopyOld, OpenSource, CopySource, NextMember, CopyMember
    <3>4. \A q \in Procs : pc'[q] # "rename" /\ pc[q] # "rename"
      BY <1>2, <1>3, <3>2, <3>3, StepOthers DEF OthersStay, OneWriter
    <3>5. QED
      BY <1>0, <1>1, <3>1, <3>4, StoreStays
  <2>5. QED
    BY <2>1, <2>2, <2>3, <2>4
<1>4. ASSUME NEW p \in Procs, p \notin Writers, Step(p) PROVE [Store!Next]_(Store!vars)
  <2>1. dir' = dir /\ ino' = ino
    BY <1>4, ReadersKeepFiles
  <2>2. pc[p] # "rename" /\ pc[p] # "unlink"
    BY <1>4 DEF TypeInv, Reached, WritersOnly, WriterLabels
  <2>3. pc'[p] # "rename"
    BY <1>4, <2>2, StepKeepsCommand DEF KeepsCommand, Unlink
  <2>4. QED
    BY <1>0, <1>1, <1>4, <2>1, <2>2, <2>3, StepOthers, StoreStays DEF OthersStay
<1>5. ASSUME NEW p \in Procs, Start(p) \/ Crash(p) PROVE [Store!Next]_(Store!vars)
  <2>1. /\ dir' = dir /\ ino' = ino /\ pc'[p] # "rename"
        /\ \A q \in Procs : q # p => pc'[q] = pc[q] /\ loc'[q] = loc[q]
    BY <1>5 DEF Start, Crash, TypeInv, TypeOK
  <2>2. pc[p] # "rename"
    BY <1>2, <1>5 DEF Start, Undisturbed
  <2>3. QED
    BY <1>0, <1>1, <2>1, <2>2, StoreStays
<1>6. CASE UNCHANGED <<dir, ino, pc, loc>>
  BY <1>0, <1>1, <1>6, StoreStays
<1>7. QED
  BY <1>3, <1>4, <1>5, <1>6 DEF Running, Edit, Finished, vars

LEMMA InitStore == Init => Store!Init
<1> SUFFICES ASSUME Init PROVE Store!Init
  OBVIOUS
<1>1. \A a \in Archives : dir[a] = NoIno /\ Replacing(a) = {}
  BY DEF Init, Replacing
<1>2. \A a \in Archives : AbsStore[a] = Absent
  BY <1>1, StoreAt
<1>3. QED
  BY <1>2, StoreIs DEF Store!Init

\* The program keeps the archive it promises: where one writer that is not
\* killed, and whose open()s succeed, works on arguments that can be read and
\* that nobody changes, and no archive is emptied, -i appends and -r drops
\* exactly what ArchiveStore says at one moment, and nothing else changes it.
THEOREM StoreRefined ==
    OneWriter /\ AbsentIsNoArchive
        => (Spec /\ [][Undisturbed]_vars /\ []Regularly => StoreSpec)
<1> SUFFICES ASSUME OneWriter, AbsentIsNoArchive
             PROVE  Spec /\ [][Undisturbed]_vars /\ []Regularly => StoreSpec
  OBVIOUS
<1>1. Init => DataInv /\ CurrentInv /\ Store!Init
  BY InitData, InitCurrent, InitStore
<1>2. TypeInv /\ DataInv /\ CurrentInv /\ Regularly /\ [Undisturbed]_vars /\ [Next]_vars
          => DataInv' /\ CurrentInv'
  <2> SUFFICES ASSUME TypeInv, DataInv, CurrentInv, Regularly, [Undisturbed]_vars, [Next]_vars
               PROVE  DataInv' /\ CurrentInv'
    OBVIOUS
  <2>1. QED
    BY UndisturbedStep, NextData, NextCurrent
<1>3. TypeInv /\ TypeInv' /\ DataInv /\ CurrentInv /\ Regularly
          /\ [Undisturbed]_vars /\ [Next]_vars
          => [Store!Next]_(Store!vars)
  BY UndisturbedStep, StoreStep
<1>4. QED
  BY TypeInvariance, <1>1, <1>2, <1>3, PTL DEF Spec, StoreSpec, Store!Spec
=============================================================================
