---------------------------- MODULE Shmem_proofs ----------------------------
(***************************************************************************)
(* Proofs about Shmem, for any numbers of writers, readers and keys and    *)
(* with signals and kills at any moment.                                   *)
(*                                                                         *)
(* The invariant behind OneSource: a writer only has its own segment, so   *)
(* its segment and its buffer never hold another writer's string, and a    *)
(* reader that has read anything keeps the one segment it found.           *)
(* The invariant behind NothingLeft (CleanInv) says who will clean up: a   *)
(* live segment has an owner before the last steps of its handler, and     *)
(* while the file exists some writer has not got to its unlink().          *)
(***************************************************************************)
EXTENDS Shmem, TLAPS

OwnSegment == \A w \in Writers : shm[w] \in {None, w}

OwnString ==
    \A w \in Writers : \A h \in {1, 2} :
        buf[w][h].by \in {None, w} /\ seg[w].data[h].by \in {None, w}

ReadFromFound ==
    \A r \in Readers :
        /\ r \in attached => shm[r] # None
        /\ \A h \in {1, 2} : /\ buf[r][h].by \in {None, shm[r]}
                             /\ pc[r] = "get" => buf[r][h].by = None
                             /\ pc[r] = "ftok" => buf[r][h].by = None

Inv == TypeOK /\ OwnSegment /\ OwnString /\ ReadFromFound

-----------------------------------------------------------------------------
LEMMA BlankFacts == Blank \in Half /\ Blank.by = None
  BY DEF Blank, Half

\* What a step of process p to a label leaves alone.
LEMMA GotoFacts ==
    ASSUME TypeOK, NEW p \in Procs, NEW l \in Labels, Goto(p, l)
    PROVE  /\ pc' \in [Procs -> Labels] /\ pc'[p] = l
           /\ \A q \in Procs : q # p => pc'[q] = pc[q]
  BY DEF TypeOK, Goto

\* A writer's step that only moves it, attaches or detaches it, or changes
\* its handlers, the file or the keys.
LEMMA PlainWriterStep ==
    ASSUME Inv, NEW w \in Writers, NEW l \in Labels, Goto(w, l),
           UNCHANGED <<seg, shm, buf>>,
           attached' \in {attached, attached \cup {w}, attached \ {w}},
           file' \in Keys \cup {None}, key' \in [Procs -> Keys \cup {None}],
           installed' \in [Writers -> SUBSET Signals], caught' \in [Writers -> SUBSET Signals],
           kills' \in Nat
    PROVE  Inv'
<1>1. w \in Procs /\ \A r \in Readers : r \in Procs /\ r # w
  BY ShmemAssumption DEF Procs
<1>2. pc' \in [Procs -> Labels] /\ \A r \in Readers : pc'[r] = pc[r]
  BY <1>1, GotoFacts DEF Inv
<1>3. TypeOK'
  BY <1>1, <1>2 DEF Inv, TypeOK
<1>4. ReadFromFound'
  BY <1>1, <1>2 DEF Inv, ReadFromFound
<1>5. QED
  BY <1>3, <1>4 DEF Inv, OwnSegment, OwnString

\* A writer's step that changes its own segment or buffer.
LEMMA StringStep ==
    ASSUME Inv, NEW w \in Writers, NEW l \in Labels, Goto(w, l),
           UNCHANGED <<file, key, attached, installed, caught, kills>>,
           seg' \in [Writers -> Segment], buf' \in [Procs -> [{1, 2} -> Half]],
           shm' \in [Procs -> Writers \cup {None}],
           \A v \in Procs : v # w => shm'[v] = shm[v] /\ buf'[v] = buf[v],
           \A v \in Writers : v # w => seg'[v] = seg[v],
           shm'[w] \in {None, w},
           \A h \in {1, 2} : buf'[w][h].by \in {None, w} /\ seg'[w].data[h].by \in {None, w}
    PROVE  Inv'
<1>1. w \in Procs /\ \A r \in Readers : r \in Procs /\ r # w
  BY ShmemAssumption DEF Procs
<1>2. pc' \in [Procs -> Labels] /\ \A r \in Readers : pc'[r] = pc[r]
  BY <1>1, GotoFacts DEF Inv
<1>3. TypeOK'
  BY <1>2 DEF Inv, TypeOK
<1>4. OwnSegment' /\ OwnString'
  BY DEF Inv, OwnSegment, OwnString, Procs
<1>5. ReadFromFound'
  BY <1>1, <1>2 DEF Inv, ReadFromFound
<1>6. QED
  BY <1>3, <1>4, <1>5 DEF Inv

\* A reader's step that copies nothing.
LEMMA PlainReaderStep ==
    ASSUME Inv, NEW r \in Readers, NEW l \in Labels \ {"ftok"}, Goto(r, l),
           l = "get" => pc[r] = "ftok",
           UNCHANGED <<file, seg, buf, installed, caught, kills>>,
           key' \in [Procs -> Keys \cup {None}],
           shm' \in [Procs -> Writers \cup {None}],
           \A q \in Procs : q # r => shm'[q] = shm[q],
           shm'[r] = shm[r] \/ (pc[r] = "get" /\ shm'[r] # None),
           attached' \in {attached, attached \ {r}}
             \/ (attached' = attached \cup {r} /\ shm'[r] # None)
    PROVE  Inv'
<1>1. r \in Procs /\ \A w \in Writers : w \in Procs /\ r # w
  BY ShmemAssumption DEF Procs
<1>2. pc' \in [Procs -> Labels] /\ pc'[r] = l /\ \A q \in Procs : q # r => pc'[q] = pc[q]
  BY <1>1, GotoFacts DEF Inv
<1>3. TypeOK'
  BY <1>1, <1>2 DEF Inv, TypeOK
<1>4. OwnSegment' /\ OwnString'
  BY <1>1 DEF Inv, OwnSegment, OwnString
<1>5. \A q \in Readers : q \in attached' => shm'[q] # None
  BY <1>1 DEF Inv, ReadFromFound, Procs
<1>6. \A q \in Readers : \A h \in {1, 2} :
        /\ buf'[q][h].by \in {None, shm'[q]}
        /\ pc'[q] \in {"get", "ftok"} => buf'[q][h].by = None
  <2>1. TAKE q \in Readers, h \in {1, 2}
  <2>2. CASE q # r
    BY <1>2, <2>2 DEF Inv, ReadFromFound, Procs
  <2>3. CASE q = r
    BY <1>2, <2>3 DEF Inv, ReadFromFound
  <2>4. QED
    BY <2>2, <2>3
<1>7. QED
  BY <1>3, <1>4, <1>5, <1>6 DEF Inv, ReadFromFound

-----------------------------------------------------------------------------
LEMMA InitInv == Init => Inv
<1> SUFFICES ASSUME Init PROVE Inv
  OBVIOUS
<1>1. TypeOK
  BY BlankFacts, ShmemAssumption DEF Init, TypeOK, Segment, Labels
<1>2. QED
  BY <1>1, BlankFacts DEF Init, Inv, OwnSegment, OwnString, ReadFromFound, Procs

LEMMA FtokInv ==
    ASSUME Inv, NEW p \in Procs, Ftok(p)
    PROVE  Inv'
<1> DEFINE l == IF file = None THEN "failed" ELSE "get"
<1>1. key' \in [Procs -> Keys \cup {None}] /\ file \in Keys \cup {None} /\ kills \in Nat
      /\ installed \in [Writers -> SUBSET Signals] /\ caught \in [Writers -> SUBSET Signals]
  BY DEF Ftok, Inv, TypeOK
<1>2. l \in Labels /\ l # "ftok" /\ Goto(p, l) /\ pc[p] = "ftok"
  BY DEF Labels, Stopped, Ftok
<1>3. UNCHANGED <<file, seg, shm, attached, installed, caught, buf, kills>>
  BY DEF Ftok
<1> HIDE DEF l
<1>4. CASE p \in Writers
  BY <1>1, <1>2, <1>3, <1>4, PlainWriterStep
<1>5. CASE p \in Readers
  BY <1>1, <1>2, <1>3, <1>5, PlainReaderStep DEF Inv, TypeOK
<1>6. QED
  BY <1>4, <1>5 DEF Procs

LEMMA WriterStepInv ==
    ASSUME Inv, NEW w \in Writers, WriterStep(w)
    PROVE  Inv'
<1>1. /\ w \in Procs /\ TypeOK /\ shm[w] \in {None, w}
      /\ \A h \in {1, 2} : buf[w][h].by \in {None, w} /\ seg[w].data[h].by \in {None, w}
  BY DEF Procs, Inv, OwnSegment, OwnString
<1>2. CASE OpenFile(w)
  <2>1. PICK l \in {"ftok", "failed"} :
          /\ Goto(w, l) /\ file' \in Keys \cup {None}
          /\ UNCHANGED <<seg, key, shm, attached, installed, caught, buf, kills>>
    BY <1>1, <1>2 DEF OpenFile, TypeOK
  <2>2. QED
    BY <1>1, <2>1, PlainWriterStep DEF Labels, Stopped, TypeOK
<1>3. CASE Ftok(w)
  BY <1>1, <1>3, FtokInv
<1>4. CASE CreateSegment(w)
  <2>1. CASE /\ seg' = [seg EXCEPT ![w].state = "live", ![w].key = key[w]]
             /\ shm' = [shm EXCEPT ![w] = w] /\ Goto(w, "attach")
    <3>1. /\ seg' = [seg EXCEPT ![w].state = "live", ![w].key = key[w]]
          /\ shm' = [shm EXCEPT ![w] = w] /\ Goto(w, "attach")
          /\ UNCHANGED <<file, key, attached, installed, caught, buf, kills>>
      BY <1>4, <2>1 DEF CreateSegment
    <3>2. seg' \in [Writers -> Segment] /\ seg'[w].data = seg[w].data
      BY <1>1, <3>1 DEF TypeOK, Segment
    <3>3. QED
      BY <1>1, <3>1, <3>2, StringStep DEF TypeOK, Labels
  <2>2. ASSUME NEW l \in {"refused", "failed"}, Goto(w, l), UNCHANGED <<seg, shm>>
        PROVE  Inv'
    BY <1>1, <1>4, <2>2, PlainWriterStep DEF CreateSegment, Labels, Stopped, TypeOK
  <2>3. QED
    BY <1>4, <2>1, <2>2 DEF CreateSegment
<1>5. CASE AttachWriter(w)
  <2>1. PICK l \in {"sigterm", "refused"} :
          /\ Goto(w, l) /\ attached' \in {attached, attached \cup {w}}
          /\ UNCHANGED <<file, seg, key, shm, installed, caught, buf, kills>>
    BY <1>5 DEF AttachWriter
  <2>2. QED
    BY <1>1, <2>1, PlainWriterStep DEF Labels, Stopped, TypeOK
<1>6. CASE InstallHandler(w, "TERM", "sigterm", "sigint") \/ InstallHandler(w, "INT", "sigint", "clear")
  <2>1. PICK s \in Signals, l \in {"sigint", "clear"} :
          /\ installed' = [installed EXCEPT ![w] = @ \cup {s}] /\ Goto(w, l)
          /\ UNCHANGED <<file, seg, key, shm, attached, caught, buf, kills>>
    BY <1>6 DEF InstallHandler, Signals
  <2>2. installed' \in [Writers -> SUBSET Signals]
    BY <1>1, <2>1 DEF TypeOK
  <2>3. QED
    BY <1>1, <2>1, <2>2, PlainWriterStep DEF Labels, TypeOK
<1>7. CASE Clear(w)
  <2>1. [h \in {1, 2} |-> Blank] \in [{1, 2} -> Half]
    BY BlankFacts
  <2> DEFINE d == [h \in {1, 2} |-> Blank]
  <2>2. \A h \in {1, 2} : d[h].by = None
    BY BlankFacts
  <2>3. /\ seg' = [seg EXCEPT ![shm[w]].data = d] /\ Goto(w, "compose")
        /\ UNCHANGED <<file, key, shm, attached, installed, caught, buf, kills>>
    BY <1>7 DEF Clear
  <2> HIDE DEF d
  <2>4. d \in [{1, 2} -> Half]
    BY <2>1 DEF d
  <2>5. CASE shm[w] = None
    <3>1. seg' = seg
      BY <1>1, <2>3, <2>5, ShmemAssumption DEF TypeOK
    <3>2. QED
      BY <1>1, <2>3, <3>1, StringStep DEF TypeOK, Labels
  <2>6. CASE shm[w] = w
    <3>1. seg' \in [Writers -> Segment] /\ seg'[w].data = d
          /\ \A v \in Writers : v # w => seg'[v] = seg[v]
      BY <1>1, <2>3, <2>4, <2>6 DEF TypeOK, Segment
    <3>2. QED
      BY <1>1, <2>2, <2>3, <3>1, StringStep DEF TypeOK, Labels
  <2>7. QED
    BY <1>1, <2>5, <2>6
<1>8. CASE Compose(w)
  <2> DEFINE s == Stamp(w, 1 - buf[w][1].at)
             d == [h \in {1, 2} |-> s]
  <2>1. s \in Half /\ s.by = w
    <3>1. buf[w][1].at \in {0, 1}
      BY <1>1 DEF TypeOK, Half
    <3>2. 1 - buf[w][1].at \in {0, 1}
      BY <3>1
    <3>3. QED
      BY <3>2 DEF Stamp, Half
  <2>2. /\ buf' = [buf EXCEPT ![w] = d] /\ Goto(w, "copy1")
        /\ UNCHANGED <<file, seg, key, shm, attached, installed, caught, kills>>
    BY <1>8 DEF Compose
  <2> HIDE DEF s
  <2>3. buf' \in [Procs -> [{1, 2} -> Half]] /\ \A h \in {1, 2} : buf'[w][h].by = w
    BY <1>1, <2>1, <2>2 DEF TypeOK
  <2>4. QED
    BY <1>1, <2>2, <2>3, StringStep DEF TypeOK, Labels
<1>9. ASSUME NEW g \in {1, 2}, NEW l \in {"copy2", "compose"}, NEW k, WriteHalf(w, g, k, l)
      PROVE  Inv'
  <2> DEFINE s == buf[w][g]
  <2>1. s \in Half /\ s.by \in {None, w}
    BY <1>1 DEF TypeOK
  <2>2. /\ seg' = [seg EXCEPT ![shm[w]].data[g] = s] /\ Goto(w, l)
        /\ UNCHANGED <<file, key, shm, attached, installed, caught, buf, kills>>
    BY <1>9 DEF WriteHalf
  <2> HIDE DEF s
  <2>3. CASE shm[w] = None
    <3>1. seg' = seg
      BY <1>1, <2>2, <2>3, ShmemAssumption DEF TypeOK
    <3>2. QED
      BY <1>1, <2>2, <3>1, StringStep DEF TypeOK, Labels
  <2>4. CASE shm[w] = w
    <3> DEFINE d == [seg[w].data EXCEPT ![g] = s]
    <3>1. d \in [{1, 2} -> Half] /\ \A h \in {1, 2} : d[h].by \in {None, w}
      BY <1>1, <2>1 DEF TypeOK, Segment
    <3>2. seg' = [seg EXCEPT ![w].data = d]
      BY <1>1, <2>2, <2>4 DEF TypeOK, Segment
    <3> HIDE DEF d
    <3>3. seg' \in [Writers -> Segment] /\ seg'[w].data = d
      BY <1>1, <3>1, <3>2 DEF TypeOK, Segment
    <3>4. QED
      BY <1>1, <2>2, <3>1, <3>2, <3>3, StringStep DEF TypeOK, Labels
  <2>5. QED
    BY <1>1, <2>3, <2>4
<1>10. CASE Detach(w)
  BY <1>1, <1>10, PlainWriterStep DEF Detach, After, Labels, TypeOK
<1>11. CASE RemoveSegment(w)
  <2>1. /\ seg' = [seg EXCEPT ![shm[w]].state = "removed"] /\ Goto(w, "unlink")
        /\ UNCHANGED <<file, key, shm, attached, installed, caught, buf, kills>>
    BY <1>11 DEF RemoveSegment, After
  <2>2. seg' \in [Writers -> Segment] /\ (\A v \in Writers : v # w => seg'[v] = seg[v])
        /\ seg'[w].data = seg[w].data
    BY <1>1, <2>1, ShmemAssumption DEF TypeOK, Segment
  <2>3. QED
    BY <1>1, <2>1, <2>2, StringStep DEF TypeOK, Labels
<1>12. CASE UnlinkFile(w)
  BY <1>1, <1>12, PlainWriterStep DEF UnlinkFile, After, Labels, Stopped, TypeOK
<1>13. QED
  BY <1>2, <1>3, <1>4, <1>5, <1>6, <1>7, <1>8, <1>9, <1>10, <1>11, <1>12 DEF WriterStep

LEMMA SignalInv ==
    ASSUME Inv, NEW w \in Writers, Kill(w) \/ \E s \in Signals : Signal(w, s)
    PROVE  Inv'
<1>1. TypeOK
  BY DEF Inv
<1>2. CASE Kill(w)
  BY <1>1, <1>2, PlainWriterStep DEF Kill, End, Labels, Stopped, TypeOK
<1>3. ASSUME NEW s \in Signals, Signal(w, s) PROVE Inv'
  <2>1. caught' \in [Writers -> SUBSET Signals]
    BY <1>1, <1>3 DEF Signal, TypeOK
  <2>2. QED
    BY <1>1, <1>3, <2>1, PlainWriterStep DEF Signal, End, Labels, Stopped, TypeOK
<1>4. QED
  BY <1>2, <1>3

LEMMA ReaderStepInv ==
    ASSUME Inv, NEW r \in Readers, ReaderStep(r) \/ StopReader(r)
    PROVE  Inv'
<1>1. r \in Procs /\ TypeOK
  BY DEF Procs, Inv
<1>2. CASE Ftok(r)
  BY <1>1, <1>2, FtokInv
<1>3. CASE FindSegment(r)
  <2>1. shm' = shm \/ \E v \in Writers : shm' = [shm EXCEPT ![r] = v]
    BY <1>3 DEF FindSegment, Found
  <2>2. shm' \in [Procs -> Writers \cup {None}] /\ (\A q \in Procs : q # r => shm'[q] = shm[q])
        /\ (shm'[r] = shm[r] \/ shm'[r] # None)
    BY <1>1, <2>1, ShmemAssumption DEF TypeOK
  <2>3. QED
    BY <1>1, <1>3, <2>2, PlainReaderStep DEF FindSegment, Labels, TypeOK
<1>4. CASE AttachReader(r)
  <2>1. /\ Goto(r, "copy1") /\ UNCHANGED <<file, seg, key, shm, installed, caught, buf, kills>>
        /\ \/ attached' = attached \cup {r} /\ shm[r] # None
           \/ attached' = attached
    BY <1>4 DEF AttachReader
  <2>2. QED
    BY <1>1, <2>1, PlainReaderStep DEF Labels, TypeOK
<1>5. ASSUME NEW g \in {1, 2}, NEW l \in {"copy1", "copy2"}, NEW k, ReadHalf(r, g, k, l)
      PROVE  Inv'
  <2>1. CASE r \notin attached
    BY <1>1, <1>5, <2>1, PlainReaderStep DEF ReadHalf, Labels, Stopped, TypeOK
  <2>2. CASE r \in attached
    <3> DEFINE s == seg[shm[r]].data[g]
    <3>1. shm[r] \in Writers
      BY <1>1, <2>2 DEF Inv, ReadFromFound, TypeOK
    <3>2. s \in Half /\ s.by \in {None, shm[r]}
      BY <1>1, <3>1 DEF TypeOK, Segment, Inv, OwnString
    <3>3. /\ buf' = [buf EXCEPT ![r][g] = s] /\ Goto(r, l)
          /\ UNCHANGED <<file, seg, key, shm, attached, installed, caught, kills>>
      BY <1>5, <2>2 DEF ReadHalf
    <3> HIDE DEF s
    <3>4. /\ pc' \in [Procs -> Labels] /\ pc'[r] = l
          /\ \A q \in Procs : q # r => pc'[q] = pc[q]
      BY <1>1, <3>3, GotoFacts DEF Labels
    <3>5. /\ buf' \in [Procs -> [{1, 2} -> Half]] /\ \A q \in Procs : q # r => buf'[q] = buf[q]
          /\ \A h \in {1, 2} : buf'[r][h] \in {buf[r][h], s}
      BY <1>1, <3>2, <3>3 DEF TypeOK
    <3>6. TypeOK'
      BY <1>1, <3>3, <3>4, <3>5 DEF TypeOK
    <3>7. \A w \in Writers : w \in Procs /\ w # r
      BY ShmemAssumption DEF Procs
    <3>8. OwnSegment' /\ OwnString'
      BY <3>3, <3>5, <3>7 DEF Inv, OwnSegment, OwnString
    <3>9. ReadFromFound'
      <4>1. SUFFICES ASSUME NEW q \in Readers
                     PROVE  /\ q \in attached' => shm'[q] # None
                            /\ \A h \in {1, 2} : /\ buf'[q][h].by \in {None, shm'[q]}
                                                 /\ pc'[q] = "get" => buf'[q][h].by = None
                                                 /\ pc'[q] = "ftok" => buf'[q][h].by = None
        BY DEF ReadFromFound
      <4>2. CASE q = r
        BY <3>2, <3>3, <3>4, <3>5, <4>2 DEF Inv, ReadFromFound
      <4>3. CASE q # r
        BY <3>3, <3>4, <3>5, <4>3 DEF Inv, ReadFromFound, Procs
      <4>4. QED
        BY <4>2, <4>3
    <3>10. QED
      BY <3>6, <3>8, <3>9 DEF Inv
  <2>3. QED
    BY <2>1, <2>2
<1>6. CASE StopReader(r)
  BY <1>1, <1>6, PlainReaderStep DEF StopReader, End, Labels, Stopped, TypeOK
<1>7. QED
  BY <1>2, <1>3, <1>4, <1>5, <1>6 DEF ReaderStep

LEMMA StutterInv == Inv /\ UNCHANGED vars => Inv'
  BY DEF Inv, TypeOK, OwnSegment, OwnString, ReadFromFound, vars

THEOREM Invariance == Spec => []Inv
<1>1. Inv /\ [Next]_vars => Inv'
  BY WriterStepInv, SignalInv, ReaderStepInv, StutterInv DEF Next, Finished
<1>2. QED
  BY InitInv, <1>1, PTL DEF Spec

\* Type correctness: in particular what a process uses as a shmid is one.
THEOREM TypeCorrect == Spec => []TypeOK
  BY Invariance, PTL DEF Inv

\* A reader never mixes the strings of two writers, however many writers
\* create, remove and unlink, and wherever signals hit them.
THEOREM NeverMixed == Spec => []OneSource
<1>1. Inv => OneSource
  BY DEF Inv, ReadFromFound, OneSource
<1>2. QED
  BY Invariance, <1>1, PTL

-----------------------------------------------------------------------------
(* What a writer leaves behind.                                            *)

\* Labels at which a writer has no segment that is live, and those at which
\* it is not (or no longer) the one that is to unlink the file.
NoSegment == {"open", "ftok", "get", "unlink", "exited", "failed", "faulted"}
NoFile == {"open", "exited", "failed", "faulted"}

\* A live segment has an owner whose handler would remove it (or who was
\* killed or refused), and while the file exists some writer is still to
\* unlink it (or was killed or refused).
Owned(w) == seg[w].state = "live" => shm[w] = w /\ pc[w] \notin NoSegment

Tended == file # None => \E w \in Writers : pc[w] \notin NoFile

CleanInv == (\A w \in Writers : Owned(w)) /\ Tended

\* A writer's step to label l that leaves the other segments alone.
LEMMA CleanStep ==
    ASSUME Inv, CleanInv, NEW w \in Writers, NEW l \in Labels, Goto(w, l),
           \A v \in Writers : v # w => seg'[v].state = seg[v].state /\ shm'[v] = shm[v],
           seg'[w].state = "live" => shm'[w] = w /\ l \notin NoSegment,
           \/ file' = None
           \/ l \notin NoFile
           \/ \E v \in Writers : v # w /\ pc[v] \notin NoFile
    PROVE  CleanInv'
<1>1. w \in Procs /\ \A v \in Writers : v \in Procs
  BY DEF Procs
<1>2. pc'[w] = l /\ \A v \in Writers : v # w => pc'[v] = pc[v]
  BY <1>1, GotoFacts DEF Inv
<1>3. \A v \in Writers : Owned(v)'
  BY <1>2 DEF CleanInv, Owned
<1>4. Tended'
  BY <1>2 DEF Tended
<1>5. QED
  BY <1>3, <1>4 DEF CleanInv

\* A step that leaves every segment alone and moves its writer to a label
\* where it may have both.
LEMMA CleanMove ==
    ASSUME Inv, CleanInv, NEW w \in Writers, NEW l \in Labels, Goto(w, l), UNCHANGED shm,
           \A v \in Writers : seg'[v].state = seg[v].state,
           l \notin NoFile, l \in NoSegment => pc[w] \in NoSegment
    PROVE  CleanInv'
  BY CleanStep DEF CleanInv, Owned

LEMMA WriterStepClean ==
    ASSUME Inv, CleanInv, NEW w \in Writers, WriterStep(w)
    PROVE  CleanInv'
<1>1. /\ w \in Procs /\ TypeOK /\ shm[w] \in {None, w} /\ None \notin Writers
      /\ seg \in [Writers -> Segment] /\ shm \in [Procs -> Writers \cup {None}]
  BY ShmemAssumption DEF Procs, Inv, OwnSegment, TypeOK
<1>2. CASE OpenFile(w)
  <2>1. CASE Goto(w, "ftok")
    BY <1>2, <2>1, CleanMove DEF OpenFile, Labels, NoFile, NoSegment
  <2>2. CASE Goto(w, "failed") /\ UNCHANGED file
    <3>1. UNCHANGED <<seg, shm>> /\ pc[w] = "open"
      BY <1>2 DEF OpenFile
    <3>2. seg[w].state # "live"
      BY <3>1 DEF CleanInv, Owned, NoSegment
    <3>3. file' = None \/ \E v \in Writers : v # w /\ pc[v] \notin NoFile
      BY <2>2, <3>1 DEF CleanInv, Tended, NoFile
    <3>4. QED
      BY <2>2, <3>1, <3>2, <3>3, CleanStep DEF Labels, Stopped
  <2>3. QED
    BY <1>2, <2>1, <2>2 DEF OpenFile
<1>3. CASE Ftok(w)
  <2>1. CASE file = None
    <3>1. Goto(w, "failed") /\ UNCHANGED <<file, seg, shm>> /\ pc[w] = "ftok"
      BY <1>3, <2>1 DEF Ftok
    <3>2. seg[w].state # "live"
      BY <3>1 DEF CleanInv, Owned, NoSegment
    <3>3. QED
      BY <2>1, <3>1, <3>2, CleanStep DEF Labels, Stopped
  <2>2. CASE file # None
    BY <1>3, <2>2, CleanMove DEF Ftok, Labels, NoFile, NoSegment
  <2>3. QED
    BY <2>1, <2>2
<1>4. CASE CreateSegment(w)
  <2>1. seg[w].state # "live" /\ UNCHANGED file
    BY <1>4 DEF CreateSegment, CleanInv, Owned, NoSegment
  <2>2. CASE /\ seg' = [seg EXCEPT ![w].state = "live", ![w].key = key[w]]
             /\ shm' = [shm EXCEPT ![w] = w] /\ Goto(w, "attach")
    <3>1. /\ seg' = [seg EXCEPT ![w].state = "live", ![w].key = key[w]]
          /\ shm' = [shm EXCEPT ![w] = w] /\ Goto(w, "attach")
      BY <2>2
    <3>2. /\ shm'[w] = w
          /\ \A v \in Writers : v # w => seg'[v].state = seg[v].state /\ shm'[v] = shm[v]
      BY <1>1, <3>1 DEF Procs
    <3>3. QED
      BY <3>1, <3>2, CleanStep DEF Labels, NoFile, NoSegment
  <2>3. CASE Found(key[w]) # {} /\ Goto(w, "failed") /\ UNCHANGED <<seg, shm>>
    <3>1. Goto(w, "failed") /\ UNCHANGED <<seg, shm>>
      BY <2>3
    <3>2. PICK v \in Writers : seg[v].state = "live"
      BY <2>3 DEF Found
    <3>3. v # w /\ pc[v] \notin NoFile
      BY <2>1, <3>2 DEF CleanInv, Owned, NoFile, NoSegment
    <3>4. QED
      BY <2>1, <3>1, <3>3, CleanStep DEF Labels, Stopped
  <2>4. CASE Goto(w, "refused") /\ UNCHANGED <<seg, shm>>
    BY <2>1, <2>4, CleanStep DEF Labels, Stopped, NoFile
  <2>5. QED
    BY <1>4, <2>2, <2>3, <2>4 DEF CreateSegment
<1>5. CASE AttachWriter(w)
  <2>1. PICK l \in {"sigterm", "refused"} : Goto(w, l) /\ UNCHANGED <<seg, shm>>
    BY <1>5 DEF AttachWriter
  <2>2. QED
    BY <2>1, CleanMove DEF Labels, Stopped, NoFile, NoSegment
<1>6. CASE InstallHandler(w, "TERM", "sigterm", "sigint") \/ InstallHandler(w, "INT", "sigint", "clear")
  BY <1>6, CleanMove DEF InstallHandler, Labels, NoFile, NoSegment
<1>7. CASE Clear(w)
  <2>1. /\ Goto(w, "compose") /\ UNCHANGED shm
        /\ seg' = [seg EXCEPT ![shm[w]].data = [h \in {1, 2} |-> Blank]]
    BY <1>7 DEF Clear
  <2>2. \A v \in Writers : seg'[v].state = seg[v].state
    BY <1>1, <2>1 DEF Segment
  <2>3. QED
    BY <2>1, <2>2, CleanMove DEF Labels, NoFile, NoSegment
<1>8. CASE Compose(w)
  BY <1>8, CleanMove DEF Compose, Labels, NoFile, NoSegment
<1>9. ASSUME NEW g \in {1, 2}, NEW l \in {"copy2", "compose"}, NEW k, WriteHalf(w, g, k, l)
      PROVE  CleanInv'
  <2>1. /\ Goto(w, l) /\ UNCHANGED shm
        /\ seg' = [seg EXCEPT ![shm[w]].data[g] = buf[w][g]]
    BY <1>9 DEF WriteHalf
  <2>2. \A v \in Writers : seg'[v].state = seg[v].state
    BY <1>1, <2>1 DEF Segment
  <2>3. QED
    BY <2>1, <2>2, CleanMove DEF Labels, NoFile, NoSegment
<1>10. CASE Detach(w)
  BY <1>10, CleanMove DEF Detach, After, Labels, NoFile, NoSegment
<1>11. CASE RemoveSegment(w)
  <2>1. /\ seg' = [seg EXCEPT ![shm[w]].state = "removed"] /\ Goto(w, "unlink")
        /\ UNCHANGED <<file, shm>> /\ pc[w] = "remove"
    BY <1>11 DEF RemoveSegment, After
  <2>2. seg'[w].state # "live"
    <3>1. CASE shm[w] = w
      BY <1>1, <2>1, <3>1 DEF Segment
    <3>2. CASE shm[w] = None
      BY <1>1, <2>1, <3>2 DEF Segment, CleanInv, Owned
    <3>3. QED
      BY <1>1, <3>1, <3>2
  <2>3. \A v \in Writers : v # w => seg'[v].state = seg[v].state
    BY <1>1, <2>1 DEF Segment
  <2>4. QED
    BY <2>1, <2>2, <2>3, CleanStep DEF Labels, NoFile
<1>12. CASE UnlinkFile(w)
  <2>1. Goto(w, "exited") /\ file' = None /\ UNCHANGED <<seg, shm>> /\ pc[w] = "unlink"
    BY <1>12 DEF UnlinkFile, After
  <2>2. seg[w].state # "live"
    BY <2>1 DEF CleanInv, Owned, NoSegment
  <2>3. QED
    BY <2>1, <2>2, CleanStep DEF Labels, Stopped
<1>13. QED
  BY <1>2, <1>3, <1>4, <1>5, <1>6, <1>7, <1>8, <1>9, <1>10, <1>11, <1>12 DEF WriterStep

LEMMA SignalClean ==
    ASSUME Inv, CleanInv, NEW w \in Writers, Kill(w) \/ \E s \in Signals : Signal(w, s)
    PROVE  CleanInv'
<1>1. \E l \in {"detach", "killed"} : Goto(w, l) /\ UNCHANGED <<shm, seg, file>>
  BY DEF Kill, Signal, End
<1>2. QED
  BY <1>1, CleanMove DEF Labels, Stopped, NoFile, NoSegment

LEMMA ReaderStepClean ==
    ASSUME Inv, CleanInv, NEW r \in Readers, ReaderStep(r) \/ StopReader(r)
    PROVE  CleanInv'
<1>1. /\ pc \in [Procs -> Labels] /\ shm \in [Procs -> Writers \cup {None}]
      /\ \A w \in Writers : w \in Procs /\ w # r
  BY ShmemAssumption DEF Procs, Inv, TypeOK
<1>2. /\ UNCHANGED <<file, seg>>
      /\ \E l : Goto(r, l)
      /\ UNCHANGED shm \/ \E v : shm' = [shm EXCEPT ![r] = v]
  BY DEF ReaderStep, Ftok, FindSegment, AttachReader, ReadHalf, StopReader, End
<1>3. \A w \in Writers : pc'[w] = pc[w] /\ shm'[w] = shm[w]
  BY <1>1, <1>2 DEF Goto
<1>4. QED
  BY <1>2, <1>3 DEF CleanInv, Owned, Tended

LEMMA InitClean == Init => CleanInv
<1> SUFFICES ASSUME Init PROVE CleanInv
  OBVIOUS
<1>1. ASSUME NEW w \in Writers PROVE Owned(w)
  <2>1. seg[w].state = "none"
    BY DEF Init
  <2>2. QED
    BY <2>1 DEF Owned
<1>2. Tended
  BY DEF Init, Tended
<1>3. QED
  BY <1>1, <1>2 DEF CleanInv

\* A segment that outlives its writer, and the file when it outlives all of
\* them, were left by one that was killed or refused (writer.c:66-77): in any
\* number of writers, whatever signals they get, no two that clean up or find
\* the segment taken leave anything between them.
THEOREM CleanedUp == Spec => []NothingLeft
<1>1. Inv /\ CleanInv /\ [Next]_vars => CleanInv'
  <2> SUFFICES ASSUME Inv, CleanInv, [Next]_vars PROVE CleanInv'
    OBVIOUS
  <2>1. CASE UNCHANGED vars
    BY <2>1 DEF CleanInv, Owned, Tended, vars
  <2>2. QED
    BY <2>1, WriterStepClean, SignalClean, ReaderStepClean DEF Next, Finished
<1>2. CleanInv => NothingLeft
  BY DEF CleanInv, Owned, Tended, NothingLeft, Abandoned, Stopped, NoSegment, NoFile
<1>3. QED
  BY Invariance, InitClean, <1>1, <1>2, PTL DEF Spec
=============================================================================
