------------------------- MODULE PthreadMutex_proofs -------------------------
(***************************************************************************)
(* Proofs about PthreadMutex for any number of readers and any limit.      *)
(*                                                                         *)
(* The inductive invariant is Inv: the mutex is held by exactly the thread *)
(* that is between lock and unlock, and the label of the writer determines *)
(* what str and num are.                                                   *)
(***************************************************************************)
EXTENDS PthreadMutex, TLAPS

\* str_mx is held by t exactly while t is between lock and unlock.
OwnerInside == \A t \in Threads : InCriticalSection(t) <=> owner = t

\* Outside its critical section, and before it changes str, the writer left
\* str at the number it has reached.
AtRest ==
    /\ num < Limit
    /\ str = IF num = 0 THEN Empty ELSE Number(num)

WriterString ==
    /\ pc[Writer] \in {"absent", "lock", "sleep", "increment"} => AtRest
    /\ pc[Writer] \in {"format", "formatting"} => num \in 1 .. Limit /\ str # Done
    /\ pc[Writer] = "unlock" => num \in 1 .. Limit - 1 /\ str = Number(num)
    /\ pc[Writer] \in {"formatDone", "formattingDone"} => num = Limit /\ str # Done
    /\ pc[Writer] \in {"leave", "returning", "returned"} => num = Limit /\ str = Done

ReaderString ==
    \A r \in Readers :
        /\ pc[r] = "print" => str = checked[r] /\ str # Done
        /\ pc[r] \in {"leave", "returning", "returned"} =>
              str = Done /\ pc[Writer] \in {"returning", "returned"}
        /\ printed[r].n <= num

\* Threads that main() has not come to do not exist.
Created ==
    /\ main = "createWriter" => i = 1 /\ \A t \in Threads : pc[t] = "absent"
    /\ main = "createReaders" => \A r \in Readers : r >= i => pc[r] = "absent"

\* While main() joins, the first i - 1 readers have returned.
Joined ==
    /\ main = "joinReaders" => \A r \in 1 .. i - 1 : pc[r] = "returned"
    /\ main = "exited" => \A t \in Threads : pc[t] = "returned"

Inv == TypeOK /\ OwnerInside /\ WriterString /\ ReaderString /\ Created /\ Joined

USE PthreadAssumption

LEMMA InitInv == Init => Inv
  BY DEF Init, Inv, TypeOK, OwnerInside, InCriticalSection, AtRest, WriterString, ReaderString,
         Created, Joined, Writer, Readers, Threads, NoOne, Number, Empty, Torn, Done, Strings,
         ReaderLabels, WriterLabels

\* main() creates and joins threads and touches nothing they share.
LEMMA MainInv == Inv /\ MainStep => Inv'
<1> SUFFICES ASSUME Inv, MainStep PROVE Inv'
  OBVIOUS
<1> USE DEF Inv, Writer, Readers, Threads
<1> USE DEF CreateWriter, CreateReader, CreateReaderFails, AllCreated, JoinReader, JoinWriter
<1>1. TypeOK'
  BY DEF MainStep, TypeOK, ReaderLabels, WriterLabels
<1>2. OwnerInside'
  BY DEF MainStep, TypeOK, Created, OwnerInside, InCriticalSection, NoOne
<1>3. WriterString'
  BY DEF MainStep, TypeOK, Created, WriterString, AtRest
<1>4. ReaderString'
  BY DEF MainStep, TypeOK, Created, ReaderString
<1>5. Created'
  BY DEF MainStep, TypeOK, Created
<1>6. Joined'
  BY DEF MainStep, TypeOK, Joined
<1>7. QED
  BY <1>1, <1>2, <1>3, <1>4, <1>5, <1>6

\* The number of a string a reader may find in str.
LEMMA StringFacts ==
    /\ Empty \in Strings /\ Torn \in Strings /\ Done \in Strings
    /\ Empty.n = 0 /\ Done # Empty /\ Done # Torn
    /\ \A n \in 1 .. Limit : Number(n) \in Strings /\ Number(n).n = n /\ Number(n) # Done
  BY DEF Strings, Number, Empty, Torn, Done

\* While a reader holds the mutex, str is a finished string: the writer's
\* last number below Limit, the empty string before the first one, or "done".
LEMMA FinishedString ==
    ASSUME Inv, NEW r \in Readers, InCriticalSection(r)
    PROVE  /\ pc[Writer] \in {"absent", "lock", "sleep", "returning", "returned"}
           /\ owner = r
           /\ str # Done => AtRest /\ str.n = num
           /\ str = Done => num = Limit /\ pc[Writer] \in {"returning", "returned"}
<1>1. owner = r /\ r # Writer /\ ~InCriticalSection(Writer)
  BY DEF Inv, OwnerInside, TypeOK, Readers, Threads, Writer
<1>2. pc[Writer] \in {"absent", "lock", "sleep", "returning", "returned"}
  BY <1>1 DEF InCriticalSection
<1>3. AtRest => str # Done /\ str.n = num
  BY StringFacts DEF Inv, AtRest, TypeOK
<1>4. QED
  BY <1>1, <1>2, <1>3 DEF Inv, WriterString

LEMMA ReaderInv == ASSUME Inv, Running, NEW r \in Readers, ReaderStep(r) PROVE Inv'
<1> USE DEF Inv, Writer, Readers, Threads, Move, Running
<1>1. CASE ReaderLock(r)
  <2> USE <1>1 DEF ReaderLock, Lock
  <2>1. TypeOK' /\ Created'
    BY DEF TypeOK, Created, ReaderLabels
  <2>2. OwnerInside'
    BY DEF TypeOK, OwnerInside, InCriticalSection, NoOne
  <2>3. WriterString' /\ ReaderString' /\ Joined'
    BY DEF TypeOK, WriterString, AtRest, ReaderString, Joined
  <2>4. QED
    BY <2>1, <2>2, <2>3
<1>2. CASE Check(r)
  <2> USE <1>2 DEF Check
  <2>1. TypeOK' /\ Created'
    BY DEF TypeOK, Created, ReaderLabels
  <2>2. OwnerInside'
    BY DEF TypeOK, OwnerInside, InCriticalSection, NoOne
  <2>3. ReaderString'
    BY FinishedString DEF TypeOK, ReaderString, InCriticalSection
  <2>4. WriterString' /\ Joined'
    BY DEF TypeOK, WriterString, AtRest, Joined
  <2>5. QED
    BY <2>1, <2>2, <2>3, <2>4
<1>3. CASE PrintString(r)
  <2> USE <1>3 DEF PrintString
  <2>1. TypeOK' /\ Created'
    BY DEF TypeOK, Created, ReaderLabels
  <2>2. OwnerInside'
    BY DEF TypeOK, OwnerInside, InCriticalSection, NoOne
  <2>3. str.n = num
    BY FinishedString DEF ReaderString, InCriticalSection
  <2>4. ReaderString'
    BY <2>3 DEF TypeOK, ReaderString
  <2>5. WriterString' /\ Joined'
    BY DEF TypeOK, WriterString, AtRest, Joined
  <2>6. QED
    BY <2>1, <2>2, <2>4, <2>5
<1>4. CASE ReaderUnlock(r)
  <2> USE <1>4 DEF ReaderUnlock, Unlock
  <2>1. TypeOK' /\ Created'
    <3>1. TypeOK'
      BY DEF TypeOK, ReaderLabels, NoOne
    <3>2. Created'
      BY DEF TypeOK, Created
    <3>3. QED
      BY <3>1, <3>2
  <2>2. OwnerInside'
    BY DEF TypeOK, OwnerInside, InCriticalSection, NoOne
  <2>3. WriterString' /\ ReaderString' /\ Joined'
    BY DEF TypeOK, WriterString, AtRest, ReaderString, Joined
  <2>4. QED
    BY <2>1, <2>2, <2>3
<1>5. CASE Wake(r) \/ Return(r)
  <2> USE <1>5 DEF Wake, Return
  <2>1. TypeOK' /\ Created' /\ OwnerInside'
    <3>1. TypeOK'
      BY DEF TypeOK, ReaderLabels
    <3>2. Created'
      BY DEF TypeOK, Created
    <3>3. OwnerInside'
      BY DEF TypeOK, OwnerInside, InCriticalSection, NoOne
    <3>4. QED
      BY <3>1, <3>2, <3>3
  <2>2. WriterString' /\ ReaderString' /\ Joined'
    BY DEF TypeOK, WriterString, AtRest, ReaderString, Joined
  <2>3. QED
    BY <2>1, <2>2
<1>6. QED
  BY <1>1, <1>2, <1>3, <1>4, <1>5 DEF ReaderStep

\* While the writer holds the mutex, no reader is between lock and unlock.
LEMMA ReadersOutside ==
    ASSUME Inv, InCriticalSection(Writer)
    PROVE  \A r \in Readers : pc[r] \in {"absent", "lock", "sleep", "returning", "returned"}
  BY DEF Inv, OwnerInside, InCriticalSection, TypeOK, Readers, Threads, Writer

LEMMA WriterInv == ASSUME Inv, Running, WriterStep PROVE Inv'
<1> USE DEF Inv, Writer, Readers, Threads, Move, Running
<1>1. CASE WriterLock
  <2> USE <1>1 DEF WriterLock, Lock
  <2>1. TypeOK' /\ Created' /\ OwnerInside'
    BY DEF TypeOK, Created, OwnerInside, InCriticalSection, WriterLabels, NoOne
  <2>2. WriterString' /\ ReaderString' /\ Joined'
    BY DEF TypeOK, WriterString, AtRest, ReaderString, Joined
  <2>3. QED
    BY <2>1, <2>2
<1>2. CASE Increment
  <2> USE <1>2 DEF Increment
  <2>1. num \in 0 .. Limit - 1 /\ str # Done
    BY StringFacts DEF TypeOK, WriterString, AtRest
  <2>2. TypeOK' /\ Created' /\ OwnerInside'
    BY <2>1 DEF TypeOK, Created, OwnerInside, InCriticalSection, WriterLabels, NoOne
  <2>3. \A r \in Readers : printed[r].n \in Nat
    BY DEF TypeOK, Strings, Number, Empty, Torn, Done
  <2>4. ReaderString'
    BY <2>1, <2>3 DEF TypeOK, ReaderString
  <2>5. WriterString' /\ Joined'
    BY <2>1 DEF TypeOK, WriterString, Joined
  <2>6. QED
    BY <2>2, <2>4, <2>5
<1>3. CASE StartFormat
  <2> USE <1>3 DEF StartFormat
  <2>1. TypeOK' /\ Created' /\ OwnerInside'
    BY StringFacts DEF TypeOK, Created, OwnerInside, InCriticalSection, WriterLabels, NoOne
  <2>2. WriterString' /\ Joined'
    BY StringFacts DEF TypeOK, WriterString, Joined
  <2>3. ReaderString'
    BY ReadersOutside, StringFacts
    DEF TypeOK, InCriticalSection, ReaderString, WriterString
  <2>4. QED
    BY <2>1, <2>2, <2>3
<1>4. CASE FinishNumber
  <2> USE <1>4 DEF FinishNumber
  <2>1. num \in 1 .. Limit /\ str # Done
    BY DEF TypeOK, WriterString
  <2>2. TypeOK' /\ Created' /\ OwnerInside'
    BY <2>1, StringFacts DEF TypeOK, Created, OwnerInside, InCriticalSection, WriterLabels, NoOne
  <2>3. WriterString' /\ Joined'
    BY <2>1, StringFacts DEF TypeOK, WriterString, Joined
  <2>4. ReaderString'
    BY <2>1, ReadersOutside, StringFacts DEF TypeOK, InCriticalSection, ReaderString
  <2>5. QED
    BY <2>2, <2>3, <2>4
<1>5. CASE FinishDone
  <2> USE <1>5 DEF FinishDone
  <2>1. TypeOK' /\ Created' /\ OwnerInside'
    BY StringFacts DEF TypeOK, Created, OwnerInside, InCriticalSection, WriterLabels, NoOne
  <2>2. WriterString' /\ Joined'
    BY DEF TypeOK, WriterString, Joined
  <2>3. ReaderString'
    BY ReadersOutside DEF TypeOK, InCriticalSection, ReaderString
  <2>4. QED
    BY <2>1, <2>2, <2>3
<1>6. CASE WriterUnlock
  <2> USE <1>6 DEF WriterUnlock, Unlock
  <2>1. TypeOK' /\ Created' /\ OwnerInside'
    BY DEF TypeOK, Created, OwnerInside, InCriticalSection, WriterLabels, NoOne
  <2>2. WriterString' /\ ReaderString' /\ Joined'
    BY DEF TypeOK, WriterString, AtRest, ReaderString, Joined
  <2>3. QED
    BY <2>1, <2>2
<1>7. CASE Wake(Writer) \/ Return(Writer)
  <2> USE <1>7 DEF Wake, Return
  <2>1. TypeOK' /\ Created' /\ OwnerInside'
    <3>1. TypeOK'
      BY DEF TypeOK, WriterLabels
    <3>2. Created'
      BY DEF TypeOK, Created
    <3>3. OwnerInside'
      BY DEF TypeOK, OwnerInside, InCriticalSection, NoOne
    <3>4. QED
      BY <3>1, <3>2, <3>3
  <2>2. WriterString' /\ ReaderString' /\ Joined'
    BY DEF TypeOK, WriterString, AtRest, ReaderString, Joined
  <2>3. QED
    BY <2>1, <2>2
<1>8. QED
  BY <1>1, <1>2, <1>3, <1>4, <1>5, <1>6, <1>7 DEF WriterStep

LEMMA StutterInv == Inv /\ UNCHANGED vars => Inv'
  BY DEF Inv, vars, TypeOK, OwnerInside, InCriticalSection, WriterString, AtRest, ReaderString,
         Created, Joined

\* The strengthened invariant holds in every reachable state.
THEOREM Invariance == Spec => []Inv
<1>1. Inv /\ [Next]_vars => Inv'
  BY MainInv, WriterInv, ReaderInv, StutterInv DEF Next, Ended
<1>2. QED
  BY InitInv, <1>1, PTL DEF Spec

\* The variables keep their types, and the counter that the writer compares
\* with == never passes Limit.
THEOREM TypeCorrect == Spec => []TypeOK
  BY Invariance, PTL DEF Inv

\* At most one thread is between pthread_mutex_lock and pthread_mutex_unlock,
\* for any number of readers.
THEOREM Exclusion == Spec => []MutualExclusion
<1>1. Inv => MutualExclusion
  BY DEF Inv, OwnerInside, MutualExclusion
<1>2. QED
  BY Invariance, <1>1, PTL

\* No reader prints a string under construction, "done", or the number Limit
\* that the writer replaces before it unlocks.
THEOREM PrintsChecked == Spec => []PrintsCheckedString
<1>1. Inv => PrintsCheckedString
  <2> SUFFICES ASSUME Inv, NEW r \in Readers, pc[r] = "print"
               PROVE  /\ str = checked[r]
                      /\ str \in {Empty} \cup { Number(n) : n \in 1 .. Limit - 1 }
    BY DEF PrintsCheckedString
  <2>1. str = checked[r] /\ str # Done
    BY DEF Inv, ReaderString
  <2>2. AtRest /\ num \in 0 .. Limit - 1
    BY <2>1, FinishedString DEF InCriticalSection, AtRest, Inv, TypeOK
  <2>3. QED
    BY <2>1, <2>2 DEF AtRest
<1>2. QED
  BY Invariance, <1>1, PTL

\* A reader returns only after "done", and when the process exits normally
\* every thread has returned.
THEOREM ReturnsLast == Spec => []ReturnsAfterDone
<1>1. Inv => ReturnsAfterDone
  <2> SUFFICES ASSUME Inv PROVE ReturnsAfterDone
    OBVIOUS
  <2>1. str = Done => num = Limit /\ pc[Writer] \in {"leave", "returning", "returned"}
    <3>1. AtRest => str # Done
      BY StringFacts DEF AtRest, Inv, TypeOK
    <3>2. num \in 1 .. Limit - 1 => Number(num) # Done
      BY StringFacts
    <3>3. QED
      BY <3>1, <3>2 DEF Inv, TypeOK, WriterString, WriterLabels
  <2>2. QED
    BY <2>1 DEF Inv, ReaderString, Joined, ReturnsAfterDone
<1>2. QED
  BY Invariance, <1>1, PTL

\* The numbers a reader prints never decrease.
THEOREM PrintsInOrder == Spec => PrintedInOrder
<1>1. Inv /\ [Next]_vars => [\A r \in Readers : printed'[r].n >= printed[r].n]_vars
  <2> SUFFICES ASSUME Inv, Next, NEW r \in Readers PROVE printed'[r].n >= printed[r].n
    OBVIOUS
  <2>1. printed[r].n \in Nat /\ num \in Nat
    BY DEF Inv, TypeOK, Strings, Number, Empty, Torn, Done
  <2>2. CASE \E q \in Readers : PrintString(q)
    <3>1. PICK q \in Readers : PrintString(q)
      BY <2>2
    <3>2. str.n = num
      BY <3>1, FinishedString DEF PrintString, Move, Inv, ReaderString, InCriticalSection
    <3>3. QED
      BY <2>1, <3>1, <3>2 DEF PrintString, Inv, TypeOK, ReaderString
  <2>3. CASE ~\E q \in Readers : PrintString(q)
    <3>1. printed' = printed
      BY <2>3 DEF Next, MainStep, CreateWriter, CreateReader, CreateReaderFails, AllCreated,
         JoinReader, JoinWriter, Ended, vars, ReaderStep, ReaderLock, Lock, Check,
         ReaderUnlock, Unlock, Wake, Return, WriterStep, WriterLock, Increment, StartFormat,
         FinishNumber, FinishDone, WriterUnlock
    <3>2. QED
      BY <2>1, <3>1
  <2>4. QED
    BY <2>2, <2>3
<1>2. QED
  BY Invariance, <1>1, PTL DEF Spec, PrintedInOrder
=============================================================================
