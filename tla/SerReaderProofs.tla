--------------------------- MODULE SerReaderProofs ---------------------------
(***************************************************************************)
(* Proofs about the OS/2 serial port, for rings of any size and any number *)
(* of bytes.  The types hold in every build and on every machine.  That    *)
(* bytes come out in order, and that silence is real, is proved for a      *)
(* Reader whose loop is not interrupted and an index that moves in one     *)
(* store; SerReader_preempt.cfg shows what happens without the first, and  *)
(* without the second a full ring looks like one with room.  On the same   *)
(* terms the ring, step by step, is the port of BytePort.                  *)
(***************************************************************************)
EXTENDS SerReader, SequenceTheorems, TLAPS

\* What the code relies on: one processor, and no intermediate index.  (Both
\* builds are covered: eventSem is a variable of the specification.)
Single == ~Preempt /\ ~Split

\* The mask, as arithmetic.
LEMMA NextIndexFacts ==
  ASSUME NEW i \in Slot
  PROVE  /\ NextIndex(i) \in Slot
         /\ NextIndex(i) = IF i + 1 = BSIZE THEN 0 ELSE i + 1
BY SizeAssumption DEF NextIndex, Slot

\* The mask leaves an index of the ring alone.
LEMMA MaskFacts ==
  ASSUME NEW i \in 0 .. BSIZE
  PROVE  /\ i % BSIZE \in Slot
         /\ i # BSIZE => i % BSIZE = i
BY SizeAssumption DEF Slot

-----------------------------------------------------------------------------
\* Types hold initially.
LEMMA InitType == Init => TypeOK
BY SizeAssumption, BytesAssumption, KindAssumption DEF Init, TypeOK, Slot, NoData

\* Every step of Reader keeps the types.
LEMMA ReaderType == TypeOK /\ Reader /\ UNCHANGED eventSem => TypeOK'
<1> SUFFICES ASSUME TypeOK, Reader, UNCHANGED eventSem PROVE TypeOK'
  OBVIOUS
<1> USE SizeAssumption, BytesAssumption DEF TypeOK, ring
<1>1. CASE ReadByte
  <2>1. NextIndex(add) \in Slot
    BY NextIndexFacts
  <2>2. QED
    BY <1>1, <2>1 DEF ReadByte
<1>2. CASE CheckFull
  BY <1>2 DEF CheckFull
<1>3. CASE Store
  BY <1>3 DEF Store
<1>4. CASE Publish
  BY <1>4 DEF Publish
<1>5. CASE Post
  BY <1>5 DEF Post
<1>6. QED
  BY <1>1, <1>2, <1>3, <1>4, <1>5 DEF Reader

\* Every step of WaitByte keeps the types.
LEMMA WaitByteType == TypeOK /\ WaitByte /\ UNCHANGED eventSem => TypeOK'
<1> SUFFICES ASSUME TypeOK, WaitByte, UNCHANGED eventSem PROVE TypeOK'
  OBVIOUS
<1> USE SizeAssumption, BytesAssumption, KindAssumption DEF TypeOK, ring, reader
<1>1. CASE Call
  BY <1>1 DEF Call, Calling
<1>2. CASE Test
  BY <1>2 DEF Test, GotByte, NoByte
<1>3. CASE SetSem
  BY <1>3 DEF SetSem, SemBeforeWait
<1>4. CASE Wake
  BY <1>4 DEF Wake, GotByte
<1>5. CASE TimeOut
  BY <1>5 DEF TimeOut, NoData
<1>6. CASE Reset
  BY <1>6 DEF Reset
<1>7. CASE Load
  <2>1. buff[remove] \in 0 .. MaxBytes
    BY <1>7 DEF Load, Slot
  <2>2. QED
    BY <1>7, <2>1 DEF Load
<1>8. CASE Bump
  <2>1. remove \in Slot
    BY <1>8 DEF Bump, Slot
  <2>2. NextIndex(remove) \in Slot
    BY <2>1, NextIndexFacts
  <2>3. remove' \in 0 .. BSIZE /\ (remove' = BSIZE => Split)
    BY <1>8, <2>1, <2>2 DEF Bump, Slot
  <2>4. QED
    BY <1>8, <2>3 DEF Bump
<1>9. CASE Mask
  <2>1. remove % BSIZE \in Slot
    BY MaskFacts
  <2>2. remove' \in 0 .. BSIZE /\ remove' # BSIZE
    BY <1>9, <2>1 DEF Mask, Slot
  <2>3. QED
    BY <1>9, <2>2 DEF Mask
<1>10. QED
  BY <1>1, <1>2, <1>3, <1>4, <1>5, <1>6, <1>7, <1>8, <1>9 DEF WaitByte

\* A step that changes nothing keeps the types.
LEMMA StutterType == TypeOK /\ UNCHANGED vars => TypeOK'
BY DEF TypeOK, vars, ring, reader

\* Both indices stay inside the ring, except between the increment and the mask,
\* in either build and however the two threads interleave.
THEOREM TypeCorrect == Spec => []TypeOK
<1>1. TypeOK /\ [Next]_vars => TypeOK'
  BY ReaderType, WaitByteType, StutterType DEF Next
<1>2. QED
  BY <1>1, InitType, PTL DEF Spec
-----------------------------------------------------------------------------
\* The ring starts out empty.
LEMMA InitInv == Init => IndInv
<1> SUFFICES ASSUME Init PROVE IndInv
  OBVIOUS
<1>1. TypeOK
  BY InitType
<1>2. \A i \in Slot : ~Live(i)
  BY DEF Init, Live, Pos, Count, Slot
<1>3. InHand /\ Sorted
  BY <1>2 DEF Init, InHand, Sorted
<1>4. Signalled
  BY KindAssumption DEF Init, Signalled
<1>5. QED
  BY <1>1, <1>3, <1>4 DEF IndInv

\* Without the intermediate index, both indices are slots.
LEMMA IndexFacts ==
  ASSUME Single, TypeOK
  PROVE  add \in Slot /\ remove \in Slot /\ BSIZE \in Nat /\ BSIZE > 2
BY SizeAssumption DEF Single, TypeOK, Slot

\* Only a ring in which the two indices meet is empty.
LEMMA CountFacts ==
  ASSUME Single, TypeOK
  PROVE  Count \in 0 .. BSIZE - 1 /\ (Count = 0 <=> add = remove)
BY IndexFacts DEF Count, Slot

\* The oldest byte is the one WaitByte takes.
LEMMA OldestFacts ==
  ASSUME Single, TypeOK, Count > 0
  PROVE  Pos(remove) = 0 /\ Live(remove)
BY IndexFacts DEF Pos, Live, Slot

\* Publishing a byte adds its slot at the new end of the ring.
LEMMA PublishFacts ==
  ASSUME Single, TypeOK, TypeOK', remove' = remove,
         add' = NextIndex(add), NextIndex(add) # remove
  PROVE  /\ Count' = Count + 1 /\ Pos(add) = Count
         /\ \A i \in Slot : /\ Pos(i)' = Pos(i)
                            /\ Live(i)' <=> Live(i) \/ i = add
<1>1. add' = IF add + 1 = BSIZE THEN 0 ELSE add + 1
  BY IndexFacts, NextIndexFacts
<1>2. Count' = Count + 1 /\ Pos(add) = Count
  BY <1>1, IndexFacts DEF Count, Pos, Slot
<1>3. ASSUME NEW i \in Slot
      PROVE  Pos(i)' = Pos(i) /\ (Pos(i) = Pos(add) => i = add)
  BY <1>3, IndexFacts DEF Pos, Slot
<1>4. ASSUME NEW i \in Slot
      PROVE  Pos(i) \in Nat /\ Count \in Nat
  BY <1>4, IndexFacts DEF Pos, Count, Slot
<1>5. ASSUME NEW i \in Slot
      PROVE  Live(i)' <=> Live(i) \/ i = add
  BY <1>2, <1>3, <1>4, <1>5 DEF Live
<1>6. QED
  BY <1>2, <1>3, <1>5

\* Taking a byte removes the oldest slot; the others move up by one.
LEMMA TakeFacts ==
  ASSUME Single, TypeOK, TypeOK', add' = add, Count > 0,
         remove' = NextIndex(remove)
  PROVE  /\ Count' = Count - 1
         /\ \A i \in Slot : /\ Live(i)' <=> Live(i) /\ i # remove
                            /\ i # remove => Pos(i)' = Pos(i) - 1
<1>1. remove' = IF remove + 1 = BSIZE THEN 0 ELSE remove + 1
  BY IndexFacts, NextIndexFacts
<1>2. Count' = Count - 1
  BY <1>1, IndexFacts DEF Count, Slot
<1>3. ASSUME NEW i \in Slot
      PROVE  /\ i # remove => Pos(i)' = Pos(i) - 1
             /\ i = remove => Pos(i)' = BSIZE - 1
             /\ Pos(i) \in Nat /\ (Pos(i) = 0 => i = remove)
  BY <1>1, <1>3, IndexFacts DEF Pos, Slot
<1>4. Count \in 0 .. BSIZE - 1
  BY CountFacts
<1>5. ASSUME NEW i \in Slot
      PROVE  Live(i)' <=> Live(i) /\ i # remove
  BY <1>2, <1>3, <1>4, <1>5, SizeAssumption DEF Live
<1>6. QED
  BY <1>2, <1>3, <1>5

\* As long as neither index moves, the same slots are live, in the same order.
LEMMA SameRing ==
  ASSUME add' = add, remove' = remove
  PROVE  Count' = Count /\ \A i \in Slot : Pos(i)' = Pos(i) /\ Live(i)' = Live(i)
BY DEF Count, Pos, Live
-----------------------------------------------------------------------------
\* Every step of Reader keeps the invariant.
LEMMA ReaderInv == Single /\ IndInv /\ Reader /\ UNCHANGED eventSem => IndInv'
<1> SUFFICES ASSUME Single, IndInv, Reader, UNCHANGED eventSem PROVE IndInv'
  OBVIOUS
<1>1. TypeOK /\ InHand /\ Sorted /\ Signalled /\ TypeOK'
  BY ReaderType DEF IndInv
<1>2. n \in Nat /\ data \in Nat /\ \A i \in Slot : buff[i] \in Nat
  BY <1>1, BytesAssumption DEF TypeOK
<1>3. add \in Slot /\ remove \in Slot /\ Count \in Nat /\ (Count = 0 <=> add = remove)
  BY <1>1, IndexFacts, CountFacts
<1>4. CASE ReadByte
  <2>1. Count' = Count /\ \A i \in Slot : Pos(i)' = Pos(i) /\ Live(i)' = Live(i)
    BY <1>4, SameRing DEF ReadByte, ring
  <2>2. \A i \in Slot : Live(i) => buff[i] <= n
    BY <1>1, <1>4 DEF ReadByte, InHand
  <2>3. data < n + 1
    BY <1>1, <1>2, <1>4 DEF ReadByte, InHand
  <2>4. newIndex' = NextIndex(add)'
    BY <1>4 DEF ReadByte, ring, NextIndex
  <2>5. InHand'
    BY <1>2, <1>4, <2>1, <2>2, <2>3, <2>4 DEF ReadByte, InHand, ring
  <2>6. Sorted'
    BY <1>1, <1>4, <2>1 DEF ReadByte, Sorted, ring
  <2>7. Signalled'
    BY <1>1, <1>4, <2>1 DEF ReadByte, Signalled
  <2>8. QED
    BY <1>1, <2>5, <2>6, <2>7 DEF IndInv
<1>5. CASE CheckFull
  <2>1. Count' = Count /\ \A i \in Slot : Pos(i)' = Pos(i) /\ Live(i)' = Live(i)
    BY <1>5, SameRing DEF CheckFull, ring
  <2>2. newIndex' = NextIndex(add)' /\ data' < n'
    BY <1>1, <1>5 DEF CheckFull, InHand, NextIndex, ring
  <2>3. \A i \in Slot : Live(i) => buff[i] < n
    BY <1>1, <1>5 DEF CheckFull, InHand
  <2>4. InHand'
    BY <1>2, <1>5, <2>1, <2>2, <2>3 DEF CheckFull, InHand, Full, ring
  <2>5. Sorted'
    BY <1>1, <1>5, <2>1 DEF CheckFull, Sorted, ring
  <2>6. newIndex = remove => Count > 1
    <3>1. newIndex = NextIndex(add)
      BY <1>1, <1>5 DEF CheckFull, InHand
    <3>2. newIndex = IF add + 1 = BSIZE THEN 0 ELSE add + 1
      BY <1>3, <3>1, NextIndexFacts
    <3>3. QED
      BY <1>3, <3>2, SizeAssumption DEF Count, Slot
  <2>7. Signalled'
    BY <1>1, <1>3, <1>5, <2>1, <2>6 DEF CheckFull, Signalled, Full, ring
  <2>8. QED
    BY <1>1, <2>4, <2>5, <2>7 DEF IndInv
<1>6. CASE Store
  <2>1. Count' = Count /\ \A i \in Slot : Pos(i)' = Pos(i) /\ Live(i)' = Live(i)
    BY <1>6, SameRing DEF Store
  <2>2. ~Live(add)
    BY <1>3, CountFacts, <1>1 DEF Live, Pos, Count, Slot
  <2>3. \A i \in Slot : Live(i) => buff'[i] = buff[i]
    BY <1>1, <1>6, <2>2 DEF Store, TypeOK
  <2>4. buff'[add] = n
    BY <1>1, <1>3, <1>6 DEF Store, TypeOK
  <2>5. newIndex' = NextIndex(add)' /\ data' < n' /\ newIndex' # remove'
    BY <1>1, <1>6 DEF Store, InHand, NextIndex
  <2>6. \A i \in Slot : Live(i) => buff[i] < n
    BY <1>1, <1>6 DEF Store, InHand
  <2>7. InHand'
    BY <1>1, <1>2, <1>6, <2>1, <2>3, <2>4, <2>5, <2>6 DEF Store, InHand
  <2>8. Sorted'
    BY <1>1, <1>6, <2>1, <2>3 DEF Store, Sorted
  <2>9. Signalled'
    BY <1>1, <1>6, <2>1 DEF Store, Signalled
  <2>10. QED
    BY <1>1, <2>7, <2>8, <2>9 DEF IndInv
<1>7. CASE Publish
  <2>1. newIndex = NextIndex(add) /\ newIndex # remove /\ buff[add] = n /\ data < n
    BY <1>1, <1>7 DEF Publish, InHand
  <2>2. /\ Count' = Count + 1 /\ Pos(add) = Count
        /\ \A i \in Slot : /\ Pos(i)' = Pos(i)
                           /\ Live(i)' <=> Live(i) \/ i = add
    BY <1>1, <1>7, <2>1, PublishFacts DEF Publish
  <2>3. \A i \in Slot : Live(i) => buff[i] < n
    BY <1>1, <1>7 DEF Publish, InHand
  <2>4. InHand'
    BY <1>2, <1>7, <2>1, <2>2, <2>3 DEF Publish, InHand
  <2>5. \A i, j \in Slot : Live(i)' /\ Live(j)' /\ Pos(i)' < Pos(j)' => buff[i] < buff[j]
    <3> SUFFICES ASSUME NEW i \in Slot, NEW j \in Slot,
                        Live(i)', Live(j)', Pos(i)' < Pos(j)'
                 PROVE  buff[i] < buff[j]
      OBVIOUS
    <3>1. Pos(i) < Pos(j) /\ Pos(i) \in Int
      BY <1>3, <2>2, SizeAssumption DEF Pos, Slot
    <3>2. CASE i = add
      <4>1. i # j
        BY <3>1
      <4>2. Live(j)
        BY <2>2, <3>2, <4>1
      <4>3. Pos(j) < Count /\ Pos(j) \in Int
        BY <1>3, <4>2, SizeAssumption DEF Live, Pos, Slot
      <4>4. QED
        BY <1>3, <2>2, <3>1, <3>2, <4>3
    <3>3. CASE i # add /\ j = add
      BY <2>1, <2>2, <2>3, <3>3
    <3>4. CASE i # add /\ j # add
      BY <1>1, <2>2, <3>1, <3>4 DEF Sorted
    <3>5. QED
      BY <3>2, <3>3, <3>4
  <2>6. \A i \in Slot : Live(i)' /\ (wpc = "bump" => i # remove) => data < buff[i]
    BY <1>1, <2>1, <2>2 DEF Sorted
  <2>7. Sorted'
    BY <1>7, <2>5, <2>6 DEF Publish, Sorted
  <2>8. Signalled'
    BY <1>1, <1>3, <1>7, <2>2 DEF Publish, Signalled
  <2>9. QED
    BY <1>1, <2>4, <2>7, <2>8 DEF IndInv
<1>8. CASE Post
  <2>1. Count' = Count /\ \A i \in Slot : Pos(i)' = Pos(i) /\ Live(i)' = Live(i)
    BY <1>8, SameRing DEF Post, ring
  <2>2. InHand'
    BY <1>1, <1>8, <2>1 DEF Post, InHand, ring
  <2>3. Sorted'
    BY <1>1, <1>8, <2>1 DEF Post, Sorted, ring
  <2>4. Signalled'
    BY <1>1, <1>8, <2>1 DEF Post, Signalled
  <2>5. QED
    BY <1>1, <2>2, <2>3, <2>4 DEF IndInv
<1>9. QED
  BY <1>4, <1>5, <1>6, <1>7, <1>8 DEF Reader
-----------------------------------------------------------------------------
\* Every step of WaitByte keeps the invariant: it meets Reader between two bytes.
LEMMA WaitByteInv == Single /\ IndInv /\ WaitByte /\ UNCHANGED eventSem => IndInv'
<1> SUFFICES ASSUME Single, IndInv, WaitByte, UNCHANGED eventSem PROVE IndInv'
  OBVIOUS
<1>1. TypeOK /\ InHand /\ Sorted /\ Signalled /\ TypeOK'
  BY WaitByteType DEF IndInv
<1>2. n \in Nat /\ data \in Nat /\ \A i \in Slot : buff[i] \in Nat
  BY <1>1, BytesAssumption DEF TypeOK
<1>3. add \in Slot /\ remove \in Slot /\ Count \in Nat /\ (Count = 0 <=> add = remove)
  BY <1>1, IndexFacts, CountFacts
<1>4. eventSem \in BOOLEAN
  BY <1>1 DEF TypeOK
<1>5. CASE \/ Call \/ Test \/ SetSem \/ Wake \/ TimeOut \/ Reset
  <2>1. UNCHANGED <<ring, reader, data>> /\ wpc # "bump" /\ wpc' # "bump"
    BY <1>5 DEF Call, Test, SetSem, Wake, TimeOut, Reset, GotByte, NoByte, reader, ring
  <2>2. Count' = Count /\ \A i \in Slot : Pos(i)' = Pos(i) /\ Live(i)' = Live(i)
    BY <2>1, SameRing DEF ring
  <2>3. InHand'
    BY <1>1, <2>1, <2>2 DEF InHand, NextIndex, ring, reader
  <2>4. Sorted'
    BY <1>1, <2>1, <2>2 DEF Sorted, ring
  <2>5. Signalled'
    <3>1. CASE Call
      BY <1>1, <2>1, <2>2, <3>1 DEF Call, Signalled, reader
    <3>2. CASE Test
      BY <1>1, <1>3, <1>4, <2>1, <2>2, <3>2 DEF Test, GotByte, NoByte, Signalled, reader
    <3>3. CASE SetSem
      BY <1>1, <2>1, <2>2, <3>3 DEF SetSem, SemBeforeWait, Signalled, reader
    <3>4. CASE Wake
      BY <1>1, <1>4, <2>1, <2>2, <3>4 DEF Wake, GotByte, Signalled, reader
    <3>5. CASE TimeOut
      BY <1>1, <2>1, <2>2, <3>5 DEF TimeOut, Signalled, reader
    <3>6. CASE Reset
      BY <1>1, <1>4, <2>1, <2>2, <3>6 DEF Reset, Runs, Single, Signalled, reader
    <3>7. QED
      BY <1>5, <3>1, <3>2, <3>3, <3>4, <3>5, <3>6
  <2>6. QED
    BY <1>1, <2>3, <2>4, <2>5 DEF IndInv
<1>6. CASE Load
  <2>1. Count' = Count /\ \A i \in Slot : Pos(i)' = Pos(i) /\ Live(i)' = Live(i)
    BY <1>6, SameRing DEF Load, ring
  <2>2. Count > 0 /\ rpc = "read"
    BY <1>1, <1>6 DEF Load, Runs, Single, Signalled
  <2>3. Pos(remove) = 0 /\ Live(remove)
    BY <1>1, <2>2, OldestFacts
  <2>4. data' = buff[remove] /\ buff[remove] <= n
    BY <1>1, <1>3, <1>6, <2>2, <2>3 DEF Load, InHand
  <2>5. InHand'
    BY <1>1, <1>6, <2>1, <2>2, <2>4 DEF Load, InHand, ring, reader
  <2>6. \A i \in Slot : Live(i) /\ i # remove => buff[remove] < buff[i]
    <3> SUFFICES ASSUME NEW i \in Slot, Live(i), i # remove
                 PROVE  buff[remove] < buff[i]
      OBVIOUS
    <3>1. Pos(i) > 0
      BY <1>3, SizeAssumption DEF Pos, Slot
    <3>2. QED
      BY <1>1, <1>3, <2>3, <3>1 DEF Sorted
  <2>7. Sorted'
    BY <1>1, <1>6, <2>1, <2>4, <2>6 DEF Load, Sorted, ring
  <2>8. Signalled'
    BY <1>1, <1>6, <2>1 DEF Load, Signalled, reader
  <2>9. QED
    BY <1>1, <2>5, <2>7, <2>8 DEF IndInv
<1>7. CASE Bump
  <2>1. Count > 0 /\ rpc = "read" /\ remove' = NextIndex(remove)
    BY <1>1, <1>7 DEF Bump, Runs, Single, Signalled
  <2>2. /\ Count' = Count - 1
        /\ \A i \in Slot : /\ Live(i)' <=> Live(i) /\ i # remove
                           /\ i # remove => Pos(i)' = Pos(i) - 1
    BY <1>1, <1>7, <2>1, TakeFacts DEF Bump
  <2>3. InHand'
    BY <1>1, <1>7, <2>1, <2>2 DEF Bump, InHand, reader
  <2>4. \A i, j \in Slot : Live(i)' /\ Live(j)' /\ Pos(i)' < Pos(j)' => buff[i] < buff[j]
    <3> SUFFICES ASSUME NEW i \in Slot, NEW j \in Slot,
                        Live(i)', Live(j)', Pos(i)' < Pos(j)'
                 PROVE  buff[i] < buff[j]
      OBVIOUS
    <3>1. Live(i) /\ Live(j) /\ Pos(i) - 1 < Pos(j) - 1
      BY <2>2
    <3>2. Pos(i) \in Int /\ Pos(j) \in Int
      BY <1>3, SizeAssumption DEF Pos, Slot
    <3>3. Pos(i) < Pos(j)
      BY <3>1, <3>2
    <3>4. QED
      BY <1>1, <3>1, <3>3 DEF Sorted
  <2>5. \A i \in Slot : Live(i)' => data < buff[i]
    BY <1>1, <1>7, <2>2 DEF Bump, Sorted
  <2>6. Sorted'
    BY <1>7, <2>4, <2>5 DEF Bump, Sorted
  <2>7. Signalled'
    BY <1>1, <1>3, <1>7, <2>1, <2>2 DEF Bump, Signalled, reader
  <2>8. QED
    BY <1>1, <2>3, <2>6, <2>7 DEF IndInv
<1>8. CASE Mask
  <2>1. remove' = remove
    BY <1>3, <1>8, MaskFacts, SizeAssumption DEF Mask, Slot
  <2>2. Count' = Count /\ \A i \in Slot : Pos(i)' = Pos(i) /\ Live(i)' = Live(i)
    BY <1>8, <2>1, SameRing DEF Mask
  <2>3. InHand'
    BY <1>1, <1>8, <2>1, <2>2 DEF Mask, InHand, NextIndex, reader
  <2>4. Sorted'
    BY <1>1, <1>8, <2>1, <2>2 DEF Mask, Sorted
  <2>5. Signalled'
    BY <1>1, <1>8, <2>2 DEF Mask, Signalled, reader
  <2>6. QED
    BY <1>1, <2>3, <2>4, <2>5 DEF IndInv
<1>9. QED
  BY <1>5, <1>6, <1>7, <1>8 DEF WaitByte

\* A step that changes nothing keeps the invariant.
LEMMA StutterInv == IndInv /\ UNCHANGED vars => IndInv'
<1> SUFFICES ASSUME IndInv, UNCHANGED vars PROVE IndInv'
  OBVIOUS
<1>1. Count' = Count /\ \A i \in Slot : Pos(i)' = Pos(i) /\ Live(i)' = Live(i)
  BY SameRing DEF vars, ring
<1>2. InHand' /\ Sorted' /\ Signalled'
  BY <1>1 DEF IndInv, InHand, Sorted, Signalled, NextIndex, vars, ring, reader
<1>3. QED
  BY <1>2, StutterType DEF IndInv

\* The ring, the byte each thread has in hand and the semaphore agree, in either
\* build, whatever the size of the ring and however Reader delays WaitByte.
THEOREM Consistent == Single /\ Spec => []IndInv
<1>1. Single /\ IndInv /\ [Next]_vars => IndInv'
  BY ReaderInv, WaitByteInv, StutterInv DEF Next
<1>2. Single => []Single
  OBVIOUS
<1>3. QED
  BY <1>1, <1>2, InitInv, PTL DEF Spec

-----------------------------------------------------------------------------
\* WaitByte hands the bytes out in the order in which Reader read them, none
\* twice and none it never read, although the ring has no lock.
THEOREM BytesInOrder == Single /\ Spec => InOrder
<1>1. Single /\ IndInv /\ [Next]_vars => [Load => data' > data]_vars
  <2> SUFFICES ASSUME Single, IndInv, Load PROVE data' > data
    OBVIOUS
  <2>1. TypeOK /\ Sorted /\ Count > 0
    BY DEF IndInv, Load, Signalled
  <2>2. remove \in Slot /\ Live(remove)
    BY <2>1, IndexFacts, OldestFacts
  <2>3. data < buff[remove]
    BY <2>1, <2>2 DEF Sorted, Load
  <2>4. data \in Int /\ buff[remove] \in Int
    BY <2>1, <2>2, BytesAssumption DEF TypeOK
  <2>5. QED
    BY <2>3, <2>4 DEF Load
<1>2. Single => []Single
  OBVIOUS
<1>3. QED
  BY <1>1, <1>2, Consistent, PTL DEF Spec, InOrder

\* In the 32-bit build WaitByte never reports silence while a byte is in the ring:
\* the event that Reader posts is not lost between the test and the wait.
THEOREM NoLostWakeUp == Single /\ Spec => SilenceIsReal
<1>1. Single /\ IndInv /\ [Next]_vars => [TimeOut /\ eventSem => add = remove]_vars
  <2> SUFFICES ASSUME Single, IndInv, TimeOut, eventSem PROVE add = remove
    OBVIOUS
  <2>1. TypeOK /\ Signalled
    BY DEF IndInv
  <2>2. rpc = "read" /\ wpc = "wait" /\ ~posted
    BY DEF TimeOut, Runs, Single
  <2>3. ~(Count > 0)
    BY <2>1, <2>2 DEF Signalled
  <2>4. QED
    BY <2>1, <2>3, CountFacts
<1>2. Single => []Single
  OBVIOUS
<1>3. QED
  BY <1>1, <1>2, Consistent, PTL DEF Spec, SilenceIsReal
-----------------------------------------------------------------------------
(***************************************************************************)
(* The port of serial.h                                                    *)
(***************************************************************************)
\* What the refinement needs besides IndInv: what WaitByte returns while it runs,
\* and that the byte it has taken is the one that it is about to remove.
CallInv ==
  /\ ret = Calling <=> wpc # "idle"
  /\ wpc = "bump" => data = buff[remove]

\* How many bytes a ring with these indices holds, and where the k-th oldest is.
Held(a, r) == IF a >= r THEN a - r ELSE a - r + BSIZE
Place(r, k) == IF r + k - 1 < BSIZE THEN r + k - 1 ELSE r + k - 1 - BSIZE

\* What the mask of a difference is.
LEMMA ModFacts ==
  ASSUME NEW i \in Int, NEW j \in Slot, i = j \/ i = j + BSIZE \/ i = j - BSIZE
  PROVE  i % BSIZE = j
<1>1. BSIZE \in Nat \ {0} /\ j \in 0 .. BSIZE - 1
  BY SizeAssumption DEF Slot
<1>2. QED
  BY <1>1

\* The masks of both indices.
LEMMA RingFacts ==
  ASSUME NEW a \in Slot, NEW r \in Slot
  PROVE  /\ Held(a, r) \in 0 .. BSIZE - 1 /\ (a - r) % BSIZE = Held(a, r)
         /\ \A k \in 1 .. Held(a, r) : Place(r, k) \in Slot /\ (r + k - 1) % BSIZE = Place(r, k)
<1>1. BSIZE \in Nat /\ BSIZE > 2 /\ a \in 0 .. BSIZE - 1 /\ r \in 0 .. BSIZE - 1
  BY SizeAssumption DEF Slot
<1>2. Held(a, r) \in Slot /\ (a - r) % BSIZE = Held(a, r)
  <2>1. a - r \in Int /\ Held(a, r) \in Slot /\ (a - r = Held(a, r) \/ a - r = Held(a, r) - BSIZE)
    BY <1>1 DEF Held, Slot
  <2>2. QED
    BY <2>1, ModFacts
<1>3. ASSUME NEW k \in 1 .. Held(a, r)
      PROVE  Place(r, k) \in Slot /\ (r + k - 1) % BSIZE = Place(r, k)
  <2>1. /\ r + k - 1 \in Int /\ Place(r, k) \in Slot
        /\ r + k - 1 = Place(r, k) \/ r + k - 1 = Place(r, k) + BSIZE
    BY <1>1, <1>2 DEF Place, Slot
  <2>2. QED
    BY <2>1, ModFacts
<1>4. QED
  BY <1>2, <1>3 DEF Slot

\* The contents of the ring before a step, and after it.
LEMMA ContentsFacts ==
  ASSUME Single, TypeOK
  PROVE  /\ Contents \in Seq(0 .. MaxBytes) /\ Len(Contents) = Count /\ Count \in 0 .. BSIZE - 1
         /\ \A k \in 1 .. Count : /\ Place(remove, k) \in Slot /\ Contents[k] = buff[Place(remove, k)]
                                  /\ Pos(Place(remove, k)) = k - 1
<1>1. /\ Contents \in Seq(0 .. MaxBytes) /\ Len(Contents) = Count /\ Count \in 0 .. BSIZE - 1
      /\ \A k \in 1 .. Count : Place(remove, k) \in Slot /\ Contents[k] = buff[Place(remove, k)]
  <2>1. Count = Held(add, remove) /\ add \in Slot /\ remove \in Slot /\ buff \in [Slot -> 0 .. MaxBytes]
    BY IndexFacts DEF Count, Held, TypeOK
  <2>2. Contents = [k \in 1 .. Count |-> buff[Place(remove, k)]]
    BY <2>1, RingFacts DEF Contents, Size
  <2>3. Count \in 0 .. BSIZE - 1 /\ \A k \in 1 .. Count : Place(remove, k) \in Slot
    BY <2>1, RingFacts
  <2>4. \A k \in 1 .. Count : buff[Place(remove, k)] \in 0 .. MaxBytes
    BY <2>1, <2>3
  <2>5. QED
    BY <2>2, <2>3, <2>4
<1>2. \A k \in 1 .. Count : Pos(Place(remove, k)) = k - 1
  BY <1>1, IndexFacts DEF Pos, Place, Slot
<1>3. QED
  BY <1>1, <1>2

\* A function on 1 .. h is a sequence of length h.
LEMMA FunctionIsSeq ==
  ASSUME NEW S, NEW h \in Nat, NEW f \in [1 .. h -> S]
  PROVE  f \in Seq(S) /\ Len(f) = h
OBVIOUS

\* The contents after a step, by the indices and the slots after it.
LEMMA NextContents ==
  ASSUME Single, TypeOK'
  PROVE  /\ Contents' \in Seq(0 .. MaxBytes) /\ Len(Contents') = Held(add', remove')
         /\ \A k \in 1 .. Held(add', remove') : Contents'[k] = buff'[Place(remove', k)]
<1>1. add' \in Slot /\ remove' \in Slot /\ buff' \in [Slot -> 0 .. MaxBytes]
  BY SizeAssumption DEF Single, TypeOK, Slot
<1>2. Contents' = [k \in 1 .. Held(add', remove') |-> buff'[Place(remove', k)]]
  BY <1>1, RingFacts DEF Contents, Size
<1>3. /\ Held(add', remove') \in 0 .. BSIZE - 1
      /\ \A k \in 1 .. Held(add', remove') : buff'[Place(remove', k)] \in 0 .. MaxBytes
  BY <1>1, RingFacts
<1>4. Held(add', remove') \in Nat /\ Contents' \in [1 .. Held(add', remove') -> 0 .. MaxBytes]
  BY <1>2, <1>3, SizeAssumption
<1>5. Contents' \in Seq(0 .. MaxBytes) /\ Len(Contents') = Held(add', remove')
  BY <1>4, FunctionIsSeq
<1>6. QED
  BY <1>2, <1>5

\* As long as neither index moves and no byte in the ring changes, the contents stay.
LEMMA SameContents ==
  ASSUME Single, TypeOK, TypeOK', UNCHANGED <<add, remove>>,
         \A i \in Slot : Live(i) => buff'[i] = buff[i]
  PROVE  Contents' = Contents
<1>1. Held(add', remove') = Count /\ Count \in 0 .. BSIZE - 1
  BY ContentsFacts DEF Count, Held
<1>2. \A k \in 1 .. Count : Live(Place(remove, k))
  BY <1>1, ContentsFacts, SizeAssumption DEF Live
<1>3. /\ Contents \in Seq(0 .. MaxBytes) /\ Contents' \in Seq(0 .. MaxBytes)
      /\ Len(Contents) = Count /\ Len(Contents') = Count
  BY <1>1, ContentsFacts, NextContents
<1>4. \A k \in 1 .. Len(Contents) : Contents'[k] = Contents[k]
  BY <1>1, <1>2, <1>3, ContentsFacts, NextContents
<1>5. QED
  BY <1>3, <1>4, SeqEqual

\* Moving ReadBuffAdd puts the byte that Reader has in hand behind the others.
LEMMA PublishContents ==
  ASSUME Single, TypeOK, TypeOK', InHand, Publish
  PROVE  Contents' = Append(Contents, n) /\ Len(Contents) < BSIZE - 1
<1>1. newIndex = NextIndex(add) /\ newIndex # remove /\ buff[add] = n
  BY DEF InHand, Publish
<1>2. add \in Slot /\ remove \in Slot /\ BSIZE \in Nat /\ BSIZE > 2
  BY IndexFacts
<1>3. add' = (IF add + 1 = BSIZE THEN 0 ELSE add + 1) /\ remove' = remove /\ buff' = buff
  BY <1>1, <1>2, NextIndexFacts DEF Publish
<1>4. /\ Held(add', remove') = Count + 1 /\ Count < BSIZE - 1 /\ Place(remove, Count + 1) = add
      /\ Count \in Nat
  BY <1>1, <1>2, <1>3, NextIndexFacts DEF Held, Count, Place, Slot
<1>5. /\ Contents \in Seq(0 .. MaxBytes) /\ Len(Contents) = Count
      /\ \A k \in 1 .. Count : Contents[k] = buff[Place(remove, k)]
  BY ContentsFacts
<1>6. /\ Contents' \in Seq(0 .. MaxBytes) /\ Len(Contents') = Count + 1
      /\ \A k \in 1 .. Count + 1 : Contents'[k] = buff[Place(remove, k)]
  BY <1>3, <1>4, NextContents
<1>7. n \in 0 .. MaxBytes
  BY DEF TypeOK
<1>8. /\ Append(Contents, n) \in Seq(0 .. MaxBytes) /\ Len(Append(Contents, n)) = Count + 1
      /\ \A k \in 1 .. Count : Append(Contents, n)[k] = Contents[k]
      /\ Append(Contents, n)[Count + 1] = n
  BY <1>5, <1>7, AppendProperties
<1>9. \A k \in 1 .. Len(Contents') : Contents'[k] = Append(Contents, n)[k]
  <2>1. SUFFICES ASSUME NEW k \in 1 .. Count + 1
                 PROVE  Contents'[k] = Append(Contents, n)[k]
    BY <1>6
  <2>2. CASE k = Count + 1
    BY <1>1, <1>4, <1>6, <1>8, <2>2
  <2>3. CASE k # Count + 1
    <3>1. k \in 1 .. Count
      BY <1>4, <2>3
    <3>2. QED
      BY <1>5, <1>6, <1>8, <3>1
  <2>4. QED
    BY <2>2, <2>3
<1>10. QED
  BY <1>4, <1>5, <1>6, <1>8, <1>9, SeqEqual

\* Moving ReadBuffRemove takes the oldest byte from the contents.
LEMMA BumpContents ==
  ASSUME Single, TypeOK, TypeOK', Count > 0, Bump
  PROVE  /\ Contents # <<>> /\ Head(Contents) = buff[remove]
         /\ Contents' = Tail(Contents)
<1>1. add \in Slot /\ remove \in Slot /\ BSIZE \in Nat /\ BSIZE > 2
  BY IndexFacts
<1>2. remove' = (IF remove + 1 = BSIZE THEN 0 ELSE remove + 1) /\ add' = add /\ buff' = buff
  BY <1>1, NextIndexFacts DEF Bump, Single
<1>3. /\ Held(add', remove') = Count - 1 /\ Count \in Nat /\ Place(remove, 1) = remove
      /\ \A k \in 1 .. Count - 1 : Place(remove', k) = Place(remove, k + 1)
  BY <1>1, <1>2 DEF Held, Count, Place, Slot
<1>4. /\ Contents \in Seq(0 .. MaxBytes) /\ Len(Contents) = Count
      /\ \A k \in 1 .. Count : Contents[k] = buff[Place(remove, k)]
  BY ContentsFacts
<1>5. /\ Contents' \in Seq(0 .. MaxBytes) /\ Len(Contents') = Count - 1
      /\ \A k \in 1 .. Count - 1 : Contents'[k] = buff[Place(remove', k)]
  BY <1>2, <1>3, NextContents
<1>6. Contents # <<>> /\ Head(Contents) = Contents[1]
  BY <1>3, <1>4, EmptySeq
<1>7. /\ Tail(Contents) \in Seq(0 .. MaxBytes) /\ Len(Tail(Contents)) = Count - 1
      /\ \A k \in 1 .. Count - 1 : Tail(Contents)[k] = Contents[k + 1]
  BY <1>4, <1>6, HeadTailProperties
<1>8. \A k \in 1 .. Len(Contents') : Contents'[k] = Tail(Contents)[k]
  <2>1. SUFFICES ASSUME NEW k \in 1 .. Count - 1
                 PROVE  Contents'[k] = Tail(Contents)[k]
    BY <1>5
  <2>2. k + 1 \in 1 .. Count
    BY <1>3
  <2>3. QED
    BY <1>3, <1>4, <1>5, <1>7, <2>2
<1>9. Contents' = Tail(Contents)
  BY <1>5, <1>7, <1>8, SeqEqual
<1>10. Contents[1] = buff[remove]
  BY <1>3, <1>4
<1>11. QED
  BY <1>6, <1>9, <1>10

\* WaitByte takes the oldest byte, and nobody else moves it.
LEMMA CallNext == Single /\ IndInv /\ CallInv /\ [Next]_vars => CallInv'
<1> SUFFICES ASSUME Single, IndInv, CallInv, [Next]_vars
             PROVE  CallInv'
  OBVIOUS
<1>1. TypeOK /\ TypeOK' /\ (wpc = "bump" => Count > 0)
  BY ReaderType, WaitByteType, StutterType DEF IndInv, Signalled, Next
<1>2. data \in Nat
  BY <1>1, BytesAssumption DEF TypeOK
<1>3. CASE Reader
  <2>1. UNCHANGED <<data, ret, wpc, remove>>
    BY <1>3 DEF Reader, ReadByte, CheckFull, Store, Publish, Post, ring
  <2>2. wpc = "bump" => buff'[remove] = buff[remove]
    <3>1. wpc = "bump" => add # remove /\ remove \in Slot
      BY <1>1, IndexFacts, CountFacts
    <3>2. buff' = buff \/ buff' = [buff EXCEPT ![add] = n]
      BY <1>3 DEF Reader, ReadByte, CheckFull, Store, Publish, Post, ring
    <3>3. QED
      BY <1>1, <3>1, <3>2 DEF TypeOK
  <2>3. QED
    BY <2>1, <2>2 DEF CallInv
<1>4. CASE WaitByte
  <2>1. CASE Call \/ Test \/ SetSem \/ Wake \/ Reset
    BY <2>1 DEF CallInv, Call, Test, SetSem, Wake, Reset, GotByte, NoByte, ring
  <2>2. CASE TimeOut
    BY <2>2 DEF CallInv, TimeOut, Calling, NoData
  <2>3. CASE Load \/ Bump
    BY <2>3 DEF CallInv, Load, Bump, ring
  <2>4. CASE Mask
    BY <1>2, <2>4 DEF CallInv, Mask, Calling
  <2>5. QED
    BY <1>4, <2>1, <2>2, <2>3, <2>4 DEF WaitByte
<1>5. CASE UNCHANGED vars
  BY <1>5 DEF CallInv, vars, ring
<1>6. QED
  BY <1>3, <1>4, <1>5 DEF Next

\* A byte that Reader has read, but neither published nor dropped, is not received yet.
Received == IF rpc \in {"check", "store", "publish"} THEN n - 1 ELSE n
Returned == IF wpc = "mask" THEN data ELSE ret

\* Reader receives a byte when it publishes it, or when it finds the ring full.
LEMMA ReaderStep ==
  ASSUME Single, IndInv, Reader, UNCHANGED eventSem
  PROVE  Port!Next \/ UNCHANGED Port!vars
<1>1. TypeOK /\ InHand /\ TypeOK' /\ UNCHANGED <<eventSem, data, ret, wpc>>
  BY ReaderType DEF IndInv, Reader, ReadByte, CheckFull, Store, Publish, Post
<1>2. n \in 0 .. MaxBytes /\ MaxBytes \in Nat /\ Count \in 0 .. BSIZE - 1 /\ Len(Contents) = Count
  BY <1>1, BytesAssumption, ContentsFacts DEF TypeOK
<1>3. UNCHANGED Returned
  BY <1>1 DEF Returned
<1>4. CASE ReadByte \/ Post
  <2>1. UNCHANGED ring
    BY <1>4 DEF ReadByte, Post
  <2>2. Contents' = Contents
    BY <2>1 DEF ring, Contents, Size
  <2>3. UNCHANGED Received
    BY <1>2, <1>4 DEF Received, ReadByte, Post
  <2>4. QED
    BY <1>1, <1>3, <2>2, <2>3 DEF Port!vars, Received, Returned
<1>5. CASE CheckFull
  <2>1. Contents' = Contents
    BY <1>5 DEF CheckFull, ring, Contents, Size
  <2>2. CASE ~Full
    BY <1>1, <1>3, <1>5, <2>1, <2>2 DEF CheckFull, Port!vars, Returned
  <2>3. CASE Full
    <3>1. newIndex = NextIndex(add) /\ newIndex = remove /\ data < n
      BY <1>1, <1>5, <2>3 DEF CheckFull, InHand, Full
    <3>2. Count = BSIZE - 1
      <4>1. add \in Slot /\ remove = (IF add + 1 = BSIZE THEN 0 ELSE add + 1)
        BY <1>1, <3>1, NextIndexFacts DEF TypeOK
      <4>2. QED
        BY <4>1, SizeAssumption DEF Count, Slot
    <3>3. Received = n - 1 /\ Received' = n
      BY <1>5, <2>3 DEF Received, CheckFull, Full
    <3>4. Port!Receive
      BY <1>2, <1>3, <2>1, <3>2, <3>3 DEF Port!Receive, Received, Returned
    <3>5. QED
      BY <1>1, <3>4 DEF Port!Next
  <2>4. QED
    BY <2>2, <2>3
<1>6. CASE Store
  <2>1. \A i \in Slot : Live(i) => buff'[i] = buff[i]
    <3>1. ~Live(add)
      BY <1>1, IndexFacts, CountFacts DEF Live, Pos, Count, Slot
    <3>2. QED
      BY <1>1, <1>6, <3>1 DEF Store, TypeOK
  <2>2. Contents' = Contents
    BY <1>1, <1>6, <2>1, SameContents DEF Store
  <2>3. UNCHANGED Received
    BY <1>6 DEF Received, Store
  <2>4. QED
    BY <1>1, <1>3, <2>2, <2>3 DEF Port!vars, Received, Returned
<1>7. CASE Publish
  <2>1. Contents' = Append(Contents, n) /\ Len(Contents) < BSIZE - 1
    BY <1>1, <1>7, PublishContents
  <2>2. Received = n - 1 /\ Received' = n
    BY <1>7 DEF Received, Publish
  <2>3. Port!Receive
    BY <1>2, <1>3, <2>1, <2>2 DEF Port!Receive, Received, Returned
  <2>4. QED
    BY <1>1, <2>3 DEF Port!Next
<1>8. QED
  BY <1>4, <1>5, <1>6, <1>7 DEF Reader

\* WaitByte calls, takes a byte when it moves the index, or reports silence.
LEMMA WaitByteStep ==
  ASSUME Single, IndInv, CallInv, WaitByte, UNCHANGED eventSem
  PROVE  Port!Next \/ UNCHANGED Port!vars
<1>1. TypeOK /\ Signalled /\ TypeOK' /\ UNCHANGED <<eventSem, reader>>
  BY WaitByteType DEF IndInv, WaitByte, Call, Test, SetSem, Wake, TimeOut, Reset, Load, Bump, Mask
<1>2. UNCHANGED Received
  BY <1>1 DEF Received, reader
<1>3. CASE Test \/ SetSem \/ Wake \/ Reset \/ Load
  <2>1. UNCHANGED ring /\ UNCHANGED ret /\ wpc # "mask" /\ wpc' # "mask"
    BY <1>3 DEF Test, SetSem, Wake, Reset, Load, GotByte, NoByte
  <2>2. Contents' = Contents /\ UNCHANGED Returned
    BY <2>1 DEF ring, Contents, Size, Returned
  <2>3. QED
    BY <1>1, <1>2, <2>2 DEF Port!vars, Received, Returned
<1>4. CASE Call
  <2>1. Contents' = Contents
    BY <1>4 DEF Call, ring, Contents, Size
  <2>2. Returned = ret /\ Returned' = Calling /\ ret # Calling
    BY <1>4 DEF Call, Returned, CallInv
  <2>3. Port!Call
    BY <1>2, <2>1, <2>2 DEF Port!Call, Port!Calling, Calling, Received, Returned
  <2>4. QED
    BY <1>1, <2>3 DEF Port!Next
<1>5. CASE TimeOut
  <2>1. Contents' = Contents
    BY <1>5 DEF TimeOut, ring, Contents, Size
  <2>2. Returned = Calling /\ Returned' = NoData
    BY <1>5 DEF TimeOut, Returned, CallInv
  <2>3. eventSem => Contents = <<>>
    <3>1. eventSem => ~(Count > 0)
      BY <1>1, <1>5 DEF TimeOut, Runs, Single, Signalled
    <3>2. eventSem => Len(Contents) = 0 /\ Contents \in Seq(0 .. MaxBytes)
      BY <1>1, <3>1, ContentsFacts
    <3>3. QED
      BY <3>2, EmptySeq
  <2>4. Port!Silence
    BY <1>2, <2>1, <2>2, <2>3
       DEF Port!Silence, Port!Calling, Port!NoData, Calling, NoData, Received, Returned
  <2>5. QED
    BY <1>1, <2>4 DEF Port!Next
<1>6. CASE Bump
  <2>1. Count > 0 /\ data = buff[remove] /\ Returned = Calling /\ Returned' = data
    BY <1>1, <1>6 DEF Bump, Signalled, CallInv, Returned
  <2>2. Contents # <<>> /\ Head(Contents) = buff[remove] /\ Contents' = Tail(Contents)
    BY <1>1, <1>6, <2>1, BumpContents
  <2>3. Port!Take
    BY <1>2, <2>1, <2>2 DEF Port!Take, Port!Calling, Calling, Received, Returned
  <2>4. QED
    BY <1>1, <2>3 DEF Port!Next
<1>7. CASE Mask
  <2>1. UNCHANGED <<buff, add>> /\ remove' = remove
    BY <1>1, <1>7, IndexFacts, MaskFacts, SizeAssumption DEF Mask, Slot
  <2>2. Contents' = Contents
    BY <2>1 DEF Contents, Size
  <2>3. UNCHANGED Returned
    BY <1>7 DEF Mask, Returned
  <2>4. QED
    BY <1>1, <1>2, <2>2, <2>3 DEF Port!vars, Received, Returned
<1>8. QED
  BY <1>3, <1>4, <1>5, <1>6, <1>7 DEF WaitByte

\* The ring with its semaphore is the port that serial.h promises the protocol, on one
\* processor and in either build, for a ring of any size: bytes are taken in order, one
\* is dropped only when the ring is full, and the 32-bit build is not deaf.
THEOREM PortCorrect == Single /\ Spec => IsPort
<1>1. Init => Port!Init /\ CallInv
  <2> SUFFICES ASSUME Init
               PROVE  Port!Init /\ CallInv
    OBVIOUS
  <2>1. CallInv
    BY DEF Init, CallInv, Calling, NoData
  <2>2. Contents = <<>>
    <3>1. 0 % BSIZE = 0
      BY SizeAssumption, ModFacts DEF Slot
    <3>2. Size = 0
      BY <3>1 DEF Init, Size
    <3>3. QED
      BY <3>2 DEF Contents
  <2>3. Port!Init
    BY <2>2 DEF Init, Port!Init, Port!NoData, NoData
  <2>4. QED
    BY <2>1, <2>3
<1>2. Single /\ IndInv /\ CallInv /\ [Next]_vars => CallInv'
  BY CallNext
<1>3. Single /\ IndInv /\ CallInv /\ [Next]_vars => [Port!Next]_(Port!vars)
  <2> SUFFICES ASSUME Single, IndInv, CallInv, [Next]_vars
               PROVE  Port!Next \/ UNCHANGED Port!vars
    BY DEF Port!vars
  <2>1. CASE UNCHANGED vars
    BY <2>1 DEF vars, ring, reader, Port!vars, Contents, Size
  <2>2. CASE Next
    BY <2>2, ReaderStep, WaitByteStep DEF Next
  <2>3. QED
    BY <2>1, <2>2
<1>4. Single => []Single
  OBVIOUS
<1>5. QED
  BY <1>1, <1>2, <1>3, <1>4, Consistent, PTL DEF Spec, IsPort, Port!Spec
=============================================================================
