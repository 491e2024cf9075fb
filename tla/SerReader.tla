----------------------------- MODULE SerReader -----------------------------
(***************************************************************************)
(* The OS/2 serial port (ser/c/seros2.c): the Reader thread moves bytes    *)
(* from the driver into the ring ReadBuff and signals ReadSemaphore; the   *)
(* protocol's thread takes them with WaitByte.  Nothing but the semaphore  *)
(* orders the two threads, so each access to a shared variable is a step.  *)
(*                                                                         *)
(* The 32-bit build uses an event semaphore, which WaitByte resets before  *)
(* it takes a byte.  The 16-bit build uses a RAM semaphore, which          *)
(* DosSemSetWait sets before it waits for Reader to clear it.  "posted"    *)
(* stands for a posted event or a clear RAM semaphore.  Both builds are    *)
(* specified at once: eventSem says which one runs, and never changes.     *)
(*                                                                         *)
(* ClearCom flushes the driver's queues: bytes that Reader never sees.     *)
(***************************************************************************)
EXTENDS Integers, Sequences

CONSTANTS
  BSIZE,       \* slots of the ring
  Preempt,     \* can WaitByte run between two steps of Reader's loop?
  Split,       \* are ReadBuffRemove++ and the mask that follows two stores?
  MaxBytes     \* bound: bytes received

ASSUME SizeAssumption == BSIZE \in Nat /\ BSIZE > 2
ASSUME BytesAssumption == MaxBytes \in Nat
ASSUME KindAssumption == {Preempt, Split} \subseteq BOOLEAN

VARIABLES
  eventSem,            \* is this the 32-bit build?
  buff, add, remove,   \* ReadBuff, ReadBuffAdd, ReadBuffRemove
  posted,              \* ReadSemaphore
  n, newIndex, rpc,    \* Reader: the byte it has read last, new_index
  data, ret, wpc       \* WaitByte: the byte it has taken last, its result

ring == <<buff, add, remove>>
reader == <<n, newIndex, rpc>>
vars == <<eventSem, ring, posted, reader, data, ret, wpc>>

Slot == 0 .. BSIZE - 1
NoData == 0
Calling == -1

\* Indices wrap by a mask; the buffer holds one byte less than it has slots.
NextIndexMut(i) == i + 1
NextIndex(i) == (i + 1) % BSIZE
FullMut == FALSE
Full == newIndex = remove

\* The protocol's thread and Reader have the same time-critical priority.
Runs == Preempt \/ rpc = "read"

Init ==
  /\ buff = [i \in Slot |-> 0]
  /\ add = 0 /\ remove = 0
  /\ eventSem \in BOOLEAN /\ posted = ~eventSem
  /\ n = 0 /\ newIndex = 0 /\ rpc = "read"
  /\ data = 0 /\ ret = NoData /\ wpc = "idle"

(***************************************************************************)
(* Reader                                                                  *)
(***************************************************************************)
ReadByte ==
  /\ rpc = "read" /\ n < MaxBytes
  /\ n' = n + 1
  /\ newIndex' = NextIndex(add)
  /\ rpc' = "check"
  /\ UNCHANGED <<ring, posted, data, ret, wpc>>

\* A byte that does not fit is lost (OverRun), but signalled.
CheckFull ==
  /\ rpc = "check"
  /\ rpc' = IF Full THEN "post" ELSE "store"
  /\ UNCHANGED <<ring, posted, n, newIndex, data, ret, wpc>>

Store ==
  /\ rpc = "store"
  /\ buff' = [buff EXCEPT ![add] = n]
  /\ rpc' = "publish"
  /\ UNCHANGED <<add, remove, posted, n, newIndex, data, ret, wpc>>

Publish ==
  /\ rpc = "publish"
  /\ add' = newIndex
  /\ rpc' = "post"
  /\ UNCHANGED <<buff, remove, posted, n, newIndex, data, ret, wpc>>

Post ==
  /\ rpc = "post"
  /\ posted' = TRUE
  /\ rpc' = "read"
  /\ UNCHANGED <<ring, n, newIndex, data, ret, wpc>>

(***************************************************************************)
(* WaitByte                                                                *)
(***************************************************************************)
Call ==
  /\ Runs /\ wpc = "idle"
  /\ ret' = Calling
  /\ wpc' = "test"
  /\ UNCHANGED <<ring, posted, reader, data>>

\* Where WaitByte goes when it has seen, or been told of, a byte; and when it
\* has seen none.
GotByteMut == "load"
GotByte == IF eventSem THEN "reset" ELSE "load"
NoByteMut == "set"
NoByte == IF eventSem THEN "wait" ELSE "set"

Test ==
  /\ Runs /\ wpc = "test"
  /\ wpc' = IF add # remove THEN GotByte ELSE NoByte
  /\ UNCHANGED <<ring, posted, reader, data, ret>>

\* DosSemSetWait sets the semaphore, whether Reader has just cleared it or not.
\* (DosSemWait would leave it as it is.)
SemBeforeWaitMut == posted
SemBeforeWait == FALSE

SetSem ==
  /\ Runs /\ wpc = "set"
  /\ posted' = SemBeforeWait
  /\ wpc' = "wait"
  /\ UNCHANGED <<ring, reader, data, ret>>

Wake ==
  /\ Runs /\ wpc = "wait" /\ posted
  /\ wpc' = GotByte
  /\ UNCHANGED <<ring, posted, reader, data, ret>>

TimeOut ==
  /\ Runs /\ wpc = "wait" /\ ~posted
  /\ ret' = NoData
  /\ wpc' = "idle"
  /\ UNCHANGED <<ring, posted, reader, data>>

Reset ==
  /\ Runs /\ wpc = "reset"
  /\ posted' = FALSE
  /\ wpc' = "load"
  /\ UNCHANGED <<ring, reader, data, ret>>

Load ==
  /\ Runs /\ wpc = "load"
  /\ data' = buff[remove]
  /\ wpc' = "bump"
  /\ UNCHANGED <<ring, posted, reader, ret>>

Bump ==
  /\ Runs /\ wpc = "bump"
  /\ remove' = IF Split THEN remove + 1 ELSE NextIndex(remove)
  /\ wpc' = "mask"
  /\ UNCHANGED <<buff, add, posted, reader, data, ret>>

Mask ==
  /\ Runs /\ wpc = "mask"
  /\ remove' = remove % BSIZE
  /\ ret' = data
  /\ wpc' = "idle"
  /\ UNCHANGED <<buff, add, posted, reader, data>>

Reader == ReadByte \/ CheckFull \/ Store \/ Publish \/ Post
WaitByte == Call \/ Test \/ SetSem \/ Wake \/ TimeOut \/ Reset \/ Load \/ Bump \/ Mask

Next == /\ Reader \/ WaitByte
        /\ UNCHANGED eventSem

Spec == Init /\ [][Next]_vars
-----------------------------------------------------------------------------
\* Types: both indices stay inside the ring, but for the moment between the
\* increment and the mask.
TypeOK ==
  /\ eventSem \in BOOLEAN
  /\ buff \in [Slot -> 0 .. MaxBytes]
  /\ add \in Slot /\ newIndex \in Slot /\ remove \in 0 .. BSIZE
  /\ posted \in BOOLEAN
  /\ n \in 0 .. MaxBytes /\ data \in 0 .. MaxBytes
  /\ ret \in -1 .. MaxBytes
  /\ rpc \in {"read", "check", "store", "publish", "post"}
  /\ wpc \in {"idle", "test", "set", "wait", "reset", "load", "bump", "mask"}
  /\ remove = BSIZE => Split /\ wpc = "mask"

\* How many bytes are in the ring, and how far slot i is from the oldest.
Count == IF add >= remove THEN add - remove ELSE add - remove + BSIZE
Pos(i) == IF i >= remove THEN i - remove ELSE i - remove + BSIZE
Live(i) == Pos(i) < Count

\* The byte that Reader has in hand is newer than all others, and has a slot.
InHand ==
  /\ data <= n
  /\ rpc # "read" /\ rpc # "post" => newIndex = NextIndex(add) /\ data < n
  /\ rpc \in {"store", "publish"} => newIndex # remove
  /\ rpc = "publish" => buff[add] = n
  /\ \A i \in Slot : Live(i) =>
       IF rpc \in {"check", "store", "publish"} THEN buff[i] < n ELSE buff[i] <= n

\* The bytes in the ring are in order, and newer than the one taken last.
Sorted ==
  /\ \A i, j \in Slot : Live(i) /\ Live(j) /\ Pos(i) < Pos(j) => buff[i] < buff[j]
  /\ \A i \in Slot : Live(i) /\ (wpc = "bump" => i # remove) => data < buff[i]

\* A semaphore that would wake WaitByte, and a WaitByte that goes on, find a byte
\* in the ring; a WaitByte that waits beside one will be woken.
Signalled ==
  /\ rpc = "post" => Count > 0
  /\ wpc \in {"reset", "load", "bump"} => Count > 0
  /\ wpc = "wait" /\ posted => Count > 0
  /\ eventSem =>
       /\ wpc # "set"
       /\ posted => Count > 0
       /\ wpc \in {"load", "bump"} /\ (posted \/ rpc = "post") => Count > 1
       /\ wpc = "wait" /\ Count > 0 => posted \/ rpc = "post"
  /\ ~eventSem => wpc # "reset"

\* All of it together: why a WaitByte that returns a byte returns the next one,
\* as long as it does not run inside Reader's loop.
IndInv == TypeOK /\ InHand /\ Sorted /\ Signalled

\* The bytes in the ring, oldest first.
Size == (add - remove) % BSIZE
Contents == [k \in 1 .. Size |-> buff[(remove + k - 1) % BSIZE]]

\* WaitByte takes bytes in the order in which they were received, none twice
\* and none that was never received.
InOrder == [][Load => data' > data]_vars

\* The 32-bit WaitByte returns SDATA_NO_DATA only when the receive buffer is
\* empty: the event is not lost between the test of the indices and the wait.
SilenceIsReal == [][TimeOut /\ eventSem => add = remove]_vars

\* The port is the port that serlink.c expects (deaf in the 16-bit build).  A
\* byte counts as received once Reader has published or dropped it, and as taken
\* once ReadBuffRemove moves.
Port == INSTANCE BytePort WITH
  Cap <- BSIZE - 1,
  deaf <- ~eventSem,
  n <- IF rpc \in {"check", "store", "publish"} THEN n - 1 ELSE n,
  q <- Contents,
  ret <- IF wpc = "mask" THEN data ELSE ret
IsPort == Port!Spec
=============================================================================
