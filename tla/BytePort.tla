------------------------------ MODULE BytePort ------------------------------
(***************************************************************************)
(* What the serial protocol expects of a port (ser/h/serial.h): WaitByte   *)
(* takes the received bytes one by one, in order, and SDATA_NO_DATA means  *)
(* that there is "no new character in receive buffer" - unless the port is *)
(* deaf, and overlooks a byte that came just before it began to wait.      *)
(* Bytes are numbered in the order in which the driver hands them over.    *)
(***************************************************************************)
EXTENDS Integers, Sequences

CONSTANTS Cap,                  \* bytes that the receive buffer holds
          MaxBytes

VARIABLES deaf,                 \* never changes
          n,                    \* bytes the driver has handed over
          q,                    \* the receive buffer
          ret                   \* what the last WaitByte returned

vars == <<deaf, n, q, ret>>

NoData == 0
Calling == -1

Init == deaf \in BOOLEAN /\ n = 0 /\ q = <<>> /\ ret = NoData

\* A byte is received; one that finds the buffer full is lost.
Receive == /\ n < MaxBytes
           /\ n' = n + 1
           /\ \/ Len(q) < Cap /\ q' = Append(q, n + 1)
              \/ Len(q) = Cap /\ q' = q
           /\ UNCHANGED ret

Call == /\ ret # Calling
        /\ ret' = Calling
        /\ UNCHANGED <<n, q>>

Take == /\ ret = Calling /\ q # <<>>
        /\ ret' = Head(q)
        /\ q' = Tail(q)
        /\ UNCHANGED n

\* A port that is not deaf reports silence only when no byte is there.
Silence == /\ ret = Calling /\ (q = <<>> \/ deaf)
           /\ ret' = NoData
           /\ UNCHANGED <<n, q>>

Next == /\ Receive \/ Call \/ Take \/ Silence
        /\ UNCHANGED deaf

Spec == Init /\ [][Next]_vars
=============================================================================
