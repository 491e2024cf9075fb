------------------------------ MODULE ParLink ------------------------------
(***************************************************************************)
(* The parallel link (par/c/parproc.c) once RemoteConnect has returned:    *)
(* two PCs drive the wires of one cable and read them by polling.  Every   *)
(* outp and every inp is a step.  An end that puts and an end that gets go *)
(* through four phases for each unit of data, and the direction turns      *)
(* after a packet with nothing said about it on the wires.                 *)
(*                                                                         *)
(* There are three cables between two PCs.  On all of them control line 2, *)
(* with which the end that gets says that it is ready, is also a data line *)
(* of the other direction.                                                 *)
(*   watcom    a byte at a time; control line 1 is one wire that both ends *)
(*             drive (it is high when either raises it)                    *)
(*   laplink   a nibble at a time, written together with control line 1    *)
(*   dutchman  a nibble at a time, control line 1 on a port of its own     *)
(* The fourth, to a Fujitsu FMR, has other software at its far end.        *)
(***************************************************************************)
EXTENDS Naturals, Sequences, SequencesExt

CONSTANTS
  NibMod,      \* values of a nibble (2^4)
  CtlBit,      \* the bit of a data port that is control line 2 (0x08)
  Payload,     \* bytes of the packets
  MaxLen,      \* longest packet
  MaxPuts      \* bound: requests the client makes

ByteMod == NibMod * NibMod
Half == ByteMod \div 2          \* 0x80: REQ_WANT_RETURN, and the mark of a long length

ASSUME NibAssumption == NibMod \in Nat /\ CtlBit \in 1 .. NibMod - 1
ASSUME PayloadAssumption == Payload \subseteq 0 .. ByteMod - 1
ASSUME LenAssumption == MaxLen \in 0 .. Half * ByteMod - 1 /\ MaxPuts \in Nat

VARIABLES
  cable,       \* the cable; it never changes
  port,        \* what an end has written to DATAPORT
  ctl1,        \* does the end raise control line 1?
  pc,          \* where the end is in DataPutByte or DataGetByte
  out,         \* the units that are left of the packet an end puts
  in,          \* the units an end has read of a packet
  sent, got    \* history: packets put, packets got

wires == <<port, ctl1>>
vars == <<cable, wires, pc, out, in, sent, got>>

End == {"client", "server"}
Peer(e) == IF e = "client" THEN "server" ELSE "client"
Byte == 0 .. ByteMod - 1
Data == BoundedSeq(Payload, MaxLen)
None == <<>>

(***************************************************************************)
(* Packets.  Lengths from 0x80 on take two bytes, the first one marked.    *)
(***************************************************************************)
Header(len) ==
  IF len >= Half THEN <<Half + (len \div ByteMod), len % ByteMod>> ELSE <<len>>

\* A unit is a byte or, low one first, a nibble.
LowNibble(b) == b % NibMod
HighNibbleMut(b) == b
HighNibble(b) == b \div NibMod
PerByte == IF cable = "watcom" THEN 1 ELSE 2
Units(b) ==
  [i \in 1 .. PerByte * Len(b) |->
     IF cable = "watcom" THEN b[i]
     ELSE IF i % 2 = 1 THEN LowNibble(b[(i + 1) \div 2]) ELSE HighNibble(b[i \div 2])]
Bytes(u) ==
  [i \in 1 .. Len(u) \div PerByte |->
     IF cable = "watcom" THEN u[i] ELSE u[2 * i - 1] + NibMod * u[2 * i]]

\* Is the packet with bytes b complete?
Long(b) == b # <<>> /\ b[1] >= Half
HeaderLen(b) == IF Long(b) THEN 2 ELSE 1
PacketLen(b) == IF Long(b) THEN (b[1] - Half) * ByteMod + b[2] ELSE b[1]
Complete(b) == Len(b) >= HeaderLen(b) /\ Len(b) = HeaderLen(b) + PacketLen(b)
Body(b) == SubSeq(b, HeaderLen(b) + 1, Len(b))

\* REQ_WANT_RETURN in the first byte of a request: there will be no reply.
Silent(req) == req # <<>> /\ req[1] >= Half

(***************************************************************************)
(* Wires, as end e sees them                                               *)
(***************************************************************************)
Ctl1Hi(e) == IF cable = "watcom" THEN \E x \in End : ctl1[x] ELSE ctl1[Peer(e)]
Ctl2Hi(e) == (port[Peer(e)] \div CtlBit) % 2 = 1
ReadData(e) == port[Peer(e)]

Outp(e, d) == port' = [port EXCEPT ![e] = d]
SetCtl1(e, b) == ctl1' = [ctl1 EXCEPT ![e] = b]

\* On the LapLink cable control line 1 is a bit of the data port too, and every
\* value written to the port sets it.
OutpData(e, d, strobe) ==
  /\ Outp(e, d)
  /\ IF cable = "laplink" THEN SetCtl1(e, strobe) ELSE UNCHANGED ctl1

Goto(e, l) == pc' = [pc EXCEPT ![e] = l]

\* DataConnect ends with LineTest, whose last byte the server put: all ones,
\* which the LapLink cable clears with control line 1.
Init ==
  /\ cable \in {"watcom", "laplink", "dutchman"}
  /\ port = [e \in End |-> IF e = "client" \/ cable = "laplink" THEN 0
                            ELSE IF cable = "watcom" THEN ByteMod - 1 ELSE NibMod - 1]
  /\ ctl1 = [e \in End |-> FALSE]
  /\ pc = [e \in End |-> IF e = "client" THEN "app" ELSE "ready"]
  /\ out = [e \in End |-> <<>>] /\ in = [e \in End |-> <<>>]
  /\ sent = [e \in End |-> <<>>] /\ got = [e \in End |-> <<>>]

(***************************************************************************)
(* DataPut and DataPutByte                                                 *)
(***************************************************************************)
\* The client makes a request, the server replies.
StartPut(e) ==
  /\ pc[e] = "app"
  /\ e = "client" => Len(sent[e]) < MaxPuts
  /\ \E p \in Data :
       /\ e = "client" => p # <<>>
       /\ sent' = [sent EXCEPT ![e] = Append(@, p)]
       /\ out' = [out EXCEPT ![e] = Units(Header(Len(p)) \o p)]
  /\ Goto(e, "putWait")
  /\ UNCHANGED <<cable, wires, in, got>>

\* "wait till he's ready to read"
PeerReady(e) ==
  /\ pc[e] = "putWait" /\ Ctl2Hi(e)
  /\ Goto(e, "write")
  /\ UNCHANGED <<cable, wires, out, in, sent, got>>

\* "write the data", on the LapLink cable "and tell him the data's there"
Write(e) ==
  /\ pc[e] = "write"
  /\ OutpData(e, Head(out[e]), TRUE)
  /\ Goto(e, IF cable = "laplink" THEN "putTaken" ELSE "raise")
  /\ UNCHANGED <<cable, out, in, sent, got>>

RaiseCtl1(e) ==
  /\ pc[e] = "raise"
  /\ SetCtl1(e, TRUE)
  /\ Goto(e, "putTaken")
  /\ UNCHANGED <<cable, port, out, in, sent, got>>

\* "wait till he got the bits"
TakenMut(e) == TRUE
Taken(e) == ~Ctl2Hi(e)

PeerTook(e) ==
  /\ pc[e] = "putTaken" /\ Taken(e)
  /\ Goto(e, "lower")
  /\ UNCHANGED <<cable, wires, out, in, sent, got>>

\* Where a program is when its packet is out: the client gets the reply, if
\* there will be one; the server gets the next request.
AfterPut(e) == IF e = "client" /\ Silent(Last(sent[e])) THEN "app" ELSE "ready"

\* "clear control line", which on the LapLink cable clears the data as well.
LowerCtl1(e) ==
  /\ pc[e] = "lower"
  /\ SetCtl1(e, FALSE)
  /\ IF cable = "laplink" THEN Outp(e, 0) ELSE UNCHANGED port
  /\ out' = [out EXCEPT ![e] = Tail(@)]
  /\ Goto(e, IF Len(out[e]) = 1 THEN AfterPut(e) ELSE "putWait")
  /\ UNCHANGED <<cable, in, sent, got>>

(***************************************************************************)
(* DataGet and DataGetByte                                                 *)
(***************************************************************************)
\* "Hi, I'm ready to read"
RaiseCtl2(e) ==
  /\ pc[e] = "ready"
  /\ OutpData(e, CtlBit, FALSE)
  /\ Goto(e, "getWait")
  /\ UNCHANGED <<cable, out, in, sent, got>>

\* "wait till he's written the data"
DataThere(e) ==
  /\ pc[e] = "getWait" /\ Ctl1Hi(e)
  /\ Goto(e, "read")
  /\ UNCHANGED <<cable, wires, out, in, sent, got>>

\* "bag the bits"
Read(e) ==
  /\ pc[e] = "read"
  /\ in' = [in EXCEPT ![e] = Append(@, ReadData(e))]
  /\ Goto(e, "got")
  /\ UNCHANGED <<cable, wires, out, sent, got>>

\* "Hey you! I got the bits"
LowerCtl2(e) ==
  /\ pc[e] = "got"
  /\ OutpData(e, 0, FALSE)
  /\ Goto(e, "getDone")
  /\ UNCHANGED <<cable, out, in, sent, got>>

AfterGet(e, p) == IF e = "server" /\ Silent(p) THEN "ready" ELSE "app"

\* "Wait till he heard us"
HeardMut(e) == TRUE
Heard(e) == ~Ctl1Hi(e)

PeerHeard(e) ==
  /\ pc[e] = "getDone" /\ Heard(e)
  /\ IF Len(in[e]) % PerByte = 0 /\ Complete(Bytes(in[e]))
     THEN LET p == Body(Bytes(in[e]))
          IN /\ got' = [got EXCEPT ![e] = Append(@, p)]
             /\ in' = [in EXCEPT ![e] = <<>>]
             /\ Goto(e, AfterGet(e, p))
     ELSE Goto(e, "ready") /\ UNCHANGED <<in, got>>
  /\ UNCHANGED <<cable, wires, out, sent>>

DataPutByte(e) == PeerReady(e) \/ Write(e) \/ RaiseCtl1(e) \/ PeerTook(e) \/ LowerCtl1(e)
DataGetByte(e) == RaiseCtl2(e) \/ DataThere(e) \/ Read(e) \/ LowerCtl2(e) \/ PeerHeard(e)

Next == \E e \in End : StartPut(e) \/ DataPutByte(e) \/ DataGetByte(e)

Spec == Init /\ [][Next]_vars

\* Both ends poll for ever, and the server replies; the next request is the
\* user's choice.
FairSpec ==
  /\ Spec
  /\ \A e \in End : WF_vars(DataPutByte(e)) /\ WF_vars(DataGetByte(e))
  /\ WF_vars(StartPut("server"))
-----------------------------------------------------------------------------
\* Types: what is on the wires fits them.
TypeOK ==
  /\ cable \in {"watcom", "laplink", "dutchman"}
  /\ port \in [End -> IF cable = "watcom" THEN Byte ELSE 0 .. NibMod - 1]
  /\ ctl1 \in [End -> BOOLEAN]
  /\ pc \in [End -> {"app", "putWait", "write", "raise", "putTaken", "lower",
                      "ready", "getWait", "read", "got", "getDone"}]
  /\ \A e \in End : out[e] \in Seq(Byte) /\ in[e] \in Seq(Byte)
  /\ \A e \in End : sent[e] \in Seq(Data) /\ got[e] \in Seq(Data)

\* The bits that DataGetByte bags are those that the peer means it to have: the
\* peer has written its unit, and holds it until it sees control line 2 low.
\* (Two inp calls read a byte, which therefore cannot be torn.)
DataHeld ==
  \A e \in End : pc[e] = "read" =>
    /\ pc[Peer(e)] = "putTaken"
    /\ port[Peer(e)] = Head(out[Peer(e)])

\* The two ends never put at once, although nothing on the wires says that the
\* direction turns, and an end that puts may take old data of its peer for
\* "ready to read".
Putting(e) == pc[e] \in {"write", "raise", "putTaken", "lower"}
OneWriter == ~(Putting("client") /\ Putting("server"))

\* The parallel link implements the channel that link.doc describes.
Channel == INSTANCE TrapChannel
Implements == Channel!Spec

\* Every request comes back to the debugger.
RequestsComplete == []<>(pc["client"] = "app")
=============================================================================
