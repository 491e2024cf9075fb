------------------------------ MODULE TcpLink ------------------------------
(***************************************************************************)
(* Packets on a TCP connection (RemotePut and RemoteGet of                 *)
(* tcp/c/tcplink.c): a length of two bytes, low byte first, then the data, *)
(* in two calls of send.  TCP keeps the order of the bytes and loses none, *)
(* but a recv returns any part of what is there, and nothing marks where a *)
(* packet begins.                                                          *)
(*                                                                         *)
(* The socket blocks: send returns when it has taken all bytes, and recv   *)
(* when there is at least one.                                             *)
(***************************************************************************)
EXTENDS Naturals, Sequences, SequencesExt

CONSTANTS
  ByteMod,     \* values of a byte (2^8)
  MaxLen,      \* longest packet
  Talkers,     \* bound: the ends that put packets (the directions share nothing)
  MaxPuts      \* bound: packets put by an end

ASSUME SizeAssumption == ByteMod \in Nat \ {0, 1} /\ MaxLen \in Nat /\ MaxPuts \in Nat

Byte == 0 .. ByteMod - 1
Data == BoundedSeq(Byte, MaxLen)

VARIABLES
  wire,        \* bytes under way to an end, or in its socket
  spc,         \* an end in RemotePut: "len" before, "data" between its two sends
  rpc,         \* an end in RemoteGet: reads the "len" or the "data"
  need, buf,   \* how many bytes recvData still wants, and what it has got
  sent, got    \* history: packets put, packets got

vars == <<wire, spc, rpc, need, buf, sent, got>>

End == {"client", "server"}
Peer(e) == IF e = "client" THEN "server" ELSE "client"

\* send_len and rec_len: 16 bits, little-endian.
HeaderMut(n) == <<(n \div ByteMod) % ByteMod, n % ByteMod>>
Header(n) == <<n % ByteMod, (n \div ByteMod) % ByteMod>>
Length(h) == h[1] + ByteMod * h[2]

Init ==
  /\ wire = [e \in End |-> <<>>]
  /\ spc = [e \in End |-> "len"]
  /\ rpc = [e \in End |-> "len"]
  /\ need = [e \in End |-> 2] /\ buf = [e \in End |-> <<>>]
  /\ sent = [e \in End |-> <<>>] /\ got = [e \in End |-> <<>>]

(***************************************************************************)
(* RemotePut                                                               *)
(***************************************************************************)
SendBytes(e, s) == wire' = [wire EXCEPT ![Peer(e)] = @ \o s]

\* The second send is left out when there is no data.
SendLen(e) ==
  /\ spc[e] = "len" /\ e \in Talkers /\ Len(sent[e]) < MaxPuts
  /\ \E d \in Data :
       /\ sent' = [sent EXCEPT ![e] = Append(@, d)]
       /\ SendBytes(e, Header(Len(d)))
       /\ spc' = [spc EXCEPT ![e] = IF d = <<>> THEN "len" ELSE "data"]
  /\ UNCHANGED <<rpc, need, buf, got>>

SendData(e) ==
  /\ spc[e] = "data"
  /\ SendBytes(e, Last(sent[e]))
  /\ spc' = [spc EXCEPT ![e] = "len"]
  /\ UNCHANGED <<rpc, need, buf, sent, got>>

(***************************************************************************)
(* RemoteGet                                                               *)
(***************************************************************************)
\* recvData asks for what is missing, and takes what recv returns.
Wanted(e) == need[e]

Recv(e) ==
  /\ wire[e] # <<>> /\ need[e] > 0
  /\ \E k \in 1 .. Len(wire[e]) :
       /\ k <= Wanted(e)
       /\ buf' = [buf EXCEPT ![e] = @ \o SubSeq(wire[e], 1, k)]
       /\ wire' = [wire EXCEPT ![e] = SubSeq(@, k + 1, Len(@))]
       /\ need' = [need EXCEPT ![e] = IF k < @ THEN @ - k ELSE 0]
  /\ UNCHANGED <<spc, rpc, sent, got>>

\* rec_len is complete: RemoteGet calls recvData again for a packet with data.
Start(e) == /\ rpc' = [rpc EXCEPT ![e] = "len"]
            /\ need' = [need EXCEPT ![e] = 2]
            /\ buf' = [buf EXCEPT ![e] = <<>>]

GotLen(e) ==
  /\ rpc[e] = "len" /\ need[e] = 0 /\ Length(buf[e]) > 0
  /\ rpc' = [rpc EXCEPT ![e] = "data"]
  /\ need' = [need EXCEPT ![e] = Length(buf[e])]
  /\ buf' = [buf EXCEPT ![e] = <<>>]
  /\ UNCHANGED <<wire, spc, sent, got>>

\* RemoteGet returns a packet.
GotPacket(e) ==
  /\ need[e] = 0
  /\ rpc[e] = "len" => Length(buf[e]) = 0
  /\ got' = [got EXCEPT ![e] = Append(@, IF rpc[e] = "data" THEN buf[e] ELSE <<>>)]
  /\ Start(e)
  /\ UNCHANGED <<wire, spc, sent>>

Put(e) == SendLen(e) \/ SendData(e)
Get(e) == Recv(e) \/ GotLen(e) \/ GotPacket(e)

Next == \E e \in End : Put(e) \/ Get(e)

Spec == Init /\ [][Next]_vars

\* RemotePut finishes what it began, and recv returns what is there.
FairSpec == Spec /\ \A e \in End : WF_vars(SendData(e)) /\ WF_vars(Get(e))
-----------------------------------------------------------------------------
\* Types: a byte is a byte wherever it is, and recvData never takes more bytes
\* than the packet buffer holds.
TypeOK ==
  /\ \A e \in End : wire[e] \in Seq(Byte) /\ buf[e] \in Seq(Byte)
  /\ spc \in [End -> {"len", "data"}] /\ rpc \in [End -> {"len", "data"}]
  /\ need \in [End -> Nat]
  /\ \A e \in End : Len(buf[e]) + need[e] <= IF rpc[e] = "len" THEN 2 ELSE MaxLen
  /\ \A e \in End : sent[e] \in Seq(Data) /\ got[e] \in Seq(Data)

\* The connection implements the channel that link.doc describes.
Channel == INSTANCE TrapChannel
Implements == Channel!Spec

\* Every packet put arrives.
AllArrive == \A e \in End : []<>(got[e] = sent[Peer(e)])
=============================================================================
