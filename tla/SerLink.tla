------------------------------ MODULE SerLink ------------------------------
(***************************************************************************)
(* The serial link of the remote debugger (bld/trap/ser/c/serlink.c) with  *)
(* the two programs that drive it: the client's DoRequest (common/remote.c)*)
(* and the server's Session loop (common/servacc.c).                       *)
(*                                                                         *)
(* Each end runs the same half-duplex code.  RemotePut is BlockSend: send  *)
(* the numbered block, then wait for ACK, NAK or RLR ("request last        *)
(* response"), one second at a time.  RemoteGet is WaitReceive: wait for a *)
(* block, answer it with ACK or NAK.  A token of a channel stands for the  *)
(* bytes of one block or for one control byte.                             *)
(*                                                                         *)
(* The specification starts where RemoteConnect returned true: blocks 0    *)
(* were exchanged, so both counters stand at 1 and the last response of    *)
(* both ends was ACK.  The errors counted for that exchange stay in Errors.*)
(***************************************************************************)
EXTENDS Naturals, Sequences

CONSTANTS
  WireMod,     \* block numbers on the wire wrap at this value (2^16)
  UIntMod,     \* the counters SendBlkNo and ReceiveBlkNo wrap at this value
  MaxErrors,   \* MAX_ERRORS: more errors than this make both ends ReSync
  GiveUp,      \* may the 10 second timeout of RemotePut expire?
  Prompt,      \* is the line, and an end that waits on it, faster than the
               \* one second that a sender waits for a response?
  NoReply,     \* requests sent with Out_Mx_Num = 0
  MaxPuts,     \* bound: requests the client makes
  MaxFaults,   \* bound: faults of the line
  MaxChan      \* bound: an end that waits stops asking when this many tokens
               \* are under way to its peer

ASSUME ModAssumption == WireMod \in Nat \ {0} /\ UIntMod \in Nat \ {0}
ASSUME ErrorsAssumption == MaxErrors \in Nat
ASSUME BoundAssumption == MaxPuts \in Nat /\ MaxFaults \in Nat /\ MaxChan \in Nat
ASSUME ModeAssumption == GiveUp \in BOOLEAN /\ Prompt \in BOOLEAN

VARIABLES
  pc,          \* where the end is: in its program or inside the link code
  app,         \* the link function the end's program calls next
  ret,         \* what the last link function returned
  sendNo, recvNo,        \* SendBlkNo, ReceiveBlkNo
  errors, prevErrors,    \* Errors, PrevErrors, saturating above MaxErrors
  lastResp,    \* LastResponse
  chan,        \* tokens under way to the end, or in its receive buffer
  faults,      \* faults so far
  sent, got    \* history: packets put, blocks accepted

link == <<sendNo, recvNo, errors, prevErrors, lastResp>>
vars == <<pc, app, ret, link, chan, faults, sent, got>>

End == {"client", "server"}
Peer(e) == IF e = "client" THEN "server" ELSE "client"

(***************************************************************************)
(* Tokens                                                                  *)
(***************************************************************************)
Ctl(t) == [t |-> t, no |-> 0, err |-> 0, data |-> 0]
ACK == Ctl("ACK")
NAK == Ctl("NAK")
RLR == Ctl("RLR")
BAD == Ctl("BAD")       \* STX of a block that is short or fails its CRC
JUNK == Ctl("JUNK")     \* bytes that mean nothing to the block protocol

ErrCount == 0 .. MaxErrors + 1
Data == 1 .. MaxPuts

CtlToken == {ACK, NAK, RLR, BAD, JUNK}
BlkToken == [t : {"BLK"}, no : 0 .. WireMod - 1, err : ErrCount, data : Data]
Token == CtlToken \cup BlkToken

Head1(e) == IF chan[e] = <<>> THEN "none" ELSE Head(chan[e]).t
LastOf(s) == s[Len(s)]

\* The 16-bit block number that BlockSend stores in extra[0] and extra[1].
WireNo(n) == n % WireMod

\* ++ on a C unsigned integer.
IncMut(n) == n
IncNoWrapMut(n) == n + 1
Inc(n) == (n + 1) % UIntMod

\* The block that holds the packet end e is putting; err is PrevErrors.
Block(e, err) ==
  [t |-> "BLK", no |-> WireNo(sendNo[e]), err |-> err, data |-> LastOf(sent[e])]

\* BlockReceive takes a block for the next one.
IsNextMut(e, blk) == TRUE
IsNext(e, blk) == recvNo[e] = blk.no

\* What a receiver answers to a repetition, and to RLR.
RepeatAnswerMut(e) == NAK
RepeatAnswer(e) == ACK
RlrAnswerMut(e) == Ctl(lastResp[e])
RlrAnswer(e) == NAK

\* The error counter, which is only ever compared with MAX_ERRORS.
OneMore(n) == IF n > MaxErrors THEN n ELSE n + 1

(***************************************************************************)
(* ClearCom empties the receive buffer.  What is still under way arrives   *)
(* afterwards: a suffix of the channel, perhaps without the start of a     *)
(* block.                                                                  *)
(***************************************************************************)
Cleared(c) ==
  {SubSeq(c, i, Len(c)) : i \in 1 .. Len(c) + 1}
  \cup {<<JUNK>> \o SubSeq(c, i + 1, Len(c)) : i \in {j \in 1 .. Len(c) : c[j].t = "BLK"}}

(***************************************************************************)
(* Timeouts.  WaitByte returns SDATA_NO_DATA when nothing arrived in time. *)
(* With Prompt that takes a silent line: nothing on the way to the end,    *)
(* and nothing the peer is about to answer.  A peer in its own program,    *)
(* where a request may take any time to execute, answers nothing.          *)
(***************************************************************************)
Quiet(e) ==
  /\ chan[e] = <<>>
  /\ Prompt => chan[Peer(e)] = <<>> \/ (pc[Peer(e)] = "app" /\ app[Peer(e)] = "put")

\* e takes its next token and answers with the tokens of s.
TakeAndSend(e, s) ==
  chan' = [chan EXCEPT ![e] = Tail(@), ![Peer(e)] = @ \o s]
Take(e) == TakeAndSend(e, <<>>)

\* What the program of e calls once RemotePut or RemoteGet has returned.
AfterPut(e) ==
  IF e = "client" /\ LastOf(sent[e]) \notin NoReply THEN "get"
  ELSE IF e = "client" THEN "put" ELSE "get"
AfterGet(e, d) == IF e = "server" /\ d \in NoReply THEN "get" ELSE "put"
AfterFail(e) == IF e = "client" THEN "put" ELSE "get"

Init ==
  /\ pc = [e \in End |-> "app"]
  /\ app = [e \in End |-> IF e = "client" THEN "put" ELSE "get"]
  /\ ret = [e \in End |-> "none"]
  /\ sendNo = [e \in End |-> 1 % UIntMod]
  /\ recvNo = [e \in End |-> 1 % UIntMod]
  /\ errors \in [End -> ErrCount]
  /\ prevErrors = [e \in End |-> 0]
  /\ lastResp = [e \in End |-> "ACK"]
  /\ chan = [e \in End |-> <<>>]
  /\ faults = 0
  /\ sent = [e \in End |-> <<>>]
  /\ got = [e \in End |-> <<>>]

(***************************************************************************)
(* RemotePut and BlockSend                                                 *)
(***************************************************************************)
\* The client puts its next request; the server's reply answers the request
\* that is in PackBuff.
StartPut(e) ==
  /\ pc[e] = "app" /\ app[e] = "put"
  /\ Len(sent[e]) < MaxPuts
  /\ LET d == IF e = "client" THEN Len(sent[e]) + 1 ELSE LastOf(got[e])
         blk == [t |-> "BLK", no |-> WireNo(sendNo[e]), err |-> errors[e], data |-> d]
     IN /\ sent' = [sent EXCEPT ![e] = Append(@, d)]
        /\ \E c \in Cleared(chan[e]) :
             chan' = [chan EXCEPT ![e] = c, ![Peer(e)] = Append(@, blk)]
  /\ prevErrors' = [prevErrors EXCEPT ![e] = errors[e]]
  /\ errors' = [errors EXCEPT ![e] = 0]
  /\ pc' = [pc EXCEPT ![e] = "ackwait"]
  /\ UNCHANGED <<app, ret, sendNo, recvNo, lastResp, faults, got>>

\* ACK: the block counts as delivered, whichever block the peer meant.
RecvAck(e) ==
  /\ pc[e] = "ackwait" /\ Head1(e) = "ACK"
  /\ sendNo' = [sendNo EXCEPT ![e] = Inc(@)]
  /\ pc' = [pc EXCEPT ![e] = IF prevErrors[e] > MaxErrors THEN "resyncPut" ELSE "app"]
  /\ app' = [app EXCEPT ![e] = AfterPut(e)]
  /\ ret' = [ret EXCEPT ![e] = "put"]
  /\ Take(e)
  /\ UNCHANGED <<recvNo, errors, prevErrors, lastResp, faults, sent, got>>

\* NAK: count an error and send the block again.
RecvNak(e) ==
  /\ pc[e] = "ackwait" /\ Head1(e) = "NAK"
  /\ errors' = [errors EXCEPT ![e] = OneMore(@)]
  /\ TakeAndSend(e, <<Block(e, prevErrors[e])>>)
  /\ UNCHANGED <<pc, app, ret, sendNo, recvNo, prevErrors, lastResp, faults, sent, got>>

\* RLR: the peer is a sender too.  Repeat the last response, then the block.
RecvRlr(e) ==
  /\ pc[e] = "ackwait" /\ Head1(e) = "RLR"
  /\ TakeAndSend(e, <<Ctl(lastResp[e]), Block(e, prevErrors[e])>>)
  /\ UNCHANGED <<pc, app, ret, link, faults, sent, got>>

\* Any other byte: "things are totally messed up", discard until silence.
RecvOther(e) ==
  /\ pc[e] = "ackwait" /\ Head1(e) \in {"BLK", "BAD", "JUNK"}
  /\ pc' = [pc EXCEPT ![e] = "drain"]
  /\ Take(e)
  /\ UNCHANGED <<app, ret, link, faults, sent, got>>

DrainByte(e) ==
  /\ pc[e] = "drain" /\ Head1(e) # "none"
  /\ Take(e)
  /\ UNCHANGED <<pc, app, ret, link, faults, sent, got>>

Ask(e) ==
  /\ Quiet(e)
  /\ Len(chan[Peer(e)]) < MaxChan
  /\ chan' = [chan EXCEPT ![Peer(e)] = Append(@, RLR)]
  /\ errors' = [errors EXCEPT ![e] = OneMore(@)]
  /\ UNCHANGED <<app, ret, sendNo, recvNo, prevErrors, lastResp, faults, sent, got>>

\* 750 ms of silence: request the last response, and wait for it.
DrainEnds(e) ==
  /\ pc[e] = "drain"
  /\ pc' = [pc EXCEPT ![e] = "ackwait"]
  /\ Ask(e)

\* A second of silence.  A peer that discards will have asked before that.
Timeout(e) ==
  /\ pc[e] = "ackwait"
  /\ Prompt => pc[Peer(e)] # "drain"
  /\ UNCHANGED pc
  /\ Ask(e)

\* Ten seconds after the block was last sent, which is more waits of a second
\* than MAX_ERRORS, RemotePut returns TRAP_REQUEST_FAILED.  SendBlkNo stays as
\* it is.
PutFails(e) ==
  /\ GiveUp
  /\ pc[e] = "ackwait" /\ Quiet(e) /\ errors[e] > MaxErrors
  /\ pc' = [pc EXCEPT ![e] = "app"]
  /\ app' = [app EXCEPT ![e] = AfterFail(e)]
  /\ ret' = [ret EXCEPT ![e] = "putFailed"]
  /\ UNCHANGED <<link, chan, faults, sent, got>>

(***************************************************************************)
(* RemoteGet, WaitReceive and BlockReceive                                 *)
(***************************************************************************)
StartGet(e) ==
  /\ pc[e] = "app" /\ app[e] = "get"
  /\ pc' = [pc EXCEPT ![e] = "recv"]
  /\ UNCHANGED <<app, ret, link, chan, faults, sent, got>>

\* The next block: ACK it; ReSync first if the peer had too many errors.
Accept(e) ==
  /\ pc[e] = "recv" /\ Head1(e) = "BLK" /\ IsNext(e, Head(chan[e]))
  /\ LET blk == Head(chan[e])
     IN /\ got' = [got EXCEPT ![e] = Append(@, blk.data)]
        /\ pc' = [pc EXCEPT ![e] = IF blk.err > MaxErrors THEN "resyncGet" ELSE "app"]
        /\ app' = [app EXCEPT ![e] = AfterGet(e, blk.data)]
        /\ ret' = [ret EXCEPT ![e] = "got"]
  /\ recvNo' = [recvNo EXCEPT ![e] = Inc(@)]
  /\ lastResp' = [lastResp EXCEPT ![e] = "ACK"]
  /\ TakeAndSend(e, <<ACK>>)
  /\ UNCHANGED <<sendNo, errors, prevErrors, faults, sent>>

\* A block with another number is taken for a repetition: ACK, and forget it.
Repeated(e) ==
  /\ pc[e] = "recv" /\ Head1(e) = "BLK" /\ ~IsNext(e, Head(chan[e]))
  /\ lastResp' = [lastResp EXCEPT ![e] = "ACK"]
  /\ \E c \in Cleared(Tail(chan[e])) :
       chan' = [chan EXCEPT ![e] = c, ![Peer(e)] = Append(@, RepeatAnswer(e))]
  /\ UNCHANGED <<pc, app, ret, sendNo, recvNo, errors, prevErrors, faults, sent, got>>

\* A short block or a wrong CRC: NAK.
Damaged(e) ==
  /\ pc[e] = "recv" /\ Head1(e) = "BAD"
  /\ lastResp' = [lastResp EXCEPT ![e] = "NAK"]
  /\ TakeAndSend(e, <<NAK>>)
  /\ UNCHANGED <<pc, app, ret, sendNo, recvNo, errors, prevErrors, faults, sent, got>>

\* RLR between blocks: NAK, which LastResponse does not record.
AnswerRlr(e) ==
  /\ pc[e] = "recv" /\ Head1(e) = "RLR"
  /\ TakeAndSend(e, <<RlrAnswer(e)>>)
  /\ UNCHANGED <<pc, app, ret, link, faults, sent, got>>

Ignore(e) ==
  /\ pc[e] = "recv" /\ Head1(e) \in {"ACK", "NAK", "JUNK"}
  /\ Take(e)
  /\ UNCHANGED <<pc, app, ret, link, faults, sent, got>>

(***************************************************************************)
(* ReSync.  The exchange that finds the next lower baud rate is one step:  *)
(* both ends are in it and leave it together, with empty receive buffers.  *)
(* RemoteGet then returns 0 for the block it has accepted.                 *)
(***************************************************************************)
InResync(e) == pc[e] \in {"resyncPut", "resyncGet"}

Leave(E) ==
  /\ pc' = [e \in End |-> IF e \in E THEN "app" ELSE pc[e]]
  /\ ret' = [e \in End |-> IF e \in E /\ pc[e] = "resyncGet" THEN "gotNothing" ELSE ret[e]]
  /\ chan' = [e \in End |-> <<>>]
  /\ UNCHANGED <<app, link, sent, got>>

ResyncBoth == /\ \A e \in End : InResync(e)
              /\ Leave(End)
              /\ UNCHANGED faults

\* The client's answer to SDATA_LOK is lost: it leaves ReSync once it has
\* waited for the next one, and the server keeps waiting for SDATA_HI.
ResyncHalf == /\ \A e \in End : InResync(e)
              /\ faults < MaxFaults
              /\ faults' = faults + 1
              /\ Leave({"client"})

\* An end that is in ReSync alone throws away what it reads.
ResyncDrop(e) ==
  /\ InResync(e) /\ ~InResync(Peer(e)) /\ Head1(e) # "none"
  /\ Take(e)
  /\ UNCHANGED <<pc, app, ret, link, faults, sent, got>>

\* The client in ReSync says SDATA_HI every two seconds.
ResyncHi ==
  /\ InResync("client") /\ ~InResync("server")
  /\ chan["server"] = <<>>
  /\ chan' = [chan EXCEPT !["server"] = <<JUNK>>]
  /\ UNCHANGED <<pc, app, ret, link, faults, sent, got>>

(***************************************************************************)
(* The line loses, damages or mangles what is first under way.  A damaged  *)
(* block keeps its STX (BAD) or loses it (JUNK).                           *)
(***************************************************************************)
Fault(e) ==
  /\ faults < MaxFaults /\ Head1(e) # "none"
  /\ faults' = faults + 1
  /\ LET rest == Tail(chan[e])
         to == {rest, <<JUNK>> \o rest}
               \cup (IF Head1(e) = "BLK" THEN {<<BAD>> \o rest} ELSE {})
     IN \E c \in to : chan' = [chan EXCEPT ![e] = c]
  /\ UNCHANGED <<pc, app, ret, link, sent, got>>

Sending(e) == RecvAck(e) \/ RecvNak(e) \/ RecvRlr(e) \/ RecvOther(e)
              \/ DrainByte(e) \/ DrainEnds(e) \/ Timeout(e) \/ PutFails(e)
Receiving(e) == Accept(e) \/ Repeated(e) \/ Damaged(e) \/ AnswerRlr(e) \/ Ignore(e)
Resync == ResyncBoth \/ ResyncHalf \/ ResyncHi \/ \E e \in End : ResyncDrop(e)

Next == \/ \E e \in End : StartPut(e) \/ StartGet(e) \/ Sending(e) \/ Receiving(e)
        \/ Resync
        \/ \E e \in End : Fault(e)

Spec == Init /\ [][Next]_vars

(***************************************************************************)
(* Fairness.  Both ends run loops that never stop polling the line; the    *)
(* server executes every request it got.  The client's next request is the *)
(* user's choice, and faults are never owed.                               *)
(***************************************************************************)
Fairness ==
  /\ \A e \in End : WF_vars(Sending(e)) /\ WF_vars(Receiving(e)) /\ WF_vars(StartGet(e))
  /\ WF_vars(StartPut("server"))
  /\ WF_vars(ResyncBoth)

FairSpec == Spec /\ Fairness
-----------------------------------------------------------------------------
\* Types: the error counters saturate above MAX_ERRORS, the block counters stay
\* below the wrap of C's unsigned, and only tokens are ever on the line.
TypeOK ==
  /\ pc \in [End -> {"app", "ackwait", "drain", "recv", "resyncPut", "resyncGet"}]
  /\ app \in [End -> {"put", "get"}]
  /\ ret \in [End -> {"none", "put", "putFailed", "got", "gotNothing"}]
  /\ sendNo \in [End -> 0 .. UIntMod - 1]
  /\ recvNo \in [End -> 0 .. UIntMod - 1]
  /\ errors \in [End -> ErrCount]
  /\ prevErrors \in [End -> ErrCount]
  /\ lastResp \in [End -> {"ACK", "NAK"}]
  /\ chan \in [End -> Seq(Token)]
  /\ faults \in 0 .. MaxFaults
  /\ sent \in [End -> Seq(Data)]
  /\ got \in [End -> Seq(Data)]

\* A packet is there whenever the code is about to send one.
HasPacket ==
  /\ \A e \in End : pc[e] \in {"ackwait", "drain"} => sent[e] # <<>>
  /\ app["server"] = "put" => got["server"] # <<>>

\* The counters number the packets, and every block that is under way is the
\* packet its number says: what makes the comparison of block numbers in
\* BlockReceive tell the next packet from a repetition.
Counters ==
  \A e \in End :
    /\ sendNo[e] = Len(sent[e]) + (IF pc[e] \in {"ackwait", "drain"} THEN 0 ELSE 1)
    /\ recvNo[e] = Len(got[e]) + 1
    /\ Len(sent[e]) <= MaxPuts
    /\ Len(got[e]) <= Len(sent[Peer(e)])

\* A control byte, or a block of the peer that holds the packet of its number.
HonestToken(e) ==
  CtlToken \cup {b \in BlkToken : /\ b.no \in 1 .. Len(sent[Peer(e)])
                                 /\ b.data = sent[Peer(e)][b.no]}

\* Nothing else is ever on its way to an end: retries resend the same packet.
HonestChan == \A e \in End : chan[e] \in Seq(HonestToken(e))

\* RemoteGet hands out what the peer's RemotePut was given: every block that
\* BlockReceive accepts is the next packet of the peer, whatever was lost,
\* damaged, repeated or answered twice.
DeliveredPrefix ==
  \A e \in End : /\ Len(got[e]) <= Len(sent[Peer(e)])
                 /\ \A i \in 1 .. Len(got[e]) : got[e][i] = sent[Peer(e)][i]

\* All of it together.  (SerLinkProofs shows that it is inductive.)
IndInv == TypeOK /\ HasPacket /\ Counters /\ HonestChan /\ DeliveredPrefix

\* The link implements the channel that link.doc describes.
Channel == INSTANCE TrapChannel
Implements == Channel!Spec

\* When DoRequest has its reply, the server wrote it for this request.
ReplyMatches ==
  /\ pc["client"] = "app" /\ app["client"] = "put"
  /\ ret["client"] \in {"got", "gotNothing"}
  => LastOf(got["client"]) = LastOf(sent["client"])

\* The server never executes a request twice, and never a request after a
\* later one, even when RemotePut gave up on some of them.
AtMostOnceInOrder ==
  \A i, j \in 1 .. Len(got["server"]) : i < j => got["server"][i] < got["server"][j]

\* RemotePut does not return before the peer has the packet.
PutDelivered ==
  \A e \in End : pc[e] \notin {"ackwait", "drain"} => Len(got[Peer(e)]) = Len(sent[e])

\* The client enters ReSync after a RemotePut only together with the server.
ClientNotAlone == pc["client"] = "resyncPut" => InResync("server")

\* Every request comes back to the debugger, unless the ends part over a
\* ReSync: one of them stays in SetSyncTime and the other is not there.
LoneResync == \E e \in End : InResync(e) /\ ~InResync(Peer(e))
RequestsComplete == []<>(pc["client"] = "app") \/ <>[]LoneResync
=============================================================================
