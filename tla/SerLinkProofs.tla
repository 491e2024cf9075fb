--------------------------- MODULE SerLinkProofs ---------------------------
(***************************************************************************)
(* Theorems about the serial link, for every number of requests and every  *)
(* number of faults: the link itself first, then what it means to the two  *)
(* programs that use it.  The last part, on when RemotePut may return, is  *)
(* about a prompt line that fails at most once: with more it is not true.  *)
(***************************************************************************)
EXTENDS SerLink, SequenceTheorems, TLAPS

(***************************************************************************)
(* Lemmas on channels: what a step of an end or of the line leaves in a    *)
(* channel was there, or was added.                                        *)
(***************************************************************************)
\* The two ends are each other's peer.
LEMMA PeerFacts ==
  \A e \in End : /\ Peer(e) \in End /\ Peer(e) # e /\ Peer(Peer(e)) = e
                 /\ End = {e, Peer(e)}
BY DEF End, Peer

\* Head1 names the head of a channel that is not empty.
LEMMA Head1Facts ==
  ASSUME NEW e, NEW t \in {"ACK", "NAK", "RLR", "BLK", "BAD", "JUNK"}, Head1(e) = t
  PROVE  chan[e] # <<>> /\ Head(chan[e]).t = t
BY DEF Head1

\* ClearCom leaves tokens of the channel, or bytes without meaning.
LEMMA ClearedSeq ==
  ASSUME NEW S, JUNK \in S, NEW c \in Seq(S), NEW d \in Cleared(c)
  PROVE  d \in Seq(S)
<1>1. \A i \in 1 .. Len(c) + 1 : SubSeq(c, i, Len(c)) \in Seq(S)
  <2>1. SUFFICES ASSUME NEW i \in 1 .. Len(c) + 1
                 PROVE  SubSeq(c, i, Len(c)) \in Seq(S)
    OBVIOUS
  <2>2. Len(c) \in Nat /\ i \in Int
    BY LenProperties
  <2>3. \A j \in i .. Len(c) : c[j] \in S
    BY <2>2, ElementOfSeq
  <2>4. QED
    BY <2>2, <2>3, SubSeqProperties
<1>2. <<JUNK>> \in Seq(S)
  OBVIOUS
<1>3. \A i \in 1 .. Len(c) : <<JUNK>> \o SubSeq(c, i + 1, Len(c)) \in Seq(S)
  <2>1. Len(c) \in Nat
    BY LenProperties
  <2>2. \A i \in 1 .. Len(c) : i + 1 \in 1 .. Len(c) + 1
    BY <2>1
  <2>3. \A i \in 1 .. Len(c) : SubSeq(c, i + 1, Len(c)) \in Seq(S)
    BY <1>1, <2>2
  <2>4. QED
    BY <1>2, <2>3, ConcatProperties
<1>4. QED
  BY <1>1, <1>3 DEF Cleared

\* A step that takes a token and answers it.
LEMMA TakeAndSendSeq ==
  ASSUME NEW e \in End, NEW s, NEW S, NEW R, chan \in [End -> Seq(S \cup R)],
         chan[e] \in Seq(S), chan[e] # <<>>, chan[Peer(e)] \in Seq(R), s \in Seq(R),
         TakeAndSend(e, s)
  PROVE  /\ chan'[e] \in Seq(S)
         /\ chan'[Peer(e)] \in Seq(R)
         /\ chan' = [x \in End |-> chan'[x]]
<1>1. /\ chan'[e] = Tail(chan[e])
      /\ chan'[Peer(e)] = chan[Peer(e)] \o s
      /\ chan' = [x \in End |-> chan'[x]]
  BY PeerFacts DEF TakeAndSend
<1>2. Tail(chan[e]) \in Seq(S)
  BY HeadTailProperties
<1>3. chan[Peer(e)] \o s \in Seq(R)
  BY ConcatProperties
<1>4. QED
  BY <1>1, <1>2, <1>3

(***************************************************************************)
(* Lemmas on the values that the steps compute.                            *)
(***************************************************************************)
\* A counter below its wrap is its own remainder.
LEMMA ModFacts ==
  ASSUME NEW n \in Nat, NEW m \in Nat \ {0}
  PROVE  /\ n % m \in 0 .. m - 1
         /\ n < m => n % m = n
OBVIOUS

\* The last packet of a history is a packet.
LEMMA LastFacts ==
  ASSUME NEW S, NEW s \in Seq(S), s # <<>>
  PROVE  LastOf(s) \in S
BY ElementOfSeq, EmptySeq, LenProperties DEF LastOf

\* An element of a longer history is an old one or the new one.
LEMMA AppendedElement ==
  ASSUME NEW S, NEW s \in Seq(S), NEW d, Append(s, d) \in Seq(S)
  PROVE  d \in S
<1>1. Len(s) \in Nat /\ Len(Append(s, d)) = Len(s) + 1 /\ Append(s, d)[Len(s) + 1] = d
  BY LenProperties
<1>2. QED
  BY <1>1, ElementOfSeq

\* Control bytes are tokens.
LEMMA CtlFacts == {ACK, NAK, RLR, BAD, JUNK} \subseteq CtlToken
BY DEF CtlToken

\* The error counter saturates inside its range.
LEMMA OneMoreFacts == \A n \in ErrCount : OneMore(n) \in ErrCount
BY ErrorsAssumption DEF OneMore, ErrCount

\* The control bytes an end answers with are tokens.
LEMMA CtlSeq ==
  ASSUME NEW S, CtlToken \subseteq S
  PROVE  <<ACK>> \in Seq(S) /\ <<NAK>> \in Seq(S) /\ <<RLR>> \in Seq(S)
         /\ <<JUNK>> \in Seq(S) /\ <<BAD>> \in Seq(S)
BY CtlFacts

\* The packet of an end that waits for a response makes a well-formed block.
LEMMA BlockType ==
  ASSUME TypeOK, HasPacket, NEW e \in End, pc[e] \in {"ackwait", "drain"}
  PROVE  /\ Block(e, prevErrors[e]) \in BlkToken
         /\ Ctl(lastResp[e]) \in CtlToken
<1>1. WireNo(sendNo[e]) \in 0 .. WireMod - 1
  <2>1. sendNo[e] \in Nat
    BY ModAssumption DEF TypeOK
  <2>2. QED
    BY <2>1, ModFacts, ModAssumption DEF WireNo
<1>2. LastOf(sent[e]) \in Data
  BY LastFacts DEF TypeOK, HasPacket
<1>3. prevErrors[e] \in ErrCount
  BY DEF TypeOK
<1>4. Block(e, prevErrors[e]) \in BlkToken
  BY <1>1, <1>2, <1>3 DEF Block, BlkToken
<1>5. Ctl(lastResp[e]) \in CtlToken
  BY DEF TypeOK, CtlToken, ACK, NAK
<1>6. QED
  BY <1>4, <1>5

\* Taking the first token and answering keeps both channels well-typed.
LEMMA TakeAndSendType ==
  ASSUME TypeOK, NEW e \in End, NEW s \in Seq(Token), chan[e] # <<>>, TakeAndSend(e, s)
  PROVE  chan' \in [End -> Seq(Token)]
<1>1. chan \in [End -> Seq(Token \cup Token)] /\ chan[e] \in Seq(Token) /\ chan[Peer(e)] \in Seq(Token)
  BY PeerFacts DEF TypeOK
<1>2. chan'[e] \in Seq(Token) /\ chan'[Peer(e)] \in Seq(Token) /\ chan' = [x \in End |-> chan'[x]]
  <2>1. s \in Seq(Token)
    OBVIOUS
  <2>2. QED
    BY <1>1, <2>1, TakeAndSendSeq
<1>3. QED
  BY <1>2, PeerFacts

(***************************************************************************)
(* Type correctness.  HasPacket is what makes it inductive: the block that *)
(* NAK and RLR repeat, and the request that a reply answers, are there.    *)
(***************************************************************************)
TypeInv == TypeOK /\ HasPacket

\* RemoteConnect leaves both ends well-typed.
LEMMA TypeInit == Init => TypeInv
<1> SUFFICES ASSUME Init PROVE TypeInv
  OBVIOUS
<1>1. 1 % UIntMod \in 0 .. UIntMod - 1
  BY ModFacts, ModAssumption
<1>2. \A S : <<>> \in Seq(S)
  BY EmptySeq
<1>3. TypeOK
  BY <1>1, <1>2, BoundAssumption, ErrorsAssumption DEF Init, TypeOK, End, ErrCount
<1>4. HasPacket
  BY DEF Init, HasPacket, End
<1>5. QED
  BY <1>3, <1>4 DEF TypeInv

\* What an end sends is made of tokens, and ACK, NAK and RLR leave the rest.
LEMMA SendType ==
  ASSUME TypeInv, NEW e \in End,
         \/ RecvAck(e) \/ RecvNak(e) \/ RecvRlr(e) \/ RecvOther(e) \/ DrainByte(e)
         \/ Accept(e) \/ Damaged(e) \/ AnswerRlr(e) \/ Ignore(e)
  PROVE  chan' \in [End -> Seq(Token)]
<1> USE DEF TypeInv
<1>1. CtlToken \subseteq Token /\ BlkToken \subseteq Token
  BY DEF Token
<1>2. <<>> \in Seq(Token) /\ <<ACK>> \in Seq(Token) /\ <<NAK>> \in Seq(Token)
  BY <1>1, CtlSeq, EmptySeq
<1>3. ASSUME pc[e] = "ackwait"
      PROVE  /\ <<Block(e, prevErrors[e])>> \in Seq(Token)
             /\ <<Ctl(lastResp[e]), Block(e, prevErrors[e])>> \in Seq(Token)
  BY <1>1, <1>3, BlockType
<1>4. chan[e] # <<>>
  BY DEF RecvAck, RecvNak, RecvRlr, RecvOther, DrainByte, Accept, Damaged,
         AnswerRlr, Ignore, Head1
<1>5. ASSUME RecvAck(e) \/ RecvOther(e) \/ DrainByte(e) \/ Ignore(e)
      PROVE  TakeAndSend(e, <<>>)
  BY <1>5 DEF RecvAck, RecvOther, DrainByte, Ignore, Take
<1>6. \/ TakeAndSend(e, <<>>) \/ TakeAndSend(e, <<ACK>>) \/ TakeAndSend(e, <<NAK>>)
      \/ /\ pc[e] = "ackwait"
         /\ \/ TakeAndSend(e, <<Block(e, prevErrors[e])>>)
            \/ TakeAndSend(e, <<Ctl(lastResp[e]), Block(e, prevErrors[e])>>)
  BY <1>5 DEF RecvNak, RecvRlr, Accept, Damaged, AnswerRlr, RlrAnswer
<1>7. QED
  BY <1>2, <1>3, <1>4, <1>6, TakeAndSendType

\* A whole step keeps the types.
LEMMA TypeNext == TypeInv /\ [Next]_vars => TypeInv'
<1> SUFFICES ASSUME TypeInv, [Next]_vars PROVE TypeInv'
  OBVIOUS
<1> USE DEF TypeInv
<1>1. CASE \E e \in End : StartPut(e)
  <2> SUFFICES ASSUME NEW e \in End, StartPut(e) PROVE TypeInv'
    BY <1>1
  <2> DEFINE d == IF e = "client" THEN Len(sent[e]) + 1 ELSE LastOf(got[e])
             blk == [t |-> "BLK", no |-> WireNo(sendNo[e]), err |-> errors[e], data |-> d]
  <2>1. d \in Data
    <3>1. CASE e = "client"
      <4>1. Len(sent[e]) \in Nat /\ Len(sent[e]) < MaxPuts
        BY EmptySeq, LenProperties DEF StartPut, TypeOK
      <4>2. QED
        BY <3>1, <4>1, BoundAssumption DEF Data
    <3>2. CASE e # "client"
      <4>1. e = "server" /\ got[e] # <<>> /\ got[e] \in Seq(Data)
        BY <3>2 DEF End, StartPut, HasPacket, TypeOK
      <4>2. QED
        BY <3>2, <4>1, LastFacts
    <3>3. QED
      BY <3>1, <3>2
  <2>2. blk \in Token
    <3>1. WireNo(sendNo[e]) \in 0 .. WireMod - 1
      <4>1. sendNo[e] \in Nat
        BY ModAssumption DEF TypeOK
      <4>2. QED
        BY <4>1, ModFacts, ModAssumption DEF WireNo
    <3>2. errors[e] \in ErrCount
      BY DEF TypeOK
    <3>3. QED
      BY <2>1, <3>1, <3>2 DEF Token, BlkToken
  <2>3. PICK c \in Cleared(chan[e]) :
          chan' = [chan EXCEPT ![e] = c, ![Peer(e)] = Append(@, blk)]
    BY DEF StartPut
  <2>4. c \in Seq(Token)
    BY ClearedSeq, CtlFacts DEF TypeOK, Token
  <2>5. sent' = [sent EXCEPT ![e] = Append(@, d)]
    BY DEF StartPut
  <2> HIDE DEF d, blk
  <2>6. chan' \in [End -> Seq(Token)]
    <3>1. chan \in [End -> Seq(Token)] /\ Append(chan[Peer(e)], blk) \in Seq(Token)
      BY <2>2, PeerFacts, AppendProperties DEF TypeOK
    <3>2. QED
      BY <2>3, <2>4, <3>1
  <2>7. Append(sent[e], d) \in Seq(Data) /\ Append(sent[e], d) # <<>>
    <3>1. sent[e] \in Seq(Data)
      BY DEF TypeOK
    <3>2. QED
      BY <2>1, <3>1, AppendProperties
  <2>8. TypeOK'
    <3>1. errors' \in [End -> ErrCount] /\ prevErrors' \in [End -> ErrCount]
      BY ErrorsAssumption DEF StartPut, TypeOK, ErrCount
    <3>2. sent' \in [End -> Seq(Data)]
      BY <2>5, <2>7 DEF TypeOK
    <3>3. QED
      BY <2>6, <3>1, <3>2 DEF StartPut, TypeOK
  <2>9. QED
    BY ZenonT(40), <2>5, <2>7, <2>8 DEF StartPut, HasPacket, TypeOK
<1>2. CASE \E e \in End : StartGet(e)
  <2> SUFFICES ASSUME NEW e \in End, StartGet(e) PROVE TypeInv'
    BY <1>2
  <2>8. TypeOK'
    BY DEF StartGet, TypeOK, link
  <2>9. QED
    BY <2>8, PeerFacts DEF StartGet, HasPacket, End
<1>3. CASE \E e \in End : RecvAck(e)
  <2> SUFFICES ASSUME NEW e \in End, RecvAck(e) PROVE TypeInv'
    BY <1>3
  <2>1. chan' \in [End -> Seq(Token)]
    BY SendType
  <2>2. \A n \in 0 .. UIntMod - 1 : Inc(n) \in 0 .. UIntMod - 1
    BY ModFacts, ModAssumption DEF Inc
  <2>8. TypeOK'
    BY <2>1, <2>2 DEF RecvAck, TypeOK, AfterPut
  <2>9. QED
    BY <2>8, PeerFacts DEF RecvAck, AfterPut, HasPacket, End
<1>4. CASE \E e \in End : RecvNak(e)
  <2> SUFFICES ASSUME NEW e \in End, RecvNak(e) PROVE TypeInv'
    BY <1>4
  <2>1. chan' \in [End -> Seq(Token)]
    BY SendType
  <2>8. TypeOK'
    BY <2>1, OneMoreFacts DEF RecvNak, TypeOK
  <2>9. QED
    BY <2>8, PeerFacts DEF RecvNak, HasPacket, End
<1>5. CASE \E e \in End : RecvRlr(e)
  <2> SUFFICES ASSUME NEW e \in End, RecvRlr(e) PROVE TypeInv'
    BY <1>5
  <2>1. chan' \in [End -> Seq(Token)]
    BY SendType
  <2>8. TypeOK'
    BY <2>1 DEF RecvRlr, TypeOK, link
  <2>9. QED
    BY <2>8, PeerFacts DEF RecvRlr, HasPacket, End
<1>6. CASE \E e \in End : RecvOther(e)
  <2> SUFFICES ASSUME NEW e \in End, RecvOther(e) PROVE TypeInv'
    BY <1>6
  <2>1. chan' \in [End -> Seq(Token)]
    BY SendType
  <2>8. TypeOK'
    BY <2>1 DEF RecvOther, TypeOK, link
  <2>9. QED
    BY <2>8, PeerFacts DEF RecvOther, HasPacket, End
<1>7. CASE \E e \in End : DrainByte(e)
  <2> SUFFICES ASSUME NEW e \in End, DrainByte(e) PROVE TypeInv'
    BY <1>7
  <2>1. chan' \in [End -> Seq(Token)]
    BY SendType
  <2>8. TypeOK'
    BY <2>1 DEF DrainByte, TypeOK, link
  <2>9. QED
    BY <2>8, PeerFacts DEF DrainByte, HasPacket, End
<1>8. CASE \E e \in End : DrainEnds(e)
  <2> SUFFICES ASSUME NEW e \in End, DrainEnds(e) PROVE TypeInv'
    BY <1>8
  <2>1. chan' \in [End -> Seq(Token)]
    BY PeerFacts, CtlFacts, AppendProperties DEF DrainEnds, Ask, TypeOK, Token
  <2>8. TypeOK'
    BY <2>1, OneMoreFacts DEF DrainEnds, TypeOK, Ask
  <2>9. QED
    BY <2>8, PeerFacts DEF DrainEnds, Ask, HasPacket, End
<1>9. CASE \E e \in End : Timeout(e)
  <2> SUFFICES ASSUME NEW e \in End, Timeout(e) PROVE TypeInv'
    BY <1>9
  <2>1. chan' \in [End -> Seq(Token)]
    BY PeerFacts, CtlFacts, AppendProperties DEF Timeout, Ask, TypeOK, Token
  <2>8. TypeOK'
    BY <2>1, OneMoreFacts DEF Timeout, TypeOK, Ask
  <2>9. QED
    BY <2>8, PeerFacts DEF Timeout, Ask, HasPacket, End
<1>10. CASE \E e \in End : PutFails(e)
  <2> SUFFICES ASSUME NEW e \in End, PutFails(e) PROVE TypeInv'
    BY <1>10
  <2>8. TypeOK'
    BY PeerFacts DEF PutFails, TypeOK, link, AfterFail
  <2>9. QED
    BY <2>8, PeerFacts DEF PutFails, AfterFail, HasPacket, End
<1>11. CASE \E e \in End : Accept(e)
  <2> SUFFICES ASSUME NEW e \in End, Accept(e) PROVE TypeInv'
    BY <1>11
  <2>1. chan' \in [End -> Seq(Token)]
    BY SendType
  <2>2. \A n \in 0 .. UIntMod - 1 : Inc(n) \in 0 .. UIntMod - 1
    BY ModFacts, ModAssumption DEF Inc
  <2>3. Head(chan[e]) \in BlkToken
    <3>1. Head(chan[e]) \in Token /\ Head(chan[e]).t = "BLK"
      BY Head1Facts, HeadTailProperties DEF Accept, TypeOK
    <3>2. QED
      BY <3>1 DEF Token, CtlToken, Ctl, ACK, NAK, RLR, BAD, JUNK
  <2>4. Append(got[e], Head(chan[e]).data) \in Seq(Data)
        /\ Append(got[e], Head(chan[e]).data) # <<>>
    <3>1. got[e] \in Seq(Data) /\ Head(chan[e]).data \in Data
      BY <2>3 DEF TypeOK, BlkToken
    <3>2. QED
      BY <3>1, AppendProperties
  <2>8. TypeOK'
    BY <2>1, <2>2, <2>4 DEF Accept, TypeOK, AfterGet
  <2>9. QED
    BY <2>4, <2>8, PeerFacts DEF Accept, AfterGet, HasPacket, End, TypeOK
<1>12. CASE \E e \in End : Repeated(e)
  <2> SUFFICES ASSUME NEW e \in End, Repeated(e) PROVE TypeInv'
    BY <1>12
  <2>1. PICK c \in Cleared(Tail(chan[e])) :
          chan' = [chan EXCEPT ![e] = c, ![Peer(e)] = Append(@, ACK)]
    BY DEF Repeated, RepeatAnswer
  <2>2. Tail(chan[e]) \in Seq(Token) /\ ACK \in Token /\ JUNK \in Token
    BY Head1Facts, HeadTailProperties, CtlFacts DEF Repeated, TypeOK, Token
  <2>3. c \in Seq(Token)
    BY <2>2, ClearedSeq
  <2>4. chan' \in [End -> Seq(Token)]
    BY <2>1, <2>2, <2>3, PeerFacts, AppendProperties DEF TypeOK
  <2>8. TypeOK'
    BY <2>4 DEF Repeated, TypeOK
  <2>9. QED
    BY <2>8, PeerFacts DEF Repeated, HasPacket, End
<1>13. CASE \E e \in End : Damaged(e)
  <2> SUFFICES ASSUME NEW e \in End, Damaged(e) PROVE TypeInv'
    BY <1>13
  <2>1. chan' \in [End -> Seq(Token)]
    BY SendType
  <2>8. TypeOK'
    BY <2>1 DEF Damaged, TypeOK
  <2>9. QED
    BY <2>8, PeerFacts DEF Damaged, HasPacket, End
<1>14. CASE \E e \in End : AnswerRlr(e)
  <2> SUFFICES ASSUME NEW e \in End, AnswerRlr(e) PROVE TypeInv'
    BY <1>14
  <2>1. chan' \in [End -> Seq(Token)]
    BY SendType
  <2>8. TypeOK'
    BY <2>1 DEF AnswerRlr, TypeOK, link
  <2>9. QED
    BY <2>8, PeerFacts DEF AnswerRlr, HasPacket, End
<1>15. CASE \E e \in End : Ignore(e)
  <2> SUFFICES ASSUME NEW e \in End, Ignore(e) PROVE TypeInv'
    BY <1>15
  <2>1. chan' \in [End -> Seq(Token)]
    BY SendType
  <2>8. TypeOK'
    BY <2>1 DEF Ignore, TypeOK, link
  <2>9. QED
    BY <2>8, PeerFacts DEF Ignore, HasPacket, End
<1>16. CASE Resync
  <2>1. CASE ResyncBoth \/ ResyncHalf
    <3>1. <<>> \in Seq(Token)
      BY EmptySeq
    <3>2. PICK E \in SUBSET End : Leave(E)
      BY <2>1 DEF ResyncBoth, ResyncHalf, End
    <3>3. faults' \in 0 .. MaxFaults
      BY <2>1, BoundAssumption DEF ResyncBoth, ResyncHalf, TypeOK
    <3>4. chan' \in [End -> Seq(Token)]
      BY <3>1, <3>2 DEF Leave
    <3>5. TypeOK'
      BY <3>2, <3>3, <3>4 DEF Leave, link, TypeOK
    <3>6. QED
      BY <3>2, <3>5 DEF Leave, HasPacket
  <2>2. CASE ResyncHi
    <3>1. <<JUNK>> \in Seq(Token)
      BY CtlFacts DEF Token
    <3>2. TypeOK'
      BY <2>2, <3>1 DEF ResyncHi, link, TypeOK
    <3>3. QED
      BY <2>2, <3>2 DEF ResyncHi, HasPacket
  <2>3. CASE \E e \in End : ResyncDrop(e)
    <3> SUFFICES ASSUME NEW e \in End, ResyncDrop(e) PROVE TypeInv'
      BY <2>3
    <3>1. chan' \in [End -> Seq(Token)]
      BY EmptySeq, TakeAndSendType DEF ResyncDrop, Take, Head1
    <3>2. TypeOK'
      BY <3>1 DEF ResyncDrop, link, TypeOK
    <3>3. QED
      BY <3>2 DEF ResyncDrop, HasPacket
  <2>4. QED
    BY <1>16, <2>1, <2>2, <2>3 DEF Resync
<1>17. CASE \E e \in End : Fault(e)
  <2> SUFFICES ASSUME NEW e \in End, Fault(e) PROVE TypeInv'
    BY <1>17
  <2>1. /\ Tail(chan[e]) \in Seq(Token)
        /\ <<JUNK>> \o Tail(chan[e]) \in Seq(Token)
        /\ <<BAD>> \o Tail(chan[e]) \in Seq(Token)
    <3>1. <<JUNK>> \in Seq(Token) /\ <<BAD>> \in Seq(Token)
      BY CtlFacts DEF Token
    <3>2. Tail(chan[e]) \in Seq(Token)
      BY HeadTailProperties DEF Fault, Head1, TypeOK
    <3>3. QED
      BY <3>1, <3>2, ConcatProperties
  <2>2. PICK c \in {Tail(chan[e]), <<JUNK>> \o Tail(chan[e]), <<BAD>> \o Tail(chan[e])} :
          chan' = [chan EXCEPT ![e] = c]
    BY DEF Fault
  <2>3. chan' \in [End -> Seq(Token)]
    BY <2>1, <2>2 DEF TypeOK
  <2>4. faults' \in 0 .. MaxFaults
    BY BoundAssumption DEF Fault, TypeOK
  <2>5. TypeOK'
    BY <2>3, <2>4 DEF Fault, link, TypeOK
  <2>6. QED
    BY <2>5 DEF Fault, HasPacket
<1>18. CASE UNCHANGED vars
  BY <1>18 DEF vars, link, TypeOK, HasPacket
<1>19. QED
  BY <1>1, <1>2, <1>3, <1>4, <1>5, <1>6, <1>7, <1>8, <1>9, <1>10, <1>11, <1>12,
     <1>13, <1>14, <1>15, <1>16, <1>17, <1>18 DEF Next, Sending, Receiving

\* Every variable keeps its type: error counters in their saturated range,
\* counters below the wrap of C's unsigned, nothing but tokens on the line.
THEOREM TypeCorrect == Spec => []TypeOK
<1>1. Spec => []TypeInv
  BY TypeInit, TypeNext, PTL DEF Spec
<1>2. QED
  BY <1>1, PTL DEF TypeInv

(***************************************************************************)
(* Delivery.  As long as RemotePut waits for its acknowledgement and the       *)
(* session is too short for the 16-bit block number to wrap, the counters  *)
(* number the packets and every block under way is the packet its number   *)
(* says.  DeliveredPrefix alone is not inductive: Accept compares numbers, *)
(* never data.                                                             *)
(***************************************************************************)
NumbersFit == MaxPuts + 1 < WireMod /\ WireMod <= UIntMod
WithinLimits == ~GiveUp /\ NumbersFit

\* RemoteConnect leaves counters and histories in step.
LEMMA IndInit == Init /\ WithinLimits => IndInv
<1> SUFFICES ASSUME Init, WithinLimits PROVE IndInv
  OBVIOUS
<1>1. TypeOK /\ HasPacket
  BY TypeInit DEF TypeInv
<1>2. 1 % UIntMod = 1
  BY ModFacts, ModAssumption, BoundAssumption DEF WithinLimits, NumbersFit
<1>3. Counters /\ DeliveredPrefix
  BY <1>2, PeerFacts, EmptySeq, BoundAssumption DEF Init, Counters, DeliveredPrefix
<1>4. HonestChan
  BY EmptySeq DEF Init, HonestChan
<1>5. QED
  BY <1>1, <1>3, <1>4 DEF IndInv

\* Lengths of the histories are numbers.
LEMMA LenFacts ==
  ASSUME TypeInv
  PROVE  \A e \in End : Len(sent[e]) \in Nat /\ Len(got[e]) \in Nat
BY LenProperties DEF TypeInv, TypeOK

\* Incrementing a counter that numbers the packets does not wrap.
LEMMA IncFacts ==
  ASSUME NumbersFit
  PROVE  \A n \in 0 .. MaxPuts + 1 : /\ n < WireMod /\ WireNo(n) = n
                                     /\ n \in 0 .. MaxPuts => Inc(n) = n + 1
<1>1. ASSUME NEW n \in 0 .. MaxPuts + 1
      PROVE  n \in Nat /\ n < WireMod /\ (n \in 0 .. MaxPuts => n + 1 \in Nat /\ n + 1 < UIntMod)
  BY BoundAssumption, ModAssumption DEF NumbersFit
<1>2. QED
  BY <1>1, ModFacts, ModAssumption, BoundAssumption DEF WireNo, Inc

\* The block that a waiting end repeats is its newest packet.
LEMMA HonestBlock ==
  ASSUME WithinLimits, IndInv, NEW e \in End, pc[e] \in {"ackwait", "drain"}
  PROVE  Block(e, prevErrors[e]) \in HonestToken(Peer(e))
<1>1. Len(sent[e]) \in Nat /\ Len(sent[e]) <= MaxPuts /\ Len(sent[e]) >= 1
  BY LenFacts, EmptySeq DEF IndInv, TypeInv, TypeOK, HasPacket, Counters
<1>2. WireNo(sendNo[e]) = Len(sent[e])
  <2>1. sendNo[e] = Len(sent[e])
    <3>1. sendNo[e] = Len(sent[e]) + 0
      BY DEF IndInv, Counters
    <3>2. QED
      BY <1>1, <3>1
  <2>2. Len(sent[e]) \in 0 .. MaxPuts + 1
    BY <1>1, BoundAssumption
  <2>3. QED
    BY <2>1, <2>2, IncFacts DEF WithinLimits
<1>3. Block(e, prevErrors[e]) \in BlkToken
  BY BlockType DEF IndInv
<1>4. QED
  BY <1>1, <1>2, <1>3, PeerFacts DEF HonestToken, Block, LastOf

\* What BlockReceive accepts is the peer's next packet.
LEMMA AcceptsNext ==
  ASSUME IndInv, NEW e \in End, Accept(e)
  PROVE  /\ Len(got[e]) < Len(sent[Peer(e)])
         /\ Head(chan[e]).data = sent[Peer(e)][Len(got[e]) + 1]
<1>1. chan[e] # <<>> /\ Head(chan[e]).t = "BLK"
  BY Head1Facts DEF Accept
<1>2. Head(chan[e]) \in HonestToken(e)
  BY <1>1, HeadTailProperties DEF IndInv, HonestChan
<1>3. /\ Head(chan[e]).no \in 1 .. Len(sent[Peer(e)])
      /\ Head(chan[e]).data = sent[Peer(e)][Head(chan[e]).no]
  BY <1>1, <1>2 DEF HonestToken, CtlToken, Ctl, ACK, NAK, RLR, BAD, JUNK
<1>4. Head(chan[e]).no = Len(got[e]) + 1
  BY DEF Accept, IsNext, IndInv, Counters
<1>5. QED
  BY <1>3, <1>4, LenFacts, PeerFacts DEF IndInv, TypeInv

\* A step keeps the counters equal to the numbers of packets.
LEMMA CountersNext ==
  ASSUME WithinLimits, IndInv, [Next]_vars
  PROVE  Counters'
<1> USE DEF IndInv, TypeInv, Counters
<1>1. ASSUME NEW e \in End, StartPut(e) PROVE Counters'
  <2>1. PICK d \in Data : sent' = [sent EXCEPT ![e] = Append(@, d)]
    <3>1. sent'[e] \in Seq(Data)
      BY TypeNext DEF TypeInv, TypeOK
    <3>2. PICK d : sent' = [sent EXCEPT ![e] = Append(@, d)]
      BY <1>1 DEF StartPut
    <3>3. sent'[e] = Append(sent[e], d) /\ sent[e] \in Seq(Data)
      BY <3>2 DEF TypeInv, TypeOK
    <3>4. d \in Data
      BY <3>1, <3>3, AppendedElement
    <3>5. QED
      BY <3>2, <3>4
  <2>2. Len(sent'[e]) = Len(sent[e]) + 1
    BY <2>1, AppendProperties DEF TypeInv, TypeOK
  <2>3. /\ pc[e] = "app" /\ pc' = [pc EXCEPT ![e] = "ackwait"]
        /\ Len(sent[e]) < MaxPuts
        /\ UNCHANGED <<sendNo, recvNo, got>>
    BY <1>1 DEF StartPut
  <2>4. \A x \in End : /\ sendNo[x] \in Nat
                       /\ Len(sent[x]) \in Nat /\ Len(sent[Peer(x)]) \in Nat
                       /\ Len(got[x]) \in Nat /\ Len(got[x]) <= Len(sent[Peer(x)])
                       /\ Len(sent[x]) <= MaxPuts
    <3>1. \A x \in End : sendNo[x] \in Nat
      BY ModAssumption DEF TypeOK
    <3>2. \A x \in End : Len(sent[x]) \in Nat /\ Len(got[x]) \in Nat
      BY LenFacts
    <3>3. QED
      BY <3>1, <3>2, PeerFacts
  <2>5. SUFFICES ASSUME NEW x \in End
                 PROVE  /\ sendNo'[x] = Len(sent'[x]) + (IF pc'[x] \in {"ackwait", "drain"} THEN 0 ELSE 1)
                        /\ Len(sent'[x]) <= MaxPuts
                        /\ Len(got'[x]) <= Len(sent'[Peer(x)])
    BY <2>3
  <2>6. CASE x = e
    <3>1. sent'[Peer(x)] = sent[Peer(x)] /\ pc'[x] = "ackwait"
      BY <2>1, <2>3, <2>6, PeerFacts DEF TypeInv, TypeOK
    <3>2. sendNo[x] = Len(sent[x]) + 1
      BY <2>3, <2>6
    <3>3. Len(sent[x]) + 1 <= MaxPuts
      BY <2>3, <2>4, <2>6, BoundAssumption
    <3>4. sendNo'[x] = Len(sent'[x]) + (IF pc'[x] \in {"ackwait", "drain"} THEN 0 ELSE 1)
      <4>1. Len(sent'[x]) = Len(sent[x]) + 1 /\ Len(sent[x]) \in Nat /\ sendNo'[x] = sendNo[x]
        BY <2>2, <2>3, <2>4, <2>6
      <4>2. sendNo'[x] = Len(sent'[x]) + 0
        BY <3>2, <4>1
      <4>3. QED
        BY <3>1, <4>2
    <3>5. Len(sent'[x]) <= MaxPuts
      BY <2>2, <2>6, <3>3
    <3>6. Len(got'[x]) <= Len(sent'[Peer(x)])
      BY <2>3, <2>4, <3>1
    <3>7. QED
      BY <3>4, <3>5, <3>6
  <2>7. CASE x # e
    <3>1. sent'[x] = sent[x] /\ pc'[x] = pc[x] /\ Peer(x) = e
      BY <2>1, <2>3, <2>7, PeerFacts DEF TypeInv, TypeOK
    <3>2. Len(sent'[Peer(x)]) = Len(sent[Peer(x)]) + 1
      BY <2>2, <3>1
    <3>3. sendNo[x] = Len(sent[x]) + (IF pc[x] \in {"ackwait", "drain"} THEN 0 ELSE 1)
      OBVIOUS
    <3>4. sendNo'[x] = Len(sent'[x]) + (IF pc'[x] \in {"ackwait", "drain"} THEN 0 ELSE 1)
      BY <2>3, <3>1, <3>3
    <3>5. Len(sent'[x]) <= MaxPuts
      BY <2>4, <3>1
    <3>6. Len(got'[x]) <= Len(sent'[Peer(x)])
      BY <2>3, <2>4, <3>2
    <3>7. QED
      BY <3>4, <3>5, <3>6
  <2>8. QED
    BY <2>6, <2>7
<1>2. ASSUME NEW e \in End, RecvAck(e) PROVE Counters'
  <2>1. sendNo[e] = Len(sent[e]) /\ sendNo[e] \in 0 .. MaxPuts
    <3>1. sendNo[e] = Len(sent[e]) + 0 /\ Len(sent[e]) \in Nat /\ Len(sent[e]) <= MaxPuts
      BY <1>2, LenFacts DEF RecvAck
    <3>2. QED
      BY <3>1, BoundAssumption
  <2>2. sendNo'[e] = Len(sent[e]) + 1
    BY <1>2, <2>1, IncFacts, BoundAssumption DEF WithinLimits, RecvAck, TypeInv, TypeOK
  <2>3. pc'[e] \notin {"ackwait", "drain"}
    BY <1>2 DEF RecvAck, TypeInv, TypeOK
  <2>4. QED
    BY <1>2, <2>2, <2>3, LenFacts, PeerFacts DEF RecvAck, TypeInv, TypeOK
<1>3. ASSUME NEW e \in End, Accept(e) PROVE Counters'
  <2>1. Len(got'[e]) = Len(got[e]) + 1
    <3>1. got[e] \in Seq(Data) /\ got'[e] \in Seq(Data) /\ got'[e] = Append(got[e], Head(chan[e]).data)
      BY <1>3, TypeNext DEF Accept, TypeInv, TypeOK
    <3>2. QED
      BY <3>1
  <2>2. recvNo[e] = Len(got[e]) + 1 /\ recvNo[e] \in 0 .. MaxPuts
    <3>1. Len(got[e]) \in Nat /\ Len(sent[Peer(e)]) \in Nat /\ Len(sent[Peer(e)]) <= MaxPuts
      BY LenFacts, PeerFacts
    <3>2. Len(got[e]) < Len(sent[Peer(e)])
      BY <1>3, AcceptsNext
    <3>3. recvNo[e] = Len(got[e]) + 1
      OBVIOUS
    <3>4. QED
      BY <3>1, <3>2, <3>3, BoundAssumption
  <2>3. recvNo'[e] = Len(got'[e]) + 1
    BY <1>3, <2>1, <2>2, IncFacts, BoundAssumption DEF WithinLimits, Accept, TypeInv, TypeOK
  <2>4. pc[e] \notin {"ackwait", "drain"} /\ pc'[e] \notin {"ackwait", "drain"}
    BY <1>3 DEF Accept, TypeInv, TypeOK
  <2>5. UNCHANGED <<sendNo, sent>> /\ \A x \in End \ {e} :
          pc'[x] = pc[x] /\ recvNo'[x] = recvNo[x] /\ got'[x] = got[x]
    BY <1>3 DEF Accept, TypeInv, TypeOK
  <2>6. Len(got[e]) + 1 <= Len(sent[Peer(e)])
    <3>1. Len(got[e]) \in Nat /\ Len(sent[Peer(e)]) \in Nat
      BY LenFacts, PeerFacts
    <3>2. Len(got[e]) < Len(sent[Peer(e)])
      BY <1>3, AcceptsNext
    <3>3. QED
      BY <3>1, <3>2
  <2>7. QED
    BY <2>1, <2>3, <2>4, <2>5, <2>6
<1>4. ASSUME NEW e \in End,
             \/ RecvNak(e) \/ RecvRlr(e) \/ RecvOther(e) \/ DrainByte(e)
             \/ DrainEnds(e) \/ Timeout(e) \/ StartGet(e)
             \/ Repeated(e) \/ Damaged(e) \/ AnswerRlr(e) \/ Ignore(e) \/ ResyncDrop(e) \/ Fault(e)
      PROVE  Counters'
  <2>1. UNCHANGED <<sendNo, recvNo, sent, got>>
    BY <1>4 DEF RecvNak, RecvRlr, RecvOther, DrainByte, DrainEnds, Timeout, Ask, StartGet,
                Repeated, Damaged, AnswerRlr, Ignore, ResyncDrop, Fault, link
  <2>2. \A x \in End : pc'[x] \in {"ackwait", "drain"} <=> pc[x] \in {"ackwait", "drain"}
    BY <1>4 DEF RecvNak, RecvRlr, RecvOther, DrainByte, DrainEnds, Timeout, Ask, StartGet,
                Repeated, Damaged, AnswerRlr, Ignore, ResyncDrop, Fault, TypeInv, TypeOK
  <2>3. QED
    BY <2>1, <2>2
<1>5. ASSUME ResyncBoth \/ ResyncHalf \/ ResyncHi PROVE Counters'
  <2>1. UNCHANGED <<sendNo, recvNo, sent, got>>
    BY <1>5 DEF ResyncBoth, ResyncHalf, ResyncHi, Leave, link
  <2>2. \A x \in End : pc'[x] \in {"ackwait", "drain"} <=> pc[x] \in {"ackwait", "drain"}
    BY <1>5 DEF ResyncBoth, ResyncHalf, ResyncHi, InResync, Leave
  <2>3. QED
    BY <2>1, <2>2
<1>6. ASSUME UNCHANGED vars PROVE Counters'
  BY <1>6 DEF vars, link
<1>7. \A e \in End : ~PutFails(e)
  BY DEF PutFails, WithinLimits
<1>8. QED
  BY <1>1, <1>2, <1>3, <1>4, <1>5, <1>6, <1>7 DEF Next, Sending, Receiving, Resync

\* What either end sends is honest, so the line carries honest tokens.
LEMMA HonestSend ==
  ASSUME IndInv, NEW e \in End, NEW s \in Seq(HonestToken(Peer(e))),
         chan[e] # <<>>, TakeAndSend(e, s), UNCHANGED sent
  PROVE  HonestChan'
<1>1. chan[e] \in Seq(HonestToken(e)) /\ chan[Peer(e)] \in Seq(HonestToken(Peer(e)))
  BY PeerFacts DEF IndInv, HonestChan
<1>2. chan \in [End -> Seq(HonestToken(e) \cup HonestToken(Peer(e)))]
  <2>1. \A x \in End : chan[x] \in Seq(HonestToken(e) \cup HonestToken(Peer(e)))
    BY <1>1, PeerFacts, SeqMonotonic
  <2>2. QED
    BY <2>1 DEF IndInv, TypeOK
<1>3. chan'[e] \in Seq(HonestToken(e)) /\ chan'[Peer(e)] \in Seq(HonestToken(Peer(e)))
  <2>1. s \in Seq(HonestToken(Peer(e)))
    OBVIOUS
  <2>2. QED
    BY <1>1, <1>2, <2>1, TakeAndSendSeq
<1>4. QED
  BY <1>3, PeerFacts DEF HonestChan, HonestToken

\* The line only takes tokens away, or makes them meaningless.
LEMMA HonestChange ==
  ASSUME IndInv, NEW e \in End, NEW c \in Seq(HonestToken(e)), UNCHANGED sent,
         NEW t \in CtlToken,
         \/ chan' = [chan EXCEPT ![e] = c]
         \/ chan' = [chan EXCEPT ![Peer(e)] = Append(@, t)]
         \/ chan' = [chan EXCEPT ![e] = c, ![Peer(e)] = Append(@, t)]
  PROVE  HonestChan'
<1>1. \A x \in End : chan[x] \in Seq(HonestToken(x)) /\ t \in HonestToken(x)
  BY DEF IndInv, HonestChan, HonestToken
<1>2. \A x \in End : Append(chan[x], t) \in Seq(HonestToken(x))
  BY <1>1, AppendProperties
<1>3. \A x \in End : chan'[x] \in {chan[x], Append(chan[x], t)} \/ (x = e /\ chan'[x] = c)
  <2>1. chan \in [End -> Seq(Token)]
    BY DEF IndInv, TypeOK
  <2>2. QED
    BY <2>1, PeerFacts
<1>4. \A x \in End : chan'[x] \in Seq(HonestToken(x))
  BY <1>1, <1>2, <1>3
<1>5. QED
  BY <1>4 DEF HonestChan, HonestToken

\* A step leaves only honest blocks on the line.
LEMMA HonestNext ==
  ASSUME WithinLimits, IndInv, [Next]_vars
  PROVE  HonestChan'
<1>1. \A x \in End : CtlToken \subseteq HonestToken(x)
  BY DEF HonestToken
<1>2. \A x \in End : /\ <<>> \in Seq(HonestToken(x))
                     /\ <<ACK>> \in Seq(HonestToken(x)) /\ <<NAK>> \in Seq(HonestToken(x))
                     /\ <<JUNK>> \in Seq(HonestToken(x)) /\ <<BAD>> \in Seq(HonestToken(x))
  BY <1>1, CtlSeq, EmptySeq
<1>3. ASSUME NEW e \in End, chan[e] # <<>>
      PROVE  Tail(chan[e]) \in Seq(HonestToken(e))
  BY <1>3, HeadTailProperties DEF IndInv, HonestChan
<1>4. ASSUME NEW e \in End, StartPut(e) PROVE HonestChan'
  <2> DEFINE d == IF e = "client" THEN Len(sent[e]) + 1 ELSE LastOf(got[e])
             blk == [t |-> "BLK", no |-> WireNo(sendNo[e]), err |-> errors[e], data |-> d]
  <2>1. PICK c \in Cleared(chan[e]) :
          chan' = [chan EXCEPT ![e] = c, ![Peer(e)] = Append(@, blk)]
    BY <1>4 DEF StartPut
  <2>2. c \in Seq(HonestToken(e))
    BY <1>1, ClearedSeq, CtlFacts DEF IndInv, HonestChan
  <2>3. sent' = [sent EXCEPT ![e] = Append(@, d)]
    BY <1>4 DEF StartPut
  <2>4. chan' \in [End -> Seq(Token)] /\ sent'[e] \in Seq(Data)
    BY TypeNext DEF IndInv, TypeInv, TypeOK
  <2>5. blk.t = "BLK" /\ blk.data = d /\ blk.no = WireNo(sendNo[e])
    OBVIOUS
  <2>6. blk \notin CtlToken
    BY <2>5 DEF CtlToken, Ctl, ACK, NAK, RLR, BAD, JUNK
  <2> HIDE DEF d, blk
  <2>7. chan'[Peer(e)] = Append(chan[Peer(e)], blk) /\ chan'[e] = c
    BY <2>1, PeerFacts DEF IndInv, TypeOK
  <2>8. blk \in BlkToken
    <3>1. /\ chan'[Peer(e)] \in Seq(Token) /\ chan[Peer(e)] \in Seq(Token)
      BY <2>4, PeerFacts DEF IndInv, TypeOK
    <3>2. /\ Len(chan'[Peer(e)]) = Len(chan[Peer(e)]) + 1
          /\ chan'[Peer(e)][Len(chan[Peer(e)]) + 1] = blk
      BY <2>7, <3>1
    <3>3. blk \in Token
      BY <3>1, <3>2, ElementOfSeq, LenProperties
    <3>4. QED
      BY <2>6, <3>3 DEF Token
  <2>9. /\ Len(sent'[e]) = Len(sent[e]) + 1
        /\ sent'[e][Len(sent[e]) + 1] = d
        /\ \A i \in 1 .. Len(sent[e]) : sent'[e][i] = sent[e][i]
        /\ sent'[Peer(e)] = sent[Peer(e)]
    <3>1. sent[e] \in Seq(Data) /\ sent' = [sent EXCEPT ![e] = Append(sent[e], d)]
      BY <2>3 DEF IndInv, TypeOK
    <3>2. sent'[e] = Append(sent[e], d) /\ sent'[Peer(e)] = sent[Peer(e)]
      BY <3>1, PeerFacts DEF IndInv, TypeOK
    <3>3. d \in Data
      BY <2>4, <3>1, <3>2, AppendedElement
    <3>4. QED
      BY <3>1, <3>2, <3>3, AppendProperties
  <2>10. blk.no = Len(sent[e]) + 1
    <3>1. /\ Len(sent[e]) \in Nat /\ Len(sent[e]) < MaxPuts
          /\ sendNo[e] = Len(sent[e]) + 1
      BY <1>4, LenFacts DEF StartPut, IndInv, TypeInv, Counters
    <3>2. Len(sent[e]) + 1 \in 0 .. MaxPuts + 1
      BY <3>1, BoundAssumption
    <3>3. QED
      BY <2>5, <3>1, <3>2, IncFacts DEF WithinLimits
  <2>11. HonestToken(e)' = HonestToken(e) /\ HonestToken(Peer(e)) \subseteq HonestToken(Peer(e))'
    BY <2>9, LenFacts, PeerFacts DEF HonestToken, IndInv, TypeInv
  <2>12. blk \in HonestToken(Peer(e))'
    BY <2>5, <2>8, <2>9, <2>10, LenFacts, PeerFacts DEF HonestToken, IndInv, TypeInv
  <2>13. chan'[Peer(e)] \in Seq(HonestToken(Peer(e))')
    <3>1. chan[Peer(e)] \in Seq(HonestToken(Peer(e)))
      BY PeerFacts DEF IndInv, HonestChan
    <3>2. chan[Peer(e)] \in Seq(HonestToken(Peer(e))')
      BY <2>11, <3>1, SeqMonotonic
    <3>3. QED
      BY <2>7, <2>12, <3>2, AppendProperties
  <2>14. chan'[e] \in Seq(HonestToken(e)')
    BY <2>2, <2>7, <2>11
  <2>15. QED
    BY <2>13, <2>14, PeerFacts DEF HonestChan
<1>5. ASSUME NEW e \in End,
             \/ RecvAck(e) \/ RecvOther(e) \/ DrainByte(e) \/ Ignore(e) \/ ResyncDrop(e)
             \/ Accept(e) \/ Damaged(e) \/ AnswerRlr(e)
      PROVE  HonestChan'
  <2>1. chan[e] # <<>> /\ UNCHANGED sent
    BY <1>5 DEF RecvAck, RecvOther, DrainByte, Ignore, ResyncDrop, Accept, Damaged, AnswerRlr, Head1
  <2>2. TakeAndSend(e, <<>>) \/ TakeAndSend(e, <<ACK>>) \/ TakeAndSend(e, <<NAK>>)
    BY <1>5 DEF RecvAck, RecvOther, DrainByte, Ignore, ResyncDrop, Accept, Damaged, AnswerRlr,
                RlrAnswer, Take
  <2>3. QED
    BY <1>2, <2>1, <2>2, PeerFacts, HonestSend
<1>6. ASSUME NEW e \in End, RecvNak(e) \/ RecvRlr(e)
      PROVE  HonestChan'
  <2>1. chan[e] # <<>> /\ pc[e] = "ackwait" /\ UNCHANGED sent
    BY <1>6 DEF RecvNak, RecvRlr, Head1
  <2>2. /\ Block(e, prevErrors[e]) \in HonestToken(Peer(e))
        /\ Ctl(lastResp[e]) \in HonestToken(Peer(e))
    BY <1>1, <2>1, HonestBlock, BlockType, PeerFacts DEF IndInv
  <2>3. /\ <<Block(e, prevErrors[e])>> \in Seq(HonestToken(Peer(e)))
        /\ <<Ctl(lastResp[e]), Block(e, prevErrors[e])>> \in Seq(HonestToken(Peer(e)))
    BY <2>2
  <2>4. \/ TakeAndSend(e, <<Block(e, prevErrors[e])>>)
        \/ TakeAndSend(e, <<Ctl(lastResp[e]), Block(e, prevErrors[e])>>)
    BY <1>6 DEF RecvNak, RecvRlr
  <2>5. QED
    BY <2>1, <2>3, <2>4, HonestSend
<1>7. ASSUME NEW e \in End, DrainEnds(e) \/ Timeout(e)
      PROVE  HonestChan'
  <2>1. chan' = [chan EXCEPT ![Peer(e)] = Append(@, RLR)] /\ UNCHANGED sent
    BY <1>7 DEF DrainEnds, Timeout, Ask
  <2>2. QED
    BY <1>2, <2>1, CtlFacts, HonestChange
<1>8. ASSUME NEW e \in End, Repeated(e)
      PROVE  HonestChan'
  <2>1. PICK c \in Cleared(Tail(chan[e])) :
          chan' = [chan EXCEPT ![e] = c, ![Peer(e)] = Append(@, ACK)]
    BY <1>8 DEF Repeated, RepeatAnswer
  <2>2. Tail(chan[e]) \in Seq(HonestToken(e))
    BY <1>3, <1>8, Head1Facts DEF Repeated
  <2>3. c \in Seq(HonestToken(e))
    BY <1>1, <2>2, ClearedSeq, CtlFacts
  <2>4. UNCHANGED sent
    BY <1>8 DEF Repeated
  <2>5. QED
    BY <2>1, <2>3, <2>4, CtlFacts, HonestChange
<1>9. ASSUME NEW e \in End, Fault(e)
      PROVE  HonestChan'
  <2>1. PICK c \in {Tail(chan[e]), <<JUNK>> \o Tail(chan[e]), <<BAD>> \o Tail(chan[e])} :
          chan' = [chan EXCEPT ![e] = c]
    BY <1>9 DEF Fault
  <2>2. Tail(chan[e]) \in Seq(HonestToken(e))
    BY <1>3, <1>9 DEF Fault, Head1
  <2>3. c \in Seq(HonestToken(e))
    BY <1>2, <2>1, <2>2, ConcatProperties
  <2>4. UNCHANGED sent
    BY <1>9 DEF Fault
  <2>5. QED
    BY <2>1, <2>3, <2>4, CtlFacts, HonestChange
<1>10. ASSUME ResyncBoth \/ ResyncHalf PROVE HonestChan'
  <2>1. \A x \in End : chan'[x] = <<>>
    BY <1>10 DEF ResyncBoth, ResyncHalf, Leave
  <2>2. \A x \in End : <<>> \in Seq(HonestToken(x)')
    BY EmptySeq
  <2>3. QED
    BY <2>1, <2>2 DEF HonestChan
<1>11. ASSUME ResyncHi PROVE HonestChan'
  <2>1. "server" \in End /\ chan' = [chan EXCEPT !["server"] = <<JUNK>>] /\ UNCHANGED sent
    BY <1>11 DEF ResyncHi, End
  <2>2. QED
    BY <1>2, <2>1, CtlFacts, HonestChange
<1>12. ASSUME \/ UNCHANGED vars
              \/ \E e \in End : StartGet(e)
       PROVE HonestChan'
  <2>1. UNCHANGED <<chan, sent>>
    BY <1>12 DEF vars, StartGet
  <2>2. QED
    BY <2>1 DEF IndInv, HonestChan, HonestToken
<1>13. \A e \in End : ~PutFails(e)
  BY DEF PutFails, WithinLimits
<1>14. QED
  BY <1>4, <1>5, <1>6, <1>7, <1>8, <1>9, <1>10, <1>11, <1>12, <1>13
  DEF Next, Sending, Receiving, Resync

(***************************************************************************)
(* Every step puts one packet, delivers the next one, or does neither: a   *)
(* step of the link is a step of the channel of link.doc, or a stutter.    *)
(***************************************************************************)
LEMMA ChannelStep ==
  ASSUME IndInv, [Next]_vars
  PROVE  [Channel!Next]_<<sent, got>>
<1>1. ASSUME NEW e \in End, StartPut(e)
      PROVE  Channel!Next
  <2>1. PICK d : sent' = [sent EXCEPT ![e] = Append(@, d)]
    BY <1>1 DEF StartPut
  <2>2. d \in Data
    <3>1. sent \in [End -> Seq(Data)] /\ sent' \in [End -> Seq(Data)]
      BY TypeNext DEF IndInv, TypeInv, TypeOK
    <3>2. Append(sent[e], d) \in Seq(Data)
      BY <2>1, <3>1
    <3>3. QED
      BY <3>1, <3>2, AppendedElement
  <2>3. UNCHANGED got
    BY <1>1 DEF StartPut
  <2>4. e \in Channel!End /\ Channel!Put(e, d)
    BY <2>1, <2>3 DEF End, Channel!End, Channel!Put
  <2>5. QED
    BY <2>2, <2>4 DEF Channel!Next
<1>2. ASSUME NEW e \in End, Accept(e)
      PROVE  Channel!Next
  <2>1. /\ got' = [got EXCEPT ![e] = Append(@, Head(chan[e]).data)]
        /\ UNCHANGED sent
    BY <1>2 DEF Accept
  <2>2. e \in Channel!End /\ Channel!Peer(e) = Peer(e)
    BY DEF End, Peer, Channel!End, Channel!Peer
  <2>3. Channel!Deliver(e)
    BY <1>2, <2>1, <2>2, AcceptsNext DEF Channel!Deliver
  <2>4. QED
    BY <2>2, <2>3 DEF Channel!Next
<1>3. ASSUME NEW e \in End,
             \/ RecvAck(e) \/ RecvNak(e) \/ RecvRlr(e) \/ RecvOther(e) \/ DrainByte(e)
             \/ DrainEnds(e) \/ Timeout(e) \/ PutFails(e) \/ StartGet(e) \/ Repeated(e)
             \/ Damaged(e) \/ AnswerRlr(e) \/ Ignore(e) \/ ResyncDrop(e) \/ Fault(e)
      PROVE  UNCHANGED <<sent, got>>
  BY <1>3 DEF RecvAck, RecvNak, RecvRlr, RecvOther, DrainByte, DrainEnds, Timeout, Ask,
              PutFails, StartGet, Repeated, Damaged, AnswerRlr, Ignore, ResyncDrop, Fault
<1>4. ASSUME ResyncBoth \/ ResyncHalf \/ ResyncHi \/ UNCHANGED vars
      PROVE  UNCHANGED <<sent, got>>
  BY <1>4 DEF ResyncBoth, ResyncHalf, ResyncHi, Leave, vars
<1>5. QED
  BY <1>1, <1>2, <1>3, <1>4 DEF Next, Sending, Receiving, Resync

\* What was delivered stays a prefix of what was put.
LEMMA PrefixNext ==
  ASSUME WithinLimits, IndInv, [Next]_vars
  PROVE  DeliveredPrefix'
<1>1. /\ sent \in [End -> Seq(Data)] /\ sent' \in [End -> Seq(Data)]
      /\ got \in [End -> Seq(Data)] /\ got' \in [End -> Seq(Data)]
  BY TypeNext DEF IndInv, TypeInv, TypeOK
<1>2. CASE Channel!Next
  <2>1. ASSUME NEW e \in End, NEW d \in Data, Channel!Put(e, d)
        PROVE  DeliveredPrefix'
    <3>1. /\ sent' = [sent EXCEPT ![e] = Append(@, d)] /\ got' = got
      BY <2>1 DEF Channel!Put
    <3>2. \A x \in End : /\ Len(sent'[x]) >= Len(sent[x])
                         /\ \A i \in 1 .. Len(sent[x]) : sent'[x][i] = sent[x][i]
      BY <1>1, <3>1, AppendProperties, LenProperties
    <3>3. \A x \in End : /\ Len(got[x]) \in Nat /\ Len(sent[x]) \in Nat /\ Len(sent'[x]) \in Nat
                         /\ Len(got[x]) <= Len(sent[Peer(x)])
                         /\ \A i \in 1 .. Len(got[x]) : got[x][i] = sent[Peer(x)][i]
      BY <1>1, LenProperties DEF IndInv, DeliveredPrefix
    <3>4. QED
      BY <3>1, <3>2, <3>3, PeerFacts DEF DeliveredPrefix
  <2>2. ASSUME NEW e \in End, Channel!Deliver(e)
        PROVE  DeliveredPrefix'
    <3>1. /\ got' = [got EXCEPT ![e] = Append(@, sent[Peer(e)][Len(got[e]) + 1])]
          /\ sent' = sent /\ Len(got[e]) < Len(sent[Peer(e)])
      BY <2>2 DEF Channel!Deliver, Channel!Peer, Peer
    <3>2. /\ Len(got[e]) \in Nat /\ Len(sent[Peer(e)]) \in Nat
      BY <1>1, PeerFacts, LenProperties
    <3>3. sent[Peer(e)][Len(got[e]) + 1] \in Data
      BY <1>1, <3>1, <3>2, PeerFacts, ElementOfSeq
    <3>4. /\ Len(got'[e]) = Len(got[e]) + 1
          /\ \A i \in 1 .. Len(got[e]) : got'[e][i] = got[e][i]
          /\ got'[e][Len(got[e]) + 1] = sent[Peer(e)][Len(got[e]) + 1]
      BY <1>1, <3>1, <3>3, AppendProperties
    <3>5. \A x \in End \ {e} : got'[x] = got[x]
      BY <1>1, <3>1
    <3>6. \A x \in End : /\ Len(got[x]) <= Len(sent[Peer(x)])
                         /\ \A i \in 1 .. Len(got[x]) : got[x][i] = sent[Peer(x)][i]
      BY DEF IndInv, DeliveredPrefix
    <3>7. \A i \in 1 .. Len(got'[e]) : i \in 1 .. Len(got[e]) \/ i = Len(got[e]) + 1
      BY <3>2, <3>4
    <3>8. QED
      BY <3>1, <3>2, <3>4, <3>5, <3>6, <3>7 DEF DeliveredPrefix
  <2>3. QED
    BY <1>2, <2>1, <2>2 DEF Channel!Next, Channel!End, End
<1>3. CASE UNCHANGED <<sent, got>>
  BY <1>3 DEF IndInv, DeliveredPrefix
<1>4. QED
  BY <1>2, <1>3, ChannelStep

\* The invariant is inductive.
LEMMA IndNext == WithinLimits /\ IndInv /\ [Next]_vars => IndInv'
BY TypeNext, CountersNext, HonestNext, PrefixNext DEF IndInv, TypeInv

\* What makes the comparison of block numbers tell the next packet from a
\* repetition holds in every reachable state.
THEOREM IndCorrect == ASSUME WithinLimits PROVE Spec => []IndInv
<1>1. Init => IndInv
  BY IndInit
<1>2. IndInv /\ [Next]_vars => IndInv'
  BY IndNext
<1>3. QED
  BY <1>1, <1>2, PTL DEF Spec

\* RemoteGet hands out the peer's packets once, unchanged and in order, however
\* many tokens the line loses or damages.
THEOREM Delivered == ASSUME WithinLimits PROVE Spec => []DeliveredPrefix
<1>1. IndInv => DeliveredPrefix
  BY DEF IndInv
<1>2. QED
  BY <1>1, IndCorrect, PTL

\* The serial link is the channel that link.doc promises its callers.
THEOREM LinkImplementsChannel == ASSUME WithinLimits PROVE Spec => Implements
<1>1. Init => Channel!Init
  BY DEF Init, Channel!Init, End, Channel!End
<1>2. IndInv /\ [Next]_vars => [Channel!Next]_(Channel!vars)
  BY ChannelStep DEF Channel!vars
<1>3. QED
  BY <1>1, <1>2, IndCorrect, PTL DEF Spec, Implements, Channel!Spec

-----------------------------------------------------------------------------
(***************************************************************************)
(* What the serial link means to the two programs that use it: DoRequest   *)
(* gets the reply to its own request, and Session executes every request   *)
(* once, in the order the debugger made them.                              *)
(***************************************************************************)

Waiting(e) == pc[e] \in {"ackwait", "drain"}

\* StartPut numbers the client's requests.
RequestNumbers == \A i \in 1 .. Len(sent["client"]) : sent["client"][i] = i

(***************************************************************************)
(* Requests and replies.  ReplyMatches says of the newest reply what is    *)
(* true because all those before it were answered in their turn: the       *)
(* server replies to distinct requests, in their order, and the client     *)
(* makes no request before it has the reply to the last one.               *)
(***************************************************************************)
RepliesInOrder ==
  \A i \in 1 .. Len(sent["server"]) :
    /\ sent["server"][i] \notin NoReply
    /\ sent["server"][i] <= Len(got["server"])
    /\ \A j \in 1 .. i - 1 : sent["server"][j] < sent["server"][i]

\* Session is about to reply to the request it got last.
Owes == app["server"] = "put" /\ ~Waiting("server")
ReplyOwed ==
  Owes => /\ Len(got["server"]) \notin NoReply
          /\ \A i \in 1 .. Len(sent["server"]) : sent["server"][i] < Len(got["server"])

\* DoRequest is done with the request it made last.
Completed == app["client"] = "put" /\ ~Waiting("client")
HasReply(i) == \E k \in 1 .. Len(got["client"]) : got["client"][k] = i
AllAnswered ==
  \A i \in 1 .. Len(sent["client"]) :
    i \notin NoReply /\ (i < Len(sent["client"]) \/ Completed) => HasReply(i)

\* The client has returned from RemoteGet, or is in the ReSync that ends it.
HasGot == ret["client"] \in {"got", "gotNothing"} \/ pc["client"] = "resyncGet"
NewestReply ==
  Completed /\ HasGot =>
    Len(got["client"]) > 0 /\ LastOf(got["client"]) = Len(sent["client"])

Dialogue == RequestNumbers /\ RepliesInOrder /\ ReplyOwed /\ AllAnswered /\ NewestReply

\* The client and the server are the two ends.
LEMMA EndFacts ==
  /\ "client" \in End /\ "server" \in End
  /\ Peer("client") = "server" /\ Peer("server") = "client"
  /\ \A e \in End : e = "client" \/ e = "server"
BY DEF End, Peer

\* The histories are sequences of request numbers.
LEMMA HistoryFacts ==
  ASSUME TypeInv
  PROVE  \A e \in End : /\ sent[e] \in Seq(Data) /\ Len(sent[e]) \in Nat
                        /\ got[e] \in Seq(Data) /\ Len(got[e]) \in Nat
                        /\ \A i \in 1 .. Len(sent[e]) : sent[e][i] \in Nat
                        /\ \A i \in 1 .. Len(got[e]) : got[e][i] \in Nat
<1>1. Data \subseteq Nat
  BY DEF Data
<1>2. \A e \in End : sent[e] \in Seq(Data) /\ got[e] \in Seq(Data)
  BY DEF TypeInv, TypeOK
<1>3. QED
  BY <1>1, <1>2, ElementOfSeq, LenProperties

\* A history grows by one packet.
LEMMA Grows ==
  ASSUME NEW h \in [End -> Seq(Data)], NEW e \in End, NEW d \in Data, NEW g,
         g = [h EXCEPT ![e] = Append(@, d)]
  PROVE  /\ Len(g[e]) = Len(h[e]) + 1 /\ Len(h[e]) \in Nat
         /\ \A i \in 1 .. Len(h[e]) : g[e][i] = h[e][i]
         /\ g[e][Len(h[e]) + 1] = d
         /\ \A x \in End \ {e} : g[x] = h[x]
<1>1. h[e] \in Seq(Data) /\ g[e] = Append(h[e], d)
  OBVIOUS
<1>2. QED
  BY <1>1, AppendProperties, LenProperties

\* All but three actions leave the programs' part of the state alone.
LEMMA OtherSteps ==
  ASSUME TypeInv, [Next]_vars,
         \A e \in End : ~StartPut(e) /\ ~RecvAck(e) /\ ~Accept(e) /\ ~PutFails(e)
  PROVE  /\ UNCHANGED <<sent, got, app>>
         /\ \A x \in End : Waiting(x)' <=> Waiting(x)
         /\ HasGot' => HasGot
         /\ UNCHANGED <<sendNo, recvNo>>
<1> USE DEF TypeInv, TypeOK, Waiting, HasGot
<1>1. ASSUME NEW e \in End,
             \/ RecvNak(e) \/ RecvRlr(e) \/ RecvOther(e) \/ DrainByte(e)
             \/ DrainEnds(e) \/ Timeout(e) \/ Repeated(e) \/ StartGet(e)
             \/ Damaged(e) \/ AnswerRlr(e) \/ Ignore(e) \/ ResyncDrop(e) \/ Fault(e)
      PROVE  /\ UNCHANGED <<sent, got, app, ret, sendNo, recvNo>>
             /\ \A x \in End : Waiting(x)' <=> Waiting(x)
             /\ pc'["client"] = "resyncGet" => pc["client"] = "resyncGet"
  <2>1. CASE RecvNak(e) \/ RecvRlr(e) \/ RecvOther(e) \/ DrainByte(e)
    <3>1. CASE RecvNak(e) \/ RecvRlr(e)
      BY <3>1, EndFacts DEF RecvNak, RecvRlr, link
    <3>2. CASE RecvOther(e) \/ DrainByte(e)
      BY <3>2, EndFacts DEF RecvOther, DrainByte, link
    <3>3. QED
      BY <2>1, <3>1, <3>2
  <2>2. CASE DrainEnds(e) \/ Timeout(e)
    <3>1. Ask(e) /\ Waiting(e) /\ pc' = [pc EXCEPT ![e] = "ackwait"]
      BY <2>2 DEF DrainEnds, Timeout
    <3>2. QED
      BY <3>1, EndFacts DEF Ask, link
  <2>3. CASE Repeated(e) \/ StartGet(e)
    BY <2>3, EndFacts DEF Repeated, StartGet, link
  <2>4. CASE Damaged(e) \/ AnswerRlr(e) \/ Ignore(e) \/ ResyncDrop(e) \/ Fault(e)
    BY <2>4, EndFacts DEF Damaged, AnswerRlr, Ignore, ResyncDrop, Fault, link
  <2>5. QED
    BY <1>1, <2>1, <2>2, <2>3, <2>4
<1>2. ASSUME UNCHANGED vars \/ ResyncHi
      PROVE  UNCHANGED <<sent, got, app, ret, pc, sendNo, recvNo>>
  BY <1>2 DEF vars, ResyncHi, link
<1>3. ASSUME ResyncBoth \/ ResyncHalf
      PROVE  /\ UNCHANGED <<sent, got, app, sendNo, recvNo>>
             /\ \A x \in End : Waiting(x)' <=> Waiting(x)
             /\ HasGot' => HasGot
  <2>1. PICK E \in SUBSET End : Leave(E) /\ \A e \in E : InResync(e)
    <3>1. CASE ResyncBoth
      BY <3>1 DEF ResyncBoth
    <3>2. CASE ResyncHalf
      <4>1. Leave({"client"}) /\ InResync("client") /\ {"client"} \subseteq End
        BY <3>2, EndFacts DEF ResyncHalf
      <4>2. \A e \in {"client"} : InResync(e)
        BY <4>1
      <4>3. {"client"} \in SUBSET End
        BY <4>1
      <4>4. QED
        BY <4>1, <4>2, <4>3 DEF InResync
    <3>3. QED
      BY <1>3, <3>1, <3>2
  <2>2. UNCHANGED <<sent, got, app, sendNo, recvNo>>
    BY <2>1 DEF Leave, link
  <2>3. \A x \in End : pc'[x] = pc[x] \/ (pc'[x] = "app" /\ pc[x] \in {"resyncPut", "resyncGet"})
    BY <2>1 DEF Leave, InResync
  <2>4. HasGot' => HasGot
    BY <2>1, EndFacts DEF Leave, InResync
  <2>5. QED
    BY <2>2, <2>3, <2>4
<1>4. QED
  BY <1>1, <1>2, <1>3 DEF Next, Sending, Receiving, Resync

\* The dialogue begins with no request made.
LEMMA DialogueInit == Init => Dialogue
<1>1. ASSUME Init
      PROVE  /\ \A e \in End : Len(sent[e]) = 0 /\ Len(got[e]) = 0
             /\ Owes = FALSE
             /\ HasGot = FALSE
  BY <1>1, EndFacts DEF Init, Owes, HasGot, Waiting
<1>2. QED
  BY <1>1, EndFacts
  DEF Dialogue, RequestNumbers, RepliesInOrder, ReplyOwed, AllAnswered, NewestReply

\* The client makes a request: only when it is done with the one before.
LEMMA DialogueRequest ==
  ASSUME TypeInv, Dialogue, [Next]_vars, StartPut("client")
  PROVE  Dialogue'
<1> DEFINE n == Len(sent["client"])
<1> USE EndFacts, HistoryFacts
<1>1. /\ sent' = [sent EXCEPT !["client"] = Append(@, n + 1)]
      /\ UNCHANGED <<got, app, ret>>
      /\ pc' = [pc EXCEPT !["client"] = "ackwait"]
      /\ Completed
  BY DEF StartPut, Completed, Waiting
<1>2. /\ Len(sent'["client"]) = n + 1
      /\ sent'["client"][n + 1] = n + 1
      /\ \A i \in 1 .. n : sent'["client"][i] = sent["client"][i]
      /\ sent'["server"] = sent["server"]
  <2>1. n + 1 \in Data
    <3>1. /\ sent \in [End -> Seq(Data)] /\ sent'["client"] \in Seq(Data)
          /\ sent["client"] \in Seq(Data) /\ sent'["client"] = Append(sent["client"], n + 1)
      BY SMTT(30), <1>1, TypeNext DEF TypeInv, TypeOK
    <3>2. QED
      BY <3>1, AppendedElement
  <2>2. QED
    BY <1>1, <2>1, Grows DEF TypeInv, TypeOK
<1>3. Waiting("client")' /\ (Waiting("server")' <=> Waiting("server"))
  BY <1>1 DEF Waiting, TypeInv, TypeOK
<1> HIDE DEF n
<1>4. n \in Nat /\ n = Len(sent["client"])
  BY DEF n
<1>5. RequestNumbers'
  BY <1>2, <1>4 DEF Dialogue, RequestNumbers
<1>6. RepliesInOrder' /\ ReplyOwed'
  BY <1>1, <1>2, <1>3 DEF Dialogue, RepliesInOrder, ReplyOwed, Owes
<1>7. AllAnswered'
  <2>1. \A i \in 1 .. n : i \notin NoReply => HasReply(i)
    BY <1>1, <1>4 DEF Dialogue, AllAnswered
  <2>2. \A i : HasReply(i)' <=> HasReply(i)
    BY <1>1 DEF HasReply
  <2>3. \A i \in 1 .. n + 1 : i < n + 1 => i \in 1 .. n
    BY <1>4
  <2>4. ~Completed'
    BY <1>3 DEF Completed
  <2>5. QED
    BY <1>2, <2>1, <2>2, <2>3, <2>4 DEF AllAnswered
<1>8. NewestReply'
  BY <1>3 DEF NewestReply, Completed
<1>9. QED
  BY <1>5, <1>6, <1>7, <1>8 DEF Dialogue

\* The server replies to the request it got last, which it has not replied to.
LEMMA DialogueReply ==
  ASSUME IndInv, Dialogue, [Next]_vars, StartPut("server")
  PROVE  Dialogue'
<1> DEFINE m == Len(sent["server"])
           r == Len(got["server"])
<1> USE EndFacts
<1>0. TypeInv
  BY DEF IndInv, TypeInv
<1> USE <1>0, HistoryFacts
<1>1. /\ sent' = [sent EXCEPT !["server"] = Append(@, LastOf(got["server"]))]
      /\ UNCHANGED <<got, app, ret>>
      /\ pc' = [pc EXCEPT !["server"] = "ackwait"]
      /\ Owes
  BY DEF StartPut, Owes, Waiting
<1>2. LastOf(got["server"]) = r /\ r \in Data
  <2>1. got["server"] # <<>> /\ got["server"] \in Seq(Data)
    BY <1>1 DEF Owes, TypeInv, TypeOK, HasPacket
  <2>2. r \in Nat /\ r > 0
    BY <2>1, EmptySeq, LenProperties
  <2>3. r <= Len(sent["client"]) /\ got["server"][r] = sent["client"][r]
    BY <2>2 DEF IndInv, DeliveredPrefix
  <2>4. sent["client"][r] = r
    BY <2>2, <2>3 DEF Dialogue, RequestNumbers
  <2>5. r \in Data
    BY <2>1, <2>2, <2>3, <2>4, ElementOfSeq
  <2>6. QED
    BY <2>3, <2>4, <2>5 DEF LastOf
<1>3. /\ Len(sent'["server"]) = m + 1
      /\ sent'["server"][m + 1] = r
      /\ \A i \in 1 .. m : sent'["server"][i] = sent["server"][i]
      /\ sent'["client"] = sent["client"]
  BY <1>1, <1>2, Grows DEF TypeInv, TypeOK
<1>4. Waiting("server")' /\ (Waiting("client")' <=> Waiting("client"))
      /\ pc'["client"] = pc["client"]
  BY <1>1 DEF Waiting, TypeInv, TypeOK
<1> HIDE DEF m, r
<1>5. m \in Nat /\ m = Len(sent["server"]) /\ r \in Nat /\ r = Len(got["server"])
  BY DEF m, r
<1>6. RepliesInOrder'
  <2>1. r \notin NoReply /\ \A i \in 1 .. m : sent["server"][i] < r
    BY <1>1, <1>5 DEF Dialogue, ReplyOwed
  <2>2. SUFFICES ASSUME NEW i \in 1 .. m + 1
                 PROVE  /\ sent'["server"][i] \notin NoReply
                        /\ sent'["server"][i] <= r
                        /\ \A j \in 1 .. i - 1 : sent'["server"][j] < sent'["server"][i]
    BY <1>1, <1>3, <1>5 DEF RepliesInOrder
  <2>3. \A j \in 1 .. i - 1 : j \in 1 .. m
    BY <1>5
  <2>4. CASE i \in 1 .. m
    BY <1>3, <1>5, <2>3, <2>4 DEF Dialogue, RepliesInOrder
  <2>5. CASE i = m + 1
    BY <1>3, <1>5, <2>1, <2>3, <2>5
  <2>6. i \in 1 .. m \/ i = m + 1
    BY <1>5
  <2>7. QED
    BY <2>4, <2>5, <2>6
<1>7. ReplyOwed'
  BY <1>4 DEF ReplyOwed, Owes
<1>8. RequestNumbers' /\ AllAnswered' /\ NewestReply'
  BY <1>1, <1>3, <1>4
  DEF Dialogue, RequestNumbers, AllAnswered, HasReply, NewestReply, Completed, HasGot
<1>9. QED
  BY <1>6, <1>7, <1>8 DEF Dialogue

\* RemotePut returns: DoRequest is done if no reply is due.
LEMMA DialogueAck ==
  ASSUME TypeInv, Dialogue, NEW e \in End, RecvAck(e)
  PROVE  Dialogue'
<1> USE EndFacts, HistoryFacts
<1>1. /\ UNCHANGED <<sent, got>> /\ pc[e] = "ackwait"
      /\ pc'[e] \in {"app", "resyncPut"} /\ app'[e] = AfterPut(e) /\ ret'[e] = "put"
      /\ \A x \in End \ {e} : pc'[x] = pc[x] /\ app'[x] = app[x] /\ ret'[x] = ret[x]
  BY DEF RecvAck, TypeInv, TypeOK
<1>2. RequestNumbers' /\ RepliesInOrder'
  BY <1>1 DEF Dialogue, RequestNumbers, RepliesInOrder
<1>3. CASE e = "client"
  <2>1. ReplyOwed'
    BY <1>1, <1>3 DEF Dialogue, ReplyOwed, Owes, Waiting
  <2>2. NewestReply'
    BY <1>1, <1>3 DEF NewestReply, HasGot
  <2>3. Completed' => LastOf(sent["client"]) \in NoReply
    BY <1>1, <1>3 DEF Completed, AfterPut
  <2>4. LastOf(sent["client"]) = Len(sent["client"])
    <3>1. sent["client"] # <<>> /\ sent["client"] \in Seq(Data)
      BY <1>1, <1>3 DEF TypeInv, TypeOK, HasPacket
    <3>2. Len(sent["client"]) \in 1 .. Len(sent["client"])
      BY <3>1, EmptySeq, LenProperties
    <3>3. QED
      BY <3>2 DEF Dialogue, RequestNumbers, LastOf
  <2>5. AllAnswered'
    <3>1. SUFFICES ASSUME NEW i \in 1 .. Len(sent["client"]), i \notin NoReply,
                          i < Len(sent["client"]) \/ Completed'
                   PROVE  HasReply(i)
      BY <1>1 DEF AllAnswered, HasReply
    <3>2. i < Len(sent["client"])
      BY <2>3, <2>4, <3>1
    <3>3. QED
      BY <3>1, <3>2 DEF Dialogue, AllAnswered
  <2>6. QED
    BY <1>2, <2>1, <2>2, <2>5 DEF Dialogue
<1>4. CASE e = "server"
  <2>1. ReplyOwed'
    BY <1>1, <1>4 DEF ReplyOwed, Owes, AfterPut
  <2>2. AllAnswered' /\ NewestReply'
    BY <1>1, <1>4
    DEF Dialogue, AllAnswered, HasReply, NewestReply, Completed, HasGot, Waiting
  <2>3. QED
    BY <1>2, <2>1, <2>2 DEF Dialogue
<1>5. QED
  BY <1>3, <1>4

\* Session gets the next request.
LEMMA DialogueGetRequest ==
  ASSUME IndInv, Dialogue, [Next]_vars, Accept("server")
  PROVE  Dialogue'
<1> DEFINE r == Len(got["server"])
<1> USE EndFacts
<1>0. TypeInv
  BY DEF IndInv, TypeInv
<1> USE <1>0, HistoryFacts
<1>1. /\ r \in Nat /\ r < Len(sent["client"])
      /\ Head(chan["server"]).data = sent["client"][r + 1]
  BY AcceptsNext
<1>2. Head(chan["server"]).data = r + 1
  <2>1. r + 1 \in 1 .. Len(sent["client"])
    BY <1>1
  <2>2. QED
    BY <1>1, <2>1 DEF Dialogue, RequestNumbers
<1>3. /\ got' = [got EXCEPT !["server"] = Append(@, r + 1)]
      /\ UNCHANGED sent
      /\ app' = [app EXCEPT !["server"] = AfterGet("server", r + 1)]
      /\ pc'["client"] = pc["client"] /\ ret'["client"] = ret["client"]
  BY <1>2 DEF Accept, TypeInv, TypeOK
<1>4. /\ Len(got'["server"]) = r + 1
      /\ got'["client"] = got["client"]
  <2>1. r + 1 \in Data
    BY <1>1, <1>2, ElementOfSeq DEF TypeInv, TypeOK
  <2>2. QED
    BY <1>3, <2>1, Grows DEF TypeInv, TypeOK
<1> HIDE DEF r
<1>5. r \in Nat /\ r = Len(got["server"])
  BY DEF r
<1>6. RepliesInOrder'
  <2>1. \A i \in 1 .. Len(sent["server"]) : sent["server"][i] <= r
    BY <1>5 DEF Dialogue, RepliesInOrder
  <2>2. QED
    BY <1>3, <1>4, <1>5, <2>1 DEF Dialogue, RepliesInOrder
<1>7. ReplyOwed'
  <2>1. Owes' => r + 1 \notin NoReply
    BY <1>3 DEF Owes, AfterGet, TypeInv, TypeOK
  <2>2. \A i \in 1 .. Len(sent["server"]) : sent["server"][i] < r + 1
    BY <1>5 DEF Dialogue, RepliesInOrder
  <2>3. QED
    BY <1>3, <1>4, <2>1, <2>2 DEF ReplyOwed
<1>8. RequestNumbers' /\ AllAnswered' /\ NewestReply'
  BY <1>3, <1>4
  DEF Dialogue, RequestNumbers, AllAnswered, HasReply, NewestReply, Completed, HasGot,
      Waiting, TypeInv, TypeOK
<1>9. QED
  BY <1>6, <1>7, <1>8 DEF Dialogue

\* DoRequest gets a reply: all those to earlier requests are there already, so
\* it is the one to the newest.
LEMMA DialogueGetReply ==
  ASSUME IndInv, Dialogue, [Next]_vars, Accept("client")
  PROVE  Dialogue'
<1> DEFINE m == Len(got["client"])
           n == Len(sent["client"])
           reply == sent["server"][m + 1]
<1> USE EndFacts
<1>0. TypeInv
  BY DEF IndInv, TypeInv
<1> USE <1>0, HistoryFacts
<1>1. m \in Nat /\ n \in Nat /\ m < Len(sent["server"]) /\ Head(chan["client"]).data = reply
  BY AcceptsNext
<1>2. m + 1 \in 1 .. Len(sent["server"])
  BY <1>1
<1>3. reply \notin NoReply /\ reply \in Nat /\ reply <= n /\ reply \in Data
  <2>1. Len(got["server"]) <= n
    BY DEF IndInv, DeliveredPrefix
  <2>2. reply \notin NoReply /\ reply <= Len(got["server"])
    BY <1>2 DEF Dialogue, RepliesInOrder
  <2>3. reply \in Data /\ reply \in Nat
    BY <1>2, ElementOfSeq DEF TypeInv, TypeOK
  <2>4. QED
    BY <1>1, <2>1, <2>2, <2>3
<1>4. reply = n
  <2>1. SUFFICES ASSUME reply < n PROVE FALSE
    BY <1>1, <1>3
  <2>2. reply \in 1 .. n
    BY <1>1, <1>3 DEF Data
  <2>3. PICK k \in 1 .. m : got["client"][k] = reply
    BY <1>3, <2>1, <2>2 DEF Dialogue, AllAnswered, HasReply
  <2>4. sent["server"][k] = reply
    BY <2>3 DEF IndInv, DeliveredPrefix
  <2>5. sent["server"][k] < reply
    <3>1. k \in 1 .. (m + 1) - 1
      BY <1>1
    <3>2. QED
      BY <1>2, <3>1 DEF Dialogue, RepliesInOrder
  <2>6. QED
    BY <1>3, <2>4, <2>5
<1>5. /\ got' = [got EXCEPT !["client"] = Append(@, reply)]
      /\ UNCHANGED sent /\ app'["server"] = app["server"]
      /\ pc["client"] = "recv" /\ pc'["server"] = pc["server"]
  BY <1>1 DEF Accept, TypeInv, TypeOK
<1>6. /\ Len(got'["client"]) = m + 1
      /\ got'["client"][m + 1] = reply
      /\ \A i \in 1 .. m : got'["client"][i] = got["client"][i]
      /\ LastOf(got'["client"]) = reply
      /\ got'["server"] = got["server"]
  BY <1>3, <1>5, Grows DEF TypeInv, TypeOK, LastOf
<1> HIDE DEF m, n, reply
<1>7. RequestNumbers' /\ RepliesInOrder'
  BY <1>5, <1>6 DEF Dialogue, RequestNumbers, RepliesInOrder
<1>8. ReplyOwed'
  BY <1>5, <1>6 DEF Dialogue, ReplyOwed, Owes, Waiting
<1>9. AllAnswered'
  <2>1. SUFFICES ASSUME NEW i \in 1 .. n, i \notin NoReply
                 PROVE  \E k \in 1 .. m + 1 : got'["client"][k] = i
    BY <1>5, <1>6 DEF AllAnswered, HasReply, n
  <2>2. CASE i = n
    <3>1. m + 1 \in 1 .. m + 1
      BY <1>1
    <3>2. QED
      BY <1>4, <1>6, <2>2, <3>1
  <2>3. CASE i < n
    <3>1. PICK k \in 1 .. m : got["client"][k] = i
      BY <2>1, <2>3 DEF Dialogue, AllAnswered, HasReply, n, m
    <3>2. k \in 1 .. m + 1
      BY <1>1
    <3>3. QED
      BY <1>6, <3>1, <3>2
  <2>4. QED
    BY <1>1, <2>2, <2>3
<1>10. NewestReply'
  BY <1>1, <1>4, <1>5, <1>6 DEF NewestReply, n
<1>11. QED
  BY <1>7, <1>8, <1>9, <1>10 DEF Dialogue

\* The dialogue goes on as it should, step by step.
LEMMA DialogueNext == WithinLimits /\ IndInv /\ Dialogue /\ [Next]_vars => Dialogue'
<1> SUFFICES ASSUME WithinLimits, IndInv, Dialogue, [Next]_vars PROVE Dialogue'
  OBVIOUS
<1>0. TypeInv
  BY DEF IndInv, TypeInv
<1>1. CASE \E e \in End : StartPut(e)
  BY <1>0, <1>1, EndFacts, DialogueRequest, DialogueReply
<1>2. CASE \E e \in End : RecvAck(e)
  BY <1>0, <1>2, DialogueAck
<1>3. CASE \E e \in End : Accept(e)
  BY <1>3, EndFacts, DialogueGetRequest, DialogueGetReply
<1>4. CASE \A e \in End : ~StartPut(e) /\ ~RecvAck(e) /\ ~Accept(e)
  <2>1. \A e \in End : ~PutFails(e)
    BY DEF PutFails, WithinLimits
  <2>2. /\ UNCHANGED <<sent, got, app>>
        /\ \A x \in End : Waiting(x)' <=> Waiting(x)
        /\ HasGot' => HasGot
    BY <1>0, <1>4, <2>1, OtherSteps
  <2>3. (Owes' <=> Owes) /\ (Completed' <=> Completed)
    BY <2>2, EndFacts DEF Owes, Completed
  <2>4. QED
    BY <2>2, <2>3
    DEF Dialogue, RequestNumbers, RepliesInOrder, ReplyOwed, AllAnswered, HasReply, NewestReply
<1>5. QED
  BY <1>1, <1>2, <1>3, <1>4

\* DoRequest gets the reply that the server wrote for the request it has just
\* made, whatever the line lost, damaged or repeated.
THEOREM ReplyCorrect == ASSUME WithinLimits PROVE Spec => []ReplyMatches
<1>1. Spec => []Dialogue
  BY DialogueInit, DialogueNext, IndCorrect, PTL DEF Spec
<1>2. TypeInv /\ Dialogue => ReplyMatches
  <2>1. SUFFICES ASSUME TypeInv, Dialogue, Completed, HasGot
                 PROVE  LastOf(got["client"]) = LastOf(sent["client"])
    BY DEF ReplyMatches, Completed, HasGot, Waiting
  <2>2. /\ Len(got["client"]) > 0 /\ LastOf(got["client"]) = Len(sent["client"])
        /\ got["client"] \in Seq(Data) /\ sent["client"] \in Seq(Data)
    BY <2>1, EndFacts, HistoryFacts DEF Dialogue, NewestReply
  <2>3. Len(got["client"]) \in 1 .. Len(got["client"])
    BY <2>2, LenProperties
  <2>4. LastOf(got["client"]) \in Data
    BY <2>2, <2>3, ElementOfSeq DEF LastOf
  <2>5. Len(sent["client"]) \in 1 .. Len(sent["client"])
    BY <2>2, <2>4, LenProperties DEF Data
  <2>6. QED
    BY <2>1, <2>2, <2>5 DEF Dialogue, RequestNumbers, LastOf
<1>3. IndInv => TypeInv
  BY DEF IndInv, TypeInv
<1>4. QED
  BY <1>1, <1>2, <1>3, IndCorrect, PTL

(***************************************************************************)
(* Execution in order, also when RemotePut gives up.  Then the numbers no  *)
(* longer count the packets: a block that was given up leaves its number   *)
(* to the next one.  What remains true is an order between numbers and     *)
(* packets, for the blocks under way and for the one that may be repeated. *)
(***************************************************************************)
BlocksTo(e) == {b \in BlkToken : \E i \in 1 .. Len(chan[e]) : chan[e][i] = b}

\* b is the block that a waiting end sends, and sends again.
Newest(e, b) == Waiting(e) /\ b.no = WireNo(sendNo[e]) /\ b.data = LastOf(sent[e])

\* What a step can put on the line to e, or leave there.
OnLine(e) == CtlToken \cup BlocksTo(e) \cup {b \in BlkToken : Newest(Peer(e), b)'}

\* A token is either a control byte or a block.
LEMMA TokenKinds == /\ \A t \in CtlToken : t.t # "BLK" /\ t \notin BlkToken
                    /\ \A b \in BlkToken : b.t = "BLK" /\ b.no \in Nat /\ b.data \in Nat
<1>1. \A t \in CtlToken : t.t # "BLK"
  BY DEF CtlToken, Ctl, ACK, NAK, RLR, BAD, JUNK
<1>2. \A b \in BlkToken : b.t = "BLK" /\ b.no \in Nat /\ b.data \in Nat
  BY ModAssumption DEF BlkToken, Data
<1>3. QED
  BY <1>1, <1>2

\* The blocks on the line are among those that the step may leave there.
LEMMA OnLineFacts ==
  ASSUME TypeInv
  PROVE  \A e \in End : /\ chan[e] \in Seq(OnLine(e))
                        /\ CtlToken \subseteq OnLine(e)
<1>1. SUFFICES ASSUME NEW e \in End PROVE chan[e] \in Seq(OnLine(e))
  BY DEF OnLine
<1>2. chan[e] \in Seq(Token)
  BY DEF TypeInv, TypeOK
<1>3. \A i \in 1 .. Len(chan[e]) : chan[e][i] \in OnLine(e)
  <2>1. \A i \in 1 .. Len(chan[e]) : chan[e][i] \in CtlToken \cup BlkToken
    BY <1>2, ElementOfSeq DEF Token
  <2>2. QED
    BY <2>1 DEF OnLine, BlocksTo
<1>4. QED
  BY <1>2, <1>3, SeqDef, LenProperties

\* A step that takes a token and answers it.
LEMMA OnLineSend ==
  ASSUME TypeInv, NEW e \in End, NEW s \in Seq(OnLine(Peer(e))), chan[e] # <<>>,
         TakeAndSend(e, s)
  PROVE  \A x \in End : chan'[x] \in Seq(OnLine(x))
<1>1. chan[e] \in Seq(OnLine(e)) /\ chan[Peer(e)] \in Seq(OnLine(Peer(e)))
  BY PeerFacts, OnLineFacts
<1>2. chan \in [End -> Seq(OnLine(e) \cup OnLine(Peer(e)))]
  <2>1. \A x \in End : chan[x] \in Seq(OnLine(e) \cup OnLine(Peer(e)))
    BY <1>1, PeerFacts, SeqMonotonic
  <2>2. QED
    BY <2>1 DEF TypeInv, TypeOK
<1>3. chan'[e] \in Seq(OnLine(e)) /\ chan'[Peer(e)] \in Seq(OnLine(Peer(e)))
  <2>1. s \in Seq(OnLine(Peer(e)))
    OBVIOUS
  <2>2. QED
    BY <1>1, <1>2, <2>1, TakeAndSendSeq
<1>4. QED
  BY <1>3, PeerFacts

\* A step that replaces one channel, appends to the other, or does both.
LEMMA OnLineChange ==
  ASSUME TypeInv, NEW e \in End, NEW c \in Seq(OnLine(e)), NEW t \in OnLine(Peer(e)),
         \/ chan' = [chan EXCEPT ![e] = c]
         \/ chan' = [chan EXCEPT ![Peer(e)] = Append(@, t)]
         \/ chan' = [chan EXCEPT ![e] = c, ![Peer(e)] = Append(@, t)]
  PROVE  \A x \in End : chan'[x] \in Seq(OnLine(x))
<1>1. \A x \in End : chan[x] \in Seq(OnLine(x))
  BY OnLineFacts
<1>2. Append(chan[Peer(e)], t) \in Seq(OnLine(Peer(e)))
  BY <1>1, PeerFacts, AppendProperties
<1>3. \A x \in End : \/ chan'[x] = chan[x]
                     \/ x = e /\ chan'[x] = c
                     \/ x = Peer(e) /\ chan'[x] = Append(chan[Peer(e)], t)
  <2>1. chan \in [End -> Seq(Token)]
    BY DEF TypeInv, TypeOK
  <2>2. QED
    BY <2>1, PeerFacts
<1>4. QED
  BY <1>1, <1>2, <1>3

\* Every step leaves on the line what was there, or the block that its sender
\* waits with.
LEMMA OnLineNext ==
  ASSUME TypeInv, [Next]_vars
  PROVE  \A e \in End : chan'[e] \in Seq(OnLine(e))
<1> DEFINE Good == \A x \in End : chan'[x] \in Seq(OnLine(x))
<1>1. \A x \in End : CtlToken \subseteq OnLine(x) /\ chan[x] \in Seq(OnLine(x))
  BY OnLineFacts
<1>2. \A x \in End : /\ <<>> \in Seq(OnLine(x))
                     /\ <<ACK>> \in Seq(OnLine(x)) /\ <<NAK>> \in Seq(OnLine(x))
                     /\ <<JUNK>> \in Seq(OnLine(x)) /\ <<BAD>> \in Seq(OnLine(x))
                     /\ JUNK \in OnLine(x) /\ ACK \in OnLine(x) /\ RLR \in OnLine(x)
  BY <1>1, CtlSeq, CtlFacts, EmptySeq
<1>3. ASSUME NEW e \in End, chan[e] # <<>>
      PROVE  Tail(chan[e]) \in Seq(OnLine(e))
  BY <1>1, <1>3, HeadTailProperties
<1>4. ASSUME NEW e \in End, StartPut(e) PROVE Good
  <2> DEFINE d == IF e = "client" THEN Len(sent[e]) + 1 ELSE LastOf(got[e])
             blk == [t |-> "BLK", no |-> WireNo(sendNo[e]), err |-> errors[e], data |-> d]
  <2>1. PICK c \in Cleared(chan[e]) :
          chan' = [chan EXCEPT ![e] = c, ![Peer(e)] = Append(@, blk)]
    BY <1>4 DEF StartPut
  <2>2. c \in Seq(OnLine(e))
    BY <1>1, <1>2, ClearedSeq
  <2>3. sent' = [sent EXCEPT ![e] = Append(@, d)] /\ sendNo' = sendNo /\ Waiting(e)'
    BY <1>4 DEF StartPut, Waiting, TypeInv, TypeOK
  <2>4. blk.t = "BLK" /\ blk.data = d /\ blk.no = WireNo(sendNo[e])
    OBVIOUS
  <2> HIDE DEF d, blk
  <2>5. LastOf(sent'[e]) = d
    <3>1. /\ sent[e] \in Seq(Data) /\ sent'[e] \in Seq(Data) /\ sent'[e] = Append(sent[e], d)
      BY <2>3, TypeNext DEF TypeInv, TypeOK
    <3>2. d \in Data
      BY <3>1, AppendedElement
    <3>3. QED
      BY <3>1, <3>2, AppendProperties, LenProperties DEF LastOf
  <2>6. blk \in BlkToken
    <3>1. chan'[Peer(e)] \in Seq(Token) /\ chan[Peer(e)] \in Seq(Token)
          /\ chan'[Peer(e)] = Append(chan[Peer(e)], blk)
      BY <2>1, TypeNext, PeerFacts DEF TypeInv, TypeOK
    <3>2. blk \in Token
      BY <3>1, AppendedElement
    <3>3. QED
      BY <2>4, <3>2, TokenKinds DEF Token
  <2>7. blk \in OnLine(Peer(e))
    BY <2>3, <2>4, <2>5, <2>6, PeerFacts DEF OnLine, Newest
  <2>8. QED
    BY <2>1, <2>2, <2>7, OnLineChange
<1>5. ASSUME NEW e \in End,
             \/ RecvAck(e) \/ RecvOther(e) \/ DrainByte(e) \/ Ignore(e) \/ ResyncDrop(e)
             \/ Accept(e) \/ Damaged(e) \/ AnswerRlr(e)
      PROVE  Good
  <2>1. chan[e] # <<>>
    BY <1>5 DEF RecvAck, RecvOther, DrainByte, Ignore, ResyncDrop, Accept, Damaged, AnswerRlr, Head1
  <2>2. TakeAndSend(e, <<>>) \/ TakeAndSend(e, <<ACK>>) \/ TakeAndSend(e, <<NAK>>)
    BY <1>5 DEF RecvAck, RecvOther, DrainByte, Ignore, ResyncDrop, Accept, Damaged, AnswerRlr,
                RlrAnswer, Take
  <2>3. QED
    BY <1>2, <2>1, <2>2, PeerFacts, OnLineSend
<1>6. ASSUME NEW e \in End, RecvNak(e) \/ RecvRlr(e)
      PROVE  Good
  <2>1. /\ chan[e] # <<>> /\ pc[e] = "ackwait"
        /\ UNCHANGED <<pc, sent, sendNo>>
    BY <1>6 DEF RecvNak, RecvRlr, Head1, link
  <2>2. Block(e, prevErrors[e]) \in BlkToken /\ Ctl(lastResp[e]) \in CtlToken
    BY <2>1, BlockType DEF TypeInv
  <2>3. \A b : b = Block(e, prevErrors[e]) => Newest(e, b)'
    BY <2>1 DEF Newest, Waiting, Block, LastOf, WireNo
  <2>4. Block(e, prevErrors[e]) \in OnLine(Peer(e)) /\ Ctl(lastResp[e]) \in OnLine(Peer(e))
    BY <2>2, <2>3, PeerFacts DEF OnLine
  <2>5. /\ <<Block(e, prevErrors[e])>> \in Seq(OnLine(Peer(e)))
        /\ <<Ctl(lastResp[e]), Block(e, prevErrors[e])>> \in Seq(OnLine(Peer(e)))
    BY <2>4
  <2>6. \/ TakeAndSend(e, <<Block(e, prevErrors[e])>>)
        \/ TakeAndSend(e, <<Ctl(lastResp[e]), Block(e, prevErrors[e])>>)
    BY <1>6 DEF RecvNak, RecvRlr
  <2>7. QED
    BY <2>1, <2>5, <2>6, OnLineSend
<1>7. ASSUME NEW e \in End, DrainEnds(e) \/ Timeout(e)
      PROVE  Good
  <2>1. chan' = [chan EXCEPT ![Peer(e)] = Append(@, RLR)]
    BY <1>7 DEF DrainEnds, Timeout, Ask
  <2>2. QED
    BY <1>2, <2>1, PeerFacts, OnLineChange
<1>8. ASSUME NEW e \in End, Repeated(e)
      PROVE  Good
  <2>1. PICK c \in Cleared(Tail(chan[e])) :
          chan' = [chan EXCEPT ![e] = c, ![Peer(e)] = Append(@, ACK)]
    BY <1>8 DEF Repeated, RepeatAnswer
  <2>2. Tail(chan[e]) \in Seq(OnLine(e))
    BY <1>3, <1>8, Head1Facts DEF Repeated
  <2>3. c \in Seq(OnLine(e))
    BY <1>2, <2>2, ClearedSeq
  <2>4. QED
    BY <1>2, <2>1, <2>3, PeerFacts, OnLineChange
<1>9. ASSUME NEW e \in End, Fault(e)
      PROVE  Good
  <2>1. PICK c \in {Tail(chan[e]), <<JUNK>> \o Tail(chan[e]), <<BAD>> \o Tail(chan[e])} :
          chan' = [chan EXCEPT ![e] = c]
    BY <1>9 DEF Fault
  <2>2. Tail(chan[e]) \in Seq(OnLine(e))
    BY <1>3, <1>9 DEF Fault, Head1
  <2>3. c \in Seq(OnLine(e))
    BY <1>2, <2>1, <2>2, ConcatProperties
  <2>4. QED
    BY <1>2, <2>1, <2>3, PeerFacts, OnLineChange
<1>10. ASSUME ResyncBoth \/ ResyncHalf PROVE Good
  <2>1. \A x \in End : chan'[x] = <<>>
    BY <1>10 DEF ResyncBoth, ResyncHalf, Leave
  <2>2. QED
    BY <1>2, <2>1
<1>11. ASSUME ResyncHi PROVE Good
  <2>1. "server" \in End /\ chan' = [chan EXCEPT !["server"] = <<JUNK>>]
    BY <1>11 DEF ResyncHi, End
  <2>2. QED
    BY <1>2, <2>1, PeerFacts, OnLineChange
<1>12. ASSUME \/ UNCHANGED vars
              \/ \E e \in End : StartGet(e) \/ PutFails(e)
       PROVE Good
  <2>1. UNCHANGED chan
    BY <1>12 DEF vars, StartGet, PutFails
  <2>2. QED
    BY <1>1, <2>1
<1>13. QED
  BY <1>4, <1>5, <1>6, <1>7, <1>8, <1>9, <1>10, <1>11, <1>12
  DEF Next, Sending, Receiving, Resync

\* So a block that is on the line after a step was there, or is its sender's.
LEMMA BlocksNext ==
  ASSUME TypeInv, [Next]_vars, NEW e \in End
  PROVE  \A b \in BlocksTo(e)' : b \in BlocksTo(e) \/ Newest(Peer(e), b)'
<1>1. SUFFICES ASSUME NEW b \in BlkToken, NEW i \in 1 .. Len(chan'[e]), chan'[e][i] = b
               PROVE  b \in BlocksTo(e) \/ Newest(Peer(e), b)'
  BY DEF BlocksTo
<1>2. b \in OnLine(e)
  BY <1>1, OnLineNext, ElementOfSeq
<1>3. QED
  BY <1>2, TokenKinds DEF OnLine

\* The numbers stay behind the requests, on the line and at both ends.
NumbersFollow ==
  /\ Len(sent["client"]) <= MaxPuts
  /\ sendNo["client"] <= Len(sent["client"]) + 1
  /\ Waiting("client") => sendNo["client"] <= Len(sent["client"])
  /\ \A b \in BlocksTo("server") : /\ b.no <= sendNo["client"]
                                   /\ b.no <= Len(sent["client"])
                                   /\ b.data <= Len(sent["client"])
  /\ \A i \in 1 .. Len(got["server"]) : got["server"][i] <= Len(sent["client"])

\* A block with a lower number holds an earlier request, under way and compared
\* with the one that may be sent again.
BlocksInOrder ==
  /\ \A b, c \in BlocksTo("server") : b.no < c.no => b.data < c.data
  /\ Waiting("client") =>
       \A b \in BlocksTo("server") : b.no < sendNo["client"] => b.data < Len(sent["client"])

\* What the server may still accept is later than all it has executed.
NextIsNew ==
  /\ \A b \in BlocksTo("server") : b.no >= recvNo["server"] =>
       \A i \in 1 .. Len(got["server"]) : got["server"][i] < b.data
  /\ Waiting("client") /\ sendNo["client"] >= recvNo["server"] =>
       \A i \in 1 .. Len(got["server"]) : got["server"][i] < Len(sent["client"])

Order == RequestNumbers /\ NumbersFollow /\ BlocksInOrder /\ NextIsNew /\ AtMostOnceInOrder

\* Before the first request there is nothing to order.
LEMMA OrderInit == NumbersFit /\ Init => Order
<1> SUFFICES ASSUME NumbersFit, Init PROVE Order
  OBVIOUS
<1>1. \A e \in End : Len(sent[e]) = 0 /\ Len(got[e]) = 0 /\ Len(chan[e]) = 0
  BY DEF Init
<1>2. sendNo["client"] = 1
  <2>1. 1 % UIntMod = 1
    BY ModFacts, ModAssumption, BoundAssumption DEF NumbersFit
  <2>2. QED
    BY <2>1, EndFacts DEF Init
<1>3. BlocksTo("server") = {} /\ ~Waiting("client")
  BY <1>1, EndFacts DEF BlocksTo, Waiting, Init
<1>4. QED
  BY <1>1, <1>2, <1>3, EndFacts, BoundAssumption
  DEF Order, RequestNumbers, NumbersFollow, BlocksInOrder, NextIsNew, AtMostOnceInOrder

\* Numbers, in the sense of arithmetic.
LEMMA NumberFacts ==
  ASSUME TypeInv
  PROVE  /\ Len(sent["client"]) \in Nat /\ sendNo["client"] \in Nat /\ recvNo["server"] \in Nat
         /\ Len(got["server"]) \in Nat
         /\ \A i \in 1 .. Len(got["server"]) : got["server"][i] \in Nat
         /\ \A b \in BlocksTo("server") : b.no \in Nat /\ b.data \in Nat
<1>1. sendNo["client"] \in Nat /\ recvNo["server"] \in Nat
  BY EndFacts, ModAssumption DEF TypeInv, TypeOK
<1>2. \A b \in BlocksTo("server") : b.no \in Nat /\ b.data \in Nat
  BY TokenKinds DEF BlocksTo
<1>3. QED
  BY <1>1, <1>2, EndFacts, HistoryFacts

\* The newest request bears its own number.
LEMMA LastRequest ==
  ASSUME TypeInv, RequestNumbers, Waiting("client")
  PROVE  Len(sent["client"]) > 0 /\ LastOf(sent["client"]) = Len(sent["client"])
<1>1. sent["client"] # <<>> /\ sent["client"] \in Seq(Data)
  BY EndFacts DEF TypeInv, TypeOK, HasPacket, Waiting
<1>2. Len(sent["client"]) \in 1 .. Len(sent["client"])
  BY <1>1, EmptySeq, LenProperties
<1>3. QED
  BY <1>2 DEF RequestNumbers, LastOf

\* A step that neither makes a request nor ends a RemotePut nor executes a
\* request adds at most a repetition.
LEMMA OrderKept ==
  ASSUME TypeInv, TypeInv', NumbersFit, Order, [Next]_vars,
         sent'["client"] = sent["client"], got'["server"] = got["server"],
         sendNo'["client"] = sendNo["client"], recvNo'["server"] = recvNo["server"],
         Waiting("client")' => Waiting("client")
  PROVE  Order'
<1> DEFINE n == Len(sent["client"])
           no == sendNo["client"]
           B == BlocksTo("server")
<1>1. /\ n \in Nat /\ no \in Nat /\ recvNo["server"] \in Nat
      /\ \A b \in B : b.no \in Nat /\ b.data \in Nat
      /\ \A i \in 1 .. Len(got["server"]) : got["server"][i] \in Nat
  BY NumberFacts
<1>2. /\ n <= MaxPuts /\ no <= n + 1 /\ (Waiting("client") => no <= n)
      /\ \A b \in B : b.no <= no /\ b.no <= n /\ b.data <= n
  BY <1>1 DEF Order, NumbersFollow
<1>3. RequestNumbers' /\ AtMostOnceInOrder'
  BY DEF Order, RequestNumbers, AtMostOnceInOrder
<1>4. \A b \in B' : b \in B \/ (Waiting("client") /\ b.no = no /\ b.data = n)
  <2>1. ASSUME NEW b \in B', b \notin B
        PROVE  Waiting("client")' /\ b.no = WireNo(no) /\ b.data = LastOf(sent'["client"])
    BY <2>1, BlocksNext, EndFacts DEF Newest
  <2>2. WireNo(no) = no
    <3>1. no \in 0 .. MaxPuts + 1
      BY <1>1, <1>2, BoundAssumption
    <3>2. QED
      BY <3>1, IncFacts
  <2>3. Waiting("client")' => LastOf(sent["client"]) = n
    BY <1>3, LastRequest DEF Order
  <2>4. LastOf(sent'["client"]) = LastOf(sent["client"])
    BY DEF LastOf
  <2>5. QED
    BY <2>1, <2>2, <2>3, <2>4
<1>5. NumbersFollow'
  <2>1. \A b \in B' : b.no <= no /\ b.no <= n /\ b.data <= n
    BY <1>1, <1>2, <1>4
  <2>2. \A i \in 1 .. Len(got["server"]) : got["server"][i] <= n
    BY DEF Order, NumbersFollow
  <2>3. QED
    BY <1>1, <1>2, <2>1, <2>2 DEF NumbersFollow
<1>6. BlocksInOrder'
  <2>1. /\ \A b, c \in B : b.no < c.no => b.data < c.data
        /\ Waiting("client") => \A b \in B : b.no < no => b.data < n
    BY DEF Order, BlocksInOrder
  <2>2. \A b, c \in B' : b.no < c.no => b.data < c.data
    BY <1>1, <1>2, <1>4, <2>1
  <2>3. Waiting("client")' => \A b \in B' : b.no < no => b.data < n
    BY <1>1, <1>4, <2>1
  <2>4. QED
    BY <2>2, <2>3 DEF BlocksInOrder
<1>7. NextIsNew'
  <2>1. /\ \A b \in B : b.no >= recvNo["server"] =>
             \A i \in 1 .. Len(got["server"]) : got["server"][i] < b.data
        /\ Waiting("client") /\ no >= recvNo["server"] =>
             \A i \in 1 .. Len(got["server"]) : got["server"][i] < n
    BY DEF Order, NextIsNew
  <2>2. \A b \in B' : b.no >= recvNo["server"] =>
             \A i \in 1 .. Len(got["server"]) : got["server"][i] < b.data
    BY <1>4, <2>1
  <2>3. QED
    BY <2>1, <2>2 DEF NextIsNew
<1>8. QED
  BY <1>3, <1>5, <1>6, <1>7 DEF Order

\* A new request comes after all the others.
LEMMA OrderRequest ==
  ASSUME TypeInv, TypeInv', NumbersFit, Order, [Next]_vars, StartPut("client")
  PROVE  Order'
<1> DEFINE n == Len(sent["client"])
           no == sendNo["client"]
           B == BlocksTo("server")
<1>1. /\ n \in Nat /\ no \in Nat /\ recvNo["server"] \in Nat /\ Len(got["server"]) \in Nat
      /\ \A b \in B : b.no \in Nat /\ b.data \in Nat
      /\ \A i \in 1 .. Len(got["server"]) : got["server"][i] \in Nat
  BY NumberFacts
<1>2. /\ sent' = [sent EXCEPT !["client"] = Append(@, n + 1)]
      /\ UNCHANGED <<got, sendNo, recvNo>> /\ n < MaxPuts
      /\ Waiting("client")' /\ ~Waiting("client")
  BY EndFacts DEF StartPut, Waiting, TypeInv, TypeOK
<1>3. /\ Len(sent'["client"]) = n + 1
      /\ \A i \in 1 .. n : sent'["client"][i] = sent["client"][i]
      /\ sent'["client"][n + 1] = n + 1
  <2>1. n + 1 \in Data
    BY <1>1, <1>2, BoundAssumption DEF Data
  <2>2. QED
    BY <1>2, <2>1, Grows, EndFacts DEF TypeInv, TypeOK
<1>4. RequestNumbers'
  <2>1. \A i \in 1 .. n + 1 : i \in 1 .. n \/ i = n + 1
    BY <1>1
  <2>2. QED
    BY <1>3, <2>1 DEF Order, RequestNumbers
<1>5. /\ no <= n + 1
      /\ \A b \in B : b.no <= no /\ b.no <= n /\ b.data <= n
      /\ \A i \in 1 .. Len(got["server"]) : got["server"][i] <= n
  BY <1>2 DEF Order, NumbersFollow
<1>6. \A i \in 1 .. Len(got["server"]) : got["server"][i] <= n + 1 /\ got["server"][i] < n + 1
  BY <1>1, <1>5
<1>7. \A b \in B' : b \in B \/ (b.no = no /\ b.data = n + 1)
  <2>1. ASSUME NEW b \in B', b \notin B
        PROVE  b.no = WireNo(no) /\ b.data = LastOf(sent'["client"])
    BY <1>2, <2>1, BlocksNext, EndFacts DEF Newest
  <2>2. WireNo(no) = no
    <3>1. no \in 0 .. MaxPuts + 1
      BY <1>1, <1>2, <1>5, BoundAssumption
    <3>2. QED
      BY <3>1, IncFacts
  <2>3. LastOf(sent'["client"]) = n + 1
    BY <1>3 DEF LastOf
  <2>4. QED
    BY <2>1, <2>2, <2>3
<1>8. NumbersFollow'
  <2>1. \A b \in B' : b.no <= no /\ b.no <= n + 1 /\ b.data <= n + 1
    BY <1>1, <1>5, <1>7
  <2>2. n + 1 <= MaxPuts
    BY <1>1, <1>2, BoundAssumption
  <2>3. \A i \in 1 .. Len(got["server"]) : got["server"][i] <= n + 1
    BY <1>1, <1>6
  <2>4. QED
    BY <1>1, <1>2, <1>3, <1>5, <2>1, <2>2, <2>3 DEF NumbersFollow
<1>9. BlocksInOrder'
  <2>1. \A b, c \in B : b.no < c.no => b.data < c.data
    BY DEF Order, BlocksInOrder
  <2>2. \A b, c \in B' : b.no < c.no => b.data < c.data
    BY <1>1, <1>5, <1>7, <2>1
  <2>3. \A b \in B' : b.no < no => b.data < n + 1
    BY <1>1, <1>5, <1>7
  <2>4. QED
    BY <1>2, <1>3, <2>2, <2>3 DEF BlocksInOrder
<1>10. NextIsNew'
  <2>1. \A b \in B : b.no >= recvNo["server"] =>
             \A i \in 1 .. Len(got["server"]) : got["server"][i] < b.data
    BY DEF Order, NextIsNew
  <2>3. \A b \in B' : b.no >= recvNo["server"] =>
             \A i \in 1 .. Len(got["server"]) : got["server"][i] < b.data
    BY <1>7, <1>6, <2>1
  <2>4. QED
    BY <1>2, <1>3, <1>6, <2>3 DEF NextIsNew
<1>11. AtMostOnceInOrder'
  BY <1>2 DEF Order, AtMostOnceInOrder
<1>12. QED
  BY <1>4, <1>8, <1>9, <1>10, <1>11 DEF Order

\* An acknowledged request gives the next one the next number.
LEMMA OrderAck ==
  ASSUME TypeInv, NumbersFit, Order, [Next]_vars, RecvAck("client")
  PROVE  Order'
<1> DEFINE n == Len(sent["client"])
           no == sendNo["client"]
           B == BlocksTo("server")
<1>1. /\ n \in Nat /\ no \in Nat /\ \A b \in B : b.no \in Nat
  BY NumberFacts
<1>2. /\ UNCHANGED <<sent, got, recvNo>>
      /\ Waiting("client") /\ ~Waiting("client")'
      /\ sendNo'["client"] = Inc(no)
  BY EndFacts DEF RecvAck, Waiting, TypeInv, TypeOK
<1>3. no <= n /\ n <= MaxPuts /\ \A b \in B : b.no <= no
  BY <1>1, <1>2 DEF Order, NumbersFollow
<1>4. Inc(no) = no + 1
  <2>1. no \in 0 .. MaxPuts /\ no \in 0 .. MaxPuts + 1
    BY <1>1, <1>3, BoundAssumption
  <2>2. QED
    BY <2>1, IncFacts
<1>5. \A b \in B' : b \in B
  BY <1>2, BlocksNext, EndFacts DEF Newest
<1>6. NumbersFollow'
  <2>1. \A b \in B' : b.no <= no + 1
    BY <1>1, <1>3, <1>5
  <2>2. QED
    BY <1>1, <1>2, <1>3, <1>4, <1>5, <2>1 DEF Order, NumbersFollow
<1>7. BlocksInOrder' /\ NextIsNew'
  BY <1>2, <1>5 DEF Order, BlocksInOrder, NextIsNew
<1>8. RequestNumbers' /\ AtMostOnceInOrder'
  BY <1>2 DEF Order, RequestNumbers, AtMostOnceInOrder
<1>9. QED
  BY <1>6, <1>7, <1>8 DEF Order

\* The server executes a request that is later than all before.
LEMMA OrderExecute ==
  ASSUME TypeInv, TypeInv', NumbersFit, Order, [Next]_vars, Accept("server")
  PROVE  Order'
<1> DEFINE n == Len(sent["client"])
           no == sendNo["client"]
           B == BlocksTo("server")
           m == Len(got["server"])
           blk == Head(chan["server"])
<1>1. /\ n \in Nat /\ no \in Nat /\ recvNo["server"] \in Nat /\ m \in Nat
      /\ \A b \in B : b.no \in Nat /\ b.data \in Nat
      /\ \A i \in 1 .. m : got["server"][i] \in Nat
  BY NumberFacts
<1>2. blk \in B
  <2>1. chan["server"] # <<>> /\ chan["server"] \in Seq(Token) /\ blk.t = "BLK"
    BY Head1Facts, EndFacts DEF Accept, TypeInv, TypeOK
  <2>2. blk \in Token /\ blk = chan["server"][1] /\ 1 \in 1 .. Len(chan["server"])
    BY <2>1, EmptySeq, HeadTailProperties, LenProperties
  <2>3. QED
    BY <2>1, <2>2, TokenKinds DEF BlocksTo, Token
<1>3. /\ UNCHANGED <<sent, sendNo>>
      /\ got' = [got EXCEPT !["server"] = Append(@, blk.data)]
      /\ recvNo'["server"] = Inc(recvNo["server"])
      /\ recvNo["server"] = blk.no
      /\ Waiting("client")' <=> Waiting("client")
  BY EndFacts DEF Accept, IsNext, Waiting, TypeInv, TypeOK
<1>4. /\ n <= MaxPuts /\ no <= n + 1 /\ (Waiting("client") => no <= n)
      /\ \A b \in B : b.no <= no /\ b.no <= n /\ b.data <= n
      /\ \A i \in 1 .. m : got["server"][i] <= n
  BY <1>1 DEF Order, NumbersFollow
<1>5. Inc(recvNo["server"]) = blk.no + 1
  <2>1. blk.no \in 0 .. MaxPuts /\ blk.no \in 0 .. MaxPuts + 1
    BY <1>1, <1>2, <1>4, BoundAssumption
  <2>2. QED
    BY <1>3, <2>1, IncFacts
<1>6. /\ Len(got'["server"]) = m + 1
      /\ \A i \in 1 .. m : got'["server"][i] = got["server"][i]
      /\ got'["server"][m + 1] = blk.data
  <2>1. blk.data \in Data
    BY <1>2 DEF BlocksTo, BlkToken
  <2>2. QED
    BY <1>3, <2>1, Grows, EndFacts DEF TypeInv, TypeOK
<1> HIDE DEF n, no, B, m, blk
<1>7. \A i \in 1 .. m + 1 : i \in 1 .. m \/ i = m + 1
  BY <1>1
<1>8. \A b \in B' : b \in B \/ (Waiting("client") /\ b.no = no /\ b.data = n)
  <2>1. ASSUME NEW b \in B', b \notin B
        PROVE  Waiting("client")' /\ b.no = WireNo(no) /\ b.data = LastOf(sent["client"])
    BY <1>3, <2>1, BlocksNext, EndFacts DEF Newest, B, no, LastOf
  <2>2. WireNo(no) = no
    <3>1. no \in 0 .. MaxPuts + 1
      BY <1>1, <1>4, BoundAssumption
    <3>2. QED
      BY <3>1, IncFacts
  <2>3. Waiting("client") => LastOf(sent["client"]) = n
    BY LastRequest DEF Order, n
  <2>4. QED
    BY <1>3, <2>1, <2>2, <2>3
<1>9. /\ \A b, c \in B : b.no < c.no => b.data < c.data
      /\ Waiting("client") => \A b \in B : b.no < no => b.data < n
      /\ \A b \in B : b.no >= blk.no => \A i \in 1 .. m : got["server"][i] < b.data
      /\ Waiting("client") /\ no >= blk.no => \A i \in 1 .. m : got["server"][i] < n
  BY <1>3 DEF Order, BlocksInOrder, NextIsNew, n, no, B, m
<1>10. \A i \in 1 .. m : got["server"][i] < blk.data
  BY <1>1, <1>2, <1>9
<1>11. NumbersFollow'
  <2>1. \A b \in B' : b.no <= no /\ b.no <= n /\ b.data <= n
    BY <1>1, <1>4, <1>8
  <2>2. \A i \in 1 .. m + 1 : got'["server"][i] <= n
    BY <1>2, <1>4, <1>6, <1>7
  <2>3. QED
    BY <1>1, <1>3, <1>4, <1>6, <2>1, <2>2 DEF NumbersFollow, n, no, B
<1>12. BlocksInOrder'
  <2>1. \A b, c \in B' : b.no < c.no => b.data < c.data
    BY <1>1, <1>4, <1>8, <1>9
  <2>2. Waiting("client") => \A b \in B' : b.no < no => b.data < n
    BY <1>1, <1>8, <1>9
  <2>3. QED
    BY <1>3, <2>1, <2>2 DEF BlocksInOrder, n, no, B
<1>13. NextIsNew'
  <2>1. \A b \in B' : b.no >= blk.no + 1 => b.data > blk.data /\ b.no >= blk.no
    BY <1>1, <1>2, <1>8, <1>9
  <2>2. \A b \in B' : b.no >= blk.no + 1 => \A i \in 1 .. m : got["server"][i] < b.data
    BY <1>8, <1>9, <2>1
  <2>3. \A b \in B' : b.no >= blk.no + 1 => \A i \in 1 .. m + 1 : got'["server"][i] < b.data
    BY <1>6, <1>7, <2>1, <2>2
  <2>4. Waiting("client") /\ no >= blk.no + 1 => blk.data < n /\ no >= blk.no
    BY <1>1, <1>2, <1>9
  <2>5. Waiting("client") /\ no >= blk.no + 1 =>
          \A i \in 1 .. m + 1 : got'["server"][i] < n
    BY <1>6, <1>7, <1>9, <2>4
  <2>6. QED
    BY <1>3, <1>5, <1>6, <2>3, <2>5 DEF NextIsNew, n, no, B
<1>14. AtMostOnceInOrder'
  <2>1. \A i, j \in 1 .. m : i < j => got["server"][i] < got["server"][j]
    BY DEF Order, AtMostOnceInOrder, m
  <2>2. \A i, j \in 1 .. m + 1 : i < j => got'["server"][i] < got'["server"][j]
    BY <1>1, <1>6, <1>7, <1>10, <2>1
  <2>3. QED
    BY <1>6, <2>2 DEF AtMostOnceInOrder
<1>15. RequestNumbers'
  BY <1>3 DEF Order, RequestNumbers
<1>16. QED
  BY <1>11, <1>12, <1>13, <1>14, <1>15 DEF Order

\* Every step keeps the order.
LEMMA OrderNext == NumbersFit /\ TypeInv /\ Order /\ [Next]_vars => Order'
<1> SUFFICES ASSUME NumbersFit, TypeInv, Order, [Next]_vars PROVE Order'
  OBVIOUS
<1>1. TypeInv'
  BY TypeNext
<1>2. CASE StartPut("client") \/ RecvAck("client") \/ Accept("server")
  BY <1>1, <1>2, OrderRequest, OrderAck, OrderExecute
<1>3. CASE StartPut("server") \/ RecvAck("server") \/ Accept("client")
  <2>1. /\ sent'["client"] = sent["client"] /\ got'["server"] = got["server"]
        /\ sendNo'["client"] = sendNo["client"] /\ recvNo'["server"] = recvNo["server"]
        /\ Waiting("client")' => Waiting("client")
    <3>1. CASE StartPut("server")
      BY <3>1, EndFacts DEF StartPut, Waiting, TypeInv, TypeOK
    <3>2. CASE RecvAck("server")
      BY <3>2, EndFacts DEF RecvAck, Waiting, TypeInv, TypeOK
    <3>3. CASE Accept("client")
      BY <3>3, EndFacts DEF Accept, Waiting, TypeInv, TypeOK
    <3>4. QED
      BY <1>3, <3>1, <3>2, <3>3
  <2>2. QED
    BY <1>1, <2>1, OrderKept
<1>4. CASE \E e \in End : PutFails(e)
  <2>1. /\ UNCHANGED <<sent, got, sendNo, recvNo>>
        /\ Waiting("client")' => Waiting("client")
    BY <1>4, EndFacts DEF PutFails, Waiting, link, TypeInv, TypeOK
  <2>2. QED
    BY <1>1, <2>1, OrderKept
<1>5. CASE \A e \in End : ~StartPut(e) /\ ~RecvAck(e) /\ ~Accept(e) /\ ~PutFails(e)
  BY <1>1, <1>5, OtherSteps, OrderKept, EndFacts
<1>6. QED
  BY <1>2, <1>3, <1>4, <1>5, EndFacts

\* The server executes no request twice and none after a later one, also when
\* RemotePut gave up on some of them, as long as the block number does not wrap.
THEOREM OrderCorrect == ASSUME NumbersFit PROVE Spec => []AtMostOnceInOrder
<1>1. Spec => []TypeInv
  BY TypeInit, TypeNext, PTL DEF Spec
<1>2. Spec => []Order
  BY <1>1, OrderInit, OrderNext, PTL DEF Spec
<1>3. QED
  BY <1>2, PTL DEF Order

(***************************************************************************)
(* Delivery.  What the two ends owe each other is decided by the phase of  *)
(* their conversation: with a prompt line and at most one fault, every     *)
(* state is in one of the phases below, and no phase lets RemotePut return *)
(* before the peer has the packet.                                         *)
(***************************************************************************)
\* No fault is left.
Spent == faults = MaxFaults

\* The program has called RemoteGet, or is about to.
Listens(e) == pc[e] = "recv" \/ (pc[e] = "app" /\ app[e] = "get")
Puts(e) == pc[e] = "app" /\ app[e] = "put"

\* The block that e repeats until it is acknowledged.
Blk(e) == Block(e, prevErrors[e])

\* The peer p has all that e has put, though e may not know it yet.
Has(e, p) ==
  /\ got[p] = sent[e]
  /\ recvNo[p] = IF Waiting(e) THEN Inc(sendNo[e]) ELSE sendNo[e]

\* The peer p lacks the packet that e has put last, and only that.
OneShort(e, p) == sent[e] = Append(got[p], LastOf(sent[e]))

\* It is the block that e waits with, and p is ready to take it for the next.
Lacks(e, p) == pc[e] = "ackwait" /\ OneShort(e, p) /\ recvNo[p] = sendNo[e]

\* u is to put the next packet.
Turn(u, w) ==
  /\ Puts(u) /\ Listens(w) /\ Has(u, w) /\ Has(w, u)
  /\ chan[u] = <<>> /\ chan[w] = <<>>

\* e has put a packet that p has not got.
Offered(e, p) ==
  /\ Lacks(e, p) /\ Listens(p) /\ Has(p, e)
  /\ \/ chan[e] = <<>> /\ chan[p] = <<Blk(e)>>
     \/ Spent /\ chan[e] = <<>> /\ chan[p] = <<>>
     \/ Spent /\ chan[e] = <<>> /\ \E t \in {JUNK, BAD, RLR} : chan[p] = <<t>>
     \/ Spent /\ chan[e] = <<NAK>> /\ chan[p] = <<>>

\* p got a packet that asks for no reply, and e waits for the ACK.
Taken(e, p) ==
  /\ Waiting(e) /\ Listens(p) /\ Has(e, p) /\ Has(p, e)
  /\ AfterPut(e) = "put" /\ prevErrors[e] <= MaxErrors
  /\ \/ pc[e] = "ackwait" /\ chan[e] = <<ACK>> /\ chan[p] = <<>>
     \/ Spent /\ chan[e] = <<>> /\ chan[p] = <<>>
     \/ Spent /\ pc[e] = "ackwait" /\ chan[p] = <<>> /\ \E t \in {NAK, JUNK} : chan[e] = <<t>>
     \/ Spent /\ pc[e] = "ackwait" /\ chan[e] = <<>> /\ chan[p] = <<RLR>>
     \/ Spent /\ pc[e] = "ackwait" /\ chan[e] = <<>> /\ chan[p] = <<Blk(e)>>

\* u got the packet of w and prepares its answer, and w waits for the ACK.
Prepared(w, u) ==
  /\ Waiting(w) /\ Puts(u) /\ Has(w, u) /\ Has(u, w)
  /\ AfterPut(w) = "get" /\ prevErrors[w] <= MaxErrors
  /\ \/ pc[w] = "ackwait" /\ chan[w] = <<ACK>> /\ chan[u] = <<>>
     \/ Spent /\ chan[u] \in Seq({RLR}) /\ chan[w] = <<>>
     \/ Spent /\ chan[u] \in Seq({RLR}) /\ chan[w] = <<JUNK>> /\ pc[w] = "ackwait"

\* u has put its answer, and w still waits for the ACK.
Crossed(w, u) ==
  /\ Waiting(w) /\ Has(w, u) /\ Lacks(u, w)
  /\ AfterPut(w) = "get" /\ prevErrors[w] <= MaxErrors
  /\ \/ pc[w] = "ackwait" /\ chan[w] = <<ACK, Blk(u)>> /\ chan[u] = <<>>
     \/ Spent /\ chan[u] \in Seq({RLR}) /\ chan[w] \in Seq({ACK, JUNK, Blk(u)})
        /\ (pc[w] = "ackwait" => chan[w] # <<>> /\ Head(chan[w]) # ACK)
     \/ Spent /\ pc[w] = "ackwait" /\ chan[w] = <<>> /\ chan[u] = <<RLR>>

\* p is in ReSync, and e does not know yet that it will be.
Joined(e, p) ==
  /\ pc[p] = "resyncGet" /\ Waiting(e) /\ Has(e, p) /\ Has(p, e)
  /\ prevErrors[e] > MaxErrors /\ app[p] # AfterPut(e)
  /\ \/ pc[e] = "ackwait" /\ chan[e] = <<ACK>> /\ chan[p] = <<>>
     \/ Spent /\ chan[e] \in Seq({JUNK})

Resyncs(e, p) ==
  /\ pc[e] = "resyncPut" /\ pc[p] = "resyncGet" /\ Has(e, p) /\ Has(p, e)
  /\ app[p] # app[e]
  /\ chan[e] = <<>> /\ chan[p] = <<>>

\* The server is in ReSync and the client is not: nothing is heard any more.
Parted ==
  /\ Spent /\ InResync("server") /\ ~InResync("client") /\ chan["client"] = <<>>
  /\ Has("server", "client")
  /\ IF Waiting("client") THEN OneShort("client", "server") ELSE Has("client", "server")

Phase(e, p) ==
  \/ Turn(e, p) \/ Offered(e, p) \/ Taken(e, p) \/ Prepared(e, p) \/ Crossed(e, p)
  \/ Joined(e, p) \/ Resyncs(e, p)
InPhase == Parted \/ \E e, p \in End : p # e /\ Phase(e, p)

\* Only an end that waits for a block may have answered NAK last.
Steady == \A e \in End : pc[e] # "recv" => lastResp[e] = "ACK"

Course == Steady /\ InPhase

\* The number of a block tells it from the next one, also on the wire.
Distinct == \A e \in End : WireNo(sendNo[e]) = sendNo[e] /\ Inc(sendNo[e]) # sendNo[e]

\* RemotePut waits long enough, and the line fails at most once.
Civil == Prompt /\ ~GiveUp /\ MaxFaults <= 1

(***************************************************************************)
(* Short channels.                                                         *)
(***************************************************************************)
\* A channel of one token.
LEMMA Single ==
  ASSUME NEW a
  PROVE  /\ <<a>> # <<>> /\ Head(<<a>>) = a /\ Tail(<<a>>) = <<>>
         /\ <<>> \o <<a>> = <<a>> /\ Append(<<>>, a) = <<a>>
         /\ <<a>> \o <<>> = <<a>>
OBVIOUS

\* A channel of two tokens.
LEMMA Double ==
  ASSUME NEW a, NEW b
  PROVE  /\ <<a, b>> # <<>> /\ Head(<<a, b>>) = a /\ Tail(<<a, b>>) = <<b>>
         /\ <<>> \o <<a, b>> = <<a, b>>
OBVIOUS

\* The kinds of tokens differ.
LEMMA Kinds ==
  /\ ACK.t = "ACK" /\ NAK.t = "NAK" /\ RLR.t = "RLR" /\ BAD.t = "BAD" /\ JUNK.t = "JUNK"
  /\ \A e \in End : Blk(e).t = "BLK" /\ Blk(e).no = WireNo(sendNo[e])
                    /\ Blk(e).err = prevErrors[e] /\ Blk(e).data = LastOf(sent[e])
  /\ \A e \in End : Blk(e) # ACK
BY DEF ACK, NAK, RLR, BAD, JUNK, Ctl, Blk, Block

\* An empty receive buffer stays empty when it is cleared.
LEMMA ClearedEmpty == \A c \in Cleared(<<>>) : c = <<>>
BY DEF Cleared

\* What is left of a line of requests for a response is one of these.
LEMMA ClearedRlr ==
  ASSUME NEW c \in Seq({RLR}), NEW d \in Cleared(c)
  PROVE  d \in Seq({RLR})
<1>1. Len(c) \in Nat /\ \A j \in 1 .. Len(c) : c[j] = RLR
  BY LenProperties, ElementOfSeq
<1>2. PICK i \in 1 .. Len(c) + 1 : d = SubSeq(c, i, Len(c))
  BY <1>1, Kinds DEF Cleared
<1>3. i \in Int /\ \A j \in i .. Len(c) : c[j] \in {RLR}
  BY <1>1, <1>2
<1>4. QED
  BY <1>1, <1>2, <1>3, SubSeqProperties

(***************************************************************************)
(* What a step does to the two ends.                                       *)
(***************************************************************************)
\* A step that changes neither the numbers nor the packets.
Plain == UNCHANGED <<sendNo, recvNo, prevErrors, sent, got>>

\* e goes to l, and nothing happens to the program or to the peer p.
Moves(e, p, l) == pc'[e] = l /\ pc'[p] = pc[p] /\ UNCHANGED app /\ Plain

\* The line holds c for e, and d for p, afterwards.
Leaves(e, p, c, d) == chan'[e] = c /\ chan'[p] = d

\* A token is taken and answered.
LEMMA TakeEffect ==
  ASSUME TypeInv, NEW e \in End, NEW p \in End, p # e, NEW s, TakeAndSend(e, s)
  PROVE  Leaves(e, p, Tail(chan[e]), chan[p] \o s)
<1>1. Peer(e) = p
  BY EndFacts
<1>2. chan' = [chan EXCEPT ![e] = Tail(@), ![p] = @ \o s]
  BY <1>1 DEF TakeAndSend
<1>3. QED
  BY <1>2 DEF Leaves, TypeInv, TypeOK

\* A token is taken and not answered.
LEMMA TakeOnlyEffect ==
  ASSUME TypeInv, NEW e \in End, NEW p \in End, p # e, Take(e)
  PROVE  Leaves(e, p, Tail(chan[e]), chan[p])
<1>1. chan[p] \in Seq(Token)
  BY DEF TypeInv, TypeOK
<1>2. chan[p] \o <<>> = chan[p]
  BY <1>1, ConcatEmptySeq
<1>3. QED
  BY <1>2, TakeEffect DEF Take

\* The blocks and what the peers owe stay when only the program counters move.
LEMMA PlainFacts ==
  ASSUME Plain
  PROVE  \A e, p \in End :
           /\ Blk(e)' = Blk(e) /\ AfterPut(e)' = AfterPut(e) /\ prevErrors'[e] = prevErrors[e]
           /\ (Waiting(e)' <=> Waiting(e)) => (Has(e, p)' <=> Has(e, p))
           /\ pc'[e] = pc[e] => (Lacks(e, p)' <=> Lacks(e, p))
           /\ OneShort(e, p)' <=> OneShort(e, p)
BY DEF Plain, Blk, Block, AfterPut, Has, Lacks, OneShort

\* What stays of the two ends when one of them only moves.
LEMMA MovesFacts ==
  ASSUME NEW e \in End, NEW p \in End, p # e, NEW l, Moves(e, p, l)
  PROVE  /\ Blk(e)' = Blk(e) /\ AfterPut(e)' = AfterPut(e) /\ prevErrors'[e] = prevErrors[e]
         /\ Blk(p)' = Blk(p) /\ AfterPut(p)' = AfterPut(p) /\ prevErrors'[p] = prevErrors[p]
         /\ (l \in {"ackwait", "drain"} <=> Waiting(e)) => (Has(e, p)' <=> Has(e, p))
         /\ Has(p, e)' <=> Has(p, e)
         /\ Lacks(p, e)' <=> Lacks(p, e)
         /\ l = pc[e] => (Lacks(e, p)' <=> Lacks(e, p))
         /\ (OneShort(e, p)' <=> OneShort(e, p)) /\ (OneShort(p, e)' <=> OneShort(p, e))
         /\ Listens(p)' <=> Listens(p)
         /\ Puts(p)' <=> Puts(p)
         /\ Waiting(p)' <=> Waiting(p)
         /\ Waiting(e)' <=> l \in {"ackwait", "drain"}
         /\ pc'[e] = l /\ pc'[p] = pc[p] /\ app'[e] = app[e] /\ app'[p] = app[p]
<1>1. Plain /\ (Waiting(p)' <=> Waiting(p)) /\ (Waiting(e)' <=> l \in {"ackwait", "drain"})
  BY DEF Moves, Waiting
<1>2. QED
  BY <1>1, PlainFacts DEF Moves, Listens, Puts

\* Silence makes a sender ask for the last response.
LEMMA AskEffect ==
  ASSUME TypeInv, NEW e \in End, NEW p \in End, p # e, DrainEnds(e) \/ Timeout(e)
  PROVE  /\ Waiting(e) /\ Quiet(e) /\ chan[e] = <<>>
         /\ Moves(e, p, "ackwait") /\ (Spent' <=> Spent)
         /\ Leaves(e, p, <<>>, Append(chan[p], RLR))
<1>1. Ask(e) /\ Waiting(e) /\ pc' = [pc EXCEPT ![e] = "ackwait"]
  BY DEF DrainEnds, Timeout, Waiting, TypeInv, TypeOK
<1>2. Quiet(e) /\ chan[e] = <<>>
  BY <1>1 DEF Ask, Quiet
<1>3. Moves(e, p, "ackwait") /\ (Spent' <=> Spent)
  BY <1>1 DEF Ask, Moves, Plain, Spent, TypeInv, TypeOK
<1>4. Leaves(e, p, <<>>, Append(chan[p], RLR))
  BY <1>1, <1>2, EndFacts DEF Ask, Leaves, TypeInv, TypeOK
<1>5. QED
  BY <1>1, <1>2, <1>3, <1>4

\* A NAK makes the sender repeat its block.
LEMMA NakEffect ==
  ASSUME TypeInv, NEW e \in End, NEW p \in End, p # e, RecvNak(e)
  PROVE  /\ pc[e] = "ackwait" /\ chan[e] # <<>> /\ Head(chan[e]).t = "NAK"
         /\ Moves(e, p, "ackwait") /\ (Spent' <=> Spent)
         /\ Leaves(e, p, Tail(chan[e]), chan[p] \o <<Blk(e)>>)
BY TakeEffect, Head1Facts DEF RecvNak, Moves, Plain, Spent, Blk, TypeInv, TypeOK

\* A sender that is asked for its last response repeats it, and the block.
LEMMA RlrEffect ==
  ASSUME TypeInv, NEW e \in End, NEW p \in End, p # e, RecvRlr(e)
  PROVE  /\ pc[e] = "ackwait" /\ chan[e] # <<>> /\ Head(chan[e]).t = "RLR"
         /\ Moves(e, p, "ackwait") /\ (Spent' <=> Spent)
         /\ Leaves(e, p, Tail(chan[e]), chan[p] \o <<Ctl(lastResp[e]), Blk(e)>>)
BY TakeEffect, Head1Facts DEF RecvRlr, Moves, Plain, Spent, Blk, TypeInv, TypeOK, link

\* A byte that is no answer is discarded, and the rest of the line with it.
LEMMA OtherEffect ==
  ASSUME TypeInv, NEW e \in End, NEW p \in End, p # e, RecvOther(e) \/ DrainByte(e)
  PROVE  /\ Waiting(e) /\ chan[e] # <<>>
         /\ pc[e] = "ackwait" => Head(chan[e]).t \in {"BLK", "BAD", "JUNK"}
         /\ Moves(e, p, "drain") /\ (Spent' <=> Spent)
         /\ Leaves(e, p, Tail(chan[e]), chan[p])
<1>1. Take(e)
  BY DEF RecvOther, DrainByte
<1>2. Leaves(e, p, Tail(chan[e]), chan[p])
  BY <1>1, TakeOnlyEffect
<1>3. /\ Waiting(e) /\ chan[e] # <<>>
      /\ pc[e] = "ackwait" => Head(chan[e]).t \in {"BLK", "BAD", "JUNK"}
  BY DEF RecvOther, DrainByte, Head1, Waiting
<1>4. Moves(e, p, "drain") /\ (Spent' <=> Spent)
  BY DEF RecvOther, DrainByte, Moves, Plain, Spent, TypeInv, TypeOK, link
<1>5. QED
  BY <1>2, <1>3, <1>4

\* The program calls RemoteGet.
LEMMA GetEffect ==
  ASSUME TypeInv, NEW e \in End, NEW p \in End, p # e, StartGet(e)
  PROVE  /\ pc[e] = "app" /\ app[e] = "get"
         /\ Moves(e, p, "recv") /\ (Spent' <=> Spent)
         /\ Leaves(e, p, chan[e], chan[p])
BY DEF StartGet, Moves, Plain, Leaves, Spent, TypeInv, TypeOK, link

\* A repeated block is acknowledged again.
LEMMA RepeatedEffect ==
  ASSUME TypeInv, NEW e \in End, NEW p \in End, p # e, Repeated(e)
  PROVE  /\ pc[e] = "recv" /\ chan[e] # <<>>
         /\ Head(chan[e]).t = "BLK" /\ Head(chan[e]).no # recvNo[e]
         /\ Moves(e, p, "recv") /\ (Spent' <=> Spent)
         /\ \E c \in Cleared(Tail(chan[e])) : Leaves(e, p, c, Append(chan[p], ACK))
<1>1. \E c \in Cleared(Tail(chan[e])) : Leaves(e, p, c, Append(chan[p], ACK))
  <2>1. PICK c \in Cleared(Tail(chan[e])) :
          chan' = [chan EXCEPT ![e] = c, ![p] = Append(@, ACK)]
    BY EndFacts DEF Repeated, RepeatAnswer
  <2>2. Leaves(e, p, c, Append(chan[p], ACK))
    BY <2>1 DEF Leaves, TypeInv, TypeOK
  <2>3. QED
    BY <2>2
<1>2. /\ pc[e] = "recv" /\ chan[e] # <<>>
      /\ Head(chan[e]).t = "BLK" /\ Head(chan[e]).no # recvNo[e]
  BY Head1Facts DEF Repeated, IsNext
<1>3. Moves(e, p, "recv") /\ (Spent' <=> Spent)
  BY DEF Repeated, Moves, Plain, Spent, TypeInv, TypeOK
<1>4. QED
  BY <1>1, <1>2, <1>3

\* A damaged block and a request for the last response are answered NAK.
LEMMA NakAnswerEffect ==
  ASSUME TypeInv, NEW e \in End, NEW p \in End, p # e, Damaged(e) \/ AnswerRlr(e)
  PROVE  /\ pc[e] = "recv" /\ chan[e] # <<>> /\ Head(chan[e]).t \in {"BAD", "RLR"}
         /\ Moves(e, p, "recv") /\ (Spent' <=> Spent)
         /\ Leaves(e, p, Tail(chan[e]), chan[p] \o <<NAK>>)
<1>1. TakeAndSend(e, <<NAK>>)
  BY DEF Damaged, AnswerRlr, RlrAnswer
<1>2. /\ pc[e] = "recv" /\ chan[e] # <<>> /\ Head(chan[e]).t \in {"BAD", "RLR"}
  BY DEF Damaged, AnswerRlr, Head1
<1>3. Moves(e, p, "recv") /\ (Spent' <=> Spent)
  BY DEF Damaged, AnswerRlr, Moves, Plain, Spent, TypeInv, TypeOK, link
<1>4. QED
  BY <1>1, <1>2, <1>3, TakeEffect

\* WaitReceive skips what begins no block.
LEMMA IgnoreEffect ==
  ASSUME TypeInv, NEW e \in End, NEW p \in End, p # e, Ignore(e)
  PROVE  /\ pc[e] = "recv" /\ chan[e] # <<>> /\ Head(chan[e]).t \in {"ACK", "NAK", "JUNK"}
         /\ Moves(e, p, "recv") /\ (Spent' <=> Spent)
         /\ Leaves(e, p, Tail(chan[e]), chan[p])
<1>1. Take(e) /\ pc[e] = "recv" /\ chan[e] # <<>> /\ Head(chan[e]).t \in {"ACK", "NAK", "JUNK"}
  BY DEF Ignore, Head1
<1>2. Moves(e, p, "recv") /\ (Spent' <=> Spent)
  BY DEF Ignore, Moves, Plain, Spent, TypeInv, TypeOK, link
<1>3. QED
  BY <1>1, <1>2, TakeOnlyEffect

\* The one fault that the line may have leaves none.
LEMMA FaultEffect ==
  ASSUME TypeInv, Civil, NEW e \in End, NEW p \in End, p # e, Fault(e)
  PROVE  /\ chan[e] # <<>> /\ ~Spent /\ Spent'
         /\ Moves(e, p, pc[e])
         /\ \/ Leaves(e, p, Tail(chan[e]), chan[p])
            \/ Leaves(e, p, <<JUNK>> \o Tail(chan[e]), chan[p])
            \/ Head(chan[e]).t = "BLK" /\ Leaves(e, p, <<BAD>> \o Tail(chan[e]), chan[p])
<1>1. ~Spent /\ Spent'
  BY BoundAssumption DEF Fault, Spent, Civil, TypeInv, TypeOK
<1>2. Moves(e, p, pc[e])
  BY DEF Fault, Moves, Plain, TypeInv, TypeOK, link
<1>3. chan[e] # <<>>
  BY DEF Fault, Head1
<1>4. PICK c : /\ chan' = [chan EXCEPT ![e] = c]
               /\ \/ c = Tail(chan[e]) \/ c = <<JUNK>> \o Tail(chan[e])
                  \/ Head(chan[e]).t = "BLK" /\ c = <<BAD>> \o Tail(chan[e])
  BY <1>3 DEF Fault, Head1
<1>5. Leaves(e, p, c, chan[p])
  BY <1>4 DEF Leaves, TypeInv, TypeOK
<1>6. QED
  BY <1>1, <1>2, <1>3, <1>4, <1>5

\* RemotePut begins: the peer lacks the new block, and only that.
LEMMA PutEffect ==
  ASSUME TypeInv, NEW e \in End, NEW p \in End, p # e, StartPut(e)
  PROVE  /\ Puts(e) /\ (Spent' <=> Spent)
         /\ pc'[e] = "ackwait" /\ pc'[p] = pc[p] /\ UNCHANGED app
         /\ Has(e, p) => Lacks(e, p)' /\ OneShort(e, p)'
         /\ Has(p, e)' <=> Has(p, e)
         /\ AfterPut(p)' = AfterPut(p) /\ prevErrors'[p] = prevErrors[p]
         /\ \E c \in Cleared(chan[e]) : Leaves(e, p, c, Append(chan[p], Blk(e)'))
<1>1. /\ Puts(e) /\ (Spent' <=> Spent)
      /\ pc'[e] = "ackwait" /\ pc'[p] = pc[p] /\ UNCHANGED <<app, sendNo, recvNo, got>>
      /\ prevErrors'[e] = errors[e] /\ prevErrors'[p] = prevErrors[p]
      /\ sent'[p] = sent[p]
  BY DEF StartPut, Puts, Spent, TypeInv, TypeOK
<1> DEFINE d == IF e = "client" THEN Len(sent[e]) + 1 ELSE LastOf(got[e])
           blk == [t |-> "BLK", no |-> WireNo(sendNo[e]), err |-> errors[e], data |-> d]
<1>2. /\ sent' = [sent EXCEPT ![e] = Append(@, d)]
      /\ \E c \in Cleared(chan[e]) : chan' = [chan EXCEPT ![e] = c, ![p] = Append(@, blk)]
  <2>1. Peer(e) = p
    BY EndFacts
  <2>2. QED
    BY <2>1 DEF StartPut
<1> HIDE DEF d
<1>3. sent'[e] = Append(sent[e], d) /\ sent[e] \in Seq(Data) /\ sent'[e] \in Seq(Data)
  <2>1. [Next]_vars
    BY DEF Next
  <2>2. TypeInv'
    BY <2>1, TypeNext
  <2>3. QED
    BY <1>2, <2>2 DEF TypeInv, TypeOK
<1>4. /\ Len(sent[e]) \in Nat /\ Len(sent'[e]) = Len(sent[e]) + 1
      /\ LastOf(sent'[e]) = d
  <2>1. d \in Data
    BY <1>3, AppendedElement
  <2>2. QED
    BY <1>3, <2>1, AppendProperties, LenProperties DEF LastOf
<1>5. Blk(e)' = [t |-> "BLK", no |-> WireNo(sendNo[e]), err |-> errors[e], data |-> d]
  BY <1>1, <1>4 DEF Blk, Block
<1>6. \E c \in Cleared(chan[e]) : Leaves(e, p, c, Append(chan[p], Blk(e)'))
  BY <1>2, <1>5 DEF Leaves, TypeInv, TypeOK
<1>7. Has(e, p) => Lacks(e, p)' /\ OneShort(e, p)'
  BY <1>1, <1>3, <1>4 DEF Has, Lacks, OneShort, Puts, Waiting
<1>8. (Has(p, e)' <=> Has(p, e)) /\ AfterPut(p)' = AfterPut(p)
  BY <1>1 DEF Has, AfterPut, Waiting
<1>9. QED
  BY <1>1, <1>6, <1>7, <1>8

\* RemotePut gets its answer.
LEMMA AckEffect ==
  ASSUME TypeInv, NEW e \in End, NEW p \in End, p # e, RecvAck(e)
  PROVE  /\ pc[e] = "ackwait" /\ chan[e] # <<>> /\ Head(chan[e]).t = "ACK"
         /\ pc'[e] = IF prevErrors[e] > MaxErrors THEN "resyncPut" ELSE "app"
         /\ app'[e] = AfterPut(e) /\ pc'[p] = pc[p] /\ app'[p] = app[p]
         /\ Has(e, p) => Has(e, p)'
         /\ Has(p, e)' <=> Has(p, e)
         /\ Lacks(p, e)' <=> Lacks(p, e)
         /\ Blk(p)' = Blk(p) /\ (Spent' <=> Spent)
         /\ Leaves(e, p, Tail(chan[e]), chan[p])
<1>1. /\ pc[e] = "ackwait" /\ chan[e] # <<>> /\ Head(chan[e]).t = "ACK" /\ Take(e)
      /\ pc'[e] = IF prevErrors[e] > MaxErrors THEN "resyncPut" ELSE "app"
      /\ app'[e] = AfterPut(e) /\ pc'[p] = pc[p] /\ app'[p] = app[p]
      /\ sendNo'[e] = Inc(sendNo[e]) /\ sendNo'[p] = sendNo[p]
      /\ UNCHANGED <<recvNo, prevErrors, sent, got, faults>>
  BY Head1Facts DEF RecvAck, TypeInv, TypeOK
<1>2. (Has(e, p) => Has(e, p)') /\ (Has(p, e)' <=> Has(p, e)) /\ (Lacks(p, e)' <=> Lacks(p, e))
  BY <1>1 DEF Has, Lacks, OneShort, Waiting
<1>3. Blk(p)' = Blk(p) /\ (Spent' <=> Spent)
  BY <1>1 DEF Blk, Block, Spent
<1>4. QED
  BY <1>1, <1>2, <1>3, TakeOnlyEffect

\* What the peer does next depends on what DoRequest expects.
LEMMA Turns ==
  ASSUME NEW e \in End, NEW p \in End, p # e
  PROVE  /\ AfterGet(p, LastOf(sent[e])) \in {"put", "get"} /\ AfterPut(e) \in {"put", "get"}
         /\ AfterGet(p, LastOf(sent[e])) # AfterPut(e)
BY EndFacts DEF AfterGet, AfterPut

\* RemoteGet has the block that the peer waits with.
LEMMA AcceptEffect ==
  ASSUME TypeInv, NEW e \in End, NEW p \in End, p # e, Accept(p), Lacks(e, p),
         chan[p] # <<>>, Head(chan[p]) = Blk(e)
  PROVE  /\ pc[p] = "recv"
         /\ pc'[p] = IF prevErrors[e] > MaxErrors THEN "resyncGet" ELSE "app"
         /\ app'[p] # AfterPut(e) /\ app'[p] \in {"put", "get"}
         /\ pc'[e] = pc[e] /\ app'[e] = app[e]
         /\ Has(e, p)' /\ (Has(p, e)' <=> Has(p, e))
         /\ AfterPut(e)' = AfterPut(e) /\ prevErrors'[e] = prevErrors[e]
         /\ Spent' <=> Spent
         /\ Leaves(p, e, Tail(chan[p]), chan[e] \o <<ACK>>)
<1>1. /\ pc[p] = "recv" /\ TakeAndSend(p, <<ACK>>)
      /\ got' = [got EXCEPT ![p] = Append(@, LastOf(sent[e]))]
      /\ pc'[p] = IF prevErrors[e] > MaxErrors THEN "resyncGet" ELSE "app"
      /\ app'[p] = AfterGet(p, LastOf(sent[e]))
      /\ pc'[e] = pc[e] /\ app'[e] = app[e]
      /\ recvNo'[p] = Inc(recvNo[p]) /\ recvNo'[e] = recvNo[e]
      /\ UNCHANGED <<sendNo, prevErrors, sent, faults>>
  BY Kinds DEF Accept, TypeInv, TypeOK
<1>2. got'[p] = sent[e] /\ got'[e] = got[e]
  BY <1>1 DEF Lacks, OneShort, TypeInv, TypeOK
<1>3. Has(e, p)' /\ (Has(p, e)' <=> Has(p, e))
  <2>1. Waiting(e)' /\ ~Waiting(p) /\ ~Waiting(p)'
    BY <1>1 DEF Lacks, Waiting
  <2>2. QED
    BY <1>1, <1>2, <2>1 DEF Has, Lacks
<1>4. AfterPut(e)' = AfterPut(e) /\ (Spent' <=> Spent)
  BY <1>1 DEF AfterPut, Spent
<1>5. QED
  BY <1>1, <1>3, <1>4, Turns, TakeEffect

\* A step of e, outside ReSync, or of the line to it.
Acts(e) == StartPut(e) \/ StartGet(e) \/ Sending(e) \/ Receiving(e) \/ Fault(e)

\* A step is one of the two ends, or of ReSync.
LEMMA NextActs ==
  ASSUME NEW e \in End, NEW p \in End, p # e, Next
  PROVE  Acts(e) \/ Acts(p) \/ Resync
BY EndFacts DEF Next, Acts

\* ReSync has no step while no end is in it.
LEMMA NoResync ==
  ASSUME NEW e \in End, NEW p \in End, p # e, ~InResync(e), ~InResync(p)
  PROVE  ~Resync
BY EndFacts DEF Resync, ResyncBoth, ResyncHalf, ResyncHi, ResyncDrop

\* Where an end stands decides what it can do next.
LEMMA Chances ==
  ASSUME Civil, NEW e \in End, Acts(e)
  PROVE  /\ Puts(e) => StartPut(e) \/ Fault(e)
         /\ Listens(e) => StartGet(e) \/ Receiving(e) \/ Fault(e)
         /\ pc[e] = "ackwait" => RecvAck(e) \/ RecvNak(e) \/ RecvRlr(e) \/ RecvOther(e)
                                 \/ Timeout(e) \/ Fault(e)
         /\ pc[e] = "drain" => DrainByte(e) \/ DrainEnds(e) \/ Fault(e)
         /\ InResync(e) => Fault(e)
<1>1. Puts(e) => StartPut(e) \/ Fault(e)
  BY DEF Civil, Acts, Puts, StartGet, Sending, Receiving, RecvAck, RecvNak, RecvRlr, RecvOther,
     DrainByte, DrainEnds, Timeout, PutFails, Accept, Repeated, Damaged, AnswerRlr, Ignore
<1>2. Listens(e) => StartGet(e) \/ Receiving(e) \/ Fault(e)
  BY DEF Civil, Acts, Listens, StartPut, Sending, RecvAck, RecvNak, RecvRlr, RecvOther,
     DrainByte, DrainEnds, Timeout, PutFails
<1>3. pc[e] = "ackwait" => RecvAck(e) \/ RecvNak(e) \/ RecvRlr(e) \/ RecvOther(e)
                           \/ Timeout(e) \/ Fault(e)
  BY DEF Civil, Acts, StartPut, StartGet, Sending, Receiving,
     DrainByte, DrainEnds, PutFails, Accept, Repeated, Damaged, AnswerRlr, Ignore
<1>4. pc[e] = "drain" => DrainByte(e) \/ DrainEnds(e) \/ Fault(e)
  BY DEF Civil, Acts, StartPut, StartGet, Sending, Receiving, RecvAck, RecvNak, RecvRlr, RecvOther,
     Timeout, PutFails, Accept, Repeated, Damaged, AnswerRlr, Ignore
<1>5. InResync(e) => Fault(e)
  BY DEF Civil, Acts, InResync, StartPut, StartGet, Sending, Receiving, RecvAck, RecvNak, RecvRlr,
     RecvOther, DrainByte, DrainEnds, Timeout, PutFails, Accept, Repeated, Damaged, AnswerRlr, Ignore
<1>6. QED
  BY <1>1, <1>2, <1>3, <1>4, <1>5

\* Nothing is done with an empty line.
LEMMA Silence ==
  ASSUME NEW e \in End, chan[e] = <<>>
  PROVE  /\ ~Fault(e) /\ ~Receiving(e) /\ ~DrainByte(e)
         /\ ~RecvAck(e) /\ ~RecvNak(e) /\ ~RecvRlr(e) /\ ~RecvOther(e)
BY DEF Head1, Fault, Receiving, DrainByte, RecvAck, RecvNak, RecvRlr, RecvOther,
   Accept, Repeated, Damaged, AnswerRlr, Ignore

\* What an end that listens does with what comes in.
LEMMA Hears ==
  ASSUME NEW e \in End, Receiving(e), chan[e] # <<>>
  PROVE  /\ Head(chan[e]).t = "BLK" /\ Head(chan[e]).no = recvNo[e] => Accept(e)
         /\ Head(chan[e]).t = "BLK" /\ Head(chan[e]).no # recvNo[e] => Repeated(e)
         /\ Head(chan[e]).t \in {"BAD", "RLR"} => Damaged(e) \/ AnswerRlr(e)
         /\ Head(chan[e]).t \in {"ACK", "NAK", "JUNK"} => Ignore(e)
BY DEF Head1, Receiving, Accept, Repeated, Damaged, AnswerRlr, Ignore, IsNext

\* A phase of the two ends in either order is a phase.
LEMMA PhaseIn ==
  \A e, p \in End : p # e /\ Phase(e, p)' => InPhase'
BY DEF InPhase

\* u puts its packet, or w begins to wait for it.
LEMMA TurnNext ==
  ASSUME TypeInv, Civil, NEW e \in End, NEW p \in End, p # e, Turn(e, p), Next
  PROVE  InPhase'
<1>1. /\ Puts(e) /\ Listens(p) /\ Has(e, p) /\ Has(p, e) /\ chan[e] = <<>> /\ chan[p] = <<>>
      /\ pc[p] \in {"recv", "app"} /\ ~InResync(e) /\ ~InResync(p) /\ ~Waiting(p)
  BY DEF Turn, Puts, Listens, InResync, Waiting
<1>2. StartPut(e) \/ StartGet(p)
  BY <1>1, NextActs, NoResync, Chances, Silence
<1>3. CASE StartPut(e)
  <2>1. /\ pc'[p] = pc[p] /\ app'[p] = app[p] /\ Lacks(e, p)' /\ Has(p, e)'
        /\ Leaves(e, p, <<>>, <<Blk(e)'>>)
    <3>1. PICK c \in Cleared(chan[e]) : Leaves(e, p, c, Append(chan[p], Blk(e)'))
      BY <1>3, PutEffect
    <3>2. c = <<>> /\ Append(chan[p], Blk(e)') = <<Blk(e)'>>
      BY <1>1, <3>1, ClearedEmpty, Single
    <3>3. QED
      BY <1>1, <1>3, <3>1, <3>2, PutEffect
  <2>2. Listens(p)'
    BY <1>1, <2>1 DEF Listens
  <2>3. Offered(e, p)'
    BY <2>1, <2>2 DEF Offered, Leaves
  <2>4. QED
    BY <2>3, PhaseIn DEF Phase
<1>4. CASE StartGet(p)
  <2>1. Moves(p, e, "recv") /\ Leaves(p, e, <<>>, <<>>)
    BY <1>1, <1>4, GetEffect
  <2>2. Puts(e)' /\ Listens(p)' /\ Has(e, p)' /\ Has(p, e)'
    BY <1>1, <2>1, MovesFacts DEF Listens
  <2>3. Turn(e, p)'
    BY <2>1, <2>2 DEF Turn, Leaves
  <2>4. QED
    BY <2>3, PhaseIn DEF Phase
<1>5. QED
  BY <1>2, <1>3, <1>4

\* e has put its block.
LEMMA OfferedNext ==
  ASSUME TypeInv, Civil, Distinct, NEW e \in End, NEW p \in End, p # e, Offered(e, p), Next
  PROVE  InPhase'
<1>1. /\ Lacks(e, p) /\ Listens(p) /\ Has(p, e) /\ pc[e] = "ackwait" /\ Waiting(e)
      /\ pc[p] \in {"recv", "app"} /\ ~Puts(p) /\ ~InResync(e) /\ ~InResync(p) /\ ~Waiting(p)
  BY DEF Offered, Lacks, Listens, Puts, InResync, Waiting
<1>2. /\ chan[e] = <<>> \/ (Spent /\ chan[e] = <<NAK>> /\ chan[p] = <<>>)
      /\ chan[p] = <<>> => Spent
      /\ chan[p] # <<>> =>
           \/ Head(chan[p]) = Blk(e) /\ Tail(chan[p]) = <<>>
           \/ Spent /\ Tail(chan[p]) = <<>> /\ Head(chan[p]).t \in {"JUNK", "BAD", "RLR"}
  BY Kinds, Single DEF Offered
<1>3. Acts(e) \/ Acts(p)
  BY <1>1, NextActs, NoResync
<1> DEFINE Bare == /\ Lacks(e, p) /\ Listens(p) /\ Has(p, e)
<1>4. CASE Timeout(e)
  <2>1. Quiet(e) /\ chan[e] = <<>> /\ Moves(e, p, "ackwait") /\ (Spent' <=> Spent)
        /\ Leaves(e, p, <<>>, Append(chan[p], RLR))
    BY <1>4, AskEffect
  <2>2. chan[p] = <<>>
    BY <1>1, <2>1, EndFacts DEF Quiet, Civil, Puts
  <2>3. Bare' /\ Spent' /\ Leaves(e, p, <<>>, <<RLR>>)
    BY <1>1, <1>2, <2>1, <2>2, MovesFacts, Single
  <2>4. Offered(e, p)'
    BY <2>3 DEF Offered, Leaves
  <2>5. QED
    BY <2>4, PhaseIn DEF Phase
<1>5. CASE RecvNak(e)
  <2>1. /\ Moves(e, p, "ackwait") /\ chan[e] = <<NAK>> /\ chan[p] = <<>>
        /\ Leaves(e, p, Tail(chan[e]), chan[p] \o <<Blk(e)>>)
    BY <1>2, <1>5, NakEffect
  <2>2. Bare' /\ Blk(e)' = Blk(e) /\ Leaves(e, p, <<>>, <<Blk(e)>>)
    BY <1>1, <2>1, MovesFacts, Single
  <2>3. Offered(e, p)'
    BY <2>2 DEF Offered, Leaves
  <2>4. QED
    BY <2>3, PhaseIn DEF Phase
<1>6. CASE StartGet(p)
  <2>1. Moves(p, e, "recv") /\ (Spent' <=> Spent) /\ Leaves(p, e, chan[p], chan[e])
    BY <1>6, GetEffect
  <2>2. Lacks(e, p)' /\ Has(p, e)' /\ Listens(p)' /\ Blk(e)' = Blk(e)
    BY <1>1, <2>1, MovesFacts DEF Listens
  <2>3. Offered(e, p)'
    BY <2>1, <2>2 DEF Offered, Leaves
  <2>4. QED
    BY <2>3, PhaseIn DEF Phase
<1>7. CASE Fault(p)
  <2>1. /\ ~Spent /\ Spent' /\ Moves(p, e, pc[p]) /\ chan[p] # <<>>
        /\ \/ Leaves(p, e, Tail(chan[p]), chan[e])
           \/ Leaves(p, e, <<JUNK>> \o Tail(chan[p]), chan[e])
           \/ Leaves(p, e, <<BAD>> \o Tail(chan[p]), chan[e])
    BY <1>7, FaultEffect
  <2>2. chan[e] = <<>> /\ Tail(chan[p]) = <<>>
    BY <1>2, <2>1
  <2>3. Lacks(e, p)' /\ Has(p, e)' /\ (Listens(p)' <=> Listens(p))
    BY <1>1, <2>1, MovesFacts DEF Listens, Moves
  <2>4. Leaves(p, e, <<>>, <<>>) \/ Leaves(p, e, <<JUNK>>, <<>>) \/ Leaves(p, e, <<BAD>>, <<>>)
    BY <2>1, <2>2, Single
  <2>5. Offered(e, p)'
    BY <1>1, <2>1, <2>3, <2>4 DEF Offered, Leaves
  <2>6. QED
    BY <2>5, PhaseIn DEF Phase
<1>8. CASE Receiving(p)
  <2>1. chan[p] # <<>> /\ chan[e] = <<>> /\ Tail(chan[p]) = <<>>
    BY <1>2, <1>8, Silence
  <2>2. CASE Head(chan[p]) = Blk(e)
    <3>1. Accept(p)
      <4>1. Head(chan[p]).t = "BLK" /\ Head(chan[p]).no = WireNo(sendNo[e])
        BY <2>2, Kinds
      <4>2. recvNo[p] = sendNo[e] /\ WireNo(sendNo[e]) = sendNo[e]
        BY <1>1 DEF Lacks, Distinct
      <4>3. QED
        BY <1>8, <2>1, <4>1, <4>2, Hears
    <3>2. /\ pc'[p] = IF prevErrors[e] > MaxErrors THEN "resyncGet" ELSE "app"
          /\ app'[p] # AfterPut(e) /\ app'[p] \in {"put", "get"} /\ AfterPut(e) \in {"put", "get"}
          /\ pc'[e] = "ackwait" /\ Has(e, p)' /\ Has(p, e)'
          /\ AfterPut(e)' = AfterPut(e) /\ prevErrors'[e] = prevErrors[e]
          /\ Leaves(p, e, <<>>, <<ACK>>)
      <4>1. Leaves(p, e, Tail(chan[p]), chan[e] \o <<ACK>>)
        BY <1>1, <2>1, <2>2, <3>1, AcceptEffect
      <4>2. Leaves(p, e, <<>>, <<ACK>>)
        BY <2>1, <4>1, Single
      <4>3. QED
        BY <1>1, <2>1, <2>2, <3>1, <4>2, AcceptEffect, Turns
    <3>3. Waiting(e)' /\ prevErrors[e] \in Nat /\ MaxErrors \in Nat
      BY <3>2, ErrorsAssumption DEF Waiting, TypeInv, TypeOK, ErrCount
    <3>4. CASE prevErrors[e] > MaxErrors
      <4>1. Joined(e, p)'
        BY <3>2, <3>3, <3>4 DEF Joined, Leaves
      <4>2. QED
        BY <4>1, PhaseIn DEF Phase
    <3>5. CASE prevErrors[e] <= MaxErrors /\ app'[p] = "put"
      <4>1. Prepared(e, p)'
        BY <3>2, <3>3, <3>5 DEF Prepared, Leaves, Puts
      <4>2. QED
        BY <4>1, PhaseIn DEF Phase
    <3>6. CASE prevErrors[e] <= MaxErrors /\ app'[p] = "get"
      <4>1. Taken(e, p)'
        BY <3>2, <3>3, <3>6 DEF Taken, Leaves, Listens
      <4>2. QED
        BY <4>1, PhaseIn DEF Phase
    <3>7. QED
      BY <3>2, <3>3, <3>4, <3>5, <3>6
  <2>3. CASE Spent /\ Head(chan[p]).t \in {"BAD", "RLR"}
    <3>1. Damaged(p) \/ AnswerRlr(p)
      BY <1>8, <2>1, <2>3, Hears
    <3>2. Moves(p, e, "recv") /\ (Spent' <=> Spent) /\ Leaves(p, e, <<>>, <<NAK>>)
      BY <2>1, <3>1, NakAnswerEffect, Single
    <3>3. Lacks(e, p)' /\ Has(p, e)' /\ Listens(p)'
      BY <1>1, <3>2, MovesFacts DEF Listens
    <3>4. Offered(e, p)'
      BY <2>3, <3>2, <3>3 DEF Offered, Leaves
    <3>5. QED
      BY <3>4, PhaseIn DEF Phase
  <2>4. CASE Spent /\ Head(chan[p]).t = "JUNK"
    <3>1. Ignore(p)
      BY <1>8, <2>1, <2>4, Hears
    <3>2. Moves(p, e, "recv") /\ (Spent' <=> Spent) /\ Leaves(p, e, <<>>, <<>>)
      BY <2>1, <3>1, IgnoreEffect
    <3>3. Lacks(e, p)' /\ Has(p, e)' /\ Listens(p)'
      BY <1>1, <3>2, MovesFacts DEF Listens
    <3>4. Offered(e, p)'
      BY <2>4, <3>2, <3>3 DEF Offered, Leaves
    <3>5. QED
      BY <3>4, PhaseIn DEF Phase
  <2>5. QED
    BY <1>2, <2>1, <2>2, <2>3, <2>4
<1>9. ~RecvAck(e) /\ ~RecvRlr(e) /\ ~RecvOther(e) /\ ~Fault(e)
  <2>1. CASE chan[e] = <<>>
    BY <2>1, Silence
  <2>2. CASE Spent /\ chan[e] = <<NAK>>
    <3>1. Head(chan[e]).t = "NAK"
      BY <2>2, Kinds, Single
    <3>2. ~Fault(e)
      BY <2>2, EndFacts, FaultEffect
    <3>3. QED
      BY <3>1, <3>2, AckEffect, RlrEffect, OtherEffect, <1>1
  <2>3. QED
    BY <1>2, <2>1, <2>2
<1>10. QED
  BY <1>1, <1>3, <1>4, <1>5, <1>6, <1>7, <1>8, <1>9, Chances

\* p has the packet, and will put no other before e knows.
LEMMA TakenNext ==
  ASSUME TypeInv, Civil, Distinct, NEW e \in End, NEW p \in End, p # e, Taken(e, p), Next
  PROVE  InPhase'
<1> DEFINE Bare == /\ Listens(p) /\ Has(e, p) /\ Has(p, e)
                   /\ AfterPut(e) = "put" /\ prevErrors[e] <= MaxErrors
<1>1. /\ Bare /\ Waiting(e)
      /\ pc[p] \in {"recv", "app"} /\ ~Puts(p) /\ ~InResync(e) /\ ~InResync(p) /\ ~Waiting(p)
  BY DEF Taken, Listens, Puts, InResync, Waiting
<1>2. Acts(e) \/ Acts(p)
  BY <1>1, NextActs, NoResync
<1>3. /\ chan[e] # <<>> => pc[e] = "ackwait" /\ chan[p] = <<>> /\ Tail(chan[e]) = <<>>
                           /\ \E t \in {ACK, NAK, JUNK} : Head(chan[e]) = t /\ (t # ACK => Spent)
      /\ chan[e] = <<>> => Spent
      /\ chan[p] # <<>> => pc[e] = "ackwait" /\ Spent /\ Tail(chan[p]) = <<>>
                           /\ \E t \in {RLR, Blk(e)} : Head(chan[p]) = t
  BY Single DEF Taken
<1>4. CASE DrainEnds(e) \/ Timeout(e)
  <2>1. Quiet(e) /\ chan[e] = <<>> /\ Moves(e, p, "ackwait") /\ (Spent' <=> Spent)
        /\ Leaves(e, p, <<>>, Append(chan[p], RLR))
    BY <1>4, AskEffect
  <2>2. chan[p] = <<>>
    BY <1>1, <2>1, EndFacts DEF Quiet, Civil, Puts
  <2>3. Bare' /\ Waiting(e)' /\ Spent' /\ pc'[e] = "ackwait" /\ Leaves(e, p, <<>>, <<RLR>>)
    BY <1>1, <1>3, <2>1, <2>2, MovesFacts, Single
  <2>4. Taken(e, p)'
    BY <2>3 DEF Taken, Leaves
  <2>5. QED
    BY <2>4, PhaseIn DEF Phase
<1>5. CASE RecvAck(e)
  <2>1. /\ pc'[e] = "app" /\ app'[e] = "put" /\ pc'[p] = pc[p] /\ app'[p] = app[p]
        /\ Has(e, p)' /\ Has(p, e)' /\ Leaves(e, p, <<>>, chan[p]) /\ chan[p] = <<>>
    <3>1. prevErrors[e] \in Nat /\ MaxErrors \in Nat
      BY ErrorsAssumption DEF TypeInv, TypeOK, ErrCount
    <3>2. /\ chan[e] # <<>> /\ Leaves(e, p, Tail(chan[e]), chan[p]) /\ Has(e, p)' /\ Has(p, e)'
          /\ pc'[e] = IF prevErrors[e] > MaxErrors THEN "resyncPut" ELSE "app"
          /\ app'[e] = AfterPut(e) /\ pc'[p] = pc[p] /\ app'[p] = app[p]
      BY <1>1, <1>5, AckEffect
    <3>3. ~(prevErrors[e] > MaxErrors)
      BY <1>1, <3>1
    <3>4. QED
      BY <1>1, <1>3, <3>2, <3>3
  <2>2. Turn(e, p)'
    BY <1>1, <2>1 DEF Turn, Leaves, Puts, Listens
  <2>3. QED
    BY <2>2, PhaseIn DEF Phase
<1>6. CASE RecvNak(e)
  <2>1. /\ Moves(e, p, "ackwait") /\ (Spent' <=> Spent) /\ Head(chan[e]).t = "NAK" /\ chan[e] # <<>>
        /\ Leaves(e, p, Tail(chan[e]), chan[p] \o <<Blk(e)>>)
    BY <1>6, NakEffect
  <2>2. Spent /\ Leaves(e, p, <<>>, <<Blk(e)>>)
    BY <1>3, <2>1, Kinds, Single
  <2>3. Bare' /\ Waiting(e)' /\ Spent' /\ pc'[e] = "ackwait" /\ Blk(e)' = Blk(e)
    BY <1>1, <2>1, <2>2, MovesFacts
  <2>4. Taken(e, p)'
    BY <2>2, <2>3 DEF Taken, Leaves
  <2>5. QED
    BY <2>4, PhaseIn DEF Phase
<1>7. CASE RecvOther(e) \/ DrainByte(e)
  <2>1. /\ Moves(e, p, "drain") /\ (Spent' <=> Spent) /\ chan[e] # <<>>
        /\ (pc[e] = "ackwait" => Head(chan[e]).t \in {"BLK", "BAD", "JUNK"})
        /\ Leaves(e, p, Tail(chan[e]), chan[p])
    BY <1>7, OtherEffect
  <2>2. Spent /\ Leaves(e, p, <<>>, <<>>)
    BY <1>3, <2>1, Kinds
  <2>3. Bare' /\ Waiting(e)' /\ Spent'
    BY <1>1, <2>1, <2>2, MovesFacts
  <2>4. Taken(e, p)'
    BY <2>2, <2>3 DEF Taken, Leaves
  <2>5. QED
    BY <2>4, PhaseIn DEF Phase
<1>8. CASE Fault(e)
  <2>1. /\ ~Spent /\ Spent' /\ Moves(e, p, pc[e]) /\ chan[e] # <<>>
        /\ \/ Leaves(e, p, Tail(chan[e]), chan[p])
           \/ Leaves(e, p, <<JUNK>> \o Tail(chan[e]), chan[p])
           \/ Head(chan[e]).t = "BLK"
    BY <1>8, FaultEffect
  <2>2. pc[e] = "ackwait" /\ Head(chan[e]).t = "ACK" /\ chan[p] = <<>> /\ Tail(chan[e]) = <<>>
    BY <1>3, <2>1, Kinds
  <2>3. Leaves(e, p, <<>>, <<>>) \/ Leaves(e, p, <<JUNK>>, <<>>)
    BY <2>1, <2>2, Single
  <2>4. Bare' /\ Waiting(e)' /\ pc'[e] = "ackwait"
    BY <1>1, <2>1, <2>2, MovesFacts
  <2>5. Taken(e, p)'
    BY <2>1, <2>3, <2>4 DEF Taken, Leaves
  <2>6. QED
    BY <2>5, PhaseIn DEF Phase
<1>9. CASE StartGet(p)
  <2>1. Moves(p, e, "recv") /\ (Spent' <=> Spent) /\ Leaves(p, e, chan[p], chan[e])
    BY <1>9, GetEffect
  <2>2. Bare' /\ Waiting(e)' /\ pc'[e] = pc[e] /\ Blk(e)' = Blk(e)
    BY <1>1, <2>1, MovesFacts DEF Listens
  <2>3. Taken(e, p)'
    BY <2>1, <2>2 DEF Taken, Leaves
  <2>4. QED
    BY <2>3, PhaseIn DEF Phase
<1>10. CASE Receiving(p)
  <2>1. /\ chan[p] # <<>> /\ chan[e] = <<>> /\ Tail(chan[p]) = <<>> /\ pc[e] = "ackwait" /\ Spent
        /\ Head(chan[p]) = RLR \/ Head(chan[p]) = Blk(e)
    <3>1. chan[p] # <<>>
      BY <1>10, Silence
    <3>2. QED
      BY <1>3, <3>1
  <2>2. CASE Head(chan[p]) = RLR
    <3>1. Moves(p, e, "recv") /\ (Spent' <=> Spent) /\ Leaves(p, e, <<>>, <<NAK>>)
      BY <1>10, <2>1, <2>2, Kinds, Hears, NakAnswerEffect, Single
    <3>2. Bare' /\ Waiting(e)' /\ pc'[e] = "ackwait"
      BY <1>1, <2>1, <3>1, MovesFacts DEF Listens
    <3>3. Taken(e, p)'
      BY <2>1, <3>1, <3>2 DEF Taken, Leaves
    <3>4. QED
      BY <3>3, PhaseIn DEF Phase
  <2>3. CASE Head(chan[p]) = Blk(e)
    <3>1. Head(chan[p]).t = "BLK" /\ Head(chan[p]).no = WireNo(sendNo[e])
      BY <2>3, Kinds
    <3>2. WireNo(sendNo[e]) = sendNo[e] /\ recvNo[p] = Inc(sendNo[e]) /\ Inc(sendNo[e]) # sendNo[e]
      BY <1>1 DEF Has, Distinct
    <3>3. Repeated(p)
      BY <1>10, <2>1, <3>1, <3>2, Hears
    <3>4. Moves(p, e, "recv") /\ (Spent' <=> Spent) /\ Leaves(p, e, <<>>, <<ACK>>)
      BY <2>1, <3>3, RepeatedEffect, ClearedEmpty, Single
    <3>5. Bare' /\ Waiting(e)' /\ pc'[e] = "ackwait"
      BY <1>1, <2>1, <3>4, MovesFacts DEF Listens
    <3>6. Taken(e, p)'
      BY <2>1, <3>4, <3>5 DEF Taken, Leaves
    <3>7. QED
      BY <3>6, PhaseIn DEF Phase
  <2>4. QED
    BY <2>1, <2>2, <2>3
<1>11. ~RecvRlr(e) /\ ~Fault(p)
  <2>1. ~RecvRlr(e)
    <3>1. SUFFICES ASSUME RecvRlr(e) PROVE FALSE
      OBVIOUS
    <3>2. chan[e] # <<>> /\ Head(chan[e]).t = "RLR"
      BY <3>1, RlrEffect
    <3>3. QED
      BY <1>3, <3>2, Kinds
  <2>2. ~Fault(p)
    BY <1>3, FaultEffect
  <2>3. QED
    BY <2>1, <2>2
<1>12. pc[e] = "ackwait" \/ pc[e] = "drain"
  BY <1>1 DEF Waiting
<1>13. QED
  BY <1>1, <1>2, <1>4, <1>5, <1>6, <1>7, <1>8, <1>9, <1>10, <1>11, <1>12, Chances

\* Channels of known tokens.
LEMMA Known ==
  ASSUME NEW S, NEW c \in Seq(S), NEW a \in S, NEW b \in S
  PROVE  /\ <<>> \in Seq(S) /\ <<a>> \in Seq(S) /\ <<a, b>> \in Seq(S)
         /\ Append(c, a) \in Seq(S) /\ c \o <<a, b>> \in Seq(S)
         /\ c # <<>> => /\ Head(c) \in S /\ Tail(c) \in Seq(S)
                        /\ c \o <<a, b>> # <<>> /\ Head(c \o <<a, b>>) = Head(c)
<1>1. <<>> \in Seq(S) /\ <<a>> \in Seq(S) /\ <<a, b>> \in Seq(S)
  OBVIOUS
<1>2. Append(c, a) \in Seq(S)
  BY AppendProperties
<1>3. c \o <<a, b>> \in Seq(S)
  BY <1>1, ConcatProperties
<1>4. ASSUME c # <<>>
      PROVE  /\ Head(c) \in S /\ Tail(c) \in Seq(S)
             /\ c \o <<a, b>> # <<>> /\ Head(c \o <<a, b>>) = Head(c)
  <2>1. Head(c) \in S /\ Tail(c) \in Seq(S) /\ Len(c) \in Nat /\ Len(c) > 0
    BY <1>4, HeadTailProperties, EmptySeq, LenProperties
  <2>2. /\ Len(<<a, b>>) = 2 /\ Len(c \o <<a, b>>) = Len(c) + 2
        /\ (c \o <<a, b>>)[1] = c[1]
    BY <1>1, <2>1, ConcatProperties
  <2>3. QED
    BY <1>3, <2>1, <2>2, HeadTailProperties, EmptySeq
<1>5. QED
  BY <1>1, <1>2, <1>3, <1>4

\* A token after another.
LEMMA Pairs ==
  ASSUME NEW a, NEW b
  PROVE  Append(<<a>>, b) = <<a, b>>
<1>1. <<a>> \in Seq({a, b}) /\ Len(<<a>>) = 1 /\ <<a>>[1] = a
  OBVIOUS
<1>2. <<a, b>> \in Seq({a, b}) /\ Len(<<a, b>>) = 2 /\ <<a, b>>[1] = a /\ <<a, b>>[2] = b
  OBVIOUS
<1>3. /\ Append(<<a>>, b) \in Seq({a, b}) /\ Len(Append(<<a>>, b)) = 2
      /\ Append(<<a>>, b)[1] = a /\ Append(<<a>>, b)[2] = b
  BY <1>1, AppendProperties
<1>4. \A i \in 1 .. 2 : i = 1 \/ i = 2
  OBVIOUS
<1>5. QED
  BY <1>2, <1>3, <1>4, SeqEqual

\* p has the packet, and puts its answer before or after e knows.
LEMMA PreparedNext ==
  ASSUME TypeInv, Civil, NEW e \in End, NEW p \in End, p # e, Prepared(e, p), Next
  PROVE  InPhase'
<1> DEFINE Bare == /\ Puts(p) /\ Has(e, p) /\ Has(p, e)
                   /\ AfterPut(e) = "get" /\ prevErrors[e] <= MaxErrors
<1>1. /\ Bare /\ Waiting(e)
      /\ pc[p] = "app" /\ ~InResync(e) /\ ~InResync(p) /\ ~Waiting(p)
  BY DEF Prepared, Puts, InResync, Waiting
<1>2. Acts(e) \/ Acts(p)
  BY <1>1, NextActs, NoResync
<1>3. <<>> \in Seq({RLR})
  BY EmptySeq
<1>4. /\ chan[e] # <<>> => pc[e] = "ackwait" /\ Tail(chan[e]) = <<>>
                           /\ \/ Head(chan[e]) = ACK /\ chan[p] = <<>>
                              \/ Spent /\ Head(chan[e]) = JUNK
      /\ chan[e] = <<>> => Spent
      /\ chan[p] # <<>> => Spent
      /\ chan[p] \in Seq({RLR})
  BY <1>3, Single DEF Prepared
<1>5. CASE DrainEnds(e) \/ Timeout(e)
  <2>1. Quiet(e) /\ chan[e] = <<>> /\ Moves(e, p, "ackwait") /\ (Spent' <=> Spent)
        /\ Leaves(e, p, <<>>, Append(chan[p], RLR))
    BY <1>5, AskEffect
  <2>2. Append(chan[p], RLR) \in Seq({RLR})
    BY <1>4, Known
  <2>3. Bare' /\ Waiting(e)' /\ Spent' /\ pc'[e] = "ackwait"
    BY <1>1, <1>4, <2>1, MovesFacts
  <2>4. Prepared(e, p)'
    BY <2>1, <2>2, <2>3 DEF Prepared, Leaves
  <2>5. QED
    BY <2>4, PhaseIn DEF Phase
<1>6. CASE RecvAck(e)
  <2>1. /\ chan[e] # <<>> /\ Leaves(e, p, Tail(chan[e]), chan[p]) /\ Has(e, p)' /\ Has(p, e)'
        /\ pc'[e] = IF prevErrors[e] > MaxErrors THEN "resyncPut" ELSE "app"
        /\ app'[e] = AfterPut(e) /\ pc'[p] = pc[p] /\ app'[p] = app[p]
        /\ Head(chan[e]).t = "ACK"
    BY <1>1, <1>6, AckEffect
  <2>2. ~(prevErrors[e] > MaxErrors)
    <3>1. prevErrors[e] \in Nat /\ MaxErrors \in Nat
      BY ErrorsAssumption DEF TypeInv, TypeOK, ErrCount
    <3>2. QED
      BY <1>1, <3>1
  <2>3. chan[p] = <<>> /\ Tail(chan[e]) = <<>>
    BY <1>4, <2>1, Kinds
  <2>4. Turn(p, e)'
    BY <1>1, <2>1, <2>2, <2>3 DEF Turn, Leaves, Puts, Listens
  <2>5. QED
    BY <2>4, PhaseIn DEF Phase
<1>7. CASE RecvOther(e) \/ DrainByte(e)
  <2>1. /\ Moves(e, p, "drain") /\ (Spent' <=> Spent) /\ chan[e] # <<>>
        /\ (pc[e] = "ackwait" => Head(chan[e]).t \in {"BLK", "BAD", "JUNK"})
        /\ Leaves(e, p, Tail(chan[e]), chan[p])
    BY <1>7, OtherEffect
  <2>2. Spent /\ Leaves(e, p, <<>>, chan[p])
    BY <1>4, <2>1, Kinds
  <2>3. Bare' /\ Waiting(e)' /\ Spent'
    BY <1>1, <2>1, <2>2, MovesFacts
  <2>4. Prepared(e, p)'
    BY <1>4, <2>2, <2>3 DEF Prepared, Leaves
  <2>5. QED
    BY <2>4, PhaseIn DEF Phase
<1>8. CASE Fault(e)
  <2>1. /\ ~Spent /\ Spent' /\ Moves(e, p, pc[e]) /\ chan[e] # <<>>
        /\ \/ Leaves(e, p, Tail(chan[e]), chan[p])
           \/ Leaves(e, p, <<JUNK>> \o Tail(chan[e]), chan[p])
           \/ Head(chan[e]).t = "BLK"
    BY <1>8, FaultEffect
  <2>2. pc[e] = "ackwait" /\ Head(chan[e]).t = "ACK" /\ chan[p] = <<>> /\ Tail(chan[e]) = <<>>
    BY <1>4, <2>1, Kinds
  <2>3. Leaves(e, p, <<>>, <<>>) \/ Leaves(e, p, <<JUNK>>, <<>>)
    BY <2>1, <2>2, Single
  <2>4. Bare' /\ Waiting(e)' /\ pc'[e] = "ackwait"
    BY <1>1, <2>1, <2>2, MovesFacts
  <2>5. Prepared(e, p)'
    BY <1>3, <2>1, <2>3, <2>4 DEF Prepared, Leaves
  <2>6. QED
    BY <2>5, PhaseIn DEF Phase
<1>9. CASE StartPut(p)
  <2>1. /\ (Spent' <=> Spent) /\ pc'[p] = "ackwait" /\ pc'[e] = pc[e]
        /\ Lacks(p, e)' /\ Has(e, p)' /\ AfterPut(e)' = AfterPut(e) /\ prevErrors'[e] = prevErrors[e]
    BY <1>1, <1>9, PutEffect
  <2>2. PICK c \in Cleared(chan[p]) : Leaves(p, e, c, Append(chan[e], Blk(p)'))
    BY <1>9, PutEffect
  <2>3. Waiting(e)' /\ AfterPut(e)' = "get" /\ (prevErrors[e] <= MaxErrors)'
    BY <1>1, <2>1 DEF Waiting
  <2>4. c \in Seq({RLR}) /\ (chan[p] = <<>> => c = <<>>)
    BY <1>4, <2>2, ClearedRlr, ClearedEmpty
  <2>5. CASE chan[e] = <<ACK>> /\ chan[p] = <<>> /\ pc[e] = "ackwait"
    <3>1. Leaves(p, e, <<>>, <<ACK, Blk(p)'>>)
      BY <2>2, <2>4, <2>5, Pairs
    <3>2. Crossed(e, p)'
      BY <2>1, <2>3, <2>5, <3>1 DEF Crossed, Leaves
    <3>3. QED
      BY <3>2, PhaseIn DEF Phase
  <2>6. CASE Spent /\ (chan[e] = <<>> \/ chan[e] = <<JUNK>>)
    <3>1. Leaves(p, e, c, <<Blk(p)'>>) \/ Leaves(p, e, c, <<JUNK, Blk(p)'>>)
      BY <2>2, <2>6, Single, Pairs
    <3>2. /\ chan'[e] \in Seq({ACK, JUNK, Blk(p)'}) /\ chan'[e] # <<>>
          /\ Head(chan'[e]) \in {JUNK, Blk(p)'}
      <4>1. CASE Leaves(p, e, c, <<Blk(p)'>>)
        <5>1. chan'[e] = <<Blk(p)'>>
          BY <4>1 DEF Leaves
        <5>2. QED
          BY <5>1, Single
      <4>2. CASE Leaves(p, e, c, <<JUNK, Blk(p)'>>)
        <5>1. chan'[e] = <<JUNK, Blk(p)'>>
          BY <4>2 DEF Leaves
        <5>2. QED
          BY <5>1, Double
      <4>3. QED
        BY <3>1, <4>1, <4>2
    <3>3. Head(chan'[e]) # ACK
      <4>1. Blk(p)'.t = "BLK"
        BY DEF Blk, Block
      <4>2. QED
        BY <3>2, <4>1, Kinds
    <3>4. chan'[p] \in Seq({RLR})
      BY <2>2, <2>4 DEF Leaves
    <3>5. Crossed(e, p)'
      BY <2>1, <2>3, <2>6, <3>2, <3>3, <3>4 DEF Crossed
    <3>6. QED
      BY <3>5, PhaseIn DEF Phase
  <2>7. QED
    BY <2>5, <2>6 DEF Prepared
<1>10. ~RecvNak(e) /\ ~RecvRlr(e)
  <2>1. chan[e] # <<>> => Head(chan[e]).t \in {"ACK", "JUNK"}
    BY <1>4, Kinds
  <2>2. QED
    BY <2>1, NakEffect, RlrEffect
<1>11. ~Fault(p)
  BY <1>4, FaultEffect
<1>12. pc[e] = "ackwait" \/ pc[e] = "drain"
  BY <1>1 DEF Waiting
<1>13. QED
  BY <1>1, <1>2, <1>5, <1>6, <1>7, <1>8, <1>9, <1>10, <1>11, <1>12, Chances

\* Bytes without meaning before the rest of the line.
LEMMA Before ==
  ASSUME NEW S, NEW c \in Seq(S), NEW a \in S
  PROVE  <<a>> \o c \in Seq(S) /\ <<a>> \o c # <<>> /\ Head(<<a>> \o c) = a
<1>1. <<a>> \in Seq(S) /\ Len(<<a>>) = 1 /\ <<a>>[1] = a
  OBVIOUS
<1>2. /\ <<a>> \o c \in Seq(S) /\ Len(<<a>> \o c) = 1 + Len(c) /\ Len(c) \in Nat
      /\ (<<a>> \o c)[1] = a
  BY <1>1, ConcatProperties, LenProperties
<1>3. QED
  BY <1>2, EmptySeq

\* The ACK, the answer and the requests for a response cross on the line.
LEMMA CrossedNext ==
  ASSUME TypeInv, Civil, Steady, NEW e \in End, NEW p \in End, p # e, Crossed(e, p), Next
  PROVE  InPhase'
<1> DEFINE S == {ACK, JUNK, Blk(p)}
           Bare == Has(e, p) /\ Lacks(p, e) /\ AfterPut(e) = "get" /\ prevErrors[e] <= MaxErrors
<1>1. /\ Bare /\ Waiting(e) /\ Waiting(p) /\ pc[p] = "ackwait"
      /\ ~InResync(e) /\ ~InResync(p)
  BY DEF Crossed, Lacks, InResync, Waiting
<1>2. Acts(e) \/ Acts(p)
  BY <1>1, NextActs, NoResync
<1>3. ACK \in S /\ JUNK \in S /\ Blk(p) \in S /\ RLR \in {RLR}
  OBVIOUS
<1> HIDE DEF S
<1>4. <<>> \in Seq({RLR}) /\ <<RLR>> \in Seq({RLR}) /\ <<>> \in Seq(S) /\ <<ACK, Blk(p)>> \in Seq(S)
  <2>1. <<>> \in Seq(S)
    BY EmptySeq
  <2>2. <<>> \in Seq({RLR}) /\ <<RLR>> \in Seq({RLR})
    OBVIOUS
  <2>3. QED
    BY <1>3, <2>1, <2>2, Known
<1>5. chan[p] \in Seq({RLR}) /\ chan[e] \in Seq(S)
  BY <1>4 DEF Crossed, S
<1>6. /\ chan[p] # <<>> => Head(chan[p]) = RLR /\ Tail(chan[p]) \in Seq({RLR})
      /\ chan[e] # <<>> => Head(chan[e]) \in S /\ Tail(chan[e]) \in Seq(S)
  BY <1>5, HeadTailProperties
<1>7. /\ chan[e] = <<>> /\ pc[e] = "ackwait" => Spent /\ chan[p] = <<RLR>>
      /\ chan[e] # <<>> /\ pc[e] = "ackwait" /\ Head(chan[e]) = ACK =>
           chan[e] = <<ACK, Blk(p)>> /\ chan[p] = <<>>
      /\ pc[e] = "drain" => Spent
      /\ pc[e] = "ackwait" => \/ Spent /\ (chan[e] # <<>> => Head(chan[e]) # ACK)
                              \/ chan[e] = <<ACK, Blk(p)>> /\ chan[p] = <<>>
  BY <1>1, Double DEF Crossed, Waiting
<1>8. CASE DrainEnds(e)
  <2>1. Quiet(e) /\ chan[e] = <<>> /\ Moves(e, p, "ackwait") /\ (Spent' <=> Spent)
        /\ Leaves(e, p, <<>>, Append(chan[p], RLR)) /\ pc[e] = "drain"
    BY <1>8, AskEffect DEF DrainEnds
  <2>2. chan[p] = <<>>
    BY <1>1, <2>1, EndFacts DEF Quiet, Civil
  <2>3. Leaves(e, p, <<>>, <<RLR>>)
    BY <2>1, <2>2, Single
  <2>4. Bare' /\ Waiting(e)' /\ Spent' /\ pc'[e] = "ackwait"
    BY <1>1, <1>7, <2>1, MovesFacts
  <2>5. Crossed(e, p)'
    BY <2>3, <2>4 DEF Crossed, Leaves
  <2>6. QED
    BY <2>5, PhaseIn DEF Phase
<1>9. ~Timeout(e) /\ ~Timeout(p)
  <2>1. SUFFICES ASSUME Timeout(e) \/ Timeout(p) PROVE FALSE
    OBVIOUS
  <2>2. chan[e] = <<>> /\ chan[p] = <<>> /\ pc[e] = "ackwait"
    <3>1. CASE Timeout(e)
      BY <1>1, <3>1, EndFacts DEF Timeout, Ask, Quiet, Civil
    <3>2. CASE Timeout(p)
      <4>1. pc[e] # "drain" /\ pc[e] # "app" /\ Quiet(p)
        BY <1>1, <3>2, EndFacts DEF Timeout, Ask, Civil, Waiting
      <4>2. QED
        BY <1>1, <4>1, EndFacts DEF Quiet, Civil, Waiting
    <3>3. QED
      BY <2>1, <3>1, <3>2
  <2>3. QED
    BY <1>7, <2>2, Single
<1>10. CASE RecvAck(e)
  <2>1. /\ chan[e] # <<>> /\ Leaves(e, p, Tail(chan[e]), chan[p]) /\ Has(e, p)' /\ Lacks(p, e)'
        /\ pc'[e] = IF prevErrors[e] > MaxErrors THEN "resyncPut" ELSE "app"
        /\ app'[e] = AfterPut(e) /\ pc'[p] = pc[p] /\ app'[p] = app[p] /\ Blk(p)' = Blk(p)
        /\ Head(chan[e]).t = "ACK" /\ pc[e] = "ackwait"
    BY <1>1, <1>10, AckEffect
  <2>2. ~(prevErrors[e] > MaxErrors)
    <3>1. prevErrors[e] \in Nat /\ MaxErrors \in Nat
      BY ErrorsAssumption DEF TypeInv, TypeOK, ErrCount
    <3>2. QED
      BY <1>1, <3>1
  <2>3. Head(chan[e]) = ACK
    BY <1>6, <2>1, Kinds DEF S
  <2>4. Leaves(e, p, <<Blk(p)>>, <<>>)
    BY <1>7, <2>1, <2>3, Double
  <2>5. Offered(p, e)'
    BY <1>1, <2>1, <2>2, <2>4 DEF Offered, Leaves, Listens
  <2>6. QED
    BY <2>5, PhaseIn DEF Phase
<1>11. CASE RecvOther(e) \/ DrainByte(e)
  <2>1. /\ Moves(e, p, "drain") /\ (Spent' <=> Spent) /\ chan[e] # <<>>
        /\ (pc[e] = "ackwait" => Head(chan[e]).t \in {"BLK", "BAD", "JUNK"})
        /\ Leaves(e, p, Tail(chan[e]), chan[p])
    BY <1>11, OtherEffect
  <2>2. pc[e] = "ackwait" => Head(chan[e]) # ACK
    BY <2>1, Kinds
  <2>3. Spent
    <3>1. CASE pc[e] = "ackwait"
      BY <1>7, <2>2, <3>1, Double
    <3>2. QED
      BY <1>1, <1>7, <3>1 DEF Waiting
  <2>4. Bare' /\ Waiting(e)' /\ Spent' /\ pc'[e] = "drain" /\ S' = S
    BY <1>1, <2>1, <2>3, MovesFacts DEF S
  <2>5. chan'[p] \in Seq({RLR}) /\ chan'[e] \in Seq(S')
    BY <1>5, <1>6, <2>1, <2>4 DEF Leaves
  <2>6. Crossed(e, p)'
    BY <2>4, <2>5 DEF Crossed, S
  <2>7. QED
    BY <2>6, PhaseIn DEF Phase
<1>12. CASE Fault(e)
  <2>1. /\ ~Spent /\ Spent' /\ Moves(e, p, pc[e])
        /\ \/ Leaves(e, p, Tail(chan[e]), chan[p])
           \/ Leaves(e, p, <<JUNK>> \o Tail(chan[e]), chan[p])
           \/ Head(chan[e]).t = "BLK"
    BY <1>12, FaultEffect
  <2>2. chan[e] = <<ACK, Blk(p)>> /\ chan[p] = <<>>
    BY <1>1, <1>7, <2>1 DEF Waiting
  <2>3. Tail(chan[e]) = <<Blk(p)>> /\ Head(chan[e]).t # "BLK"
    BY <2>2, Double, Kinds
  <2>4. \E c \in Seq(S) : c # <<>> /\ Head(c) # ACK /\ Leaves(e, p, c, <<>>)
    <3>1. <<Blk(p)>> \in Seq(S) /\ <<Blk(p)>> # <<>> /\ Head(<<Blk(p)>>) # ACK
      BY <1>3, <1>4, Known, Single, Kinds
    <3>2. /\ <<JUNK>> \o <<Blk(p)>> \in Seq(S) /\ <<JUNK>> \o <<Blk(p)>> # <<>>
          /\ Head(<<JUNK>> \o <<Blk(p)>>) = JUNK
      BY <1>3, <3>1, Before
    <3>3. JUNK # ACK
      BY Kinds
    <3>4. QED
      BY <2>1, <2>2, <2>3, <3>1, <3>2, <3>3
  <2>5. Bare' /\ Waiting(e)' /\ S' = S
    BY <1>1, <2>1, MovesFacts DEF Waiting, S
  <2>6. Crossed(e, p)'
    BY <1>4, <2>1, <2>4, <2>5 DEF Crossed, Leaves, S
  <2>7. QED
    BY <2>6, PhaseIn DEF Phase
<1>13. CASE RecvRlr(p)
  <2>1. /\ chan[p] # <<>> /\ Moves(p, e, "ackwait") /\ (Spent' <=> Spent)
        /\ Leaves(p, e, Tail(chan[p]), chan[e] \o <<ACK, Blk(p)>>)
    <3>1. lastResp[p] = "ACK"
      BY <1>1 DEF Steady
    <3>2. Ctl(lastResp[p]) = ACK
      BY <3>1 DEF ACK
    <3>3. QED
      BY <1>13, <3>2, RlrEffect
  <2>2. Bare' /\ Waiting(e)' /\ pc'[e] = pc[e] /\ S' = S /\ Blk(p)' = Blk(p)
    BY <1>1, <2>1, MovesFacts DEF S
  <2>3. Spent
    BY <1>1, <1>7, <2>1 DEF Waiting
  <2>4. CASE pc[e] = "ackwait" /\ chan[e] = <<>>
    <3>1. chan[p] = <<RLR>>
      BY <1>7, <2>4
    <3>2. Leaves(p, e, <<>>, <<ACK, Blk(p)>>)
      BY <2>1, <2>4, <3>1, Single, Double
    <3>3. Crossed(e, p)'
      BY <2>2, <2>4, <3>2 DEF Crossed, Leaves
    <3>4. QED
      BY <3>3, PhaseIn DEF Phase
  <2>5. CASE ~(pc[e] = "ackwait" /\ chan[e] = <<>>)
    <3>1. /\ chan[e] \o <<ACK, Blk(p)>> \in Seq(S)
          /\ chan[e] # <<>> => /\ chan[e] \o <<ACK, Blk(p)>> # <<>>
                               /\ Head(chan[e] \o <<ACK, Blk(p)>>) = Head(chan[e])
      BY <1>3, <1>5, Known
    <3>2. pc[e] = "ackwait" => chan[e] # <<>> /\ Head(chan[e]) # ACK
      BY <1>7, <2>1, <2>5
    <3>3. /\ chan'[p] \in Seq({RLR}) /\ chan'[e] \in Seq(S)
          /\ pc[e] = "ackwait" => chan'[e] # <<>> /\ Head(chan'[e]) # ACK
      BY <1>6, <2>1, <3>1, <3>2 DEF Leaves
    <3>4. Crossed(e, p)'
      BY <2>1, <2>2, <2>3, <3>3 DEF Crossed, S
    <3>5. QED
      BY <3>4, PhaseIn DEF Phase
  <2>6. QED
    BY <2>4, <2>5
<1>14. ~RecvNak(e) /\ ~RecvRlr(e)
  <2>1. chan[e] # <<>> => Head(chan[e]).t \in {"ACK", "JUNK", "BLK"}
    BY <1>6, Kinds DEF S
  <2>2. QED
    BY <2>1, NakEffect, RlrEffect
<1>15. ~RecvAck(p) /\ ~RecvNak(p) /\ ~RecvOther(p) /\ ~Fault(p)
  <2>1. chan[p] # <<>> => Head(chan[p]).t = "RLR"
    BY <1>6, Kinds
  <2>2. ~RecvAck(p) /\ ~RecvNak(p) /\ ~RecvOther(p)
    BY <1>1, <2>1, AckEffect, NakEffect, OtherEffect
  <2>3. ~Fault(p)
    BY <1>1, <1>7, FaultEffect DEF Waiting
  <2>4. QED
    BY <2>2, <2>3
<1>16. pc[e] = "ackwait" \/ pc[e] = "drain"
  BY <1>1 DEF Waiting
<1>17. QED
  BY <1>1, <1>2, <1>8, <1>9, <1>10, <1>11, <1>12, <1>13, <1>14, <1>15, <1>16, Chances

\* An end that is in ReSync alone, and what the client says to it.
LEMMA AloneEffect ==
  ASSUME TypeInv, NEW e \in End, NEW p \in End, p # e, InResync(p), ~InResync(e), Resync
  PROVE  /\ Moves(p, e, pc[p]) /\ (Spent' <=> Spent)
         /\ \/ chan[p] # <<>> /\ Leaves(p, e, Tail(chan[p]), chan[e])
            \/ p = "client" /\ chan[e] = <<>> /\ Leaves(p, e, chan[p], <<JUNK>>)
<1>1. ResyncHi \/ ResyncDrop(p)
  BY EndFacts DEF Resync, ResyncBoth, ResyncHalf, ResyncDrop
<1>2. CASE ResyncHi
  <2>1. p = "client" /\ e = "server" /\ chan[e] = <<>> /\ chan' = [chan EXCEPT ![e] = <<JUNK>>]
    BY <1>2, EndFacts DEF ResyncHi
  <2>2. Moves(p, e, pc[p]) /\ (Spent' <=> Spent)
    BY <1>2 DEF ResyncHi, Moves, Plain, Spent, link
  <2>3. Leaves(p, e, chan[p], <<JUNK>>)
    BY <2>1 DEF Leaves, TypeInv, TypeOK
  <2>4. QED
    BY <2>1, <2>2, <2>3
<1>3. CASE ResyncDrop(p)
  <2>1. Take(p) /\ chan[p] # <<>>
    BY <1>3 DEF ResyncDrop, Head1
  <2>2. Moves(p, e, pc[p]) /\ (Spent' <=> Spent)
    BY <1>3 DEF ResyncDrop, Moves, Plain, Spent, link
  <2>3. QED
    BY <2>1, <2>2, TakeOnlyEffect
<1>4. QED
  BY <1>1, <1>2, <1>3

\* e gets its ACK and follows p into ReSync.
LEMMA JoinedNext ==
  ASSUME TypeInv, Civil, NEW e \in End, NEW p \in End, p # e, Joined(e, p), Next
  PROVE  InPhase'
<1> DEFINE Bare == /\ pc[p] = "resyncGet" /\ Has(e, p) /\ Has(p, e)
                   /\ prevErrors[e] > MaxErrors /\ app[p] # AfterPut(e)
<1>1. Bare /\ Waiting(e) /\ ~InResync(e) /\ InResync(p)
  BY DEF Joined, Waiting, InResync
<1>2. Acts(e) \/ Acts(p) \/ Resync
  BY NextActs
<1>3. JUNK \in {JUNK} /\ <<>> \in Seq({JUNK}) /\ <<JUNK>> \in Seq({JUNK})
  OBVIOUS
<1>4. \/ pc[e] = "ackwait" /\ chan[e] = <<ACK>> /\ chan[p] = <<>>
      \/ Spent /\ chan[e] \in Seq({JUNK})
  BY DEF Joined
<1>5. chan[e] # <<>> => \/ pc[e] = "ackwait" /\ Head(chan[e]) = ACK /\ Tail(chan[e]) = <<>>
                           /\ chan[p] = <<>>
                        \/ Spent /\ Head(chan[e]) = JUNK /\ Tail(chan[e]) \in Seq({JUNK})
  <2>1. CASE chan[e] = <<ACK>> /\ pc[e] = "ackwait" /\ chan[p] = <<>>
    BY <2>1, Single
  <2>2. CASE Spent /\ chan[e] \in Seq({JUNK})
    BY <2>2, HeadTailProperties
  <2>3. QED
    BY <1>4, <2>1, <2>2
<1>6. CASE DrainEnds(e) \/ Timeout(e)
  <2>1. chan[e] = <<>> /\ Moves(e, p, "ackwait") /\ (Spent' <=> Spent)
        /\ Leaves(e, p, <<>>, Append(chan[p], RLR))
    BY <1>6, AskEffect
  <2>2. Spent
    BY <1>4, <2>1, Single
  <2>3. Bare' /\ Waiting(e)' /\ Spent'
    BY <1>1, <2>1, <2>2, MovesFacts
  <2>4. Joined(e, p)'
    BY <1>3, <2>1, <2>3 DEF Joined, Leaves
  <2>5. QED
    BY <2>4, PhaseIn DEF Phase
<1>7. CASE RecvAck(e)
  <2>1. /\ chan[e] # <<>> /\ Leaves(e, p, Tail(chan[e]), chan[p]) /\ Has(e, p)' /\ Has(p, e)'
        /\ pc'[e] = IF prevErrors[e] > MaxErrors THEN "resyncPut" ELSE "app"
        /\ app'[e] = AfterPut(e) /\ pc'[p] = pc[p] /\ app'[p] = app[p]
        /\ Head(chan[e]).t = "ACK"
    BY <1>1, <1>7, AckEffect
  <2>2. Tail(chan[e]) = <<>> /\ chan[p] = <<>>
    BY <1>5, <2>1, Kinds
  <2>3. Resyncs(e, p)'
    BY <1>1, <2>1, <2>2 DEF Resyncs, Leaves
  <2>4. QED
    BY <2>3, PhaseIn DEF Phase
<1>8. CASE RecvOther(e) \/ DrainByte(e)
  <2>1. /\ Moves(e, p, "drain") /\ (Spent' <=> Spent) /\ chan[e] # <<>>
        /\ (pc[e] = "ackwait" => Head(chan[e]).t \in {"BLK", "BAD", "JUNK"})
        /\ Leaves(e, p, Tail(chan[e]), chan[p])
    BY <1>8, OtherEffect
  <2>2. Spent /\ Tail(chan[e]) \in Seq({JUNK})
    BY <1>5, <2>1, Kinds
  <2>3. Bare' /\ Waiting(e)' /\ Spent'
    BY <1>1, <2>1, <2>2, MovesFacts
  <2>4. Joined(e, p)'
    BY <2>1, <2>2, <2>3 DEF Joined, Leaves
  <2>5. QED
    BY <2>4, PhaseIn DEF Phase
<1>9. CASE Fault(e)
  <2>1. /\ ~Spent /\ Spent' /\ Moves(e, p, pc[e]) /\ chan[e] # <<>>
        /\ \/ Leaves(e, p, Tail(chan[e]), chan[p])
           \/ Leaves(e, p, <<JUNK>> \o Tail(chan[e]), chan[p])
           \/ Head(chan[e]).t = "BLK"
    BY <1>9, FaultEffect
  <2>2. Head(chan[e]).t = "ACK" /\ Tail(chan[e]) = <<>>
    BY <1>5, <2>1, Kinds
  <2>3. \E c \in Seq({JUNK}) : Leaves(e, p, c, chan[p])
    BY <1>3, <2>1, <2>2, Single
  <2>4. Bare' /\ Waiting(e)'
    BY <1>1, <2>1, MovesFacts DEF Waiting
  <2>5. Joined(e, p)'
    BY <2>1, <2>3, <2>4 DEF Joined, Leaves
  <2>6. QED
    BY <2>5, PhaseIn DEF Phase
<1>10. CASE Resync
  <2>1. /\ Moves(p, e, pc[p]) /\ (Spent' <=> Spent)
        /\ \/ chan[p] # <<>> /\ Leaves(p, e, Tail(chan[p]), chan[e])
           \/ chan[e] = <<>> /\ Leaves(p, e, chan[p], <<JUNK>>)
    BY <1>1, <1>10, AloneEffect
  <2>2. Spent /\ chan'[e] \in Seq({JUNK})
    <3>1. Spent /\ chan[e] \in Seq({JUNK})
      BY <1>4, <2>1, Single
    <3>2. chan'[e] = chan[e] \/ chan'[e] = <<JUNK>>
      BY <2>1 DEF Leaves
    <3>3. QED
      BY <1>3, <3>1, <3>2
  <2>3. Bare' /\ Waiting(e)' /\ Spent'
    BY <1>1, <2>1, <2>2, MovesFacts DEF Waiting
  <2>4. Joined(e, p)'
    BY <2>2, <2>3 DEF Joined
  <2>5. QED
    BY <2>4, PhaseIn DEF Phase
<1>11. ~RecvNak(e) /\ ~RecvRlr(e)
  <2>1. chan[e] # <<>> => Head(chan[e]).t \in {"ACK", "JUNK"}
    BY <1>5, Kinds
  <2>2. QED
    BY <2>1, NakEffect, RlrEffect
<1>12. ~Acts(p)
  <2>1. SUFFICES ASSUME Acts(p) PROVE FALSE
    OBVIOUS
  <2>2. Fault(p)
    BY <1>1, <2>1, Chances
  <2>3. chan[p] # <<>> /\ ~Spent
    BY <2>2, FaultEffect
  <2>4. QED
    BY <1>4, <2>3
<1>13. pc[e] = "ackwait" \/ pc[e] = "drain"
  BY <1>1 DEF Waiting
<1>14. QED
  BY <1>1, <1>2, <1>6, <1>7, <1>8, <1>9, <1>10, <1>11, <1>12, <1>13, Chances

\* Both ends leave ReSync together, or only the client does.
LEMMA ResyncsNext ==
  ASSUME TypeInv, Civil, NEW e \in End, NEW p \in End, p # e, Resyncs(e, p), Next
  PROVE  InPhase'
<1>1. /\ pc[e] = "resyncPut" /\ pc[p] = "resyncGet" /\ Has(e, p) /\ Has(p, e)
      /\ app[p] # app[e] /\ chan[e] = <<>> /\ chan[p] = <<>> /\ InResync(e) /\ InResync(p)
      /\ ~Waiting(e) /\ ~Waiting(p)
  BY DEF Resyncs, InResync, Waiting
<1>2. ResyncBoth \/ ResyncHalf
  <2>1. Resync
    BY <1>1, NextActs, Chances, Silence
  <2>2. QED
    BY <1>1, <2>1, EndFacts DEF Resync, ResyncHi, ResyncDrop
<1>3. PICK E \in {End, {"client"}} : Leave(E)
  BY <1>2 DEF ResyncBoth, ResyncHalf
<1>4. /\ UNCHANGED <<app, sendNo, recvNo, sent, got>>
      /\ \A x \in End : chan'[x] = <<>> /\ pc'[x] = IF x \in E THEN "app" ELSE pc[x]
      /\ ~Waiting(e)' /\ ~Waiting(p)'
  BY <1>1, <1>3 DEF Leave, link, Waiting
<1>5. Has(e, p)' /\ Has(p, e)'
  BY <1>1, <1>4 DEF Has
<1>6. CASE ResyncBoth
  <2>1. pc'[e] = "app" /\ pc'[p] = "app"
    BY <1>6 DEF ResyncBoth, Leave
  <2>2. app'[e] = app[e] /\ app'[p] = app[p] /\ app[e] \in {"put", "get"} /\ app[p] \in {"put", "get"}
    BY <1>4 DEF TypeInv, TypeOK
  <2>3. Turn(e, p)' \/ Turn(p, e)'
    BY <1>1, <1>4, <1>5, <2>1, <2>2 DEF Turn, Puts, Listens
  <2>4. QED
    BY <2>3, PhaseIn DEF Phase
<1>7. CASE ResyncHalf
  <2>1. Spent'
    BY <1>7, BoundAssumption DEF ResyncHalf, Spent, Civil, TypeInv, TypeOK
  <2>2. pc'["client"] = "app" /\ pc'["server"] = pc["server"] /\ InResync("server")
    BY <1>7, EndFacts DEF ResyncHalf, Leave
  <2>3. InResync("server")' /\ ~InResync("client")'
    BY <2>2 DEF InResync
  <2>4. chan'["client"] = <<>> /\ Has("server", "client")' /\ Has("client", "server")'
    BY <1>4, <1>5, EndFacts
  <2>5. ~Waiting("client")'
    BY <2>2 DEF Waiting
  <2>6. QED
    BY <2>1, <2>3, <2>4, <2>5 DEF InPhase, Parted
<1>8. QED
  BY <1>2, <1>6, <1>7

\* The client hears nothing, and the server throws away what it says.
LEMMA PartedNext ==
  ASSUME TypeInv, Civil, Parted, Next
  PROVE  InPhase'
<1> DEFINE c == "client"
           s == "server"
<1>1. c \in End /\ s \in End /\ c # s
  BY EndFacts
<1>2. /\ Spent /\ InResync(s) /\ ~InResync(c) /\ chan[c] = <<>> /\ Has(s, c)
      /\ IF Waiting(c) THEN OneShort(c, s) ELSE Has(c, s)
  BY DEF Parted
<1> HIDE DEF c, s
<1> DEFINE Good == /\ Spent' /\ InResync(s)' /\ ~InResync(c)' /\ chan'[c] = <<>> /\ Has(s, c)'
                   /\ IF Waiting(c)' THEN OneShort(c, s)' ELSE Has(c, s)'
<1>3. SUFFICES Good
  BY DEF InPhase, Parted, c, s
<1>4. ~Fault(c) /\ ~Fault(s)
  BY <1>1, <1>2, FaultEffect
<1>5. CASE Acts(c)
  <2>1. StartPut(c) \/ StartGet(c) \/ DrainEnds(c) \/ Timeout(c)
    BY <1>1, <1>2, <1>5, Silence DEF Acts, Sending, Civil, PutFails
  <2>2. CASE StartPut(c)
    <3>1. /\ pc'[c] = "ackwait" /\ pc'[s] = pc[s] /\ Has(s, c)' /\ (Spent' <=> Spent)
          /\ chan'[c] = <<>> /\ OneShort(c, s)'
      <4>1. Has(c, s)
        BY <1>2, <2>2 DEF StartPut, Waiting
      <4>2. QED
        BY <1>1, <1>2, <2>2, <4>1, PutEffect, ClearedEmpty DEF Leaves
    <3>2. QED
      BY <1>2, <3>1 DEF InResync, Waiting
  <2>3. CASE StartGet(c)
    <3>1. /\ pc[c] = "app" /\ Moves(c, s, "recv") /\ (Spent' <=> Spent) /\ Leaves(c, s, chan[c], chan[s])
      BY <1>1, <2>3, GetEffect
    <3>2. Has(s, c)' /\ Has(c, s)' /\ pc'[c] = "recv" /\ pc'[s] = pc[s]
      BY <1>1, <1>2, <3>1, MovesFacts DEF Waiting
    <3>3. QED
      BY <1>2, <3>1, <3>2 DEF InResync, Leaves, Waiting
  <2>4. CASE DrainEnds(c) \/ Timeout(c)
    <3>1. Waiting(c) /\ Moves(c, s, "ackwait") /\ (Spent' <=> Spent) /\ chan'[c] = <<>>
      BY <1>1, <2>4, AskEffect DEF Leaves
    <3>2. Has(s, c)' /\ OneShort(c, s)' /\ pc'[c] = "ackwait" /\ pc'[s] = pc[s]
      BY <1>1, <1>2, <3>1, MovesFacts
    <3>3. QED
      BY <1>2, <3>1, <3>2 DEF InResync, Waiting
  <2>5. QED
    BY <2>1, <2>2, <2>3, <2>4
<1>6. ~Acts(s)
  BY <1>1, <1>2, <1>4, Chances
<1>7. CASE Resync
  <2>1. /\ Moves(s, c, pc[s]) /\ (Spent' <=> Spent)
        /\ s # "client" => Leaves(s, c, Tail(chan[s]), chan[c])
    BY <1>1, <1>2, <1>7, AloneEffect
  <2>2. Leaves(s, c, Tail(chan[s]), chan[c])
    BY <2>1 DEF s
  <2>3. Has(s, c)' /\ (Waiting(c)' <=> Waiting(c)) /\ pc'[c] = pc[c] /\ pc'[s] = pc[s]
        /\ (Has(c, s)' <=> Has(c, s)) /\ (OneShort(c, s)' <=> OneShort(c, s))
    BY <1>1, <1>2, <2>1, MovesFacts DEF InResync, Waiting
  <2>4. QED
    BY <1>2, <2>1, <2>2, <2>3 DEF InResync, Leaves
<1>8. QED
  BY <1>1, <1>5, <1>6, <1>7, NextActs

\* What the client and the server make of a step in every phase.
LEMMA PhaseNext ==
  ASSUME TypeInv, Civil, Distinct, Course, Next
  PROVE  InPhase'
<1>1. CASE Parted
  BY <1>1, PartedNext
<1>2. CASE ~Parted
  <2>1. PICK e \in End, p \in End : p # e /\ Phase(e, p)
    BY <1>2 DEF Course, InPhase
  <2>2. CASE Turn(e, p)
    BY <2>1, <2>2, TurnNext
  <2>3. CASE Offered(e, p)
    BY <2>1, <2>3, OfferedNext
  <2>4. CASE Taken(e, p)
    BY <2>1, <2>4, TakenNext
  <2>5. CASE Prepared(e, p)
    BY <2>1, <2>5, PreparedNext
  <2>6. CASE Crossed(e, p)
    BY <2>1, <2>6, CrossedNext DEF Course
  <2>7. CASE Joined(e, p)
    BY <2>1, <2>7, JoinedNext
  <2>8. CASE Resyncs(e, p)
    BY <2>1, <2>8, ResyncsNext
  <2>9. QED
    BY <2>1, <2>2, <2>3, <2>4, <2>5, <2>6, <2>7, <2>8 DEF Phase
<1>3. QED
  BY <1>1, <1>2

\* Only Damaged records a NAK, and an end leaves WaitReceive with an ACK.
LEMMA SteadyNext ==
  ASSUME TypeInv, Steady, Next
  PROVE  Steady'
<1>1. ASSUME NEW e \in End,
             StartPut(e) \/ StartGet(e) \/ Sending(e) \/ AnswerRlr(e) \/ Ignore(e)
             \/ ResyncDrop(e) \/ Fault(e)
      PROVE  /\ UNCHANGED lastResp
             /\ \A x \in End : pc'[x] # "recv" => pc[x] # "recv"
  <2>1. CASE StartPut(e) \/ StartGet(e) \/ AnswerRlr(e) \/ Ignore(e) \/ ResyncDrop(e) \/ Fault(e)
    BY <2>1 DEF StartPut, StartGet, AnswerRlr, Ignore, ResyncDrop, Fault, link, TypeInv, TypeOK
  <2>2. CASE Sending(e)
    BY <2>2 DEF Sending, RecvAck, RecvNak, RecvRlr, RecvOther, DrainByte, DrainEnds, Timeout,
       Ask, PutFails, link, TypeInv, TypeOK
  <2>3. QED
    BY <1>1, <2>1, <2>2
<1>2. ASSUME NEW e \in End, Accept(e) \/ Repeated(e) \/ Damaged(e)
      PROVE  Steady'
  <2>1. CASE Accept(e) \/ Repeated(e)
    <3>1. lastResp'[e] = "ACK" /\ \A x \in End \ {e} : lastResp'[x] = lastResp[x] /\ pc'[x] = pc[x]
      BY <2>1 DEF Accept, Repeated, TypeInv, TypeOK
    <3>2. QED
      BY <3>1 DEF Steady
  <2>2. CASE Damaged(e)
    BY <2>2 DEF Damaged, Steady, TypeInv, TypeOK
  <2>3. QED
    BY <1>2, <2>1, <2>2
<1>3. ASSUME ResyncBoth \/ ResyncHalf \/ ResyncHi
      PROVE  UNCHANGED lastResp /\ \A x \in End : pc'[x] # "recv" => pc[x] # "recv"
  <2>1. CASE ResyncHi
    BY <2>1 DEF ResyncHi, link
  <2>2. CASE ResyncBoth \/ ResyncHalf
    <3>1. /\ UNCHANGED lastResp
          /\ \A x \in End : pc'[x] = pc[x] \/ pc'[x] = "app"
          /\ \A x \in End : InResync(x)
      BY <2>2 DEF ResyncBoth, ResyncHalf, Leave, link
    <3>2. QED
      BY <3>1 DEF InResync
  <2>3. QED
    BY <1>3, <2>1, <2>2
<1>4. QED
  BY <1>1, <1>2, <1>3 DEF Next, Receiving, Resync, Steady

\* A stuttering step changes no phase.
LEMMA CourseNext ==
  ASSUME TypeInv, Civil, Distinct, Course, [Next]_vars
  PROVE  Course'
<1>1. CASE Next
  BY <1>1, PhaseNext, SteadyNext DEF Course
<1>2. CASE UNCHANGED vars
  <2>1. Plain /\ UNCHANGED <<pc, app, chan, lastResp, faults>>
    BY <1>2 DEF vars, link, Plain
  <2>2. Steady'
    BY <2>1 DEF Steady, Course
  <2>3. CASE Parted
    <3>1. /\ Spent' = Spent /\ InResync("server")' = InResync("server")
          /\ InResync("client")' = InResync("client") /\ Waiting("client")' = Waiting("client")
          /\ Has("server", "client")' = Has("server", "client")
          /\ Has("client", "server")' = Has("client", "server")
          /\ OneShort("client", "server")' = OneShort("client", "server")
      BY <2>1 DEF Spent, InResync, Has, OneShort, Waiting, Plain
    <3>2. Parted'
      BY <2>1, <2>3, <3>1 DEF Parted
    <3>3. QED
      BY <2>2, <3>2 DEF InPhase, Course
  <2>4. CASE \E e, p \in End : p # e /\ Phase(e, p)
    <3>1. PICK e \in End, p \in End : p # e /\ Phase(e, p)
      BY <2>4
    <3>2. /\ Has(e, p)' = Has(e, p) /\ Has(p, e)' = Has(p, e)
          /\ Lacks(e, p)' = Lacks(e, p) /\ Lacks(p, e)' = Lacks(p, e)
          /\ Blk(e)' = Blk(e) /\ Blk(p)' = Blk(p) /\ AfterPut(e)' = AfterPut(e)
          /\ Spent' = Spent
      BY <2>1 DEF Plain, Has, Lacks, OneShort, Waiting, Blk, Block, AfterPut, Spent
    <3>3. Phase(e, p)'
      BY <2>1, <3>1, <3>2 DEF Plain, Phase, Turn, Offered, Taken, Prepared, Crossed, Joined,
         Resyncs,
         Puts, Listens, Waiting
    <3>4. QED
      BY <2>2, <3>1, <3>3, PhaseIn DEF Course
  <2>5. QED
    BY <2>2, <2>3, <2>4 DEF Course, InPhase
<1>3. QED
  BY <1>1, <1>2

\* RemoteConnect leaves the first turn to the client.
LEMMA CourseInit == Init => Course
<1> SUFFICES ASSUME Init PROVE Course
  OBVIOUS
<1>1. Steady
  BY DEF Init, Steady
<1>2. Turn("client", "server")
  <2>1. \A x \in End : sent[x] = <<>> /\ got[x] = <<>> /\ sendNo[x] = 1 % UIntMod
                       /\ recvNo[x] = 1 % UIntMod /\ pc[x] = "app" /\ chan[x] = <<>>
    BY DEF Init
  <2>2. app["client"] = "put" /\ app["server"] = "get"
    BY EndFacts DEF Init
  <2>3. QED
    BY <2>1, <2>2, EndFacts DEF Turn, Puts, Listens, Has, Waiting
<1>3. QED
  BY <1>1, <1>2, EndFacts DEF Course, InPhase, Phase

\* In every phase an end has all that its peer has put, or lacks the last packet
\* of a peer that waits.
LEMMA CourseHolds ==
  ASSUME Course, NEW e \in End, NEW p \in End, p # e
  PROVE  Has(e, p) \/ (OneShort(e, p) /\ Waiting(e))
<1>1. CASE Parted
  BY <1>1, EndFacts DEF Parted
<1>2. CASE \E x, y \in End : y # x /\ Phase(x, y)
  <2>1. PICK x \in End, y \in End : y # x /\ Phase(x, y)
    BY <1>2
  <2>2. /\ Has(x, y) \/ (OneShort(x, y) /\ Waiting(x))
        /\ Has(y, x) \/ (OneShort(y, x) /\ Waiting(y))
    BY <2>1 DEF Phase, Turn, Offered, Taken, Prepared, Crossed, Joined, Resyncs, Lacks, Waiting
  <2>3. (e = x /\ p = y) \/ (e = y /\ p = x)
    BY <2>1, EndFacts
  <2>4. QED
    BY <2>2, <2>3
<1>3. QED
  BY <1>1, <1>2 DEF Course, InPhase

\* In no phase has RemotePut returned before the peer has the packet.
LEMMA CoursePutDelivered == Course => PutDelivered
<1> SUFFICES ASSUME Course, NEW e \in End, ~Waiting(e)
             PROVE  Len(got[Peer(e)]) = Len(sent[e])
  BY DEF PutDelivered, Waiting
<1>1. QED
  BY CourseHolds, PeerFacts DEF Has

\* In no phase has an end got anything but what its peer has put.
LEMMA CoursePrefix == TypeInv /\ Course => DeliveredPrefix
<1> SUFFICES ASSUME TypeInv, Course, NEW e \in End
             PROVE  /\ Len(got[e]) <= Len(sent[Peer(e)])
                    /\ \A i \in 1 .. Len(got[e]) : got[e][i] = sent[Peer(e)][i]
  BY DEF DeliveredPrefix
<1> DEFINE s == sent[Peer(e)]
           g == got[e]
<1>1. s \in Seq(Data) /\ g \in Seq(Data) /\ Len(s) \in Nat /\ Len(g) \in Nat
  BY PeerFacts, HistoryFacts
<1>2. g = s \/ s = Append(g, LastOf(s))
  BY PeerFacts, CourseHolds DEF Has, OneShort
<1> HIDE DEF s, g
<1>3. Len(g) <= Len(s) /\ \A i \in 1 .. Len(g) : g[i] = s[i]
  <2>1. CASE g = s
    BY <1>1, <2>1
  <2>2. CASE s = Append(g, LastOf(s))
    <3>1. LastOf(s) \in Data
      BY <1>1, <2>2, AppendedElement
    <3>2. QED
      BY <1>1, <2>2, <3>1, AppendProperties
  <2>3. QED
    BY <1>2, <2>1, <2>2
<1>4. QED
  BY <1>3 DEF s, g

\* In no phase is the client alone in the ReSync that ends a RemotePut.
LEMMA CourseClient == Course => ClientNotAlone
<1> SUFFICES ASSUME Course PROVE ClientNotAlone
  OBVIOUS
<1>1. CASE Parted
  BY <1>1 DEF Parted, ClientNotAlone, InResync
<1>2. CASE \E e, p \in End : p # e /\ Phase(e, p)
  <2>1. PICK e \in End, p \in End : p # e /\ Phase(e, p)
    BY <1>2
  <2>2. /\ pc[p] # "resyncPut"
        /\ pc[e] = "resyncPut" => InResync(p)
    BY <2>1 DEF Phase, Turn, Offered, Taken, Prepared, Crossed, Joined, Resyncs, Lacks, Waiting,
       Puts, Listens, InResync
  <2>3. QED
    BY <2>1, <2>2, EndFacts DEF ClientNotAlone
<1>3. QED
  BY <1>1, <1>2 DEF Course, InPhase

\* The numbers that the link needs to tell a block from the next: the counter
\* is no wider than its two bytes on the wire, or never gets beyond them.
Narrow == UIntMod > 1 /\ UIntMod <= WireMod

\* A counter that is no wider than the wire loses nothing there.
LEMMA NarrowDistinct == Narrow /\ TypeInv => Distinct
<1> SUFFICES ASSUME Narrow, TypeInv, NEW e \in End
             PROVE  WireNo(sendNo[e]) = sendNo[e] /\ Inc(sendNo[e]) # sendNo[e]
  BY DEF Distinct
<1>1. sendNo[e] \in 0 .. UIntMod - 1 /\ UIntMod \in Nat /\ WireMod \in Nat \ {0}
  BY ModAssumption DEF TypeInv, TypeOK
<1>2. WireNo(sendNo[e]) = sendNo[e]
  <2>1. sendNo[e] \in Nat /\ sendNo[e] < WireMod
    BY <1>1 DEF Narrow
  <2>2. QED
    BY <1>1, <2>1, ModFacts DEF WireNo
<1>3. Inc(sendNo[e]) # sendNo[e]
  <2>1. CASE sendNo[e] + 1 < UIntMod
    BY <1>1, <2>1, ModFacts DEF Inc
  <2>2. CASE sendNo[e] + 1 = UIntMod
    <3>1. UIntMod % UIntMod = 0
      BY <1>1 DEF Narrow
    <3>2. QED
      BY <1>1, <2>2, <3>1 DEF Inc, Narrow
  <2>3. QED
    BY <1>1, <2>1, <2>2
<1>4. QED
  BY <1>2, <1>3

\* A counter that counts the packets loses nothing on the wire either.
LEMMA FitDistinct == NumbersFit /\ IndInv => Distinct
<1> SUFFICES ASSUME NumbersFit, IndInv, NEW e \in End
             PROVE  WireNo(sendNo[e]) = sendNo[e] /\ Inc(sendNo[e]) # sendNo[e]
  BY DEF Distinct
<1>1. TypeInv
  BY DEF IndInv, TypeInv
<1>2. sendNo[e] \in 0 .. MaxPuts + 1
  BY <1>1, LenFacts, BoundAssumption DEF IndInv, Counters, TypeInv, TypeOK
<1>3. /\ WireNo(sendNo[e]) = sendNo[e] /\ sendNo[e] + 1 \in Nat \ {0}
      /\ sendNo[e] + 1 <= UIntMod /\ UIntMod \in Nat \ {0} /\ UIntMod > 1
  BY <1>2, IncFacts, ModAssumption, BoundAssumption DEF NumbersFit
<1>4. Inc(sendNo[e]) # sendNo[e]
  <2>1. CASE sendNo[e] + 1 < UIntMod
    BY <1>3, <2>1, ModFacts DEF Inc
  <2>2. CASE sendNo[e] + 1 = UIntMod
    <3>1. UIntMod % UIntMod = 0
      BY <1>3
    <3>2. QED
      BY <1>3, <2>2, <3>1 DEF Inc
  <2>3. QED
    BY <1>3, <2>1, <2>2
<1>5. QED
  BY <1>3, <1>4

\* The conversation stays in its phases, as long as RemotePut waits and the
\* line fails at most once, also when the block number wraps.
THEOREM CourseCorrect ==
  ASSUME Civil, Narrow \/ NumbersFit PROVE Spec => []Course
<1>1. Spec => []TypeInv
  BY TypeInit, TypeNext, PTL DEF Spec
<1>2. Spec => []Distinct
  <2>1. CASE Narrow
    BY <1>1, <2>1, NarrowDistinct, PTL
  <2>2. CASE NumbersFit
    <3>1. WithinLimits
      BY <2>2 DEF Civil, WithinLimits
    <3>2. Spec => []IndInv
      BY <3>1, IndCorrect
    <3>3. IndInv => Distinct
      BY <2>2, FitDistinct
    <3>4. QED
      BY <3>2, <3>3, PTL
  <2>3. QED
    BY <2>1, <2>2
<1>3. TypeInv /\ Distinct /\ Course /\ [Next]_vars => Course'
  BY CourseNext
<1>4. QED
  BY <1>1, <1>2, <1>3, CourseInit, PTL DEF Spec

\* RemotePut does not return before the peer has the packet.
THEOREM PutDeliveredCorrect ==
  ASSUME Civil, Narrow \/ NumbersFit PROVE Spec => []PutDelivered
BY CourseCorrect, CoursePutDelivered, PTL

\* RemoteGet hands out what the peer has put and in that order, also when the
\* block number wraps.
THEOREM DeliveredOnWrap ==
  ASSUME Civil, Narrow PROVE Spec => []DeliveredPrefix
<1>1. Spec => []TypeInv
  BY TypeInit, TypeNext, PTL DEF Spec
<1>2. QED
  BY <1>1, CourseCorrect, CoursePrefix, PTL

\* The client enters ReSync after a RemotePut only together with the server.
THEOREM ClientNotAloneCorrect ==
  ASSUME Civil, Narrow \/ NumbersFit PROVE Spec => []ClientNotAlone
BY CourseCorrect, CourseClient, PTL
=============================================================================
