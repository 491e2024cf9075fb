---------------------------- MODULE ParLinkProofs ----------------------------
(***************************************************************************)
(* Proofs about ParLink, for every size of a nibble, every packet and any  *)
(* number of requests: the types, that a unit is read while it is held,    *)
(* that one end puts at a time, and that the parallel link implements the  *)
(* channel of TrapChannel.                                                 *)
(*                                                                         *)
(* None of the properties is inductive: what a handshake line means        *)
(* depends on where the other end is.  IndInv says what pairs of places    *)
(* the two ends can be in, what is under way from one to the other, and    *)
(* where in the packet both are.                                           *)
(***************************************************************************)
EXTENDS ParLink, SequenceTheorems, TLAPS

(***************************************************************************)
(* The inductive invariant                                                 *)
(***************************************************************************)
\* Cables, and what fits on them.
Cable == {"watcom", "laplink", "dutchman"}
Unit(c) == IF c = "watcom" THEN Byte ELSE 0 .. NibMod - 1
UnitsOn(c, b) ==
  [i \in 1 .. (IF c = "watcom" THEN 1 ELSE 2) * Len(b) |->
     IF c = "watcom" THEN b[i]
     ELSE IF i % 2 = 1 THEN LowNibble(b[(i + 1) \div 2]) ELSE HighNibble(b[i \div 2])]

\* The units of packet p, with its header.
Frame(c, p) == UnitsOn(c, Header(Len(p)) \o p)

Types ==
  /\ cable \in Cable
  /\ port \in [End -> Unit(cable)] /\ ctl1 \in [End -> BOOLEAN]
  /\ pc \in [End -> {"app", "putWait", "write", "raise", "putTaken", "lower",
                      "ready", "getWait", "read", "got", "getDone"}]
  /\ out \in [End -> Seq(Unit(cable))] /\ in \in [End -> Seq(Unit(cable))]
  /\ sent \in [End -> Seq(Data)] /\ got \in [End -> Seq(Data)]

\* What end e has on its wires.
Wires(e) ==
  /\ ctl1[e] <=> pc[e] \in {"putTaken", "lower"}
  /\ pc[e] \in {"getWait", "read", "got"} => port[e] = CtlBit
  /\ pc[e] = "getDone" => port[e] = 0
  /\ pc[e] \in {"raise", "putTaken"} => port[e] = Head(out[e])

\* Nothing is under way from end e.
Clear(e) == out[e] = <<>> /\ in[Peer(e)] = <<>> /\ got[Peer(e)] = sent[e]

\* Packet p is: its first units have arrived, and rest is to come.
UnderWay(e, p, rest) ==
  /\ sent[e] = Append(got[Peer(e)], p)
  /\ in[Peer(e)] \o rest = Frame(cable, p)

\* The units that the peer of e has not read.
UnitRead(e) == pc[e] \in {"putTaken", "lower"} /\ pc[Peer(e)] \in {"got", "getDone"}
Rest(e) == IF UnitRead(e) THEN Tail(out[e]) ELSE out[e]

\* End w will put next.
Idle(w) ==
  /\ Clear(w) /\ Clear(Peer(w))
  /\ pc[w] = "app" /\ pc[Peer(w)] \in {"ready", "getWait"}

\* End w puts a packet.
Places(p, g, ctl2) ==
  \/ p = "putWait" /\ g \in {"ready", "getWait", "getDone"}
  \/ p \in {"write", "raise"} /\ g \in {"ready", "getWait"} /\ ctl2
  \/ p = "putTaken" /\ g \in {"ready", "getWait", "read", "got"} /\ ctl2
  \/ p \in {"putTaken", "lower"} /\ g = "getDone"
Transfer(w) ==
  /\ Clear(Peer(w)) /\ out[w] # <<>>
  /\ \E p \in Data : UnderWay(w, p, Rest(w))
  /\ Places(pc[w], pc[Peer(w)], Ctl2Hi(w))

\* End w has put its packet, will get one, and its peer has yet to notice that
\* its control line is low.
Turned(w) ==
  /\ Clear(Peer(w)) /\ out[w] = <<>>
  /\ \E p \in Data : UnderWay(w, p, <<>>) /\ ~(w = "client" /\ Silent(p))
  /\ pc[w] \in {"ready", "getWait"} /\ pc[Peer(w)] = "getDone"

\* The same after a request without a reply, and the client may have begun to put
\* the next.
Ahead(w) ==
  /\ w = "client" /\ Clear(Peer(w)) /\ pc[Peer(w)] = "getDone"
  /\ \E p \in Data :
       /\ Silent(p) /\ in[Peer(w)] = Frame(cable, p)
       /\ \/ pc[w] = "app" /\ out[w] = <<>> /\ sent[w] = Append(got[Peer(w)], p)
          \/ /\ pc[w] = "putWait"
             /\ \E q \in Data : /\ out[w] = Frame(cable, q)
                                /\ sent[w] = Append(Append(got[Peer(w)], p), q)

Mode(w) == Idle(w) \/ Transfer(w) \/ Turned(w) \/ Ahead(w)

IndInv ==
  /\ Types
  /\ \A e \in End : Wires(e)
  /\ \E w \in End : Mode(w)

(***************************************************************************)
(* Arithmetic                                                              *)
(***************************************************************************)
LEMMA DivMod ==
  ASSUME NEW a \in Nat, NEW n \in Nat \ {0}
  PROVE  a = n * (a \div n) + (a % n) /\ a % n \in 0 .. n - 1 /\ a \div n \in Nat
<1>1. a % n \in 0 .. n - 1
  OBVIOUS
<1>2. a \div n \in Nat
  OBVIOUS
<1>3. a = n * (a \div n) + (a % n)
  OBVIOUS
<1>4. QED
  BY <1>1, <1>2, <1>3, Zenon

LEMMA Quotient ==
  ASSUME NEW n \in Nat \ {0}, NEW q \in Nat, NEW r \in Nat, NEW m \in Nat, n * q + r < n * m
  PROVE  q < m
<1>1. SUFFICES ASSUME q >= m PROVE FALSE
  OBVIOUS
<1>2. n * q >= n * m
  BY <1>1
<1>3. n * q \in Nat /\ n * m \in Nat
  OBVIOUS
<1>4. QED
  BY <1>2, <1>3

\* The sizes of nibbles and bytes.
LEMMA Sizes ==
  /\ NibMod \in Nat \ {0} /\ ByteMod \in Nat \ {0} /\ NibMod <= ByteMod
  /\ Half \in Nat /\ Half + Half <= ByteMod /\ Half < ByteMod
  /\ CtlBit \in Nat \ {0} /\ CtlBit < NibMod
<1>1. NibMod \in Nat /\ CtlBit \in Nat \ {0} /\ CtlBit < NibMod /\ NibMod # 0
  BY NibAssumption
<1>2. NibMod * NibMod \in Nat /\ NibMod * NibMod >= NibMod
  BY <1>1
<1>3. ByteMod \in Nat \ {0} /\ NibMod <= ByteMod
  BY <1>1, <1>2 DEF ByteMod
<1>4. Half \in Nat /\ Half + Half <= ByteMod /\ Half < ByteMod
  BY <1>3 DEF Half
<1>5. QED
  BY <1>1, <1>3, <1>4

\* A byte is its two nibbles.
LEMMA Nibbles ==
  ASSUME NEW b \in Byte
  PROVE  /\ LowNibble(b) \in 0 .. NibMod - 1 /\ HighNibble(b) \in 0 .. NibMod - 1
         /\ LowNibble(b) + NibMod * HighNibble(b) = b
<1>1. b \in Nat /\ b < ByteMod
  BY Sizes DEF Byte
<1>2. /\ b = NibMod * (b \div NibMod) + (b % NibMod)
      /\ b % NibMod \in 0 .. NibMod - 1 /\ b \div NibMod \in Nat
  BY <1>1, Sizes, DivMod
<1>3. b \div NibMod < NibMod
  <2>1. NibMod * (b \div NibMod) + (b % NibMod) < NibMod * NibMod
    BY <1>1, <1>2 DEF ByteMod
  <2>2. b % NibMod \in Nat
    BY <1>2, Sizes
  <2>3. QED
    BY <1>2, <2>1, <2>2, Sizes, Quotient
<1>4. b \div NibMod \in 0 .. NibMod - 1
  BY <1>2, <1>3, Sizes
<1>5. (b % NibMod) + NibMod * (b \div NibMod) = b
  <2>1. \A x, y \in Int : y + x = b => x + y = b
    BY <1>1
  <2>2. NibMod * (b \div NibMod) \in Int /\ b % NibMod \in Int
    BY <1>2, Sizes
  <2>3. QED
    BY <1>2, <2>1, <2>2
<1>6. QED
  BY <1>2, <1>4, <1>5 DEF LowNibble, HighNibble

(***************************************************************************)
(* Packets                                                                 *)
(***************************************************************************)
LEMMA DataFacts ==
  ASSUME NEW p \in Data
  PROVE  /\ p \in Seq(Payload) /\ p \in Seq(Byte) /\ Len(p) \in Nat
         /\ Len(p) < Half * ByteMod
<1>1. PICK m \in 0 .. MaxLen : p \in [1 .. m -> Payload]
  BY DEF Data, BoundedSeq, SeqOf
<1>2. MaxLen \in Nat /\ MaxLen < Half * ByteMod
  <2>1. Half * ByteMod \in Nat
    BY Sizes
  <2>2. QED
    BY <2>1, LenAssumption
<1>3. p \in Seq(Payload) /\ Len(p) = m
  BY <1>1, <1>2
<1>4. Payload \subseteq Byte
  BY PayloadAssumption DEF Byte
<1>5. p \in Seq(Byte)
  BY <1>3, <1>4
<1>6. Half * ByteMod \in Nat
  BY Sizes
<1>7. QED
  BY <1>1, <1>2, <1>3, <1>5, <1>6

\* The header holds the length.
LEMMA HeaderFacts ==
  ASSUME NEW n \in Nat, n < Half * ByteMod
  PROVE  /\ Header(n) \in Seq(Byte)
         /\ n < Half => Len(Header(n)) = 1 /\ Header(n)[1] = n
         /\ n >= Half => /\ Len(Header(n)) = 2 /\ Header(n)[1] >= Half
                         /\ (Header(n)[1] - Half) * ByteMod + Header(n)[2] = n
<1>1. CASE n < Half
  <2>1. Header(n) = <<n>>
    BY <1>1, Sizes DEF Header
  <2>2. n \in Byte
    BY <1>1, Sizes DEF Byte
  <2>3. QED
    BY <1>1, <2>1, <2>2, Sizes
<1>2. CASE n >= Half
  <2> DEFINE q == n \div ByteMod
  <2> DEFINE r == n % ByteMod
  <2>1. Header(n) = <<Half + q, r>>
    BY <1>2, Sizes DEF Header
  <2>2. n = ByteMod * q + r /\ r \in 0 .. ByteMod - 1 /\ q \in Nat
    BY Sizes, DivMod
  <2> HIDE DEF q, r
  <2>3. q < Half
    <3>1. r \in Nat
      BY <2>2, Sizes
    <3>2. Half * ByteMod = ByteMod * Half
      BY Sizes
    <3>3. ByteMod * q + r < ByteMod * Half
      BY <2>2, <3>2
    <3>4. QED
      BY <2>2, <3>1, <3>3, Sizes, Quotient
  <2>4. Half + q \in Byte /\ r \in Byte /\ Half + q >= Half /\ (Half + q) - Half = q
    BY <2>2, <2>3, Sizes DEF Byte
  <2>5. q * ByteMod + r = n
    BY <2>2, Sizes
  <2>6. /\ Len(<<Half + q, r>>) = 2 /\ <<Half + q, r>>[1] = Half + q /\ <<Half + q, r>>[2] = r
        /\ <<Half + q, r>> \in Seq(Byte)
    BY <2>4
  <2>7. QED
    BY <1>2, <2>1, <2>4, <2>5, <2>6, Sizes
<1>3. QED
  BY <1>1, <1>2, Sizes

\* What the receiver makes of the first bytes of a packet.
LEMMA PartOfPacket ==
  ASSUME NEW p \in Data, NEW k, k = Header(Len(p)) \o p,
         NEW b \in Seq(Byte), Len(b) <= Len(k), \A i \in 1 .. Len(b) : b[i] = k[i]
  PROVE  /\ Complete(b) <=> Len(b) = Len(k)
         /\ Len(b) = Len(k) => Body(b) = p
<1> DEFINE n == Len(p)
<1> DEFINE h == Header(n)
<1>1. n \in Nat /\ n < Half * ByteMod /\ p \in Seq(Byte)
  BY DataFacts
<1>2. /\ h \in Seq(Byte)
      /\ n < Half => Len(h) = 1 /\ h[1] = n
      /\ n >= Half => Len(h) = 2 /\ h[1] >= Half /\ (h[1] - Half) * ByteMod + h[2] = n
  BY <1>1, HeaderFacts
<1>3. k = h \o p /\ n = Len(p)
  OBVIOUS
<1> HIDE DEF n, h
<1>4. /\ Len(h) = 1 \/ Len(h) = 2
      /\ Len(k) = Len(h) + n /\ Len(k) \in Nat
      /\ \A i \in 1 .. Len(h) : k[i] = h[i]
      /\ \A i \in 1 .. n : k[Len(h) + i] = p[i]
  BY <1>1, <1>2, <1>3, Sizes
<1>4a. Len(h) \in Nat /\ Len(h) >= 1
  BY ONLY <1>4
<1>5. Len(b) \in Nat /\ (b = <<>> <=> Len(b) = 0)
  BY EmptySeq
<1>6. b # <<>> => b[1] = h[1]
  <2>1. SUFFICES ASSUME b # <<>> PROVE b[1] = h[1]
    OBVIOUS
  <2>2. 1 \in 1 .. Len(b)
    BY <1>5, <2>1
  <2>3. 1 \in 1 .. Len(h)
    BY ONLY <1>4a
  <2>4. QED
    BY <1>4, <2>2, <2>3
<1>7. HeaderLen(b) = Len(h) \/ b = <<>>
  BY <1>1, <1>2, <1>6, Sizes DEF HeaderLen, Long
<1>8. Len(b) >= Len(h) => PacketLen(b) = n /\ HeaderLen(b) = Len(h)
  <2>1. SUFFICES ASSUME Len(b) >= Len(h) PROVE PacketLen(b) = n /\ HeaderLen(b) = Len(h)
    OBVIOUS
  <2>2. b # <<>> /\ HeaderLen(b) = Len(h) /\ b[1] = h[1]
    <3>1. Len(b) # 0
      BY ONLY <1>4a, <1>5, <2>1
    <3>2. b # <<>>
      BY <1>5, <3>1, Zenon
    <3>3. QED
      BY <1>6, <1>7, <3>2, Zenon
  <2>3. Len(h) = 2 => b[2] = h[2]
    BY <1>4, <1>5, <2>1
  <2>4. QED
    BY <1>1, <1>2, <2>2, <2>3, Sizes DEF PacketLen, Long
<1>9. Complete(b) <=> Len(b) = Len(k)
  <2>1. b = <<>> => HeaderLen(b) = 1
    BY DEF HeaderLen, Long
  <2>2. QED
    BY <1>1, <1>4, <1>5, <1>7, <1>8, <2>1 DEF Complete
<1>10. Len(b) = Len(k) => Body(b) = p
  <2>1. SUFFICES ASSUME Len(b) = Len(k) PROVE Body(b) = p
    OBVIOUS
  <2>2. Body(b) = SubSeq(b, Len(h) + 1, Len(b))
    <3>1. Len(b) >= Len(h)
      BY <1>1, <1>4, <2>1
    <3>2. QED
      BY ONLY <3>1, <1>8 DEF Body
  <2>3. /\ Len(SubSeq(b, Len(h) + 1, Len(b))) = n /\ SubSeq(b, Len(h) + 1, Len(b)) \in Seq(Byte)
        /\ \A i \in 1 .. n : SubSeq(b, Len(h) + 1, Len(b))[i] = b[Len(h) + i]
    <3>1. Len(b) = Len(h) + n /\ Len(h) \in Nat /\ n \in Nat /\ b \in Seq(Byte)
      BY <1>1, <1>4, <1>4a, <2>1
    <3>2. QED
      BY ONLY <3>1
  <2>4. \A i \in 1 .. n : b[Len(h) + i] = p[i]
    BY <1>1, <1>4, <2>1
  <2>5. \A s, t \in Seq(Byte) : Len(s) = Len(t) /\ (\A i \in 1 .. Len(s) : s[i] = t[i]) => s = t
    BY SeqEqual
  <2>6. QED
    BY <1>1, <1>3, <2>2, <2>3, <2>4, <2>5
<1>11. QED
  BY <1>9, <1>10

\* The units of bytes k.
LEMMA UnitFacts ==
  ASSUME NEW c \in Cable, NEW k \in Seq(Byte)
  PROVE  /\ UnitsOn(c, k) \in Seq(Unit(c))
         /\ c = "watcom" => UnitsOn(c, k) = k
         /\ c # "watcom" =>
              /\ Len(UnitsOn(c, k)) = 2 * Len(k)
              /\ \A i \in 1 .. Len(k) : /\ UnitsOn(c, k)[2 * i - 1] = LowNibble(k[i])
                                        /\ UnitsOn(c, k)[2 * i] = HighNibble(k[i])
<1>0. Len(k) \in Nat /\ \A i \in 1 .. Len(k) : k[i] \in Byte
  OBVIOUS
<1>1. CASE c = "watcom"
  <2>1. UnitsOn(c, k) = [i \in 1 .. 1 * Len(k) |-> k[i]]
    BY <1>1 DEF UnitsOn
  <2>2. 1 * Len(k) = Len(k)
    BY <1>0
  <2>3. [i \in 1 .. Len(k) |-> k[i]] = k
    OBVIOUS
  <2>4. QED
    BY <1>1, <2>1, <2>2, <2>3 DEF Unit
<1>2. CASE c # "watcom"
  <2> DEFINE u(i) == IF i % 2 = 1 THEN LowNibble(k[(i + 1) \div 2]) ELSE HighNibble(k[i \div 2])
  <2>1. UnitsOn(c, k) = [i \in 1 .. 2 * Len(k) |-> u(i)] /\ Unit(c) = 0 .. NibMod - 1
    BY <1>2 DEF UnitsOn, Unit
  <2>2. ASSUME NEW i \in 1 .. 2 * Len(k)
        PROVE  u(i) \in 0 .. NibMod - 1
    <3>1. i % 2 = 1 => (i + 1) \div 2 \in 1 .. Len(k)
      BY <1>0
    <3>2. i % 2 # 1 => i \div 2 \in 1 .. Len(k)
      BY <1>0
    <3>3. QED
      BY <1>0, <3>1, <3>2, Nibbles
  <2>3. ASSUME NEW i \in 1 .. Len(k)
        PROVE  /\ 2 * i - 1 \in 1 .. 2 * Len(k) /\ 2 * i \in 1 .. 2 * Len(k)
               /\ u(2 * i - 1) = LowNibble(k[i]) /\ u(2 * i) = HighNibble(k[i])
    <3>1. 2 * i - 1 \in 1 .. 2 * Len(k) /\ 2 * i \in 1 .. 2 * Len(k)
      BY <1>0
    <3>2. (2 * i - 1) % 2 = 1 /\ ((2 * i - 1) + 1) \div 2 = i
      BY <1>0
    <3>3. (2 * i) % 2 # 1 /\ (2 * i) \div 2 = i
      BY <1>0
    <3>4. QED
      BY <3>1, <3>2, <3>3
  <2>4. 2 * Len(k) \in Nat
    BY <1>0
  <2> HIDE DEF u
  <2>5. /\ UnitsOn(c, k) \in Seq(Unit(c)) /\ Len(UnitsOn(c, k)) = 2 * Len(k)
        /\ \A i \in 1 .. 2 * Len(k) : UnitsOn(c, k)[i] = u(i)
    BY <2>1, <2>2, <2>4
  <2>6. QED
    BY <1>2, <2>3, <2>5
<1>3. QED
  BY <1>1, <1>2

\* Units make the bytes they were made of.
LEMMA BytesOfUnits ==
  ASSUME cable \in Cable, NEW k \in Seq(Byte), NEW s \in Seq(Unit(cable)),
         NEW j \in Nat, j <= Len(k), Len(s) = PerByte * j,
         \A i \in 1 .. Len(s) : s[i] = UnitsOn(cable, k)[i]
  PROVE  Bytes(s) \in Seq(Byte) /\ Len(Bytes(s)) = j /\ \A i \in 1 .. j : Bytes(s)[i] = k[i]
<1>0. Len(k) \in Nat /\ \A i \in 1 .. Len(k) : k[i] \in Byte
  OBVIOUS
<1>1. CASE cable = "watcom"
  <2>1. Len(s) = j /\ Len(s) \div PerByte = j /\ UnitsOn(cable, k) = k
    BY <1>1, UnitFacts DEF PerByte
  <2>2. Bytes(s) = [i \in 1 .. j |-> s[i]]
    BY <1>1, <2>1 DEF Bytes
  <2>3. \A i \in 1 .. j : s[i] = k[i] /\ k[i] \in Byte
    BY <1>0, <2>1
  <2>4. QED
    BY <2>2, <2>3
<1>2. CASE cable # "watcom"
  <2>1. Len(s) = 2 * j /\ Len(s) \div PerByte = j
    BY <1>2 DEF PerByte
  <2>2. Bytes(s) = [i \in 1 .. j |-> s[2 * i - 1] + NibMod * s[2 * i]]
    BY <1>2, <2>1 DEF Bytes
  <2>3. ASSUME NEW i \in 1 .. j
        PROVE  s[2 * i - 1] + NibMod * s[2 * i] = k[i] /\ k[i] \in Byte
    <3>1. i \in 1 .. Len(k) /\ 2 * i - 1 \in 1 .. Len(s) /\ 2 * i \in 1 .. Len(s)
      BY <1>0, <2>1
    <3>2. s[2 * i - 1] = LowNibble(k[i]) /\ s[2 * i] = HighNibble(k[i])
      BY <1>2, <3>1, UnitFacts
    <3>3. QED
      BY <1>0, <3>1, <3>2, Nibbles
  <2> DEFINE f(i) == s[2 * i - 1] + NibMod * s[2 * i]
  <2>4. Bytes(s) = [i \in 1 .. j |-> f(i)] /\ \A i \in 1 .. j : f(i) = k[i] /\ f(i) \in Byte
    BY <2>2, <2>3
  <2> HIDE DEF f
  <2>5. QED
    BY <2>4
<1>3. QED
  BY <1>1, <1>2

\* A packet has units, at least one.
LEMMA FrameFacts ==
  ASSUME NEW c \in Cable, NEW p \in Data
  PROVE  Frame(c, p) \in Seq(Unit(c)) /\ Frame(c, p) # <<>>
<1> DEFINE k == Header(Len(p)) \o p
<1>1. Header(Len(p)) \in Seq(Byte) /\ Len(Header(Len(p))) >= 1 /\ p \in Seq(Byte)
  <2>1. Len(p) \in Nat /\ Len(p) < Half * ByteMod /\ p \in Seq(Byte)
    BY DataFacts
  <2>2. QED
    BY <2>1, HeaderFacts, Sizes
<1>2. k \in Seq(Byte) /\ Len(k) \in Nat /\ Len(k) >= 1
  BY <1>1
<1>3. Frame(c, p) = UnitsOn(c, k)
  BY DEF Frame
<1> HIDE DEF k
<1>4. UnitsOn(c, k) \in Seq(Unit(c)) /\ Len(UnitsOn(c, k)) >= 1
  BY <1>2, UnitFacts
<1>5. Len(<<>>) = 0
  OBVIOUS
<1>6. QED
  BY <1>3, <1>4, <1>5

\* DataGet takes a packet for complete when it is, and not before.
LEMMA Arrived ==
  ASSUME cable \in Cable, NEW p \in Data,
         NEW s \in Seq(Unit(cable)), NEW r \in Seq(Unit(cable)), s \o r = Frame(cable, p)
  PROVE  /\ (Len(s) % PerByte = 0 /\ Complete(Bytes(s))) <=> r = <<>>
         /\ r = <<>> => Body(Bytes(s)) = p
<1> DEFINE k == Header(Len(p)) \o p
<1> DEFINE u == UnitsOn(cable, k)
<1>1. Header(Len(p)) \in Seq(Byte) /\ p \in Seq(Byte)
  <2>1. Len(p) \in Nat /\ Len(p) < Half * ByteMod /\ p \in Seq(Byte)
    BY DataFacts
  <2>2. QED
    BY <2>1, HeaderFacts
<1>2. k \in Seq(Byte) /\ Len(k) \in Nat
  BY <1>1
<1>3. s \o r = u
  BY DEF Frame
<1>4. k = Header(Len(p)) \o p
  OBVIOUS
<1>5. u = UnitsOn(cable, k)
  OBVIOUS
<1> HIDE DEF k, u
<1>6. u \in Seq(Unit(cable)) /\ Len(u) = PerByte * Len(k) /\ PerByte \in {1, 2}
  BY <1>2, <1>5, UnitFacts DEF PerByte
<1>7. /\ Len(s) \in Nat /\ Len(r) \in Nat /\ Len(s) + Len(r) = PerByte * Len(k)
      /\ \A i \in 1 .. Len(s) : s[i] = u[i]
  BY <1>3, <1>6
<1>8. Len(r) = 0 <=> r = <<>>
  BY EmptySeq
<1>9. ASSUME NEW j \in Nat, Len(s) = PerByte * j
      PROVE  /\ Complete(Bytes(s)) <=> j = Len(k)
             /\ j = Len(k) => Body(Bytes(s)) = p
  <2>1. j <= Len(k)
    BY <1>2, <1>6, <1>7, <1>9
  <2>2. Bytes(s) \in Seq(Byte) /\ Len(Bytes(s)) = j /\ \A i \in 1 .. j : Bytes(s)[i] = k[i]
    BY <1>2, <1>5, <1>7, <1>9, <2>1, BytesOfUnits
  <2>3. QED
    BY <1>4, <2>1, <2>2, PartOfPacket
<1>10. ASSUME Len(s) % PerByte = 0
       PROVE  \E j \in Nat : Len(s) = PerByte * j
  <2>1. PerByte = 1 => Len(s) = PerByte * Len(s)
    BY <1>7
  <2>2. PerByte = 2 => Len(s) \div 2 \in Nat /\ Len(s) = PerByte * (Len(s) \div 2)
    BY <1>7, <1>10
  <2>3. QED
    BY <1>6, <1>7, <2>1, <2>2
<1>11. r = <<>> => Len(s) = PerByte * Len(k) /\ Len(s) % PerByte = 0
  BY <1>2, <1>6, <1>7, <1>8
<1>12. r = <<>> => Complete(Bytes(s)) /\ Body(Bytes(s)) = p
  BY <1>2, <1>9, <1>11
<1>13. ASSUME Len(s) % PerByte = 0, Complete(Bytes(s))
       PROVE  r = <<>>
  <2>1. PICK j \in Nat : Len(s) = PerByte * j
    BY <1>10, <1>13
  <2>2. j = Len(k)
    BY <1>9, <1>13, <2>1
  <2>3. Len(r) = 0
    BY <1>6, <1>7, <2>1, <2>2
  <2>4. QED
    BY <1>8, <2>3
<1>14. QED
  BY <1>11, <1>12, <1>13

(***************************************************************************)
(* Where the two ends can be                                               *)
(***************************************************************************)
LEMMA Ends ==
  ASSUME NEW e \in End
  PROVE  /\ Peer(e) \in End /\ Peer(Peer(e)) = e /\ Peer(e) # e
         /\ \A x \in End : x = e \/ x = Peer(e)
BY DEF End, Peer

\* What the values on a port mean to the peer.
LEMMA Signals ==
  ASSUME cable \in Cable, NEW e \in End
  PROVE  /\ 0 \in Unit(cable) /\ CtlBit \in Unit(cable) /\ Unit(cable) \subseteq Byte
         /\ port[Peer(e)] = 0 => ~Ctl2Hi(e)
         /\ port[Peer(e)] = CtlBit => Ctl2Hi(e)
<1>1. 0 \in Unit(cable) /\ CtlBit \in Unit(cable) /\ Unit(cable) \subseteq Byte
  BY Sizes DEF Unit, Byte
<1>2. (0 \div CtlBit) % 2 # 1 /\ (CtlBit \div CtlBit) % 2 = 1
  <2>1. 0 \div CtlBit = 0 /\ CtlBit \div CtlBit = 1
    BY Sizes
  <2>2. QED
    BY <2>1
<1>3. QED
  BY <1>1, <1>2 DEF Ctl2Hi

\* Control line 1 as it is read: on every cable that of the peer, when one's own is low.
LEMMA Strobe ==
  ASSUME NEW e \in End, Types, ~ctl1[e]
  PROVE  Ctl1Hi(e) <=> ctl1[Peer(e)]
BY Ends DEF Types, Ctl1Hi

\* A place of one end tells the mode.
LEMMA Where ==
  ASSUME IndInv, NEW e \in End
  PROVE  /\ pc[e] = "app" => Idle(e) \/ Ahead(e)
         /\ pc[e] = "putWait" => Transfer(e) \/ Ahead(e)
         /\ pc[e] \in {"write", "raise", "putTaken", "lower"} => Transfer(e)
         /\ pc[e] \in {"ready", "getWait"} => Idle(Peer(e)) \/ Transfer(Peer(e)) \/ Turned(e)
         /\ pc[e] \in {"read", "got"} => Transfer(Peer(e))
         /\ pc[e] = "getDone" => Transfer(Peer(e)) \/ Turned(Peer(e)) \/ Ahead(Peer(e))
<1>1. PICK w \in End : Mode(w)
  BY DEF IndInv
<1>2. w = e \/ w = Peer(e)
  BY <1>1, Ends
<1>3. CASE w = e
  BY <1>1, <1>3 DEF Mode, Idle, Transfer, Turned, Ahead, Places
<1>4. CASE w = Peer(e)
  <2>1. Peer(w) = e
    BY <1>4, Ends
  <2>2. QED
    BY <1>1, <1>4, <2>1 DEF Mode, Idle, Transfer, Turned, Ahead, Places
<1>5. QED
  BY <1>2, <1>3, <1>4

\* Units move from one end to the other.
LEMMA Shift ==
  ASSUME NEW S, NEW s \in Seq(S), NEW o \in Seq(S), o # <<>>
  PROVE  /\ Head(o) \in S /\ Tail(o) \in Seq(S)
         /\ Append(s, Head(o)) \in Seq(S) /\ Append(s, Head(o)) \o Tail(o) = s \o o
         /\ Len(o) = 1 <=> Tail(o) = <<>>
<1>1. Len(o) \in Nat \ {0} /\ Head(o) \in S /\ Tail(o) \in Seq(S) /\ Len(Tail(o)) = Len(o) - 1
  BY EmptySeq
<1>2. Len(o) = 1 <=> Tail(o) = <<>>
  <2>1. Tail(o) # <<>> => Len(Tail(o)) \in Nat \ {0}
    BY <1>1, EmptySeq
  <2>2. Tail(o) = <<>> => Len(Tail(o)) = 0
    BY EmptySeq, Zenon
  <2>3. Tail(o) = <<>> <=> Len(Tail(o)) = 0
    BY <2>1, <2>2
  <2>4. Len(o) = 1 <=> Len(Tail(o)) = 0
    BY <1>1
  <2>5. QED
    BY ONLY <2>3, <2>4
<1>3. Append(s, Head(o)) \in Seq(S) /\ Append(s, Head(o)) \o Tail(o) \in Seq(S) /\ s \o o \in Seq(S)
  BY <1>1
<1>4. /\ Len(Append(s, Head(o)) \o Tail(o)) = Len(s \o o)
      /\ \A i \in 1 .. Len(s \o o) : (Append(s, Head(o)) \o Tail(o))[i] = (s \o o)[i]
  BY <1>1
<1>5. Append(s, Head(o)) \o Tail(o) = s \o o
  BY <1>3, <1>4, SeqEqual
<1>6. QED
  BY <1>1, <1>2, <1>3, <1>5

(***************************************************************************)
(* Every step keeps the invariant                                          *)
(***************************************************************************)
LEMMA StartPutStep ==
  ASSUME IndInv, NEW e \in End, StartPut(e)
  PROVE  IndInv'
<1> DEFINE g == Peer(e)
<1>1. PICK p \in Data :
        /\ e = "client" => p # <<>>
        /\ sent' = [sent EXCEPT ![e] = Append(@, p)]
        /\ out' = [out EXCEPT ![e] = Units(Header(Len(p)) \o p)]
  BY DEF StartPut
<1>2. pc[e] = "app" /\ pc' = [pc EXCEPT ![e] = "putWait"] /\ UNCHANGED <<cable, wires, in, got>>
  BY DEF StartPut, Goto
<1>3. Units(Header(Len(p)) \o p) = Frame(cable, p)
  BY DEF Units, Frame, UnitsOn, PerByte
<1>4. Types /\ (\A x \in End : Wires(x)) /\ cable \in Cable
  BY DEF IndInv, Types
<1>5. Frame(cable, p) \in Seq(Unit(cable)) /\ Frame(cable, p) # <<>>
  BY <1>4, FrameFacts
<1>6. g \in End /\ g # e /\ Peer(g) = e /\ \A x \in End : x = e \/ x = g
  BY Ends
<1>7. e = "client" <=> g = "server"
  BY DEF End, Peer
<1> HIDE DEF g
<1>8. Types'
  BY <1>1, <1>2, <1>3, <1>4, <1>5 DEF Types, wires
<1>9. ASSUME NEW x \in End PROVE Wires(x)'
  BY <1>1, <1>2, <1>4, <1>6 DEF Wires, Types, wires
<1>10. CASE Idle(e)
  <2>1. /\ out'[e] = Frame(cable, p) /\ out'[g] = out[g] /\ sent'[e] = Append(sent[e], p)
        /\ sent'[g] = sent[g] /\ pc'[e] = "putWait" /\ pc'[g] = pc[g]
    BY <1>1, <1>2, <1>3, <1>4, <1>6 DEF Types
  <2>2. Clear(e) /\ Clear(g) /\ pc[g] \in {"ready", "getWait"}
    BY <1>10 DEF Idle, g
  <2>3. Clear(g)'
    BY <1>2, <1>6, <2>1, <2>2 DEF Clear
  <2>4. in[g] \o Frame(cable, p) = Frame(cable, p)
    <3>1. in[g] = <<>>
      BY <2>2 DEF Clear, g
    <3>2. <<>> \o Frame(cable, p) = Frame(cable, p)
      BY <1>5
    <3>3. QED
      BY <3>1, <3>2
  <2>5. UnderWay(e, p, Rest(e))'
    BY <1>2, <1>6, <2>1, <2>2, <2>4 DEF Clear, UnderWay, Rest, UnitRead, g
  <2>6. Transfer(e)'
    BY <1>5, <1>6, <2>1, <2>2, <2>3, <2>5 DEF Transfer, Places, g
  <2>7. QED
    BY <1>8, <1>9, <2>6 DEF IndInv, Mode
<1>11. CASE Ahead(e)
  <2>1. /\ out'[e] = Frame(cable, p) /\ out'[g] = out[g] /\ sent'[e] = Append(sent[e], p)
        /\ sent'[g] = sent[g] /\ pc'[e] = "putWait" /\ pc'[g] = pc[g]
    BY <1>1, <1>2, <1>3, <1>4, <1>6 DEF Types
  <2>2. Ahead(e)'
    BY <1>2, <1>6, <1>11, <2>1 DEF Ahead, Clear, g
  <2>3. QED
    BY <1>8, <1>9, <2>2 DEF IndInv, Mode
<1>12. QED
  BY <1>2, <1>10, <1>11, Where

LEMMA PeerReadyStep ==
  ASSUME IndInv, NEW e \in End, PeerReady(e)
  PROVE  IndInv'
<1> DEFINE g == Peer(e)
<1>1. /\ pc[e] = "putWait" /\ Ctl2Hi(e) /\ pc' = [pc EXCEPT ![e] = "write"]
      /\ UNCHANGED <<cable, wires, out, in, sent, got>>
  BY DEF PeerReady, Goto
<1>2. Types /\ (\A x \in End : Wires(x)) /\ cable \in Cable
  BY DEF IndInv, Types
<1>3. g \in End /\ g # e /\ Peer(g) = e /\ \A x \in End : x = e \/ x = g
  BY Ends
<1> HIDE DEF g
<1>4. Types'
  BY <1>1, <1>2 DEF Types, wires
<1>5. ASSUME NEW x \in End PROVE Wires(x)'
  BY <1>1, <1>2, <1>3 DEF Wires, Types, wires
<1>6. pc[g] # "getDone"
  BY <1>1, <1>2, <1>3, Signals DEF Wires, g
<1>7. Transfer(e)
  BY <1>1, <1>6, Where DEF Ahead, g
<1>8. pc'[e] = "write" /\ pc'[g] = pc[g] /\ pc[g] \in {"ready", "getWait"}
  BY <1>1, <1>2, <1>3, <1>6, <1>7 DEF Types, Transfer, Places, g
<1>9. Transfer(e)'
  BY <1>1, <1>7, <1>8 DEF Transfer, Places, Clear, UnderWay, Rest, UnitRead, Ctl2Hi, wires, g
<1>10. QED
  BY <1>4, <1>5, <1>9 DEF IndInv, Mode

LEMMA WriteStep ==
  ASSUME IndInv, NEW e \in End, Write(e)
  PROVE  IndInv'
<1> DEFINE g == Peer(e)
<1> DEFINE l == IF cable = "laplink" THEN "putTaken" ELSE "raise"
<1>1. /\ pc[e] = "write" /\ port' = [port EXCEPT ![e] = Head(out[e])]
      /\ ctl1' = [ctl1 EXCEPT ![e] = IF cable = "laplink" THEN TRUE ELSE @]
      /\ pc' = [pc EXCEPT ![e] = l]
      /\ UNCHANGED <<cable, out, in, sent, got>>
  BY DEF Write, Goto, OutpData, Outp, SetCtl1, IndInv, Types
<1>2. Types /\ (\A x \in End : Wires(x)) /\ cable \in Cable
  BY DEF IndInv, Types
<1>3. g \in End /\ g # e /\ Peer(g) = e /\ \A x \in End : x = e \/ x = g
  BY Ends
<1> HIDE DEF g
<1>4. Transfer(e) /\ out[e] # <<>> /\ out[e] \in Seq(Unit(cable))
  BY <1>1, <1>2, Where DEF Transfer, Types
<1>5. Head(out[e]) \in Unit(cable)
  BY <1>4, Shift, EmptySeq
<1>6. Types'
  BY <1>1, <1>2, <1>5 DEF Types
<1>7. ASSUME NEW x \in End PROVE Wires(x)'
  BY <1>1, <1>2, <1>3 DEF Wires, Types
<1>8. /\ pc'[e] \in {"raise", "putTaken"} /\ pc'[g] = pc[g] /\ port'[g] = port[g]
      /\ pc[g] \in {"ready", "getWait"} /\ Ctl2Hi(e)
  BY <1>1, <1>2, <1>3, <1>4 DEF Types, Transfer, Places, g
<1>9. Transfer(e)'
  BY <1>1, <1>4, <1>8 DEF Transfer, Places, Clear, UnderWay, Rest, UnitRead, Ctl2Hi, g
<1>10. QED
  BY <1>6, <1>7, <1>9 DEF IndInv, Mode

LEMMA RaiseCtl1Step ==
  ASSUME IndInv, NEW e \in End, RaiseCtl1(e)
  PROVE  IndInv'
<1> DEFINE g == Peer(e)
<1>1. /\ pc[e] = "raise" /\ ctl1' = [ctl1 EXCEPT ![e] = TRUE]
      /\ pc' = [pc EXCEPT ![e] = "putTaken"]
      /\ UNCHANGED <<cable, port, out, in, sent, got>>
  BY DEF RaiseCtl1, Goto, SetCtl1
<1>2. Types /\ (\A x \in End : Wires(x)) /\ cable \in Cable
  BY DEF IndInv, Types
<1>3. g \in End /\ g # e /\ Peer(g) = e /\ \A x \in End : x = e \/ x = g
  BY Ends
<1> HIDE DEF g
<1>4. Transfer(e)
  BY <1>1, Where
<1>5. Types'
  BY <1>1, <1>2 DEF Types
<1>6. ASSUME NEW x \in End PROVE Wires(x)'
  BY <1>1, <1>2, <1>3 DEF Wires, Types
<1>7. /\ pc'[e] = "putTaken" /\ pc'[g] = pc[g]
      /\ pc[g] \in {"ready", "getWait"} /\ Ctl2Hi(e)
  BY <1>1, <1>2, <1>3, <1>4 DEF Types, Transfer, Places, g
<1>8. Transfer(e)'
  BY <1>1, <1>4, <1>7 DEF Transfer, Places, Clear, UnderWay, Rest, UnitRead, Ctl2Hi, g
<1>9. QED
  BY <1>5, <1>6, <1>8 DEF IndInv, Mode

LEMMA PeerTookStep ==
  ASSUME IndInv, NEW e \in End, PeerTook(e)
  PROVE  IndInv'
<1> DEFINE g == Peer(e)
<1>1. /\ pc[e] = "putTaken" /\ ~Ctl2Hi(e) /\ pc' = [pc EXCEPT ![e] = "lower"]
      /\ UNCHANGED <<cable, wires, out, in, sent, got>>
  BY DEF PeerTook, Goto, Taken
<1>2. Types /\ (\A x \in End : Wires(x)) /\ cable \in Cable
  BY DEF IndInv, Types
<1>3. g \in End /\ g # e /\ Peer(g) = e /\ \A x \in End : x = e \/ x = g
  BY Ends
<1> HIDE DEF g
<1>4. Types'
  BY <1>1, <1>2 DEF Types, wires
<1>5. ASSUME NEW x \in End PROVE Wires(x)'
  BY <1>1, <1>2, <1>3 DEF Wires, Types, wires
<1>6. Transfer(e)
  BY <1>1, Where
<1>7. pc'[e] = "lower" /\ pc'[g] = pc[g] /\ pc[g] = "getDone"
  BY <1>1, <1>2, <1>3, <1>6 DEF Types, Transfer, Places, g
<1>8. Transfer(e)'
  BY <1>1, <1>6, <1>7 DEF Transfer, Places, Clear, UnderWay, Rest, UnitRead, wires, g
<1>9. QED
  BY <1>4, <1>5, <1>8 DEF IndInv, Mode

LEMMA LowerCtl1Step ==
  ASSUME IndInv, NEW e \in End, LowerCtl1(e)
  PROVE  IndInv'
<1> DEFINE g == Peer(e)
<1> DEFINE l == IF Len(out[e]) = 1 THEN AfterPut(e) ELSE "putWait"
<1>1. /\ pc[e] = "lower" /\ ctl1' = [ctl1 EXCEPT ![e] = FALSE]
      /\ port' = [port EXCEPT ![e] = IF cable = "laplink" THEN 0 ELSE @]
      /\ out' = [out EXCEPT ![e] = Tail(@)]
      /\ pc' = [pc EXCEPT ![e] = l]
      /\ UNCHANGED <<cable, in, sent, got>>
  BY DEF LowerCtl1, Goto, Outp, SetCtl1, IndInv, Types
<1>2. Types /\ (\A x \in End : Wires(x)) /\ cable \in Cable
  BY DEF IndInv, Types
<1>3. g \in End /\ g # e /\ Peer(g) = e /\ \A x \in End : x = e \/ x = g
  BY Ends
<1>4. l \in {"app", "ready", "putWait"}
  BY DEF AfterPut
<1>5. l = "putWait" <=> Len(out[e]) # 1
  BY DEF AfterPut
<1>6. Len(out[e]) = 1 => l = AfterPut(e)
  OBVIOUS
<1> HIDE DEF g, l
<1>7. Transfer(e) /\ out[e] # <<>> /\ out[e] \in Seq(Unit(cable)) /\ in[g] \in Seq(Unit(cable))
  BY <1>1, <1>2, <1>3, Where DEF Transfer, Types
<1>8. /\ Tail(out[e]) \in Seq(Unit(cable)) /\ (Len(out[e]) = 1 <=> Tail(out[e]) = <<>>)
  BY <1>7, Shift
<1>9. Types'
  BY <1>1, <1>2, <1>4, <1>8, Signals DEF Types
<1>10. ASSUME NEW x \in End PROVE Wires(x)'
  BY <1>1, <1>2, <1>3, <1>4 DEF Wires, Types
<1>11. /\ pc'[e] = l /\ pc'[g] = pc[g] /\ pc[g] = "getDone" /\ out'[e] = Tail(out[e])
       /\ out'[g] = out[g]
  BY <1>1, <1>2, <1>3, <1>7 DEF Types, Transfer, Places, g
<1>12. Clear(g) /\ Clear(g)'
  BY <1>1, <1>3, <1>7, <1>11 DEF Transfer, Clear, g
<1>13. PICK p \in Data : UnderWay(e, p, Tail(out[e]))
  BY <1>1, <1>7, <1>11 DEF Transfer, Rest, UnitRead, g
<1>14. CASE Len(out[e]) # 1
  <2>1. pc'[e] = "putWait" /\ out'[e] # <<>>
    BY <1>5, <1>8, <1>11, <1>14
  <2>2. UnderWay(e, p, Rest(e))'
    BY <1>1, <1>11, <1>13, <2>1 DEF UnderWay, Rest, UnitRead
  <2>3. Transfer(e)'
    BY <1>11, <1>12, <2>1, <2>2 DEF Transfer, Places, g
  <2>4. QED
    BY <1>9, <1>10, <2>3 DEF IndInv, Mode
<1>15. CASE Len(out[e]) = 1
  <2>1. out'[e] = <<>> /\ UnderWay(e, p, <<>>) /\ pc'[e] = AfterPut(e)
    BY <1>6, <1>8, <1>11, <1>13, <1>15
  <2>2. Last(sent[e]) = p
    <3>1. sent[e] = Append(got[g], p) /\ got[g] \in Seq(Data)
      BY <1>2, <1>3, <1>13 DEF UnderWay, Types, g
    <3>2. Len(Append(got[g], p)) = Len(got[g]) + 1 /\ Append(got[g], p)[Len(got[g]) + 1] = p
      BY <3>1
    <3>3. QED
      BY <3>1, <3>2 DEF Last
  <2>3. CASE e = "client" /\ Silent(p)
    <3>1. pc'[e] = "app"
      BY <2>1, <2>2, <2>3 DEF AfterPut
    <3>2. in[g] = Frame(cable, p) /\ sent[e] = Append(got[g], p)
      <4>1. in[g] \o <<>> = Frame(cable, p) /\ sent[e] = Append(got[g], p)
        BY <2>1 DEF UnderWay, g
      <4>2. in[g] \o <<>> = in[g]
        BY <1>7
      <4>3. QED
        BY <4>1, <4>2
    <3>3. Ahead(e)'
      BY <1>1, <1>11, <1>12, <2>1, <2>3, <3>1, <3>2 DEF Ahead, g
    <3>4. QED
      BY <1>9, <1>10, <3>3 DEF IndInv, Mode
  <2>4. CASE ~(e = "client" /\ Silent(p))
    <3>1. pc'[e] = "ready"
      BY <2>1, <2>2, <2>4 DEF AfterPut
    <3>2. UnderWay(e, p, <<>>)'
      BY <1>1, <2>1 DEF UnderWay
    <3>3. Turned(e)'
      BY <1>11, <1>12, <2>1, <2>4, <3>1, <3>2 DEF Turned, g
    <3>4. QED
      BY <1>9, <1>10, <3>3 DEF IndInv, Mode
  <2>5. QED
    BY <2>3, <2>4
<1>16. QED
  BY <1>14, <1>15

LEMMA RaiseCtl2Step ==
  ASSUME IndInv, NEW e \in End, RaiseCtl2(e)
  PROVE  IndInv'
<1> DEFINE g == Peer(e)
<1>1. /\ pc[e] = "ready" /\ port' = [port EXCEPT ![e] = CtlBit]
      /\ ctl1' = [ctl1 EXCEPT ![e] = IF cable = "laplink" THEN FALSE ELSE @]
      /\ pc' = [pc EXCEPT ![e] = "getWait"]
      /\ UNCHANGED <<cable, out, in, sent, got>>
  BY DEF RaiseCtl2, Goto, OutpData, Outp, SetCtl1, IndInv, Types
<1>2. Types /\ (\A x \in End : Wires(x)) /\ cable \in Cable
  BY DEF IndInv, Types
<1>3. g \in End /\ g # e /\ Peer(g) = e /\ \A x \in End : x = e \/ x = g
  BY Ends
<1> HIDE DEF g
<1>4. Types'
  BY <1>1, <1>2, Signals DEF Types
<1>5. ASSUME NEW x \in End PROVE Wires(x)'
  BY <1>1, <1>2, <1>3 DEF Wires, Types
<1>6. /\ pc'[e] = "getWait" /\ pc'[g] = pc[g] /\ port'[e] = CtlBit /\ port'[g] = port[g]
  BY <1>1, <1>2, <1>3 DEF Types
<1>7. Ctl2Hi(g)'
  <2>1. (CtlBit \div CtlBit) % 2 = 1
    BY Sizes
  <2>2. QED
    BY <1>3, <1>6, <2>1 DEF Ctl2Hi
<1>8. Idle(g) => Idle(g)'
  BY <1>1, <1>3, <1>6 DEF Idle, Clear
<1>9. Transfer(g) => Transfer(g)'
  <2>1. SUFFICES ASSUME Transfer(g) PROVE Transfer(g)'
    OBVIOUS
  <2>2. pc[g] \in {"putWait", "write", "raise", "putTaken"}
    BY <1>1, <1>3, <2>1 DEF Transfer, Places
  <2>3. Clear(e)' /\ out'[g] # <<>>
    BY <1>1, <1>3, <2>1 DEF Transfer, Clear
  <2>4. \E p \in Data : UnderWay(g, p, Rest(g))'
    BY <1>1, <1>3, <1>6, <2>1 DEF Transfer, UnderWay, Rest, UnitRead
  <2>5. QED
    BY <1>3, <1>6, <1>7, <2>2, <2>3, <2>4 DEF Transfer, Places
<1>10. Turned(e) => Turned(e)'
  BY <1>1, <1>3, <1>6 DEF Turned, Clear, UnderWay, g
<1>11. Mode(e)' \/ Mode(g)'
  BY <1>1, <1>8, <1>9, <1>10, Where DEF Mode, g
<1>12. QED
  BY <1>3, <1>4, <1>5, <1>11 DEF IndInv

LEMMA DataThereStep ==
  ASSUME IndInv, NEW e \in End, DataThere(e)
  PROVE  IndInv'
<1> DEFINE g == Peer(e)
<1>1. /\ pc[e] = "getWait" /\ Ctl1Hi(e) /\ pc' = [pc EXCEPT ![e] = "read"]
      /\ UNCHANGED <<cable, wires, out, in, sent, got>>
  BY DEF DataThere, Goto
<1>2. Types /\ (\A x \in End : Wires(x)) /\ cable \in Cable
  BY DEF IndInv, Types
<1>3. g \in End /\ g # e /\ Peer(g) = e /\ \A x \in End : x = e \/ x = g
  BY Ends
<1>4. ctl1[g]
  BY <1>1, <1>2, Strobe DEF Wires
<1> HIDE DEF g
<1>5. Types'
  BY <1>1, <1>2 DEF Types, wires
<1>6. ASSUME NEW x \in End PROVE Wires(x)'
  BY <1>1, <1>2, <1>3 DEF Wires, Types, wires
<1>7. Transfer(g) /\ pc[g] = "putTaken"
  BY <1>1, <1>2, <1>3, <1>4, Where DEF Wires, Idle, Turned, Transfer, Places, g
<1>8. pc'[e] = "read" /\ pc'[g] = "putTaken"
  BY <1>1, <1>2, <1>3, <1>7 DEF Types
<1>9. Transfer(g)'
  BY <1>1, <1>3, <1>7, <1>8 DEF Transfer, Places, Clear, UnderWay, Rest, UnitRead, Ctl2Hi, wires
<1>10. QED
  BY <1>3, <1>5, <1>6, <1>9 DEF IndInv, Mode

LEMMA ReadStep ==
  ASSUME IndInv, NEW e \in End, Read(e)
  PROVE  IndInv'
<1> DEFINE g == Peer(e)
<1>1. /\ pc[e] = "read" /\ in' = [in EXCEPT ![e] = Append(@, port[g])]
      /\ pc' = [pc EXCEPT ![e] = "got"]
      /\ UNCHANGED <<cable, wires, out, sent, got>>
  BY DEF Read, Goto, ReadData
<1>2. Types /\ (\A x \in End : Wires(x)) /\ cable \in Cable
  BY DEF IndInv, Types
<1>3. g \in End /\ g # e /\ Peer(g) = e /\ \A x \in End : x = e \/ x = g
  BY Ends
<1>4. Transfer(g)
  BY <1>1, Where
<1> HIDE DEF g
<1>5. pc[g] = "putTaken" /\ out[g] # <<>> /\ Ctl2Hi(g) /\ Clear(e)
  BY <1>1, <1>3, <1>4 DEF Transfer, Places
<1>6. port[g] = Head(out[g]) /\ in[e] \in Seq(Unit(cable)) /\ out[g] \in Seq(Unit(cable))
  BY <1>2, <1>3, <1>5 DEF Wires, Types
<1>7. /\ Append(in[e], port[g]) \in Seq(Unit(cable))
      /\ Append(in[e], port[g]) \o Tail(out[g]) = in[e] \o out[g]
  <2>1. \A s, o \in Seq(Unit(cable)) :
          o # <<>> => /\ Append(s, Head(o)) \in Seq(Unit(cable))
                      /\ Append(s, Head(o)) \o Tail(o) = s \o o
    BY Shift
  <2>2. /\ Append(in[e], Head(out[g])) \in Seq(Unit(cable))
        /\ Append(in[e], Head(out[g])) \o Tail(out[g]) = in[e] \o out[g]
    BY ONLY <1>5, <1>6, <2>1, Zenon
  <2>3. QED
    BY ONLY <1>6, <2>2
<1>8. Types'
  BY <1>1, <1>2, <1>7 DEF Types, wires
<1>9. ASSUME NEW x \in End PROVE Wires(x)'
  BY <1>1, <1>2, <1>3 DEF Wires, Types, wires
<1>10. /\ pc'[e] = "got" /\ pc'[g] = "putTaken"
       /\ in'[e] = Append(in[e], port[g]) /\ in'[g] = in[g]
  BY <1>1, <1>2, <1>3, <1>5 DEF Types
<1>11. PICK p \in Data : sent[g] = Append(got[e], p) /\ in[e] \o out[g] = Frame(cable, p)
  BY <1>1, <1>3, <1>4 DEF Transfer, UnderWay, Rest, UnitRead
<1>12. UnderWay(g, p, Rest(g))'
  BY <1>1, <1>3, <1>7, <1>10, <1>11 DEF UnderWay, Rest, UnitRead
<1>13. Ctl2Hi(g)' /\ Clear(e)'
  BY <1>1, <1>3, <1>5, <1>10 DEF Ctl2Hi, Clear, wires, g
<1>14. Transfer(g)'
  BY <1>1, <1>3, <1>5, <1>10, <1>12, <1>13 DEF Transfer, Places
<1>15. QED
  BY <1>3, <1>8, <1>9, <1>14 DEF IndInv, Mode

LEMMA LowerCtl2Step ==
  ASSUME IndInv, NEW e \in End, LowerCtl2(e)
  PROVE  IndInv'
<1> DEFINE g == Peer(e)
<1>1. /\ pc[e] = "got" /\ port' = [port EXCEPT ![e] = 0]
      /\ ctl1' = [ctl1 EXCEPT ![e] = IF cable = "laplink" THEN FALSE ELSE @]
      /\ pc' = [pc EXCEPT ![e] = "getDone"]
      /\ UNCHANGED <<cable, out, in, sent, got>>
  BY DEF LowerCtl2, Goto, OutpData, Outp, SetCtl1, IndInv, Types
<1>2. Types /\ (\A x \in End : Wires(x)) /\ cable \in Cable
  BY DEF IndInv, Types
<1>3. g \in End /\ g # e /\ Peer(g) = e /\ \A x \in End : x = e \/ x = g
  BY Ends
<1>4. Transfer(g)
  BY <1>1, Where
<1> HIDE DEF g
<1>5. Types'
  BY <1>1, <1>2, Signals DEF Types
<1>6. ASSUME NEW x \in End PROVE Wires(x)'
  BY <1>1, <1>2, <1>3 DEF Wires, Types
<1>7. /\ pc[g] = "putTaken" /\ pc'[e] = "getDone" /\ pc'[g] = "putTaken"
  BY <1>1, <1>2, <1>3, <1>4 DEF Types, Transfer, Places
<1>8. Transfer(g)'
  BY <1>1, <1>3, <1>4, <1>7 DEF Transfer, Places, Clear, UnderWay, Rest, UnitRead
<1>9. QED
  BY <1>3, <1>5, <1>6, <1>8 DEF IndInv, Mode

\* What DataGet makes of the units it has: the next packet of the peer, or nothing yet.
LEMMA Heeded ==
  ASSUME IndInv, NEW e \in End, PeerHeard(e)
  PROVE  LET g == Peer(e) IN
         \/ /\ Transfer(g) /\ pc[g] = "putWait"
            /\ pc' = [pc EXCEPT ![e] = "ready"] /\ UNCHANGED <<in, got>>
         \/ \E p \in Data :
              /\ got' = [got EXCEPT ![e] = Append(@, p)]
              /\ in' = [in EXCEPT ![e] = <<>>]
              /\ pc' = [pc EXCEPT ![e] = AfterGet(e, p)]
              /\ \/ Turned(g) /\ sent[g] = Append(got[e], p) /\ ~(g = "client" /\ Silent(p))
                 \/ /\ Ahead(g) /\ Silent(p)
                    /\ \/ pc[g] = "app" /\ out[g] = <<>> /\ sent[g] = Append(got[e], p)
                       \/ /\ pc[g] = "putWait"
                          /\ \E q \in Data : /\ out[g] = Frame(cable, q)
                                             /\ sent[g] = Append(Append(got[e], p), q)
<1> DEFINE g == Peer(e)
<1> DEFINE whole == Len(in[e]) % PerByte = 0 /\ Complete(Bytes(in[e]))
<1> DEFINE b == Body(Bytes(in[e]))
<1>1. pc[e] = "getDone" /\ ~Ctl1Hi(e)
  BY DEF PeerHeard, Heard
<1>2. ~whole => pc' = [pc EXCEPT ![e] = "ready"] /\ UNCHANGED <<in, got>>
  BY DEF PeerHeard, Goto
<1>3. whole => /\ got' = [got EXCEPT ![e] = Append(@, b)]
               /\ in' = [in EXCEPT ![e] = <<>>]
               /\ pc' = [pc EXCEPT ![e] = AfterGet(e, b)]
  BY DEF PeerHeard, Goto
<1>4. Types /\ (\A x \in End : Wires(x)) /\ cable \in Cable
  BY DEF IndInv, Types
<1>5. g \in End /\ g # e /\ Peer(g) = e /\ \A x \in End : x = e \/ x = g
  BY Ends
<1>6. ~ctl1[g] /\ pc[g] \notin {"putTaken", "lower"}
  BY <1>1, <1>4, <1>5, Strobe DEF Wires
<1>7. in[e] \in Seq(Unit(cable)) /\ out[g] \in Seq(Unit(cable)) /\ <<>> \in Seq(Unit(cable))
  BY <1>4, <1>5 DEF Types
<1>8. ASSUME NEW p \in Data, NEW r \in Seq(Unit(cable)), in[e] \o r = Frame(cable, p)
      PROVE  (whole <=> r = <<>>) /\ (r = <<>> => b = p)
  BY <1>4, <1>7, <1>8, Arrived
<1>9. Transfer(g) \/ Turned(g) \/ Ahead(g)
  BY <1>1, Where
<1> HIDE DEF g, whole, b
<1>10. CASE Transfer(g)
  <2>1. pc[g] = "putWait" /\ out[g] # <<>>
    BY <1>1, <1>5, <1>6, <1>10 DEF Transfer, Places
  <2>2. PICK p \in Data : in[e] \o out[g] = Frame(cable, p)
    BY <1>5, <1>10, <2>1 DEF Transfer, UnderWay, Rest, UnitRead
  <2>3. ~whole
    BY <1>7, <1>8, <2>1, <2>2
  <2>4. QED
    BY <1>2, <1>10, <2>1, <2>3 DEF g
<1>11. CASE Turned(g)
  <2>1. PICK p \in Data : UnderWay(g, p, <<>>) /\ ~(g = "client" /\ Silent(p))
    BY <1>11 DEF Turned
  <2>2. sent[g] = Append(got[e], p) /\ in[e] \o <<>> = Frame(cable, p)
    BY <1>5, <2>1 DEF UnderWay
  <2>3. whole /\ b = p
    BY <1>7, <1>8, <2>2
  <2>4. QED
    BY <1>3, <1>11, <2>1, <2>2, <2>3 DEF g
<1>12. CASE Ahead(g)
  <2>1. PICK p \in Data :
          /\ Silent(p) /\ in[e] = Frame(cable, p)
          /\ \/ pc[g] = "app" /\ out[g] = <<>> /\ sent[g] = Append(got[e], p)
             \/ /\ pc[g] = "putWait"
                /\ \E q \in Data : /\ out[g] = Frame(cable, q)
                                   /\ sent[g] = Append(Append(got[e], p), q)
    BY <1>5, <1>12 DEF Ahead
  <2>2. in[e] \o <<>> = Frame(cable, p)
    BY <1>7, <2>1
  <2>3. whole /\ b = p
    BY <1>7, <1>8, <2>2
  <2>4. QED
    BY <1>3, <1>12, <2>1, <2>3 DEF g
<1>13. QED
  BY <1>9, <1>10, <1>11, <1>12

LEMMA PeerHeardStep ==
  ASSUME IndInv, NEW e \in End, PeerHeard(e)
  PROVE  IndInv'
<1> DEFINE g == Peer(e)
<1>1. pc[e] = "getDone" /\ UNCHANGED <<cable, port, ctl1, out, sent>>
  BY DEF PeerHeard, wires
<1>2. Types /\ (\A x \in End : Wires(x)) /\ cable \in Cable
  BY DEF IndInv, Types
<1>3. g \in End /\ g # e /\ Peer(g) = e /\ \A x \in End : x = e \/ x = g
  BY Ends
<1>4. e = "server" <=> g = "client"
  BY DEF End, Peer
<1>5. ASSUME NEW l \in {"app", "ready"}, pc' = [pc EXCEPT ![e] = l]
      PROVE  /\ pc' \in [End -> {"app", "putWait", "write", "raise", "putTaken", "lower",
                                 "ready", "getWait", "read", "got", "getDone"}]
             /\ \A x \in End : Wires(x)'
             /\ pc'[e] = l /\ pc'[g] = pc[g]
  <2>1. /\ pc' \in [End -> {"app", "putWait", "write", "raise", "putTaken", "lower",
                            "ready", "getWait", "read", "got", "getDone"}]
        /\ pc'[e] = l /\ pc'[g] = pc[g]
    BY <1>2, <1>3, <1>5 DEF Types
  <2>2. ASSUME NEW x \in End PROVE Wires(x)'
    BY <1>1, <1>2, <1>3, <2>1, <2>2 DEF Wires
  <2>3. QED
    BY <2>1, <2>2
<1>6. CASE /\ Transfer(g) /\ pc[g] = "putWait"
           /\ pc' = [pc EXCEPT ![e] = "ready"] /\ UNCHANGED <<in, got>>
  <2>1. Types' /\ (\A x \in End : Wires(x)') /\ pc'[e] = "ready" /\ pc'[g] = pc[g]
    BY <1>1, <1>2, <1>5, <1>6 DEF Types
  <2> HIDE DEF g
  <2>2. Transfer(g)'
    BY <1>1, <1>3, <1>6, <2>1 DEF Transfer, Places, Clear, UnderWay, Rest, UnitRead
  <2>3. QED
    BY <1>3, <2>1, <2>2 DEF IndInv, Mode
<1>7. ASSUME NEW p \in Data,
             got' = [got EXCEPT ![e] = Append(@, p)],
             in' = [in EXCEPT ![e] = <<>>],
             pc' = [pc EXCEPT ![e] = AfterGet(e, p)],
             \/ Turned(g) /\ sent[g] = Append(got[e], p) /\ ~(g = "client" /\ Silent(p))
             \/ /\ Ahead(g) /\ Silent(p)
                /\ \/ pc[g] = "app" /\ out[g] = <<>> /\ sent[g] = Append(got[e], p)
                   \/ /\ pc[g] = "putWait"
                      /\ \E q \in Data : /\ out[g] = Frame(cable, q)
                                         /\ sent[g] = Append(Append(got[e], p), q)
      PROVE  IndInv'
  <2>1. AfterGet(e, p) \in {"app", "ready"}
    BY DEF AfterGet
  <2>2. /\ (\A x \in End : Wires(x)') /\ pc'[e] = AfterGet(e, p) /\ pc'[g] = pc[g]
        /\ pc' \in [End -> {"app", "putWait", "write", "raise", "putTaken", "lower",
                            "ready", "getWait", "read", "got", "getDone"}]
    BY <1>5, <1>7, <2>1
  <2> HIDE DEF g
  <2>3. /\ got'[e] = Append(got[e], p) /\ got'[g] = got[g] /\ in'[e] = <<>> /\ in'[g] = in[g]
        /\ got' \in [End -> Seq(Data)] /\ in' \in [End -> Seq(Unit(cable))]
    BY <1>2, <1>3, <1>7 DEF Types
  <2>4. Types'
    BY <1>1, <1>2, <2>2, <2>3 DEF Types
  <2>5. Clear(e) => Clear(e)'
    BY <1>1, <2>3 DEF Clear, g
  <2>6. CASE Turned(g) /\ sent[g] = Append(got[e], p) /\ ~(g = "client" /\ Silent(p))
    <3>1. Clear(e)' /\ out[g] = <<>> /\ pc[g] \in {"ready", "getWait"}
      BY <1>3, <2>5, <2>6 DEF Turned
    <3>2. pc'[e] = "app"
      BY <1>4, <2>2, <2>6 DEF AfterGet, g
    <3>3. Clear(g)'
      BY <1>1, <1>3, <2>3, <2>6, <3>1 DEF Clear
    <3>4. Idle(e)'
      BY <2>2, <3>1, <3>2, <3>3 DEF Idle, g
    <3>5. QED
      BY <2>2, <2>4, <3>4 DEF IndInv, Mode
  <2>7. ASSUME Ahead(g), Silent(p)
        PROVE  Clear(e)' /\ pc'[e] = "ready" /\ g = "client"
    <3>1. g = "client" /\ Clear(e)
      BY <1>3, <2>7 DEF Ahead
    <3>2. QED
      BY <1>4, <2>2, <2>5, <2>7, <3>1 DEF AfterGet, g
  <2>8. CASE Ahead(g) /\ Silent(p) /\ pc[g] = "app" /\ out[g] = <<>> /\ sent[g] = Append(got[e], p)
    <3>1. Clear(g)'
      BY <1>1, <1>3, <2>3, <2>8 DEF Clear
    <3>2. Idle(g)'
      BY <1>3, <2>2, <2>7, <2>8, <3>1 DEF Idle
    <3>3. QED
      BY <1>3, <2>2, <2>4, <3>2 DEF IndInv, Mode
  <2>9. ASSUME Ahead(g), Silent(p), pc[g] = "putWait", NEW q \in Data,
               out[g] = Frame(cable, q), sent[g] = Append(Append(got[e], p), q)
        PROVE  IndInv'
    <3>1. Frame(cable, q) \in Seq(Unit(cable)) /\ Frame(cable, q) # <<>>
      BY <1>2, FrameFacts
    <3>2. <<>> \o Frame(cable, q) = Frame(cable, q)
      BY <3>1
    <3>3. UnderWay(g, q, Rest(g))'
      BY <1>1, <1>3, <2>2, <2>3, <2>9, <3>2 DEF UnderWay, Rest, UnitRead
    <3>4. Transfer(g)'
      BY <1>1, <1>3, <2>2, <2>7, <2>9, <3>1, <3>3 DEF Transfer, Places
    <3>5. QED
      BY <1>3, <2>2, <2>4, <3>4 DEF IndInv, Mode
  <2>10. QED
    BY <1>7, <2>6, <2>8, <2>9
<1>8. QED
  BY <1>6, <1>7, Heeded

(***************************************************************************)
(* Theorems                                                                *)
(***************************************************************************)
LEMMA InitInv ==
  ASSUME Init
  PROVE  IndInv
<1>1. cable \in Cable
  BY DEF Init, Cable
<1>2. /\ 0 \in Unit(cable) /\ ByteMod - 1 \in Byte /\ NibMod - 1 \in 0 .. NibMod - 1
  BY <1>1, Sizes, Signals DEF Byte, Unit
<1>3. \A e \in End : port[e] \in Unit(cable)
  BY <1>1, <1>2 DEF Init, Unit
<1>4. Types
  BY <1>1, <1>3 DEF Init, Types
<1>5. \A e \in End : Wires(e)
  BY DEF Init, Wires
<1>6. "client" \in End /\ "server" \in End /\ Peer("client") = "server"
  BY DEF End, Peer
<1>7. Idle("client")
  BY <1>6, Ends DEF Init, Idle, Clear
<1>8. QED
  BY <1>4, <1>5, <1>6, <1>7 DEF IndInv, Mode

LEMMA NextInv ==
  ASSUME IndInv, [Next]_vars
  PROVE  IndInv'
<1>1. ASSUME NEW e \in End, StartPut(e) PROVE IndInv'
  BY <1>1, StartPutStep
<1>2. ASSUME NEW e \in End, DataPutByte(e) PROVE IndInv'
  BY <1>2, PeerReadyStep, WriteStep, RaiseCtl1Step, PeerTookStep, LowerCtl1Step DEF DataPutByte
<1>3. ASSUME NEW e \in End, DataGetByte(e) PROVE IndInv'
  BY <1>3, RaiseCtl2Step, DataThereStep, ReadStep, LowerCtl2Step, PeerHeardStep DEF DataGetByte
<1>4. CASE UNCHANGED vars
  <2>1. UNCHANGED <<cable, port, ctl1, pc, out, in, sent, got>>
    BY <1>4 DEF vars, wires
  <2>2. Types'
    BY <2>1 DEF IndInv, Types
  <2>3. \A e \in End : Wires(e)'
    BY <2>1 DEF IndInv, Wires
  <2>4. PICK w \in End : Mode(w)
    BY DEF IndInv
  <2>5. \A e \in End : (Clear(e)' <=> Clear(e)) /\ Rest(e)' = Rest(e) /\ (Ctl2Hi(e)' <=> Ctl2Hi(e))
    BY <2>1 DEF Clear, Rest, UnitRead, Ctl2Hi
  <2>6. Peer(w) \in End
    BY Ends
  <2>7. Mode(w)'
    <3>1. Idle(w) => Idle(w)'
      BY <2>1, <2>5, <2>6 DEF Idle
    <3>2. Transfer(w) => Transfer(w)'
      <4>1. SUFFICES ASSUME Transfer(w) PROVE Transfer(w)'
        OBVIOUS
      <4>2. PICK p \in Data : UnderWay(w, p, Rest(w))
        BY <4>1 DEF Transfer
      <4>3. UnderWay(w, p, Rest(w))'
        BY <2>1, <2>5, <4>2 DEF UnderWay
      <4>4. Clear(Peer(w))' /\ out'[w] # <<>> /\ Places(pc[w], pc[Peer(w)], Ctl2Hi(w))'
        BY <2>1, <2>5, <2>6, <4>1 DEF Transfer, Places
      <4>5. QED
        BY <4>3, <4>4 DEF Transfer
    <3>3. Turned(w) => Turned(w)'
      BY <2>1, <2>5, <2>6 DEF Turned, UnderWay
    <3>4. Ahead(w) => Ahead(w)'
      BY <2>1, <2>5, <2>6 DEF Ahead
    <3>5. QED
      BY <2>4, <3>1, <3>2, <3>3, <3>4 DEF Mode
  <2>8. QED
    BY <2>2, <2>3, <2>7 DEF IndInv
<1>5. QED
  BY <1>1, <1>2, <1>3, <1>4 DEF Next

\* The pairs of places, the packet under way and the lines agree in every reachable
\* state, for every cable, nibble and packet.
THEOREM HandshakeCorrect == Spec => []IndInv
<1>1. Init => IndInv
  BY InitInv
<1>2. IndInv /\ [Next]_vars => IndInv'
  BY NextInv
<1>3. QED
  BY <1>1, <1>2, PTL DEF Spec

\* What the ports and the buffers of DataPut and DataGet hold fits the cable.
THEOREM ParTypeCorrect == Spec => []TypeOK
<1>1. IndInv => TypeOK
  <2>1. SUFFICES ASSUME IndInv PROVE TypeOK
    OBVIOUS
  <2>2. Types /\ Unit(cable) \subseteq Byte /\ "client" \in End
    <3>1. Types /\ cable \in Cable /\ "client" \in End
      BY <2>1 DEF IndInv, Types, End
    <3>2. QED
      BY <3>1, Signals
  <2>3. \A s \in Seq(Unit(cable)) : s \in Seq(Byte)
    BY <2>2
  <2>4. \A e \in End : out[e] \in Seq(Byte) /\ in[e] \in Seq(Byte)
    BY <2>2, <2>3 DEF Types
  <2>5. \A e \in End : sent[e] \in Seq(Data) /\ got[e] \in Seq(Data)
    BY <2>2 DEF Types
  <2>6. /\ cable \in {"watcom", "laplink", "dutchman"}
        /\ port \in [End -> IF cable = "watcom" THEN Byte ELSE 0 .. NibMod - 1]
        /\ ctl1 \in [End -> BOOLEAN]
        /\ pc \in [End -> {"app", "putWait", "write", "raise", "putTaken", "lower",
                            "ready", "getWait", "read", "got", "getDone"}]
    BY <2>2 DEF Types, Cable, Unit
  <2>7. QED
    BY <2>4, <2>5, <2>6 DEF TypeOK
<1>2. QED
  BY <1>1, HandshakeCorrect, PTL

\* DataGetByte bags the bits that its peer holds on its port for it.
THEOREM DataHeldCorrect == Spec => []DataHeld
<1>1. IndInv => DataHeld
  <2>1. SUFFICES ASSUME IndInv, NEW e \in End, pc[e] = "read"
                 PROVE  pc[Peer(e)] = "putTaken" /\ port[Peer(e)] = Head(out[Peer(e)])
    BY DEF DataHeld
  <2>2. Transfer(Peer(e)) /\ Peer(e) \in End /\ Peer(Peer(e)) = e
    BY <2>1, Where, Ends
  <2>3. pc[Peer(e)] = "putTaken"
    BY <2>1, <2>2 DEF Transfer, Places
  <2>4. Wires(Peer(e))
    BY <2>1, <2>2 DEF IndInv
  <2>5. QED
    BY <2>3, <2>4 DEF Wires
<1>2. QED
  BY <1>1, HandshakeCorrect, PTL

\* The two ends are never both in DataPutByte past the wait for the other one.
THEOREM OneWriterCorrect == Spec => []OneWriter
<1>1. IndInv => OneWriter
  <2>1. SUFFICES ASSUME IndInv, Putting("client"), Putting("server") PROVE FALSE
    BY DEF OneWriter
  <2>2. "client" \in End /\ Peer("client") = "server"
    BY DEF End, Peer
  <2>3. Transfer("client")
    BY <2>1, <2>2, Where DEF Putting
  <2>4. QED
    BY <2>1, <2>2, <2>3 DEF Transfer, Places, Putting
<1>2. QED
  BY <1>1, HandshakeCorrect, PTL

\* Every step of the handshake is a step of the channel of link.doc, or none of
\* its business.
LEMMA StepImplements ==
  ASSUME IndInv, [Next]_vars
  PROVE  [Channel!Next]_(Channel!vars)
<1>1. ASSUME NEW e \in End, StartPut(e) PROVE Channel!Next
  BY <1>1 DEF StartPut, Channel!Next, Channel!Put, Channel!End, End
<1>2. ASSUME NEW e \in End, DataPutByte(e) PROVE UNCHANGED <<sent, got>>
  BY <1>2 DEF DataPutByte, PeerReady, Write, RaiseCtl1, PeerTook, LowerCtl1
<1>3. ASSUME NEW e \in End, DataGetByte(e) PROVE UNCHANGED <<sent, got>> \/ Channel!Next
  <2>1. ASSUME PeerHeard(e) PROVE UNCHANGED <<sent, got>> \/ Channel!Deliver(e)
    <3> DEFINE g == Peer(e)
    <3>1. sent' = sent
      BY <2>1 DEF PeerHeard
    <3>2. CASE got' = got
      BY <3>1, <3>2
    <3>3. ASSUME NEW p \in Data, got' = [got EXCEPT ![e] = Append(@, p)],
                 \/ sent[g] = Append(got[e], p)
                 \/ \E q \in Data : sent[g] = Append(Append(got[e], p), q)
          PROVE  Channel!Deliver(e)
      <4>1. got[e] \in Seq(Data) /\ sent[g] \in Seq(Data) /\ Channel!Peer(e) = g
        BY Ends DEF IndInv, Types, Channel!Peer, Peer
      <4> HIDE DEF g
      <4>2. ASSUME NEW s \in Seq(Data),
                   s = Append(got[e], p) \/ \E q \in Data : s = Append(Append(got[e], p), q)
            PROVE  Len(got[e]) < Len(s) /\ s[Len(got[e]) + 1] = p
        BY <4>1, <4>2
      <4>3. Len(got[e]) < Len(sent[g]) /\ sent[g][Len(got[e]) + 1] = p
        BY <3>3, <4>1, <4>2
      <4>4. QED
        BY <3>1, <3>3, <4>1, <4>3 DEF Channel!Deliver
    <3>4. QED
      BY <2>1, <3>2, <3>3, Heeded
  <2>2. CASE PeerHeard(e)
    BY <2>1, <2>2 DEF Channel!Next, Channel!End, End
  <2>3. CASE RaiseCtl2(e) \/ DataThere(e) \/ Read(e) \/ LowerCtl2(e)
    BY <2>3 DEF RaiseCtl2, DataThere, Read, LowerCtl2
  <2>4. QED
    BY <1>3, <2>2, <2>3 DEF DataGetByte
<1>4. CASE UNCHANGED vars
  BY <1>4 DEF vars, Channel!vars
<1>5. QED
  BY <1>1, <1>2, <1>3, <1>4 DEF Next, Channel!vars

\* The parallel link implements the channel, whatever the cable.
THEOREM ParLinkImplementsChannel == Spec => Implements
<1>1. Init => Channel!Init
  BY DEF Init, Channel!Init, Channel!End, End
<1>2. IndInv /\ [Next]_vars => [Channel!Next]_(Channel!vars)
  BY StepImplements
<1>3. QED
  BY <1>1, <1>2, HandshakeCorrect, PTL DEF Spec, Implements, Channel!Spec
=============================================================================
