---------------------------- MODULE TcpLinkProofs ----------------------------
(***************************************************************************)
(* Proofs about packets on a TCP connection, for bytes and packets of any  *)
(* size, as long as two bytes can hold the length of every packet.  The    *)
(* invariant says where the packets are: the bytes that an end has read of *)
(* the current packet, those under way and those its peer has yet to send  *)
(* are, one after another, the frames of the packets that were put and not *)
(* got; p says where each of them ends.                                    *)
(***************************************************************************)
EXTENDS TcpLink, SequenceTheorems, TLAPS

\* What the code relies on: unsigned_16 holds the length of a packet.
LengthFits == MaxLen < ByteMod * ByteMod

-----------------------------------------------------------------------------
(***************************************************************************)
(* The frames of packets g + 1 .. Len(S) in the bytes R                    *)
(***************************************************************************)
\* Of the frame of packet d that begins behind position b of R, all that R holds:
\* a header that has been read already lies before R.
FrameAt(R, b, d) ==
  /\ b >= 0 => R[b + 1] = Header(Len(d))[1] /\ R[b + 2] = Header(Len(d))[2]
  /\ \A i \in 1 .. Len(d) : R[b + 2 + i] = d[i]

\* Packet j ends at p[j].
Frames(p, g, S, R) ==
  /\ p \in [g .. Len(S) -> Int]
  /\ p[Len(S)] = Len(R)
  /\ \A j \in g + 1 .. Len(S) : /\ p[j] = p[j - 1] + 2 + Len(S[j])
                                /\ FrameAt(R, p[j - 1], S[j])
  /\ \A i, j \in g .. Len(S) : i <= j => p[i] <= p[j]

\* The frames of packets g + 1 .. Len(S) are all of R; the first begins behind o.
Split(R, g, S, o) == \E p : p[g] = o /\ Frames(p, g, S, R)

\* An end that has got g packets of S has read b of the current one and wants n
\* more bytes of its part r; the bytes w are under way and q will follow.
Stream(b, w, q, n, r, S, g) ==
  /\ g \in 0 .. Len(S)
  /\ r = "data" => g < Len(S)
  /\ Len(b) + n = IF r = "len" THEN 2 ELSE Len(S[g + 1])
  /\ Split(b \o w \o q, g, S, IF r = "len" THEN 0 ELSE -2)

\* What RemotePut has yet to send of the last packet.
Rest(e) == IF spc[e] = "data" THEN Last(sent[e]) ELSE <<>>

Types ==
  /\ wire \in [End -> Seq(Byte)] /\ buf \in [End -> Seq(Byte)]
  /\ spc \in [End -> {"len", "data"}] /\ rpc \in [End -> {"len", "data"}]
  /\ need \in [End -> Nat]
  /\ sent \in [End -> Seq(Data)] /\ got \in [End -> Seq(Data)]
  /\ \A e \in End : spc[e] = "data" => sent[e] # <<>>

Framed(e) == Stream(buf[e], wire[e], Rest(Peer(e)), need[e], rpc[e], sent[Peer(e)], Len(got[e]))

\* Whatever part of the stream recv has returned, RemoteGet is where it should be.
IndInv == Types /\ \A e \in End : Framed(e)

-----------------------------------------------------------------------------
\* A packet is a sequence of bytes, no longer than the packet buffer.
LEMMA DataFacts ==
  ASSUME NEW d
  PROVE  d \in Data <=> d \in Seq(Byte) /\ Len(d) \in 0 .. MaxLen
<1>1. d \in Data => d \in Seq(Byte) /\ Len(d) \in 0 .. MaxLen
  BY SizeAssumption DEF Data, BoundedSeq, SeqOf
<1>2. ASSUME d \in Seq(Byte), Len(d) \in 0 .. MaxLen PROVE d \in Data
  <2>1. d \in [1 .. Len(d) -> Byte]
    BY <1>2, LenProperties
  <2>2. QED
    BY <1>2, <2>1 DEF Data, BoundedSeq, SeqOf
<1>3. QED
  BY <1>1, <1>2

\* Division, as arithmetic.
LEMMA DivFacts ==
  ASSUME NEW n \in Nat, NEW m \in Nat \ {0}
  PROVE  n % m \in 0 .. m - 1 /\ n \div m \in Nat /\ n = m * (n \div m) + (n % m)
<1>1. n % m \in 0 .. m - 1
  OBVIOUS
<1>2. n \div m \in Nat
  OBVIOUS
<1>3. n = m * (n \div m) + (n % m)
  OBVIOUS
<1>4. QED
  BY <1>1, <1>2, <1>3

\* RemoteGet reads the length that RemotePut wrote.
LEMMA HeaderFacts ==
  ASSUME LengthFits, NEW n \in 0 .. MaxLen
  PROVE  Header(n) \in Seq(Byte) /\ Len(Header(n)) = 2 /\ Length(Header(n)) = n
<1>1. ByteMod \in Nat \ {0} /\ n \in Nat /\ n < ByteMod * ByteMod
  BY SizeAssumption DEF LengthFits
<1>2. n = ByteMod * (n \div ByteMod) + (n % ByteMod) /\ n % ByteMod \in Byte /\ n \div ByteMod \in Nat
  BY <1>1, DivFacts DEF Byte
<1>3. n \div ByteMod < ByteMod
  BY <1>1, <1>2 DEF Byte
<1>4. (n \div ByteMod) % ByteMod = n \div ByteMod /\ n \div ByteMod \in Byte
  BY <1>1, <1>2, <1>3 DEF Byte
<1>5. QED
  BY <1>2, <1>4, <1>1 DEF Header, Length

-----------------------------------------------------------------------------
(***************************************************************************)
(* What happens to the frames                                              *)
(***************************************************************************)
\* Where a frame lies: its bytes are bytes of R.
LEMMA FrameFacts ==
  ASSUME NEW S \in Seq(Data), NEW g \in 0 .. Len(S), NEW R \in Seq(Byte), NEW p,
         Frames(p, g, S, R), p[g] \in {-2, 0}
  PROVE  /\ \A j \in g .. Len(S) : p[j] \in Int /\ p[g] <= p[j] /\ p[j] <= Len(R)
         /\ \A j \in g + 1 .. Len(S) :
              /\ p[j - 1] \in Int /\ -2 <= p[j - 1] /\ p[j - 1] + 2 + Len(S[j]) <= Len(R)
              /\ S[j] \in Seq(Byte) /\ Len(S[j]) \in 0 .. MaxLen
<1>1. g \in Nat /\ Len(S) \in Nat /\ Len(R) \in Nat /\ p[Len(S)] = Len(R)
  BY DEF Frames
<1>2. \A j \in g .. Len(S) : p[j] \in Int
  BY <1>1 DEF Frames
<1>3. \A j \in g .. Len(S) : p[g] <= p[j] /\ p[j] <= Len(R)
  BY <1>1 DEF Frames
<1>4. ASSUME NEW j \in g + 1 .. Len(S)
      PROVE  /\ p[j - 1] \in Int /\ -2 <= p[j - 1] /\ p[j - 1] + 2 + Len(S[j]) <= Len(R)
             /\ S[j] \in Seq(Byte) /\ Len(S[j]) \in 0 .. MaxLen
  <2>1. j - 1 \in g .. Len(S) /\ j \in g .. Len(S) /\ j \in 1 .. Len(S)
    BY <1>1
  <2>2. S[j] \in Seq(Byte) /\ Len(S[j]) \in 0 .. MaxLen
    <3>1. S[j] \in Data
      BY <2>1, ElementOfSeq
    <3>2. QED
      BY <3>1, DataFacts
  <2>3. p[j] = p[j - 1] + 2 + Len(S[j])
    BY DEF Frames
  <2>4. p[j - 1] \in Int /\ p[g] <= p[j - 1] /\ p[j] <= Len(R)
    BY <1>2, <1>3, <2>1
  <2>5. QED
    BY <2>2, <2>3, <2>4
<1>5. QED
  BY <1>2, <1>3, <1>4

\* T is what is left of R without its first c bytes.
Drop(R, c, T) ==
  Len(T) = Len(R) - c /\ \A i \in 1 .. Len(T) : T[i] = R[i + c]

\* Reading c bytes that are the part of a frame that r was, or a header, moves all
\* frames c bytes to the front.
LEMMA ShiftFrames ==
  ASSUME NEW S \in Seq(Data), NEW g \in 0 .. Len(S), NEW R \in Seq(Byte), NEW p,
         Frames(p, g, S, R), p[g] \in {-2, 0},
         NEW c \in Nat, NEW T \in Seq(Byte), Drop(R, c, T),
         NEW h \in g .. Len(S), p[h] - c \in {-2, 0}
  PROVE  \E t : t[h] = p[h] - c /\ Frames(t, h, S, T)
<1> DEFINE t == [j \in h .. Len(S) |-> p[j] - c]
<1>1. /\ \A j \in g .. Len(S) : p[j] \in Int /\ p[g] <= p[j] /\ p[j] <= Len(R)
      /\ \A j \in g + 1 .. Len(S) :
           /\ p[j - 1] \in Int /\ -2 <= p[j - 1] /\ p[j - 1] + 2 + Len(S[j]) <= Len(R)
           /\ S[j] \in Seq(Byte) /\ Len(S[j]) \in 0 .. MaxLen
  BY FrameFacts
<1>2. /\ g \in Nat /\ h \in Nat /\ g <= h /\ h <= Len(S) /\ Len(S) \in Nat
      /\ Len(R) \in Nat /\ Len(T) \in Nat
      /\ Len(T) = Len(R) - c /\ \A i \in 1 .. Len(T) : T[i] = R[i + c]
  BY DEF Drop
<1>3. t \in [h .. Len(S) -> Int] /\ \A j \in h .. Len(S) : t[j] = p[j] - c
  BY <1>1, <1>2
<1> HIDE DEF t
<1>4. t[Len(S)] = Len(T)
  <2>1. p[Len(S)] = Len(R) /\ Len(S) \in h .. Len(S)
    BY <1>2 DEF Frames
  <2>2. t[Len(S)] = p[Len(S)] - c
    BY <1>3, <2>1
  <2>3. QED
    BY <1>2, <2>1, <2>2
<1>5. \A i, j \in h .. Len(S) : i <= j => t[i] <= t[j]
  <2>1. SUFFICES ASSUME NEW i \in h .. Len(S), NEW j \in h .. Len(S), i <= j
                 PROVE  t[i] <= t[j]
    OBVIOUS
  <2>2. i \in g .. Len(S) /\ j \in g .. Len(S)
    BY <1>2
  <2>3. p[i] <= p[j] /\ p[i] \in Int /\ p[j] \in Int
    BY <1>1, <2>1, <2>2 DEF Frames
  <2>4. QED
    BY <1>3, <2>3
<1>6. ASSUME NEW j \in h + 1 .. Len(S)
      PROVE  t[j] = t[j - 1] + 2 + Len(S[j]) /\ FrameAt(T, t[j - 1], S[j])
  <2>1. j \in g + 1 .. Len(S) /\ j - 1 \in h .. Len(S) /\ j \in h .. Len(S) /\ j - 1 \in g .. Len(S)
    BY <1>2
  <2>2. p[j] = p[j - 1] + 2 + Len(S[j]) /\ FrameAt(R, p[j - 1], S[j])
    BY <2>1 DEF Frames
  <2>3. PICK b \in Int : b = p[j - 1]
    BY <1>1, <2>1
  <2>4. Len(S[j]) \in Nat /\ b + 2 + Len(S[j]) <= Len(R)
    <3>1. p[j - 1] + 2 + Len(S[j]) <= Len(R) /\ Len(S[j]) \in 0 .. MaxLen
      BY <1>1, <2>1
    <3>2. QED
      BY <2>3, <3>1, SizeAssumption
  <2>5. b - c >= -2
    <3>1. p[h] <= p[j - 1] /\ p[h] \in Int
      BY <1>1, <1>2, <2>1 DEF Frames
    <3>2. PICK v \in Int : v = p[h]
      BY <3>1
    <3>3. v - c >= -2
      BY <3>2
    <3>4. v <= b
      BY <2>3, <3>1, <3>2
    <3>5. QED
      BY <3>3, <3>4
  <2>6. t[j - 1] = b - c /\ t[j] = b - c + 2 + Len(S[j])
    <3>1. t[j - 1] = p[j - 1] - c /\ t[j] = p[j] - c
      BY <1>3, <2>1
    <3>2. p[j] = b + 2 + Len(S[j])
      BY <2>2, <2>3
    <3>3. t[j - 1] = b - c
      BY <2>3, <3>1
    <3>4. t[j] = b + 2 + Len(S[j]) - c
      BY <3>1, <3>2
    <3>5. QED
      BY <2>4, <3>3, <3>4
  <2>7. /\ b - c >= 0 => /\ b >= 0
                        /\ b - c + 1 \in 1 .. Len(T) /\ b - c + 2 \in 1 .. Len(T)
                        /\ b - c + 1 + c = b + 1 /\ b - c + 2 + c = b + 2
        /\ \A i \in 1 .. Len(S[j]) : b - c + 2 + i \in 1 .. Len(T) /\ b - c + 2 + i + c = b + 2 + i
    <3>1. PICK l \in Nat : l = Len(S[j])
      BY <2>4
    <3>2. PICK n \in Nat, m \in Nat : n = Len(R) /\ m = Len(T)
      BY <1>2
    <3>3. m = n - c /\ b + 2 + l <= n
      BY <1>2, <2>4, <3>1, <3>2
    <3>4. /\ b - c >= 0 => /\ b >= 0
                          /\ b - c + 1 \in 1 .. m /\ b - c + 2 \in 1 .. m
                          /\ b - c + 1 + c = b + 1 /\ b - c + 2 + c = b + 2
          /\ \A i \in 1 .. l : b - c + 2 + i \in 1 .. m /\ b - c + 2 + i + c = b + 2 + i
      BY <2>5, <3>3
    <3>5. QED
      BY <3>1, <3>2, <3>4, Zenon
  <2>8. b - c >= 0 => T[b - c + 1] = Header(Len(S[j]))[1] /\ T[b - c + 2] = Header(Len(S[j]))[2]
    <3>1. SUFFICES ASSUME b - c >= 0
                   PROVE  T[b - c + 1] = Header(Len(S[j]))[1] /\ T[b - c + 2] = Header(Len(S[j]))[2]
      OBVIOUS
    <3>2. /\ b - c + 1 \in 1 .. Len(T) /\ b - c + 2 \in 1 .. Len(T) /\ b >= 0
          /\ b - c + 1 + c = b + 1 /\ b - c + 2 + c = b + 2
      BY <2>7, <3>1
    <3>3. R[b + 1] = Header(Len(S[j]))[1] /\ R[b + 2] = Header(Len(S[j]))[2]
      BY <2>2, <2>3, <3>2 DEF FrameAt
    <3>4. T[b - c + 1] = R[b - c + 1 + c] /\ T[b - c + 2] = R[b - c + 2 + c]
      BY <1>2, <3>2
    <3>5. QED
      BY <3>2, <3>3, <3>4
  <2>9. ASSUME NEW i \in 1 .. Len(S[j])
        PROVE  T[b - c + 2 + i] = S[j][i]
    <3>1. b - c + 2 + i \in 1 .. Len(T) /\ b - c + 2 + i + c = b + 2 + i
      BY <2>7
    <3>2. R[b + 2 + i] = S[j][i]
      BY <2>2, <2>3 DEF FrameAt
    <3>3. T[b - c + 2 + i] = R[b - c + 2 + i + c]
      BY <1>2, <3>1
    <3>4. QED
      BY <3>1, <3>2, <3>3
  <2>10. FrameAt(T, b - c, S[j])
    BY <2>8, <2>9 DEF FrameAt
  <2>11. t[j] = t[j - 1] + 2 + Len(S[j])
    BY <2>6
  <2>12. QED
    BY <2>6, <2>10, <2>11
<1>7. Frames(t, h, S, T)
  BY <1>3, <1>4, <1>5, <1>6 DEF Frames
<1>8. t[h] = p[h] - c
  BY <1>2, <1>3
<1>9. QED
  BY <1>7, <1>8

\* RemotePut adds the frame of the new packet behind the others.
LEMMA ExtendFrames ==
  ASSUME LengthFits, NEW S \in Seq(Data), NEW g \in 0 .. Len(S), NEW R \in Seq(Byte), NEW p,
         Frames(p, g, S, R), p[g] \in {-2, 0}, NEW d \in Data
  PROVE  \E t : t[g] = p[g] /\ Frames(t, g, Append(S, d), (R \o Header(Len(d))) \o d)
<1> DEFINE t == [j \in g .. Len(S) + 1 |-> IF j = Len(S) + 1 THEN Len(R) + 2 + Len(d) ELSE p[j]]
           T == (R \o Header(Len(d))) \o d
           U == Append(S, d)
<1>1. /\ \A j \in g .. Len(S) : p[j] \in Int /\ p[g] <= p[j] /\ p[j] <= Len(R)
      /\ \A j \in g + 1 .. Len(S) :
           /\ p[j - 1] \in Int /\ -2 <= p[j - 1] /\ p[j - 1] + 2 + Len(S[j]) <= Len(R)
           /\ S[j] \in Seq(Byte) /\ Len(S[j]) \in 0 .. MaxLen
  BY FrameFacts
<1>2. /\ g \in Nat /\ g <= Len(S) /\ Len(S) \in Nat /\ Len(R) \in Nat
      /\ d \in Seq(Byte) /\ Len(d) \in Nat /\ p[Len(S)] = Len(R)
  BY DataFacts, SizeAssumption DEF Frames
<1>3. Len(U) = Len(S) + 1 /\ U[Len(S) + 1] = d /\ \A j \in 1 .. Len(S) : U[j] = S[j]
  BY AppendProperties
<1>4. /\ Len(T) = Len(R) + 2 + Len(d)
      /\ \A i \in 1 .. Len(R) : T[i] = R[i]
      /\ T[Len(R) + 1] = Header(Len(d))[1] /\ T[Len(R) + 2] = Header(Len(d))[2]
      /\ \A i \in 1 .. Len(d) : T[Len(R) + 2 + i] = d[i]
  <2>1. PICK H \in Seq(Byte) : H = Header(Len(d)) /\ Len(H) = 2
    BY DataFacts, HeaderFacts
  <2>2. /\ R \o H \in Seq(Byte) /\ Len(R \o H) = Len(R) + 2
        /\ \A i \in 1 .. Len(R) + 2 : (R \o H)[i] = IF i <= Len(R) THEN R[i] ELSE H[i - Len(R)]
    <3>1. PICK k \in Nat : k = 2 /\ k = Len(H)
      BY <2>1
    <3>2. /\ R \o H \in Seq(Byte) /\ Len(R \o H) = Len(R) + Len(H)
          /\ \A i \in 1 .. Len(R) + Len(H) : (R \o H)[i] = IF i <= Len(R) THEN R[i] ELSE H[i - Len(R)]
      BY <2>1, ConcatProperties
    <3>3. QED
      BY <3>1, <3>2
  <2>3. PICK Q \in Seq(Byte) : Q = R \o H
    BY <2>2
  <2>4. /\ Len(Q \o d) = Len(Q) + Len(d)
        /\ \A i \in 1 .. Len(Q) + Len(d) : (Q \o d)[i] = IF i <= Len(Q) THEN Q[i] ELSE d[i - Len(Q)]
    BY <1>2, ConcatProperties
  <2>5. PICK W : W = Q \o d
    OBVIOUS
  <2>6. PICK r \in Nat, k \in Nat : r = Len(R) /\ k = Len(d)
    BY <1>2
  <2>7. /\ \A i \in 1 .. r + 2 : Q[i] = IF i <= r THEN R[i] ELSE H[i - r]
        /\ \A i \in 1 .. r + 2 + k : W[i] = IF i <= r + 2 THEN Q[i] ELSE d[i - (r + 2)]
        /\ Len(W) = r + 2 + k
    BY <2>2, <2>3, <2>4, <2>5, <2>6
  <2>8. ASSUME NEW i \in 1 .. r PROVE W[i] = R[i]
    <3>1. i \in 1 .. r + 2 /\ i \in 1 .. r + 2 + k /\ i <= r /\ i <= r + 2
      OBVIOUS
    <3>2. W[i] = Q[i] /\ Q[i] = R[i]
      BY <2>7, <3>1
    <3>3. QED
      BY <3>2
  <2>9. ASSUME NEW i \in 1 .. 2 PROVE W[r + i] = H[i]
    <3>1. PICK x \in Nat : x = r + i
      OBVIOUS
    <3>2. x \in 1 .. r + 2 /\ x \in 1 .. r + 2 + k /\ ~(x <= r) /\ x <= r + 2 /\ x - r = i
      BY <3>1
    <3>3. W[x] = Q[x] /\ Q[x] = H[x - r]
      BY <2>7, <3>2
    <3>4. QED
      BY <3>1, <3>2, <3>3
  <2>10. \A i \in 1 .. k : W[r + 2 + i] = d[i]
    BY <2>7
  <2>11. W[r + 1] = H[1] /\ W[r + 2] = H[2]
    BY <2>9
  <2>12. QED
    BY <2>1, <2>3, <2>5, <2>6, <2>7, <2>8, <2>10, <2>11
<1>5. /\ t \in [g .. Len(S) + 1 -> Int]
      /\ \A j \in g .. Len(S) : t[j] = p[j]
      /\ t[Len(S) + 1] = Len(R) + 2 + Len(d)
  BY <1>1, <1>2
<1> HIDE DEF t, T, U
<1>6. t \in [g .. Len(U) -> Int] /\ t[Len(U)] = Len(T)
  BY <1>3, <1>4, <1>5
<1>7. ASSUME NEW j \in g + 1 .. Len(U)
      PROVE  t[j] = t[j - 1] + 2 + Len(U[j]) /\ FrameAt(T, t[j - 1], U[j])
  <2>1. CASE j = Len(S) + 1
    <3>1. U[j] = d /\ t[j] = Len(R) + 2 + Len(d) /\ t[j - 1] = Len(R)
      <4>1. j - 1 = Len(S) /\ Len(S) \in g .. Len(S)
        BY <1>2, <2>1
      <4>2. t[j - 1] = Len(R)
        BY <1>2, <1>5, <4>1
      <4>3. QED
        BY <1>3, <1>5, <2>1, <4>2
    <3>2. FrameAt(T, Len(R), d)
      BY <1>4 DEF FrameAt
    <3>3. QED
      BY <3>1, <3>2
  <2>2. CASE j # Len(S) + 1
    <3>1. j \in g + 1 .. Len(S) /\ j - 1 \in g .. Len(S) /\ j \in g .. Len(S) /\ j \in 1 .. Len(S)
      BY <1>2, <1>3, <2>2
    <3>2. U[j] = S[j] /\ t[j] = p[j] /\ t[j - 1] = p[j - 1]
      BY <1>3, <1>5, <3>1
    <3>3. p[j] = p[j - 1] + 2 + Len(S[j]) /\ FrameAt(R, p[j - 1], S[j])
      BY <3>1 DEF Frames
    <3>4. PICK b \in Int, k \in Nat : b = p[j - 1] /\ k = Len(S[j])
      BY <1>1, <3>1, SizeAssumption
    <3>5. PICK r \in Nat : r = Len(R)
      BY <1>2
    <3>6. b + 2 + k <= r /\ -2 <= b
      BY <1>1, <3>1, <3>4, <3>5
    <3>7. /\ b >= 0 => R[b + 1] = Header(Len(S[j]))[1] /\ R[b + 2] = Header(Len(S[j]))[2]
          /\ \A i \in 1 .. k : R[b + 2 + i] = S[j][i]
      BY <3>3, <3>4 DEF FrameAt
    <3>8. \A i \in 1 .. r : T[i] = R[i]
      BY <1>4, <3>5
    <3>9. b >= 0 => T[b + 1] = Header(Len(S[j]))[1] /\ T[b + 2] = Header(Len(S[j]))[2]
      <4>1. b >= 0 => b + 1 \in 1 .. r /\ b + 2 \in 1 .. r
        BY <3>6
      <4>2. QED
        BY <3>7, <3>8, <4>1
    <3>10. \A i \in 1 .. k : T[b + 2 + i] = S[j][i]
      <4>1. \A i \in 1 .. k : b + 2 + i \in 1 .. r
        BY <3>6
      <4>2. QED
        BY <3>7, <3>8, <4>1
    <3>11. FrameAt(T, b, S[j])
      BY <3>4, <3>9, <3>10 DEF FrameAt
    <3>12. QED
      BY <3>2, <3>3, <3>4, <3>11
  <2>3. QED
    BY <2>1, <2>2
<1>8. \A i, j \in g .. Len(U) : i <= j => t[i] <= t[j]
  <2>1. SUFFICES ASSUME NEW i \in g .. Len(U), NEW j \in g .. Len(U), i <= j
                 PROVE  t[i] <= t[j]
    OBVIOUS
  <2>2. CASE j = Len(S) + 1
    BY <1>1, <1>2, <1>3, <1>5, <2>1, <2>2
  <2>3. CASE j # Len(S) + 1
    <3>1. i \in g .. Len(S) /\ j \in g .. Len(S)
      BY <1>2, <1>3, <2>1, <2>3
    <3>2. p[i] <= p[j]
      BY <2>1, <3>1 DEF Frames
    <3>3. QED
      BY <1>5, <3>1, <3>2
  <2>4. QED
    BY <2>2, <2>3
<1>9. Frames(t, g, U, T)
  BY <1>6, <1>7, <1>8 DEF Frames
<1>10. t[g] = p[g]
  BY <1>2, <1>5
<1>11. QED
  BY <1>9, <1>10 DEF T, U

\* A new packet splits off a frame of its own at the end.
LEMMA ExtendSplit ==
  ASSUME LengthFits, NEW S \in Seq(Data), NEW g \in 0 .. Len(S), NEW R \in Seq(Byte),
         NEW o \in {-2, 0}, Split(R, g, S, o), NEW d \in Data
  PROVE  Split((R \o Header(Len(d))) \o d, g, Append(S, d), o)
<1>1. PICK p : p[g] = o /\ Frames(p, g, S, R)
  BY DEF Split
<1>2. p[g] \in {-2, 0}
  BY <1>1
<1>3. PICK t : t[g] = p[g] /\ Frames(t, g, Append(S, d), (R \o Header(Len(d))) \o d)
  BY <1>1, <1>2, ExtendFrames
<1>4. QED
  BY <1>1, <1>3 DEF Split

\* Reading a header leaves the rest of its frame.
LEMMA HeaderSplit ==
  ASSUME NEW S \in Seq(Data), NEW g \in 0 .. Len(S), NEW R \in Seq(Byte), Split(R, g, S, 0),
         NEW T \in Seq(Byte), Drop(R, 2, T)
  PROVE  Split(T, g, S, -2)
<1>1. PICK p : p[g] = 0 /\ Frames(p, g, S, R)
  BY DEF Split
<1>2. /\ p[g] \in {-2, 0} /\ p[g] - 2 \in {-2, 0} /\ g \in g .. Len(S)
      /\ Frames(p, g, S, R) /\ Drop(R, 2, T)
  BY <1>1
<1>3. PICK t : t[g] = p[g] - 2 /\ Frames(t, g, S, T)
  BY ONLY <1>2, ShiftFrames
<1>4. QED
  BY <1>1, <1>3 DEF Split

\* Reading the rest of a frame leaves the frames of the packets after it.
LEMMA NextSplit ==
  ASSUME NEW S \in Seq(Data), NEW g \in 0 .. Len(S), NEW R \in Seq(Byte),
         NEW o \in {-2, 0}, Split(R, g, S, o), NEW h \in g .. Len(S), h = g + 1,
         NEW c \in Nat, c = o + 2 + Len(S[h]), NEW T \in Seq(Byte), Drop(R, c, T)
  PROVE  Split(T, h, S, 0)
<1>1. PICK p : p[g] = o /\ Frames(p, g, S, R)
  BY DEF Split
<1>2. p[h] = c
  <2>1. h \in g + 1 .. Len(S) /\ h - 1 = g
    OBVIOUS
  <2>2. p[h] = p[h - 1] + 2 + Len(S[h])
    BY <1>1, <2>1 DEF Frames
  <2>3. QED
    BY <1>1, <2>1, <2>2
<1>3. p[g] \in {-2, 0} /\ p[h] - c \in {-2, 0} /\ Frames(p, g, S, R) /\ Drop(R, c, T)
  <2>1. p[h] - c \in {-2, 0}
    BY ONLY <1>2
  <2>2. p[g] \in {-2, 0}
    BY <1>1
  <2>3. Drop(R, c, T)
    OBVIOUS
  <2>4. QED
    BY <1>1, <2>1, <2>2, <2>3, Zenon
<1>4. PICK t : t[h] = p[h] - c /\ Frames(t, h, S, T)
  BY ONLY <1>3, ShiftFrames
<1>5. t[h] = 0
  BY <1>2, <1>4
<1>6. QED
  BY <1>4, <1>5 DEF Split

\* Bytes are there only of packets that are, and first of the next one.
LEMMA FirstSplit ==
  ASSUME NEW S \in Seq(Data), NEW g \in 0 .. Len(S), NEW R \in Seq(Byte), NEW o \in {-2, 0},
         Split(R, g, S, o)
  PROVE  /\ g = Len(S) => Len(R) = o
         /\ g < Len(S) => FrameAt(R, o, S[g + 1])
<1>1. PICK p : p[g] = o /\ Frames(p, g, S, R)
  BY DEF Split
<1>2. g = Len(S) => Len(R) = o
  BY <1>1 DEF Frames
<1>3. ASSUME g < Len(S) PROVE FrameAt(R, o, S[g + 1])
  <2>1. g + 1 \in g + 1 .. Len(S) /\ (g + 1) - 1 = g
    BY <1>3
  <2>2. FrameAt(R, p[(g + 1) - 1], S[g + 1])
    BY <1>1, <2>1 DEF Frames
  <2>3. QED
    BY <1>1, <2>1, <2>2
<1>4. QED
  BY <1>2, <1>3

-----------------------------------------------------------------------------
(***************************************************************************)
(* What happens to the stream                                              *)
(***************************************************************************)
\* The bytes of the stream, by number.
LEMMA BytesFacts ==
  ASSUME NEW b \in Seq(Byte), NEW w \in Seq(Byte), NEW q \in Seq(Byte)
  PROVE  /\ b \o w \o q \in Seq(Byte) /\ w \o q \in Seq(Byte)
         /\ b \o w \o q = b \o (w \o q)
         /\ Len(b \o w \o q) = Len(b) + Len(w \o q)
         /\ \A i \in 1 .. Len(b) : (b \o w \o q)[i] = b[i]
         /\ \A i \in 1 .. Len(w \o q) : (w \o q)[i] = (b \o w \o q)[i + Len(b)]
<1>1. w \o q \in Seq(Byte) /\ b \o w \o q = b \o (w \o q)
  BY ConcatProperties, ConcatAssociative
<1>2. PICK u \in Seq(Byte) : u = w \o q
  BY <1>1
<1>3. /\ b \o u \in Seq(Byte) /\ Len(b \o u) = Len(b) + Len(u)
      /\ \A i \in 1 .. Len(b) + Len(u) : (b \o u)[i] = IF i <= Len(b) THEN b[i] ELSE u[i - Len(b)]
  BY ConcatProperties
<1>4. PICK m \in Nat, l \in Nat : m = Len(b) /\ l = Len(u)
  OBVIOUS
<1>5. PICK v : v = b \o u
  OBVIOUS
<1>6. \A i \in 1 .. m + l : v[i] = IF i <= m THEN b[i] ELSE u[i - m]
  BY <1>3, <1>4, <1>5
<1>7. ASSUME NEW i \in 1 .. m PROVE v[i] = b[i]
  <2>1. i \in 1 .. m + l /\ i <= m
    OBVIOUS
  <2>2. QED
    BY <1>6, <2>1
<1>8. ASSUME NEW i \in 1 .. l PROVE u[i] = v[i + m]
  <2>1. i + m \in 1 .. m + l /\ ~(i + m <= m) /\ (i + m) - m = i
    OBVIOUS
  <2>2. QED
    BY <1>6, <2>1
<1>9. QED
  BY <1>1, <1>2, <1>3, <1>4, <1>5, <1>7, <1>8

\* Reading b leaves the rest.
LEMMA DropFacts ==
  ASSUME NEW b \in Seq(Byte), NEW w \in Seq(Byte), NEW q \in Seq(Byte)
  PROVE  /\ Drop(b \o w \o q, Len(b), w \o q)
         /\ \A i \in 1 .. Len(b) : (b \o w \o q)[i] = b[i]
<1>1. /\ b \o w \o q \in Seq(Byte) /\ w \o q \in Seq(Byte)
      /\ Len(b \o w \o q) = Len(b) + Len(w \o q)
      /\ \A i \in 1 .. Len(b) : (b \o w \o q)[i] = b[i]
      /\ \A i \in 1 .. Len(w \o q) : (w \o q)[i] = (b \o w \o q)[i + Len(b)]
  BY BytesFacts
<1>2. Len(w \o q) = Len(b \o w \o q) - Len(b)
  BY <1>1
<1>3. QED
  BY <1>1, <1>2 DEF Drop

\* SendData: the second send moves the rest of the packet under way.
LEMMA FlushStream ==
  ASSUME NEW b \in Seq(Byte), NEW w \in Seq(Byte), NEW q \in Seq(Byte),
         NEW n, NEW r, NEW S, NEW g, Stream(b, w, q, n, r, S, g)
  PROVE  Stream(b, w \o q, <<>>, n, r, S, g)
<1>1. b \o (w \o q) \o <<>> = b \o w \o q
  <2>1. w \o q \in Seq(Byte) /\ b \o (w \o q) = b \o w \o q /\ b \o w \o q \in Seq(Byte)
    BY BytesFacts
  <2>2. (b \o w \o q) \o <<>> = b \o w \o q
    BY <2>1, ConcatEmptySeq
  <2>3. QED
    BY <2>1, <2>2
<1>2. QED
  BY <1>1 DEF Stream

\* Three parts, however they are put together.
LEMMA JoinFacts ==
  ASSUME NEW b \in Seq(Byte), NEW w, NEW x \in Seq(Byte), NEW y \in Seq(Byte), x \o y = w
  PROVE  (b \o x) \o y = b \o w
<1>1. (b \o x) \o y = b \o (x \o y)
  BY ONLY ConcatAssociative
<1>2. QED
  BY <1>1

\* SendLen: a new packet, with its length under way and its data to follow.
LEMMA AppendStream ==
  ASSUME LengthFits, NEW b \in Seq(Byte), NEW w \in Seq(Byte), NEW n \in Nat,
         NEW r \in {"len", "data"}, NEW S \in Seq(Data), NEW g,
         Stream(b, w, <<>>, n, r, S, g), NEW d \in Data
  PROVE  Stream(b, w \o Header(Len(d)), d, n, r, Append(S, d), g)
<1>1. PICK H \in Seq(Byte) : H = Header(Len(d))
  BY DataFacts, HeaderFacts
<1>2. b \o w \o <<>> = b \o w /\ b \o w \in Seq(Byte) /\ b \o (w \o H) = (b \o w) \o H
  <2>1. b \o w \in Seq(Byte)
    BY ConcatProperties
  <2>2. b \o w \o <<>> = b \o w
    BY <2>1, ConcatEmptySeq
  <2>3. b \o (w \o H) = (b \o w) \o H
    BY JoinFacts
  <2>4. QED
    BY <2>1, <2>2, <2>3
<1>3. PICK R \in Seq(Byte) : R = b \o w
  BY <1>2
<1>4. g \in 0 .. Len(S)
  BY DEF Stream
<1>5. PICK o \in {-2, 0} : o = IF r = "len" THEN 0 ELSE -2
  OBVIOUS
<1>6. Split(R, g, S, o)
  BY <1>2, <1>3, <1>5 DEF Stream
<1>7. Split((R \o Header(Len(d))) \o d, g, Append(S, d), o)
  BY <1>3, <1>4, <1>5, <1>6, ExtendSplit
<1>8. b \o (w \o Header(Len(d))) \o d = (R \o Header(Len(d))) \o d
  BY <1>1, <1>2, <1>3
<1>9. Len(Append(S, d)) = Len(S) + 1 /\ (g < Len(S) => Append(S, d)[g + 1] = S[g + 1])
  BY <1>4, AppendProperties
<1>10. /\ g \in 0 .. Len(Append(S, d)) /\ (r = "data" => g < Len(Append(S, d)))
       /\ Len(b) + n = IF r = "len" THEN 2 ELSE Len(Append(S, d)[g + 1])
  BY <1>4, <1>9 DEF Stream
<1>11. QED
  BY <1>5, <1>7, <1>8, <1>10 DEF Stream

\* Bytes that move from the wire to the buffer stay where they are in the stream.
LEMMA MoveFacts ==
  ASSUME NEW b \in Seq(Byte), NEW w \in Seq(Byte), NEW k \in 1 .. Len(w)
  PROVE  /\ SubSeq(w, 1, k) \in Seq(Byte) /\ SubSeq(w, k + 1, Len(w)) \in Seq(Byte)
         /\ b \o SubSeq(w, 1, k) \in Seq(Byte)
         /\ (b \o SubSeq(w, 1, k)) \o SubSeq(w, k + 1, Len(w)) = b \o w
         /\ Len(b \o SubSeq(w, 1, k)) = Len(b) + k
<1> DEFINE x == SubSeq(w, 1, k)
           y == SubSeq(w, k + 1, Len(w))
<1>1. \A i \in 1 .. Len(w) : w[i] \in Byte
  BY ElementOfSeq
<1>2. x \in Seq(Byte) /\ Len(x) = k
  <2>1. \A i \in 1 .. k : w[i] \in Byte
    BY <1>1
  <2>2. QED
    BY <2>1, SubSeqProperties
<1>3. y \in Seq(Byte)
  <2>1. \A i \in k + 1 .. Len(w) : w[i] \in Byte
    BY <1>1
  <2>2. QED
    BY <2>1, SubSeqProperties
<1>4. x \o y = w
  <2>1. /\ 1 \in 1 .. Len(w) + 1 /\ k \in 1 - 1 .. Len(w) /\ Len(w) \in k .. Len(w)
    OBVIOUS
  <2>2. x \o y = SubSeq(w, 1, Len(w))
    BY <2>1, ConcatAdjacentSubSeq
  <2>3. SubSeq(w, 1, Len(w)) = w
    BY SubSeqFull
  <2>4. QED
    BY <2>2, <2>3
<1> HIDE DEF x, y
<1>5. (b \o x) \o y = b \o w
  <2>1. (b \o x) \o y = b \o (x \o y)
    BY <1>2, <1>3, ConcatAssociative, SMTT(20)
  <2>2. QED
    BY <1>4, <2>1
<1>6. b \o x \in Seq(Byte) /\ Len(b \o x) = Len(b) + k
  <2>1. b \o x \in Seq(Byte) /\ Len(b \o x) = Len(b) + Len(x)
    BY <1>2, ConcatProperties
  <2>2. QED
    BY <1>2, <2>1
<1>7. QED
  BY <1>2, <1>3, <1>5, <1>6 DEF x, y

\* Recv: it does not matter for the stream how many bytes recv returns.
LEMMA RecvStream ==
  ASSUME NEW b \in Seq(Byte), NEW w \in Seq(Byte), NEW q \in Seq(Byte), NEW n \in Nat,
         NEW r, NEW S, NEW g, Stream(b, w, q, n, r, S, g), NEW k \in 1 .. Len(w), k <= n
  PROVE  Stream(b \o SubSeq(w, 1, k), SubSeq(w, k + 1, Len(w)), q, n - k, r, S, g)
<1>1. (b \o SubSeq(w, 1, k)) \o SubSeq(w, k + 1, Len(w)) \o q = b \o w \o q
  BY MoveFacts
<1>2. Len(b \o SubSeq(w, 1, k)) + (n - k) = Len(b) + n
  BY MoveFacts
<1>3. QED
  BY <1>1, <1>2 DEF Stream

\* recvData starts anew, with an empty buffer.
LEMMA StartStream ==
  ASSUME NEW w \in Seq(Byte), NEW q \in Seq(Byte), NEW r \in {"len", "data"}, NEW n \in Nat,
         NEW S \in Seq(Data), NEW g \in 0 .. Len(S), r = "data" => g < Len(S),
         n = (IF r = "len" THEN 2 ELSE Len(S[g + 1])),
         Split(w \o q, g, S, IF r = "len" THEN 0 ELSE -2)
  PROVE  Stream(<<>>, w, q, n, r, S, g)
<1>1. <<>> \o w \o q = w \o q
  <2>1. <<>> \o w = w
    BY ConcatEmptySeq
  <2>2. QED
    BY <2>1
<1>2. Len(<<>>) + n = n
  BY EmptySeq
<1>3. Len(<<>>) + n = IF r = "len" THEN 2 ELSE Len(S[g + 1])
  BY <1>2
<1>4. Split(<<>> \o w \o q, g, S, IF r = "len" THEN 0 ELSE -2)
  BY <1>1
<1>5. QED
  BY <1>3, <1>4 DEF Stream

\* A length that is complete is the one of the next packet.
LEMMA LenStream ==
  ASSUME LengthFits, NEW b \in Seq(Byte), NEW w \in Seq(Byte), NEW q \in Seq(Byte),
         NEW S \in Seq(Data), NEW g \in Nat, Stream(b, w, q, 0, "len", S, g)
  PROVE  /\ g \in 0 .. Len(S) - 1 /\ Length(b) = Len(S[g + 1]) /\ S[g + 1] \in Data
         /\ Length(b) > 0 => Stream(<<>>, w, q, Length(b), "data", S, g)
         /\ Length(b) = 0 => S[g + 1] = <<>> /\ Stream(<<>>, w, q, 2, "len", S, g + 1)
<1>1. PICK R \in Seq(Byte) : R = b \o w \o q
  BY BytesFacts
<1>2. PICK T \in Seq(Byte) : T = w \o q
  BY BytesFacts
<1>3. g \in 0 .. Len(S) /\ Len(b) = 2 /\ Split(R, g, S, 0)
  BY <1>1 DEF Stream
<1>4. Len(R) > 0 /\ R[1] = b[1] /\ R[2] = b[2] /\ Drop(R, 2, T)
  <2>1. /\ Len(R) = Len(b) + Len(T)
        /\ \A i \in 1 .. Len(b) : R[i] = b[i]
        /\ \A i \in 1 .. Len(T) : T[i] = R[i + Len(b)]
    BY <1>1, <1>2, BytesFacts
  <2>2. R \in Seq(Byte) /\ T \in Seq(Byte)
    BY <1>1, <1>2
  <2>3. QED
    BY <1>3, <2>1, <2>2 DEF Drop
<1>5. R \in Seq(Byte) /\ T \in Seq(Byte) /\ 0 \in {-2, 0}
  BY <1>1, <1>2
<1>6. g \in 0 .. Len(S) - 1 /\ FrameAt(R, 0, S[g + 1])
  <2>1. (g = Len(S) => Len(R) = 0) /\ (g < Len(S) => FrameAt(R, 0, S[g + 1]))
    BY <1>3, <1>5, FirstSplit
  <2>2. QED
    BY <1>3, <1>4, <2>1
<1>7. S[g + 1] \in Data /\ Len(S[g + 1]) \in 0 .. MaxLen
  <2>1. S[g + 1] \in Data
    BY <1>6, ElementOfSeq
  <2>2. QED
    BY <2>1, DataFacts
<1>8. Length(b) = Len(S[g + 1])
  <2>1. Length(Header(Len(S[g + 1]))) = Len(S[g + 1])
    BY <1>7, HeaderFacts
  <2>2. R[0 + 1] = Header(Len(S[g + 1]))[1] /\ R[0 + 2] = Header(Len(S[g + 1]))[2]
    BY <1>6 DEF FrameAt
  <2>3. b[1] = Header(Len(S[g + 1]))[1] /\ b[2] = Header(Len(S[g + 1]))[2]
    BY <1>4, <2>2
  <2>4. QED
    BY <2>1, <2>3 DEF Length
<1>9. ASSUME Length(b) > 0
       PROVE  Stream(<<>>, w, q, Length(b), "data", S, g)
  <2>1. Split(T, g, S, -2)
    BY <1>3, <1>4, <1>5, HeaderSplit
  <2>2. Length(b) \in Nat /\ g < Len(S) /\ g \in 0 .. Len(S)
    BY <1>6, <1>7, <1>8, SizeAssumption
  <2>3. Split(w \o q, g, S, IF "data" = "len" THEN 0 ELSE -2)
    BY <1>2, <2>1
  <2>4. QED
    BY <1>8, <2>2, <2>3, StartStream
<1>10. ASSUME Length(b) = 0
       PROVE  S[g + 1] = <<>> /\ Stream(<<>>, w, q, 2, "len", S, g + 1)
  <2>1. S[g + 1] = <<>>
    BY <1>7, <1>8, <1>10, DataFacts, EmptySeq
  <2>2. g + 1 \in g .. Len(S) /\ g + 1 \in 0 .. Len(S) /\ 2 = 0 + 2 + Len(S[g + 1]) /\ 2 \in Nat
    BY <1>6, <1>7, <1>8, <1>10
  <2>3. Split(T, g + 1, S, 0)
    BY <1>3, <1>4, <1>5, <2>2, NextSplit
  <2>4. Split(w \o q, g + 1, S, IF "len" = "len" THEN 0 ELSE -2)
    BY <1>2, <2>3
  <2>5. QED
    BY <2>1, <2>2, <2>4, StartStream
<1>11. QED
  BY <1>6, <1>7, <1>8, <1>9, <1>10

\* Data that are complete are the next packet.
LEMMA DataStream ==
  ASSUME NEW b \in Seq(Byte), NEW w \in Seq(Byte), NEW q \in Seq(Byte),
         NEW S \in Seq(Data), NEW g \in Nat, Stream(b, w, q, 0, "data", S, g)
  PROVE  /\ g \in 0 .. Len(S) - 1 /\ S[g + 1] = b /\ b \in Data
         /\ Stream(<<>>, w, q, 2, "len", S, g + 1)
<1> DEFINE R == b \o w \o q
           T == w \o q
<1>1. R \in Seq(Byte) /\ T \in Seq(Byte)
  BY BytesFacts
<1>2. Drop(R, Len(b), T) /\ \A i \in 1 .. Len(b) : R[i] = b[i]
  BY DropFacts
<1>3. g \in 0 .. Len(S) - 1 /\ Len(b) = Len(S[g + 1]) /\ Split(R, g, S, -2)
  BY DEF Stream
<1>4. T = w \o q
  OBVIOUS
<1> HIDE DEF R, T
<1>5. R \in Seq(Byte) /\ T \in Seq(Byte) /\ -2 \in {-2, 0} /\ g \in 0 .. Len(S) /\ g < Len(S)
  BY <1>1, <1>3
<1>6. S[g + 1] \in Data /\ S[g + 1] \in Seq(Byte)
  <2>1. S[g + 1] \in Data
    BY <1>3, ElementOfSeq
  <2>2. QED
    BY <2>1, DataFacts
<1>7. S[g + 1] = b
  <2>1. FrameAt(R, -2, S[g + 1])
    BY <1>3, <1>5, FirstSplit
  <2>2. ASSUME NEW i \in 1 .. Len(S[g + 1]) PROVE S[g + 1][i] = b[i]
    <3>1. R[-2 + 2 + i] = S[g + 1][i]
      BY <2>1 DEF FrameAt
    <3>2. -2 + 2 + i = i /\ i \in 1 .. Len(b)
      BY <1>3
    <3>3. QED
      BY <1>2, <3>1, <3>2
  <2>3. QED
    BY <1>3, <1>6, <2>2, SeqEqual
<1>8. Split(T, g + 1, S, 0)
  <2>1. g + 1 \in g .. Len(S) /\ Len(b) = -2 + 2 + Len(S[g + 1]) /\ Len(b) \in Nat
    BY <1>3
  <2>2. QED
    BY <1>2, <1>3, <1>5, <2>1, NextSplit
<1>9. Stream(<<>>, w, q, 2, "len", S, g + 1)
  <2>1. Split(w \o q, g + 1, S, IF "len" = "len" THEN 0 ELSE -2)
    BY <1>4, <1>8
  <2>2. g + 1 \in 0 .. Len(S)
    BY <1>3
  <2>3. QED
    BY <2>1, <2>2, StartStream
<1>10. QED
  BY <1>3, <1>6, <1>7, <1>9

-----------------------------------------------------------------------------
(***************************************************************************)
(* The invariant                                                           *)
(***************************************************************************)
\* The two ends.
LEMMA Ends ==
  ASSUME NEW e \in End
  PROVE  /\ Peer(e) \in End /\ Peer(Peer(e)) = e /\ Peer(e) # e
         /\ \A x \in End : x = e \/ x = Peer(e)
BY DEF End, Peer

\* What is known of one end.
LEMMA EndFacts ==
  ASSUME Types, NEW e \in End
  PROVE  /\ wire[e] \in Seq(Byte) /\ buf[e] \in Seq(Byte) /\ need[e] \in Nat
         /\ spc[e] \in {"len", "data"} /\ rpc[e] \in {"len", "data"}
         /\ sent[e] \in Seq(Data) /\ got[e] \in Seq(Data)
         /\ Len(got[e]) \in Nat /\ Rest(e) \in Seq(Byte)
<1>1. /\ wire[e] \in Seq(Byte) /\ buf[e] \in Seq(Byte) /\ need[e] \in Nat
      /\ spc[e] \in {"len", "data"} /\ rpc[e] \in {"len", "data"}
      /\ sent[e] \in Seq(Data) /\ got[e] \in Seq(Data)
  BY DEF Types
<1>2. Rest(e) \in Seq(Byte)
  <2>1. CASE spc[e] = "data"
    <3>1. sent[e] # <<>>
      BY <2>1 DEF Types
    <3>2. Len(sent[e]) \in 1 .. Len(sent[e])
      BY <1>1, <3>1, EmptySeq
    <3>3. Last(sent[e]) \in Data
      BY <1>1, <3>2, ElementOfSeq DEF Last
    <3>4. QED
      BY <2>1, <3>3, DataFacts DEF Rest
  <2>2. CASE spc[e] # "data"
    BY <2>2, EmptySeq DEF Rest
  <2>3. QED
    BY <2>1, <2>2
<1>3. QED
  BY <1>1, <1>2

\* Nothing was put: no frames, and no bytes.
LEMMA InitInv == Init => IndInv
<1> SUFFICES ASSUME Init PROVE IndInv
  OBVIOUS
<1>1. <<>> \in Seq(Byte) /\ <<>> \in Seq(Data) /\ Len(<<>>) = 0
  BY EmptySeq
<1>2. Types
  BY <1>1 DEF Init, Types
<1>3. Split(<<>>, 0, <<>>, 0)
  <2>1. PICK p : p = [j \in 0 .. 0 |-> 0]
    OBVIOUS
  <2>2. p[0] = 0 /\ p \in [0 .. 0 -> Int]
    BY <2>1
  <2>3. \A i \in 0 .. 0 : i = 0
    OBVIOUS
  <2>4. Frames(p, 0, <<>>, <<>>)
    BY <1>1, <2>2, <2>3 DEF Frames
  <2>5. QED
    BY <2>2, <2>4 DEF Split
<1>4. Stream(<<>>, <<>>, <<>>, 2, "len", <<>>, 0)
  <2>1. <<>> \o <<>> \o <<>> = <<>>
    BY <1>1, ConcatEmptySeq
  <2>2. Split(<<>> \o <<>> \o <<>>, 0, <<>>, IF "len" = "len" THEN 0 ELSE -2)
    BY <1>3, <2>1
  <2>3. 0 \in 0 .. Len(<<>>) /\ Len(<<>>) + 2 = 2
    BY <1>1
  <2>4. QED
    BY <2>2, <2>3 DEF Stream
<1>5. ASSUME NEW e \in End PROVE Framed(e)
  <2>1. /\ buf[e] = <<>> /\ wire[e] = <<>> /\ need[e] = 2 /\ rpc[e] = "len"
        /\ got[e] = <<>> /\ sent[Peer(e)] = <<>> /\ Rest(Peer(e)) = <<>>
    BY Ends DEF Init, Rest
  <2>2. QED
    BY <1>1, <1>4, <2>1 DEF Framed
<1>6. QED
  BY <1>2, <1>5 DEF IndInv

\* What e receives does not depend on what e sends.
LEMMA SameStream ==
  ASSUME NEW e \in End, buf'[e] = buf[e], wire'[e] = wire[e], need'[e] = need[e],
         rpc'[e] = rpc[e], got'[e] = got[e], sent'[Peer(e)] = sent[Peer(e)],
         spc'[Peer(e)] = spc[Peer(e)], Framed(e)
  PROVE  Framed(e)'
BY DEF Framed, Rest

\* The frame of a new packet begins behind all others.
LEMMA SendLenStep ==
  ASSUME LengthFits, IndInv, NEW e \in End, SendLen(e)
  PROVE  IndInv'
<1>1. Types /\ Peer(e) \in End /\ Peer(Peer(e)) = e /\ Peer(e) # e
  BY Ends DEF IndInv
<1>2. PICK d \in Data :
        /\ sent' = [sent EXCEPT ![e] = Append(@, d)]
        /\ wire' = [wire EXCEPT ![Peer(e)] = @ \o Header(Len(d))]
        /\ spc' = [spc EXCEPT ![e] = IF d = <<>> THEN "len" ELSE "data"]
  BY DEF SendLen, SendBytes
<1>3. UNCHANGED <<rpc, need, buf, got>> /\ spc[e] = "len"
  BY DEF SendLen
<1>4. /\ sent[e] \in Seq(Data) /\ wire[Peer(e)] \in Seq(Byte) /\ buf[Peer(e)] \in Seq(Byte)
      /\ need[Peer(e)] \in Nat /\ rpc[Peer(e)] \in {"len", "data"}
  BY <1>1, EndFacts
<1>5. /\ Append(sent[e], d) \in Seq(Data) /\ Append(sent[e], d) # <<>>
      /\ Len(Append(sent[e], d)) = Len(sent[e]) + 1
      /\ Append(sent[e], d)[Len(sent[e]) + 1] = d
  BY <1>4, AppendProperties
<1>6. wire[Peer(e)] \o Header(Len(d)) \in Seq(Byte)
  <2>1. Header(Len(d)) \in Seq(Byte)
    BY DataFacts, HeaderFacts
  <2>2. QED
    BY <1>4, <2>1, ConcatProperties
<1>7. /\ sent'[e] = Append(sent[e], d)
      /\ wire'[Peer(e)] = wire[Peer(e)] \o Header(Len(d))
      /\ spc'[e] = IF d = <<>> THEN "len" ELSE "data"
  BY <1>1, <1>2 DEF Types
<1>8. \A x \in End : /\ x # e => sent'[x] = sent[x] /\ spc'[x] = spc[x]
                     /\ x # Peer(e) => wire'[x] = wire[x]
  BY <1>1, <1>2 DEF Types
<1>9. Types'
  <2>1. /\ sent' \in [End -> Seq(Data)] /\ wire' \in [End -> Seq(Byte)]
        /\ spc' \in [End -> {"len", "data"}]
    <3>1. sent' \in [End -> Seq(Data)]
      BY <1>1, <1>2, <1>5 DEF Types
    <3>2. wire' \in [End -> Seq(Byte)]
      BY <1>1, <1>2, <1>6 DEF Types
    <3>3. spc' \in [End -> {"len", "data"}]
      BY <1>1, <1>2 DEF Types
    <3>4. QED
      BY <3>1, <3>2, <3>3
  <2>2. \A x \in End : spc'[x] = "data" => sent'[x] # <<>>
    BY <1>1, <1>5, <1>7, <1>8 DEF Types
  <2>3. QED
    BY <1>1, <1>3, <2>1, <2>2 DEF Types
<1>10. Framed(Peer(e))'
  <2>1. Rest(e) = <<>>
    BY <1>3 DEF Rest
  <2>2. Rest(e)' = d
    <3>1. Last(sent'[e]) = d
      BY <1>5, <1>7 DEF Last
    <3>2. QED
      BY <1>7, <3>1 DEF Rest
  <2>3. Stream(buf[Peer(e)], wire[Peer(e)], <<>>, need[Peer(e)], rpc[Peer(e)], sent[e],
               Len(got[Peer(e)]))
    BY <1>1, <2>1 DEF IndInv, Framed
  <2>4. Stream(buf[Peer(e)], wire[Peer(e)] \o Header(Len(d)), d, need[Peer(e)], rpc[Peer(e)],
               Append(sent[e], d), Len(got[Peer(e)]))
    BY <1>4, <2>3, AppendStream
  <2>5. QED
    BY <1>1, <1>3, <1>7, <2>2, <2>4 DEF Framed
<1>11. Framed(e)'
  BY <1>1, <1>3, <1>8, SameStream DEF IndInv
<1>12. QED
  BY <1>9, <1>10, <1>11, Ends DEF IndInv

\* What RemotePut still owed is under way.
LEMMA SendDataStep ==
  ASSUME IndInv, NEW e \in End, SendData(e)
  PROVE  IndInv'
<1>1. Types /\ Peer(e) \in End /\ Peer(Peer(e)) = e /\ Peer(e) # e
  BY Ends DEF IndInv
<1>2. /\ wire' = [wire EXCEPT ![Peer(e)] = @ \o Last(sent[e])]
      /\ spc' = [spc EXCEPT ![e] = "len"] /\ spc[e] = "data"
      /\ UNCHANGED <<rpc, need, buf, sent, got>>
  BY DEF SendData, SendBytes
<1>3. /\ wire[Peer(e)] \in Seq(Byte) /\ buf[Peer(e)] \in Seq(Byte) /\ Rest(e) \in Seq(Byte)
      /\ Rest(e) = Last(sent[e])
  BY <1>1, <1>2, EndFacts DEF Rest
<1>4. wire[Peer(e)] \o Last(sent[e]) \in Seq(Byte)
  BY <1>3, ConcatProperties
<1>5. /\ wire'[Peer(e)] = wire[Peer(e)] \o Last(sent[e]) /\ spc'[e] = "len"
      /\ \A x \in End : (x # e => spc'[x] = spc[x]) /\ (x # Peer(e) => wire'[x] = wire[x])
  BY <1>1, <1>2 DEF Types
<1>6. Types'
  <2>1. wire' \in [End -> Seq(Byte)]
    BY <1>1, <1>2, <1>4 DEF Types
  <2>2. spc' \in [End -> {"len", "data"}]
    BY <1>1, <1>2 DEF Types
  <2>3. \A x \in End : spc'[x] = "data" => sent'[x] # <<>>
    BY <1>1, <1>2, <1>5 DEF Types
  <2>4. QED
    BY <1>1, <1>2, <2>1, <2>2, <2>3 DEF Types
<1>7. Framed(Peer(e))'
  <2>1. Rest(e)' = <<>>
    BY <1>5 DEF Rest
  <2>2. Stream(buf[Peer(e)], wire[Peer(e)], Rest(e), need[Peer(e)], rpc[Peer(e)], sent[e],
               Len(got[Peer(e)]))
    BY <1>1 DEF IndInv, Framed
  <2>3. Stream(buf[Peer(e)], wire[Peer(e)] \o Rest(e), <<>>, need[Peer(e)], rpc[Peer(e)], sent[e],
               Len(got[Peer(e)]))
    BY <1>3, <2>2, FlushStream
  <2>4. QED
    BY <1>1, <1>2, <1>3, <1>5, <2>1, <2>3 DEF Framed
<1>8. Framed(e)'
  BY <1>1, <1>2, <1>5, SameStream DEF IndInv
<1>9. QED
  BY <1>6, <1>7, <1>8, Ends DEF IndInv

\* recv returns any part of what is there; the stream is the same.
LEMMA RecvStep ==
  ASSUME IndInv, NEW e \in End, Recv(e)
  PROVE  IndInv'
<1>1. Types /\ Peer(e) \in End /\ Peer(Peer(e)) = e /\ Peer(e) # e
  BY Ends DEF IndInv
<1>2. PICK k \in 1 .. Len(wire[e]) :
        /\ k <= need[e]
        /\ buf' = [buf EXCEPT ![e] = @ \o SubSeq(wire[e], 1, k)]
        /\ wire' = [wire EXCEPT ![e] = SubSeq(@, k + 1, Len(@))]
        /\ need' = [need EXCEPT ![e] = IF k < @ THEN @ - k ELSE 0]
  BY DEF Recv, Wanted
<1>3. UNCHANGED <<spc, rpc, sent, got>>
  BY DEF Recv
<1>4. /\ wire[e] \in Seq(Byte) /\ buf[e] \in Seq(Byte) /\ need[e] \in Nat
      /\ rpc[e] \in {"len", "data"} /\ Rest(Peer(e)) \in Seq(Byte)
  BY <1>1, EndFacts
<1>5. /\ SubSeq(wire[e], k + 1, Len(wire[e])) \in Seq(Byte)
      /\ buf[e] \o SubSeq(wire[e], 1, k) \in Seq(Byte)
  BY <1>4, MoveFacts
<1>6. need[e] - k \in Nat /\ (IF k < need[e] THEN need[e] - k ELSE 0) = need[e] - k
  BY <1>2, <1>4
<1>7. /\ buf'[e] = buf[e] \o SubSeq(wire[e], 1, k)
      /\ wire'[e] = SubSeq(wire[e], k + 1, Len(wire[e]))
      /\ need'[e] = need[e] - k
  BY <1>1, <1>2, <1>6 DEF Types
<1>8. \A x \in End : x # e => buf'[x] = buf[x] /\ wire'[x] = wire[x] /\ need'[x] = need[x]
  BY <1>1, <1>2 DEF Types
<1>9. Types'
  <2>1. buf' \in [End -> Seq(Byte)]
    BY <1>1, <1>2, <1>5 DEF Types
  <2>2. wire' \in [End -> Seq(Byte)]
    BY <1>1, <1>2, <1>5 DEF Types
  <2>3. need' \in [End -> Nat]
    BY <1>1, <1>2, <1>6 DEF Types
  <2>4. QED
    BY <1>1, <1>3, <2>1, <2>2, <2>3 DEF Types
<1>10. Framed(e)'
  <2>1. Stream(buf[e], wire[e], Rest(Peer(e)), need[e], rpc[e], sent[Peer(e)], Len(got[e]))
    BY DEF IndInv, Framed
  <2>2. Stream(buf[e] \o SubSeq(wire[e], 1, k), SubSeq(wire[e], k + 1, Len(wire[e])),
               Rest(Peer(e)), need[e] - k, rpc[e], sent[Peer(e)], Len(got[e]))
    BY <1>2, <1>4, <2>1, RecvStream
  <2>3. Rest(Peer(e))' = Rest(Peer(e))
    BY <1>3 DEF Rest
  <2>4. QED
    BY <1>3, <1>7, <2>2, <2>3 DEF Framed
<1>11. Framed(Peer(e))'
  BY <1>1, <1>3, <1>8, SameStream DEF IndInv
<1>12. QED
  BY <1>9, <1>10, <1>11, Ends DEF IndInv

\* What recvData has got when it is complete.
LEMMA Complete ==
  ASSUME LengthFits, IndInv, NEW e \in End, need[e] = 0
  PROVE  /\ Len(got[e]) \in 0 .. Len(sent[Peer(e)]) - 1
         /\ sent[Peer(e)][Len(got[e]) + 1] \in Data
         /\ rpc[e] = "len" =>
              /\ Length(buf[e]) = Len(sent[Peer(e)][Len(got[e]) + 1])
              /\ Length(buf[e]) > 0 => Stream(<<>>, wire[e], Rest(Peer(e)), Length(buf[e]), "data",
                                              sent[Peer(e)], Len(got[e]))
              /\ Length(buf[e]) = 0 =>
                   /\ sent[Peer(e)][Len(got[e]) + 1] = <<>>
                   /\ Stream(<<>>, wire[e], Rest(Peer(e)), 2, "len", sent[Peer(e)], Len(got[e]) + 1)
         /\ rpc[e] = "data" =>
              /\ sent[Peer(e)][Len(got[e]) + 1] = buf[e]
              /\ Stream(<<>>, wire[e], Rest(Peer(e)), 2, "len", sent[Peer(e)], Len(got[e]) + 1)
<1>1. /\ wire[e] \in Seq(Byte) /\ buf[e] \in Seq(Byte) /\ rpc[e] \in {"len", "data"}
      /\ Rest(Peer(e)) \in Seq(Byte) /\ sent[Peer(e)] \in Seq(Data) /\ Len(got[e]) \in Nat
  BY Ends, EndFacts DEF IndInv
<1>2. Stream(buf[e], wire[e], Rest(Peer(e)), 0, rpc[e], sent[Peer(e)], Len(got[e]))
  BY DEF IndInv, Framed
<1>3. CASE rpc[e] = "len"
  <2>1. Stream(buf[e], wire[e], Rest(Peer(e)), 0, "len", sent[Peer(e)], Len(got[e]))
    BY <1>2, <1>3
  <2>2. LengthFits
    OBVIOUS
  <2>3. QED
    BY ONLY <1>1, <1>3, <2>1, <2>2, LenStream, SMTT(20)
<1>4. CASE rpc[e] = "data"
  <2>1. Stream(buf[e], wire[e], Rest(Peer(e)), 0, "data", sent[Peer(e)], Len(got[e]))
    BY <1>2, <1>4
  <2>2. QED
    BY <1>1, <1>4, <2>1, DataStream
<1>5. QED
  BY <1>1, <1>3, <1>4

\* A length that is not 0 makes RemoteGet wait for so many bytes.
LEMMA GotLenStep ==
  ASSUME LengthFits, IndInv, NEW e \in End, GotLen(e)
  PROVE  IndInv'
<1>1. Types /\ Peer(e) \in End /\ Peer(Peer(e)) = e /\ Peer(e) # e
  BY Ends DEF IndInv
<1>2. /\ rpc[e] = "len" /\ need[e] = 0 /\ Length(buf[e]) > 0
      /\ rpc' = [rpc EXCEPT ![e] = "data"] /\ need' = [need EXCEPT ![e] = Length(buf[e])]
      /\ buf' = [buf EXCEPT ![e] = <<>>] /\ UNCHANGED <<wire, spc, sent, got>>
  BY DEF GotLen
<1>3. /\ Length(buf[e]) \in Nat
      /\ Stream(<<>>, wire[e], Rest(Peer(e)), Length(buf[e]), "data", sent[Peer(e)], Len(got[e]))
  <2>1. sent[Peer(e)][Len(got[e]) + 1] \in Data /\ Length(buf[e]) = Len(sent[Peer(e)][Len(got[e]) + 1])
    BY <1>2, Complete
  <2>2. Length(buf[e]) \in Nat
    BY <2>1, DataFacts, SizeAssumption
  <2>3. QED
    BY <1>2, <2>2, Complete
<1>4. /\ rpc'[e] = "data" /\ need'[e] = Length(buf[e]) /\ buf'[e] = <<>>
      /\ \A x \in End : x # e => buf'[x] = buf[x] /\ rpc'[x] = rpc[x] /\ need'[x] = need[x]
  BY <1>1, <1>2 DEF Types
<1>5. Types'
  <2>1. buf' \in [End -> Seq(Byte)]
    BY <1>1, <1>2, EmptySeq DEF Types
  <2>2. rpc' \in [End -> {"len", "data"}]
    BY <1>1, <1>2 DEF Types
  <2>3. need' \in [End -> Nat]
    BY <1>1, <1>2, <1>3 DEF Types
  <2>4. QED
    BY <1>1, <1>2, <2>1, <2>2, <2>3 DEF Types
<1>6. Framed(e)'
  <2>1. Rest(Peer(e))' = Rest(Peer(e))
    BY <1>2 DEF Rest
  <2>2. QED
    BY <1>2, <1>3, <1>4, <2>1 DEF Framed
<1>7. Framed(Peer(e))'
  BY <1>1, <1>2, <1>4, SameStream DEF IndInv
<1>8. QED
  BY <1>5, <1>6, <1>7, Ends DEF IndInv

\* The packet that RemoteGet returns is the next one that the peer has put.
LEMMA PacketFacts ==
  ASSUME LengthFits, IndInv, NEW e \in End, GotPacket(e)
  PROVE  /\ Len(got[e]) \in 0 .. Len(sent[Peer(e)]) - 1
         /\ sent[Peer(e)][Len(got[e]) + 1] \in Data
         /\ got' = [got EXCEPT ![e] = Append(@, sent[Peer(e)][Len(got[e]) + 1])]
         /\ Stream(<<>>, wire[e], Rest(Peer(e)), 2, "len", sent[Peer(e)], Len(got[e]) + 1)
<1>1. /\ need[e] = 0 /\ (rpc[e] = "len" => Length(buf[e]) = 0) /\ rpc[e] \in {"len", "data"}
      /\ got' = [got EXCEPT ![e] = Append(@, IF rpc[e] = "data" THEN buf[e] ELSE <<>>)]
  BY EndFacts DEF GotPacket, IndInv
<1>2. sent[Peer(e)][Len(got[e]) + 1] = IF rpc[e] = "data" THEN buf[e] ELSE <<>>
  BY <1>1, Complete
<1>3. QED
  BY <1>1, <1>2, Complete

\* RemoteGet returns, and will begin with the next length.
LEMMA GotPacketStep ==
  ASSUME LengthFits, IndInv, NEW e \in End, GotPacket(e)
  PROVE  IndInv'
<1>1. Types /\ Peer(e) \in End /\ Peer(Peer(e)) = e /\ Peer(e) # e
  BY Ends DEF IndInv
<1>2. /\ rpc' = [rpc EXCEPT ![e] = "len"] /\ need' = [need EXCEPT ![e] = 2]
      /\ buf' = [buf EXCEPT ![e] = <<>>] /\ UNCHANGED <<wire, spc, sent>>
  BY DEF GotPacket, Start
<1>3. PICK d \in Data :
        /\ got' = [got EXCEPT ![e] = Append(@, d)]
        /\ Stream(<<>>, wire[e], Rest(Peer(e)), 2, "len", sent[Peer(e)], Len(got[e]) + 1)
  BY PacketFacts
<1>4. Append(got[e], d) \in Seq(Data) /\ Len(Append(got[e], d)) = Len(got[e]) + 1
  BY <1>1, <1>3, EndFacts, AppendProperties
<1>5. /\ rpc'[e] = "len" /\ need'[e] = 2 /\ buf'[e] = <<>> /\ got'[e] = Append(got[e], d)
      /\ \A x \in End : x # e => /\ buf'[x] = buf[x] /\ rpc'[x] = rpc[x]
                                 /\ need'[x] = need[x] /\ got'[x] = got[x]
  BY <1>1, <1>2, <1>3 DEF Types
<1>6. Types'
  <2>1. buf' \in [End -> Seq(Byte)]
    BY <1>1, <1>2, EmptySeq DEF Types
  <2>2. rpc' \in [End -> {"len", "data"}] /\ need' \in [End -> Nat]
    BY <1>1, <1>2 DEF Types
  <2>3. got' \in [End -> Seq(Data)]
    BY <1>1, <1>3, <1>4 DEF Types
  <2>4. QED
    BY <1>1, <1>2, <2>1, <2>2, <2>3 DEF Types
<1>7. Framed(e)'
  <2>1. Rest(Peer(e))' = Rest(Peer(e))
    BY <1>2 DEF Rest
  <2>2. QED
    BY <1>2, <1>3, <1>4, <1>5, <2>1 DEF Framed
<1>8. Framed(Peer(e))'
  BY <1>1, <1>2, <1>5, SameStream DEF IndInv
<1>9. QED
  BY <1>6, <1>7, <1>8, Ends DEF IndInv

\* Every step keeps the invariant.
LEMMA NextInv ==
  ASSUME LengthFits, IndInv, [Next]_vars
  PROVE  IndInv'
<1>1. CASE Next
  BY <1>1, SendLenStep, SendDataStep, RecvStep, GotLenStep, GotPacketStep DEF Next, Put, Get
<1>2. CASE UNCHANGED vars
  <2>1. Types'
    BY <1>2 DEF IndInv, Types, vars
  <2>2. ASSUME NEW e \in End PROVE Framed(e)'
    BY <1>2, Ends, SameStream DEF IndInv, vars
  <2>3. QED
    BY <2>1, <2>2 DEF IndInv
<1>3. QED
  BY <1>1, <1>2

\* Wherever send and recv divide the bytes, what an end has read, what is under way
\* and what its peer has yet to send are the frames of the packets not yet got.
THEOREM FramesCorrect == LengthFits /\ Spec => []IndInv
<1>1. LengthFits /\ IndInv /\ [Next]_vars => IndInv'
  BY NextInv
<1>2. LengthFits => []LengthFits
  OBVIOUS
<1>3. QED
  BY <1>1, <1>2, InitInv, PTL DEF Spec

\* recvData never takes more bytes than the packet buffer holds.
THEOREM TcpTypesCorrect == LengthFits /\ Spec => []TypeOK
<1>1. IndInv => TypeOK
  <2> SUFFICES ASSUME IndInv PROVE TypeOK
    OBVIOUS
  <2>1. ASSUME NEW e \in End
        PROVE  Len(buf[e]) + need[e] <= IF rpc[e] = "len" THEN 2 ELSE MaxLen
    <3>1. Stream(buf[e], wire[e], Rest(Peer(e)), need[e], rpc[e], sent[Peer(e)], Len(got[e]))
      BY <2>1 DEF IndInv, Framed
    <3>2. CASE rpc[e] = "len"
      BY <3>1, <3>2 DEF Stream
    <3>3. CASE rpc[e] # "len"
      <4>1. rpc[e] = "data" /\ sent[Peer(e)] \in Seq(Data) /\ Len(got[e]) \in Nat
        BY <3>3, Ends, EndFacts DEF IndInv
      <4>2. /\ Len(got[e]) < Len(sent[Peer(e)])
            /\ Len(buf[e]) + need[e] = Len(sent[Peer(e)][Len(got[e]) + 1])
        BY <3>1, <4>1 DEF Stream
      <4>3. sent[Peer(e)][Len(got[e]) + 1] \in Data
        BY <4>1, <4>2, ElementOfSeq
      <4>4. QED
        BY <3>3, <4>2, <4>3, DataFacts, SizeAssumption
    <3>4. QED
      BY <3>2, <3>3
  <2>2. QED
    BY <2>1 DEF IndInv, Types, TypeOK
<1>2. QED
  BY <1>1, FramesCorrect, PTL

\* Each step of the link is a step of the channel, or changes no packet.
LEMMA StepImplements ==
  ASSUME LengthFits, IndInv, [Next]_vars
  PROVE  [Channel!Next]_(Channel!vars)
<1>1. ASSUME NEW e \in End, SendLen(e) PROVE Channel!Next
  <2>1. PICK d \in Data : sent' = [sent EXCEPT ![e] = Append(@, d)] /\ got' = got
    BY <1>1 DEF SendLen
  <2>2. Channel!Put(e, d) /\ e \in Channel!End
    BY <2>1 DEF Channel!Put, Channel!End, End
  <2>3. QED
    BY <2>1, <2>2 DEF Channel!Next
<1>2. ASSUME NEW e \in End, SendData(e) \/ Recv(e) \/ GotLen(e) PROVE UNCHANGED <<sent, got>>
  BY <1>2 DEF SendData, Recv, GotLen
<1>3. ASSUME NEW e \in End, GotPacket(e) PROVE Channel!Next
  <2>1. /\ Len(got[e]) \in 0 .. Len(sent[Peer(e)]) - 1
        /\ got' = [got EXCEPT ![e] = Append(@, sent[Peer(e)][Len(got[e]) + 1])]
        /\ sent' = sent
    BY <1>3, PacketFacts DEF GotPacket
  <2>2. Len(got[e]) < Len(sent[Peer(e)])
    <3>1. sent[Peer(e)] \in Seq(Data)
      BY Ends, EndFacts DEF IndInv
    <3>2. QED
      BY <2>1, <3>1
  <2>3. Channel!Deliver(e) /\ e \in Channel!End
    BY <2>1, <2>2 DEF Channel!Deliver, Channel!Peer, Peer, Channel!End, End
  <2>4. QED
    BY <2>3 DEF Channel!Next
<1>4. CASE UNCHANGED vars
  BY <1>4 DEF vars, Channel!vars
<1>5. QED
  BY <1>1, <1>2, <1>3, <1>4 DEF Next, Put, Get, Channel!vars

\* RemotePut and RemoteGet over TCP are the channel that remote.c and servacc.c talk
\* over, for bytes and packets of any size, as long as two bytes hold the length.
THEOREM TcpLinkImplementsChannel == LengthFits /\ Spec => Implements
<1>1. Init => Channel!Init
  BY DEF Init, Channel!Init, Channel!End, End
<1>2. LengthFits /\ IndInv /\ [Next]_vars => [Channel!Next]_(Channel!vars)
  BY StepImplements
<1>3. LengthFits => []LengthFits
  OBVIOUS
<1>4. QED
  BY <1>1, <1>2, <1>3, FramesCorrect, PTL DEF Spec, Implements, Channel!Spec
=============================================================================
