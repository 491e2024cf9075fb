--------------------------- MODULE SerBaudProofs ---------------------------
(***************************************************************************)
(* Proofs about SerBaud: the types; that the server takes a rate only when *)
(* the client has taken the same; that the test of a rate is over before   *)
(* the next sync point; that the client takes no rate alone at which       *)
(* nothing is garbled; and that it settles on a rate when the slowest one  *)
(* garbles nothing and no greeting parts the ends.  They hold for every    *)
(* table of rates and whatever the line garbles, the first two for any     *)
(* limits of the waits, the third for those that leave the room of         *)
(* SerBaudRoom, the fourth for those in which half a second is long enough *)
(* for an answer, the last for those in which every wait is and an end is  *)
(* silent before its peer listens at the next rate (SerBaudSilence).       *)
(***************************************************************************)
EXTENDS SerBaud, SequenceTheorems, TLAPS

Token == [sym : Symbol, rate : Rate, old : BOOLEAN]

LEMMA Ends == /\ End = {"client", "server"}
              /\ Peer("client") = "server" /\ Peer("server") = "client"
              /\ \A e \in End : Peer(e) \in End /\ Peer(e) # e /\ End = {e, Peer(e)}
BY DEF End, Peer

(***************************************************************************)
(* The line                                                                *)
(***************************************************************************)
\* A garbled message is as long as the message, and each symbol is what was sent
\* or has no meaning.
LEMMA GarbledFacts ==
  ASSUME NEW e \in End, NEW s \in Seq(Symbol), NEW t \in Garbled(e, s)
  PROVE  /\ t \in Seq(Symbol) /\ Len(t) = Len(s)
         /\ \A i \in 1 .. Len(s) : t[i] \in {s[i], "JUNK"}
<1>1. CASE t = s
  BY <1>1, ElementOfSeq
<1>2. CASE t \in [DOMAIN s -> Symbol] /\ \A i \in DOMAIN s : t[i] \in {s[i], "JUNK"}
  <2>1. DOMAIN s = 1 .. Len(s) /\ Len(s) \in Nat
    BY LenProperties
  <2>2. t \in [1 .. Len(s) -> Symbol]
    BY <1>2, <2>1
  <2>3. t \in Seq(Symbol)
    BY <2>1, <2>2, IsASeq
  <2>4. Len(t) = Len(s)
    BY <2>1, <2>2, <2>3, LenProperties
  <2>5. QED
    BY <1>2, <2>1, <2>3, <2>4
<1>3. QED
  BY <1>1, <1>2 DEF Garbled

\* What end e has read is gone, and what it has sent to end p is behind all the rest.
Sent(e, p, s, n) ==
  /\ chan' \in [End -> Seq(Token)]
  /\ Len(chan'[e]) = Len(chan[e]) - n
  /\ \A k \in 1 .. Len(chan[e]) - n : chan'[e][k] = chan[e][k + n]
  /\ Len(chan'[p]) = Len(chan[p]) + Len(s)
  /\ \A k \in 1 .. Len(chan[p]) : chan'[p][k] = chan[p][k]
  /\ \A k \in 1 .. Len(s) : /\ chan'[p][Len(chan[p]) + k].sym \in {s[k], "JUNK"}
                            /\ chan'[p][Len(chan[p]) + k].rate = rate[e]
                            /\ chan'[p][Len(chan[p]) + k].old = FALSE

LEMMA SendFacts ==
  ASSUME chan \in [End -> Seq(Token)], rate \in [End -> Rate],
         NEW e \in End, NEW p \in End, p # e,
         NEW s \in Seq(Symbol), NEW n \in Nat, n <= Len(chan[e]),
         SendRead(e, s, n)
  PROVE  Sent(e, p, s, n)
<1>1. PICK t \in Garbled(e, s) :
        chan' = [x \in End |->
                   IF x = e THEN SubSeq(chan[e], n + 1, Len(chan[e]))
                   ELSE chan[x] \o [i \in DOMAIN t |-> [sym |-> t[i], rate |-> rate[e], old |-> FALSE]]]
  BY DEF SendRead
<1> DEFINE m == [i \in DOMAIN t |-> [sym |-> t[i], rate |-> rate[e], old |-> FALSE]]
<1>2. /\ t \in Seq(Symbol) /\ Len(t) = Len(s) /\ Len(s) \in Nat
      /\ \A i \in 1 .. Len(s) : t[i] \in {s[i], "JUNK"}
  BY GarbledFacts, LenProperties
<1>3. DOMAIN t = 1 .. Len(s)
  BY <1>2, LenProperties
<1>4. \A i \in 1 .. Len(s) : [sym |-> t[i], rate |-> rate[e], old |-> FALSE] \in Token
  BY <1>2, <1>3, ElementOfSeq DEF Token
<1>5. m \in [1 .. Len(s) -> Token]
  BY <1>3, <1>4
<1>6. m \in Seq(Token) /\ Len(m) = Len(s)
  BY <1>2, <1>5, IsASeq, LenProperties
<1>7. \A i \in 1 .. Len(s) : m[i] = [sym |-> t[i], rate |-> rate[e], old |-> FALSE]
  BY <1>3
<1>8. \A x \in End : x = e \/ x = p
  BY DEF End
<1> HIDE DEF m
<1>9. chan'[p] = chan[p] \o m /\ chan'[e] = SubSeq(chan[e], n + 1, Len(chan[e]))
  BY <1>1, <1>8 DEF m
<1>10. chan[p] \in Seq(Token) /\ chan[e] \in Seq(Token)
  BY <1>8
<1>11. /\ chan'[p] \in Seq(Token) /\ Len(chan'[p]) = Len(chan[p]) + Len(s)
       /\ \A k \in 1 .. Len(chan[p]) : chan'[p][k] = chan[p][k]
       /\ \A k \in 1 .. Len(s) : chan'[p][Len(chan[p]) + k] = m[k]
  <2>1. chan[p] \o m \in Seq(Token) /\ Len(chan[p] \o m) = Len(chan[p]) + Len(s)
    <3>1. m \in Seq(Token) /\ chan[p] \in Seq(Token)
      BY <1>6, <1>10
    <3>2. chan[p] \o m \in Seq(Token) /\ Len(chan[p] \o m) = Len(chan[p]) + Len(m)
      BY ONLY <3>1, ConcatProperties
    <3>3. QED
      BY <1>6, <3>2
  <2>2. \A k \in 1 .. Len(chan[p]) + Len(s) :
          (chan[p] \o m)[k] = IF k <= Len(chan[p]) THEN chan[p][k] ELSE m[k - Len(chan[p])]
    BY <1>6, <1>10, ConcatProperties
  <2>3. Len(chan[p]) \in Nat
    BY <1>10, LenProperties
  <2>4. \A k \in 1 .. Len(s) : /\ Len(chan[p]) + k \in 1 .. Len(chan[p]) + Len(s)
                               /\ ~(Len(chan[p]) + k <= Len(chan[p]))
                               /\ Len(chan[p]) + k - Len(chan[p]) = k
    BY <1>2, <2>3
  <2>5. \A k \in 1 .. Len(chan[p]) : k \in 1 .. Len(chan[p]) + Len(s) /\ k <= Len(chan[p])
    BY <1>2, <2>3
  <2>6. QED
    BY <1>9, <2>1, <2>2, <2>4, <2>5
<1>12. /\ chan'[e] \in Seq(Token) /\ Len(chan'[e]) = Len(chan[e]) - n
       /\ \A k \in 1 .. Len(chan[e]) - n : chan'[e][k] = chan[e][k + n]
  <2>1. Len(chan[e]) \in Nat
    BY <1>10, LenProperties
  <2>2. \A k \in n + 1 .. Len(chan[e]) : chan[e][k] \in Token
    BY <1>10, <2>1, ElementOfSeq
  <2>3. QED
    BY <1>9, <1>10, <2>1, <2>2, SubSeqProperties
<1>13. chan' \in [End -> Seq(Token)]
  BY <1>1, <1>8, <1>9, <1>11, <1>12
<1>14. \A k \in 1 .. Len(s) : /\ chan'[p][Len(chan[p]) + k].sym \in {s[k], "JUNK"}
                              /\ chan'[p][Len(chan[p]) + k].rate = rate[e]
                              /\ chan'[p][Len(chan[p]) + k].old = FALSE
  <2>1. SUFFICES ASSUME NEW k \in 1 .. Len(s)
                 PROVE  /\ chan'[p][Len(chan[p]) + k].sym \in {s[k], "JUNK"}
                        /\ chan'[p][Len(chan[p]) + k].rate = rate[e]
                        /\ chan'[p][Len(chan[p]) + k].old = FALSE
    OBVIOUS
  <2>2. chan'[p][Len(chan[p]) + k] = [sym |-> t[k], rate |-> rate[e], old |-> FALSE]
    BY <1>7, <1>11
  <2>3. t[k] \in {s[k], "JUNK"}
    BY <1>2
  <2>4. QED
    BY <2>2, <2>3
<1>15. QED
  BY <1>11, <1>12, <1>13, <1>14 DEF Sent

(***************************************************************************)
(* The types                                                               *)
(***************************************************************************)
\* Before Speed has begun the table is at its first entry, from then on the rate is
\* the one that BaudCounter names, and an end that has settled is done.
Begun(e) == pc[e] \notin {"march", "lok", "lokack", "hold"}
Tabled ==
  \A e \in End : /\ Begun(e) /\ pc[e] # "done" => rate[e] = idx[e]
                 /\ ~Begun(e) => idx[e] = 1
                 /\ ok[e] => pc[e] = "done"
Walk ==
  /\ now \in Nat /\ zero \in [End -> Nat]
  /\ pc \in [End -> Pcs] /\ deadline \in [End -> Nat]
  /\ idx \in [End -> Rate] /\ rate \in [End -> Rate]
  /\ sp \in [End -> Nat] /\ next \in [End -> Nat]
  /\ ok \in [End -> BOOLEAN] /\ late \in BOOLEAN /\ greeted \subseteq End \X Rate
TypeInv == Walk /\ Tabled /\ clean \subseteq Rate /\ chan \in [End -> Seq(Token)]

LEMMA LimitFacts ==
  /\ \A n \in {BaudSet, Slop, TestSlop, TimeOut, HalfSec, ByteWait, LokWait, Base} : n \in Nat
  /\ \A i \in Rate : StrTicks(i) \in Nat /\ TestTime(i) \in Nat
  /\ 1 \in Rate /\ Slowest \in Rate
<1>1. \A n \in {BaudSet, Slop, TestSlop, TimeOut, HalfSec, ByteWait, LokWait, Base} : n \in Nat
  BY SerBaudAssumption DEF Base
<1>2. ASSUME NEW i \in Rate PROVE StrTicks(i) \in Nat /\ TestTime(i) \in Nat
  <2>1. StrUnit \in Nat /\ i \in Nat
    BY SerBaudAssumption DEF Rate
  <2>2. StrTicks(i) \in Nat
    BY <2>1 DEF StrTicks
  <2>3. QED
    BY <1>1, <2>2 DEF TestTime
<1>3. 1 \in Rate /\ Slowest \in Rate
  BY SerBaudAssumption DEF Rate, Slowest
<1>4. QED
  BY <1>1, <1>2, <1>3

\* What is sent has a type, and what is read was there.
LEMMA SendTypes ==
  ASSUME TypeInv, NEW e \in End, NEW s \in Seq(Symbol), NEW n \in {0, 1},
         n = 1 => chan[e] # <<>>, SendRead(e, s, n)
  PROVE  chan' \in [End -> Seq(Token)]
<1>1. chan[e] \in Seq(Token)
  BY DEF TypeInv
<1>2. n \in Nat /\ n <= Len(chan[e])
  BY <1>1, EmptySeq, LenProperties
<1>3. Sent(e, Peer(e), s, n)
  BY <1>2, Ends, SendFacts DEF TypeInv, Walk
<1>4. QED
  BY <1>3 DEF Sent

\* What an end may send at once.
Message == {<<>>, <<"LOK">>, <<"ACK">>, <<"HI">>, <<"SYNC_BYTE">>, <<"SYNC_END">>,
            <<"SYNC_END", "JUNK">>, <<"STR">>, <<"TAK">>, <<"TAK", "SYNC_BYTE">>}
LEMMA Messages ==
  /\ Message \subseteq Seq(Symbol)
  /\ <<>> \in Message /\ <<"LOK">> \in Message /\ <<"ACK">> \in Message /\ <<"HI">> \in Message
  /\ <<"SYNC_BYTE">> \in Message /\ <<"SYNC_END">> \in Message /\ <<"SYNC_END", "JUNK">> \in Message
  /\ <<"STR">> \in Message /\ <<"TAK">> \in Message /\ <<"TAK", "SYNC_BYTE">> \in Message
BY DEF Message, Symbol

LEMMA SentTypes ==
  ASSUME TypeInv, NEW e \in End, NEW s \in Message, Send(e, s)
  PROVE  chan' \in [End -> Seq(Token)]
<1>1. SendRead(e, s, 0) /\ s \in Seq(Symbol)
  BY Messages DEF Send
<1>2. ASSUME NEW n \in {0, 1}, n = 0 PROVE chan' \in [End -> Seq(Token)]
  <2>1. (n = 1 => chan[e] # <<>>) /\ SendRead(e, s, n)
    BY <1>1, <1>2
  <2>2. QED
    BY <1>1, <2>1, SendTypes
<1>3. QED
  BY <1>2

\* Step reads: the first symbol there is for end e is read, and something is sent.
Reads(e) == chan[e] # <<>> /\ \E s \in Message : SendRead(e, s, 1)
LEMMA ReadsTypes ==
  ASSUME TypeInv, NEW e \in End, Reads(e)
  PROVE  chan' \in [End -> Seq(Token)]
<1>1. PICK s \in Message : SendRead(e, s, 1)
  BY DEF Reads
<1>2. QED
  BY <1>1, Messages, SendTypes DEF Reads

\* The next turn of Speed's loop, or the end of the call.
LEMMA FailTypes ==
  ASSUME Walk, Tabled, NEW e \in End, Begun(e), pc[e] # "done", Fail(e), UNCHANGED <<now, greeted>>
  PROVE  Walk' /\ Tabled'
<1>1. CASE idx[e] < NumRates
  <2>1. idx[e] \in Nat /\ NumRates \in Nat /\ idx[e] >= 1
    BY SerBaudAssumption DEF Walk, Rate
  <2>2. idx[e] + 1 \in Rate /\ next[e] + Base \in Nat /\ "sync" \in Pcs
    BY <1>1, <2>1, LimitFacts DEF Walk, Rate, Pcs
  <2>3. /\ pc' = [pc EXCEPT ![e] = "sync"] /\ deadline' = [deadline EXCEPT ![e] = now + 0]
        /\ idx' = [idx EXCEPT ![e] = idx[e] + 1] /\ rate' = [rate EXCEPT ![e] = idx[e] + 1]
        /\ sp' = [sp EXCEPT ![e] = next[e]] /\ next' = [next EXCEPT ![e] = next[e] + Base]
        /\ UNCHANGED <<zero, ok, late>>
    BY <1>1 DEF Fail, Begin, Baud, Goto
  <2>4. Walk'
    BY <2>2, <2>3 DEF Walk
  <2>5. Tabled'
    BY <2>2, <2>3 DEF Walk, Tabled, Begun
  <2>6. QED
    BY <2>4, <2>5
<1>2. CASE ~(idx[e] < NumRates)
  <2>1. /\ pc' = [pc EXCEPT ![e] = "done"] /\ deadline' = [deadline EXCEPT ![e] = now + 0]
        /\ UNCHANGED table
    BY <1>2 DEF Fail, Goto, table
  <2>2. "done" \in Pcs
    BY DEF Pcs
  <2>3. Walk'
    BY <2>1, <2>2 DEF Walk, table
  <2>4. Tabled'
    BY <2>1, <2>2 DEF Walk, Tabled, Begun, table
  <2>5. QED
    BY <2>3, <2>4
<1>3. QED
  BY <1>1, <1>2

\* A step that goes on in the same turn.
LEMMA GotoTypes ==
  ASSUME Walk, Tabled, NEW e \in End, Begun(e), pc[e] # "done", NEW n \in Nat,
         NEW l \in Pcs \ {"march", "lok", "lokack", "hold"}, Goto(e, l, n), UNCHANGED <<table, now, greeted>>
  PROVE  Walk' /\ Tabled'
<1>1. pc' = [pc EXCEPT ![e] = l] /\ deadline' = [deadline EXCEPT ![e] = now + n] /\ now + n \in Nat
  BY DEF Goto, Walk
<1>2. Walk'
  BY <1>1 DEF Walk, table
<1>3. Tabled'
  BY <1>1 DEF Walk, Tabled, Begun, table
<1>4. QED
  BY <1>2, <1>3

\* A step that leaves the wait as it is.
LEMMA WaitTypes ==
  ASSUME Walk, Tabled, UNCHANGED <<pc, deadline, table, now, greeted>>
  PROVE  Walk' /\ Tabled'
BY DEF Walk, Tabled, Begun, table

LEMMA MarchTypes ==
  ASSUME TypeInv, NEW e \in End, SendLok \/ MarchRead(e) \/ StartSpeed(e)
  PROVE  TypeInv'
<1>0. Walk /\ Tabled
  BY DEF TypeInv
<1>1. CASE SendLok
  <2>1. chan' \in [End -> Seq(Token)]
    <3>1. Send("server", <<"LOK">>) /\ <<"LOK">> \in Message /\ "server" \in End
      BY <1>1, Ends, Messages DEF SendLok
    <3>2. QED
      BY <3>1, SentTypes
  <2>2. /\ pc' = [pc EXCEPT !["server"] = "lokack"] /\ deadline' = [deadline EXCEPT !["server"] = now + HalfSec]
        /\ UNCHANGED <<fixed, table, greeted>> /\ pc["server"] = "march"
    BY <1>1 DEF SendLok, Goto
  <2>3. Walk'
    BY <1>0, <2>2, Ends, LimitFacts DEF Walk, table, fixed, Pcs, Reading
  <2>4. Tabled'
    BY <1>0, <2>2, Ends DEF Walk, Tabled, Begun, table
  <2>5. QED
    BY <2>1, <2>2, <2>3, <2>4 DEF TypeInv, fixed
<1>2. CASE MarchRead(e)
  <2>1. Reads(e)
    BY <1>2, Messages DEF MarchRead, Gets, Reads
  <2>2. chan' \in [End -> Seq(Token)]
    BY <2>1, ReadsTypes
  <2>3. PICK l \in {"hold", "done"}, n \in {0, 1} : Goto(e, l, n) /\ UNCHANGED <<table, fixed, greeted>>
    BY <1>2 DEF MarchRead, NoMarch
  <2>4. pc[e] \in {"lok", "lokack"}
    BY <1>2 DEF MarchRead, Gets
  <2>5. pc' = [pc EXCEPT ![e] = l] /\ deadline' = [deadline EXCEPT ![e] = now + n]
    BY <2>3 DEF Goto
  <2>6. Walk'
    BY <1>0, <2>3, <2>5 DEF Walk, table, fixed, Pcs
  <2>7. Tabled'
    BY <1>0, <2>3, <2>4, <2>5 DEF Walk, Tabled, Begun, table
  <2>8. QED
    BY <2>2, <2>3, <2>6, <2>7 DEF TypeInv, fixed
<1>3. CASE StartSpeed(e)
  <2>1. /\ pc[e] = "hold" /\ zero' = [zero EXCEPT ![e] = now]
        /\ pc' = [pc EXCEPT ![e] = "sync"] /\ deadline' = [deadline EXCEPT ![e] = now + 0]
        /\ idx' = [idx EXCEPT ![e] = 1] /\ rate' = [rate EXCEPT ![e] = 1]
        /\ sp' = [sp EXCEPT ![e] = BaudSet] /\ next' = [next EXCEPT ![e] = BaudSet + Base]
        /\ UNCHANGED <<fixed, chan, ok, late, greeted>>
    BY <1>3 DEF StartSpeed, Begin, Baud, Goto
  <2>2. Walk'
    BY <1>0, <2>1, LimitFacts DEF Walk, fixed, Pcs
  <2>3. Tabled'
    BY <1>0, <2>1, LimitFacts DEF Walk, Tabled, Begun
  <2>4. QED
    BY <2>1, <2>2, <2>3 DEF TypeInv, fixed
<1>4. QED
  BY <1>1, <1>2, <1>3

LEMMA SyncTypes ==
  ASSUME TypeInv, NEW e \in End, AtSync(e) \/ SendHi(e) \/ HiRead(e)
  PROVE  TypeInv'
<1>0. Walk /\ Tabled
  BY DEF TypeInv
<1>1. CASE AtSync(e)
  <2>1. /\ pc[e] = "sync" /\ chan' = [chan EXCEPT ![e] = <<>>] /\ late' = (late \/ Clock(e) > sp[e])
        /\ pc' = [pc EXCEPT ![e] = "slop"] /\ deadline' = [deadline EXCEPT ![e] = now + Slop]
        /\ UNCHANGED <<fixed, zero, idx, rate, sp, next, ok, greeted>>
    BY <1>1 DEF AtSync, Goto
  <2>2. chan' \in [End -> Seq(Token)]
    BY <2>1, EmptySeq DEF TypeInv
  <2>3. Walk'
    <3>1. now + Slop \in Nat /\ "slop" \in Pcs
      BY <1>0, LimitFacts DEF Walk, Pcs
    <3>2. late' \in BOOLEAN
      BY <2>1
    <3>3. QED
      BY <1>0, <2>1, <3>1, <3>2 DEF Walk, fixed
  <2>4. Tabled'
    BY <1>0, <2>1 DEF Walk, Tabled, Begun
  <2>5. QED
    BY <2>1, <2>2, <2>3, <2>4 DEF TypeInv, fixed
<1>2. CASE SendHi(e)
  <2>1. chan' \in [End -> Seq(Token)]
    <3>1. Send(e, <<"HI">>) /\ <<"HI">> \in Message
      BY <1>2, Messages DEF SendHi
    <3>2. QED
      BY <3>1, SentTypes
  <2>2. /\ Begun(e) /\ pc[e] # "done" /\ 2 * Slop \in Nat
        /\ Goto(e, "hi", 2 * Slop) /\ UNCHANGED <<fixed, table, greeted>>
    BY <1>2, LimitFacts DEF SendHi, Begun
  <2>3. Walk' /\ Tabled'
    BY <1>0, <2>2, GotoTypes DEF fixed, Pcs, Reading
  <2>4. QED
    BY <2>1, <2>2, <2>3 DEF TypeInv, fixed
<1>3. CASE HiRead(e)
  <2>1. Reads(e)
    BY <1>3, Messages DEF HiRead, Gets, StartSend, Reads
  <2>2. chan' \in [End -> Seq(Token)]
    BY <2>1, ReadsTypes
  <2>3. Begun(e) /\ pc[e] = "hi" /\ UNCHANGED fixed
    BY <1>3 DEF HiRead, Gets, Begun
  <2>4. CASE Heard(e) = "HI"
    <3>1. PICK l \in {"hs", "rhs"} : Goto(e, l, TimeOut)
      BY <1>3, <2>4 DEF HiRead, StartSend, StartReceive
    <3>2. /\ pc' = [pc EXCEPT ![e] = l] /\ deadline' = [deadline EXCEPT ![e] = now + TimeOut]
          /\ next' = [next EXCEPT ![e] = next[e] + Added(e)] /\ UNCHANGED <<zero, idx, rate, sp, ok, late>>
          /\ greeted' = greeted \cup {<<e, idx[e]>>}
      BY <1>3, <2>4, <3>1 DEF HiRead, Goto
    <3>3. Added(e) \in Nat /\ <<e, idx[e]>> \in End \X Rate
      BY <1>0, LimitFacts DEF Added, Walk
    <3>4. next[e] + Added(e) \in Nat /\ now + TimeOut \in Nat /\ l \in Pcs
      BY <1>0, <3>3, LimitFacts DEF Walk, Pcs, Reading
    <3>5. Walk'
      BY <1>0, <2>3, <3>2, <3>3, <3>4 DEF Walk, fixed
    <3>6. Tabled'
      BY <1>0, <2>3, <3>2, <3>4 DEF Walk, Tabled, Begun
    <3>7. QED
      BY <2>2, <2>3, <3>5, <3>6 DEF TypeInv, fixed
  <2>5. CASE Heard(e) # "HI"
    <3>1. Fail(e) /\ UNCHANGED greeted
      BY <1>3, <2>5 DEF HiRead
    <3>2. Walk' /\ Tabled'
      BY <1>0, <2>3, <3>1, FailTypes DEF fixed
    <3>3. QED
      BY <2>2, <2>3, <3>2 DEF TypeInv, fixed
  <2>6. QED
    BY <2>4, <2>5
<1>4. QED
  BY <1>1, <1>2, <1>3

\* What a step of the test does with the wait, apart from what it reads and sends:
\* it goes on, or waits for more, or fails.
Testing == {"hs", "str", "tak", "last", "rhs", "check", "ack"}
GoesOn(e) == \E l \in Testing, n \in Nat : Goto(e, l, n) /\ UNCHANGED table
StaysOn == UNCHANGED <<pc, deadline, table>>
LEMMA TestingTypes ==
  ASSUME TypeInv, NEW e \in End, pc[e] \in Testing, chan' \in [End -> Seq(Token)],
         UNCHANGED <<fixed, greeted>>, GoesOn(e) \/ StaysOn \/ Success(e) \/ Fail(e)
  PROVE  TypeInv'
<1>0. Walk /\ Tabled /\ Begun(e) /\ pc[e] # "done" /\ UNCHANGED <<now, clean>>
  BY DEF TypeInv, Testing, Begun, fixed
<1>1. CASE GoesOn(e)
  <2>1. PICK l \in Testing, n \in Nat : Goto(e, l, n) /\ UNCHANGED table
    BY <1>1 DEF GoesOn
  <2>2. l \in Pcs \ {"march", "lok", "lokack", "hold"}
    BY DEF Testing, Pcs, Reading
  <2>3. Walk' /\ Tabled'
    BY <1>0, <2>1, <2>2, GotoTypes
  <2>4. QED
    BY <1>0, <2>3 DEF TypeInv
<1>2. CASE StaysOn
  <2>1. Walk' /\ Tabled'
    BY <1>0, <1>2, WaitTypes DEF StaysOn
  <2>2. QED
    BY <1>0, <2>1 DEF TypeInv
<1>3. CASE Success(e)
  <2>1. /\ pc' = [pc EXCEPT ![e] = "done"] /\ deadline' = [deadline EXCEPT ![e] = now + 0]
        /\ ok' = [ok EXCEPT ![e] = TRUE] /\ UNCHANGED <<zero, idx, rate, sp, next, late>>
    BY <1>3 DEF Success, Goto
  <2>2. Walk'
    BY <1>0, <2>1 DEF Walk, Pcs
  <2>3. Tabled'
    BY <1>0, <2>1 DEF Walk, Tabled, Begun
  <2>4. QED
    BY <1>0, <2>2, <2>3 DEF TypeInv
<1>4. CASE Fail(e)
  <2>1. Walk' /\ Tabled'
    BY <1>0, <1>4, FailTypes
  <2>2. QED
    BY <1>0, <2>1 DEF TypeInv
<1>5. QED
  BY <1>1, <1>2, <1>3, <1>4

\* What the steps of SetBaudSender and SetBaudReceiver are.
TestRead(e) ==
  HandshakeRead(e) \/ TakRead(e) \/ LastRead(e) \/ ReceiverRead(e) \/ CheckRead(e) \/ AckRead(e)
LEMMA TestReads ==
  ASSUME TypeInv, NEW e \in End, TestRead(e)
  PROVE  /\ pc[e] \in Testing /\ Reads(e) /\ UNCHANGED <<fixed, greeted>>
         /\ GoesOn(e) \/ StaysOn \/ Success(e) \/ Fail(e)
<1>0. StrTicks(idx[e]) \in Nat /\ StrTicks(idx[e]) + ByteWait \in Nat /\ TimeOut \in Nat /\ HalfSec \in Nat
  <2>1. StrTicks(idx[e]) \in Nat /\ ByteWait \in Nat /\ TimeOut \in Nat /\ HalfSec \in Nat
    BY LimitFacts DEF TypeInv, Walk
  <2>2. QED
    BY <2>1
<1>1. CASE HandshakeRead(e)
  <2>1. pc[e] = "hs" /\ chan[e] # <<>> /\ UNCHANGED <<fixed, table, greeted>>
    BY <1>1 DEF HandshakeRead, Gets
  <2>2. CASE Heard(e) = "ACK"
    <3>1. Goto(e, "str", StrTicks(idx[e])) /\ Reads(e)
      BY <1>1, <2>2, <2>1, Messages DEF HandshakeRead, Reads
    <3>2. QED
      BY <1>0, <2>1, <3>1 DEF GoesOn, Testing
  <2>3. CASE Heard(e) # "ACK"
    BY <1>1, <2>1, <2>3, Messages DEF HandshakeRead, Reads, StaysOn, Testing
  <2>4. QED
    BY <2>2, <2>3
<1>2. CASE TakRead(e)
  <2>1. pc[e] = "tak" /\ chan[e] # <<>> /\ UNCHANGED <<fixed, greeted>>
    BY <1>2 DEF TakRead, Gets
  <2>2. Reads(e)
    BY <1>2, <2>1, Messages DEF TakRead, Reads
  <2>3. (Goto(e, "last", HalfSec) /\ UNCHANGED table) \/ StaysOn
    BY <1>2 DEF TakRead, AfterAck, StaysOn
  <2>4. QED
    BY <1>0, <2>1, <2>2, <2>3 DEF GoesOn, Testing
<1>3. CASE LastRead(e)
  <2>1. pc[e] = "last" /\ chan[e] # <<>> /\ UNCHANGED <<fixed, greeted>>
    BY <1>3 DEF LastRead, Gets
  <2>2. Reads(e)
    BY <1>3, <2>1, Messages DEF LastRead, Reads
  <2>3. (Goto(e, "rhs", TimeOut) /\ UNCHANGED table) \/ Success(e) \/ Fail(e)
    BY <1>3 DEF LastRead, StartReceive
  <2>4. QED
    BY <1>0, <2>1, <2>2, <2>3 DEF GoesOn, Testing
<1>4. CASE ReceiverRead(e)
  <2>1. pc[e] = "rhs" /\ chan[e] # <<>> /\ UNCHANGED <<fixed, table, greeted>>
    BY <1>4 DEF ReceiverRead, Gets
  <2>2. Reads(e)
    BY <1>4, <2>1, Messages DEF ReceiverRead, Reads
  <2>3. Goto(e, "check", StrTicks(idx[e]) + ByteWait) \/ UNCHANGED <<pc, deadline>>
    BY <1>4 DEF ReceiverRead
  <2>4. QED
    BY <1>0, <2>1, <2>2, <2>3 DEF GoesOn, StaysOn, Testing
<1>5. CASE CheckRead(e)
  <2>1. pc[e] = "check" /\ chan[e] # <<>> /\ UNCHANGED <<fixed, greeted>>
    BY <1>5 DEF CheckRead, Gets
  <2>2. Reads(e)
    BY <1>5, <2>1, Messages DEF CheckRead, Reads
  <2>3. (Goto(e, "ack", HalfSec) /\ UNCHANGED table) \/ Fail(e)
    BY <1>5 DEF CheckRead
  <2>4. QED
    BY <1>0, <2>1, <2>2, <2>3 DEF GoesOn, Testing
<1>6. CASE AckRead(e)
  <2>1. pc[e] = "ack" /\ chan[e] # <<>> /\ UNCHANGED <<fixed, greeted>>
    BY <1>6 DEF AckRead, Gets
  <2>2. Reads(e)
    BY <1>6, <2>1, Messages DEF AckRead, Reads
  <2>3. (Goto(e, "hs", TimeOut) /\ UNCHANGED table) \/ Success(e) \/ Fail(e)
    BY <1>6 DEF AckRead
  <2>4. QED
    BY <1>0, <2>1, <2>2, <2>3 DEF GoesOn, Testing
<1>7. QED
  BY <1>1, <1>2, <1>3, <1>4, <1>5, <1>6 DEF TestRead

LEMMA StrTypes ==
  ASSUME TypeInv, NEW e \in End, StrEnd(e)
  PROVE  TypeInv'
<1>1. Send(e, <<"STR">>) /\ <<"STR">> \in Message
  BY Messages DEF StrEnd
<1>2. chan' \in [End -> Seq(Token)]
  BY <1>1, SentTypes
<1>3. pc[e] \in Testing /\ GoesOn(e) /\ UNCHANGED <<fixed, greeted>>
  BY LimitFacts DEF StrEnd, GoesOn, Testing
<1>4. QED
  BY <1>2, <1>3, TestingTypes

LEMMA GivesUpTypes ==
  ASSUME TypeInv, NEW e \in End, GivesUp(e)
  PROVE  TypeInv'
<1>0. Walk /\ Tabled /\ chan' \in [End -> Seq(Token)] /\ UNCHANGED <<clean, now, greeted>>
  BY DEF TypeInv, GivesUp, fixed
<1>1. CASE pc[e] \in {"lok", "lokack"}
  <2>1. /\ pc' = [pc EXCEPT ![e] = "done"] /\ deadline' = [deadline EXCEPT ![e] = now + 0]
        /\ UNCHANGED table
    BY <1>1 DEF GivesUp, NoMarch, Goto
  <2>2. Walk'
    <3>1. "done" \in Pcs /\ now + 0 \in Nat
      BY <1>0 DEF Walk, Pcs
    <3>2. QED
      BY <1>0, <2>1, <3>1 DEF Walk, table
  <2>3. Tabled'
    BY <1>0, <1>1, <2>1 DEF Walk, Tabled, Begun, table
  <2>4. QED
    BY <1>0, <2>2, <2>3 DEF TypeInv
<1>2. CASE pc[e] \notin {"lok", "lokack"}
  <2>1. Begun(e) /\ pc[e] # "done" /\ Fail(e)
    BY <1>2 DEF GivesUp, Begun, Reading
  <2>2. Walk' /\ Tabled'
    BY <1>0, <2>1, FailTypes
  <2>3. QED
    BY <1>0, <2>2 DEF TypeInv
<1>3. QED
  BY <1>1, <1>2

LEMMA TickTypes ==
  ASSUME TypeInv, Tick
  PROVE  /\ TypeInv'
         /\ \A e \in End : /\ Len(chan'[e]) = Len(chan[e])
                           /\ \A k \in 1 .. Len(chan[e]) : /\ chan'[e][k].sym = chan[e][k].sym
                                                          /\ chan'[e][k].rate = chan[e][k].rate
<1>1. ASSUME NEW e \in End
      PROVE  /\ chan'[e] \in Seq(Token) /\ Len(chan'[e]) = Len(chan[e])
             /\ \A k \in 1 .. Len(chan[e]) : /\ chan'[e][k].sym = chan[e][k].sym
                                            /\ chan'[e][k].rate = chan[e][k].rate
  <2>1. chan'[e] = [i \in DOMAIN chan[e] |-> [chan[e][i] EXCEPT !.old = TRUE]]
    BY DEF Tick
  <2>2. chan[e] \in Seq(Token) /\ DOMAIN chan[e] = 1 .. Len(chan[e]) /\ Len(chan[e]) \in Nat
    BY LenProperties DEF TypeInv
  <2>3. \A k \in 1 .. Len(chan[e]) : chan[e][k] \in Token
    BY <2>2, ElementOfSeq
  <2>4. \A k \in 1 .. Len(chan[e]) : /\ chan'[e][k] \in Token
                                   /\ chan'[e][k].sym = chan[e][k].sym
                                   /\ chan'[e][k].rate = chan[e][k].rate
    <3>1. SUFFICES ASSUME NEW k \in 1 .. Len(chan[e])
                   PROVE  /\ chan'[e][k] \in Token
                          /\ chan'[e][k].sym = chan[e][k].sym
                          /\ chan'[e][k].rate = chan[e][k].rate
      OBVIOUS
    <3>2. chan'[e][k] = [chan[e][k] EXCEPT !.old = TRUE]
      BY <2>1, <2>2
    <3>3. chan[e][k] \in Token
      BY <2>3
    <3>4. QED
      BY <3>2, <3>3 DEF Token
  <2>5. chan'[e] \in [1 .. Len(chan[e]) -> Token]
    BY <2>1, <2>2, <2>4
  <2>6. QED
    BY <2>2, <2>4, <2>5, IsASeq, LenProperties
<1>2. chan' \in [End -> Seq(Token)]
  BY <1>1 DEF Tick
<1>3. Walk' /\ Tabled' /\ UNCHANGED clean
  BY DEF TypeInv, Tick, Walk, Tabled, Begun, table
<1>4. QED
  BY <1>1, <1>2, <1>3 DEF TypeInv

LEMMA TypeInit == Init => TypeInv
<1> SUFFICES ASSUME Init PROVE TypeInv
  OBVIOUS
<1>1. clean \subseteq Rate
  <2>1. PICK i \in 1 .. NumRates + 1 : clean = i .. NumRates
    BY DEF Init
  <2>2. NumRates \in Nat
    BY SerBaudAssumption
  <2>3. QED
    BY <2>1, <2>2 DEF Rate
<1>2. Walk
  BY LimitFacts, Ends DEF Init, Walk, Pcs, Reading
<1>3. Tabled
  BY Ends DEF Init, Tabled, Begun
<1>4. chan \in [End -> Seq(Token)]
  BY EmptySeq DEF Init
<1>5. QED
  BY <1>1, <1>2, <1>3, <1>4 DEF TypeInv

LEMMA TypeNext == TypeInv /\ [Next]_vars => TypeInv'
<1> SUFFICES ASSUME TypeInv, [Next]_vars PROVE TypeInv'
  OBVIOUS
<1>1. CASE SendLok
  BY <1>1, MarchTypes, Ends
<1>2. CASE Tick
  BY <1>2, TickTypes
<1>3. CASE UNCHANGED vars
  BY <1>3 DEF TypeInv, Walk, Tabled, Begun, vars
<1>4. ASSUME NEW e \in End, Step(e)
      PROVE  TypeInv'
  <2>1. CASE TestRead(e)
    <3>1. chan' \in [End -> Seq(Token)]
      BY <2>1, TestReads, ReadsTypes
    <3>2. QED
      BY <2>1, <3>1, TestReads, TestingTypes
  <2>2. CASE MarchRead(e) \/ StartSpeed(e)
    BY <2>2, MarchTypes
  <2>3. CASE AtSync(e) \/ SendHi(e) \/ HiRead(e)
    BY <2>3, SyncTypes
  <2>4. CASE StrEnd(e)
    BY <2>4, StrTypes
  <2>5. CASE GivesUp(e)
    BY <2>5, GivesUpTypes
  <2>6. QED
    BY <1>4, <2>1, <2>2, <2>3, <2>4, <2>5 DEF Step, TestRead
<1>5. QED
  BY <1>1, <1>2, <1>3, <1>4 DEF Next, Returned

(***************************************************************************)
(* The server takes a rate only with the client                            *)
(*                                                                         *)
(* The client says TAK at a rate when the server's string was right, and   *)
(* once more when it takes the rate; the server waits for both.  So as     *)
(* long as the client has not taken the rate there is one TAK at most: on  *)
(* its way, or behind a server that waits for another.                     *)
(***************************************************************************)
\* Where a TAK of rate r is under way to the server.
Taks(r) == {k \in 1 .. Len(chan["server"]) : chan["server"][k].sym = "TAK" /\ chan["server"][k].rate = r}
Took(r) == idx["server"] = r /\ pc["server"] = "last"
\* The client has found the string right at rate r, or is past r; has taken r.
Said(r) == idx["client"] > r \/ (idx["client"] = r /\ pc["client"] \in {"ack", "done"})
Settled(r) == ok["client"] /\ idx["client"] = r

TakInv ==
  /\ \A r \in Rate :
       /\ Took(r) \/ Taks(r) # {} => Said(r)
       /\ ~Settled(r) => /\ \A k, l \in Taks(r) : k = l
                         /\ Took(r) => Taks(r) = {}
  /\ ServerKnows

\* Every TAK that is there after the step was there before it.
Fewer == \E n \in Nat : \A r \in Rate : \A k \in Taks(r)' : k + n \in Taks(r)

\* Steps that say no TAK and take none.
LEMMA QuietStep ==
  ASSUME TypeInv, TakInv, Fewer,
         \A r \in Rate : (Took(r)' => Took(r)) /\ (Said(r) => Said(r)') /\ (Settled(r) => Settled(r)'),
         ok'["server"] => ok["server"] /\ idx'["server"] = idx["server"]
  PROVE  TakInv'
<1>1. PICK n \in Nat : \A r \in Rate : \A k \in Taks(r)' : k + n \in Taks(r)
  BY DEF Fewer
<1>2. ASSUME NEW r \in Rate, (Took(r) \/ Taks(r) # {})' PROVE Said(r)'
  <2>1. Took(r) \/ Taks(r) # {}
    BY <1>1, <1>2
  <2>2. QED
    BY <2>1 DEF TakInv
<1>3. ASSUME NEW r \in Rate, ~Settled(r)', NEW k \in Taks(r)'
      PROVE  ~Took(r)' /\ \A l \in Taks(r)' : k = l
  <2>1. k + n \in Taks(r) /\ ~Settled(r)
    BY <1>1, <1>3
  <2>2. ~Took(r)
    BY <2>1 DEF TakInv
  <2>3. ASSUME NEW l \in Taks(r)' PROVE k = l
    <3>1. l + n \in Taks(r) /\ k \in Int /\ l \in Int
      BY <1>1 DEF Taks
    <3>2. k + n = l + n
      BY <2>1, <3>1 DEF TakInv
    <3>3. QED
      BY <3>1, <3>2
  <2>4. QED
    BY <2>2, <2>3
<1>4. ServerKnows'
  <2>1. SUFFICES ASSUME ok'["server"] PROVE ok'["client"] /\ idx'["client"] = idx'["server"]
    BY DEF ServerKnows
  <2>2. idx["client"] \in Rate /\ ok["client"] /\ idx["client"] = idx["server"]
    BY <2>1, Ends DEF TakInv, ServerKnows, TypeInv, Walk
  <2>3. Settled(idx["client"])
    BY <2>2 DEF Settled
  <2>4. QED
    BY <2>1, <2>2, <2>3 DEF Settled
<1>5. QED
  BY <1>2, <1>3, <1>4 DEF TakInv

\* What an end has read is gone, whatever it has sent.
LEMMA ReadFacts ==
  ASSUME TypeInv, NEW e \in End, NEW s \in Message, NEW n \in Nat, n <= Len(chan[e]), SendRead(e, s, n)
  PROVE  /\ Len(chan'[e]) = Len(chan[e]) - n
         /\ \A k \in 1 .. Len(chan[e]) - n : chan'[e][k] = chan[e][k + n]
<1>1. PICK p \in End : p # e
  BY Ends
<1>2. s \in Seq(Symbol) /\ chan \in [End -> Seq(Token)] /\ rate \in [End -> Rate]
  BY Messages DEF TypeInv, Walk
<1>3. Sent(e, p, s, n)
  BY <1>1, <1>2, SendFacts
<1>4. QED
  BY <1>3 DEF Sent

\* What the server sends is of no concern here, what it has read is gone.
LEMMA ServerReads ==
  ASSUME TypeInv, NEW s \in Message, NEW n \in Nat, n <= Len(chan["server"]), SendRead("server", s, n)
  PROVE  \A r \in Rate : \A k \in Taks(r)' : k + n \in Taks(r)
<1>1. /\ chan["server"] \in Seq(Token) /\ "server" \in End /\ "client" \in End /\ s \in Seq(Symbol)
      /\ chan \in [End -> Seq(Token)] /\ rate \in [End -> Rate] /\ "client" # "server"
  BY Ends, Messages DEF TypeInv, Walk
<1>2. /\ Len(chan'["server"]) = Len(chan["server"]) - n
      /\ \A k \in 1 .. Len(chan["server"]) - n : chan'["server"][k] = chan["server"][k + n]
  BY <1>1, ReadFacts
<1>3. Len(chan["server"]) \in Nat
  BY <1>1, LenProperties
<1>4. QED
  BY <1>2, <1>3 DEF Taks

\* What the client sends is behind all the rest.
LEMMA ClientSends ==
  ASSUME TypeInv, NEW s \in Message, NEW n \in Nat, n <= Len(chan["client"]), SendRead("client", s, n)
  PROVE  \A r \in Rate : \A k \in Taks(r)' :
           \/ k \in Taks(r)
           \/ k > Len(chan["server"]) /\ s[k - Len(chan["server"])] = "TAK" /\ r = rate["client"]
              /\ k - Len(chan["server"]) \in 1 .. Len(s)
<1>1. /\ chan["server"] \in Seq(Token) /\ "client" \in End /\ "server" \in End /\ s \in Seq(Symbol)
      /\ chan \in [End -> Seq(Token)] /\ rate \in [End -> Rate]
  BY Ends, Messages DEF TypeInv, Walk
<1> DEFINE m == Len(chan["server"])
<1>2. /\ Len(chan'["server"]) = m + Len(s)
      /\ \A k \in 1 .. m : chan'["server"][k] = chan["server"][k]
      /\ \A k \in 1 .. Len(s) : /\ chan'["server"][m + k].sym \in {s[k], "JUNK"}
                              /\ chan'["server"][m + k].rate = rate["client"]
  <2>1. Sent("client", "server", s, n)
    BY <1>1, SendFacts
  <2>2. QED
    BY <2>1 DEF Sent
<1>3. m \in Nat /\ Len(s) \in Nat
  BY <1>1, LenProperties
<1> HIDE DEF m
<1>4. SUFFICES ASSUME NEW r \in Rate, NEW k \in 1 .. m + Len(s), chan'["server"][k].sym = "TAK",
                      chan'["server"][k].rate = r, ~(k \in Taks(r))
               PROVE  k > m /\ s[k - m] = "TAK" /\ r = rate["client"] /\ k - m \in 1 .. Len(s)
  BY <1>2 DEF Taks, m
<1>5. ~(k \in 1 .. m)
  BY <1>2, <1>4 DEF Taks, m
<1>6. k - m \in 1 .. Len(s) /\ m + (k - m) = k
  BY <1>3, <1>5
<1>7. chan'["server"][k].sym \in {s[k - m], "JUNK"} /\ chan'["server"][k].rate = rate["client"]
  BY <1>2, <1>6
<1>8. QED
  BY <1>3, <1>4, <1>5, <1>6, <1>7

\* The client goes forward in its table and its test; the server takes no TAK.
Forward ==
  /\ \/ idx'["client"] > idx["client"]
     \/ /\ idx'["client"] = idx["client"]
        /\ pc["client"] \in {"ack", "done"} => pc'["client"] \in {"ack", "done"}
  /\ ok["client"] => ok'["client"] /\ idx'["client"] = idx["client"]
Calm ==
  /\ pc'["server"] = "last" => pc["server"] = "last" /\ idx'["server"] = idx["server"]
  /\ ok'["server"] => ok["server"] /\ idx'["server"] = idx["server"]

LEMMA Quiet ==
  ASSUME TypeInv, TypeInv', TakInv, Fewer, Forward, Calm
  PROVE  TakInv'
<1>1. idx["client"] \in Nat /\ idx'["client"] \in Nat
  <2>1. idx["client"] \in Rate /\ idx'["client"] \in Rate /\ NumRates \in Nat
    BY Ends, SerBaudAssumption DEF TypeInv, Walk
  <2>2. QED
    BY <2>1 DEF Rate
<1>2. \A r \in Rate : (Took(r)' => Took(r)) /\ (Said(r) => Said(r)') /\ (Settled(r) => Settled(r)')
  BY <1>1 DEF Forward, Calm, Took, Said, Settled, Rate
<1>3. QED
  BY <1>2, QuietStep DEF Calm

LEMMA FailMoves ==
  ASSUME TypeInv, NEW e \in End, Begun(e), pc[e] # "done", Fail(e)
  PROVE  Forward /\ Calm
<1>1. idx \in [End -> Nat] /\ pc \in [End -> Pcs] /\ ok \in [End -> BOOLEAN] /\ ok[e] = FALSE
  BY DEF TypeInv, Walk, Rate, Tabled
<1>2. /\ UNCHANGED ok
      /\ \/ pc' = [pc EXCEPT ![e] = "sync"] /\ idx' = [idx EXCEPT ![e] = idx[e] + 1]
         \/ pc' = [pc EXCEPT ![e] = "done"] /\ UNCHANGED idx
  BY DEF Fail, Begin, Goto
<1>3. CASE e = "client"
  BY <1>1, <1>2, <1>3, Ends DEF Forward, Calm
<1>4. CASE e = "server"
  BY <1>1, <1>2, <1>4, Ends DEF Forward, Calm
<1>5. QED
  BY <1>3, <1>4, Ends

LEMMA GotoMoves ==
  ASSUME TypeInv, NEW e \in End, NEW l \in Pcs, pc' = [pc EXCEPT ![e] = l], UNCHANGED <<idx, ok>>,
         e = "client" => pc[e] \notin {"ack", "done"}, e = "server" => l # "last"
  PROVE  Forward /\ Calm
<1>1. pc \in [End -> Pcs]
  BY DEF TypeInv, Walk
<1>2. QED
  BY <1>1, Ends DEF Forward, Calm

LEMMA StillMoves ==
  ASSUME UNCHANGED <<pc, idx, ok>>
  PROVE  Forward /\ Calm
BY DEF Forward, Calm

\* The client sends something else than TAK, or the server anything.
LEMMA SendsFewer ==
  ASSUME TypeInv, NEW e \in End, NEW s \in Message, NEW n \in {0, 1}, n = 1 => chan[e] # <<>>,
         SendRead(e, s, n), e = "client" => s \notin {<<"TAK">>, <<"TAK", "SYNC_BYTE">>}
  PROVE  Fewer
<1>1. n \in Nat /\ n <= Len(chan[e])
  BY EmptySeq, LenProperties DEF TypeInv
<1>2. CASE e = "server"
  BY <1>1, <1>2, ServerReads DEF Fewer
<1>3. CASE e = "client"
  <2>1. \A i \in 1 .. Len(s) : s[i] # "TAK"
    BY <1>3 DEF Message
  <2>2. \A r \in Rate : \A k \in Taks(r)' : k \in Taks(r)
    BY <1>1, <1>3, <2>1, ClientSends
  <2>3. \A r \in Rate : \A k \in Taks(r)' : k + 0 \in Taks(r)
    BY <2>2 DEF Taks
  <2>4. QED
    BY <2>3 DEF Fewer
<1>4. QED
  BY <1>2, <1>3, Ends

LEMMA SameFewer ==
  ASSUME TypeInv, chan' = chan \/ (\E e \in End : chan' = [chan EXCEPT ![e] = <<>>]) \/ Tick
  PROVE  Fewer
<1>1. \A r \in Rate : \A k \in Taks(r)' : k \in Taks(r)
  <2>1. CASE chan' = chan
    BY <2>1 DEF Taks
  <2>2. ASSUME NEW e \in End, chan' = [chan EXCEPT ![e] = <<>>]
        PROVE  \A r \in Rate : \A k \in Taks(r)' : k \in Taks(r)
    <3>1. chan'["server"] = chan["server"] \/ chan'["server"] = <<>>
      BY <2>2, Ends DEF TypeInv
    <3>2. QED
      BY <3>1 DEF Taks
  <2>3. CASE Tick
    BY <2>3, TickTypes, Ends DEF Taks
  <2>4. QED
    BY <2>1, <2>2, <2>3
<1>2. \A r \in Rate : \A k \in Taks(r)' : k + 0 \in Taks(r)
  BY <1>1 DEF Taks
<1>3. QED
  BY <1>2 DEF Fewer

\* What an end does that neither says a TAK the server waits for nor takes one.
Unsaid(e) == \E s \in Message, n \in {0, 1} :
               /\ n = 1 => chan[e] # <<>>
               /\ SendRead(e, s, n)
               /\ e = "client" => s \notin {<<"TAK">>, <<"TAK", "SYNC_BYTE">>}
Moves(e) ==
  \/ Begun(e) /\ pc[e] # "done" /\ Fail(e)
  \/ \E l \in Pcs : /\ pc' = [pc EXCEPT ![e] = l] /\ UNCHANGED <<idx, ok>>
                    /\ e = "client" => pc[e] \notin {"ack", "done"}
                    /\ e = "server" => l # "last"
  \/ UNCHANGED <<pc, idx, ok>>

LEMMA QuietMove ==
  ASSUME TypeInv, TypeInv', TakInv, NEW e \in End, Moves(e),
         \/ Unsaid(e)
         \/ chan' = chan \/ (\E x \in End : chan' = [chan EXCEPT ![x] = <<>>])
  PROVE  TakInv'
<1>1. Fewer
  <2>1. CASE Unsaid(e)
    <3>1. PICK s \in Message, n \in {0, 1} :
               /\ n = 1 => chan[e] # <<>>
               /\ SendRead(e, s, n)
               /\ e = "client" => s \notin {<<"TAK">>, <<"TAK", "SYNC_BYTE">>}
      BY <2>1 DEF Unsaid
    <3>2. QED
      BY <3>1, SendsFewer
  <2>2. QED
    BY <2>1, SameFewer
<1>2. Forward /\ Calm
  <2>1. CASE Begun(e) /\ pc[e] # "done" /\ Fail(e)
    BY <2>1, FailMoves
  <2>2. ASSUME NEW l \in Pcs, pc' = [pc EXCEPT ![e] = l], UNCHANGED <<idx, ok>>,
               e = "client" => pc[e] \notin {"ack", "done"}, e = "server" => l # "last"
        PROVE  Forward /\ Calm
    BY <2>2, GotoMoves
  <2>3. CASE UNCHANGED <<pc, idx, ok>>
    BY <2>3, StillMoves
  <2>4. QED
    BY <2>1, <2>2, <2>3 DEF Moves
<1>3. QED
  BY <1>1, <1>2, Quiet

\* The TAK that the server hears is one of its rate.
LEMMA HeardTak ==
  ASSUME TypeInv, pc["server"] \in {"tak", "last"}, chan["server"] # <<>>, Heard("server") = "TAK"
  PROVE  1 \in Taks(idx["server"]) /\ idx["server"] \in Rate
<1>1. /\ chan["server"] \in Seq(Token) /\ rate["server"] = idx["server"] /\ idx["server"] \in Rate
  BY Ends DEF TypeInv, Walk, Tabled, Begun
<1>2. 1 \in 1 .. Len(chan["server"])
  BY <1>1, EmptySeq, LenProperties
<1>3. QED
  BY <1>1, <1>2 DEF Taks, Heard, Byte

\* The server hears the first TAK: there was no other.
LEMMA FirstTak ==
  ASSUME TypeInv, TakInv, TakRead("server"), Heard("server") = "TAK"
  PROVE  TakInv'
<1> DEFINE r0 == idx["server"]
<1>1. /\ pc["server"] = "tak" /\ chan["server"] # <<>> /\ SendRead("server", <<"ACK">>, 1)
      /\ pc' = [pc EXCEPT !["server"] = "last"] /\ UNCHANGED <<idx, ok>>
  BY DEF TakRead, Gets, AfterAck, Goto, table
<1>2. 1 \in Taks(r0) /\ r0 \in Rate
  BY <1>1, HeardTak
<1>3. \A r \in Rate : \A k \in Taks(r)' : k + 1 \in Taks(r)
  <2>1. 1 \in Nat /\ 1 <= Len(chan["server"])
    BY <1>1, Ends, EmptySeq, LenProperties DEF TypeInv
  <2>2. QED
    BY <1>1, <2>1, Messages, ServerReads
<1>4. pc \in [End -> Pcs] /\ pc'["client"] = pc["client"]
  BY <1>1, Ends DEF TypeInv, Walk
<1>5. \A r \in Rate : (Said(r)' <=> Said(r)) /\ (Settled(r)' <=> Settled(r)) /\ (Took(r)' => r = r0)
  BY <1>1, <1>4 DEF Said, Settled, Took
<1>6. ASSUME NEW r \in Rate, (Took(r) \/ Taks(r) # {})' PROVE Said(r)'
  <2>1. Taks(r) # {}
    BY <1>2, <1>3, <1>5, <1>6
  <2>2. QED
    BY <1>5, <2>1 DEF TakInv
<1>7. ASSUME NEW r \in Rate, ~Settled(r)', NEW k \in Taks(r)'
      PROVE  ~Took(r)' /\ \A l \in Taks(r)' : k = l
  <2>1. k + 1 \in Taks(r) /\ ~Settled(r) /\ k \in Nat /\ k >= 1
    BY <1>3, <1>5, <1>7 DEF Taks
  <2>2. r # r0
    BY <1>2, <2>1 DEF TakInv
  <2>3. ASSUME NEW l \in Taks(r)' PROVE k = l
    <3>1. l + 1 \in Taks(r) /\ l \in Nat
      BY <1>3, <2>3 DEF Taks
    <3>2. k + 1 = l + 1
      BY <2>1, <3>1 DEF TakInv
    <3>3. QED
      BY <2>1, <3>1, <3>2
  <2>4. QED
    BY <1>5, <2>2, <2>3
<1>8. ServerKnows'
  BY <1>1 DEF TakInv, ServerKnows
<1>9. QED
  BY <1>6, <1>7, <1>8 DEF TakInv

\* The server hears the second TAK: the client has taken the rate.
LEMMA SecondTak ==
  ASSUME TypeInv, TypeInv', TakInv, LastRead("server"), Heard("server") = "TAK"
  PROVE  TakInv'
<1> DEFINE r0 == idx["server"]
<1>1. /\ pc["server"] = "last" /\ chan["server"] # <<>> /\ SendRead("server", <<>>, 1)
      /\ pc' = [pc EXCEPT !["server"] = "done"] /\ ok' = [ok EXCEPT !["server"] = TRUE]
      /\ UNCHANGED idx
  BY DEF LastRead, Gets, Success, Goto
<1>2. 1 \in Taks(r0) /\ r0 \in Rate
  BY <1>1, HeardTak
<1>3. Settled(r0)
  BY <1>1, <1>2 DEF TakInv, Took
<1>4. \A r \in Rate : \A k \in Taks(r)' : k + 1 \in Taks(r)
  <2>1. 1 \in Nat /\ 1 <= Len(chan["server"])
    BY <1>1, Ends, EmptySeq, LenProperties DEF TypeInv
  <2>2. QED
    BY <1>1, <2>1, Messages, ServerReads
<1>5. pc \in [End -> Pcs] /\ ok \in [End -> BOOLEAN]
  BY DEF TypeInv, Walk
<1>6. pc'["client"] = pc["client"] /\ pc'["server"] = "done" /\ ok'["client"] = ok["client"]
  BY <1>1, <1>5, Ends
<1>7. \A r \in Rate : (Said(r)' <=> Said(r)) /\ (Settled(r)' <=> Settled(r)) /\ ~Took(r)'
  BY <1>1, <1>6 DEF Said, Settled, Took
<1>8. ASSUME NEW r \in Rate, (Took(r) \/ Taks(r) # {})' PROVE Said(r)'
  <2>1. Taks(r) # {}
    BY <1>4, <1>7, <1>8
  <2>2. QED
    BY <1>7, <2>1 DEF TakInv
<1>9. ASSUME NEW r \in Rate, ~Settled(r)', NEW k \in Taks(r)', NEW l \in Taks(r)' PROVE k = l
  <2>1. k + 1 \in Taks(r) /\ l + 1 \in Taks(r) /\ ~Settled(r) /\ k \in Nat /\ l \in Nat
    BY <1>4, <1>7, <1>9 DEF Taks
  <2>2. k + 1 = l + 1
    BY <2>1 DEF TakInv
  <2>3. QED
    BY <2>1, <2>2
<1>10. ServerKnows'
  BY <1>1, <1>3, <1>6 DEF ServerKnows, Settled
<1>11. QED
  BY <1>7, <1>8, <1>9, <1>10 DEF TakInv

\* The client says a TAK of its rate: it is the last of what is on its way.
LEMMA SaysTak ==
  ASSUME TypeInv, chan["client"] # <<>>, rate["client"] = idx["client"], SendRead("client", <<"TAK">>, 1)
  PROVE  \A r \in Rate : \A k \in Taks(r)' :
           k \in Taks(r) \/ (r = idx["client"] /\ k = Len(chan["server"]) + 1)
<1>1. /\ chan["client"] \in Seq(Token) /\ chan["server"] \in Seq(Token)
      /\ 1 \in Nat /\ 1 <= Len(chan["client"]) /\ Len(chan["server"]) \in Nat
  BY Ends, EmptySeq, LenProperties DEF TypeInv
<1>2. <<"TAK">> \in Message /\ Len(<<"TAK">>) = 1
  BY Messages
<1>3. \A r \in Rate : \A k \in Taks(r)' :
        \/ k \in Taks(r)
        \/ r = rate["client"] /\ k - Len(chan["server"]) \in 1 .. Len(<<"TAK">>)
  BY <1>1, <1>2, ClientSends
<1>4. \A r \in Rate : \A k \in Taks(r)' : k \in Nat
  BY DEF Taks
<1>5. QED
  BY <1>1, <1>2, <1>3, <1>4

\* The client has found the string right: there was no TAK of its rate.
LEMMA ClientSays ==
  ASSUME TypeInv, TakInv, CheckRead("client"), Heard("client") = "STR"
  PROVE  TakInv'
<1> DEFINE r0 == idx["client"]
<1>1. /\ pc["client"] = "check" /\ chan["client"] # <<>> /\ SendRead("client", <<"TAK">>, 1)
      /\ pc' = [pc EXCEPT !["client"] = "ack"] /\ UNCHANGED <<idx, ok>>
  BY DEF CheckRead, Gets, Goto, table
<1>2. pc \in [End -> Pcs] /\ rate["client"] = idx["client"] /\ r0 \in Rate
  BY <1>1, Ends DEF TypeInv, Walk, Tabled, Begun
<1>3. \A r \in Rate : \A k \in Taks(r)' : k \in Taks(r) \/ (r = r0 /\ k = Len(chan["server"]) + 1)
  BY <1>1, <1>2, SaysTak
<1>4. pc'["client"] = "ack" /\ pc'["server"] = pc["server"]
  BY <1>1, <1>2, Ends
<1>5. \A r \in Rate : /\ (Said(r) => Said(r)') /\ (r = r0 => Said(r)')
                     /\ (Settled(r)' <=> Settled(r)) /\ (Took(r)' <=> Took(r))
  BY <1>1, <1>4 DEF Said, Settled, Took
<1>6. Taks(r0) = {} /\ ~Took(r0)
  <2>1. r0 \in Nat
    <3>1. NumRates \in Nat
      BY SerBaudAssumption
    <3>2. QED
      BY <1>2, <3>1 DEF Rate
  <2>2. ~Said(r0)
    BY <1>1, <2>1 DEF Said
  <2>3. QED
    BY <1>2, <2>2 DEF TakInv
<1>7. ASSUME NEW r \in Rate, (Took(r) \/ Taks(r) # {})' PROVE Said(r)'
  <2>1. CASE r = r0
    BY <1>5, <2>1
  <2>2. CASE r # r0
    <3>1. Took(r) \/ Taks(r) # {}
      BY <1>3, <1>5, <1>7, <2>2
    <3>2. QED
      BY <1>5, <3>1 DEF TakInv
  <2>3. QED
    BY <2>1, <2>2
<1>8. ASSUME NEW r \in Rate, ~Settled(r)'
      PROVE  (\A k, l \in Taks(r)' : k = l) /\ (Took(r)' => Taks(r)' = {})
  BY <1>3, <1>5, <1>6, <1>8 DEF TakInv
<1>9. ServerKnows'
  BY <1>1 DEF TakInv, ServerKnows
<1>10. QED
  BY <1>7, <1>8, <1>9 DEF TakInv

\* The client takes the rate.
LEMMA ClientTakes ==
  ASSUME TypeInv, TakInv, AckRead("client"), Heard("client") = "ACK"
  PROVE  TakInv'
<1> DEFINE r0 == idx["client"]
<1>1. /\ pc["client"] = "ack" /\ chan["client"] # <<>> /\ SendRead("client", <<"TAK">>, 1)
      /\ pc' = [pc EXCEPT !["client"] = "done"] /\ ok' = [ok EXCEPT !["client"] = TRUE]
      /\ UNCHANGED idx
  BY DEF AckRead, Gets, Success, Goto
<1>2. /\ pc \in [End -> Pcs] /\ ok \in [End -> BOOLEAN] /\ rate["client"] = idx["client"] /\ r0 \in Rate
      /\ ok["client"] = FALSE
  BY <1>1, Ends DEF TypeInv, Walk, Tabled, Begun
<1>3. \A r \in Rate : \A k \in Taks(r)' : k \in Taks(r) \/ (r = r0 /\ k = Len(chan["server"]) + 1)
  BY <1>1, <1>2, SaysTak
<1>4. /\ pc'["client"] = "done" /\ pc'["server"] = pc["server"]
      /\ ok'["client"] /\ ok'["server"] = ok["server"]
  BY <1>1, <1>2, Ends
<1>5. \A r \in Rate : /\ (Said(r) => Said(r)') /\ (r = r0 => Said(r)')
                     /\ ~Settled(r) /\ (r = r0 => Settled(r)') /\ (Took(r)' <=> Took(r))
  BY <1>1, <1>2, <1>4 DEF Said, Settled, Took
<1>6. ASSUME NEW r \in Rate, (Took(r) \/ Taks(r) # {})' PROVE Said(r)'
  <2>1. CASE r = r0
    BY <1>5, <2>1
  <2>2. CASE r # r0
    <3>1. Took(r) \/ Taks(r) # {}
      BY <1>3, <1>5, <1>6, <2>2
    <3>2. QED
      BY <1>5, <3>1 DEF TakInv
  <2>3. QED
    BY <2>1, <2>2
<1>7. ASSUME NEW r \in Rate, ~Settled(r)'
      PROVE  (\A k, l \in Taks(r)' : k = l) /\ (Took(r)' => Taks(r)' = {})
  BY <1>3, <1>5, <1>7 DEF TakInv
<1>8. ServerKnows'
  BY <1>2, <1>4 DEF TakInv, ServerKnows
<1>9. QED
  BY <1>6, <1>7, <1>8 DEF TakInv

\* The steps of the test.
LEMMA SenderTak ==
  ASSUME TypeInv, TypeInv', TakInv, NEW e \in End, HandshakeRead(e) \/ StrEnd(e) \/ TakRead(e) \/ LastRead(e)
  PROVE  TakInv'
<1>1. CASE HandshakeRead(e)
  <2>1. Unsaid(e)
    BY <1>1, Messages DEF HandshakeRead, Gets, Unsaid
  <2>2. Moves(e)
    BY <1>1 DEF HandshakeRead, Gets, Moves, Goto, table, Pcs
  <2>3. QED
    BY <2>1, <2>2, QuietMove
<1>2. CASE StrEnd(e)
  <2>1. Unsaid(e)
    BY <1>2, Messages DEF StrEnd, Send, Unsaid
  <2>2. Moves(e)
    BY <1>2 DEF StrEnd, Moves, Goto, table, Pcs, Reading
  <2>3. QED
    BY <2>1, <2>2, QuietMove
<1>3. CASE TakRead(e)
  <2>1. CASE e = "server" /\ Heard(e) = "TAK"
    BY <1>3, <2>1, FirstTak
  <2>2. CASE ~(e = "server" /\ Heard(e) = "TAK")
    <3>1. Unsaid(e)
      BY <1>3, Messages DEF TakRead, Gets, Unsaid
    <3>2. Moves(e)
      BY <1>3, <2>2 DEF TakRead, Gets, AfterAck, Moves, Goto, table, Pcs, Reading
    <3>3. QED
      BY <3>1, <3>2, QuietMove
  <2>3. QED
    BY <2>1, <2>2
<1>4. CASE LastRead(e)
  <2>1. CASE e = "server" /\ Heard(e) = "TAK"
    BY <1>4, <2>1, SecondTak
  <2>2. CASE ~(e = "server" /\ Heard(e) = "TAK")
    <3>1. Unsaid(e)
      BY <1>4, Messages DEF LastRead, Gets, Unsaid
    <3>2. Moves(e)
      BY <1>4, <2>2, Ends DEF LastRead, Gets, StartReceive, Moves, Begun, Goto, table, Pcs, Reading
    <3>3. QED
      BY <3>1, <3>2, QuietMove
  <2>3. QED
    BY <2>1, <2>2
<1>5. QED
  BY <1>1, <1>2, <1>3, <1>4

LEMMA ReceiverTak ==
  ASSUME TypeInv, TypeInv', TakInv, NEW e \in End, ReceiverRead(e) \/ CheckRead(e) \/ AckRead(e)
  PROVE  TakInv'
<1>1. CASE ReceiverRead(e)
  <2>1. Unsaid(e)
    BY <1>1, Messages DEF ReceiverRead, Gets, Unsaid
  <2>2. Moves(e)
    BY <1>1 DEF ReceiverRead, Gets, Moves, Goto, table, Pcs, Reading
  <2>3. QED
    BY <2>1, <2>2, QuietMove
<1>2. CASE CheckRead(e)
  <2>1. CASE e = "client" /\ Heard(e) = "STR"
    BY <1>2, <2>1, ClientSays
  <2>2. CASE ~(e = "client" /\ Heard(e) = "STR")
    <3>1. Unsaid(e)
      BY <1>2, <2>2, Messages DEF CheckRead, Gets, Unsaid
    <3>2. Moves(e)
      BY <1>2, <2>2, Ends DEF CheckRead, Gets, Moves, Begun, Goto, table, Pcs, Reading
    <3>3. QED
      BY <3>1, <3>2, QuietMove
  <2>3. QED
    BY <2>1, <2>2
<1>3. CASE AckRead(e)
  <2>1. CASE e = "client" /\ Heard(e) = "ACK"
    BY <1>3, <2>1, ClientTakes
  <2>2. CASE ~(e = "client" /\ Heard(e) = "ACK")
    <3>1. Unsaid(e)
      BY <1>3, <2>2, Messages DEF AckRead, Gets, Unsaid
    <3>2. Moves(e)
      BY <1>3, <2>2, Ends DEF AckRead, Gets, Moves, Begun, Goto, table, Pcs, Reading
    <3>3. QED
      BY <3>1, <3>2, QuietMove
  <2>3. QED
    BY <2>1, <2>2
<1>4. QED
  BY <1>1, <1>2, <1>3

\* The steps before the test, and giving up.
LEMMA WalkTak ==
  ASSUME TypeInv, TypeInv', TakInv, NEW e \in End,
         MarchRead(e) \/ StartSpeed(e) \/ AtSync(e) \/ SendHi(e) \/ HiRead(e) \/ GivesUp(e)
  PROVE  TakInv'
<1>1. CASE MarchRead(e)
  <2>1. Unsaid(e)
    BY <1>1, Messages DEF MarchRead, Gets, Unsaid
  <2>2. Moves(e)
    BY <1>1 DEF MarchRead, NoMarch, Gets, Moves, Goto, table, Pcs
  <2>3. QED
    BY <2>1, <2>2, QuietMove
<1>2. CASE StartSpeed(e)
  <2>1. idx[e] = 1 /\ idx \in [End -> Rate] /\ pc[e] = "hold"
    BY <1>2 DEF StartSpeed, TypeInv, Walk, Tabled, Begun
  <2>2. idx' = [idx EXCEPT ![e] = 1] /\ pc' = [pc EXCEPT ![e] = "sync"] /\ ok' = ok /\ chan' = chan
    BY <1>2 DEF StartSpeed, Begin, Goto
  <2>3. idx' = idx
    BY <2>1, <2>2
  <2>4. Moves(e)
    <3>1. "sync" \in Pcs /\ "sync" # "last" /\ pc[e] \notin {"ack", "done"}
      BY <2>1 DEF Pcs
    <3>2. QED
      BY <2>2, <2>3, <3>1 DEF Moves
  <2>5. QED
    BY <2>2, <2>4, QuietMove
<1>3. CASE AtSync(e)
  <2>1. Moves(e)
    <3>1. "slop" \in Pcs /\ "slop" # "last" /\ pc[e] \notin {"ack", "done"}
      BY <1>3 DEF AtSync, Pcs
    <3>2. pc' = [pc EXCEPT ![e] = "slop"] /\ UNCHANGED <<idx, ok>>
      BY <1>3 DEF AtSync, Goto
    <3>3. QED
      BY <3>1, <3>2 DEF Moves
  <2>2. chan' = [chan EXCEPT ![e] = <<>>]
    BY <1>3 DEF AtSync
  <2>3. QED
    BY <2>1, <2>2, QuietMove
<1>4. CASE SendHi(e)
  <2>1. Unsaid(e)
    BY <1>4, Messages DEF SendHi, Send, Unsaid
  <2>2. Moves(e)
    BY <1>4 DEF SendHi, Moves, Goto, table, Pcs, Reading
  <2>3. QED
    BY <2>1, <2>2, QuietMove
<1>5. CASE HiRead(e)
  <2>1. Unsaid(e)
    BY <1>5, Messages DEF HiRead, StartSend, Gets, Unsaid
  <2>2. Moves(e)
    BY <1>5 DEF HiRead, StartSend, StartReceive, Gets, Moves, Begun, Goto, Pcs, Reading
  <2>3. QED
    BY <2>1, <2>2, QuietMove
<1>6. CASE GivesUp(e)
  <2>1. Moves(e)
    BY <1>6 DEF GivesUp, NoMarch, Moves, Begun, Goto, table, Pcs, Reading
  <2>2. chan' = chan
    BY <1>6 DEF GivesUp
  <2>3. QED
    BY <2>1, <2>2, QuietMove
<1>7. QED
  BY <1>1, <1>2, <1>3, <1>4, <1>5, <1>6

LEMMA TakInit == Init => TakInv
<1> SUFFICES ASSUME Init PROVE TakInv
  OBVIOUS
<1>1. \A r \in Rate : Taks(r) = {}
  BY Ends DEF Init, Taks
<1>2. \A r \in Rate : ~Took(r)
  BY Ends DEF Init, Took
<1>3. ServerKnows
  BY Ends DEF Init, ServerKnows
<1>4. QED
  BY <1>1, <1>2, <1>3 DEF TakInv

LEMMA TakNext == TypeInv /\ TakInv /\ [Next]_vars => TakInv'
<1> SUFFICES ASSUME TypeInv, TakInv, [Next]_vars PROVE TakInv'
  OBVIOUS
<1>0. TypeInv'
  BY TypeNext
<1>1. CASE SendLok
  <2>1. "server" \in End
    BY Ends
  <2>2. Unsaid("server")
    BY <1>1, Messages DEF SendLok, Send, Unsaid
  <2>3. Moves("server")
    BY <1>1 DEF SendLok, Moves, Goto, table, Pcs, Reading
  <2>4. QED
    BY <1>0, <2>1, <2>2, <2>3, QuietMove
<1>2. CASE Tick
  <2>1. Fewer
    BY <1>2, SameFewer
  <2>2. Forward /\ Calm
    BY <1>2, StillMoves DEF Tick, table
  <2>3. QED
    BY <1>0, <2>1, <2>2, Quiet
<1>3. CASE UNCHANGED vars
  BY <1>3 DEF TakInv, ServerKnows, Took, Taks, Said, Settled, vars
<1>4. ASSUME NEW e \in End, Step(e)
      PROVE  TakInv'
  BY <1>0, <1>4, SenderTak, ReceiverTak, WalkTak DEF Step
<1>5. QED
  BY <1>1, <1>2, <1>3, <1>4 DEF Next, Returned

(***************************************************************************)
(* The test of a rate is over before the next sync point                   *)
(***************************************************************************)
\* What is under way to end e; whether a symbol of S is among it, at e's rate.
At(e) == {chan[e][k] : k \in 1 .. Len(chan[e])}
Hears(e, S) == \E t \in At(e) : t.rate = idx[e] /\ t.sym \in S

\* No byte overtakes another: what is old is before what is not.
Order == \A e \in End : \A k, l \in 1 .. Len(chan[e]) : k < l /\ chan[e][l].old => chan[e][k].old

\* End e may read, and sends symbols of S at most to end p.
Says(e, p, S) ==
  /\ \A t \in At(e)' : t \in At(e)
  /\ \A t \in At(p)' : t \in At(p) \/ (t.rate = rate[e] /\ t.old = FALSE /\ t.sym \in S \cup {"JUNK"})
  /\ Order => Order'

LEMMA SaysFacts ==
  ASSUME TypeInv, NEW e \in End, NEW p \in End, p # e, NEW s \in Message, NEW n \in {0, 1},
         n = 1 => chan[e] # <<>>, SendRead(e, s, n), NEW S, \A i \in 1 .. Len(s) : s[i] \in S
  PROVE  Says(e, p, S)
<1>1. /\ chan \in [End -> Seq(Token)] /\ rate \in [End -> Rate] /\ s \in Seq(Symbol)
      /\ Len(chan[e]) \in Nat /\ Len(chan[p]) \in Nat /\ Len(s) \in Nat
  BY Messages, LenProperties DEF TypeInv, Walk
<1>2. n \in Nat /\ n <= Len(chan[e])
  BY <1>1, EmptySeq, LenProperties
<1>3. Sent(e, p, s, n)
  BY <1>1, <1>2, SendFacts
<1>4. \A k \in 1 .. Len(chan'[e]) : k + n \in 1 .. Len(chan[e]) /\ chan'[e][k] = chan[e][k + n]
  BY <1>1, <1>2, <1>3 DEF Sent
<1>5. ASSUME NEW k \in 1 .. Len(chan'[p])
      PROVE  \/ k \in 1 .. Len(chan[p]) /\ chan'[p][k] = chan[p][k]
             \/ k > Len(chan[p]) /\ chan'[p][k].rate = rate[e] /\ chan'[p][k].old = FALSE
                /\ chan'[p][k].sym \in S \cup {"JUNK"}
  <2>1. Len(chan'[p]) = Len(chan[p]) + Len(s)
    BY <1>3 DEF Sent
  <2>2. CASE k <= Len(chan[p])
    BY <1>1, <1>3, <2>1, <2>2 DEF Sent
  <2>3. CASE k > Len(chan[p])
    <3>1. k - Len(chan[p]) \in 1 .. Len(s) /\ Len(chan[p]) + (k - Len(chan[p])) = k
      BY <1>1, <2>1, <2>3
    <3>2. /\ chan'[p][k].sym \in {s[k - Len(chan[p])], "JUNK"}
          /\ chan'[p][k].rate = rate[e] /\ chan'[p][k].old = FALSE
      BY <1>3, <3>1 DEF Sent
    <3>3. QED
      BY <2>3, <3>1, <3>2
  <2>4. k \in 1 .. Len(chan[p]) + Len(s)
    BY <2>1
  <2>5. k <= Len(chan[p]) \/ k > Len(chan[p])
    BY <1>1, <2>4
  <2>6. QED
    BY <2>2, <2>3, <2>5
<1>6. \A t \in At(e)' : t \in At(e)
  BY <1>4 DEF At
<1>7. \A t \in At(p)' : t \in At(p) \/ (t.rate = rate[e] /\ t.old = FALSE /\ t.sym \in S \cup {"JUNK"})
  BY <1>5 DEF At
<1>8. ASSUME Order PROVE Order'
  <2>1. SUFFICES ASSUME NEW x \in End, NEW k \in 1 .. Len(chan'[x]), NEW l \in 1 .. Len(chan'[x]),
                        k < l, chan'[x][l].old
                 PROVE  chan'[x][k].old
    BY DEF Order
  <2>2. CASE x = e
    <3>1. /\ k + n \in 1 .. Len(chan[e]) /\ l + n \in 1 .. Len(chan[e]) /\ k + n < l + n
          /\ chan'[e][k] = chan[e][k + n] /\ chan'[e][l] = chan[e][l + n]
      BY <1>2, <1>4, <2>1, <2>2
    <3>2. QED
      BY <1>8, <2>1, <2>2, <3>1 DEF Order
  <2>3. CASE x = p
    <3>1. l \in 1 .. Len(chan[p]) /\ chan'[p][l] = chan[p][l]
      BY <1>5, <2>1, <2>3
    <3>2. k \in 1 .. Len(chan'[p]) /\ k < Len(chan[p])
      BY <1>1, <2>1, <2>3, <3>1
    <3>3. k \in 1 .. Len(chan[p]) /\ chan'[p][k] = chan[p][k]
      <4>1. k \in Int /\ k >= 1
        BY <3>2
      <4>2. k \in 1 .. Len(chan[p]) /\ ~(k > Len(chan[p]))
        BY <1>1, <3>2, <4>1
      <4>3. QED
        BY <1>5, <3>2, <4>2
    <3>4. QED
      BY <1>8, <2>1, <2>3, <3>1, <3>3 DEF Order
  <2>4. QED
    BY <2>2, <2>3, Ends
<1>9. QED
  BY <1>6, <1>7, <1>8 DEF Says

\* Nothing is sent, and nothing is read or everything is thrown away.
LEMMA SilentFacts ==
  ASSUME TypeInv, NEW e \in End, NEW p \in End, p # e, chan' = chan \/ chan' = [chan EXCEPT ![e] = <<>>]
  PROVE  Says(e, p, {}) /\ (chan' # chan => At(e)' = {})
<1>1. chan \in [End -> Seq(Token)] /\ chan'[p] = chan[p] /\ (chan'[e] = chan[e] \/ chan'[e] = <<>>)
  BY DEF TypeInv
<1>2. Len(<<>>) = 0
  OBVIOUS
<1>3. \A t \in At(e)' : t \in At(e)
  BY <1>1, <1>2 DEF At
<1>4. \A t \in At(p)' : t \in At(p)
  BY <1>1 DEF At
<1>5. Order => Order'
  BY <1>1, <1>2, Ends DEF Order
<1>6. chan' # chan => At(e)' = {}
  BY <1>1, <1>2, Ends DEF At, TypeInv
<1>7. QED
  BY <1>3, <1>4, <1>5, <1>6 DEF Says

LEMMA TickOld ==
  ASSUME TypeInv, Tick, NEW e \in End
  PROVE  \A t \in At(e)' : t.old = TRUE
<1>1. chan[e] \in Seq(Token) /\ Len(chan[e]) \in Nat /\ DOMAIN chan[e] = 1 .. Len(chan[e])
  BY LenProperties DEF TypeInv
<1>2. Len(chan'[e]) = Len(chan[e])
  BY TickTypes
<1>3. ASSUME NEW k \in 1 .. Len(chan[e]) PROVE chan'[e][k].old = TRUE
  <2>1. chan'[e][k] = [chan[e][k] EXCEPT !.old = TRUE]
    BY <1>1 DEF Tick
  <2>2. chan[e][k] \in Token
    BY <1>1, ElementOfSeq
  <2>3. QED
    BY <2>1, <2>2 DEF Token
<1>4. QED
  BY <1>2, <1>3 DEF At

LEMMA TickLine ==
  ASSUME TypeInv, Tick, Order
  PROVE  /\ Order'
         /\ \A e \in End : \A t \in At(e)' : \E u \in At(e) : u.sym = t.sym /\ u.rate = t.rate
         /\ \A e \in End : pc[e] \in Reading => \A u \in At(e) : u.old = FALSE
<1>1. chan \in [End -> Seq(Token)] /\ \A e \in End : Len(chan[e]) \in Nat /\ DOMAIN chan[e] = 1 .. Len(chan[e])
  BY LenProperties DEF TypeInv
<1>2. \A e \in End : /\ Len(chan'[e]) = Len(chan[e])
                    /\ \A k \in 1 .. Len(chan[e]) : /\ chan'[e][k].sym = chan[e][k].sym
                                                   /\ chan'[e][k].rate = chan[e][k].rate
  BY TickTypes
<1>3. \A e \in End : \A k \in 1 .. Len(chan[e]) : chan'[e][k].old = TRUE
  BY <1>2, TickOld DEF At
<1>4. Order'
  BY <1>2, <1>3 DEF Order
<1>5. \A e \in End : \A t \in At(e)' : \E u \in At(e) : u.sym = t.sym /\ u.rate = t.rate
  BY <1>2 DEF At
<1>6. ASSUME NEW e \in End, pc[e] \in Reading, NEW k \in 1 .. Len(chan[e])
      PROVE  chan[e][k].old = FALSE
  <2>1. 1 \in 1 .. Len(chan[e]) /\ chan[e] # <<>> /\ chan[e][k] \in Token /\ k \in Nat /\ k >= 1
    BY <1>1, EmptySeq, ElementOfSeq
  <2>2. ~chan[e][1].old
    BY <1>6, <2>1 DEF Tick, Busy, Byte
  <2>3. k = 1 \/ 1 < k
    BY <2>1
  <2>4. ~chan[e][k].old
    BY <2>1, <2>2, <2>3 DEF Order
  <2>5. chan[e][k].old \in BOOLEAN
    BY <2>1 DEF Token
  <2>6. QED
    BY <2>4, <2>5
<1>7. \A e \in End : pc[e] \in Reading => \A u \in At(e) : u.old = FALSE
  BY <1>6 DEF At
<1>8. QED
  BY <1>4, <1>5, <1>7

\* What an end hears is there at its rate.
LEMMA Hearing ==
  ASSUME TypeInv, NEW e \in End, Gets(e, pc[e]), Begun(e), pc[e] # "done", NEW S, Heard(e) \in S, "JUNK" \notin S
  PROVE  Hears(e, S)
<1>1. chan[e] \in Seq(Token) /\ chan[e] # <<>> /\ rate[e] = idx[e]
  BY DEF TypeInv, Walk, Tabled, Gets
<1>2. 1 \in 1 .. Len(chan[e])
  BY <1>1, EmptySeq, LenProperties
<1>3. Byte(e) \in At(e)
  BY <1>2 DEF At, Byte
<1>4. QED
  BY <1>1, <1>3 DEF Hears, Heard

(***************************************************************************)
(* What an end does in a step, as far as its peer is concerned             *)
(***************************************************************************)
\* Where an end is beyond the sync point of its rate, and the client beyond its ACK.
Walked == {"hi", "done"} \cup Testing
Heeding == {"last", "rhs", "check", "ack", "done"}
Sending == {"hs", "str", "tak", "last"}
Answers == {"SYNC_BYTE", "STR", "ACK", "TAK"}

\* End e goes forward, and sends what its place in the test allows.
Onward(e) ==
  \/ idx'[e] > idx[e]
  \/ /\ idx'[e] = idx[e]
     /\ pc[e] \in Walked => pc'[e] \in Walked
     /\ e = "client" /\ pc[e] \in Heeding => pc'[e] \in Heeding
Stays(e, L) == idx'[e] = idx[e] /\ pc'[e] \in L
Conduct(e, S) ==
  /\ Onward(e) /\ pc'[e] # "lok"
  /\ "HI" \in S => rate[e] = idx[e] /\ Stays(e, Walked)
  /\ pc'[e] \in Testing => idx'[e] = idx[e] /\ (pc[e] \in Testing \/ Hears(e, {"HI"}))
  /\ pc'[e] \in Reading => idx'[e] = idx[e] /\ pc[e] \in Reading \cup {"march", "slop", "str"}
  /\ pc'[e] \in {"hs", "tak"} =>
       /\ idx'[e] = idx[e]
       /\ \/ deadline'[e] = now + TimeOut
          \/ pc[e] \in {"hs", "tak"} /\ deadline'[e] = deadline[e] /\ S \subseteq {"HI"}
  /\ "ACK" \in S \/ "TAK" \in S =>
       \/ e = "client" /\ pc[e] = "lok"
       \/ pc[e] \in Reading /\ rate[e] = idx[e] /\ Hears(e, Answers)
  /\ e = "client" /\ "ACK" \in S => pc[e] = "lok" \/ (rate[e] = idx[e] /\ Stays(e, Heeding))
  /\ e = "server" =>
       /\ pc'[e] \in {"slop", "hi"} \cup Testing => pc[e] \in {"slop", "hi"} \cup Testing \/ At(e)' = {}
       /\ pc'[e] \in Sending =>
            idx'[e] = idx[e] /\ (pc[e] \in Sending \/ (pc[e] \in Testing /\ Hears(e, {"ACK"})))
       /\ pc[e] \in {"march", "done"} \/ (pc[e] = "lokack" /\ At(e) = {}) =>
            pc'[e] \in {"march", "lokack", "done"}

\* All of this is nothing to end p.
Aside(p) ==
  /\ now' = now /\ pc'[p] = pc[p] /\ deadline'[p] = deadline[p]
  /\ idx'[p] = idx[p] /\ rate'[p] = rate[p]
  /\ zero'[p] = zero[p] /\ sp'[p] = sp[p] /\ next'[p] = next[p]
Behaves(e, p) == Aside(p) /\ \E S : Says(e, p, S) /\ Conduct(e, S)

LEMMA Places ==
  ASSUME TypeInv, NEW e \in End
  PROVE  /\ now \in Nat /\ zero[e] \in Nat /\ deadline[e] \in Nat /\ sp[e] \in Nat /\ next[e] \in Nat
         /\ idx[e] \in Rate /\ idx[e] \in Nat /\ rate[e] \in Rate /\ rate[e] \in Nat
         /\ pc[e] \in Pcs /\ StrTicks(idx[e]) \in Nat
<1>1. NumRates \in Nat
  BY SerBaudAssumption
<1>2. idx[e] \in Rate /\ rate[e] \in Rate
  BY DEF TypeInv, Walk
<1>3. idx[e] \in Nat /\ rate[e] \in Nat
  BY <1>1, <1>2 DEF Rate
<1>4. QED
  BY <1>2, <1>3, LimitFacts DEF TypeInv, Walk

LEMMA GoneTo ==
  ASSUME TypeInv, NEW e \in End, NEW p \in End, p # e, NEW l, NEW n, Goto(e, l, n), UNCHANGED <<fixed, table>>
  PROVE  /\ pc'[e] = l /\ deadline'[e] = now + n /\ Aside(p)
         /\ idx'[e] = idx[e] /\ zero'[e] = zero[e] /\ sp'[e] = sp[e] /\ next'[e] = next[e]
<1>1. pc \in [End -> Pcs] /\ deadline \in [End -> Nat]
  BY DEF TypeInv, Walk
<1>2. QED
  BY <1>1 DEF Goto, fixed, table, Aside

LEMMA Failed ==
  ASSUME TypeInv, NEW e \in End, NEW p \in End, p # e, Fail(e), UNCHANGED fixed
  PROVE  /\ Aside(p) /\ late' = late
         /\ \/ /\ pc'[e] = "sync" /\ idx'[e] = idx[e] + 1 /\ zero'[e] = zero[e]
               /\ sp'[e] = next[e] /\ next'[e] = next[e] + Base
            \/ pc'[e] = "done" /\ idx'[e] = idx[e]
<1>1. /\ pc \in [End -> Pcs] /\ deadline \in [End -> Nat] /\ idx \in [End -> Rate] /\ rate \in [End -> Rate]
      /\ sp \in [End -> Nat] /\ next \in [End -> Nat]
  BY DEF TypeInv, Walk
<1>2. CASE idx[e] < NumRates
  BY <1>1, <1>2 DEF Fail, Begin, Goto, fixed, Aside
<1>3. CASE ~(idx[e] < NumRates)
  BY <1>1, <1>3 DEF Fail, Goto, fixed, Aside
<1>4. QED
  BY <1>2, <1>3

LEMMA FailConduct ==
  ASSUME TypeInv, NEW e \in End, NEW p \in End, p # e, Fail(e), UNCHANGED fixed, pc[e] \in {"hi"} \cup Testing
  PROVE  Conduct(e, {}) /\ Aside(p)
<1>1. /\ Aside(p) /\ pc'[e] \in {"sync", "done"} /\ (pc'[e] = "done" => idx'[e] = idx[e])
      /\ idx[e] \in Nat /\ (pc'[e] = "sync" => idx'[e] = idx[e] + 1)
  BY Failed, Places
<1>2. Onward(e)
  BY <1>1 DEF Onward, Walked, Heeding
<1>3. QED
  BY <1>1, <1>2 DEF Conduct, Testing, Reading, Sending

\* The symbols that a message is made of.
Made(s, S) == \A i \in 1 .. Len(s) : s[i] \in S
LEMMA MadeOf ==
  /\ Made(<<>>, {}) /\ Made(<<"LOK">>, {"LOK"}) /\ Made(<<"ACK">>, {"ACK"}) /\ Made(<<"HI">>, {"HI"})
  /\ Made(<<"SYNC_BYTE">>, {"SYNC_BYTE"}) /\ Made(<<"SYNC_END">>, {"SYNC_END"})
  /\ Made(<<"SYNC_END", "JUNK">>, {"SYNC_END", "JUNK"}) /\ Made(<<"STR">>, {"STR"})
  /\ Made(<<"TAK">>, {"TAK"}) /\ Made(<<"TAK", "SYNC_BYTE">>, {"TAK", "SYNC_BYTE"})
BY DEF Made

LEMMA Behaving ==
  ASSUME TypeInv, NEW e \in End, NEW p \in End, p # e, NEW s \in Message, NEW n \in {0, 1},
         n = 1 => chan[e] # <<>>, SendRead(e, s, n), NEW S, Made(s, S), Conduct(e, S), Aside(p)
  PROVE  Behaves(e, p)
<1>1. Says(e, p, S)
  BY SaysFacts DEF Made
<1>2. QED
  BY <1>1 DEF Behaves

LEMMA BehavingQuietly ==
  ASSUME TypeInv, NEW e \in End, NEW p \in End, p # e, chan' = chan, Conduct(e, {}), Aside(p)
  PROVE  Behaves(e, p)
<1>1. Says(e, p, {})
  BY SilentFacts
<1>2. QED
  BY <1>1 DEF Behaves

\* A step of the test to l, on which S is said, or to stay.
LEMMA TestConduct ==
  ASSUME TypeInv, NEW e \in End, NEW S, pc[e] \in Testing, pc'[e] \in Testing \cup {"done"}, idx'[e] = idx[e],
         "HI" \in S => pc'[e] = pc[e],
         pc'[e] \in Reading => pc[e] \in Reading \cup {"str"},
         pc'[e] \in {"hs", "tak"} =>
           \/ deadline'[e] = now + TimeOut
           \/ pc[e] = pc'[e] /\ deadline'[e] = deadline[e] /\ S \subseteq {"HI"},
         "ACK" \in S \/ "TAK" \in S => pc[e] \in Reading /\ Hears(e, Answers),
         e = "client" /\ "ACK" \in S => pc'[e] \in Heeding,
         e = "client" /\ pc[e] \in Heeding => pc'[e] \in Heeding,
         e = "server" /\ pc'[e] \in Sending => pc[e] \in Sending \/ Hears(e, {"ACK"})
  PROVE  Conduct(e, S)
<1>1. rate[e] = idx[e]
  BY DEF TypeInv, Tabled, Begun, Testing
<1>2. Onward(e) /\ pc'[e] # "lok" /\ pc'[e] \in Walked
  BY DEF Onward, Walked, Testing
<1>3. QED
  BY <1>1, <1>2 DEF Conduct, Stays, Testing, Sending

\* A step that waits for more, and greets at most.
LEMMA WaitConduct ==
  ASSUME TypeInv, NEW e \in End, pc[e] \in Testing, pc'[e] = pc[e], idx'[e] = idx[e], deadline'[e] = deadline[e]
  PROVE  Conduct(e, {"HI"}) /\ Conduct(e, {})
<1>1. rate[e] = idx[e]
  BY DEF TypeInv, Tabled, Begun, Testing
<1>2. Onward(e) /\ pc'[e] # "lok" /\ pc'[e] \in Walked
  BY DEF Onward, Walked, Testing
<1>3. QED
  BY <1>1, <1>2 DEF Conduct, Stays, Testing, Sending, Reading

LEMMA HandshakeBehaves ==
  ASSUME TypeInv, NEW e \in End, NEW p \in End, p # e, HandshakeRead(e)
  PROVE  Behaves(e, p)
<1>1. /\ pc[e] = "hs" /\ chan[e] # <<>> /\ UNCHANGED <<fixed, table>> /\ Gets(e, pc[e])
      /\ Begun(e) /\ pc[e] # "done"
  BY DEF HandshakeRead, Gets, Begun
<1>2. CASE Heard(e) = "ACK"
  <2>1. PICK s \in {<<"SYNC_END">>, <<"SYNC_END", "JUNK">>} : SendRead(e, s, 1)
    BY <1>2 DEF HandshakeRead
  <2>2. Goto(e, "str", StrTicks(idx[e]))
    BY <1>2 DEF HandshakeRead
  <2>3. pc'[e] = "str" /\ idx'[e] = idx[e] /\ Aside(p)
    BY <1>1, <2>2, GoneTo
  <2>4. Conduct(e, {"SYNC_END", "JUNK"})
    BY <1>1, <2>3, TestConduct DEF Testing, Reading, Heeding, Sending
  <2>5. s \in Message /\ Made(s, {"SYNC_END", "JUNK"})
    <3>1. Made(<<"SYNC_END">>, {"SYNC_END", "JUNK"}) /\ Made(<<"SYNC_END", "JUNK">>, {"SYNC_END", "JUNK"})
      BY DEF Made
    <3>2. QED
      BY <3>1, Messages
  <2>6. QED
    BY <1>1, <2>1, <2>3, <2>4, <2>5, Behaving
<1>3. CASE Heard(e) # "ACK"
  <2>1. UNCHANGED <<pc, deadline>>
    BY <1>3 DEF HandshakeRead
  <2>2. pc'[e] = "hs" /\ idx'[e] = idx[e] /\ deadline'[e] = deadline[e] /\ Aside(p)
    BY <1>1, <2>1 DEF Aside, fixed, table
  <2>3. Conduct(e, {"HI"}) /\ Conduct(e, {})
    <3>1. pc[e] \in Testing /\ pc'[e] = pc[e] /\ idx'[e] = idx[e] /\ deadline'[e] = deadline[e]
      BY <1>1, <2>2 DEF Testing
    <3>2. QED
      BY <3>1, WaitConduct
  <2>4. CASE Heard(e) = "HI"
    <3>1. SendRead(e, <<"HI">>, 1)
      BY <1>3, <2>4 DEF HandshakeRead
    <3>2. QED
      BY <1>1, <2>2, <2>3, <3>1, Messages, MadeOf, Behaving
  <2>5. CASE Heard(e) # "HI"
    <3>1. SendRead(e, <<>>, 1)
      BY <1>3, <2>5 DEF HandshakeRead
    <3>2. QED
      BY <1>1, <2>2, <2>3, <3>1, Messages, MadeOf, Behaving
  <2>6. QED
    BY <2>4, <2>5
<1>4. QED
  BY <1>2, <1>3

LEMMA StrBehaves ==
  ASSUME TypeInv, NEW e \in End, NEW p \in End, p # e, StrEnd(e)
  PROVE  Behaves(e, p)
<1>1. /\ pc[e] = "str" /\ SendRead(e, <<"STR">>, 0) /\ Goto(e, "tak", TimeOut) /\ UNCHANGED <<fixed, table>>
  BY DEF StrEnd, Send
<1>2. pc'[e] = "tak" /\ idx'[e] = idx[e] /\ deadline'[e] = now + TimeOut /\ Aside(p)
  BY <1>1, GoneTo
<1>3. Conduct(e, {"STR"})
  BY <1>1, <1>2, TestConduct DEF Testing, Reading, Heeding, Sending
<1>4. QED
  BY <1>1, <1>2, <1>3, Messages, MadeOf, Behaving

LEMMA TakBehaves ==
  ASSUME TypeInv, NEW e \in End, NEW p \in End, p # e, TakRead(e)
  PROVE  Behaves(e, p)
<1>1. /\ pc[e] = "tak" /\ chan[e] # <<>> /\ UNCHANGED fixed /\ Gets(e, pc[e]) /\ Begun(e) /\ pc[e] # "done"
  BY DEF TakRead, Gets, Begun
<1>2. CASE Heard(e) = "TAK"
  <2>1. SendRead(e, <<"ACK">>, 1) /\ Goto(e, "last", HalfSec) /\ UNCHANGED table
    BY <1>2 DEF TakRead, AfterAck
  <2>2. pc'[e] = "last" /\ idx'[e] = idx[e] /\ Aside(p)
    BY <1>1, <2>1, GoneTo
  <2>3. Hears(e, Answers)
    <3>1. "TAK" \in Answers /\ "JUNK" \notin Answers
      BY DEF Answers
    <3>2. QED
      BY <1>1, <1>2, <3>1, Hearing
  <2>4. Conduct(e, {"ACK"})
    BY <1>1, <2>2, <2>3, TestConduct DEF Testing, Reading, Heeding, Sending
  <2>5. QED
    BY <1>1, <2>1, <2>2, <2>4, Messages, MadeOf, Behaving
<1>3. CASE Heard(e) # "TAK"
  <2>1. SendRead(e, <<>>, 1) /\ UNCHANGED <<pc, deadline, table>>
    BY <1>3 DEF TakRead
  <2>2. pc[e] \in Testing /\ pc'[e] = pc[e] /\ idx'[e] = idx[e] /\ deadline'[e] = deadline[e] /\ Aside(p)
    BY <1>1, <2>1 DEF Aside, fixed, table, Testing
  <2>3. Conduct(e, {})
    BY <2>2, WaitConduct
  <2>4. QED
    BY <1>1, <2>1, <2>2, <2>3, Messages, MadeOf, Behaving
<1>4. QED
  BY <1>2, <1>3

\* A step that fails at what it has read.
LEMMA FailBehaves ==
  ASSUME TypeInv, NEW e \in End, NEW p \in End, p # e, chan[e] # <<>>, SendRead(e, <<>>, 1), Fail(e),
         UNCHANGED fixed, pc[e] \in {"hi"} \cup Testing
  PROVE  Behaves(e, p)
<1>1. Conduct(e, {}) /\ Aside(p)
  BY FailConduct
<1>2. QED
  BY <1>1, Messages, MadeOf, Behaving

\* A step that succeeds.
LEMMA Succeeded ==
  ASSUME TypeInv, NEW e \in End, NEW p \in End, p # e, Success(e), UNCHANGED fixed
  PROVE  pc'[e] = "done" /\ idx'[e] = idx[e] /\ Aside(p)
<1>1. pc \in [End -> Pcs] /\ deadline \in [End -> Nat]
  BY DEF TypeInv, Walk
<1>2. QED
  BY <1>1 DEF Success, Goto, fixed, Aside

LEMMA LastBehaves ==
  ASSUME TypeInv, NEW e \in End, NEW p \in End, p # e, LastRead(e)
  PROVE  Behaves(e, p)
<1>1. pc[e] = "last" /\ chan[e] # <<>> /\ UNCHANGED fixed /\ SendRead(e, <<>>, 1) /\ pc[e] \in Testing
  BY DEF LastRead, Gets, Testing
<1>2. CASE Heard(e) # "TAK"
  BY <1>1, <1>2, FailBehaves DEF LastRead
<1>3. CASE Heard(e) = "TAK"
  <2>1. ((e = "client" /\ pc'[e] = "rhs") \/ pc'[e] = "done") /\ idx'[e] = idx[e] /\ Aside(p)
    <3>1. CASE e = "client"
      BY <1>1, <1>3, <3>1, GoneTo DEF LastRead, StartReceive
    <3>2. CASE e # "client"
      BY <1>1, <1>3, <3>2, Succeeded DEF LastRead
    <3>3. QED
      BY <3>1, <3>2
  <2>2. Conduct(e, {})
    BY <1>1, <2>1, TestConduct DEF Testing, Reading, Heeding, Sending
  <2>3. QED
    BY <1>1, <2>1, <2>2, Messages, MadeOf, Behaving
<1>4. QED
  BY <1>2, <1>3

LEMMA ReceiverBehaves ==
  ASSUME TypeInv, NEW e \in End, NEW p \in End, p # e, ReceiverRead(e)
  PROVE  Behaves(e, p)
<1>1. /\ pc[e] = "rhs" /\ chan[e] # <<>> /\ UNCHANGED <<fixed, table>> /\ Gets(e, pc[e])
      /\ Begun(e) /\ pc[e] # "done" /\ pc[e] \in Testing
  BY DEF ReceiverRead, Gets, Begun, Testing
<1>2. CASE Heard(e) = "SYNC_END"
  <2>1. SendRead(e, <<>>, 1) /\ Goto(e, "check", StrTicks(idx[e]) + ByteWait)
    BY <1>2 DEF ReceiverRead
  <2>2. pc'[e] = "check" /\ idx'[e] = idx[e] /\ Aside(p)
    BY <1>1, <2>1, GoneTo
  <2>3. Conduct(e, {})
    BY <1>1, <2>2, TestConduct DEF Testing, Reading, Heeding, Sending
  <2>4. QED
    BY <1>1, <2>1, <2>2, <2>3, Messages, MadeOf, Behaving
<1>3. CASE Heard(e) # "SYNC_END"
  <2>1. UNCHANGED <<pc, deadline>>
    BY <1>3 DEF ReceiverRead
  <2>2. pc'[e] = pc[e] /\ idx'[e] = idx[e] /\ deadline'[e] = deadline[e] /\ Aside(p)
    BY <1>1, <2>1 DEF Aside, fixed, table
  <2>3. Conduct(e, {"HI"}) /\ Conduct(e, {})
    BY <1>1, <2>2, WaitConduct
  <2>4. CASE Heard(e) = "SYNC_BYTE"
    <3>1. SendRead(e, <<"ACK">>, 1)
      BY <2>4 DEF ReceiverRead
    <3>2. "SYNC_BYTE" \in Answers /\ "JUNK" \notin Answers
      BY DEF Answers
    <3>3. Hears(e, Answers)
      BY <1>1, <2>4, <3>2, Hearing
    <3>4. Conduct(e, {"ACK"})
      BY <1>1, <2>2, <3>3, TestConduct DEF Testing, Reading, Heeding, Sending
    <3>5. QED
      BY <1>1, <2>2, <3>1, <3>4, Messages, MadeOf, Behaving
  <2>5. CASE Heard(e) = "HI"
    <3>1. SendRead(e, <<"HI">>, 1)
      BY <2>5 DEF ReceiverRead
    <3>2. QED
      BY <1>1, <2>2, <2>3, <3>1, Messages, MadeOf, Behaving
  <2>6. CASE Heard(e) \notin {"SYNC_BYTE", "HI"}
    <3>1. SendRead(e, <<>>, 1)
      BY <2>6 DEF ReceiverRead
    <3>2. QED
      BY <1>1, <2>2, <2>3, <3>1, Messages, MadeOf, Behaving
  <2>7. QED
    BY <2>4, <2>5, <2>6
<1>4. QED
  BY <1>2, <1>3

LEMMA CheckBehaves ==
  ASSUME TypeInv, NEW e \in End, NEW p \in End, p # e, CheckRead(e)
  PROVE  Behaves(e, p)
<1>1. /\ pc[e] = "check" /\ chan[e] # <<>> /\ UNCHANGED fixed /\ Gets(e, pc[e]) /\ pc[e] \in Testing
      /\ Begun(e) /\ pc[e] # "done"
  BY DEF CheckRead, Gets, Begun, Testing
<1>2. CASE Heard(e) = "STR"
  <2>1. SendRead(e, <<"TAK">>, 1) /\ Goto(e, "ack", HalfSec) /\ UNCHANGED table
    BY <1>2 DEF CheckRead
  <2>2. pc'[e] = "ack" /\ idx'[e] = idx[e] /\ Aside(p)
    BY <1>1, <2>1, GoneTo
  <2>3. "STR" \in Answers /\ "JUNK" \notin Answers
    BY DEF Answers
  <2>4. Hears(e, Answers)
    BY <1>1, <1>2, <2>3, Hearing
  <2>5. Conduct(e, {"TAK"})
    BY <1>1, <2>2, <2>4, TestConduct DEF Testing, Reading, Heeding, Sending
  <2>6. QED
    BY <1>1, <2>1, <2>2, <2>5, Messages, MadeOf, Behaving
<1>3. CASE Heard(e) # "STR"
  BY <1>1, <1>3, FailBehaves DEF CheckRead
<1>4. QED
  BY <1>2, <1>3

LEMMA AckBehaves ==
  ASSUME TypeInv, NEW e \in End, NEW p \in End, p # e, AckRead(e)
  PROVE  Behaves(e, p)
<1>1. /\ pc[e] = "ack" /\ chan[e] # <<>> /\ UNCHANGED fixed /\ Gets(e, pc[e]) /\ pc[e] \in Testing
      /\ Begun(e) /\ pc[e] # "done"
  BY DEF AckRead, Gets, Begun, Testing
<1>2. CASE Heard(e) # "ACK"
  BY <1>1, <1>2, FailBehaves DEF AckRead
<1>3. CASE Heard(e) = "ACK"
  <2>1. "ACK" \in Answers /\ "JUNK" \notin Answers
    BY DEF Answers
  <2>2. Hears(e, Answers) /\ Hears(e, {"ACK"})
    BY <1>1, <1>3, <2>1, Hearing
  <2>3. CASE e = "client"
    <3>1. SendRead(e, <<"TAK">>, 1) /\ Success(e)
      BY <1>3, <2>3 DEF AckRead
    <3>2. pc'[e] = "done" /\ idx'[e] = idx[e] /\ Aside(p)
      BY <1>1, <3>1, Succeeded
    <3>3. Conduct(e, {"TAK"})
      BY <1>1, <2>2, <3>2, TestConduct DEF Testing, Reading, Heeding, Sending
    <3>4. QED
      BY <1>1, <3>1, <3>2, <3>3, Messages, MadeOf, Behaving
  <2>4. CASE e # "client"
    <3>1. SendRead(e, <<"TAK", "SYNC_BYTE">>, 1) /\ Goto(e, "hs", TimeOut) /\ UNCHANGED table
      BY <1>3, <2>4 DEF AckRead
    <3>2. pc'[e] = "hs" /\ idx'[e] = idx[e] /\ deadline'[e] = now + TimeOut /\ Aside(p)
      BY <1>1, <3>1, GoneTo
    <3>3. Conduct(e, {"TAK", "SYNC_BYTE"})
      BY <1>1, <2>2, <2>4, <3>2, TestConduct DEF Testing, Reading, Heeding, Sending
    <3>4. QED
      BY <1>1, <3>1, <3>2, <3>3, Messages, MadeOf, Behaving
  <2>5. QED
    BY <2>3, <2>4
<1>4. QED
  BY <1>2, <1>3

LEMMA LokBehaves ==
  ASSUME TypeInv, SendLok
  PROVE  Behaves("server", "client")
<1>0. "server" \in End /\ "client" \in End
  BY Ends
<1>1. /\ pc["server"] = "march" /\ SendRead("server", <<"LOK">>, 0)
      /\ Goto("server", "lokack", HalfSec) /\ UNCHANGED <<fixed, table>>
  BY DEF SendLok, Send
<1>2. pc'["server"] = "lokack" /\ idx'["server"] = idx["server"] /\ Aside("client")
  BY <1>0, <1>1, GoneTo
<1>3. Conduct("server", {"LOK"})
  BY <1>1, <1>2 DEF Conduct, Onward, Stays, Testing, Reading, Walked, Heeding, Sending
<1>4. QED
  BY <1>0, <1>1, <1>2, <1>3, Messages, MadeOf, Behaving

LEMMA MarchBehaves ==
  ASSUME TypeInv, NEW e \in End, NEW p \in End, p # e, MarchRead(e)
  PROVE  Behaves(e, p)
<1>1. /\ pc[e] = (IF e = "client" THEN "lok" ELSE "lokack") /\ chan[e] # <<>> /\ UNCHANGED fixed
  BY DEF MarchRead, Gets
<1>2. At(e) # {}
  <2>1. 1 \in 1 .. Len(chan[e])
    BY <1>1, EmptySeq, LenProperties DEF TypeInv
  <2>2. QED
    BY <2>1 DEF At
<1>3. PICK l \in {"hold", "done"}, n \in {0, 1} : Goto(e, l, n) /\ UNCHANGED table
  BY DEF MarchRead, NoMarch
<1>4. pc'[e] = l /\ idx'[e] = idx[e] /\ Aside(p)
  BY <1>1, <1>3, GoneTo
<1>5. Onward(e)
  BY <1>1, <1>4, Ends DEF Onward, Walked, Heeding, Testing
<1>6. Conduct(e, {}) /\ (e = "client" => Conduct(e, {"ACK"}))
  BY <1>1, <1>2, <1>4, <1>5, Ends DEF Conduct, Testing, Reading, Sending
<1>7. SendRead(e, <<>>, 1) \/ (e = "client" /\ SendRead(e, <<"ACK">>, 1))
  BY DEF MarchRead
<1>8. QED
  BY <1>1, <1>4, <1>6, <1>7, Messages, MadeOf, Behaving

LEMMA StartMoves ==
  ASSUME TypeInv, NEW e \in End, NEW p \in End, p # e, StartSpeed(e)
  PROVE  /\ pc[e] = "hold" /\ pc'[e] = "sync" /\ idx'[e] = idx[e] /\ zero'[e] = now
         /\ sp'[e] = BaudSet /\ next'[e] = BaudSet + Base /\ late' = late /\ Aside(p)
<1>1. /\ zero \in [End -> Nat] /\ pc \in [End -> Pcs] /\ deadline \in [End -> Nat] /\ idx \in [End -> Rate]
      /\ rate \in [End -> Rate] /\ sp \in [End -> Nat] /\ next \in [End -> Nat]
  BY DEF TypeInv, Walk
<1>2. pc[e] = "hold" /\ idx[e] = 1
  BY DEF StartSpeed, TypeInv, Tabled, Begun
<1>3. QED
  BY <1>1, <1>2 DEF StartSpeed, Begin, Goto, fixed, Aside

LEMMA SyncMoves ==
  ASSUME TypeInv, NEW e \in End, NEW p \in End, p # e, AtSync(e)
  PROVE  /\ pc[e] = "sync" /\ pc'[e] = "slop" /\ idx'[e] = idx[e] /\ deadline'[e] = now + Slop
         /\ zero'[e] = zero[e] /\ sp'[e] = sp[e] /\ next'[e] = next[e] /\ Aside(p)
<1>1. pc \in [End -> Pcs] /\ deadline \in [End -> Nat]
  BY DEF TypeInv, Walk
<1>2. QED
  BY <1>1 DEF AtSync, Goto, fixed, Aside

LEMMA StartBehaves ==
  ASSUME TypeInv, NEW e \in End, NEW p \in End, p # e, StartSpeed(e)
  PROVE  Behaves(e, p)
<1>1. pc[e] = "hold" /\ pc'[e] = "sync" /\ idx'[e] = idx[e] /\ Aside(p)
  BY StartMoves
<1>2. Conduct(e, {})
  BY <1>1 DEF Conduct, Onward, Testing, Reading, Walked, Heeding, Sending
<1>3. chan' = chan
  BY DEF StartSpeed
<1>4. QED
  BY <1>1, <1>2, <1>3, BehavingQuietly

LEMMA SyncBehaves ==
  ASSUME TypeInv, NEW e \in End, NEW p \in End, p # e, AtSync(e)
  PROVE  Behaves(e, p)
<1>1. pc[e] = "sync" /\ pc'[e] = "slop" /\ idx'[e] = idx[e] /\ Aside(p)
  BY SyncMoves
<1>2. chan' = [chan EXCEPT ![e] = <<>>]
  BY DEF AtSync
<1>3. Says(e, p, {})
  BY <1>2, SilentFacts
<1>4. At(e)' = {}
  <2>1. chan'[e] = <<>>
    BY <1>2 DEF TypeInv
  <2>2. QED
    BY <2>1 DEF At
<1>5. Conduct(e, {})
  BY <1>1, <1>4 DEF Conduct, Onward, Testing, Reading, Walked, Heeding, Sending
<1>6. QED
  BY <1>1, <1>3, <1>5 DEF Behaves

LEMMA HiBehaves ==
  ASSUME TypeInv, NEW e \in End, NEW p \in End, p # e, SendHi(e)
  PROVE  Behaves(e, p)
<1>1. /\ pc[e] = "slop" /\ SendRead(e, <<"HI">>, 0) /\ Goto(e, "hi", 2 * Slop) /\ UNCHANGED <<fixed, table>>
  BY DEF SendHi, Send
<1>2. pc'[e] = "hi" /\ idx'[e] = idx[e] /\ Aside(p)
  BY <1>1, GoneTo
<1>3. rate[e] = idx[e]
  BY <1>1 DEF TypeInv, Tabled, Begun
<1>4. Conduct(e, {"HI"})
  BY <1>1, <1>2, <1>3 DEF Conduct, Onward, Stays, Testing, Reading, Walked, Heeding, Sending
<1>5. QED
  BY <1>1, <1>2, <1>4, Messages, MadeOf, Behaving

\* An end was greeted.
LEMMA GreetedMoves ==
  ASSUME TypeInv, NEW e \in End, NEW p \in End, p # e, HiRead(e), Heard(e) = "HI"
  PROVE  /\ pc[e] = "hi" /\ pc'[e] = (IF e = "client" THEN "hs" ELSE "rhs") /\ deadline'[e] = now + TimeOut
         /\ idx'[e] = idx[e] /\ zero'[e] = zero[e] /\ sp'[e] = sp[e] /\ late' = late
         /\ next'[e] = next[e] + TestTime(idx[e]) /\ Aside(p)
<1>1. pc \in [End -> Pcs] /\ deadline \in [End -> Nat] /\ next \in [End -> Nat]
  BY DEF TypeInv, Walk
<1>2. /\ pc[e] = "hi" /\ UNCHANGED <<fixed, zero, idx, rate, sp, ok, late>>
      /\ next' = [next EXCEPT ![e] = next[e] + TestTime(idx[e])]
      /\ Goto(e, IF e = "client" THEN "hs" ELSE "rhs", TimeOut)
  BY DEF HiRead, Gets, StartSend, StartReceive, Added
<1>3. QED
  BY <1>1, <1>2 DEF Goto, fixed, Aside

LEMMA HiReadBehaves ==
  ASSUME TypeInv, NEW e \in End, NEW p \in End, p # e, HiRead(e)
  PROVE  Behaves(e, p)
<1>1. pc[e] = "hi" /\ chan[e] # <<>> /\ UNCHANGED fixed /\ Gets(e, pc[e]) /\ Begun(e) /\ pc[e] # "done"
  BY DEF HiRead, Gets, Begun
<1>2. CASE Heard(e) # "HI"
  BY <1>1, <1>2, FailBehaves DEF HiRead
<1>3. CASE Heard(e) = "HI"
  <2>1. /\ pc'[e] = (IF e = "client" THEN "hs" ELSE "rhs") /\ idx'[e] = idx[e]
        /\ deadline'[e] = now + TimeOut /\ Aside(p)
    BY <1>3, GreetedMoves
  <2>2. Hears(e, {"HI"})
    BY <1>1, <1>3, Hearing
  <2>3. Onward(e)
    BY <1>1, <2>1 DEF Onward, Walked, Testing, Heeding
  <2>4. Conduct(e, {}) /\ Conduct(e, {"SYNC_BYTE"})
    BY <1>1, <2>1, <2>2, <2>3, Ends DEF Conduct, Testing, Reading, Sending
  <2>5. SendRead(e, <<>>, 1) \/ SendRead(e, <<"SYNC_BYTE">>, 1)
    BY <1>3 DEF HiRead, StartSend
  <2>6. QED
    BY <1>1, <2>1, <2>4, <2>5, Messages, MadeOf, Behaving
<1>4. QED
  BY <1>2, <1>3

LEMMA GivesUpBehaves ==
  ASSUME TypeInv, NEW e \in End, NEW p \in End, p # e, GivesUp(e)
  PROVE  Behaves(e, p)
<1>1. pc[e] \in Reading /\ UNCHANGED fixed /\ chan' = chan
  BY DEF GivesUp
<1>2. CASE pc[e] \in {"lok", "lokack"}
  <2>1. Goto(e, "done", 0) /\ UNCHANGED table
    BY <1>2 DEF GivesUp, NoMarch
  <2>2. pc'[e] = "done" /\ idx'[e] = idx[e] /\ Aside(p)
    BY <1>1, <2>1, GoneTo
  <2>3. Conduct(e, {})
    BY <1>2, <2>2 DEF Conduct, Onward, Testing, Reading, Walked, Heeding, Sending
  <2>4. QED
    BY <1>1, <2>2, <2>3, BehavingQuietly
<1>3. CASE pc[e] \notin {"lok", "lokack"}
  <2>1. Fail(e) /\ pc[e] \in {"hi"} \cup Testing
    BY <1>1, <1>3 DEF GivesUp, Reading, Testing
  <2>2. Conduct(e, {}) /\ Aside(p)
    BY <1>1, <2>1, FailConduct
  <2>3. QED
    BY <1>1, <2>2, BehavingQuietly
<1>4. QED
  BY <1>2, <1>3

LEMMA StepBehaves ==
  ASSUME TypeInv, NEW e \in End, NEW p \in End, p # e, Step(e) \/ (e = "server" /\ SendLok)
  PROVE  Behaves(e, p)
<1>1. CASE SendLok /\ e = "server"
  <2>1. p = "client"
    BY <1>1, Ends
  <2>2. QED
    BY <1>1, <2>1, LokBehaves
<1>2. CASE Step(e)
  BY <1>2, MarchBehaves, StartBehaves, SyncBehaves, HiBehaves, HiReadBehaves, HandshakeBehaves, StrBehaves,
     TakBehaves, LastBehaves, ReceiverBehaves, CheckBehaves, AckBehaves, GivesUpBehaves DEF Step
<1>3. QED
  BY <1>1, <1>2

(***************************************************************************)
(* The ends meet at a rate: what one hears there is of the other's test of *)
(* the same rate, and it comes within a tick or two                        *)
(***************************************************************************)
\* End e has said HI at rate r; the client has heard the first TAK of rate r.
Past(e, r) == idx[e] > r \/ (idx[e] = r /\ pc[e] \in Walked)
PastTak(r) == idx["client"] > r \/ (idx["client"] = r /\ pc["client"] \in Heeding)

\* Nothing was sent to the server before the client had heard LOK.
Lok == pc["client"] = "lok" => At("server") = {} /\ pc["server"] \in {"march", "lokack", "done"}

\* An end hears HI, and tests a rate, only when its peer has come to that rate.
Met == \A e, p \in End : p # e =>
  /\ \A t \in At(e) : t.sym = "HI" => Past(p, t.rate)
  /\ pc[e] \in Testing => Past(p, idx[e])

\* The server hears ACK, and sends its string, only when the client has sent its own.
Heeded ==
  /\ pc["server"] \in {"slop", "hi"} \cup Testing =>
       \A t \in At("server") : t.sym = "ACK" => PastTak(t.rate)
  /\ pc["server"] \in Sending => PastTak(idx["server"])

\* While an end waits for the answer to a SYNC_BYTE or its string, the answer, or what
\* the peer will answer, has been there for a tick or two at most: no program lets a byte
\* lie for longer.
Echo == \A e, p \in End : p # e /\ pc[e] \in {"hs", "tak"} =>
  /\ \A t \in At(e) : t.rate = idx[e] /\ t.sym \in {"ACK", "TAK"} =>
       now + TimeOut <= deadline[e] + IF t.old THEN 2 ELSE 1
  /\ idx[p] = idx[e] /\ pc[p] \in Reading =>
       \A t \in At(p) : t.rate = idx[e] /\ t.sym \in Answers =>
         now + TimeOut <= deadline[e] + IF t.old THEN 1 ELSE 0

MeetInv == Order /\ Lok /\ Met /\ Heeded /\ Echo

LEMMA AtTypes ==
  ASSUME TypeInv, NEW e \in End, NEW t \in At(e)
  PROVE  t.sym \in Symbol /\ t.rate \in Nat /\ t.old \in BOOLEAN
<1>1. PICK k \in 1 .. Len(chan[e]) : t = chan[e][k]
  BY DEF At
<1>2. chan[e] \in Seq(Token)
  BY DEF TypeInv
<1>3. t \in Token
  BY <1>1, <1>2, ElementOfSeq
<1>4. NumRates \in Nat
  BY SerBaudAssumption
<1>5. QED
  BY <1>3, <1>4 DEF Token, Rate

LEMMA PastStays ==
  ASSUME TypeInv, TypeInv', NEW e \in End, Onward(e), NEW r \in Nat
  PROVE  /\ Past(e, r) => Past(e, r)'
         /\ e = "client" /\ PastTak(r) => PastTak(r)'
<1>1. idx[e] \in Nat /\ idx'[e] \in Nat
  <2>1. idx[e] \in Rate /\ idx'[e] \in Rate /\ NumRates \in Nat
    BY SerBaudAssumption DEF TypeInv, Walk
  <2>2. QED
    BY <2>1 DEF Rate
<1>2. QED
  BY <1>1 DEF Past, PastTak, Onward

LEMMA StillOnward ==
  ASSUME NEW p \in End, Aside(p)
  PROVE  Onward(p)
BY DEF Aside, Onward

LEMMA LokStep ==
  ASSUME TypeInv, Lok, NEW e \in End, NEW p \in End, p # e, Behaves(e, p)
  PROVE  Lok'
<1>1. PICK S : Says(e, p, S) /\ Conduct(e, S)
  BY DEF Behaves
<1>2. SUFFICES ASSUME pc'["client"] = "lok"
               PROVE  At("server")' = {} /\ pc'["server"] \in {"march", "lokack", "done"}
  BY DEF Lok
<1>3. e = "server" /\ p = "client" /\ pc["client"] = "lok"
  BY <1>1, <1>2, Ends DEF Conduct, Behaves, Aside
<1>4. At("server") = {} /\ pc["server"] \in {"march", "lokack", "done"}
  BY <1>3 DEF Lok
<1>5. At("server")' = {}
  BY <1>1, <1>3, <1>4 DEF Says
<1>6. pc'["server"] \in {"march", "lokack", "done"}
  BY <1>1, <1>3, <1>4 DEF Conduct
<1>7. QED
  BY <1>5, <1>6

LEMMA MetStep ==
  ASSUME TypeInv, TypeInv', Met, NEW e \in End, NEW p \in End, p # e, Behaves(e, p)
  PROVE  Met'
<1>1. PICK S : Says(e, p, S) /\ Conduct(e, S)
  BY DEF Behaves
<1>2. Onward(e) /\ Onward(p) /\ Aside(p)
  BY <1>1, StillOnward DEF Conduct, Behaves
<1>3. \A r \in Nat : (Past(e, r) => Past(e, r)') /\ (Past(p, r) => Past(p, r)')
  BY <1>2, PastStays
<1>4. idx[e] \in Nat /\ idx[p] \in Nat
  BY Places
<1>5. ASSUME NEW t \in At(e)', t.sym = "HI" PROVE Past(p, t.rate)'
  <2>1. t \in At(e) /\ t.rate \in Nat
    BY <1>1, AtTypes DEF Says
  <2>2. Past(p, t.rate)
    BY <1>5, <2>1 DEF Met
  <2>3. QED
    BY <1>3, <2>1, <2>2
<1>6. ASSUME NEW t \in At(p)', t.sym = "HI" PROVE Past(e, t.rate)'
  <2>1. CASE t \in At(p)
    <3>1. Past(e, t.rate) /\ t.rate \in Nat
      BY <1>6, <2>1, AtTypes DEF Met
    <3>2. QED
      BY <1>3, <3>1
  <2>2. CASE ~(t \in At(p))
    <3>1. t.rate = rate[e] /\ "HI" \in S
      BY <1>1, <1>6, <2>2 DEF Says
    <3>2. t.rate = idx'[e] /\ pc'[e] \in Walked
      BY <1>1, <3>1 DEF Conduct, Stays
    <3>3. QED
      BY <3>2 DEF Past
  <2>3. QED
    BY <2>1, <2>2
<1>7. ASSUME pc'[e] \in Testing PROVE \A r : r = idx'[e] => Past(p, r)'
  <2>1. idx'[e] = idx[e] /\ (pc[e] \in Testing \/ Hears(e, {"HI"}))
    BY <1>1, <1>7 DEF Conduct
  <2>2. Past(p, idx[e])
    BY <2>1 DEF Met, Hears
  <2>3. \A r : r = idx[e] => Past(p, r)'
    BY <1>3, <1>4, <2>2
  <2>4. QED
    BY <2>1, <2>3
<1>8. ASSUME pc'[p] \in Testing PROVE \A r : r = idx[p] => Past(e, r)'
  <2>1. Past(e, idx[p])
    BY <1>2, <1>8 DEF Met, Aside
  <2>2. QED
    BY <1>3, <1>4, <2>1
<1>9. QED
  BY <1>2, <1>5, <1>6, <1>7, <1>8, Ends DEF Met, Aside

LEMMA ServerHeeds ==
  ASSUME TypeInv, TypeInv', Heeded, Behaves("server", "client")
  PROVE  Heeded'
<1>0. "server" \in End /\ "client" \in End
  BY Ends
<1>1. PICK S : Says("server", "client", S) /\ Conduct("server", S)
  BY DEF Behaves
<1>2. Onward("client")
  BY <1>0, StillOnward DEF Behaves
<1>3. \A r \in Nat : PastTak(r) => PastTak(r)'
  BY <1>0, <1>2, PastStays
<1>4. idx["server"] \in Nat
  BY <1>0, Places
<1>5. ASSUME pc'["server"] \in {"slop", "hi"} \cup Testing, NEW t \in At("server")', t.sym = "ACK"
      PROVE  PastTak(t.rate)'
  <2>1. t \in At("server") /\ pc["server"] \in {"slop", "hi"} \cup Testing
    BY <1>1, <1>5 DEF Says, Conduct
  <2>2. t.rate \in Nat /\ PastTak(t.rate)
    BY <1>0, <1>5, <2>1, AtTypes DEF Heeded
  <2>3. QED
    BY <1>3, <2>2
<1>6. ASSUME pc'["server"] \in Sending PROVE \A r : r = idx'["server"] => PastTak(r)'
  <2>1. /\ idx'["server"] = idx["server"]
        /\ pc["server"] \in Sending \/ (pc["server"] \in Testing /\ Hears("server", {"ACK"}))
    BY <1>1, <1>6 DEF Conduct
  <2>2. PastTak(idx["server"])
    BY <2>1 DEF Heeded, Hears
  <2>3. QED
    BY <1>3, <1>4, <2>1, <2>2
<1>7. QED
  BY <1>5, <1>6 DEF Heeded

LEMMA ClientHeeds ==
  ASSUME TypeInv, TypeInv', Lok, Heeded, Behaves("client", "server")
  PROVE  Heeded'
<1>0. "server" \in End /\ "client" \in End
  BY Ends
<1>1. PICK S : Says("client", "server", S) /\ Conduct("client", S)
  BY DEF Behaves
<1>2. Onward("client") /\ Aside("server")
  BY <1>1 DEF Behaves, Conduct
<1>3. \A r \in Nat : PastTak(r) => PastTak(r)'
  BY <1>0, <1>2, PastStays
<1>4. idx["server"] \in Nat
  BY <1>0, Places
<1>5. ASSUME pc'["server"] \in {"slop", "hi"} \cup Testing, NEW t \in At("server")', t.sym = "ACK"
      PROVE  PastTak(t.rate)'
  <2>1. pc["server"] \in {"slop", "hi"} \cup Testing
    BY <1>2, <1>5 DEF Aside
  <2>2. CASE t \in At("server")
    <3>1. t.rate \in Nat /\ PastTak(t.rate)
      BY <1>0, <1>5, <2>1, <2>2, AtTypes DEF Heeded
    <3>2. QED
      BY <1>3, <3>1
  <2>3. CASE ~(t \in At("server"))
    <3>1. t.rate = rate["client"] /\ "ACK" \in S
      BY <1>1, <1>5, <2>3 DEF Says
    <3>2. pc["client"] # "lok"
      BY <2>1 DEF Lok, Testing
    <3>3. t.rate = idx'["client"] /\ pc'["client"] \in Heeding
      BY <1>1, <3>1, <3>2 DEF Conduct, Stays
    <3>4. QED
      BY <3>3 DEF PastTak
  <2>4. QED
    BY <2>2, <2>3
<1>6. ASSUME pc'["server"] \in Sending PROVE \A r : r = idx'["server"] => PastTak(r)'
  <2>1. idx'["server"] = idx["server"] /\ pc["server"] \in Sending
    BY <1>2, <1>6 DEF Aside
  <2>2. PastTak(idx["server"])
    BY <2>1 DEF Heeded
  <2>3. QED
    BY <1>3, <1>4, <2>1, <2>2
<1>7. QED
  BY <1>5, <1>6 DEF Heeded

\* No end begins to listen while its peer waits for it at the same rate.
LEMMA Listening ==
  ASSUME TypeInv, Met, Heeded, NEW e \in End, NEW p \in End, p # e, pc[p] \in {"hs", "tak"}, idx[e] = idx[p]
  PROVE  pc[e] \notin {"lok", "march", "slop", "str"}
<1>1. /\ idx[e] \in Nat /\ idx[p] \in Nat /\ Past(e, idx[p]) /\ pc[p] \in Testing /\ pc[p] \in Sending
  BY Places DEF Met, Testing, Sending
<1>2. pc[e] \in Walked
  BY <1>1 DEF Past
<1>3. ASSUME pc[e] = "str" PROVE FALSE
  <2>1. PastTak(idx["server"]) /\ idx["client"] = idx["server"]
    BY <1>1, <1>3, Ends DEF Heeded, Sending
  <2>2. idx["client"] \in Nat
    BY Ends, Places
  <2>3. pc["client"] \in Heeding
    BY <2>1, <2>2 DEF PastTak
  <2>4. QED
    BY <1>3, <2>3, Ends DEF Heeding
<1>4. QED
  BY <1>2, <1>3 DEF Walked, Testing

\* End e waits on, or begins to wait.
LEMMA EchoHere ==
  ASSUME TypeInv, TypeInv', Echo, NEW e \in End, NEW p \in End, p # e, Behaves(e, p), pc'[e] \in {"hs", "tak"}
  PROVE  /\ \A t \in At(e)' : t.rate = idx'[e] /\ t.sym \in {"ACK", "TAK"} =>
              now' + TimeOut <= deadline'[e] + IF t.old THEN 2 ELSE 1
         /\ idx'[p] = idx'[e] /\ pc'[p] \in Reading =>
              \A t \in At(p)' : t.rate = idx'[e] /\ t.sym \in Answers =>
                now' + TimeOut <= deadline'[e] + IF t.old THEN 1 ELSE 0
<1>1. PICK S : Says(e, p, S) /\ Conduct(e, S)
  BY DEF Behaves
<1>2. now' = now /\ pc'[p] = pc[p] /\ idx'[p] = idx[p] /\ idx'[e] = idx[e]
  BY <1>1 DEF Behaves, Aside, Conduct
<1>3. now \in Nat /\ TimeOut \in Nat
  BY Places, LimitFacts
<1>4. CASE deadline'[e] = now + TimeOut
  BY <1>2, <1>3, <1>4
<1>5. CASE pc[e] \in {"hs", "tak"} /\ deadline'[e] = deadline[e] /\ S \subseteq {"HI"}
  <2>1. \A t \in At(e)' : t \in At(e)
    BY <1>1 DEF Says
  <2>2. \A t \in At(p)' : t.sym \in Answers => t \in At(p)
    BY <1>1, <1>5 DEF Says, Answers
  <2>3. QED
    BY <1>2, <1>5, <2>1, <2>2 DEF Echo
<1>6. QED
  BY <1>1, <1>4, <1>5 DEF Conduct

\* End e acts while p waits.
LEMMA EchoThere ==
  ASSUME TypeInv, TypeInv', Lok, Met, Heeded, Echo, NEW e \in End, NEW p \in End, p # e, Behaves(e, p),
         pc'[p] \in {"hs", "tak"}
  PROVE  /\ \A t \in At(p)' : t.rate = idx'[p] /\ t.sym \in {"ACK", "TAK"} =>
              now' + TimeOut <= deadline'[p] + IF t.old THEN 2 ELSE 1
         /\ idx'[e] = idx'[p] /\ pc'[e] \in Reading =>
              \A t \in At(e)' : t.rate = idx'[p] /\ t.sym \in Answers =>
                now' + TimeOut <= deadline'[p] + IF t.old THEN 1 ELSE 0
<1>1. PICK S : Says(e, p, S) /\ Conduct(e, S)
  BY DEF Behaves
<1>2. now' = now /\ pc'[p] = pc[p] /\ idx'[p] = idx[p] /\ deadline'[p] = deadline[p]
  BY DEF Behaves, Aside
<1>3. now \in Nat /\ TimeOut \in Nat /\ deadline[p] \in Nat /\ pc[p] \in {"hs", "tak"}
  BY <1>2, Places, LimitFacts
<1>4. ASSUME NEW t \in At(p)', t.rate = idx[p], t.sym \in {"ACK", "TAK"}
      PROVE  now + TimeOut <= deadline[p] + IF t.old THEN 2 ELSE 1
  <2>1. CASE t \in At(p)
    BY <1>3, <1>4, <2>1 DEF Echo
  <2>2. CASE ~(t \in At(p))
    <3>1. t.rate = rate[e] /\ t.old = FALSE /\ ("ACK" \in S \/ "TAK" \in S)
      BY <1>1, <1>4, <2>2 DEF Says
    <3>2. ~(e = "client" /\ pc[e] = "lok")
      BY <1>3, Ends DEF Lok
    <3>3. pc[e] \in Reading /\ rate[e] = idx[e] /\ Hears(e, Answers)
      BY <1>1, <3>1, <3>2 DEF Conduct
    <3>4. PICK u \in At(e) : u.rate = idx[e] /\ u.sym \in Answers
      BY <3>3 DEF Hears
    <3>5. now + TimeOut <= deadline[p] + IF u.old THEN 1 ELSE 0
      BY <1>3, <1>4, <3>1, <3>3, <3>4 DEF Echo
    <3>6. QED
      BY <1>3, <3>1, <3>5
  <2>3. QED
    BY <2>1, <2>2
<1>5. ASSUME idx'[e] = idx[p], pc'[e] \in Reading, NEW t \in At(e)', t.rate = idx[p], t.sym \in Answers
      PROVE  now + TimeOut <= deadline[p] + IF t.old THEN 1 ELSE 0
  <2>1. t \in At(e) /\ idx[e] = idx[p] /\ pc[e] \in Reading \cup {"march", "slop", "str"}
    BY <1>1, <1>5 DEF Says, Conduct
  <2>2. pc[e] \in Reading
    BY <1>3, <2>1, Listening
  <2>3. QED
    BY <1>3, <1>5, <2>1, <2>2 DEF Echo
<1>6. QED
  BY <1>2, <1>4, <1>5

LEMMA MeetStep ==
  ASSUME TypeInv, TypeInv', MeetInv, NEW e \in End, NEW p \in End, p # e, Behaves(e, p)
  PROVE  MeetInv'
<1>1. Order'
  <2>1. PICK S : Says(e, p, S)
    BY DEF Behaves
  <2>2. QED
    BY <2>1 DEF Says, MeetInv
<1>2. Lok'
  BY LokStep DEF MeetInv
<1>3. Met'
  BY MetStep DEF MeetInv
<1>4. Heeded'
  BY ServerHeeds, ClientHeeds, Ends DEF MeetInv
<1>5. Echo'
  <2>1. Lok /\ Met /\ Heeded /\ Echo
    BY DEF MeetInv
  <2>2. ASSUME NEW x \in End, NEW y \in End, y # x, pc'[x] \in {"hs", "tak"}
        PROVE  /\ \A t \in At(x)' : t.rate = idx'[x] /\ t.sym \in {"ACK", "TAK"} =>
                    now' + TimeOut <= deadline'[x] + IF t.old THEN 2 ELSE 1
               /\ idx'[y] = idx'[x] /\ pc'[y] \in Reading =>
                    \A t \in At(y)' : t.rate = idx'[x] /\ t.sym \in Answers =>
                      now' + TimeOut <= deadline'[x] + IF t.old THEN 1 ELSE 0
    <3>1. CASE x = e /\ y = p
      BY <2>1, <2>2, <3>1, EchoHere
    <3>2. CASE x = p /\ y = e
      BY <2>1, <2>2, <3>2, EchoThere
    <3>3. QED
      BY <2>2, <3>1, <3>2, Ends
  <2>3. QED
    BY <2>2 DEF Echo
<1>6. QED
  BY <1>1, <1>2, <1>3, <1>4, <1>5 DEF MeetInv

LEMMA MeetTick ==
  ASSUME TypeInv, TypeInv', MeetInv, Tick
  PROVE  MeetInv'
<1>1. /\ Order' /\ \A e \in End : \A t \in At(e)' : \E u \in At(e) : u.sym = t.sym /\ u.rate = t.rate
      /\ \A e \in End : pc[e] \in Reading => \A u \in At(e) : u.old = FALSE
  BY TickLine DEF MeetInv
<1>2. now' = now + 1 /\ pc' = pc /\ deadline' = deadline /\ idx' = idx
  BY DEF Tick, table
<1>3. now \in Nat /\ TimeOut \in Nat /\ \A e \in End : deadline[e] \in Nat
  BY Places, Ends, LimitFacts
<1>4. Lok'
  BY <1>1, <1>2, Ends DEF MeetInv, Lok
<1>5. \A e \in End : \A r : (Past(e, r) => Past(e, r)') /\ (PastTak(r) => PastTak(r)')
  BY <1>2 DEF Past, PastTak
<1>6. Met'
  BY <1>1, <1>2, <1>5 DEF MeetInv, Met
<1>7. Heeded'
  BY <1>1, <1>2, <1>5, Ends DEF MeetInv, Heeded
<1>8. ASSUME NEW e \in End, NEW p \in End, p # e, pc[e] \in {"hs", "tak"}
      PROVE  /\ \A t \in At(e)' : t.rate = idx[e] /\ t.sym \in {"ACK", "TAK"} =>
                  now + 1 + TimeOut <= deadline[e] + IF t.old THEN 2 ELSE 1
             /\ idx[p] = idx[e] /\ pc[p] \in Reading =>
                  \A t \in At(p)' : t.rate = idx[e] /\ t.sym \in Answers =>
                    now + 1 + TimeOut <= deadline[e] + IF t.old THEN 1 ELSE 0
  <2>1. pc[e] \in Reading
    BY <1>8 DEF Reading
  <2>2. ASSUME NEW t \in At(e)', t.rate = idx[e], t.sym \in {"ACK", "TAK"}
        PROVE  now + 1 + TimeOut <= deadline[e] + 2 /\ t.old = TRUE
    <3>1. PICK u \in At(e) : u.sym = t.sym /\ u.rate = t.rate
      BY <1>1, <2>2
    <3>2. u.old = FALSE
      BY <1>1, <2>1
    <3>3. now + TimeOut <= deadline[e] + 1
      BY <1>8, <2>2, <3>1, <3>2 DEF MeetInv, Echo
    <3>4. t.old = TRUE
      BY <2>2, TickOld
    <3>5. QED
      BY <1>3, <3>3, <3>4
  <2>3. ASSUME idx[p] = idx[e], pc[p] \in Reading, NEW t \in At(p)', t.rate = idx[e], t.sym \in Answers
        PROVE  now + 1 + TimeOut <= deadline[e] + 1 /\ t.old = TRUE
    <3>1. PICK u \in At(p) : u.sym = t.sym /\ u.rate = t.rate
      BY <1>1, <2>3
    <3>2. u.old = FALSE
      BY <1>1, <2>3
    <3>3. now + TimeOut <= deadline[e] + 0
      BY <1>8, <2>3, <3>1, <3>2 DEF MeetInv, Echo
    <3>4. t.old = TRUE
      BY <2>3, TickOld
    <3>5. QED
      BY <1>3, <3>3, <3>4
  <2>4. QED
    BY <2>2, <2>3
<1>9. Echo'
  BY <1>2, <1>8 DEF Echo
<1>10. QED
  BY <1>1, <1>4, <1>6, <1>7, <1>9 DEF MeetInv

LEMMA MeetInit == Init => MeetInv
<1> SUFFICES ASSUME Init PROVE MeetInv
  OBVIOUS
<1>1. \A e \in End : At(e) = {} /\ chan[e] = <<>> /\ pc[e] \in {"lok", "march"}
  BY DEF Init, At
<1>2. pc["server"] = "march"
  BY Ends DEF Init
<1>3. Order
  BY <1>1 DEF Order
<1>4. Lok
  BY <1>1, <1>2, Ends DEF Lok
<1>5. Met /\ Echo
  BY <1>1 DEF Met, Echo, Testing
<1>6. Heeded
  BY <1>2 DEF Heeded, Testing, Sending
<1>7. QED
  BY <1>3, <1>4, <1>5, <1>6 DEF MeetInv

LEMMA MeetNext == TypeInv /\ MeetInv /\ [Next]_vars => MeetInv'
<1> SUFFICES ASSUME TypeInv, MeetInv, [Next]_vars PROVE MeetInv'
  OBVIOUS
<1>0. TypeInv'
  BY TypeNext
<1>1. CASE SendLok
  <2>1. Behaves("server", "client") /\ "server" \in End /\ "client" \in End
    BY <1>1, Ends, LokBehaves
  <2>2. QED
    BY <1>0, <2>1, MeetStep
<1>2. CASE Tick
  BY <1>0, <1>2, MeetTick
<1>3. CASE UNCHANGED vars
  <2>1. UNCHANGED <<now, chan, pc, deadline, idx>>
    BY <1>3 DEF vars
  <2>2. \A e : At(e)' = At(e)
    BY <2>1 DEF At
  <2>3. (Order <=> Order') /\ (Lok <=> Lok')
    BY <2>1, <2>2 DEF Order, Lok
  <2>4. \A e, r : (Past(e, r) <=> Past(e, r)') /\ (PastTak(r) <=> PastTak(r)')
    BY <2>1 DEF Past, PastTak
  <2>5. (Met <=> Met') /\ (Heeded <=> Heeded')
    BY <2>1, <2>2, <2>4 DEF Met, Heeded
  <2>6. Echo <=> Echo'
    BY <2>1, <2>2 DEF Echo
  <2>7. QED
    BY <2>3, <2>5, <2>6 DEF MeetInv
<1>4. ASSUME NEW e \in End, Step(e)
      PROVE  MeetInv'
  <2>1. PICK p \in End : p # e
    BY Ends
  <2>2. Behaves(e, p)
    BY <1>4, <2>1, StepBehaves
  <2>3. QED
    BY <1>0, <2>1, <2>2, MeetStep
<1>5. QED
  BY <1>1, <1>2, <1>3, <1>4 DEF Next, Returned

(***************************************************************************)
(* The time that is left until the next sync point                         *)
(***************************************************************************)
\* How long after its sync point an end begins, at the latest, to send at rate i, and to
\* receive; and until when a wait of it may last.
Opens(e, i) == 3 * Slop + IF e = "client" THEN 0 ELSE TimeOut + StrTicks(i) + ByteWait + HalfSec
Receives(e, i) == 3 * Slop + IF e = "server" THEN 0 ELSE 4 + StrTicks(i) + HalfSec
Limit(e, l, i) ==
  CASE l = "slop" -> Slop
    [] l = "hi" -> 3 * Slop
    [] l = "hs" -> Opens(e, i) + TimeOut
    [] l = "str" -> Opens(e, i) + 2 + StrTicks(i)
    [] l = "tak" -> Opens(e, i) + 2 + StrTicks(i) + TimeOut
    [] l = "last" -> Opens(e, i) + 4 + StrTicks(i) + HalfSec
    [] l = "rhs" -> Receives(e, i) + TimeOut
    [] l = "check" -> Receives(e, i) + TimeOut + StrTicks(i) + ByteWait
    [] l = "ack" -> Receives(e, i) + TimeOut + StrTicks(i) + ByteWait + HalfSec
Mark(e) == zero[e] + sp[e]
DueAt(e) ==
  /\ pc[e] = "sync" => now <= Mark(e)
  /\ pc[e] \in {"slop", "hi"} \cup Testing =>
       /\ deadline[e] <= Mark(e) + Limit(e, pc[e], idx[e])
       /\ now <= deadline[e] + IF pc[e] = "hs" THEN 1 ELSE 0
  /\ pc[e] \in {"sync", "slop", "hi"} => next[e] = sp[e] + Base
  /\ pc[e] \in Testing => next[e] = sp[e] + Base + TestTime(idx[e])
Due == OnTime /\ \A e \in End : DueAt(e)

LEMMA LimitValues ==
  ASSUME NEW e \in End, NEW i
  PROVE  /\ Limit(e, "slop", i) = Slop /\ Limit(e, "hi", i) = 3 * Slop
         /\ Limit(e, "hs", i) = Opens(e, i) + TimeOut
         /\ Limit(e, "str", i) = Opens(e, i) + 2 + StrTicks(i)
         /\ Limit(e, "tak", i) = Opens(e, i) + 2 + StrTicks(i) + TimeOut
         /\ Limit(e, "last", i) = Opens(e, i) + 4 + StrTicks(i) + HalfSec
         /\ Limit(e, "rhs", i) = Receives(e, i) + TimeOut
         /\ Limit(e, "check", i) = Receives(e, i) + TimeOut + StrTicks(i) + ByteWait
         /\ Limit(e, "ack", i) = Receives(e, i) + TimeOut + StrTicks(i) + ByteWait + HalfSec
BY DEF Limit

LEMMA TurnValues ==
  ASSUME NEW i \in Rate
  PROVE  /\ \A n \in {BaudSet, Slop, TestSlop, TimeOut, HalfSec, ByteWait, Base} : n \in Nat
         /\ StrTicks(i) \in Nat /\ TestTime(i) \in Nat
         /\ Opens("client", i) = 3 * Slop /\ Receives("server", i) = 3 * Slop
         /\ Opens("server", i) = 3 * Slop + TimeOut + StrTicks(i) + ByteWait + HalfSec
         /\ Receives("client", i) = 3 * Slop + 4 + StrTicks(i) + HalfSec
         /\ \A e \in End : Opens(e, i) \in Nat /\ Receives(e, i) \in Nat
         /\ Base = BaudSet + 3 * Slop
         /\ TestTime(i) = Slop + TestSlop + 2 * TimeOut + 2 * StrTicks(i)
<1>1. /\ BaudSet \in Nat /\ Slop \in Nat /\ TestSlop \in Nat /\ TimeOut \in Nat /\ HalfSec \in Nat
      /\ ByteWait \in Nat /\ Base \in Nat /\ StrTicks(i) \in Nat /\ TestTime(i) \in Nat
  BY LimitFacts
<1>2. /\ Opens("client", i) = 3 * Slop /\ Receives("server", i) = 3 * Slop
      /\ Opens("server", i) = 3 * Slop + TimeOut + StrTicks(i) + ByteWait + HalfSec
      /\ Receives("client", i) = 3 * Slop + 4 + StrTicks(i) + HalfSec
  BY <1>1 DEF Opens, Receives
<1>3. \A e \in End : Opens(e, i) \in Nat /\ Receives(e, i) \in Nat
  BY <1>1, <1>2, Ends
<1>4. QED
  BY <1>1, <1>2, <1>3 DEF Base, TestTime

LEMMA DueStays ==
  ASSUME NEW p \in End, DueAt(p), Aside(p)
  PROVE  DueAt(p)'
BY DEF DueAt, Mark, Aside

\* However a rate fails, its time is not over.
LEMMA BeforeNext ==
  ASSUME TypeInv, NEW e \in End, DueAt(e), pc[e] \in {"hi"} \cup Testing
  PROVE  now <= zero[e] + next[e]
<1>1. /\ now \in Nat /\ zero[e] \in Nat /\ deadline[e] \in Nat /\ sp[e] \in Nat /\ next[e] \in Nat
      /\ idx[e] \in Rate
  BY Places
<1> DEFINE i == idx[e]
<1>2. /\ BaudSet \in Nat /\ Slop \in Nat /\ TestSlop \in Nat /\ TimeOut \in Nat /\ HalfSec \in Nat
      /\ ByteWait \in Nat /\ StrTicks(i) \in Nat
      /\ Opens("client", i) = 3 * Slop /\ Receives("server", i) = 3 * Slop
      /\ Opens("server", i) = 3 * Slop + TimeOut + StrTicks(i) + ByteWait + HalfSec
      /\ Receives("client", i) = 3 * Slop + 4 + StrTicks(i) + HalfSec
      /\ Base = BaudSet + 3 * Slop
      /\ TestTime(i) = Slop + TestSlop + 2 * TimeOut + 2 * StrTicks(i)
  BY <1>1, TurnValues
<1>3. CASE pc[e] = "hi"
  <2>1. now <= deadline[e] /\ deadline[e] <= zero[e] + sp[e] + 3 * Slop /\ next[e] = sp[e] + Base
    BY <1>1, <1>3, LimitValues DEF DueAt, Mark
  <2>2. QED
    BY <1>1, <1>2, <2>1
<1>4. ASSUME pc[e] \in Testing PROVE now <= zero[e] + next[e]
  <2>1. /\ now <= deadline[e] + IF pc[e] = "hs" THEN 1 ELSE 0
        /\ deadline[e] <= zero[e] + sp[e] + Limit(e, pc[e], i) /\ next[e] = sp[e] + Base + TestTime(i)
    BY <1>1, <1>4 DEF DueAt, Mark
  <2>2. e = "client" \/ e = "server"
    BY Ends
  <2>3. CASE pc[e] = "hs"
    BY <1>1, <1>2, <2>1, <2>2, <2>3, LimitValues, SerBaudRoom
  <2>4. CASE pc[e] = "str"
    BY <1>1, <1>2, <2>1, <2>2, <2>4, LimitValues, SerBaudRoom
  <2>5. CASE pc[e] = "tak"
    BY <1>1, <1>2, <2>1, <2>2, <2>5, LimitValues, SerBaudRoom
  <2>6. CASE pc[e] = "last"
    BY <1>1, <1>2, <2>1, <2>2, <2>6, LimitValues, SerBaudRoom
  <2>7. CASE pc[e] = "rhs"
    BY <1>1, <1>2, <2>1, <2>2, <2>7, LimitValues, SerBaudRoom
  <2>8. CASE pc[e] = "check"
    BY <1>1, <1>2, <2>1, <2>2, <2>8, LimitValues, SerBaudRoom
  <2>9. CASE pc[e] = "ack"
    BY <1>1, <1>2, <2>1, <2>2, <2>9, LimitValues, SerBaudRoom
  <2>10. QED
    BY <1>4, <2>3, <2>4, <2>5, <2>6, <2>7, <2>8, <2>9 DEF Testing
<1>5. QED
  BY <1>3, <1>4

LEMMA FailDue ==
  ASSUME TypeInv, Due, NEW e \in End, pc[e] \in {"hi"} \cup Testing, Fail(e), UNCHANGED fixed
  PROVE  OnTime' /\ DueAt(e)'
<1>1. PICK p \in End : p # e
  BY Ends
<1>2. /\ Aside(p) /\ late' = late
      /\ \/ /\ pc'[e] = "sync" /\ zero'[e] = zero[e] /\ sp'[e] = next[e] /\ next'[e] = next[e] + Base
         \/ pc'[e] = "done"
  BY <1>1, Failed
<1>3. now <= zero[e] + next[e]
  BY BeforeNext DEF Due
<1>4. OnTime'
  BY <1>2 DEF Due, OnTime
<1>5. ASSUME pc'[e] = "sync" PROVE DueAt(e)'
  <2>1. pc'[e] \notin {"slop", "hi"} \cup Testing
    BY <1>5 DEF Testing
  <2>2. now' <= zero'[e] + sp'[e] /\ next'[e] = sp'[e] + Base
    BY <1>2, <1>3, <1>5 DEF Aside
  <2>3. QED
    BY <2>1, <2>2 DEF DueAt, Mark
<1>6. ASSUME pc'[e] = "done" PROVE DueAt(e)'
  BY <1>6 DEF DueAt, Testing
<1>7. QED
  BY <1>2, <1>4, <1>5, <1>6

\* A step that begins a wait of n ticks.
LEMMA WaitsDue ==
  ASSUME TypeInv, NEW e \in End, NEW n \in Nat, NEW l \in {"slop", "hi"} \cup Testing,
         pc'[e] = l, deadline'[e] = now + n, now' = now,
         idx'[e] = idx[e], zero'[e] = zero[e], sp'[e] = sp[e],
         now + n <= Mark(e) + Limit(e, l, idx[e]),
         next'[e] = sp[e] + IF l \in Testing THEN Base + TestTime(idx[e]) ELSE Base
  PROVE  DueAt(e)'
<1>1. now \in Nat /\ n \in Nat /\ Base \in Nat /\ TestTime(idx[e]) \in Nat /\ sp[e] \in Nat
  BY Places, LimitFacts
<1>2. now <= now + n /\ now <= now + n + 1 /\ now <= now + n + 0 /\ l # "sync"
  BY <1>1 DEF Testing
<1>3. deadline'[e] <= Mark(e)' + Limit(e, pc'[e], idx'[e])
  BY DEF Mark
<1>4. now' <= deadline'[e] + IF pc'[e] = "hs" THEN 1 ELSE 0
  BY <1>1, <1>2
<1>5. pc'[e] \in {"sync", "slop", "hi"} => next'[e] = sp'[e] + Base
  BY <1>1, <1>2 DEF Testing
<1>6. pc'[e] \in Testing => next'[e] = sp'[e] + Base + TestTime(idx'[e])
  BY <1>1
<1>7. QED
  BY <1>2, <1>3, <1>4, <1>5, <1>6 DEF DueAt

\* A step that begins no wait which must end in time.
LEMMA IdleDue ==
  ASSUME NEW e \in End, pc'[e] \notin {"sync", "slop", "hi"} \cup Testing
  PROVE  DueAt(e)'
BY DEF DueAt

\* A step that changes nothing but the line.
LEMMA StillDue ==
  ASSUME NEW e \in End, DueAt(e), UNCHANGED <<now, pc, deadline, table>>
  PROVE  DueAt(e)'
BY DEF DueAt, Mark, table

LEMMA MarchDue ==
  ASSUME TypeInv, Due, NEW e \in End, MarchRead(e) \/ StartSpeed(e) \/ AtSync(e)
  PROVE  OnTime' /\ DueAt(e)'
<1>0. PICK p \in End : p # e
  BY Ends
<1>1. CASE MarchRead(e)
  <2>1. PICK l \in {"hold", "done"}, n \in {0, 1} : Goto(e, l, n) /\ UNCHANGED <<fixed, table>>
    BY <1>1 DEF MarchRead, NoMarch
  <2>2. pc'[e] = l
    BY <1>0, <2>1, GoneTo
  <2>3. pc'[e] \notin {"sync", "slop", "hi"} \cup Testing
    BY <2>2 DEF Testing
  <2>4. OnTime'
    BY <2>1 DEF Due, OnTime, table
  <2>5. QED
    BY <2>3, <2>4, IdleDue
<1>2. CASE StartSpeed(e)
  <2>1. /\ pc'[e] = "sync" /\ zero'[e] = now /\ sp'[e] = BaudSet /\ next'[e] = BaudSet + Base
        /\ late' = late /\ Aside(p)
    BY <1>0, <1>2, StartMoves
  <2>2. now \in Nat /\ BaudSet \in Nat /\ now <= now + BaudSet
    BY Places, LimitFacts
  <2>3. OnTime'
    BY <2>1 DEF Due, OnTime
  <2>4. DueAt(e)'
    BY <2>1, <2>2 DEF DueAt, Mark, Aside, Testing
  <2>5. QED
    BY <2>3, <2>4
<1>3. CASE AtSync(e)
  <2>1. /\ pc[e] = "sync" /\ pc'[e] = "slop" /\ idx'[e] = idx[e] /\ deadline'[e] = now + Slop
        /\ zero'[e] = zero[e] /\ sp'[e] = sp[e] /\ next'[e] = next[e] /\ Aside(p)
    BY <1>0, <1>3, SyncMoves
  <2>2. now \in Nat /\ zero[e] \in Nat /\ sp[e] \in Nat /\ Slop \in Nat
    BY Places, LimitFacts
  <2>3. now - zero[e] >= sp[e] /\ (late' = (late \/ now - zero[e] > sp[e]))
    BY <1>3 DEF AtSync, Clock
  <2>4. now <= zero[e] + sp[e] /\ next[e] = sp[e] + Base
    BY <2>1 DEF Due, DueAt, Mark
  <2>5. ~(now - zero[e] > sp[e]) /\ now = zero[e] + sp[e]
    BY <2>2, <2>3, <2>4
  <2>6. OnTime'
    BY <2>3, <2>5 DEF Due, OnTime
  <2>7. now + Slop <= Mark(e) + Limit(e, "slop", idx[e])
    BY <2>2, <2>5, LimitValues DEF Mark
  <2>8. now' = now /\ "slop" \notin Testing
    BY <2>1 DEF Aside, Testing
  <2>9. DueAt(e)'
    BY <2>1, <2>2, <2>4, <2>7, <2>8, WaitsDue
  <2>10. QED
    BY <2>6, <2>9
<1>4. QED
  BY <1>1, <1>2, <1>3

LEMMA HiDue ==
  ASSUME TypeInv, Due, NEW e \in End, SendHi(e) \/ HiRead(e)
  PROVE  OnTime' /\ DueAt(e)'
<1>0. PICK p \in End : p # e
  BY Ends
<1>1. /\ now \in Nat /\ zero[e] \in Nat /\ deadline[e] \in Nat /\ sp[e] \in Nat /\ next[e] \in Nat
      /\ idx[e] \in Rate /\ Slop \in Nat /\ 2 * Slop \in Nat /\ TimeOut \in Nat
      /\ TestTime(idx[e]) \in Nat /\ Base \in Nat
  BY Places, LimitFacts
<1>2. CASE SendHi(e)
  <2>1. /\ pc[e] = "slop" /\ now >= deadline[e] /\ Goto(e, "hi", 2 * Slop) /\ UNCHANGED <<fixed, table>>
    BY <1>2 DEF SendHi
  <2>2. /\ pc'[e] = "hi" /\ deadline'[e] = now + 2 * Slop /\ Aside(p)
        /\ idx'[e] = idx[e] /\ zero'[e] = zero[e] /\ sp'[e] = sp[e] /\ next'[e] = next[e]
    BY <1>0, <2>1, GoneTo
  <2>3. /\ deadline[e] <= zero[e] + sp[e] + Slop /\ now <= deadline[e] + 0 /\ next[e] = sp[e] + Base
    BY <2>1, LimitValues DEF Due, DueAt, Mark
  <2>4. now + 2 * Slop <= Mark(e) + Limit(e, "hi", idx[e])
    BY <1>1, <2>3, LimitValues DEF Mark
  <2>5. now' = now /\ "hi" \notin Testing
    BY <2>2 DEF Aside, Testing
  <2>6. DueAt(e)'
    BY <1>1, <2>2, <2>3, <2>4, <2>5, WaitsDue
  <2>7. OnTime'
    BY <2>1 DEF Due, OnTime, table
  <2>8. QED
    BY <2>6, <2>7
<1>3. CASE HiRead(e)
  <2>1. pc[e] = "hi" /\ UNCHANGED fixed
    BY <1>3 DEF HiRead, Gets
  <2>2. CASE Heard(e) # "HI"
    BY <1>3, <2>1, <2>2, FailDue DEF HiRead
  <2>3. CASE Heard(e) = "HI"
    <3>1. /\ pc'[e] = (IF e = "client" THEN "hs" ELSE "rhs") /\ deadline'[e] = now + TimeOut
          /\ idx'[e] = idx[e] /\ zero'[e] = zero[e] /\ sp'[e] = sp[e] /\ late' = late
          /\ next'[e] = next[e] + TestTime(idx[e]) /\ Aside(p)
      BY <1>0, <1>3, <2>3, GreetedMoves
    <3>2. /\ deadline[e] <= zero[e] + sp[e] + 3 * Slop /\ now <= deadline[e] + 0 /\ next[e] = sp[e] + Base
      BY <2>1, LimitValues DEF Due, DueAt, Mark
    <3>3. now + TimeOut <= Mark(e) + Limit(e, pc'[e], idx[e])
      <4>1. Opens("client", idx[e]) = 3 * Slop /\ Receives("server", idx[e]) = 3 * Slop
        BY <1>1, TurnValues
      <4>2. Limit(e, pc'[e], idx[e]) = 3 * Slop + TimeOut
        BY <3>1, <4>1, Ends, LimitValues
      <4>3. QED
        BY <1>1, <3>2, <4>2 DEF Mark
    <3>4. /\ now' = now /\ pc'[e] \in Testing
          /\ next'[e] = sp[e] + (IF pc'[e] \in Testing THEN Base + TestTime(idx[e]) ELSE Base)
      BY <1>1, <3>1, <3>2 DEF Aside, Testing
    <3>5. DueAt(e)'
      BY <1>1, <3>1, <3>3, <3>4, WaitsDue
    <3>6. OnTime'
      BY <3>1 DEF Due, OnTime
    <3>7. QED
      BY <3>5, <3>6
  <2>4. QED
    BY <2>2, <2>3
<1>4. QED
  BY <1>2, <1>3

\* A step of the test to another wait, which begins in time.
LEMMA TestDue ==
  ASSUME TypeInv, Due, NEW e \in End, NEW n \in Nat, NEW l \in Testing, pc[e] \in Testing,
         Goto(e, l, n), UNCHANGED <<fixed, table>>,
         now + n <= zero[e] + sp[e] + Limit(e, l, idx[e])
  PROVE  OnTime' /\ DueAt(e)'
<1>0. PICK p \in End : p # e
  BY Ends
<1>1. /\ pc'[e] = l /\ deadline'[e] = now + n /\ Aside(p)
      /\ idx'[e] = idx[e] /\ zero'[e] = zero[e] /\ sp'[e] = sp[e] /\ next'[e] = next[e]
  BY <1>0, GoneTo
<1>2. next[e] = sp[e] + Base + TestTime(idx[e])
  BY DEF Due, DueAt
<1>3. sp[e] \in Nat /\ Base \in Nat /\ TestTime(idx[e]) \in Nat
  BY Places, LimitFacts
<1>4. now' = now /\ next'[e] = sp[e] + IF l \in Testing THEN Base + TestTime(idx[e]) ELSE Base
  BY <1>1, <1>2, <1>3 DEF Aside
<1>5. now + n <= Mark(e) + Limit(e, l, idx[e])
  BY DEF Mark
<1>6. DueAt(e)'
  BY <1>1, <1>4, <1>5, WaitsDue
<1>7. OnTime'
  BY DEF Due, OnTime, table
<1>8. QED
  BY <1>6, <1>7

\* What an end that waits for an answer hears is an echo.
LEMMA HeardEcho ==
  ASSUME TypeInv, MeetInv, NEW e \in End, pc[e] \in {"hs", "tak"}, Hears(e, {"ACK", "TAK"})
  PROVE  now + TimeOut <= deadline[e] + 2
<1>1. PICK p \in End : p # e
  BY Ends
<1>2. PICK t \in At(e) : t.rate = idx[e] /\ t.sym \in {"ACK", "TAK"}
  BY DEF Hears
<1>3. now + TimeOut <= deadline[e] + IF t.old THEN 2 ELSE 1
  BY <1>1, <1>2 DEF MeetInv, Echo
<1>4. now \in Nat /\ TimeOut \in Nat /\ deadline[e] \in Nat
  BY Places, LimitFacts
<1>5. QED
  BY <1>3, <1>4

LEMMA SenderDue ==
  ASSUME TypeInv, MeetInv, Due, NEW e \in End, HandshakeRead(e) \/ StrEnd(e) \/ TakRead(e)
  PROVE  OnTime' /\ DueAt(e)'
<1>1. /\ now \in Nat /\ zero[e] \in Nat /\ deadline[e] \in Nat /\ sp[e] \in Nat /\ idx[e] \in Rate
      /\ StrTicks(idx[e]) \in Nat /\ TimeOut \in Nat /\ HalfSec \in Nat /\ Opens(e, idx[e]) \in Nat
  BY Places, LimitFacts, TurnValues
<1>2. pc[e] \in {"hs", "str", "tak"} /\ pc[e] \in Testing
  BY DEF HandshakeRead, StrEnd, TakRead, Gets, Testing
<1>3. /\ deadline[e] <= zero[e] + sp[e] + Limit(e, pc[e], idx[e])
      /\ now <= deadline[e] + IF pc[e] = "hs" THEN 1 ELSE 0
  BY <1>2 DEF Due, DueAt, Mark
<1>4. ASSUME UNCHANGED <<now, pc, deadline, table>> PROVE OnTime' /\ DueAt(e)'
  <2>1. DueAt(e)'
    BY <1>4, StillDue DEF Due
  <2>2. OnTime'
    BY <1>4 DEF Due, OnTime, table
  <2>3. QED
    BY <2>1, <2>2
<1>5. CASE HandshakeRead(e)
  <2>1. pc[e] = "hs" /\ Gets(e, pc[e]) /\ UNCHANGED <<fixed, table>> /\ Begun(e) /\ pc[e] # "done"
    BY <1>5 DEF HandshakeRead, Gets, Begun
  <2>2. CASE Heard(e) = "ACK"
    <3>1. Goto(e, "str", StrTicks(idx[e])) /\ "str" \in Testing
      BY <1>5, <2>2 DEF HandshakeRead, Testing
    <3>2. Hears(e, {"ACK", "TAK"})
      BY <2>1, <2>2, Hearing
    <3>3. now + TimeOut <= deadline[e] + 2
      BY <2>1, <3>2, HeardEcho
    <3>4. now + StrTicks(idx[e]) <= zero[e] + sp[e] + Limit(e, "str", idx[e])
      BY <1>1, <1>3, <2>1, <3>3, LimitValues
    <3>5. QED
      BY <1>1, <1>2, <2>1, <3>1, <3>4, TestDue
  <2>3. CASE Heard(e) # "ACK"
    BY <1>4, <1>5, <2>3 DEF HandshakeRead, fixed
  <2>4. QED
    BY <2>2, <2>3
<1>6. CASE StrEnd(e)
  <2>1. /\ pc[e] = "str" /\ Goto(e, "tak", TimeOut) /\ UNCHANGED <<fixed, table>> /\ "tak" \in Testing
    BY <1>6 DEF StrEnd, Testing
  <2>2. now + TimeOut <= zero[e] + sp[e] + Limit(e, "tak", idx[e])
    BY <1>1, <1>3, <2>1, LimitValues
  <2>3. QED
    BY <1>1, <1>2, <2>1, <2>2, TestDue
<1>7. CASE TakRead(e)
  <2>1. pc[e] = "tak" /\ Gets(e, pc[e]) /\ UNCHANGED fixed /\ Begun(e) /\ pc[e] # "done"
    BY <1>7 DEF TakRead, Gets, Begun
  <2>2. CASE Heard(e) = "TAK"
    <3>1. Goto(e, "last", HalfSec) /\ UNCHANGED table /\ "last" \in Testing
      BY <1>7, <2>2 DEF TakRead, AfterAck, Testing
    <3>2. Hears(e, {"ACK", "TAK"})
      BY <2>1, <2>2, Hearing
    <3>3. now + TimeOut <= deadline[e] + 2
      BY <2>1, <3>2, HeardEcho
    <3>4. now + HalfSec <= zero[e] + sp[e] + Limit(e, "last", idx[e])
      BY <1>1, <1>3, <2>1, <3>3, LimitValues
    <3>5. QED
      BY <1>1, <1>2, <2>1, <3>1, <3>4, TestDue
  <2>3. CASE Heard(e) # "TAK"
    BY <1>4, <1>7, <2>3 DEF TakRead, fixed
  <2>4. QED
    BY <2>2, <2>3
<1>8. QED
  BY <1>5, <1>6, <1>7

\* An end that has settled waits for nothing more.
LEMMA SuccessDue ==
  ASSUME TypeInv, Due, NEW e \in End, Success(e), UNCHANGED fixed
  PROVE  OnTime' /\ DueAt(e)'
<1>1. PICK p \in End : p # e
  BY Ends
<1>2. pc'[e] = "done"
  BY <1>1, Succeeded
<1>3. DueAt(e)'
  BY <1>2, IdleDue DEF Testing
<1>4. OnTime'
  BY DEF Success, Due, OnTime
<1>5. QED
  BY <1>3, <1>4

LEMMA ReceiverDue ==
  ASSUME TypeInv, MeetInv, Due, NEW e \in End,
         LastRead(e) \/ ReceiverRead(e) \/ CheckRead(e) \/ AckRead(e)
  PROVE  OnTime' /\ DueAt(e)'
<1>1. /\ now \in Nat /\ zero[e] \in Nat /\ deadline[e] \in Nat /\ sp[e] \in Nat /\ idx[e] \in Rate
      /\ StrTicks(idx[e]) \in Nat /\ TimeOut \in Nat /\ HalfSec \in Nat /\ ByteWait \in Nat
      /\ Opens(e, idx[e]) \in Nat /\ Receives(e, idx[e]) \in Nat /\ Slop \in Nat
  BY Places, LimitFacts, TurnValues
<1>2. pc[e] \in {"last", "rhs", "check", "ack"} /\ pc[e] \in Testing /\ UNCHANGED fixed
  BY DEF LastRead, ReceiverRead, CheckRead, AckRead, Gets, Testing
<1>3. deadline[e] <= zero[e] + sp[e] + Limit(e, pc[e], idx[e]) /\ now <= deadline[e] + 0
  BY <1>2 DEF Due, DueAt, Mark
<1>4. CASE LastRead(e)
  <2>1. pc[e] = "last"
    BY <1>4 DEF LastRead, Gets
  <2>2. CASE Heard(e) # "TAK"
    BY <1>2, <1>4, <2>2, FailDue DEF LastRead
  <2>3. CASE Heard(e) = "TAK" /\ e = "client"
    <3>1. Goto(e, "rhs", TimeOut) /\ UNCHANGED table /\ "rhs" \in Testing
      BY <1>4, <2>3 DEF LastRead, StartReceive, Testing
    <3>2. /\ Opens(e, idx[e]) = 3 * Slop
          /\ Receives(e, idx[e]) = 3 * Slop + 4 + StrTicks(idx[e]) + HalfSec
      BY <1>1, <2>3, TurnValues
    <3>3. now + TimeOut <= zero[e] + sp[e] + Limit(e, "rhs", idx[e])
      BY <1>1, <1>3, <2>1, <3>2, LimitValues
    <3>4. QED
      BY <1>1, <1>2, <3>1, <3>3, TestDue
  <2>4. CASE Heard(e) = "TAK" /\ e # "client"
    BY <1>2, <1>4, <2>4, SuccessDue DEF LastRead
  <2>5. QED
    BY <2>2, <2>3, <2>4
<1>5. CASE ReceiverRead(e)
  <2>1. pc[e] = "rhs" /\ UNCHANGED table
    BY <1>5 DEF ReceiverRead, Gets
  <2>2. CASE Heard(e) = "SYNC_END"
    <3>1. /\ Goto(e, "check", StrTicks(idx[e]) + ByteWait) /\ "check" \in Testing
          /\ StrTicks(idx[e]) + ByteWait \in Nat
      BY <1>1, <1>5, <2>2 DEF ReceiverRead, Testing
    <3>2. now + (StrTicks(idx[e]) + ByteWait) <= zero[e] + sp[e] + Limit(e, "check", idx[e])
      BY <1>1, <1>3, <2>1, LimitValues
    <3>3. QED
      BY <1>2, <2>1, <3>1, <3>2, TestDue
  <2>3. CASE Heard(e) # "SYNC_END"
    <3>1. UNCHANGED <<now, pc, deadline, table>>
      BY <1>2, <1>5, <2>1, <2>3 DEF ReceiverRead, fixed
    <3>2. DueAt(e)'
      BY <3>1, StillDue DEF Due
    <3>3. OnTime'
      BY <3>1 DEF Due, OnTime, table
    <3>4. QED
      BY <3>2, <3>3
  <2>4. QED
    BY <2>2, <2>3
<1>6. CASE CheckRead(e)
  <2>1. pc[e] = "check"
    BY <1>6 DEF CheckRead, Gets
  <2>2. CASE Heard(e) = "STR"
    <3>1. Goto(e, "ack", HalfSec) /\ UNCHANGED table /\ "ack" \in Testing
      BY <1>6, <2>2 DEF CheckRead, Testing
    <3>2. now + HalfSec <= zero[e] + sp[e] + Limit(e, "ack", idx[e])
      BY <1>1, <1>3, <2>1, LimitValues
    <3>3. QED
      BY <1>1, <1>2, <3>1, <3>2, TestDue
  <2>3. CASE Heard(e) # "STR"
    BY <1>2, <1>6, <2>3, FailDue DEF CheckRead
  <2>4. QED
    BY <2>2, <2>3
<1>7. CASE AckRead(e)
  <2>1. pc[e] = "ack"
    BY <1>7 DEF AckRead, Gets
  <2>2. CASE Heard(e) # "ACK"
    BY <1>2, <1>7, <2>2, FailDue DEF AckRead
  <2>3. CASE Heard(e) = "ACK" /\ e = "client"
    BY <1>2, <1>7, <2>3, SuccessDue DEF AckRead
  <2>4. CASE Heard(e) = "ACK" /\ e # "client"
    <3>1. Goto(e, "hs", TimeOut) /\ UNCHANGED table /\ "hs" \in Testing
      BY <1>7, <2>4 DEF AckRead, Testing
    <3>2. /\ e = "server" /\ Receives(e, idx[e]) = 3 * Slop
          /\ Opens(e, idx[e]) = 3 * Slop + TimeOut + StrTicks(idx[e]) + ByteWait + HalfSec
      BY <1>1, <2>4, TurnValues, Ends
    <3>3. now + TimeOut <= zero[e] + sp[e] + Limit(e, "hs", idx[e])
      BY <1>1, <1>3, <2>1, <3>2, LimitValues
    <3>4. QED
      BY <1>1, <1>2, <3>1, <3>3, TestDue
  <2>5. QED
    BY <2>2, <2>3, <2>4
<1>8. QED
  BY <1>4, <1>5, <1>6, <1>7

LEMMA GivesUpDue ==
  ASSUME TypeInv, Due, NEW e \in End, GivesUp(e)
  PROVE  OnTime' /\ DueAt(e)'
<1>1. PICK p \in End : p # e
  BY Ends
<1>2. pc[e] \in Reading /\ UNCHANGED fixed
  BY DEF GivesUp
<1>3. CASE pc[e] \in {"lok", "lokack"}
  <2>1. Goto(e, "done", 0) /\ UNCHANGED table
    BY <1>3 DEF GivesUp, NoMarch
  <2>2. pc'[e] = "done"
    BY <1>1, <1>2, <2>1, GoneTo
  <2>3. DueAt(e)'
    BY <2>2, IdleDue DEF Testing
  <2>4. OnTime'
    BY <2>1 DEF Due, OnTime, table
  <2>5. QED
    BY <2>3, <2>4
<1>4. CASE pc[e] \notin {"lok", "lokack"}
  <2>1. Fail(e) /\ pc[e] \in {"hi"} \cup Testing
    BY <1>2, <1>4 DEF GivesUp, Reading, Testing
  <2>2. QED
    BY <1>2, <2>1, FailDue
<1>5. QED
  BY <1>3, <1>4

LEMMA TickDue ==
  ASSUME TypeInv, Due, Tick
  PROVE  Due'
<1>1. now' = now + 1 /\ UNCHANGED <<pc, deadline, table>>
  BY DEF Tick
<1>2. OnTime'
  BY <1>1 DEF Due, OnTime, table
<1>3. ASSUME NEW e \in End PROVE DueAt(e)'
  <2>1. /\ now \in Nat /\ zero[e] \in Nat /\ deadline[e] \in Nat /\ sp[e] \in Nat /\ ~Busy(e) /\ DueAt(e)
    BY Places DEF Tick, Due
  <2>2. pc[e] = "sync" => now + 1 <= Mark(e)
    <3>1. pc[e] = "sync" => ~(now - zero[e] >= sp[e])
      BY <2>1 DEF Busy, Clock
    <3>2. QED
      BY <2>1, <3>1 DEF Mark
  <2>3. pc[e] \in {"slop", "hi"} \cup Testing => now + 1 <= deadline[e] + IF pc[e] = "hs" THEN 1 ELSE 0
    <3>1. SUFFICES ASSUME pc[e] \in {"slop", "hi"} \cup Testing
                   PROVE  now + 1 <= deadline[e] + IF pc[e] = "hs" THEN 1 ELSE 0
      OBVIOUS
    <3>2. ~Over(e)
      BY <2>1, <3>1 DEF Busy, Reading, Testing
    <3>3. QED
      BY <2>1, <3>2 DEF Over
  <2>4. QED
    BY <1>1, <2>1, <2>2, <2>3 DEF DueAt, Mark, table
<1>4. QED
  BY <1>2, <1>3 DEF Due

LEMMA DueInit == Init => Due
<1> SUFFICES ASSUME Init PROVE Due
  OBVIOUS
<1>1. \A e \in End : pc[e] \in {"lok", "march"}
  BY DEF Init
<1>2. late = FALSE
  BY DEF Init
<1>3. \A e \in End : DueAt(e)
  BY <1>1 DEF DueAt, Testing
<1>4. QED
  BY <1>2, <1>3 DEF Due, OnTime

LEMMA DueNext == TypeInv /\ MeetInv /\ Due /\ [Next]_vars => Due'
<1> SUFFICES ASSUME TypeInv, MeetInv, Due, [Next]_vars PROVE Due'
  OBVIOUS
<1>1. CASE SendLok
  <2>1. Behaves("server", "client") /\ "server" \in End /\ "client" \in End
    BY <1>1, Ends, LokBehaves
  <2>2. DueAt("client")'
    BY <2>1, DueStays DEF Behaves, Due
  <2>3. pc'["server"] = "lokack"
    BY <1>1, <2>1 DEF SendLok, Goto, TypeInv, Walk
  <2>4. DueAt("server")'
    BY <2>1, <2>3, IdleDue DEF Testing
  <2>5. OnTime'
    BY <1>1 DEF SendLok, table, Due, OnTime
  <2>6. QED
    BY <2>2, <2>4, <2>5, Ends DEF Due
<1>2. CASE Tick
  BY <1>2, TickDue
<1>3. CASE UNCHANGED vars
  <2>1. UNCHANGED <<now, pc, deadline, table>>
    BY <1>3 DEF vars, table
  <2>2. \A e \in End : DueAt(e)'
    BY <2>1, StillDue DEF Due
  <2>3. OnTime'
    BY <2>1 DEF Due, OnTime, table
  <2>4. QED
    BY <2>2, <2>3 DEF Due
<1>4. ASSUME NEW e \in End, Step(e)
      PROVE  Due'
  <2>1. PICK p \in End : p # e
    BY Ends
  <2>2. Behaves(e, p)
    BY <1>4, <2>1, StepBehaves
  <2>3. DueAt(p)'
    BY <2>1, <2>2, DueStays DEF Behaves, Due
  <2>4. OnTime' /\ DueAt(e)'
    BY <1>4, MarchDue, HiDue, SenderDue, ReceiverDue, GivesUpDue DEF Step
  <2>5. QED
    BY <2>1, <2>3, <2>4, Ends DEF Due
<1>5. QED
  BY <1>1, <1>2, <1>3, <1>4 DEF Next, Returned

(***************************************************************************)
(* The theorems                                                            *)
(***************************************************************************)
LEMMA TypesImplied == TypeInv => TypeOK
<1> SUFFICES ASSUME TypeInv PROVE TypeOK
  OBVIOUS
<1>1. \A e \in End : pc[e] \in {"sync", "slop", "hi"} => rate[e] = idx[e]
  BY DEF TypeInv, Tabled, Begun
<1>2. QED
  BY <1>1 DEF TypeInv, TypeOK, Walk, Token

LEMMA BaudInvariant == Spec => [](TypeInv /\ TakInv)
<1>1. Init => TypeInv /\ TakInv
  BY TypeInit, TakInit
<1>2. TypeInv /\ TakInv /\ [Next]_vars => (TypeInv /\ TakInv)'
  BY TypeNext, TakNext
<1>3. QED
  BY <1>1, <1>2, PTL DEF Spec

\* Speed walks down BaudTable and never beyond it, the rate that it has set is the one
\* that BaudCounter names, and every wait and sync point of it is a number.
THEOREM BaudTypeCorrect == Spec => []TypeOK
<1>1. TypeInv /\ TakInv => TypeOK
  BY TypesImplied
<1>2. QED
  BY <1>1, BaudInvariant, PTL

\* A server whose Speed returns true talks at the rate that the client has taken:
\* SetBaudSender does not return true before the TAK that SetBaudReceiver sends as the
\* last thing it does, and no TAK of an earlier string or rate is taken for it, at
\* whatever rates the line garbles and however long the waits are.
THEOREM ServerKnowsCorrect == Spec => []ServerKnows
<1>1. TypeInv /\ TakInv => ServerKnows
  BY DEF TakInv
<1>2. QED
  BY <1>1, BaudInvariant, PTL

\* SyncPoint never finds that its time has passed: whatever the test of a rate comes to,
\* and at whatever rates the line garbles, it ends before the next sync point, when the
\* limits of its waits leave room for them.
THEOREM OnTimeCorrect == Spec => []OnTime
<1>1. Init => TypeInv /\ MeetInv /\ Due
  BY TypeInit, MeetInit, DueInit
<1>2. TypeInv /\ MeetInv /\ Due /\ [Next]_vars => (TypeInv /\ MeetInv /\ Due)'
  BY TypeNext, MeetNext, DueNext
<1>3. TypeInv /\ MeetInv /\ Due => OnTime
  BY DEF Due
<1>4. QED
  BY <1>1, <1>2, <1>3, PTL DEF Spec

(***************************************************************************)
(* A clean rate is taken by both ends or by none                           *)
(*                                                                         *)
(* The client takes a rate when it hears ACK after it has said TAK.  That  *)
(* ACK is the server's answer to this TAK and no earlier one, because the  *)
(* client has heard the server's string and an ACK behind that answers it; *)
(* so the server waits in "last", has nothing left to read, and the TAK    *)
(* that the client says as the last thing reaches it in time.              *)
(***************************************************************************)
\* Where symbol s of rate r is under way to end e.
Spots(e, s, r) == {k \in 1 .. Len(chan[e]) : chan[e][k].sym = s /\ chan[e][k].rate = r}
Age(e, k) == IF chan[e][k].old THEN 1 ELSE 0
\* The server has sent its string at rate r.
PastStr(r) == idx["server"] > r \/ (idx["server"] = r /\ pc["server"] \in {"tak", "last", "done"})

\* The client has said TAK at rate r, and waits for ACK.
Awaiting(r) ==
  /\ PastStr(r)
  /\ \A k \in Spots("server", "TAK", r) : k = Len(chan["server"])
  /\ Took(r) => chan["server"] = <<>>
  /\ \A k \in Spots("client", "ACK", r) : Took(r) /\ now + HalfSec <= deadline["server"] + Age("client", k)

\* The client has taken rate r, and the server knows or will: its TAK is all there is.
Known(r) ==
  \/ ok["server"]
  \/ /\ Took(r) /\ Len(chan["server"]) = 1 /\ Spots("server", "TAK", r) = {1}
     /\ now + HalfSec <= deadline["server"] + 1 + Age("server", 1)

AloneInv ==
  /\ \A r \in Rate : Spots("client", "STR", r) # {} => PastStr(r)
  /\ \A r \in Rate : \A k \in Spots("client", "STR", r), l \in Spots("client", "ACK", r) : k < l => Said(r)
  /\ pc["client"] = "ack" => Awaiting(idx["client"])
  /\ ok["client"] /\ idx["client"] \in clean => Known(idx["client"])

\* What was under way to end e is there still, but for what it has read or thrown away;
\* and what end e sends is made of S and comes behind the rest.
Drops(e) ==
  \/ chan'[e] = <<>>
  \/ \E n \in {0, 1} : /\ Len(chan'[e]) = Len(chan[e]) - n
                       /\ \A k \in 1 .. Len(chan'[e]) : k + n \in 1 .. Len(chan[e]) /\ chan'[e][k] = chan[e][k + n]
Adds(e, p, S) ==
  /\ \A k \in 1 .. Len(chan[p]) : k \in 1 .. Len(chan'[p]) /\ chan'[p][k] = chan[p][k]
  /\ \A k \in 1 .. Len(chan'[p]) : k \notin 1 .. Len(chan[p]) =>
       k > Len(chan[p]) /\ chan'[p][k].rate = rate[e] /\ chan'[p][k].old = FALSE /\ chan'[p][k].sym \in S \cup {"JUNK"}

LEMMA SendMoves ==
  ASSUME TypeInv, NEW e \in End, NEW p \in End, p # e, NEW s \in Message, NEW n \in {0, 1},
         n = 1 => chan[e] # <<>>, SendRead(e, s, n), NEW S, Made(s, S)
  PROVE  Drops(e) /\ Adds(e, p, S)
<1>1. /\ chan \in [End -> Seq(Token)] /\ rate \in [End -> Rate] /\ s \in Seq(Symbol)
      /\ Len(chan[e]) \in Nat /\ Len(chan[p]) \in Nat /\ Len(s) \in Nat
  BY Messages, LenProperties DEF TypeInv, Walk
<1>2. n \in Nat /\ n <= Len(chan[e])
  BY <1>1, EmptySeq, LenProperties
<1>3. Sent(e, p, s, n)
  BY <1>1, <1>2, SendFacts
<1>4. Drops(e)
  BY <1>1, <1>2, <1>3 DEF Sent, Drops
<1>5. Len(chan'[p]) = Len(chan[p]) + Len(s)
  BY <1>3 DEF Sent
<1>6. \A k \in 1 .. Len(chan[p]) : k \in 1 .. Len(chan'[p]) /\ chan'[p][k] = chan[p][k]
  BY <1>1, <1>3, <1>5 DEF Sent
<1>7. ASSUME NEW k \in 1 .. Len(chan'[p]), k \notin 1 .. Len(chan[p])
      PROVE  k > Len(chan[p]) /\ chan'[p][k].rate = rate[e] /\ chan'[p][k].old = FALSE
             /\ chan'[p][k].sym \in S \cup {"JUNK"}
  <2>0. k > Len(chan[p])
    BY <1>1, <1>7
  <2>1. k - Len(chan[p]) \in 1 .. Len(s) /\ Len(chan[p]) + (k - Len(chan[p])) = k
    BY <1>1, <1>5, <2>0
  <2>2. /\ chan'[p][k].sym \in {s[k - Len(chan[p])], "JUNK"}
        /\ chan'[p][k].rate = rate[e] /\ chan'[p][k].old = FALSE
    BY <1>3, <2>1 DEF Sent
  <2>3. QED
    BY <2>0, <2>1, <2>2 DEF Made
<1>8. QED
  BY <1>4, <1>6, <1>7 DEF Adds

LEMMA SilentMoves ==
  ASSUME TypeInv, NEW e \in End, NEW p \in End, p # e, chan' = chan \/ chan' = [chan EXCEPT ![e] = <<>>], NEW S
  PROVE  Drops(e) /\ Adds(e, p, S)
<1>1. chan \in [End -> Seq(Token)] /\ chan'[p] = chan[p] /\ (chan'[e] = chan[e] \/ chan'[e] = <<>>)
      /\ Len(chan[e]) \in Nat /\ Len(chan[p]) \in Nat
  BY LenProperties DEF TypeInv
<1>2. Adds(e, p, S)
  BY <1>1 DEF Adds
<1>3. ASSUME chan'[e] = chan[e], NEW n \in {0, 1}, n = 0
      PROVE  Len(chan'[e]) = Len(chan[e]) - n
             /\ \A k \in 1 .. Len(chan'[e]) : k + n \in 1 .. Len(chan[e]) /\ chan'[e][k] = chan[e][k + n]
  BY <1>1, <1>3
<1>4. QED
  BY <1>1, <1>2, <1>3 DEF Drops

\* The spots of a symbol on a line from which end e reads, and on one to which it sends.
LEMMA SpotsLeft ==
  ASSUME TypeInv, NEW e \in End, Drops(e), NEW s, NEW r
  PROVE  \E n \in {0, 1} : \A k \in Spots(e, s, r)' :
           k + n \in Spots(e, s, r) /\ Age(e, k)' = Age(e, k + n)
           /\ (k + n = Len(chan[e]) => k = Len(chan'[e]))
<1>0. Len(chan[e]) \in Nat
  BY LenProperties DEF TypeInv
<1>1. CASE chan'[e] = <<>>
  <2>1. Spots(e, s, r)' = {}
    BY <1>1 DEF Spots
  <2>2. QED
    BY <2>1
<1>2. CASE chan'[e] # <<>>
  <2>1. PICK n \in {0, 1} : /\ Len(chan'[e]) = Len(chan[e]) - n
                            /\ \A k \in 1 .. Len(chan'[e]) : k + n \in 1 .. Len(chan[e]) /\ chan'[e][k] = chan[e][k + n]
    BY <1>2 DEF Drops
  <2>2. ASSUME NEW k \in Spots(e, s, r)'
        PROVE  k + n \in Spots(e, s, r) /\ Age(e, k)' = Age(e, k + n)
               /\ (k + n = Len(chan[e]) => k = Len(chan'[e]))
    <3>1. k \in 1 .. Len(chan'[e])
      BY DEF Spots
    <3>2. QED
      BY <1>0, <2>1, <3>1 DEF Spots, Age
  <2>3. QED
    BY <2>2
<1>3. QED
  BY <1>1, <1>2

LEMMA SpotsMore ==
  ASSUME TypeInv, NEW e \in End, NEW p \in End, NEW S, Adds(e, p, S), NEW s, NEW r, NEW k \in Spots(p, s, r)'
  PROVE  \/ k \in Spots(p, s, r) /\ Age(p, k)' = Age(p, k)
         \/ k > Len(chan[p]) /\ s \in S \cup {"JUNK"} /\ r = rate[e] /\ Age(p, k)' = 0
<1>1. k \in 1 .. Len(chan'[p])
  BY DEF Spots
<1>2. CASE k \in 1 .. Len(chan[p])
  BY <1>1, <1>2 DEF Adds, Spots, Age
<1>3. CASE k \notin 1 .. Len(chan[p])
  BY <1>1, <1>3 DEF Adds, Spots, Age
<1>4. QED
  BY <1>2, <1>3

LEMMA RateValues ==
  ASSUME NEW r \in Rate
  PROVE  r \in Nat
BY SerBaudAssumption DEF Rate

\* What never ends: to be past a rate's TAK, or its string.
LEMMA SaidStays ==
  ASSUME TypeInv, TypeInv', NEW r \in Rate, Said(r),
         \/ idx'["client"] > idx["client"]
         \/ idx'["client"] = idx["client"] /\ (pc["client"] \in {"ack", "done"} => pc'["client"] \in {"ack", "done"})
  PROVE  Said(r)'
<1>1. idx["client"] \in Nat /\ idx'["client"] \in Nat /\ r \in Nat
  BY RateValues, Ends DEF TypeInv, Walk
<1>2. QED
  BY <1>1 DEF Said

Strung == {"tak", "last", "done"}
LEMMA PastStrStays ==
  ASSUME TypeInv, TypeInv', NEW r \in Rate, PastStr(r),
         \/ idx'["server"] > idx["server"]
         \/ idx'["server"] = idx["server"] /\ (pc["server"] \in Strung => pc'["server"] \in Strung)
  PROVE  PastStr(r)'
<1>1. idx["server"] \in Nat /\ idx'["server"] \in Nat /\ r \in Nat
  BY RateValues, Ends DEF TypeInv, Walk
<1>2. QED
  BY <1>1 DEF PastStr, Strung

\* The client does something else than to say TAK.
LEMMA ClientAlone ==
  ASSUME TypeInv, TypeInv', AloneInv, Aside("server"), Drops("client"), pc'["client"] # "ack", ~ok'["client"],
         \/ idx'["client"] > idx["client"]
         \/ idx'["client"] = idx["client"] /\ (pc["client"] \in {"ack", "done"} => pc'["client"] \in {"ack", "done"})
  PROVE  AloneInv'
<1>1. \A r : PastStr(r) <=> PastStr(r)'
  BY DEF PastStr, Aside
<1>2. "client" \in End
  BY Ends
<1>3. ASSUME NEW r \in Rate, Spots("client", "STR", r)' # {} PROVE PastStr(r)'
  <2>1. Spots("client", "STR", r) # {}
    BY <1>2, <1>3, SpotsLeft
  <2>2. QED
    BY <1>1, <2>1 DEF AloneInv
<1>4. ASSUME NEW r \in Rate, NEW k \in Spots("client", "STR", r)', NEW l \in Spots("client", "ACK", r)', k < l
      PROVE  Said(r)'
  <2>1. CASE chan'["client"] = <<>>
    BY <2>1 DEF Spots
  <2>2. CASE chan'["client"] # <<>>
    <3>1. PICK n \in {0, 1} :
            \A i \in 1 .. Len(chan'["client"]) : i + n \in 1 .. Len(chan["client"]) /\ chan'["client"][i] = chan["client"][i + n]
      BY <2>2 DEF Drops
    <3>2. k + n \in Spots("client", "STR", r) /\ l + n \in Spots("client", "ACK", r) /\ k \in Nat /\ l \in Nat
      BY <3>1 DEF Spots
    <3>3. k + n < l + n
      BY <1>4, <3>2
    <3>4. Said(r)
      BY <3>2, <3>3 DEF AloneInv
    <3>5. QED
      BY <3>4, SaidStays
  <2>3. QED
    BY <2>1, <2>2
<1>5. QED
  BY <1>3, <1>4 DEF AloneInv

\* The server does something else than to hear a TAK.
LEMMA ServerAlone ==
  ASSUME TypeInv, TypeInv', AloneInv, Aside("client"), UNCHANGED <<clean, ok>>, Drops("server"), pc["server"] # "done",
         pc["server"] # "last", pc'["server"] # "last",
         NEW S, Adds("server", "client", S),
         "ACK" \in S => "STR" \notin S /\ pc["server"] = "rhs" /\ rate["server"] = idx["server"],
         "STR" \in S => pc'["server"] = "tak" /\ idx'["server"] = idx["server"] /\ rate["server"] = idx["server"],
         \/ idx'["server"] > idx["server"]
         \/ idx'["server"] = idx["server"] /\ (pc["server"] \in Strung => pc'["server"] \in Strung)
  PROVE  AloneInv'
<1>1. \A r : Said(r) <=> Said(r)'
  BY DEF Said, Aside
<1>2. "client" \in End /\ "server" \in End /\ Len(chan["client"]) \in Nat /\ Len(chan["server"]) \in Nat
  BY Ends, LenProperties DEF TypeInv
<1>3. ~ok["server"] /\ \A r : ~Took(r) /\ ~Took(r)'
  BY <1>2 DEF TypeInv, Tabled, Took
<1>4. ASSUME NEW r \in Rate, NEW k \in Spots("client", "STR", r)' PROVE PastStr(r)'
  <2>1. CASE k \in Spots("client", "STR", r)
    BY <2>1, PastStrStays DEF AloneInv
  <2>2. CASE k \notin Spots("client", "STR", r)
    <3>1. "STR" \in S /\ r = rate["server"]
      BY <1>2, <2>2, SpotsMore
    <3>2. QED
      BY <3>1 DEF PastStr
  <2>3. QED
    BY <2>1, <2>2
<1>5. ASSUME NEW r \in Rate, NEW l \in Spots("client", "ACK", r)', l \notin Spots("client", "ACK", r)
      PROVE  ~PastStr(r) /\ "STR" \notin S
  <2>1. "ACK" \in S /\ r = rate["server"]
    BY <1>2, <1>5, SpotsMore
  <2>2. r \in Nat
    BY RateValues
  <2>3. QED
    BY <2>1, <2>2 DEF PastStr
<1>6. ASSUME NEW r \in Rate, NEW k \in Spots("client", "STR", r)', NEW l \in Spots("client", "ACK", r)', k < l
      PROVE  Said(r)'
  <2>0. k \in Nat /\ l \in Nat
    BY DEF Spots
  <2>1. CASE k \in Spots("client", "STR", r) /\ l \in Spots("client", "ACK", r)
    BY <1>1, <1>6, <2>1 DEF AloneInv
  <2>2. CASE k \in Spots("client", "STR", r) /\ l \notin Spots("client", "ACK", r)
    BY <1>5, <2>2 DEF AloneInv
  <2>3. CASE k \notin Spots("client", "STR", r)
    <3>1. k > Len(chan["client"]) /\ "STR" \in S
      BY <1>2, <2>3, SpotsMore
    <3>2. l \notin Spots("client", "ACK", r)
      BY <1>2, <1>6, <2>0, <3>1 DEF Spots
    <3>3. QED
      BY <1>5, <3>1, <3>2
  <2>4. QED
    BY <2>1, <2>2, <2>3
<1>7. ASSUME pc'["client"] = "ack" PROVE Awaiting(idx["client"])'
  <2>0. PICK r \in Rate : r = idx["client"]
    BY <1>2 DEF TypeInv, Walk
  <2>1. pc["client"] = "ack" /\ idx'["client"] = r /\ Awaiting(r)
    BY <1>2, <1>7, <2>0 DEF Aside, AloneInv
  <2>2. PastStr(r)'
    BY <2>1, PastStrStays DEF Awaiting
  <2>3. ASSUME NEW k \in Spots("server", "TAK", r)' PROVE k = Len(chan'["server"])
    <3>1. PICK n \in {0, 1} : \A i \in Spots("server", "TAK", r)' :
             i + n \in Spots("server", "TAK", r) /\ (i + n = Len(chan["server"]) => i = Len(chan'["server"]))
      BY <1>2, SpotsLeft
    <3>2. QED
      BY <2>1, <2>3, <3>1 DEF Awaiting
  <2>4. Spots("client", "ACK", r)' = {}
    <3>1. SUFFICES ASSUME NEW l \in Spots("client", "ACK", r)' PROVE FALSE
      OBVIOUS
    <3>2. l \notin Spots("client", "ACK", r)
      BY <1>3, <2>1 DEF Awaiting
    <3>3. ~PastStr(r)
      BY <1>5, <2>1, <3>2
    <3>4. QED
      BY <2>1, <3>3 DEF Awaiting
  <2>5. Awaiting(r)'
    BY <1>3, <2>2, <2>3, <2>4 DEF Awaiting
  <2>6. QED
    BY <2>1, <2>5
<1>8. ~(ok'["client"] /\ idx'["client"] \in clean')
  <2>1. SUFFICES ASSUME ok["client"], idx["client"] \in clean PROVE FALSE
    BY DEF Aside
  <2>2. Known(idx["client"])
    BY <2>1 DEF AloneInv
  <2>3. QED
    BY <1>3, <2>2 DEF Known
<1>9. QED
  BY <1>4, <1>6, <1>7, <1>8 DEF AloneInv

\* The steps that are nothing but this to the client's taking of a rate.
Ahead(e) ==
  \/ idx'[e] > idx[e]
  \/ /\ idx'[e] = idx[e]
     /\ e = "client" /\ pc[e] \in {"ack", "done"} => pc'[e] \in {"ack", "done"}
     /\ e = "server" /\ pc[e] \in Strung => pc'[e] \in Strung
Plain(e, p, S) ==
  /\ Drops(e) /\ Adds(e, p, S) /\ Ahead(e) /\ UNCHANGED <<clean, ok>>
  /\ "ACK" \in S => e = "client" \/ (pc[e] = "rhs" /\ "STR" \notin S)
  /\ "STR" \in S => pc[e] = "str" /\ pc'[e] = "tak" /\ idx'[e] = idx[e]
  /\ e = "client" => pc'[e] # "ack"
  /\ e = "server" => pc[e] # "last" /\ pc'[e] # "last"

LEMMA PlainAlone ==
  ASSUME TypeInv, TypeInv', AloneInv, NEW e \in End, NEW p \in End, p # e, Aside(p), pc[e] # "done",
         NEW S, Plain(e, p, S)
  PROVE  AloneInv'
<1>1. CASE e = "client"
  <2>1. p = "server" /\ ~ok["client"] /\ ok'["client"] = ok["client"]
    BY <1>1, Ends DEF Plain, TypeInv, Tabled
  <2>2. QED
    BY <1>1, <2>1, ClientAlone DEF Plain, Ahead
<1>2. CASE e = "server"
  <2>1. p = "client"
    BY <1>2, Ends
  <2>2. pc["server"] \in {"rhs", "str"} => rate["server"] = idx["server"]
    BY <1>2 DEF TypeInv, Tabled, Begun
  <2>3. QED
    BY <1>2, <2>1, <2>2, ServerAlone DEF Plain, Ahead
<1>3. QED
  BY <1>1, <1>2, Ends

LEMMA FailPlain ==
  ASSUME TypeInv, NEW e \in End, NEW p \in End, p # e, Fail(e), UNCHANGED fixed, Drops(e), Adds(e, p, {}),
         e = "server" => pc[e] # "last"
  PROVE  Plain(e, p, {})
<1>1. /\ idx[e] \in Nat
      /\ \/ pc'[e] = "sync" /\ idx'[e] = idx[e] + 1
         \/ pc'[e] = "done" /\ idx'[e] = idx[e]
  BY Failed, Places
<1>2. Ahead(e) /\ pc'[e] \in {"sync", "done"}
  BY <1>1 DEF Ahead, Strung
<1>3. UNCHANGED <<clean, ok>>
  BY DEF Fail, fixed
<1>4. QED
  BY <1>2, <1>3 DEF Plain

\* A step within a rate, or before the first.
LEMMA GoesPlain ==
  ASSUME TypeInv, NEW e \in End, NEW p \in End, p # e, UNCHANGED <<clean, ok>>, NEW S, Drops(e), Adds(e, p, S),
         idx'[e] = idx[e], "STR" \notin S, "ACK" \in S => e = "client" \/ pc[e] = "rhs",
         e = "client" => pc[e] \notin {"ack", "done"} /\ pc'[e] # "ack",
         e = "server" => pc[e] \notin {"last", "done"} /\ pc'[e] # "last" /\ (pc[e] = "tak" => pc'[e] = "tak")
  PROVE  Plain(e, p, S)
BY DEF Plain, Ahead, Strung

LEMMA WalkPlain ==
  ASSUME TypeInv, NEW e \in End, NEW p \in End, p # e,
         MarchRead(e) \/ StartSpeed(e) \/ AtSync(e) \/ SendHi(e) \/ HiRead(e)
  PROVE  \E S : Plain(e, p, S)
<1>0. pc \in [End -> Pcs] /\ deadline \in [End -> Nat] /\ idx \in [End -> Rate] /\ rate \in [End -> Rate]
  BY DEF TypeInv, Walk
<1>1. CASE MarchRead(e)
  <2>0. chan[e] # <<>> /\ UNCHANGED fixed /\ pc[e] \in {"lok", "lokack"}
    BY <1>1 DEF MarchRead, Gets
  <2>1. CASE Heard(e) = IF e = "client" THEN "LOK" ELSE "ACK"
    <3>1. Goto(e, "hold", 1) /\ UNCHANGED table
      BY <1>1, <2>1 DEF MarchRead
    <3>2. pc'[e] = "hold" /\ idx'[e] = idx[e] /\ UNCHANGED <<clean, ok>>
      BY <1>0, <3>1, <2>0 DEF Goto, table, fixed
    <3>3. CASE e = "client"
      <4>1. SendRead(e, <<"ACK">>, 1)
        BY <1>1, <2>1, <3>3 DEF MarchRead
      <4>2. Drops(e) /\ Adds(e, p, {"ACK"})
        BY <2>0, <4>1, Messages, MadeOf, SendMoves
      <4>3. QED
        BY <2>0, <3>2, <3>3, <4>2, GoesPlain
    <3>4. CASE e # "client"
      <4>1. SendRead(e, <<>>, 1)
        BY <1>1, <2>1, <3>4 DEF MarchRead
      <4>2. Drops(e) /\ Adds(e, p, {})
        BY <2>0, <4>1, Messages, MadeOf, SendMoves
      <4>3. QED
        BY <2>0, <3>2, <3>4, <4>2, GoesPlain
    <3>5. QED
      BY <3>3, <3>4
  <2>2. CASE ~(Heard(e) = IF e = "client" THEN "LOK" ELSE "ACK")
    <3>1. SendRead(e, <<>>, 1) /\ NoMarch(e)
      BY <1>1, <2>2 DEF MarchRead
    <3>2. pc'[e] = "done" /\ idx'[e] = idx[e] /\ UNCHANGED <<clean, ok>>
      BY <1>0, <2>0, <3>1 DEF NoMarch, Goto, table, fixed
    <3>3. Drops(e) /\ Adds(e, p, {})
      BY <2>0, <3>1, Messages, MadeOf, SendMoves
    <3>4. QED
      BY <2>0, <3>2, <3>3, GoesPlain
  <2>3. QED
    BY <2>1, <2>2
<1>2. CASE StartSpeed(e)
  <2>1. /\ pc[e] = "hold" /\ pc'[e] = "sync" /\ UNCHANGED <<clean, ok, chan>> /\ idx'[e] = 1
    BY <1>0, <1>2 DEF StartSpeed, Begin, Goto, fixed
  <2>2. idx'[e] = idx[e]
    BY <2>1 DEF TypeInv, Tabled, Begun
  <2>3. Drops(e) /\ Adds(e, p, {})
    BY <2>1, SilentMoves
  <2>4. QED
    BY <2>1, <2>2, <2>3, GoesPlain
<1>3. CASE AtSync(e)
  <2>1. pc[e] = "sync" /\ pc'[e] = "slop" /\ UNCHANGED <<clean, ok>> /\ idx'[e] = idx[e]
        /\ chan' = [chan EXCEPT ![e] = <<>>]
    BY <1>0, <1>3 DEF AtSync, Goto, fixed
  <2>2. Drops(e) /\ Adds(e, p, {})
    BY <2>1, SilentMoves
  <2>3. QED
    BY <2>1, <2>2, GoesPlain
<1>4. CASE SendHi(e)
  <2>1. pc[e] = "slop" /\ pc'[e] = "hi" /\ UNCHANGED <<clean, ok>> /\ idx'[e] = idx[e] /\ SendRead(e, <<"HI">>, 0)
    BY <1>0, <1>4 DEF SendHi, Goto, fixed, table, Send
  <2>2. Drops(e) /\ Adds(e, p, {"HI"})
    BY <2>1, Messages, MadeOf, SendMoves
  <2>3. QED
    BY <2>1, <2>2, GoesPlain
<1>5. CASE HiRead(e)
  <2>0. pc[e] = "hi" /\ chan[e] # <<>> /\ UNCHANGED fixed
    BY <1>5 DEF HiRead, Gets
  <2>1. CASE Heard(e) = "HI" /\ e = "client"
    <3>1. /\ pc'[e] = "hs" /\ SendRead(e, <<"SYNC_BYTE">>, 1) /\ UNCHANGED <<clean, ok>> /\ idx'[e] = idx[e]
      BY <1>0, <1>5, <2>1 DEF HiRead, StartSend, Goto, fixed
    <3>2. Drops(e) /\ Adds(e, p, {"SYNC_BYTE"})
      BY <2>0, <3>1, Messages, MadeOf, SendMoves
    <3>3. QED
      BY <2>0, <2>1, <3>1, <3>2, GoesPlain
  <2>2. CASE Heard(e) = "HI" /\ e # "client"
    <3>1. /\ pc'[e] = "rhs" /\ SendRead(e, <<>>, 1) /\ UNCHANGED <<clean, ok>> /\ idx'[e] = idx[e]
      BY <1>0, <1>5, <2>2 DEF HiRead, StartReceive, Goto, fixed
    <3>2. Drops(e) /\ Adds(e, p, {})
      BY <2>0, <3>1, Messages, MadeOf, SendMoves
    <3>3. QED
      BY <2>0, <2>2, <3>1, <3>2, GoesPlain
  <2>3. CASE Heard(e) # "HI"
    <3>1. SendRead(e, <<>>, 1) /\ Fail(e)
      BY <1>5, <2>3 DEF HiRead
    <3>2. Drops(e) /\ Adds(e, p, {})
      BY <2>0, <3>1, Messages, MadeOf, SendMoves
    <3>3. QED
      BY <2>0, <3>1, <3>2, FailPlain
  <2>4. QED
    BY <2>1, <2>2, <2>3
<1>6. QED
  BY <1>1, <1>2, <1>3, <1>4, <1>5

\* What is heard in the course of a clean exchange is for the lemmas below.
Telling(e) ==
  \/ e = "server" /\ (LastRead(e) \/ (pc[e] = "last" /\ GivesUp(e)) \/ (TakRead(e) /\ Heard(e) = "TAK"))
  \/ e = "client" /\ ((CheckRead(e) /\ Heard(e) = "STR") \/ (AckRead(e) /\ Heard(e) = "ACK"))

LEMMA SenderPlain ==
  ASSUME TypeInv, NEW e \in End, NEW p \in End, p # e,
         HandshakeRead(e) \/ StrEnd(e) \/ TakRead(e) \/ LastRead(e), ~Telling(e)
  PROVE  \E S : Plain(e, p, S)
<1>0. pc \in [End -> Pcs] /\ deadline \in [End -> Nat]
  BY DEF TypeInv, Walk
<1>1. CASE HandshakeRead(e)
  <2>0. pc[e] = "hs" /\ chan[e] # <<>> /\ UNCHANGED <<clean, ok>> /\ idx'[e] = idx[e]
    BY <1>1 DEF HandshakeRead, Gets, fixed, table
  <2>1. pc'[e] \in {"hs", "str"}
    <3>1. CASE Heard(e) = "ACK"
      BY <1>0, <1>1, <3>1 DEF HandshakeRead, Goto
    <3>2. CASE Heard(e) # "ACK"
      BY <1>1, <2>0, <3>2 DEF HandshakeRead
    <3>3. QED
      BY <3>1, <3>2
  <2>2. \E s \in {<<"SYNC_END">>, <<"SYNC_END", "JUNK">>, <<"HI">>, <<>>} : SendRead(e, s, 1)
    BY <1>1 DEF HandshakeRead
  <2>3. PICK s \in {<<"SYNC_END">>, <<"SYNC_END", "JUNK">>, <<"HI">>, <<>>} : SendRead(e, s, 1)
    BY <2>2
  <2>4. s \in Message /\ Made(s, {"SYNC_END", "JUNK", "HI"})
    <3>1. /\ Made(<<"SYNC_END">>, {"SYNC_END", "JUNK", "HI"}) /\ Made(<<"HI">>, {"SYNC_END", "JUNK", "HI"})
          /\ Made(<<"SYNC_END", "JUNK">>, {"SYNC_END", "JUNK", "HI"}) /\ Made(<<>>, {"SYNC_END", "JUNK", "HI"})
      BY DEF Made
    <3>2. QED
      BY <2>3, <3>1, Messages
  <2>5. Drops(e) /\ Adds(e, p, {"SYNC_END", "JUNK", "HI"})
    BY <2>0, <2>3, <2>4, SendMoves
  <2>6. "STR" \notin {"SYNC_END", "JUNK", "HI"} /\ "ACK" \notin {"SYNC_END", "JUNK", "HI"}
    OBVIOUS
  <2>7. Plain(e, p, {"SYNC_END", "JUNK", "HI"})
    BY <2>0, <2>1, <2>5, <2>6 DEF Plain, Ahead, Strung
  <2>8. QED
    BY <2>7
<1>2. CASE StrEnd(e)
  <2>1. /\ pc[e] = "str" /\ pc'[e] = "tak" /\ SendRead(e, <<"STR">>, 0) /\ UNCHANGED <<clean, ok>> /\ idx'[e] = idx[e]
    BY <1>0, <1>2 DEF StrEnd, Send, Goto, fixed, table
  <2>2. Drops(e) /\ Adds(e, p, {"STR"})
    BY <2>1, Messages, MadeOf, SendMoves
  <2>3. QED
    BY <2>1, <2>2 DEF Plain, Ahead, Strung
<1>3. CASE TakRead(e)
  <2>0. pc[e] = "tak" /\ chan[e] # <<>> /\ UNCHANGED fixed
    BY <1>3 DEF TakRead, Gets
  <2>1. CASE Heard(e) = "TAK"
    <3>1. e = "client"
      BY <1>3, <2>1, Ends DEF Telling
    <3>2. SendRead(e, <<"ACK">>, 1) /\ pc'[e] = "last" /\ idx'[e] = idx[e] /\ UNCHANGED <<clean, ok>>
      BY <1>0, <1>3, <2>1 DEF TakRead, AfterAck, Goto, table, fixed
    <3>3. Drops(e) /\ Adds(e, p, {"ACK"})
      BY <2>0, <3>2, Messages, MadeOf, SendMoves
    <3>4. QED
      BY <2>0, <3>1, <3>2, <3>3, GoesPlain
  <2>2. CASE Heard(e) # "TAK"
    <3>1. SendRead(e, <<>>, 1) /\ pc'[e] = "tak" /\ idx'[e] = idx[e] /\ UNCHANGED <<clean, ok>>
      BY <1>3, <2>0, <2>2 DEF TakRead, table, fixed
    <3>2. Drops(e) /\ Adds(e, p, {})
      BY <2>0, <3>1, Messages, MadeOf, SendMoves
    <3>3. QED
      BY <2>0, <3>1, <3>2, GoesPlain
  <2>3. QED
    BY <2>1, <2>2
<1>4. CASE LastRead(e)
  <2>0. pc[e] = "last" /\ chan[e] # <<>> /\ UNCHANGED fixed /\ SendRead(e, <<>>, 1) /\ e = "client"
    BY <1>4, Ends DEF LastRead, Gets, Telling
  <2>1. Drops(e) /\ Adds(e, p, {})
    BY <2>0, Messages, MadeOf, SendMoves
  <2>2. CASE Heard(e) # "TAK"
    <3>1. Fail(e)
      BY <1>4, <2>2 DEF LastRead
    <3>2. QED
      BY <2>0, <2>1, <3>1, FailPlain
  <2>3. CASE Heard(e) = "TAK"
    <3>1. pc'[e] = "rhs" /\ idx'[e] = idx[e] /\ UNCHANGED <<clean, ok>>
      BY <1>0, <1>4, <2>0, <2>3 DEF LastRead, StartReceive, Goto, table, fixed
    <3>2. QED
      BY <2>0, <2>1, <3>1, GoesPlain
  <2>4. QED
    BY <2>2, <2>3
<1>5. QED
  BY <1>1, <1>2, <1>3, <1>4

LEMMA ReceiverPlain ==
  ASSUME TypeInv, NEW e \in End, NEW p \in End, p # e, ReceiverRead(e) \/ CheckRead(e) \/ AckRead(e), ~Telling(e)
  PROVE  \E S : Plain(e, p, S)
<1>0. pc \in [End -> Pcs] /\ deadline \in [End -> Nat]
  BY DEF TypeInv, Walk
<1>1. CASE ReceiverRead(e)
  <2>0. pc[e] = "rhs" /\ chan[e] # <<>> /\ UNCHANGED <<clean, ok>> /\ idx'[e] = idx[e]
    BY <1>1 DEF ReceiverRead, Gets, fixed, table
  <2>1. pc'[e] \in {"rhs", "check"}
    <3>1. CASE Heard(e) = "SYNC_END"
      BY <1>0, <1>1, <3>1 DEF ReceiverRead, Goto
    <3>2. CASE Heard(e) # "SYNC_END"
      BY <1>1, <2>0, <3>2 DEF ReceiverRead
    <3>3. QED
      BY <3>1, <3>2
  <2>2. PICK s \in {<<"ACK">>, <<"HI">>, <<>>} : SendRead(e, s, 1)
    <3>1. CASE Heard(e) = "SYNC_BYTE"
      BY <1>1, <3>1 DEF ReceiverRead
    <3>2. CASE Heard(e) = "HI"
      BY <1>1, <3>2 DEF ReceiverRead
    <3>3. CASE Heard(e) \notin {"SYNC_BYTE", "HI"}
      BY <1>1, <3>3 DEF ReceiverRead
    <3>4. QED
      BY <3>1, <3>2, <3>3
  <2>3. s \in Message /\ Made(s, {"ACK", "HI"})
    <3>1. Made(<<"ACK">>, {"ACK", "HI"}) /\ Made(<<"HI">>, {"ACK", "HI"}) /\ Made(<<>>, {"ACK", "HI"})
      BY DEF Made
    <3>2. QED
      BY <2>2, <3>1, Messages
  <2>4. Drops(e) /\ Adds(e, p, {"ACK", "HI"})
    BY <2>0, <2>2, <2>3, SendMoves
  <2>5. "STR" \notin {"ACK", "HI"}
    OBVIOUS
  <2>6. Plain(e, p, {"ACK", "HI"})
    BY <2>0, <2>1, <2>4, <2>5 DEF Plain, Ahead, Strung
  <2>7. QED
    BY <2>6
<1>2. CASE CheckRead(e)
  <2>0. pc[e] = "check" /\ chan[e] # <<>> /\ UNCHANGED fixed
    BY <1>2 DEF CheckRead, Gets
  <2>1. CASE Heard(e) = "STR"
    <3>1. e = "server"
      BY <1>2, <2>1, Ends DEF Telling
    <3>2. SendRead(e, <<"TAK">>, 1) /\ pc'[e] = "ack" /\ idx'[e] = idx[e] /\ UNCHANGED <<clean, ok>>
      BY <1>0, <1>2, <2>1 DEF CheckRead, Goto, table, fixed
    <3>3. Drops(e) /\ Adds(e, p, {"TAK"})
      BY <2>0, <3>2, Messages, MadeOf, SendMoves
    <3>4. QED
      BY <2>0, <3>1, <3>2, <3>3, GoesPlain
  <2>2. CASE Heard(e) # "STR"
    <3>1. SendRead(e, <<>>, 1) /\ Fail(e)
      BY <1>2, <2>2 DEF CheckRead
    <3>2. Drops(e) /\ Adds(e, p, {})
      BY <2>0, <3>1, Messages, MadeOf, SendMoves
    <3>3. QED
      BY <2>0, <3>1, <3>2, FailPlain
  <2>3. QED
    BY <2>1, <2>2
<1>3. CASE AckRead(e)
  <2>0. pc[e] = "ack" /\ chan[e] # <<>> /\ UNCHANGED fixed
    BY <1>3 DEF AckRead, Gets
  <2>1. CASE Heard(e) = "ACK"
    <3>1. e = "server"
      BY <1>3, <2>1, Ends DEF Telling
    <3>2. SendRead(e, <<"TAK", "SYNC_BYTE">>, 1) /\ pc'[e] = "hs" /\ idx'[e] = idx[e] /\ UNCHANGED <<clean, ok>>
      BY <1>0, <1>3, <2>1, <3>1 DEF AckRead, Goto, table, fixed
    <3>3. Drops(e) /\ Adds(e, p, {"TAK", "SYNC_BYTE"})
      BY <2>0, <3>2, Messages, MadeOf, SendMoves
    <3>4. QED
      BY <2>0, <3>1, <3>2, <3>3, GoesPlain
  <2>2. CASE Heard(e) # "ACK"
    <3>1. SendRead(e, <<>>, 1) /\ Fail(e)
      BY <1>3, <2>2 DEF AckRead
    <3>2. Drops(e) /\ Adds(e, p, {})
      BY <2>0, <3>1, Messages, MadeOf, SendMoves
    <3>3. QED
      BY <2>0, <3>1, <3>2, FailPlain
  <2>3. QED
    BY <2>1, <2>2
<1>4. QED
  BY <1>1, <1>2, <1>3

LEMMA GivesUpPlain ==
  ASSUME TypeInv, NEW e \in End, NEW p \in End, p # e, GivesUp(e), ~Telling(e)
  PROVE  \E S : Plain(e, p, S)
<1>0. pc \in [End -> Pcs] /\ deadline \in [End -> Nat]
  BY DEF TypeInv, Walk
<1>1. pc[e] \in Reading /\ UNCHANGED <<fixed, chan>> /\ (e = "server" => pc[e] # "last")
  BY DEF GivesUp, Telling
<1>2. Drops(e) /\ Adds(e, p, {})
  BY <1>1, SilentMoves
<1>3. CASE pc[e] \in {"lok", "lokack"}
  <2>1. pc'[e] = "done" /\ idx'[e] = idx[e] /\ UNCHANGED <<clean, ok>>
    BY <1>0, <1>1, <1>3 DEF GivesUp, NoMarch, Goto, table, fixed
  <2>2. QED
    BY <1>2, <1>3, <2>1, GoesPlain
<1>4. CASE pc[e] \notin {"lok", "lokack"}
  BY <1>1, <1>2, <1>4, FailPlain DEF GivesUp
<1>5. QED
  BY <1>3, <1>4

LEMMA PlainStep ==
  ASSUME TypeInv, TypeInv', AloneInv, NEW e \in End, Step(e), ~Telling(e)
  PROVE  AloneInv'
<1>1. PICK p \in End : p # e
  BY Ends
<1>2. \E S : Plain(e, p, S)
  BY <1>1, WalkPlain, SenderPlain, ReceiverPlain, GivesUpPlain DEF Step
<1>3. Aside(p)
  BY <1>1, StepBehaves DEF Behaves
<1>4. pc[e] # "done"
  BY DEF Step, MarchRead, StartSpeed, AtSync, SendHi, HiRead, HandshakeRead, StrEnd, TakRead, LastRead,
         ReceiverRead, CheckRead, AckRead, GivesUp, Gets, Reading
<1>5. QED
  BY <1>1, <1>2, <1>3, <1>4, PlainAlone

\* What is heard is the first symbol there is.
LEMMA HeardFirst ==
  ASSUME TypeInv, NEW e \in End, chan[e] # <<>>, NEW s, s # "JUNK", Heard(e) = s, Begun(e), pc[e] # "done"
  PROVE  1 \in Spots(e, s, idx[e])
<1>1. Len(chan[e]) \in Nat /\ 1 \in 1 .. Len(chan[e]) /\ rate[e] = idx[e]
  BY EmptySeq, LenProperties DEF TypeInv, Tabled
<1>2. QED
  BY <1>1 DEF Heard, Byte, Spots

LEMMA FirstHeard ==
  ASSUME TypeInv, NEW e \in End, NEW s, 1 \in Spots(e, s, idx[e]), Begun(e), pc[e] # "done"
  PROVE  Heard(e) = s
<1>1. rate[e] = idx[e]
  BY DEF TypeInv, Tabled
<1>2. QED
  BY <1>1 DEF Heard, Byte, Spots

\* The parts of the invariant that the steps of the server keep, at least.
LEMMA ServerKeeps ==
  ASSUME TypeInv, TypeInv', AloneInv, Aside("client"), NEW S, Adds("server", "client", S), "STR" \notin S,
         Ahead("server"),
         \A r \in Rate : \A l \in Spots("client", "ACK", r)' : l \in Spots("client", "ACK", r) \/ Said(r)
  PROVE  /\ \A r \in Rate : Spots("client", "STR", r)' # {} => PastStr(r)'
         /\ \A r \in Rate : \A k \in Spots("client", "STR", r)', l \in Spots("client", "ACK", r)' : k < l => Said(r)'
         /\ \A r \in Rate : PastStr(r) => PastStr(r)'
<1>1. \A r : Said(r) <=> Said(r)'
  BY DEF Said, Aside
<1>2. \A r \in Rate : PastStr(r) => PastStr(r)'
  BY PastStrStays DEF Ahead
<1>3. \A r \in Rate : \A k \in Spots("client", "STR", r)' : k \in Spots("client", "STR", r)
  BY Ends, SpotsMore
<1>4. QED
  BY <1>1, <1>2, <1>3 DEF AloneInv

LEMMA ServerTak ==
  ASSUME TypeInv, TypeInv', TakInv, AloneInv, TakRead("server"), Heard("server") = "TAK"
  PROVE  AloneInv'
<1>0. /\ pc \in [End -> Pcs] /\ deadline \in [End -> Nat] /\ "client" \in End /\ "server" \in End
      /\ "client" # "server" /\ idx["server"] \in Rate /\ now \in Nat
  BY Ends DEF TypeInv, Walk
<1>1. /\ pc["server"] = "tak" /\ chan["server"] # <<>> /\ UNCHANGED <<fixed, table>>
      /\ Goto("server", "last", HalfSec) /\ SendRead("server", <<"ACK">>, 1)
  BY DEF TakRead, Gets, AfterAck
<1>2. pc'["server"] = "last" /\ deadline'["server"] = now + HalfSec /\ idx'["server"] = idx["server"] /\ Aside("client")
  BY <1>0, <1>1, GoneTo
<1>3. Drops("server") /\ Adds("server", "client", {"ACK"}) /\ Ahead("server") /\ rate["server"] = idx["server"]
  BY <1>0, <1>1, <1>2, Messages, MadeOf, SendMoves DEF Ahead, Strung, TypeInv, Tabled, Begun
<1>4. 1 \in Taks(idx["server"]) /\ Said(idx["server"])
  BY <1>0, <1>1, HeardTak DEF TakInv
<1>5. ASSUME NEW r \in Rate, NEW l \in Spots("client", "ACK", r)', l \notin Spots("client", "ACK", r)
      PROVE  r = idx["server"] /\ Age("client", l)' = 0
  BY <1>0, <1>3, <1>5, SpotsMore
<1>6. /\ \A r \in Rate : Spots("client", "STR", r)' # {} => PastStr(r)'
      /\ \A r \in Rate : \A k \in Spots("client", "STR", r)', l \in Spots("client", "ACK", r)' : k < l => Said(r)'
      /\ \A r \in Rate : PastStr(r) => PastStr(r)'
  <2>1. \A r \in Rate : \A l \in Spots("client", "ACK", r)' : l \in Spots("client", "ACK", r) \/ Said(r)
    BY <1>4, <1>5
  <2>2. "STR" \notin {"ACK"}
    OBVIOUS
  <2>3. QED
    BY <1>2, <1>3, <2>1, <2>2, ServerKeeps
<1>7. ASSUME pc'["client"] = "ack" PROVE Awaiting(idx["client"])'
  <2>0. PICK r \in Rate : r = idx["client"]
    BY <1>0 DEF TypeInv, Walk
  <2>1. pc["client"] = "ack" /\ idx'["client"] = r /\ Awaiting(r)
    BY <1>2, <1>7, <2>0 DEF Aside, AloneInv
  <2>2. \A k \in Spots("server", "TAK", r)' : k = Len(chan'["server"])
    <3>1. PICK n \in {0, 1} : \A i \in Spots("server", "TAK", r)' :
             i + n \in Spots("server", "TAK", r) /\ (i + n = Len(chan["server"]) => i = Len(chan'["server"]))
      BY <1>0, <1>3, SpotsLeft
    <3>2. QED
      BY <2>1, <3>1 DEF Awaiting
  <2>3. ASSUME Took(r)' PROVE chan'["server"] = <<>>
    <3>1. idx["server"] = r
      BY <1>2, <2>3 DEF Took
    <3>2. 1 \in Spots("server", "TAK", r)
      BY <1>4, <3>1 DEF Taks, Spots
    <3>3. Len(chan["server"]) = 1
      BY <2>1, <3>2 DEF Awaiting
    <3>4. Len(chan'["server"]) = 0
      <4>1. <<"ACK">> \in Seq(Symbol) /\ 1 \in Nat /\ 1 <= Len(chan["server"])
        BY <3>3, Messages
      <4>2. Sent("server", "client", <<"ACK">>, 1)
        BY <1>0, <1>1, <4>1, SendFacts DEF TypeInv, Walk
      <4>3. QED
        BY <3>3, <4>2 DEF Sent
    <3>5. QED
      BY <1>0, <3>4, EmptySeq DEF TypeInv
  <2>4. ASSUME NEW l \in Spots("client", "ACK", r)'
        PROVE  Took(r)' /\ now' + HalfSec <= deadline'["server"] + Age("client", l)'
    <3>1. l \notin Spots("client", "ACK", r)
      BY <1>1, <2>1 DEF Awaiting, Took
    <3>2. r = idx["server"] /\ Age("client", l)' = 0
      BY <1>5, <3>1
    <3>3. HalfSec \in Nat /\ now' = now
      BY <1>2, LimitFacts DEF Aside
    <3>4. QED
      BY <1>0, <1>2, <3>2, <3>3 DEF Took
  <2>5. Awaiting(r)'
    BY <1>6, <2>1, <2>2, <2>3, <2>4 DEF Awaiting
  <2>6. QED
    BY <2>1, <2>5
<1>8. ~(ok["client"] /\ idx["client"] \in clean)
  BY <1>0, <1>1 DEF AloneInv, Known, Took, TypeInv, Tabled
<1>9. ~(ok'["client"] /\ idx'["client"] \in clean')
  BY <1>1, <1>8 DEF fixed, table
<1>10. QED
  BY <1>6, <1>7, <1>9 DEF AloneInv

\* The server leaves "last": it has heard TAK, or nothing that concerns the client is lost.
LEMMA ServerLast ==
  ASSUME TypeInv, TypeInv', AloneInv, LastRead("server") \/ (pc["server"] = "last" /\ GivesUp("server"))
  PROVE  AloneInv'
<1>0. /\ pc \in [End -> Pcs] /\ deadline \in [End -> Nat] /\ "client" \in End /\ "server" \in End
      /\ "client" # "server" /\ idx["server"] \in Rate /\ now \in Nat /\ HalfSec \in Nat /\ 3 <= HalfSec
  BY Ends, LimitFacts, SerBaudAnswers DEF TypeInv, Walk
<1>1. pc["server"] = "last" /\ UNCHANGED fixed /\ deadline["server"] \in Nat
  BY <1>0 DEF LastRead, GivesUp, Gets
<1>2. Drops("server") /\ Adds("server", "client", {})
  <2>1. CASE LastRead("server")
    BY <1>0, <2>1, Messages, MadeOf, SendMoves DEF LastRead, Gets
  <2>2. CASE GivesUp("server")
    BY <1>0, <2>2, SilentMoves DEF GivesUp
  <2>3. QED
    BY <2>1, <2>2
<1>3. \/ LastRead("server") /\ Heard("server") = "TAK" /\ Success("server")
      \/ Fail("server") /\ (LastRead("server") => Heard("server") # "TAK")
  BY <1>1 DEF LastRead, GivesUp
<1>4. Aside("client") /\ Ahead("server") /\ pc'["server"] \in {"done", "sync"} /\ (Fail("server") => UNCHANGED ok)
  <2>1. CASE Success("server")
    BY <1>0, <1>1, <2>1, Succeeded DEF Ahead, Strung, Fail, Success
  <2>2. CASE Fail("server")
    <3>1. idx["server"] \in Nat
      BY <1>0, RateValues
    <3>2. /\ Aside("client")
          /\ \/ pc'["server"] = "sync" /\ idx'["server"] = idx["server"] + 1
             \/ pc'["server"] = "done" /\ idx'["server"] = idx["server"]
      BY <1>0, <1>1, <2>2, Failed
    <3>3. QED
      BY <2>2, <3>1, <3>2 DEF Ahead, Strung, Fail
  <2>3. QED
    BY <1>3, <2>1, <2>2
<1>5. ASSUME NEW r \in Rate, NEW l \in Spots("client", "ACK", r)' PROVE l \in Spots("client", "ACK", r)
  BY <1>0, <1>2, SpotsMore
<1>6. /\ \A r \in Rate : Spots("client", "STR", r)' # {} => PastStr(r)'
      /\ \A r \in Rate : \A k \in Spots("client", "STR", r)', l \in Spots("client", "ACK", r)' : k < l => Said(r)'
      /\ \A r \in Rate : PastStr(r) => PastStr(r)'
  BY <1>2, <1>4, <1>5, ServerKeeps
<1>7. ASSUME pc'["client"] = "ack" PROVE Awaiting(idx["client"])'
  <2>0. PICK r \in Rate : r = idx["client"]
    BY <1>0 DEF TypeInv, Walk
  <2>1. pc["client"] = "ack" /\ idx'["client"] = r /\ Awaiting(r)
    BY <1>4, <1>7, <2>0 DEF Aside, AloneInv
  <2>2. \A k \in Spots("server", "TAK", r)' : k = Len(chan'["server"])
    <3>1. PICK n \in {0, 1} : \A i \in Spots("server", "TAK", r)' :
             i + n \in Spots("server", "TAK", r) /\ (i + n = Len(chan["server"]) => i = Len(chan'["server"]))
      BY <1>0, <1>2, SpotsLeft
    <3>2. QED
      BY <2>1, <3>1 DEF Awaiting
  <2>3. ~Took(r)'
    BY <1>4 DEF Took
  <2>4. Spots("client", "ACK", r)' = {}
    <3>1. SUFFICES ASSUME NEW l \in Spots("client", "ACK", r) PROVE FALSE
      BY <1>5
    <3>2. Took(r) /\ now + HalfSec <= deadline["server"] + Age("client", l) /\ chan["server"] = <<>>
      BY <2>1 DEF Awaiting
    <3>3. Age("client", l) \in {0, 1}
      BY DEF Age
    <3>4. ~LastRead("server")
      BY <3>2 DEF LastRead, Gets
    <3>5. now >= deadline["server"]
      BY <1>1, <3>4 DEF GivesUp, Over
    <3>6. QED
      BY <1>0, <1>1, <3>2, <3>3, <3>5
  <2>5. Awaiting(r)'
    BY <1>6, <2>1, <2>2, <2>3, <2>4 DEF Awaiting
  <2>6. QED
    BY <2>1, <2>5
<1>8. ASSUME ok'["client"], idx'["client"] \in clean' PROVE ok'["server"]
  <2>1. CASE Success("server")
    BY <1>0, <2>1 DEF Success, TypeInv, Walk
  <2>2. CASE ~Success("server")
    <3>0. Fail("server") /\ (LastRead("server") => Heard("server") # "TAK")
      BY <1>3, <2>2
    <3>1. Known(idx["client"]) /\ ~ok["server"]
      BY <1>0, <1>1, <1>4, <1>8, <3>0 DEF AloneInv, Aside, fixed, TypeInv, Tabled
    <3>2. /\ idx["client"] = idx["server"] /\ 1 \in Spots("server", "TAK", idx["server"])
          /\ now + HalfSec <= deadline["server"] + 1 + Age("server", 1)
      BY <3>1 DEF Known, Took
    <3>3. Heard("server") = "TAK"
      BY <1>0, <1>1, <3>2, FirstHeard DEF Begun
    <3>4. now >= deadline["server"]
      BY <1>1, <3>0, <3>3 DEF GivesUp, Over
    <3>5. Age("server", 1) \in {0, 1}
      BY DEF Age
    <3>6. QED
      BY <1>0, <1>1, <3>2, <3>4, <3>5
  <2>3. QED
    BY <2>1, <2>2
<1>9. QED
  BY <1>6, <1>7, <1>8 DEF AloneInv, Known

\* The parts of the invariant that the steps of the client keep.
LEMMA ClientKeeps ==
  ASSUME TypeInv, TypeInv', AloneInv, Aside("server"), Drops("client"), Ahead("client")
  PROVE  /\ \A r \in Rate : Spots("client", "STR", r)' # {} => PastStr(r)'
         /\ \A r \in Rate : \A k \in Spots("client", "STR", r)', l \in Spots("client", "ACK", r)' : k < l => Said(r)'
<1>1. \A r : PastStr(r) <=> PastStr(r)'
  BY DEF PastStr, Aside
<1>2. ASSUME NEW r \in Rate, Spots("client", "STR", r)' # {} PROVE PastStr(r)'
  <2>1. Spots("client", "STR", r) # {}
    BY <1>2, Ends, SpotsLeft
  <2>2. QED
    BY <1>1, <2>1 DEF AloneInv
<1>3. ASSUME NEW r \in Rate, NEW k \in Spots("client", "STR", r)', NEW l \in Spots("client", "ACK", r)', k < l
      PROVE  Said(r)'
  <2>1. CASE chan'["client"] = <<>>
    BY <2>1 DEF Spots
  <2>2. CASE chan'["client"] # <<>>
    <3>1. PICK n \in {0, 1} :
            \A i \in 1 .. Len(chan'["client"]) : i + n \in 1 .. Len(chan["client"]) /\ chan'["client"][i] = chan["client"][i + n]
      BY <2>2 DEF Drops
    <3>2. k + n \in Spots("client", "STR", r) /\ l + n \in Spots("client", "ACK", r) /\ k \in Nat /\ l \in Nat
      BY <3>1 DEF Spots
    <3>3. k + n < l + n
      BY <1>3, <3>2
    <3>4. Said(r)
      BY <3>2, <3>3 DEF AloneInv
    <3>5. QED
      BY <3>4, SaidStays DEF Ahead
  <2>3. QED
    BY <2>1, <2>2
<1>4. QED
  BY <1>2, <1>3

LEMMA ClientCheck ==
  ASSUME TypeInv, TypeInv', TakInv, AloneInv, CheckRead("client"), Heard("client") = "STR"
  PROVE  AloneInv'
<1>0. /\ pc \in [End -> Pcs] /\ deadline \in [End -> Nat] /\ "client" \in End /\ "server" \in End
      /\ "client" # "server" /\ idx["client"] \in Rate /\ chan \in [End -> Seq(Token)] /\ rate \in [End -> Rate]
      /\ Len(chan["client"]) \in Nat /\ Len(chan["server"]) \in Nat
  BY Ends, LenProperties DEF TypeInv, Walk
<1>1. /\ pc["client"] = "check" /\ chan["client"] # <<>> /\ UNCHANGED <<fixed, table>>
      /\ Goto("client", "ack", HalfSec) /\ SendRead("client", <<"TAK">>, 1)
  BY DEF CheckRead, Gets
<1>2. pc'["client"] = "ack" /\ idx'["client"] = idx["client"] /\ Aside("server")
  BY <1>0, <1>1, GoneTo
<1>3. Drops("client") /\ Ahead("client") /\ Adds("client", "server", {"TAK"})
  BY <1>0, <1>1, <1>2, Messages, MadeOf, SendMoves DEF Ahead
<1>4. Sent("client", "server", <<"TAK">>, 1)
  <2>1. <<"TAK">> \in Seq(Symbol) /\ 1 \in Nat /\ 1 <= Len(chan["client"])
    BY <1>0, <1>1, Messages, EmptySeq
  <2>2. QED
    BY <1>0, <1>1, <2>1, SendFacts
<1>5. PICK r \in Rate : r = idx["client"]
  BY <1>0
<1>6. 1 \in Spots("client", "STR", r) /\ ~Said(r) /\ PastStr(r)
  <2>1. 1 \in Spots("client", "STR", r)
    BY <1>0, <1>1, <1>5, HeardFirst DEF Begun
  <2>2. ~Said(r)
    BY <1>1, <1>5, RateValues DEF Said
  <2>3. QED
    BY <2>1, <2>2 DEF AloneInv
<1>7. Awaiting(r)'
  <2>1. PastStr(r)'
    BY <1>2, <1>6 DEF PastStr, Aside
  <2>2. ASSUME NEW k \in Spots("server", "TAK", r)' PROVE k = Len(chan'["server"])
    <3>1. k \notin Spots("server", "TAK", r)
      BY <1>6 DEF TakInv, Taks, Spots
    <3>2. k > Len(chan["server"])
      BY <1>0, <1>3, <3>1, SpotsMore
    <3>3. Len(chan'["server"]) = Len(chan["server"]) + 1
      BY <1>4 DEF Sent
    <3>4. k \in 1 .. Len(chan'["server"])
      BY DEF Spots
    <3>5. QED
      BY <1>0, <3>2, <3>3, <3>4
  <2>3. ~Took(r)'
    BY <1>2, <1>6 DEF TakInv, Took, Aside
  <2>4. Spots("client", "ACK", r)' = {}
    <3>1. SUFFICES ASSUME NEW l \in Spots("client", "ACK", r)' PROVE FALSE
      OBVIOUS
    <3>2. l \in 1 .. Len(chan["client"]) - 1 /\ chan'["client"][l] = chan["client"][l + 1]
      BY <1>4 DEF Sent, Spots
    <3>3. l + 1 \in Spots("client", "ACK", r) /\ 1 < l + 1
      BY <1>0, <3>2 DEF Spots
    <3>4. QED
      BY <1>6, <3>3 DEF AloneInv
  <2>5. QED
    BY <2>1, <2>2, <2>3, <2>4 DEF Awaiting
<1>8. ~ok'["client"]
  BY <1>0, <1>1 DEF TypeInv, Tabled, table
<1>9. Awaiting(idx["client"])'
  BY <1>2, <1>5, <1>7
<1>10. QED
  BY <1>2, <1>3, <1>8, <1>9, ClientKeeps DEF AloneInv

\* At a clean rate what is sent arrives as it is.
LEMMA CleanSend ==
  ASSUME TypeInv, NEW e \in End, NEW p \in End, p # e, rate[e] \in clean,
         NEW s \in Message, NEW n \in {0, 1}, n = 1 => chan[e] # <<>>, SendRead(e, s, n)
  PROVE  Sent(e, p, s, n) /\ \A k \in 1 .. Len(s) : chan'[p][Len(chan[p]) + k].sym = s[k]
<1>1. /\ chan \in [End -> Seq(Token)] /\ rate \in [End -> Rate] /\ s \in Seq(Symbol)
      /\ Len(chan[e]) \in Nat /\ Len(chan[p]) \in Nat /\ Len(s) \in Nat /\ DOMAIN s = 1 .. Len(s)
  BY Messages, LenProperties DEF TypeInv, Walk
<1>2. n \in Nat /\ n <= Len(chan[e])
  BY <1>1, EmptySeq, LenProperties
<1>3. Sent(e, p, s, n)
  BY <1>1, <1>2, SendFacts
<1> DEFINE m == [i \in DOMAIN s |-> [sym |-> s[i], rate |-> rate[e], old |-> FALSE]]
<1>4. chan'[p] = chan[p] \o m
  <2>1. Garbled(e, s) = {s}
    BY DEF Garbled
  <2>2. PICK t \in Garbled(e, s) :
          chan' = [x \in End |->
                     IF x = e THEN SubSeq(chan[e], n + 1, Len(chan[e]))
                     ELSE chan[x] \o [i \in DOMAIN t |-> [sym |-> t[i], rate |-> rate[e], old |-> FALSE]]]
    BY DEF SendRead
  <2>3. QED
    BY <2>1, <2>2
<1>5. m \in Seq(Token) /\ Len(m) = Len(s) /\ \A k \in 1 .. Len(s) : m[k].sym = s[k]
  <2>1. \A i \in 1 .. Len(s) : [sym |-> s[i], rate |-> rate[e], old |-> FALSE] \in Token
    BY <1>1, ElementOfSeq DEF Token
  <2>2. m \in [1 .. Len(s) -> Token]
    BY <1>1, <2>1
  <2>3. QED
    BY <1>1, <2>2, IsASeq, LenProperties
<1> HIDE DEF m
<1>6. \A k \in 1 .. Len(chan[p]) + Len(s) :
        (chan[p] \o m)[k] = IF k <= Len(chan[p]) THEN chan[p][k] ELSE m[k - Len(chan[p])]
  BY <1>1, <1>5, ConcatProperties
<1>7. \A k \in 1 .. Len(s) : /\ Len(chan[p]) + k \in 1 .. Len(chan[p]) + Len(s)
                             /\ ~(Len(chan[p]) + k <= Len(chan[p]))
                             /\ Len(chan[p]) + k - Len(chan[p]) = k
  BY <1>1
<1>8. QED
  BY <1>3, <1>4, <1>5, <1>6, <1>7

LEMMA ClientAck ==
  ASSUME TypeInv, TypeInv', AloneInv, AckRead("client"), Heard("client") = "ACK"
  PROVE  AloneInv'
<1>0. /\ pc \in [End -> Pcs] /\ deadline \in [End -> Nat] /\ "client" \in End /\ "server" \in End
      /\ "client" # "server" /\ idx["client"] \in Rate /\ chan \in [End -> Seq(Token)] /\ rate \in [End -> Rate]
      /\ now \in Nat /\ HalfSec \in Nat /\ deadline["server"] \in Nat
  BY Ends, LimitFacts DEF TypeInv, Walk
<1>1. /\ pc["client"] = "ack" /\ chan["client"] # <<>> /\ UNCHANGED fixed
      /\ Success("client") /\ SendRead("client", <<"TAK">>, 1) /\ rate["client"] = idx["client"]
  BY <1>0 DEF AckRead, Gets, TypeInv, Tabled, Begun
<1>2. pc'["client"] = "done" /\ idx'["client"] = idx["client"] /\ Aside("server")
  BY <1>0, <1>1, Succeeded
<1>3. Drops("client") /\ Ahead("client")
  BY <1>0, <1>1, <1>2, Messages, MadeOf, SendMoves DEF Ahead
<1>4. ASSUME idx["client"] \in clean PROVE Known(idx["client"])'
  <2>0. PICK r \in Rate : r = idx["client"]
    BY <1>0
  <2>1. 1 \in Spots("client", "ACK", r)
    BY <1>0, <1>1, <2>0, HeardFirst DEF AckRead, Begun
  <2>2. Took(r) /\ now + HalfSec <= deadline["server"] + Age("client", 1) /\ chan["server"] = <<>>
    BY <1>1, <2>0, <2>1 DEF AloneInv, Awaiting
  <2>3. /\ Len(chan'["server"]) = 1 /\ chan'["server"][1].sym = "TAK" /\ chan'["server"][1].rate = r
        /\ chan'["server"][1].old = FALSE
    <3>1. Sent("client", "server", <<"TAK">>, 1) /\ chan'["server"][Len(chan["server"]) + 1].sym = "TAK"
      <4>1. PICK s \in Message : s = <<"TAK">>
        BY Messages
      <4>2. Sent("client", "server", s, 1) /\ \A k \in 1 .. Len(s) : chan'["server"][Len(chan["server"]) + k].sym = s[k]
        BY <1>0, <1>1, <1>4, <4>1, CleanSend
      <4>3. 1 \in 1 .. Len(s) /\ s[1] = "TAK"
        BY <4>1
      <4>4. QED
        BY <4>1, <4>2, <4>3
    <3>2. Len(chan["server"]) = 0
      BY <2>2
    <3>3. QED
      BY <1>1, <2>0, <3>1, <3>2 DEF Sent
  <2>4. Spots("server", "TAK", r)' = {1} /\ Age("server", 1)' = 0
    BY <2>3 DEF Spots, Age
  <2>5. Took(r)' /\ deadline'["server"] = deadline["server"] /\ now' = now
    BY <1>2, <2>2 DEF Took, Aside
  <2>6. Age("client", 1) \in {0, 1}
    BY DEF Age
  <2>7. Known(r)'
    BY <1>0, <2>2, <2>3, <2>4, <2>5, <2>6 DEF Known
  <2>8. QED
    BY <1>2, <2>0, <2>7
<1>5. clean' = clean
  BY <1>1 DEF fixed
<1>6. Known(idx["client"])' => (Known(idx["client"]))'
  OBVIOUS
<1>7. QED
  BY <1>2, <1>3, <1>4, <1>5, ClientKeeps DEF AloneInv

LEMMA TickAlone ==
  ASSUME TypeInv, MeetInv, AloneInv, Tick
  PROVE  AloneInv'
<1>0. "client" \in End /\ "server" \in End /\ now \in Nat /\ deadline["server"] \in Nat /\ HalfSec \in Nat
  BY Ends, LimitFacts DEF TypeInv, Walk
<1>1. /\ UNCHANGED <<clean, pc, deadline, idx, ok>> /\ now' = now + 1
  BY DEF Tick, table
<1>2. \A e \in End : /\ Len(chan'[e]) = Len(chan[e])
                    /\ \A k \in 1 .. Len(chan[e]) : /\ chan'[e][k].sym = chan[e][k].sym
                                                   /\ chan'[e][k].rate = chan[e][k].rate
  BY TickTypes
<1>3. \A e \in End : \A s, r : Spots(e, s, r)' = Spots(e, s, r)
  BY <1>2 DEF Spots
<1>4. \A r : (Said(r)' <=> Said(r)) /\ (Took(r)' <=> Took(r)) /\ (PastStr(r)' <=> PastStr(r))
  BY <1>1 DEF Said, Took, PastStr
<1>5. ASSUME NEW e \in End, pc[e] \in Reading, NEW k \in 1 .. Len(chan[e])
      PROVE  Age(e, k)' = 1 /\ Age(e, k) = 0
  <2>1. chan[e][k].old = FALSE
    BY <1>5, TickLine DEF MeetInv, At
  <2>2. chan'[e][k].old = TRUE
    BY <1>2, <1>5, TickOld DEF At
  <2>3. QED
    BY <2>1, <2>2 DEF Age
<1>6. ASSUME pc["client"] = "ack", NEW r \in Rate, Awaiting(r) PROVE Awaiting(r)'
  <2>1. chan'["server"] = <<>> <=> chan["server"] = <<>>
    <3>1. chan["server"] \in Seq(Token) /\ Len(chan'["server"]) = Len(chan["server"])
      BY <1>0, <1>2 DEF TypeInv
    <3>2. chan'["server"] \in Seq(Token)
      BY <1>0, TickTypes DEF TypeInv
    <3>3. QED
      BY <3>1, <3>2, EmptySeq
  <2>2. ASSUME NEW k \in Spots("client", "ACK", r)
        PROVE  now' + HalfSec <= deadline'["server"] + Age("client", k)'
    <3>1. Age("client", k)' = 1 /\ Age("client", k) = 0
      BY <1>0, <1>5, <1>6 DEF Spots, Reading
    <3>2. now + HalfSec <= deadline["server"] + Age("client", k)
      BY <1>6 DEF Awaiting
    <3>3. QED
      BY <1>0, <1>1, <3>1, <3>2
  <2>3. QED
    BY <1>0, <1>2, <1>3, <1>4, <1>6, <2>1, <2>2 DEF Awaiting
<1>7. ASSUME NEW r \in Rate, Known(r) PROVE Known(r)'
  <2>1. CASE ok["server"]
    BY <1>1, <2>1 DEF Known
  <2>2. CASE ~ok["server"]
    <3>1. /\ Took(r) /\ Len(chan["server"]) = 1 /\ Spots("server", "TAK", r) = {1}
          /\ now + HalfSec <= deadline["server"] + 1 + Age("server", 1)
      BY <1>7, <2>2 DEF Known
    <3>2. Age("server", 1)' = 1 /\ Age("server", 1) = 0
      <4>1. pc["server"] \in Reading /\ 1 \in 1 .. Len(chan["server"])
        BY <3>1 DEF Took, Reading
      <4>2. QED
        BY <1>0, <1>5, <4>1
    <3>3. now' + HalfSec <= deadline'["server"] + 1 + Age("server", 1)'
      BY <1>0, <1>1, <3>1, <3>2
    <3>4. QED
      BY <1>0, <1>2, <1>3, <1>4, <3>1, <3>3 DEF Known
  <2>3. QED
    BY <2>1, <2>2
<1>8. idx["client"] \in Rate
  BY <1>0 DEF TypeInv, Walk
<1>9. /\ pc'["client"] = "ack" => Awaiting(idx["client"])'
      /\ ok'["client"] /\ idx'["client"] \in clean' => Known(idx["client"])'
  <2>1. PICK r \in Rate : r = idx["client"] /\ idx'["client"] = r
    BY <1>1, <1>8
  <2>2. /\ pc'["client"] = "ack" => Awaiting(r)'
        /\ ok'["client"] /\ r \in clean => Known(r)'
    BY <1>1, <1>6, <1>7, <2>1 DEF AloneInv
  <2>3. QED
    BY <1>1, <2>1, <2>2
<1>10. QED
  BY <1>0, <1>3, <1>4, <1>9 DEF AloneInv

LEMMA AloneInit == Init => AloneInv
<1> SUFFICES ASSUME Init PROVE AloneInv
  OBVIOUS
<1>1. chan["client"] = <<>> /\ pc["client"] = "lok" /\ ~ok["client"]
  BY Ends DEF Init
<1>2. \A s, r : Spots("client", s, r) = {}
  BY <1>1 DEF Spots
<1>3. QED
  BY <1>1, <1>2 DEF AloneInv

LEMMA AloneNext == TypeInv /\ TakInv /\ MeetInv /\ AloneInv /\ [Next]_vars => AloneInv'
<1> SUFFICES ASSUME TypeInv, TakInv, MeetInv, AloneInv, [Next]_vars PROVE AloneInv'
  OBVIOUS
<1>0. TypeInv'
  BY TypeNext
<1>1. CASE SendLok
  <2>0. "client" \in End /\ "server" \in End /\ "client" # "server" /\ pc \in [End -> Pcs]
    BY Ends DEF TypeInv, Walk
  <2>1. /\ pc["server"] = "march" /\ pc'["server"] = "lokack" /\ UNCHANGED <<fixed, table>>
        /\ SendRead("server", <<"LOK">>, 0)
    BY <1>1, <2>0 DEF SendLok, Goto, Send
  <2>2. Aside("client") /\ Drops("server") /\ Adds("server", "client", {"LOK"})
    BY <1>1, <2>0, <2>1, Messages, MadeOf, SendMoves, StepBehaves DEF Behaves
  <2>3. Plain("server", "client", {"LOK"})
    BY <2>1, <2>2 DEF Plain, Ahead, Strung, fixed, table
  <2>4. QED
    BY <1>0, <2>0, <2>1, <2>2, <2>3, PlainAlone
<1>2. CASE Tick
  BY <1>2, TickAlone
<1>3. CASE UNCHANGED vars
  BY <1>3 DEF AloneInv, Awaiting, Known, Spots, Age, PastStr, Said, Took, vars
<1>4. ASSUME NEW e \in End, Step(e)
      PROVE  AloneInv'
  <2>1. CASE ~Telling(e)
    BY <1>0, <1>4, <2>1, PlainStep
  <2>2. CASE Telling(e)
    BY <1>0, <2>2, ServerTak, ServerLast, ClientCheck, ClientAck DEF Telling
  <2>3. QED
    BY <2>1, <2>2
<1>5. QED
  BY <1>1, <1>2, <1>3, <1>4 DEF Next, Returned

\* At a rate at which nothing is garbled SetBaudReceiver's last TAK is read by a
\* SetBaudSender that still waits for it: the client does not go on at that rate with a
\* server that has given it up.
THEOREM TakenByBothCorrect == Spec => []TakenByBoth
<1>1. Init => TypeInv /\ TakInv /\ MeetInv /\ AloneInv
  BY TypeInit, TakInit, MeetInit, AloneInit
<1>2. TypeInv /\ TakInv /\ MeetInv /\ AloneInv /\ [Next]_vars => (TypeInv /\ TakInv /\ MeetInv /\ AloneInv)'
  BY TypeNext, TakNext, MeetNext, AloneNext
<1>3. AloneInv => TakenByBoth
  <2>1. "server" \in End
    BY Ends
  <2>2. QED
    BY <2>1 DEF AloneInv, Known, Took, TakenByBoth, Done
<1>4. QED
  BY <1>1, <1>2, <1>3, PTL DEF Spec

(***************************************************************************)
(* The ends settle                                                         *)
(*                                                                         *)
(* As long as no greeting is lost one way only, the ends have the same     *)
(* sync points, and their clocks are a tick apart at most.  So when the    *)
(* slowest rate is reached both are there, each has cleared the line after *)
(* its peer has sent the last byte of the rate before, and at a rate that  *)
(* garbles nothing the greetings and the two tests of the line are an      *)
(* exchange in which each answer comes within two ticks.                   *)
(***************************************************************************)
\* End e greets at rate i no more.
Gone(e, i) == idx[e] > i \/ (idx[e] = i /\ pc[e] \in Testing \cup {"done"})
\* The ends are parted for good.
Broken == \E e, p \in End, i \in Rate : p # e /\ <<e, i>> \in greeted /\ <<p, i>> \notin greeted /\ Gone(p, i)
Live == Slowest \in clean /\ ~Broken /\ ~ok["client"]
GreetInv == \A e \in End : /\ \A i \in Rate : <<e, i>> \in greeted => Gone(e, i)
                           /\ pc[e] \in Testing => <<e, idx[e]>> \in greeted

\* What is under way to end e, at the slowest rate.
Is(e, k, a) == chan[e][k].sym = a /\ chan[e][k].rate = Slowest
One(e, a) == Len(chan[e]) = 1 /\ Is(e, 1, a)
Two(e, a, b) == Len(chan[e]) = 2 /\ Is(e, 1, a) /\ Is(e, 2, b)
None(e) == chan[e] = <<>>

\* A wait of n ticks began k ticks ago at most.
Begins(e, n, k) == now + n <= deadline[e] + k

(***************************************************************************)
(* MarchToTheSameDrummer                                                   *)
(***************************************************************************)
Origin(e) == IF pc[e] = "hold" THEN deadline[e] ELSE zero[e]
First(e) == pc[e] = "sync" /\ idx[e] = 1 /\ sp[e] = BaudSet
Calling ==
  /\ pc["client"] = "lok" /\ deadline["client"] = LokWait /\ None("server")
  /\ \/ pc["server"] = "march" /\ None("client") /\ now = 0
     \/ pc["server"] = "lokack" /\ One("client", "LOK") /\ now = Age("client", 1) /\ deadline["server"] = HalfSec
Called ==
  /\ pc["client"] = "hold" \/ First("client")
  /\ pc["server"] = "lokack" /\ One("server", "ACK") /\ deadline["server"] = HalfSec
  /\ Origin("client") + Age("server", 1) = now + 1 /\ now <= 1 + Age("server", 1)
Marching == (Calling \/ Called) /\ \A e \in End : ~Begun(e) => rate[e] = Slowest

(***************************************************************************)
(* The greetings and the tests of the slowest rate                         *)
(***************************************************************************)
\* The HI that is there for end e was sent by end p at its time.
HiThere(e, p) == now <= Mark(p) + Slop + Age(e, 1)
GreetNone == \A e \in End : pc[e] = "slop" /\ None(e)
GreetOne(e, p) == pc[e] = "hi" /\ pc[p] = "slop" /\ None(e) /\ One(p, "HI") /\ HiThere(p, e)
GreetBoth == \A e, p \in End : p # e => pc[e] = "hi" /\ One(e, "HI") /\ HiThere(e, p)
GreetClient ==
  /\ pc["client"] = "hs" /\ pc["server"] = "hi" /\ None("client") /\ Two("server", "HI", "SYNC_BYTE")
  /\ HiThere("server", "client") /\ Begins("client", TimeOut, Age("server", 2))
GreetServer ==
  /\ pc["client"] = "hi" /\ pc["server"] = "rhs" /\ One("client", "HI") /\ None("server")
  /\ HiThere("client", "server") /\ Begins("server", TimeOut, Age("client", 1))
Greeting ==
  \/ GreetNone \/ (\E e, p \in End : p # e /\ GreetOne(e, p)) \/ GreetBoth \/ GreetClient \/ GreetServer

\* End a sends its string and end b receives it.
Sync(a, b) ==
  /\ pc[a] = "hs" /\ pc[b] = "rhs" /\ None(a) /\ One(b, "SYNC_BYTE")
  /\ Begins(a, TimeOut, Age(b, 1)) /\ Begins(b, TimeOut, 1 + Age(b, 1))
Synced(a, b) ==
  /\ pc[a] = "hs" /\ pc[b] = "rhs" /\ One(a, "ACK") /\ None(b)
  /\ Begins(a, TimeOut, 1 + Age(a, 1)) /\ Begins(b, TimeOut, 2 + Age(a, 1))
StrBegins(a, b) ==
  /\ pc[a] = "str" /\ pc[b] = "rhs" /\ None(a) /\ One(b, "SYNC_END")
  /\ deadline[a] <= now + StrTicks(Slowest) /\ Begins(b, TimeOut, 3 + Age(b, 1))
StrOnWay(a, b) ==
  /\ pc[a] = "str" /\ pc[b] = "check" /\ None(a) /\ None(b)
  /\ deadline[a] + ByteWait <= deadline[b]
StrShort(a, b) ==
  /\ pc[a] = "tak" /\ pc[b] = "rhs" /\ None(a) /\ Two(b, "SYNC_END", "STR")
  /\ Begins(a, TimeOut, Age(b, 2)) /\ Begins(b, TimeOut, 3 + Age(b, 1))
StrThere(a, b) ==
  /\ pc[a] = "tak" /\ pc[b] = "check" /\ None(a) /\ One(b, "STR")
  /\ Begins(a, TimeOut, Age(b, 1)) /\ Begins(b, ByteWait, Age(b, 1))
Right(a, b) ==
  /\ pc[a] = "tak" /\ pc[b] = "ack" /\ One(a, "TAK") /\ None(b)
  /\ Begins(a, TimeOut, 1 + Age(a, 1)) /\ Begins(b, HalfSec, Age(a, 1))
Agreed(a, b) ==
  /\ pc[a] = "last" /\ pc[b] = "ack" /\ None(a) /\ One(b, "ACK")
  /\ Begins(a, HalfSec, Age(b, 1)) /\ Begins(b, HalfSec, 1 + Age(b, 1))
Exchange(a, b) ==
  \/ Sync(a, b) \/ Synced(a, b) \/ StrBegins(a, b) \/ StrOnWay(a, b)
  \/ StrShort(a, b) \/ StrThere(a, b) \/ Right(a, b) \/ Agreed(a, b)
\* The server has tested the line, and is about to have it tested.
Turn ==
  /\ pc["client"] = "last" /\ pc["server"] = "hs" /\ Two("client", "TAK", "SYNC_BYTE") /\ None("server")
  /\ Begins("client", HalfSec, 1 + Age("client", 1)) /\ Begins("server", TimeOut, Age("client", 2))
Talk == Greeting \/ Exchange("client", "server") \/ Turn \/ Exchange("server", "client")

(***************************************************************************)
(* Down the table of rates                                                 *)
(***************************************************************************)
Walking == {"sync", "slop", "hi"} \cup Testing
Clocked(e) ==
  /\ pc[e] = "slop" => deadline[e] = Mark(e) + Slop /\ now >= Mark(e)
  /\ pc[e] = "hi" => deadline[e] = Mark(e) + 3 * Slop /\ now >= Mark(e) + Slop
\* The ends are at the same rate, or one waits for the other at the next.
Leads(e, p) == idx[e] > idx[p] =>
  /\ idx[e] = idx[p] + 1 /\ pc[e] \in {"sync", "slop"}
  /\ sp[e] = sp[p] + Base + IF <<e, idx[p]>> \in greeted THEN TestTime(idx[p]) ELSE 0
Abreast(e, p) == (idx[e] = idx[p] => sp[e] = sp[p]) /\ Leads(e, p)
\* At the slowest rate an end has heard nothing before the other is there.
Ending(e, p) == idx[e] = Slowest =>
  \/ pc[e] = "sync"
  \/ (idx[p] < Slowest \/ pc[p] = "sync") /\ pc[e] = "slop" /\ None(e)
  \/ idx[p] = Slowest /\ pc[p] # "sync" /\ Talk
Walks ==
  /\ \A e \in End : pc[e] \in Walking \cup {"hold"} /\ Clocked(e)
  /\ Origin("client") <= Origin("server") /\ Origin("server") <= Origin("client") + 1
  /\ \A e, p \in End : p # e =>
       /\ pc[e] = "hold" => now <= deadline[e] /\ (pc[p] = "hold" \/ First(p))
       /\ Begun(e) /\ Begun(p) => Abreast(e, p) /\ Ending(e, p)

PaceInv == Live => Marching \/ Walks

(***************************************************************************)
(* Who has been greeted                                                    *)
(***************************************************************************)
\* What a step of the test, or the failure of a rate, does.
Stands(e) == /\ idx'[e] = idx[e] /\ zero'[e] = zero[e] /\ sp'[e] = sp[e]
Tests(e) ==
  /\ UNCHANGED <<clean, now, greeted>>
  /\ \/ pc[e] \in Testing /\ pc'[e] \in Testing /\ Stands(e) /\ next'[e] = next[e] /\ UNCHANGED ok
     \/ pc[e] \in Testing \cup {"hi"} /\ Fail(e)
     \/ pc[e] \in Testing /\ Success(e)

LEMMA GoesStands ==
  ASSUME TypeInv, NEW e \in End, UNCHANGED <<fixed, table>>, NEW l, NEW n, Goto(e, l, n) \/ UNCHANGED <<pc, deadline>>
  PROVE  /\ UNCHANGED <<clean, now, ok>> /\ Stands(e) /\ next'[e] = next[e]
         /\ pc'[e] = l \/ pc'[e] = pc[e]
<1>1. pc \in [End -> Pcs]
  BY DEF TypeInv, Walk
<1>2. QED
  BY <1>1 DEF Goto, table, fixed, Stands

LEMMA StepTests ==
  ASSUME TypeInv, NEW e \in End, Step(e)
  PROVE  \/ MarchRead(e) \/ (pc[e] \in {"lok", "lokack"} /\ GivesUp(e)) \/ StartSpeed(e) \/ AtSync(e) \/ SendHi(e)
         \/ HiRead(e) /\ Heard(e) = "HI"
         \/ Tests(e)
<1>1. CASE HiRead(e) /\ Heard(e) # "HI"
  BY <1>1 DEF HiRead, Tests, Gets, fixed
<1>2. CASE StrEnd(e)
  <2>1. pc[e] = "str" /\ Goto(e, "tak", TimeOut) /\ UNCHANGED <<fixed, table, greeted>>
    BY <1>2 DEF StrEnd
  <2>2. QED
    BY <2>1, GoesStands DEF Tests, Testing
<1>3. CASE GivesUp(e) /\ pc[e] \notin {"lok", "lokack"}
  <2>1. Fail(e) /\ UNCHANGED <<fixed, greeted>> /\ pc[e] \in Reading
    BY <1>3 DEF GivesUp
  <2>2. pc[e] \in Testing \cup {"hi"}
    BY <1>3, <2>1 DEF Reading, Testing
  <2>3. QED
    BY <2>1, <2>2 DEF Tests, fixed
<1>4. CASE TestRead(e)
  <2>1. /\ pc[e] \in Testing /\ UNCHANGED <<fixed, greeted>>
        /\ GoesOn(e) \/ StaysOn \/ Success(e) \/ Fail(e)
    BY <1>4, TestReads
  <2>2. CASE GoesOn(e)
    <3>1. PICK l \in Testing, n \in Nat : Goto(e, l, n) /\ UNCHANGED table
      BY <2>2 DEF GoesOn
    <3>2. QED
      BY <2>1, <3>1, GoesStands DEF Tests
  <2>3. CASE StaysOn
    <3>1. UNCHANGED <<pc, deadline>> /\ UNCHANGED <<fixed, table>>
      BY <2>1, <2>3 DEF StaysOn
    <3>2. QED
      BY <2>1, <3>1, GoesStands DEF Tests
  <2>4. QED
    BY <2>1, <2>2, <2>3 DEF Tests, fixed
<1>5. QED
  BY <1>1, <1>2, <1>3, <1>4 DEF Step, TestRead

\* An end that is past a greeting stays so, and greets its peer once.
Gets1(e) == greeted' = greeted \cup {<<e, idx[e]>>} /\ pc[e] = "hi" /\ pc'[e] \in Testing /\ idx'[e] = idx[e]
LEMMA GreetMoves ==
  ASSUME TypeInv, TypeInv', NEW e \in End, Step(e)
  PROVE  /\ \A i \in Rate : Gone(e, i) => Gone(e, i)'
         /\ greeted' = greeted \/ Gets1(e)
         /\ pc'[e] \in Testing => (pc[e] \in Testing /\ idx'[e] = idx[e]) \/ Gets1(e)
<1>0. /\ pc \in [End -> Pcs] /\ deadline \in [End -> Nat] /\ idx \in [End -> Rate] /\ rate \in [End -> Rate]
      /\ idx[e] \in Nat /\ idx'[e] \in Nat
  BY RateValues DEF TypeInv, Walk
<1>1. CASE (MarchRead(e) \/ (pc[e] \in {"lok", "lokack"} /\ GivesUp(e)) \/ StartSpeed(e))
  <2>1. pc[e] \in {"lok", "lokack", "hold"} /\ pc'[e] \in {"hold", "done", "sync"} /\ greeted' = greeted
    <3>1. CASE MarchRead(e)
      <4>1. pc[e] \in {"lok", "lokack"} /\ greeted' = greeted /\ (Goto(e, "hold", 1) \/ Goto(e, "done", 0))
        BY <3>1 DEF MarchRead, NoMarch, Gets
      <4>2. QED
        BY <1>0, <4>1 DEF Goto
    <3>2. CASE GivesUp(e) /\ pc[e] \in {"lok", "lokack"}
      BY <1>0, <3>2 DEF GivesUp, NoMarch, Goto
    <3>3. CASE StartSpeed(e)
      BY <1>0, <3>3 DEF StartSpeed, Begin, Goto
    <3>4. QED
      BY <1>1, <3>1, <3>2, <3>3
  <2>2. idx[e] = 1
    BY <2>1 DEF TypeInv, Tabled, Begun
  <2>3. \A i \in Rate : i >= 1 /\ i \in Nat
    BY RateValues DEF Rate
  <2>4. \A i \in Rate : ~Gone(e, i)
    BY <2>1, <2>2, <2>3 DEF Gone, Testing
  <2>5. QED
    BY <2>1, <2>4 DEF Testing
<1>2. CASE AtSync(e) \/ SendHi(e)
  <2>1. /\ pc[e] \in {"sync", "slop"} /\ pc'[e] \in {"slop", "hi"} /\ idx' = idx /\ greeted' = greeted
    BY <1>0, <1>2 DEF AtSync, SendHi, Goto, table
  <2>2. QED
    BY <2>1 DEF Gone, Testing
<1>3. CASE HiRead(e) /\ Heard(e) = "HI"
  <2>1. pc[e] = "hi" /\ idx' = idx /\ greeted' = greeted \cup {<<e, idx[e]>>}
    BY <1>3 DEF HiRead, Gets
  <2>2. pc'[e] \in {"hs", "rhs"}
    BY <1>0, <1>3 DEF HiRead, StartSend, StartReceive, Goto
  <2>3. QED
    BY <2>1, <2>2 DEF Gone, Testing, Gets1
<1>4. CASE Tests(e)
  <2>1. greeted' = greeted
    BY <1>4 DEF Tests
  <2>2. \/ pc[e] \in Testing /\ pc'[e] \in Testing \cup {"done"} /\ idx'[e] = idx[e]
        \/ pc'[e] = "sync" /\ idx'[e] = idx[e] + 1
        \/ pc'[e] = "done" /\ idx'[e] = idx[e]
    BY <1>0, <1>4 DEF Tests, Stands, Fail, Success, Begin, Goto
  <2>3. \A i \in Rate : i \in Nat
    BY RateValues
  <2>4. QED
    BY <1>0, <2>1, <2>2, <2>3 DEF Gone, Testing
<1>5. QED
  BY <1>1, <1>2, <1>3, <1>4, StepTests

LEMMA GreetStill ==
  ASSUME UNCHANGED <<idx, pc, greeted>>
  PROVE  (GreetInv <=> GreetInv') /\ (Broken <=> Broken')
<1>1. \A e, i : Gone(e, i) <=> Gone(e, i)'
  BY DEF Gone
<1>2. QED
  BY <1>1 DEF GreetInv, Broken

LEMMA LokMoves ==
  ASSUME TypeInv, SendLok
  PROVE  /\ pc["server"] = "march" /\ pc'["server"] = "lokack" /\ pc'["client"] = pc["client"]
         /\ UNCHANGED <<clean, now, idx, greeted, ok>> /\ \A e \in End : \A i : Gone(e, i) <=> Gone(e, i)'
<1>1. pc \in [End -> Pcs] /\ "client" \in End /\ "server" \in End
  BY Ends DEF TypeInv, Walk
<1>2. /\ pc["server"] = "march" /\ pc'["server"] = "lokack" /\ pc'["client"] = pc["client"]
      /\ UNCHANGED <<clean, now, idx, greeted, ok>>
  BY <1>1 DEF SendLok, Goto, fixed, table
<1>3. QED
  BY <1>2, Ends DEF Gone, Testing

LEMMA GreetStep ==
  ASSUME TypeInv, TypeInv', GreetInv, NEW e \in End, Step(e)
  PROVE  GreetInv' /\ (Broken => Broken')
<1>1. /\ \A i \in Rate : Gone(e, i) => Gone(e, i)'
      /\ greeted' = greeted \/ Gets1(e)
      /\ pc'[e] \in Testing => (pc[e] \in Testing /\ idx'[e] = idx[e]) \/ Gets1(e)
  BY GreetMoves
<1>2. PICK p \in End : p # e
  BY Ends
<1>3. Aside(p) /\ idx[e] \in Rate /\ End = {e, p}
  BY <1>2, Ends, StepBehaves DEF Behaves, TypeInv, Walk
<1>4. \A i \in Rate : Gone(p, i) => Gone(p, i)'
  BY <1>3 DEF Gone, Aside
<1>5. Gets1(e) => ~Gone(e, idx[e]) /\ Gone(e, idx[e])'
  <2>1. ~(idx[e] > idx[e])
    BY <1>3, RateValues
  <2>2. QED
    BY <2>1 DEF Gets1, Gone, Testing
<1>6. GreetInv'
  <2>1. \A x \in End, i \in Rate : <<x, i>> \in greeted' => Gone(x, i)'
    BY <1>1, <1>3, <1>4, <1>5 DEF GreetInv, Gets1
  <2>2. \A x \in End : pc'[x] \in Testing => <<x, idx'[x]>> \in greeted'
    BY <1>1, <1>3 DEF GreetInv, Gets1, Aside
  <2>3. QED
    BY <2>1, <2>2 DEF GreetInv
<1>7. ASSUME Broken PROVE Broken'
  <2>1. PICK x \in End, y \in End, i \in Rate :
          y # x /\ <<x, i>> \in greeted /\ <<y, i>> \notin greeted /\ Gone(y, i)
    BY <1>7 DEF Broken
  <2>2. <<x, i>> \in greeted' /\ Gone(y, i)'
    BY <1>1, <1>3, <1>4, <2>1 DEF Gets1
  <2>3. <<y, i>> \notin greeted'
    BY <1>1, <1>5, <2>1 DEF Gets1
  <2>4. QED
    BY <2>1, <2>2, <2>3 DEF Broken
<1>8. QED
  BY <1>6, <1>7

LEMMA GreetInit == Init => GreetInv
<1> SUFFICES ASSUME Init PROVE GreetInv
  OBVIOUS
<1>1. greeted = {} /\ \A e \in End : pc[e] \in {"lok", "march"}
  BY DEF Init
<1>2. QED
  BY <1>1 DEF GreetInv, Testing

\* The ends are parted for good, or the client has settled, once and for all.
LEMMA LiveBefore ==
  ASSUME TypeInv, TypeInv', GreetInv, [Next]_vars
  PROVE  GreetInv' /\ (Live' => Live)
<1>1. CASE SendLok
  <2>1. /\ pc["server"] = "march" /\ pc'["server"] = "lokack" /\ pc'["client"] = pc["client"]
        /\ UNCHANGED <<clean, now, idx, greeted, ok>> /\ \A e \in End : \A i : Gone(e, i) <=> Gone(e, i)'
    BY <1>1, LokMoves
  <2>2. \A e \in End : pc'[e] \in Testing => pc[e] \in Testing
    BY <2>1, Ends DEF Testing
  <2>3. QED
    BY <2>1, <2>2 DEF GreetInv, Live, Broken
<1>2. CASE Tick \/ UNCHANGED vars
  <2>1. UNCHANGED <<clean, idx, pc, greeted, ok>>
    BY <1>2 DEF Tick, table, vars
  <2>2. QED
    BY <2>1, GreetStill DEF Live
<1>3. ASSUME NEW e \in End, Step(e)
      PROVE  GreetInv' /\ (Live' => Live)
  <2>1. clean' = clean
    BY <1>3 DEF Step, MarchRead, StartSpeed, AtSync, SendHi, HiRead, HandshakeRead, StrEnd, TakRead, LastRead,
                ReceiverRead, CheckRead, AckRead, GivesUp, fixed
  <2>2. ok["client"] => ok'["client"]
    <3>1. CASE e = "client"
      <4>1. ~ok["client"]
        BY <1>3, <3>1 DEF Step, MarchRead, StartSpeed, AtSync, SendHi, HiRead, HandshakeRead, StrEnd, TakRead, LastRead,
             ReceiverRead, CheckRead, AckRead, GivesUp, Gets, Reading, TypeInv, Tabled
      <4>2. QED
        BY <4>1
    <3>2. CASE e # "client"
      <4>1. ok \in [End -> BOOLEAN]
        BY DEF TypeInv, Walk
      <4>2. UNCHANGED ok \/ Success(e)
        BY <1>3, StepTests DEF MarchRead, NoMarch, StartSpeed, AtSync, SendHi, HiRead, GivesUp, Tests, Fail, table
      <4>3. QED
        BY <3>2, <4>1, <4>2, Ends DEF Success
    <3>3. QED
      BY <3>1, <3>2
  <2>3. QED
    BY <1>3, <2>1, <2>2, GreetStep DEF Live
<1>4. QED
  BY <1>1, <1>2, <1>3 DEF Next, Returned

(***************************************************************************)
(* What is under way at the slowest rate                                   *)
(***************************************************************************)
LEMMA NoneThere ==
  ASSUME TypeInv, NEW e \in End
  PROVE  /\ None(e) <=> Len(chan[e]) = 0
         /\ Len(chan[e]) \in Nat
         /\ \A a, b : One(e, a) \/ Two(e, a, b) => chan[e] # <<>>
<1>1. chan[e] \in Seq(Token)
  BY DEF TypeInv
<1>2. QED
  BY <1>1, EmptySeq, LenProperties DEF None, One, Two

LEMMA HearsOne ==
  ASSUME TypeInv, NEW e \in End, rate[e] = Slowest, NEW a, NEW b, One(e, a) \/ Two(e, a, b)
  PROVE  chan[e] # <<>> /\ Heard(e) = a
BY NoneThere DEF One, Two, Is, Heard, Byte

\* End e has read the first symbol, or nothing.
LEMMA TakesFirst ==
  ASSUME TypeInv, TypeInv', NEW e \in End, NEW p \in End, NEW s, Sent(e, p, s, 1)
  PROVE  /\ \A a : One(e, a) => None(e)'
         /\ \A a, b : Two(e, a, b) => One(e, b)' /\ Age(e, 1)' = Age(e, 2)
<1>1. Len(chan'[e]) = Len(chan[e]) - 1 /\ \A k \in 1 .. Len(chan[e]) - 1 : chan'[e][k] = chan[e][k + 1]
  BY DEF Sent
<1>2. ASSUME NEW a, One(e, a) PROVE None(e)'
  <2>1. Len(chan'[e]) = 0
    BY <1>1, <1>2 DEF One
  <2>2. chan'[e] \in Seq(Token)
    BY DEF TypeInv
  <2>3. QED
    BY <2>1, <2>2, EmptySeq DEF None
<1>3. ASSUME NEW a, NEW b, Two(e, a, b) PROVE One(e, b)' /\ Age(e, 1)' = Age(e, 2)
  BY <1>1, <1>3 DEF One, Two, Is, Age
<1>4. QED
  BY <1>2, <1>3

LEMMA TakesNothing ==
  ASSUME TypeInv, TypeInv', NEW e \in End, NEW p \in End, NEW s, Sent(e, p, s, 0)
  PROVE  /\ None(e) => None(e)'
         /\ \A a : One(e, a) => One(e, a)' /\ Age(e, 1)' = Age(e, 1)
<1>1. Len(chan'[e]) = Len(chan[e]) - 0 /\ \A k \in 1 .. Len(chan[e]) - 0 : chan'[e][k] = chan[e][k + 0]
  BY DEF Sent
<1>2. ASSUME None(e) PROVE None(e)'
  <2>1. Len(chan'[e]) = 0
    BY <1>1, <1>2, NoneThere
  <2>2. chan'[e] \in Seq(Token)
    BY DEF TypeInv
  <2>3. QED
    BY <2>1, <2>2, EmptySeq DEF None
<1>3. ASSUME NEW a, One(e, a) PROVE One(e, a)' /\ Age(e, 1)' = Age(e, 1)
  BY <1>1, <1>3 DEF One, Is, Age
<1>4. QED
  BY <1>2, <1>3

\* What end e sends at the slowest rate is there for end p.
Arrives(p, s) ==
  /\ Len(chan'[p]) = Len(chan[p]) + Len(s)
  /\ \A k \in 1 .. Len(chan[p]) : chan'[p][k] = chan[p][k]
  /\ \A k \in 1 .. Len(s) : /\ chan'[p][Len(chan[p]) + k].sym = s[k]
                            /\ chan'[p][Len(chan[p]) + k].rate = Slowest
                            /\ chan'[p][Len(chan[p]) + k].old = FALSE
LEMMA Arriving ==
  ASSUME TypeInv, NEW e \in End, NEW p \in End, p # e, Slowest \in clean, rate[e] = Slowest,
         NEW s \in Message, NEW n \in {0, 1}, n = 1 => chan[e] # <<>>, SendRead(e, s, n)
  PROVE  Sent(e, p, s, n) /\ Arrives(p, s)
<1>1. Sent(e, p, s, n) /\ \A k \in 1 .. Len(s) : chan'[p][Len(chan[p]) + k].sym = s[k]
  BY CleanSend
<1>2. QED
  BY <1>1 DEF Sent, Arrives

LEMMA NothingArrives ==
  ASSUME TypeInv, TypeInv', NEW p \in End, NEW s, s = <<>>, Arrives(p, s)
  PROVE  chan'[p] = chan[p]
<1>1. Len(chan'[p]) = Len(chan[p]) /\ \A k \in 1 .. Len(chan[p]) : chan'[p][k] = chan[p][k]
  <2>1. Len(s) = 0 /\ Len(chan[p]) \in Nat
    BY NoneThere
  <2>2. QED
    BY <2>1 DEF Arrives
<1>2. chan'[p] \in Seq(Token) /\ chan[p] \in Seq(Token)
  BY DEF TypeInv
<1>3. QED
  BY <1>1, <1>2, SeqEqual

LEMMA OneArrives ==
  ASSUME TypeInv, TypeInv', NEW p \in End, NEW s, NEW a, s = <<a>>, Arrives(p, s)
  PROVE  /\ None(p) => One(p, a)' /\ Age(p, 1)' = 0
         /\ \A b : One(p, b) => Two(p, b, a)' /\ Age(p, 1)' = Age(p, 1) /\ Age(p, 2)' = 0
<1>1. Len(s) = 1 /\ s[1] = a /\ 1 \in 1 .. Len(s)
  OBVIOUS
<1>2. None(p) => Len(chan[p]) = 0
  BY NoneThere
<1>3. ASSUME None(p) PROVE One(p, a)' /\ Age(p, 1)' = 0
  <2>1. Len(chan'[p]) = 1
    BY <1>1, <1>2, <1>3 DEF Arrives
  <2>2. chan'[p][1].sym = a /\ chan'[p][1].rate = Slowest /\ chan'[p][1].old = FALSE
    BY <1>1, <1>2, <1>3 DEF Arrives
  <2>3. QED
    BY <2>1, <2>2 DEF One, Is, Age
<1>4. ASSUME NEW b, One(p, b) PROVE Two(p, b, a)' /\ Age(p, 1)' = Age(p, 1) /\ Age(p, 2)' = 0
  <2>1. Len(chan[p]) = 1 /\ Len(chan'[p]) = 2
    BY <1>1, <1>4 DEF Arrives, One
  <2>2. chan'[p][1] = chan[p][1] /\ Is(p, 1, b)
    BY <1>4, <2>1 DEF Arrives, One
  <2>3. chan'[p][2].sym = a /\ chan'[p][2].rate = Slowest /\ chan'[p][2].old = FALSE
    BY <1>1, <2>1 DEF Arrives
  <2>4. QED
    BY <2>1, <2>2, <2>3 DEF Two, Is, Age
<1>5. QED
  BY <1>3, <1>4

LEMMA TwoArrive ==
  ASSUME TypeInv, TypeInv', NEW p \in End, NEW s, NEW a, NEW b, s = <<a, b>>, Arrives(p, s), None(p)
  PROVE  Two(p, a, b)' /\ Age(p, 1)' = 0 /\ Age(p, 2)' = 0
<1>1. Len(s) = 2 /\ s[1] = a /\ s[2] = b /\ 1 \in 1 .. Len(s) /\ 2 \in 1 .. Len(s) /\ Len(chan[p]) = 0
  BY NoneThere
<1>2. Len(chan'[p]) = 2
  BY <1>1 DEF Arrives
<1>3. chan'[p][1].sym = a /\ chan'[p][1].rate = Slowest /\ chan'[p][1].old = FALSE
  BY <1>1 DEF Arrives
<1>4. chan'[p][2].sym = b /\ chan'[p][2].rate = Slowest /\ chan'[p][2].old = FALSE
  BY <1>1 DEF Arrives
<1>5. QED
  BY <1>2, <1>3, <1>4 DEF Two, Is, Age

\* A tick makes a symbol old, and an end that reads leaves none that is.
LEMMA TickThere ==
  ASSUME TypeInv, MeetInv, Tick, NEW e \in End
  PROVE  /\ None(e) => None(e)'
         /\ \A a : One(e, a) => One(e, a)' /\ Age(e, 1)' = 1 /\ (pc[e] \in Reading => Age(e, 1) = 0)
         /\ \A a, b : Two(e, a, b) => /\ Two(e, a, b)' /\ Age(e, 1)' = 1 /\ Age(e, 2)' = 1
                                      /\ pc[e] \in Reading => Age(e, 1) = 0 /\ Age(e, 2) = 0
<1>1. /\ Len(chan'[e]) = Len(chan[e])
      /\ \A k \in 1 .. Len(chan[e]) : chan'[e][k].sym = chan[e][k].sym /\ chan'[e][k].rate = chan[e][k].rate
  BY TickTypes
<1>2. \A k \in 1 .. Len(chan[e]) : Age(e, k)' = 1
  BY <1>1, TickOld DEF At, Age
<1>3. pc[e] \in Reading => \A k \in 1 .. Len(chan[e]) : Age(e, k) = 0
  BY TickLine DEF MeetInv, At, Age
<1>4. None(e) => None(e)'
  <2>1. TypeInv'
    BY TickTypes
  <2>2. chan'[e] \in Seq(Token) /\ chan[e] \in Seq(Token)
    BY <2>1 DEF TypeInv
  <2>3. QED
    BY <1>1, <2>2, EmptySeq DEF None
<1>5. ASSUME NEW a, One(e, a)
      PROVE  One(e, a)' /\ Age(e, 1)' = 1 /\ (pc[e] \in Reading => Age(e, 1) = 0)
  BY <1>1, <1>2, <1>3, <1>5 DEF One, Is
<1>6. ASSUME NEW a, NEW b, Two(e, a, b)
      PROVE  /\ Two(e, a, b)' /\ Age(e, 1)' = 1 /\ Age(e, 2)' = 1
             /\ pc[e] \in Reading => Age(e, 1) = 0 /\ Age(e, 2) = 0
  BY <1>1, <1>2, <1>3, <1>6 DEF Two, Is
<1>7. QED
  BY <1>4, <1>5, <1>6

(***************************************************************************)
(* The steps of the exchange                                               *)
(***************************************************************************)
\* What an end can do where it stands.
LEMMA StepAt ==
  ASSUME NEW e \in End, Step(e)
  PROVE  /\ pc[e] = "hold" => StartSpeed(e)
         /\ pc[e] = "sync" => AtSync(e)
         /\ pc[e] = "slop" => SendHi(e)
         /\ pc[e] = "hi" => HiRead(e) \/ GivesUp(e)
         /\ pc[e] = "hs" => HandshakeRead(e) \/ GivesUp(e)
         /\ pc[e] = "str" => StrEnd(e)
         /\ pc[e] = "tak" => TakRead(e) \/ GivesUp(e)
         /\ pc[e] = "last" => LastRead(e) \/ GivesUp(e)
         /\ pc[e] = "rhs" => ReceiverRead(e) \/ GivesUp(e)
         /\ pc[e] = "check" => CheckRead(e) \/ GivesUp(e)
         /\ pc[e] = "ack" => AckRead(e) \/ GivesUp(e)
         /\ pc[e] \in {"lok", "lokack"} => MarchRead(e) \/ GivesUp(e)
         /\ pc[e] \notin {"march", "done"}
BY Ends DEF Step, MarchRead, StartSpeed, AtSync, SendHi, HiRead, HandshakeRead, StrEnd, TakRead, LastRead,
       ReceiverRead, CheckRead, AckRead, GivesUp, Gets, Reading

\* An end for which nothing is under way, and whose wait is not over, does nothing.
LEMMA Patient ==
  ASSUME NEW e \in End, Step(e), pc[e] \in Reading, None(e)
  PROVE  GivesUp(e) /\ Over(e)
<1>1. GivesUp(e)
  BY Ends DEF Step, MarchRead, StartSpeed, AtSync, SendHi, HiRead, HandshakeRead, StrEnd, TakRead, LastRead,
       ReceiverRead, CheckRead, AckRead, Gets, Reading, None
<1>2. QED
  BY <1>1 DEF GivesUp

\* Both ends are at the slowest rate, beyond its sync point.
Level ==
  /\ Slowest \in clean
  /\ \A e \in End : pc[e] \in {"slop", "hi"} \cup Testing /\ idx[e] = Slowest /\ rate[e] = Slowest /\ Clocked(e)
  /\ \A e, p \in End : Mark(e) <= Mark(p) + 1
\* What a step of the exchange does.
Does(e, p, l, t, s, n) ==
  /\ pc'[e] = l /\ deadline'[e] = now + t /\ Stands(e) /\ Aside(p)
  /\ Sent(e, p, s, n) /\ Arrives(p, s)
Doer(e, p) == TypeInv /\ TypeInv' /\ Due /\ Level /\ e \in End /\ p \in End /\ p # e

LEMMA Doing ==
  ASSUME NEW e, NEW p, Doer(e, p), NEW s \in Message, NEW n \in {0, 1}, n = 1 => chan[e] # <<>>,
         SendRead(e, s, n), NEW l, NEW t, Goto(e, l, t), UNCHANGED <<fixed, table>>
  PROVE  Does(e, p, l, t, s, n)
<1>1. /\ TypeInv /\ e \in End /\ p \in End /\ p # e /\ Slowest \in clean /\ rate[e] = Slowest
  BY DEF Doer, Level
<1>2. pc'[e] = l /\ deadline'[e] = now + t /\ Aside(p) /\ Stands(e)
  BY <1>1, GoneTo DEF Stands
<1>3. Sent(e, p, s, n) /\ Arrives(p, s)
  BY <1>1, Arriving
<1>4. QED
  BY <1>2, <1>3 DEF Does

LEMMA DoesHi ==
  ASSUME NEW e, NEW p, Doer(e, p), SendHi(e)
  PROVE  Does(e, p, "hi", 2 * Slop, <<"HI">>, 0) /\ now >= deadline[e] /\ UNCHANGED <<clean, greeted>>
<1>1. /\ SendRead(e, <<"HI">>, 0) /\ Goto(e, "hi", 2 * Slop) /\ UNCHANGED <<fixed, table>>
      /\ now >= deadline[e] /\ UNCHANGED <<clean, greeted>>
  BY DEF SendHi, Send, fixed
<1>2. QED
  BY <1>1, Messages, Doing

LEMMA DoesHiRead ==
  ASSUME NEW e, NEW p, Doer(e, p), HiRead(e), Heard(e) = "HI"
  PROVE  IF e = "client" THEN Does(e, p, "hs", TimeOut, <<"SYNC_BYTE">>, 1) ELSE Does(e, p, "rhs", TimeOut, <<>>, 1)
<1>1. TypeInv /\ e \in End /\ p \in End /\ p # e /\ Slowest \in clean /\ rate[e] = Slowest /\ chan[e] # <<>>
  BY DEF Doer, Level, HiRead, Gets
<1>2. /\ pc'[e] = (IF e = "client" THEN "hs" ELSE "rhs") /\ deadline'[e] = now + TimeOut /\ Aside(p) /\ Stands(e)
  BY <1>1, GreetedMoves DEF Stands
<1>3. IF e = "client" THEN SendRead(e, <<"SYNC_BYTE">>, 1) ELSE SendRead(e, <<>>, 1)
  BY DEF HiRead, StartSend
<1>4. IF e = "client" THEN Sent(e, p, <<"SYNC_BYTE">>, 1) /\ Arrives(p, <<"SYNC_BYTE">>)
                      ELSE Sent(e, p, <<>>, 1) /\ Arrives(p, <<>>)
  BY <1>1, <1>3, Messages, Arriving
<1>5. QED
  BY <1>2, <1>4 DEF Does

LEMMA DoesSend ==
  ASSUME NEW e, NEW p, Doer(e, p)
  PROVE  /\ HandshakeRead(e) /\ Heard(e) = "ACK" => Does(e, p, "str", StrTicks(Slowest), <<"SYNC_END">>, 1)
         /\ StrEnd(e) => Does(e, p, "tak", TimeOut, <<"STR">>, 0)
         /\ TakRead(e) /\ Heard(e) = "TAK" => Does(e, p, "last", HalfSec, <<"ACK">>, 1)
         /\ e = "client" /\ LastRead(e) /\ Heard(e) = "TAK" => Does(e, p, "rhs", TimeOut, <<>>, 1)
<1>0. rate[e] = Slowest /\ idx[e] = Slowest /\ Slowest \in clean
  BY DEF Doer, Level
<1>1. ASSUME HandshakeRead(e), Heard(e) = "ACK"
      PROVE  Does(e, p, "str", StrTicks(Slowest), <<"SYNC_END">>, 1)
  <2>1. /\ chan[e] # <<>> /\ SendRead(e, <<"SYNC_END">>, 1) /\ Goto(e, "str", StrTicks(Slowest))
        /\ UNCHANGED <<fixed, table>>
    BY <1>0, <1>1 DEF HandshakeRead, Gets
  <2>2. QED
    BY <2>1, Messages, Doing
<1>2. ASSUME StrEnd(e) PROVE Does(e, p, "tak", TimeOut, <<"STR">>, 0)
  <2>1. SendRead(e, <<"STR">>, 0) /\ Goto(e, "tak", TimeOut) /\ UNCHANGED <<fixed, table>>
    BY <1>2 DEF StrEnd, Send
  <2>2. QED
    BY <2>1, Messages, Doing
<1>3. ASSUME TakRead(e), Heard(e) = "TAK" PROVE Does(e, p, "last", HalfSec, <<"ACK">>, 1)
  <2>1. /\ chan[e] # <<>> /\ SendRead(e, <<"ACK">>, 1) /\ Goto(e, "last", HalfSec) /\ UNCHANGED <<fixed, table>>
    BY <1>3 DEF TakRead, AfterAck, Gets
  <2>2. QED
    BY <2>1, Messages, Doing
<1>4. ASSUME e = "client", LastRead(e), Heard(e) = "TAK" PROVE Does(e, p, "rhs", TimeOut, <<>>, 1)
  <2>1. /\ chan[e] # <<>> /\ SendRead(e, <<>>, 1) /\ Goto(e, "rhs", TimeOut) /\ UNCHANGED <<fixed, table>>
    BY <1>4 DEF LastRead, StartReceive, Gets
  <2>2. QED
    BY <2>1, Messages, Doing
<1>5. QED
  BY <1>1, <1>2, <1>3, <1>4

LEMMA DoesReceive ==
  ASSUME NEW e, NEW p, Doer(e, p)
  PROVE  /\ ReceiverRead(e) /\ Heard(e) = "SYNC_BYTE" =>
              /\ pc'[e] = pc[e] /\ deadline'[e] = deadline[e] /\ Stands(e) /\ Aside(p)
              /\ Sent(e, p, <<"ACK">>, 1) /\ Arrives(p, <<"ACK">>)
         /\ ReceiverRead(e) /\ Heard(e) = "SYNC_END" =>
              Does(e, p, "check", StrTicks(Slowest) + ByteWait, <<>>, 1)
         /\ CheckRead(e) /\ Heard(e) = "STR" => Does(e, p, "ack", HalfSec, <<"TAK">>, 1)
         /\ e = "server" /\ AckRead(e) /\ Heard(e) = "ACK" =>
              Does(e, p, "hs", TimeOut, <<"TAK", "SYNC_BYTE">>, 1)
<1>0. /\ rate[e] = Slowest /\ idx[e] = Slowest /\ Slowest \in clean
      /\ TypeInv /\ e \in End /\ p \in End /\ p # e
  BY DEF Doer, Level
<1>1. ASSUME ReceiverRead(e), Heard(e) = "SYNC_BYTE"
      PROVE  /\ pc'[e] = pc[e] /\ deadline'[e] = deadline[e] /\ Stands(e) /\ Aside(p)
             /\ Sent(e, p, <<"ACK">>, 1) /\ Arrives(p, <<"ACK">>)
  <2>1. /\ chan[e] # <<>> /\ SendRead(e, <<"ACK">>, 1) /\ UNCHANGED <<pc, deadline, fixed, table>>
    BY <1>1 DEF ReceiverRead, Gets
  <2>2. Sent(e, p, <<"ACK">>, 1) /\ Arrives(p, <<"ACK">>)
    BY <1>0, <2>1, Messages, Arriving
  <2>3. QED
    BY <2>1, <2>2 DEF Aside, Stands, fixed, table
<1>2. ASSUME ReceiverRead(e), Heard(e) = "SYNC_END"
      PROVE  Does(e, p, "check", StrTicks(Slowest) + ByteWait, <<>>, 1)
  <2>1. /\ chan[e] # <<>> /\ SendRead(e, <<>>, 1) /\ Goto(e, "check", StrTicks(Slowest) + ByteWait)
        /\ UNCHANGED <<fixed, table>>
    BY <1>0, <1>2 DEF ReceiverRead, Gets
  <2>2. QED
    BY <2>1, Messages, Doing
<1>3. ASSUME CheckRead(e), Heard(e) = "STR" PROVE Does(e, p, "ack", HalfSec, <<"TAK">>, 1)
  <2>1. /\ chan[e] # <<>> /\ SendRead(e, <<"TAK">>, 1) /\ Goto(e, "ack", HalfSec) /\ UNCHANGED <<fixed, table>>
    BY <1>3 DEF CheckRead, Gets
  <2>2. QED
    BY <2>1, Messages, Doing
<1>4. ASSUME e = "server", AckRead(e), Heard(e) = "ACK"
      PROVE  Does(e, p, "hs", TimeOut, <<"TAK", "SYNC_BYTE">>, 1)
  <2>1. /\ chan[e] # <<>> /\ SendRead(e, <<"TAK", "SYNC_BYTE">>, 1) /\ Goto(e, "hs", TimeOut)
        /\ UNCHANGED <<fixed, table>>
    BY <1>4 DEF AckRead, Gets
  <2>2. QED
    BY <2>1, Messages, Doing
<1>5. QED
  BY <1>1, <1>2, <1>3, <1>4

\* What the arithmetic of the exchange rests on.
LEMMA Numbers ==
  ASSUME TypeInv
  PROVE  /\ now \in Nat /\ \A e \in End : deadline[e] \in Nat /\ zero[e] \in Nat /\ sp[e] \in Nat /\ Mark(e) \in Nat
         /\ Slop \in Nat /\ TimeOut \in Nat /\ HalfSec \in Nat /\ ByteWait \in Nat /\ StrTicks(Slowest) \in Nat
         /\ 2 <= Slop /\ 2 <= ByteWait /\ 3 <= HalfSec /\ 5 <= TimeOut
         /\ \A e \in End : \A k : Age(e, k) \in {0, 1}
<1>1. now \in Nat /\ \A e \in End : deadline[e] \in Nat /\ zero[e] \in Nat /\ sp[e] \in Nat
  BY Places, Ends
<1>2. \A e \in End : Mark(e) \in Nat
  BY <1>1 DEF Mark
<1>3. NumRates \in Nat /\ NumRates >= 1
  BY SerBaudAssumption
<1>4. Slowest \in Rate
  BY <1>3 DEF Slowest, Rate
<1>5. Slop \in Nat /\ TimeOut \in Nat /\ HalfSec \in Nat /\ ByteWait \in Nat /\ StrTicks(Slowest) \in Nat
  BY <1>4, TurnValues
<1>6. QED
  BY <1>1, <1>2, <1>5, SerBaudAnswers DEF Age

Keeps == now' = now /\ \A x \in End : Stands(x)
LEMMA Keeping ==
  ASSUME NEW e \in End, NEW p \in End, p # e, Stands(e), Aside(p)
  PROVE  Keeps /\ pc'[p] = pc[p] /\ deadline'[p] = deadline[p] /\ Mark(p)' = Mark(p) /\ Mark(e)' = Mark(e)
<1>1. End = {e, p}
  BY Ends
<1>2. QED
  BY <1>1 DEF Keeps, Stands, Aside, Mark

\* Whatever is under way to an end that reads, the wait for it is not over.
LEMMA SyncStep ==
  ASSUME NEW a, NEW b, Doer(a, b), NEW e \in {a, b}, Step(e), Sync(a, b)
  PROVE  Synced(a, b)' /\ Keeps
<1>1. /\ TypeInv /\ TypeInv' /\ a \in End /\ b \in End /\ a # b /\ rate[b] = Slowest /\ Doer(b, a)
  BY DEF Doer, Level
<1>2. pc[a] = "hs" /\ pc[b] = "rhs" /\ None(a) /\ One(b, "SYNC_BYTE") /\ Age(b, 1) \in {0, 1}
  BY <1>1, Numbers DEF Sync
<1>3. ~Over(a) /\ ~Over(b)
  BY <1>1, <1>2, Numbers DEF Sync, Over, Begins
<1>4. e = b /\ ReceiverRead(b) /\ Heard(b) = "SYNC_BYTE"
  BY <1>1, <1>2, <1>3, StepAt, Patient, HearsOne DEF GivesUp, Reading
<1>5. /\ pc'[b] = pc[b] /\ deadline'[b] = deadline[b] /\ Stands(b) /\ Aside(a)
      /\ Sent(b, a, <<"ACK">>, 1) /\ Arrives(a, <<"ACK">>)
  BY <1>1, <1>4, DoesReceive
<1>6. One(a, "ACK")' /\ Age(a, 1)' = 0 /\ None(b)'
  BY <1>1, <1>2, <1>5, TakesFirst, OneArrives
<1>7. Keeps /\ pc'[a] = pc[a] /\ deadline'[a] = deadline[a]
  BY <1>1, <1>5, Keeping
<1>8. Begins(a, TimeOut, 1 + Age(a, 1))' /\ Begins(b, TimeOut, 2 + Age(a, 1))'
  BY <1>1, <1>2, <1>5, <1>6, <1>7, Numbers DEF Sync, Begins, Keeps
<1>9. QED
  BY <1>2, <1>5, <1>6, <1>7, <1>8 DEF Synced

LEMMA SyncedStep ==
  ASSUME NEW a, NEW b, Doer(a, b), NEW e \in {a, b}, Step(e), Synced(a, b)
  PROVE  StrBegins(a, b)' /\ Keeps
<1>1. /\ TypeInv /\ TypeInv' /\ a \in End /\ b \in End /\ a # b /\ rate[a] = Slowest
  BY DEF Doer, Level
<1>2. pc[a] = "hs" /\ pc[b] = "rhs" /\ None(b) /\ One(a, "ACK") /\ Age(a, 1) \in {0, 1}
  BY <1>1, Numbers DEF Synced
<1>3. ~Over(a) /\ ~Over(b)
  BY <1>1, <1>2, Numbers DEF Synced, Over, Begins
<1>4. e = a /\ HandshakeRead(a) /\ Heard(a) = "ACK"
  BY <1>1, <1>2, <1>3, StepAt, Patient, HearsOne DEF GivesUp, Reading
<1>5. Does(a, b, "str", StrTicks(Slowest), <<"SYNC_END">>, 1)
  BY <1>4, DoesSend
<1>6. One(b, "SYNC_END")' /\ Age(b, 1)' = 0 /\ None(a)'
  BY <1>1, <1>2, <1>5, TakesFirst, OneArrives DEF Does
<1>7. Keeps /\ pc'[b] = pc[b] /\ deadline'[b] = deadline[b] /\ pc'[a] = "str" /\ deadline'[a] = now + StrTicks(Slowest)
  BY <1>1, <1>5, Keeping DEF Does
<1>8. deadline'[a] <= now' + StrTicks(Slowest) /\ Begins(b, TimeOut, 3 + Age(b, 1))'
  BY <1>1, <1>2, <1>6, <1>7, Numbers DEF Synced, Begins, Keeps
<1>9. QED
  BY <1>2, <1>6, <1>7, <1>8 DEF StrBegins

LEMMA StrBeginsStep ==
  ASSUME NEW a, NEW b, Doer(a, b), NEW e \in {a, b}, Step(e), StrBegins(a, b)
  PROVE  (StrOnWay(a, b) \/ StrShort(a, b))' /\ Keeps
<1>1. /\ TypeInv /\ TypeInv' /\ a \in End /\ b \in End /\ a # b /\ rate[b] = Slowest /\ Doer(b, a)
  BY DEF Doer, Level
<1>2. pc[a] = "str" /\ pc[b] = "rhs" /\ None(a) /\ One(b, "SYNC_END") /\ Age(b, 1) \in {0, 1}
  BY <1>1, Numbers DEF StrBegins
<1>3. ~Over(b)
  BY <1>1, <1>2, Numbers DEF StrBegins, Over, Begins
<1>4. (e = b /\ ReceiverRead(b) /\ Heard(b) = "SYNC_END") \/ (e = a /\ StrEnd(a))
  BY <1>1, <1>2, <1>3, StepAt, HearsOne DEF GivesUp
<1>5. CASE e = b /\ ReceiverRead(b) /\ Heard(b) = "SYNC_END"
  <2>1. Does(b, a, "check", StrTicks(Slowest) + ByteWait, <<>>, 1)
    BY <1>1, <1>5, DoesReceive
  <2>2. None(a)' /\ None(b)'
    BY <1>1, <1>2, <2>1, TakesFirst, NothingArrives DEF Does, None
  <2>3. /\ Keeps /\ pc'[a] = pc[a] /\ deadline'[a] = deadline[a] /\ pc'[b] = "check"
        /\ deadline'[b] = now + (StrTicks(Slowest) + ByteWait)
    BY <1>1, <2>1, Keeping DEF Does
  <2>4. deadline'[a] + ByteWait <= deadline'[b]
    BY <1>1, <2>3, Numbers DEF StrBegins
  <2>5. QED
    BY <1>2, <2>2, <2>3, <2>4 DEF StrOnWay
<1>6. CASE e = a /\ StrEnd(a)
  <2>1. Does(a, b, "tak", TimeOut, <<"STR">>, 0)
    BY <1>6, DoesSend
  <2>2. Two(b, "SYNC_END", "STR")' /\ Age(b, 1)' = Age(b, 1) /\ Age(b, 2)' = 0 /\ None(a)'
    BY <1>1, <1>2, <2>1, TakesNothing, OneArrives DEF Does
  <2>3. Keeps /\ pc'[b] = pc[b] /\ deadline'[b] = deadline[b] /\ pc'[a] = "tak" /\ deadline'[a] = now + TimeOut
    BY <1>1, <2>1, Keeping DEF Does
  <2>4. Begins(a, TimeOut, Age(b, 2))' /\ Begins(b, TimeOut, 3 + Age(b, 1))'
    BY <1>1, <1>2, <2>2, <2>3, Numbers DEF StrBegins, Begins, Keeps
  <2>5. QED
    BY <1>2, <2>2, <2>3, <2>4 DEF StrShort
<1>7. QED
  BY <1>4, <1>5, <1>6

LEMMA StrOnWayStep ==
  ASSUME NEW a, NEW b, Doer(a, b), NEW e \in {a, b}, Step(e), StrOnWay(a, b)
  PROVE  StrThere(a, b)' /\ Keeps
<1>1. /\ TypeInv /\ TypeInv' /\ a \in End /\ b \in End /\ a # b /\ Due
  BY DEF Doer
<1>2. pc[a] = "str" /\ pc[b] = "check" /\ None(a) /\ None(b) /\ deadline[a] + ByteWait <= deadline[b]
  BY DEF StrOnWay
<1>3. now <= deadline[a]
  <2>1. now <= deadline[a] + 0
    BY <1>1, <1>2 DEF Due, DueAt, Testing
  <2>2. QED
    BY <1>1, <2>1, Numbers
<1>4. ~Over(b)
  BY <1>1, <1>2, <1>3, Numbers DEF Over
<1>5. e = a /\ StrEnd(a)
  BY <1>1, <1>2, <1>4, StepAt, Patient DEF Reading
<1>6. Does(a, b, "tak", TimeOut, <<"STR">>, 0)
  BY <1>5, DoesSend
<1>7. One(b, "STR")' /\ Age(b, 1)' = 0 /\ None(a)'
  BY <1>1, <1>2, <1>6, TakesNothing, OneArrives DEF Does
<1>8. Keeps /\ pc'[b] = pc[b] /\ deadline'[b] = deadline[b] /\ pc'[a] = "tak" /\ deadline'[a] = now + TimeOut
  BY <1>1, <1>6, Keeping DEF Does
<1>9. Begins(a, TimeOut, Age(b, 1))' /\ Begins(b, ByteWait, Age(b, 1))'
  BY <1>1, <1>2, <1>3, <1>7, <1>8, Numbers DEF Begins, Keeps
<1>10. QED
  BY <1>2, <1>7, <1>8, <1>9 DEF StrThere

LEMMA StrShortStep ==
  ASSUME NEW a, NEW b, Doer(a, b), NEW e \in {a, b}, Step(e), StrShort(a, b)
  PROVE  StrThere(a, b)' /\ Keeps
<1>1. /\ TypeInv /\ TypeInv' /\ a \in End /\ b \in End /\ a # b /\ rate[b] = Slowest /\ Doer(b, a)
  BY DEF Doer, Level
<1>2. /\ pc[a] = "tak" /\ pc[b] = "rhs" /\ None(a) /\ Two(b, "SYNC_END", "STR")
      /\ Age(b, 1) \in {0, 1} /\ Age(b, 2) \in {0, 1}
  BY <1>1, Numbers DEF StrShort
<1>3. ~Over(a) /\ ~Over(b)
  BY <1>1, <1>2, Numbers DEF StrShort, Over, Begins
<1>4. e = b /\ ReceiverRead(b) /\ Heard(b) = "SYNC_END"
  BY <1>1, <1>2, <1>3, StepAt, Patient, HearsOne DEF GivesUp, Reading
<1>5. Does(b, a, "check", StrTicks(Slowest) + ByteWait, <<>>, 1)
  BY <1>1, <1>4, DoesReceive
<1>6. None(a)' /\ One(b, "STR")' /\ Age(b, 1)' = Age(b, 2)
  BY <1>1, <1>2, <1>5, TakesFirst, NothingArrives DEF Does, None
<1>7. /\ Keeps /\ pc'[a] = pc[a] /\ deadline'[a] = deadline[a] /\ pc'[b] = "check"
      /\ deadline'[b] = now + (StrTicks(Slowest) + ByteWait)
  BY <1>1, <1>5, Keeping DEF Does
<1>8. Begins(a, TimeOut, Age(b, 1))' /\ Begins(b, ByteWait, Age(b, 1))'
  BY <1>1, <1>2, <1>6, <1>7, Numbers DEF StrShort, Begins, Keeps
<1>9. QED
  BY <1>2, <1>6, <1>7, <1>8 DEF StrThere

LEMMA StrThereStep ==
  ASSUME NEW a, NEW b, Doer(a, b), NEW e \in {a, b}, Step(e), StrThere(a, b)
  PROVE  Right(a, b)' /\ Keeps
<1>1. /\ TypeInv /\ TypeInv' /\ a \in End /\ b \in End /\ a # b /\ rate[b] = Slowest /\ Doer(b, a)
  BY DEF Doer, Level
<1>2. pc[a] = "tak" /\ pc[b] = "check" /\ None(a) /\ One(b, "STR") /\ Age(b, 1) \in {0, 1}
  BY <1>1, Numbers DEF StrThere
<1>3. ~Over(a) /\ ~Over(b)
  BY <1>1, <1>2, Numbers DEF StrThere, Over, Begins
<1>4. e = b /\ CheckRead(b) /\ Heard(b) = "STR"
  BY <1>1, <1>2, <1>3, StepAt, Patient, HearsOne DEF GivesUp, Reading
<1>5. Does(b, a, "ack", HalfSec, <<"TAK">>, 1)
  BY <1>1, <1>4, DoesReceive
<1>6. One(a, "TAK")' /\ Age(a, 1)' = 0 /\ None(b)'
  BY <1>1, <1>2, <1>5, TakesFirst, OneArrives DEF Does
<1>7. Keeps /\ pc'[a] = pc[a] /\ deadline'[a] = deadline[a] /\ pc'[b] = "ack" /\ deadline'[b] = now + HalfSec
  BY <1>1, <1>5, Keeping DEF Does
<1>8. Begins(a, TimeOut, 1 + Age(a, 1))' /\ Begins(b, HalfSec, Age(a, 1))'
  BY <1>1, <1>2, <1>6, <1>7, Numbers DEF StrThere, Begins, Keeps
<1>9. QED
  BY <1>2, <1>6, <1>7, <1>8 DEF Right

LEMMA RightStep ==
  ASSUME NEW a, NEW b, Doer(a, b), NEW e \in {a, b}, Step(e), Right(a, b)
  PROVE  Agreed(a, b)' /\ Keeps
<1>1. /\ TypeInv /\ TypeInv' /\ a \in End /\ b \in End /\ a # b /\ rate[a] = Slowest
  BY DEF Doer, Level
<1>2. pc[a] = "tak" /\ pc[b] = "ack" /\ None(b) /\ One(a, "TAK") /\ Age(a, 1) \in {0, 1}
  BY <1>1, Numbers DEF Right
<1>3. ~Over(a) /\ ~Over(b)
  BY <1>1, <1>2, Numbers DEF Right, Over, Begins
<1>4. e = a /\ TakRead(a) /\ Heard(a) = "TAK"
  BY <1>1, <1>2, <1>3, StepAt, Patient, HearsOne DEF GivesUp, Reading
<1>5. Does(a, b, "last", HalfSec, <<"ACK">>, 1)
  BY <1>4, DoesSend
<1>6. One(b, "ACK")' /\ Age(b, 1)' = 0 /\ None(a)'
  BY <1>1, <1>2, <1>5, TakesFirst, OneArrives DEF Does
<1>7. Keeps /\ pc'[b] = pc[b] /\ deadline'[b] = deadline[b] /\ pc'[a] = "last" /\ deadline'[a] = now + HalfSec
  BY <1>1, <1>5, Keeping DEF Does
<1>8. Begins(a, HalfSec, Age(b, 1))' /\ Begins(b, HalfSec, 1 + Age(b, 1))'
  BY <1>1, <1>2, <1>6, <1>7, Numbers DEF Right, Begins, Keeps
<1>9. QED
  BY <1>2, <1>6, <1>7, <1>8 DEF Agreed

\* The server has been told that the line is right, and the client settles.
LEMMA AgreedStep ==
  ASSUME NEW a, NEW b, Doer(a, b), NEW e \in {a, b}, Step(e), Agreed(a, b), ~ok'["client"]
  PROVE  a = "client" /\ b = "server" /\ Turn' /\ Keeps
<1>1. /\ TypeInv /\ TypeInv' /\ a \in End /\ b \in End /\ a # b /\ rate[b] = Slowest /\ Doer(b, a)
  BY DEF Doer, Level
<1>2. pc[a] = "last" /\ pc[b] = "ack" /\ None(a) /\ One(b, "ACK") /\ Age(b, 1) \in {0, 1}
  BY <1>1, Numbers DEF Agreed
<1>3. ~Over(a) /\ ~Over(b)
  BY <1>1, <1>2, Numbers DEF Agreed, Over, Begins
<1>4. e = b /\ AckRead(b) /\ Heard(b) = "ACK"
  BY <1>1, <1>2, <1>3, StepAt, Patient, HearsOne DEF GivesUp, Reading
<1>5. b = "server" /\ a = "client"
  <2>1. ok \in [End -> BOOLEAN]
    BY <1>1 DEF TypeInv, Walk
  <2>2. b # "client"
    BY <1>4, <2>1, Ends DEF AckRead, Success
  <2>3. QED
    BY <1>1, <2>2, Ends
<1>6. Does(b, a, "hs", TimeOut, <<"TAK", "SYNC_BYTE">>, 1)
  BY <1>1, <1>4, <1>5, DoesReceive
<1>7. Two(a, "TAK", "SYNC_BYTE")' /\ Age(a, 1)' = 0 /\ Age(a, 2)' = 0 /\ None(b)'
  BY <1>1, <1>2, <1>6, TakesFirst, TwoArrive DEF Does
<1>8. Keeps /\ pc'[a] = pc[a] /\ deadline'[a] = deadline[a] /\ pc'[b] = "hs" /\ deadline'[b] = now + TimeOut
  BY <1>1, <1>6, Keeping DEF Does
<1>9. Begins(a, HalfSec, 1 + Age(a, 1))' /\ Begins(b, TimeOut, Age(a, 2))'
  BY <1>1, <1>2, <1>7, <1>8, Numbers DEF Agreed, Begins, Keeps
<1>10. QED
  BY <1>2, <1>5, <1>7, <1>8, <1>9 DEF Turn

LEMMA TurnStep ==
  ASSUME Doer("client", "server"), NEW e \in End, Step(e), Turn
  PROVE  Sync("server", "client")' /\ Keeps
<1> DEFINE a == "client"
           b == "server"
<1>1. /\ TypeInv /\ TypeInv' /\ a \in End /\ b \in End /\ a # b /\ rate[a] = Slowest /\ e \in {a, b}
  BY DEF Doer, Level, End
<1>2. /\ pc[a] = "last" /\ pc[b] = "hs" /\ Two(a, "TAK", "SYNC_BYTE") /\ None(b)
      /\ Age(a, 1) \in {0, 1} /\ Age(a, 2) \in {0, 1}
  BY <1>1, Numbers DEF Turn
<1>3. ~Over(a) /\ ~Over(b)
  BY <1>1, <1>2, Numbers DEF Turn, Over, Begins
<1>4. e = a /\ LastRead(a) /\ Heard(a) = "TAK"
  BY <1>1, <1>2, <1>3, StepAt, Patient, HearsOne DEF GivesUp, Reading
<1>5. Does(a, b, "rhs", TimeOut, <<>>, 1)
  BY <1>4, DoesSend
<1>6. None(b)' /\ One(a, "SYNC_BYTE")' /\ Age(a, 1)' = Age(a, 2)
  BY <1>1, <1>2, <1>5, TakesFirst, NothingArrives DEF Does, None
<1>7. Keeps /\ pc'[b] = pc[b] /\ deadline'[b] = deadline[b] /\ pc'[a] = "rhs" /\ deadline'[a] = now + TimeOut
  BY <1>1, <1>5, Keeping DEF Does
<1>8. Begins(b, TimeOut, Age(a, 1))' /\ Begins(a, TimeOut, 1 + Age(a, 1))'
  BY <1>1, <1>2, <1>6, <1>7, Numbers DEF Turn, Begins, Keeps
<1>9. QED
  BY <1>2, <1>6, <1>7, <1>8 DEF Sync

\* No greeting comes too late at the slowest rate.
LEMMA GreetOneStep ==
  ASSUME NEW e, NEW p, Doer(e, p), NEW x \in {e, p}, Step(x), GreetOne(e, p)
  PROVE  GreetBoth' /\ Keeps /\ \A y \in End : Clocked(y)'
<1>1. /\ TypeInv /\ TypeInv' /\ e \in End /\ p \in End /\ e # p /\ Doer(p, e) /\ Due
      /\ Mark(p) <= Mark(e) + 1 /\ Clocked(e) /\ Clocked(p) /\ End = {e, p}
  BY Ends DEF Doer, Level
<1>2. pc[e] = "hi" /\ pc[p] = "slop" /\ None(e) /\ One(p, "HI") /\ HiThere(p, e) /\ Age(p, 1) \in {0, 1}
  BY <1>1, Numbers DEF GreetOne
<1>3. now <= deadline[p] /\ deadline[p] = Mark(p) + Slop /\ deadline[e] = Mark(e) + 3 * Slop /\ now >= Mark(e) + Slop
  <2>1. now <= deadline[p] + 0
    BY <1>1, <1>2 DEF Due, DueAt
  <2>2. QED
    BY <1>1, <1>2, <2>1, Numbers DEF Clocked
<1>4. ~Over(e)
  BY <1>1, <1>2, <1>3, Numbers DEF Over
<1>5. x = p /\ SendHi(p)
  BY <1>1, <1>2, <1>4, StepAt, Patient DEF Reading
<1>6. Does(p, e, "hi", 2 * Slop, <<"HI">>, 0) /\ now >= deadline[p]
  BY <1>1, <1>5, DoesHi
<1>7. One(e, "HI")' /\ Age(e, 1)' = 0 /\ One(p, "HI")' /\ Age(p, 1)' = Age(p, 1)
  BY <1>1, <1>2, <1>6, TakesNothing, OneArrives DEF Does
<1>8. /\ Keeps /\ pc'[e] = pc[e] /\ deadline'[e] = deadline[e] /\ pc'[p] = "hi" /\ deadline'[p] = now + 2 * Slop
      /\ Mark(e)' = Mark(e) /\ Mark(p)' = Mark(p) /\ now' = now
  BY <1>1, <1>6, Keeping DEF Does, Keeps
<1>9. HiThere(e, p)' /\ HiThere(p, e)'
  BY <1>1, <1>2, <1>3, <1>7, <1>8, Numbers DEF HiThere
<1>10. Clocked(e)' /\ Clocked(p)'
  BY <1>1, <1>2, <1>3, <1>6, <1>8, Numbers DEF Clocked
<1>11. GreetBoth'
  BY <1>1, <1>2, <1>7, <1>8, <1>9 DEF GreetBoth
<1>12. QED
  BY <1>1, <1>8, <1>10, <1>11

LEMMA GreetNoneStep ==
  ASSUME NEW e, NEW p, Doer(e, p), Step(e), GreetNone
  PROVE  GreetOne(e, p)' /\ Keeps /\ \A y \in End : Clocked(y)'
<1>1. /\ TypeInv /\ TypeInv' /\ e \in End /\ p \in End /\ e # p /\ Due /\ Clocked(e) /\ Clocked(p) /\ End = {e, p}
  BY Ends DEF Doer, Level
<1>2. pc[e] = "slop" /\ pc[p] = "slop" /\ None(e) /\ None(p)
  BY <1>1 DEF GreetNone
<1>3. now <= deadline[e] /\ deadline[e] = Mark(e) + Slop
  <2>1. now <= deadline[e] + 0
    BY <1>1, <1>2 DEF Due, DueAt
  <2>2. QED
    BY <1>1, <1>2, <2>1, Numbers DEF Clocked
<1>4. Does(e, p, "hi", 2 * Slop, <<"HI">>, 0) /\ now >= deadline[e]
  BY <1>2, StepAt, DoesHi, <1>1
<1>5. None(e)' /\ One(p, "HI")' /\ Age(p, 1)' = 0
  BY <1>1, <1>2, <1>4, TakesNothing, OneArrives DEF Does
<1>6. /\ Keeps /\ pc'[p] = pc[p] /\ deadline'[p] = deadline[p] /\ pc'[e] = "hi" /\ deadline'[e] = now + 2 * Slop
      /\ Mark(e)' = Mark(e) /\ Mark(p)' = Mark(p) /\ now' = now
  BY <1>1, <1>4, Keeping DEF Does, Keeps
<1>7. HiThere(p, e)'
  BY <1>1, <1>3, <1>5, <1>6, Numbers DEF HiThere
<1>8. Clocked(e)' /\ Clocked(p)'
  BY <1>1, <1>2, <1>3, <1>4, <1>6, Numbers DEF Clocked
<1>9. QED
  BY <1>1, <1>2, <1>5, <1>6, <1>7, <1>8 DEF GreetOne

LEMMA GreetBothStep ==
  ASSUME NEW e, NEW p, Doer(e, p), Step(e), GreetBoth
  PROVE  (IF e = "client" THEN GreetClient ELSE GreetServer)' /\ Keeps /\ \A y \in End : Clocked(y)'
<1>1. /\ TypeInv /\ TypeInv' /\ e \in End /\ p \in End /\ e # p /\ Due /\ Clocked(e) /\ Clocked(p) /\ End = {e, p}
      /\ Mark(p) <= Mark(e) + 1 /\ rate[e] = Slowest
  BY Ends DEF Doer, Level
<1>2. /\ pc[e] = "hi" /\ One(e, "HI") /\ HiThere(e, p) /\ Age(e, 1) \in {0, 1}
      /\ pc[p] = "hi" /\ One(p, "HI") /\ HiThere(p, e) /\ Age(p, 1) \in {0, 1}
  BY <1>1, Numbers DEF GreetBoth
<1>3. deadline[e] = Mark(e) + 3 * Slop
  BY <1>1, <1>2 DEF Clocked
<1>4. ~Over(e)
  BY <1>1, <1>2, <1>3, Numbers DEF Over, HiThere
<1>5. HiRead(e) /\ Heard(e) = "HI"
  BY <1>1, <1>2, <1>4, StepAt, HearsOne DEF GivesUp
<1>6. CASE e = "client"
  <2>1. Does(e, p, "hs", TimeOut, <<"SYNC_BYTE">>, 1)
    BY <1>5, <1>6, DoesHiRead
  <2>2. None(e)' /\ Two(p, "HI", "SYNC_BYTE")' /\ Age(p, 1)' = Age(p, 1) /\ Age(p, 2)' = 0
    BY <1>1, <1>2, <2>1, TakesFirst, OneArrives DEF Does
  <2>3. /\ Keeps /\ pc'[p] = pc[p] /\ deadline'[p] = deadline[p] /\ pc'[e] = "hs" /\ deadline'[e] = now + TimeOut
        /\ Mark(e)' = Mark(e) /\ Mark(p)' = Mark(p) /\ now' = now
    BY <1>1, <2>1, Keeping DEF Does, Keeps
  <2>4. HiThere(p, e)' /\ Begins(e, TimeOut, Age(p, 2))'
    BY <1>1, <1>2, <2>2, <2>3, Numbers DEF HiThere, Begins
  <2>5. Clocked(e)' /\ Clocked(p)'
    BY <1>1, <1>2, <2>3 DEF Clocked
  <2>6. p = "server"
    BY <1>1, <1>6, Ends
  <2>7. QED
    BY <1>1, <1>2, <1>6, <2>2, <2>3, <2>4, <2>5, <2>6 DEF GreetClient
<1>7. CASE e # "client"
  <2>1. Does(e, p, "rhs", TimeOut, <<>>, 1)
    BY <1>5, <1>7, DoesHiRead
  <2>2. None(e)' /\ chan'[p] = chan[p]
    BY <1>1, <1>2, <2>1, TakesFirst, NothingArrives DEF Does
  <2>3. One(p, "HI")' /\ Age(p, 1)' = Age(p, 1)
    BY <1>2, <2>2 DEF One, Is, Age
  <2>4. /\ Keeps /\ pc'[p] = pc[p] /\ deadline'[p] = deadline[p] /\ pc'[e] = "rhs" /\ deadline'[e] = now + TimeOut
        /\ Mark(e)' = Mark(e) /\ Mark(p)' = Mark(p) /\ now' = now
    BY <1>1, <2>1, Keeping DEF Does, Keeps
  <2>5. HiThere(p, e)' /\ Begins(e, TimeOut, Age(p, 1))'
    BY <1>1, <1>2, <2>3, <2>4, Numbers DEF HiThere, Begins
  <2>6. Clocked(e)' /\ Clocked(p)'
    BY <1>1, <1>2, <2>4 DEF Clocked
  <2>7. p = "client" /\ e = "server"
    BY <1>1, <1>7, Ends
  <2>8. QED
    BY <1>1, <1>2, <1>7, <2>2, <2>3, <2>4, <2>5, <2>6, <2>7 DEF GreetServer
<1>8. QED
  BY <1>6, <1>7

LEMMA GreetClientStep ==
  ASSUME Doer("client", "server"), NEW e \in End, Step(e), GreetClient
  PROVE  Sync("client", "server")' /\ Keeps
<1> DEFINE a == "client"
           b == "server"
<1>1. /\ TypeInv /\ TypeInv' /\ a \in End /\ b \in End /\ a # b /\ rate[b] = Slowest /\ e \in {a, b} /\ Doer(b, a)
      /\ Mark(a) <= Mark(b) + 1 /\ Clocked(b)
  BY DEF Doer, Level, End
<1>2. /\ pc[a] = "hs" /\ pc[b] = "hi" /\ None(a) /\ Two(b, "HI", "SYNC_BYTE")
      /\ Age(b, 1) \in {0, 1} /\ Age(b, 2) \in {0, 1}
  BY <1>1, Numbers DEF GreetClient
<1>3. deadline[b] = Mark(b) + 3 * Slop
  BY <1>1, <1>2 DEF Clocked
<1>4. ~Over(a) /\ ~Over(b)
  BY <1>1, <1>2, <1>3, Numbers DEF GreetClient, Over, Begins, HiThere
<1>5. e = b /\ HiRead(b) /\ Heard(b) = "HI"
  BY <1>1, <1>2, <1>4, StepAt, Patient, HearsOne DEF GivesUp, Reading
<1>6. Does(b, a, "rhs", TimeOut, <<>>, 1)
  BY <1>1, <1>5, DoesHiRead
<1>7. None(a)' /\ One(b, "SYNC_BYTE")' /\ Age(b, 1)' = Age(b, 2)
  BY <1>1, <1>2, <1>6, TakesFirst, NothingArrives DEF Does, None
<1>8. Keeps /\ pc'[a] = pc[a] /\ deadline'[a] = deadline[a] /\ pc'[b] = "rhs" /\ deadline'[b] = now + TimeOut
  BY <1>1, <1>6, Keeping DEF Does
<1>9. Begins(a, TimeOut, Age(b, 1))' /\ Begins(b, TimeOut, 1 + Age(b, 1))'
  BY <1>1, <1>2, <1>7, <1>8, Numbers DEF GreetClient, Begins, Keeps
<1>10. QED
  BY <1>2, <1>7, <1>8, <1>9 DEF Sync

LEMMA GreetServerStep ==
  ASSUME Doer("client", "server"), NEW e \in End, Step(e), GreetServer
  PROVE  Sync("client", "server")' /\ Keeps
<1> DEFINE a == "client"
           b == "server"
<1>1. /\ TypeInv /\ TypeInv' /\ a \in End /\ b \in End /\ a # b /\ rate[a] = Slowest /\ e \in {a, b}
      /\ Mark(b) <= Mark(a) + 1 /\ Clocked(a)
  BY DEF Doer, Level, End
<1>2. pc[a] = "hi" /\ pc[b] = "rhs" /\ None(b) /\ One(a, "HI") /\ Age(a, 1) \in {0, 1}
  BY <1>1, Numbers DEF GreetServer
<1>3. deadline[a] = Mark(a) + 3 * Slop
  BY <1>1, <1>2 DEF Clocked
<1>4. ~Over(a) /\ ~Over(b)
  BY <1>1, <1>2, <1>3, Numbers DEF GreetServer, Over, Begins, HiThere
<1>5. e = a /\ HiRead(a) /\ Heard(a) = "HI"
  BY <1>1, <1>2, <1>4, StepAt, Patient, HearsOne DEF GivesUp, Reading
<1>6. Does(a, b, "hs", TimeOut, <<"SYNC_BYTE">>, 1)
  BY <1>5, DoesHiRead
<1>7. None(a)' /\ One(b, "SYNC_BYTE")' /\ Age(b, 1)' = 0
  BY <1>1, <1>2, <1>6, TakesFirst, OneArrives DEF Does
<1>8. Keeps /\ pc'[b] = pc[b] /\ deadline'[b] = deadline[b] /\ pc'[a] = "hs" /\ deadline'[a] = now + TimeOut
  BY <1>1, <1>6, Keeping DEF Does
<1>9. Begins(a, TimeOut, Age(b, 1))' /\ Begins(b, TimeOut, 1 + Age(b, 1))'
  BY <1>1, <1>2, <1>7, <1>8, Numbers DEF GreetServer, Begins, Keeps
<1>10. QED
  BY <1>2, <1>7, <1>8, <1>9 DEF Sync

LEMMA Tested ==
  ASSUME NEW a \in End, NEW b \in End, a # b, Exchange(a, b)' \/ (Turn' /\ a = "client")
  PROVE  \A x \in End : pc'[x] \in Testing
BY Ends DEF Exchange, Turn, Sync, Synced, StrBegins, StrOnWay, StrShort, StrThere, Right, Agreed, Testing

LEMMA ExchangeStep ==
  ASSUME NEW a, NEW b, Doer(a, b), NEW e \in {a, b}, Step(e), Exchange(a, b), ~ok'["client"]
  PROVE  (Exchange(a, b)' \/ (a = "client" /\ Turn')) /\ Keeps /\ \A y \in End : Clocked(y)'
<1>1. /\ Exchange(a, b)' \/ (a = "client" /\ Turn')
      /\ Keeps
  BY SyncStep, SyncedStep, StrBeginsStep, StrOnWayStep, StrShortStep, StrThereStep, RightStep, AgreedStep DEF Exchange
<1>2. a \in End /\ b \in End /\ a # b
  BY DEF Doer
<1>3. \A x \in End : pc'[x] \in Testing
  BY <1>1, <1>2, Tested
<1>4. QED
  BY <1>1, <1>3 DEF Clocked, Testing

LEMMA TalkStep ==
  ASSUME TypeInv, TypeInv', Due, Level, NEW e \in End, Step(e), Talk, ~ok'["client"]
  PROVE  Talk' /\ Keeps /\ \A y \in End : Clocked(y)'
<1>0. /\ "client" \in End /\ "server" \in End /\ "client" # "server" /\ e \in {"client", "server"}
      /\ Doer("client", "server") /\ Doer("server", "client")
  BY Ends DEF Doer
<1>1. CASE Greeting
  <2>1. PICK p \in End : p # e
    BY Ends
  <2>2. Doer(e, p) /\ Doer(p, e)
    BY <2>1 DEF Doer
  <2>3. CASE GreetNone
    BY <2>1, <2>2, <2>3, GreetNoneStep DEF Talk, Greeting
  <2>4. ASSUME NEW x \in End, NEW y \in End, y # x, GreetOne(x, y)
        PROVE  Talk' /\ Keeps /\ \A z \in End : Clocked(z)'
    <3>1. Doer(x, y) /\ e \in {x, y}
      BY <2>4, Ends DEF Doer
    <3>2. QED
      BY <2>4, <3>1, GreetOneStep DEF Talk, Greeting
  <2>5. CASE GreetBoth
    BY <2>1, <2>2, <2>5, GreetBothStep DEF Talk, Greeting
  <2>6. CASE GreetClient \/ GreetServer
    <3>1. Sync("client", "server")' /\ Keeps
      BY <1>0, <2>6, GreetClientStep, GreetServerStep
    <3>2. Exchange("client", "server")'
      BY <3>1 DEF Exchange
    <3>3. \A x \in End : pc'[x] \in Testing
      BY <1>0, <3>2, Tested
    <3>4. QED
      BY <3>1, <3>2, <3>3 DEF Talk, Clocked, Testing
  <2>7. QED
    BY <1>1, <2>3, <2>4, <2>5, <2>6 DEF Greeting
<1>2. CASE Exchange("client", "server")
  BY <1>0, <1>2, ExchangeStep DEF Talk
<1>3. CASE Turn
  <2>1. Sync("server", "client")' /\ Keeps
    BY <1>0, <1>3, TurnStep
  <2>2. Exchange("server", "client")'
    BY <2>1 DEF Exchange
  <2>3. \A x \in End : pc'[x] \in Testing
    BY <1>0, <2>2, Tested
  <2>4. QED
    BY <2>1, <2>2, <2>3 DEF Talk, Clocked, Testing
<1>4. CASE Exchange("server", "client")
  BY <1>0, <1>4, ExchangeStep DEF Talk
<1>5. QED
  BY <1>1, <1>2, <1>3, <1>4 DEF Talk

(***************************************************************************)
(* The tick of the clock                                                   *)
(***************************************************************************)
LEMMA TickKeeps ==
  ASSUME TypeInv, Tick
  PROVE  /\ now' = now + 1 /\ UNCHANGED <<clean, pc, deadline, zero, idx, rate, sp, next, ok, greeted>>
         /\ \A e \in End : Mark(e)' = Mark(e) /\ ~Busy(e)
BY DEF Tick, table, Mark

LEMMA ExchangeTick ==
  ASSUME TypeInv, MeetInv, Tick, NEW a \in End, NEW b \in End, a # b, Exchange(a, b)
  PROVE  Exchange(a, b)'
<1>1. /\ now' = now + 1 /\ pc' = pc /\ deadline' = deadline
      /\ now \in Nat /\ deadline[a] \in Nat /\ deadline[b] \in Nat /\ StrTicks(Slowest) \in Nat
      /\ TimeOut \in Nat /\ HalfSec \in Nat /\ ByteWait \in Nat
  BY TickKeeps, Numbers
<1>2. (None(a) => None(a)') /\ (None(b) => None(b)')
  BY TickThere
<1>3. CASE Sync(a, b)
  <2>1. One(b, "SYNC_BYTE")' /\ Age(b, 1)' = 1 /\ Age(b, 1) = 0
    BY <1>3, TickThere DEF Sync, Reading
  <2>2. Begins(a, TimeOut, Age(b, 1))' /\ Begins(b, TimeOut, 1 + Age(b, 1))'
    BY <1>1, <1>3, <2>1 DEF Sync, Begins
  <2>3. Sync(a, b)'
    BY <1>1, <1>2, <1>3, <2>1, <2>2 DEF Sync
  <2>4. QED
    BY <2>3 DEF Exchange
<1>4. CASE Synced(a, b)
  <2>1. One(a, "ACK")' /\ Age(a, 1)' = 1 /\ Age(a, 1) = 0
    BY <1>4, TickThere DEF Synced, Reading
  <2>2. Begins(a, TimeOut, 1 + Age(a, 1))' /\ Begins(b, TimeOut, 2 + Age(a, 1))'
    BY <1>1, <1>4, <2>1 DEF Synced, Begins
  <2>3. Synced(a, b)'
    BY <1>1, <1>2, <1>4, <2>1, <2>2 DEF Synced
  <2>4. QED
    BY <2>3 DEF Exchange
<1>5. CASE StrBegins(a, b)
  <2>1. One(b, "SYNC_END")' /\ Age(b, 1)' = 1 /\ Age(b, 1) = 0
    BY <1>5, TickThere DEF StrBegins, Reading
  <2>2. deadline'[a] <= now' + StrTicks(Slowest) /\ Begins(b, TimeOut, 3 + Age(b, 1))'
    BY <1>1, <1>5, <2>1 DEF StrBegins, Begins
  <2>3. StrBegins(a, b)'
    BY <1>1, <1>2, <1>5, <2>1, <2>2 DEF StrBegins
  <2>4. QED
    BY <2>3 DEF Exchange
<1>6. CASE StrOnWay(a, b)
  <2>1. StrOnWay(a, b)'
    BY <1>1, <1>2, <1>6 DEF StrOnWay
  <2>2. QED
    BY <2>1 DEF Exchange
<1>7. CASE StrShort(a, b)
  <2>1. Two(b, "SYNC_END", "STR")' /\ Age(b, 1)' = 1 /\ Age(b, 2)' = 1 /\ Age(b, 1) = 0 /\ Age(b, 2) = 0
    BY <1>7, TickThere DEF StrShort, Reading
  <2>2. Begins(a, TimeOut, Age(b, 2))' /\ Begins(b, TimeOut, 3 + Age(b, 1))'
    BY <1>1, <1>7, <2>1 DEF StrShort, Begins
  <2>3. StrShort(a, b)'
    BY <1>1, <1>2, <1>7, <2>1, <2>2 DEF StrShort
  <2>4. QED
    BY <2>3 DEF Exchange
<1>8. CASE StrThere(a, b)
  <2>1. One(b, "STR")' /\ Age(b, 1)' = 1 /\ Age(b, 1) = 0
    BY <1>8, TickThere DEF StrThere, Reading
  <2>2. Begins(a, TimeOut, Age(b, 1))' /\ Begins(b, ByteWait, Age(b, 1))'
    BY <1>1, <1>8, <2>1 DEF StrThere, Begins
  <2>3. StrThere(a, b)'
    BY <1>1, <1>2, <1>8, <2>1, <2>2 DEF StrThere
  <2>4. QED
    BY <2>3 DEF Exchange
<1>9. CASE Right(a, b)
  <2>1. One(a, "TAK")' /\ Age(a, 1)' = 1 /\ Age(a, 1) = 0
    BY <1>9, TickThere DEF Right, Reading
  <2>2. Begins(a, TimeOut, 1 + Age(a, 1))' /\ Begins(b, HalfSec, Age(a, 1))'
    BY <1>1, <1>9, <2>1 DEF Right, Begins
  <2>3. Right(a, b)'
    BY <1>1, <1>2, <1>9, <2>1, <2>2 DEF Right
  <2>4. QED
    BY <2>3 DEF Exchange
<1>10. CASE Agreed(a, b)
  <2>1. One(b, "ACK")' /\ Age(b, 1)' = 1 /\ Age(b, 1) = 0
    BY <1>10, TickThere DEF Agreed, Reading
  <2>2. Begins(a, HalfSec, Age(b, 1))' /\ Begins(b, HalfSec, 1 + Age(b, 1))'
    BY <1>1, <1>10, <2>1 DEF Agreed, Begins
  <2>3. Agreed(a, b)'
    BY <1>1, <1>2, <1>10, <2>1, <2>2 DEF Agreed
  <2>4. QED
    BY <2>3 DEF Exchange
<1>11. QED
  BY <1>3, <1>4, <1>5, <1>6, <1>7, <1>8, <1>9, <1>10 DEF Exchange

LEMMA TalkTick ==
  ASSUME TypeInv, MeetInv, Level, Tick, Talk
  PROVE  Talk'
<1>0. "client" \in End /\ "server" \in End /\ "client" # "server"
  BY Ends
<1>1. /\ now' = now + 1 /\ pc' = pc /\ deadline' = deadline /\ now \in Nat /\ TimeOut \in Nat /\ HalfSec \in Nat
      /\ Slop \in Nat /\ \A e \in End : Mark(e)' = Mark(e) /\ Mark(e) \in Nat /\ deadline[e] \in Nat /\ ~Busy(e)
      /\ \A e \in End : None(e) => None(e)'
  BY TickKeeps, Numbers, TickThere
<1>2. CASE GreetNone
  <2>1. GreetNone'
    BY <1>1, <1>2 DEF GreetNone
  <2>2. QED
    BY <2>1 DEF Talk, Greeting
<1>3. ASSUME NEW e \in End, NEW p \in End, p # e, GreetOne(e, p) PROVE Talk'
  <2>1. pc[e] = "hi" /\ pc[p] = "slop" /\ None(e) /\ One(p, "HI")
    BY <1>3 DEF GreetOne
  <2>2. One(p, "HI")' /\ Age(p, 1)' = 1
    BY <2>1, TickThere
  <2>3. deadline[p] = Mark(p) + Slop /\ Mark(p) <= Mark(e) + 1
    BY <2>1 DEF Level, Clocked
  <2>4. ~(now >= deadline[p])
    BY <1>1, <2>1 DEF Busy, Over
  <2>5. HiThere(p, e)'
    BY <1>1, <2>2, <2>3, <2>4 DEF HiThere
  <2>6. GreetOne(e, p)'
    BY <1>1, <2>1, <2>2, <2>5 DEF GreetOne
  <2>7. QED
    BY <1>3, <2>6 DEF Talk, Greeting
<1>4. CASE GreetBoth
  <2>1. ASSUME NEW e \in End, NEW p \in End, p # e
        PROVE  pc'[e] = "hi" /\ One(e, "HI")' /\ HiThere(e, p)'
    <3>1. pc[e] = "hi" /\ One(e, "HI") /\ HiThere(e, p)
      BY <1>4, <2>1 DEF GreetBoth
    <3>2. One(e, "HI")' /\ Age(e, 1)' = 1 /\ Age(e, 1) = 0
      BY <3>1, TickThere DEF Reading
    <3>3. HiThere(e, p)'
      BY <1>1, <3>1, <3>2 DEF HiThere
    <3>4. QED
      BY <1>1, <3>1, <3>2, <3>3
  <2>2. GreetBoth'
    BY <2>1 DEF GreetBoth
  <2>3. QED
    BY <2>2 DEF Talk, Greeting
<1>5. CASE GreetClient
  <2>1. /\ pc["client"] = "hs" /\ pc["server"] = "hi" /\ None("client") /\ Two("server", "HI", "SYNC_BYTE")
        /\ HiThere("server", "client") /\ Begins("client", TimeOut, Age("server", 2))
    BY <1>5 DEF GreetClient
  <2>2. /\ Two("server", "HI", "SYNC_BYTE")' /\ Age("server", 1)' = 1 /\ Age("server", 2)' = 1
        /\ Age("server", 1) = 0 /\ Age("server", 2) = 0
    BY <1>0, <2>1, TickThere DEF Reading
  <2>3. HiThere("server", "client")' /\ Begins("client", TimeOut, Age("server", 2))'
    BY <1>0, <1>1, <2>1, <2>2 DEF HiThere, Begins
  <2>4. GreetClient'
    BY <1>0, <1>1, <2>1, <2>2, <2>3 DEF GreetClient
  <2>5. QED
    BY <2>4 DEF Talk, Greeting
<1>6. CASE GreetServer
  <2>1. /\ pc["client"] = "hi" /\ pc["server"] = "rhs" /\ One("client", "HI") /\ None("server")
        /\ HiThere("client", "server") /\ Begins("server", TimeOut, Age("client", 1))
    BY <1>6 DEF GreetServer
  <2>2. One("client", "HI")' /\ Age("client", 1)' = 1 /\ Age("client", 1) = 0
    BY <1>0, <2>1, TickThere DEF Reading
  <2>3. HiThere("client", "server")' /\ Begins("server", TimeOut, Age("client", 1))'
    BY <1>0, <1>1, <2>1, <2>2 DEF HiThere, Begins
  <2>4. GreetServer'
    BY <1>0, <1>1, <2>1, <2>2, <2>3 DEF GreetServer
  <2>5. QED
    BY <2>4 DEF Talk, Greeting
<1>7. CASE Exchange("client", "server") \/ Exchange("server", "client")
  BY <1>0, <1>7, ExchangeTick DEF Talk
<1>8. CASE Turn
  <2>1. /\ pc["client"] = "last" /\ pc["server"] = "hs" /\ Two("client", "TAK", "SYNC_BYTE") /\ None("server")
        /\ Begins("client", HalfSec, 1 + Age("client", 1)) /\ Begins("server", TimeOut, Age("client", 2))
    BY <1>8 DEF Turn
  <2>2. /\ Two("client", "TAK", "SYNC_BYTE")' /\ Age("client", 1)' = 1 /\ Age("client", 2)' = 1
        /\ Age("client", 1) = 0 /\ Age("client", 2) = 0
    BY <1>0, <2>1, TickThere DEF Reading
  <2>3. Begins("client", HalfSec, 1 + Age("client", 1))' /\ Begins("server", TimeOut, Age("client", 2))'
    BY <1>0, <1>1, <2>1, <2>2 DEF Begins
  <2>4. Turn'
    BY <1>0, <1>1, <2>1, <2>2, <2>3 DEF Turn
  <2>5. QED
    BY <2>4 DEF Talk
<1>9. QED
  BY <1>2, <1>3, <1>4, <1>5, <1>6, <1>7, <1>8 DEF Talk, Greeting

(***************************************************************************)
(* Down the table                                                          *)
(***************************************************************************)
\* What a step of end e does, in the words of Walks, when it does not begin a rate.
Paced ==
  /\ \A e \in End : pc[e] \in Walking \cup {"hold"} /\ Clocked(e)
  /\ Origin("client") <= Origin("server") /\ Origin("server") <= Origin("client") + 1
Paired(e, p) ==
  /\ pc[e] = "hold" => now <= deadline[e] /\ (pc[p] = "hold" \/ First(p))
  /\ Begun(e) /\ Begun(p) => Abreast(e, p) /\ Ending(e, p)

LEMMA WalksPaired ==
  /\ Walks => Paced /\ \A e, p \in End : p # e => Paired(e, p)
  /\ Paced /\ (\A e, p \in End : p # e => Paired(e, p)) => Walks
BY DEF Walks, Paced, Paired

\* Clocks and marks.
LEMMA Clocks ==
  ASSUME TypeInv, Paced, NEW e \in End, NEW p \in End, Begun(e), Begun(p)
  PROVE  /\ zero[e] <= zero[p] + 1
         /\ e = "server" => zero[p] <= zero[e]
<1>1. /\ zero[e] \in Nat /\ zero[p] \in Nat /\ Origin(e) = zero[e] /\ Origin(p) = zero[p]
  BY Places DEF Origin, Begun
<1>2. QED
  BY <1>1, Ends DEF Paced

\* An end that greets is not ahead of its peer.
LEMMA NotAhead ==
  ASSUME TypeInv, Due, GreetInv, Live, Walks, NEW e \in End, NEW p \in End, p # e,
         pc[e] = "slop", now >= deadline[e], Begun(p)
  PROVE  ~(idx[e] > idx[p])
<1> SUFFICES ASSUME idx[e] > idx[p] PROVE FALSE
  OBVIOUS
<1>1. /\ pc[p] \in Walking /\ Begun(e) /\ Abreast(e, p) /\ Clocked(e) /\ Paced
  BY WalksPaired DEF Walks, Begun
<1>2. /\ now \in Nat /\ zero[e] \in Nat /\ zero[p] \in Nat /\ sp[e] \in Nat /\ sp[p] \in Nat /\ next[p] \in Nat
      /\ deadline[p] \in Nat /\ idx[p] \in Rate
      /\ Slop \in Nat /\ Slop >= 2 /\ BaudSet \in Nat /\ TestTime(idx[p]) \in Nat /\ Base = BaudSet + 3 * Slop
  BY Places, Numbers, TurnValues
<1>3. zero[p] <= zero[e] + 1
  BY <1>1, Clocks
<1>4. now >= zero[e] + sp[e] + Slop
  BY <1>1, <1>2 DEF Clocked, Mark
<1>5. sp[e] = sp[p] + Base + IF <<e, idx[p]>> \in greeted THEN TestTime(idx[p]) ELSE 0
  BY <1>1 DEF Abreast, Leads
<1>6. sp[e] >= sp[p] + Base
  BY <1>2, <1>5
<1>7. DueAt(p)
  BY DEF Due
<1>8. CASE pc[p] = "sync"
  BY <1>2, <1>3, <1>4, <1>6, <1>7, <1>8 DEF DueAt, Mark
<1>9. CASE pc[p] = "slop"
  <2>1. now <= deadline[p] + 0 /\ deadline[p] <= zero[p] + sp[p] + Slop
    BY <1>7, <1>9, LimitValues DEF DueAt, Mark
  <2>2. QED
    BY <1>2, <1>3, <1>4, <1>6, <2>1
<1>10. CASE pc[p] = "hi"
  <2>1. now <= zero[p] + next[p] /\ next[p] = sp[p] + Base
    BY <1>7, <1>10, BeforeNext DEF DueAt
  <2>2. QED
    BY <1>2, <1>3, <1>4, <1>6, <2>1
<1>11. CASE pc[p] \in Testing
  <2>1. now <= zero[p] + next[p] /\ next[p] = sp[p] + Base + TestTime(idx[p])
    BY <1>7, <1>11, BeforeNext DEF DueAt
  <2>2. <<e, idx[p]>> \in greeted
    <3>1. <<p, idx[p]>> \in greeted /\ Gone(e, idx[p])
      BY <1>11 DEF GreetInv, Gone
    <3>2. QED
      BY <1>2, <3>1 DEF Live, Broken
  <2>3. QED
    BY <1>2, <1>3, <1>4, <1>5, <2>1, <2>2
<1>12. QED
  BY <1>1, <1>8, <1>9, <1>10, <1>11 DEF Walking

\* Beginning to walk.
LEMMA StartWalks ==
  ASSUME TypeInv, TypeInv', Walks, NEW e \in End, StartSpeed(e)
  PROVE  Walks'
<1>1. PICK p \in End : p # e
  BY Ends
<1>2. /\ pc[e] = "hold" /\ pc'[e] = "sync" /\ idx'[e] = idx[e] /\ zero'[e] = now
      /\ sp'[e] = BaudSet /\ Aside(p) /\ now >= deadline[e] /\ idx[e] = 1
  BY <1>1, StartMoves DEF StartSpeed, TypeInv, Tabled, Begun
<1>3. now <= deadline[e] /\ (pc[p] = "hold" \/ First(p)) /\ pc[p] \in Walking \cup {"hold"}
      /\ (pc[p] = "hold" => now <= deadline[p])
  BY <1>1, <1>2 DEF Walks
<1>4. now = deadline[e]
  BY <1>2, <1>3, Numbers
<1>5. Origin(e)' = Origin(e) /\ Origin(p)' = Origin(p)
  BY <1>2, <1>4 DEF Origin, Aside
<1>6. First(e)' /\ (First(p) => First(p)') /\ (Begun(p) => First(p))
  BY <1>2, <1>3 DEF First, Aside, Begun
<1>7. Paced'
  <2>1. Clocked(e)' /\ Clocked(p)'
    BY <1>2, <1>3 DEF Clocked, Aside, First
  <2>2. Origin("client")' = Origin("client") /\ Origin("server")' = Origin("server")
    BY <1>1, <1>5, Ends
  <2>3. \A x \in End : x = e \/ x = p
    BY <1>1, Ends
  <2>4. pc'[e] \in Walking \cup {"hold"} /\ pc'[p] \in Walking \cup {"hold"}
    BY <1>2, <1>3 DEF Walking, Aside
  <2>5. Origin("client") <= Origin("server") /\ Origin("server") <= Origin("client") + 1
    BY DEF Walks
  <2>6. Origin("client")' <= Origin("server")' /\ Origin("server")' <= Origin("client")' + 1
    BY <2>2, <2>5
  <2>7. QED
    BY <2>1, <2>3, <2>4, <2>6 DEF Paced
<1>8. Paired(e, p)' /\ Paired(p, e)'
  <2>1. ASSUME Begun(p)' PROVE /\ idx'[e] = 1 /\ idx'[p] = 1 /\ sp'[e] = sp'[p] /\ pc'[e] = "sync" /\ pc'[p] = "sync"
    BY <1>2, <1>6, <2>1 DEF First, Aside, Begun
  <2>2. Begun(p)' => (Abreast(e, p) /\ Ending(e, p) /\ Abreast(p, e) /\ Ending(p, e))'
    BY <2>1 DEF Abreast, Leads, Ending
  <2>3. pc'[p] = "hold" => now' <= deadline'[p]
    BY <1>2, <1>3 DEF Aside
  <2>4. QED
    BY <1>2, <1>6, <2>2, <2>3 DEF Paired
<1>9. \A x, y \in End : y # x => Paired(x, y)'
  BY <1>1, <1>8, Ends
<1>10. QED
  BY <1>7, <1>9 DEF Walks, Paced, Paired

\* Nobody is at a sync point as long as its peer waits to begin.
LEMMA BothBegun ==
  ASSUME TypeInv, Walks, NEW e \in End, NEW p \in End, p # e, Step(e), pc[e] # "hold"
  PROVE  pc[e] \in Walking /\ Begun(e) /\ pc[p] \in Walking /\ Begun(p)
<1>1. pc[e] \in Walking /\ pc[p] \in Walking \cup {"hold"} /\ Begun(e)
  BY DEF Walks, Walking, Begun, Testing
<1>2. pc[p] # "hold"
  <2> SUFFICES ASSUME pc[p] = "hold" PROVE FALSE
    OBVIOUS
  <2>1. now <= deadline[p] /\ First(e)
    BY DEF Walks
  <2>2. AtSync(e)
    BY <2>1, StepAt DEF First
  <2>3. Origin(e) = zero[e] /\ Origin(p) = deadline[p] /\ Origin(p) <= Origin(e) + 1
    <3>1. (e = "client" /\ p = "server") \/ (e = "server" /\ p = "client")
      BY Ends
    <3>2. Origin(e) = zero[e] /\ Origin(p) = deadline[p] /\ Origin(e) \in Nat /\ Origin(p) \in Nat
      BY <2>1, Places DEF Origin, First
    <3>3. Origin("client") <= Origin("server") /\ Origin("server") <= Origin("client") + 1
      BY DEF Walks
    <3>4. QED
      BY <3>1, <3>2, <3>3
  <2>4. now - zero[e] >= BaudSet
    BY <2>1, <2>2 DEF AtSync, Clock, First
  <2>5. zero[e] \in Nat /\ now \in Nat /\ deadline[p] \in Nat /\ BaudSet \in Nat /\ 2 <= BaudSet
    BY Places, LimitFacts, SerBaudAnswers
  <2>6. FALSE
    <3>1. zero[e] \in Nat /\ deadline[p] \in Nat /\ deadline[p] <= zero[e] + 1 /\ Origin(e) \in Nat
      BY <2>3, <2>5
    <3>2. QED
      BY <2>1, <2>4, <2>5, <3>1
  <2>7. QED
    BY <2>6
<1>3. QED
  BY <1>1, <1>2 DEF Walking, Begun, Testing

\* A step of an end that walks.
LEMMA StepWalks ==
  ASSUME TypeInv, Walks, NEW e \in End, NEW p \in End, p # e, Begun(e), Begun(p), Aside(p),
         zero'[e] = zero[e], pc'[e] \in Walking, Clocked(e)',
         Abreast(e, p)', Abreast(p, e)', Ending(e, p)', Ending(p, e)'
  PROVE  Walks'
<1>1. Begun(e)' /\ Begun(p)' /\ pc'[e] # "hold" /\ pc'[p] # "hold" /\ pc'[p] \in Walking
  BY DEF Begun, Walking, Testing, Aside, Walks
<1>2. \A x \in End : x = e \/ x = p
  BY Ends
<1>3. Clocked(p)'
  BY DEF Walks, Clocked, Aside, Mark
<1>4. \A x \in End : Origin(x)' = zero'[x] /\ Origin(x) = zero[x] /\ zero'[x] = zero[x]
  BY <1>1, <1>2 DEF Origin, Aside, Begun
<1>5. "client" \in End /\ "server" \in End
  BY Ends
<1>6. Origin("client")' <= Origin("server")' /\ Origin("server")' <= Origin("client")' + 1
  BY <1>4, <1>5 DEF Walks
<1>7. Paced'
  BY <1>1, <1>2, <1>3, <1>6 DEF Paced
<1>8. \A x, y \in End : y # x => Paired(x, y)'
  BY <1>1, <1>2 DEF Paired
<1>9. QED
  BY <1>7, <1>8 DEF Walks, Paced, Paired

LEMMA SyncWalks ==
  ASSUME TypeInv, TypeInv', Due, Walks, NEW e \in End, AtSync(e)
  PROVE  Walks'
<1>0. PICK p \in End : p # e
  BY Ends
<1>1. /\ pc[e] = "sync" /\ pc'[e] = "slop" /\ idx'[e] = idx[e] /\ deadline'[e] = now + Slop
      /\ zero'[e] = zero[e] /\ sp'[e] = sp[e] /\ Aside(p) /\ greeted' = greeted
  BY <1>0, SyncMoves DEF AtSync
<1>2. Begun(e) /\ pc[p] \in Walking /\ Begun(p)
  <2>1. Step(e)
    BY DEF Step
  <2>2. QED
    BY <1>0, <1>1, <2>1, BothBegun
<1>3. chan'[e] = <<>> /\ chan'[p] = chan[p]
  <2>1. chan' = [chan EXCEPT ![e] = <<>>] /\ chan \in [End -> Seq(Token)]
    BY DEF AtSync, TypeInv
  <2>2. QED
    BY <1>0, <2>1
<1>4. now = Mark(e) /\ Mark(e)' = Mark(e) /\ now' = now
  <2>1. now - zero[e] >= sp[e] /\ now <= zero[e] + sp[e]
    BY <1>1 DEF AtSync, Clock, Due, DueAt, Mark
  <2>2. QED
    BY <1>1, <2>1, Places DEF Mark, Aside
<1>5. Clocked(e)'
  BY <1>1, <1>4, Numbers DEF Clocked
<1>6. Abreast(e, p) /\ Abreast(p, e) /\ Ending(e, p) /\ Ending(p, e)
  BY <1>0, <1>2 DEF Walks
<1>7. Abreast(e, p)' /\ Abreast(p, e)'
  BY <1>1, <1>6 DEF Abreast, Leads, Aside
<1>8. \A x \in {e, p} : idx[x] = Slowest \/ idx[x] < Slowest
  BY Places, SerBaudAssumption DEF Rate, Slowest
<1>9. ASSUME idx[p] = Slowest, pc[p] # "sync"
      PROVE  pc[p] = "slop" /\ None(p) /\ (idx[e] = Slowest => GreetNone')
  <2>1. pc[p] = "slop" /\ None(p)
    BY <1>1, <1>6, <1>9 DEF Ending
  <2>2. \A x \in End : x = e \/ x = p
    BY <1>0, Ends
  <2>3. GreetNone'
    BY <1>1, <1>3, <2>1, <2>2 DEF GreetNone, None, Aside
  <2>4. QED
    BY <2>1, <2>3
<1>10. Ending(e, p)'
  <2>1. ASSUME idx[e] = Slowest PROVE Ending(e, p)'
    <3>1. CASE idx[p] < Slowest \/ pc[p] = "sync"
      BY <1>1, <1>3, <3>1 DEF Ending, None, Aside
    <3>2. CASE ~(idx[p] < Slowest \/ pc[p] = "sync")
      <4>1. idx[p] = Slowest /\ pc[p] # "sync"
        BY <1>8, <3>2
      <4>2. Talk' /\ idx'[p] = Slowest /\ pc'[p] # "sync"
        BY <1>1, <1>9, <2>1, <4>1 DEF Talk, Greeting, Aside
      <4>3. QED
        BY <4>2 DEF Ending
    <3>3. QED
      BY <3>1, <3>2
  <2>2. QED
    BY <1>1, <2>1 DEF Ending
<1>11. Ending(p, e)'
  <2>1. ASSUME idx[p] = Slowest, pc[p] # "sync" PROVE Ending(p, e)'
    <3>1. CASE idx[e] = Slowest
      <4>1. Talk'
        BY <1>9, <2>1, <3>1 DEF Talk, Greeting
      <4>2. QED
        BY <1>1, <3>1, <4>1 DEF Ending
    <3>2. CASE idx[e] # Slowest
      <4>1. idx'[e] < Slowest /\ pc'[p] = "slop" /\ None(p)'
        <5>1. idx[e] < Slowest
          BY <1>8, <3>2
        <5>2. QED
          BY <1>1, <1>3, <1>9, <2>1, <5>1 DEF None, Aside
      <4>2. QED
        BY <4>1 DEF Ending
    <3>3. QED
      BY <3>1, <3>2
  <2>2. CASE idx[p] # Slowest \/ pc[p] = "sync"
    BY <1>1, <2>2 DEF Ending, Aside
  <2>3. QED
    BY <2>1, <2>2
<1>12. QED
  BY <1>0, <1>1, <1>2, <1>5, <1>7, <1>10, <1>11, StepWalks DEF Walking

\* Both ends at the slowest rate, and beyond its sync point.
LEMMA Levelled ==
  ASSUME TypeInv, Walks, Slowest \in clean, NEW e \in End, NEW p \in End, p # e, Begun(e), Begun(p),
         idx[e] = Slowest, idx[p] = Slowest, pc[e] # "sync", pc[p] # "sync"
  PROVE  Level
<1>1. End = {e, p}
  BY Ends
<1>2. /\ pc[e] \in {"slop", "hi"} \cup Testing /\ pc[p] \in {"slop", "hi"} \cup Testing
      /\ Clocked(e) /\ Clocked(p) /\ Paced /\ sp[e] = sp[p]
  BY DEF Walks, Walking, Begun, Paced, Abreast
<1>3. rate[e] = idx[e] /\ rate[p] = idx[p]
  BY <1>2 DEF TypeInv, Tabled, Testing
<1>4. zero[e] <= zero[p] + 1 /\ zero[p] <= zero[e] + 1
  BY <1>2, Clocks
<1>5. \A x, y \in End : Mark(x) <= Mark(y) + 1
  <2>1. zero[e] \in Nat /\ zero[p] \in Nat /\ sp[e] \in Nat
    BY Places
  <2>2. QED
    BY <1>1, <1>2, <1>4, <2>1 DEF Mark
<1>6. QED
  BY <1>1, <1>2, <1>3, <1>5 DEF Level

LEMMA TalkWalks ==
  ASSUME TypeInv, TypeInv', Due, Walks, Slowest \in clean, NEW e \in End, NEW p \in End, p # e, Begun(e), Begun(p),
         idx[e] = Slowest, idx[p] = Slowest, pc[e] # "sync", pc[p] # "sync", Step(e), ~ok'["client"], Talk
  PROVE  Walks'
<1>1. Talk' /\ Keeps /\ \A y \in End : Clocked(y)'
  BY Levelled, TalkStep
<1>2. pc'[e] \in {"slop", "hi"} \cup Testing /\ pc'[p] \in {"slop", "hi"} \cup Testing
  BY <1>1, Ends DEF Talk, Greeting, GreetNone, GreetOne, GreetBoth, GreetClient, GreetServer, Exchange, Turn, Sync, Synced,
     StrBegins, StrOnWay, StrShort, StrThere, Right, Agreed, Testing
<1>3. Aside(p)
  BY StepBehaves DEF Behaves
<1>4. Abreast(e, p) /\ Abreast(p, e)
  BY DEF Walks
<1>5. /\ idx'[e] = Slowest /\ idx'[p] = Slowest /\ sp'[e] = sp'[p] /\ zero'[e] = zero[e]
  BY <1>1, <1>4 DEF Keeps, Stands, Abreast
<1>6. (Abreast(e, p) /\ Abreast(p, e) /\ Ending(e, p) /\ Ending(p, e))'
  <2>1. ~(idx'[e] > idx'[p]) /\ ~(idx'[p] > idx'[e])
    BY <1>5, SerBaudAssumption DEF Slowest
  <2>2. pc'[e] # "sync" /\ pc'[p] # "sync"
    BY <1>2 DEF Testing
  <2>3. QED
    BY <1>1, <1>5, <2>1, <2>2 DEF Abreast, Leads, Ending
<1>7. QED
  BY <1>1, <1>2, <1>3, <1>5, <1>6, StepWalks DEF Walking

LEMMA HiWalks ==
  ASSUME TypeInv, TypeInv', Due, GreetInv, Live, Walks, NEW e \in End, SendHi(e), ~ok'["client"]
  PROVE  Walks'
<1>0. PICK p \in End : p # e
  BY Ends
<1>1. /\ pc[e] = "slop" /\ pc'[e] = "hi" /\ idx'[e] = idx[e] /\ deadline'[e] = now + 2 * Slop
      /\ zero'[e] = zero[e] /\ sp'[e] = sp[e] /\ Aside(p) /\ greeted' = greeted /\ now >= deadline[e] /\ Step(e)
  <2>1. pc[e] = "slop" /\ Goto(e, "hi", 2 * Slop) /\ UNCHANGED <<fixed, table, greeted>> /\ now >= deadline[e]
    BY DEF SendHi
  <2>2. QED
    BY <1>0, <2>1, GoneTo DEF Step
<1>2. Begun(e) /\ pc[p] \in Walking /\ Begun(p)
  BY <1>0, <1>1, BothBegun
<1>3. ~(idx[e] > idx[p])
  BY <1>0, <1>1, <1>2, NotAhead
<1>4. Abreast(e, p) /\ Abreast(p, e) /\ Ending(e, p) /\ Ending(p, e) /\ Clocked(e) /\ Clocked(p) /\ Paced
  BY <1>0, <1>2, WalksPaired DEF Walks
<1>5. /\ now \in Nat /\ zero[e] \in Nat /\ zero[p] \in Nat /\ sp[e] \in Nat /\ sp[p] \in Nat /\ deadline[e] \in Nat
      /\ Slop \in Nat /\ 2 <= Slop /\ BaudSet \in Nat /\ 2 <= BaudSet /\ Base = BaudSet + 3 * Slop
      /\ TestTime(idx[e]) \in Nat /\ idx[e] \in Rate /\ Slowest \in Nat
      /\ \A x \in {e, p} : idx[x] \in Nat /\ (idx[x] = Slowest \/ idx[x] < Slowest)
  BY Places, Numbers, LimitFacts, SerBaudAnswers, SerBaudAssumption DEF Base, Rate, Slowest
<1>6. now <= deadline[e] /\ deadline[e] = zero[e] + sp[e] + Slop
  <2>1. now <= deadline[e] + 0
    BY <1>1 DEF Due, DueAt
  <2>2. QED
    BY <1>1, <1>4, <1>5, <2>1 DEF Clocked, Mark
<1>7. zero[p] <= zero[e] + 1 /\ zero[e] <= zero[p] + 1
  BY <1>2, <1>4, Clocks
\* The peer has not been long at its sync point.
<1>8. pc[p] = "sync" => idx[p] # idx[e]
  <2>1. pc[p] = "sync" => now <= zero[p] + sp[p]
    BY DEF Due, DueAt, Mark
  <2>2. QED
    BY <1>1, <1>4, <1>5, <1>6, <1>7, <2>1 DEF Abreast
<1>9. ~(idx[p] > idx[e] /\ pc[p] = "slop")
  <2> SUFFICES ASSUME idx[p] > idx[e], pc[p] = "slop" PROVE FALSE
    OBVIOUS
  <2>1. sp[p] = sp[e] + Base + IF <<p, idx[e]>> \in greeted THEN TestTime(idx[e]) ELSE 0
    BY <1>4 DEF Abreast, Leads
  <2>2. sp[p] >= sp[e] + Base
    BY <1>5, <2>1
  <2>3. now >= zero[p] + sp[p]
    BY <1>4 DEF Clocked, Mark
  <2>4. QED
    BY <1>5, <1>6, <1>7, <2>2, <2>3
<1>10. CASE idx[e] = Slowest
  <2>1. idx[p] = Slowest /\ pc[p] # "sync"
    BY <1>3, <1>5, <1>8, <1>10
  <2>2. Talk
    BY <1>1, <1>4, <1>5, <1>10, <2>1 DEF Ending
  <2>3. QED
    BY <1>0, <1>1, <1>2, <1>10, <2>1, <2>2, TalkWalks DEF Live
<1>11. CASE idx[e] # Slowest
  <2>1. Clocked(e)'
    BY <1>1, <1>5, <1>6 DEF Clocked, Mark, Aside
  <2>2. Abreast(e, p)' /\ Abreast(p, e)'
    BY <1>1, <1>3, <1>4 DEF Abreast, Leads, Aside
  <2>3. Ending(e, p)'
    BY <1>1, <1>11 DEF Ending
  <2>4. Ending(p, e)'
    <3>1. idx[p] = Slowest => pc[p] = "sync"
      <4>1. idx[p] = Slowest => idx[p] > idx[e]
        BY <1>5, <1>11
      <4>2. QED
        BY <1>4, <1>9, <1>11, <4>1 DEF Ending
    <3>2. QED
      BY <1>1, <3>1 DEF Ending, Aside
  <2>5. QED
    BY <1>0, <1>1, <1>2, <2>1, <2>2, <2>3, <2>4, StepWalks DEF Walking
<1>12. QED
  BY <1>10, <1>11

(***************************************************************************)
(* Nothing is said at the end of a test when the peer is at the next rate  *)
(***************************************************************************)
LEMMA SaysNothing ==
  ASSUME TypeInv, TypeInv', NEW e \in End, NEW p \in End, p # e, chan[e] # <<>>, SendRead(e, <<>>, 1)
  PROVE  chan'[p] = chan[p]
<1>1. /\ chan \in [End -> Seq(Token)] /\ rate \in [End -> Rate] /\ <<>> \in Seq(Symbol)
      /\ Len(chan[e]) \in Nat /\ Len(chan[p]) \in Nat
  BY LenProperties DEF TypeInv, Walk
<1>2. 1 <= Len(chan[e])
  BY <1>1, EmptySeq, LenProperties
<1>3. Sent(e, p, <<>>, 1)
  BY <1>1, <1>2, SendFacts
<1>4. Len(chan'[p]) = Len(chan[p]) /\ \A k \in 1 .. Len(chan[p]) : chan'[p][k] = chan[p][k]
  <2>1. Len(<<>>) = 0
    OBVIOUS
  <2>2. QED
    BY <1>1, <1>3, <2>1 DEF Sent
<1>5. chan'[p] \in Seq(Token) /\ chan[p] \in Seq(Token)
  BY DEF TypeInv
<1>6. QED
  BY <1>4, <1>5, SeqEqual

\* When the peer may be at the next rate, an end has said what it has to say.
LEMMA TooLate ==
  ASSUME TypeInv, Due, NEW e \in End, pc[e] \in Testing,
         now + (IF e = "server" THEN 1 ELSE 0) >= zero[e] + next[e]
  PROVE  pc[e] = "last" \/ (e = "client" /\ pc[e] = "ack")
<1> SUFFICES ASSUME pc[e] # "last", ~(e = "client" /\ pc[e] = "ack") PROVE FALSE
  OBVIOUS
<1>1. /\ now \in Nat /\ zero[e] \in Nat /\ deadline[e] \in Nat /\ sp[e] \in Nat /\ next[e] \in Nat
      /\ idx[e] \in Rate
  BY Places
<1> DEFINE i == idx[e]
<1>2. /\ BaudSet \in Nat /\ Slop \in Nat /\ TestSlop \in Nat /\ TimeOut \in Nat /\ HalfSec \in Nat
      /\ ByteWait \in Nat /\ StrTicks(i) \in Nat
      /\ Opens("client", i) = 3 * Slop /\ Receives("server", i) = 3 * Slop
      /\ Opens("server", i) = 3 * Slop + TimeOut + StrTicks(i) + ByteWait + HalfSec
      /\ Receives("client", i) = 3 * Slop + 4 + StrTicks(i) + HalfSec
      /\ Base = BaudSet + 3 * Slop
      /\ TestTime(i) = Slop + TestSlop + 2 * TimeOut + 2 * StrTicks(i)
  BY <1>1, TurnValues
<1>3. /\ now <= deadline[e] + IF pc[e] = "hs" THEN 1 ELSE 0
      /\ deadline[e] <= zero[e] + sp[e] + Limit(e, pc[e], i) /\ next[e] = sp[e] + Base + TestTime(i)
  BY <1>1 DEF Due, DueAt, Mark
<1>4. 5 <= TimeOut /\ 4 + HalfSec + ByteWait <= BaudSet + Slop + TestSlop
  BY SerBaudSilence, SerBaudAnswers
<1>5. CASE e = "client"
  <2>1. now >= zero[e] + next[e]
    BY <1>1, <1>5
  <2>2. pc[e] # "hs"
    BY <1>1, <1>2, <1>3, <1>4, <1>5, <2>1, LimitValues
  <2>3. pc[e] # "str"
    BY <1>1, <1>2, <1>3, <1>4, <1>5, <2>1, LimitValues
  <2>4. pc[e] # "tak"
    BY <1>1, <1>2, <1>3, <1>4, <1>5, <2>1, LimitValues
  <2>5. pc[e] # "rhs"
    BY <1>1, <1>2, <1>3, <1>4, <1>5, <2>1, LimitValues
  <2>6. pc[e] # "check"
    BY <1>1, <1>2, <1>3, <1>4, <1>5, <2>1, LimitValues
  <2>7. QED
    BY <1>5, <2>2, <2>3, <2>4, <2>5, <2>6 DEF Testing
<1>6. CASE e = "server"
  <2>1. now + 1 >= zero[e] + next[e]
    BY <1>1, <1>6
  <2>2. pc[e] # "hs"
    BY <1>1, <1>2, <1>3, <1>4, <1>6, <2>1, LimitValues
  <2>3. pc[e] # "str"
    BY <1>1, <1>2, <1>3, <1>4, <1>6, <2>1, LimitValues
  <2>4. pc[e] # "tak"
    BY <1>1, <1>2, <1>3, <1>4, <1>6, <2>1, LimitValues
  <2>5. pc[e] # "rhs"
    BY <1>1, <1>2, <1>3, <1>4, <1>6, <2>1, LimitValues
  <2>6. pc[e] # "check"
    BY <1>1, <1>2, <1>3, <1>4, <1>6, <2>1, LimitValues
  <2>7. pc[e] # "ack"
    BY <1>1, <1>2, <1>3, <1>4, <1>6, <2>1, LimitValues
  <2>8. QED
    BY <2>2, <2>3, <2>4, <2>5, <2>6, <2>7 DEF Testing
<1>7. QED
  BY <1>5, <1>6, Ends

LEMMA Silence ==
  ASSUME TypeInv, TypeInv', Due, GreetInv, Live, Walks, NEW e \in End, NEW p \in End, p # e, Begun(e), Begun(p),
         Step(e), ~ok'["client"], pc[e] \in {"hi"} \cup Testing, idx[p] > idx[e], pc[p] = "slop"
  PROVE  chan'[p] = chan[p]
<1>1. Abreast(p, e) /\ Clocked(e) /\ Clocked(p) /\ Paced
  BY WalksPaired DEF Walks
<1>2. /\ now \in Nat /\ zero[e] \in Nat /\ zero[p] \in Nat /\ sp[e] \in Nat /\ sp[p] \in Nat /\ next[e] \in Nat
      /\ deadline[e] \in Nat /\ Slop \in Nat /\ BaudSet \in Nat /\ 2 <= BaudSet /\ Base = BaudSet + 3 * Slop
      /\ TestTime(idx[e]) \in Nat /\ idx[e] \in Rate
  BY Places, LimitFacts, SerBaudAnswers DEF Base
<1>3. sp[p] = sp[e] + Base + IF <<p, idx[e]>> \in greeted THEN TestTime(idx[e]) ELSE 0
  BY <1>1 DEF Abreast, Leads
<1>4. now >= zero[p] + sp[p]
  BY <1>1 DEF Clocked, Mark
<1>5. zero[e] <= zero[p] + 1 /\ (e = "client" => zero[e] <= zero[p])
  <2>1. e = "client" => p = "server"
    BY Ends
  <2>2. QED
    BY <1>1, <2>1, Clocks
<1>6. pc[e] \in Testing
  <2> SUFFICES ASSUME pc[e] = "hi" PROVE FALSE
    OBVIOUS
  <2>1. now <= deadline[e] + 0 /\ deadline[e] <= zero[e] + sp[e] + 3 * Slop
    BY LimitValues DEF Due, DueAt, Mark
  <2>2. sp[p] >= sp[e] + Base
    BY <1>2, <1>3
  <2>3. QED
    BY <1>2, <1>4, <1>5, <2>1, <2>2
<1>7. <<p, idx[e]>> \in greeted
  <2>1. <<e, idx[e]>> \in greeted /\ Gone(p, idx[e])
    BY <1>6 DEF GreetInv, Gone
  <2>2. QED
    BY <1>2, <2>1 DEF Live, Broken
<1>8. next[e] = sp[p]
  BY <1>3, <1>6, <1>7 DEF Due, DueAt
<1>9. now + (IF e = "server" THEN 1 ELSE 0) >= zero[e] + next[e]
  <2>1. CASE e = "client"
    BY <1>2, <1>4, <1>5, <1>8, <2>1
  <2>2. CASE e = "server"
    BY <1>2, <1>4, <1>5, <1>8, <2>2
  <2>3. QED
    BY <2>1, <2>2, Ends
<1>10. pc[e] = "last" \/ (e = "client" /\ pc[e] = "ack")
  BY <1>6, <1>9, TooLate
<1>11. CASE GivesUp(e)
  BY <1>11 DEF GivesUp
<1>12. CASE LastRead(e)
  BY <1>12, SaysNothing DEF LastRead, Gets
<1>13. CASE AckRead(e) /\ e = "client"
  <2>1. Heard(e) # "ACK"
    <3>1. ok \in [End -> BOOLEAN]
      BY DEF TypeInv, Walk
    <3>2. QED
      BY <1>13, <3>1 DEF AckRead, Success
  <2>2. QED
    BY <1>13, <2>1, SaysNothing DEF AckRead, Gets
<1>14. QED
  BY <1>10, <1>11, <1>12, <1>13, StepAt

\* What becomes of a rate, and of the greeting at it.
LEMMA Outcome ==
  ASSUME TypeInv, ServerKnows', NEW e \in End, NEW p \in End, p # e, Step(e), ~ok'["client"],
         pc[e] \in {"hi"} \cup Testing
  PROVE  /\ zero'[e] = zero[e]
         /\ \/ Stands(e) /\ pc'[e] \in Testing /\ (greeted' = greeted \/ greeted' = greeted \cup {<<e, idx[e]>>})
            \/ /\ pc'[e] = "sync" /\ idx'[e] = idx[e] + 1 /\ sp'[e] = next[e] /\ greeted' = greeted
            \/ idx[e] = Slowest
<1>1. \/ HiRead(e) /\ Heard(e) = "HI"
      \/ Tests(e)
  BY StepTests DEF MarchRead, StartSpeed, AtSync, SendHi, Gets, Testing
<1>2. CASE HiRead(e) /\ Heard(e) = "HI"
  <2>1. /\ pc'[e] = (IF e = "client" THEN "hs" ELSE "rhs")
        /\ idx'[e] = idx[e] /\ zero'[e] = zero[e] /\ sp'[e] = sp[e]
    BY <1>2, GreetedMoves
  <2>2. greeted' = greeted \cup {<<e, idx[e]>>}
    BY <1>2 DEF HiRead
  <2>3. QED
    BY <2>1, <2>2 DEF Stands, Testing
<1>3. CASE Tests(e)
  <2>1. CASE pc'[e] \in Testing /\ Stands(e) /\ greeted' = greeted
    BY <2>1 DEF Stands
  <2>2. CASE Fail(e) /\ UNCHANGED <<clean, now, greeted>>
    <3>0. idx[e] < NumRates \/ idx[e] = Slowest
      BY Places, SerBaudAssumption DEF Rate, Slowest
    <3>1. /\ idx \in [End -> Rate] /\ sp \in [End -> Nat] /\ pc \in [End -> Pcs]
          /\ idx[e] < NumRates \/ idx[e] = Slowest
      BY <3>0 DEF TypeInv, Walk
    <3>2. CASE idx[e] < NumRates
      BY <2>2, <3>1, <3>2 DEF Fail, Begin, Goto
    <3>3. QED
      BY <2>2, <3>1, <3>2 DEF Fail
  <2>3. ~Success(e)
    <3>1. ok \in [End -> BOOLEAN] /\ "client" \in End /\ "server" \in End
      BY Ends DEF TypeInv, Walk
    <3>2. Success(e) => ok'[e]
      BY <3>1 DEF Success
    <3>3. QED
      BY <3>2, Ends DEF ServerKnows
  <2>4. QED
    BY <1>3, <2>1, <2>2, <2>3 DEF Tests
<1>4. QED
  BY <1>1, <1>2, <1>3

LEMMA RateWalks ==
  ASSUME TypeInv, TypeInv', ServerKnows', Due, GreetInv, Live, Live', Walks, NEW e \in End, Step(e),
         pc[e] \in {"hi"} \cup Testing
  PROVE  Walks'
<1>0. PICK p \in End : p # e
  BY Ends
<1>1. Begun(e) /\ pc[p] \in Walking /\ Begun(p)
  <2>1. pc[e] # "hold"
    BY DEF Testing
  <2>2. QED
    BY <1>0, <2>1, BothBegun
<1>2. Abreast(e, p) /\ Abreast(p, e) /\ Ending(e, p) /\ Ending(p, e)
  BY <1>0, <1>1 DEF Walks
<1>3. pc[e] \notin {"sync", "slop"} /\ ~ok'["client"] /\ Slowest \in clean
  BY DEF Live, Testing
<1>4. CASE idx[e] = Slowest
  <2>1. idx[p] = Slowest /\ pc[p] # "sync" /\ Talk
    BY <1>2, <1>3, <1>4 DEF Ending
  <2>2. QED
    BY <1>0, <1>1, <1>3, <1>4, <2>1, TalkWalks
<1>5. ASSUME idx[e] # Slowest PROVE Walks'
  <2>1. Aside(p)
    BY <1>0, StepBehaves DEF Behaves
  <2>2. /\ zero'[e] = zero[e]
        /\ \/ Stands(e) /\ pc'[e] \in Testing /\ (greeted' = greeted \/ greeted' = greeted \cup {<<e, idx[e]>>})
           \/ /\ pc'[e] = "sync" /\ idx'[e] = idx[e] + 1 /\ sp'[e] = next[e] /\ greeted' = greeted
    BY <1>0, <1>3, <1>5, Outcome
  <2>3. /\ idx[e] \in Nat /\ idx[p] \in Nat /\ idx[e] \in Rate /\ idx[e] < Slowest
        /\ idx'[e] \in Nat /\ Slowest \in Nat
    <3>1. idx[e] \in Nat /\ idx[p] \in Nat /\ idx[e] \in Rate /\ Slowest \in Nat
      BY Places, SerBaudAssumption DEF Slowest
    <3>2. idx[e] < Slowest
      BY <1>5, <3>1 DEF Rate, Slowest
    <3>3. idx'[e] \in Nat
      BY <2>2, <3>1 DEF Stands
    <3>4. QED
      BY <3>1, <3>2, <3>3
  <2>4. ~(idx[e] > idx[p]) /\ (idx[p] > idx[e] => idx[p] = idx[e] + 1 /\ pc[p] \in {"sync", "slop"})
    BY <1>2, <1>3 DEF Abreast, Leads
  <2>5. Clocked(e)'
    BY <2>2 DEF Clocked, Testing
  <2>6. next[e] = sp[e] + Base + IF <<e, idx[e]>> \in greeted THEN TestTime(idx[e]) ELSE 0
    <3>1. sp[e] \in Nat /\ Base \in Nat
      BY Places, LimitFacts
    <3>2. pc[e] \in Testing <=> <<e, idx[e]>> \in greeted
      BY <2>3 DEF GreetInv, Gone, Testing
    <3>3. QED
      BY <3>1, <3>2 DEF Due, DueAt
  <2>7. ASSUME idx[p] = idx[e] + 1, pc'[e] = "sync"
        PROVE  <<e, idx[e]>> \in greeted <=> <<p, idx[e]>> \in greeted
    <3>0. PICK i \in Rate : i = idx[e]
      BY <2>3
    <3>1. Gone(p, i)
      BY <2>3, <2>7, <3>0 DEF Gone
    <3>2. greeted' = greeted /\ idx'[e] = idx[e] + 1
      BY <2>2, <2>7 DEF Testing
    <3>3. Gone(e, i)'
      BY <2>3, <3>0, <3>2 DEF Gone
    <3>4. ~Broken /\ ~Broken'
      BY DEF Live
    <3>5. QED
      BY <1>0, <3>0, <3>1, <3>2, <3>3, <3>4 DEF Broken
  <2>8. Abreast(e, p)' /\ Abreast(p, e)'
    <3>1. CASE Stands(e) /\ pc'[e] \in Testing
      <4>1. \A i : <<p, i>> \in greeted' <=> <<p, i>> \in greeted
        BY <1>0, <2>2
      <4>2. QED
        BY <1>2, <2>1, <2>4, <3>1, <4>1 DEF Abreast, Leads, Stands, Aside
    <3>2. CASE pc'[e] = "sync" /\ idx'[e] = idx[e] + 1 /\ sp'[e] = next[e] /\ greeted' = greeted
      <4>1. CASE idx[p] = idx[e]
        <5>1. sp[e] = sp[p]
          BY <1>2, <4>1 DEF Abreast
        <5>2. ~(idx'[p] > idx'[e]) /\ idx'[e] # idx'[p]
          BY <2>1, <2>3, <3>2, <4>1 DEF Aside
        <5>3. sp'[e] = sp'[p] + Base + IF <<e, idx'[p]>> \in greeted' THEN TestTime(idx'[p]) ELSE 0
          BY <2>1, <2>6, <3>2, <4>1, <5>1 DEF Aside
        <5>4. QED
          BY <2>1, <3>2, <4>1, <5>2, <5>3 DEF Abreast, Leads, Aside
      <4>2. CASE idx[p] # idx[e]
        <5>1. idx[p] = idx[e] + 1 /\ idx[p] > idx[e]
          BY <2>3, <2>4, <4>2
        <5>2. sp[p] = sp[e] + Base + IF <<p, idx[e]>> \in greeted THEN TestTime(idx[e]) ELSE 0
          BY <1>2, <5>1 DEF Abreast, Leads
        <5>3. sp'[e] = sp'[p] /\ idx'[e] = idx'[p]
          BY <2>1, <2>6, <2>7, <3>2, <5>1, <5>2 DEF Aside
        <5>4. ~(idx'[p] > idx'[e]) /\ ~(idx'[e] > idx'[p])
          BY <2>3, <5>3
        <5>5. QED
          BY <5>3, <5>4 DEF Abreast, Leads
      <4>3. QED
        BY <4>1, <4>2
    <3>3. QED
      BY <2>2, <3>1, <3>2
  <2>9. Ending(e, p)'
    BY <1>5, <2>2 DEF Ending, Stands
  <2>10. Ending(p, e)'
    <3>1. ASSUME idx[p] = Slowest, pc[p] # "sync"
          PROVE  pc[p] = "slop" /\ None(p)'
      <4>1. pc[p] = "slop" /\ None(p)
        BY <1>2, <1>5, <3>1 DEF Ending
      <4>2. idx[p] > idx[e]
        BY <2>3, <3>1
      <4>3. chan'[p] = chan[p]
        BY <1>0, <1>1, <1>3, <4>1, <4>2, Silence
      <4>4. QED
        BY <4>1, <4>3 DEF None
    <3>2. idx'[e] < Slowest \/ pc'[e] = "sync"
      BY <2>2, <2>3 DEF Stands
    <3>3. QED
      BY <2>1, <3>1, <3>2 DEF Ending, Aside
  <2>11. pc'[e] \in Walking
    BY <2>2 DEF Walking
  <2>12. QED
    BY <1>0, <1>1, <2>1, <2>2, <2>5, <2>8, <2>9, <2>10, <2>11, StepWalks
<1>6. QED
  BY <1>4, <1>5

LEMMA TickWalks ==
  ASSUME TypeInv, TypeInv', MeetInv, Slowest \in clean, Walks, Tick
  PROVE  Walks'
<1>1. /\ now' = now + 1 /\ UNCHANGED <<clean, pc, deadline, zero, idx, rate, sp, next, ok, greeted>>
      /\ \A e \in End : Mark(e)' = Mark(e) /\ ~Busy(e)
  BY TickKeeps
<1>2. now \in Nat /\ Slop \in Nat /\ \A e \in End : Mark(e) \in Nat /\ deadline[e] \in Nat
  BY Numbers
<1>3. ASSUME NEW e \in End PROVE Clocked(e)'
  <2>1. Clocked(e)
    BY DEF Walks
  <2>2. QED
    BY <1>1, <1>2, <2>1 DEF Clocked
<1>4. \A e \in End : pc'[e] \in Walking \cup {"hold"} /\ Origin(e)' = Origin(e)
  BY <1>1 DEF Walks, Origin
<1>5. Paced'
  BY <1>3, <1>4, Ends DEF Walks, Paced
<1>6. ASSUME NEW e \in End, NEW p \in End, p # e PROVE Paired(e, p)'
  <2>1. pc[e] = "hold" => now < deadline[e]
    BY <1>1, <1>2 DEF Busy, Over, Reading
  <2>2. pc'[e] = "hold" => now' <= deadline'[e] /\ (pc'[p] = "hold" \/ First(p)')
    BY <1>1, <1>2, <1>6, <2>1 DEF Walks, First
  <2>3. ASSUME Begun(e), Begun(p) PROVE Abreast(e, p)' /\ Ending(e, p)'
    <3>1. Abreast(e, p) /\ Ending(e, p)
      BY <1>6, <2>3 DEF Walks
    <3>2. Abreast(e, p)'
      BY <1>1, <3>1 DEF Abreast, Leads
    <3>3. None(e) => None(e)'
      BY TickThere
    <3>4. idx[e] = Slowest /\ idx[p] = Slowest /\ pc[e] # "sync" /\ pc[p] # "sync" /\ Talk => Talk'
      BY <1>6, <2>3, Levelled, TalkTick
    <3>5. Ending(e, p)'
      BY <1>1, <3>1, <3>3, <3>4 DEF Ending
    <3>6. QED
      BY <3>2, <3>5
  <2>4. (Begun(e)' => Begun(e)) /\ (Begun(p)' => Begun(p))
    BY <1>1 DEF Begun
  <2>5. QED
    BY <2>2, <2>3, <2>4 DEF Paired
<1>7. QED
  BY <1>5, <1>6 DEF Walks, Paced, Paired

(***************************************************************************)
(* MarchToTheSameDrummer sets the clocks a tick apart at most              *)
(***************************************************************************)
LEMMA MarchFacts ==
  ASSUME TypeInv, Marching
  PROVE  /\ rate["server"] = Slowest /\ (pc["client"] = "lok" => rate["client"] = Slowest)
         /\ LokWait \in Nat /\ BaudSet \in Nat /\ 2 <= LokWait /\ 2 <= BaudSet
<1>1. /\ rate["server"] = Slowest /\ (pc["client"] = "lok" => rate["client"] = Slowest)
  BY Ends DEF Marching, Calling, Called, Begun
<1>2. QED
  BY <1>1, LimitFacts, SerBaudAnswers

LEMMA LokMarches ==
  ASSUME TypeInv, TypeInv', Slowest \in clean, Marching, SendLok
  PROVE  Marching'
<1> DEFINE c == "client"
           s == "server"
<1>1. c \in End /\ s \in End /\ c # s /\ rate[s] = Slowest /\ \A x \in End : x = c \/ x = s
  BY Ends, MarchFacts
<1>2. /\ pc[s] = "march" /\ SendRead(s, <<"LOK">>, 0) /\ Goto(s, "lokack", HalfSec) /\ UNCHANGED <<fixed, table>>
  BY DEF SendLok, Send
<1>3. pc[c] = "lok" /\ deadline[c] = LokWait /\ None(s) /\ None(c) /\ now = 0
  BY <1>2 DEF Marching, Calling, Called
<1>4. Sent(s, c, <<"LOK">>, 0) /\ Arrives(c, <<"LOK">>)
  BY <1>1, <1>2, Messages, Arriving
<1>5. One(c, "LOK")' /\ Age(c, 1)' = 0 /\ None(s)'
  BY <1>1, <1>3, <1>4, OneArrives, TakesNothing
<1>6. /\ pc'[s] = "lokack" /\ deadline'[s] = now + HalfSec /\ pc'[c] = pc[c] /\ deadline'[c] = deadline[c]
      /\ now' = now /\ rate' = rate
  BY <1>1, <1>2, GoneTo DEF Aside, table
<1>7. now + HalfSec = HalfSec
  BY <1>3, Numbers
<1>8. Calling'
  BY <1>3, <1>5, <1>6, <1>7 DEF Calling
<1>9. \A e \in End : ~Begun(e)' => rate'[e] = Slowest
  BY <1>1, <1>3, <1>6 DEF Marching, Begun
<1>10. QED
  BY <1>8, <1>9 DEF Marching

\* The client hears LOK and answers.
LEMMA CallingStep ==
  ASSUME TypeInv, TypeInv', Slowest \in clean, Marching, Calling, NEW e \in End, Step(e)
  PROVE  Marching'
<1> DEFINE c == "client"
           s == "server"
<1>1. /\ c \in End /\ s \in End /\ c # s /\ rate[s] = Slowest /\ \A x \in End : x = c \/ x = s
      /\ LokWait \in Nat /\ 2 <= LokWait
  BY Ends, MarchFacts
<1>2. /\ pc[c] = "lok" /\ deadline[c] = LokWait /\ None(s) /\ rate[c] = Slowest
  BY <1>1, MarchFacts DEF Calling
<1>3. pc[s] # "march"
  <2> SUFFICES ASSUME pc[s] = "march" PROVE FALSE
    OBVIOUS
  <2>1. None(c) /\ now = 0
    BY DEF Calling
  <2>2. ~Over(c)
    BY <1>1, <1>2, <2>1 DEF Over
  <2>3. e = c
    BY <1>1, StepAt
  <2>4. QED
    BY <1>2, <2>1, <2>2, <2>3, Patient DEF Reading
<1>4. pc[s] = "lokack" /\ One(c, "LOK") /\ now = Age(c, 1) /\ deadline[s] = HalfSec /\ Age(c, 1) \in {0, 1}
  BY <1>1, <1>3, Numbers DEF Calling
<1>5. ~Over(c) /\ ~Over(s)
  BY <1>1, <1>2, <1>4, Numbers DEF Over
<1>6. e = c /\ MarchRead(c) /\ Heard(c) = "LOK"
  BY <1>1, <1>2, <1>4, <1>5, StepAt, Patient, HearsOne DEF GivesUp, Reading
<1>7. chan[c] # <<>> /\ SendRead(c, <<"ACK">>, 1) /\ Goto(c, "hold", 1) /\ UNCHANGED <<fixed, table>>
  BY <1>6 DEF MarchRead, Gets
<1>8. Sent(c, s, <<"ACK">>, 1) /\ Arrives(s, <<"ACK">>)
  BY <1>1, <1>2, <1>7, Messages, Arriving
<1>9. One(s, "ACK")' /\ Age(s, 1)' = 0
  BY <1>1, <1>2, <1>8, OneArrives
<1>10. /\ pc'[c] = "hold" /\ deadline'[c] = now + 1 /\ pc'[s] = pc[s] /\ deadline'[s] = deadline[s]
       /\ now' = now /\ rate' = rate
  BY <1>1, <1>7, GoneTo DEF Aside, table
<1>11. Called'
  <2>1. Origin(c)' + Age(s, 1)' = now' + 1 /\ now' <= 1 + Age(s, 1)'
    BY <1>1, <1>4, <1>9, <1>10, Numbers DEF Origin
  <2>2. QED
    BY <1>4, <1>9, <1>10, <2>1 DEF Called
<1>12. \A x \in End : ~Begun(x)' => rate'[x] = Slowest
  BY <1>1, <1>2, <1>10
<1>13. QED
  BY <1>11, <1>12 DEF Marching

\* The server hears ACK, or the client begins to walk before that.
LEMMA CalledStep ==
  ASSUME TypeInv, TypeInv', Slowest \in clean, Marching, Called, NEW e \in End, Step(e)
  PROVE  Marching' \/ Walks'
<1> DEFINE c == "client"
           s == "server"
<1>1. /\ c \in End /\ s \in End /\ c # s /\ rate[s] = Slowest /\ \A x \in End : x = c \/ x = s
      /\ BaudSet \in Nat /\ 2 <= BaudSet /\ now \in Nat /\ zero[c] \in Nat /\ deadline[c] \in Nat
      /\ HalfSec \in Nat /\ 3 <= HalfSec
  BY Ends, MarchFacts, Numbers
<1>2. /\ pc[c] = "hold" \/ First(c)
      /\ pc[s] = "lokack" /\ One(s, "ACK") /\ deadline[s] = HalfSec /\ Age(s, 1) \in {0, 1}
      /\ Origin(c) + Age(s, 1) = now + 1 /\ now <= 1 + Age(s, 1)
  BY <1>1, Numbers DEF Called
<1>3. CASE e = s
  <2>1. ~Over(s)
    BY <1>1, <1>2 DEF Over
  <2>2. MarchRead(s) /\ Heard(s) = "ACK"
    BY <1>1, <1>2, <1>3, <2>1, StepAt, HearsOne DEF GivesUp
  <2>3. Goto(s, "hold", 1) /\ UNCHANGED <<fixed, table>>
    BY <2>2 DEF MarchRead
  <2>4. /\ pc'[s] = "hold" /\ deadline'[s] = now + 1 /\ Aside(c)
    BY <1>1, <2>3, GoneTo
  <2>5. Origin(c)' = Origin(c) /\ Origin(s)' = now + 1 /\ Origin(c) \in Nat
    BY <1>1, <2>4 DEF Origin, Aside
  <2>6. Origin(c)' <= Origin(s)' /\ Origin(s)' <= Origin(c)' + 1
    BY <1>1, <1>2, <2>5
  <2>7. \A x \in End : pc'[x] \in Walking \cup {"hold"} /\ Clocked(x)'
    BY <1>1, <1>2, <2>4 DEF Clocked, Aside, Walking, First
  <2>8. Paced'
    BY <2>6, <2>7 DEF Paced
  <2>9. Paired(c, s)' /\ Paired(s, c)'
    <3>1. pc'[c] = "hold" => now' <= deadline'[c]
      BY <1>1, <1>2, <2>4 DEF Origin, Aside
    <3>2. pc'[c] = "hold" \/ First(c)'
      BY <1>2, <2>4 DEF First, Aside
    <3>3. now' <= deadline'[s] /\ ~Begun(s)'
      BY <1>1, <2>4 DEF Aside, Begun
    <3>4. QED
      BY <2>4, <3>1, <3>2, <3>3 DEF Paired
  <2>10. \A x, y \in End : y # x => Paired(x, y)'
    BY <1>1, <2>9
  <2>11. QED
    BY <2>8, <2>10 DEF Walks, Paced, Paired
<1>4. CASE e = c
  <2>1. pc[c] = "hold"
    <3> SUFFICES ASSUME First(c) PROVE FALSE
      BY <1>2
    <3>1. AtSync(c)
      BY <1>4, StepAt DEF First
    <3>2. now - zero[c] >= BaudSet /\ Origin(c) = zero[c]
      BY <3>1 DEF AtSync, Clock, First, Origin
    <3>3. QED
      BY <1>1, <1>2, <3>2
  <2>2. StartSpeed(c)
    BY <1>4, <2>1, StepAt
  <2>3. /\ pc'[c] = "sync" /\ idx'[c] = idx[c] /\ zero'[c] = now /\ sp'[c] = BaudSet /\ Aside(s)
        /\ now >= deadline[c] /\ idx[c] = 1 /\ chan' = chan
    BY <1>1, <2>1, <2>2, StartMoves DEF StartSpeed, TypeInv, Tabled, Begun
  <2>4. First(c)'
    BY <2>3 DEF First
  <2>5. Origin(c)' = Origin(c)
    <3>1. Origin(c) = deadline[c] /\ Origin(c)' = now
      BY <2>1, <2>3 DEF Origin
    <3>2. QED
      BY <1>1, <1>2, <2>3, <3>1
  <2>6. One(s, "ACK")' /\ Age(s, 1)' = Age(s, 1)
    BY <1>2, <2>3 DEF One, Is, Age
  <2>7. pc'[s] = pc[s] /\ deadline'[s] = deadline[s] /\ now' = now /\ rate'[s] = rate[s]
    BY <2>3 DEF Aside
  <2>8. Called'
    BY <1>2, <2>4, <2>5, <2>6, <2>7 DEF Called
  <2>9. \A x \in End : ~Begun(x)' => rate'[x] = Slowest
    BY <1>1, <2>3, <2>7 DEF Begun
  <2>10. QED
    BY <2>8, <2>9 DEF Marching
<1>5. QED
  BY <1>1, <1>3, <1>4

LEMMA TickMarches ==
  ASSUME TypeInv, MeetInv, Marching, Tick
  PROVE  Marching'
<1> DEFINE c == "client"
           s == "server"
<1>1. c \in End /\ s \in End /\ c # s /\ \A x \in End : x = c \/ x = s
  BY Ends
<1>2. /\ now' = now + 1 /\ UNCHANGED <<clean, pc, deadline, zero, idx, rate, sp, next, ok, greeted>>
      /\ \A e \in End : ~Busy(e)
  BY TickKeeps
<1>3. now \in Nat /\ zero[c] \in Nat /\ deadline[c] \in Nat
  BY <1>1, Numbers
<1>4. \A x \in End : ~Begun(x)' => rate'[x] = Slowest
  BY <1>2 DEF Marching, Begun
<1>5. CASE Calling
  <2>1. pc[s] # "march"
    BY <1>1, <1>2 DEF Busy
  <2>2. pc[c] = "lok" /\ None(s) /\ pc[s] = "lokack" /\ One(c, "LOK") /\ now = Age(c, 1)
    BY <1>5, <2>1 DEF Calling
  <2>3. None(s)' /\ One(c, "LOK")' /\ Age(c, 1)' = 1 /\ Age(c, 1) = 0
    BY <1>1, <2>2, TickThere DEF Reading
  <2>4. Calling'
    BY <1>2, <1>5, <2>1, <2>2, <2>3 DEF Calling
  <2>5. QED
    BY <1>4, <2>4 DEF Marching
<1>6. CASE Called
  <2>1. pc[s] = "lokack" /\ One(s, "ACK") /\ Origin(c) + Age(s, 1) = now + 1 /\ now <= 1 + Age(s, 1)
    BY <1>6 DEF Called
  <2>2. One(s, "ACK")' /\ Age(s, 1)' = 1 /\ Age(s, 1) = 0
    BY <1>1, <2>1, TickThere DEF Reading
  <2>3. Origin(c)' = Origin(c) /\ Origin(c) \in Nat /\ (First(c) <=> First(c)')
    BY <1>2, <1>3 DEF Origin, First
  <2>4. Origin(c)' + Age(s, 1)' = now' + 1 /\ now' <= 1 + Age(s, 1)'
    BY <1>2, <1>3, <2>1, <2>2, <2>3
  <2>5. Called'
    BY <1>2, <1>6, <2>2, <2>3, <2>4 DEF Called
  <2>6. QED
    BY <1>4, <2>5 DEF Marching
<1>7. QED
  BY <1>5, <1>6 DEF Marching

(***************************************************************************)
(* All together                                                            *)
(***************************************************************************)
LEMMA PaceInit == Init => PaceInv
<1> SUFFICES ASSUME Init PROVE PaceInv
  OBVIOUS
<1>1. /\ now = 0 /\ chan = [e \in End |-> <<>>] /\ pc["client"] = "lok" /\ pc["server"] = "march"
      /\ deadline["client"] = LokWait
  BY Ends DEF Init
<1>2. Calling
  BY <1>1, Ends DEF Calling, None
<1>3. \A e \in End : rate[e] = Slowest
  BY DEF Init
<1>4. QED
  BY <1>2, <1>3 DEF PaceInv, Marching

LEMMA PaceStill ==
  ASSUME UNCHANGED vars, Marching \/ Walks
  PROVE  (Marching \/ Walks)'
<1>1. UNCHANGED <<now, zero, chan, pc, deadline, idx, rate, sp, greeted>>
  BY DEF vars
<1>2. \A e, a : (None(e)' <=> None(e)) /\ (One(e, a)' <=> One(e, a)) /\ (Age(e, a)' = Age(e, a))
  BY <1>1 DEF None, One, Is, Age
<1>3. \A e, a, b : Two(e, a, b)' <=> Two(e, a, b)
  BY <1>1 DEF Two, Is
<1>4. \A e : (First(e)' <=> First(e)) /\ (Mark(e)' = Mark(e)) /\ (Origin(e)' = Origin(e)) /\ (Begun(e)' <=> Begun(e))
  BY <1>1 DEF First, Mark, Origin, Begun
<1>5. Marching => Marching'
  BY <1>1, <1>2, <1>3, <1>4 DEF Marching, Calling, Called
<1>6. \A e : Clocked(e)' <=> Clocked(e)
  BY <1>1, <1>2, <1>4 DEF Clocked
<1>7. \A e, p : (Abreast(e, p)' <=> Abreast(e, p)) /\ (HiThere(e, p)' <=> HiThere(e, p))
  BY <1>1, <1>2, <1>4 DEF Abreast, Leads, HiThere
<1>8. Greeting' <=> Greeting
  BY <1>1, <1>2, <1>3, <1>7 DEF Greeting, GreetNone, GreetOne, GreetBoth, GreetClient, GreetServer, Begins
<1>9. \A a, b : Exchange(a, b)' <=> Exchange(a, b)
  BY <1>1, <1>2, <1>3, <1>4 DEF Exchange, Sync, Synced, StrBegins, StrOnWay, StrShort, StrThere, Begins, Right, Agreed
<1>10. Talk' <=> Talk
  BY <1>1, <1>2, <1>3, <1>8, <1>9 DEF Talk, Turn, Begins
<1>11. \A e, p : Ending(e, p)' <=> Ending(e, p)
  BY <1>1, <1>2, <1>10 DEF Ending
<1>12. Walks => Walks'
  BY <1>1, <1>4, <1>6, <1>7, <1>11 DEF Walks
<1>13. QED
  BY <1>5, <1>12

LEMMA PaceNext ==
  TypeInv /\ TakInv /\ MeetInv /\ Due /\ GreetInv /\ PaceInv /\ [Next]_vars => PaceInv' /\ GreetInv'
<1> SUFFICES ASSUME TypeInv, TakInv, MeetInv, Due, GreetInv, PaceInv, [Next]_vars PROVE PaceInv' /\ GreetInv'
  OBVIOUS
<1>1. TypeInv' /\ TakInv'
  BY TypeNext, TakNext
<1>2. GreetInv' /\ (Live' => Live)
  BY <1>1, LiveBefore
<1>3. ServerKnows'
  BY <1>1 DEF TakInv, ServerKnows
<1>4. ASSUME Live' PROVE (Marching \/ Walks)'
  <2>1. Live /\ (Marching \/ Walks) /\ Slowest \in clean /\ ~ok'["client"]
    BY <1>2, <1>4 DEF PaceInv, Live
  <2>2. CASE SendLok
    <3>1. Marching
      BY <2>1, <2>2, Ends DEF SendLok, Walks, Walking, Testing
    <3>2. QED
      BY <1>1, <2>1, <2>2, <3>1, LokMarches
  <2>3. CASE Tick
    BY <1>1, <2>1, <2>3, TickMarches, TickWalks
  <2>4. CASE UNCHANGED vars
    BY <2>1, <2>4, PaceStill
  <2>5. ASSUME NEW e \in End, Step(e) PROVE (Marching \/ Walks)'
    <3>1. CASE Marching
      BY <1>1, <2>1, <2>5, <3>1, CallingStep, CalledStep DEF Marching
    <3>2. CASE Walks
      <4>1. pc[e] \in Walking \cup {"hold"}
        BY <3>2 DEF Walks
      <4>2. QED
        BY <1>1, <1>3, <1>4, <2>1, <2>5, <3>2, <4>1, StepAt, StartWalks, SyncWalks, HiWalks, RateWalks DEF Walking
    <3>3. QED
      BY <2>1, <3>1, <3>2
  <2>6. QED
    BY <2>2, <2>3, <2>4, <2>5 DEF Next, Returned
<1>5. QED
  BY <1>2, <1>4 DEF PaceInv

\* When both calls of Speed have returned, the slowest rate garbles nothing and no greeting
\* has parted the ends, the client has settled on a rate: at the slowest one, if at no
\* other, MarchToTheSameDrummer and the sync points have brought the ends together, and
\* SetBaudSender and SetBaudReceiver hear every answer in time.
THEOREM SettlesCorrect == Spec => []Settles
<1> DEFINE Inv == TypeInv /\ TakInv /\ MeetInv /\ Due /\ GreetInv /\ PaceInv
<1>1. Init => Inv
  BY TypeInit, TakInit, MeetInit, DueInit, GreetInit, PaceInit
<1>2. Inv /\ [Next]_vars => Inv'
  BY TypeNext, TakNext, MeetNext, DueNext, PaceNext
<1>3. Inv => Settles
  <2> SUFFICES ASSUME Inv, Done, Slowest \in clean, ~Parted, ~ok["client"] PROVE FALSE
    BY DEF Settles
  <2>1. ~Broken
    BY Ends DEF Broken, Parted, Peer
  <2>2. Marching \/ Walks
    BY <2>1 DEF PaceInv, Live
  <2>3. pc["client"] = "done"
    BY Ends DEF Done
  <2>4. QED
    BY <2>2, <2>3, Ends DEF Marching, Calling, Called, First, Walks, Walking, Testing
<1>4. QED
  BY <1>1, <1>2, <1>3, PTL DEF Spec
=============================================================================
