--------------------------- MODULE ParConnectProofs ---------------------------
(***************************************************************************)
(* Proofs about ParConnect, for every number of lines, pulses, attempts    *)
(* and killed clients, every limit of a wait and any speed of the two      *)
(* machines: the types, that no end enters a session over a cable with a   *)
(* dead line, that a client that does has its server there, and that a     *)
(* server that does has its client.                                        *)
(***************************************************************************)
EXTENDS ParConnect, TLAPS

(***************************************************************************)
(* The inductive invariant                                                 *)
(***************************************************************************)
\* What an end shows in each step of LineTest; and no end shows a byte
\* but while it waits for its peer to take it, or after it gave that up.
Shown ==
  /\ \A e \in End : /\ pc[e] = "get_data" => line[e] = "ready"
                    /\ pc[e] \in {"put_ready", "get_heard", "synch"} => line[e] = "low"
                    /\ pc[e] = "put_taken" => line[e] = "data"
  /\ line["server"] = "data" => pc["server"] \in {"put_taken", "wait"}
  /\ pc["server"] = "put_taken" => byte["server"] = TestByte(bit)

\* Where in its test the server is.
Bits ==
  /\ pc["server"] \in {"put_ready", "put_taken"} => bit \in 1 .. NumLines + 1
  /\ pc["server"] \in {"get_data", "get_heard"} => bit \in 1 .. NumLines

\* What an end has read, and what the client shows of it, came over lines that
\* work; so do the lines that the server has tested.
Working ==
  /\ \A x \in End : data["server"] \cap dead[x] = {}
  /\ data["client"] \cap dead["client"] = {} /\ byte["client"] \cap dead["client"] = {}
  /\ \A x \in End : pc["server"] \in LineTestPcs => \A i \in dead[x] : i >= bit
  /\ \A x \in End : pc["server"] \in {"session", "disco"} => dead[x] = {}

\* A server that is no longer in its main loop, or has given up in the middle of a
\* byte while the client is in its test, counts no pulse.
Deaf ==
  /\ pc["server"] \in LineTestPcs \cup {"twidle", "synch"} => ~on["server"]
  /\ pc["server"] = "wait" /\ line["server"] = "data" /\ pc["client"] \in LineTestPcs => ~on["server"]

\* When the client has read the last byte, the server still holds it, or is in the
\* session, or has given up and stays in its main loop.
Told == pc["client"] = "get_heard" /\ data["client"] = DONE
Holds == \/ pc["server"] = "put_taken" /\ bit = NumLines + 1
         \/ pc["server"] = "session" /\ sess = tries
         \/ pc["server"] = "wait" /\ line["server"] = "data"

IndInv ==
  /\ TypeOK /\ Shown /\ Bits /\ Working /\ Deaf
  /\ Told => Holds
  /\ ClientKnows

LEMMA Ends == End = {"client", "server"} /\ Peer("client") = "server" /\ Peer("server") = "client"
BY DEF End, Peer

\* Only the last byte of the test is DONE_LINE_TEST.
LEMMA LastByte ==
  ASSUME NEW b \in Nat, DONE \subseteq TestByte(b)
  PROVE  b \notin Lines
<1>1. 1 \in Lines /\ 2 \in Lines
  BY ParConnectAssumption DEF Lines
<1>2. QED
  BY <1>1 DEF TestByte, DONE

(***************************************************************************)
(* Every step preserves the invariant                                      *)
(***************************************************************************)
LEMMA TwidleOnStep ==
  ASSUME IndInv, NEW e \in End, TwidleOn(e)
  PROVE  IndInv'
<1>1. TypeOK'
  BY Ends, ParConnectAssumption DEF IndInv, TypeOK, TwidleOn, config, lines, test, user, server
<1>2. Shown'
  BY Ends DEF IndInv, TypeOK, Shown, TwidleOn, lines, test
<1>3. Bits'
  BY Ends DEF IndInv, TypeOK, Bits, TwidleOn, test
<1>4. Working'
  BY Ends DEF IndInv, TypeOK, Working, TwidleOn, config, lines, test
<1>5. Deaf'
  BY Ends DEF IndInv, TypeOK, Shown, Deaf, LineTestPcs, TwidleOn, Counting
<1>6. (Told => Holds)'
  BY Ends DEF IndInv, TypeOK, Told, Holds, TwidleOn, lines, test, user, server
<1>7. ClientKnows'
  BY Ends DEF IndInv, TypeOK, ClientKnows, Holds, TwidleOn, user, server
<1>8. QED
  BY <1>1, <1>2, <1>3, <1>4, <1>5, <1>6, <1>7 DEF IndInv

LEMMA TwidleOffStep ==
  ASSUME IndInv, NEW e \in End, TwidleOff(e)
  PROVE  IndInv'
<1>1. TypeOK'
  BY Ends, ParConnectAssumption DEF IndInv, TypeOK, Pcs, TwidleOff, CountUp, lines,
     StartTwidle, StartSynch, config, test, user, server, Goto, Show, Wait, After, ShowByte
<1>2. Shown'
  BY Ends DEF IndInv, TypeOK, Shown, TwidleOff, lines, StartTwidle, StartSynch, test, Goto,
     Show, ShowByte
<1>3. Bits'
  BY Ends DEF IndInv, TypeOK, Bits, TwidleOff, StartTwidle, StartSynch, test, Goto, Show
<1>4. Working'
  BY Ends DEF IndInv, TypeOK, Working, LineTestPcs, TwidleOff, lines, StartTwidle, StartSynch,
     config, test, Goto, Show, ShowByte
<1>5. Deaf'
  BY Ends DEF IndInv, TypeOK, Deaf, LineTestPcs, TwidleOff, lines, StartTwidle, StartSynch,
     Goto, Show
<1>6. (Told => Holds)'
  BY Ends DEF IndInv, TypeOK, Deaf, LineTestPcs, Told, Holds, TwidleOff, Counting, StartTwidle,
     StartSynch, test, Goto, Show
<1>7. ClientKnows'
  BY Ends DEF IndInv, TypeOK, ClientKnows, Holds, TwidleOff, Counting, StartTwidle, StartSynch,
     Goto, Show
<1>8. QED
  BY <1>1, <1>2, <1>3, <1>4, <1>5, <1>6, <1>7 DEF IndInv

LEMMA NextHalfStep ==
  ASSUME IndInv, NEW e \in End, NextHalf(e)
  PROVE  IndInv'
<1>1. TypeOK'
  BY Ends, ParConnectAssumption DEF IndInv, TypeOK, NextHalf, Show, Wait, config, counts, test,
     user, server, ShowByte
<1>2. Shown'
  BY Ends DEF IndInv, TypeOK, Shown, NextHalf, Show, test, ShowByte
<1>3. Bits'
  BY Ends DEF IndInv, TypeOK, Bits, NextHalf, Show, test
<1>4. Working'
  BY Ends DEF IndInv, TypeOK, Working, NextHalf, Show, config, test, ShowByte
<1>5. Deaf'
  BY Ends DEF IndInv, TypeOK, Deaf, NextHalf, Show, counts, ShowByte
<1>6. (Told => Holds)'
  BY Ends DEF IndInv, TypeOK, Told, Holds, NextHalf, Show, test
<1>7. ClientKnows'
  BY Ends DEF IndInv, TypeOK, ClientKnows, Holds, NextHalf, Show
<1>8. QED
  BY <1>1, <1>2, <1>3, <1>4, <1>5, <1>6, <1>7 DEF IndInv

LEMMA TwidleEndsStep ==
  ASSUME IndInv, NEW e \in End, TwidleEnds(e)
  PROVE  IndInv'
<1>1. TypeOK'
  BY Ends, ParConnectAssumption DEF IndInv, TypeOK, Pcs, TwidleEnds, StartSynch, test, server,
     Fails, lines, config, counts, user, Goto, Show, Wait, After, ShowByte
<1>2. Shown'
  BY Ends DEF IndInv, TypeOK, Shown, TwidleEnds, StartSynch, Fails, lines, Goto, Show, ShowByte
<1>3. Bits'
  BY Ends DEF IndInv, TypeOK, Bits, TwidleEnds, StartSynch, Fails, Goto, Show
<1>4. Working'
  BY Ends DEF IndInv, TypeOK, Working, LineTestPcs, TwidleEnds, StartSynch, test, Fails, lines,
     config, Goto, Show, ShowByte
<1>5. Deaf'
  BY Ends DEF IndInv, TypeOK, Deaf, LineTestPcs, TwidleEnds, StartSynch, Fails, counts, Goto,
     Show
<1>6. (Told => Holds)'
  BY Ends DEF IndInv, TypeOK, Told, Holds, TwidleEnds, StartSynch, test, Fails, Goto, Show
<1>7. ClientKnows'
  BY Ends DEF IndInv, TypeOK, ClientKnows, Holds, TwidleEnds, StartSynch, Fails, Goto, Show
<1>8. QED
  BY <1>1, <1>2, <1>3, <1>4, <1>5, <1>6, <1>7 DEF IndInv

LEMMA SynchSeenStep ==
  ASSUME IndInv, NEW e \in End, SynchSeen(e)
  PROVE  IndInv'
<1>1. TypeOK'
  BY Ends, ParConnectAssumption DEF IndInv, TypeOK, Pcs, SynchSeen, StartLineTest, config,
     counts, user, server, Put, Show, Get, Goto, Wait, After, ShowByte
<1>2. Shown'
  BY Ends DEF IndInv, TypeOK, Shown, SynchSeen, StartLineTest, Put, Show, Get, Goto, ShowByte
<1>3. Bits'
  BY Ends, ParConnectAssumption DEF IndInv, TypeOK, Bits, SynchSeen, StartLineTest, Put, Show,
     Get, Goto
<1>4. Working'
  BY Ends DEF IndInv, TypeOK, Working, Lines, SynchSeen, StartLineTest, config, Put, Show, Get,
     Goto, ShowByte
<1>5. Deaf'
  BY Ends DEF IndInv, TypeOK, Deaf, SynchSeen, Synch, StartLineTest, counts, Ctl1Hi, Put, Show,
     Get, Goto, ShowByte
<1>6. (Told => Holds)'
  BY Ends DEF IndInv, TypeOK, Told, Holds, SynchSeen, StartLineTest, Put, Show, Get, Goto
<1>7. ClientKnows'
  BY Ends DEF IndInv, TypeOK, ClientKnows, Holds, SynchSeen, StartLineTest, Put, Show, Get,
     Goto
<1>8. QED
  BY <1>1, <1>2, <1>3, <1>4, <1>5, <1>6, <1>7 DEF IndInv

LEMMA SynchFailsStep ==
  ASSUME IndInv, NEW e \in End, SynchFails(e)
  PROVE  IndInv'
<1>1. TypeOK'
  BY Ends, ParConnectAssumption DEF IndInv, TypeOK, Pcs, SynchFails, Fails, config, lines,
     counts, user, Goto, Wait
<1>2. Shown'
  BY Ends DEF IndInv, TypeOK, Shown, SynchFails, Fails, lines, Goto
<1>3. Bits'
  BY Ends DEF IndInv, TypeOK, Bits, SynchFails, Fails, Goto
<1>4. Working'
  BY Ends DEF IndInv, TypeOK, Working, LineTestPcs, SynchFails, Fails, config, lines, Goto
<1>5. Deaf'
  BY Ends DEF IndInv, TypeOK, Deaf, LineTestPcs, SynchFails, Fails, counts, Goto
<1>6. (Told => Holds)'
  BY Ends DEF IndInv, TypeOK, Told, Holds, SynchFails, Fails, Goto
<1>7. ClientKnows'
  BY Ends DEF IndInv, TypeOK, ClientKnows, Holds, SynchFails, Fails, Goto
<1>8. QED
  BY <1>1, <1>2, <1>3, <1>4, <1>5, <1>6, <1>7 DEF IndInv

LEMMA PeerReadyStep ==
  ASSUME IndInv, NEW e \in End, PeerReady(e)
  PROVE  IndInv'
<1>1. TypeOK'
  BY Ends DEF IndInv, TypeOK, Pcs, TestByte, DONE, PeerReady, ShowByte, PutByte, Goto, config,
     counts, user, server
<1>2. Shown'
  BY Ends DEF IndInv, TypeOK, Shown, PeerReady, ShowByte, PutByte, Goto
<1>3. Bits'
  BY Ends DEF IndInv, TypeOK, Bits, PeerReady, Goto
<1>4. Working'
  BY Ends DEF IndInv, TypeOK, Working, LineTestPcs, PeerReady, ShowByte, PutByte, Goto, config
<1>5. Deaf'
  BY Ends DEF IndInv, TypeOK, Deaf, LineTestPcs, PeerReady, ShowByte, Goto, counts
<1>6. (Told => Holds)'
  BY Ends DEF IndInv, TypeOK, Told, Holds, PeerReady, Goto
<1>7. ClientKnows'
  BY Ends DEF IndInv, TypeOK, ClientKnows, Holds, PeerReady, Goto
<1>8. QED
  BY <1>1, <1>2, <1>3, <1>4, <1>5, <1>6, <1>7 DEF IndInv

LEMMA PeerTookStep ==
  ASSUME IndInv, NEW e \in End, PeerTook(e)
  PROVE  IndInv'
<1>1. TypeOK'
  BY Ends, ParConnectAssumption DEF IndInv, TypeOK, Pcs, PeerTook, Goto, Show, Wait, Get,
     server, config, counts, user, ShowByte, After
<1>2. Shown'
  BY Ends DEF IndInv, TypeOK, Shown, PeerTook, Goto, Show, Get, ShowByte
<1>3. Bits'
  BY Ends, ParConnectAssumption DEF IndInv, TypeOK, Bits, PeerTook, Goto, Show, Get
<1>4. Working'
  BY Ends, ParConnectAssumption DEF IndInv, TypeOK, Working, LineTestPcs, Lines, PeerTook,
     Goto, Show, Get, config, ShowByte
<1>5. Deaf'
  BY Ends DEF IndInv, TypeOK, Deaf, LineTestPcs, PeerTook, Goto, Show, Get, counts, ShowByte
<1>6. (Told => Holds)'
  BY Ends, ParConnectAssumption DEF IndInv, TypeOK, Told, Holds, PeerTook, Goto, Show, Get,
     user
<1>7. ClientKnows'
  BY Ends DEF IndInv, TypeOK, ClientKnows, Holds, PeerTook, Goto, Show, Get
<1>8. QED
  BY <1>1, <1>2, <1>3, <1>4, <1>5, <1>6, <1>7 DEF IndInv

LEMMA DataThereStep ==
  ASSUME IndInv, NEW e \in End, DataThere(e)
  PROVE  IndInv'
<1>1. TypeOK'
  BY Ends DEF IndInv, TypeOK, Pcs, DataThere, ReadData, Show, Goto, config, counts, user,
     server, ShowByte
<1>2. Shown'
  BY Ends DEF IndInv, TypeOK, Shown, DataThere, Show, Goto, ShowByte
<1>3. Bits'
  BY Ends DEF IndInv, TypeOK, Bits, DataThere, Show, Goto
<1>4. Working'
  BY Ends DEF IndInv, TypeOK, Working, LineTestPcs, DataThere, ReadData, Show, Goto, config,
     ShowByte
<1>5. Deaf'
  BY Ends DEF IndInv, TypeOK, Deaf, LineTestPcs, DataThere, Show, Goto, counts, ShowByte
<1>6. (Told => Holds)'
  <2>1. CASE e = "server"
    BY <2>1, Ends DEF IndInv, TypeOK, DataThere, Goto, Told, Holds, DONE, Lines
  <2>2. CASE e = "client"
    <3> SUFFICES ASSUME Told'
                 PROVE  Holds'
      OBVIOUS
    <3>1. UNCHANGED <<sess, tries, bit>> /\ pc'["server"] = pc["server"] /\ line'["server"] = line["server"]
      BY <2>2, Ends DEF IndInv, TypeOK, DataThere, Goto, Show, ShowByte, server, user
    <3>2. DONE = ReadData("client")
      BY <2>2, Ends DEF IndInv, TypeOK, DataThere, Told, DONE, Lines
    <3>3. line["server"] = "data" /\ DONE \subseteq byte["server"]
      <4>1. 1 \in DONE
        BY ParConnectAssumption DEF DONE, Lines
      <4>2. QED
        BY <3>2, <4>1, Ends DEF ReadData
    <3>4. CASE pc["server"] = "wait"
      BY <3>1, <3>3, <3>4 DEF Holds
    <3>5. CASE pc["server"] = "put_taken"
      <4>1. bit \in 1 .. NumLines + 1
        BY <3>5 DEF IndInv, Bits
      <4>2. bit \notin Lines
        BY <3>3, <3>5, <4>1, LastByte, ParConnectAssumption DEF IndInv, Shown
      <4>3. bit = NumLines + 1
        BY <4>1, <4>2, ParConnectAssumption DEF Lines
      <4>4. QED
        BY <3>1, <3>5, <4>3 DEF Holds
    <3>6. QED
      BY <3>3, <3>4, <3>5 DEF IndInv, Shown
  <2>3. QED
    BY <2>1, <2>2, Ends
<1>7. ClientKnows'
  BY Ends DEF IndInv, TypeOK, ClientKnows, Holds, DataThere, Show, Goto
<1>8. QED
  BY <1>1, <1>2, <1>3, <1>4, <1>5, <1>6, <1>7 DEF IndInv

LEMMA PeerHeardStep ==
  ASSUME IndInv, NEW e \in End, PeerHeard(e)
  PROVE  IndInv'
<1>1. TypeOK'
  <2>1. UNCHANGED <<prompt, dead, line, byte, count, on, known, tries, aborted, resuming>>
    BY DEF PeerHeard, config, lines, counts, user
  <2>2. bit' \in 0 .. NumLines + 1
    <3>1. CASE e = "server"
      BY <3>1, ParConnectAssumption DEF IndInv, TypeOK, Bits, PeerHeard, Put, Fails
    <3>2. CASE e = "client"
      BY <3>2 DEF IndInv, TypeOK, PeerHeard
    <3>3. QED
      BY <3>1, <3>2, Ends
  <2>3. data' \in [End -> SUBSET Lines] /\ sess' \in 0 .. MaxTries /\ spoilt' \in BOOLEAN
    BY Ends DEF IndInv, TypeOK, PeerHeard, Fails, server
  <2>4. pc' \in [End -> Pcs] /\ half' \in [End -> 0 .. 2 * Pulses] /\ timer' \in [End -> 0 .. SynchWait + LineWait + 1]
    BY Ends, ParConnectAssumption DEF IndInv, TypeOK, PeerHeard, Put, Fails, After, Goto, Wait, Pcs
  <2>5. QED
    BY <2>1, <2>2, <2>3, <2>4 DEF IndInv, TypeOK
<1>2. Shown'
  BY Ends DEF IndInv, TypeOK, Shown, PeerHeard, Put, Fails, Goto, lines
<1>3. Bits'
  BY Ends, ParConnectAssumption DEF IndInv, TypeOK, Bits, PeerHeard, Put, Fails, Goto
<1>4. Working'
  BY Ends DEF IndInv, TypeOK, Working, LineTestPcs, Lines, TestByte, PeerHeard, Echoed, Put,
     Fails, Goto, config, lines
<1>5. Deaf'
  BY Ends DEF IndInv, TypeOK, Deaf, LineTestPcs, PeerHeard, Put, Fails, Goto, lines, counts
<1>6. (Told => Holds)'
  BY Ends DEF IndInv, TypeOK, Told, Holds, PeerHeard, Put, Fails, Goto
<1>7. ClientKnows'
  BY Ends DEF IndInv, TypeOK, Shown, ClientKnows, Told, Holds, PeerHeard, Ctl1Hi, Put, server,
     Fails, Goto, user
<1>8. QED
  BY <1>1, <1>2, <1>3, <1>4, <1>5, <1>6, <1>7 DEF IndInv

LEMMA TimesOutStep ==
  ASSUME IndInv, NEW e \in End, TimesOut(e)
  PROVE  IndInv'
<1>1. TypeOK'
  BY Ends, ParConnectAssumption DEF IndInv, TypeOK, Pcs, TimesOut, Fails, Release, config,
     counts, user, Goto, Wait, lines
<1>2. Shown'
  BY Ends DEF IndInv, TypeOK, Shown, TimesOut, Fails, Release, Goto, lines
<1>3. Bits'
  BY Ends DEF IndInv, TypeOK, Bits, TimesOut, Fails, Goto
<1>4. Working'
  BY Ends DEF IndInv, TypeOK, Working, LineTestPcs, TimesOut, Fails, Release, config, Goto,
     lines
<1>5. Deaf'
  BY Ends DEF IndInv, TypeOK, Deaf, TimesOut, Fails, Release, counts, Goto, lines
<1>6. (Told => Holds)'
  BY Ends DEF IndInv, TypeOK, Shown, LineTestPcs, Told, Holds, TimesOut, Fails, Release, Goto,
     lines
<1>7. ClientKnows'
  BY Ends DEF IndInv, TypeOK, ClientKnows, Holds, LineTestPcs, TimesOut, Fails, Goto
<1>8. QED
  BY <1>1, <1>2, <1>3, <1>4, <1>5, <1>6, <1>7 DEF IndInv

LEMMA DiscoEndsStep ==
  ASSUME IndInv, NEW e \in End, DiscoEnds(e)
  PROVE  IndInv'
<1>1. TypeOK'
  BY Ends, ParConnectAssumption DEF IndInv, TypeOK, Pcs, DiscoEnds, DataReset, Goto, config,
     test, user, Show, Cleared, ShowByte
<1>2. Shown'
  BY Ends DEF IndInv, TypeOK, Shown, DiscoEnds, DataReset, Goto, test, Show, ShowByte
<1>3. Bits'
  BY Ends DEF IndInv, TypeOK, Bits, DiscoEnds, Goto, test, Show
<1>4. Working'
  BY Ends DEF IndInv, TypeOK, Working, DiscoEnds, DataReset, Goto, config, test, Show, ShowByte
<1>5. Deaf'
  BY Ends DEF IndInv, TypeOK, Deaf, LineTestPcs, DiscoEnds, DataReset, Goto, Show
<1>6. (Told => Holds)'
  BY Ends DEF IndInv, TypeOK, Told, Holds, DiscoEnds, Goto, test, Show
<1>7. ClientKnows'
  BY Ends DEF IndInv, TypeOK, ClientKnows, Holds, DiscoEnds, Goto, Show
<1>8. QED
  BY <1>1, <1>2, <1>3, <1>4, <1>5, <1>6, <1>7 DEF IndInv

LEMMA DisconnectStep ==
  ASSUME IndInv, Disconnect
  PROVE  IndInv'
<1>1. TypeOK'
  BY Ends, ParConnectAssumption DEF IndInv, TypeOK, Pcs, Disconnect, config, lines, counts,
     test, user, server
<1>2. Shown'
  BY Ends DEF IndInv, TypeOK, Shown, Disconnect, lines
<1>3. Bits'
  BY Ends DEF IndInv, TypeOK, Bits, Disconnect
<1>4. Working'
  BY Ends DEF IndInv, TypeOK, Working, Disconnect, config
<1>5. Deaf'
  BY Ends DEF IndInv, TypeOK, Deaf, LineTestPcs, Disconnect
<1>6. (Told => Holds)'
  BY Ends DEF IndInv, TypeOK, Told, Holds, Disconnect
<1>7. ClientKnows'
  BY Ends DEF IndInv, TypeOK, ClientKnows, Holds, Disconnect
<1>8. QED
  BY <1>1, <1>2, <1>3, <1>4, <1>5, <1>6, <1>7 DEF IndInv

LEMMA LinkStep ==
  ASSUME IndInv, Link
  PROVE  IndInv'
<1>1. TypeOK'
  BY Ends, ParConnectAssumption DEF IndInv, TypeOK, Pcs, Link, Goto, Show, config, test, user,
     server, ShowByte
<1>2. Shown'
  BY Ends DEF IndInv, TypeOK, Shown, Link, Goto, Show, test, ShowByte
<1>3. Bits'
  BY Ends DEF IndInv, TypeOK, Bits, Link, Goto, Show, test
<1>4. Working'
  BY Ends DEF IndInv, TypeOK, Working, Link, Goto, Show, config, test, ShowByte
<1>5. Deaf'
  BY Ends DEF IndInv, TypeOK, Deaf, LineTestPcs, Link, Goto, Show
<1>6. (Told => Holds)'
  BY Ends DEF IndInv, TypeOK, Told, Holds, Link, Goto, Show
<1>7. ClientKnows'
  BY Ends DEF IndInv, TypeOK, ClientKnows, Holds, Link, Goto, Show
<1>8. QED
  BY <1>1, <1>2, <1>3, <1>4, <1>5, <1>6, <1>7 DEF IndInv

LEMMA ConnectStep ==
  ASSUME IndInv, Connect
  PROVE  IndInv'
<1>1. TypeOK'
  <2>1. tries' \in 0 .. MaxTries
    BY ParConnectAssumption DEF IndInv, TypeOK, Connect
  <2>2. UNCHANGED <<prompt, dead, bit, data, aborted, sess, spoilt, count, on, known>>
    BY DEF Connect, config, counts, test, server
  <2>3. line' \in [End -> {"on", "off", "ready", "data", "low"}] /\ byte' \in [End -> SUBSET Lines]
    BY Ends DEF IndInv, TypeOK, Connect, StartTwidle, Show, ShowByte
  <2>4. pc' \in [End -> Pcs] /\ half' \in [End -> 0 .. 2 * Pulses] /\ timer' \in [End -> 0 .. SynchWait + LineWait + 1]
    BY Ends, ParConnectAssumption DEF IndInv, TypeOK, Connect, StartTwidle, Goto, Wait, Pcs
  <2>5. resuming' \in BOOLEAN
    BY DEF IndInv, TypeOK, Connect
  <2>6. QED
    BY <2>1, <2>2, <2>3, <2>4, <2>5 DEF IndInv, TypeOK
<1>2. Shown'
  BY Ends DEF IndInv, TypeOK, Shown, Connect, StartTwidle, test, Goto, Show, ShowByte
<1>3. Bits'
  BY Ends DEF IndInv, TypeOK, Bits, Connect, StartTwidle, test, Goto, Show
<1>4. Working'
  BY Ends DEF IndInv, TypeOK, Working, Connect, StartTwidle, config, test, Goto, Show, ShowByte
<1>5. Deaf'
  BY Ends DEF IndInv, TypeOK, Deaf, LineTestPcs, Connect, StartTwidle, counts, Goto, Show
<1>6. (Told => Holds)'
  BY Ends DEF IndInv, TypeOK, Told, Holds, Connect, StartTwidle, Goto, Show
<1>7. ClientKnows'
  BY Ends DEF IndInv, TypeOK, ClientKnows, Holds, Connect, StartTwidle, Goto, Show
<1>8. QED
  BY <1>1, <1>2, <1>3, <1>4, <1>5, <1>6, <1>7 DEF IndInv

LEMMA AbortStep ==
  ASSUME IndInv, Abort
  PROVE  IndInv'
<1>1. TypeOK'
  <2>1. aborted' \subseteq 0 .. MaxTries
    BY DEF IndInv, TypeOK, Abort
  <2>2. UNCHANGED <<prompt, dead, line, byte, bit, tries, sess, spoilt, count, on, known>>
    BY DEF Abort, config, lines, counts, server
  <2>3. data' \in [End -> SUBSET Lines] /\ resuming' \in BOOLEAN
    BY Ends DEF IndInv, TypeOK, Abort
  <2>4. pc' \in [End -> Pcs] /\ half' \in [End -> 0 .. 2 * Pulses] /\ timer' \in [End -> 0 .. SynchWait + LineWait + 1]
    BY Ends, ParConnectAssumption DEF IndInv, TypeOK, Abort, Goto, Wait, Pcs
  <2>5. QED
    BY <2>1, <2>2, <2>3, <2>4 DEF IndInv, TypeOK
<1>2. Shown'
  BY Ends DEF IndInv, TypeOK, Shown, Abort, Goto, lines
<1>3. Bits'
  BY Ends DEF IndInv, TypeOK, Bits, Abort, Goto
<1>4. Working'
  BY Ends DEF IndInv, TypeOK, Working, Abort, Goto, config, lines
<1>5. Deaf'
  BY Ends DEF IndInv, TypeOK, Deaf, LineTestPcs, Abort, Goto, counts
<1>6. (Told => Holds)'
  BY Ends DEF IndInv, TypeOK, Told, Holds, Abort, Goto
<1>7. ClientKnows'
  BY Ends DEF IndInv, TypeOK, ClientKnows, Holds, Abort, Goto
<1>8. QED
  BY <1>1, <1>2, <1>3, <1>4, <1>5, <1>6, <1>7 DEF IndInv

LEMMA TickStep ==
  ASSUME IndInv, Tick
  PROVE  IndInv'
<1>1. TypeOK'
  BY Ends, ParConnectAssumption DEF IndInv, TypeOK, Tick, Busy, config, lines, counts, test,
     user, server
<1>2. Shown'
  BY Ends DEF IndInv, TypeOK, Shown, Tick, Busy, lines, test
<1>3. Bits'
  BY Ends DEF IndInv, TypeOK, Bits, Tick, Busy, test
<1>4. Working'
  BY Ends DEF IndInv, TypeOK, Working, Tick, Busy, config, lines, test
<1>5. Deaf'
  BY Ends DEF IndInv, TypeOK, Deaf, Tick, Busy, lines, counts
<1>6. (Told => Holds)'
  BY Ends DEF IndInv, TypeOK, Told, Holds, Tick, Busy, lines, test, user, server
<1>7. ClientKnows'
  BY Ends DEF IndInv, TypeOK, ClientKnows, Holds, Tick, Busy, user, server
<1>8. QED
  BY <1>1, <1>2, <1>3, <1>4, <1>5, <1>6, <1>7 DEF IndInv

LEMMA InitInv == Init => IndInv
<1> SUFFICES ASSUME Init
             PROVE  IndInv
  OBVIOUS
<1>1. TypeOK
  <2>1. dead \in [End -> SUBSET Lines] /\ prompt \in BOOLEAN
    BY DEF Init
  <2>2. pc \in [End -> Pcs] /\ line \in [End -> {"on", "off", "ready", "data", "low"}]
    BY DEF Init, Pcs
  <2>3. byte \in [End -> SUBSET Lines] /\ data \in [End -> SUBSET Lines]
    BY DEF Init
  <2>4. half \in [End -> 0 .. 2 * Pulses] /\ timer \in [End -> 0 .. SynchWait + LineWait + 1]
    BY ParConnectAssumption DEF Init
  <2>5. count \in [End -> 0 .. CountMod - 1] /\ on \in [End -> BOOLEAN] /\ known \in [End -> BOOLEAN]
    BY ParConnectAssumption DEF Init
  <2>6. bit \in 0 .. NumLines + 1 /\ tries \in 0 .. MaxTries /\ sess \in 0 .. MaxTries
    BY ParConnectAssumption DEF Init
  <2>7. aborted \subseteq 0 .. MaxTries /\ spoilt \in BOOLEAN /\ resuming \in BOOLEAN
    BY DEF Init
  <2>8. QED
    BY <2>1, <2>2, <2>3, <2>4, <2>5, <2>6, <2>7 DEF TypeOK
<1>2. Shown /\ Bits /\ Deaf
  BY <1>1, Ends DEF Init, Shown, Bits, Deaf, LineTestPcs
<1>3. Working
  BY <1>1, Ends DEF Init, Working, LineTestPcs
<1>4. (Told => Holds) /\ ClientKnows
  BY Ends DEF Init, Told, ClientKnows
<1>5. QED
  BY <1>1, <1>2, <1>3, <1>4 DEF IndInv

LEMMA Stutter == ASSUME IndInv, UNCHANGED vars PROVE IndInv'
BY DEF IndInv, TypeOK, Shown, Bits, Working, Deaf, Told, Holds, ClientKnows, vars, config, lines,
   counts, test, user, server

LEMMA NextInv == IndInv /\ [Next]_vars => IndInv'
<1> SUFFICES ASSUME IndInv, [Next]_vars
             PROVE  IndInv'
  OBVIOUS
<1>1. ASSUME NEW e \in End, Step(e)
      PROVE  IndInv'
  <2>1. CASE TwidleOn(e)
    BY <2>1, TwidleOnStep
  <2>2. CASE TwidleOff(e)
    BY <2>2, TwidleOffStep
  <2>3. CASE NextHalf(e)
    BY <2>3, NextHalfStep
  <2>4. CASE TwidleEnds(e)
    BY <2>4, TwidleEndsStep
  <2>5. CASE SynchSeen(e)
    BY <2>5, SynchSeenStep
  <2>6. CASE SynchFails(e)
    BY <2>6, SynchFailsStep
  <2>7. CASE PeerReady(e)
    BY <2>7, PeerReadyStep
  <2>8. CASE PeerTook(e)
    BY <2>8, PeerTookStep
  <2>9. CASE DataThere(e)
    BY <2>9, DataThereStep
  <2>10. CASE PeerHeard(e)
    BY <2>10, PeerHeardStep
  <2>11. CASE TimesOut(e)
    BY <2>11, TimesOutStep
  <2>12. CASE DiscoEnds(e)
    BY <2>12, DiscoEndsStep
  <2>13. QED
    BY <1>1, <2>1, <2>2, <2>3, <2>4, <2>5, <2>6, <2>7, <2>8, <2>9, <2>10, <2>11, <2>12 DEF Step
<1>2. CASE Disconnect
  BY <1>2, DisconnectStep
<1>3. CASE Link
  BY <1>3, LinkStep
<1>4. CASE Connect
  BY <1>4, ConnectStep
<1>5. CASE Abort
  BY <1>5, AbortStep
<1>6. CASE Tick
  BY <1>6, TickStep
<1>7. CASE UNCHANGED vars
  BY <1>7, Stutter
<1>8. QED
  BY <1>1, <1>2, <1>3, <1>4, <1>5, <1>6, <1>7 DEF Next

(***************************************************************************)
(* No server is left alone in a session                                    *)
(*                                                                         *)
(* Once the server has an echo, its client counts no pulses, so that it    *)
(* cannot begin the test anew; and from there on one of the two always has *)
(* something to do, so that on prompt machines no tick passes until the    *)
(* client has read the last byte and then its answer.                      *)
(***************************************************************************)
\* The server has an echo of this client, or has had one.
Passed == pc["server"] \in LineTestPcs /\ (bit > 1 \/ data["server"] # {})
Quiet ==
  /\ line["client"] = "data" => pc["client"] \in {"put_taken", "failed", "dead"}
  /\ data["server"] # {} => pc["server"] \in {"put_ready", "get_heard"}
  /\ line["client"] = "data" \/ pc["client"] \in LineTestPcs \cup {"synch"} => ~on["client"]
  /\ Passed => ~on["client"] /\ pc["client"] \in LineTestPcs \cup {"twidle", "failed", "dead", "linked"}

\* The client has read the last byte of the test and may yet see the answer, unless
\* it has given up or was killed.
Read == pc["client"] = "get_heard" /\ data["client"] = DONE /\ (prompt => timer["client"] > 0)
LastTaken == pc["server"] = "put_taken" /\ bit = NumLines + 1 /\ Taken("server")
InTime ==
  /\ prompt /\ Passed /\ pc["server"] # "get_data" /\ pc["client"] = "get_data" => timer["client"] > 0
  /\ LastTaken => \/ Read
                  \/ pc["client"] = "failed" /\ ~prompt
                  \/ pc["client"] = "dead" /\ (prompt => tries \in aborted)
Together ==
  pc["server"] = "session" =>
    /\ line["server"] = "low" /\ sess <= tries
    /\ sess = tries => \/ Read
                       \/ pc["client"] = "session"
                       \/ pc["client"] \in {"failed", "dead", "linked"} /\ (prompt => sess \in aborted)
    /\ sess < tries => (prompt => sess \in aborted)
NotAlone == Quiet /\ InTime /\ Together

LEMMA TwidleOnAlone ==
  ASSUME IndInv, NotAlone, NEW e \in End, TwidleOn(e)
  PROVE  NotAlone'
<1>1. Quiet'
  BY Ends DEF IndInv, TypeOK, NotAlone, Quiet, Passed, Shown, LineTestPcs, TwidleOn, Counting,
     config, lines, server, test, user
<1>2. InTime'
  BY Ends, ParConnectAssumption DEF IndInv, TypeOK, NotAlone, Quiet, InTime, Passed, LastTaken,
     Read, Taken, Ctl2Hi, Shown, LineTestPcs, TwidleOn, Counting, config, lines, server, test, user
<1>3. Together'
  BY Ends, ParConnectAssumption DEF IndInv, TypeOK, NotAlone, InTime, Together, LastTaken, Read,
     Shown, LineTestPcs, TwidleOn, Counting, config, lines, server, test, user
<1>4. QED
  BY <1>1, <1>2, <1>3 DEF NotAlone

LEMMA TwidleOffAlone ==
  ASSUME IndInv, NotAlone, NEW e \in End, TwidleOff(e)
  PROVE  NotAlone'
<1>1. Quiet'
  BY Ends DEF IndInv, TypeOK, NotAlone, Quiet, Passed, Shown, LineTestPcs, TwidleOff, After,
     CountUp, Counting, Goto, Show, ShowByte, StartSynch, StartTwidle, Wait, config, lines, server,
     test, user
<1>2. InTime'
  BY Ends, ParConnectAssumption DEF IndInv, TypeOK, NotAlone, Quiet, InTime, Passed, LastTaken,
     Read, Taken, Ctl2Hi, Shown, LineTestPcs, TwidleOff, After, CountUp, Counting, Goto, Show,
     ShowByte, StartSynch, StartTwidle, Wait, config, lines, server, test, user
<1>3. Together'
  BY Ends, ParConnectAssumption DEF IndInv, TypeOK, NotAlone, InTime, Together, LastTaken, Read,
     Shown, LineTestPcs, TwidleOff, After, CountUp, Counting, Goto, Show, ShowByte, StartSynch,
     StartTwidle, Wait, config, lines, server, test, user
<1>4. QED
  BY <1>1, <1>2, <1>3 DEF NotAlone

LEMMA NextHalfAlone ==
  ASSUME IndInv, NotAlone, NEW e \in End, NextHalf(e)
  PROVE  NotAlone'
<1>1. Quiet'
  BY Ends DEF IndInv, TypeOK, NotAlone, Quiet, Passed, Shown, LineTestPcs, NextHalf, Expired, Show,
     ShowByte, Wait, config, counts, server, test, user
<1>2. InTime'
  BY Ends, ParConnectAssumption DEF IndInv, TypeOK, NotAlone, Quiet, InTime, Passed, LastTaken,
     Read, Taken, Ctl2Hi, Shown, LineTestPcs, NextHalf, Expired, Show, ShowByte, Wait, config,
     counts, server, test, user
<1>3. Together'
  BY Ends, ParConnectAssumption DEF IndInv, TypeOK, NotAlone, InTime, Together, LastTaken, Read,
     Shown, LineTestPcs, NextHalf, Expired, Show, ShowByte, Wait, config, counts, server, test, user
<1>4. QED
  BY <1>1, <1>2, <1>3 DEF NotAlone

LEMMA TwidleEndsAlone ==
  ASSUME IndInv, NotAlone, NEW e \in End, TwidleEnds(e)
  PROVE  NotAlone'
<1>1. Quiet'
  BY Ends DEF IndInv, TypeOK, NotAlone, Quiet, Passed, Shown, LineTestPcs, TwidleEnds, After,
     Expired, Fails, Goto, Show, ShowByte, StartSynch, Wait, config, counts, lines, server, test,
     user
<1>2. InTime'
  BY Ends, ParConnectAssumption DEF IndInv, TypeOK, NotAlone, Quiet, InTime, Passed, LastTaken,
     Read, Taken, Ctl2Hi, Shown, LineTestPcs, TwidleEnds, After, Expired, Fails, Goto, Show,
     ShowByte, StartSynch, Wait, config, counts, lines, server, test, user
<1>3. Together'
  BY Ends, ParConnectAssumption DEF IndInv, TypeOK, NotAlone, InTime, Together, LastTaken, Read,
     Shown, LineTestPcs, TwidleEnds, After, Expired, Fails, Goto, Show, ShowByte, StartSynch, Wait,
     config, counts, lines, server, test, user
<1>4. QED
  BY <1>1, <1>2, <1>3 DEF NotAlone

LEMMA SynchSeenAlone ==
  ASSUME IndInv, NotAlone, NEW e \in End, SynchSeen(e)
  PROVE  NotAlone'
<1>1. Quiet'
  BY Ends DEF IndInv, TypeOK, NotAlone, Quiet, Passed, Shown, LineTestPcs, SynchSeen, After, Ctl1Hi,
     Get, Goto, Put, Show, ShowByte, StartLineTest, Synch, Wait, config, counts, server, user
<1>2. InTime'
  BY Ends, ParConnectAssumption DEF IndInv, TypeOK, NotAlone, Quiet, InTime, Passed, LastTaken,
     Read, Taken, Ctl2Hi, Shown, LineTestPcs, SynchSeen, After, Ctl1Hi, Get, Goto, Put, Show,
     ShowByte, StartLineTest, Synch, Wait, config, counts, server, user
<1>3. Together'
  BY Ends, ParConnectAssumption DEF IndInv, TypeOK, NotAlone, InTime, Together, LastTaken, Read,
     Shown, LineTestPcs, SynchSeen, After, Ctl1Hi, Get, Goto, Put, Show, ShowByte, StartLineTest,
     Synch, Wait, config, counts, server, user
<1>4. QED
  BY <1>1, <1>2, <1>3 DEF NotAlone

LEMMA SynchFailsAlone ==
  ASSUME IndInv, NotAlone, NEW e \in End, SynchFails(e)
  PROVE  NotAlone'
<1>1. Quiet'
  BY Ends DEF IndInv, TypeOK, NotAlone, Quiet, Passed, Shown, LineTestPcs, SynchFails, Expired,
     Fails, Goto, Wait, config, counts, lines, user
<1>2. InTime'
  BY Ends, ParConnectAssumption DEF IndInv, TypeOK, NotAlone, Quiet, InTime, Passed, LastTaken,
     Read, Taken, Ctl2Hi, Shown, LineTestPcs, SynchFails, Expired, Fails, Goto, Wait, config,
     counts, lines, user
<1>3. Together'
  BY Ends, ParConnectAssumption DEF IndInv, TypeOK, NotAlone, InTime, Together, LastTaken, Read,
     Shown, LineTestPcs, SynchFails, Expired, Fails, Goto, Wait, config, counts, lines, user
<1>4. QED
  BY <1>1, <1>2, <1>3 DEF NotAlone

LEMMA PeerReadyAlone ==
  ASSUME IndInv, NotAlone, NEW e \in End, PeerReady(e)
  PROVE  NotAlone'
<1>1. Quiet'
  BY Ends DEF IndInv, TypeOK, NotAlone, Quiet, Passed, Shown, LineTestPcs, PeerReady, Ctl2Hi, Goto,
     PutByte, ShowByte, config, counts, server, user
<1>2. InTime'
  BY Ends, ParConnectAssumption DEF IndInv, TypeOK, NotAlone, Quiet, InTime, Passed, LastTaken,
     Read, Taken, Ctl2Hi, Shown, LineTestPcs, PeerReady, Goto, PutByte, ShowByte, config, counts,
     server, user
<1>3. Together'
  BY Ends, ParConnectAssumption DEF IndInv, TypeOK, NotAlone, InTime, Together, LastTaken, Read,
     Shown, LineTestPcs, PeerReady, Ctl2Hi, Goto, PutByte, ShowByte, config, counts, server, user
<1>4. QED
  BY <1>1, <1>2, <1>3 DEF NotAlone

LEMMA PeerTookAlone ==
  ASSUME IndInv, NotAlone, NEW e \in End, PeerTook(e)
  PROVE  NotAlone'
<1>1. Quiet'
  BY Ends DEF IndInv, TypeOK, NotAlone, Quiet, Passed, Shown, LineTestPcs, PeerTook, After, Ctl2Hi,
     Get, Goto, Show, ShowByte, Taken, Wait, config, counts, server, user
<1>2. InTime'
  BY Ends, ParConnectAssumption DEF IndInv, TypeOK, NotAlone, Quiet, InTime, Passed, LastTaken,
     Read, Taken, Ctl2Hi, Shown, LineTestPcs, PeerTook, After, Get, Goto, Show, ShowByte, Wait,
     config, counts, server, user
<1>3. Together'
  BY Ends, ParConnectAssumption DEF IndInv, TypeOK, NotAlone, InTime, Together, LastTaken, Read,
     Shown, LineTestPcs, PeerTook, After, Ctl2Hi, Get, Goto, Show, ShowByte, Taken, Wait, config,
     counts, server, user
<1>4. QED
  BY <1>1, <1>2, <1>3 DEF NotAlone

LEMMA DataThereAlone ==
  ASSUME IndInv, NotAlone, NEW e \in End, DataThere(e)
  PROVE  NotAlone'
<1>1. Quiet'
  BY Ends DEF IndInv, TypeOK, NotAlone, Quiet, Passed, Shown, LineTestPcs, DataThere, Ctl1Hi, Goto,
     ReadData, Show, ShowByte, config, counts, server, user
<1>2. InTime'
  <2>1. CASE e = "server"
    BY <2>1, Ends DEF IndInv, TypeOK, NotAlone, Quiet, InTime, Passed, LastTaken, Read, Taken,
       Ctl1Hi, Ctl2Hi, Shown, LineTestPcs, DataThere, ReadData, Goto, Show, ShowByte, config, user
  <2>2. CASE e = "client"
    <3>1. /\ pc["client"] = "get_data" /\ line["client"] = "ready" /\ pc' = [pc EXCEPT !["client"] = "get_heard"]
          /\ data' = [data EXCEPT !["client"] = ReadData("client")] /\ UNCHANGED <<prompt, timer, bit, tries, aborted>>
      BY <2>2 DEF IndInv, Shown, DataThere, Goto, config, user
    <3>2. pc'["client"] = "get_heard" /\ pc'["server"] = pc["server"] /\ data'["client"] = ReadData("client") /\ data'["server"] = data["server"]
      BY <3>1, Ends DEF IndInv, TypeOK
    <3>3. ASSUME pc["server"] = "put_taken", bit = NumLines + 1
          PROVE  ReadData("client") = DONE /\ Passed
      <4>1. bit > 1 /\ bit \notin Lines
        BY <3>3, ParConnectAssumption DEF Lines
      <4>2. byte["server"] = DONE /\ line["server"] = "data"
        BY <3>3, <4>1, Ends DEF IndInv, Shown, TestByte
      <4>3. dead["client"] = {}
        BY <3>3, Ends, ParConnectAssumption DEF IndInv, TypeOK, Working, LineTestPcs, Lines
      <4>4. QED
        BY <3>3, <4>1, <4>2, <4>3, Ends DEF ReadData, Passed, LineTestPcs
    <3>4. LastTaken' => Read'
      BY <3>1, <3>2, <3>3 DEF NotAlone, InTime, LastTaken, Read
    <3>5. QED
      BY <3>2, <3>4 DEF InTime
  <2>3. QED
    BY <2>1, <2>2, Ends
<1>3. Together'
  BY Ends, ParConnectAssumption DEF IndInv, TypeOK, NotAlone, InTime, Together, LastTaken, Read,
     Shown, LineTestPcs, DataThere, Ctl1Hi, Goto, ReadData, Show, ShowByte, config, counts, server,
     user
<1>4. QED
  BY <1>1, <1>2, <1>3 DEF NotAlone

LEMMA PeerHeardAlone ==
  ASSUME IndInv, NotAlone, NEW e \in End, PeerHeard(e)
  PROVE  NotAlone'
<1>1. Quiet'
  <2>1. 1 \in DONE /\ TestByte(bit) # {}
    BY ParConnectAssumption DEF TestByte, DONE, Lines
  <2>2. CASE e = "server"
    BY <2>1, <2>2, Ends DEF IndInv, TypeOK, NotAlone, Quiet, Passed, Shown, LineTestPcs, PeerHeard,
       Echoed, Put, Fails, Goto, lines, counts, user
  <2>3. CASE e = "client"
    BY <2>3, Ends DEF IndInv, TypeOK, NotAlone, Quiet, Passed, Shown, Told, Holds, LineTestPcs,
       PeerHeard, Ctl1Hi, Put, Goto, lines, counts, user
  <2>4. QED
    BY <2>2, <2>3, Ends
<1>2. InTime'
  <2>1. 1 \in DONE /\ TestByte(bit) # {}
    BY ParConnectAssumption DEF TestByte, DONE, Lines
  <2>2. CASE e = "server"
    BY <2>1, <2>2, Ends DEF IndInv, TypeOK, NotAlone, InTime, Passed, LastTaken, LineTestPcs,
       PeerHeard, Echoed, Put, Fails, Goto, Wait, lines, config, user
  <2>3. CASE e = "client"
    BY <2>3, Ends DEF IndInv, TypeOK, NotAlone, InTime, Passed, LastTaken, Shown, LineTestPcs,
       PeerHeard, Ctl1Hi, Put, Goto, lines, config, user
  <2>4. QED
    BY <2>2, <2>3, Ends
<1>3. Together'
  BY Ends, ParConnectAssumption DEF IndInv, TypeOK, NotAlone, InTime, Together, LastTaken, Read,
     Shown, LineTestPcs, PeerHeard, After, Ctl1Hi, Fails, Goto, Put, Wait, config, counts, lines,
     server, user
<1>4. QED
  BY <1>1, <1>2, <1>3 DEF NotAlone

LEMMA TimesOutAlone ==
  ASSUME IndInv, NotAlone, NEW e \in End, TimesOut(e)
  PROVE  NotAlone'
<1>1. Quiet'
  BY Ends DEF IndInv, TypeOK, NotAlone, Quiet, Passed, Shown, LineTestPcs, TimesOut, Expired, Fails,
     Goto, Release, Wait, config, counts, lines, user
<1>2. InTime'
  BY Ends, ParConnectAssumption DEF IndInv, TypeOK, NotAlone, Quiet, InTime, Passed, LastTaken,
     Read, Taken, Ctl2Hi, Shown, LineTestPcs, TimesOut, Expired, Fails, Goto, Release, Wait, config,
     counts, lines, user
<1>3. Together'
  BY Ends, ParConnectAssumption DEF IndInv, TypeOK, NotAlone, InTime, Together, LastTaken, Read,
     Shown, LineTestPcs, TimesOut, Expired, Fails, Goto, Release, Wait, config, counts, lines, user
<1>4. QED
  BY <1>1, <1>2, <1>3 DEF NotAlone

LEMMA DiscoEndsAlone ==
  ASSUME IndInv, NotAlone, NEW e \in End, DiscoEnds(e)
  PROVE  NotAlone'
<1>1. Quiet'
  BY Ends DEF IndInv, TypeOK, NotAlone, Quiet, Passed, Shown, LineTestPcs, DiscoEnds, Cleared,
     DataReset, Expired, Goto, Show, ShowByte, config, server, test, user
<1>2. InTime'
  BY Ends, ParConnectAssumption DEF IndInv, TypeOK, NotAlone, Quiet, InTime, Passed, LastTaken,
     Read, Taken, Ctl2Hi, Shown, LineTestPcs, DiscoEnds, Cleared, DataReset, Expired, Goto, Show,
     ShowByte, config, server, test, user
<1>3. Together'
  BY Ends, ParConnectAssumption DEF IndInv, TypeOK, NotAlone, InTime, Together, LastTaken, Read,
     Shown, LineTestPcs, DiscoEnds, Cleared, DataReset, Expired, Goto, Show, ShowByte, config,
     server, test, user
<1>4. QED
  BY <1>1, <1>2, <1>3 DEF NotAlone

LEMMA DisconnectAlone ==
  ASSUME IndInv, NotAlone, Disconnect
  PROVE  NotAlone'
<1>1. Quiet'
  BY Ends DEF IndInv, TypeOK, NotAlone, Quiet, Passed, Shown, LineTestPcs, Disconnect, config,
     counts, lines, server, test, user
<1>2. InTime'
  BY Ends, ParConnectAssumption DEF IndInv, TypeOK, NotAlone, Quiet, InTime, Passed, LastTaken,
     Read, Taken, Ctl2Hi, Shown, LineTestPcs, Disconnect, config, counts, lines, server, test, user
<1>3. Together'
  BY Ends, ParConnectAssumption DEF IndInv, TypeOK, NotAlone, InTime, Together, LastTaken, Read,
     Shown, LineTestPcs, Disconnect, config, counts, lines, server, test, user
<1>4. QED
  BY <1>1, <1>2, <1>3 DEF NotAlone

LEMMA LinkAlone ==
  ASSUME IndInv, NotAlone, Link
  PROVE  NotAlone'
<1>1. Quiet'
  BY Ends DEF IndInv, TypeOK, NotAlone, Quiet, Passed, Shown, LineTestPcs, Link, Goto, Show,
     ShowByte, config, server, test, user
<1>2. InTime'
  BY Ends, ParConnectAssumption DEF IndInv, TypeOK, NotAlone, Quiet, InTime, Passed, LastTaken,
     Read, Taken, Ctl2Hi, Shown, LineTestPcs, Link, Goto, Show, ShowByte, config, server, test, user
<1>3. Together'
  BY Ends, ParConnectAssumption DEF IndInv, TypeOK, NotAlone, InTime, Together, LastTaken, Read,
     Shown, LineTestPcs, Link, Goto, Show, ShowByte, config, server, test, user
<1>4. QED
  BY <1>1, <1>2, <1>3 DEF NotAlone

LEMMA ConnectAlone ==
  ASSUME IndInv, NotAlone, Connect
  PROVE  NotAlone'
<1>1. Quiet'
  BY Ends DEF IndInv, TypeOK, NotAlone, Quiet, Passed, Shown, LineTestPcs, Connect, Goto, Show,
     ShowByte, StartTwidle, Wait, config, counts, server, test
<1>2. InTime'
  BY Ends, ParConnectAssumption DEF IndInv, TypeOK, NotAlone, Quiet, InTime, Passed, LastTaken,
     Read, Taken, Ctl2Hi, Shown, LineTestPcs, Connect, Goto, Show, ShowByte, StartTwidle, Wait,
     config, counts, server, test
<1>3. Together'
  BY Ends, ParConnectAssumption DEF IndInv, TypeOK, NotAlone, InTime, Together, LastTaken, Read,
     Shown, LineTestPcs, Connect, Goto, Show, ShowByte, StartTwidle, Wait, config, counts, server,
     test
<1>4. QED
  BY <1>1, <1>2, <1>3 DEF NotAlone

LEMMA AbortAlone ==
  ASSUME IndInv, NotAlone, Abort
  PROVE  NotAlone'
<1>1. Quiet'
  BY Ends DEF IndInv, TypeOK, NotAlone, Quiet, Passed, Shown, LineTestPcs, Abort, Goto, Wait,
     config, counts, lines, server
<1>2. InTime'
  BY Ends, ParConnectAssumption DEF IndInv, TypeOK, NotAlone, Quiet, InTime, Passed, LastTaken,
     Read, Taken, Ctl2Hi, Shown, LineTestPcs, Abort, Goto, Wait, config, counts, lines, server
<1>3. Together'
  BY Ends, ParConnectAssumption DEF IndInv, TypeOK, NotAlone, InTime, Together, LastTaken, Read,
     Shown, LineTestPcs, Abort, Goto, Wait, config, counts, lines, server
<1>4. QED
  BY <1>1, <1>2, <1>3 DEF NotAlone

LEMMA TickAlone ==
  ASSUME IndInv, NotAlone, Tick
  PROVE  NotAlone'
<1>1. Quiet'
  BY Ends DEF IndInv, TypeOK, NotAlone, Quiet, Passed, Shown, LineTestPcs, Tick, config, counts,
     lines, server, test, user
<1>2. InTime'
  BY Ends, ParConnectAssumption DEF IndInv, TypeOK, NotAlone, Quiet, InTime, Passed, LastTaken,
     Read, Shown, LineTestPcs, Tick, Busy, Taken, Ctl1Hi, Ctl2Hi, config, counts, lines, server,
     test, user
<1>3. Together'
  BY Ends, ParConnectAssumption DEF IndInv, TypeOK, NotAlone, InTime, Together, LastTaken, Read,
     Shown, LineTestPcs, Tick, Busy, Taken, Ctl1Hi, Ctl2Hi, config, counts, lines, server, test,
     user
<1>4. QED
  BY <1>1, <1>2, <1>3 DEF NotAlone

LEMMA InitAlone == Init => NotAlone
BY Ends DEF Init, NotAlone, Quiet, InTime, Together, Passed, LastTaken, LineTestPcs

LEMMA NextAlone == IndInv /\ NotAlone /\ [Next]_vars => NotAlone'
<1> SUFFICES ASSUME IndInv, NotAlone, [Next]_vars
             PROVE  NotAlone'
  OBVIOUS
<1>1. ASSUME NEW e \in End, Step(e)
      PROVE  NotAlone'
  <2>1. CASE TwidleOn(e)
    BY <2>1, TwidleOnAlone
  <2>2. CASE TwidleOff(e)
    BY <2>2, TwidleOffAlone
  <2>3. CASE NextHalf(e)
    BY <2>3, NextHalfAlone
  <2>4. CASE TwidleEnds(e)
    BY <2>4, TwidleEndsAlone
  <2>5. CASE SynchSeen(e)
    BY <2>5, SynchSeenAlone
  <2>6. CASE SynchFails(e)
    BY <2>6, SynchFailsAlone
  <2>7. CASE PeerReady(e)
    BY <2>7, PeerReadyAlone
  <2>8. CASE PeerTook(e)
    BY <2>8, PeerTookAlone
  <2>9. CASE DataThere(e)
    BY <2>9, DataThereAlone
  <2>10. CASE PeerHeard(e)
    BY <2>10, PeerHeardAlone
  <2>11. CASE TimesOut(e)
    BY <2>11, TimesOutAlone
  <2>12. CASE DiscoEnds(e)
    BY <2>12, DiscoEndsAlone
  <2>13. QED
    BY <1>1, <2>1, <2>2, <2>3, <2>4, <2>5, <2>6, <2>7, <2>8, <2>9, <2>10, <2>11, <2>12 DEF Step
<1>2. CASE Disconnect
  BY <1>2, DisconnectAlone
<1>3. CASE Link
  BY <1>3, LinkAlone
<1>4. CASE Connect
  BY <1>4, ConnectAlone
<1>5. CASE Abort
  BY <1>5, AbortAlone
<1>6. CASE Tick
  BY <1>6, TickAlone
<1>7. CASE UNCHANGED vars
  BY <1>7 DEF NotAlone, Quiet, InTime, Together, Passed, LastTaken, Read, Taken, Ctl2Hi, vars,
     config, lines, counts, test, user, server
<1>8. QED
  BY <1>1, <1>2, <1>3, <1>4, <1>5, <1>6, <1>7 DEF Next

(***************************************************************************)
(* The theorems                                                            *)
(***************************************************************************)
\* The invariant of the search for the peer, the twelve steps of the two ends, the
\* end of the session, what the user does, and the clock: DataConnect of parproc.c.
THEOREM ConnectCorrect == Spec => []IndInv
<1>1. QED
  BY InitInv, NextInv, PTL DEF Spec

\* Every variable keeps its type: no wait exceeds its limit, and LineTest never
\* counts past the byte that ends it (parproc.c:666-703).
THEOREM ConnectTypeCorrect == Spec => []TypeOK
<1>1. IndInv => TypeOK
  BY DEF IndInv
<1>2. QED
  BY <1>1, ConnectCorrect, PTL

\* RemoteConnect returns true at the client only while the server is in the session
\* of this very attempt, whatever the limits of the waits and the speeds of the two
\* machines are, and after any number of failed attempts and killed clients.
THEOREM ClientKnowsCorrect == Spec => []ClientKnows
<1>1. IndInv => ClientKnows
  BY DEF IndInv
<1>2. QED
  BY <1>1, ConnectCorrect, PTL

\* LineTest lets neither end into a session over a cable with a dead line: the
\* server has compared every line's echo, and the client's session implies its own.
THEOREM LinesWorkCorrect == Spec => []LinesWork
<1>1. IndInv => LinesWork
  BY Ends DEF IndInv, Working, ClientKnows, LinesWork
<1>2. QED
  BY <1>1, ConnectCorrect, PTL

\* A server is in a session only with a client that has read the last byte of its
\* LineTest: DataPutByte of that byte ends when the client has taken it.  Where polling is
\* faster than the clock the client sees the answer as well, so that only a client that
\* was killed leaves its server there, after any number of attempts that went wrong.
THEOREM ServerNotAloneCorrect == Spec => []ServerNotAlone
<1>1. IndInv /\ NotAlone => ServerNotAlone
  BY DEF NotAlone, Together, Read, ServerNotAlone, IndInv, TypeOK
<1>2. Init => IndInv /\ NotAlone
  BY InitInv, InitAlone
<1>3. IndInv /\ NotAlone /\ [Next]_vars => (IndInv /\ NotAlone)'
  BY NextInv, NextAlone
<1>4. QED
  BY <1>1, <1>2, <1>3, PTL DEF Spec
=============================================================================
