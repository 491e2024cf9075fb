----------------------------- MODULE ParConnect -----------------------------
(***************************************************************************)
(* How the two ends of the parallel link find each other:                  *)
(* src/bld/trap/par/c/parproc.c, DataConnect and DataDisconnect.           *)
(*                                                                         *)
(* The client sends pulses (Twidle) until the server, which counts them    *)
(* once per turn of its main loop (CountTwidle), sends pulses of its own.  *)
(* When the client has counted those it lowers its control line, the       *)
(* server sees that (Synch), and a single bit walks over the data lines    *)
(* and back (LineTest).  Every wait has a limit in clock ticks.            *)
(*                                                                         *)
(* The control lines are those of the LapLink cable, on which everything   *)
(* an end shows its peer is one port.  How bytes travel over the other     *)
(* cables is the subject of ParLink.                                       *)
(***************************************************************************)
EXTENDS Naturals, FiniteSets

CONSTANTS NumLines,   \* data lines that LineTest walks over: 8 in the code
          Pulses,     \* pulses of one Twidle: 20
          TwidleNum,  \* TWIDLE_NUM: 2
          CountMod,   \* twidle_count is an unsigned char: 256
          SynchWait,  \* SYNCH_WAIT: 40 ticks
          LineWait,   \* LINE_TEST_WAIT: 20 ticks
          MaxTries,   \* bound: attempts to connect
          MaxAborts   \* bound: clients that are killed

ASSUME ParConnectAssumption ==
  /\ NumLines \in Nat /\ NumLines > 1 /\ Pulses \in Nat \ {0} /\ TwidleNum \in Nat \ {0}
  /\ CountMod \in Nat /\ TwidleNum < CountMod
  /\ SynchWait \in Nat /\ LineWait \in Nat /\ MaxTries \in Nat /\ MaxAborts \in Nat

End == {"client", "server"}
Peer(e) == IF e = "client" THEN "server" ELSE "client"
Lines == 1 .. NumLines

\* The byte of step b of LineTest: a single bit, and DONE_LINE_TEST at the end.
DONE == Lines
TestByte(b) == IF b \in Lines THEN {b} ELSE DONE

VARIABLES
  prompt,   \* polling is faster than the clock; chosen once
  dead,     \* lines that end e reads as zero whatever its peer writes; chosen once
  line,     \* what end e shows: a pulse or the pause after it, ready to read,
            \* a byte, or both control lines low
  byte,     \* the byte it shows
  pc,
  half,     \* halves of pulses that Twidle has begun
  count,    \* twidle_count
  on,       \* twidle_on
  known,    \* cable_type is not NULL_VAL
  timer,    \* ticks until the present wait gives up
  bit,      \* step of the server's LineTest
  data,     \* the byte that DataGetByte has read
  tries,    \* attempts of the client
  sess,     \* the attempt with which the server's session began
  aborted,  \* attempts whose client was killed
  spoilt,   \* an attempt got as far as Synch and failed, and DataReset has not been called since
  resuming  \* the client is in the loop of ReqRemoteResume

config == <<prompt, dead>>
counts == <<count, on, known>>
lines == <<line, byte>>
test == <<bit, data>>
user == <<tries, aborted, resuming>>
server == <<sess, spoilt>>
vars == <<config, lines, pc, half, counts, timer, test, user, server>>

Pcs == {"none", "linked", "wait", "twidle", "synch", "put_ready", "put_taken",
        "get_data", "get_heard", "session", "disco", "idle", "failed", "dead"}
LineTestPcs == {"put_ready", "put_taken", "get_data", "get_heard"}

Init ==
  /\ prompt \in BOOLEAN
  /\ dead \in {d \in [End -> SUBSET Lines] : Cardinality(d["client"]) + Cardinality(d["server"]) <= 1}
  /\ line = [e \in End |-> "off"] /\ byte = [e \in End |-> {}]
  /\ pc = [e \in End |-> IF e = "client" THEN "none" ELSE "wait"]
  /\ half = [e \in End |-> 0]
  /\ count = [e \in End |-> 0]
  /\ on = [e \in End |-> FALSE] /\ known = [e \in End |-> FALSE]
  /\ timer = [e \in End |-> 0]
  /\ bit = 0 /\ data = [e \in End |-> {}]
  /\ tries = 0 /\ sess = 0 /\ aborted = {} /\ spoilt = FALSE /\ resuming = FALSE

(***************************************************************************)
(* What end e reads of its peer                                            *)
(***************************************************************************)
Ctl1Hi(e) == line[Peer(e)] \in {"on", "off", "data"}
Ctl2Hi(e) == line[Peer(e)] \in {"on", "off", "ready"}
Synch(e) == ~Ctl1Hi(e)
\* A pulse read as a byte is no byte of the test.
ReadData(e) == IF line[Peer(e)] = "data" THEN byte[Peer(e)] \ dead[e] ELSE {}

Goto(e, l) == pc' = [pc EXCEPT ![e] = l]
ShowByte(e, l, b) == line' = [line EXCEPT ![e] = l] /\ byte' = [byte EXCEPT ![e] = b]
Show(e, l) == ShowByte(e, l, {})
Wait(e, n) == timer' = [timer EXCEPT ![e] = n]
Expired(e) == timer[e] = 0
\* `time < Ticks()' is true from the tick after the limit.
After(n) == n + 1

(***************************************************************************)
(* Starting and ending the calls that the steps below share                *)
(***************************************************************************)
Put(e) == Goto(e, "put_ready") /\ Wait(e, After(LineWait))
Get(e) == Goto(e, "get_data") /\ Wait(e, After(LineWait))

StartLineTest(e) ==
  /\ half' = [half EXCEPT ![e] = 0]
  /\ IF e = "server" THEN Put(e) /\ Show(e, "low") /\ bit' = 1
                     ELSE Get(e) /\ Show(e, "ready") /\ UNCHANGED bit

StartTwidle(e) == Goto(e, "twidle") /\ Show(e, "on") /\ Wait(e, 1) /\ half' = [half EXCEPT ![e] = 1]
StartSynch(e) == Goto(e, "synch") /\ Show(e, "low") /\ Wait(e, After(SynchWait)) /\ half' = [half EXCEPT ![e] = 0]

\* DataConnect returns false.  The server's lines stay as they are, and so does
\* twidle_count.
Fails(e) ==
  /\ Goto(e, IF e = "server" THEN "wait" ELSE "failed")
  /\ Wait(e, 0)
  /\ half' = [half EXCEPT ![e] = 0]
  /\ data' = [data EXCEPT ![e] = {}]
  /\ bit' = IF e = "server" THEN 0 ELSE bit
  /\ spoilt' = (spoilt \/ (e = "server"))
  /\ UNCHANGED sess

ClearedMut == [count |-> count["server"], known |-> known["server"]]
Cleared == [count |-> 0, known |-> FALSE]
\* DataReset with full set.
DataReset(e) ==
  /\ Show(e, "off")
  /\ count' = [count EXCEPT ![e] = Cleared.count]
  /\ known' = [known EXCEPT ![e] = Cleared.known]
  /\ on' = [on EXCEPT ![e] = FALSE]

(***************************************************************************)
(* CountTwidle: the server in its main loop, the client in Twidle          *)
(***************************************************************************)
Counting(e) == pc[e] = IF e = "server" THEN "wait" ELSE "twidle"

TwidleOn(e) ==
  /\ Counting(e) /\ ~on[e] /\ line[Peer(e)] = "on"
  /\ on' = [on EXCEPT ![e] = TRUE]
  /\ known' = [known EXCEPT ![e] = TRUE]
  /\ count' = [count EXCEPT ![e] = IF known[e] THEN @ ELSE 0]
  /\ UNCHANGED <<config, lines, pc, half, timer, test, user, server>>

CountUpMut(n) == n + 1
CountUp(n) == (n + 1) % CountMod
TwidleOff(e) ==
  /\ Counting(e) /\ on[e] /\ line[Peer(e)] # "on"
  /\ on' = [on EXCEPT ![e] = FALSE]
  /\ count' = [count EXCEPT ![e] = CountUp(@)]
  /\ IF count'[e] # TwidleNum THEN UNCHANGED <<lines, pc, half, timer>>
     ELSE IF e = "server" THEN StartTwidle(e) ELSE StartSynch(e)
  /\ UNCHANGED <<config, known, test, user, server>>

(***************************************************************************)
(* Twidle and the wait for Synch                                           *)
(***************************************************************************)
NextHalf(e) ==
  /\ pc[e] = "twidle" /\ Expired(e) /\ half[e] < 2 * Pulses
  /\ half' = [half EXCEPT ![e] = @ + 1]
  /\ Show(e, IF half'[e] % 2 = 1 THEN "on" ELSE "off")
  /\ Wait(e, 1)
  /\ UNCHANGED <<config, pc, counts, test, user, server>>

\* The server goes on to Synch, the client gives up.
TwidleEnds(e) ==
  /\ pc[e] = "twidle" /\ Expired(e) /\ half[e] = 2 * Pulses
  /\ IF e = "server" THEN StartSynch(e) /\ UNCHANGED <<test, server>>
                     ELSE Fails(e) /\ UNCHANGED lines
  /\ UNCHANGED <<config, counts, user>>

\* In its Twidle the server looks for Synch, which saves it the wait.
SynchSeen(e) ==
  /\ \/ pc[e] = "synch"
     \/ e = "server" /\ pc[e] = "twidle"
  /\ Synch(e)
  /\ StartLineTest(e)
  /\ UNCHANGED <<config, counts, data, user, server>>

SynchFails(e) ==
  /\ pc[e] = "synch" /\ Expired(e)
  /\ Fails(e)
  /\ UNCHANGED <<config, lines, counts, user>>

(***************************************************************************)
(* LineTest with DataPutByte and DataGetByte                               *)
(***************************************************************************)
PutByte(e) == IF e = "server" THEN TestByte(bit) ELSE data[e]
PeerReady(e) ==
  /\ pc[e] = "put_ready" /\ Ctl2Hi(e)
  /\ ShowByte(e, "data", PutByte(e))
  /\ data' = [data EXCEPT ![e] = {}]
  /\ Goto(e, "put_taken")
  /\ UNCHANGED <<config, half, counts, timer, bit, user, server>>

TakenMut(e) == TRUE
Taken(e) == ~Ctl2Hi(e)
\* The control line is cleared, and the next call raises "ready to read"; the
\* server's last byte ends its test.
PeerTook(e) ==
  /\ pc[e] = "put_taken" /\ Taken(e)
  /\ IF e = "server" /\ bit > NumLines
     THEN /\ Goto(e, "session") /\ Show(e, "low") /\ Wait(e, 0)
          /\ sess' = tries /\ bit' = 0 /\ UNCHANGED spoilt
     ELSE Get(e) /\ Show(e, "ready") /\ UNCHANGED <<bit, server>>
  /\ UNCHANGED <<config, half, counts, data, user>>

DataThere(e) ==
  /\ pc[e] = "get_data" /\ Ctl1Hi(e)
  /\ data' = [data EXCEPT ![e] = ReadData(e)]
  /\ Show(e, "low")
  /\ Goto(e, "get_heard")
  /\ UNCHANGED <<config, half, counts, timer, bit, user, server>>

EchoedMut == TRUE
Echoed == data["server"] = TestByte(bit)
PeerHeard(e) ==
  /\ pc[e] = "get_heard" /\ ~Ctl1Hi(e)
  /\ IF e = "server"
     THEN IF Echoed THEN Put(e) /\ bit' = bit + 1 /\ UNCHANGED <<half, data, server>>
                    ELSE Fails(e)
     ELSE /\ IF data[e] = DONE THEN Goto(e, "session") /\ Wait(e, 0) ELSE Put(e)
          /\ UNCHANGED <<half, bit, data, server>>
  /\ UNCHANGED <<config, lines, counts, user>>

\* What an end that gives up leaves on its lines.
ReleaseMut(e) == Show(e, "low")
Release(e) == UNCHANGED lines
TimesOut(e) ==
  /\ pc[e] \in LineTestPcs /\ Expired(e)
  /\ Fails(e)
  /\ Release(e)
  /\ UNCHANGED <<config, counts, user>>

(***************************************************************************)
(* The session, of which only the end matters here, and DataDisconnect     *)
(***************************************************************************)
Disconnect ==
  /\ \A e \in End : pc[e] = "session"
  /\ pc' = [e \in End |-> "disco"]
  /\ timer' = [e \in End |-> 1]
  /\ UNCHANGED <<config, lines, half, counts, test, user, server>>

DiscoEnds(e) ==
  /\ pc[e] = "disco" /\ Expired(e)
  /\ DataReset(e)
  /\ Goto(e, IF e = "server" THEN "wait" ELSE "idle")
  /\ spoilt' = (spoilt /\ e # "server")
  /\ UNCHANGED <<config, half, timer, test, user, sess>>

(***************************************************************************)
(* The user of the client                                                  *)
(***************************************************************************)
\* A debugger is started: RemoteLink calls DataReset, and its statics are zero.
Link ==
  /\ pc["client"] \in {"none", "dead", "idle", "failed"} /\ ~resuming
  /\ tries < MaxTries
  /\ Goto("client", "linked") /\ Show("client", "off")
  /\ count' = [count EXCEPT !["client"] = 0]
  /\ on' = [on EXCEPT !["client"] = FALSE]
  /\ known' = [known EXCEPT !["client"] = FALSE]
  /\ UNCHANGED <<config, half, timer, test, user, server>>

\* ReqRemoteConnect, or a turn of the loop of ReqRemoteResume.
Connect ==
  /\ \/ pc["client"] = "linked" /\ UNCHANGED resuming
     \/ pc["client"] = "idle" /\ resuming' = TRUE
     \/ pc["client"] = "failed" /\ resuming /\ UNCHANGED resuming
  /\ tries < MaxTries
  /\ tries' = tries + 1
  /\ StartTwidle("client")
  /\ UNCHANGED <<config, counts, test, aborted, server>>

Abort ==
  /\ pc["client"] \notin {"none", "dead", "failed", "idle"}
  /\ Cardinality(aborted) < MaxAborts
  /\ Goto("client", "dead")
  /\ aborted' = aborted \cup {tries}
  /\ resuming' = FALSE
  /\ Wait("client", 0)
  /\ half' = [half EXCEPT !["client"] = 0]
  /\ data' = [data EXCEPT !["client"] = {}]
  /\ UNCHANGED <<config, lines, counts, bit, tries, server>>

(***************************************************************************)
(* Time                                                                    *)
(***************************************************************************)
Step(e) ==
  \/ TwidleOn(e) \/ TwidleOff(e) \/ NextHalf(e) \/ TwidleEnds(e)
  \/ SynchSeen(e) \/ SynchFails(e)
  \/ PeerReady(e) \/ PeerTook(e) \/ DataThere(e) \/ PeerHeard(e) \/ TimesOut(e)
  \/ DiscoEnds(e)

\* Has end e something to do before the clock ticks?
Busy(e) ==
  \/ Counting(e) /\ on[e] # (line[Peer(e)] = "on")
  \/ pc[e] \in {"twidle", "synch", "disco"} \cup LineTestPcs /\ Expired(e)
  \/ pc[e] = "synch" /\ Synch(e)
  \/ e = "server" /\ pc[e] = "twidle" /\ Synch(e)
  \/ pc[e] = "put_ready" /\ Ctl2Hi(e)
  \/ pc[e] = "put_taken" /\ Taken(e)
  \/ pc[e] = "get_data" /\ Ctl1Hi(e)
  \/ pc[e] = "get_heard" /\ ~Ctl1Hi(e)

Tick ==
  /\ \E e \in End : timer[e] > 0
  /\ prompt => \A e \in End : ~Busy(e)
  /\ timer' = [e \in End |-> IF timer[e] > 0 THEN timer[e] - 1 ELSE 0]
  /\ UNCHANGED <<config, lines, pc, half, counts, test, user, server>>

Next ==
  \/ \E e \in End : Step(e)
  \/ Disconnect \/ Link \/ Connect \/ Abort \/ Tick

\* Both ends poll and clocks tick; what the user does is not owed.
Fairness == WF_vars(Tick) /\ \A e \in End : WF_vars(Step(e))
Spec == Init /\ [][Next]_vars /\ Fairness

(***************************************************************************)
(* Properties                                                              *)
(***************************************************************************)
\* Types; a byte under test is on the lines of an end that puts.
TypeOK ==
  /\ prompt \in BOOLEAN /\ dead \in [End -> SUBSET Lines]
  /\ line \in [End -> {"on", "off", "ready", "data", "low"}]
  /\ byte \in [End -> SUBSET Lines] /\ data \in [End -> SUBSET Lines]
  /\ pc \in [End -> Pcs] /\ half \in [End -> 0 .. 2 * Pulses]
  /\ count \in [End -> 0 .. CountMod - 1]
  /\ on \in [End -> BOOLEAN] /\ known \in [End -> BOOLEAN]
  /\ timer \in [End -> 0 .. SynchWait + LineWait + 1]
  /\ bit \in 0 .. NumLines + 1
  /\ tries \in 0 .. MaxTries /\ sess \in 0 .. MaxTries
  /\ aborted \subseteq 0 .. MaxTries /\ spoilt \in BOOLEAN /\ resuming \in BOOLEAN

\* RemoteConnect returns true at the client only when the server is in the
\* session of this very attempt, however late either end runs: the client's
\* last wait is for a line that only a server clears that has passed the test.
ClientKnows ==
  pc["client"] = "session" => pc["server"] = "session" /\ sess = tries

\* A server is in a session only with a client that has read the last byte of
\* its test, unless the client was killed; and on machines that poll faster than
\* the clock that client does not give up any more.
ServerNotAlone ==
  pc["server"] = "session" =>
    IF sess < tries THEN prompt => sess \in aborted
    ELSE /\ pc["client"] \in {"get_heard", "session", "failed", "dead", "linked"}
         /\ prompt => (pc["client"] \in {"failed", "linked"} => sess \in aborted)

\* LineTest lets no end into a session over a cable with a dead line.
LinesWork == \A e \in End : pc[e] = "session" => \A x \in End : dead[x] = {}

\* A client that begins to send pulses while the server waits, over a good cable,
\* is connected, unless an earlier attempt went wrong in Synch or LineTest:
\* DataReset has then not been called, and twidle_count is past TWIDLE_NUM.
Heard == pc["client"] = "session" \/ pc["client"] = "dead"
Calls == /\ pc["client"] = "twidle" /\ half["client"] = 1 /\ pc["server"] = "wait"
         /\ prompt /\ \A x \in End : dead[x] = {}
FreshServerAnswers == (Calls /\ ~spoilt) ~> Heard

\* parproc.c:611 says of Twidle that it sends pulses "to let the person at the
\* other end know you're there": a server that waits does not stay in its main loop.
ServerHears == Calls ~> (pc["server"] # "wait" \/ pc["client"] = "dead")
=============================================================================
