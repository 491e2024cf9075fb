------------------------------- MODULE SerBaud -------------------------------
(***************************************************************************)
(* How the two ends of the serial link settle on a baud rate: Speed of     *)
(* src/bld/trap/ser/c/serlink.c, which RemoteConnect and ReSync call.      *)
(*                                                                         *)
(* MarchToTheSameDrummer sets both clocks to zero.  From then on each end  *)
(* walks down the table of rates by its own clock: at a sync point it sets *)
(* the rate, exchanges greetings and, when it got one, sends the sync      *)
(* string one way and receives it the other way.  Nothing but the clock    *)
(* tells an end that its peer has given up on a rate.                      *)
(*                                                                         *)
(* Time is in ticks; a byte takes at most one, and programs are faster     *)
(* than the clock.  At a rate outside `clean' any byte may be garbled, and *)
(* at another rate than the sender's every byte is.                        *)
(***************************************************************************)
EXTENDS Naturals, Sequences

CONSTANTS NumRates,  \* entries of BaudTable, the first is the fastest: 8
          StrUnit,   \* ticks that the sync string takes at rate i, divided by i
          BaudSet,   \* MAX_BAUD_SET_MS: 6 ticks
          Slop,      \* SYNC_SLOP_MS: 2
          TestSlop,  \* TEST_SLOP_MS: 10
          TimeOut,   \* SYNC_TIME_OUT_MS: 10
          HalfSec,   \* 500 ms: 9
          ByteWait,  \* 250 ms: 5
          LokWait    \* 2 s: 36

ASSUME SerBaudAssumption ==
  /\ NumRates \in Nat \ {0} /\ StrUnit \in Nat
  /\ \A n \in {BaudSet, Slop, TestSlop, TimeOut, HalfSec, ByteWait, LokWait} : n \in Nat

\* What full_test_ticks and MAX_BAUD_SET_MS leave room for, beside the strings: the waits
\* of SetBaudSender and SetBaudReceiver one after the other, and a tick for each byte on
\* its way or unread.  Their values leave one tick more, and two.
ASSUME SerBaudRoom ==
  /\ 4 + 2 * HalfSec + ByteWait <= BaudSet + Slop + TestSlop + TimeOut
  /\ 2 + HalfSec + ByteWait <= BaudSet + Slop + TestSlop

\* What their values also leave room for: the last byte that an end sends in the test of
\* a rate is sent before its peer clears the line for the next one, ...
ASSUME SerBaudSilence == 4 + HalfSec + ByteWait <= BaudSet + Slop + TestSlop

\* ... and an answer comes before the wait for it is over.  A byte is read within a tick,
\* and the clocks are a tick apart.
ASSUME SerBaudAnswers ==
  /\ 2 <= Slop /\ 2 <= ByteWait /\ 3 <= HalfSec /\ 5 <= TimeOut
  /\ 2 <= BaudSet /\ 2 <= LokWait

End == {"client", "server"}
Peer(e) == IF e = "client" THEN "server" ELSE "client"
Rate == 1 .. NumRates
Slowest == NumRates

\* Ticks of one sync string, and of full_test_ticks.
StrTicks(i) == StrUnit * i
TestTime(i) == Slop + TestSlop + 2 * TimeOut + 2 * StrTicks(i)
\* What SetBaud adds to the sync point before it has heard anything.
Base == BaudSet + 3 * Slop

Symbol == {"LOK", "ACK", "HI", "SYNC_BYTE", "SYNC_END", "STR", "TAK", "JUNK"}

VARIABLES
  clean,     \* rates at which the line garbles nothing; chosen once
  now,       \* true time
  zero,      \* when end e called ResetTimerTicks
  chan,      \* what is under way to end e
  pc,
  deadline,  \* when its present wait ends
  idx,       \* BaudCounter
  rate,      \* what Baud was called with
  sp, next,  \* sync_point: of this rate, and of the next one
  ok,        \* the result of Speed
  late,      \* SyncPoint was called when its time had passed
  greeted    \* the ends that got a greeting, and at which rate

vars == <<clean, now, zero, chan, pc, deadline, idx, rate, sp, next, ok, late, greeted>>

Reading == {"lok", "lokack", "hi", "hs", "tak", "last", "rhs", "check", "ack"}
Pcs == Reading \cup {"march", "hold", "sync", "slop", "str", "done"}

Init ==
  /\ clean \in {i .. NumRates : i \in 1 .. NumRates + 1}
  /\ now = 0 /\ zero = [e \in End |-> 0]
  /\ chan = [e \in End |-> <<>>]
  /\ pc = [e \in End |-> IF e = "client" THEN "lok" ELSE "march"]
  /\ deadline = [e \in End |-> LokWait]
  /\ idx = [e \in End |-> 1] /\ rate = [e \in End |-> Slowest]
  /\ sp = [e \in End |-> 0] /\ next = [e \in End |-> 0]
  /\ ok = [e \in End |-> FALSE] /\ late = FALSE /\ greeted = {}

(***************************************************************************)
(* The line                                                                *)
(***************************************************************************)
\* End e sends the symbols of s; at a rate that is not clean each may be garbled.
Garbled(e, s) ==
  IF rate[e] \in clean THEN {s} ELSE {t \in [DOMAIN s -> Symbol] : \A i \in DOMAIN s : t[i] \in {s[i], "JUNK"}}
\* ... while it reads the first n bytes that are there for it.
SendRead(e, s, n) ==
  \E t \in Garbled(e, s) :
    chan' = [x \in End |->
               IF x = e THEN SubSeq(chan[e], n + 1, Len(chan[e]))
               ELSE chan[x] \o [i \in DOMAIN t |-> [sym |-> t[i], rate |-> rate[e], old |-> FALSE]]]
Send(e, s) == SendRead(e, s, 0)

Byte(e) == chan[e][1]
Heard(e) == IF Byte(e).rate = rate[e] THEN Byte(e).sym ELSE "JUNK"
Gets(e, l) == pc[e] = l /\ chan[e] # <<>>

Clock(e) == now - zero[e]
Goto(e, l, n) ==
  /\ pc' = [pc EXCEPT ![e] = l]
  /\ deadline' = [deadline EXCEPT ![e] = now + n]

fixed == <<clean, now>>
table == <<zero, idx, rate, sp, next, ok, late>>

(***************************************************************************)
(* The table of rates: the loop of Speed with the beginning of SetBaud     *)
(***************************************************************************)
\* The next turn of Speed's loop, with sync point p.
Baud(i) == i
Begin(e, i, p) ==
  /\ idx' = [idx EXCEPT ![e] = i] /\ rate' = [rate EXCEPT ![e] = Baud(i)]
  /\ sp' = [sp EXCEPT ![e] = p] /\ next' = [next EXCEPT ![e] = p + Base]
  /\ Goto(e, "sync", 0)

\* SetBaud returns false.
Fail(e) ==
  /\ IF idx[e] < NumRates
     THEN Begin(e, idx[e] + 1, next[e])
     ELSE Goto(e, "done", 0) /\ UNCHANGED <<idx, rate, sp, next>>
  /\ UNCHANGED <<zero, ok, late>>

\* MarchToTheSameDrummer returns false, and so does Speed.
NoMarch(e) == Goto(e, "done", 0) /\ UNCHANGED table

SendLok ==
  /\ pc["server"] = "march"
  /\ Send("server", <<"LOK">>)
  /\ Goto("server", "lokack", HalfSec)
  /\ UNCHANGED <<fixed, table, greeted>>

MarchRead(e) ==
  /\ Gets(e, IF e = "client" THEN "lok" ELSE "lokack")
  /\ IF Heard(e) = IF e = "client" THEN "LOK" ELSE "ACK"
     THEN /\ SendRead(e, IF e = "client" THEN <<"ACK">> ELSE <<>>, 1)
          /\ Goto(e, "hold", 1) /\ UNCHANGED table
     ELSE SendRead(e, <<>>, 1) /\ NoMarch(e)
  /\ UNCHANGED <<fixed, greeted>>

\* Wait( 1 ), ResetTimerTicks and the first turn of the loop.
StartSpeed(e) ==
  /\ pc[e] = "hold" /\ now >= deadline[e]
  /\ zero' = [zero EXCEPT ![e] = now]
  /\ Begin(e, 1, BaudSet)
  /\ UNCHANGED <<fixed, chan, ok, late, greeted>>

\* SyncPoint and ClearCom.
AtSync(e) ==
  /\ pc[e] = "sync" /\ Clock(e) >= sp[e]
  /\ late' = (late \/ Clock(e) > sp[e])
  /\ chan' = [chan EXCEPT ![e] = <<>>]
  /\ Goto(e, "slop", Slop)
  /\ UNCHANGED <<fixed, zero, idx, rate, sp, next, ok, greeted>>

SendHi(e) ==
  /\ pc[e] = "slop" /\ now >= deadline[e]
  /\ Send(e, <<"HI">>)
  /\ Goto(e, "hi", 2 * Slop)
  /\ UNCHANGED <<fixed, table, greeted>>

StartSend(e, n) == SendRead(e, <<"SYNC_BYTE">>, n) /\ Goto(e, "hs", TimeOut)
StartReceive(e) == Goto(e, "rhs", TimeOut)

\* An end that was greeted adds the time of the test, whatever comes of it.
AddedMut(e) == 0
Added(e) == TestTime(idx[e])
HiRead(e) ==
  /\ Gets(e, "hi")
  /\ IF Heard(e) = "HI"
     THEN /\ next' = [next EXCEPT ![e] = @ + Added(e)]
          /\ IF e = "client" THEN StartSend(e, 1) ELSE StartReceive(e) /\ SendRead(e, <<>>, 1)
          /\ greeted' = greeted \cup {<<e, idx[e]>>}
          /\ UNCHANGED <<zero, idx, rate, sp, ok, late>>
     ELSE SendRead(e, <<>>, 1) /\ Fail(e) /\ UNCHANGED greeted
  /\ UNCHANGED fixed

(***************************************************************************)
(* SetBaudSender                                                           *)
(***************************************************************************)
\* The string may be garbled early on, or where it ends (StrEnd).
HandshakeRead(e) ==
  /\ Gets(e, "hs")
  /\ IF Heard(e) = "ACK"
     THEN /\ \/ SendRead(e, <<"SYNC_END">>, 1)
             \/ rate[e] \notin clean /\ SendRead(e, <<"SYNC_END", "JUNK">>, 1)
          /\ Goto(e, "str", StrTicks(idx[e]))
     ELSE /\ SendRead(e, IF Heard(e) = "HI" THEN <<"HI">> ELSE <<>>, 1)
          /\ UNCHANGED <<pc, deadline>>
  /\ UNCHANGED <<fixed, table, greeted>>

StrEnd(e) ==
  /\ pc[e] = "str" /\ now >= deadline[e]
  /\ Send(e, <<"STR">>)
  /\ Goto(e, "tak", TimeOut)
  /\ UNCHANGED <<fixed, table, greeted>>

Success(e) == /\ Goto(e, "done", 0) /\ ok' = [ok EXCEPT ![e] = TRUE]
              /\ UNCHANGED <<zero, idx, rate, sp, next, late>>

AfterAckMut(e) == IF e = "server" THEN Success(e) ELSE Goto(e, "last", HalfSec) /\ UNCHANGED table
AfterAckHasty(e) == Goto(e, "last", Slop) /\ UNCHANGED table
AfterAck(e) == Goto(e, "last", HalfSec) /\ UNCHANGED table
TakRead(e) ==
  /\ Gets(e, "tak")
  /\ IF Heard(e) = "TAK"
     THEN SendRead(e, <<"ACK">>, 1) /\ AfterAck(e)
     ELSE SendRead(e, <<>>, 1) /\ UNCHANGED <<pc, deadline, table>>
  /\ UNCHANGED <<fixed, greeted>>

\* The client has sent its string and receives the server's; the server is done.
LastRead(e) ==
  /\ Gets(e, "last")
  /\ SendRead(e, <<>>, 1)
  /\ IF Heard(e) # "TAK" THEN Fail(e)
     ELSE IF e = "client" THEN StartReceive(e) /\ UNCHANGED table ELSE Success(e)
  /\ UNCHANGED <<fixed, greeted>>

(***************************************************************************)
(* SetBaudReceiver                                                         *)
(***************************************************************************)
ReceiverRead(e) ==
  /\ Gets(e, "rhs")
  /\ SendRead(e, CASE Heard(e) = "SYNC_BYTE" -> <<"ACK">>
                   [] Heard(e) = "HI" -> <<"HI">>
                   [] OTHER -> <<>>, 1)
  /\ IF Heard(e) = "SYNC_END" THEN Goto(e, "check", StrTicks(idx[e]) + ByteWait)
                              ELSE UNCHANGED <<pc, deadline>>
  /\ UNCHANGED <<fixed, table, greeted>>

CheckRead(e) ==
  /\ Gets(e, "check")
  /\ IF Heard(e) = "STR"
     THEN SendRead(e, <<"TAK">>, 1) /\ Goto(e, "ack", HalfSec) /\ UNCHANGED table
     ELSE SendRead(e, <<>>, 1) /\ Fail(e)
  /\ UNCHANGED <<fixed, greeted>>

\* The server goes on to SetBaudSender, the client is done.
AckRead(e) ==
  /\ Gets(e, "ack")
  /\ IF Heard(e) # "ACK" THEN SendRead(e, <<>>, 1) /\ Fail(e)
     ELSE IF e = "client" THEN SendRead(e, <<"TAK">>, 1) /\ Success(e)
     ELSE SendRead(e, <<"TAK", "SYNC_BYTE">>, 1) /\ Goto(e, "hs", TimeOut) /\ UNCHANGED table
  /\ UNCHANGED <<fixed, greeted>>

(***************************************************************************)
(* Time                                                                    *)
(***************************************************************************)
\* SenderHandshake waits for a tick beyond its limit, everything else for the limit.
Over(e) == IF pc[e] = "hs" THEN now > deadline[e] ELSE now >= deadline[e]

GivesUp(e) ==
  /\ pc[e] \in Reading /\ Over(e)
  /\ IF pc[e] \in {"lok", "lokack"} THEN NoMarch(e) ELSE Fail(e)
  /\ UNCHANGED <<fixed, chan, greeted>>

Step(e) ==
  \/ MarchRead(e) \/ StartSpeed(e) \/ AtSync(e) \/ SendHi(e) \/ HiRead(e)
  \/ HandshakeRead(e) \/ StrEnd(e) \/ TakRead(e) \/ LastRead(e)
  \/ ReceiverRead(e) \/ CheckRead(e) \/ AckRead(e) \/ GivesUp(e)

\* Programs are faster than the clock, and no byte takes more than a tick.
Busy(e) ==
  \/ pc[e] \in Reading /\ chan[e] # <<>> /\ Byte(e).old
  \/ pc[e] \in Reading \cup {"hold", "slop", "str"} /\ Over(e)
  \/ pc[e] = "sync" /\ Clock(e) >= sp[e]
  \/ pc[e] = "march"

Done == \A e \in End : pc[e] = "done"
Tick ==
  /\ ~Done /\ \A e \in End : ~Busy(e)
  /\ now' = now + 1
  /\ chan' = [e \in End |-> [i \in DOMAIN chan[e] |-> [chan[e][i] EXCEPT !.old = TRUE]]]
  /\ UNCHANGED <<clean, pc, deadline, table, greeted>>

\* Both calls have returned: the only way to stop, as TLC's deadlock check shows.
Returned == Done /\ UNCHANGED vars

Next == SendLok \/ Tick \/ Returned \/ \E e \in End : Step(e)
Spec == Init /\ [][Next]_vars

(***************************************************************************)
(* Properties                                                              *)
(***************************************************************************)
\* Types; the rate is the one that BaudCounter names once Speed has begun.
TypeOK ==
  /\ clean \subseteq Rate /\ now \in Nat /\ zero \in [End -> Nat]
  /\ chan \in [End -> Seq([sym : Symbol, rate : Rate, old : BOOLEAN])]
  /\ pc \in [End -> Pcs] /\ deadline \in [End -> Nat]
  /\ idx \in [End -> Rate] /\ rate \in [End -> Rate]
  /\ sp \in [End -> Nat] /\ next \in [End -> Nat]
  /\ ok \in [End -> BOOLEAN] /\ late \in BOOLEAN /\ greeted \subseteq End \X Rate
  /\ \A e \in End : pc[e] \in {"sync", "slop", "hi"} => rate[e] = idx[e]

\* The test of a rate, however it fails, is over before the next sync point:
\* SyncPoint never finds that its time has passed, so that the ends stay in step.
OnTime == ~late

\* The server takes a rate only when the client has taken the same one.
ServerKnows == ok["server"] => ok["client"] /\ idx["client"] = idx["server"]

\* Did one end get a greeting at a rate at which the other did not?
Parted == \E e \in End, i \in Rate : <<e, i>> \in greeted /\ <<Peer(e), i>> \notin greeted

\* The client takes a rate alone only when the last TAK was lost, which at a clean
\* rate it is not.
TakenByBoth == Done /\ ok["client"] /\ idx["client"] \in clean => ok["server"]

\* When the slowest rate is clean, the ends settle on some rate, unless a lost
\* greeting has put their sync points out of step.
Settles == Done /\ Slowest \in clean /\ ~Parted => ok["client"]
=============================================================================
