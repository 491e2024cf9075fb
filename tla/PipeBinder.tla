----------------------------- MODULE PipeBinder -----------------------------
(***************************************************************************)
(* The binder of the named pipe link, src/bld/trap/nmp/c/nmpbind.c, between *)
(* a server and one client after the other (nmplink.c).                    *)
(*                                                                         *)
(* The binder keeps a link for each server name.  Each side of a link has  *)
(* a pipe for requests (conn) with a ConnectThread that serves it, and two *)
(* pipes for data; while both sides are connected, two JoinPipeThreads     *)
(* copy from the one side's write pipe to the other side's read pipe.      *)
(* Threads share the flags of the link without a lock: each step below     *)
(* reaches from one access of a flag, or one call that may block, to the   *)
(* next.                                                                   *)
(***************************************************************************)
EXTENDS Naturals, Sequences, FiniteSets, FiniteSetsExt

CONSTANTS Prompt,      \* whoever is not asleep is done before a DosSleep ends
          Preempt,     \* threads of the binder run at the same time
          NumThreads,  \* bound: threads of the binder at once
          MaxLinks,    \* bound: times the server is started
          MaxConns,    \* bound: connections of clients
          MaxReqs,     \* bound: requests in a connection
          MaxKills     \* bound: clients that are killed

ASSUME PipeBinderAssumption ==
  {NumThreads, MaxLinks, MaxConns, MaxReqs, MaxKills} \subseteq Nat /\ {Prompt, Preempt} \subseteq BOOLEAN

Side == {"serv", "trap"}
Him(x) == IF x = "serv" THEN "trap" ELSE "serv"
Thread == 1 .. NumThreads

VARIABLES
  link,      \* the link there is, 0 for none
  links,     \* links so far
  present, started, connected,   \* a_pipe's flags of each side
  thr,       \* the threads
  cpu,       \* the thread that is between two accesses of a flag, or 0
  conn,      \* each side's pipe for requests: none, listening, open, or eof when the other end is closed
  req, rep,  \* the request under way in it, and the answer
  rd, wr,    \* each side's pipes for data, as the binder made them
  rdBuf, wrBuf, \* messages in them
  peer,      \* where the program on each side is
  conns,     \* connections of clients so far
  reqs,      \* requests in the present one
  scon,      \* the connection in which the server is
  kills

heap == <<link, links, present>>
flags == <<started, connected>>
asks == <<req, rep>>
data == <<rd, wr, rdBuf, wrBuf>>
hist == <<conns, reqs, scon, kills>>
vars == <<heap, flags, thr, cpu, conn, asks, data, peer, hist>>

Idle == [job |-> "idle", me |-> "serv", at |-> "", timer |-> 0, gen |-> 0, msg |-> <<>>]
PipeState == {"none", "listening", "open", "eof"}

Init ==
  /\ link = 0 /\ links = 0
  /\ present = [x \in Side |-> FALSE]
  /\ started = [x \in Side |-> FALSE] /\ connected = [x \in Side |-> FALSE]
  /\ thr = [t \in Thread |-> Idle] /\ cpu = 0
  /\ conn = [x \in Side |-> "none"]
  /\ req = [x \in Side |-> "none"] /\ rep = [x \in Side |-> "none"]
  /\ rd = [x \in Side |-> "none"] /\ wr = [x \in Side |-> "none"]
  /\ rdBuf = [x \in Side |-> <<>>] /\ wrBuf = [x \in Side |-> <<>>]
  /\ peer = [x \in Side |-> "off"]
  /\ conns = 0 /\ reqs = 0 /\ scon = 0 /\ kills = 0

(***************************************************************************)
(* Threads and their turn                                                  *)
(***************************************************************************)
IdleThreads == {t \in Thread : thr[t].job = "idle"}
\* StartThread
Started(job, x) ==
  [Idle EXCEPT !.job = job, !.me = x, !.at = IF job = "conn" THEN "await" ELSE "start", !.gen = link]

At(t, job, l) == thr[t].job = job /\ thr[t].at = l
Go(t, l) == thr' = [thr EXCEPT ![t].at = l]
Sleep(t, l) == thr' = [thr EXCEPT ![t].at = l, ![t].timer = 1]

\* DosRead of a join thread returns.
Readable(x) == wr[x] # "open" \/ wrBuf[x] # <<>>
JoinReady(t) ==
  /\ thr[t].job = "join"
  /\ \/ thr[t].at \in {"write", "close"}
     \/ thr[t].at = "read" /\ Readable(thr[t].me)

\* On one processor a join thread, once it has raised its priority, runs before
\* the others, and these are not interrupted between two accesses.
Turn(t) ==
  \/ Preempt \/ JoinReady(t)
  \/ cpu \in {0, t} /\ \A u \in Thread : ~JoinReady(u)

\* DosMakeNmPipe fails while the one instance of the pipe is still there.
DoOpenMut(p) == "listening"
DoOpen(p) == IF p = "none" THEN "listening" ELSE p

(***************************************************************************)
(* ProcessRequest, with the peer that waits for its answer                 *)
(***************************************************************************)
OpenServ ==
  /\ peer["serv"] = "off" /\ links < MaxLinks
  /\ link = 0 /\ conn["serv"] = "none" /\ IdleThreads # {}
  /\ Preempt \/ (cpu = 0 /\ \A u \in Thread : ~JoinReady(u))
  /\ links' = links + 1 /\ link' = links + 1
  /\ present' = [x \in Side |-> x = "serv"]
  /\ started' = [x \in Side |-> FALSE] /\ connected' = [x \in Side |-> FALSE]
  /\ conn' = [conn EXCEPT !["serv"] = "listening"]
  /\ thr' = [thr EXCEPT ![Min(IdleThreads)] = [Started("conn", "serv") EXCEPT !.gen = links + 1]]
  /\ peer' = [peer EXCEPT !["serv"] = "opening"]
  /\ UNCHANGED <<cpu, asks, data, hist>>

OpenTrap ==
  /\ peer["trap"] = "off" /\ conns < MaxConns
  /\ link # 0 /\ conn["trap"] = "none" /\ IdleThreads # {}
  /\ Preempt \/ (cpu = 0 /\ \A u \in Thread : ~JoinReady(u))
  /\ present' = [present EXCEPT !["trap"] = TRUE]
  /\ conn' = [conn EXCEPT !["trap"] = "listening"]
  /\ thr' = [thr EXCEPT ![Min(IdleThreads)] = Started("conn", "trap")]
  /\ peer' = [peer EXCEPT !["trap"] = "opening"]
  /\ UNCHANGED <<link, links, flags, cpu, asks, data, hist>>

(***************************************************************************)
(* ConnectThread                                                           *)
(***************************************************************************)
\* DosConnectNmPipe returns when the peer has opened the pipe.
Awaited(t) ==
  /\ At(t, "conn", "await") /\ conn[thr[t].me] # "listening" /\ Turn(t)
  /\ Sleep(t, "sleep")
  /\ UNCHANGED <<heap, flags, cpu, conn, asks, data, peer, hist>>

Wake(t) ==
  /\ At(t, "conn", "sleep") /\ thr[t].timer = 0 /\ Turn(t)
  /\ Go(t, "read")
  /\ UNCHANGED <<heap, flags, cpu, conn, asks, data, peer, hist>>

\* The request is read; Ack or Nack; and on to the next turn of the loop.
Answer(t, a) ==
  /\ req' = [req EXCEPT ![thr[t].me] = "none"]
  /\ rep' = [rep EXCEPT ![thr[t].me] = IF conn[thr[t].me] = "open" THEN a ELSE "none"]
Reads(t, r) == At(t, "conn", "read") /\ req[thr[t].me] = r /\ Turn(t)

ConnectServ(t) ==
  /\ Reads(t, "connect") /\ thr[t].me = "serv"
  /\ started' = [started EXCEPT !["serv"] = @ \/ started["trap"]]
  /\ Answer(t, IF started["trap"] THEN "ack" ELSE "nack")
  /\ Sleep(t, "sleep")
  /\ UNCHANGED <<heap, connected, cpu, conn, data, peer, hist>>

\* Nobody looks at the results of the four DoOpen.
ConnectTrap(t) ==
  /\ Reads(t, "connect") /\ thr[t].me = "trap"
  /\ IF present["serv"]
     THEN /\ started' = [started EXCEPT !["trap"] = TRUE]
          /\ rd' = [x \in Side |-> DoOpen(rd[x])] /\ wr' = [x \in Side |-> DoOpen(wr[x])]
          /\ Answer(t, "ack")
     ELSE Answer(t, "nack") /\ UNCHANGED <<started, rd, wr>>
  /\ Sleep(t, "sleep")
  /\ UNCHANGED <<heap, connected, cpu, conn, rdBuf, wrBuf, peer, hist>>

EndConnect(t) ==
  /\ Reads(t, "end")
  /\ connected' = [connected EXCEPT ![thr[t].me] = TRUE]
  /\ Go(t, "join") /\ cpu' = t
  /\ UNCHANGED <<heap, started, conn, asks, data, peer, hist>>

BothConnectedMut(x) == TRUE
BothConnected(x) == connected[Him(x)]
StartJoin(t) ==
  /\ At(t, "conn", "join") /\ Turn(t)
  /\ IF BothConnected(thr[t].me)
     THEN LET u == Min(IdleThreads) v == Min(IdleThreads \ {u}) IN
          /\ Cardinality(IdleThreads) >= 2
          /\ thr' = [thr EXCEPT ![t].at = "sleep", ![t].timer = 1,
                         ![u] = Started("join", "serv"), ![v] = Started("join", "trap")]
     ELSE Sleep(t, "sleep")
  /\ Answer(t, "ack") /\ cpu' = 0
  /\ UNCHANGED <<heap, flags, conn, data, peer, hist>>

LingerMut(t) == Go(t, "disco")
Linger(t) == Sleep(t, "disco")
Disco(t) ==
  /\ Reads(t, "disco")
  /\ started' = [started EXCEPT ![thr[t].me] = FALSE]
  /\ Linger(t)
  /\ UNCHANGED <<heap, connected, cpu, conn, asks, data, peer, hist>>

DiscoAck(t) ==
  /\ At(t, "conn", "disco") /\ thr[t].timer = 0 /\ Turn(t)
  /\ Answer(t, "ack")
  /\ Sleep(t, "sleep")
  /\ UNCHANGED <<heap, flags, cpu, conn, data, peer, hist>>

\* The peer has closed the pipe: present is cleared, the pipe closed, and the
\* other side's present looked at.
Gone(t) ==
  /\ At(t, "conn", "read") /\ req[thr[t].me] = "none" /\ conn[thr[t].me] = "eof" /\ Turn(t)
  /\ present' = [present EXCEPT ![thr[t].me] = FALSE]
  /\ Go(t, "close") /\ cpu' = t
  /\ UNCHANGED <<link, links, flags, conn, asks, data, peer, hist>>

CloseConn(t) ==
  /\ At(t, "conn", "close") /\ Turn(t)
  /\ conn' = [conn EXCEPT ![thr[t].me] = "none"]
  /\ rep' = [rep EXCEPT ![thr[t].me] = "none"]
  /\ Go(t, "free") /\ cpu' = t
  /\ UNCHANGED <<heap, flags, req, data, peer, hist>>

LastOutMut(x) == TRUE
LastOut(x) == ~present[Him(x)]
FreeLink(t) ==
  /\ At(t, "conn", "free") /\ Turn(t)
  /\ link' = IF LastOut(thr[t].me) THEN 0 ELSE link
  /\ thr' = [thr EXCEPT ![t] = Idle] /\ cpu' = 0
  /\ UNCHANGED <<links, present, flags, conn, asks, data, peer, hist>>

(***************************************************************************)
(* JoinPipeThread                                                          *)
(***************************************************************************)
StayJoined(t, l) == Go(t, IF \A x \in Side : connected[x] THEN l ELSE "close")

\* DosSetPrty, and the first test of the flags.
JoinStart(t) ==
  /\ At(t, "join", "start") /\ Turn(t)
  /\ StayJoined(t, "read")
  /\ UNCHANGED <<heap, flags, cpu, conn, asks, data, peer, hist>>

JoinRead(t) ==
  /\ At(t, "join", "read") /\ Readable(thr[t].me) /\ Turn(t)
  /\ IF wrBuf[thr[t].me] # <<>>
     THEN /\ thr' = [thr EXCEPT ![t].at = "write", ![t].msg = Head(wrBuf[thr[t].me])]
          /\ wrBuf' = [wrBuf EXCEPT ![thr[t].me] = Tail(@)]
     ELSE Go(t, "close") /\ UNCHANGED wrBuf
  /\ UNCHANGED <<heap, flags, cpu, conn, asks, rd, wr, rdBuf, peer, hist>>

JoinWrite(t) ==
  /\ At(t, "join", "write") /\ Turn(t)
  /\ LET y == Him(thr[t].me)
         l == IF rd[y] = "open" /\ \A x \in Side : connected[x] THEN "read" ELSE "close"
     IN /\ rdBuf' = IF rd[y] = "open" THEN [rdBuf EXCEPT ![y] = Append(@, thr[t].msg)] ELSE rdBuf
        /\ thr' = [thr EXCEPT ![t].at = l, ![t].msg = <<>>]
  /\ UNCHANGED <<heap, flags, cpu, conn, asks, rd, wr, wrBuf, peer, hist>>

ClearedMut(f, x) == f
Cleared(f, x) == [f EXCEPT ![x] = FALSE]
JoinClose(t) ==
  /\ At(t, "join", "close") /\ Turn(t)
  /\ LET x == thr[t].me IN
     /\ wr' = [wr EXCEPT ![x] = "none"] /\ wrBuf' = [wrBuf EXCEPT ![x] = <<>>]
     /\ rd' = [rd EXCEPT ![Him(x)] = "none"] /\ rdBuf' = [rdBuf EXCEPT ![Him(x)] = <<>>]
     /\ connected' = Cleared(connected, x)
     /\ started' = [started EXCEPT ![x] = FALSE]
  /\ thr' = [thr EXCEPT ![t] = Idle]
  /\ UNCHANGED <<heap, cpu, conn, asks, peer, hist>>

Threads(t) ==
  \/ Awaited(t) \/ Wake(t) \/ ConnectServ(t) \/ ConnectTrap(t) \/ EndConnect(t) \/ StartJoin(t)
  \/ Disco(t) \/ DiscoAck(t) \/ Gone(t) \/ CloseConn(t) \/ FreeLink(t)
  \/ JoinStart(t) \/ JoinRead(t) \/ JoinWrite(t) \/ JoinClose(t)

(***************************************************************************)
(* nmplink.c: the server and the client                                    *)
(***************************************************************************)
Is(x, l) == peer[x] = l
To(x, l) == peer' = [peer EXCEPT ![x] = l]
Request(x, r) == req' = [req EXCEPT ![x] = r]

\* DoOpen of the pipe for requests, which RemoteLink retries until it succeeds.
LinkOpen(x) ==
  /\ Is(x, "opening") /\ conn[x] = "listening"
  /\ conn' = [conn EXCEPT ![x] = "open"]
  /\ To(x, "linked")
  /\ UNCHANGED <<heap, flags, thr, cpu, asks, data, hist>>

\* RemoteConnect
Connect(x) ==
  /\ Is(x, "linked") /\ (x = "trap" => conns < MaxConns)
  /\ Request(x, "connect") /\ To(x, "asked")
  /\ UNCHANGED <<heap, flags, thr, cpu, conn, rep, data, hist>>

\* An answer is read.
Answered(x, l) == Is(x, l) /\ rep[x] # "none" /\ rep' = [rep EXCEPT ![x] = "none"]
Asked(x) ==
  /\ Answered(x, "asked")
  /\ To(x, IF rep[x] = "ack" THEN "openRead" ELSE "linked")
  /\ IF x = "trap" /\ rep[x] = "ack" THEN conns' = conns + 1 /\ reqs' = 0 ELSE UNCHANGED <<conns, reqs>>
  /\ UNCHANGED <<heap, flags, thr, cpu, conn, req, data, scon, kills>>

OpenRead(x) ==
  /\ Is(x, "openRead") /\ rd[x] = "listening"
  /\ rd' = [rd EXCEPT ![x] = "open"]
  /\ To(x, "openWrite")
  /\ UNCHANGED <<heap, flags, thr, cpu, conn, asks, wr, rdBuf, wrBuf, hist>>

OpenWrite(x) ==
  /\ Is(x, "openWrite") /\ wr[x] = "listening"
  /\ wr' = [wr EXCEPT ![x] = "open"]
  /\ Request(x, "end") /\ To(x, "ending")
  /\ UNCHANGED <<heap, flags, thr, cpu, conn, rep, rd, rdBuf, wrBuf, hist>>

Ended(x) ==
  /\ Answered(x, "ending")
  /\ To(x, "up")
  /\ scon' = IF x = "serv" THEN 0 ELSE scon
  /\ UNCHANGED <<heap, flags, thr, cpu, conn, req, data, conns, reqs, kills>>

\* The read of a data pipe returns nothing: RemoteGet fails.
Broken(x) == rd[x] # "open"

Ask ==
  /\ Is("trap", "up") /\ reqs < MaxReqs /\ wr["trap"] = "open"
  /\ reqs' = reqs + 1
  /\ wrBuf' = [wrBuf EXCEPT !["trap"] = Append(@, <<"req", conns>>)]
  /\ To("trap", "wait")
  /\ UNCHANGED <<heap, flags, thr, cpu, conn, asks, rd, wr, rdBuf, conns, scon, kills>>

Replied ==
  /\ Is("trap", "wait") /\ rdBuf["trap"] # <<>>
  /\ rdBuf' = [rdBuf EXCEPT !["trap"] = Tail(@)]
  /\ To("trap", "up")
  /\ UNCHANGED <<heap, flags, thr, cpu, conn, asks, rd, wr, wrBuf, hist>>

\* REQ_DISCONNECT or REQ_SUSPEND, which have no reply, and RemoteDisco.
Bye ==
  /\ Is("trap", "up") /\ wr["trap"] = "open"
  /\ wrBuf' = [wrBuf EXCEPT !["trap"] = Append(@, <<"bye", conns>>)]
  /\ Request("trap", "disco") /\ To("trap", "disco")
  /\ UNCHANGED <<heap, flags, thr, cpu, conn, rep, rd, wr, rdBuf, hist>>

\* Session, and RemoteDisco where it ends.
Serve ==
  /\ Is("serv", "up") /\ rdBuf["serv"] # <<>>
  /\ rdBuf' = [rdBuf EXCEPT !["serv"] = Tail(@)]
  /\ scon' = Head(rdBuf["serv"])[2]
  /\ IF Head(rdBuf["serv"])[1] = "bye"
     THEN Request("serv", "disco") /\ To("serv", "disco") /\ UNCHANGED wrBuf
     ELSE /\ wrBuf' = IF wr["serv"] = "open"
                      THEN [wrBuf EXCEPT !["serv"] = Append(@, <<"reply", Head(rdBuf["serv"])[2]>>)] ELSE wrBuf
          /\ UNCHANGED <<req, peer>>
  /\ UNCHANGED <<heap, flags, thr, cpu, conn, rep, rd, wr, conns, reqs, kills>>

\* RemoteGet fails: the server executes its last request for ever, the debugger
\* has lost its program.
Lost(x) ==
  /\ Is(x, IF x = "serv" THEN "up" ELSE "wait")
  /\ rdBuf[x] = <<>> /\ Broken(x)
  /\ To(x, "lost")
  /\ UNCHANGED <<heap, flags, thr, cpu, conn, asks, data, hist>>

Hangup(x) ==
  /\ rd' = [rd EXCEPT ![x] = IF @ = "open" THEN "eof" ELSE @] /\ rdBuf' = [rdBuf EXCEPT ![x] = <<>>]
  /\ wr' = [wr EXCEPT ![x] = IF @ = "open" THEN "eof" ELSE @] /\ UNCHANGED wrBuf

Discoed(x) ==
  /\ Answered(x, "disco")
  /\ Hangup(x)
  /\ To(x, "linked")
  /\ UNCHANGED <<heap, flags, thr, cpu, conn, req, hist>>

\* RemoteUnLink
UnLink(x) ==
  /\ Is(x, "linked")
  /\ conn' = [conn EXCEPT ![x] = "eof"]
  /\ To(x, "off")
  /\ UNCHANGED <<heap, flags, thr, cpu, asks, data, hist>>

\* The user kills a program; all its pipes are closed.
Kill(x) ==
  /\ peer[x] \notin {"off", "opening"}
  /\ peer[x] # "lost" => kills < MaxKills
  /\ kills' = kills + (IF peer[x] = "lost" THEN 0 ELSE 1)
  /\ conn' = [conn EXCEPT ![x] = "eof"]
  /\ rep' = [rep EXCEPT ![x] = "none"]
  /\ Hangup(x)
  /\ To(x, "off")
  /\ UNCHANGED <<heap, flags, thr, cpu, req, conns, reqs, scon>>

\* What a program does by itself, and what its user decides.
Program(x) ==
  \/ LinkOpen(x) \/ Asked(x) \/ OpenRead(x) \/ OpenWrite(x) \/ Ended(x) \/ Lost(x) \/ Discoed(x)
  \/ x = "serv" /\ (Connect(x) \/ Serve)
  \/ x = "trap" /\ Replied
User ==
  \/ OpenServ \/ OpenTrap \/ Connect("trap") \/ Ask \/ Bye
  \/ \E x \in Side : UnLink(x) \/ Kill(x)

(***************************************************************************)
(* Time: a tick is the DosSleep of a tenth of a second.                     *)
(***************************************************************************)
Runs(t) ==
  \/ JoinReady(t)
  \/ thr[t].at \in {"start", "join", "close", "free"}
  \/ thr[t].at \in {"sleep", "disco"} /\ thr[t].timer = 0
  \/ At(t, "conn", "await") /\ conn[thr[t].me] # "listening"
  \/ At(t, "conn", "read") /\ (req[thr[t].me] # "none" \/ conn[thr[t].me] = "eof")
Works(x) ==
  \/ peer[x] = "opening" /\ conn[x] = "listening"
  \/ peer[x] \in {"asked", "ending", "disco"} /\ rep[x] # "none"
  \/ peer[x] = "openRead" /\ rd[x] = "listening"
  \/ peer[x] = "openWrite" /\ wr[x] = "listening"
  \/ x = "serv" /\ peer[x] = "linked"
  \/ peer[x] = (IF x = "serv" THEN "up" ELSE "wait") /\ (rdBuf[x] # <<>> \/ Broken(x))
Tick ==
  /\ \E t \in Thread : thr[t].timer > 0
  /\ Prompt => ~ \E t \in Thread, x \in Side : Runs(t) \/ Works(x)
  /\ thr' = [t \in Thread |-> [thr[t] EXCEPT !.timer = 0]]
  /\ UNCHANGED <<heap, flags, cpu, conn, asks, data, peer, hist>>

Next == (\E t \in Thread : Threads(t)) \/ (\E x \in Side : Program(x)) \/ User \/ Tick
Fairness ==
  /\ \A t \in Thread : WF_vars(Threads(t))
  /\ \A x \in Side : WF_vars(Program(x))
  /\ WF_vars(Tick)
Spec == Init /\ [][Next]_vars /\ Fairness

(***************************************************************************)
(* Properties                                                              *)
(***************************************************************************)
\* Types; and a link that was freed has nobody present, nor a thread that is
\* between its last two accesses.
TypeOK ==
  /\ link \in 0 .. links /\ links \in 0 .. MaxLinks
  /\ \A f \in {present, started, connected} : f \in [Side -> BOOLEAN]
  /\ \A p \in {conn, rd, wr} : p \in [Side -> PipeState]
  /\ \A t \in Thread : thr[t].job \in {"idle", "conn", "join"} /\ thr[t].timer \in 0 .. 1
  /\ link = 0 => cpu = 0 /\ \A x \in Side : ~present[x]

\* FreeLink is only called when no thread is left that will use the link again,
\* although each ConnectThread tests the other side's present flag on its own
\* (nmpbind.c:268-272), and join threads may still be there.
NoUseAfterFree == \A t \in Thread : thr[t].job # "idle" => thr[t].gen = link

\* The two ConnectThreads, which both may see that the other side is connected
\* (nmpbind.c:221-225), and flags that an earlier connection left behind never
\* start a second pair of JoinPipeThreads beside one that still copies.
Joins(x) == {t \in Thread : thr[t].job = "join" /\ thr[t].me = x}
OnePair == \A x \in Side : Cardinality(Joins(x)) <= 1

\* What a connection left in the pipes is gone before the next one uses them
\* (the DoClose of JoinPipeThread; a pipe has one instance, nmpbind.c:78-80): a debugger reads replies to its own requests
\* only, and a server's Session sees the requests of one connection.
Isolation ==
  /\ peer["serv"] = "up" /\ scon # 0 => \A i \in DOMAIN rdBuf["serv"] : rdBuf["serv"][i][2] = scon
  /\ peer["trap"] = "wait" => \A i \in DOMAIN rdBuf["trap"] : rdBuf["trap"][i][2] = conns

\* As long as nobody is killed no side finds its pipe closed in the middle of a
\* session: the half-closed link does not overtake the last request, which the
\* sleep before the answer to DISCO_TRAP is for (nmpbind.c:258-264).
NoneLost == kills = 0 => \A x \in Side : peer[x] # "lost"

\* After a disconnect the server can be connected to again (link.doc:98): a
\* debugger whose CONNECT_TRAP was acknowledged gets its two pipes, while the
\* server stays and nobody is killed.  It does not: the DoOpen of a pipe that
\* an old JoinPipeThread has yet to close fails, and nobody looks.
Reconnects ==
  peer["trap"] = "openRead" ~> peer["trap"] = "up" \/ peer["serv"] = "off"
=============================================================================
