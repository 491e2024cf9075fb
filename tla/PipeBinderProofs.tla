--------------------------- MODULE PipeBinderProofs ---------------------------
(***************************************************************************)
(* Proofs about PipeBinder on one processor (~Preempt), for every number   *)
(* of threads, links, connections, requests and killed programs: no second *)
(* pair of threads copies over a link, and nothing of an earlier           *)
(* connection reaches a later one, however the programs, the clock and the *)
(* threads interleave.  If moreover whoever is not asleep is done before a *)
(* DosSleep ends (Prompt), no thread uses a link that was freed, and       *)
(* nobody is lost as long as nobody is killed.                             *)
(***************************************************************************)
EXTENDS PipeBinder, FiniteSetTheorems, WellFoundedInduction, TLAPS

(***************************************************************************)
(* The inductive invariant                                                 *)
(***************************************************************************)
Msg == {"req", "bye", "reply"} \X Nat
Places == {"", "await", "sleep", "read", "join", "disco", "close", "free", "start", "write"}
ConnPlaces == {"await", "sleep", "read", "join", "disco", "close", "free"}
JoinPlaces == {"start", "read", "write", "close"}
Peers == {"off", "opening", "linked", "asked", "openRead", "openWrite", "ending", "up", "wait", "disco", "lost"}
Records == [job : {"idle", "conn", "join"}, me : Side, at : Places, timer : {0, 1}, gen : Nat,
            msg : Msg \cup {<<>>}]

\* Thread t serves side x, or copies what x has written.
Serves(t, x) == thr[t].job = "conn" /\ thr[t].me = x
Copies(t, x) == thr[t].job = "join" /\ thr[t].me = x
Joined(x) == \E t \in Thread : Copies(t, x)
Connecting(x) == \E t \in Thread : Serves(t, x) /\ thr[t].at = "join"
\* A program has opened this end of the pipe since the binder made it.
Held == {"open", "eof"}

Kinds ==
  /\ link \in 0 .. links /\ links \in 0 .. MaxLinks
  /\ present \in [Side -> BOOLEAN] /\ started \in [Side -> BOOLEAN] /\ connected \in [Side -> BOOLEAN]
  /\ conn \in [Side -> PipeState] /\ rd \in [Side -> PipeState] /\ wr \in [Side -> PipeState]
  /\ peer \in [Side -> Peers]
  /\ req \in [Side -> {"none", "connect", "end", "disco"}] /\ rep \in [Side -> {"none", "ack", "nack"}]
  /\ wrBuf \in [Side -> Seq(Msg)] /\ rdBuf \in [Side -> Seq(Msg)]
  /\ conns \in Nat /\ scon \in Nat /\ cpu \in Thread \cup {0}

ThreadState(t) ==
  /\ thr[t].job = "idle" => thr[t].at = ""
  /\ thr[t].job = "conn" => thr[t].at \in ConnPlaces
  /\ thr[t].job = "join" => thr[t].at \in JoinPlaces
  /\ thr[t].at = "write" => thr[t].msg \in Msg
ThreadTypes == thr \in [Thread -> Records] /\ \A t \in Thread : ThreadState(t)

\* The thread that is between two accesses of a flag.
Turns == \A t \in Thread : cpu = t <=> thr[t].job = "conn" /\ thr[t].at \in {"join", "close", "free"}

\* The pipe for requests of side x, and what its program waits for.
Asks(x) ==
  /\ conn[x] = "none" => peer[x] = "off"
  /\ conn[x] = "listening" <=> peer[x] = "opening"
  /\ conn[x] = "open" <=> peer[x] \notin {"off", "opening"}
  /\ conn[x] \in {"none", "listening"} => req[x] = "none"
  /\ rep[x] # "none" => req[x] = "none" /\ peer[x] \in {"asked", "ending", "disco"}
  /\ req[x] = "connect" => peer[x] \in {"asked", "off"}
  /\ req[x] = "end" => peer[x] \in {"ending", "off"}
  /\ req[x] = "disco" => peer[x] \in {"disco", "off"}
AllAsk == \A x \in Side : Asks(x)

\* The ConnectThread of side x: there is one while its pipe exists.
ServedBy(t, x) ==
  /\ link # 0 /\ thr[t].gen = link
  /\ thr[t].at = "free" <=> conn[x] = "none"
  /\ thr[t].at = "close" => conn[x] = "eof" /\ req[x] = "none"
  /\ thr[t].at = "join" => req[x] = "end" /\ connected[x]
  /\ thr[t].at = "disco" => req[x] = "disco"
  /\ present[x] <=> thr[t].at \notin {"close", "free"}
Serving(x) ==
  /\ \A t, u \in Thread : Serves(t, x) /\ Serves(u, x) => t = u
  /\ conn[x] # "none" \/ present[x] => \E t \in Thread : Serves(t, x)
  /\ \A t \in Thread : Serves(t, x) => ServedBy(t, x)
AllServe == \A x \in Side : Serving(x)

\* The pipes for data of side x: while a thread copies from x, x has not opened its
\* pipes anew, and a side that asks to be connected has opened both since the last
\* pair of threads was gone.
Pipes(x) ==
  /\ connected[x] => wr[x] \in Held /\ (rd[x] \in Held \/ Joined(x))
  /\ Joined(x) => /\ wr[x] \in Held /\ rd[Him(x)] \in Held
                  /\ wr[Him(x)] = "open" \/ connected[Him(x)] => Joined(Him(x))
  /\ req[x] = "end" => /\ wr[x] \in Held /\ rd[x] \in Held
                       /\ ~Joined(x) /\ ~Joined(Him(x))
                       /\ connected[x] => Connecting(x)
  /\ peer[x] = "openWrite" => rd[x] \in Held /\ ~Joined(Him(x)) /\ (connected[x] => Joined(x))
  /\ wr[x] = "open" => peer[x] \in {"ending", "up", "wait", "disco", "lost"}
AllPipes == \A x \in Side : Pipes(x)
Single == \A x \in Side : \A t, u \in Thread : Copies(t, x) /\ Copies(u, x) => t = u

\* Where messages can be.
Stored ==
  /\ \A x \in Side : rdBuf[x] # <<>> => Joined(Him(x))
  /\ wrBuf["serv"] # <<>> => Joined("serv")
  /\ wrBuf["trap"] # <<>> => wr["trap"] \in Held

\* The connections that requests and replies on their way belong to.
Tags(s) == {s[i][2] : i \in DOMAIN s}
Carried(x) == {thr[t].msg[2] : t \in {u \in Thread : thr[u].me = x /\ thr[u].at = "write"}}
Asking == Tags(wrBuf["trap"]) \cup Carried("trap") \cup Tags(rdBuf["serv"])
Replying == Tags(wrBuf["serv"]) \cup Carried("serv") \cup Tags(rdBuf["trap"])
Active == peer["trap"] \in {"ending", "up", "wait"}
Session == peer["serv"] = "up" /\ scon # 0
Tagged ==
  /\ Active => Asking \cup Replying \subseteq {conns}
  /\ \A c, d \in Asking : c = d
  /\ Session /\ connected["serv"] => Joined("serv")
  /\ Session /\ Joined("trap") => Asking \subseteq {scon} /\ (Active => conns = scon)

IndInv == /\ Kinds /\ ThreadTypes /\ Turns /\ AllAsk /\ AllServe /\ AllPipes /\ Single
          /\ Stored /\ Tagged

\* A thread that has yet to look at the flags was started by one that still sleeps.
Asleep == \E u \in Thread : thr[u].job = "conn" /\ thr[u].at = "sleep" /\ thr[u].timer = 1
Used == \A t \in Thread : thr[t].job = "join" =>
          thr[t].gen = link /\ link # 0 /\ (thr[t].at = "start" => Asleep)

(***************************************************************************)
(* Facts                                                                   *)
(***************************************************************************)
LEMMA Sides == Side = {"serv", "trap"} /\ Him("serv") = "trap" /\ Him("trap") = "serv"
BY DEF Side, Him

LEMMA Least ==
  ASSUME NEW T, T \subseteq Nat, T # {}
  PROVE  Min(T) \in T
<1> DEFINE R == {ss \in Nat \X Nat : ss[1] < ss[2]}
<1>1. IsWellFoundedOn(R, Nat)
  BY NatLessThanWellFounded DEF OpToRel
<1>2. \E x \in T : \A y \in T : ~ (<<y, x>> \in R)
  <2> HIDE DEF R
  <2> QED
  BY <1>1, WFMin
<1>3. \E x \in T : \A y \in T : x =< y
  <2>1. PICK x \in T : \A y \in T : ~ (<<y, x>> \in R)
    BY <1>2
  <2>2. \A y \in T : x =< y
    <3> SUFFICES ASSUME NEW y \in T
                 PROVE  x =< y
      OBVIOUS
    <3>1. <<y, x>> \in Nat \X Nat /\ <<y, x>> \notin R /\ x \in Nat /\ y \in Nat
      BY <2>1
    <3>2. <<y, x>>[1] = y /\ <<y, x>>[2] = x
      OBVIOUS
    <3>3. ~ (y < x)
      BY <3>1, <3>2
    <3>4. QED
      BY <3>1, <3>3
  <2>3. QED
    BY <2>2
<1>4. QED
  BY <1>3 DEF Min

LEMMA Free ==
  /\ 0 \notin Thread /\ Thread \subseteq Nat
  /\ IdleThreads # {} => Min(IdleThreads) \in IdleThreads
  /\ Cardinality(IdleThreads) >= 2 =>
       LET u == Min(IdleThreads) v == Min(IdleThreads \ {u}) IN
       u \in IdleThreads /\ v \in IdleThreads /\ u # v
<1>1. 0 \notin Thread /\ Thread \subseteq Nat /\ IdleThreads \subseteq Nat
  BY PipeBinderAssumption DEF Thread, IdleThreads
<1>2. IdleThreads # {} => Min(IdleThreads) \in IdleThreads
  BY <1>1, Least
<1>3. ASSUME Cardinality(IdleThreads) >= 2
      PROVE  LET u == Min(IdleThreads) v == Min(IdleThreads \ {u}) IN
             u \in IdleThreads /\ v \in IdleThreads /\ u # v
  <2>1. IdleThreads # {}
    BY <1>3, FS_EmptySet
  <2>2. IdleThreads # {Min(IdleThreads)}
    <3>1. Cardinality({Min(IdleThreads)}) = 1
      BY FS_Singleton
    <3>2. QED
      BY <1>3, <3>1
  <2>3. IdleThreads \ {Min(IdleThreads)} # {}
    BY <2>1, <2>2
  <2>4. Min(IdleThreads \ {Min(IdleThreads)}) \in IdleThreads \ {Min(IdleThreads)}
    BY <1>1, <2>3, Least
  <2>5. QED
    BY <1>2, <2>1, <2>4
<1>4. QED
  BY <1>1, <1>2, <1>3
LEMMA TagFacts ==
  /\ Tags(<<>>) = {}
  /\ \A s \in Seq(Msg) : s # <<>> =>
       Head(s) \in Msg /\ Tail(s) \in Seq(Msg) /\ Head(s)[2] \in Tags(s) /\ Tags(Tail(s)) \subseteq Tags(s)
  /\ \A s \in Seq(Msg), m \in Msg :
       Append(s, m) \in Seq(Msg) /\ Append(s, m) # <<>> /\ Tags(Append(s, m)) = Tags(s) \cup {m[2]}
<1>1. Tags(<<>>) = {}
  BY DEF Tags
<1>2. ASSUME NEW s \in Seq(Msg), s # <<>>
      PROVE  Head(s) \in Msg /\ Tail(s) \in Seq(Msg) /\ Head(s)[2] \in Tags(s) /\ Tags(Tail(s)) \subseteq Tags(s)
  <2>1. Tail(s) \in Seq(Msg) /\ 1 \in DOMAIN s /\ Head(s) = s[1] /\ s[1] \in Msg
    BY <1>2
  <2>2. \A i \in DOMAIN Tail(s) : i + 1 \in DOMAIN s /\ Tail(s)[i] = s[i + 1]
    BY <1>2
  <2>3. QED
    BY <2>1, <2>2 DEF Tags
<1>3. ASSUME NEW s \in Seq(Msg), NEW m \in Msg
      PROVE  Append(s, m) \in Seq(Msg) /\ Append(s, m) # <<>> /\ Tags(Append(s, m)) = Tags(s) \cup {m[2]}
  <2> DEFINE a == Append(s, m)
  <2>1. a \in Seq(Msg) /\ a # <<>>
    <3>1. Append(s, m) \in Seq(Msg) /\ Len(Append(s, m)) = Len(s) + 1 /\ Len(s) \in Nat /\ Len(<<>>) = 0
      OBVIOUS
    <3>2. QED
      BY <3>1
  <2>2. DOMAIN a = DOMAIN s \cup {Len(s) + 1} /\ a[Len(s) + 1] = m /\ \A i \in DOMAIN s : a[i] = s[i]
    <3>1. Len(a) = Len(s) + 1 /\ a[Len(s) + 1] = m /\ \A i \in 1 .. Len(s) : a[i] = s[i]
      OBVIOUS
    <3>2. DOMAIN s = 1 .. Len(s) /\ DOMAIN a = 1 .. Len(s) + 1 /\ Len(s) \in Nat
      OBVIOUS
    <3> HIDE DEF a
    <3>3. QED
      BY <3>1, <3>2
  <2>3. Tags(a) = Tags(s) \cup {m[2]}
    <3> HIDE DEF a
    <3> QED
      BY <2>2 DEF Tags
  <2>4. QED
    BY <2>1, <2>3
<1>4. QED
  BY <1>1, <1>2, <1>3

(***************************************************************************)
(* What the steps do to the threads                                        *)
(***************************************************************************)
\* Nothing but the place of thread t changes, and its timer.
Moves(t, l) == \A u \in Thread :
  /\ thr'[u].job = thr[u].job /\ thr'[u].me = thr[u].me /\ thr'[u].gen = thr[u].gen
  /\ thr'[u].at = IF u = t THEN l ELSE thr[u].at
\* The threads that copy stay the same.
Kept == \A x \in Side :
  /\ Joined(x)' <=> Joined(x)
  /\ \A u \in Thread : Copies(u, x)' <=> Copies(u, x)
  /\ Connecting(x) => Connecting(x)'
\* No message is taken up.
NoneTaken == \A x \in Side : Carried(x)' \subseteq Carried(x)

LEMMA Still ==
  ASSUME ThreadTypes, UNCHANGED thr
  PROVE  ThreadTypes' /\ Kept /\ NoneTaken
BY DEF ThreadTypes, ThreadState, Kept, NoneTaken, Joined, Copies, Connecting, Serves, Carried

\* A thread that changes its place, and its timer or the message it has.
LEMMA Updated ==
  ASSUME thr \in [Thread -> Records], NEW t \in Thread, NEW l \in Places,
         NEW n \in {0, 1}, NEW m \in Msg \cup {<<>>}
  PROVE  /\ [thr EXCEPT ![t].at = l, ![t].timer = n] \in [Thread -> Records]
         /\ [thr EXCEPT ![t].at = l, ![t].msg = m] \in [Thread -> Records]
<1>1. \A r \in Records : [r EXCEPT !.at = l, !.timer = n] \in Records
  BY DEF Records
<1>2. \A r \in Records : [r EXCEPT !.at = l, !.msg = m] \in Records
  BY DEF Records
<1>3. PICK r \in Records : r = thr[t]
  OBVIOUS
<1>4. [thr EXCEPT ![t].at = l, ![t].timer = n] = [thr EXCEPT ![t] = [r EXCEPT !.at = l, !.timer = n]]
  BY <1>3
<1>5. [thr EXCEPT ![t].at = l, ![t].msg = m] = [thr EXCEPT ![t] = [r EXCEPT !.at = l, !.msg = m]]
  BY <1>3
<1>6. QED
  BY <1>1, <1>2, <1>4, <1>5

LEMMA Moved ==
  ASSUME ThreadTypes, NEW t \in Thread, NEW l \in Places, l # "write", thr[t].at # "join",
         \/ thr[t].job = "conn" /\ l \in ConnPlaces
         \/ thr[t].job = "join" /\ l \in JoinPlaces,
         Go(t, l) \/ Sleep(t, l)
  PROVE  ThreadTypes' /\ Moves(t, l) /\ Kept /\ NoneTaken
<1>1. thr' \in [Thread -> Records]
  BY DEF ThreadTypes, Records, Go, Sleep
<1>2. Moves(t, l) /\ \A u \in Thread : thr'[u].msg = thr[u].msg
  BY DEF ThreadTypes, Records, Go, Sleep, Moves
<1>3. \A u \in Thread : ThreadState(u)'
  BY <1>2 DEF ThreadTypes, ThreadState, Moves
<1>4. \A x \in Side, u \in Thread : (Copies(u, x)' <=> Copies(u, x)) /\ (Serves(u, x)' <=> Serves(u, x))
  BY <1>2 DEF Moves, Copies, Serves
<1>5. Kept
  BY <1>2, <1>4 DEF Kept, Joined, Connecting, Moves
<1>6. NoneTaken
  BY <1>2 DEF NoneTaken, Carried, Moves
<1>7. QED
  BY <1>1, <1>2, <1>3, <1>5, <1>6 DEF ThreadTypes

LEMMA Unladen ==
  ASSUME ThreadTypes, NEW x \in Side, ~Joined(x)
  PROVE  Carried(x) = {}
BY DEF ThreadTypes, ThreadState, Records, Joined, Copies, Carried, ConnPlaces

\* The threads that serve stay where they are.
ConnKept == \A x \in Side, u \in Thread :
  /\ Serves(u, x)' <=> Serves(u, x)
  /\ Serves(u, x) => thr'[u].at = thr[u].at /\ thr'[u].gen = thr[u].gen

LEMMA Replaced ==
  ASSUME ThreadTypes, NEW n \in Thread, NEW r \in Records, thr' = [thr EXCEPT ![n] = r],
         thr[n].job # "join", thr[n].at # "join", r.job # "join", r.at \notin {"write", "join"},
         r.job = "idle" => r.at = "", r.job = "conn" => r.at \in ConnPlaces
  PROVE  ThreadTypes' /\ thr'[n] = r /\ (\A u \in Thread : u # n => thr'[u] = thr[u]) /\ Kept /\ NoneTaken
<1>1. thr' \in [Thread -> Records] /\ thr'[n] = r /\ \A u \in Thread : u # n => thr'[u] = thr[u]
  BY DEF ThreadTypes
<1>2. \A u \in Thread : ThreadState(u)'
  BY <1>1 DEF ThreadTypes, ThreadState, Records
<1>3. \A u \in Thread, x \in Side :
         (Copies(u, x)' <=> Copies(u, x)) /\
         (Serves(u, x) /\ thr[u].at = "join" => Serves(u, x)' /\ thr'[u].at = "join")
  BY <1>1 DEF Copies, Serves
<1>4. Kept
  BY <1>3 DEF Kept, Joined, Connecting
<1>5. NoneTaken
  BY <1>1 DEF NoneTaken, Carried
<1>6. QED
  BY <1>1, <1>2, <1>4, <1>5 DEF ThreadTypes

LEMMA ServeKept ==
  ASSUME AllServe, ConnKept, UNCHANGED <<conn, present, link, req>>,
         \A x \in Side : connected[x] /\ ~connected'[x] => ~Connecting(x)
  PROVE  AllServe'
BY DEF AllServe, Serving, ServedBy, ConnKept, Connecting

LEMMA TurnsKept ==
  ASSUME ThreadTypes, ThreadTypes', Turns, ConnKept, UNCHANGED cpu
  PROVE  Turns'
BY DEF ThreadTypes, Records, Turns, ConnKept, Serves

LEMMA Fresh ==
  ASSUME Kinds, NEW x \in Side, NEW g \in Nat
  PROVE  /\ \E r \in Records : /\ r = [Started("conn", x) EXCEPT !.gen = g]
                              /\ r.job = "conn" /\ r.me = x /\ r.at = "await" /\ r.gen = g
         /\ \E r \in Records : /\ r = Started("conn", x)
                              /\ r.job = "conn" /\ r.me = x /\ r.at = "await" /\ r.gen = link
         /\ \E r \in Records : /\ r = Started("join", x)
                              /\ r.job = "join" /\ r.me = x /\ r.at = "start" /\ r.gen = link /\ r.timer = 0
<1>1. Idle \in [job : {"idle"}, me : Side, at : {""}, timer : {0}, gen : Nat, msg : {<<>>}]
  BY Sides DEF Idle
<1>2. link \in Nat
  BY DEF Kinds
<1>3. Started("conn", x) \in [job : {"conn"}, me : {x}, at : {"await"}, timer : {0}, gen : {link}, msg : {<<>>}]
  BY <1>1, <1>2 DEF Started
<1>4. Started("join", x) \in [job : {"join"}, me : {x}, at : {"start"}, timer : {0}, gen : {link}, msg : {<<>>}]
  BY <1>1, <1>2 DEF Started
<1>5. [Started("conn", x) EXCEPT !.gen = g] \in
        [job : {"conn"}, me : {x}, at : {"await"}, timer : {0}, gen : {g}, msg : {<<>>}]
  BY <1>3
<1>6. Started("conn", x) \in Records /\ Started("join", x) \in Records
  BY <1>2, <1>3, <1>4 DEF Records, Places
<1>7. [Started("conn", x) EXCEPT !.gen = g] \in Records
  BY <1>5 DEF Records, Places
<1>8. QED
  BY <1>3, <1>4, <1>5, <1>6, <1>7

\* A step of a thread that copies, which changes no shared state.
LEMMA OnlyThreads ==
  ASSUME IndInv, ThreadTypes', ConnKept, Kept, NoneTaken,
         UNCHANGED <<heap, flags, cpu, conn, asks, data, peer, hist>>
  PROVE  IndInv'
<1>1. UNCHANGED <<link, links, present, started, connected, cpu, conn, req, rep, rd, wr, rdBuf, wrBuf,
                peer, conns, scon>>
  BY DEF heap, flags, asks, data, hist
<1>2. Kinds' /\ AllAsk'
  BY <1>1 DEF IndInv, Kinds, AllAsk, Asks
<1>3. Turns'
  BY <1>1, TurnsKept DEF IndInv
<1>4. AllServe'
  BY <1>1, ServeKept DEF IndInv
<1>5. AllPipes'
  BY <1>1, Sides DEF IndInv, AllPipes, Pipes, Kept
<1>6. Single'
  BY DEF IndInv, Single, Kept
<1>7. Stored'
  BY <1>1, Sides DEF IndInv, Stored, Kept
<1>8. Asking' \subseteq Asking /\ Replying' \subseteq Replying
  BY <1>1, Sides DEF Asking, Replying, NoneTaken
<1>9. Tagged'
  BY <1>1, <1>8, Sides DEF IndInv, Tagged, Active, Session, Kept
<1>10. QED
  BY <1>2, <1>3, <1>4, <1>5, <1>6, <1>7, <1>9 DEF IndInv

\* What is on its way from side x does not grow.
OnWay(x) == Tags(wrBuf[x]) \cup Carried(x) \cup Tags(rdBuf[Him(x)])

LEMMA Carries ==
  ASSUME Tagged, UNCHANGED <<peer, conns, scon>>,
         \A x \in Side : OnWay(x)' \subseteq OnWay(x),
         \A x \in Side : Joined(x)' => Joined(x),
         \A x \in Side : connected'[x] => connected[x] /\ (Joined(x) => Joined(x)')
  PROVE  Tagged'
<1>1. Asking = OnWay("trap") /\ Replying = OnWay("serv") /\ Asking' = OnWay("trap")' /\ Replying' = OnWay("serv")'
  BY Sides DEF Asking, Replying, OnWay
<1>2. Asking' \subseteq Asking /\ Replying' \subseteq Replying
  BY <1>1, Sides
<1>3. QED
  BY <1>2, Sides DEF Tagged, Active, Session

(***************************************************************************)
(* Every step keeps the invariant                                          *)
(***************************************************************************)
LEMMA AwaitedStep ==
  ASSUME ~Preempt, IndInv, NEW t \in Thread, Awaited(t)
  PROVE  IndInv'
<1>1. At(t, "conn", "await") /\ Sleep(t, "sleep") /\ thr[t].me \in Side
  BY DEF IndInv, ThreadTypes, Records, At, Awaited
<1>2. ThreadTypes' /\ Moves(t, "sleep") /\ Kept /\ NoneTaken
  BY <1>1, Moved DEF IndInv, At, Places, ConnPlaces
<1>3. Kinds'
  BY <1>2, Sides, Free DEF IndInv, Kinds, PipeState, Peers, Awaited, At, heap, flags, asks,
     data, hist
<1>4. Turns'
  BY <1>1, <1>2, Free DEF IndInv, Turns, Moves, At, Awaited
<1>5. AllAsk'
  BY <1>2, Sides, <1>1 DEF IndInv, Kinds, AllAsk, Asks, At, Reads, Awaited, asks
<1>6. AllServe'
  BY <1>2, Sides, <1>1 DEF IndInv, AllServe, Serving, ServedBy, Serves, Moves, At, Reads,
     Awaited, heap, flags, asks
<1>7. AllPipes'
  BY <1>2, Sides, <1>1 DEF IndInv, Kinds, AllPipes, Pipes, Held, Kept, Awaited, At, flags,
     asks, data
<1>8. Single'
  BY <1>2, Sides DEF IndInv, Single, Kept
<1>9. Stored'
  BY <1>2, Sides DEF IndInv, Kinds, Stored, Held, Kept, Awaited, At, data
<1>10. Tagged'
  BY <1>2, Sides, <1>1 DEF IndInv, Kinds, Tagged, Asking, Replying, Active, Session, Kept,
     NoneTaken, Awaited, At, flags, data, hist
<1>11. QED
  BY <1>2, <1>3, <1>4, <1>5, <1>6, <1>7, <1>8, <1>9, <1>10 DEF IndInv

LEMMA WakeStep ==
  ASSUME ~Preempt, IndInv, NEW t \in Thread, Wake(t)
  PROVE  IndInv'
<1>1. At(t, "conn", "sleep") /\ Go(t, "read") /\ thr[t].me \in Side
  BY DEF IndInv, ThreadTypes, Records, At, Wake
<1>2. ThreadTypes' /\ Moves(t, "read") /\ Kept /\ NoneTaken
  BY <1>1, Moved DEF IndInv, At, Places, ConnPlaces
<1>3. Kinds'
  BY <1>2, Sides, Free DEF IndInv, Kinds, PipeState, Peers, Wake, At, heap, flags, asks, data,
     hist
<1>4. Turns'
  BY <1>1, <1>2, Free DEF IndInv, Turns, Moves, At, Wake
<1>5. AllAsk'
  BY <1>2, Sides, <1>1 DEF IndInv, Kinds, AllAsk, Asks, At, Reads, Wake, asks
<1>6. AllServe'
  BY <1>2, Sides, <1>1 DEF IndInv, AllServe, Serving, ServedBy, Serves, Moves, At, Reads, Wake,
     heap, flags, asks
<1>7. AllPipes'
  BY <1>2, Sides, <1>1 DEF IndInv, Kinds, AllPipes, Pipes, Held, Kept, Wake, At, flags, asks,
     data
<1>8. Single'
  BY <1>2, Sides DEF IndInv, Single, Kept
<1>9. Stored'
  BY <1>2, Sides DEF IndInv, Kinds, Stored, Held, Kept, Wake, At, data
<1>10. Tagged'
  BY <1>2, Sides, <1>1 DEF IndInv, Kinds, Tagged, Asking, Replying, Active, Session, Kept,
     NoneTaken, Wake, At, flags, data, hist
<1>11. QED
  BY <1>2, <1>3, <1>4, <1>5, <1>6, <1>7, <1>8, <1>9, <1>10 DEF IndInv

LEMMA ConnectServStep ==
  ASSUME ~Preempt, IndInv, NEW t \in Thread, ConnectServ(t)
  PROVE  IndInv'
<1>1. At(t, "conn", "read") /\ Sleep(t, "sleep") /\ thr[t].me \in Side
  BY DEF IndInv, ThreadTypes, Records, At, ConnectServ, Reads
<1>2. ThreadTypes' /\ Moves(t, "sleep") /\ Kept /\ NoneTaken
  BY <1>1, Moved DEF IndInv, At, Places, ConnPlaces
<1>3. Kinds'
  BY <1>2, Sides, Free DEF IndInv, Kinds, PipeState, Peers, ConnectServ, Reads, Answer, heap,
     data, hist, At
<1>4. Turns'
  BY <1>1, <1>2, Free DEF IndInv, Turns, Moves, At, ConnectServ
<1>5. AllAsk'
  BY <1>2, Sides, <1>1 DEF IndInv, Kinds, AllAsk, Asks, At, Reads, ConnectServ, Answer
<1>6. AllServe'
  BY <1>2, Sides, <1>1 DEF IndInv, AllServe, Serving, ServedBy, Serves, Moves, At, Reads,
     ConnectServ, Answer, heap
<1>7. AllPipes'
  BY <1>2, Sides, <1>1 DEF IndInv, Kinds, AllPipes, Pipes, Held, Kept, ConnectServ, Reads,
     Answer, data, At
<1>8. Single'
  BY <1>2, Sides DEF IndInv, Single, Kept
<1>9. Stored'
  BY <1>2, Sides DEF IndInv, Kinds, Stored, Held, Kept, ConnectServ, Reads, Answer, data, At
<1>10. Tagged'
  BY <1>2, Sides, <1>1 DEF IndInv, Kinds, Tagged, Asking, Replying, Active, Session, Kept,
     NoneTaken, ConnectServ, Reads, Answer, data, hist, At
<1>11. QED
  BY <1>2, <1>3, <1>4, <1>5, <1>6, <1>7, <1>8, <1>9, <1>10 DEF IndInv

LEMMA ConnectTrapStep ==
  ASSUME ~Preempt, IndInv, NEW t \in Thread, ConnectTrap(t)
  PROVE  IndInv'
<1>1. At(t, "conn", "read") /\ Sleep(t, "sleep") /\ thr[t].me \in Side
  BY DEF IndInv, ThreadTypes, Records, At, ConnectTrap, Reads
<1>2. ThreadTypes' /\ Moves(t, "sleep") /\ Kept /\ NoneTaken
  BY <1>1, Moved DEF IndInv, At, Places, ConnPlaces
<1>3. UNCHANGED <<link, present, connected, conn, cpu>> /\ req' = [req EXCEPT ![thr[t].me] = "none"]
  BY DEF ConnectTrap, heap, Answer
<1>4. \A x \in Side : 
        /\ rd[x] \in Held => rd'[x] = rd[x]
        /\ wr[x] \in Held => wr'[x] = wr[x]
        /\ (wr'[x] = "open" => wr[x] = "open")
  BY DEF ConnectTrap, DoOpen, Held
<1>5. rd' \in [Side -> PipeState] /\ wr' \in [Side -> PipeState]
  BY DEF IndInv, Kinds, PipeState, ConnectTrap, DoOpen
<1>6. /\ UNCHANGED <<links, peer, rdBuf, wrBuf, conns, scon>>
      /\ started' \in [Side -> BOOLEAN] /\ rep' \in [Side -> {"none", "ack", "nack"}]
  <2>1. UNCHANGED <<links, peer, rdBuf, wrBuf, conns, scon>>
    BY DEF ConnectTrap, heap, hist
  <2>2. started' \in [Side -> BOOLEAN]
    BY DEF IndInv, Kinds, ConnectTrap
  <2>3. rep' \in [Side -> {"none", "ack", "nack"}]
    BY <1>1 DEF IndInv, Kinds, ConnectTrap, Answer
  <2>4. QED
    BY <2>1, <2>2, <2>3
<1>7. Kinds'
  BY <1>1, <1>3, <1>5, <1>6, Sides DEF IndInv, Kinds
<1>8. Turns'
  BY <1>1, <1>2, Free DEF IndInv, Turns, Moves, At, ConnectTrap
<1>9. AllAsk'
  BY <1>2, Sides, <1>1 DEF IndInv, Kinds, AllAsk, Asks, At, Reads, ConnectTrap, DoOpen, Answer
<1>10. AllServe'
  <2> SUFFICES ASSUME NEW y \in Side
               PROVE  Serving(y)'
    BY DEF AllServe
  <2>1. \A u \in Thread : Serves(u, y)' <=> Serves(u, y)
    BY <1>2 DEF Moves, Serves
  <2>2. Serving(y)
    BY DEF IndInv, AllServe
  <2>3. ASSUME NEW u \in Thread, Serves(u, y)
        PROVE  ServedBy(u, y)'
    <3>1. ServedBy(u, y) /\ thr'[u].gen = thr[u].gen
      BY <1>2, <2>2, <2>3 DEF Serving, Moves
    <3>2. CASE u = t
      BY <1>1, <1>2, <2>3, <3>1, <3>2, Sides, <1>3 DEF IndInv, Kinds, ServedBy, Serves, Moves, At,
         PipeState
    <3>3. CASE u # t
      <4>1. y # thr[t].me /\ thr'[u].at = thr[u].at
        BY <1>1, <1>2, <2>2, <2>3, <3>3 DEF Serving, Serves, At, Moves
      <4>2. QED
        BY <1>1, <3>1, <4>1, Sides, <1>3 DEF IndInv, Kinds, ServedBy, PipeState
    <3>4. QED
      BY <3>2, <3>3
  <2>4. conn'[y] # "none" \/ present'[y] => \E u \in Thread : Serves(u, y)
    BY <1>1, <2>2, Sides, <1>3 DEF IndInv, Kinds, Serving, PipeState
  <2>5. QED
    BY <2>1, <2>2, <2>3, <2>4 DEF Serving
<1>11. AllPipes'
  BY <1>2, Sides, <1>1 DEF IndInv, Kinds, AllPipes, Pipes, Held, Kept, ConnectTrap, Reads,
     DoOpen, Answer, At
<1>12. Single'
  BY <1>2, Sides DEF IndInv, Single, Kept
<1>13. Stored'
  BY <1>2, <1>4, Sides DEF IndInv, Stored, Kept, ConnectTrap
<1>14. Tagged'
  BY <1>2, Sides, <1>1 DEF IndInv, Kinds, Tagged, Asking, Replying, Active, Session, Kept,
     NoneTaken, ConnectTrap, Reads, DoOpen, Answer, hist, At
<1>15. QED
  BY <1>2, <1>7, <1>8, <1>9, <1>10, <1>11, <1>12, <1>13, <1>14 DEF IndInv

LEMMA EndConnectStep ==
  ASSUME ~Preempt, IndInv, NEW t \in Thread, EndConnect(t)
  PROVE  IndInv'
<1>1. At(t, "conn", "read") /\ Go(t, "join") /\ thr[t].me \in Side
  BY DEF IndInv, ThreadTypes, Records, At, EndConnect, Reads
<1>2. ThreadTypes' /\ Moves(t, "join") /\ Kept /\ NoneTaken
  BY <1>1, Moved DEF IndInv, At, Places, ConnPlaces
<1>3. req[thr[t].me] = "end" /\ cpu \in {0, t}
  BY <1>1 DEF EndConnect, Reads, At, Turn, JoinReady
<1>4. \A x \in Side : x = thr[t].me => Connecting(x)'
  BY <1>1, <1>2 DEF Moves, At, Connecting, Serves
<1>5. Kinds'
  BY <1>2, Sides, Free DEF IndInv, Kinds, PipeState, Peers, EndConnect, Reads, heap, asks,
     data, hist, At
<1>6. Turns'
  BY <1>1, <1>2, Free, <1>3 DEF IndInv, Turns, Moves, At, EndConnect
<1>7. AllAsk'
  BY <1>2, Sides, <1>1 DEF IndInv, Kinds, AllAsk, Asks, At, Reads, EndConnect, asks
<1>8. AllServe'
  <2> SUFFICES ASSUME NEW y \in Side
               PROVE  Serving(y)'
    BY DEF AllServe
  <2>1. \A u \in Thread : Serves(u, y)' <=> Serves(u, y)
    BY <1>2 DEF Moves, Serves
  <2>2. Serving(y)
    BY DEF IndInv, AllServe
  <2>3. ASSUME NEW u \in Thread, Serves(u, y)
        PROVE  ServedBy(u, y)'
    <3>1. ServedBy(u, y) /\ thr'[u].gen = thr[u].gen
      BY <1>2, <2>2, <2>3 DEF Serving, Moves
    <3>2. CASE u = t
      BY <1>1, <1>2, <2>3, <3>1, <3>2, Sides, <1>3 DEF IndInv, Kinds, ServedBy, Serves, Moves, At,
         EndConnect, heap, asks
    <3>3. CASE u # t
      <4>1. y # thr[t].me /\ thr'[u].at = thr[u].at
        BY <1>1, <1>2, <2>2, <2>3, <3>3 DEF Serving, Serves, At, Moves
      <4>2. QED
        BY <1>1, <3>1, <4>1, Sides, <1>3 DEF IndInv, Kinds, ServedBy, EndConnect, heap, asks
    <3>4. QED
      BY <3>2, <3>3
  <2>4. conn'[y] # "none" \/ present'[y] => \E u \in Thread : Serves(u, y)
    BY <1>1, <2>2, Sides, <1>3 DEF IndInv, Kinds, Serving, EndConnect, heap, asks
  <2>5. QED
    BY <2>1, <2>2, <2>3, <2>4 DEF Serving
<1>9. AllPipes'
  <2>1. connected' = [connected EXCEPT ![thr[t].me] = TRUE] /\ UNCHANGED <<wr, rd, req, peer>>
    BY DEF EndConnect, data, asks
  <2>2. ASSUME NEW x \in Side
        PROVE  Pipes(x)'
    <3>1. Pipes(x) /\ Pipes(thr[t].me) /\ connected \in [Side -> BOOLEAN]
      BY <1>1 DEF IndInv, AllPipes, Kinds
    <3>2. CASE x = thr[t].me
      <4>1. wr[x] \in Held /\ rd[x] \in Held /\ ~Joined(x) /\ ~Joined(Him(x)) /\ peer[x] # "openWrite"
        BY <1>3, <3>1, <3>2 DEF IndInv, AllAsk, Asks, Pipes
      <4>2. ~Joined(x)' /\ ~Joined(Him(x))'
        BY <1>2, <4>1, Sides DEF Kept
      <4>3. Connecting(x)'
        BY <1>4, <3>2
      <4>4. QED
        BY <2>1, <3>1, <4>1, <4>2, <4>3 DEF Pipes
    <3>3. CASE x # thr[t].me
      BY <1>1, <1>2, <1>3, <2>1, <3>1, <3>3, Sides DEF Pipes, Kept
    <3>4. QED
      BY <3>2, <3>3
  <2>3. QED
    BY <2>2 DEF AllPipes
<1>10. Single'
  BY <1>2, Sides DEF IndInv, Single, Kept
<1>11. Stored'
  BY <1>2, Sides DEF IndInv, Kinds, Stored, Held, Kept, EndConnect, Reads, data, At
<1>12. Tagged'
  BY <1>2, Sides, <1>1, <1>3 DEF IndInv, Kinds, Tagged, Asking, Replying, Active, Session,
     Kept, NoneTaken, AllAsk, Asks, EndConnect, Reads, data, hist, At
<1>13. QED
  BY <1>2, <1>5, <1>6, <1>7, <1>8, <1>9, <1>10, <1>11, <1>12 DEF IndInv

LEMMA DiscoStep ==
  ASSUME ~Preempt, IndInv, NEW t \in Thread, Disco(t)
  PROVE  IndInv'
<1>1. At(t, "conn", "read") /\ Sleep(t, "disco") /\ thr[t].me \in Side
  BY DEF IndInv, ThreadTypes, Records, At, Disco, Reads, Linger
<1>2. ThreadTypes' /\ Moves(t, "disco") /\ Kept /\ NoneTaken
  BY <1>1, Moved DEF IndInv, At, Places, ConnPlaces
<1>3. Kinds'
  BY <1>2, Sides, Free DEF IndInv, Kinds, PipeState, Peers, Disco, Reads, heap, asks, data,
     hist, At
<1>4. Turns'
  BY <1>1, <1>2, Free DEF IndInv, Turns, Moves, At, Disco
<1>5. AllAsk'
  BY <1>2, Sides, <1>1 DEF IndInv, Kinds, AllAsk, Asks, At, Reads, Disco, asks
<1>6. AllServe'
  BY <1>2, Sides, <1>1 DEF IndInv, AllServe, Serving, ServedBy, Serves, Moves, At, Reads,
     Disco, heap, asks
<1>7. AllPipes'
  BY <1>2, Sides, <1>1 DEF IndInv, Kinds, AllPipes, Pipes, Held, Kept, Disco, Reads, asks,
     data, At
<1>8. Single'
  BY <1>2, Sides DEF IndInv, Single, Kept
<1>9. Stored'
  BY <1>2, Sides DEF IndInv, Kinds, Stored, Held, Kept, Disco, Reads, data, At
<1>10. Tagged'
  BY <1>2, Sides, <1>1 DEF IndInv, Kinds, Tagged, Asking, Replying, Active, Session, Kept,
     NoneTaken, Disco, Reads, data, hist, At
<1>11. QED
  BY <1>2, <1>3, <1>4, <1>5, <1>6, <1>7, <1>8, <1>9, <1>10 DEF IndInv

LEMMA DiscoAckStep ==
  ASSUME ~Preempt, IndInv, NEW t \in Thread, DiscoAck(t)
  PROVE  IndInv'
<1>1. At(t, "conn", "disco") /\ Sleep(t, "sleep") /\ thr[t].me \in Side
  BY DEF IndInv, ThreadTypes, Records, At, DiscoAck
<1>2. ThreadTypes' /\ Moves(t, "sleep") /\ Kept /\ NoneTaken
  BY <1>1, Moved DEF IndInv, At, Places, ConnPlaces
<1>3. Kinds'
  BY <1>2, Sides, Free DEF IndInv, Kinds, PipeState, Peers, DiscoAck, At, Answer, heap, flags,
     data, hist
<1>4. Turns'
  BY <1>1, <1>2, Free DEF IndInv, Turns, Moves, At, DiscoAck
<1>5. AllAsk'
  BY <1>2, Sides, <1>1 DEF IndInv, Kinds, AllAsk, Asks, At, Reads, AllServe, Serving, ServedBy,
     Serves, DiscoAck, Answer
<1>6. AllServe'
  BY <1>2, Sides, <1>1 DEF IndInv, AllServe, Serving, ServedBy, Serves, Moves, At, Reads,
     DiscoAck, Answer, heap, flags
<1>7. AllPipes'
  BY <1>2, Sides, <1>1 DEF IndInv, Kinds, AllPipes, Pipes, Held, Kept, DiscoAck, At, Answer,
     flags, data
<1>8. Single'
  BY <1>2, Sides DEF IndInv, Single, Kept
<1>9. Stored'
  BY <1>2, Sides DEF IndInv, Kinds, Stored, Held, Kept, DiscoAck, At, Answer, data
<1>10. Tagged'
  BY <1>2, Sides, <1>1 DEF IndInv, Kinds, Tagged, Asking, Replying, Active, Session, Kept,
     NoneTaken, DiscoAck, At, Answer, flags, data, hist
<1>11. QED
  BY <1>2, <1>3, <1>4, <1>5, <1>6, <1>7, <1>8, <1>9, <1>10 DEF IndInv

LEMMA GoneStep ==
  ASSUME ~Preempt, IndInv, NEW t \in Thread, Gone(t)
  PROVE  IndInv'
<1>1. At(t, "conn", "read") /\ Go(t, "close") /\ thr[t].me \in Side
  BY DEF IndInv, ThreadTypes, Records, At, Gone
<1>2. ThreadTypes' /\ Moves(t, "close") /\ Kept /\ NoneTaken
  BY <1>1, Moved DEF IndInv, At, Places, ConnPlaces
<1>3. cpu \in {0, t}
  BY <1>1 DEF At, Gone, Turn, JoinReady
<1>4. Kinds'
  BY <1>2, Sides, Free DEF IndInv, Kinds, PipeState, Peers, Gone, At, flags, asks, data, hist
<1>5. Turns'
  BY <1>1, <1>2, Free, <1>3 DEF IndInv, Turns, Moves, At, Gone
<1>6. AllAsk'
  BY <1>2, Sides, <1>1 DEF IndInv, Kinds, AllAsk, Asks, At, Reads, Gone, asks
<1>7. AllServe'
  <2> SUFFICES ASSUME NEW y \in Side
               PROVE  Serving(y)'
    BY DEF AllServe
  <2>1. \A u \in Thread : Serves(u, y)' <=> Serves(u, y)
    BY <1>2 DEF Moves, Serves
  <2>2. Serving(y)
    BY DEF IndInv, AllServe
  <2>3. ASSUME NEW u \in Thread, Serves(u, y)
        PROVE  ServedBy(u, y)'
    <3>1. ServedBy(u, y) /\ thr'[u].gen = thr[u].gen
      BY <1>2, <2>2, <2>3 DEF Serving, Moves
    <3>2. CASE u = t
      BY <1>1, <1>2, <2>3, <3>1, <3>2, Sides DEF IndInv, Kinds, ServedBy, Serves, Moves, At, Gone,
         asks, flags
    <3>3. CASE u # t
      <4>1. y # thr[t].me /\ thr'[u].at = thr[u].at
        BY <1>1, <1>2, <2>2, <2>3, <3>3 DEF Serving, Serves, At, Moves
      <4>2. QED
        BY <1>1, <3>1, <4>1, Sides DEF IndInv, Kinds, ServedBy, Gone, asks, flags
    <3>4. QED
      BY <3>2, <3>3
  <2>4. conn'[y] # "none" \/ present'[y] => \E u \in Thread : Serves(u, y)
    BY <1>1, <2>2, Sides DEF IndInv, Kinds, Serving, Gone, asks, flags
  <2>5. QED
    BY <2>1, <2>2, <2>3, <2>4 DEF Serving
<1>8. AllPipes'
  BY <1>2, Sides, <1>1 DEF IndInv, Kinds, AllPipes, Pipes, Held, Kept, Gone, At, flags, asks,
     data
<1>9. Single'
  BY <1>2, Sides DEF IndInv, Single, Kept
<1>10. Stored'
  BY <1>2, Sides DEF IndInv, Kinds, Stored, Held, Kept, Gone, At, data
<1>11. Tagged'
  BY <1>2, Sides, <1>1 DEF IndInv, Kinds, Tagged, Asking, Replying, Active, Session, Kept,
     NoneTaken, Gone, At, flags, data, hist
<1>12. QED
  BY <1>2, <1>4, <1>5, <1>6, <1>7, <1>8, <1>9, <1>10, <1>11 DEF IndInv

LEMMA CloseConnStep ==
  ASSUME ~Preempt, IndInv, NEW t \in Thread, CloseConn(t)
  PROVE  IndInv'
<1>1. At(t, "conn", "close") /\ Go(t, "free") /\ thr[t].me \in Side
  BY DEF IndInv, ThreadTypes, Records, At, CloseConn
<1>2. ThreadTypes' /\ Moves(t, "free") /\ Kept /\ NoneTaken
  BY <1>1, Moved DEF IndInv, At, Places, ConnPlaces
<1>3. cpu \in {0, t}
  BY <1>1 DEF At, CloseConn, Turn, JoinReady
<1>4. Kinds'
  BY <1>2, Sides, Free DEF IndInv, Kinds, PipeState, Peers, CloseConn, At, heap, flags, data,
     hist
<1>5. Turns'
  BY <1>1, <1>2, Free, <1>3 DEF IndInv, Turns, Moves, At, CloseConn
<1>6. AllAsk'
  BY <1>2, Sides, <1>1 DEF IndInv, Kinds, AllAsk, Asks, At, Reads, AllServe, Serving, ServedBy,
     Serves, CloseConn
<1>7. AllServe'
  <2> SUFFICES ASSUME NEW y \in Side
               PROVE  Serving(y)'
    BY DEF AllServe
  <2>1. \A u \in Thread : Serves(u, y)' <=> Serves(u, y)
    BY <1>2 DEF Moves, Serves
  <2>2. Serving(y)
    BY DEF IndInv, AllServe
  <2>3. ASSUME NEW u \in Thread, Serves(u, y)
        PROVE  ServedBy(u, y)'
    <3>1. ServedBy(u, y) /\ thr'[u].gen = thr[u].gen
      BY <1>2, <2>2, <2>3 DEF Serving, Moves
    <3>2. CASE u = t
      BY <1>1, <1>2, <2>3, <3>1, <3>2, Sides DEF IndInv, Kinds, ServedBy, Serves, Moves, At,
         CloseConn, heap, flags
    <3>3. CASE u # t
      <4>1. y # thr[t].me /\ thr'[u].at = thr[u].at
        BY <1>1, <1>2, <2>2, <2>3, <3>3 DEF Serving, Serves, At, Moves
      <4>2. QED
        BY <1>1, <3>1, <4>1, Sides DEF IndInv, Kinds, ServedBy, CloseConn, heap, flags
    <3>4. QED
      BY <3>2, <3>3
  <2>4. conn'[y] # "none" \/ present'[y] => \E u \in Thread : Serves(u, y)
    BY <1>1, <2>2, Sides DEF IndInv, Kinds, Serving, CloseConn, heap, flags
  <2>5. QED
    BY <2>1, <2>2, <2>3, <2>4 DEF Serving
<1>8. AllPipes'
  BY <1>2, Sides, <1>1 DEF IndInv, Kinds, AllPipes, Pipes, Held, Kept, CloseConn, At, flags,
     data
<1>9. Single'
  BY <1>2, Sides DEF IndInv, Single, Kept
<1>10. Stored'
  BY <1>2, Sides DEF IndInv, Kinds, Stored, Held, Kept, CloseConn, At, data
<1>11. Tagged'
  BY <1>2, Sides, <1>1 DEF IndInv, Kinds, Tagged, Asking, Replying, Active, Session, Kept,
     NoneTaken, CloseConn, At, flags, data, hist
<1>12. QED
  BY <1>2, <1>4, <1>5, <1>6, <1>7, <1>8, <1>9, <1>10, <1>11 DEF IndInv

LEMMA LinkOpenStep ==
  ASSUME ~Preempt, IndInv, NEW x \in Side, LinkOpen(x)
  PROVE  IndInv'
<1>1. ThreadTypes /\ UNCHANGED thr
  BY DEF IndInv, LinkOpen
<1>2. ThreadTypes' /\ UNCHANGED thr /\ Kept /\ NoneTaken
  BY <1>1, Still
<1>3. Kinds'
  BY <1>2, Sides, Free DEF IndInv, Kinds, PipeState, Peers, LinkOpen, Is, To, heap, flags,
     asks, data, hist
<1>4. Turns'
  BY <1>2, Sides, Free DEF IndInv, Kinds, Turns, LinkOpen, Is, To
<1>5. AllAsk'
  BY <1>2, Sides DEF IndInv, Kinds, AllAsk, Asks, LinkOpen, Is, To, asks
<1>6. AllServe'
  BY <1>2, Sides DEF IndInv, AllServe, Serving, ServedBy, Serves, LinkOpen, Is, To, heap,
     flags, asks
<1>7. AllPipes'
  BY <1>2, Sides DEF IndInv, Kinds, AllPipes, Pipes, Held, Kept, LinkOpen, Is, To, flags, asks,
     data
<1>8. Single'
  BY <1>2, Sides DEF IndInv, Single, Kept
<1>9. Stored'
  BY <1>2, Sides DEF IndInv, Kinds, Stored, Held, Kept, LinkOpen, Is, To, data
<1>10. Tagged'
  BY <1>2, Sides DEF IndInv, Kinds, Tagged, Asking, Replying, Active, Session, Kept, NoneTaken,
     LinkOpen, Is, To, flags, data, hist
<1>11. QED
  BY <1>2, <1>3, <1>4, <1>5, <1>6, <1>7, <1>8, <1>9, <1>10 DEF IndInv

LEMMA ConnectStep ==
  ASSUME ~Preempt, IndInv, NEW x \in Side, Connect(x)
  PROVE  IndInv'
<1>1. ThreadTypes /\ UNCHANGED thr
  BY DEF IndInv, Connect
<1>2. ThreadTypes' /\ UNCHANGED thr /\ Kept /\ NoneTaken
  BY <1>1, Still
<1>3. Kinds'
  BY <1>2, Sides, Free DEF IndInv, Kinds, PipeState, Peers, Connect, Is, Request, To, heap,
     flags, data, hist
<1>4. Turns'
  BY <1>2, Sides, Free DEF IndInv, Kinds, Turns, Connect, Is, Request, To
<1>5. AllAsk'
  BY <1>2, Sides DEF IndInv, Kinds, AllAsk, Asks, Connect, Is, Request, To
<1>6. AllServe'
  BY <1>2, Sides DEF IndInv, AllServe, Serving, ServedBy, Serves, Kinds, AllAsk, Asks, Connect,
     Is, Request, To, heap, flags
<1>7. AllPipes'
  BY <1>2, Sides DEF IndInv, Kinds, AllPipes, Pipes, Held, Kept, Connect, Is, Request, To,
     flags, data
<1>8. Single'
  BY <1>2, Sides DEF IndInv, Single, Kept
<1>9. Stored'
  BY <1>2, Sides DEF IndInv, Kinds, Stored, Held, Kept, Connect, Is, Request, To, data
<1>10. Tagged'
  BY <1>2, Sides DEF IndInv, Kinds, Tagged, Asking, Replying, Active, Session, Kept, NoneTaken,
     Connect, Is, Request, To, flags, data, hist
<1>11. QED
  BY <1>2, <1>3, <1>4, <1>5, <1>6, <1>7, <1>8, <1>9, <1>10 DEF IndInv

LEMMA AskedStep ==
  ASSUME ~Preempt, IndInv, NEW x \in Side, Asked(x)
  PROVE  IndInv'
<1>1. ThreadTypes /\ UNCHANGED thr
  BY DEF IndInv, Asked
<1>2. ThreadTypes' /\ UNCHANGED thr /\ Kept /\ NoneTaken
  BY <1>1, Still
<1>3. Kinds'
  BY <1>2, Sides, Free DEF IndInv, Kinds, PipeState, Peers, Asked, Answered, To, heap, flags,
     data, Is
<1>4. Turns'
  BY <1>2, Sides, Free DEF IndInv, Kinds, Turns, Asked, Answered, To, Is
<1>5. AllAsk'
  BY <1>2, Sides DEF IndInv, Kinds, AllAsk, Asks, Asked, Answered, To, Is
<1>6. AllServe'
  BY <1>2, Sides DEF IndInv, AllServe, Serving, ServedBy, Serves, Asked, Answered, To, heap,
     flags, Is
<1>7. AllPipes'
  BY <1>2, Sides DEF IndInv, Kinds, AllPipes, Pipes, Held, Kept, Asked, Answered, To, flags,
     data, Is
<1>8. Single'
  BY <1>2, Sides DEF IndInv, Single, Kept
<1>9. Stored'
  BY <1>2, Sides DEF IndInv, Kinds, Stored, Held, Kept, Asked, Answered, To, data, Is
<1>10. Tagged'
  BY <1>2, Sides DEF IndInv, Kinds, Tagged, Asking, Replying, Active, Session, Kept, NoneTaken,
     Asked, Answered, To, flags, data, Is
<1>11. QED
  BY <1>2, <1>3, <1>4, <1>5, <1>6, <1>7, <1>8, <1>9, <1>10 DEF IndInv

LEMMA OpenReadStep ==
  ASSUME ~Preempt, IndInv, NEW x \in Side, OpenRead(x)
  PROVE  IndInv'
<1>1. ThreadTypes /\ UNCHANGED thr
  BY DEF IndInv, OpenRead
<1>2. ThreadTypes' /\ UNCHANGED thr /\ Kept /\ NoneTaken
  BY <1>1, Still
<1>3. Kinds'
  BY <1>2, Sides, Free, TagFacts DEF IndInv, Kinds, PipeState, Peers, OpenRead, Is, To, heap,
     flags, asks, hist
<1>4. Turns'
  BY <1>2, Sides, Free DEF IndInv, Kinds, Turns, OpenRead, Is, To
<1>5. AllAsk'
  BY <1>2, Sides DEF IndInv, Kinds, AllAsk, Asks, OpenRead, Is, To, asks
<1>6. AllServe'
  BY <1>2, Sides DEF IndInv, AllServe, Serving, ServedBy, Serves, OpenRead, Is, To, heap,
     flags, asks
<1>7. AllPipes'
  BY <1>2, Sides DEF IndInv, Kinds, AllPipes, Pipes, Held, Kept, OpenRead, Is, To, flags, asks
<1>8. Single'
  BY <1>2, Sides DEF IndInv, Single, Kept
<1>9. Stored'
  BY <1>2, Sides, TagFacts DEF IndInv, Kinds, Stored, Held, Kept, OpenRead, Is, To
<1>10. Tagged'
  BY <1>2, Sides, TagFacts DEF IndInv, Kinds, Tagged, Asking, Replying, Active, Session, Kept,
     NoneTaken, OpenRead, Is, To, flags, hist
<1>11. QED
  BY <1>2, <1>3, <1>4, <1>5, <1>6, <1>7, <1>8, <1>9, <1>10 DEF IndInv

LEMMA OpenWriteStep ==
  ASSUME ~Preempt, IndInv, NEW x \in Side, OpenWrite(x)
  PROVE  IndInv'
<1>1. ThreadTypes /\ UNCHANGED thr
  BY DEF IndInv, OpenWrite
<1>2. ThreadTypes' /\ UNCHANGED thr /\ Kept /\ NoneTaken
  BY <1>1, Still
<1>3. x = "trap" => Asking = {} /\ Replying = {} /\ ~Joined("trap")
  <2> SUFFICES ASSUME x = "trap"
               PROVE  Asking = {} /\ Replying = {} /\ ~Joined("trap")
    OBVIOUS
  <2>1. ~Joined("trap") /\ ~Joined("serv")
    BY Sides DEF IndInv, AllPipes, Pipes, Held, OpenWrite, Is
  <2>2. Carried("trap") = {} /\ Carried("serv") = {}
    BY <2>1, Unladen, Sides DEF IndInv
  <2>3. \A y \in Side : rdBuf[y] = <<>> /\ wrBuf[y] = <<>>
    BY <2>1, Sides DEF IndInv, Stored, Held, OpenWrite
  <2>4. QED
    BY <2>1, <2>2, <2>3, TagFacts, Sides DEF Asking, Replying
<1>4. Kinds'
  BY <1>2, Sides, Free, TagFacts DEF IndInv, Kinds, PipeState, Peers, OpenWrite, Is, Request,
     To, heap, flags, hist
<1>5. Turns'
  BY <1>2, Sides, Free DEF IndInv, Kinds, Turns, OpenWrite, Is, Request, To
<1>6. AllAsk'
  BY <1>2, Sides DEF IndInv, Kinds, AllAsk, Asks, OpenWrite, Is, Request, To
<1>7. AllServe'
  BY <1>2, Sides DEF IndInv, AllServe, Serving, ServedBy, Serves, Kinds, AllAsk, Asks,
     OpenWrite, Is, Request, To, heap, flags
<1>8. AllPipes'
  BY <1>2, Sides DEF IndInv, Kinds, AllPipes, Pipes, Held, Kept, OpenWrite, Is, Request, To,
     flags
<1>9. Single'
  BY <1>2, Sides DEF IndInv, Single, Kept
<1>10. Stored'
  BY <1>2, Sides, TagFacts DEF IndInv, Kinds, Stored, Held, Kept, OpenWrite, Is, Request, To
<1>11. Tagged'
  <2>1. Asking' \subseteq Asking /\ Replying' \subseteq Replying
    BY <1>2, Sides DEF OpenWrite, Asking, Replying, NoneTaken
  <2>2. CASE x = "trap"
    BY <1>2, <1>3, <2>1, <2>2, Sides DEF IndInv, Kinds, Tagged, Active, Session, Kept, OpenWrite,
       Is, To, flags, hist
  <2>3. CASE x = "serv"
    BY <1>2, <2>1, <2>3, Sides DEF IndInv, Kinds, Tagged, Active, Session, Kept, OpenWrite, Is,
       To, flags, hist
  <2>4. QED
    BY <2>2, <2>3, Sides
<1>12. QED
  BY <1>2, <1>4, <1>5, <1>6, <1>7, <1>8, <1>9, <1>10, <1>11 DEF IndInv

LEMMA EndedStep ==
  ASSUME ~Preempt, IndInv, NEW x \in Side, Ended(x)
  PROVE  IndInv'
<1>1. ThreadTypes /\ UNCHANGED thr
  BY DEF IndInv, Ended
<1>2. ThreadTypes' /\ UNCHANGED thr /\ Kept /\ NoneTaken
  BY <1>1, Still
<1>3. Kinds'
  BY <1>2, Sides, Free DEF IndInv, Kinds, PipeState, Peers, Ended, Answered, To, heap, flags,
     data, Is
<1>4. Turns'
  BY <1>2, Sides, Free DEF IndInv, Kinds, Turns, Ended, Answered, To, Is
<1>5. AllAsk'
  BY <1>2, Sides DEF IndInv, Kinds, AllAsk, Asks, Ended, Answered, To, Is
<1>6. AllServe'
  BY <1>2, Sides DEF IndInv, AllServe, Serving, ServedBy, Serves, Ended, Answered, To, heap,
     flags, Is
<1>7. AllPipes'
  BY <1>2, Sides DEF IndInv, Kinds, AllPipes, Pipes, Held, Kept, Ended, Answered, To, flags,
     data, Is
<1>8. Single'
  BY <1>2, Sides DEF IndInv, Single, Kept
<1>9. Stored'
  BY <1>2, Sides DEF IndInv, Kinds, Stored, Held, Kept, Ended, Answered, To, data, Is
<1>10. Tagged'
  BY <1>2, Sides DEF IndInv, Kinds, Tagged, Asking, Replying, Active, Session, Kept, NoneTaken,
     Ended, Answered, To, flags, data, Is
<1>11. QED
  BY <1>2, <1>3, <1>4, <1>5, <1>6, <1>7, <1>8, <1>9, <1>10 DEF IndInv

LEMMA LostStep ==
  ASSUME ~Preempt, IndInv, NEW x \in Side, Lost(x)
  PROVE  IndInv'
<1>1. ThreadTypes /\ UNCHANGED thr
  BY DEF IndInv, Lost
<1>2. ThreadTypes' /\ UNCHANGED thr /\ Kept /\ NoneTaken
  BY <1>1, Still
<1>3. Kinds'
  BY <1>2, Sides, Free DEF IndInv, Kinds, PipeState, Peers, Lost, Is, Broken, To, heap, flags,
     asks, data, hist
<1>4. Turns'
  BY <1>2, Sides, Free DEF IndInv, Kinds, Turns, Lost, Is, Broken, To
<1>5. AllAsk'
  BY <1>2, Sides DEF IndInv, Kinds, AllAsk, Asks, Lost, Is, Broken, To, asks
<1>6. AllServe'
  BY <1>2, Sides DEF IndInv, AllServe, Serving, ServedBy, Serves, Lost, Is, Broken, To, heap,
     flags, asks
<1>7. AllPipes'
  BY <1>2, Sides DEF IndInv, Kinds, AllPipes, Pipes, Held, Kept, Lost, Is, Broken, To, flags,
     asks, data
<1>8. Single'
  BY <1>2, Sides DEF IndInv, Single, Kept
<1>9. Stored'
  BY <1>2, Sides DEF IndInv, Kinds, Stored, Held, Kept, Lost, Is, Broken, To, data
<1>10. Tagged'
  BY <1>2, Sides DEF IndInv, Kinds, Tagged, Asking, Replying, Active, Session, Kept, NoneTaken,
     Lost, Is, Broken, To, flags, data, hist
<1>11. QED
  BY <1>2, <1>3, <1>4, <1>5, <1>6, <1>7, <1>8, <1>9, <1>10 DEF IndInv

LEMMA DiscoedStep ==
  ASSUME ~Preempt, IndInv, NEW x \in Side, Discoed(x)
  PROVE  IndInv'
<1>1. ThreadTypes /\ UNCHANGED thr
  BY DEF IndInv, Discoed
<1>2. ThreadTypes' /\ UNCHANGED thr /\ Kept /\ NoneTaken
  BY <1>1, Still
<1>3. Kinds'
  BY <1>2, Sides, Free, TagFacts DEF IndInv, Kinds, PipeState, Peers, Discoed, Answered,
     Hangup, To, heap, flags, hist, Is
<1>4. Turns'
  BY <1>2, Sides, Free DEF IndInv, Kinds, Turns, Discoed, Answered, Hangup, To, Is
<1>5. AllAsk'
  BY <1>2, Sides DEF IndInv, Kinds, AllAsk, Asks, Discoed, Answered, Hangup, To, Is
<1>6. AllServe'
  BY <1>2, Sides DEF IndInv, AllServe, Serving, ServedBy, Serves, Discoed, Answered, Hangup,
     To, heap, flags, Is
<1>7. AllPipes'
  BY <1>2, Sides DEF IndInv, Kinds, AllPipes, Pipes, Held, Kept, Discoed, Answered, Hangup, To,
     flags, Is
<1>8. Single'
  BY <1>2, Sides DEF IndInv, Single, Kept
<1>9. Stored'
  BY <1>2, Sides, TagFacts DEF IndInv, Kinds, Stored, Held, Kept, Discoed, Answered, Hangup,
     To, Is
<1>10. Tagged'
  BY <1>2, Sides, TagFacts DEF IndInv, Kinds, Tagged, Asking, Replying, Active, Session, Kept,
     NoneTaken, Discoed, Answered, Hangup, To, flags, hist, Is
<1>11. QED
  BY <1>2, <1>3, <1>4, <1>5, <1>6, <1>7, <1>8, <1>9, <1>10 DEF IndInv

LEMMA UnLinkStep ==
  ASSUME ~Preempt, IndInv, NEW x \in Side, UnLink(x)
  PROVE  IndInv'
<1>1. ThreadTypes /\ UNCHANGED thr
  BY DEF IndInv, UnLink
<1>2. ThreadTypes' /\ UNCHANGED thr /\ Kept /\ NoneTaken
  BY <1>1, Still
<1>3. Kinds'
  BY <1>2, Sides, Free DEF IndInv, Kinds, PipeState, Peers, UnLink, Is, To, heap, flags, asks,
     data, hist
<1>4. Turns'
  BY <1>2, Sides, Free DEF IndInv, Kinds, Turns, UnLink, Is, To
<1>5. AllAsk'
  BY <1>2, Sides DEF IndInv, Kinds, AllAsk, Asks, UnLink, Is, To, asks
<1>6. AllServe'
  BY <1>2, Sides DEF IndInv, AllServe, Serving, ServedBy, Serves, Kinds, AllAsk, Asks, UnLink,
     Is, To, heap, flags, asks
<1>7. AllPipes'
  BY <1>2, Sides DEF IndInv, Kinds, AllPipes, Pipes, Held, Kept, UnLink, Is, To, flags, asks,
     data
<1>8. Single'
  BY <1>2, Sides DEF IndInv, Single, Kept
<1>9. Stored'
  BY <1>2, Sides DEF IndInv, Kinds, Stored, Held, Kept, UnLink, Is, To, data
<1>10. Tagged'
  BY <1>2, Sides DEF IndInv, Kinds, Tagged, Asking, Replying, Active, Session, Kept, NoneTaken,
     UnLink, Is, To, flags, data, hist
<1>11. QED
  BY <1>2, <1>3, <1>4, <1>5, <1>6, <1>7, <1>8, <1>9, <1>10 DEF IndInv

LEMMA KillStep ==
  ASSUME ~Preempt, IndInv, NEW x \in Side, Kill(x)
  PROVE  IndInv'
<1>1. ThreadTypes /\ UNCHANGED thr
  BY DEF IndInv, Kill
<1>2. ThreadTypes' /\ UNCHANGED thr /\ Kept /\ NoneTaken
  BY <1>1, Still
<1>3. Kinds'
  BY <1>2, Sides, Free, TagFacts DEF IndInv, Kinds, PipeState, Peers, Kill, Hangup, To, heap,
     flags
<1>4. Turns'
  BY <1>2, Sides, Free DEF IndInv, Kinds, Turns, Kill, Hangup, To
<1>5. AllAsk'
  BY <1>2, Sides DEF IndInv, Kinds, AllAsk, Asks, Kill, Hangup, To
<1>6. AllServe'
  BY <1>2, Sides DEF IndInv, AllServe, Serving, ServedBy, Serves, Kinds, AllAsk, Asks, Kill,
     Hangup, To, heap, flags
<1>7. AllPipes'
  BY <1>2, Sides DEF IndInv, Kinds, AllPipes, Pipes, Held, Kept, Kill, Hangup, To, flags
<1>8. Single'
  BY <1>2, Sides DEF IndInv, Single, Kept
<1>9. Stored'
  BY <1>2, Sides, TagFacts DEF IndInv, Kinds, Stored, Held, Kept, Kill, Hangup, To
<1>10. Tagged'
  BY <1>2, Sides, TagFacts DEF IndInv, Kinds, Tagged, Asking, Replying, Active, Session, Kept,
     NoneTaken, Kill, Hangup, To, flags
<1>11. QED
  BY <1>2, <1>3, <1>4, <1>5, <1>6, <1>7, <1>8, <1>9, <1>10 DEF IndInv

LEMMA AskStep ==
  ASSUME ~Preempt, IndInv, Ask
  PROVE  IndInv'
<1>1. ThreadTypes /\ UNCHANGED thr
  BY DEF IndInv, Ask
<1>2. ThreadTypes' /\ UNCHANGED thr /\ Kept /\ NoneTaken
  BY <1>1, Still
<1>3. wrBuf["trap"] \in Seq(Msg) /\ <<"req", conns>> \in Msg /\ <<"req", conns>>[2] = conns
  BY Sides DEF IndInv, Kinds, Msg
<1>4. wrBuf' = [wrBuf EXCEPT !["trap"] = Append(wrBuf["trap"], <<"req", conns>>)]
  BY DEF Ask
<1>5. /\ wrBuf' \in [Side -> Seq(Msg)] /\ wrBuf'["serv"] = wrBuf["serv"]
      /\ Tags(wrBuf'["trap"]) = Tags(wrBuf["trap"]) \cup {conns}
  <2> DEFINE m == <<"req", conns>>
  <2>1. m \in Msg /\ m[2] = conns
    BY <1>3
  <2>2. wrBuf' = [wrBuf EXCEPT !["trap"] = Append(wrBuf["trap"], m)]
    BY <1>4
  <2> HIDE DEF m
  <2>3. Append(wrBuf["trap"], m) \in Seq(Msg) /\ Tags(Append(wrBuf["trap"], m)) = Tags(wrBuf["trap"]) \cup {m[2]}
    BY <1>3, <2>1, TagFacts
  <2>4. QED
    BY <2>1, <2>2, <2>3, Sides DEF IndInv, Kinds
<1>6. Asking' \subseteq Asking \cup {conns} /\ Replying' \subseteq Replying
  BY <1>2, <1>5, Sides DEF Asking, Replying, NoneTaken, Ask
<1>7. Kinds'
  BY <1>2, Sides, Free, TagFacts, <1>5 DEF IndInv, Kinds, PipeState, Peers, Ask, Is, To, heap,
     flags, asks
<1>8. Turns'
  BY <1>2, Sides, Free DEF IndInv, Kinds, Turns, Ask, Is, To
<1>9. AllAsk'
  BY <1>2, Sides DEF IndInv, Kinds, AllAsk, Asks, Ask, Is, To, asks
<1>10. AllServe'
  BY <1>2, Sides DEF IndInv, AllServe, Serving, ServedBy, Serves, Ask, Is, To, heap, flags,
     asks
<1>11. AllPipes'
  BY <1>2, Sides DEF IndInv, Kinds, AllPipes, Pipes, Held, Kept, Ask, Is, To, flags, asks
<1>12. Single'
  BY <1>2, Sides DEF IndInv, Single, Kept
<1>13. Stored'
  BY <1>2, <1>5, Sides DEF IndInv, Stored, Kept, Held, Ask
<1>14. Tagged'
  <2>1. Active /\ peer' = [peer EXCEPT !["trap"] = "wait"] /\ UNCHANGED <<conns, scon, connected>>
    BY DEF Active, Ask, Is, To, flags
  <2>2. Asking' \subseteq {conns} /\ Replying' \subseteq {conns}
    BY <1>6, <2>1 DEF IndInv, Tagged
  <2>3. (Session' <=> Session) /\ (Joined("serv")' <=> Joined("serv")) /\ (Joined("trap")' <=> Joined("trap"))
    BY <1>2, <2>1, Sides DEF IndInv, Kinds, Session, Kept
  <2>4. QED
    BY <2>1, <2>2, <2>3 DEF IndInv, Tagged
<1>15. QED
  BY <1>2, <1>7, <1>8, <1>9, <1>10, <1>11, <1>12, <1>13, <1>14 DEF IndInv

LEMMA ByeStep ==
  ASSUME ~Preempt, IndInv, Bye
  PROVE  IndInv'
<1>1. ThreadTypes /\ UNCHANGED thr
  BY DEF IndInv, Bye
<1>2. ThreadTypes' /\ UNCHANGED thr /\ Kept /\ NoneTaken
  BY <1>1, Still
<1>3. wrBuf["trap"] \in Seq(Msg) /\ <<"bye", conns>> \in Msg /\ <<"bye", conns>>[2] = conns
  BY Sides DEF IndInv, Kinds, Msg
<1>4. wrBuf' = [wrBuf EXCEPT !["trap"] = Append(wrBuf["trap"], <<"bye", conns>>)]
  BY DEF Bye
<1>5. /\ wrBuf' \in [Side -> Seq(Msg)] /\ wrBuf'["serv"] = wrBuf["serv"]
      /\ Tags(wrBuf'["trap"]) = Tags(wrBuf["trap"]) \cup {conns}
  <2> DEFINE m == <<"bye", conns>>
  <2>1. m \in Msg /\ m[2] = conns
    BY <1>3
  <2>2. wrBuf' = [wrBuf EXCEPT !["trap"] = Append(wrBuf["trap"], m)]
    BY <1>4
  <2> HIDE DEF m
  <2>3. Append(wrBuf["trap"], m) \in Seq(Msg) /\ Tags(Append(wrBuf["trap"], m)) = Tags(wrBuf["trap"]) \cup {m[2]}
    BY <1>3, <2>1, TagFacts
  <2>4. QED
    BY <2>1, <2>2, <2>3, Sides DEF IndInv, Kinds
<1>6. Asking' \subseteq Asking \cup {conns} /\ Replying' \subseteq Replying
  BY <1>2, <1>5, Sides DEF Asking, Replying, NoneTaken, Bye
<1>7. Kinds'
  BY <1>2, Sides, Free, TagFacts, <1>5 DEF IndInv, Kinds, PipeState, Peers, Bye, Is, Request,
     To, heap, flags, hist
<1>8. Turns'
  BY <1>2, Sides, Free DEF IndInv, Kinds, Turns, Bye, Is, Request, To
<1>9. AllAsk'
  BY <1>2, Sides DEF IndInv, Kinds, AllAsk, Asks, Bye, Is, Request, To
<1>10. AllServe'
  BY <1>2, Sides DEF IndInv, AllServe, Serving, ServedBy, Serves, Kinds, AllAsk, Asks, Bye, Is,
     Request, To, heap, flags
<1>11. AllPipes'
  BY <1>2, Sides DEF IndInv, Kinds, AllPipes, Pipes, Held, Kept, Bye, Is, Request, To, flags
<1>12. Single'
  BY <1>2, Sides DEF IndInv, Single, Kept
<1>13. Stored'
  BY <1>2, <1>5, Sides DEF IndInv, Stored, Kept, Held, Bye
<1>14. Tagged'
  <2>1. Active /\ peer' = [peer EXCEPT !["trap"] = "disco"] /\ UNCHANGED <<conns, scon, connected>>
    BY DEF Active, Bye, Is, To, flags, hist
  <2>2. Asking' \subseteq {conns} /\ ~Active'
    BY <1>6, <2>1, Sides DEF IndInv, Kinds, Tagged, Active
  <2>3. (Session' <=> Session) /\ (Joined("serv")' <=> Joined("serv")) /\ (Joined("trap")' <=> Joined("trap"))
    BY <1>2, <2>1, Sides DEF IndInv, Kinds, Session, Kept
  <2>4. QED
    BY <2>1, <2>2, <2>3 DEF IndInv, Tagged
<1>15. QED
  BY <1>2, <1>7, <1>8, <1>9, <1>10, <1>11, <1>12, <1>13, <1>14 DEF IndInv

LEMMA RepliedStep ==
  ASSUME ~Preempt, IndInv, Replied
  PROVE  IndInv'
<1>1. ThreadTypes /\ UNCHANGED thr
  BY DEF IndInv, Replied
<1>2. ThreadTypes' /\ UNCHANGED thr /\ Kept /\ NoneTaken
  BY <1>1, Still
<1>3. Kinds'
  BY <1>2, Sides, Free, TagFacts DEF IndInv, Kinds, PipeState, Peers, Replied, Is, To, heap,
     flags, asks, hist
<1>4. Turns'
  BY <1>2, Sides, Free DEF IndInv, Kinds, Turns, Replied, Is, To
<1>5. AllAsk'
  BY <1>2, Sides DEF IndInv, Kinds, AllAsk, Asks, Replied, Is, To, asks
<1>6. AllServe'
  BY <1>2, Sides DEF IndInv, AllServe, Serving, ServedBy, Serves, Replied, Is, To, heap, flags,
     asks
<1>7. AllPipes'
  BY <1>2, Sides DEF IndInv, Kinds, AllPipes, Pipes, Held, Kept, Replied, Is, To, flags, asks
<1>8. Single'
  BY <1>2, Sides DEF IndInv, Single, Kept
<1>9. Stored'
  BY <1>2, Sides, TagFacts DEF IndInv, Kinds, Stored, Held, Kept, Replied, Is, To
<1>10. Tagged'
  BY <1>2, Sides, TagFacts DEF IndInv, Kinds, Tagged, Asking, Replying, Active, Session, Kept,
     NoneTaken, Replied, Is, To, flags, hist
<1>11. QED
  BY <1>2, <1>3, <1>4, <1>5, <1>6, <1>7, <1>8, <1>9, <1>10 DEF IndInv

LEMMA ServeStep ==
  ASSUME ~Preempt, IndInv, Serve
  PROVE  IndInv'
<1>1. ThreadTypes /\ UNCHANGED thr
  BY DEF IndInv, Serve
<1>2. ThreadTypes' /\ UNCHANGED thr /\ Kept /\ NoneTaken
  BY <1>1, Still
<1>3. rdBuf["serv"] \in Seq(Msg) /\ rdBuf["serv"] # <<>> /\ wrBuf["serv"] \in Seq(Msg)
  BY Sides DEF IndInv, Kinds, Serve
<1> DEFINE m == Head(rdBuf["serv"])
<1>4. m \in Msg /\ m[2] \in Nat /\ <<"reply", m[2]>> \in Msg /\ <<"reply", m[2]>>[2] = m[2]
  BY <1>3, TagFacts DEF Msg
<1>5. m[2] \in Tags(rdBuf["serv"]) /\ Tags(Tail(rdBuf["serv"])) \subseteq Tags(rdBuf["serv"])
      /\ Tail(rdBuf["serv"]) \in Seq(Msg)
  BY <1>3, TagFacts
<1>6. /\ rdBuf' = [rdBuf EXCEPT !["serv"] = Tail(rdBuf["serv"])] /\ scon' = m[2]
      /\ wrBuf' \in {wrBuf, [wrBuf EXCEPT !["serv"] = Append(wrBuf["serv"], <<"reply", m[2]>>)]}
      /\ wrBuf' # wrBuf => wr["serv"] = "open"
  BY DEF Serve
<1> HIDE DEF m
<1>7. /\ wrBuf' \in [Side -> Seq(Msg)] /\ wrBuf'["trap"] = wrBuf["trap"]
      /\ Tags(wrBuf'["serv"]) \subseteq Tags(wrBuf["serv"]) \cup {m[2]}
  <2>1. Append(wrBuf["serv"], <<"reply", m[2]>>) \in Seq(Msg)
    BY <1>3, <1>4, TagFacts
  <2>2. Tags(Append(wrBuf["serv"], <<"reply", m[2]>>)) = Tags(wrBuf["serv"]) \cup {m[2]}
    BY <1>3, <1>4, TagFacts
  <2> DEFINE a == Append(wrBuf["serv"], <<"reply", m[2]>>)
  <2>3. a \in Seq(Msg) /\ Tags(a) = Tags(wrBuf["serv"]) \cup {m[2]} /\ wrBuf' \in {wrBuf, [wrBuf EXCEPT !["serv"] = a]}
    BY <1>6, <2>1, <2>2
  <2> HIDE DEF a
  <2>4. QED
    BY <2>3, Sides DEF IndInv, Kinds
<1>8. Asking' \subseteq Asking /\ Replying' \subseteq Replying \cup {m[2]} /\ m[2] \in Asking
  BY <1>2, <1>5, <1>6, <1>7, Sides DEF IndInv, Kinds, Asking, Replying, NoneTaken
<1>9. Kinds'
  BY <1>2, Sides, Free, TagFacts, <1>4, <1>5, <1>6, <1>7 DEF IndInv, Kinds, PipeState, Peers,
     Serve, Is, Request, To, heap, flags
<1>10. Turns'
  BY <1>2, Sides, Free DEF IndInv, Kinds, Turns, Serve, Is, Request, To
<1>11. AllAsk'
  BY <1>2, Sides DEF IndInv, Kinds, AllAsk, Asks, Serve, Is, Request, To
<1>12. AllServe'
  BY <1>2, Sides DEF IndInv, AllServe, Serving, ServedBy, Serves, Kinds, AllAsk, Asks, Serve,
     Is, Request, To, heap, flags
<1>13. AllPipes'
  BY <1>2, Sides DEF IndInv, Kinds, AllPipes, Pipes, Held, Kept, Serve, Is, Request, To, flags
<1>14. Single'
  BY <1>2, Sides DEF IndInv, Single, Kept
<1>15. Stored'
  BY <1>2, <1>3, <1>6, Sides DEF IndInv, Kinds, Stored, AllPipes, Pipes, Kept, Serve
<1>16. Tagged'
  BY <1>2, <1>3, <1>6, <1>8, Sides DEF IndInv, Kinds, Tagged, Active, Session, Stored, AllPipes,
     Pipes, Kept, Serve, Is, To, flags
<1>17. QED
  BY <1>2, <1>9, <1>10, <1>11, <1>12, <1>13, <1>14, <1>15, <1>16 DEF IndInv

LEMMA OpenServStep ==
  ASSUME ~Preempt, IndInv, OpenServ
  PROVE  IndInv'
<1>1. link \in Nat /\ links \in Nat
  BY DEF IndInv, Kinds
<1>2. PICK n \in Thread :
        thr[n].job = "idle" /\ thr[n].at = "" /\
        thr' = [thr EXCEPT ![n] = [Started("conn", "serv") EXCEPT !.gen = links + 1]]
  BY Free DEF IndInv, ThreadTypes, ThreadState, OpenServ, IdleThreads
<1>3. PICK r \in Records : /\ r = [Started("conn", "serv") EXCEPT !.gen = links + 1]
                          /\ r.job = "conn" /\ r.me = "serv" /\ r.at = "await" /\ r.gen = links + 1
  <2>1. links + 1 \in Nat /\ "serv" \in Side /\ Kinds
    BY <1>1, Sides DEF IndInv
  <2>2. QED
    BY <2>1, Fresh
<1>4. /\ r.job = "conn" /\ r.at = "await" /\ r.me = "serv" /\ r.gen = links + 1 /\ thr' = [thr EXCEPT ![n] = r]
      /\ link = 0 /\ link' = links + 1 /\ links' = links + 1 /\ cpu = 0 /\ cpu' = 0
  BY <1>2, <1>3 DEF OpenServ
<1>5. /\ ThreadTypes' /\ thr'[n] = r /\ \A u \in Thread : u # n => thr'[u] = thr[u]
      /\ Kept /\ NoneTaken
  BY <1>2, <1>3, <1>4, Replaced DEF IndInv, ConnPlaces
<1>6. Kinds'
  BY <1>4, Sides, PipeBinderAssumption DEF IndInv, Kinds, PipeState, Peers, OpenServ, asks, data,
     hist
<1>7. Turns'
  BY <1>2, <1>3, <1>4, <1>5, Free DEF IndInv, Turns
<1>8. AllAsk'
  BY Sides DEF IndInv, Kinds, AllAsk, Asks, OpenServ, asks
<1>9. AllServe'
  <2>1. \A u \in Thread, x \in Side : Serves(u, x)' <=> u = n /\ x = "serv"
    <3>1. \A u \in Thread, x \in Side : ~Serves(u, x)
      BY <1>4 DEF IndInv, AllServe, Serving, ServedBy
    <3>2. QED
      BY <1>4, <1>5, <3>1 DEF Serves
  <2>2. \A x \in Side : present'[x] <=> x = "serv"
    BY DEF OpenServ
  <2>3. conn'["serv"] = "listening" /\ conn'["trap"] = "none"
    <3>1. conn["trap"] = "none"
      BY <1>4, Sides DEF IndInv, AllServe, Serving, ServedBy
    <3>2. QED
      BY <3>1, Sides DEF IndInv, Kinds, OpenServ
  <2>4. ServedBy(n, "serv")'
    <3>1. link' # 0 /\ link' = links + 1
      BY <1>1, <1>4 DEF IndInv, Kinds
    <3>2. thr'[n].gen = links + 1 /\ thr'[n].at = "await" /\ present'["serv"] /\ conn'["serv"] = "listening"
      BY <1>4, <1>5, <2>2, <2>3, Sides
    <3>3. QED
      BY <3>1, <3>2 DEF ServedBy
  <2>5. QED
    BY <1>2, <2>1, <2>2, <2>3, <2>4, Sides DEF AllServe, Serving
<1>10. AllPipes'
  BY <1>5, Sides DEF IndInv, Kinds, AllPipes, Pipes, Kept, OpenServ, asks, data
<1>11. Single'
  BY <1>5, Sides DEF IndInv, Single, Kept
<1>12. Stored'
  BY <1>5, Sides DEF IndInv, Stored, Kept, OpenServ, data
<1>13. Tagged'
  BY <1>5, Sides DEF IndInv, Kinds, Tagged, Asking, Replying, Active, Session, Kept, NoneTaken,
     OpenServ, data, hist
<1>14. QED
  BY <1>5, <1>6, <1>7, <1>8, <1>9, <1>10, <1>11, <1>12, <1>13 DEF IndInv

LEMMA OpenTrapStep ==
  ASSUME ~Preempt, IndInv, OpenTrap
  PROVE  IndInv'
<1>1. link \in Nat /\ links \in Nat
  BY DEF IndInv, Kinds
<1>2. PICK n \in Thread :
        thr[n].job = "idle" /\ thr[n].at = "" /\
        thr' = [thr EXCEPT ![n] = Started("conn", "trap")]
  BY Free DEF IndInv, ThreadTypes, ThreadState, OpenTrap, IdleThreads
<1>3. PICK r \in Records : /\ r = Started("conn", "trap")
                          /\ r.job = "conn" /\ r.me = "trap" /\ r.at = "await" /\ r.gen = link
  BY <1>1, Fresh, Sides DEF IndInv
<1>4. /\ r.job = "conn" /\ r.at = "await" /\ r.me = "trap" /\ r.gen = link /\ thr' = [thr EXCEPT ![n] = r]
      /\ link # 0 /\ UNCHANGED <<link, links, cpu, connected>> /\ cpu = 0
  BY <1>2, <1>3 DEF OpenTrap, flags
<1>5. /\ ThreadTypes' /\ thr'[n] = r /\ \A u \in Thread : u # n => thr'[u] = thr[u]
      /\ Kept /\ NoneTaken
  BY <1>2, <1>3, <1>4, Replaced DEF IndInv, ConnPlaces
<1>6. Kinds'
  BY <1>4, Sides DEF IndInv, Kinds, PipeState, Peers, OpenTrap, flags, asks, data, hist
<1>7. Turns'
  BY <1>2, <1>3, <1>4, <1>5, Free DEF IndInv, Turns
<1>8. AllAsk'
  BY Sides DEF IndInv, Kinds, AllAsk, Asks, OpenTrap, asks
<1>9. AllServe'
  <2>1. \A u \in Thread : ~Serves(u, "trap")
    BY <1>4, Sides, Free DEF IndInv, Turns, AllServe, Serving, ServedBy, Serves, OpenTrap
  <2>2. \A u \in Thread : (Serves(u, "trap")' <=> u = n) /\ (Serves(u, "serv")' <=> Serves(u, "serv") /\ u # n)
                          /\ (Serves(u, "serv") => u # n)
    <3>1. \A u \in Thread : u # n =>
            ((Serves(u, "trap")' <=> Serves(u, "trap")) /\
                                      (Serves(u, "serv")' <=> Serves(u, "serv")))
      BY <1>5 DEF Serves
    <3>2. Serves(n, "trap")' /\ ~Serves(n, "serv")' /\ ~Serves(n, "serv")
      BY <1>2, <1>4, <1>5 DEF Serves
    <3>3. QED
      BY <1>2, <2>1, <3>1, <3>2
  <2>3. /\ present' = [present EXCEPT !["trap"] = TRUE] /\ conn' = [conn EXCEPT !["trap"] = "listening"]
        /\ UNCHANGED <<link, req, connected>>
    BY DEF OpenTrap, asks, flags
  <2>4. Serving("serv")'
    BY <1>5, <2>2, <2>3, Sides DEF IndInv, Kinds, AllServe, Serving, ServedBy
  <2>5. Serving("trap")'
    <3>1. ServedBy(n, "trap")'
      BY <1>3, <1>4, <1>5, <2>3, Sides DEF IndInv, Kinds, ServedBy
    <3>2. QED
      BY <1>2, <2>2, <3>1 DEF Serving
  <2>6. QED
    BY <2>4, <2>5, Sides DEF AllServe
<1>10. AllPipes'
  BY <1>4, <1>5, Sides DEF IndInv, Kinds, AllPipes, Pipes, Kept, OpenTrap, asks, data
<1>11. Single'
  BY <1>5, Sides DEF IndInv, Single, Kept
<1>12. Stored'
  BY <1>5, Sides DEF IndInv, Stored, Kept, OpenTrap, data
<1>13. Tagged'
  BY <1>4, <1>5, Sides DEF IndInv, Kinds, Tagged, Asking, Replying, Active, Session, Kept,
     NoneTaken, OpenTrap, data, hist
<1>14. QED
  BY <1>5, <1>6, <1>7, <1>8, <1>9, <1>10, <1>11, <1>12, <1>13 DEF IndInv

LEMMA FreeLinkStep ==
  ASSUME ~Preempt, IndInv, NEW t \in Thread, FreeLink(t)
  PROVE  IndInv'
<1>1. thr[t].job = "conn" /\ thr[t].at = "free" /\ thr[t].me \in Side /\ cpu = t
  BY Free DEF IndInv, ThreadTypes, Records, Turns, FreeLink, At
<1>2. Idle \in Records /\ Idle.job = "idle" /\ Idle.at = ""
  BY Sides DEF Records, Idle, Places
<1>3. thr' = [thr EXCEPT ![t] = Idle] /\ cpu' = 0
  BY DEF FreeLink
<1>4. /\ ThreadTypes' /\ thr'[t] = Idle /\ \A u \in Thread : u # t => thr'[u] = thr[u]
      /\ Kept /\ NoneTaken
  BY <1>1, <1>2, <1>3, Replaced DEF IndInv
<1>5. Kinds'
  BY <1>3, Sides DEF IndInv, Kinds, FreeLink, flags, asks, data, hist
<1>6. Turns'
  BY <1>1, <1>2, <1>3, <1>4, Free DEF IndInv, Turns
<1>7. AllAsk'
  BY Sides DEF IndInv, AllAsk, Asks, FreeLink, asks
<1>8. AllServe'
  <2>1. \A u \in Thread, y \in Side : Serves(u, y)' <=> Serves(u, y) /\ u # t
    BY <1>1, <1>2, <1>4 DEF Serves
  <2>2. UNCHANGED <<present, conn, req, connected>> /\ (link' = link \/ (link' = 0 /\ ~present[Him(thr[t].me)]))
    BY DEF FreeLink, asks, flags, LastOut
  <2>3. Serving(thr[t].me) /\ ServedBy(t, thr[t].me) /\ Serves(t, thr[t].me)
    BY <1>1 DEF IndInv, AllServe, Serving, Serves
  <2>4. ASSUME NEW y \in Side, y # thr[t].me
        PROVE  Serving(y)'
    <3>1. Serving(y) /\ y = Him(thr[t].me)
      BY <1>1, <2>4, Sides DEF IndInv, AllServe
    <3>2. \A u \in Thread : Serves(u, y) => u # t /\ thr[u].at \notin {"close", "free"} /\ present[y]
      BY <1>1, <2>4, <3>1 DEF IndInv, Turns, Serving, ServedBy, Serves
    <3>3. (\E u \in Thread : Serves(u, y)) => link' = link
      BY <2>2, <3>1, <3>2
    <3>4. QED
      BY <1>4, <2>1, <2>2, <3>1, <3>2, <3>3 DEF Serving, ServedBy
  <2>5. ASSUME NEW y \in Side, y = thr[t].me
        PROVE  Serving(y)'
    <3>1. \A u \in Thread : ~Serves(u, y)'
      BY <2>1, <2>3, <2>5 DEF Serving
    <3>2. conn'[y] = "none" /\ ~present'[y]
      BY <1>1, <2>2, <2>3, <2>5 DEF ServedBy
    <3>3. QED
      BY <3>1, <3>2 DEF Serving
  <2>6. QED
    BY <2>4, <2>5 DEF AllServe
<1>9. AllPipes'
  BY <1>4, Sides DEF IndInv, AllPipes, Pipes, Kept, FreeLink, flags, asks, data
<1>10. Single'
  BY <1>4, Sides DEF IndInv, Single, Kept
<1>11. Stored'
  BY <1>4, Sides DEF IndInv, Stored, Kept, FreeLink, data
<1>12. Tagged'
  BY <1>4, Sides DEF IndInv, Kinds, Tagged, Asking, Replying, Active, Session, Kept, NoneTaken,
     FreeLink, flags, data, hist
<1>13. QED
  BY <1>4, <1>5, <1>6, <1>7, <1>8, <1>9, <1>10, <1>11, <1>12 DEF IndInv

LEMMA JoinStartStep ==
  ASSUME ~Preempt, IndInv, NEW t \in Thread, JoinStart(t)
  PROVE  IndInv'
<1>1. PICK l \in {"read", "close"} : Go(t, l)
  BY DEF JoinStart, StayJoined
<1>2. thr[t].job = "join" /\ thr[t].at = "start" /\ UNCHANGED <<heap, flags, cpu, conn, asks, data, peer, hist>>
  BY DEF JoinStart, At
<1>3. ThreadTypes' /\ Moves(t, l) /\ Kept /\ NoneTaken
  BY <1>1, <1>2, Moved DEF IndInv, Places, JoinPlaces
<1>4. ConnKept
  BY <1>2, <1>3 DEF ConnKept, Moves, Serves
<1>5. QED
  BY <1>2, <1>3, <1>4, Sides, OnlyThreads DEF IndInv

LEMMA TickStep ==
  ASSUME IndInv, Tick
  PROVE  IndInv'
<1>1. UNCHANGED <<heap, flags, cpu, conn, asks, data, peer, hist>>
  BY DEF Tick
<1>2. thr' \in [Thread -> Records]
  BY DEF IndInv, ThreadTypes, Records, Tick
<1>3. \A u \in Thread : /\ thr'[u].job = thr[u].job /\ thr'[u].me = thr[u].me /\ thr'[u].at = thr[u].at
                        /\ thr'[u].gen = thr[u].gen /\ thr'[u].msg = thr[u].msg
  BY DEF IndInv, ThreadTypes, Records, Tick
<1>4. ThreadTypes'
  BY <1>2, <1>3 DEF IndInv, ThreadTypes, ThreadState
<1>5. \A x \in Side, u \in Thread : (Serves(u, x)' <=> Serves(u, x)) /\ (Copies(u, x)' <=> Copies(u, x))
  BY <1>3 DEF Serves, Copies
<1>6. ConnKept
  BY <1>3, <1>5 DEF ConnKept
<1>7. Kept /\ NoneTaken
  BY <1>3, <1>5 DEF Kept, NoneTaken, Joined, Connecting, Carried
<1>8. QED
  BY <1>1, <1>4, <1>6, <1>7, OnlyThreads DEF IndInv

LEMMA JoinReadStep ==
  ASSUME ~Preempt, IndInv, NEW t \in Thread, JoinRead(t)
  PROVE  IndInv'
<1>1. PICK x \in Side : x = thr[t].me
  BY DEF IndInv, ThreadTypes, Records
<1>2. thr[t].job = "join" /\ thr[t].at = "read"
  BY DEF JoinRead, At
<1>3. UNCHANGED <<heap, flags, cpu, conn, asks, rd, wr, rdBuf, peer, hist>>
  BY DEF JoinRead
<1>4. CASE wrBuf[x] = <<>>
  <2>1. Go(t, "close") /\ UNCHANGED wrBuf
    BY <1>1, <1>4 DEF JoinRead
  <2>2. ThreadTypes' /\ Moves(t, "close") /\ Kept /\ NoneTaken
    BY <1>2, <2>1, Moved DEF IndInv, Places, JoinPlaces
  <2>3. ConnKept
    BY <1>2, <2>2 DEF ConnKept, Moves, Serves
  <2>4. QED
    BY <1>3, <2>1, <2>2, <2>3, OnlyThreads DEF data
<1>5. CASE wrBuf[x] # <<>>
  <2>1. PICK m \in Msg : m = Head(wrBuf[x]) /\ m[2] \in Tags(wrBuf[x])
    BY <1>5, TagFacts DEF IndInv, Kinds
  <2>2. thr' = [thr EXCEPT ![t].at = "write", ![t].msg = m] /\ wrBuf' = [wrBuf EXCEPT ![x] = Tail(wrBuf[x])]
    BY <1>1, <1>5, <2>1 DEF JoinRead
  <2>3. thr' \in [Thread -> Records]
    BY <2>2, Updated DEF IndInv, ThreadTypes, Places
  <2>4. \A u \in Thread : /\ thr'[u].job = thr[u].job /\ thr'[u].me = thr[u].me /\ thr'[u].gen = thr[u].gen
                          /\ u # t => thr'[u] = thr[u]
                          /\ u = t => thr'[u].at = "write" /\ thr'[u].msg = m
    BY <2>2 DEF IndInv, ThreadTypes, Records
  <2>5. ThreadTypes'
    BY <1>2, <2>3, <2>4 DEF IndInv, ThreadTypes, ThreadState, JoinPlaces
  <2>6. \A y \in Side, u \in Thread : (Serves(u, y)' <=> Serves(u, y)) /\ (Copies(u, y)' <=> Copies(u, y))
    BY <2>4 DEF Serves, Copies
  <2>7. ConnKept
    BY <1>2, <2>4, <2>6 DEF ConnKept, Serves
  <2>8. Kept
    BY <1>2, <2>4, <2>6 DEF Kept, Joined, Connecting
  <2>9. wrBuf' \in [Side -> Seq(Msg)] /\ (\A y \in Side : wrBuf[y] = <<>> => wrBuf'[y] = <<>>)
        /\ \A y \in Side : Tags(wrBuf'[y]) \subseteq Tags(wrBuf[y])
    BY <1>5, <2>2, TagFacts DEF IndInv, Kinds
  <2>10. \A y \in Side : Carried(y)' \subseteq Carried(y) \cup Tags(wrBuf[y])
    BY <1>1, <2>1, <2>4 DEF Carried
  <2>11. \A y \in Side : OnWay(y)' \subseteq OnWay(y)
    BY <1>3, <2>9, <2>10 DEF OnWay
  <2>12. UNCHANGED <<link, links, present, started, connected, cpu, conn, req, rep, rd, wr, rdBuf, peer, conns, scon>>
    BY <1>3 DEF heap, flags, asks, hist
  <2>13. Kinds' /\ AllAsk'
    BY <2>9, <2>12 DEF IndInv, Kinds, AllAsk, Asks
  <2>14. Turns' /\ AllServe'
    BY <2>5, <2>7, <2>12, TurnsKept, ServeKept DEF IndInv
  <2>15. AllPipes'
    BY <2>8, <2>12, Sides DEF IndInv, AllPipes, Pipes, Kept
  <2>16. Single' /\ Stored'
    BY <2>8, <2>9, <2>12, Sides DEF IndInv, Single, Stored, Kept
  <2>17. Tagged'
    BY <2>8, <2>11, <2>12, Carries DEF IndInv, Kept
  <2>18. QED
    BY <2>5, <2>13, <2>14, <2>15, <2>16, <2>17 DEF IndInv
<1>6. QED
  BY <1>4, <1>5

LEMMA JoinWriteStep ==
  ASSUME ~Preempt, IndInv, NEW t \in Thread, JoinWrite(t)
  PROVE  IndInv'
<1>1. PICK x \in Side : x = thr[t].me
  BY DEF IndInv, ThreadTypes, Records
<1>2. thr[t].job = "join" /\ thr[t].at = "write" /\ thr[t].msg \in Msg
  BY DEF IndInv, ThreadTypes, ThreadState, JoinWrite, At
<1>3. UNCHANGED <<heap, flags, cpu, conn, asks, rd, wr, wrBuf, peer, hist>>
  BY DEF JoinWrite
<1>4. PICK y \in Side : y = Him(x) /\ Him(y) = x
  BY Sides
<1>5. PICK m \in Msg : m = thr[t].msg /\ m[2] \in Carried(x)
  BY <1>1, <1>2 DEF Carried
<1>6. PICK l \in {"read", "close"} : thr' = [thr EXCEPT ![t].at = l, ![t].msg = <<>>]
  BY DEF JoinWrite
<1>7. rdBuf' = rdBuf \/ rdBuf' = [rdBuf EXCEPT ![y] = Append(rdBuf[y], m)]
  BY <1>1, <1>4, <1>5 DEF JoinWrite
<1>8. thr' \in [Thread -> Records]
  BY <1>6, Updated DEF IndInv, ThreadTypes, Places
<1>9. \A u \in Thread : /\ thr'[u].job = thr[u].job /\ thr'[u].me = thr[u].me /\ thr'[u].gen = thr[u].gen
                        /\ u # t => thr'[u] = thr[u]
                        /\ u = t => thr'[u].at = l
  BY <1>6 DEF IndInv, ThreadTypes, Records
<1>10. ThreadTypes'
  BY <1>2, <1>8, <1>9 DEF IndInv, ThreadTypes, ThreadState, JoinPlaces
<1>11. \A z \in Side, u \in Thread : (Serves(u, z)' <=> Serves(u, z)) /\ (Copies(u, z)' <=> Copies(u, z))
  BY <1>9 DEF Serves, Copies
<1>12. ConnKept
  BY <1>2, <1>9, <1>11 DEF ConnKept, Serves
<1>13. Kept
  BY <1>2, <1>9, <1>11 DEF Kept, Joined, Connecting
<1>14. NoneTaken
  BY <1>9 DEF NoneTaken, Carried
<1>15. UNCHANGED <<link, links, present, started, connected, cpu, conn, req, rep, rd, wr, wrBuf, peer, conns, scon>>
  BY <1>3 DEF heap, flags, asks, hist
<1>16. /\ rdBuf' \in [Side -> Seq(Msg)] /\ \A z \in Side : z # y => rdBuf'[z] = rdBuf[z]
       /\ Tags(rdBuf'[y]) \subseteq Tags(rdBuf[y]) \cup {m[2]}
  <2>1. Append(rdBuf[y], m) \in Seq(Msg) /\ Tags(Append(rdBuf[y], m)) = Tags(rdBuf[y]) \cup {m[2]}
    BY TagFacts DEF IndInv, Kinds
  <2> DEFINE a == Append(rdBuf[y], m)
  <2>2. a \in Seq(Msg) /\ Tags(a) = Tags(rdBuf[y]) \cup {m[2]} /\ (rdBuf' = rdBuf \/ rdBuf' = [rdBuf EXCEPT ![y] = a])
    BY <1>7, <2>1
  <2> HIDE DEF a
  <2>3. QED
    BY <2>2 DEF IndInv, Kinds
<1>17. \A z \in Side : OnWay(z)' \subseteq OnWay(z)
  BY <1>4, <1>5, <1>14, <1>15, <1>16, Sides DEF OnWay, NoneTaken
<1>18. Kinds' /\ AllAsk'
  BY <1>15, <1>16 DEF IndInv, Kinds, AllAsk, Asks
<1>19. Turns' /\ AllServe'
  BY <1>10, <1>12, <1>15, TurnsKept, ServeKept DEF IndInv
<1>20. AllPipes'
  BY <1>13, <1>15, Sides DEF IndInv, AllPipes, Pipes, Kept
<1>21. Single' /\ Stored'
  <2>1. Joined(x)
    BY <1>1, <1>2 DEF Joined, Copies
  <2>2. QED
    BY <1>4, <1>13, <1>15, <1>16, <2>1, Sides DEF IndInv, Single, Stored, Kept
<1>22. Tagged'
  BY <1>13, <1>15, <1>17, Carries DEF IndInv, Kept
<1>23. QED
  BY <1>10, <1>18, <1>19, <1>20, <1>21, <1>22 DEF IndInv

LEMMA JoinCloseStep ==
  ASSUME ~Preempt, IndInv, NEW t \in Thread, JoinClose(t)
  PROVE  IndInv'
<1>1. PICK x \in Side : x = thr[t].me
  BY DEF IndInv, ThreadTypes, Records
<1>2. PICK y \in Side : y = Him(x) /\ Him(y) = x /\ y # x /\ \A z \in Side : z = x \/ z = y
  BY Sides
<1>3. thr[t].job = "join" /\ thr[t].at = "close" /\ Copies(t, x)
  BY <1>1 DEF JoinClose, At, Copies
<1>4. /\ wr' = [wr EXCEPT ![x] = "none"] /\ wrBuf' = [wrBuf EXCEPT ![x] = <<>>]
      /\ rd' = [rd EXCEPT ![y] = "none"] /\ rdBuf' = [rdBuf EXCEPT ![y] = <<>>]
      /\ connected' = [connected EXCEPT ![x] = FALSE] /\ started' = [started EXCEPT ![x] = FALSE]
      /\ thr' = [thr EXCEPT ![t] = Idle]
  BY <1>1, <1>2 DEF JoinClose, Cleared
<1>5. UNCHANGED <<link, links, present, cpu, conn, req, rep, peer, conns, scon>>
  BY DEF JoinClose, heap, asks, hist
<1>6. Idle \in Records /\ Idle.job = "idle" /\ Idle.at = ""
  BY Sides DEF Records, Idle, Places
<1>7. thr' \in [Thread -> Records] /\ thr'[t] = Idle /\ \A u \in Thread : u # t => thr'[u] = thr[u]
  BY <1>4, <1>6 DEF IndInv, ThreadTypes
<1>8. ThreadTypes'
  BY <1>6, <1>7 DEF IndInv, ThreadTypes, ThreadState
<1>9. ConnKept
  BY <1>3, <1>6, <1>7 DEF ConnKept, Serves
<1>10. \A z \in Side, u \in Thread : Copies(u, z)' <=> Copies(u, z) /\ u # t
  BY <1>6, <1>7 DEF Copies
<1>11. Joined(x) /\ ~Joined(x)' /\ (Joined(y)' <=> Joined(y))
  <2>1. Joined(x) /\ ~Joined(x)'
    BY <1>3, <1>10 DEF IndInv, Single, Joined
  <2>2. ~Copies(t, y)
    BY <1>2, <1>3 DEF Copies
  <2>3. QED
    BY <1>10, <2>1, <2>2 DEF Joined
<1>12. \A z \in Side : Connecting(z) => Connecting(z)'
  BY <1>9 DEF Connecting, ConnKept
<1>13. req[x] # "end" /\ req[y] # "end" /\ ~Connecting(x) /\ peer[y] # "openWrite" /\ (connected[y] => Joined(y))
  <2>1. req[x] # "end" /\ req[y] # "end" /\ peer[y] # "openWrite" /\ (connected[y] => Joined(y))
    BY <1>2, <1>11 DEF IndInv, AllPipes, Pipes
  <2>2. ~Connecting(x)
    BY <2>1 DEF IndInv, AllServe, Serving, ServedBy, Connecting
  <2>3. QED
    BY <2>1, <2>2
<1>14. Kinds'
  <2>1. wr' \in [Side -> PipeState] /\ rd' \in [Side -> PipeState]
    BY <1>4 DEF IndInv, Kinds, PipeState
  <2>2. wrBuf' \in [Side -> Seq(Msg)] /\ rdBuf' \in [Side -> Seq(Msg)]
    <3>1. <<>> \in Seq(Msg)
      OBVIOUS
    <3>2. QED
      BY <1>4, <3>1 DEF IndInv, Kinds
  <2>3. connected' \in [Side -> BOOLEAN] /\ started' \in [Side -> BOOLEAN]
    BY <1>4 DEF IndInv, Kinds
  <2>4. QED
    BY <1>5, <2>1, <2>2, <2>3 DEF IndInv, Kinds
<1>15. AllAsk'
  BY <1>5 DEF IndInv, AllAsk, Asks
<1>16. Turns'
  BY <1>5, <1>8, <1>9, TurnsKept DEF IndInv
<1>17. AllServe'
  BY <1>4, <1>5, <1>9, <1>13, ServeKept DEF IndInv, Kinds
<1>18. AllPipes'
  <2>1. Pipes(x) /\ Pipes(y)
    BY DEF IndInv, AllPipes
  <2>2. /\ ~connected'[x] /\ connected'[y] = connected[y] /\ wr'[x] = "none" /\ wr'[y] = wr[y]
        /\ rd'[x] = rd[x] /\ rd'[y] = "none"
    BY <1>2, <1>4 DEF IndInv, Kinds
  <2>3. Pipes(x)'
    BY <1>2, <1>5, <1>11, <1>13, <2>1, <2>2 DEF Pipes
  <2>4. Pipes(y)'
    BY <1>2, <1>5, <1>11, <1>13, <2>1, <2>2 DEF Pipes
  <2>5. QED
    BY <1>2, <2>3, <2>4 DEF AllPipes
<1>19. Single'
  BY <1>10 DEF IndInv, Single
<1>20. Stored'
  BY <1>2, <1>4, <1>11, Sides DEF IndInv, Kinds, Stored
<1>21. \A z \in Side : OnWay(z)' \subseteq OnWay(z)
  <2>1. \A z \in Side : Carried(z)' \subseteq Carried(z)
    BY <1>6, <1>7 DEF Carried
  <2>2. \A z \in Side : Tags(wrBuf'[z]) \subseteq Tags(wrBuf[z]) /\ Tags(rdBuf'[z]) \subseteq Tags(rdBuf[z])
    BY <1>4, TagFacts DEF IndInv, Kinds
  <2>3. QED
    BY <2>1, <2>2, Sides DEF OnWay
<1>22. Tagged'
  <2>1. \A z \in Side : connected'[z] => connected[z] /\ (Joined(z) => Joined(z)')
    BY <1>2, <1>4, <1>11 DEF IndInv, Kinds
  <2>2. \A z \in Side : Joined(z)' => Joined(z)
    BY <1>2, <1>11
  <2>3. QED
    BY <1>5, <1>21, <2>1, <2>2, Carries DEF IndInv
<1>23. QED
  BY <1>8, <1>14, <1>15, <1>16, <1>17, <1>18, <1>19, <1>20, <1>22 DEF IndInv

\* StartJoinPipe starts a thread for each direction, and its caller sleeps.
StartsPair(t, u1, u2, r1, r2, s) ==
  /\ thr[u1].job = "idle" /\ thr[u2].job = "idle" /\ u1 # u2 /\ t # u1 /\ t # u2
  /\ r1.job = "join" /\ r1.me = "serv" /\ r1.at = "start" /\ r1.gen = link /\ r1.timer = 0
  /\ r2.job = "join" /\ r2.me = "trap" /\ r2.at = "start" /\ r2.gen = link /\ r2.timer = 0
  /\ s.job = thr[t].job /\ s.me = thr[t].me /\ s.gen = thr[t].gen /\ s.at = "sleep" /\ s.timer = 1
  /\ thr' \in [Thread -> Records] /\ thr'[t] = s /\ thr'[u1] = r1 /\ thr'[u2] = r2
  /\ \A u \in Thread : u \notin {t, u1, u2} => thr'[u] = thr[u]

LEMMA Paired ==
  ASSUME IndInv, NEW t \in Thread, StartJoin(t), BothConnected(thr[t].me)
  PROVE  \E u1, u2 \in Thread, r1, r2, s \in Records : StartsPair(t, u1, u2, r1, r2, s)
<1>1. thr[t].job = "conn"
  BY DEF StartJoin, At
<1>2. PICK r1 \in Records : /\ r1 = Started("join", "serv")
                            /\ r1.job = "join" /\ r1.me = "serv" /\ r1.at = "start" /\ r1.gen = link /\ r1.timer = 0
  BY Fresh, Sides DEF IndInv
<1>3. PICK r2 \in Records : /\ r2 = Started("join", "trap")
                            /\ r2.job = "join" /\ r2.me = "trap" /\ r2.at = "start" /\ r2.gen = link /\ r2.timer = 0
  BY Fresh, Sides DEF IndInv
<1>4. PICK u1 \in Thread, u2 \in Thread :
        /\ thr[u1].job = "idle" /\ thr[u2].job = "idle" /\ u1 # u2
        /\ thr' = [thr EXCEPT ![t].at = "sleep", ![t].timer = 1, ![u1] = r1, ![u2] = r2]
  <2>1. Cardinality(IdleThreads) >= 2
    BY DEF StartJoin, BothConnected
  <2>2. PICK u1 \in IdleThreads, u2 \in IdleThreads :
          u1 = Min(IdleThreads) /\ u2 = Min(IdleThreads \ {u1}) /\ u1 # u2
    BY <2>1, Free
  <2>3. thr' = [thr EXCEPT ![t].at = "sleep", ![t].timer = 1, ![u1] = r1, ![u2] = r2]
    BY <1>2, <1>3, <2>2 DEF StartJoin, BothConnected
  <2>4. QED
    BY <2>2, <2>3 DEF IdleThreads
<1>5. t # u1 /\ t # u2
  BY <1>1, <1>4
<1>6. PICK s \in Records : /\ s = [thr[t] EXCEPT !.at = "sleep", !.timer = 1]
                           /\ s.job = thr[t].job /\ s.me = thr[t].me /\ s.gen = thr[t].gen
                           /\ s.at = "sleep" /\ s.timer = 1
  <2>1. \A r \in Records : [r EXCEPT !.at = "sleep", !.timer = 1] \in
          [job : {r.job}, me : {r.me}, at : {"sleep"}, timer : {1}, gen : {r.gen}, msg : {r.msg}]
    BY DEF Records
  <2>2. thr[t] \in Records
    BY DEF IndInv, ThreadTypes
  <2>3. QED
    BY <2>1, <2>2 DEF Records, Places
<1>7. /\ thr' \in [Thread -> Records] /\ thr'[t] = s /\ thr'[u1] = r1 /\ thr'[u2] = r2
      /\ \A u \in Thread : u \notin {t, u1, u2} => thr'[u] = thr[u]
  BY <1>4, <1>5, <1>6 DEF IndInv, ThreadTypes
<1>8. StartsPair(t, u1, u2, r1, r2, s)
  BY <1>2, <1>3, <1>4, <1>5, <1>6, <1>7 DEF StartsPair
<1>9. QED
  BY <1>8

LEMMA StartJoinStep ==
  ASSUME ~Preempt, IndInv, NEW t \in Thread, StartJoin(t)
  PROVE  IndInv'
<1>1. PICK x \in Side : x = thr[t].me
  BY DEF IndInv, ThreadTypes, Records
<1>2. PICK y \in Side : y = Him(x) /\ Him(y) = x /\ y # x /\ \A z \in Side : z = x \/ z = y
  BY Sides
<1>3. thr[t].job = "conn" /\ thr[t].at = "join" /\ Serves(t, x)
  BY <1>1 DEF StartJoin, At, Serves
<1>4. Serving(x) /\ ServedBy(t, x)
  BY <1>3 DEF IndInv, AllServe, Serving
<1>5. /\ req' = [req EXCEPT ![x] = "none"] /\ rep' = [rep EXCEPT ![x] = IF conn[x] = "open" THEN "ack" ELSE "none"]
      /\ cpu' = 0
      /\ UNCHANGED <<link, links, present, started, connected, conn, rd, wr, rdBuf, wrBuf, peer, conns, scon>>
  BY <1>1 DEF StartJoin, Answer, heap, flags, data, hist
<1>6. /\ req[x] = "end" /\ connected[x] /\ peer[x] \in {"ending", "off"} /\ ~Joined(x) /\ ~Joined(y)
      /\ wr[x] \in Held /\ rd[x] \in Held /\ (conn[x] = "open" => peer[x] = "ending")
  <2>1. req[x] = "end" /\ connected[x]
    BY <1>3, <1>4 DEF ServedBy
  <2>2. peer[x] \in {"ending", "off"} /\ (conn[x] = "open" => peer[x] # "off")
    BY <2>1 DEF IndInv, AllAsk, Asks
  <2>3. wr[x] \in Held /\ rd[x] \in Held /\ ~Joined(x) /\ ~Joined(y)
    BY <1>2, <2>1 DEF IndInv, AllPipes, Pipes
  <2>4. QED
    BY <2>1, <2>2, <2>3
<1>7. \A u \in Thread : thr[u].job = "conn" /\ thr[u].at = "join" => u = t
  BY <1>3 DEF IndInv, Turns
<1>8. connected[y] => req[y] # "end"
  <2>1. ~Connecting(y)
    BY <1>1, <1>2, <1>7 DEF Connecting, Serves
  <2>2. QED
    BY <2>1 DEF IndInv, AllPipes, Pipes
\* What becomes of the threads, in either case.
<1> DEFINE Threads2 ==
      /\ ThreadTypes'
      /\ \A u \in Thread, z \in Side : Serves(u, z)' <=> Serves(u, z)
      /\ \A u \in Thread : thr[u].job = "conn" => /\ thr'[u].gen = thr[u].gen
                                                 /\ thr'[u].at = IF u = t THEN "sleep" ELSE thr[u].at
      /\ \A u \in Thread : thr[u].job # "conn" => thr'[u].job # "conn"
      /\ NoneTaken /\ Single'
      /\ \/ connected[y] /\ \A z \in Side : Joined(z)'
         \/ ~connected[y] /\ \A z \in Side : ~Joined(z)'
<1>9. Threads2
  <2>1. CASE ~connected[y]
    <3>1. Sleep(t, "sleep")
      BY <1>1, <1>2, <2>1 DEF StartJoin, BothConnected
    <3>2. thr' \in [Thread -> Records]
      BY <3>1, Updated DEF IndInv, ThreadTypes, Places, Sleep
    <3>3. \A u \in Thread : /\ thr'[u].job = thr[u].job /\ thr'[u].me = thr[u].me /\ thr'[u].gen = thr[u].gen
                            /\ u # t => thr'[u] = thr[u]
                            /\ thr'[u].at = IF u = t THEN "sleep" ELSE thr[u].at
                            /\ thr'[u].msg = thr[u].msg
      BY <3>1 DEF IndInv, ThreadTypes, Records, Sleep
    <3>4. ThreadTypes'
      BY <1>3, <3>2, <3>3 DEF IndInv, ThreadTypes, ThreadState, ConnPlaces
    <3>5. \A u \in Thread, z \in Side : (Serves(u, z)' <=> Serves(u, z)) /\ (Copies(u, z)' <=> Copies(u, z))
      BY <3>3 DEF Serves, Copies
    <3>6. Single' /\ \A z \in Side : ~Joined(z)'
      BY <1>2, <1>6, <3>5 DEF IndInv, Single, Joined
    <3>7. NoneTaken
      BY <3>3 DEF NoneTaken, Carried
    <3>8. QED
      BY <2>1, <3>3, <3>4, <3>5, <3>6, <3>7
  <2>2. CASE connected[y]
    <3>0. BothConnected(thr[t].me)
      BY <1>1, <1>2, <2>2 DEF BothConnected
    <3>1. PICK u1 \in Thread, u2 \in Thread, r1 \in Records, r2 \in Records, s \in Records :
            StartsPair(t, u1, u2, r1, r2, s)
      BY <3>0, Paired
    <3>2. ThreadTypes'
      <4>1. ThreadState(t)' /\ ThreadState(u1)' /\ ThreadState(u2)'
        BY <1>3, <3>1 DEF ThreadState, ConnPlaces, JoinPlaces, StartsPair
      <4>2. \A u \in Thread : u \notin {t, u1, u2} => ThreadState(u)'
        BY <3>1 DEF IndInv, ThreadTypes, ThreadState, StartsPair
      <4>3. QED
        BY <3>1, <4>1, <4>2 DEF ThreadTypes, StartsPair
    <3>3. \A u \in Thread, z \in Side : Serves(u, z)' <=> Serves(u, z)
      <4>1. SUFFICES ASSUME NEW u \in Thread, NEW z \in Side
                     PROVE  Serves(u, z)' <=> Serves(u, z)
        OBVIOUS
      <4>2. CASE u = t
        BY <3>1, <4>2 DEF Serves, StartsPair
      <4>3. CASE u = u1 \/ u = u2
        BY <3>1, <4>3 DEF Serves, StartsPair
      <4>4. CASE u \notin {t, u1, u2}
        BY <3>1, <4>4 DEF Serves, StartsPair
      <4>5. QED
        BY <4>2, <4>3, <4>4
    <3>4. \A u \in Thread, z \in Side :
            Copies(u, z)' <=> ((u = u1 /\ z = "serv") \/ (u = u2 /\ z = "trap"))
      <4>1. \A u \in Thread, z \in Side : ~Copies(u, z)
        BY <1>2, <1>6 DEF Joined
      <4>2. SUFFICES ASSUME NEW u \in Thread, NEW z \in Side
                     PROVE  Copies(u, z)' <=> ((u = u1 /\ z = "serv") \/ (u = u2 /\ z = "trap"))
        OBVIOUS
      <4>3. CASE u = u1
        BY <3>1, <4>3 DEF Copies, StartsPair
      <4>4. CASE u = u2
        BY <3>1, <4>4 DEF Copies, StartsPair
      <4>5. CASE u = t
        BY <1>3, <3>1, <4>5 DEF Copies, StartsPair
      <4>6. CASE u \notin {t, u1, u2}
        BY <3>1, <4>1, <4>6 DEF Copies, StartsPair
      <4>7. QED
        BY <4>3, <4>4, <4>5, <4>6
    <3>5. Single' /\ \A z \in Side : Joined(z)'
      BY <3>4, Sides DEF Single, Joined
    <3>6. NoneTaken
      <4>1. \A u \in Thread : thr'[u].at = "write" => u \notin {t, u1, u2}
        BY <3>1 DEF StartsPair
      <4>2. \A u \in Thread : thr'[u].at = "write" => thr'[u] = thr[u]
        BY <3>1, <4>1 DEF StartsPair
      <4>3. QED
        BY <4>2 DEF NoneTaken, Carried
    <3>7. \A u \in Thread : thr[u].job = "conn" => /\ thr'[u].gen = thr[u].gen
                                                    /\ thr'[u].at = IF u = t THEN "sleep" ELSE thr[u].at
      <4>1. SUFFICES ASSUME NEW u \in Thread, thr[u].job = "conn"
                     PROVE  /\ thr'[u].gen = thr[u].gen
                            /\ thr'[u].at = IF u = t THEN "sleep" ELSE thr[u].at
        OBVIOUS
      <4>2. u # u1 /\ u # u2
        BY <3>1, <4>1 DEF StartsPair
      <4>3. QED
        BY <3>1, <4>2 DEF StartsPair
    <3>8. \A u \in Thread : thr[u].job # "conn" => thr'[u].job # "conn"
      BY <1>3, <3>1 DEF StartsPair
    <3>9. QED
      BY <2>2, <3>2, <3>3, <3>5, <3>6, <3>7, <3>8
  <2>3. QED
    BY <2>1, <2>2
<1>10. Kinds'
  BY <1>5, Free DEF IndInv, Kinds
<1>11. Turns'
  BY <1>3, <1>5, <1>7, <1>9, Free DEF IndInv, Turns
<1>12. AllAsk'
  BY <1>5, <1>6 DEF IndInv, Kinds, AllAsk, Asks
<1>13. AllServe'
  <2>1. ASSUME NEW z \in Side
        PROVE  Serving(z)'
    <3>1. Serving(z) /\ (z # x => req'[z] = req[z])
      BY <1>5 DEF IndInv, AllServe, Kinds
    <3>2. ASSUME NEW u \in Thread, Serves(u, z)
          PROVE  ServedBy(u, z)'
      <4>1. ServedBy(u, z) /\ thr[u].job = "conn"
        BY <3>1, <3>2 DEF Serving, Serves
      <4>2. CASE u = t
        BY <1>3, <1>5, <1>9, <4>1, <4>2 DEF ServedBy
      <4>3. CASE u # t
        <5>1. z # x
          BY <1>3, <1>4, <3>2, <4>3 DEF Serving
        <5>2. QED
          BY <1>5, <1>9, <3>1, <4>1, <4>3, <5>1 DEF ServedBy
      <4>4. QED
        BY <4>2, <4>3
    <3>3. QED
      BY <1>5, <1>9, <3>1, <3>2 DEF Serving
  <2>2. QED
    BY <2>1 DEF AllServe
<1>14. AllPipes'
  <2>1. Pipes(x) /\ Pipes(y)
    BY DEF IndInv, AllPipes
  <2>2. req'[x] = "none" /\ req'[y] = req[y]
    BY <1>2, <1>5 DEF IndInv, Kinds
  <2>3. CASE connected[y]
    <3>1. Joined(x)' /\ Joined(y)'
      BY <1>9, <2>3
    <3>2. Pipes(x)'
      BY <1>2, <1>5, <1>6, <2>1, <2>2, <2>3, <3>1 DEF Pipes
    <3>3. Pipes(y)'
      BY <1>2, <1>5, <1>6, <1>8, <2>1, <2>2, <2>3, <3>1 DEF Pipes
    <3>4. QED
      BY <1>2, <3>2, <3>3 DEF AllPipes
  <2>4. CASE ~connected[y]
    <3>1. ~Joined(x)' /\ ~Joined(y)'
      BY <1>9, <2>4
    <3>2. Pipes(x)'
      BY <1>2, <1>5, <1>6, <2>1, <2>2, <2>4, <3>1 DEF Pipes
    <3>3. Pipes(y)'
      BY <1>2, <1>5, <1>6, <2>1, <2>2, <2>4, <3>1 DEF Pipes
    <3>4. QED
      BY <1>2, <3>2, <3>3 DEF AllPipes
  <2>5. QED
    BY <2>3, <2>4
<1>15. Stored'
  <2>1. (\A z \in Side : Joined(z)') \/ (\A z \in Side : (Joined(z) <=> Joined(z)'))
    BY <1>2, <1>6, <1>9
  <2>2. QED
    BY <1>5, <2>1, Sides DEF IndInv, Stored
<1>16. Tagged'
  <2>1. Asking' \subseteq Asking /\ Replying' \subseteq Replying
    BY <1>5, <1>9, Sides DEF Asking, Replying, NoneTaken
  <2>2. connected["serv"] /\ connected["trap"] => ~Session
    BY <1>2, <1>6, Sides DEF IndInv, Tagged, Session
  <2>3. CASE connected[y]
    <3>1. ~Session'
      BY <1>2, <1>5, <1>6, <2>2, <2>3, Sides DEF Session
    <3>2. QED
      BY <1>5, <2>1, <3>1 DEF IndInv, Tagged, Active
  <2>4. CASE ~connected[y]
    <3>1. \A z \in Side : (Joined(z) <=> Joined(z)')
      BY <1>2, <1>6, <1>9, <2>4
    <3>2. QED
      BY <1>5, <2>1, <3>1, Sides DEF IndInv, Tagged, Active, Session
  <2>5. QED
    BY <2>3, <2>4
<1>17. QED
  BY <1>9, <1>10, <1>11, <1>12, <1>13, <1>14, <1>15, <1>16 DEF IndInv

(***************************************************************************)
(* The invariant holds                                                     *)
(***************************************************************************)
LEMMA InitInv == Init => IndInv
<1> SUFFICES ASSUME Init
             PROVE  IndInv
  OBVIOUS
<1>1. Idle \in Records /\ Idle.job = "idle" /\ Idle.at = ""
  BY Sides DEF Idle, Records, Places
<1>2. \A t \in Thread : thr[t] = Idle
  BY DEF Init
<1>3. Kinds
  <2>1. 0 \in 0 .. 0 /\ 0 \in 0 .. MaxLinks
    BY PipeBinderAssumption
  <2>2. /\ "none" \in PipeState /\ "none" \in {"none", "connect", "end", "disco"} /\ "off" \in Peers
        /\ "none" \in {"none", "ack", "nack"} /\ <<>> \in Seq(Msg)
    BY DEF PipeState, Peers
  <2>3. QED
    BY <2>1, <2>2 DEF Init, Kinds
<1>4. ThreadTypes
  BY <1>1, <1>2 DEF Init, ThreadTypes, ThreadState
<1>5. \A t \in Thread, x \in Side : ~Serves(t, x) /\ ~Copies(t, x)
  BY <1>1, <1>2 DEF Serves, Copies
<1>6. \A x \in Side : ~Joined(x) /\ Carried(x) = {}
  BY <1>1, <1>2, <1>5 DEF Joined, Carried
<1>7. Turns /\ AllAsk /\ AllServe
  <2>1. Turns
    BY <1>1, <1>2, Free DEF Init, Turns
  <2>2. AllAsk
    BY DEF Init, AllAsk, Asks
  <2>3. AllServe
    BY <1>5 DEF Init, AllServe, Serving
  <2>4. QED
    BY <2>1, <2>2, <2>3
<1>8. AllPipes /\ Single
  <2>1. AllPipes
    BY <1>6, Sides DEF Init, AllPipes, Pipes, Held
  <2>2. Single
    BY <1>5 DEF Single
  <2>3. QED
    BY <2>1, <2>2
<1>9. Stored
  BY Sides DEF Init, Stored
<1>10. Tagged
  <2>1. Asking = {} /\ Replying = {}
    BY <1>6, Sides, TagFacts DEF Init, Asking, Replying
  <2>2. ~Active /\ ~Session
    BY Sides DEF Init, Active, Session
  <2>3. QED
    BY <2>1, <2>2 DEF Tagged
<1>11. QED
  BY <1>3, <1>4, <1>7, <1>8, <1>9, <1>10 DEF IndInv

LEMMA NextInv ==
  ASSUME ~Preempt, IndInv, [Next]_vars
  PROVE  IndInv'
<1>1. ASSUME NEW t \in Thread, Threads(t)
      PROVE  IndInv'
  <2>1. CASE \/ Awaited(t) \/ Wake(t) \/ ConnectServ(t) \/ ConnectTrap(t) \/ EndConnect(t) \/ StartJoin(t)
             \/ Disco(t) \/ DiscoAck(t)
    BY <2>1, AwaitedStep, WakeStep, ConnectServStep, ConnectTrapStep, EndConnectStep, StartJoinStep,
       DiscoStep, DiscoAckStep
  <2>2. CASE Gone(t) \/ CloseConn(t) \/ FreeLink(t)
    BY <2>2, GoneStep, CloseConnStep, FreeLinkStep
  <2>3. CASE JoinStart(t) \/ JoinRead(t) \/ JoinWrite(t) \/ JoinClose(t)
    BY <2>3, JoinStartStep, JoinReadStep, JoinWriteStep, JoinCloseStep
  <2>4. QED
    BY <1>1, <2>1, <2>2, <2>3 DEF Threads
<1>2. ASSUME NEW x \in Side, Program(x)
      PROVE  IndInv'
  <2>1. CASE LinkOpen(x) \/ Asked(x) \/ OpenRead(x) \/ OpenWrite(x) \/ Ended(x) \/ Lost(x) \/ Discoed(x)
    BY <2>1, LinkOpenStep, AskedStep, OpenReadStep, OpenWriteStep, EndedStep, LostStep, DiscoedStep
  <2>2. CASE Connect(x) \/ Serve \/ Replied
    BY <2>2, ConnectStep, ServeStep, RepliedStep
  <2>3. QED
    BY <1>2, <2>1, <2>2 DEF Program
<1>3. ASSUME User
      PROVE  IndInv'
  <2>1. CASE OpenServ \/ OpenTrap \/ Ask \/ Bye
    BY <2>1, OpenServStep, OpenTrapStep, AskStep, ByeStep
  <2>2. CASE \E x \in Side : Connect(x) \/ UnLink(x) \/ Kill(x)
    BY <2>2, ConnectStep, UnLinkStep, KillStep
  <2>3. QED
    BY <1>3, <2>1, <2>2, Sides DEF User
<1>4. CASE Tick
  BY <1>4, TickStep
<1>5. CASE UNCHANGED vars
  <2>1. UNCHANGED <<heap, flags, cpu, conn, asks, data, peer, hist, thr>>
    BY <1>5 DEF vars
  <2>2. ThreadTypes' /\ Kept /\ NoneTaken
    BY <2>1, Still DEF IndInv
  <2>3. ConnKept
    BY <2>1 DEF ConnKept, Serves
  <2>4. QED
    BY <2>1, <2>2, <2>3, OnlyThreads
<1>6. QED
  BY <1>1, <1>2, <1>3, <1>4, <1>5 DEF Next

LEMMA Holds == ASSUME ~Preempt PROVE Spec => []IndInv
<1>1. Init => IndInv
  BY InitInv
<1>2. IndInv /\ [Next]_vars => IndInv'
  BY NextInv
<1>3. QED
  BY <1>1, <1>2, PTL DEF Spec

\* The types, and on one processor a link that was freed has nobody present and no
\* thread between its last accesses of it: FreeLink, which looks at the other end's
\* flag only (nmpbind.c:268-271), is the last that an end does.
THEOREM PipeTypeCorrect == ASSUME ~Preempt PROVE Spec => []TypeOK
<1>1. IndInv => TypeOK
  <2> SUFFICES ASSUME IndInv
               PROVE  TypeOK
    OBVIOUS
  <2>1. \A t \in Thread : thr[t].job \in {"idle", "conn", "join"} /\ thr[t].timer \in 0 .. 1
    BY DEF IndInv, ThreadTypes, Records
  <2>2. ASSUME link = 0
        PROVE  cpu = 0 /\ \A x \in Side : ~present[x]
    <3>1. \A t \in Thread, x \in Side : ~Serves(t, x)
      BY <2>2 DEF IndInv, AllServe, Serving, ServedBy
    <3>2. \A x \in Side : ~present[x]
      BY <3>1 DEF IndInv, AllServe, Serving
    <3>3. \A t \in Thread : thr[t].job # "conn"
      BY <3>1 DEF IndInv, ThreadTypes, Records, Serves
    <3>4. cpu = 0
      BY <3>3 DEF IndInv, Kinds, Turns
    <3>5. QED
      BY <3>2, <3>4
  <2>3. QED
    BY <2>1, <2>2 DEF IndInv, Kinds, TypeOK
<1>2. QED
  BY <1>1, Holds, PTL

\* On one processor the two ConnectThreads, whatever flags an earlier connection
\* left, never start a second pair of JoinPipeThreads beside one that still copies,
\* for any number of threads, links, connections and killed programs, and however
\* late a thread that slept goes on (nmpbind.c:221-225).
THEOREM OnePairCorrect == ASSUME ~Preempt PROVE Spec => []OnePair
<1>1. IndInv => OnePair
  <2> SUFFICES ASSUME IndInv, NEW x \in Side
               PROVE  Cardinality(Joins(x)) <= 1
    BY DEF OnePair
  <2>1. \A t, u \in Joins(x) : t = u
    BY DEF IndInv, Single, Copies, Joins
  <2>2. CASE Joins(x) = {}
    BY <2>2, FS_EmptySet
  <2>3. CASE Joins(x) # {}
    <3>1. PICK t : t \in Joins(x)
      BY <2>3
    <3>2. Joins(x) = {t}
      BY <2>1, <3>1
    <3>3. Cardinality({t}) = 1
      BY FS_Singleton
    <3>4. QED
      BY <3>2, <3>3
  <2>4. QED
    BY <2>2, <2>3
<1>2. QED
  BY <1>1, Holds, PTL

\* On one processor a debugger reads replies to its own requests only, and Session
\* of the server sees the requests of one connection: what a connection left in the
\* pipes is gone, or unread for ever, when the next uses them (nmpbind.c:175-176, 78-80).
THEOREM IsolationCorrect == ASSUME ~Preempt PROVE Spec => []Isolation
<1>1. IndInv => Isolation
  <2> SUFFICES ASSUME IndInv
               PROVE  Isolation
    OBVIOUS
  <2>1. ASSUME peer["serv"] = "up", scon # 0, NEW i \in DOMAIN rdBuf["serv"]
        PROVE  rdBuf["serv"][i][2] = scon
    <3>1. rdBuf["serv"] # <<>>
      BY <2>1
    <3>2. Joined("trap")
      BY <3>1, Sides DEF IndInv, Stored
    <3>3. rdBuf["serv"][i][2] \in Asking
      BY <2>1 DEF Asking, Tags
    <3>4. QED
      BY <2>1, <3>2, <3>3 DEF IndInv, Tagged, Session
  <2>2. ASSUME peer["trap"] = "wait", NEW i \in DOMAIN rdBuf["trap"]
        PROVE  rdBuf["trap"][i][2] = conns
    <3>1. rdBuf["trap"][i][2] \in Replying
      BY <2>2 DEF Replying, Tags
    <3>2. QED
      BY <2>2, <3>1 DEF IndInv, Tagged, Active
  <2>3. QED
    BY <2>1, <2>2 DEF Isolation
<1>2. QED
  BY <1>1, Holds, PTL

(***************************************************************************)
(* No use of a link that was freed                                         *)
(***************************************************************************)
\* A step of one thread, which does not start to copy, and did not sleep.
LEMMA OneStep ==
  ASSUME Used, UNCHANGED link, NEW t \in Thread, \A u \in Thread : u # t => thr'[u] = thr[u],
         ~(thr[t].job = "conn" /\ thr[t].at = "sleep" /\ thr[t].timer = 1),
         thr'[t].job = "join" => thr[t].job = "join" /\ thr'[t].gen = thr[t].gen /\ thr'[t].at # "start"
  PROVE  Used'
<1>1. Asleep => Asleep'
  BY DEF Asleep
<1>2. QED
  BY <1>1 DEF Used

\* When nobody is present any more, and no thread that copies can go on, there is none:
\* one that is in a DosRead has a program at the other end, which keeps the other
\* ConnectThread; one that was just started has a ConnectThread that sleeps.
LEMMA NobodyCopies ==
  ASSUME IndInv, Used, \A x \in Side : ~present[x], \A t \in Thread : ~JoinReady(t)
  PROVE  \A t \in Thread : thr[t].job # "join"
<1>1. \A t \in Thread, x \in Side : Serves(t, x) => thr[t].at \in {"close", "free"} /\ conn[x] \in {"eof", "none"}
  <2> SUFFICES ASSUME NEW t \in Thread, NEW x \in Side, Serves(t, x)
               PROVE  thr[t].at \in {"close", "free"} /\ conn[x] \in {"eof", "none"}
    OBVIOUS
  <2>1. ServedBy(t, x)
    BY DEF IndInv, AllServe, Serving
  <2>2. QED
    BY <2>1 DEF ServedBy
<1>2. ~Asleep
  BY <1>1 DEF Asleep, IndInv, ThreadTypes, Records, Serves
<1>3. \A x \in Side : conn[x] # "open"
  BY <1>1 DEF IndInv, AllServe, Serving
<1>4. \A x \in Side : wr[x] # "open"
  BY <1>3 DEF IndInv, AllAsk, Asks, AllPipes, Pipes
<1>5. ASSUME NEW t \in Thread, thr[t].job = "join"
      PROVE  FALSE
  <2>1. thr[t].at \in JoinPlaces /\ thr[t].me \in Side
    BY <1>5 DEF IndInv, ThreadTypes, ThreadState, Records
  <2>2. CASE thr[t].at = "start"
    BY <1>2, <1>5, <2>2 DEF Used
  <2>3. CASE thr[t].at # "start"
    BY <1>4, <1>5, <2>1, <2>3 DEF JoinPlaces, JoinReady, Readable
  <2>4. QED
    BY <2>2, <2>3
<1>6. QED
  BY <1>5

LEMMA UsedFree ==
  ASSUME ~Preempt, IndInv, Used, NEW t \in Thread, FreeLink(t)
  PROVE  Used'
<1>1. PICK x \in Side : x = thr[t].me
  BY DEF IndInv, ThreadTypes, Records
<1>2. thr[t].job = "conn" /\ thr[t].at = "free" /\ Serves(t, x)
  BY <1>1 DEF FreeLink, At, Serves
<1>3. \A u \in Thread : ~JoinReady(u)
  BY <1>2 DEF FreeLink, Turn, JoinReady
<1>4. ~present[x]
  BY <1>2 DEF IndInv, AllServe, Serving, ServedBy
<1>5. thr'[t].job = "idle" /\ \A u \in Thread : u # t => thr'[u] = thr[u]
  BY DEF IndInv, ThreadTypes, FreeLink, Idle
<1>6. CASE present[Him(x)]
  <2>1. UNCHANGED link
    BY <1>1, <1>6 DEF FreeLink, LastOut
  <2>2. QED
    BY <1>2, <1>5, <2>1, OneStep
<1>7. CASE ~present[Him(x)]
  <2>1. \A z \in Side : ~present[z]
    BY <1>4, <1>7, Sides
  <2>2. \A u \in Thread : thr[u].job # "join"
    BY <1>3, <2>1, NobodyCopies
  <2>3. QED
    BY <1>5, <2>2 DEF Used
<1>8. QED
  BY <1>6, <1>7

LEMMA UsedStart ==
  ASSUME IndInv, Used, NEW t \in Thread, StartJoin(t)
  PROVE  Used'
<1>1. thr[t].job = "conn" /\ thr[t].at = "join" /\ UNCHANGED link
  BY DEF StartJoin, At, heap
<1>2. link # 0
  BY <1>1 DEF IndInv, ThreadTypes, Records, AllServe, Serving, ServedBy, Serves
<1>3. CASE BothConnected(thr[t].me)
  <2>1. PICK u1 \in Thread, u2 \in Thread, r1 \in Records, r2 \in Records, s \in Records :
          StartsPair(t, u1, u2, r1, r2, s)
    BY <1>3, Paired
  <2>2. Asleep'
    BY <1>1, <2>1 DEF StartsPair, Asleep
  <2>3. ASSUME NEW u \in Thread, thr'[u].job = "join"
        PROVE  thr'[u].gen = link
    <3>1. CASE u \in {u1, u2}
      BY <2>1, <3>1 DEF StartsPair
    <3>2. CASE u \notin {u1, u2}
      BY <1>1, <2>1, <2>3, <3>2 DEF StartsPair, Used
    <3>3. QED
      BY <3>1, <3>2
  <2>4. QED
    BY <1>1, <1>2, <2>2, <2>3 DEF Used
<1>4. CASE ~BothConnected(thr[t].me)
  <2>1. Sleep(t, "sleep")
    BY <1>4 DEF StartJoin
  <2>2. thr'[t].job = "conn" /\ \A u \in Thread : u # t => thr'[u] = thr[u]
    BY <1>1, <2>1 DEF IndInv, ThreadTypes, Records, Sleep
  <2>3. QED
    BY <1>1, <2>2, OneStep
<1>5. QED
  BY <1>3, <1>4

LEMMA UsedThread ==
  ASSUME ~Preempt, IndInv, Used, NEW t \in Thread, Threads(t)
  PROVE  Used'
<1>1. ASSUME NEW l \in Places, Go(t, l) \/ Sleep(t, l)
      PROVE  /\ \A u \in Thread : u # t => thr'[u] = thr[u]
             /\ thr'[t].job = thr[t].job /\ thr'[t].gen = thr[t].gen /\ thr'[t].at = l
  BY <1>1 DEF IndInv, ThreadTypes, Records, Go, Sleep
<1>2. CASE \/ Awaited(t) \/ Wake(t) \/ ConnectServ(t) \/ ConnectTrap(t) \/ EndConnect(t)
           \/ Disco(t) \/ DiscoAck(t) \/ Gone(t) \/ CloseConn(t)
  <2>1. thr[t].job = "conn" /\ ~(thr[t].at = "sleep" /\ thr[t].timer = 1) /\ UNCHANGED link
    BY <1>2 DEF Awaited, Wake, ConnectServ, ConnectTrap, EndConnect, Disco, DiscoAck, Gone,
       CloseConn, Reads, At, heap
  <2>2. \/ Sleep(t, "sleep") \/ Sleep(t, "disco")
        \/ Go(t, "read") \/ Go(t, "join") \/ Go(t, "close") \/ Go(t, "free")
    BY <1>2 DEF Awaited, Wake, ConnectServ, ConnectTrap, EndConnect, Disco, Linger, DiscoAck,
       Gone, CloseConn
  <2>3. (\A u \in Thread : u # t => thr'[u] = thr[u]) /\ thr'[t].job = "conn"
    BY <1>1, <2>1, <2>2 DEF Places
  <2>4. QED
    BY <2>1, <2>3, OneStep
<1>3. CASE JoinStart(t)
  <2>1. /\ thr[t].job = "join" /\ UNCHANGED link /\ \E l \in {"read", "close"} : Go(t, l)
    BY <1>3 DEF JoinStart, StayJoined, At, heap
  <2>2. QED
    BY <1>1, <2>1, OneStep DEF Places
<1>4. CASE JoinRead(t)
  <2>1. thr[t].job = "join" /\ UNCHANGED link
    BY <1>4 DEF JoinRead, At, heap
  <2>2. /\ \A u \in Thread : u # t => thr'[u] = thr[u]
        /\ thr'[t].job = thr[t].job /\ thr'[t].gen = thr[t].gen /\ thr'[t].at \in {"write", "close"}
    BY <1>4 DEF IndInv, ThreadTypes, Records, JoinRead, Go
  <2>3. QED
    BY <2>1, <2>2, OneStep
<1>5. CASE JoinWrite(t)
  <2>1. thr[t].job = "join" /\ UNCHANGED link
    BY <1>5 DEF JoinWrite, At, heap
  <2>2. /\ \A u \in Thread : u # t => thr'[u] = thr[u]
        /\ thr'[t].job = thr[t].job /\ thr'[t].gen = thr[t].gen /\ thr'[t].at \in {"read", "close"}
    BY <1>5 DEF IndInv, ThreadTypes, Records, JoinWrite
  <2>3. QED
    BY <2>1, <2>2, OneStep
<1>6. CASE JoinClose(t)
  <2>1. thr[t].job = "join" /\ UNCHANGED link
    BY <1>6 DEF JoinClose, At, heap
  <2>2. thr'[t].job = "idle" /\ \A u \in Thread : u # t => thr'[u] = thr[u]
    BY <1>6 DEF IndInv, ThreadTypes, JoinClose, Idle
  <2>3. QED
    BY <2>1, <2>2, OneStep
<1>7. QED
  BY <1>2, <1>3, <1>4, <1>5, <1>6, UsedFree, UsedStart DEF Threads

LEMMA UsedNext ==
  ASSUME ~Preempt, Prompt, IndInv, Used, [Next]_vars
  PROVE  Used'
<1>1. ASSUME NEW t \in Thread, Threads(t)
      PROVE  Used'
  BY <1>1, UsedThread
<1>2. CASE UNCHANGED <<thr, link>>
  BY <1>2 DEF Used, Asleep
<1>3. CASE OpenServ
  <2>1. link = 0
    BY <1>3 DEF OpenServ
  <2>2. PICK n \in Thread : thr' = [thr EXCEPT ![n] = [Started("conn", "serv") EXCEPT !.gen = links + 1]]
    BY <1>3, Free DEF OpenServ, IdleThreads
  <2>3. PICK r \in Records : r = [Started("conn", "serv") EXCEPT !.gen = links + 1] /\ r.job = "conn"
    <3>1. links + 1 \in Nat
      BY DEF IndInv, Kinds
    <3>2. QED
      BY <3>1, Fresh, Sides DEF IndInv
  <2>4. \A u \in Thread : thr'[u].job # "join"
    BY <2>1, <2>2, <2>3 DEF IndInv, ThreadTypes, Used
  <2>5. QED
    BY <2>4 DEF Used
<1>4. CASE OpenTrap
  <2>1. PICK n \in Thread : thr[n].job = "idle" /\ thr' = [thr EXCEPT ![n] = Started("conn", "trap")]
    BY <1>4, Free DEF OpenTrap, IdleThreads
  <2>2. PICK r \in Records : r = Started("conn", "trap") /\ r.job = "conn"
    BY Fresh, Sides DEF IndInv, Kinds
  <2>3. thr'[n] = r /\ \A u \in Thread : u # n => thr'[u] = thr[u]
    BY <2>1, <2>2 DEF IndInv, ThreadTypes
  <2>4. UNCHANGED link
    BY <1>4 DEF OpenTrap
  <2>5. QED
    BY <2>1, <2>2, <2>3, <2>4, OneStep
<1>5. CASE Tick
  <2>1. \A t \in Thread : ~Runs(t)
    BY <1>5, Sides DEF Tick
  <2>2. \A t \in Thread : thr[t].at # "start" /\ thr'[t] = [thr[t] EXCEPT !.timer = 0]
    BY <1>5, <2>1 DEF Tick, Runs
  <2>3. \A t \in Thread : thr'[t].job = thr[t].job /\ thr'[t].gen = thr[t].gen /\ thr'[t].at = thr[t].at
    BY <2>2 DEF IndInv, ThreadTypes, Records
  <2>4. UNCHANGED link
    BY <1>5 DEF Tick, heap
  <2>5. QED
    BY <2>2, <2>3, <2>4 DEF Used
<1>6. ASSUME NEW x \in Side, Program(x) \/ Connect(x) \/ Ask \/ Bye \/ UnLink(x) \/ Kill(x)
      PROVE  UNCHANGED <<thr, link>>
  BY <1>6 DEF Program, LinkOpen, Connect, Asked, OpenRead, OpenWrite, Ended, Lost, Discoed, Serve,
     Replied, Ask, Bye, UnLink, Kill, heap
<1>7. CASE Next
  BY <1>1, <1>2, <1>3, <1>4, <1>5, <1>6, <1>7, Sides DEF Next, User
<1>8. QED
  BY <1>2, <1>7 DEF vars, heap

\* FreeLink is only called when no thread is left that uses the link, on one
\* processor on which whoever is not asleep is done before a DosSleep ends: the
\* ConnectThread that started a pair sleeps a tenth of a second (nmpbind.c:214) and
\* keeps the link while the pair has yet to look at its flags (nmpbind.c:166), and the
\* programs at the other ends keep it while the pair is in its DosReads; the test of
\* the other end's flag alone (nmpbind.c:270) would not be enough.
THEOREM NoUseAfterFreeCorrect == ASSUME ~Preempt, Prompt PROVE Spec => []NoUseAfterFree
<1>1. Init => Used
  <2>1. Init => \A t \in Thread : thr[t] = Idle
    BY DEF Init
  <2>2. Idle.job = "idle"
    BY DEF Idle
  <2>3. QED
    BY <2>1, <2>2 DEF Used
<1>2. IndInv /\ Used /\ [Next]_vars => Used'
  BY UsedNext
<1>3. IndInv /\ Used => NoUseAfterFree
  <2> SUFFICES ASSUME IndInv, Used, NEW t \in Thread, thr[t].job # "idle"
               PROVE  thr[t].gen = link
    BY DEF NoUseAfterFree
  <2>1. CASE thr[t].job = "join"
    BY <2>1 DEF Used
  <2>2. CASE thr[t].job = "conn"
    BY <2>2 DEF IndInv, ThreadTypes, Records, AllServe, Serving, ServedBy, Serves
  <2>3. QED
    BY <2>1, <2>2 DEF IndInv, ThreadTypes, Records
<1>4. QED
  BY <1>1, <1>2, <1>3, Holds, PTL DEF Spec

(***************************************************************************)
(* Nobody is lost                                                          *)
(***************************************************************************)
\* The request that ends a connection is on its way to the server.
ByeIn(s) == \E i \in DOMAIN s : s[i][1] = "bye"
Bears(t) == Copies(t, "trap") /\ thr[t].at = "write"
ByeSent ==
  \/ ByeIn(wrBuf["trap"]) \/ ByeIn(rdBuf["serv"])
  \/ \E t \in Thread : Bears(t) /\ thr[t].msg[1] = "bye"
\* Nothing follows it.
ByeLast ==
  /\ \A s \in {wrBuf["trap"], rdBuf["serv"]} : \A i \in DOMAIN s : s[i][1] = "bye" => i = Len(s)
  /\ \A t \in Thread : Bears(t) /\ thr[t].msg[1] = "bye" => wrBuf["trap"] = <<>>
  /\ ByeIn(rdBuf["serv"]) => wrBuf["trap"] = <<>> /\ \A t \in Thread : ~Bears(t)
  /\ ByeSent => ~Active

\* Where the connection of a debugger stands: it has not asked for one or was refused;
\* it was granted one; it has one, until the server knows of its end.  Of a connection
\* that was granted while a pipe of the last one was still there nothing will come.
Bare(x) == peer[x] \in {"off", "opening", "linked"} \/ (peer[x] = "asked" /\ rep[x] # "ack")
Granted(x) == peer[x] = "openRead" \/ (peer[x] = "asked" /\ rep[x] = "ack")
Hosting == peer["serv"] \in {"ending", "up"}
Live == Active \/ (peer["trap"] = "disco" /\ ByeSent)
Begun ==
  \/ Live
  \/ Granted("trap") /\ rd["trap"] = "listening" /\ wr["trap"] = "listening"
  \/ peer["trap"] = "openWrite" /\ wr["trap"] = "listening"
Stuck == (Granted("trap") \/ peer["trap"] = "openWrite") /\ ~Begun

\* The pipes for data that a program in a connection has yet to use are open.
Opened ==
  /\ \A x \in Side : wr[x] = "none" <=> rd[Him(x)] = "none"
  /\ peer["serv"] = "openWrite" \/ Hosting => rd["serv"] = "open"
  /\ Hosting => wr["serv"] = "open"
  /\ peer["trap"] = "openWrite" \/ Live => rd["trap"] = "open"
  /\ Live => wr["trap"] = "open"
  /\ Bare("trap") => rd["trap"] \in {"none", "eof"} /\ wr["trap"] \in {"none", "eof"}
  /\ peer["trap"] = "disco" => rd["trap"] # "listening" /\ wr["trap"] # "listening"
  /\ Begun /\ ~Hosting => /\ wr["serv"] = "listening"
                          /\ peer["serv"] # "openWrite" => rd["serv"] = "listening"

\* Threads copy for a program in a connection only while both are in it, and then no
\* thread is about to close the pipes.
Whole ==
  /\ Hosting /\ Live /\ connected["serv"] /\ connected["trap"]
  /\ \A t \in Thread : thr[t].job = "join" => thr[t].at # "close"
Marks ==
  /\ (Joined("serv") \/ Joined("trap")) /\ (Hosting \/ Live) => Whole
  /\ connected["serv"] /\ connected["trap"] =>
       \/ Connecting("serv") \/ Connecting("trap")
       \/ Joined("serv") /\ Joined("trap")
  /\ connected["serv"] => Joined("serv") \/ Hosting
  /\ connected["trap"] => Joined("trap") \/ Live \/ peer["serv"] = "off"
  /\ Hosting /\ req["serv"] # "end" => connected["serv"]
  /\ Live /\ req["trap"] # "end" => connected["trap"]

\* A program that waits for an answer has asked, and who is not killed hangs up first.
Waits ==
  /\ \A x \in Side : /\ peer[x] # "lost"
                     /\ peer[x] = "off" => req[x] = "none"
                     /\ peer[x] = "asked" => req[x] = "connect" \/ rep[x] # "none"
                     /\ peer[x] = "ending" => req[x] = "end" \/ rep[x] # "none"
                     /\ peer[x] = "disco" => req[x] = "disco" \/ rep[x] # "none"
  /\ peer["serv"] # "wait"
  /\ \A x \in Side, t \in Thread : Serves(t, x) /\ thr[t].at = "await" => Bare(x) /\ rep[x] = "none"
\* Who sleeps, and how long the server's CONNECT_SERV would be granted.
Rests == \A t \in Thread : thr[t].timer # 0 => thr[t].job = "conn" /\ thr[t].at \in {"sleep", "disco"}
Grants == Begun => \A t \in Thread :
  Serves(t, "trap") /\ thr[t].at # "disco" /\ (peer["trap"] = "disco" => rep["trap"] = "none") => started["trap"]

\* How many sleeps the server's ConnectThread takes at most until it has read the
\* server's END_CONNECT, and the debugger's at least until the debugger may hang up,
\* and until it may have hung up and be granted the next connection.
Ready(t) ==
  IF thr[t].at = "disco" THEN 2 + thr[t].timer
  ELSE IF req["serv"] = "disco" THEN 3 + thr[t].timer
  ELSE IF thr[t].at = "await" THEN 2
  ELSE IF Bare("serv") \/ peer["serv"] = "disco" THEN 1 + thr[t].timer
  ELSE IF req["serv"] = "end" \/ Granted("serv") \/ peer["serv"] = "openWrite" THEN thr[t].timer
  ELSE 0
Left(u) ==
  IF peer["trap"] = "disco" /\ rep["trap"] # "none" THEN 0
  ELSE IF thr[u].at = "disco" THEN thr[u].timer
  ELSE IF req["trap"] = "end" \/ Granted("trap") \/ peer["trap"] = "openWrite" THEN 2 + thr[u].timer
  ELSE 1 + thr[u].timer
Away(u) ==
  IF thr[u].at = "disco" THEN 4 + thr[u].timer
  ELSE IF req["trap"] = "disco" THEN 5 + thr[u].timer
  ELSE IF thr[u].at \in {"await", "close", "free"} THEN 4
  ELSE 3 + thr[u].timer
InTime(t) ==
  /\ Ready(t) <= 4
  /\ Begun => \A u \in Thread : Serves(u, "trap") => Ready(t) < Left(u)
  /\ ~Begun /\ ~Stuck => /\ \A u \in Thread : Serves(u, "trap") => Ready(t) < Away(u)
                         /\ conn["trap"] = "none" => Ready(t) < 4
Timely == peer["serv"] # "off" => \A t \in Thread : Serves(t, "serv") => InTime(t)

Calm == ByeLast /\ Opened /\ Marks /\ Waits /\ Rests /\ Grants /\ Timely
Quiet == kills \in Nat /\ (kills = 0 => Calm)

(***************************************************************************)
(* Frames                                                                  *)
(***************************************************************************)
\* No thread that copies has moved.
SameCopies == \A u \in Thread :
  /\ thr'[u].job = "join" <=> thr[u].job = "join"
  /\ thr[u].job = "join" => thr'[u] = thr[u]

LEMMA ByeKept ==
  ASSUME ByeLast, SameCopies, wrBuf'["trap"] = wrBuf["trap"], rdBuf'["serv"] = rdBuf["serv"], Active' => Active
  PROVE  (ByeSent' <=> ByeSent) /\ ByeLast'
<1>1. \A u \in Thread : (Bears(u)' <=> Bears(u)) /\ (Bears(u) => thr'[u].msg = thr[u].msg)
  BY DEF SameCopies, Bears, Copies
<1>2. ByeSent' <=> ByeSent
  BY <1>1 DEF ByeSent
<1>3. QED
  BY <1>1, <1>2 DEF ByeLast

LEMMA MarksKept ==
  ASSUME Marks, SameCopies, UNCHANGED connected, \A x \in Side : Connecting(x) => Connecting(x)',
         Hosting' <=> Hosting, Live' <=> Live, peer["serv"] = "off" => peer'["serv"] = "off",
         \A x \in Side : req[x] = "end" => req'[x] = "end"
  PROVE  Marks'
<1>1. \A x \in Side : Joined(x)' <=> Joined(x)
  BY DEF SameCopies, Joined, Copies
<1>2. Whole => Whole'
  BY DEF SameCopies, Whole
<1>3. QED
  BY <1>1, <1>2, Sides DEF Marks

\* A ConnectThread goes to another place and leaves the pipes and the programs alone.
ConnMoves(t, l) ==
  /\ \A u \in Thread : u # t => thr'[u] = thr[u]
  /\ thr[t].job = "conn" /\ thr'[t].job = "conn" /\ thr'[t].me = thr[t].me /\ thr'[t].at = l
  /\ Go(t, l) => thr'[t].timer = thr[t].timer
  /\ Sleep(t, l) => thr'[t].timer = 1

LEMMA ConnMoved ==
  ASSUME ThreadTypes, NEW t \in Thread, NEW l, thr[t].job = "conn", Go(t, l) \/ Sleep(t, l)
  PROVE  ConnMoves(t, l) /\ SameCopies
<1>1. ConnMoves(t, l)
  BY DEF ThreadTypes, Records, Go, Sleep, ConnMoves
<1>2. QED
  BY <1>1 DEF ConnMoves, SameCopies

LEMMA Undisturbed ==
  ASSUME Calm, NEW t \in Thread, NEW l, ConnMoves(t, l), SameCopies, thr[t].at # "join",
         UNCHANGED <<connected, data, peer>>, \A x \in Side : req[x] = "end" => req'[x] = "end",
         peer["trap"] = "asked" => (rep'["trap"] = "ack" <=> rep["trap"] = "ack")
  PROVE  ByeLast' /\ Opened' /\ Marks' /\ (Begun' <=> Begun) /\ (Stuck' <=> Stuck)
<1>1. UNCHANGED <<rd, wr, rdBuf, wrBuf>>
  BY DEF data
<1>2. (ByeSent' <=> ByeSent) /\ ByeLast'
  BY <1>1, ByeKept DEF Calm, Active
<1>3. (Hosting' <=> Hosting) /\ (Live' <=> Live)
  BY <1>2 DEF Hosting, Live, Active
<1>4. \A x \in Side : Connecting(x) => Connecting(x)'
  BY DEF ConnMoves, Connecting, Serves
<1>5. Marks'
  BY <1>3, <1>4, MarksKept DEF Calm
<1>6. (Begun' <=> Begun) /\ (Stuck' <=> Stuck)
  BY <1>1, <1>3 DEF Begun, Stuck, Granted
<1>7. Opened'
  BY <1>1, <1>3, <1>6 DEF Calm, Opened, Bare
<1>8. QED
  BY <1>2, <1>5, <1>6, <1>7

LEMMA Counts ==
  ASSUME NEW t \in Thread
  PROVE  /\ ThreadTypes => Ready(t) \in Nat /\ Left(t) \in Nat /\ Away(t) \in Nat
         /\ ThreadTypes' => Ready(t)' \in Nat /\ Left(t)' \in Nat /\ Away(t)' \in Nat
<1>1. /\ Ready(t) \in {2 + thr[t].timer, 3 + thr[t].timer, 2, 1 + thr[t].timer, thr[t].timer, 0}
      /\ Left(t) \in {0, thr[t].timer, 2 + thr[t].timer, 1 + thr[t].timer}
      /\ Away(t) \in {4 + thr[t].timer, 5 + thr[t].timer, 4, 3 + thr[t].timer}
  BY Zenon DEF Ready, Left, Away
<1>2. /\ Ready(t)' \in {2 + thr'[t].timer, 3 + thr'[t].timer, 2, 1 + thr'[t].timer, thr'[t].timer, 0}
      /\ Left(t)' \in {0, thr'[t].timer, 2 + thr'[t].timer, 1 + thr'[t].timer}
      /\ Away(t)' \in {4 + thr'[t].timer, 5 + thr'[t].timer, 4, 3 + thr'[t].timer}
  BY Zenon DEF Ready, Left, Away
<1>3. (ThreadTypes => thr[t].timer \in {0, 1}) /\ (ThreadTypes' => thr'[t].timer \in {0, 1})
  BY DEF ThreadTypes, Records
<1>4. QED
  BY <1>1, <1>2, <1>3

\* A thread that has not moved, at the end of a program that has not moved either.
LEMMA SameReady ==
  ASSUME ThreadTypes, NEW u \in Thread, thr'[u] = thr[u], req'["serv"] = req["serv"],
         rep'["serv"] = rep["serv"], peer'["serv"] = peer["serv"]
  PROVE  Ready(u)' <= Ready(u)
<1>1. Ready(u)' = Ready(u)
  BY Zenon DEF Ready, Bare, Granted
<1>2. QED
  BY <1>1, Counts

LEMMA SameLeft ==
  ASSUME ThreadTypes, NEW u \in Thread, thr'[u] = thr[u], req'["trap"] = req["trap"],
         rep'["trap"] = rep["trap"], peer'["trap"] = peer["trap"]
  PROVE  Left(u)' >= Left(u) /\ Away(u)' >= Away(u)
<1>1. Left(u)' = Left(u) /\ Away(u)' = Away(u)
  BY Zenon DEF Left, Away, Granted
<1>2. QED
  BY <1>1, Counts

LEMMA TimelyKept ==
  ASSUME Timely, ThreadTypes, ThreadTypes', Begun' <=> Begun, Stuck' <=> Stuck,
         \A t \in Thread : Serves(t, "serv")' /\ peer'["serv"] # "off" =>
           Serves(t, "serv") /\ peer["serv"] # "off" /\ Ready(t)' <= Ready(t),
         \A u \in Thread : Serves(u, "trap")' =>
           Serves(u, "trap") /\ (Begun => Left(u)' >= Left(u)) /\ (~Begun /\ ~Stuck => Away(u)' >= Away(u)),
         conn'["trap"] = "none" => \/ conn["trap"] = "none"
                                   \/ \E u \in Thread : Serves(u, "trap") /\ Away(u) <= 4
  PROVE  Timely'
<1> SUFFICES ASSUME NEW t \in Thread, Serves(t, "serv")', peer'["serv"] # "off"
             PROVE  InTime(t)'
  BY DEF Timely
<1>1. Serves(t, "serv") /\ InTime(t) /\ Ready(t)' <= Ready(t)
  BY DEF Timely
<1>2. Ready(t) \in Nat /\ Ready(t)' \in Nat
  BY Counts
<1>3. \A u \in Thread : Left(u) \in Nat /\ Left(u)' \in Nat /\ Away(u) \in Nat /\ Away(u)' \in Nat
  BY Counts
<1>4. QED
  BY <1>1, <1>2, <1>3 DEF InTime

(***************************************************************************)
(* Every step keeps it                                                     *)
(***************************************************************************)
LEMMA AwaitedCalm ==
  ASSUME IndInv, IndInv', Calm, NEW t \in Thread, Awaited(t) \/ Wake(t) \/ Gone(t)
  PROVE  Calm'
<1>1. /\ thr[t].job = "conn"
      /\ \/ thr[t].at = "await" /\ Sleep(t, "sleep")
         \/ thr[t].at = "sleep" /\ thr[t].timer = 0 /\ Go(t, "read")
         \/ thr[t].at = "read" /\ conn[thr[t].me] = "eof" /\ Go(t, "close")
  BY DEF Awaited, Wake, Gone, At
<1>2. PICK l \in {"sleep", "read", "close"} :
        /\ ConnMoves(t, l) /\ SameCopies /\ thr[t].at \in {"await", "sleep", "read"}
        /\ l = "sleep" => thr[t].at = "await" /\ thr'[t].timer = 1
        /\ l = "read" => thr[t].at = "sleep" /\ thr[t].timer = 0 /\ thr'[t].timer = 0
        /\ l = "close" => thr[t].at = "read" /\ thr'[t].timer = thr[t].timer /\ conn[thr[t].me] = "eof"
  <2>1. CASE thr[t].at = "await" /\ Sleep(t, "sleep")
    BY <1>1, <2>1, ConnMoved DEF IndInv, ConnMoves
  <2>2. CASE thr[t].at = "sleep" /\ thr[t].timer = 0 /\ Go(t, "read")
    BY <1>1, <2>2, ConnMoved DEF IndInv, ConnMoves
  <2>3. CASE thr[t].at = "read" /\ conn[thr[t].me] = "eof" /\ Go(t, "close")
    BY <1>1, <2>3, ConnMoved DEF IndInv, ConnMoves
  <2>4. QED
    BY <1>1, <2>1, <2>2, <2>3
<1>3. UNCHANGED <<link, started, connected, conn, req, rep, rd, wr, rdBuf, wrBuf, peer>>
  BY DEF Awaited, Wake, Gone, heap, flags, asks, data
<1>4. ByeLast' /\ Opened' /\ Marks' /\ (Begun' <=> Begun) /\ (Stuck' <=> Stuck)
  BY <1>2, <1>3, Undisturbed DEF data
<1>5. \A u \in Thread, x \in Side : Serves(u, x)' <=> Serves(u, x)
  BY <1>2 DEF ConnMoves, Serves
<1>6. Waits' /\ Rests' /\ Grants'
  <2>1. Waits'
    <3>1. \A x \in Side, u \in Thread : Serves(u, x)' /\ thr'[u].at = "await" => Serves(u, x) /\ thr[u].at = "await"
      BY <1>2, <1>5 DEF ConnMoves
    <3>2. QED
      BY <1>3, <3>1 DEF Calm, Waits, Bare
  <2>2. Rests'
    BY <1>2 DEF Calm, Rests, ConnMoves
  <2>3. Grants'
    <3>1. \A u \in Thread : thr'[u].at # "disco" => thr[u].at # "disco"
      BY <1>2 DEF ConnMoves
    <3>2. QED
      BY <1>3, <1>4, <1>5, <3>1, Sides DEF Calm, Grants
  <2>4. QED
    BY <2>1, <2>2, <2>3
<1>7. Timely'
  <2>1. ASSUME NEW u \in Thread, Serves(u, "serv"), peer["serv"] # "off"
        PROVE  Ready(u)' <= Ready(u)
    <3>1. thr[u].timer \in {0, 1} /\ thr'[u].timer \in {0, 1}
      BY DEF IndInv, ThreadTypes, Records
    <3>2. CASE u # t
      BY <1>2, <1>3, <3>1, <3>2 DEF ConnMoves, Ready, Bare, Granted
    <3>3. CASE u = t /\ thr[u].at = "await"
      <4>1. Bare("serv") /\ rep["serv"] = "none" /\ req["serv"] \notin {"disco", "end"}
        BY <2>1, <3>3, Sides DEF Calm, Waits, Bare, IndInv, AllAsk, Asks
      <4>2. QED
        BY <1>2, <1>3, <3>1, <3>3, <4>1 DEF ConnMoves, Ready, Bare
    <3>4. CASE u = t /\ thr[u].at \in {"sleep", "read"}
      <4>1. conn["serv"] # "eof"
        BY <2>1, Sides DEF IndInv, AllAsk, Asks
      <4>2. QED
        BY <1>2, <1>3, <2>1, <3>1, <3>4, <4>1 DEF ConnMoves, Ready, Bare, Granted, Serves
    <3>5. QED
      BY <1>2, <3>2, <3>3, <3>4
  <2>2. ASSUME NEW u \in Thread, Serves(u, "trap")
        PROVE  Left(u)' >= Left(u) /\ Away(u)' >= Away(u)
    <3>1. thr[u].timer \in {0, 1} /\ thr'[u].timer \in {0, 1}
      BY DEF IndInv, ThreadTypes, Records
    <3>2. CASE u # t
      BY <1>2, <1>3, <3>1, <3>2 DEF ConnMoves, Left, Away, Granted
    <3>3. CASE u = t
      <4>1. Left(u)' >= Left(u)
        BY <1>2, <1>3, <3>1, <3>3 DEF ConnMoves, Left, Granted
      <4>2. Away(u)' >= Away(u)
        BY <1>2, <1>3, <3>1, <3>3 DEF ConnMoves, Away
      <4>3. QED
        BY <4>1, <4>2
    <3>4. QED
      BY <3>2, <3>3
  <2>3. QED
    BY <1>3, <1>4, <1>5, <2>1, <2>2, TimelyKept, Sides DEF Calm, IndInv
<1>8. QED
  BY <1>4, <1>6, <1>7 DEF Calm

\* What a ConnectThread at its DosRead finds: a program that waits.
LEMMA Found ==
  ASSUME IndInv, Calm, NEW t \in Thread, thr[t].job = "conn", thr[t].at \in {"read", "disco"},
         req[thr[t].me] # "none"
  PROVE  /\ thr[t].me \in Side /\ conn[thr[t].me] = "open" /\ rep[thr[t].me] = "none"
         /\ req[thr[t].me] = "connect" => peer[thr[t].me] = "asked"
         /\ req[thr[t].me] = "end" => peer[thr[t].me] = "ending"
         /\ req[thr[t].me] = "disco" => peer[thr[t].me] = "disco"
         /\ thr[t].at = "read" => thr[t].timer = 0
<1>1. PICK x \in Side : x = thr[t].me
  BY DEF IndInv, ThreadTypes, Records
<1>2. Asks(x) /\ req[x] \in {"none", "connect", "end", "disco"} /\ rep[x] \in {"none", "ack", "nack"}
  BY DEF IndInv, AllAsk, Kinds
<1>3. peer[x] # "off"
  BY <1>1 DEF Calm, Waits
<1>4. thr[t].at = "read" => thr[t].timer = 0
  BY DEF Calm, Rests
<1>5. QED
  BY <1>1, <1>2, <1>3, <1>4 DEF Asks

LEMMA OneServes ==
  ASSUME IndInv, NEW x \in Side, NEW t \in Thread, NEW u \in Thread, Serves(t, x), Serves(u, x)
  PROVE  t = u
BY DEF IndInv, AllServe, Serving

LEMMA DiscoCalm ==
  ASSUME IndInv, IndInv', Calm, NEW t \in Thread, Disco(t)
  PROVE  Calm'
<1>1. /\ thr[t].job = "conn" /\ thr[t].at = "read" /\ req[thr[t].me] = "disco" /\ Sleep(t, "disco")
      /\ started' = [started EXCEPT ![thr[t].me] = FALSE]
  BY DEF Disco, Reads, At, Linger
<1>2. ConnMoves(t, "disco") /\ SameCopies /\ thr'[t].timer = 1
  BY <1>1, ConnMoved DEF IndInv, ConnMoves
<1>3. UNCHANGED <<connected, conn, req, rep, peer, data>>
  BY DEF Disco, heap, asks
<1>4. ByeLast' /\ Opened' /\ Marks' /\ (Begun' <=> Begun) /\ (Stuck' <=> Stuck)
  BY <1>1, <1>2, <1>3, Undisturbed
<1>5. \A u \in Thread, x \in Side : Serves(u, x)' <=> Serves(u, x)
  BY <1>2 DEF ConnMoves, Serves
<1>6. PICK x \in Side : x = thr[t].me /\ peer[x] = "disco" /\ rep[x] = "none" /\ thr[t].timer = 0
  BY <1>1, Found
<1>7. Waits'
  BY <1>2, <1>3, <1>5 DEF Calm, Waits, Bare, ConnMoves
<1>8. Rests'
  BY <1>2 DEF Calm, Rests, ConnMoves
<1>9. Grants'
  <2>1. \A u \in Thread : Serves(u, "trap") => Serves(u, "trap")'
    BY <1>5, Sides
  <2>2. x = "trap" => \A u \in Thread : Serves(u, "trap") => u = t
    BY <1>1, <1>6, OneServes, Sides DEF Serves
  <2>3. x # "trap" => started'["trap"] = started["trap"]
    BY <1>1, <1>6, Sides DEF IndInv, Kinds
  <2>4. \A u \in Thread : thr'[u].at # "disco" => u # t /\ thr[u].at # "disco"
    BY <1>2 DEF ConnMoves
  <2>5. QED
    BY <1>3, <1>4, <1>5, <2>2, <2>3, <2>4, Sides DEF Calm, Grants
<1>10. Timely'
  <2>1. ASSUME NEW u \in Thread, Serves(u, "serv")
        PROVE  Ready(u)' <= Ready(u)
    <3>1. CASE u # t
      BY <1>2, <1>3, <3>1, SameReady DEF IndInv, ConnMoves
    <3>2. CASE u = t
      BY <1>1, <1>2, <1>3, <1>6, <2>1, <3>2 DEF ConnMoves, Ready, Serves
    <3>3. QED
      BY <3>1, <3>2
  <2>2. ASSUME NEW u \in Thread, Serves(u, "trap")
        PROVE  Left(u)' >= Left(u) /\ Away(u)' >= Away(u)
    <3>1. CASE u # t
      BY <1>2, <1>3, <3>1, SameLeft DEF IndInv, ConnMoves
    <3>2. CASE u = t
      BY <1>1, <1>2, <1>3, <1>6, <2>2, <3>2 DEF ConnMoves, Left, Away, Granted, Serves
    <3>3. QED
      BY <3>1, <3>2
  <2>3. QED
    BY <1>3, <1>4, <1>5, <2>1, <2>2, TimelyKept, Sides DEF Calm, IndInv
<1>11. QED
  BY <1>4, <1>7, <1>8, <1>9, <1>10 DEF Calm

LEMMA DiscoAckCalm ==
  ASSUME IndInv, IndInv', Calm, NEW t \in Thread, DiscoAck(t)
  PROVE  Calm'
<1>1. PICK x \in Side : x = thr[t].me
  BY DEF IndInv, ThreadTypes, Records
<1>2. thr[t].job = "conn" /\ thr[t].at = "disco" /\ thr[t].timer = 0 /\ Sleep(t, "sleep") /\ Serves(t, x)
  BY <1>1 DEF DiscoAck, At, Serves
<1>3. req[x] = "disco"
  BY <1>2 DEF IndInv, AllServe, Serving, ServedBy
<1>4. peer[x] = "disco" /\ rep[x] = "none" /\ conn[x] = "open"
  BY <1>1, <1>2, <1>3, Found
<1>5. req' = [req EXCEPT ![x] = "none"] /\ rep' = [rep EXCEPT ![x] = "ack"]
  BY <1>1, <1>4 DEF DiscoAck, Answer
<1>6. /\ req'[x] = "none" /\ rep'[x] = "ack"
      /\ \A y \in Side : y # x => req'[y] = req[y] /\ rep'[y] = rep[y]
  BY <1>5 DEF IndInv, Kinds
<1>7. ConnMoves(t, "sleep") /\ SameCopies /\ thr'[t].timer = 1
  BY <1>2, ConnMoved DEF IndInv, ConnMoves
<1>8. UNCHANGED <<started, connected, conn, peer, data>>
  BY DEF DiscoAck, flags
<1>9. ByeLast' /\ Opened' /\ Marks' /\ (Begun' <=> Begun) /\ (Stuck' <=> Stuck)
  BY <1>2, <1>3, <1>4, <1>6, <1>7, <1>8, Undisturbed, Sides
<1>10. \A u \in Thread, y \in Side : Serves(u, y)' <=> Serves(u, y)
  BY <1>7 DEF ConnMoves, Serves
<1>11. Waits'
  <2>1. \A y \in Side, u \in Thread : Serves(u, y)' /\ thr'[u].at = "await" => y # x /\ thr[u].at = "await"
    BY <1>2, <1>7, <1>10, OneServes DEF ConnMoves
  <2>2. QED
    BY <1>4, <1>6, <1>8, <1>10, <2>1 DEF Calm, Waits, Bare
<1>12. Rests'
  BY <1>7 DEF Calm, Rests, ConnMoves
<1>13. Grants'
  <2>1. \A u \in Thread : Serves(u, "trap") /\ thr'[u].at # "disco" => x = "trap" \/ thr[u].at # "disco"
    BY <1>2, <1>7, <1>10, Sides DEF ConnMoves, Serves
  <2>2. QED
    BY <1>4, <1>6, <1>8, <1>9, <1>10, <2>1, Sides DEF Calm, Grants
<1>14. Timely'
  <2>1. ASSUME NEW u \in Thread, Serves(u, "serv")
        PROVE  Ready(u)' <= Ready(u)
    <3>1. CASE u # t
      <4>1. x # "serv" \/ u = t
        BY <1>2, <2>1, OneServes
      <4>2. QED
        BY <1>6, <1>7, <1>8, <3>1, <4>1, SameReady, Sides DEF IndInv, ConnMoves
    <3>2. CASE u = t
      BY <1>1, <1>2, <1>3, <1>4, <1>6, <1>7, <1>8, <2>1, <3>2 DEF ConnMoves, Ready, Bare, Serves
    <3>3. QED
      BY <3>1, <3>2
  <2>2. ASSUME NEW u \in Thread, Serves(u, "trap")
        PROVE  Left(u)' >= Left(u) /\ Away(u)' >= Away(u)
    <3>1. CASE u # t
      <4>1. x # "trap" \/ u = t
        BY <1>2, <2>2, OneServes
      <4>2. QED
        BY <1>6, <1>7, <1>8, <3>1, <4>1, SameLeft, Sides DEF IndInv, ConnMoves
    <3>2. CASE u = t
      BY <1>1, <1>2, <1>3, <1>4, <1>6, <1>7, <1>8, <2>2, <3>2 DEF ConnMoves, Left, Away, Serves
    <3>3. QED
      BY <3>1, <3>2
  <2>3. QED
    BY <1>8, <1>9, <1>10, <2>1, <2>2, TimelyKept, Sides DEF Calm, IndInv
<1>15. QED
  BY <1>9, <1>11, <1>12, <1>13, <1>14 DEF Calm

LEMMA ConnectServCalm ==
  ASSUME IndInv, IndInv', Calm, NEW t \in Thread, ConnectServ(t)
  PROVE  Calm'
<1>1. /\ thr[t].job = "conn" /\ thr[t].at = "read" /\ thr[t].me = "serv" /\ req["serv"] = "connect"
      /\ Sleep(t, "sleep") /\ Serves(t, "serv")
  BY DEF ConnectServ, Reads, At, Serves
<1>2. peer["serv"] = "asked" /\ rep["serv"] = "none" /\ conn["serv"] = "open" /\ thr[t].timer = 0
  BY <1>1, Found
<1>3. /\ req' = [req EXCEPT !["serv"] = "none"]
      /\ rep' = [rep EXCEPT !["serv"] = IF started["trap"] THEN "ack" ELSE "nack"]
      /\ started' = [started EXCEPT !["serv"] = @ \/ started["trap"]]
  BY <1>1, <1>2 DEF ConnectServ, Answer
<1>4. /\ req'["serv"] = "none" /\ rep'["serv"] = (IF started["trap"] THEN "ack" ELSE "nack")
      /\ req'["trap"] = req["trap"] /\ rep'["trap"] = rep["trap"] /\ started'["trap"] = started["trap"]
  BY <1>3, Sides DEF IndInv, Kinds
<1>5. ConnMoves(t, "sleep") /\ SameCopies /\ thr'[t].timer = 1
  BY <1>1, ConnMoved DEF IndInv, ConnMoves
<1>6. UNCHANGED <<connected, conn, peer, data>>
  BY DEF ConnectServ
<1>7. ByeLast' /\ Opened' /\ Marks' /\ (Begun' <=> Begun) /\ (Stuck' <=> Stuck)
  BY <1>1, <1>4, <1>5, <1>6, Undisturbed, Sides
<1>8. \A u \in Thread, y \in Side : Serves(u, y)' <=> Serves(u, y)
  BY <1>5 DEF ConnMoves, Serves
<1>9. Waits'
  <2>1. \A y \in Side, u \in Thread : Serves(u, y)' /\ thr'[u].at = "await" => y # "serv" /\ thr[u].at = "await"
    BY <1>1, <1>5, <1>8, OneServes, Sides DEF ConnMoves
  <2>2. QED
    BY <1>2, <1>4, <1>6, <1>8, <2>1, Sides DEF Calm, Waits, Bare
<1>10. Rests'
  BY <1>5 DEF Calm, Rests, ConnMoves
<1>11. \A u \in Thread : Serves(u, "trap") => u # t /\ thr'[u] = thr[u]
  BY <1>1, <1>5 DEF ConnMoves, Serves
<1>12. Grants'
  BY <1>4, <1>6, <1>7, <1>8, <1>11, Sides DEF Calm, Grants
<1>13. Timely'
  <2> SUFFICES ASSUME NEW u \in Thread, Serves(u, "serv")', peer'["serv"] # "off"
               PROVE  InTime(u)'
    BY DEF Timely
  <2>1. u = t
    BY <1>1, <1>8, OneServes, Sides
  <2>2. InTime(t)
    BY <1>1, <1>2 DEF Calm, Timely
  <2>3. Ready(t) = 1
    BY <1>1, <1>2 DEF Ready, Bare
  <2>4. Ready(t)' = IF started["trap"] THEN 1 ELSE 2
    BY <1>2, <1>4, <1>5, <1>6 DEF ConnMoves, Ready, Bare, Granted
  <2>5. \A w \in Thread : Serves(w, "trap") => Left(w)' >= Left(w) /\ Away(w)' >= Away(w)
    BY <1>4, <1>6, <1>11, SameLeft DEF IndInv
  <2>6. \A w \in Thread : /\ Left(w) \in Nat /\ Left(w)' \in Nat /\ Away(w) \in Nat /\ Away(w)' \in Nat
    BY Counts DEF IndInv
  <2>7. ASSUME Begun
        PROVE  \A w \in Thread : Serves(w, "trap") => Ready(t)' < Left(w)'
    <3> SUFFICES ASSUME NEW w \in Thread, Serves(w, "trap")
                 PROVE  Ready(t)' < Left(w)'
      OBVIOUS
    <3>1. 1 < Left(w)
      BY <2>2, <2>3, <2>7 DEF InTime
    <3>2. thr[w].at # "disco" /\ (peer["trap"] = "disco" => rep["trap"] = "none")
      <4>1. thr[w].timer \in {0, 1}
        BY DEF IndInv, ThreadTypes, Records
      <4>2. \/ thr[w].at # "disco" /\ (peer["trap"] = "disco" => rep["trap"] = "none")
            \/ Left(w) \in {0, thr[w].timer}
        BY Zenon DEF Left
      <4>3. QED
        BY <3>1, <4>1, <4>2
    <3>3. started["trap"]
      BY <2>7, <3>2 DEF Calm, Grants
    <3>4. QED
      BY <2>4, <2>5, <2>6, <3>1, <3>3
  <2>8. \A w \in Thread : Serves(w, "trap") => 2 < Away(w)
    <3> SUFFICES ASSUME NEW w \in Thread
                 PROVE  2 < Away(w)
      OBVIOUS
    <3>1. thr[w].timer \in {0, 1}
      BY DEF IndInv, ThreadTypes, Records
    <3>2. QED
      BY <3>1 DEF Away
  <2>9. QED
    BY <1>7, <1>8, <2>1, <2>4, <2>5, <2>6, <2>7, <2>8, Sides DEF InTime
<1>14. QED
  BY <1>7, <1>9, <1>10, <1>12, <1>13 DEF Calm

LEMMA EndConnectCalm ==
  ASSUME IndInv, IndInv', Calm, NEW t \in Thread, EndConnect(t)
  PROVE  Calm'
<1>1. PICK x \in Side : x = thr[t].me
  BY DEF IndInv, ThreadTypes, Records
<1>2. /\ thr[t].job = "conn" /\ thr[t].at = "read" /\ req[x] = "end" /\ Go(t, "join") /\ Serves(t, x)
      /\ connected' = [connected EXCEPT ![x] = TRUE]
  BY <1>1 DEF EndConnect, Reads, At, Serves
<1>3. peer[x] = "ending" /\ thr[t].timer = 0
  BY <1>1, <1>2, Found
<1>4. connected'[x] /\ \A y \in Side : connected[y] => connected'[y]
  BY <1>2 DEF IndInv, Kinds
<1>5. ConnMoves(t, "join") /\ SameCopies /\ thr'[t].timer = 0
  BY <1>2, <1>3, ConnMoved DEF IndInv, ConnMoves
<1>6. UNCHANGED <<started, conn, req, rep, peer, rd, wr, rdBuf, wrBuf>>
  BY DEF EndConnect, asks, data
<1>7. (ByeSent' <=> ByeSent) /\ ByeLast'
  BY <1>5, <1>6, ByeKept DEF Calm, Active
<1>8. (Hosting' <=> Hosting) /\ (Live' <=> Live)
  BY <1>6, <1>7 DEF Hosting, Live, Active
<1>9. (Begun' <=> Begun) /\ (Stuck' <=> Stuck)
  BY <1>6, <1>8 DEF Begun, Stuck, Granted
<1>10. Opened'
  BY <1>6, <1>8, <1>9 DEF Calm, Opened, Bare
<1>11. \A u \in Thread, y \in Side : Serves(u, y)' <=> Serves(u, y)
  BY <1>5 DEF ConnMoves, Serves
<1>12. Marks'
  <2>1. \A y \in Side : Joined(y)' <=> Joined(y)
    BY <1>5 DEF SameCopies, Joined, Copies
  <2>2. Whole => Whole'
    BY <1>4, <1>5, <1>8, Sides DEF SameCopies, Whole
  <2>3. Connecting(x)'
    BY <1>2, <1>5, <1>11 DEF Connecting, ConnMoves
  <2>4. (x = "serv" => Hosting) /\ (x = "trap" => Live)
    BY <1>3 DEF Hosting, Live, Active
  <2>5. \A y \in Side : y # x => connected'[y] = connected[y]
    BY <1>2 DEF IndInv, Kinds
  <2>6. Joined("serv") \/ Joined("trap") => (Hosting \/ Live => Whole)
    BY DEF Calm, Marks
  <2>7. connected'["serv"] /\ connected'["trap"] => Connecting("serv")' \/ Connecting("trap")'
            \/ (Joined("serv")' /\ Joined("trap")')
    BY <2>3, Sides
  <2>8. connected'["serv"] => Joined("serv") \/ Hosting
    BY <2>4, <2>5, Sides DEF Calm, Marks
  <2>9. connected'["trap"] => Joined("trap") \/ Live \/ peer["serv"] = "off"
    BY <2>4, <2>5, Sides DEF Calm, Marks
  <2>10. QED
    BY <1>4, <1>6, <1>8, <2>1, <2>2, <2>6, <2>7, <2>8, <2>9, Sides DEF Calm, Marks
<1>13. Waits'
  BY <1>5, <1>6, <1>11 DEF Calm, Waits, Bare, ConnMoves
<1>14. Rests'
  BY <1>5 DEF Calm, Rests, ConnMoves
<1>15. Grants'
  BY <1>2, <1>5, <1>6, <1>9, <1>11, Sides DEF Calm, Grants, ConnMoves
<1>16. Timely'
  <2>1. ASSUME NEW u \in Thread, Serves(u, "serv")
        PROVE  Ready(u)' <= Ready(u)
    <3>1. CASE u # t
      BY <1>5, <1>6, <3>1, SameReady DEF IndInv, ConnMoves
    <3>2. CASE u = t
      BY <1>1, <1>2, <1>3, <1>5, <1>6, <2>1, <3>2 DEF ConnMoves, Ready, Bare, Serves
    <3>3. QED
      BY <3>1, <3>2
  <2>2. ASSUME NEW u \in Thread, Serves(u, "trap")
        PROVE  Left(u)' >= Left(u) /\ Away(u)' >= Away(u)
    <3>1. CASE u # t
      BY <1>5, <1>6, <3>1, SameLeft DEF IndInv, ConnMoves
    <3>2. CASE u = t
      BY <1>1, <1>2, <1>3, <1>5, <1>6, <2>2, <3>2 DEF ConnMoves, Left, Away, Serves
    <3>3. QED
      BY <3>1, <3>2
  <2>3. QED
    BY <1>6, <1>9, <1>11, <2>1, <2>2, TimelyKept, Sides DEF Calm, IndInv
<1>17. QED
  BY <1>7, <1>10, <1>12, <1>13, <1>14, <1>15, <1>16 DEF Calm

LEMMA CloseConnCalm ==
  ASSUME IndInv, IndInv', Calm, NEW t \in Thread, CloseConn(t)
  PROVE  Calm'
<1>1. PICK x \in Side : x = thr[t].me
  BY DEF IndInv, ThreadTypes, Records
<1>2. /\ thr[t].job = "conn" /\ thr[t].at = "close" /\ Go(t, "free") /\ Serves(t, x)
      /\ conn' = [conn EXCEPT ![x] = "none"] /\ rep' = [rep EXCEPT ![x] = "none"]
  BY <1>1 DEF CloseConn, At, Serves
<1>3. conn[x] = "eof"
  BY <1>2 DEF IndInv, AllServe, Serving, ServedBy
<1>4. peer[x] = "off" /\ rep[x] = "none"
  <2>1. Asks(x) /\ rep[x] \in {"none", "ack", "nack"}
    BY DEF IndInv, AllAsk, Kinds
  <2>2. QED
    BY <1>3, <2>1 DEF Asks
<1>5. UNCHANGED <<started, connected, req, rep, peer, data>> /\ \A y \in Side : y # x => conn'[y] = conn[y]
  BY <1>2, <1>4 DEF CloseConn, flags, IndInv, Kinds
<1>6. ConnMoves(t, "free") /\ SameCopies /\ thr'[t].timer = thr[t].timer
  BY <1>2, ConnMoved DEF IndInv, ConnMoves
<1>7. ByeLast' /\ Opened' /\ Marks' /\ (Begun' <=> Begun) /\ (Stuck' <=> Stuck)
  BY <1>2, <1>5, <1>6, Undisturbed
<1>8. \A u \in Thread, y \in Side : Serves(u, y)' <=> Serves(u, y)
  BY <1>6 DEF ConnMoves, Serves
<1>9. Waits'
  BY <1>5, <1>6, <1>8 DEF Calm, Waits, Bare, ConnMoves
<1>10. Rests'
  BY <1>2, <1>6 DEF Calm, Rests, ConnMoves
<1>11. Grants'
  BY <1>2, <1>5, <1>6, <1>7, <1>8, Sides DEF Calm, Grants, ConnMoves
<1>12. Timely'
  <2>1. ASSUME NEW u \in Thread, Serves(u, "serv"), peer["serv"] # "off"
        PROVE  Ready(u)' <= Ready(u)
    <3>1. u # t
      BY <1>2, <1>4, <2>1 DEF Serves
    <3>2. QED
      BY <1>5, <1>6, <3>1, SameReady DEF IndInv, ConnMoves
  <2>2. ASSUME NEW u \in Thread, Serves(u, "trap")
        PROVE  Left(u)' >= Left(u) /\ Away(u)' >= Away(u)
    <3>1. CASE u # t
      BY <1>5, <1>6, <3>1, SameLeft DEF IndInv, ConnMoves
    <3>2. CASE u = t
      <4>1. Left(t)' = Left(t)
        BY <1>2, <1>5, <1>6, Zenon DEF ConnMoves, Left, Granted
      <4>2. Away(t)' = Away(t)
        BY <1>2, <1>5, <1>6 DEF ConnMoves, Away
      <4>3. QED
        BY <3>2, <4>1, <4>2, Counts DEF IndInv
    <3>3. QED
      BY <3>1, <3>2
  <2>3. x = "trap" => Serves(t, "trap") /\ Away(t) <= 4
    <3>1. x = "trap" => req["trap"] = "none"
      BY <1>4 DEF Calm, Waits
    <3>2. x = "trap" => Away(t) = 4
      BY <1>2, <3>1 DEF Away
    <3>3. QED
      BY <1>2, <3>2
  <2>4. conn'["trap"] = "none" => conn["trap"] = "none" \/ x = "trap"
    BY <1>5, Sides
  <2>5. QED
    BY <1>5, <1>7, <1>8, <2>1, <2>2, <2>3, <2>4, TimelyKept, Sides DEF Calm, IndInv
<1>13. QED
  BY <1>7, <1>9, <1>10, <1>11, <1>12 DEF Calm

LEMMA FreeLinkCalm ==
  ASSUME IndInv, IndInv', Calm, NEW t \in Thread, FreeLink(t)
  PROVE  Calm'
<1>1. PICK x \in Side : x = thr[t].me
  BY DEF IndInv, ThreadTypes, Records
<1>2. thr[t].job = "conn" /\ thr[t].at = "free" /\ Serves(t, x)
  BY <1>1 DEF FreeLink, At, Serves
<1>3. /\ thr'[t].job = "idle" /\ thr'[t].timer = 0 /\ thr'[t].at = ""
      /\ \A u \in Thread : u # t => thr'[u] = thr[u]
  BY DEF IndInv, ThreadTypes, FreeLink, Idle
<1>4. SameCopies
  BY <1>2, <1>3 DEF SameCopies
<1>5. UNCHANGED <<started, connected, conn, req, rep, peer, rd, wr, rdBuf, wrBuf>>
  BY DEF FreeLink, flags, asks, data
<1>6. (ByeSent' <=> ByeSent) /\ ByeLast'
  BY <1>4, <1>5, ByeKept DEF Calm, Active
<1>7. (Hosting' <=> Hosting) /\ (Live' <=> Live)
  BY <1>5, <1>6 DEF Hosting, Live, Active
<1>8. \A y \in Side : Connecting(y) => Connecting(y)'
  BY <1>2, <1>3 DEF Connecting, Serves
<1>9. Marks'
  BY <1>4, <1>5, <1>7, <1>8, MarksKept DEF Calm
<1>10. (Begun' <=> Begun) /\ (Stuck' <=> Stuck)
  BY <1>5, <1>7 DEF Begun, Stuck, Granted
<1>11. Opened'
  BY <1>5, <1>7, <1>10 DEF Calm, Opened, Bare
<1>12. \A u \in Thread, y \in Side : Serves(u, y)' => Serves(u, y) /\ thr'[u] = thr[u]
  BY <1>3 DEF Serves
<1>13. Waits'
  BY <1>5, <1>12 DEF Calm, Waits, Bare
<1>14. Rests'
  BY <1>3 DEF Calm, Rests
<1>15. Grants'
  BY <1>5, <1>10, <1>12, Sides DEF Calm, Grants
<1>16. Timely'
  BY <1>5, <1>10, <1>12, SameReady, SameLeft, TimelyKept, Sides DEF Calm, IndInv
<1>17. QED
  BY <1>6, <1>9, <1>11, <1>13, <1>14, <1>15, <1>16 DEF Calm

(***************************************************************************)
(* The programs                                                            *)
(***************************************************************************)
\* A step of a program that does not change where its connection stands.
Stays(x) ==
  /\ Bare(x)' <=> Bare(x)
  /\ Granted(x)' <=> Granted(x)
  /\ \A l \in {"openWrite", "disco"} : peer'[x] = l <=> peer[x] = l
  /\ \A r \in {"end", "disco"} : req'[x] = r <=> req[x] = r
  /\ peer[x] = "disco" => rep'[x] = rep[x]

LEMMA StillThreads ==
  ASSUME UNCHANGED thr
  PROVE  /\ SameCopies /\ (Rests => Rests')
         /\ \A x \in Side : /\ Joined(x)' <=> Joined(x)
                            /\ Connecting(x)' <=> Connecting(x)
                            /\ \A u \in Thread : Serves(u, x)' <=> Serves(u, x)
BY DEF SameCopies, Rests, Joined, Connecting, Serves, Copies

LEMMA Spoken ==
  ASSUME IndInv, IndInv', Calm, \A x \in Side : Stays(x), UNCHANGED <<thr, started, connected, rd, wr>>,
         ByeLast', ByeSent' <=> ByeSent, Hosting' <=> Hosting, Active' <=> Active,
         peer["serv"] = "off" => peer'["serv"] = "off", conn'["trap"] = "none" => conn["trap"] = "none",
         Waits'
  PROVE  Calm'
<1>1. /\ SameCopies /\ Rests'
      /\ \A x \in Side : /\ Joined(x)' <=> Joined(x)
                         /\ Connecting(x)' <=> Connecting(x)
                         /\ \A u \in Thread : Serves(u, x)' <=> Serves(u, x)
  BY StillThreads DEF Calm
<1>2. Live' <=> Live
  BY Sides DEF Live, Stays
<1>3. (Begun' <=> Begun) /\ (Stuck' <=> Stuck)
  BY <1>2, Sides DEF Begun, Stuck, Stays
<1>4. Opened'
  BY <1>2, <1>3, Sides DEF Calm, Opened, Stays
<1>5. Marks'
  BY <1>1, <1>2, MarksKept, Sides DEF Calm, Stays
<1>6. Grants'
  BY <1>1, <1>3, Sides DEF Calm, Grants, Stays
<1>7. Timely'
  <2>1. \A u \in Thread : Ready(u)' <= Ready(u)
    <3> SUFFICES ASSUME NEW u \in Thread
                 PROVE  Ready(u)' <= Ready(u)
      OBVIOUS
    <3>1. Ready(u)' = Ready(u)
      BY Zenon, Sides DEF Ready, Stays
    <3>2. QED
      BY <3>1, Counts DEF IndInv
  <2>2. \A u \in Thread : Left(u)' >= Left(u) /\ Away(u)' >= Away(u)
    <3> SUFFICES ASSUME NEW u \in Thread
                 PROVE  Left(u)' >= Left(u) /\ Away(u)' >= Away(u)
      OBVIOUS
    <3>1. Left(u)' = Left(u) /\ Away(u)' = Away(u)
      BY Zenon, Sides DEF Left, Away, Stays
    <3>2. QED
      BY <3>1, Counts DEF IndInv
  <2>3. QED
    BY <1>1, <1>3, <2>1, <2>2, TimelyKept, Sides DEF Calm, IndInv
<1>8. QED
  BY <1>1, <1>4, <1>5, <1>6, <1>7 DEF Calm

LEMMA SpokenCalm ==
  ASSUME IndInv, IndInv', Calm, NEW x \in Side,
         LinkOpen(x) \/ Connect(x) \/ Asked(x) \/ Ended(x) \/ UnLink(x)
  PROVE  Calm'
<1>1. UNCHANGED <<thr, started, connected, rd, wr, rdBuf, wrBuf>>
  BY DEF LinkOpen, Connect, Asked, Ended, UnLink, flags, data
<1>2. Asks(x) /\ req[x] \in {"none", "connect", "end", "disco"} /\ rep[x] \in {"none", "ack", "nack"}
  BY DEF IndInv, AllAsk, Kinds
<1>3. /\ conn' = [conn EXCEPT ![x] = conn'[x]] /\ peer' = [peer EXCEPT ![x] = peer'[x]]
      /\ req' = [req EXCEPT ![x] = req'[x]] /\ rep' = [rep EXCEPT ![x] = rep'[x]]
  BY DEF LinkOpen, Connect, Asked, Ended, UnLink, Answered, Request, To, asks, IndInv, Kinds
<1>4. \A y \in Side : y # x => /\ conn'[y] = conn[y] /\ peer'[y] = peer[y]
                               /\ req'[y] = req[y] /\ rep'[y] = rep[y]
  BY <1>3 DEF IndInv, Kinds
<1>5. \/ peer[x] = "opening" /\ peer'[x] = "linked" /\ conn'[x] = "open" /\ req'[x] = req[x] /\ rep'[x] = rep[x]
      \/ peer[x] = "linked" /\ peer'[x] = "asked" /\ conn'[x] = conn[x] /\ req'[x] = "connect" /\ rep'[x] = rep[x]
      \/ /\ peer[x] = "asked" /\ rep[x] # "none" /\ rep'[x] = "none" /\ conn'[x] = conn[x] /\ req'[x] = req[x]
         /\ peer'[x] = IF rep[x] = "ack" THEN "openRead" ELSE "linked"
      \/ /\ peer[x] = "ending" /\ peer'[x] = "up" /\ rep[x] # "none" /\ rep'[x] = "none"
         /\ conn'[x] = conn[x] /\ req'[x] = req[x]
      \/ peer[x] = "linked" /\ peer'[x] = "off" /\ conn'[x] = "eof" /\ req'[x] = req[x] /\ rep'[x] = rep[x]
  BY DEF LinkOpen, Connect, Asked, Ended, UnLink, Answered, Request, Is, To, asks, IndInv, Kinds
<1>6. Stays(x)
  BY <1>2, <1>5 DEF Stays, Bare, Granted, Asks
<1>7. \A y \in Side : Stays(y)
  BY <1>4, <1>6 DEF Stays, Bare, Granted
<1>8. (Hosting' <=> Hosting) /\ (Active' <=> Active)
  BY <1>4, <1>5, Sides DEF Hosting, Active
<1>9. (ByeSent' <=> ByeSent) /\ ByeLast'
  BY <1>1, <1>8, StillThreads, ByeKept DEF Calm
<1>10. Waits'
  <2>1. Waits
    BY DEF Calm
  <2>2. ASSUME NEW y \in Side
        PROVE  /\ peer'[y] # "lost"
               /\ peer'[y] = "off" => req'[y] = "none"
               /\ peer'[y] = "asked" => req'[y] = "connect" \/ rep'[y] # "none"
               /\ peer'[y] = "ending" => req'[y] = "end" \/ rep'[y] # "none"
               /\ peer'[y] = "disco" => req'[y] = "disco" \/ rep'[y] # "none"
    BY <1>2, <1>4, <1>5, <2>1 DEF Waits, Asks
  <2>3. ASSUME NEW y \in Side, NEW u \in Thread, Serves(u, y)', thr'[u].at = "await"
        PROVE  Bare(y)' /\ rep'[y] = "none"
    <3>1. Bare(y) /\ rep[y] = "none"
      BY <1>1, <2>1, <2>3, StillThreads DEF Waits
    <3>2. rep'[y] = "none"
      BY <1>4, <1>5, <3>1
    <3>3. QED
      BY <1>7, <3>1, <3>2 DEF Stays
  <2>4. peer'["serv"] # "wait"
    BY <1>4, <1>5, <2>1, Sides DEF Waits
  <2>5. QED
    BY <2>2, <2>3, <2>4 DEF Waits
<1>11. (peer["serv"] = "off" => peer'["serv"] = "off") /\ (conn'["trap"] = "none" => conn["trap"] = "none")
  BY <1>4, <1>5, Sides
<1>12. QED
  BY <1>1, <1>7, <1>8, <1>9, <1>10, <1>11, Spoken

LEMMA NotLost ==
  ASSUME Calm, NEW x \in Side
  PROVE  ~Lost(x)
BY Sides DEF Calm, Opened, Hosting, Live, Active, Lost, Is, Broken

LEMMA RepliedCalm ==
  ASSUME IndInv, IndInv', Calm, Replied
  PROVE  Calm'
<1>1. UNCHANGED <<thr, started, connected, conn, req, rep, rd, wr, wrBuf>>
  BY DEF Replied, flags, asks
<1>2. /\ rdBuf'["serv"] = rdBuf["serv"] /\ peer["trap"] = "wait" /\ peer'["trap"] = "up"
      /\ peer'["serv"] = peer["serv"]
  BY Sides DEF Replied, Is, To, IndInv, Kinds
<1>3. \A y \in Side : Stays(y)
  BY <1>1, <1>2, Sides DEF Stays, Bare, Granted
<1>4. (Hosting' <=> Hosting) /\ (Active' <=> Active)
  BY <1>2 DEF Hosting, Active
<1>5. (ByeSent' <=> ByeSent) /\ ByeLast'
  BY <1>1, <1>2, <1>4, StillThreads, ByeKept DEF Calm
<1>6. Waits'
  BY <1>1, <1>2, <1>3, StillThreads, Sides DEF Calm, Waits, Stays
<1>7. QED
  BY <1>1, <1>2, <1>3, <1>4, <1>5, <1>6, Spoken

LEMMA AskCalm ==
  ASSUME IndInv, IndInv', Calm, Ask
  PROVE  Calm'
<1>1. UNCHANGED <<thr, started, connected, conn, req, rep, rd, wr, rdBuf>>
  BY DEF Ask, flags, asks
<1>2. /\ wrBuf'["trap"] = Append(wrBuf["trap"], <<"req", conns>>) /\ wrBuf["trap"] \in Seq(Msg)
      /\ peer["trap"] = "up" /\ peer'["trap"] = "wait" /\ peer'["serv"] = peer["serv"]
  BY Sides DEF Ask, Is, To, IndInv, Kinds
<1>3. \A y \in Side : Stays(y)
  BY <1>1, <1>2, Sides DEF Stays, Bare, Granted
<1>4. (Hosting' <=> Hosting) /\ (Active' <=> Active) /\ Active
  BY <1>2 DEF Hosting, Active
<1>5. (ByeSent' <=> ByeSent) /\ ByeLast'
  <2>1. ~ByeSent
    BY <1>4 DEF Calm, ByeLast
  <2>2. ~ByeIn(wrBuf'["trap"])
    <3>1. \A i \in DOMAIN wrBuf["trap"] : wrBuf["trap"][i][1] # "bye"
      BY <2>1 DEF ByeSent, ByeIn
    <3>2. \A i \in DOMAIN wrBuf'["trap"] : \/ i \in DOMAIN wrBuf["trap"] /\ wrBuf'["trap"][i] = wrBuf["trap"][i]
                                          \/ wrBuf'["trap"][i] = <<"req", conns>>
      BY <1>2
    <3>3. QED
      BY <3>1, <3>2 DEF ByeIn
  <2>3. ~ByeSent'
    BY <1>1, <2>1, <2>2 DEF ByeSent, Bears, Copies
  <2>4. ByeLast'
    BY <1>1, <2>2, <2>3 DEF ByeLast, ByeSent, ByeIn
  <2>5. QED
    BY <2>1, <2>3, <2>4
<1>6. Waits'
  BY <1>1, <1>2, <1>3, StillThreads, Sides DEF Calm, Waits, Stays
<1>7. QED
  BY <1>1, <1>2, <1>3, <1>4, <1>5, <1>6, Spoken

\* The bounds on the sleeps, when only a program and its request have changed.
LEMMA InStep ==
  ASSUME IndInv, IndInv', Calm, UNCHANGED thr, Begun' <=> Begun, Stuck' <=> Stuck,
         peer["serv"] = "off" => peer'["serv"] = "off", conn'["trap"] = "none" => conn["trap"] = "none",
         \A u \in Thread : /\ Serves(u, "serv") => Ready(u)' = Ready(u)
                           /\ Serves(u, "trap") => IF Begun THEN Left(u)' = Left(u) ELSE Away(u)' = Away(u)
  PROVE  Timely'
<1>1. \A x \in Side, u \in Thread : Serves(u, x)' <=> Serves(u, x)
  BY StillThreads
<1>2. \A u \in Thread : Serves(u, "serv") => Ready(u)' <= Ready(u)
  BY Counts DEF IndInv
<1>3. \A u \in Thread : Serves(u, "trap") =>
        (Begun => Left(u)' >= Left(u)) /\ (~Begun => Away(u)' >= Away(u))
  BY Counts DEF IndInv
<1>4. QED
  BY <1>1, <1>2, <1>3, TimelyKept, Sides DEF Calm, IndInv

LEMMA OpenReadCalm ==
  ASSUME IndInv, IndInv', Calm, NEW x \in Side, OpenRead(x)
  PROVE  Calm'
<1>1. UNCHANGED <<thr, started, connected, conn, req, rep, wr, rdBuf, wrBuf>>
  BY DEF OpenRead, flags, asks
<1>2. /\ peer[x] = "openRead" /\ peer'[x] = "openWrite" /\ rd[x] = "listening" /\ rd'[x] = "open"
      /\ \A y \in Side : y # x => peer'[y] = peer[y] /\ rd'[y] = rd[y]
  BY DEF OpenRead, Is, To, IndInv, Kinds
<1>3. (Hosting' <=> Hosting) /\ (Active' <=> Active) /\ (peer'["trap"] = "disco" <=> peer["trap"] = "disco")
  BY <1>2, Sides DEF Hosting, Active
<1>4. (ByeSent' <=> ByeSent) /\ ByeLast' /\ (Live' <=> Live)
  <2>1. (ByeSent' <=> ByeSent) /\ ByeLast'
    BY <1>1, <1>3, StillThreads, ByeKept DEF Calm
  <2>2. QED
    BY <1>3, <2>1 DEF Live
<1>5. (Begun' <=> Begun) /\ (Stuck' <=> Stuck)
  <2>1. CASE x = "serv"
    BY <1>1, <1>2, <1>4, <2>1, Sides DEF Begun, Stuck, Granted
  <2>2. CASE x = "trap"
    BY <1>1, <1>2, <1>4, <2>2, Sides DEF Begun, Stuck, Granted
  <2>3. QED
    BY <2>1, <2>2, Sides
<1>6. Opened'
  <2>1. \A y \in Side : rd'[y] = "none" <=> rd[y] = "none"
    BY <1>2
  <2>2. \A y \in Side : wr'[y] = "none" <=> rd'[Him(y)] = "none"
    BY <1>1, <2>1, Sides DEF Calm, Opened
  <2>3. CASE x = "serv"
    BY <1>1, <1>2, <1>3, <1>4, <1>5, <2>2, <2>3, Sides DEF Calm, Opened, Bare
  <2>4. CASE x = "trap"
    BY <1>1, <1>2, <1>3, <1>4, <1>5, <2>2, <2>4, Sides DEF Calm, Opened, Bare
  <2>5. QED
    BY <2>3, <2>4, Sides
<1>7. Marks'
  BY <1>1, <1>2, <1>3, <1>4, StillThreads, MarksKept, Sides DEF Calm
<1>8. Waits'
  BY <1>1, <1>2, StillThreads, Sides DEF Calm, Waits, Bare
<1>9. Rests' /\ Grants'
  BY <1>1, <1>3, <1>5, StillThreads, Sides DEF Calm, Grants
<1>10. Timely'
  <2>1. \A u \in Thread : Ready(u)' = Ready(u)
    BY <1>1, <1>2, Sides, Zenon DEF Ready, Bare, Granted
  <2>2. \A u \in Thread : Left(u)' = Left(u) /\ Away(u)' = Away(u)
    BY <1>1, <1>2, Sides, Zenon DEF Left, Away, Granted
  <2>3. QED
    BY <1>1, <1>2, <1>5, <2>1, <2>2, InStep, Sides
<1>11. QED
  BY <1>4, <1>6, <1>7, <1>8, <1>9, <1>10 DEF Calm

LEMMA OpenWriteCalm ==
  ASSUME IndInv, IndInv', Calm, NEW x \in Side, OpenWrite(x)
  PROVE  Calm'
<1>1. UNCHANGED <<thr, started, connected, conn, rep, rd, rdBuf, wrBuf>>
  BY DEF OpenWrite, flags
<1>2. /\ peer[x] = "openWrite" /\ peer'[x] = "ending" /\ wr[x] = "listening" /\ wr'[x] = "open" /\ req'[x] = "end"
      /\ \A y \in Side : y # x => peer'[y] = peer[y] /\ wr'[y] = wr[y] /\ req'[y] = req[y]
  BY DEF OpenWrite, Is, To, Request, IndInv, Kinds
<1>3. ~Joined(x) /\ ~Joined(Him(x))
  <2>1. ~Joined(x)' /\ ~Joined(Him(x))'
    BY <1>2 DEF IndInv, AllPipes, Pipes
  <2>2. QED
    BY <1>1, <2>1, StillThreads, Sides
<1>4. x = "trap" => ~ByeSent
  <2> SUFFICES ASSUME x = "trap"
               PROVE  ~ByeSent
    OBVIOUS
  <2>1. wrBuf["trap"] = <<>> /\ rdBuf["serv"] = <<>>
    BY <1>2, <1>3, Sides DEF IndInv, Stored, Held
  <2>2. \A u \in Thread : ~Bears(u)
    BY <1>3, Sides DEF Joined, Bears
  <2>3. QED
    BY <2>1, <2>2 DEF ByeSent, ByeIn
<1>5. (ByeSent' <=> ByeSent) /\ ByeLast'
  <2>1. ByeSent' <=> ByeSent
    BY <1>1 DEF ByeSent, Bears, Copies
  <2>2. ByeSent => ~Active'
    BY <1>2, <1>4, Sides DEF Calm, ByeLast, Active
  <2>3. QED
    BY <1>1, <2>1, <2>2 DEF Calm, ByeLast, Bears, Copies
<1>6. /\ Hosting' <=> Hosting \/ x = "serv"
      /\ Live' <=> Live \/ x = "trap"
  BY <1>2, <1>5, Sides DEF Hosting, Live, Active
<1>7. (Begun' <=> Begun) /\ (Stuck' <=> Stuck)
  <2>1. CASE x = "serv"
    BY <1>1, <1>2, <1>6, <2>1, Sides DEF Begun, Stuck, Granted
  <2>2. CASE x = "trap"
    BY <1>1, <1>2, <1>6, <2>2, Sides DEF Begun, Stuck, Granted
  <2>3. QED
    BY <2>1, <2>2, Sides
<1>8. Opened'
  <2>1. \A y \in Side : wr'[y] = "none" <=> wr[y] = "none"
    BY <1>2
  <2>2. \A y \in Side : wr'[y] = "none" <=> rd'[Him(y)] = "none"
    BY <1>1, <2>1 DEF Calm, Opened
  <2>3. CASE x = "serv"
    BY <1>1, <1>2, <1>6, <1>7, <2>2, <2>3, Sides DEF Calm, Opened, Bare
  <2>4. CASE x = "trap"
    BY <1>1, <1>2, <1>6, <1>7, <2>2, <2>4, Sides DEF Calm, Opened, Bare
  <2>5. QED
    BY <2>3, <2>4, Sides
<1>9. Marks'
  <2>1. \A y \in Side : ~Joined(y) /\ ~Joined(y)' /\ (Connecting(y)' <=> Connecting(y))
    BY <1>1, <1>3, StillThreads, Sides
  <2>2. peer["serv"] = "off" => peer'["serv"] = "off"
    BY <1>2, Sides
  <2>3. QED
    BY <1>1, <1>2, <1>6, <2>1, <2>2, Sides DEF Calm, Marks
<1>10. Waits'
  BY <1>1, <1>2, StillThreads, Sides DEF Calm, Waits, Bare
<1>11. Rests' /\ Grants'
  BY <1>1, <1>2, <1>7, StillThreads, Sides DEF Calm, Grants
<1>12. Timely'
  <2>1. req[x] = "none" /\ rep[x] = "none"
    BY <1>2 DEF IndInv, AllAsk, Asks, Kinds
  <2>2. \A u \in Thread : Ready(u)' = Ready(u)
    BY <1>1, <1>2, <2>1, Sides, Zenon DEF Ready, Bare, Granted
  <2>3. \A u \in Thread : Left(u)' = Left(u) /\ Away(u)' = Away(u)
    BY <1>1, <1>2, <2>1, Sides, Zenon DEF Left, Away, Granted
  <2>4. QED
    BY <1>1, <1>2, <1>7, <2>2, <2>3, InStep, Sides
<1>13. QED
  BY <1>5, <1>8, <1>9, <1>10, <1>11, <1>12 DEF Calm

\* The kinds of what is left of a queue, and of what was put into it.
LEMMA Queues ==
  /\ ~ByeIn(<<>>)
  /\ \A s \in Seq(Msg) : s # <<>> =>
       /\ Tail(s) \in Seq(Msg) /\ (ByeIn(s) <=> Head(s)[1] = "bye" \/ ByeIn(Tail(s)))
       /\ (\A i \in DOMAIN s : s[i][1] = "bye" => i = Len(s)) =>
            /\ \A i \in DOMAIN Tail(s) : Tail(s)[i][1] = "bye" => i = Len(Tail(s))
            /\ Head(s)[1] = "bye" => Tail(s) = <<>>
  /\ \A s \in Seq(Msg), m \in Msg :
       /\ ByeIn(Append(s, m)) <=> ByeIn(s) \/ m[1] = "bye"
       /\ ~ByeIn(s) => \A i \in DOMAIN Append(s, m) : Append(s, m)[i][1] = "bye" => i = Len(Append(s, m))
<1>1. ~ByeIn(<<>>)
  BY DEF ByeIn
<1>2. ASSUME NEW s \in Seq(Msg), s # <<>>
      PROVE  /\ Tail(s) \in Seq(Msg) /\ (ByeIn(s) <=> Head(s)[1] = "bye" \/ ByeIn(Tail(s)))
             /\ (\A i \in DOMAIN s : s[i][1] = "bye" => i = Len(s)) =>
                  /\ \A i \in DOMAIN Tail(s) : Tail(s)[i][1] = "bye" => i = Len(Tail(s))
                  /\ Head(s)[1] = "bye" => Tail(s) = <<>>
  <2> DEFINE q == Tail(s)
  <2>1. /\ q \in Seq(Msg) /\ Head(s) = s[1] /\ Len(s) \in Nat /\ Len(s) > 0 /\ Len(q) = Len(s) - 1
        /\ DOMAIN s = 1 .. Len(s) /\ DOMAIN q = 1 .. Len(q)
    BY <1>2
  <2>2. \A i \in DOMAIN q : q[i] = s[i + 1]
    BY <1>2
  <2> HIDE DEF q
  <2>3. Len(q) = 0 => q = <<>>
    BY <2>1
  <2>4. ByeIn(s) => Head(s)[1] = "bye" \/ ByeIn(q)
    <3> SUFFICES ASSUME NEW i \in DOMAIN s, s[i][1] = "bye", i # 1
                 PROVE  ByeIn(q)
      BY <2>1 DEF ByeIn
    <3>1. i - 1 \in DOMAIN q /\ (i - 1) + 1 = i
      BY <2>1
    <3>2. QED
      BY <2>2, <3>1 DEF ByeIn
  <2>5. Head(s)[1] = "bye" \/ ByeIn(q) => ByeIn(s)
    <3>1. 1 \in DOMAIN s /\ \A i \in DOMAIN q : i + 1 \in DOMAIN s
      BY <2>1
    <3>2. QED
      BY <2>1, <2>2, <3>1 DEF ByeIn
  <2>6. ASSUME \A i \in DOMAIN s : s[i][1] = "bye" => i = Len(s)
        PROVE  /\ \A i \in DOMAIN q : q[i][1] = "bye" => i = Len(q)
               /\ Head(s)[1] = "bye" => q = <<>>
    BY <2>1, <2>2, <2>3, <2>6
  <2>7. QED
    BY <2>1, <2>4, <2>5, <2>6 DEF q
<1>3. ASSUME NEW s \in Seq(Msg), NEW m \in Msg
      PROVE  /\ ByeIn(Append(s, m)) <=> ByeIn(s) \/ m[1] = "bye"
             /\ ~ByeIn(s) => \A i \in DOMAIN Append(s, m) : Append(s, m)[i][1] = "bye" => i = Len(Append(s, m))
  <2> DEFINE q == Append(s, m)
  <2>1. /\ Len(s) \in Nat /\ Len(q) = Len(s) + 1 /\ q[Len(s) + 1] = m /\ \A i \in 1 .. Len(s) : q[i] = s[i]
        /\ DOMAIN s = 1 .. Len(s) /\ DOMAIN q = 1 .. Len(q)
    OBVIOUS
  <2> HIDE DEF q
  <2>2. DOMAIN q = DOMAIN s \cup {Len(q)} /\ q[Len(q)] = m /\ \A i \in DOMAIN s : q[i] = s[i]
    BY <2>1
  <2>3. (ByeIn(q) <=> ByeIn(s) \/ m[1] = "bye") /\ (~ByeIn(s) => \A i \in DOMAIN q : q[i][1] = "bye" => i = Len(q))
    BY <2>2 DEF ByeIn
  <2>4. QED
    BY <2>3 DEF q
<1>4. QED
  BY <1>1, <1>2, <1>3

LEMMA ByeCalm ==
  ASSUME IndInv, IndInv', Calm, Bye
  PROVE  Calm'
<1>1. UNCHANGED <<thr, started, connected, conn, rep, rd, wr, rdBuf>>
  BY DEF Bye, flags
<1>2. /\ wrBuf'["trap"] = Append(wrBuf["trap"], <<"bye", conns>>) /\ wrBuf["trap"] \in Seq(Msg)
      /\ <<"bye", conns>> \in Msg
      /\ peer["trap"] = "up" /\ peer'["trap"] = "disco" /\ peer'["serv"] = peer["serv"]
      /\ req'["trap"] = "disco" /\ req'["serv"] = req["serv"]
  BY Sides DEF Bye, Is, To, Request, IndInv, Kinds, Msg
<1>3. req["trap"] = "none" /\ rep["trap"] = "none"
  BY <1>2, Sides DEF IndInv, AllAsk, Asks, Kinds
<1>4. ~ByeSent /\ Live /\ Begun
  BY <1>2 DEF Calm, ByeLast, Live, Begun, Active
<1>5. ByeSent' /\ ByeLast'
  <2>1. ~ByeIn(wrBuf["trap"]) /\ ~ByeIn(rdBuf["serv"]) /\ \A u \in Thread : Bears(u) => thr[u].msg[1] # "bye"
    BY <1>4 DEF ByeSent
  <2>2. /\ ByeIn(wrBuf'["trap"]) /\ ~ByeIn(rdBuf'["serv"])
        /\ \A i \in DOMAIN wrBuf'["trap"] : wrBuf'["trap"][i][1] = "bye" => i = Len(wrBuf'["trap"])
    BY <1>1, <1>2, <2>1, Queues
  <2>3. \A u \in Thread : Bears(u)' => thr'[u].msg[1] # "bye"
    BY <1>1, <2>1 DEF Bears, Copies
  <2>4. QED
    BY <1>1, <1>2, <2>2, <2>3 DEF ByeLast, ByeSent, ByeIn, Active
<1>6. Live' /\ Begun' /\ (Hosting' <=> Hosting) /\ ~Stuck /\ ~Stuck'
  BY <1>2, <1>4, <1>5 DEF Live, Begun, Hosting, Stuck
<1>7. Opened'
  BY <1>1, <1>2, <1>4, <1>6 DEF Calm, Opened, Bare
<1>8. Marks'
  BY <1>1, <1>2, <1>3, <1>4, <1>6, StillThreads, MarksKept, Sides DEF Calm
<1>9. Waits'
  <2>1. \A y \in Side : y = "serv" \/ y = "trap"
    BY Sides
  <2>2. QED
    BY <1>1, <1>2, <2>1, StillThreads DEF Calm, Waits, Bare
<1>10. Rests' /\ Grants'
  BY <1>1, <1>3, <1>4, StillThreads, Sides DEF Calm, Grants
<1>11. Timely'
  <2>1. \A u \in Thread : Ready(u)' = Ready(u)
    BY <1>1, <1>2, Zenon DEF Ready, Bare, Granted
  <2>2. \A u \in Thread : Left(u)' = Left(u)
    BY <1>1, <1>2, <1>3 DEF Left, Granted
  <2>3. QED
    BY <1>1, <1>2, <1>4, <1>6, <2>1, <2>2, InStep
<1>12. QED
  BY <1>5, <1>7, <1>8, <1>9, <1>10, <1>11 DEF Calm

\* A debugger that may hang up has left a server that knows of its end.
LEMMA HungUp ==
  ASSUME IndInv, Calm, peer["trap"] = "disco", rep["trap"] # "none", peer["serv"] # "off"
  PROVE  ~Begun
<1>1. PICK t \in Thread : Serves(t, "serv")
  BY Sides DEF IndInv, AllServe, Serving, AllAsk, Asks
<1>2. PICK u \in Thread : Serves(u, "trap")
  BY Sides DEF IndInv, AllServe, Serving, AllAsk, Asks
<1>3. Left(u) = 0 /\ Ready(t) \in Nat
  BY Counts DEF Left, IndInv
<1>4. QED
  BY <1>1, <1>2, <1>3 DEF Calm, Timely, InTime

LEMMA DiscoedServ ==
  ASSUME IndInv, IndInv', Calm, Discoed("serv")
  PROVE  Calm'
<1>1. /\ UNCHANGED <<thr, started, connected, conn, req, wrBuf>>
      /\ peer["serv"] = "disco" /\ rep["serv"] # "none"
      /\ peer' = [peer EXCEPT !["serv"] = "linked"] /\ rep' = [rep EXCEPT !["serv"] = "none"]
      /\ rd' = [rd EXCEPT !["serv"] = IF @ = "open" THEN "eof" ELSE @]
      /\ wr' = [wr EXCEPT !["serv"] = IF @ = "open" THEN "eof" ELSE @]
      /\ rdBuf' = [rdBuf EXCEPT !["serv"] = <<>>]
  BY DEF Discoed, Answered, Is, To, Hangup, flags
<1>2. /\ peer'["serv"] = "linked" /\ peer'["trap"] = peer["trap"]
      /\ rep'["serv"] = "none" /\ rep'["trap"] = rep["trap"]
      /\ rd'["serv"] = (IF rd["serv"] = "open" THEN "eof" ELSE rd["serv"]) /\ rd'["trap"] = rd["trap"]
      /\ wr'["serv"] = (IF wr["serv"] = "open" THEN "eof" ELSE wr["serv"]) /\ wr'["trap"] = wr["trap"]
      /\ rdBuf'["serv"] = <<>>
  BY <1>1, Sides DEF IndInv, Kinds
<1>3. req["serv"] = "none"
  BY <1>1, Sides DEF IndInv, AllAsk, Asks, Kinds
<1>4. ~Hosting /\ ~Hosting' /\ (Active' <=> Active)
  BY <1>1, <1>2 DEF Hosting, Active
<1>5. Live => rdBuf["serv"] = <<>>
  <2>1. rdBuf["serv"] # <<>> => Joined("trap")
    BY Sides DEF IndInv, Stored
  <2>2. QED
    BY <1>4, <2>1 DEF Calm, Marks, Whole
<1>6. (\A u \in Thread : Bears(u)' <=> Bears(u)) /\ (ByeSent' => ByeSent)
  BY <1>1, <1>2 DEF ByeSent, Bears, Copies, ByeIn
<1>7. ByeLast'
  BY <1>1, <1>2, <1>4, <1>6 DEF Calm, ByeLast, ByeIn
<1>8. Live' <=> Live
  BY <1>1, <1>2, <1>4, <1>5, <1>6 DEF Live, ByeSent, ByeIn
<1>9. (Begun' <=> Begun) /\ (Stuck' <=> Stuck)
  BY <1>2, <1>8 DEF Begun, Stuck, Granted
<1>10. Opened'
  <2>1. \A y \in Side : (rd'[y] = "none" <=> rd[y] = "none") /\ (wr'[y] = "none" <=> wr[y] = "none")
    BY <1>2, Sides
  <2>2. \A y \in Side : wr'[y] = "none" <=> rd'[Him(y)] = "none"
    BY <2>1, Sides DEF Calm, Opened
  <2>3. QED
    BY <1>1, <1>2, <1>4, <1>8, <1>9, <2>2 DEF Calm, Opened, Bare
<1>11. Marks'
  BY <1>1, <1>4, <1>8, StillThreads, MarksKept DEF Calm
<1>12. Waits'
  <2>1. \A u \in Thread : Serves(u, "serv")' /\ thr'[u].at = "await" => Bare("serv")' /\ rep'["serv"] = "none"
    BY <1>2 DEF Bare
  <2>2. QED
    BY <1>1, <1>2, <2>1, StillThreads, Sides DEF Calm, Waits, Bare
<1>13. Rests' /\ Grants'
  BY <1>1, <1>2, <1>9, StillThreads, Sides DEF Calm, Grants
<1>14. Timely'
  <2>1. \A u \in Thread : Ready(u)' = Ready(u)
    BY <1>1, <1>2, <1>3, Zenon DEF Ready, Bare
  <2>2. \A u \in Thread : Left(u)' = Left(u) /\ Away(u)' = Away(u)
    BY <1>1, <1>2, Zenon DEF Left, Away, Granted
  <2>3. QED
    BY <1>1, <1>2, <1>9, <2>1, <2>2, InStep
<1>15. QED
  BY <1>7, <1>10, <1>11, <1>12, <1>13, <1>14 DEF Calm

LEMMA DiscoedTrap ==
  ASSUME IndInv, IndInv', Calm, Discoed("trap")
  PROVE  Calm'
<1>1. /\ UNCHANGED <<thr, started, connected, conn, req, wrBuf>>
      /\ peer["trap"] = "disco" /\ rep["trap"] # "none"
      /\ peer' = [peer EXCEPT !["trap"] = "linked"] /\ rep' = [rep EXCEPT !["trap"] = "none"]
      /\ rd' = [rd EXCEPT !["trap"] = IF @ = "open" THEN "eof" ELSE @]
      /\ wr' = [wr EXCEPT !["trap"] = IF @ = "open" THEN "eof" ELSE @]
      /\ rdBuf' = [rdBuf EXCEPT !["trap"] = <<>>]
  BY DEF Discoed, Answered, Is, To, Hangup, flags
<1>2. /\ peer'["trap"] = "linked" /\ peer'["serv"] = peer["serv"]
      /\ rep'["trap"] = "none" /\ rep'["serv"] = rep["serv"]
      /\ rd'["trap"] = (IF rd["trap"] = "open" THEN "eof" ELSE rd["trap"]) /\ rd'["serv"] = rd["serv"]
      /\ wr'["trap"] = (IF wr["trap"] = "open" THEN "eof" ELSE wr["trap"]) /\ wr'["serv"] = wr["serv"]
      /\ rdBuf'["serv"] = rdBuf["serv"]
      /\ rd["trap"] \in PipeState /\ wr["trap"] \in PipeState
  BY <1>1, Sides DEF IndInv, Kinds
<1>3. ~Active /\ ~Active' /\ (Hosting' <=> Hosting)
  BY <1>1, <1>2 DEF Hosting, Active
<1>4. (ByeSent' <=> ByeSent) /\ ByeLast'
  BY <1>1, <1>2, <1>3, StillThreads, ByeKept DEF Calm
<1>5. ~Live' /\ ~Begun' /\ ~Stuck' /\ ~Stuck
  BY <1>1, <1>2, <1>3 DEF Live, Begun, Stuck, Granted
<1>6. peer["serv"] # "off" => ~Begun /\ ~Live
  BY <1>1, HungUp DEF Begun
<1>7. Opened'
  <2>1. \A y \in Side : (rd'[y] = "none" <=> rd[y] = "none") /\ (wr'[y] = "none" <=> wr[y] = "none")
    BY <1>2, Sides
  <2>2. \A y \in Side : wr'[y] = "none" <=> rd'[Him(y)] = "none"
    BY <2>1, Sides DEF Calm, Opened
  <2>3. rd["trap"] # "listening" /\ wr["trap"] # "listening"
    BY <1>1 DEF Calm, Opened
  <2>4. QED
    BY <1>1, <1>2, <1>3, <1>5, <2>2, <2>3 DEF Calm, Opened, PipeState
<1>8. Marks'
  <2>1. Hosting => ~Live
    BY <1>6 DEF Hosting
  <2>2. \A y \in Side : (Joined(y)' <=> Joined(y)) /\ (Connecting(y)' <=> Connecting(y))
    BY <1>1, StillThreads
  <2>3. QED
    BY <1>1, <1>2, <1>3, <1>5, <1>6, <2>1, <2>2, Sides DEF Calm, Marks, Whole
<1>9. Waits'
  <2>1. \A u \in Thread : Serves(u, "trap")' /\ thr'[u].at = "await" => Bare("trap")' /\ rep'["trap"] = "none"
    BY <1>2 DEF Bare
  <2>2. QED
    BY <1>1, <1>2, <2>1, StillThreads, Sides DEF Calm, Waits, Bare
<1>10. Rests' /\ Grants'
  BY <1>1, <1>5, StillThreads DEF Calm, Grants
<1>11. Timely'
  <2>1. \A u \in Thread : Ready(u)' = Ready(u) /\ Away(u)' = Away(u)
    BY <1>1, <1>2, Zenon DEF Ready, Bare, Granted, Away
  <2>2. CASE peer["serv"] = "off"
    BY <1>2, <2>2 DEF Timely
  <2>3. CASE peer["serv"] # "off"
    BY <1>1, <1>2, <1>5, <1>6, <2>1, <2>3, InStep
  <2>4. QED
    BY <2>2, <2>3
<1>12. QED
  BY <1>4, <1>7, <1>8, <1>9, <1>10, <1>11 DEF Calm

LEMMA ServeCalm ==
  ASSUME IndInv, IndInv', Calm, Serve
  PROVE  Calm'
<1>1. UNCHANGED <<thr, started, connected, conn, rep, rd, wr>>
  BY DEF Serve, flags
<1>2. /\ rdBuf["serv"] \in Seq(Msg) /\ rdBuf["serv"] # <<>> /\ rdBuf'["serv"] = Tail(rdBuf["serv"])
      /\ peer["serv"] = "up" /\ wrBuf'["trap"] = wrBuf["trap"]
  BY Sides DEF Serve, Is, IndInv, Kinds
<1>3. CASE Head(rdBuf["serv"])[1] # "bye"
  <2>1. UNCHANGED <<req, peer>>
    BY <1>3 DEF Serve
  <2>2. \A y \in Side : Stays(y)
    BY <1>1, <2>1 DEF Stays, Bare, Granted
  <2>3. ByeIn(rdBuf'["serv"]) <=> ByeIn(rdBuf["serv"])
    BY <1>2, <1>3, Queues
  <2>4. ByeSent' <=> ByeSent
    BY <1>1, <1>2, <2>3 DEF ByeSent, ByeIn, Bears, Copies
  <2>5. ByeLast'
    <3>1. \A i \in DOMAIN rdBuf'["serv"] : rdBuf'["serv"][i][1] = "bye" => i = Len(rdBuf'["serv"])
      BY <1>2, Queues DEF Calm, ByeLast
    <3>2. (\A u \in Thread : Bears(u)' <=> Bears(u)) /\ (Active' <=> Active)
      BY <1>1, <2>1 DEF Bears, Copies, Active
    <3>3. QED
      BY <1>1, <1>2, <2>3, <2>4, <3>1, <3>2 DEF Calm, ByeLast, ByeIn
  <2>6. Waits'
    BY <1>1, <2>1, StillThreads DEF Calm, Waits, Bare
  <2>7. QED
    BY <1>1, <2>1, <2>2, <2>4, <2>5, <2>6, Spoken DEF Hosting, Active
<1>4. CASE Head(rdBuf["serv"])[1] = "bye"
  <2>1. /\ req'["serv"] = "disco" /\ req'["trap"] = req["trap"]
        /\ peer'["serv"] = "disco" /\ peer'["trap"] = peer["trap"]
    BY <1>4, Sides DEF Serve, Request, To, IndInv, Kinds
  <2>2. ByeIn(rdBuf["serv"]) /\ ByeSent /\ rdBuf'["serv"] = <<>>
    BY <1>2, <1>4, Queues DEF Calm, ByeLast, ByeSent
  <2>3. ~ByeSent' /\ ByeLast'
    <3>1. wrBuf["trap"] = <<>> /\ \A u \in Thread : ~Bears(u)
      BY <2>2 DEF Calm, ByeLast
    <3>2. \A s \in {wrBuf'["trap"], rdBuf'["serv"]} : DOMAIN s = {}
      <4>1. wrBuf'["trap"] = <<>> /\ rdBuf'["serv"] = <<>>
        BY <1>2, <2>2, <3>1
      <4>2. DOMAIN (<<>>) = {}
        OBVIOUS
      <4>3. QED
        BY <4>1, <4>2
    <3>3. \A u \in Thread : ~Bears(u)'
      BY <1>1, <3>1 DEF Bears, Copies
    <3>4. ~ByeSent'
      BY <3>2, <3>3 DEF ByeSent, ByeIn
    <3>5. QED
      BY <3>2, <3>3, <3>4 DEF ByeLast, ByeIn
  <2>4. Whole /\ peer["trap"] = "disco"
    <3>1. Joined("trap")
      BY <1>2, Sides DEF IndInv, Stored
    <3>2. Whole
      BY <1>2, <3>1 DEF Calm, Marks, Hosting
    <3>3. QED
      BY <2>2, <3>2 DEF Whole, Live, Calm, ByeLast
  <2>5. ~Hosting' /\ ~Live' /\ ~Begun' /\ ~Stuck' /\ Begun
    BY <2>1, <2>3, <2>4 DEF Hosting, Live, Active, Begun, Stuck, Granted, Whole
  <2>6. Joined("serv") /\ Joined("trap")
    <3>1. ~Connecting("serv") /\ ~Connecting("trap")
      <4>1. \A y \in Side : Connecting(y) => req[y] = "end"
        BY DEF Connecting, IndInv, AllServe, Serving, ServedBy
      <4>2. req["serv"] # "end" /\ req["trap"] # "end"
        BY <1>2, <2>4, Sides DEF IndInv, AllAsk, Asks
      <4>3. QED
        BY <4>1, <4>2, Sides
    <3>2. QED
      BY <2>4, <3>1 DEF Whole, Calm, Marks
  <2>7. Opened'
    <3>1. rd["trap"] # "listening" /\ wr["trap"] # "listening"
      BY <2>4 DEF Calm, Opened
    <3>2. QED
      BY <1>1, <2>1, <2>4, <2>5, <3>1 DEF Calm, Opened, Bare
  <2>8. Marks'
    BY <1>1, <2>5, <2>6, StillThreads, Sides DEF Marks
  <2>9. Waits'
    <3>1. \A u \in Thread : Serves(u, "serv") => thr[u].at # "await"
      BY <1>2, Sides DEF Calm, Waits, Bare
    <3>2. QED
      BY <1>1, <2>1, <3>1, StillThreads, Sides DEF Calm, Waits, Bare
  <2>10. Rests' /\ Grants'
    BY <1>1, <2>5, StillThreads DEF Calm, Grants
  <2>11. Timely'
    <3> SUFFICES ASSUME NEW t \in Thread, Serves(t, "serv")'
                 PROVE  InTime(t)'
      BY DEF Timely
    <3>1. Serves(t, "serv") /\ thr[t].timer \in {0, 1}
      BY <1>1, StillThreads, Sides DEF IndInv, ThreadTypes, Records
    <3>2. req["serv"] # "disco" /\ thr[t].at # "disco"
      BY <1>2, <3>1, Sides DEF IndInv, AllAsk, Asks, AllServe, Serving, ServedBy
    <3>3. Ready(t)' = 3 + thr[t].timer
      BY <1>1, <2>1, <3>2 DEF Ready
    <3>4. ASSUME NEW u \in Thread, Serves(u, "trap")
          PROVE  4 < Away(u)'
      <4>1. Ready(t) < Left(u) /\ Ready(t) \in Nat /\ thr[u].timer \in {0, 1}
        BY <1>2, <2>5, <3>1, <3>4, Counts DEF Calm, Timely, InTime, IndInv, ThreadTypes, Records
      <4>2. rep["trap"] = "none"
        BY <2>4, <4>1 DEF Left
      <4>3. req["trap"] = "disco"
        BY <2>4, <4>2, Sides DEF Calm, Waits
      <4>4. thr[u].at = "disco" => thr[u].timer = 1
        BY <2>4, <4>1, <4>2 DEF Left
      <4>5. QED
        BY <1>1, <2>1, <4>1, <4>3, <4>4 DEF Away
    <3>5. conn'["trap"] # "none"
      BY <1>1, <2>4, Sides DEF IndInv, AllAsk, Asks
    <3>6. \A u \in Thread : Serves(u, "trap")' <=> Serves(u, "trap")
      BY <1>1, StillThreads, Sides
    <3>7. \A u \in Thread : Away(u)' \in Nat
      BY Counts DEF IndInv
    <3>8. QED
      BY <2>5, <3>1, <3>3, <3>4, <3>5, <3>6, <3>7 DEF InTime
  <2>12. QED
    BY <2>3, <2>7, <2>8, <2>9, <2>10, <2>11 DEF Calm
<1>5. QED
  BY <1>3, <1>4

LEMMA OpenServCalm ==
  ASSUME IndInv, IndInv', Calm, OpenServ
  PROVE  Calm'
<1>1. /\ link = 0 /\ peer["serv"] = "off"
      /\ UNCHANGED <<req, rep, rd, wr, rdBuf, wrBuf>>
      /\ connected' = [x \in Side |-> FALSE]
  BY DEF OpenServ, asks, data
<1>2. /\ conn'["trap"] = conn["trap"]
      /\ peer'["serv"] = "opening" /\ peer'["trap"] = peer["trap"]
  BY Sides DEF OpenServ, IndInv, Kinds
<1>3. PICK n \in Thread : thr[n].job = "idle" /\ thr' = [thr EXCEPT ![n] = [Started("conn", "serv") EXCEPT !.gen = links + 1]]
  BY Free DEF OpenServ, IdleThreads
<1>4. /\ thr'[n].job = "conn" /\ thr'[n].me = "serv" /\ thr'[n].at = "await" /\ thr'[n].timer = 0
      /\ \A u \in Thread : u # n => thr'[u] = thr[u]
  BY <1>3 DEF Started, Idle, IndInv, ThreadTypes
<1>5. \A u \in Thread, x \in Side : ~Serves(u, x)
  BY <1>1 DEF IndInv, AllServe, Serving, ServedBy
<1>6. peer["trap"] = "off" /\ req["serv"] = "none" /\ rep["serv"] = "none"
  <2>1. conn["trap"] = "none"
    BY <1>5, Sides DEF IndInv, AllServe, Serving
  <2>2. QED
    BY <1>1, <2>1, Sides DEF Calm, Waits, IndInv, AllAsk, Asks, Kinds
<1>7. \A u \in Thread, x \in Side : Serves(u, x)' => u = n /\ x = "serv"
  BY <1>4, <1>5 DEF Serves
<1>8. SameCopies
  BY <1>3, <1>4 DEF SameCopies
<1>9. ByeLast'
  BY <1>1, <1>2, <1>8, ByeKept DEF Calm, Active
<1>10. ~Hosting' /\ ~Active' /\ ~Live' /\ ~Begun' /\ ~Stuck'
  BY <1>2, <1>6 DEF Hosting, Active, Live, Begun, Stuck, Granted
<1>11. Opened'
  BY <1>1, <1>2, <1>6, <1>10 DEF Calm, Opened, Bare
<1>12. Marks'
  BY <1>1, <1>10, Sides DEF Marks
<1>13. Waits'
  <2>1. \A y \in Side : peer'[y] \in {"off", "opening"} /\ (y # "serv" => peer'[y] = peer[y])
    BY <1>2, <1>6, Sides
  <2>2. QED
    BY <1>1, <1>2, <1>6, <1>7, <2>1, Sides DEF Calm, Waits, Bare
<1>14. Rests' /\ Grants'
  BY <1>4, <1>10 DEF Calm, Rests, Grants
<1>15. Timely'
  <2>1. Ready(n)' = 2
    BY <1>1, <1>4, <1>6 DEF Ready
  <2>2. QED
    BY <1>7, <1>10, <2>1, Sides DEF Timely, InTime
<1>16. QED
  BY <1>9, <1>11, <1>12, <1>13, <1>14, <1>15 DEF Calm

LEMMA OpenTrapCalm ==
  ASSUME IndInv, IndInv', Calm, OpenTrap
  PROVE  Calm'
<1>1. /\ peer["trap"] = "off" /\ conn["trap"] = "none"
      /\ UNCHANGED <<started, connected, req, rep, rd, wr, rdBuf, wrBuf>>
  BY DEF OpenTrap, flags, asks, data
<1>2. /\ conn'["trap"] = "listening" /\ peer'["serv"] = peer["serv"] /\ peer'["trap"] = "opening"
  BY Sides DEF OpenTrap, IndInv, Kinds
<1>3. PICK n \in Thread : thr[n].job = "idle" /\ thr' = [thr EXCEPT ![n] = Started("conn", "trap")]
  BY Free DEF OpenTrap, IdleThreads
<1>4. /\ thr'[n].job = "conn" /\ thr'[n].me = "trap" /\ thr'[n].at = "await" /\ thr'[n].timer = 0
      /\ \A u \in Thread : u # n => thr'[u] = thr[u]
  BY <1>3 DEF Started, Idle, IndInv, ThreadTypes
<1>5. req["trap"] = "none" /\ rep["trap"] = "none"
  BY <1>1, Sides DEF Calm, Waits, IndInv, AllAsk, Asks, Kinds
<1>6. /\ \A u \in Thread : Serves(u, "serv")' => u # n /\ Serves(u, "serv")
      /\ \A u \in Thread : Serves(u, "trap")' => u = n
  <2>1. Serves(n, "trap")'
    BY <1>4 DEF Serves
  <2>2. QED
    BY <1>4, <2>1, Sides DEF Serves, IndInv, AllServe, Serving
<1>7. SameCopies
  BY <1>3, <1>4 DEF SameCopies
<1>8. (Hosting' <=> Hosting) /\ ~Active /\ ~Active' /\ ~Live /\ ~Live' /\ ~Begun /\ ~Begun' /\ ~Stuck /\ ~Stuck'
  BY <1>1, <1>2 DEF Hosting, Active, Live, Begun, Stuck, Granted
<1>9. ByeLast'
  BY <1>1, <1>7, <1>8, ByeKept DEF Calm
<1>10. Opened'
  BY <1>1, <1>2, <1>8 DEF Calm, Opened, Bare
<1>11. Marks'
  <2>1. \A x \in Side : Connecting(x) => Connecting(x)'
    BY <1>3, <1>4 DEF Connecting, Serves
  <2>2. QED
    BY <1>1, <1>2, <1>7, <1>8, <2>1, MarksKept DEF Calm
<1>12. Waits'
  <2>1. \A u \in Thread : Serves(u, "serv")' => thr'[u] = thr[u]
    BY <1>4, <1>6
  <2>2. QED
    BY <1>1, <1>2, <1>5, <1>6, <2>1, Sides DEF Calm, Waits, Bare
<1>13. Rests' /\ Grants'
  BY <1>4, <1>8 DEF Calm, Rests, Grants
<1>14. Timely'
  <2> SUFFICES ASSUME NEW t \in Thread, Serves(t, "serv")', peer'["serv"] # "off"
               PROVE  InTime(t)'
    BY DEF Timely
  <2>1. Serves(t, "serv") /\ thr'[t] = thr[t] /\ InTime(t)
    BY <1>2, <1>4, <1>6 DEF Calm, Timely
  <2>2. Ready(t)' <= Ready(t) /\ Ready(t) \in Nat /\ Ready(t)' \in Nat
    BY <1>1, <1>2, <2>1, SameReady, Counts DEF IndInv
  <2>3. Ready(t) < 4
    BY <1>1, <1>8, <2>1 DEF InTime
  <2>4. Away(n)' = 4
    BY <1>1, <1>4, <1>5 DEF Away
  <2>5. QED
    BY <1>6, <1>8, <2>2, <2>3, <2>4 DEF InTime
<1>15. QED
  BY <1>9, <1>10, <1>11, <1>12, <1>13, <1>14 DEF Calm

LEMMA ConnectTrapCalm ==
  ASSUME IndInv, IndInv', Calm, NEW t \in Thread, ConnectTrap(t)
  PROVE  Calm'
<1>1. /\ thr[t].job = "conn" /\ thr[t].at = "read" /\ thr[t].me = "trap" /\ req["trap"] = "connect"
      /\ Sleep(t, "sleep") /\ Serves(t, "trap")
  BY DEF ConnectTrap, Reads, At, Serves
<1>2. peer["trap"] = "asked" /\ rep["trap"] = "none" /\ conn["trap"] = "open" /\ thr[t].timer = 0
  BY <1>1, Found
<1>3. ~Active /\ ~Live /\ ~Begun /\ ~Stuck /\ Bare("trap")
  BY <1>2 DEF Active, Live, Begun, Stuck, Granted, Bare
<1>4. /\ req'["trap"] = "none" /\ rep'["trap"] = (IF present["serv"] THEN "ack" ELSE "nack")
      /\ req'["serv"] = req["serv"] /\ rep'["serv"] = rep["serv"]
  BY <1>1, <1>2, Sides DEF ConnectTrap, Answer, IndInv, Kinds
<1>5. ConnMoves(t, "sleep") /\ SameCopies /\ thr'[t].timer = 1
  BY <1>1, ConnMoved DEF IndInv, ConnMoves
<1>6. UNCHANGED <<connected, conn, peer, rdBuf, wrBuf>>
  BY DEF ConnectTrap
<1>7. \A u \in Thread, y \in Side : Serves(u, y)' <=> Serves(u, y)
  BY <1>5 DEF ConnMoves, Serves
<1>8. ByeLast'
  BY <1>5, <1>6, ByeKept DEF Calm, Active
<1>9. (Hosting' <=> Hosting) /\ ~Live'
  BY <1>2, <1>6 DEF Hosting, Live, Active
<1>10. Marks'
  <2>1. \A y \in Side : Connecting(y) => Connecting(y)'
    BY <1>1, <1>5 DEF ConnMoves, Connecting, Serves
  <2>2. QED
    BY <1>1, <1>3, <1>4, <1>5, <1>6, <1>9, <2>1, MarksKept, Sides DEF Calm
<1>11. Waits'
  <2>1. \A y \in Side, u \in Thread : Serves(u, y)' /\ thr'[u].at = "await" => y # "trap" /\ thr[u].at = "await"
    BY <1>1, <1>5, <1>7, OneServes, Sides DEF ConnMoves
  <2>2. QED
    BY <1>2, <1>4, <1>6, <1>7, <2>1, Sides DEF Calm, Waits, Bare
<1>12. Rests'
  BY <1>5 DEF Calm, Rests, ConnMoves
<1>13. Away(t) = 3 /\ Away(t)' = 4
  BY <1>1, <1>2, <1>4, <1>5 DEF ConnMoves, Away
<1>14. CASE ~present["serv"]
  <2>1. UNCHANGED <<started, rd, wr>>
    BY <1>14 DEF ConnectTrap
  <2>2. Opened' /\ (Begun' <=> Begun) /\ (Stuck' <=> Stuck)
    BY <1>1, <1>2, <1>4, <1>5, <1>6, <1>14, <2>1, Undisturbed, Sides DEF data
  <2>3. Grants'
    BY <1>3, <2>2 DEF Grants
  <2>4. Timely'
    <3>1. ASSUME NEW u \in Thread, Serves(u, "serv")
          PROVE  Ready(u)' <= Ready(u)
      <4>1. u # t
        BY <1>1, <3>1 DEF Serves
      <4>2. QED
        BY <1>4, <1>5, <1>6, <4>1, SameReady DEF IndInv, ConnMoves
    <3>2. ASSUME NEW u \in Thread, Serves(u, "trap")
          PROVE  Away(u)' >= Away(u)
      BY <1>1, <1>13, <3>2, OneServes, Sides
    <3>3. QED
      BY <1>3, <1>6, <1>7, <2>2, <3>1, <3>2, TimelyKept, Sides DEF Calm, IndInv
  <2>5. QED
    BY <1>8, <1>10, <1>11, <1>12, <2>2, <2>3, <2>4 DEF Calm
<1>15. CASE present["serv"]
  <2>1. /\ \A y \in Side : rd'[y] = DoOpen(rd[y]) /\ wr'[y] = DoOpen(wr[y])
        /\ started'["trap"]
    BY <1>15, Sides DEF ConnectTrap, IndInv, Kinds
  <2>2. Granted("trap")' /\ ~Bare("trap")'
    BY <1>2, <1>4, <1>6, <1>15 DEF Granted, Bare
  <2>3. Begun' => wr'["serv"] = "listening" /\ rd'["serv"] = "listening"
    <3> SUFFICES ASSUME Begun'
                 PROVE  wr'["serv"] = "listening" /\ rd'["serv"] = "listening"
      OBVIOUS
    <3>1. rd'["trap"] = "listening" /\ wr'["trap"] = "listening"
      BY <1>2, <1>6, <1>9 DEF Begun
    <3>2. rd["trap"] = "none" /\ wr["trap"] = "none"
      BY <1>3, <2>1, <3>1, Sides DEF Calm, Opened, DoOpen
    <3>3. wr["serv"] = "none" /\ rd["serv"] = "none"
      BY <3>2, Sides DEF Calm, Opened
    <3>4. QED
      BY <2>1, <3>3, Sides DEF DoOpen
  <2>4. Opened'
    <3>1. \A y \in Side : rd'[y] # "none" /\ wr'[y] # "none" /\ (rd[y] = "open" => rd'[y] = "open")
                          /\ (wr[y] = "open" => wr'[y] = "open")
      BY <2>1 DEF DoOpen
    <3>2. QED
      BY <1>2, <1>6, <1>9, <2>2, <2>3, <3>1, Sides DEF Calm, Opened
  <2>5. Grants'
    BY <2>1 DEF Grants
  <2>6. Timely'
    <3> SUFFICES ASSUME NEW v \in Thread, Serves(v, "serv")', peer'["serv"] # "off"
                 PROVE  InTime(v)'
      BY DEF Timely
    <3>1. Serves(v, "serv") /\ v # t /\ InTime(v)
      BY <1>1, <1>6, <1>7, Sides DEF Calm, Timely, Serves
    <3>2. Ready(v)' <= Ready(v) /\ Ready(v) \in Nat /\ Ready(v)' \in Nat
      BY <1>4, <1>5, <1>6, <3>1, SameReady, Counts DEF IndInv, ConnMoves
    <3>3. Ready(v) < 3
      BY <1>1, <1>3, <1>13, <3>1 DEF InTime
    <3>4. Left(t)' = 3
      BY <1>2, <1>5, <1>6, <2>2 DEF ConnMoves, Left
    <3>5. \A u \in Thread : Serves(u, "trap")' => u = t
      BY <1>1, <1>7, OneServes, Sides
    <3>6. Begun' \/ Stuck'
      BY <2>2 DEF Stuck
    <3>7. QED
      BY <3>2, <3>3, <3>4, <3>5, <3>6 DEF InTime
  <2>7. QED
    BY <1>8, <1>10, <1>11, <1>12, <2>4, <2>5, <2>6 DEF Calm
<1>16. QED
  BY <1>14, <1>15

LEMMA StartJoinCalm ==
  ASSUME IndInv, IndInv', Calm, NEW t \in Thread, StartJoin(t)
  PROVE  Calm'
<1>1. PICK x \in Side : x = thr[t].me
  BY DEF IndInv, ThreadTypes, Records
<1>2. PICK y \in Side : y = Him(x) /\ Him(y) = x /\ y # x /\ \A z \in Side : z = x \/ z = y
  BY Sides
<1>3. thr[t].job = "conn" /\ thr[t].at = "join" /\ Serves(t, x) /\ thr[t].timer = 0
  BY <1>1 DEF StartJoin, At, Serves, Calm, Rests
<1>4. /\ req[x] = "end" /\ connected[x] /\ peer[x] = "ending" /\ conn[x] = "open" /\ rep[x] = "none"
      /\ ~Joined(x) /\ ~Joined(y)
  <2>1. req[x] = "end" /\ connected[x]
    BY <1>3 DEF IndInv, AllServe, Serving, ServedBy
  <2>2. peer[x] = "ending" /\ conn[x] = "open" /\ rep[x] = "none"
    BY <2>1 DEF IndInv, AllAsk, Asks, Calm, Waits, Kinds
  <2>3. ~Joined(x) /\ ~Joined(y)
    BY <1>2, <2>1 DEF IndInv, AllPipes, Pipes
  <2>4. QED
    BY <2>1, <2>2, <2>3
<1>5. /\ UNCHANGED <<started, connected, conn, peer, rd, wr, rdBuf, wrBuf>>
      /\ req'[x] = "none" /\ rep'[x] = "ack" /\ req'[y] = req[y] /\ rep'[y] = rep[y]
  BY <1>1, <1>2, <1>4 DEF StartJoin, Answer, flags, data, IndInv, Kinds
\* What becomes of the threads, in either case.
<1> DEFINE AllThreads ==
      /\ thr'[t].at = "sleep" /\ thr'[t].timer = 1
      /\ \A u \in Thread, z \in Side : Serves(u, z)' => Serves(u, z) /\ (u # t => thr'[u] = thr[u])
      /\ \A u \in Thread : thr'[u].job = "join" => thr'[u].at = "start"
      /\ \A u \in Thread : u = t \/ thr'[u] = thr[u] \/ thr'[u].timer = 0
      /\ \/ connected[y] /\ Joined(x)' /\ Joined(y)'
         \/ ~connected[y] /\ ~Joined(x)' /\ ~Joined(y)'
<1>6. AllThreads
  <2>1. \A u \in Thread : thr[u].job # "join"
    BY <1>2, <1>4 DEF Joined, Copies, IndInv, ThreadTypes, Records
  <2>2. CASE ~connected[y]
    <3>1. Sleep(t, "sleep")
      BY <1>1, <1>2, <2>2 DEF StartJoin, BothConnected
    <3>2. ConnMoves(t, "sleep") /\ SameCopies /\ thr'[t].timer = 1
      BY <1>3, <3>1, ConnMoved DEF IndInv, ConnMoves
    <3>3. ~Joined(x)' /\ ~Joined(y)'
      BY <1>4, <3>2 DEF SameCopies, Joined, Copies
    <3>4. QED
      BY <2>1, <2>2, <3>2, <3>3 DEF ConnMoves, SameCopies, Serves
  <2>3. CASE connected[y]
    <3>1. BothConnected(thr[t].me)
      BY <1>1, <1>2, <2>3 DEF BothConnected
    <3>2. PICK u1 \in Thread, u2 \in Thread, r1 \in Records, r2 \in Records, s \in Records :
            StartsPair(t, u1, u2, r1, r2, s)
      BY <3>1, Paired
    <3>3. Joined("serv")' /\ Joined("trap")'
      BY <3>2 DEF StartsPair, Joined, Copies
    <3>4. \A u \in Thread : thr'[u].job = "join" => u \in {u1, u2}
      BY <1>3, <2>1, <3>2 DEF StartsPair
    <3>5. \A u \in Thread : u \in {u1, u2} => thr'[u].job = "join" /\ thr'[u].at = "start" /\ thr'[u].timer = 0
      BY <3>2 DEF StartsPair
    <3>6. thr'[t].at = "sleep" /\ thr'[t].timer = 1 /\ thr'[t].job = "conn" /\ thr'[t].me = thr[t].me
      BY <1>3, <3>2 DEF StartsPair
    <3>7. \A u \in Thread : u \notin {t, u1, u2} => thr'[u] = thr[u]
      BY <3>2 DEF StartsPair
    <3>8. \A u \in Thread, z \in Side : Serves(u, z)' => Serves(u, z) /\ (u # t => thr'[u] = thr[u])
      BY <1>3, <3>5, <3>6, <3>7 DEF Serves
    <3>9. QED
      BY <1>2, <2>3, <3>3, <3>4, <3>5, <3>6, <3>7, <3>8, Sides
  <2>4. QED
    BY <2>2, <2>3
<1> HIDE DEF AllThreads
<1>7. (\A u \in Thread : ~Bears(u) /\ ~Bears(u)') /\ (Active' <=> Active)
  <2>1. \A u \in Thread : ~Bears(u)
    BY <1>2, <1>4, Sides DEF Bears, Joined
  <2>2. \A u \in Thread : ~Bears(u)'
    BY <1>6 DEF AllThreads, Bears, Copies
  <2>3. QED
    BY <1>5, <2>1, <2>2 DEF Active
<1>8. (ByeSent' <=> ByeSent) /\ ByeLast'
  <2>1. ByeSent' <=> ByeSent
    BY <1>5, <1>7 DEF ByeSent
  <2>2. QED
    BY <1>5, <1>7, <2>1 DEF Calm, ByeLast
<1>9. (Hosting' <=> Hosting) /\ (Live' <=> Live)
  BY <1>5, <1>7, <1>8 DEF Hosting, Live
<1>10. (Begun' <=> Begun) /\ (Stuck' <=> Stuck)
  BY <1>2, <1>4, <1>5, <1>9, Sides DEF Begun, Stuck, Granted
<1>11. Opened'
  BY <1>2, <1>4, <1>5, <1>9, <1>10, Sides DEF Calm, Opened, Bare
<1>12. Marks'
  <2>1. (x = "serv" => Hosting) /\ (x = "trap" => Live)
    BY <1>4 DEF Hosting, Live, Active
  <2>2. \/ connected["serv"] /\ connected["trap"] /\ Joined("serv")' /\ Joined("trap")'
        \/ ~(connected["serv"] /\ connected["trap"]) /\ ~Joined("serv")' /\ ~Joined("trap")'
    BY <1>2, <1>4, <1>6, Sides DEF AllThreads
  <2>3. connected["serv"] => Hosting
    BY <1>2, <1>4, <2>1, Sides DEF Calm, Marks
  <2>4. connected["trap"] => Live \/ peer["serv"] = "off"
    BY <1>2, <1>4, <2>1, Sides DEF Calm, Marks
  <2>5. Joined("serv")' \/ Joined("trap")' => Whole'
    <3> SUFFICES ASSUME connected["serv"], connected["trap"]
                 PROVE  Whole'
      BY <2>2
    <3>1. Hosting /\ Live
      BY <2>3, <2>4 DEF Hosting
    <3>2. QED
      BY <1>5, <1>6, <1>9, <3>1 DEF Whole, AllThreads
  <2>6. \A z \in Side : req[z] = "end" /\ req'[z] # "end" => z = x
    BY <1>2, <1>5
  <2>7. Hosting /\ req'["serv"] # "end" => connected["serv"]
    BY <1>4, <2>6, Sides DEF Calm, Marks
  <2>8. Live /\ req'["trap"] # "end" => connected["trap"]
    BY <1>4, <2>6, Sides DEF Calm, Marks
  <2>9. QED
    BY <1>5, <1>9, <2>2, <2>3, <2>4, <2>5, <2>7, <2>8 DEF Marks
<1>13. Waits'
  <2>1. \A z \in Side, u \in Thread : Serves(u, z)' /\ thr'[u].at = "await" => z # x /\ Serves(u, z) /\ thr[u].at = "await"
    BY <1>3, <1>6, OneServes DEF AllThreads
  <2>2. QED
    BY <1>2, <1>4, <1>5, <2>1 DEF Calm, Waits, Bare
<1>14. Rests'
  <2>1. thr'[t].job = "conn"
    <3>1. thr'[t].at = "sleep" /\ thr' \in [Thread -> Records] /\ ThreadState(t)'
      BY <1>6 DEF AllThreads, IndInv, ThreadTypes
    <3>2. thr'[t].job \in {"idle", "conn", "join"}
      BY <3>1 DEF Records
    <3>3. QED
      BY <3>1, <3>2 DEF ThreadState, JoinPlaces
  <2>2. QED
    BY <1>6, <2>1 DEF Calm, Rests, AllThreads, Serves
<1>15. Grants'
  <2>1. \A u \in Thread : Serves(u, "trap")' /\ thr'[u].at # "disco" => Serves(u, "trap") /\ thr[u].at # "disco"
    BY <1>3, <1>6, Sides DEF AllThreads
  <2>2. peer["trap"] = "disco" => x # "trap" /\ rep'["trap"] = rep["trap"]
    BY <1>2, <1>4, <1>5, Sides
  <2>3. QED
    BY <1>5, <1>10, <2>1, <2>2 DEF Calm, Grants
<1>16. Timely'
  <2>1. ASSUME NEW u \in Thread, Serves(u, "serv")
        PROVE  Serves(u, "serv")' => Ready(u)' <= Ready(u)
    <3>1. CASE u # t
      <4>1. x # "serv"  \/ u = t
        BY <1>3, <2>1, OneServes
      <4>2. QED
        BY <1>2, <1>5, <1>6, <3>1, <4>1, SameReady, Sides DEF AllThreads, IndInv
    <3>2. CASE u = t
      <4>1. x = "serv"
        BY <1>1, <2>1, <3>2 DEF Serves
      <4>2. Ready(t)' = 0
        BY <1>4, <1>5, <1>6, <4>1 DEF AllThreads, Ready, Bare, Granted
      <4>3. QED
        BY <3>2, <4>2, Counts DEF IndInv
    <3>3. QED
      BY <3>1, <3>2
  <2>2. ASSUME NEW u \in Thread, Serves(u, "trap")
        PROVE  Serves(u, "trap")' => Left(u)' >= Left(u) /\ Away(u)' >= Away(u)
    <3>1. CASE u # t
      <4>1. x # "trap"  \/ u = t
        BY <1>3, <2>2, OneServes
      <4>2. QED
        BY <1>2, <1>5, <1>6, <3>1, <4>1, SameLeft, Sides DEF AllThreads, IndInv
    <3>2. CASE u = t
      <4>1. x = "trap"
        BY <1>1, <2>2, <3>2 DEF Serves
      <4>2. Left(t)' = 2 /\ Left(t) = 2
        BY <1>3, <1>4, <1>5, <1>6, <4>1 DEF AllThreads, Left, Granted
      <4>3. Away(t)' = 4 /\ Away(t) = 3
        BY <1>3, <1>4, <1>5, <1>6, <4>1 DEF AllThreads, Away
      <4>4. QED
        BY <3>2, <4>2, <4>3
    <3>3. QED
      BY <3>1, <3>2
  <2>3. \A u \in Thread, z \in Side : Serves(u, z)' => Serves(u, z)
    BY <1>6 DEF AllThreads
  <2>4. QED
    BY <1>5, <1>10, <2>1, <2>2, <2>3, TimelyKept, Sides DEF Calm, IndInv
<1>17. QED
  BY <1>8, <1>11, <1>12, <1>13, <1>14, <1>15, <1>16 DEF Calm

(***************************************************************************)
(* The threads that copy                                                   *)
(***************************************************************************)
LEMMA CopiedCalm ==
  ASSUME IndInv, IndInv', Calm, NEW t \in Thread, thr[t].job = "join",
         thr'[t].job = "join", thr'[t].me = thr[t].me, thr'[t].timer = thr[t].timer,
         \A u \in Thread : u # t => thr'[u] = thr[u],
         UNCHANGED <<started, connected, conn, req, rep, rd, wr, peer>>,
         Whole => thr'[t].at # "close", ByeLast', Live' <=> Live
  PROVE  Calm'
<1>1. \A u \in Thread, z \in Side : (Serves(u, z)' <=> Serves(u, z)) /\ (Copies(u, z)' <=> Copies(u, z))
  BY DEF Serves, Copies
<1>2. \A u \in Thread, z \in Side : Serves(u, z) => thr'[u] = thr[u]
  BY DEF Serves
<1>3. \A z \in Side : (Joined(z)' <=> Joined(z)) /\ (Connecting(z)' <=> Connecting(z))
  BY <1>1, <1>2 DEF Joined, Connecting
<1>4. (Hosting' <=> Hosting) /\ (Active' <=> Active)
  BY DEF Hosting, Active
<1>5. (Begun' <=> Begun) /\ (Stuck' <=> Stuck)
  BY DEF Begun, Stuck, Granted
<1>6. Opened'
  BY <1>4, <1>5 DEF Calm, Opened, Bare
<1>7. Marks'
  <2>1. Whole => Whole'
    BY <1>4 DEF Whole
  <2>2. QED
    BY <1>3, <1>4, <2>1, Sides DEF Calm, Marks
<1>8. Waits' /\ Grants'
  BY <1>1, <1>2, <1>5, Sides DEF Calm, Waits, Grants, Bare
<1>9. Rests'
  BY DEF Calm, Rests
<1>10. Timely'
  BY <1>1, <1>2, <1>5, SameReady, SameLeft, TimelyKept, Sides DEF Calm, IndInv
<1>11. QED
  BY <1>6, <1>7, <1>8, <1>9, <1>10 DEF Calm

\* One thread copies what the debugger has written.
LEMMA OneBears ==
  ASSUME IndInv, NEW t \in Thread, NEW u \in Thread, Copies(t, "trap"), Bears(u)
  PROVE  u = t
BY Sides DEF IndInv, Single, Bears

LEMMA JoinStartCalm ==
  ASSUME IndInv, IndInv', Calm, NEW t \in Thread, JoinStart(t)
  PROVE  Calm'
<1>1. /\ thr[t].job = "join" /\ thr[t].at = "start"
      /\ Go(t, IF \A x \in Side : connected[x] THEN "read" ELSE "close")
      /\ UNCHANGED <<started, connected, conn, req, rep, rd, wr, rdBuf, wrBuf, peer>>
  BY DEF JoinStart, At, StayJoined, flags, asks, data
<1>2. /\ thr'[t].job = "join" /\ thr'[t].me = thr[t].me /\ thr'[t].timer = thr[t].timer
      /\ \A u \in Thread : u # t => thr'[u] = thr[u]
      /\ thr'[t].at = IF \A x \in Side : connected[x] THEN "read" ELSE "close"
  BY <1>1 DEF Go, IndInv, ThreadTypes, Records
<1>3. \A u \in Thread : (Bears(u)' <=> Bears(u)) /\ (Bears(u) => thr'[u].msg = thr[u].msg)
  BY <1>1, <1>2 DEF Bears, Copies
<1>4. ByeSent' <=> ByeSent
  BY <1>1, <1>3 DEF ByeSent
<1>5. ByeLast'
  BY <1>1, <1>3, <1>4 DEF Calm, ByeLast, Active
<1>6. Live' <=> Live
  BY <1>1, <1>4 DEF Live, Active
<1>7. Whole => thr'[t].at # "close"
  BY <1>2, Sides DEF Whole
<1>8. QED
  BY <1>1, <1>2, <1>5, <1>6, <1>7, CopiedCalm

LEMMA JoinReadCalm ==
  ASSUME IndInv, IndInv', Calm, NEW t \in Thread, JoinRead(t)
  PROVE  Calm'
<1>1. PICK x \in Side : x = thr[t].me
  BY DEF IndInv, ThreadTypes, Records
<1>2. /\ thr[t].job = "join" /\ thr[t].at = "read" /\ Copies(t, x)
      /\ UNCHANGED <<started, connected, conn, req, rep, rd, wr, rdBuf, peer>>
      /\ wrBuf[x] \in Seq(Msg)
  BY <1>1 DEF JoinRead, At, Copies, flags, asks, IndInv, Kinds
<1>3. CASE wrBuf[x] = <<>>
  <2>1. Go(t, "close") /\ UNCHANGED wrBuf /\ wr[x] # "open"
    BY <1>1, <1>3 DEF JoinRead, Readable
  <2>2. /\ thr'[t].job = "join" /\ thr'[t].me = thr[t].me /\ thr'[t].timer = thr[t].timer
        /\ \A u \in Thread : u # t => thr'[u] = thr[u]
        /\ thr'[t].at = "close"
    BY <1>2, <2>1 DEF Go, IndInv, ThreadTypes, Records
  <2>3. \A u \in Thread : (Bears(u)' <=> Bears(u)) /\ (Bears(u) => thr'[u].msg = thr[u].msg)
    BY <1>2, <2>2 DEF Bears, Copies
  <2>4. ByeSent' <=> ByeSent
    BY <1>2, <2>1, <2>3 DEF ByeSent
  <2>5. ByeLast'
    BY <1>2, <2>1, <2>3, <2>4 DEF Calm, ByeLast, Active
  <2>6. Live' <=> Live
    BY <1>2, <2>4 DEF Live, Active
  <2>7. ~Whole
    BY <2>1, Sides DEF Calm, Opened, Whole
  <2>8. QED
    BY <1>2, <2>2, <2>5, <2>6, <2>7, CopiedCalm
<1>4. CASE wrBuf[x] # <<>>
  <2>1. /\ thr' = [thr EXCEPT ![t].at = "write", ![t].msg = Head(wrBuf[x])]
        /\ wrBuf' = [wrBuf EXCEPT ![x] = Tail(@)]
    BY <1>1, <1>4 DEF JoinRead
  <2>2. /\ thr'[t].job = "join" /\ thr'[t].me = thr[t].me /\ thr'[t].timer = thr[t].timer
        /\ \A u \in Thread : u # t => thr'[u] = thr[u]
        /\ thr'[t].at = "write" /\ thr'[t].msg = Head(wrBuf[x])
    BY <1>2, <2>1 DEF IndInv, ThreadTypes, Records
  <2>3. wrBuf'[x] = Tail(wrBuf[x]) /\ \A z \in Side : z # x => wrBuf'[z] = wrBuf[z]
    BY <2>1 DEF IndInv, Kinds
  <2>4. (ByeSent' <=> ByeSent) /\ ByeLast'
    <3>1. CASE x = "serv"
      <4>1. \A u \in Thread : (Bears(u)' <=> Bears(u)) /\ (Bears(u) => thr'[u].msg = thr[u].msg)
        BY <1>1, <2>2, <3>1 DEF Bears, Copies
      <4>2. wrBuf'["trap"] = wrBuf["trap"]
        BY <2>3, <3>1, Sides
      <4>3. ByeSent' <=> ByeSent
        BY <1>2, <4>1, <4>2 DEF ByeSent
      <4>4. QED
        BY <1>2, <4>1, <4>2, <4>3 DEF Calm, ByeLast, Active
    <3>2. CASE x = "trap"
      <4>1. (\A u \in Thread : ~Bears(u)) /\ \A u \in Thread : Bears(u)' <=> u = t
        <5>1. \A u \in Thread : Bears(u) => u = t
          BY <1>2, <3>2, OneBears
        <5>2. \A u \in Thread : u # t => (Bears(u)' <=> Bears(u))
          BY <2>2 DEF Bears, Copies
        <5>3. ~Bears(t) /\ Bears(t)'
          BY <1>1, <1>2, <2>2, <3>2 DEF Bears, Copies
        <5>4. QED
          BY <5>1, <5>2, <5>3
      <4>2. /\ ByeIn(wrBuf["trap"]) <=> Head(wrBuf["trap"])[1] = "bye" \/ ByeIn(wrBuf'["trap"])
            /\ \A i \in DOMAIN wrBuf'["trap"] : wrBuf'["trap"][i][1] = "bye" => i = Len(wrBuf'["trap"])
            /\ Head(wrBuf["trap"])[1] = "bye" => wrBuf'["trap"] = <<>>
        <5>1. wrBuf["trap"] \in Seq(Msg) /\ wrBuf["trap"] # <<>> /\ wrBuf'["trap"] = Tail(wrBuf["trap"])
          BY <1>2, <1>4, <2>3, <3>2
        <5>2. \A i \in DOMAIN wrBuf["trap"] : wrBuf["trap"][i][1] = "bye" => i = Len(wrBuf["trap"])
          BY DEF Calm, ByeLast
        <5>3. QED
          BY <5>1, <5>2, Queues
      <4>3. ByeSent' <=> ByeSent
        <5>1. ByeSent <=> ByeIn(wrBuf["trap"]) \/ ByeIn(rdBuf["serv"])
          BY <4>1 DEF ByeSent
        <5>2. ByeSent' <=> ByeIn(wrBuf'["trap"]) \/ ByeIn(rdBuf["serv"]) \/ Head(wrBuf["trap"])[1] = "bye"
          BY <1>2, <2>2, <3>2, <4>1 DEF ByeSent, ByeIn
        <5>3. QED
          BY <4>2, <5>1, <5>2
      <4>4. ~ByeIn(rdBuf["serv"])
        BY <1>4, <3>2 DEF Calm, ByeLast
      <4>5. ~ByeIn(rdBuf["serv"])'
        BY <1>2, <4>4 DEF ByeIn
      <4>6. ByeSent' => ~Active'
        BY <1>2, <4>3 DEF Calm, ByeLast, Active
      <4>7. \A s \in {wrBuf'["trap"], rdBuf'["serv"]} : \A i \in DOMAIN s : s[i][1] = "bye" => i = Len(s)
        BY <1>2, <4>2 DEF Calm, ByeLast
      <4>8. \A u \in Thread : Bears(u)' /\ thr'[u].msg[1] = "bye" => wrBuf'["trap"] = <<>>
        BY <2>2, <3>2, <4>1, <4>2
      <4>9. QED
        BY <4>3, <4>5, <4>6, <4>7, <4>8 DEF ByeLast
    <3>3. QED
      BY <3>1, <3>2, Sides
  <2>5. Live' <=> Live
    BY <1>2, <2>4 DEF Live, Active
  <2>6. QED
    BY <1>2, <2>2, <2>4, <2>5, CopiedCalm
<1>5. QED
  BY <1>3, <1>4

LEMMA JoinWriteCalm ==
  ASSUME IndInv, IndInv', Calm, NEW t \in Thread, JoinWrite(t)
  PROVE  Calm'
<1>1. PICK x \in Side : x = thr[t].me
  BY DEF IndInv, ThreadTypes, Records
<1>2. PICK y \in Side : y = Him(x) /\ Him(y) = x /\ y # x /\ \A z \in Side : z = x \/ z = y
  BY Sides
<1>3. /\ thr[t].job = "join" /\ thr[t].at = "write" /\ Copies(t, x) /\ Joined(x)
      /\ UNCHANGED <<started, connected, conn, req, rep, rd, wr, wrBuf, peer>>
      /\ rdBuf' = IF rd[y] = "open" THEN [rdBuf EXCEPT ![y] = Append(@, thr[t].msg)] ELSE rdBuf
  BY <1>1, <1>2 DEF JoinWrite, At, Copies, Joined, flags, asks
<1>4. /\ thr'[t].job = "join" /\ thr'[t].me = thr[t].me /\ thr'[t].timer = thr[t].timer
      /\ \A u \in Thread : u # t => thr'[u] = thr[u]
      /\ thr'[t].at = IF rd[y] = "open" /\ \A z \in Side : connected[z] THEN "read" ELSE "close"
  <2> DEFINE l == IF rd[y] = "open" /\ \A z \in Side : connected[z] THEN "read" ELSE "close"
  <2>1. thr' = [thr EXCEPT ![t].at = l, ![t].msg = <<>>]
    BY <1>1, <1>2 DEF JoinWrite
  <2> HIDE DEF l
  <2>2. /\ thr'[t].job = "join" /\ thr'[t].me = thr[t].me /\ thr'[t].timer = thr[t].timer
        /\ \A u \in Thread : u # t => thr'[u] = thr[u]
        /\ thr'[t].at = l
    BY <1>3, <2>1 DEF IndInv, ThreadTypes, Records
  <2>3. QED
    BY <2>2 DEF l
<1>5. Whole => rd[y] = "open" /\ thr'[t].at # "close"
  <2>1. Whole => rd[y] = "open"
    BY Sides DEF Calm, Opened, Whole
  <2>2. Whole => \A z \in Side : connected[z]
    BY Sides DEF Whole
  <2>3. QED
    BY <1>4, <2>1, <2>2
<1>6. ByeLast' /\ (Live' <=> Live)
  <2>1. CASE x = "serv"
    <3>1. \A u \in Thread : (Bears(u)' <=> Bears(u)) /\ (Bears(u) => thr'[u].msg = thr[u].msg)
      BY <1>1, <1>4, <2>1 DEF Bears, Copies
    <3>2. rdBuf'["serv"] = rdBuf["serv"]
      BY <1>2, <1>3, <2>1 DEF IndInv, Kinds
    <3>3. ByeSent' <=> ByeSent
      BY <1>3, <3>1, <3>2 DEF ByeSent
    <3>4. QED
      BY <1>3, <3>1, <3>2, <3>3 DEF Calm, ByeLast, Active, Live
  <2>2. CASE x = "trap"
    <3>1. y = "serv" /\ Bears(t) /\ thr[t].msg \in Msg /\ rdBuf["serv"] \in Seq(Msg)
      BY <1>2, <1>3, <2>2, Sides DEF Bears, IndInv, ThreadTypes, ThreadState, Kinds
    <3>2. \A u \in Thread : ~Bears(u)'
      <4>1. \A u \in Thread : Bears(u) => u = t
        BY <1>3, <2>2, OneBears
      <4>2. \A u \in Thread : u # t => (Bears(u)' <=> Bears(u))
        BY <1>4 DEF Bears, Copies
      <4>3. ~Bears(t)'
        BY <1>4 DEF Bears
      <4>4. QED
        BY <4>1, <4>2, <4>3
    <3>3. CASE rd["serv"] = "open"
      <4>1. rdBuf'["serv"] = Append(rdBuf["serv"], thr[t].msg)
        BY <1>3, <3>1, <3>3 DEF IndInv, Kinds
      <4>2. ~ByeIn(rdBuf["serv"])
        BY <3>1 DEF Calm, ByeLast
      <4>3. /\ ByeIn(rdBuf'["serv"]) <=> thr[t].msg[1] = "bye"
            /\ \A i \in DOMAIN rdBuf'["serv"] : rdBuf'["serv"][i][1] = "bye" => i = Len(rdBuf'["serv"])
        BY <3>1, <4>1, <4>2, Queues
      <4>4. ByeSent' <=> ByeSent
        <5>1. ByeSent' <=> ByeIn(wrBuf["trap"]) \/ ByeIn(rdBuf'["serv"])
          BY <1>3, <3>2 DEF ByeSent, ByeIn
        <5>2. ByeSent <=> ByeIn(wrBuf["trap"]) \/ thr[t].msg[1] = "bye"
          <6>1. \A u \in Thread : Bears(u) <=> u = t
            BY <1>3, <2>2, <3>1, OneBears
          <6>2. QED
            BY <4>2, <6>1 DEF ByeSent
        <5>3. QED
          BY <4>3, <5>1, <5>2
      <4>5. ByeIn(rdBuf["serv"])' => wrBuf'["trap"] = <<>>
        BY <1>3, <3>1, <4>3 DEF Calm, ByeLast, ByeIn
      <4>6. \A s \in {wrBuf'["trap"], rdBuf'["serv"]} : \A i \in DOMAIN s : s[i][1] = "bye" => i = Len(s)
        BY <1>3, <4>3 DEF Calm, ByeLast
      <4>7. ByeSent' => ~Active'
        BY <1>3, <4>4 DEF Calm, ByeLast, Active
      <4>8. ByeLast'
        BY <3>2, <4>5, <4>6, <4>7 DEF ByeLast
      <4>9. QED
        BY <1>3, <4>4, <4>8 DEF Live, Active
    <3>4. CASE rd["serv"] # "open"
      <4>1. UNCHANGED rdBuf
        BY <1>3, <3>1, <3>4
      <4>2. ByeSent' => ByeSent
        BY <1>3, <3>2, <4>1 DEF ByeSent, ByeIn
      <4>3. ByeLast'
        BY <1>3, <3>2, <4>1, <4>2 DEF Calm, ByeLast, ByeIn, Active
      <4>4. ~Live
        <5>1. ~Hosting
          BY <3>4 DEF Calm, Opened
        <5>2. QED
          BY <1>3, <2>2, <5>1 DEF Calm, Marks, Whole
      <4>5. ~Live'
        BY <1>3, <4>2, <4>4 DEF Live, Active
      <4>6. QED
        BY <4>3, <4>4, <4>5
    <3>5. QED
      BY <3>3, <3>4
  <2>3. QED
    BY <2>1, <2>2, Sides
<1>7. QED
  BY <1>3, <1>4, <1>5, <1>6, CopiedCalm

LEMMA JoinCloseCalm ==
  ASSUME IndInv, IndInv', Calm, NEW t \in Thread, JoinClose(t)
  PROVE  Calm'
<1>1. PICK x \in Side : x = thr[t].me
  BY DEF IndInv, ThreadTypes, Records
<1>2. PICK y \in Side : y = Him(x) /\ Him(y) = x /\ y # x /\ \A z \in Side : z = x \/ z = y
  BY Sides
<1>3. /\ thr[t].job = "join" /\ thr[t].at = "close" /\ Copies(t, x) /\ Joined(x)
      /\ UNCHANGED <<conn, req, rep, peer>>
      /\ wr' = [wr EXCEPT ![x] = "none"] /\ wrBuf' = [wrBuf EXCEPT ![x] = <<>>]
      /\ rd' = [rd EXCEPT ![y] = "none"] /\ rdBuf' = [rdBuf EXCEPT ![y] = <<>>]
      /\ connected' = [connected EXCEPT ![x] = FALSE]
  BY <1>1, <1>2 DEF JoinClose, At, Copies, Joined, asks, Cleared
<1>4. /\ wr'[x] = "none" /\ wr'[y] = wr[y] /\ rd'[y] = "none" /\ rd'[x] = rd[x]
      /\ wrBuf'[x] = <<>> /\ wrBuf'[y] = wrBuf[y] /\ rdBuf'[y] = <<>> /\ rdBuf'[x] = rdBuf[x]
      /\ ~connected'[x] /\ connected'[y] = connected[y]
  BY <1>2, <1>3 DEF IndInv, Kinds
<1>5. /\ thr'[t].job = "idle" /\ thr'[t].timer = 0
      /\ \A u \in Thread : u # t => thr'[u] = thr[u]
  BY DEF IndInv, ThreadTypes, JoinClose, Idle
<1>6. ~Hosting /\ ~Live /\ ~Hosting' /\ ~Active /\ ~Active'
  <2>1. ~Whole
    BY <1>3 DEF Whole
  <2>2. ~Hosting /\ ~Live
    BY <1>2, <1>3, <2>1, Sides DEF Calm, Marks
  <2>3. QED
    BY <1>3, <2>2 DEF Hosting, Live, Active
<1>7. (\A u \in Thread : Bears(u)' => Bears(u) /\ thr'[u].msg = thr[u].msg)
  BY <1>5 DEF Bears, Copies
<1>8. \/ wrBuf'["trap"] = <<>> /\ rdBuf'["serv"] = <<>>
      \/ wrBuf'["trap"] = wrBuf["trap"] /\ rdBuf'["serv"] = rdBuf["serv"]
  BY <1>2, <1>4, Sides
<1>9. (ByeSent' => ByeSent) /\ ByeLast'
  <2>1. ByeSent' => ByeSent
    BY <1>7, <1>8 DEF ByeSent, ByeIn
  <2>2. CASE wrBuf'["trap"] = <<>> /\ rdBuf'["serv"] = <<>>
    <3>1. DOMAIN (<<>>) = {}
      OBVIOUS
    <3>2. \A s \in {wrBuf'["trap"], rdBuf'["serv"]} : DOMAIN s = {}
      BY <2>2, <3>1
    <3>3. ~ByeIn(rdBuf["serv"])'
      BY <3>2 DEF ByeIn
    <3>4. \A s \in {wrBuf'["trap"], rdBuf'["serv"]} : \A i \in DOMAIN s : s[i][1] = "bye" => i = Len(s)
      BY <3>2
    <3>5. QED
      BY <1>6, <2>1, <2>2, <3>3, <3>4 DEF ByeLast
  <2>3. CASE wrBuf'["trap"] = wrBuf["trap"] /\ rdBuf'["serv"] = rdBuf["serv"]
    BY <1>6, <1>7, <2>1, <2>3 DEF Calm, ByeLast, ByeIn
  <2>4. QED
    BY <1>8, <2>2, <2>3
<1>10. ~Live'
  BY <1>3, <1>6, <1>9 DEF Live
<1>11. wr[x] \in Held /\ rd[y] \in Held /\ peer[y] # "openWrite"
  BY <1>2, <1>3 DEF IndInv, AllPipes, Pipes
<1>12. ~Begun /\ ~Begun' /\ (Stuck' <=> Stuck)
  <2>1. ~Begun
    BY <1>2, <1>6, <1>11, Sides DEF Calm, Opened, Begun, Held
  <2>2. ~Begun'
    BY <1>2, <1>3, <1>4, <1>10, <1>11, Sides DEF Begun
  <2>3. QED
    BY <1>3, <2>1, <2>2 DEF Stuck, Granted
<1>13. Opened'
  <2>1. CASE x = "serv"
    BY <1>2, <1>3, <1>4, <1>6, <1>10, <1>11, <1>12, <2>1, Sides DEF Calm, Opened, Bare
  <2>2. CASE x = "trap"
    BY <1>2, <1>3, <1>4, <1>6, <1>10, <1>11, <1>12, <2>2, Sides DEF Calm, Opened, Bare
  <2>3. QED
    BY <2>1, <2>2, Sides
<1>14. \A u \in Thread, z \in Side : (Serves(u, z)' <=> Serves(u, z)) /\ (Serves(u, z) => thr'[u] = thr[u])
  BY <1>3, <1>5 DEF Serves
<1>15. Marks'
  <2>1. Joined(y)' <=> Joined(y)
    BY <1>1, <1>2, <1>5 DEF Joined, Copies
  <2>2. connected'["serv"] => Joined("serv")'
    BY <1>2, <1>4, <1>6, <2>1, Sides DEF Calm, Marks
  <2>3. connected'["trap"] => Joined("trap")' \/ peer["serv"] = "off"
    BY <1>2, <1>4, <1>6, <2>1, Sides DEF Calm, Marks
  <2>4. ~(connected'["serv"] /\ connected'["trap"])
    BY <1>4, Sides
  <2>5. QED
    BY <1>3, <1>6, <1>10, <2>2, <2>3, <2>4 DEF Marks
<1>16. Waits' /\ Grants'
  BY <1>3, <1>12, <1>14 DEF Calm, Waits, Grants, Bare
<1>17. Rests'
  BY <1>5 DEF Calm, Rests
<1>18. Timely'
  BY <1>3, <1>12, <1>14, SameReady, SameLeft, TimelyKept, Sides DEF Calm, IndInv
<1>19. QED
  BY <1>9, <1>13, <1>15, <1>16, <1>17, <1>18 DEF Calm

(***************************************************************************)
(* Time                                                                    *)
(***************************************************************************)
\* When everybody sleeps or waits, the server's ConnectThread gets nearer to the
\* server's END_CONNECT with the next tick, or has read it.
LEMMA Nearer ==
  ASSUME IndInv, Calm, \A u \in Thread, x \in Side : ~Runs(u) /\ ~Works(x),
         NEW t \in Thread, Serves(t, "serv"), peer["serv"] # "off"
  PROVE  /\ thr[t].at \in {"sleep", "read", "disco"} /\ (thr[t].at # "read" => thr[t].timer = 1)
         /\ \/ thr[t].timer = 1 /\ \/ thr[t].at = "disco" \/ req["serv"] = "disco"
                                   \/ Bare("serv") \/ peer["serv"] = "disco"
            \/ thr[t].at # "disco" /\ req["serv"] # "disco" /\ ~Bare("serv") /\ peer["serv"] # "disco"
<1>1. "serv" \in Side /\ thr[t].job = "conn" /\ thr[t].me = "serv" /\ thr[t].timer \in {0, 1} /\ thr[t].at \in ConnPlaces
  BY Sides DEF Serves, IndInv, ThreadTypes, ThreadState, Records
<1>2. ~Runs(t) /\ ~Works("serv")
  BY <1>1
<1>3. /\ Asks("serv") /\ req["serv"] \in {"none", "connect", "end", "disco"} /\ peer["serv"] \in Peers
      /\ rep["serv"] \in {"none", "ack", "nack"} /\ conn["serv"] \in PipeState
  BY <1>1 DEF IndInv, AllAsk, Kinds
<1>4. thr[t].at \notin {"await", "join", "close", "free"}
  <2>1. thr[t].at # "await"
    BY <1>1, <1>2, <1>3 DEF Runs, Works, Asks, At
  <2>2. QED
    BY <1>2, <2>1 DEF Runs
<1>5. thr[t].at \in {"sleep", "read", "disco"} /\ (thr[t].at # "read" => thr[t].timer = 1)
  BY <1>1, <1>2, <1>4 DEF Runs, ConnPlaces
<1>6. CASE thr[t].at = "read"
  <2>1. req["serv"] = "none"
    BY <1>1, <1>2, <1>6 DEF Runs, At
  <2>2. ~Bare("serv")
    BY <1>1, <1>2, <1>3, <2>1 DEF Works, Bare, Asks, Calm, Waits
  <2>3. peer["serv"] # "disco"
    BY <1>1, <1>2, <2>1 DEF Works, Calm, Waits
  <2>4. QED
    BY <1>5, <1>6, <2>1, <2>2, <2>3
<1>7. QED
  BY <1>5, <1>6

\* The server has then got what the debugger wrote last.
LEMMA Heard ==
  ASSUME IndInv, Calm, \A u \in Thread, x \in Side : ~Runs(u) /\ ~Works(x),
         NEW t \in Thread, Serves(t, "serv"), peer["serv"] # "off", Ready(t) = 0,
         NEW u \in Thread, Serves(u, "trap"), thr[u].at = "disco", Begun
  PROVE  FALSE
<1>1. req["trap"] = "disco" /\ peer["trap"] = "disco"
  <2>1. req["trap"] = "disco"
    BY Sides DEF IndInv, AllServe, Serving, ServedBy
  <2>2. QED
    BY <2>1, Sides DEF IndInv, AllAsk, Asks, Calm, Waits
<1>2. Live /\ ByeSent
  BY <1>1 DEF Begun, Live, Granted, Active
<1>3. /\ thr[t].job = "conn" /\ thr[t].me = "serv" /\ ~Runs(t) /\ ~Works("serv")
      /\ Asks("serv") /\ peer["serv"] \in Peers /\ rep["serv"] \in {"none", "ack", "nack"}
  BY Sides DEF Serves, IndInv, AllAsk, Kinds
<1>4. /\ thr[t].at \in {"sleep", "read"} /\ (thr[t].at # "read" => thr[t].timer = 1)
      /\ req["serv"] # "disco" /\ ~Bare("serv") /\ peer["serv"] # "disco"
      /\ req["serv"] = "end" \/ Granted("serv") \/ peer["serv"] = "openWrite" => thr[t].timer = 0
  <2>1. thr[t].timer \in {0, 1}
    BY DEF IndInv, ThreadTypes, Records
  <2>2. /\ thr[t].at # "disco" /\ req["serv"] # "disco" /\ ~Bare("serv") /\ peer["serv"] # "disco"
    BY <2>1, Nearer DEF Ready
  <2>3. thr[t].at # "await"
    BY Nearer
  <2>4. req["serv"] = "end" \/ Granted("serv") \/ peer["serv"] = "openWrite" => thr[t].timer = 0
    BY <2>2, <2>3 DEF Ready
  <2>5. QED
    BY <2>2, <2>4, Nearer
<1>5. peer["serv"] = "up"
  <2>1. peer["serv"] \notin {"off", "opening", "linked", "disco", "lost", "wait"}
    BY <1>4, Sides DEF Bare, Calm, Waits
  <2>2. peer["serv"] # "asked"
    BY <1>3, <1>4 DEF Bare, Works
  <2>3. peer["serv"] \notin {"openRead", "openWrite"}
    BY <1>2, <1>3 DEF Calm, Opened, Works, Hosting, Begun
  <2>4. peer["serv"] # "ending"
    <3> SUFFICES ASSUME peer["serv"] = "ending"
                 PROVE  FALSE
      OBVIOUS
    <3>1. req["serv"] = "end"
      BY <1>3, Sides DEF Works, Calm, Waits
    <3>2. thr[t].timer = 0 /\ thr[t].at = "read"
      BY <1>4, <3>1
    <3>3. QED
      BY <1>3, <3>1, <3>2 DEF Runs, At
  <2>5. QED
    BY <1>3, <2>1, <2>2, <2>3, <2>4 DEF Peers
<1>6. Joined("trap")
  <2>1. connected["serv"] /\ connected["trap"]
    BY <1>1, <1>2, <1>3, <1>5 DEF Calm, Marks, Hosting, Asks
  <2>2. ~Connecting("serv") /\ ~Connecting("trap")
    BY Sides DEF Connecting, Runs
  <2>3. QED
    BY <2>1, <2>2 DEF Calm, Marks
<1>7. \A w \in Thread : Copies(w, "trap") => thr[w].at = "read" /\ ~Readable("trap")
  <2> SUFFICES ASSUME NEW w \in Thread, Copies(w, "trap")
               PROVE  thr[w].at = "read" /\ ~Readable("trap")
    OBVIOUS
  <2>1. ~Runs(w) /\ thr[w].job = "join" /\ thr[w].me = "trap" /\ thr[w].at \in JoinPlaces
    BY Sides DEF Copies, IndInv, ThreadTypes, ThreadState
  <2>2. QED
    BY <2>1 DEF Runs, JoinReady, JoinPlaces
<1>8. wrBuf["trap"] = <<>> /\ \A w \in Thread : ~Bears(w)
  BY <1>6, <1>7 DEF Joined, Readable, Bears
<1>9. rdBuf["serv"] = <<>>
  BY <1>3, <1>5 DEF Works
<1>10. ~ByeSent
  BY <1>8, <1>9, Queues DEF ByeSent
<1>11. QED
  BY <1>2, <1>10

LEMMA TickCalm ==
  ASSUME Prompt, IndInv, IndInv', Calm, Tick
  PROVE  Calm'
<1>1. \A u \in Thread, x \in Side : ~Runs(u) /\ ~Works(x)
  BY DEF Tick
<1>2. UNCHANGED <<started, connected, conn, req, rep, peer, rd, wr, rdBuf, wrBuf>>
  BY DEF Tick, flags, asks, data
<1>3. \A u \in Thread : /\ thr'[u].job = thr[u].job /\ thr'[u].me = thr[u].me /\ thr'[u].at = thr[u].at
                        /\ thr'[u].timer = 0
                        /\ thr[u].timer = 0 => thr'[u] = thr[u]
  <2> SUFFICES ASSUME NEW u \in Thread
               PROVE  /\ thr'[u].job = thr[u].job /\ thr'[u].me = thr[u].me /\ thr'[u].at = thr[u].at
                      /\ thr'[u].timer = 0
                      /\ thr[u].timer = 0 => thr'[u] = thr[u]
    OBVIOUS
  <2>1. thr'[u] = [thr[u] EXCEPT !.timer = 0] /\ thr[u] \in Records
    BY DEF Tick, IndInv, ThreadTypes
  <2>2. \A r \in Records : LET q == [r EXCEPT !.timer = 0] IN
          q.job = r.job /\ q.me = r.me /\ q.at = r.at /\ q.timer = 0 /\ (r.timer = 0 => q = r)
    BY DEF Records
  <2>3. QED
    BY <2>1, <2>2
<1>4. SameCopies
  BY <1>3 DEF SameCopies, Calm, Rests
<1>5. (ByeSent' <=> ByeSent) /\ ByeLast'
  BY <1>2, <1>4, ByeKept DEF Calm, Active
<1>6. (Hosting' <=> Hosting) /\ (Live' <=> Live)
  BY <1>2, <1>5 DEF Hosting, Live, Active
<1>7. (Begun' <=> Begun) /\ (Stuck' <=> Stuck)
  BY <1>2, <1>6 DEF Begun, Stuck, Granted
<1>8. Opened'
  BY <1>2, <1>6, <1>7 DEF Calm, Opened, Bare
<1>9. \A u \in Thread, y \in Side : Serves(u, y)' <=> Serves(u, y)
  BY <1>3 DEF Serves
<1>10. Marks'
  <2>1. \A x \in Side : Connecting(x) => Connecting(x)'
    BY <1>3, <1>9 DEF Connecting
  <2>2. QED
    BY <1>2, <1>4, <1>6, <2>1, MarksKept DEF Calm
<1>11. Waits' /\ Grants'
  BY <1>2, <1>3, <1>7, <1>9, Sides DEF Calm, Waits, Grants, Bare
<1>12. Rests'
  BY <1>3 DEF Rests
<1>13. Timely'
  <2> SUFFICES ASSUME NEW t \in Thread, Serves(t, "serv"), peer["serv"] # "off"
               PROVE  InTime(t)'
    BY <1>2, <1>9, Sides DEF Timely
  <2>1. InTime(t) /\ Ready(t) \in Nat /\ Ready(t)' \in Nat /\ thr[t].timer \in {0, 1}
    BY Counts DEF Calm, Timely, IndInv, ThreadTypes, Records
  <2>2. \/ Ready(t)' = Ready(t) - 1
        \/ Ready(t) = 0 /\ Ready(t)' = 0
    <3>1. thr[t].at # "await"
      BY <1>1, Nearer
    <3>2. CASE thr[t].timer = 1 /\ \/ thr[t].at = "disco" \/ req["serv"] = "disco"
                                   \/ Bare("serv") \/ peer["serv"] = "disco"
      <4>1. Bare("serv")' <=> Bare("serv")
        BY <1>2 DEF Bare
      <4>2. QED
        BY <1>2, <1>3, <3>1, <3>2, <4>1 DEF Ready
    <3>3. CASE thr[t].at # "disco" /\ req["serv"] # "disco" /\ ~Bare("serv") /\ peer["serv"] # "disco"
      <4>1. (Bare("serv")' <=> Bare("serv")) /\ (Granted("serv")' <=> Granted("serv"))
        BY <1>2 DEF Bare, Granted
      <4>2. QED
        BY <1>2, <1>3, <2>1, <3>1, <3>3, <4>1 DEF Ready
    <3>4. QED
      BY <1>1, <3>2, <3>3, Nearer
  <2>3. \A u \in Thread : /\ Left(u) \in Nat /\ Away(u) \in Nat /\ Left(u)' \in Nat /\ Away(u)' \in Nat
                          /\ Left(u)' >= Left(u) - 1 /\ Away(u)' >= Away(u) - 1 /\ Away(u)' >= 3
    <3> SUFFICES ASSUME NEW u \in Thread
                 PROVE  /\ Left(u) \in Nat /\ Away(u) \in Nat /\ Left(u)' \in Nat /\ Away(u)' \in Nat
                        /\ Left(u)' >= Left(u) - 1 /\ Away(u)' >= Away(u) - 1 /\ Away(u)' >= 3
      OBVIOUS
    <3>1. thr[u].timer \in {0, 1} /\ (Granted("trap")' <=> Granted("trap"))
      BY <1>2 DEF IndInv, ThreadTypes, Records, Granted
    <3>2. Left(u)' >= Left(u) - 1
      BY <1>2, <1>3, <3>1 DEF Left
    <3>3. Away(u)' >= Away(u) - 1 /\ Away(u)' >= 3
      BY <1>2, <1>3, <3>1 DEF Away
    <3>4. QED
      BY <3>2, <3>3, Counts DEF IndInv
  <2>4. ASSUME Begun, Ready(t) = 0, NEW u \in Thread, Serves(u, "trap")
        PROVE  Left(u)' > 0
    <3>1. Left(u) > 0
      BY <2>1, <2>3, <2>4 DEF InTime
    <3>2. ~(peer["trap"] = "disco" /\ rep["trap"] # "none")
      BY <3>1 DEF Left
    <3>3. thr[u].at # "disco"
      BY <1>1, <2>4, Heard
    <3>4. QED
      BY <1>2, <1>3, <3>2, <3>3 DEF Left
  <2>5. QED
    BY <1>2, <1>7, <1>9, <2>1, <2>2, <2>3, <2>4, Sides DEF InTime
<1>14. QED
  BY <1>5, <1>8, <1>10, <1>11, <1>12, <1>13 DEF Calm

(***************************************************************************)
(* As long as nobody is killed it holds                                    *)
(***************************************************************************)
LEMMA ThreadCalm ==
  ASSUME IndInv, IndInv', Calm, NEW t \in Thread, Threads(t)
  PROVE  Calm'
<1>1. CASE Awaited(t) \/ Wake(t) \/ Gone(t) \/ ConnectServ(t) \/ ConnectTrap(t) \/ EndConnect(t) \/ StartJoin(t)
  BY <1>1, AwaitedCalm, ConnectServCalm, ConnectTrapCalm, EndConnectCalm, StartJoinCalm
<1>2. CASE Disco(t) \/ DiscoAck(t) \/ CloseConn(t) \/ FreeLink(t)
  BY <1>2, DiscoCalm, DiscoAckCalm, CloseConnCalm, FreeLinkCalm
<1>3. CASE JoinStart(t) \/ JoinRead(t) \/ JoinWrite(t) \/ JoinClose(t)
  BY <1>3, JoinStartCalm, JoinReadCalm, JoinWriteCalm, JoinCloseCalm
<1>4. QED
  BY <1>1, <1>2, <1>3 DEF Threads

LEMMA ProgramCalm ==
  ASSUME IndInv, IndInv', Calm, NEW x \in Side, Program(x)
  PROVE  Calm'
<1>1. CASE LinkOpen(x) \/ Connect(x) \/ Asked(x) \/ Ended(x)
  BY <1>1, SpokenCalm
<1>2. CASE OpenRead(x) \/ OpenWrite(x) \/ Serve \/ Replied
  BY <1>2, OpenReadCalm, OpenWriteCalm, ServeCalm, RepliedCalm
<1>3. CASE Discoed(x)
  BY <1>3, DiscoedServ, DiscoedTrap, Sides
<1>4. CASE Lost(x)
  BY <1>4, NotLost
<1>5. QED
  BY <1>1, <1>2, <1>3, <1>4 DEF Program

LEMMA StillCalm ==
  ASSUME IndInv, IndInv', Calm, UNCHANGED vars
  PROVE  Calm'
<1>1. UNCHANGED <<thr, started, connected, conn, req, rep, rd, wr, rdBuf, wrBuf, peer>>
  BY DEF vars, flags, asks, data
<1>2. (Hosting' <=> Hosting) /\ (Active' <=> Active) /\ \A x \in Side : Stays(x)
  BY <1>1 DEF Hosting, Active, Stays, Bare, Granted
<1>3. (ByeSent' <=> ByeSent) /\ ByeLast'
  BY <1>1, <1>2, StillThreads, ByeKept DEF Calm
<1>4. Waits'
  BY <1>1, StillThreads DEF Calm, Waits, Bare
<1>5. QED
  BY <1>1, <1>2, <1>3, <1>4, Spoken

LEMMA QuietNext ==
  ASSUME Prompt, IndInv, IndInv', Quiet, [Next]_vars
  PROVE  Quiet'
<1>1. ASSUME NEW t \in Thread, Threads(t)
      PROVE  UNCHANGED kills /\ (Calm => Calm')
  <2>1. UNCHANGED kills
    BY <1>1 DEF Threads, Awaited, Wake, ConnectServ, ConnectTrap, EndConnect, StartJoin, Disco, DiscoAck,
       Gone, CloseConn, FreeLink, JoinStart, JoinRead, JoinWrite, JoinClose, hist
  <2>2. QED
    BY <1>1, <2>1, ThreadCalm
<1>2. ASSUME NEW x \in Side, Program(x)
      PROVE  UNCHANGED kills /\ (Calm => Calm')
  <2>1. UNCHANGED kills
    BY <1>2 DEF Program, LinkOpen, Asked, OpenRead, OpenWrite, Ended, Lost, Discoed, Connect, Serve, Replied, hist
  <2>2. QED
    BY <1>2, <2>1, ProgramCalm
<1>3. CASE OpenServ \/ OpenTrap \/ Ask \/ Bye \/ \E x \in Side : Connect(x) \/ UnLink(x)
  <2>1. UNCHANGED kills
    BY <1>3 DEF OpenServ, OpenTrap, Ask, Bye, Connect, UnLink, hist
  <2>2. Calm => Calm'
    BY <1>3, OpenServCalm, OpenTrapCalm, AskCalm, ByeCalm, SpokenCalm
  <2>3. QED
    BY <2>1, <2>2 DEF Quiet
<1>4. ASSUME NEW x \in Side, Kill(x)
      PROVE  Quiet'
  <2>1. kills' = kills + (IF peer[x] = "lost" THEN 0 ELSE 1) /\ kills \in Nat
    BY <1>4 DEF Kill, Quiet
  <2>2. kills = 0 => peer[x] # "lost"
    BY DEF Quiet, Calm, Waits
  <2>3. QED
    BY <2>1, <2>2 DEF Quiet
<1>5. CASE Tick
  BY <1>5, TickCalm DEF Tick, hist, Quiet
<1>6. CASE UNCHANGED vars
  BY <1>6, StillCalm DEF vars, hist, Quiet
<1>7. CASE User
  BY <1>3, <1>4, <1>7, Sides DEF User
<1>8. QED
  BY <1>1, <1>2, <1>5, <1>6, <1>7 DEF Next, Quiet

LEMMA QuietInit == Init => Quiet
<1> SUFFICES ASSUME Init
             PROVE  Quiet
  OBVIOUS
<1>1. /\ \A t \in Thread : thr[t].job = "idle" /\ thr[t].timer = 0
      /\ \A x \in Side : /\ ~connected[x] /\ conn[x] = "none" /\ peer[x] = "off"
                         /\ req[x] = "none" /\ rep[x] = "none" /\ rd[x] = "none" /\ wr[x] = "none"
                         /\ rdBuf[x] = <<>> /\ wrBuf[x] = <<>>
      /\ kills = 0
  BY DEF Init, Idle
<1>2. ~Hosting /\ ~Active /\ ~Live /\ ~Begun /\ ~Stuck
  BY <1>1, Sides DEF Hosting, Active, Live, Begun, Stuck, Granted
<1>3. \A u \in Thread, x \in Side : ~Serves(u, x) /\ ~Bears(u)
  BY <1>1 DEF Serves, Bears, Copies
<1>4. ByeLast
  <2>1. DOMAIN (<<>>) = {}
    OBVIOUS
  <2>2. \A s \in {wrBuf["trap"], rdBuf["serv"]} : DOMAIN s = {}
    BY <1>1, <2>1, Sides
  <2>3. ~ByeIn(rdBuf["serv"])
    BY <2>2 DEF ByeIn
  <2>4. \A s \in {wrBuf["trap"], rdBuf["serv"]} : \A i \in DOMAIN s : s[i][1] = "bye" => i = Len(s)
    BY <2>2
  <2>5. \A u \in Thread : ~Bears(u)
    BY <1>3, Sides
  <2>6. QED
    BY <1>2, <2>3, <2>4, <2>5 DEF ByeLast
<1>5. Opened /\ Marks /\ Waits /\ Grants
  BY <1>1, <1>2, <1>3, Sides DEF Opened, Marks, Waits, Grants, Bare
<1>6. Rests /\ Timely
  BY <1>1, Sides DEF Rests, Timely
<1>7. QED
  BY <1>1, <1>4, <1>5, <1>6 DEF Quiet, Calm

\* As long as nobody is killed no program is lost, on one processor on which whoever is
\* not asleep is done before a DosSleep ends: the ConnectThread of the debugger's side
\* sleeps before it answers DISCO_TRAP (nmpbind.c:258-264), and before that sleep ends
\* the server's ConnectThread has read its END_CONNECT and the two JoinPipeThreads
\* have copied the last request.
THEOREM NoneLostCorrect == ASSUME ~Preempt, Prompt PROVE Spec => []NoneLost
<1>1. Init => Quiet
  BY QuietInit
<1>2. IndInv /\ IndInv' /\ Quiet /\ [Next]_vars => Quiet'
  BY QuietNext
<1>3. Quiet => NoneLost
  BY DEF Quiet, NoneLost, Calm, Waits
<1>4. QED
  BY <1>1, <1>2, <1>3, Holds, PTL DEF Spec
=============================================================================
