-------------------------- MODULE TcpSessionProofs --------------------------
(***************************************************************************)
(* Theorems about the server that clients share, for any number of clients *)
(* and any history of shells, nested or not.                               *)
(***************************************************************************)
EXTENDS TcpSession, SequenceTheorems, FiniteSetTheorems, TLAPS

Op == {"CONNECT", "ASK", "TELL", "SUSPEND", "RESUME", "DISCONNECT"}
Request == [op : Op, no : Nat]
Reply == [op : {"CONNECT", "REFUSED", "ASK"}, no : Nat]
Connection == [owner : Client, toServer : Seq(Request), toClient : Seq(Reply)]

\* A connection's owner, what the server has not read of it, and what its client
\* has not read of it.
Owner(k) == conns[k].owner
In(k) == conns[k].toServer
Out(k) == conns[k].toClient

\* The last packet of a connection that the server has not read.
LastIn(k) == In(k)[Len(In(k))]

\* The client's end of a connection is open; the connection waits in the backlog.
IsOpen(k) == sock[Owner(k)] = k
Pending(k) == \E i \in 1 .. Len(backlog) : backlog[i] = k

(***************************************************************************)
(* The invariant, in parts.                                                *)
(***************************************************************************)
Types ==
  /\ cpc \in [Client -> {"out", "idle", "asking", "shell", "dead"}]
  /\ sock \in [Client -> Nat]
  /\ issued \in [Client -> Nat] /\ answer \in [Client -> Nat] /\ done \in [Client -> Nat]
  /\ conns \in Seq(Connection) /\ backlog \in Seq(Nat)
  /\ spc \in {"connect", "session"} /\ (spc = "session" <=> ssock # None)
  /\ ssock \in Conn \cup {None} /\ depth \in Nat

\* Connections are accepted in their order, and only those that the server has
\* or will accept hold packets that it has not read.
Queue ==
  /\ \A i \in 1 .. Len(backlog) :
       /\ backlog[i] \in Conn /\ ssock < backlog[i]
       /\ \A j \in 1 .. i - 1 : backlog[j] < backlog[i]
  /\ \A k \in Conn : In(k) # <<>> => k = ssock \/ Pending(k)
  /\ \A k \in Conn : Pending(k) => In(k) # <<>> /\ Out(k) = <<>>

\* The server has, or will accept, every connection whose client's end is open,
\* unless it has refused the client.
Served ==
  \A k \in Conn : IsOpen(k) =>
    k = ssock \/ Pending(k) \/ (Out(k) # <<>> /\ Out(k)[1].op = "REFUSED")

\* Where a packet may stand on a connection.
Streams ==
  \A k \in Conn : \A i \in 1 .. Len(In(k)) :
    /\ In(k)[i].op \in {"CONNECT", "RESUME"} => i = 1
    /\ In(k)[i].op \in {"SUSPEND", "DISCONNECT"} => i = Len(In(k)) /\ ~IsOpen(k)
    /\ In(k)[i].op \in {"CONNECT", "ASK"} =>
         i = Len(In(k)) /\ IsOpen(k) /\ cpc[Owner(k)] = "asking"

\* A client says so before it closes: the server never waits for more on a
\* connection whose other end is gone.
Closed ==
  \A k \in Conn : ~IsOpen(k) =>
    /\ In(k) # <<>> => LastIn(k).op \in {"SUSPEND", "DISCONNECT"}
    /\ ssock = k => In(k) # <<>>

\* A client's data_socket is its newest connection.
Socks ==
  \A c \in Client :
    /\ sock[c] = None <=> cpc[c] \in {"out", "shell", "dead"}
    /\ sock[c] # None => /\ sock[c] \in Conn /\ Owner(sock[c]) = c
                         /\ \A k \in Conn : Owner(k) = c => k <= sock[c]

\* A client that waits has either its request or its reply on its connection.
Asked(k, c) == /\ Out(k) = <<>> /\ In(k) # <<>>
               /\ LastIn(k).op \in {"CONNECT", "ASK"} /\ LastIn(k).no = issued[c]
Replied(k, c) == In(k) = <<>> /\ Len(Out(k)) = 1 /\ Out(k)[1].no = issued[c]
Waits ==
  /\ \A c \in Client : cpc[c] = "asking" => Asked(sock[c], c) \/ Replied(sock[c], c)
  /\ \A k \in Conn : Out(k) # <<>> =>
       /\ IsOpen(k) /\ cpc[Owner(k)] = "asking"
       /\ Out(k)[1].op = "REFUSED" => ssock # k

\* The bound on requests: a client that has reached MaxReqs only leaves.
Spare(l) == IF l = "out" THEN 2 ELSE IF l = "idle" THEN 1 ELSE 0
Numbers ==
  /\ \A c \in Client : /\ issued[c] <= MaxReqs + Spare(cpc[c])
                       /\ answer[c] <= issued[c] /\ done[c] <= issued[c]
  /\ \A k \in Conn : \A i \in 1 .. Len(In(k)) : In(k)[i].no <= issued[Owner(k)]

\* The packets that suspend and resume each client alternate: between two
\* SUSPENDs of a client that the server has not read there is a RESUME, and
\* between two RESUMEs a SUSPEND.  (On one connection RESUME comes first.)
Suspends == Unread("SUSPEND")
Resumes == Unread("RESUME")
Away == {c \in Client : cpc[c] \in {"shell", "dead"}}

ResumeFollows ==
  \A k \in Suspends :
    \/ \E m \in Resumes : /\ Owner(m) = Owner(k) /\ k < m
                          /\ \A j \in Suspends : Owner(j) = Owner(k) /\ k < j => m <= j
    \/ /\ Owner(k) \in Away
       /\ \A j \in Suspends : Owner(j) = Owner(k) => j <= k
SuspendFollows ==
  \A m \in Resumes :
    \/ \E k \in Suspends : /\ Owner(k) = Owner(m) /\ m <= k
                           /\ \A j \in Resumes : Owner(j) = Owner(m) /\ m < j => k < j
    \/ /\ Owner(m) \notin Away
       /\ \A j \in Resumes : Owner(j) = Owner(m) => j <= m

Alternate == ResumeFollows /\ SuspendFollows

Shape == Types /\ Queue /\ Served /\ Streams /\ Closed /\ Socks /\ Waits /\ Numbers

(***************************************************************************)
(* What the actions do to a connection.                                    *)
(***************************************************************************)
\* The parts of a connection.
LEMMA ConnFacts ==
  ASSUME Types
  PROVE  /\ Len(conns) \in Nat /\ Conn = 1 .. Len(conns)
         /\ \A k \in Conn : /\ conns[k] \in Connection /\ Owner(k) \in Client
                            /\ In(k) \in Seq(Request) /\ Len(In(k)) \in Nat
                            /\ Out(k) \in Seq(Reply) /\ Len(Out(k)) \in Nat
                            /\ conns[k] = [owner |-> Owner(k), toServer |-> In(k),
                                           toClient |-> Out(k)]
                            /\ In(k) = <<>> <=> Len(In(k)) = 0
                            /\ Out(k) = <<>> <=> Len(Out(k)) = 0
                            /\ \A i \in 1 .. Len(In(k)) : In(k)[i] \in Request
<1>1. Len(conns) \in Nat /\ Conn = 1 .. Len(conns)
  BY LenProperties DEF Types, Conn
<1>2. ASSUME NEW k \in Conn
      PROVE  /\ conns[k] \in Connection /\ Owner(k) \in Client
             /\ In(k) \in Seq(Request) /\ Out(k) \in Seq(Reply)
             /\ conns[k] = [owner |-> Owner(k), toServer |-> In(k), toClient |-> Out(k)]
  <2>1. conns[k] \in Connection
    BY <1>1, ElementOfSeq DEF Types
  <2>2. QED
    BY <2>1 DEF Connection, Owner, In, Out
<1>3. QED
  BY <1>1, <1>2, EmptySeq, LenProperties, ElementOfSeq

\* A step of a client or of the server on one connection k.
LEMMA Changed ==
  ASSUME Types, NEW k \in Conn, NEW x \in Connection, conns' = [conns EXCEPT ![k] = x]
  PROVE  /\ conns' \in Seq(Connection) /\ Len(conns') = Len(conns) /\ Conn' = Conn
         /\ Owner(k)' = x.owner /\ In(k)' = x.toServer /\ Out(k)' = x.toClient
         /\ \A j \in Conn \ {k} : Owner(j)' = Owner(j) /\ In(j)' = In(j) /\ Out(j)' = Out(j)
<1>1. /\ conns' \in Seq(Connection) /\ Len(conns') = Len(conns)
      /\ \A j \in 1 .. Len(conns) : conns'[j] = IF j = k THEN x ELSE conns[j]
  BY ExceptSeq DEF Types, Conn
<1>2. QED
  BY <1>1 DEF Conn, Owner, In, Out

\* Open: a new connection, with one packet, behind all the others.
LEMMA Opened ==
  ASSUME Types, NEW c \in Client, NEW op \in Op, Open(c, op), NEW n, n = Len(conns) + 1
  PROVE  /\ conns' \in Seq(Connection) /\ backlog' \in Seq(Nat)
         /\ Len(conns') = n /\ Conn' = Conn \cup {n}
         /\ \A j \in Conn : Owner(j)' = Owner(j) /\ In(j)' = In(j) /\ Out(j)' = Out(j)
         /\ \A j : j = n => /\ Owner(j)' = c /\ Out(j)' = <<>> /\ In(j)' # <<>>
                               /\ Len(In(j)') = 1 /\ (In(j)')[1] = Packet(c, op)
         /\ Len(backlog') = Len(backlog) + 1 /\ Len(backlog) \in Nat
         /\ \A i \in 1 .. Len(backlog) : backlog'[i] = backlog[i]
         /\ backlog'[Len(backlog) + 1] = n
         /\ sock' = [sock EXCEPT ![c] = n]
         /\ issued' = [issued EXCEPT ![c] = @ + 1]
<1> DEFINE x == [owner |-> c, toServer |-> <<Packet(c, op)>>, toClient |-> <<>>]
<1>0. \A q : Len(<<q>>) = 1 /\ <<q>>[1] = q /\ <<q>> # <<>>
  BY EmptySeq
<1>1. x \in Connection
  <2>1. Packet(c, op) \in Request
    BY DEF Packet, Request, Types
  <2>2. <<Packet(c, op)>> \in Seq(Request) /\ <<>> \in Seq(Reply)
    BY <2>1, EmptySeq
  <2>3. QED
    BY <2>2 DEF Connection
<1>2. /\ Len(conns) \in Nat /\ Len(backlog) \in Nat /\ n \in Nat
      /\ conns \in Seq(Connection) /\ backlog \in Seq(Nat)
  BY LenProperties DEF Types
<1>3. /\ conns' = Append(conns, x) /\ backlog' = Append(backlog, n)
      /\ sock' = [sock EXCEPT ![c] = n] /\ issued' = [issued EXCEPT ![c] = @ + 1]
  BY DEF Open, Issue
<1>4. /\ conns' \in Seq(Connection) /\ Len(conns') = n
      /\ \A j \in 1 .. Len(conns) : conns'[j] = conns[j]
      /\ conns'[n] = x
  <2> HIDE DEF x
  <2>1. QED
    BY <1>1, <1>2, <1>3, AppendProperties
<1>5. /\ backlog' \in Seq(Nat) /\ Len(backlog') = Len(backlog) + 1
      /\ \A i \in 1 .. Len(backlog) : backlog'[i] = backlog[i]
      /\ backlog'[Len(backlog) + 1] = n
  BY <1>2, <1>3, AppendProperties
<1>6. Conn' = Conn \cup {n}
  BY <1>2, <1>4 DEF Conn
<1>7. \A j : j = n => /\ Owner(j)' = c /\ Out(j)' = <<>> /\ In(j)' # <<>>
                               /\ Len(In(j)') = 1 /\ (In(j)')[1] = Packet(c, op)
  BY <1>0, <1>4 DEF Owner, In, Out
<1>8. \A j \in Conn : Owner(j)' = Owner(j) /\ In(j)' = In(j) /\ Out(j)' = Out(j)
  BY <1>4 DEF Conn, Owner, In, Out
<1> HIDE DEF x
<1>9. QED
  BY <1>2, <1>3, <1>4, <1>5, <1>6, <1>7, <1>8

\* Send: one more packet on the client's connection.
LEMMA Sent ==
  ASSUME Types, NEW c \in Client, NEW op \in Op, NEW k \in Conn, k = sock[c], Send(c, op)
  PROVE  /\ conns' \in Seq(Connection) /\ Len(conns') = Len(conns) /\ Conn' = Conn
         /\ \A j \in Conn : Owner(j)' = Owner(j) /\ Out(j)' = Out(j)
         /\ \A j \in Conn \ {k} : In(j)' = In(j)
         /\ Len(In(k)') = Len(In(k)) + 1 /\ Len(In(k)) \in Nat
         /\ \A i \in 1 .. Len(In(k)) : (In(k)')[i] = In(k)[i]
         /\ (In(k)')[Len(In(k)) + 1] = Packet(c, op)
         /\ issued' = [issued EXCEPT ![c] = @ + 1]
<1> DEFINE s == Append(In(k), Packet(c, op))
           x == [conns[k] EXCEPT !.toServer = s]
<1>1. /\ In(k) \in Seq(Request) /\ Packet(c, op) \in Request /\ Len(In(k)) \in Nat
      /\ conns[k] \in Connection
  <2>1. Packet(c, op) \in Request
    BY DEF Packet, Request, Types
  <2>2. QED
    BY <2>1, ConnFacts
<1>2. s \in Seq(Request)
  BY <1>1, AppendProperties
<1>3. x \in Connection /\ x.owner = Owner(k) /\ x.toServer = s /\ x.toClient = Out(k)
  BY <1>1, <1>2 DEF Connection, Owner, Out
<1>4. conns' = [conns EXCEPT ![k] = x] /\ issued' = [issued EXCEPT ![c] = @ + 1]
  BY DEF Send, Issue, In
<1> HIDE DEF x
<1>5. /\ conns' \in Seq(Connection) /\ Len(conns') = Len(conns) /\ Conn' = Conn
      /\ Owner(k)' = Owner(k) /\ In(k)' = s /\ Out(k)' = Out(k)
      /\ \A j \in Conn \ {k} : Owner(j)' = Owner(j) /\ In(j)' = In(j) /\ Out(j)' = Out(j)
  BY <1>3, <1>4, Changed
<1>6. QED
  BY <1>1, <1>4, <1>5, AppendProperties

\* Handle: the first packet is gone from the server's connection, and the reply,
\* if there is one, is on it.
LEMMA Handled ==
  ASSUME Types, NEW op \in Op, NEW r, r = <<>> \/ r \in {<<"CONNECT">>, <<"REFUSED">>, <<"ASK">>},
         Handle(op, r), NEW k, k = ssock
  PROVE  /\ k \in Conn /\ spc = "session"
         /\ conns' \in Seq(Connection) /\ Len(conns') = Len(conns) /\ Conn' = Conn
         /\ \A j \in Conn : Owner(j)' = Owner(j)
         /\ \A j \in Conn \ {k} : In(j)' = In(j) /\ Out(j)' = Out(j)
         /\ Len(In(k)) \in Nat /\ Len(In(k)) >= 1 /\ In(k)[1].op = op
         /\ \A j : j = k =>
              /\ Len(In(j)') = Len(In(j)) - 1 /\ (In(j)' = <<>> <=> Len(In(j)) = 1)
              /\ \A i \in 1 .. Len(In(j)) - 1 : (In(j)')[i] = In(j)[i + 1]
              /\ r = <<>> => Out(j)' = Out(j)
              /\ r # <<>> /\ Out(j) = <<>> =>
                   /\ Len(Out(j)') = 1
                   /\ (Out(j)')[1] = [op |-> r[1], no |-> In(j)[1].no]
         /\ done' = [done EXCEPT ![Owner(k)] = In(k)[1].no]
         /\ UNCHANGED <<client, backlog>>
<1> DEFINE p == Head(In(k))
           t == [i \in 1 .. Len(r) |-> [op |-> r[i], no |-> p.no]]
           o == Out(k) \o t
           x == [owner |-> Owner(k), toServer |-> Tail(In(k)), toClient |-> o]
<1>1. k \in Conn /\ spc = "session" /\ In(k) # <<>>
  BY DEF Handle, Types, In
<1>2. /\ conns[k] \in Connection /\ In(k) \in Seq(Request) /\ Out(k) \in Seq(Reply)
      /\ Len(In(k)) \in Nat /\ Len(In(k)) >= 1 /\ Len(Out(k)) \in Nat /\ Owner(k) \in Client
      /\ conns[k] = [owner |-> Owner(k), toServer |-> In(k), toClient |-> Out(k)]
  BY <1>1, ConnFacts
<1>3. /\ p = In(k)[1] /\ p \in Request /\ Tail(In(k)) \in Seq(Request)
      /\ Len(Tail(In(k))) = Len(In(k)) - 1
      /\ \A i \in 1 .. Len(In(k)) - 1 : Tail(In(k))[i] = In(k)[i + 1]
  BY <1>1, <1>2, HeadTailProperties
<1>4. /\ p.op = op /\ done' = [done EXCEPT ![Owner(k)] = p.no]
      /\ conns' = [conns EXCEPT ![k] = x]
      /\ UNCHANGED <<client, backlog>>
  BY DEF Handle, In, Out, Owner
<1>5. t \in Seq(Reply) /\ (r = <<>> => t = <<>>)
      /\ (r # <<>> => Len(t) = 1 /\ t[1] = [op |-> r[1], no |-> p.no])
  <2>1. CASE r = <<>>
    BY <2>1, EmptySeq
  <2>2. CASE r # <<>>
    <3>1. /\ Len(r) = 1 /\ r[1] \in {"CONNECT", "REFUSED", "ASK"}
      BY <2>2
    <3>2. [op |-> r[1], no |-> p.no] \in Reply
      BY <1>3, <3>1 DEF Reply, Request
    <3>3. t \in [1 .. 1 -> Reply] /\ t[1] = [op |-> r[1], no |-> p.no]
      BY <3>1, <3>2
    <3>4. t \in Seq(Reply) /\ Len(t) = 1
      BY <3>3, SeqDef, LenProperties
    <3>5. QED
      BY <2>2, <3>3, <3>4
  <2>3. QED
    BY <2>1, <2>2
<1> HIDE DEF t
<1>6. /\ o \in Seq(Reply)
      /\ r = <<>> => o = Out(k)
      /\ r # <<>> /\ Out(k) = <<>> => Len(o) = 1 /\ o[1] = [op |-> r[1], no |-> p.no]
  BY <1>2, <1>5, ConcatProperties, ConcatEmptySeq
<1>7. /\ x \in Connection /\ x.owner = Owner(k)
      /\ x.toServer = Tail(In(k)) /\ x.toClient = o
  BY <1>2, <1>3, <1>6 DEF Connection
<1>8. conns' = [conns EXCEPT ![k] = x]
  BY <1>4
<1> HIDE DEF x
<1>9. /\ conns' \in Seq(Connection) /\ Len(conns') = Len(conns) /\ Conn' = Conn
      /\ Owner(k)' = Owner(k) /\ In(k)' = Tail(In(k)) /\ Out(k)' = o
      /\ \A j \in Conn \ {k} : Owner(j)' = Owner(j) /\ In(j)' = In(j) /\ Out(j)' = Out(j)
  BY <1>1, <1>7, <1>8, Changed
<1>10. In(k)' = <<>> <=> Len(In(k)) = 1
  <2>1. \A q \in Seq(Request) : q = <<>> <=> Len(q) = 0
    BY EmptySeq
  <2>2. Len(Tail(In(k))) = 0 <=> Len(In(k)) = 1
    BY <1>2, <1>3
  <2>3. QED
    BY ONLY <1>3, <1>9, <2>1, <2>2, Zenon
<1>11. QED
  BY <1>1, <1>2, <1>3, <1>4, <1>6, <1>9, <1>10

\* Answered: the reply is gone from the client's connection.
LEMMA Took ==
  ASSUME Types, NEW c \in Client, NEW k \in Conn, k = sock[c], Answered(c)
  PROVE  /\ conns' \in Seq(Connection) /\ Len(conns') = Len(conns) /\ Conn' = Conn
         /\ \A j \in Conn : Owner(j)' = Owner(j) /\ In(j)' = In(j)
         /\ \A j \in Conn \ {k} : Out(j)' = Out(j)
         /\ Len(Out(k)) \in Nat /\ Out(k) # <<>>
         /\ Len(Out(k)) = 1 => Out(k)' = <<>>
         /\ answer' = [answer EXCEPT ![c] = Out(k)[1].no]
         /\ Head(Out(k)) = Out(k)[1]
<1> DEFINE x == [conns[k] EXCEPT !.toClient = Tail(Out(k))]
<1>1. /\ conns[k] \in Connection /\ Out(k) \in Seq(Reply) /\ Len(Out(k)) \in Nat
      /\ Out(k) # <<>>
  BY ConnFacts DEF Answered, Out
<1>2. /\ Tail(Out(k)) \in Seq(Reply) /\ Head(Out(k)) = Out(k)[1]
      /\ Len(Out(k)) = 1 => Tail(Out(k)) = <<>>
  <2>1. /\ Tail(Out(k)) \in Seq(Reply) /\ Head(Out(k)) = Out(k)[1]
        /\ Len(Tail(Out(k))) = Len(Out(k)) - 1
    BY <1>1, HeadTailProperties
  <2>2. \A q \in Seq(Reply) : Len(q) = 0 => q = <<>>
    BY EmptySeq
  <2>3. Len(Out(k)) = 1 => Len(Tail(Out(k))) = 0
    BY <1>1, <2>1
  <2>4. QED
    BY ONLY <2>1, <2>2, <2>3, Zenon
<1>3. x \in Connection /\ x.owner = Owner(k) /\ x.toServer = In(k) /\ x.toClient = Tail(Out(k))
  BY <1>1, <1>2 DEF Connection, Owner, In
<1>4. conns' = [conns EXCEPT ![k] = x] /\ answer' = [answer EXCEPT ![c] = Head(Out(k)).no]
  BY DEF Answered, Out
<1> HIDE DEF x
<1>5. /\ conns' \in Seq(Connection) /\ Len(conns') = Len(conns) /\ Conn' = Conn
      /\ Owner(k)' = Owner(k) /\ In(k)' = In(k) /\ Out(k)' = Tail(Out(k))
      /\ \A j \in Conn \ {k} : Owner(j)' = Owner(j) /\ In(j)' = In(j) /\ Out(j)' = Out(j)
  BY <1>3, <1>4, Changed
<1>6. QED
  BY <1>1, <1>2, <1>4, <1>5

(***************************************************************************)
(* Shape is preserved, one group of actions after the other.               *)
(***************************************************************************)
\* Connect and Resume.
LEMMA Opening ==
  ASSUME Shape, NEW c \in Client, NEW op, NEW l, Open(c, op), Goto(c, l),
         \/ op = "CONNECT" /\ cpc[c] = "out" /\ l = "asking" /\ issued[c] < MaxReqs
         \/ op = "RESUME" /\ cpc[c] = "shell" /\ l = "idle",
         UNCHANGED <<answer, server>>, NEW n, n = Len(conns) + 1
  PROVE  Shape'
<1>a. /\ op \in Op /\ cpc[c] \in {"out", "shell"} /\ l \in {"asking", "idle"}
      /\ cpc' = [cpc EXCEPT ![c] = l] /\ sock[c] = None
      /\ UNCHANGED <<answer, spc, ssock, depth, done>>
  BY DEF Op, Goto, server, Shape, Socks
<1>b. /\ conns' \in Seq(Connection) /\ backlog' \in Seq(Nat)
      /\ Len(conns') = n /\ Conn' = Conn \cup {n}
      /\ \A j \in Conn : Owner(j)' = Owner(j) /\ In(j)' = In(j) /\ Out(j)' = Out(j)
      /\ \A j : j = n => /\ Owner(j)' = c /\ Out(j)' = <<>> /\ In(j)' # <<>>
                               /\ Len(In(j)') = 1 /\ (In(j)')[1] = Packet(c, op)
      /\ Len(backlog') = Len(backlog) + 1 /\ Len(backlog) \in Nat
      /\ \A i \in 1 .. Len(backlog) : backlog'[i] = backlog[i]
      /\ backlog'[Len(backlog) + 1] = n
      /\ sock' = [sock EXCEPT ![c] = n]
      /\ issued' = [issued EXCEPT ![c] = @ + 1]
  BY <1>a, Opened DEF Shape
<1>c. /\ n \in Nat \ {0} /\ \A k \in Conn : k \in Nat /\ 1 <= k /\ k < n
      /\ ssock \in Nat /\ ssock < n /\ n \notin Conn
  BY ConnFacts DEF Shape, Types, None
<1>d. /\ \A k \in Conn : (IsOpen(k)' <=> IsOpen(k)) /\ Owner(k) \in Client
      /\ \A k \in Conn : Owner(k) = c => ~IsOpen(k)
      /\ \A k : k = n => IsOpen(k)'
  <2>1. \A k \in Conn : Owner(k) \in Client
    BY ConnFacts DEF Shape
  <2>2. sock \in [Client -> Nat]
    BY DEF Shape, Types
  <2>3. QED
    BY <1>a, <1>b, <1>c, <2>1, <2>2 DEF IsOpen, None
<1>e. /\ \A i : i \in 1 .. Len(backlog') <=> i \in 1 .. Len(backlog) \/ i = Len(backlog) + 1
      /\ \A k \in Conn : Pending(k)' <=> Pending(k)
      /\ \A k : k = n => Pending(k)'
  <2>1. \A i : i \in 1 .. Len(backlog') <=> i \in 1 .. Len(backlog) \/ i = Len(backlog) + 1
    BY <1>b
  <2>2. QED
    BY <1>b, <1>c, <2>1 DEF Pending
<1>1. Types'
  <2>1. cpc' \in [Client -> {"out", "idle", "asking", "shell", "dead"}]
    BY <1>a DEF Shape, Types
  <2>2. sock' \in [Client -> Nat] /\ issued' \in [Client -> Nat]
    BY <1>b, <1>c DEF Shape, Types
  <2>3. QED
    BY <1>a, <1>b, <2>1, <2>2 DEF Shape, Types
<1>2. Queue'
  <2>1. ASSUME NEW i \in 1 .. Len(backlog')
        PROVE  /\ backlog'[i] \in Conn' /\ ssock' < backlog'[i]
               /\ \A j \in 1 .. i - 1 : backlog'[j] < backlog'[i]
    <3>1. CASE i \in 1 .. Len(backlog)
      <4>1. \A j \in 1 .. i - 1 : j \in 1 .. Len(backlog)
        BY <1>b, <3>1
      <4>2. QED
        BY <1>a, <1>b, <3>1, <4>1 DEF Shape, Queue
    <3>2. CASE i = Len(backlog) + 1
      <4>1. \A j \in 1 .. i - 1 : j \in 1 .. Len(backlog)
        BY <1>b, <3>2
      <4>2. QED
        BY <1>a, <1>b, <1>c, <3>2, <4>1 DEF Shape, Queue
    <3>3. QED
      BY <1>e, <3>1, <3>2
  <2>2. ASSUME NEW k \in Conn'
        PROVE  /\ In(k)' # <<>> => k = ssock' \/ Pending(k)'
               /\ Pending(k)' => In(k)' # <<>> /\ Out(k)' = <<>>
    <3>1. CASE k \in Conn
      BY <1>a, <1>b, <1>e, <3>1 DEF Shape, Queue
    <3>2. CASE k = n
      <4>1. In(k)' # <<>>
        BY <1>b, <3>2
      <4>2. Out(k)' = <<>>
        BY <1>b, <3>2
      <4>3. Pending(k)'
        BY <1>e, <3>2
      <4>4. QED
        BY <4>1, <4>2, <4>3
    <3>3. QED
      BY <1>b, <3>1, <3>2
  <2>3. QED
    BY <2>1, <2>2 DEF Queue
<1>3. Streams'
  <2>1. ASSUME NEW k \in Conn', NEW i \in 1 .. Len(In(k)')
        PROVE  /\ (In(k)')[i].op \in {"CONNECT", "RESUME"} => i = 1
               /\ (In(k)')[i].op \in {"SUSPEND", "DISCONNECT"} =>
                     i = Len(In(k)') /\ ~IsOpen(k)'
               /\ (In(k)')[i].op \in {"CONNECT", "ASK"} =>
                     i = Len(In(k)') /\ IsOpen(k)' /\ cpc'[Owner(k)'] = "asking"
    <3>1. CASE k \in Conn
      <4>1. IsOpen(k) => cpc'[Owner(k)] = cpc[Owner(k)]
        BY <1>a, <1>d, <3>1 DEF Shape, Types
      <4>2. QED
        BY <1>b, <1>d, <3>1, <4>1 DEF Shape, Streams
    <3>2. CASE k = n
      <4>1. /\ Len(In(k)') = 1 /\ (In(k)')[1].op = op /\ cpc'[c] = l
        BY <1>a, <1>b, <3>2 DEF Packet, Shape, Types
      <4>2. QED
        <5>1. i = 1
          BY <4>1
        <5>2. IsOpen(k)'
          BY <1>d, <3>2
        <5>3. Owner(k)' = c
          BY <1>b, <3>2
        <5>4. QED
          BY <1>a, <4>1, <5>1, <5>2, <5>3
    <3>3. QED
      BY <1>b, <3>1, <3>2
  <2>2. QED
    BY <2>1 DEF Streams
<1>4. Closed'
  BY <1>a, <1>b, <1>d DEF Shape, Closed, LastIn
<1>5. Socks'
  BY <1>a, <1>b, <1>c, <1>d DEF Shape, Socks, Types, None
<1>6. Waits'
  <2>1. ASSUME NEW d \in Client, cpc'[d] = "asking", NEW k, k = sock'[d]
        PROVE  Asked(k, d)' \/ Replied(k, d)'
    <3>1. CASE d = c
      <4>1. k = n /\ l = "asking" /\ issued'[c] = Packet(c, op).no
        BY <1>a, <1>b, <2>1, <3>1 DEF Shape, Types, Packet
      <4>2. LastIn(k)' = Packet(c, op) /\ Packet(c, op).op = "CONNECT"
        BY <1>b, <4>1 DEF LastIn, Packet
      <4>3. QED
        BY <1>b, <3>1, <4>1, <4>2 DEF Asked
    <3>2. CASE d # c
      <4>1. /\ cpc[d] = "asking" /\ k = sock[d] /\ issued'[d] = issued[d] /\ k \in Conn
        BY <1>a, <1>b, <2>1, <3>2 DEF Shape, Types, Socks
      <4>2. Asked(k, d) \/ Replied(k, d)
        BY <4>1 DEF Shape, Waits
      <4>3. QED
        BY <1>b, <4>1, <4>2 DEF Asked, Replied, LastIn
    <3>3. QED
      BY <3>1, <3>2
  <2>2. ASSUME NEW k \in Conn', Out(k)' # <<>>
        PROVE  /\ IsOpen(k)' /\ cpc'[Owner(k)'] = "asking"
               /\ (Out(k)')[1].op = "REFUSED" => ssock' # k
    <3>1. k \in Conn /\ Out(k)' = Out(k) /\ Owner(k)' = Owner(k)
      BY <1>b, <2>2
    <3>2. /\ IsOpen(k) /\ cpc[Owner(k)] = "asking"
          /\ Out(k)[1].op = "REFUSED" => ssock # k
      BY <2>2, <3>1 DEF Shape, Waits
    <3>3. Owner(k) # c /\ Owner(k) \in Client
      BY <1>d, <3>1, <3>2
    <3>4. QED
      BY <1>a, <1>d, <3>1, <3>2, <3>3 DEF Shape, Types
  <2>3. QED
    BY <2>1, <2>2 DEF Waits
<1>7. Numbers'
  <2>1. ASSUME NEW d \in Client
        PROVE  /\ issued'[d] <= MaxReqs + Spare(cpc'[d])
               /\ answer'[d] <= issued'[d] /\ done'[d] <= issued'[d]
    BY <1>a, <1>b, BoundAssumption DEF Shape, Types, Numbers, Spare
  <2>2. ASSUME NEW k \in Conn', NEW i \in 1 .. Len(In(k)')
        PROVE  (In(k)')[i].no <= issued'[Owner(k)']
    <3>1. CASE k \in Conn
      <4>1. In(k)[i].no <= issued[Owner(k)] /\ In(k)[i].no \in Nat /\ Owner(k) \in Client
        BY <1>b, <3>1, ConnFacts DEF Shape, Numbers, Request
      <4>2. QED
        BY SMTT(30), <1>b, <3>1, <4>1 DEF Shape, Types
    <3>2. CASE k = n
      BY <1>b, <3>2 DEF Packet, Shape, Types
    <3>3. QED
      BY <1>b, <3>1, <3>2
  <2>3. QED
    BY <2>1, <2>2 DEF Numbers
<1>8. Served'
  <2>1. ASSUME NEW k \in Conn', IsOpen(k)'
        PROVE  k = ssock' \/ Pending(k)' \/ (Out(k)' # <<>> /\ (Out(k)')[1].op = "REFUSED")
    <3>1. CASE k \in Conn
      <4>1. Out(k)' = Out(k)
        BY <1>b, <3>1
      <4>2. k = ssock \/ Pending(k) \/ (Out(k) # <<>> /\ Out(k)[1].op = "REFUSED")
        BY <1>d, <2>1, <3>1 DEF Shape, Served
      <4>3. QED
        BY <1>a, <1>e, <3>1, <4>1, <4>2
    <3>2. CASE k = n
      BY <1>e, <3>2
    <3>3. QED
      BY <1>b, <3>1, <3>2
  <2>2. QED
    BY <2>1 DEF Served
<1>9. QED
  BY <1>1, <1>2, <1>3, <1>4, <1>5, <1>6, <1>7, <1>8 DEF Shape

\* Ask, Tell, Suspend and Disconnect.
LEMMA Sending ==
  ASSUME Shape, NEW c \in Client, NEW op, NEW l, Send(c, op), NEW k, k = sock[c],
         cpc[c] = "idle", cpc' = [cpc EXCEPT ![c] = l],
         \/ op = "ASK" /\ l = "asking" /\ sock' = sock /\ issued[c] < MaxReqs
         \/ op = "TELL" /\ l = "idle" /\ sock' = sock /\ issued[c] < MaxReqs
         \/ op = "SUSPEND" /\ l = "shell" /\ sock' = [sock EXCEPT ![c] = None]
            /\ issued[c] < MaxReqs
         \/ op = "DISCONNECT" /\ l = "out" /\ sock' = [sock EXCEPT ![c] = None],
         UNCHANGED <<answer, backlog, server>>
  PROVE  Shape'
<1>a. /\ op \in Op /\ l \in {"asking", "idle", "shell", "out"}
      /\ k \in Conn /\ Owner(k) = c /\ IsOpen(k) /\ \A j \in Conn : Owner(j) = c => j <= k
      /\ UNCHANGED <<answer, backlog, spc, ssock, depth, done>>
      /\ k \in Nat /\ k # None
  BY ConnFacts DEF Op, server, Shape, Socks, Types, IsOpen, None
<1>b. /\ conns' \in Seq(Connection) /\ Len(conns') = Len(conns) /\ Conn' = Conn
      /\ \A j \in Conn : Owner(j)' = Owner(j) /\ Out(j)' = Out(j)
      /\ \A j \in Conn \ {k} : In(j)' = In(j)
      /\ \A j : j = k => /\ Len(In(j)') = Len(In(j)) + 1 /\ In(j)' # <<>>
                         /\ \A i \in 1 .. Len(In(j)) : (In(j)')[i] = In(j)[i]
                         /\ (In(j)')[Len(In(j)) + 1] = Packet(c, op)
      /\ issued' = [issued EXCEPT ![c] = @ + 1]
  BY <1>a, Sent DEF Shape
<1>c. /\ \A j \in Conn \ {k} : (IsOpen(j)' <=> IsOpen(j)) /\ (Owner(j) = c => ~IsOpen(j))
      /\ \A j \in Conn : Owner(j) \in Client /\ Len(In(j)) \in Nat
      /\ \A j : j = k => (IsOpen(j)' <=> op \in {"ASK", "TELL"})
      /\ \A j \in Conn : (Pending(j)' <=> Pending(j))
  <2>0. \A j \in Conn : j \in Nat /\ j # None
    BY ConnFacts DEF Shape, None
  <2>1. \A j \in Conn : Owner(j) \in Client /\ Len(In(j)) \in Nat
    BY ConnFacts DEF Shape
  <2>2. \A j \in Conn \ {k} : (IsOpen(j)' <=> IsOpen(j)) /\ (Owner(j) = c => ~IsOpen(j))
    BY <1>a, <1>b, <2>0, <2>1 DEF Shape, Types, IsOpen, None
  <2>3. \A j : j = k => (IsOpen(j)' <=> op \in {"ASK", "TELL"})
    BY <1>a, <1>b, <2>0, <2>1 DEF Shape, Types, IsOpen, None
  <2>4. \A j \in Conn : Pending(j)' <=> Pending(j)
    BY <1>a DEF Pending
  <2>5. QED
    BY <2>1, <2>2, <2>3, <2>4
<1>d. \A j : j = k => Out(j) = <<>>
  BY <1>a DEF Shape, Waits
<1>e. \A i \in 1 .. Len(In(k)) : In(k)[i].op \in {"RESUME", "TELL"}
  BY <1>a, ConnFacts DEF Shape, Streams, Op, Request
<1>1. Types'
  <2>1. cpc' \in [Client -> {"out", "idle", "asking", "shell", "dead"}]
    BY <1>a DEF Shape, Types
  <2>2. sock' \in [Client -> Nat]
    <3>1. sock \in [Client -> Nat] /\ None \in Nat
      BY DEF Shape, Types, None
    <3>2. QED
      BY <3>1
  <2>3. issued' \in [Client -> Nat]
    BY <1>b DEF Shape, Types
  <2>4. QED
    BY <1>a, <1>b, <2>1, <2>2, <2>3 DEF Shape, Types
<1>2. Queue'
  <2>1. ASSUME NEW j \in Conn
        PROVE  /\ In(j)' # <<>> => j = ssock' \/ Pending(j)'
               /\ Pending(j)' => In(j)' # <<>> /\ Out(j)' = <<>>
    <3>1. j = k => j = ssock \/ Pending(j)
      BY <1>a, <1>d DEF Shape, Served
    <3>2. QED
      BY <1>a, <1>b, <1>c, <3>1 DEF Shape, Queue
  <2>2. QED
    BY <1>a, <1>b, <2>1 DEF Shape, Queue
<1>3. Streams'
  <2>1. ASSUME NEW j \in Conn, NEW i \in 1 .. Len(In(j)')
        PROVE  /\ (In(j)')[i].op \in {"CONNECT", "RESUME"} => i = 1
               /\ (In(j)')[i].op \in {"SUSPEND", "DISCONNECT"} =>
                     i = Len(In(j)') /\ ~IsOpen(j)'
               /\ (In(j)')[i].op \in {"CONNECT", "ASK"} =>
                     i = Len(In(j)') /\ IsOpen(j)' /\ cpc'[Owner(j)'] = "asking"
    <3>1. CASE j # k
      <4>1. IsOpen(j) => cpc'[Owner(j)] = cpc[Owner(j)]
        BY <1>a, <1>c, <3>1 DEF Shape, Types
      <4>2. QED
        BY <1>b, <1>c, <3>1, <4>1 DEF Shape, Streams
    <3>2. CASE j = k /\ i \in 1 .. Len(In(j))
      <4>1. (In(j)')[i] = In(j)[i] /\ In(j)[i].op \in {"RESUME", "TELL"}
        BY <1>b, <1>e, <3>2
      <4>2. In(j)[i].op = "RESUME" => i = 1
        BY <3>2 DEF Shape, Streams
      <4>3. QED
        BY <4>1, <4>2
    <3>3. CASE j = k /\ i = Len(In(j)) + 1
      <4>1. (In(j)')[i].op = op /\ i = Len(In(j)')
        BY <1>b, <3>3 DEF Packet
      <4>2. op \in {"ASK"} => cpc'[Owner(j)'] = "asking"
        BY <1>a, <1>b, <3>3 DEF Shape, Types
      <4>3. IsOpen(j)' <=> op \in {"ASK", "TELL"}
        BY <1>c, <3>3
      <4>4. QED
        BY <4>1, <4>2, <4>3
    <3>4. QED
      BY <1>b, <1>c, <3>1, <3>2, <3>3
  <2>2. QED
    BY <1>b, <2>1 DEF Streams
<1>4. Closed'
  <2>1. ASSUME NEW j \in Conn, ~IsOpen(j)'
        PROVE  /\ In(j)' # <<>> => LastIn(j)'.op \in {"SUSPEND", "DISCONNECT"}
               /\ ssock' = j => In(j)' # <<>>
    <3>1. CASE j # k
      BY <1>a, <1>b, <1>c, <2>1, <3>1 DEF Shape, Closed, LastIn
    <3>2. CASE j = k
      <4>1. LastIn(j)'.op = op /\ op \in {"SUSPEND", "DISCONNECT"}
        BY <1>b, <1>c, <2>1, <3>2 DEF LastIn, Packet
      <4>2. QED
        BY <1>b, <3>2, <4>1
    <3>3. QED
      BY <3>1, <3>2
  <2>2. QED
    BY <1>b, <2>1 DEF Closed
<1>5. Socks'
  BY <1>a, <1>b DEF Shape, Socks, Types, None
<1>6. Waits'
  <2>1. ASSUME NEW d \in Client, cpc'[d] = "asking", NEW m, m = sock'[d]
        PROVE  Asked(m, d)' \/ Replied(m, d)'
    <3>1. CASE d = c
      <4>1. m = k /\ op = "ASK" /\ issued'[c] = Packet(c, op).no
        BY <1>a, <1>b, <2>1, <3>1 DEF Shape, Types, Packet
      <4>2. LastIn(m)' = Packet(c, op) /\ Packet(c, op).op = "ASK"
        BY <1>b, <4>1 DEF LastIn, Packet
      <4>3. Out(m)' = <<>> /\ In(m)' # <<>>
        BY <1>a, <1>b, <1>d, <4>1
      <4>4. QED
        BY <3>1, <4>1, <4>2, <4>3 DEF Asked
    <3>2. CASE d # c
      <4>1. /\ cpc[d] = "asking" /\ m = sock[d] /\ issued'[d] = issued[d] /\ m \in Conn
            /\ Owner(m) = d
        BY <1>a, <1>b, <2>1, <3>2 DEF Shape, Types, Socks
      <4>2. m # k /\ (Asked(m, d) \/ Replied(m, d))
        BY <1>a, <3>2, <4>1 DEF Shape, Waits
      <4>3. QED
        BY <1>b, <4>1, <4>2 DEF Asked, Replied, LastIn
    <3>3. QED
      BY <3>1, <3>2
  <2>2. ASSUME NEW j \in Conn, Out(j)' # <<>>
        PROVE  /\ IsOpen(j)' /\ cpc'[Owner(j)'] = "asking"
               /\ (Out(j)')[1].op = "REFUSED" => ssock' # j
    <3>1. Out(j)' = Out(j) /\ Owner(j)' = Owner(j) /\ j # k
      BY <1>b, <1>d, <2>2
    <3>2. /\ IsOpen(j) /\ cpc[Owner(j)] = "asking"
          /\ Out(j)[1].op = "REFUSED" => ssock # j
      BY <2>2, <3>1 DEF Shape, Waits
    <3>3. Owner(j) # c /\ Owner(j) \in Client
      BY <1>c, <3>1, <3>2
    <3>4. QED
      BY <1>a, <1>c, <3>1, <3>2, <3>3 DEF Shape, Types
  <2>3. QED
    BY <1>b, <2>1, <2>2 DEF Waits
<1>7. Numbers'
  <2>1. ASSUME NEW d \in Client
        PROVE  /\ issued'[d] <= MaxReqs + Spare(cpc'[d])
               /\ answer'[d] <= issued'[d] /\ done'[d] <= issued'[d]
    BY <1>a, <1>b, BoundAssumption DEF Shape, Types, Numbers, Spare
  <2>2. ASSUME NEW j \in Conn, NEW i \in 1 .. Len(In(j)')
        PROVE  (In(j)')[i].no <= issued'[Owner(j)']
    <3>1. CASE i \in 1 .. Len(In(j))
      <4>1. In(j)[i].no <= issued[Owner(j)] /\ In(j)[i].no \in Nat /\ Owner(j) \in Client
        BY <3>1, ConnFacts DEF Shape, Numbers, Request
      <4>2. (In(j)')[i] = In(j)[i] /\ Owner(j)' = Owner(j)
        BY <1>b, <3>1
      <4>3. QED
        BY SMTT(30), <1>b, <4>1, <4>2 DEF Shape, Types
    <3>2. CASE i \notin 1 .. Len(In(j))
      <4>1. j = k /\ i = Len(In(j)) + 1
        BY <1>b, <1>c, <3>2
      <4>2. QED
        BY <1>a, <1>b, <4>1 DEF Packet, Shape, Types
    <3>3. QED
      BY <3>1, <3>2
  <2>3. QED
    BY <1>b, <2>1, <2>2 DEF Numbers
<1>8. Served'
  <2>1. ASSUME NEW j \in Conn, IsOpen(j)'
        PROVE  j = ssock' \/ Pending(j)' \/ (Out(j)' # <<>> /\ (Out(j)')[1].op = "REFUSED")
    <3>1. Out(j)' = Out(j) /\ IsOpen(j)
      BY <1>a, <1>b, <1>c, <2>1
    <3>2. j = ssock \/ Pending(j) \/ (Out(j) # <<>> /\ Out(j)[1].op = "REFUSED")
      BY <3>1 DEF Shape, Served
    <3>3. QED
      BY <1>a, <1>c, <3>1, <3>2
  <2>2. QED
    BY <1>b, <2>1 DEF Served
<1>9. QED
  BY <1>1, <1>2, <1>3, <1>4, <1>5, <1>6, <1>7, <1>8 DEF Shape

\* The reply is read.
LEMMA Answering ==
  ASSUME Shape, NEW c \in Client, Answered(c), NEW k, k = sock[c]
  PROVE  /\ Shape' /\ answer'[c] = issued[c]
         /\ UNCHANGED <<issued, backlog, server>>
         /\ Conn' = Conn /\ \A j \in Conn : Owner(j)' = Owner(j) /\ In(j)' = In(j)
         /\ \E l \in {"idle", "out"} : cpc' = [cpc EXCEPT ![c] = l]
<1>a. /\ cpc[c] = "asking" /\ k \in Conn /\ Owner(k) = c /\ k \in Nat /\ k # None
      /\ UNCHANGED <<issued, backlog, spc, ssock, depth, done>>
  BY ConnFacts DEF Answered, Shape, Socks, server, None
<1>b. /\ conns' \in Seq(Connection) /\ Len(conns') = Len(conns) /\ Conn' = Conn
      /\ \A j \in Conn : Owner(j)' = Owner(j) /\ In(j)' = In(j)
      /\ \A j \in Conn \ {k} : Out(j)' = Out(j)
      /\ Len(Out(k)) \in Nat /\ Out(k) # <<>>
      /\ \A j : j = k /\ Len(Out(k)) = 1 => Out(j)' = <<>>
      /\ answer' = [answer EXCEPT ![c] = Out(k)[1].no]
      /\ Head(Out(k)) = Out(k)[1]
  BY <1>a, Took DEF Shape
<1>c. /\ \A j : j = k => Len(Out(j)) = 1 /\ In(j) = <<>>
      /\ Out(k)[1].no = issued[c] /\ answer'[c] = issued[c]
      /\ \A j : j = k => Out(j)' = <<>>
  <2>1. Replied(k, c)
    BY <1>a, <1>b DEF Shape, Waits, Asked
  <2>2. Len(Out(k)) = 1 /\ In(k) = <<>> /\ Out(k)[1].no = issued[c]
    BY <2>1 DEF Replied
  <2>3. answer'[c] = issued[c]
    BY <1>b, <2>2 DEF Shape, Types
  <2>4. \A j : j = k => Out(j)' = <<>>
    BY <1>b, <2>2
  <2>5. QED
    BY <2>2, <2>3, <2>4
<1>d. \/ /\ Out(k)[1].op = "REFUSED" /\ sock' = [sock EXCEPT ![c] = None]
         /\ cpc' = [cpc EXCEPT ![c] = "out"] /\ ssock # k
      \/ /\ Out(k)[1].op # "REFUSED" /\ sock' = sock /\ cpc' = [cpc EXCEPT ![c] = "idle"]
         /\ k = ssock \/ Pending(k)
  <2>1. IsOpen(k)
    BY <1>a DEF IsOpen
  <2>2. Out(k)[1].op = "REFUSED" => ssock # k
    BY <1>a, <1>b DEF Shape, Waits
  <2>3. Out(k)[1].op # "REFUSED" => k = ssock \/ Pending(k)
    BY <1>a, <2>1 DEF Shape, Served
  <2>4. \/ /\ Out(k)[1].op = "REFUSED" /\ sock' = [sock EXCEPT ![c] = None]
           /\ cpc' = [cpc EXCEPT ![c] = "out"]
        \/ /\ Out(k)[1].op # "REFUSED" /\ sock' = sock /\ cpc' = [cpc EXCEPT ![c] = "idle"]
    BY <1>b DEF Answered, Goto, Out
  <2>5. QED
    BY <2>2, <2>3, <2>4
<1>e. /\ \A j \in Conn : Owner(j) \in Client /\ j \in Nat /\ j # None
      /\ \A j \in Conn \ {k} : (IsOpen(j)' <=> IsOpen(j)) /\ (Owner(j) = c => ~IsOpen(j))
      /\ \A j \in Conn : Pending(j)' <=> Pending(j)
  <2>0. \A j \in Conn : j \in Nat /\ j # None
    BY ConnFacts DEF Shape, None
  <2>1. \A j \in Conn : Owner(j) \in Client
    BY ConnFacts DEF Shape
  <2>2. \A j \in Conn \ {k} : (IsOpen(j)' <=> IsOpen(j)) /\ (Owner(j) = c => ~IsOpen(j))
    <3> TAKE j \in Conn \ {k}
    <3>1. Owner(j) \in Client /\ Owner(j)' = Owner(j) /\ j # k /\ j # None
      BY <1>a, <1>b, <2>0, <2>1
    <3>2. Owner(j) # c => sock'[Owner(j)] = sock[Owner(j)]
      BY <1>d, <3>1 DEF Shape, Types
    <3>3. Owner(j) = c => sock[c] = k /\ sock'[c] \in {k, None}
      BY <1>a, <1>b, <1>d DEF Shape, Types
    <3>4. QED
      BY <3>1, <3>2, <3>3 DEF IsOpen
  <2>3. \A j \in Conn : Pending(j)' <=> Pending(j)
    BY <1>a DEF Pending
  <2>4. QED
    BY <2>0, <2>1, <2>2, <2>3
<1>1. Types'
  <2>1. cpc' \in [Client -> {"out", "idle", "asking", "shell", "dead"}]
    BY <1>d DEF Shape, Types
  <2>2. sock' \in [Client -> Nat]
    <3>1. sock \in [Client -> Nat] /\ None \in Nat
      BY DEF Shape, Types, None
    <3>2. QED
      BY <1>d, <3>1
  <2>3. answer' \in [Client -> Nat]
    <3>1. Out(k)[1].no \in Nat
      BY <1>c DEF Shape, Types
    <3>2. QED
      BY <1>b, <3>1 DEF Shape, Types
  <2>4. QED
    BY <1>a, <1>b, <2>1, <2>2, <2>3 DEF Shape, Types
<1>2. Queue'
  <2>1. ASSUME NEW j \in Conn
        PROVE  /\ In(j)' # <<>> => j = ssock' \/ Pending(j)'
               /\ Pending(j)' => In(j)' # <<>> /\ Out(j)' = <<>>
    BY <1>a, <1>b, <1>c, <1>e DEF Shape, Queue
  <2>2. QED
    BY <1>a, <1>b, <2>1 DEF Shape, Queue
<1>3. Streams'
  <2>1. ASSUME NEW j \in Conn, NEW i \in 1 .. Len(In(j))
        PROVE  /\ In(j)[i].op \in {"CONNECT", "RESUME"} => i = 1
               /\ In(j)[i].op \in {"SUSPEND", "DISCONNECT"} => i = Len(In(j)) /\ ~IsOpen(j)'
               /\ In(j)[i].op \in {"CONNECT", "ASK"} =>
                     i = Len(In(j)) /\ IsOpen(j)' /\ cpc'[Owner(j)] = "asking"
    <3>1. j # k
      BY <1>a, <1>c
    <3>2. IsOpen(j) => cpc'[Owner(j)] = cpc[Owner(j)]
      BY <1>d, <1>e, <3>1 DEF Shape, Types
    <3>3. QED
      BY <1>e, <3>1, <3>2 DEF Shape, Streams
  <2>2. QED
    BY <1>b, <2>1 DEF Streams
<1>4. Closed'
  <2>1. ASSUME NEW j \in Conn, ~IsOpen(j)'
        PROVE  /\ In(j) # <<>> => LastIn(j).op \in {"SUSPEND", "DISCONNECT"}
               /\ ssock = j => In(j) # <<>>
    <3>1. CASE j # k
      BY <1>e, <2>1, <3>1 DEF Shape, Closed
    <3>2. CASE j = k
      <4>1. sock' # sock /\ ssock # k
        BY <1>a, <1>b, <1>d, <2>1, <3>2 DEF IsOpen
      <4>2. QED
        BY <1>c, <3>2, <4>1
    <3>3. QED
      BY <3>1, <3>2
  <2>2. QED
    BY <1>a, <1>b, <2>1 DEF Closed, LastIn
<1>5. Socks'
  BY <1>a, <1>b, <1>d DEF Shape, Socks, Types, None
<1>6. Waits'
  <2>1. ASSUME NEW d \in Client, cpc'[d] = "asking", NEW m, m = sock'[d]
        PROVE  Asked(m, d)' \/ Replied(m, d)'
    <3>1. d # c
      BY <1>d, <2>1 DEF Shape, Types
    <3>2. /\ cpc[d] = "asking" /\ m = sock[d] /\ issued'[d] = issued[d] /\ m \in Conn
          /\ Owner(m) = d
      BY <1>a, <1>d, <2>1, <3>1 DEF Shape, Types, Socks
    <3>3. m # k /\ (Asked(m, d) \/ Replied(m, d))
      BY <1>a, <3>1, <3>2 DEF Shape, Waits
    <3>4. QED
      BY <1>b, <3>2, <3>3 DEF Asked, Replied, LastIn
  <2>2. ASSUME NEW j \in Conn, Out(j)' # <<>>
        PROVE  /\ IsOpen(j)' /\ cpc'[Owner(j)'] = "asking"
               /\ (Out(j)')[1].op = "REFUSED" => ssock' # j
    <3>1. Out(j)' = Out(j) /\ Owner(j)' = Owner(j) /\ j # k
      BY <1>b, <1>c, <2>2
    <3>2. /\ IsOpen(j) /\ cpc[Owner(j)] = "asking"
          /\ Out(j)[1].op = "REFUSED" => ssock # j
      BY <2>2, <3>1 DEF Shape, Waits
    <3>3. Owner(j) # c /\ Owner(j) \in Client
      BY <1>e, <3>1, <3>2
    <3>4. QED
      BY <1>a, <1>d, <1>e, <3>1, <3>2, <3>3 DEF Shape, Types
  <2>3. QED
    BY <1>b, <2>1, <2>2 DEF Waits
<1>7. Numbers'
  <2>1. ASSUME NEW d \in Client
        PROVE  /\ issued'[d] <= MaxReqs + Spare(cpc'[d])
               /\ answer'[d] <= issued'[d] /\ done'[d] <= issued'[d]
    BY <1>a, <1>b, <1>c, <1>d, BoundAssumption DEF Shape, Types, Numbers, Spare
  <2>2. QED
    BY <1>a, <1>b, <2>1 DEF Shape, Numbers
<1>8. Served'
  <2>1. ASSUME NEW j \in Conn, IsOpen(j)'
        PROVE  j = ssock' \/ Pending(j)' \/ (Out(j)' # <<>> /\ (Out(j)')[1].op = "REFUSED")
    <3>1. CASE j # k
      <4>1. Out(j)' = Out(j) /\ IsOpen(j)
        BY <1>b, <1>e, <2>1, <3>1
      <4>2. j = ssock \/ Pending(j) \/ (Out(j) # <<>> /\ Out(j)[1].op = "REFUSED")
        BY <4>1 DEF Shape, Served
      <4>3. QED
        BY <1>a, <1>e, <4>1, <4>2
    <3>2. CASE j = k
      <4>1. sock' = sock
        BY <1>a, <1>b, <1>d, <2>1, <3>2 DEF IsOpen, Shape, Types
      <4>2. \A i : i = k => (i = ssock \/ Pending(i))
        BY <1>a, <1>d, <4>1 DEF Shape, Types
      <4>3. QED
        BY <1>a, <1>e, <3>2, <4>2
    <3>3. QED
      BY <3>1, <3>2
  <2>2. QED
    BY <1>b, <2>1 DEF Served
<1>9. QED
  BY <1>a, <1>b, <1>c, <1>d, <1>1, <1>2, <1>3, <1>4, <1>5, <1>6, <1>7, <1>8 DEF Shape, server

\* The debugger is killed in its shell.
LEMMA Dying ==
  ASSUME Shape, NEW c \in Client, Die(c)
  PROVE  Shape'
<1>1. /\ cpc[c] = "shell" /\ cpc' = [cpc EXCEPT ![c] = "dead"]
      /\ UNCHANGED <<sock, issued, answer, conns, backlog, spc, ssock, depth, done>>
  BY DEF Die, Goto, server
<1>2. /\ Conn' = Conn
      /\ \A k : /\ Owner(k)' = Owner(k) /\ In(k)' = In(k) /\ Out(k)' = Out(k)
                /\ Pending(k)' = Pending(k) /\ IsOpen(k)' = IsOpen(k) /\ LastIn(k)' = LastIn(k)
  BY <1>1 DEF Conn, Owner, In, Out, Pending, IsOpen, LastIn
<1>3. /\ cpc' \in [Client -> {"out", "idle", "asking", "shell", "dead"}]
      /\ \A d \in Client : cpc[d] = "asking" <=> cpc'[d] = "asking"
      /\ \A k \in Conn : Owner(k) \in Client
  BY <1>1, ConnFacts DEF Shape, Types
<1>4. Types' /\ Queue' /\ Served' /\ Closed'
  BY <1>1, <1>2, <1>3 DEF Shape, Types, Queue, Served, Closed
<1>5. Socks'
  BY <1>1, <1>2 DEF Shape, Types, Socks
<1>6. Streams'
  BY <1>1, <1>2, <1>3 DEF Shape, Streams
<1>7. Waits'
  BY <1>1, <1>2, <1>3 DEF Shape, Waits, Asked, Replied
<1>8. Numbers'
  BY <1>1, <1>2 DEF Shape, Numbers, Types, Spare
<1>9. QED
  BY <1>4, <1>5, <1>6, <1>7, <1>8 DEF Shape

\* The server takes the first connection of the backlog.
LEMMA Accepting ==
  ASSUME Shape, Accept
  PROVE  Shape'
<1>1. /\ spc = "connect" /\ backlog # <<>> /\ ssock = None
      /\ ssock' = Head(backlog) /\ backlog' = Tail(backlog) /\ spc' = "session"
      /\ UNCHANGED <<cpc, sock, issued, answer, conns, depth, done>>
  BY DEF Accept, client, Shape, Types
<1>2. /\ Conn' = Conn
      /\ \A k : /\ Owner(k)' = Owner(k) /\ In(k)' = In(k) /\ Out(k)' = Out(k)
                /\ IsOpen(k)' = IsOpen(k) /\ LastIn(k)' = LastIn(k)
  BY <1>1 DEF Conn, Owner, In, Out, IsOpen, LastIn
<1>3. /\ backlog' \in Seq(Nat) /\ Len(backlog) \in Nat /\ Len(backlog) >= 1
      /\ Len(backlog') = Len(backlog) - 1
      /\ \A i \in 1 .. Len(backlog') : backlog'[i] = backlog[i + 1]
      /\ ssock' = backlog[1]
  BY <1>1, HeadTailProperties, EmptySeq, LenProperties DEF Shape, Types
<1>4. /\ ssock' \in Conn /\ ssock' \in Nat /\ \A k \in Conn : k # None /\ k \in Nat
      /\ \A k : Pending(k) <=> k = ssock' \/ Pending(k)'
  <2>1. \A i : i \in 1 .. Len(backlog) <=> i = 1 \/ (i - 1 \in 1 .. Len(backlog') /\ i \in Nat)
    BY <1>3
  <2>2. \A i \in 1 .. Len(backlog') : i + 1 \in 1 .. Len(backlog)
    BY <1>3
  <2>3. \A k : Pending(k)' => Pending(k)
    BY <1>3, <2>2 DEF Pending
  <2>4. \A k : k = ssock' => Pending(k)
    BY <1>3 DEF Pending
  <2>5. \A k : Pending(k) => k = ssock' \/ Pending(k)'
    <3>1. ASSUME NEW k, NEW i \in 1 .. Len(backlog), backlog[i] = k, k # ssock'
          PROVE  Pending(k)'
      <4>1. i # 1
        BY <1>3, <3>1
      <4>2. i - 1 \in 1 .. Len(backlog') /\ (i - 1) + 1 = i
        BY <1>3, <4>1
      <4>3. backlog'[i - 1] = k
        BY <1>3, <3>1, <4>2
      <4>4. QED
        BY <4>2, <4>3 DEF Pending
    <3>2. QED
      BY <3>1 DEF Pending
  <2>6. \A k \in Conn : k # None /\ k \in Nat
    BY ConnFacts DEF Shape, None
  <2>7. ssock' \in Conn
    BY <1>3 DEF Shape, Queue
  <2>8. QED
    BY <2>3, <2>4, <2>5, <2>6, <2>7
<1>5. Types'
  BY <1>1, <1>2, <1>3, <1>4 DEF Shape, Types
<1>6. Queue'
  <2>1. ASSUME NEW i \in 1 .. Len(backlog')
        PROVE  /\ backlog'[i] \in Conn /\ ssock' < backlog'[i]
               /\ \A j \in 1 .. i - 1 : backlog'[j] < backlog'[i]
    <3>1. /\ i + 1 \in 1 .. Len(backlog) /\ 1 \in 1 .. (i + 1) - 1
          /\ \A j \in 1 .. i - 1 : j \in 1 .. Len(backlog') /\ j + 1 \in 1 .. (i + 1) - 1
      BY <1>3
    <3>2. /\ backlog[i + 1] \in Conn
          /\ \A j \in 1 .. (i + 1) - 1 : backlog[j] < backlog[i + 1]
      BY <3>1 DEF Shape, Queue
    <3>3. QED
      BY <1>3, <3>1, <3>2
  <2>2. ASSUME NEW k \in Conn
        PROVE  /\ In(k) # <<>> => k = ssock' \/ Pending(k)'
               /\ Pending(k)' => In(k) # <<>> /\ Out(k) = <<>>
    BY <1>1, <1>4 DEF Shape, Queue
  <2>3. QED
    BY <1>2, <2>1, <2>2 DEF Queue
<1>7. Served'
  BY <1>1, <1>2, <1>4 DEF Shape, Served
<1>8. Streams' /\ Socks' /\ Numbers'
  BY <1>1, <1>2 DEF Shape, Streams, Socks, Numbers
<1>9. Closed' /\ Waits'
  <2>1. \A k \in Conn : k = ssock' => In(k) # <<>> /\ Out(k) = <<>>
    BY <1>4 DEF Shape, Queue
  <2>2. QED
    BY <1>1, <1>2, <2>1 DEF Shape, Closed, Waits, Asked, Replied
<1>10. QED
  BY <1>5, <1>6, <1>7, <1>8, <1>9 DEF Shape

\* The server executes a packet and stays with the client, or leaves it.
LEMMA Handling ==
  ASSUME Shape, NEW op \in Op, NEW r, Handle(op, r), NEW k, k = ssock, depth' \in Nat,
         \/ /\ Stay
            /\ \/ op = "CONNECT" /\ r = <<"CONNECT">>
               \/ op = "ASK" /\ r = <<"ASK">>
               \/ op \in {"TELL", "RESUME"} /\ r = <<>>
         \/ /\ Leave
            /\ \/ op = "CONNECT" /\ r = <<"REFUSED">>
               \/ op \in {"SUSPEND", "DISCONNECT"} /\ r = <<>>
  PROVE  Shape'
<1>0. \A q : <<q>> # <<>> /\ <<q>>[1] = q
  BY EmptySeq
<1>a. /\ k \in Conn /\ spc = "session"
      /\ conns' \in Seq(Connection) /\ Len(conns') = Len(conns) /\ Conn' = Conn
      /\ \A j \in Conn : Owner(j)' = Owner(j)
      /\ \A j \in Conn \ {k} : In(j)' = In(j) /\ Out(j)' = Out(j)
      /\ Len(In(k)) \in Nat /\ Len(In(k)) >= 1 /\ In(k)[1].op = op
      /\ \A j : j = k =>
           /\ Len(In(j)') = Len(In(j)) - 1 /\ (In(j)' = <<>> <=> Len(In(j)) = 1)
           /\ \A i \in 1 .. Len(In(j)) - 1 : (In(j)')[i] = In(j)[i + 1]
           /\ r = <<>> => Out(j)' = Out(j)
           /\ r # <<>> /\ Out(j) = <<>> =>
                /\ Len(Out(j)') = 1
                /\ (Out(j)')[1] = [op |-> r[1], no |-> In(j)[1].no]
      /\ done' = [done EXCEPT ![Owner(k)] = In(k)[1].no]
      /\ UNCHANGED <<client, backlog>>
  <2>1. r = <<>> \/ r \in {<<"CONNECT">>, <<"REFUSED">>, <<"ASK">>}
    OBVIOUS
  <2>2. QED
    BY <2>1, Handled DEF Shape
<1>b. /\ k \in Nat /\ \A j \in Conn : j \in Nat /\ 0 < j /\ j # None
      /\ \A j \in Conn : Owner(j) \in Client /\ Len(In(j)) \in Nat
      /\ UNCHANGED <<cpc, sock, issued, answer, backlog>>
  <2>1. \A j \in Conn : Owner(j) \in Client /\ Len(In(j)) \in Nat
    BY ConnFacts DEF Shape
  <2>2. k \in Nat /\ \A j \in Conn : j \in Nat /\ 0 < j /\ j # None
    BY <1>a, ConnFacts DEF Shape, None
  <2>3. QED
    BY <1>a, <2>1, <2>2 DEF client
<1>c. /\ \A j \in Conn : IsOpen(j)' = IsOpen(j)
      /\ \A j : Pending(j)' = Pending(j)
      /\ ~Pending(k)
  <2>1. \A j \in Conn : IsOpen(j)' = IsOpen(j)
    BY <1>a, <1>b DEF IsOpen
  <2>2. \A j : Pending(j)' = Pending(j)
    BY <1>b DEF Pending
  <2>3. ~Pending(k)
    BY <1>b DEF Shape, Queue, Pending
  <2>4. QED
    BY <2>1, <2>2, <2>3
<1>d. /\ op \in {"CONNECT", "ASK"} =>
           /\ IsOpen(k) /\ cpc[Owner(k)] = "asking" /\ Len(In(k)) = 1
      /\ op \in {"SUSPEND", "DISCONNECT"} => Len(In(k)) = 1 /\ ~IsOpen(k)
  <2>1. 1 \in 1 .. Len(In(k))
    BY <1>a
  <2>2. QED
    BY <1>a, <2>1 DEF Shape, Streams
<1>e. /\ op \in {"CONNECT", "ASK"} => r # <<>>
      /\ op \in {"CONNECT", "ASK"} /\ r[1] = "REFUSED" => ssock' = None
      /\ op \notin {"CONNECT", "ASK"} => r = <<>>
      /\ \/ ssock' = k /\ spc' = "session"
         \/ ssock' = None /\ spc' = "connect"
      /\ ssock' = None => op \in {"SUSPEND", "DISCONNECT"}
                          \/ (op = "CONNECT" /\ r[1] = "REFUSED")
      /\ ssock' = k => op \notin {"SUSPEND", "DISCONNECT"}
  <2>1. \A q : <<q>> # <<>> /\ <<q>>[1] = q
    BY EmptySeq
  <2>2. /\ <<"CONNECT">> # <<>> /\ <<"ASK">> # <<>> /\ <<"REFUSED">> # <<>>
        /\ <<"CONNECT">>[1] = "CONNECT" /\ <<"ASK">>[1] = "ASK" /\ <<"REFUSED">>[1] = "REFUSED"
    BY <2>1
  <2>3. \/ Stay /\ op = "CONNECT" /\ r # <<>> /\ r[1] = "CONNECT"
        \/ Stay /\ op = "ASK" /\ r # <<>> /\ r[1] = "ASK"
        \/ Stay /\ op \in {"TELL", "RESUME"} /\ r = <<>>
        \/ Leave /\ op = "CONNECT" /\ r # <<>> /\ r[1] = "REFUSED"
        \/ Leave /\ op \in {"SUSPEND", "DISCONNECT"} /\ r = <<>>
    BY ONLY <2>2, \/ Stay /\ \/ op = "CONNECT" /\ r = <<"CONNECT">>
                             \/ op = "ASK" /\ r = <<"ASK">>
                             \/ op \in {"TELL", "RESUME"} /\ r = <<>>
                  \/ Leave /\ \/ op = "CONNECT" /\ r = <<"REFUSED">>
                              \/ op \in {"SUSPEND", "DISCONNECT"} /\ r = <<>>, Zenon
  <2>4. QED
    BY <2>3, <1>a, <1>b DEF Stay, Leave
<1>f. \A j : j = k => Out(j) = <<>>
  <2>1. In(k) # <<>>
    BY <1>a, ConnFacts DEF Shape
  <2>2. ~Replied(k, Owner(k))
    BY <2>1 DEF Replied
  <2>3. QED
    BY <1>a, <1>b, <2>2 DEF Shape, Waits, Asked, IsOpen
<1>s. \A j : j = k => \A i \in 1 .. Len(In(j)) - 1 : (In(j)')[i] = In(j)[i + 1]
  BY <1>a
<1>1. Types'
  <2>1. done' \in [Client -> Nat]
    <3>1. 1 \in 1 .. Len(In(k))
      BY <1>a
    <3>2. In(k)[1].no \in Nat
      BY <1>a, <3>1, ConnFacts DEF Shape, Request
    <3>3. QED
      BY <1>a, <3>2 DEF Shape, Types
  <2>2. (spc' = "session" <=> ssock' # None) /\ ssock' \in Conn \cup {None}
    BY <1>a, <1>b, <1>e
  <2>3. QED
    BY <1>a, <1>b, <1>e, <2>1, <2>2 DEF Shape, Types
<1>2. Queue'
  <2>1. ASSUME NEW i \in 1 .. Len(backlog)
        PROVE  backlog[i] \in Conn /\ ssock' < backlog[i]
    <3>1. backlog[i] \in Conn /\ ssock < backlog[i]
      BY DEF Shape, Queue
    <3>2. QED
      BY <1>b, <1>e, <3>1 DEF None
  <2>2. ASSUME NEW j \in Conn
        PROVE  /\ In(j)' # <<>> => j = ssock' \/ Pending(j)
               /\ Pending(j) => In(j)' # <<>> /\ Out(j)' = <<>>
    <3>1. CASE j # k
      BY <1>a, <3>1 DEF Shape, Queue
    <3>2. CASE j = k
      <4>1. ~Pending(j)
        BY <1>c, <3>2
      <4>2. In(j)' # <<>> => Len(In(j)) # 1
        BY <1>a, <3>2
      <4>3. In(j)' # <<>> => ssock' = k
        BY <1>b, <1>d, <1>e, <3>2, <4>2
      <4>4. QED
        BY <3>2, <4>1, <4>3
    <3>3. QED
      BY <3>1, <3>2
  <2>3. QED
    BY <1>a, <1>b, <1>c, <2>1, <2>2 DEF Shape, Queue
<1>3. Streams'
  <2>1. ASSUME NEW j \in Conn, NEW i \in 1 .. Len(In(j)')
        PROVE  /\ (In(j)')[i].op \in {"CONNECT", "RESUME"} => i = 1
               /\ (In(j)')[i].op \in {"SUSPEND", "DISCONNECT"} =>
                     i = Len(In(j)') /\ ~IsOpen(j)
               /\ (In(j)')[i].op \in {"CONNECT", "ASK"} =>
                     i = Len(In(j)') /\ IsOpen(j) /\ cpc[Owner(j)] = "asking"
    <3>1. CASE j # k
      BY <1>a, <3>1 DEF Shape, Streams
    <3>2. CASE j = k
      <4>0. /\ i \in 1 .. Len(In(j)) - 1 /\ Len(In(j)) \in Nat
            /\ Len(In(j)') = Len(In(j)) - 1
        BY <1>a, <1>b, <3>2
      <4>1. /\ i + 1 \in 1 .. Len(In(j)) /\ i + 1 # 1 /\ (In(j)')[i] = In(j)[i + 1]
            /\ i + 1 = Len(In(j)) <=> i = Len(In(j)')
        <5>1. i + 1 \in 1 .. Len(In(j)) /\ i + 1 # 1
          BY <4>0
        <5>2. i + 1 = Len(In(j)) <=> i = Len(In(j)')
          BY <4>0
        <5>3. QED
          BY <1>s, <3>2, <4>0, <5>1, <5>2
      <4>2. QED
        BY <4>1 DEF Shape, Streams
    <3>3. QED
      BY <3>1, <3>2
  <2>2. QED
    BY <1>a, <1>b, <1>c, <2>1 DEF Streams
\* What is left of the packets ends as they did.
<1>x. \A j : j = k /\ In(j)' # <<>> => Len(In(j)) # 1 /\ LastIn(j)' = LastIn(j)
  <2>1. ASSUME NEW j, j = k, In(j)' # <<>>
        PROVE  Len(In(j)) # 1 /\ LastIn(j)' = LastIn(j)
    <3>1. /\ Len(In(j)) # 1 /\ Len(In(j)') = Len(In(j)) - 1 /\ Len(In(j)) \in Nat
          /\ Len(In(j)) >= 1
      BY <1>a, <2>1
    <3>2. Len(In(j)') \in 1 .. Len(In(j)) - 1 /\ Len(In(j)') + 1 = Len(In(j))
      BY <3>1
    <3>3. QED
      BY <1>a, <2>1, <3>1, <3>2 DEF LastIn
  <2>2. QED
    BY <2>1
\* A single packet is the last one.
<1>y. Len(In(k)) = 1 => LastIn(k).op = op
  BY <1>a DEF LastIn
<1>4. Closed'
  <2>1. ASSUME NEW j \in Conn, ~IsOpen(j)
        PROVE  /\ In(j)' # <<>> => LastIn(j)'.op \in {"SUSPEND", "DISCONNECT"}
               /\ ssock' = j => In(j)' # <<>>
    <3>1. CASE j # k
      <4>1. In(j)' = In(j) /\ ssock' # j
        BY <1>a, <1>b, <1>e, <3>1
      <4>2. QED
        BY <2>1, <4>1 DEF Shape, Closed, LastIn
    <3>2. CASE j = k
      <4>1. In(j) # <<>> /\ LastIn(j).op \in {"SUSPEND", "DISCONNECT"}
        BY <2>1, <3>2 DEF Shape, Closed
      <4>2. In(j)' # <<>> => LastIn(j)' = LastIn(j)
        BY <1>x, <3>2
      <4>3. ssock' = k => op \notin {"SUSPEND", "DISCONNECT"}
        BY <1>b, <1>e
      <4>4. ssock' = j => In(j)' # <<>>
        BY <1>a, <1>y, <3>2, <4>1, <4>3
      <4>5. QED
        BY <4>1, <4>2, <4>4
    <3>3. QED
      BY <3>1, <3>2
  <2>2. QED
    BY <1>a, <1>c, <2>1 DEF Closed
<1>5. Socks'
  BY <1>a, <1>b DEF Shape, Socks
<1>6. Waits'
  <2>1. ASSUME NEW d \in Client, cpc[d] = "asking", NEW m, m = sock[d]
        PROVE  Asked(m, d)' \/ Replied(m, d)'
    <3>1. m \in Conn /\ Owner(m) = d /\ (Asked(m, d) \/ Replied(m, d))
      BY <2>1 DEF Shape, Socks, Waits
    <3>2. CASE m # k
      BY <1>a, <1>b, <3>1, <3>2 DEF Asked, Replied, LastIn
    <3>3. CASE m = k
      <4>1. /\ Out(m) = <<>> /\ In(m) # <<>>
            /\ LastIn(m).op \in {"CONNECT", "ASK"} /\ LastIn(m).no = issued[d]
        <5>1. In(m) # <<>>
          BY <1>a, <3>3, ConnFacts DEF Shape
        <5>2. QED
          BY <3>1, <5>1 DEF Asked, Replied
      <4>2. CASE Len(In(m)) = 1
        <5>1. op \in {"CONNECT", "ASK"} /\ In(m)[1].no = issued[d]
          BY <1>y, <3>3, <4>1, <4>2 DEF LastIn
        <5>2. /\ In(m)' = <<>> /\ Len(Out(m)') = 1
              /\ (Out(m)')[1] = [op |-> r[1], no |-> In(m)[1].no]
          BY <1>a, <1>e, <3>3, <4>1, <4>2, <5>1
        <5>3. QED
          BY <1>b, <5>1, <5>2 DEF Replied
      <4>3. CASE Len(In(m)) # 1
        <5>1. In(m)' # <<>> /\ r = <<>>
          BY <1>a, <1>d, <1>e, <3>3, <4>3
        <5>2. Out(m)' = <<>> /\ LastIn(m)' = LastIn(m)
          BY <1>a, <1>x, <3>3, <4>1, <5>1
        <5>3. QED
          BY <1>b, <4>1, <5>1, <5>2 DEF Asked
      <4>4. QED
        BY <4>2, <4>3
    <3>4. QED
      BY <3>2, <3>3
  <2>2. ASSUME NEW j \in Conn, Out(j)' # <<>>
        PROVE  /\ IsOpen(j) /\ cpc[Owner(j)] = "asking"
               /\ (Out(j)')[1].op = "REFUSED" => ssock' # j
    <3>1. CASE j # k
      <4>1. Out(j)' = Out(j) /\ ssock' # j
        BY <1>a, <1>b, <1>e, <3>1
      <4>2. QED
        BY <2>2, <4>1 DEF Shape, Waits
    <3>2. CASE j = k
      <4>1. r # <<>>
        BY <1>a, <1>f, <2>2, <3>2
      <4>0. Out(j)' # <<>> => (Out(j)')[1] = [op |-> r[1], no |-> In(j)[1].no]
        BY <1>a, <1>f, <3>2, <4>1
      <4>2. (Out(j)')[1].op = r[1] /\ op \in {"CONNECT", "ASK"}
        BY <1>e, <2>2, <4>0, <4>1
      <4>3. QED
        BY <1>b, <1>d, <1>e, <3>2, <4>2
    <3>3. QED
      BY <3>1, <3>2
  <2>3. QED
    BY <1>a, <1>b, <1>c, <2>1, <2>2 DEF Waits
<1>7. Numbers'
  <2>1. In(k)[1].no <= issued[Owner(k)]
    BY <1>a DEF Shape, Numbers
  <2>2. ASSUME NEW d \in Client
        PROVE  done'[d] <= issued[d]
    BY <1>a, <1>b, <2>1 DEF Shape, Types, Numbers
  <2>3. ASSUME NEW j \in Conn, NEW i \in 1 .. Len(In(j)')
        PROVE  (In(j)')[i].no <= issued[Owner(j)]
    <3>1. CASE j # k
      BY <1>a, <3>1 DEF Shape, Numbers
    <3>2. CASE j = k
      <4>0. i \in 1 .. Len(In(j)) - 1 /\ Len(In(j)) \in Nat
        BY <1>a, <1>b, <3>2
      <4>1. i + 1 \in 1 .. Len(In(j)) /\ (In(j)')[i] = In(j)[i + 1]
        <5>1. i + 1 \in 1 .. Len(In(j))
          BY <4>0
        <5>2. QED
          BY <1>s, <3>2, <4>0, <5>1
      <4>2. QED
        BY <4>1 DEF Shape, Numbers
    <3>3. QED
      BY <3>1, <3>2
  <2>4. QED
    BY <1>a, <1>b, <2>2, <2>3 DEF Shape, Numbers
<1>8. Served'
  <2>1. ASSUME NEW j \in Conn, IsOpen(j)
        PROVE  j = ssock' \/ Pending(j) \/ (Out(j)' # <<>> /\ (Out(j)')[1].op = "REFUSED")
    <3>1. CASE j # k
      BY <1>a, <2>1, <3>1 DEF Shape, Served
    <3>2. CASE j = k /\ ssock' = k
      BY <3>2
    <3>3. CASE j = k /\ ssock' # k
      <4>1. op = "CONNECT" /\ r[1] = "REFUSED" /\ r # <<>>
        BY <1>d, <1>e, <2>1, <3>3
      <4>2. Len(Out(j)') = 1 /\ (Out(j)')[1].op = "REFUSED"
        <5>1. Len(Out(j)') = 1 /\ (Out(j)')[1] = [op |-> r[1], no |-> In(j)[1].no]
          BY <1>a, <1>f, <3>3, <4>1
        <5>2. QED
          BY <4>1, <5>1
      <4>3. Out(j)' # <<>>
        <5>1. Len(<<>>) = 0
          BY EmptySeq
        <5>2. QED
          BY <4>2, <5>1
      <4>4. QED
        BY <4>2, <4>3
    <3>4. QED
      BY <3>1, <3>2, <3>3
  <2>2. QED
    BY <1>a, <1>c, <2>1 DEF Served
<1>9. QED
  BY <1>1, <1>2, <1>3, <1>4, <1>5, <1>6, <1>7, <1>8 DEF Shape

(***************************************************************************)
(* Counting.  A set is no larger than two others together when each of its *)
(* elements has a partner of its own in one of them.                       *)
(***************************************************************************)
LEMMA Partners ==
  ASSUME NEW A, NEW B, NEW M, IsFiniteSet(B),
         \A a \in A : \E b \in B : <<a, b>> \in M,
         \A a1, a2 \in A, b \in B : <<a1, b>> \in M /\ <<a2, b>> \in M => a1 = a2
  PROVE  IsFiniteSet(A) /\ Cardinality(A) <= Cardinality(B)
<1> DEFINE f == [a \in A |-> CHOOSE b \in B : <<a, b>> \in M]
<1>1. \A a \in A : f[a] \in B /\ <<a, f[a]>> \in M
  OBVIOUS
<1>2. f \in [A -> B]
  BY <1>1
<1> HIDE DEF f
<1>3. f \in Injection(A, B)
  BY <1>1, <1>2 DEF Injection, IsInjective
<1>4. QED
  BY <1>3, FS_Injection

LEMMA Pairing ==
  ASSUME NEW A, NEW B, NEW G, NEW M, NEW N, IsFiniteSet(B), IsFiniteSet(G),
         \A a \in A : \/ \E b \in B : <<a, b>> \in M
                      \/ \E g \in G : <<a, g>> \in N,
         \A a1, a2 \in A, b \in B : <<a1, b>> \in M /\ <<a2, b>> \in M => a1 = a2,
         \A a1, a2 \in A, g \in G : <<a1, g>> \in N /\ <<a2, g>> \in N => a1 = a2
  PROVE  IsFiniteSet(A) /\ Cardinality(A) <= Cardinality(B) + Cardinality(G)
<1> DEFINE A1 == {a \in A : \E b \in B : <<a, b>> \in M}
           A2 == {a \in A : \E g \in G : <<a, g>> \in N}
<1>1. IsFiniteSet(A1) /\ Cardinality(A1) <= Cardinality(B)
  BY Partners
<1>2. IsFiniteSet(A2) /\ Cardinality(A2) <= Cardinality(G)
  BY Partners
<1>3. A = A1 \cup A2
  OBVIOUS
<1> HIDE DEF A1, A2
<1>4. /\ IsFiniteSet(A1 \cup A2)
      /\ Cardinality(A1 \cup A2) = Cardinality(A1) + Cardinality(A2) - Cardinality(A1 \cap A2)
  BY <1>1, <1>2, FS_Union
<1>5. Cardinality(A1 \cap A2) \in Nat
  <2>1. A1 \cap A2 \in SUBSET A1
    OBVIOUS
  <2>2. QED
    BY <1>1, <2>1, FS_Subset, FS_CardinalityType
<1>6. /\ Cardinality(A1) \in Nat /\ Cardinality(A2) \in Nat
      /\ Cardinality(B) \in Nat /\ Cardinality(G) \in Nat
  BY <1>1, <1>2, FS_CardinalityType
<1>7. QED
  BY <1>1, <1>2, <1>3, <1>4, <1>5, <1>6

(***************************************************************************)
(* How the actions change the connections on which a packet of some kind   *)
(* is unread.                                                              *)
(***************************************************************************)
LEMMA InUnread ==
  /\ \A x, k : k \in Unread(x) <=> k \in Conn /\ \E i \in 1 .. Len(In(k)) : In(k)[i].op = x
  /\ \A x, k : k \in Unread(x)' <=>
                 k \in Conn' /\ \E i \in 1 .. Len(In(k)') : (In(k)')[i].op = x
<1>1. \A x, k : k \in Unread(x) <=> k \in Conn /\ \E i \in 1 .. Len(In(k)) : In(k)[i].op = x
  BY DEF Unread, In
<1>2. \A x, k : k \in Unread(x)' <=>
                  k \in Conn' /\ \E i \in 1 .. Len(In(k)') : (In(k)')[i].op = x
  BY DEF Unread, In
<1>3. QED
  BY <1>1, <1>2

\* The sets are finite.
LEMMA UnreadFinite ==
  ASSUME Types, NEW x
  PROVE  /\ Unread(x) \subseteq Conn /\ IsFiniteSet(Unread(x))
         /\ Cardinality(Unread(x)) \in Nat
         /\ Away \subseteq Client /\ IsFiniteSet(Away) /\ Cardinality(Away) \in Nat
<1>1. Unread(x) \in SUBSET Conn /\ Away \in SUBSET Client
  BY DEF Unread, Away
<1>2. IsFiniteSet(Conn)
  BY ConnFacts, FS_Interval
<1>3. IsFiniteSet(Unread(x)) /\ IsFiniteSet(Away)
  BY <1>1, <1>2, FS_Subset, ClientAssumption
<1>4. QED
  BY <1>1, <1>3, FS_CardinalityType

\* Connections that stay as they are.
LEMMA UnreadSame ==
  ASSUME Conn' = Conn, \A k \in Conn : In(k)' = In(k)
  PROVE  \A x : Unread(x)' = Unread(x)
<1>1. \A x, k : k \in Unread(x)' <=> k \in Unread(x)
  BY InUnread
<1>2. QED
  BY <1>1

LEMMA UnreadOpened ==
  ASSUME Types, NEW n, n \notin Conn, NEW op, Conn' = Conn \cup {n},
         \A k \in Conn : In(k)' = In(k),
         \A k : k = n => Len(In(k)') = 1 /\ (In(k)')[1].op = op
  PROVE  \A x : Unread(x)' = IF x = op THEN Unread(x) \cup {n} ELSE Unread(x)
<1>1. ASSUME NEW x, NEW k
      PROVE  k \in Unread(x)' <=> k \in Unread(x) \/ (k = n /\ x = op)
  <2>1. CASE k \in Conn
    BY <2>1, InUnread
  <2>2. CASE k = n
    <3>0. Len(In(k)') = 1
      BY <2>2
    <3>1. \A i \in 1 .. Len(In(k)') : i = 1
      BY <3>0
    <3>2. 1 \in 1 .. Len(In(k)') /\ (In(k)')[1].op = op
      BY <2>2, <3>0
    <3>3. k \in Unread(x)' <=> x = op
      BY <2>2, <3>1, <3>2, InUnread
    <3>4. k \notin Unread(x)
      BY <2>2, InUnread
    <3>5. QED
      BY <2>2, <3>3, <3>4
  <2>3. CASE k \notin Conn /\ k # n
    BY <2>3, InUnread
  <2>4. QED
    BY <2>1, <2>2, <2>3
<1>2. QED
  BY <1>1

LEMMA UnreadSent ==
  ASSUME Conn' = Conn, NEW k \in Conn, NEW op, \A j \in Conn \ {k} : In(j)' = In(j),
         \A j : j = k => /\ Len(In(j)') = Len(In(j)) + 1 /\ Len(In(j)) \in Nat
                         /\ \A i \in 1 .. Len(In(j)) : (In(j)')[i] = In(j)[i]
                         /\ (In(j)')[Len(In(j)) + 1].op = op
  PROVE  \A x : Unread(x)' = IF x = op THEN Unread(x) \cup {k} ELSE Unread(x)
<1>1. ASSUME NEW x, NEW j
      PROVE  j \in Unread(x)' <=> j \in Unread(x) \/ (j = k /\ x = op)
  <2>1. CASE j # k
    BY <2>1, InUnread
  <2>2. CASE j = k
    <3>0. Len(In(j)') = Len(In(j)) + 1 /\ Len(In(j)) \in Nat
      BY <2>2
    <3>1. \A i : i \in 1 .. Len(In(j)') <=> i \in 1 .. Len(In(j)) \/ i = Len(In(j)) + 1
      BY <3>0
    <3>2. /\ \A i \in 1 .. Len(In(j)) : (In(j)')[i] = In(j)[i]
          /\ (In(j)')[Len(In(j)) + 1].op = op
      BY <2>2
    <3>3. (\E i \in 1 .. Len(In(j)') : (In(j)')[i].op = x)
            <=> (\E i \in 1 .. Len(In(j)) : In(j)[i].op = x) \/ x = op
      BY <3>1, <3>2
    <3>4. QED
      BY <2>2, <3>3, InUnread
  <2>3. QED
    BY <2>1, <2>2
<1>2. QED
  BY <1>1

LEMMA UnreadHandled ==
  ASSUME Conn' = Conn, NEW k \in Conn, NEW op, \A j \in Conn \ {k} : In(j)' = In(j),
         \A j : j = k => /\ Len(In(j)') = Len(In(j)) - 1 /\ Len(In(j)) \in Nat
                         /\ Len(In(j)) >= 1 /\ In(j)[1].op = op
                         /\ \A i \in 1 .. Len(In(j)) - 1 : (In(j)')[i] = In(j)[i + 1]
  PROVE  /\ \A x : x # op => Unread(x)' = Unread(x)
         /\ (\A i \in 1 .. Len(In(k)) : In(k)[i].op = op => i = 1) =>
              k \in Unread(op) /\ Unread(op)' = Unread(op) \ {k}
<1>0. /\ Len(In(k)') = Len(In(k)) - 1 /\ Len(In(k)) \in Nat
      /\ Len(In(k)) >= 1 /\ In(k)[1].op = op
      /\ \A i \in 1 .. Len(In(k)) - 1 : (In(k)')[i] = In(k)[i + 1]
  OBVIOUS
<1>1. \A x : (\E i \in 1 .. Len(In(k)') : (In(k)')[i].op = x)
               <=> \E i \in 1 .. Len(In(k)) : i # 1 /\ In(k)[i].op = x
  <2>1. \A i \in 1 .. Len(In(k)') : i + 1 \in 1 .. Len(In(k)) /\ i + 1 # 1
    BY <1>0
  <2>2. \A i \in 1 .. Len(In(k)) : i # 1 => i - 1 \in 1 .. Len(In(k)') /\ (i - 1) + 1 = i
    BY <1>0
  <2>3. \A i \in 1 .. Len(In(k)') : (In(k)')[i] = In(k)[i + 1]
    BY <1>0
  <2>4. \A i \in 1 .. Len(In(k)) : i # 1 => (In(k)')[i - 1] = In(k)[i]
    BY <2>2, <2>3
  <2>5. QED
    BY ZenonT(40), <2>1, <2>2, <2>3, <2>4
<1>2. 1 \in 1 .. Len(In(k))
  BY <1>0
<1>3. ASSUME NEW x, x # op
      PROVE  Unread(x)' = Unread(x)
  <2>1. ASSUME NEW j
        PROVE  j \in Unread(x)' <=> j \in Unread(x)
    <3>1. CASE j # k
      BY <3>1, InUnread
    <3>2. CASE j = k
      <4>0. (\E i \in 1 .. Len(In(k)) : i # 1 /\ In(k)[i].op = x)
              <=> \E i \in 1 .. Len(In(k)) : In(k)[i].op = x
        BY <1>0, <1>3
      <4>1. k \in Unread(x)' <=> k \in Unread(x)
        BY ZenonT(40), <1>1, <4>0, InUnread
      <4>2. QED
        BY <3>2, <4>1
    <3>3. QED
      BY <3>1, <3>2
  <2>2. QED
    BY <2>1
<1>4. ASSUME \A i \in 1 .. Len(In(k)) : In(k)[i].op = op => i = 1
      PROVE  k \in Unread(op) /\ Unread(op)' = Unread(op) \ {k}
  <2>1. k \in Unread(op)
    BY <1>0, <1>2, InUnread
  <2>2. k \notin Unread(op)'
    BY <1>1, <1>4, InUnread
  <2>3. ASSUME NEW j, j # k
        PROVE  j \in Unread(op)' <=> j \in Unread(op)
    BY <2>3, InUnread
  <2>4. QED
    BY <2>1, <2>2, <2>3
<1>5. QED
  BY <1>3, <1>4

(***************************************************************************)
(* Alternate and DepthBalanced are preserved: the steps by what they do to *)
(* the two sets, to the clients that are away and to the stack.            *)
(***************************************************************************)
DepthCounts == depth + Cardinality(Suspends) = Cardinality(Away) + Cardinality(Resumes)

\* Every RESUME that the server has not read is balanced: so the stack is no
\* higher than there are clients.
LEMMA DepthBound ==
  ASSUME Types, Alternate, DepthCounts
  PROVE  depth <= Cardinality(Client)
<1> DEFINE Here == Client \ Away
           M == {p \in Resumes \X Suspends :
                   /\ Owner(p[2]) = Owner(p[1]) /\ p[1] <= p[2]
                   /\ \A j \in Resumes : Owner(j) = Owner(p[1]) /\ p[1] < j => p[2] < j}
           N == {p \in Resumes \X Here :
                   /\ Owner(p[1]) = p[2]
                   /\ \A j \in Resumes : Owner(j) = Owner(p[1]) => j <= p[1]}
<1>1. /\ Resumes \subseteq Nat /\ Suspends \subseteq Nat
      /\ \A m \in Resumes : Owner(m) \in Client
      /\ IsFiniteSet(Suspends) /\ IsFiniteSet(Here) /\ IsFiniteSet(Resumes)
      /\ Away \subseteq Client /\ IsFiniteSet(Away)
  <2>1. /\ Resumes \subseteq Conn /\ Suspends \subseteq Conn /\ Away \subseteq Client
        /\ IsFiniteSet(Suspends) /\ IsFiniteSet(Resumes) /\ IsFiniteSet(Away)
    BY UnreadFinite DEF Suspends, Resumes
  <2>2. Conn \subseteq Nat /\ \A m \in Conn : Owner(m) \in Client
    <3>1. Conn = 1 .. Len(conns) /\ \A m \in Conn : Owner(m) \in Client
      BY ConnFacts
    <3>2. QED
      BY <3>1
  <2>3. IsFiniteSet(Here)
    BY ClientAssumption, FS_Subset
  <2>4. QED
    BY <2>1, <2>2, <2>3
<1>2. \A m \in Resumes : \/ \E k \in Suspends : <<m, k>> \in M
                         \/ \E g \in Here : <<m, g>> \in N
  <2>1. ASSUME NEW m \in Resumes, NEW k \in Suspends, Owner(k) = Owner(m), m <= k,
               \A j \in Resumes : Owner(j) = Owner(m) /\ m < j => k < j
        PROVE  <<m, k>> \in M
    BY <2>1
  <2>2. ASSUME NEW m \in Resumes, Owner(m) \in Here,
               \A j \in Resumes : Owner(j) = Owner(m) => j <= m
        PROVE  <<m, Owner(m)>> \in N
    BY <2>2
  <2>3. ASSUME NEW m \in Resumes
        PROVE  \/ \E k \in Suspends : <<m, k>> \in M
               \/ \E g \in Here : <<m, g>> \in N
    <3>1. CASE \E k \in Suspends : /\ Owner(k) = Owner(m) /\ m <= k
                                   /\ \A j \in Resumes : Owner(j) = Owner(m) /\ m < j => k < j
      BY <2>1, <3>1
    <3>2. CASE /\ Owner(m) \notin Away
               /\ \A j \in Resumes : Owner(j) = Owner(m) => j <= m
      BY <1>1, <2>2, <3>2
    <3>3. QED
      BY <3>1, <3>2 DEF Alternate, SuspendFollows
  <2>4. QED
    BY <2>3
<1>3. \A a1, a2 \in Resumes, b \in Suspends : <<a1, b>> \in M /\ <<a2, b>> \in M => a1 = a2
  <2>1. ASSUME NEW a1 \in Resumes, NEW a2 \in Resumes, NEW b \in Suspends,
               <<a1, b>> \in M, <<a2, b>> \in M
        PROVE  a1 = a2
    <3>1. /\ Owner(a1) = Owner(b) /\ a1 <= b
          /\ \A j \in Resumes : Owner(j) = Owner(a1) /\ a1 < j => b < j
      BY <2>1
    <3>2. /\ Owner(a2) = Owner(b) /\ a2 <= b
          /\ \A j \in Resumes : Owner(j) = Owner(a2) /\ a2 < j => b < j
      BY <2>1
    <3>3. a1 \in Nat /\ a2 \in Nat /\ b \in Nat
      BY <1>1
    <3>4. ~(a1 < a2) /\ ~(a2 < a1)
      BY <3>1, <3>2, <3>3
    <3>5. QED
      BY <3>3, <3>4
  <2>2. QED
    BY <2>1
<1>4. \A a1, a2 \in Resumes, g \in Here : <<a1, g>> \in N /\ <<a2, g>> \in N => a1 = a2
  <2>1. ASSUME NEW a1 \in Resumes, NEW a2 \in Resumes, NEW g \in Here,
               <<a1, g>> \in N, <<a2, g>> \in N
        PROVE  a1 = a2
    <3>1. Owner(a1) = g /\ \A j \in Resumes : Owner(j) = Owner(a1) => j <= a1
      BY <2>1
    <3>2. Owner(a2) = g /\ \A j \in Resumes : Owner(j) = Owner(a2) => j <= a2
      BY <2>1
    <3>3. a1 <= a2 /\ a2 <= a1 /\ a1 \in Nat /\ a2 \in Nat
      BY <1>1, <3>1, <3>2
    <3>4. QED
      BY <3>3
  <2>2. QED
    BY <2>1
<1> HIDE DEF M, N
<1>5. Cardinality(Resumes) <= Cardinality(Suspends) + Cardinality(Here)
  BY <1>1, <1>2, <1>3, <1>4, Pairing
<1>6. Cardinality(Client) = Cardinality(Here) + Cardinality(Away)
  <2>1. Here \cup Away = Client /\ Here \cap Away = {}
    BY <1>1
  <2>2. Cardinality(Here \cup Away) =
          Cardinality(Here) + Cardinality(Away) - Cardinality(Here \cap Away)
    BY <1>1, FS_Union
  <2>3. Cardinality({}) = 0 /\ Cardinality(Here) \in Nat /\ Cardinality(Away) \in Nat
    BY <1>1, FS_EmptySet, FS_CardinalityType
  <2>4. /\ Cardinality(Here \cup Away) = Cardinality(Client)
        /\ Cardinality(Here \cap Away) = 0
    BY ONLY <2>1, <2>3, Zenon
  <2>5. QED
    BY <2>2, <2>3, <2>4
<1>7. QED
  BY <1>1, <1>5, <1>6, FS_CardinalityType, ClientAssumption DEF DepthCounts, Types

\* The server reads a RESUME only when a Session is suspended: each SUSPEND that
\* it has not read is followed by another RESUME, or by a client that is away.
LEMMA ResumeFinds ==
  ASSUME Shape, ResumeFollows, DepthCounts, NEW k, k = ssock, k \in Resumes
  PROVE  depth > 0
<1> DEFINE Later == Resumes \ {k}
           M == {p \in Suspends \X Later :
                   /\ Owner(p[2]) = Owner(p[1]) /\ p[1] < p[2]
                   /\ \A j \in Suspends : Owner(j) = Owner(p[1]) /\ p[1] < j => p[2] <= j}
           N == {p \in Suspends \X Away :
                   /\ Owner(p[1]) = p[2]
                   /\ \A j \in Suspends : Owner(j) = Owner(p[1]) => j <= p[1]}
<1>1. /\ Resumes \subseteq Conn /\ Suspends \subseteq Conn
      /\ IsFiniteSet(Suspends) /\ IsFiniteSet(Away) /\ IsFiniteSet(Resumes)
      /\ IsFiniteSet(Later) /\ Cardinality(Later) = Cardinality(Resumes) - 1
  <2>1. /\ Resumes \subseteq Conn /\ Suspends \subseteq Conn
        /\ IsFiniteSet(Suspends) /\ IsFiniteSet(Resumes) /\ IsFiniteSet(Away)
    BY UnreadFinite DEF Suspends, Resumes, Shape
  <2>2. IsFiniteSet(Later) /\ Cardinality(Later) = Cardinality(Resumes) - 1
    BY <2>1, FS_RemoveElement
  <2>3. QED
    BY <2>1, <2>2
<1>2. \A j \in Suspends \cup Resumes : j \in Nat /\ k <= j /\ k \in Nat
  <2>1. ASSUME NEW j \in Suspends \cup Resumes
        PROVE  j \in Nat /\ k <= j /\ k \in Nat
    <3>1. j \in Conn /\ In(j) # <<>>
      <4>1. j \in Conn /\ \E i \in 1 .. Len(In(j)) : In(j)[i].op \in {"SUSPEND", "RESUME"}
        BY InUnread DEF Suspends, Resumes
      <4>2. Len(In(j)) # 0 /\ (In(j) = <<>> <=> Len(In(j)) = 0)
        BY <4>1, ConnFacts DEF Shape
      <4>3. QED
        BY <4>1, <4>2
    <3>2. k \in Nat /\ j \in Nat
      <4>1. k \in Conn /\ j \in Conn /\ Conn = 1 .. Len(conns)
        BY <1>1, <3>1, ConnFacts DEF Shape
      <4>2. QED
        BY <4>1
    <3>3. j = k \/ Pending(j)
      BY <3>1 DEF Shape, Queue
    <3>4. QED
      BY <3>2, <3>3 DEF Shape, Queue, Pending
  <2>2. QED
    BY <2>1
<1>3. \A a \in Suspends : \/ \E b \in Later : <<a, b>> \in M
                          \/ \E g \in Away : <<a, g>> \in N
  <2>1. ASSUME NEW a \in Suspends, NEW m \in Resumes, Owner(m) = Owner(a), a < m,
               \A j \in Suspends : Owner(j) = Owner(a) /\ a < j => m <= j
        PROVE  m \in Later /\ <<a, m>> \in M
    <3>1. m # k
      BY <1>2, <2>1
    <3>2. QED
      BY <2>1, <3>1
  <2>2. ASSUME NEW a \in Suspends, Owner(a) \in Away,
               \A j \in Suspends : Owner(j) = Owner(a) => j <= a
        PROVE  <<a, Owner(a)>> \in N
    BY <2>2
  <2>3. ASSUME NEW a \in Suspends
        PROVE  \/ \E b \in Later : <<a, b>> \in M
               \/ \E g \in Away : <<a, g>> \in N
    <3>1. CASE \E m \in Resumes :
                 /\ Owner(m) = Owner(a) /\ a < m
                 /\ \A j \in Suspends : Owner(j) = Owner(a) /\ a < j => m <= j
      BY <2>1, <3>1
    <3>2. CASE /\ Owner(a) \in Away
               /\ \A j \in Suspends : Owner(j) = Owner(a) => j <= a
      BY <2>2, <3>2
    <3>3. QED
      BY <3>1, <3>2 DEF ResumeFollows
  <2>4. QED
    BY <2>3
<1>4. \A a1, a2 \in Suspends, b \in Later : <<a1, b>> \in M /\ <<a2, b>> \in M => a1 = a2
  <2>1. ASSUME NEW a1 \in Suspends, NEW a2 \in Suspends, NEW b \in Later,
               <<a1, b>> \in M, <<a2, b>> \in M
        PROVE  a1 = a2
    <3>1. /\ Owner(b) = Owner(a1) /\ a1 < b
          /\ \A j \in Suspends : Owner(j) = Owner(a1) /\ a1 < j => b <= j
      BY <2>1
    <3>2. /\ Owner(b) = Owner(a2) /\ a2 < b
          /\ \A j \in Suspends : Owner(j) = Owner(a2) /\ a2 < j => b <= j
      BY <2>1
    <3>3. a1 \in Nat /\ a2 \in Nat /\ b \in Nat
      BY <1>2
    <3>4. ~(a1 < a2) /\ ~(a2 < a1)
      <4>1. Owner(a1) = Owner(a2)
        BY <3>1, <3>2
      <4>2. a1 < a2 => b <= a2
        BY <3>1, <4>1
      <4>3. a2 < a1 => b <= a1
        BY <3>2, <4>1
      <4>4. QED
        BY <3>1, <3>2, <3>3, <4>2, <4>3
    <3>5. QED
      BY <3>3, <3>4
  <2>2. QED
    BY <2>1
<1>5. \A a1, a2 \in Suspends, g \in Away : <<a1, g>> \in N /\ <<a2, g>> \in N => a1 = a2
  <2>1. ASSUME NEW a1 \in Suspends, NEW a2 \in Suspends, NEW g \in Away,
               <<a1, g>> \in N, <<a2, g>> \in N
        PROVE  a1 = a2
    <3>1. Owner(a1) = g /\ \A j \in Suspends : Owner(j) = Owner(a1) => j <= a1
      BY <2>1
    <3>2. Owner(a2) = g /\ \A j \in Suspends : Owner(j) = Owner(a2) => j <= a2
      BY <2>1
    <3>3. a1 <= a2 /\ a2 <= a1 /\ a1 \in Nat /\ a2 \in Nat
      BY <1>2, <3>1, <3>2
    <3>4. QED
      BY <3>3
  <2>2. QED
    BY <2>1
<1> HIDE DEF M, N, Later
<1>6. Cardinality(Suspends) <= Cardinality(Later) + Cardinality(Away)
  BY <1>1, <1>3, <1>4, <1>5, Pairing
<1>7. QED
  BY <1>1, <1>6, FS_CardinalityType DEF DepthCounts, Shape, Types

Balance == Alternate /\ DepthCounts

\* A step that neither suspends nor resumes anybody.
LEMMA BalanceSame ==
  ASSUME Types, Balance, \A x \in {"SUSPEND", "RESUME"} : Unread(x)' = Unread(x),
         \A k \in Conn : Owner(k)' = Owner(k), Away' = Away, depth' = depth
  PROVE  Balance'
<1>1. Suspends' = Suspends /\ Resumes' = Resumes
  BY DEF Suspends, Resumes
<1>2. Suspends \subseteq Conn /\ Resumes \subseteq Conn
  BY DEF Suspends, Resumes, Unread
<1>3. ResumeFollows'
  BY <1>1, <1>2 DEF Balance, Alternate, ResumeFollows
<1>4. SuspendFollows'
  BY <1>1, <1>2 DEF Balance, Alternate, SuspendFollows
<1>5. DepthCounts'
  BY <1>1 DEF Balance, DepthCounts
<1>6. QED
  BY <1>3, <1>4, <1>5 DEF Balance, Alternate

\* A client suspends.
LEMMA BalanceSuspend ==
  ASSUME Types, Balance, NEW c \in Client, NEW k \in Conn, Owner(k) = c,
         \A j \in Conn : Owner(j) = c => j <= k,
         k \notin Suspends, Suspends' = Suspends \cup {k}, Resumes' = Resumes,
         \A j \in Conn : Owner(j)' = Owner(j),
         c \notin Away, Away' = Away \cup {c}, depth' = depth
  PROVE  Balance'
<1>1. /\ Suspends \subseteq Conn /\ Resumes \subseteq Conn /\ \A j \in Conn : j \in Nat
      /\ IsFiniteSet(Suspends) /\ IsFiniteSet(Away) /\ Cardinality(Suspends) \in Nat
      /\ Cardinality(Away) \in Nat /\ Cardinality(Resumes) \in Nat
  BY UnreadFinite, ConnFacts DEF Suspends, Resumes
<1>2. ResumeFollows'
  <2>1. ASSUME NEW a \in Suspends \cup {k}
        PROVE  \/ \E m \in Resumes :
                    /\ Owner(m) = Owner(a) /\ a < m
                    /\ \A j \in Suspends \cup {k} : Owner(j) = Owner(a) /\ a < j => m <= j
               \/ /\ Owner(a) \in Away \cup {c}
                  /\ \A j \in Suspends \cup {k} : Owner(j) = Owner(a) => j <= a
    <3>1. CASE a = k
      BY <1>1, <3>1
    <3>2. ASSUME a \in Suspends, NEW m \in Resumes, Owner(m) = Owner(a), a < m,
                 \A j \in Suspends : Owner(j) = Owner(a) /\ a < j => m <= j
          PROVE  \A j \in Suspends \cup {k} : Owner(j) = Owner(a) /\ a < j => m <= j
      BY <1>1, <3>2
    <3>3. ASSUME a \in Suspends, Owner(a) \in Away,
                 \A j \in Suspends : Owner(j) = Owner(a) => j <= a
          PROVE  \A j \in Suspends \cup {k} : Owner(j) = Owner(a) => j <= a
      BY <3>3
    <3>4. QED
      BY <3>1, <3>2, <3>3 DEF Balance, Alternate, ResumeFollows
  <2>2. QED
    BY <1>1, <2>1 DEF ResumeFollows
<1>3. SuspendFollows'
  <2>1. ASSUME NEW m \in Resumes
        PROVE  \/ \E b \in Suspends \cup {k} :
                    /\ Owner(b) = Owner(m) /\ m <= b
                    /\ \A j \in Resumes : Owner(j) = Owner(m) /\ m < j => b < j
               \/ /\ Owner(m) \notin Away \cup {c}
                  /\ \A j \in Resumes : Owner(j) = Owner(m) => j <= m
    <3>1. CASE Owner(m) = c /\ \A j \in Resumes : Owner(j) = Owner(m) => j <= m
      <4>1. m <= k /\ \A j \in Resumes : Owner(j) = Owner(m) /\ m < j => k < j
        BY <1>1, <3>1
      <4>2. QED
        BY <3>1, <4>1
    <3>2. QED
      BY <3>1 DEF Balance, Alternate, SuspendFollows
  <2>2. QED
    BY <1>1, <2>1 DEF SuspendFollows
<1>4. DepthCounts'
  <2>1. /\ Cardinality(Suspends') = Cardinality(Suspends) + 1
        /\ Cardinality(Away') = Cardinality(Away) + 1
    BY <1>1, FS_AddElement
  <2>2. depth \in Nat /\ depth + Cardinality(Suspends) = Cardinality(Away) + Cardinality(Resumes)
    BY DEF Balance, DepthCounts, Types
  <2>3. QED
    BY <1>1, <2>1, <2>2 DEF DepthCounts
<1>5. QED
  BY <1>2, <1>3, <1>4 DEF Balance, Alternate

\* A client resumes, on a new connection.
LEMMA BalanceResume ==
  ASSUME Types, Balance, NEW c \in Client, NEW n, n = Len(conns) + 1,
         Suspends' = Suspends, Resumes' = Resumes \cup {n},
         \A j \in Conn : Owner(j)' = Owner(j), \A j : j = n => Owner(j)' = c,
         c \in Away, Away' = Away \ {c}, depth' = depth
  PROVE  Balance'
<1>1. /\ Suspends \subseteq Conn /\ Resumes \subseteq Conn
      /\ \A j \in Conn : j \in Nat /\ j < n
      /\ IsFiniteSet(Resumes) /\ IsFiniteSet(Away) /\ Cardinality(Resumes) \in Nat
      /\ Cardinality(Away) \in Nat /\ n \notin Resumes /\ n \in Nat
  <2>1. /\ Suspends \subseteq Conn /\ Resumes \subseteq Conn
        /\ IsFiniteSet(Resumes) /\ IsFiniteSet(Away) /\ Cardinality(Resumes) \in Nat
        /\ Cardinality(Away) \in Nat
    BY UnreadFinite DEF Suspends, Resumes
  <2>2. n \in Nat /\ \A j \in Conn : j \in Nat /\ j < n
    BY ConnFacts
  <2>3. QED
    BY <2>1, <2>2
<1>2. ResumeFollows'
  <2>1. ASSUME NEW a \in Suspends
        PROVE  \/ \E m \in Resumes \cup {n} :
                    /\ Owner(m)' = Owner(a) /\ a < m
                    /\ \A j \in Suspends : Owner(j) = Owner(a) /\ a < j => m <= j
               \/ /\ Owner(a) \in Away \ {c}
                  /\ \A j \in Suspends : Owner(j) = Owner(a) => j <= a
    <3>1. CASE Owner(a) = c /\ \A j \in Suspends : Owner(j) = Owner(a) => j <= a
      <4>1. a < n /\ \A j \in Suspends : Owner(j) = Owner(a) /\ a < j => n <= j
        BY <1>1, <3>1
      <4>2. \A m : m = n => Owner(m)' = Owner(a)
        BY <3>1
      <4>3. QED
        BY <4>1, <4>2
    <3>2. \A m \in Resumes : Owner(m)' = Owner(m)
      BY <1>1
    <3>3. QED
      BY <3>1, <3>2 DEF Balance, Alternate, ResumeFollows
  <2>2. \A a \in Suspends : Owner(a)' = Owner(a)
    BY <1>1
  <2>3. QED
    BY <2>1, <2>2 DEF ResumeFollows
<1>3. SuspendFollows'
  <2>1. ASSUME NEW m \in Resumes \cup {n}
        PROVE  \/ \E b \in Suspends :
                    /\ Owner(b) = Owner(m)' /\ m <= b
                    /\ \A j \in Resumes \cup {n} : Owner(j)' = Owner(m)' /\ m < j => b < j
               \/ /\ Owner(m)' \notin Away \ {c}
                  /\ \A j \in Resumes \cup {n} : Owner(j)' = Owner(m)' => j <= m
    <3>1. CASE m = n
      <4>1. Owner(m)' = c
        BY <3>1
      <4>2. \A j \in Resumes \cup {n} : j <= m
        BY <1>1, <3>1
      <4>3. QED
        BY <4>1, <4>2
    <3>2. CASE m \in Resumes
      <4>1. Owner(m)' = Owner(m) /\ \A j \in Resumes : Owner(j)' = Owner(j)
        BY <1>1, <3>2
      <4>2. CASE \E b \in Suspends :
                   /\ Owner(b) = Owner(m) /\ m <= b
                   /\ \A j \in Resumes : Owner(j) = Owner(m) /\ m < j => b < j
        BY <1>1, <4>1, <4>2
      <4>3. CASE /\ Owner(m) \notin Away
                 /\ \A j \in Resumes : Owner(j) = Owner(m) => j <= m
        <5>1. \A j : j = n => Owner(j)' # Owner(m)
          BY <4>3
        <5>2. QED
          BY <4>1, <4>3, <5>1
      <4>4. QED
        BY <3>2, <4>2, <4>3 DEF Balance, Alternate, SuspendFollows
    <3>3. QED
      BY <3>1, <3>2
  <2>2. \A b \in Suspends : Owner(b)' = Owner(b)
    BY <1>1
  <2>3. QED
    BY <2>1, <2>2 DEF SuspendFollows
<1>4. DepthCounts'
  <2>1. /\ Cardinality(Resumes') = Cardinality(Resumes) + 1
        /\ Cardinality(Away') = Cardinality(Away) - 1
    BY <1>1, FS_AddElement, FS_RemoveElement
  <2>2. QED
    BY <1>1, <2>1 DEF Balance, DepthCounts, Types
<1>5. QED
  BY <1>2, <1>3, <1>4 DEF Balance, Alternate

\* The server executes a SUSPEND.
LEMMA BalanceAccSuspend ==
  ASSUME Types, Balance, NEW k, \A j \in Suspends \cup Resumes : k <= j,
         k \in Suspends, k \notin Resumes, Suspends' = Suspends \ {k}, Resumes' = Resumes,
         \A j \in Conn : Owner(j)' = Owner(j), Away' = Away, depth' = depth + 1
  PROVE  Balance'
<1>1. /\ Suspends \subseteq Conn /\ Resumes \subseteq Conn /\ \A j \in Conn : j \in Nat
      /\ IsFiniteSet(Suspends) /\ Cardinality(Suspends) \in Nat /\ Cardinality(Away) \in Nat
      /\ Cardinality(Resumes) \in Nat
  BY UnreadFinite, ConnFacts DEF Suspends, Resumes
<1>2. ResumeFollows'
  BY <1>1 DEF Balance, Alternate, ResumeFollows
<1>3. SuspendFollows'
  <2>1. ASSUME NEW m \in Resumes
        PROVE  \/ \E b \in Suspends \ {k} :
                    /\ Owner(b) = Owner(m) /\ m <= b
                    /\ \A j \in Resumes : Owner(j) = Owner(m) /\ m < j => b < j
               \/ /\ Owner(m) \notin Away
                  /\ \A j \in Resumes : Owner(j) = Owner(m) => j <= m
    <3>1. ~(m <= k)
      BY <1>1
    <3>2. QED
      BY <3>1 DEF Balance, Alternate, SuspendFollows
  <2>2. QED
    BY <1>1, <2>1 DEF SuspendFollows
<1>4. DepthCounts'
  <2>1. Cardinality(Suspends') = Cardinality(Suspends) - 1
    BY <1>1, FS_RemoveElement
  <2>2. QED
    BY <1>1, <2>1 DEF Balance, DepthCounts, Types
<1>5. QED
  BY <1>2, <1>3, <1>4 DEF Balance, Alternate

\* The server executes a RESUME.
LEMMA BalanceAccResume ==
  ASSUME Types, Balance, NEW k, \A j \in Suspends \cup Resumes : k <= j,
         k \in Resumes, Suspends' = Suspends, Resumes' = Resumes \ {k},
         \A j \in Conn : Owner(j)' = Owner(j), Away' = Away, depth' = depth - 1
  PROVE  Balance'
<1>1. /\ Suspends \subseteq Conn /\ Resumes \subseteq Conn /\ \A j \in Conn : j \in Nat
      /\ IsFiniteSet(Resumes) /\ Cardinality(Suspends) \in Nat /\ Cardinality(Away) \in Nat
      /\ Cardinality(Resumes) \in Nat
  BY UnreadFinite, ConnFacts DEF Suspends, Resumes
<1>2. ResumeFollows'
  <2>1. ASSUME NEW a \in Suspends
        PROVE  \/ \E m \in Resumes \ {k} :
                    /\ Owner(m) = Owner(a) /\ a < m
                    /\ \A j \in Suspends : Owner(j) = Owner(a) /\ a < j => m <= j
               \/ /\ Owner(a) \in Away
                  /\ \A j \in Suspends : Owner(j) = Owner(a) => j <= a
    <3>1. ~(a < k)
      BY <1>1
    <3>2. QED
      BY <3>1 DEF Balance, Alternate, ResumeFollows
  <2>2. QED
    BY <1>1, <2>1 DEF ResumeFollows
<1>3. SuspendFollows'
  BY <1>1 DEF Balance, Alternate, SuspendFollows
<1>4. DepthCounts'
  <2>1. Cardinality(Resumes') = Cardinality(Resumes) - 1
    BY <1>1, FS_RemoveElement
  <2>2. QED
    BY <1>1, <2>1 DEF Balance, DepthCounts, Types
<1>5. QED
  BY <1>2, <1>3, <1>4 DEF Balance, Alternate

(***************************************************************************)
(* The steps.                                                              *)
(***************************************************************************)
Serving == Shape /\ Balance

LEMMA ServingConnect ==
  ASSUME Serving, NEW c \in Client, Connect(c)
  PROVE  Serving'
<1>1. /\ Open(c, "CONNECT") /\ Goto(c, "asking") /\ cpc[c] = "out" /\ issued[c] < MaxReqs
      /\ cpc' = [cpc EXCEPT ![c] = "asking"] /\ UNCHANGED <<answer, server>>
  BY DEF Connect, Willing, Goto
<1>0. Types /\ Shape /\ Balance
  BY DEF Serving, Shape
<1>2. Shape'
  BY <1>0, <1>1, Opening
<1>3. Balance'
  <2>1. ASSUME NEW m, m = Len(conns) + 1
        PROVE  Balance'
    <3>1. /\ Conn' = Conn \cup {m} /\ m \notin Conn
          /\ \A j \in Conn : Owner(j)' = Owner(j) /\ In(j)' = In(j)
          /\ \A j : j = m => Len(In(j)') = 1 /\ (In(j)')[1].op = "CONNECT"
      <4>1. "CONNECT" \in Op /\ m \notin Conn /\ Packet(c, "CONNECT").op = "CONNECT"
        BY <1>0, <2>1, ConnFacts DEF Op, Packet
      <4>2. /\ Conn' = Conn \cup {m}
            /\ \A j \in Conn : Owner(j)' = Owner(j) /\ In(j)' = In(j)
            /\ \A j : j = m => /\ Len(In(j)') = 1 /\ (In(j)')[1] = Packet(c, "CONNECT")
                               /\ Owner(j)' = c
        BY <1>0, <1>1, <2>1, <4>1, Opened
      <4>3. QED
        BY <4>1, <4>2
    <3>2. \A x \in {"SUSPEND", "RESUME"} : Unread(x)' = Unread(x)
      BY <1>0, <3>1, UnreadOpened
    <3>3. Away' = Away
      BY <1>0, <1>1 DEF Away, Types
    <3>4. depth' = depth
      BY <1>1 DEF server
    <3>5. QED
      BY <3>1, <3>2, <3>3, <3>4, <1>0, BalanceSame
  <2>2. QED
    BY <2>1
<1>4. QED
  BY <1>2, <1>3 DEF Serving

LEMMA ServingResume ==
  ASSUME Serving, NEW c \in Client, Resume(c)
  PROVE  Serving'
<1>1. /\ Open(c, "RESUME") /\ Goto(c, "idle") /\ cpc[c] = "shell"
      /\ cpc' = [cpc EXCEPT ![c] = "idle"] /\ UNCHANGED <<answer, server>>
  BY DEF Resume, Goto
<1>0. Types /\ Shape /\ Balance
  BY DEF Serving, Shape
<1>2. Shape'
  BY <1>0, <1>1, Opening
<1>3. Balance'
  <2>1. ASSUME NEW m, m = Len(conns) + 1
        PROVE  Balance'
    <3>1. /\ Conn' = Conn \cup {m} /\ m \notin Conn
          /\ \A j \in Conn : Owner(j)' = Owner(j) /\ In(j)' = In(j)
          /\ \A j : j = m => /\ Len(In(j)') = 1 /\ (In(j)')[1].op = "RESUME"
                             /\ Owner(j)' = c
      <4>1. "RESUME" \in Op /\ m \notin Conn /\ Packet(c, "RESUME").op = "RESUME"
        BY <1>0, <2>1, ConnFacts DEF Op, Packet
      <4>2. /\ Conn' = Conn \cup {m}
            /\ \A j \in Conn : Owner(j)' = Owner(j) /\ In(j)' = In(j)
            /\ \A j : j = m => /\ Len(In(j)') = 1 /\ (In(j)')[1] = Packet(c, "RESUME")
                               /\ Owner(j)' = c
        BY <1>0, <1>1, <2>1, <4>1, Opened
      <4>3. QED
        BY <4>1, <4>2
    <3>2. Suspends' = Suspends /\ Resumes' = Resumes \cup {m}
      BY <1>0, <3>1, UnreadOpened DEF Suspends, Resumes
    <3>3. c \in Away /\ Away' = Away \ {c}
      BY <1>0, <1>1 DEF Away, Types
    <3>4. depth' = depth
      BY <1>1 DEF server
    <3>5. QED
      BY <2>1, <3>1, <3>2, <3>3, <3>4, <1>0, BalanceResume
  <2>2. QED
    BY <2>1
<1>4. QED
  BY <1>2, <1>3 DEF Serving

\* Ask, Tell and Disconnect.
LEMMA ServingAsk ==
  ASSUME Serving, NEW c \in Client, Ask(c) \/ Tell(c) \/ Disconnect(c)
  PROVE  Serving'
<1>0. Types /\ Shape /\ Balance
  BY DEF Serving, Shape
<1>1. ASSUME NEW op, NEW l, Send(c, op), NEW k, k = sock[c], cpc[c] = "idle",
             cpc' = [cpc EXCEPT ![c] = l],
             \/ op = "ASK" /\ l = "asking" /\ sock' = sock /\ issued[c] < MaxReqs
             \/ op = "TELL" /\ l = "idle" /\ sock' = sock /\ issued[c] < MaxReqs
             \/ op = "DISCONNECT" /\ l = "out" /\ sock' = [sock EXCEPT ![c] = None],
             UNCHANGED <<answer, backlog, server>>
      PROVE  Serving'
  <2>1. Shape'
    BY <1>0, <1>1, Sending
  <2>2. op \in Op \ {"SUSPEND", "RESUME"} /\ l \notin {"shell", "dead"}
    BY <1>1 DEF Op
  <2>3. k \in Conn
    BY <1>0, <1>1 DEF Shape, Socks
  <2>4. /\ Conn' = Conn /\ \A j \in Conn : Owner(j)' = Owner(j)
        /\ \A j \in Conn \ {k} : In(j)' = In(j)
        /\ \A j : j = k => /\ Len(In(j)') = Len(In(j)) + 1 /\ Len(In(j)) \in Nat
                           /\ \A i \in 1 .. Len(In(j)) : (In(j)')[i] = In(j)[i]
                           /\ (In(j)')[Len(In(j)) + 1].op = op
    <3>1. Packet(c, op).op = op
      BY DEF Packet
    <3>2. QED
      BY <1>0, <1>1, <2>2, <2>3, <3>1, Sent
  <2>5. \A x \in {"SUSPEND", "RESUME"} : Unread(x)' = Unread(x)
    BY <2>2, <2>3, <2>4, UnreadSent
  <2>6. Away' = Away
    BY <1>0, <1>1, <2>2 DEF Away, Types
  <2>7. depth' = depth
    BY <1>1 DEF server
  <2>8. Balance'
    BY <1>0, <2>4, <2>5, <2>6, <2>7, BalanceSame
  <2>9. QED
    BY <2>1, <2>8 DEF Serving
<1>2. CASE Ask(c)
  BY <1>1, <1>2 DEF Ask, Willing, Goto
<1>3. CASE Tell(c)
  <2>1. cpc' = [cpc EXCEPT ![c] = "idle"]
    BY <1>0, <1>3 DEF Tell, Willing, Types
  <2>2. QED
    BY <1>1, <1>3, <2>1 DEF Tell, Willing
<1>4. CASE Disconnect(c)
  BY <1>1, <1>4 DEF Disconnect, SendAndClose, Goto
<1>5. QED
  BY <1>2, <1>3, <1>4

LEMMA ServingSuspend ==
  ASSUME Serving, NEW c \in Client, Suspend(c)
  PROVE  Serving'
<1>0. Types /\ Shape /\ Balance
  BY DEF Serving, Shape
<1>1. /\ Send(c, "SUSPEND") /\ cpc[c] = "idle" /\ cpc' = [cpc EXCEPT ![c] = "shell"]
      /\ sock' = [sock EXCEPT ![c] = None] /\ issued[c] < MaxReqs
      /\ UNCHANGED <<answer, backlog, server>>
  BY DEF Suspend, SendAndClose, Willing, Goto
<1>2. ASSUME NEW k, k = sock[c]
      PROVE  Serving'
  <2>1. Shape'
    BY <1>0, <1>1, <1>2, Sending
  <2>3. k \in Conn /\ Owner(k) = c /\ \A j \in Conn : Owner(j) = c => j <= k
    BY <1>0, <1>1, <1>2 DEF Shape, Socks
  <2>4. /\ Conn' = Conn /\ \A j \in Conn : Owner(j)' = Owner(j)
        /\ \A j \in Conn \ {k} : In(j)' = In(j)
        /\ \A j : j = k => /\ Len(In(j)') = Len(In(j)) + 1 /\ Len(In(j)) \in Nat
                           /\ \A i \in 1 .. Len(In(j)) : (In(j)')[i] = In(j)[i]
                           /\ (In(j)')[Len(In(j)) + 1].op = "SUSPEND"
    <3>1. Packet(c, "SUSPEND").op = "SUSPEND" /\ "SUSPEND" \in Op
      BY DEF Packet, Op
    <3>2. QED
      BY <1>0, <1>1, <1>2, <2>3, <3>1, Sent
  <2>5. Suspends' = Suspends \cup {k} /\ Resumes' = Resumes
    BY <2>3, <2>4, UnreadSent DEF Suspends, Resumes
  <2>6. c \notin Away /\ Away' = Away \cup {c}
    BY <1>0, <1>1 DEF Away, Types
  <2>7. depth' = depth
    BY <1>1 DEF server
  <2>8. k \notin Suspends
    <3>1. IsOpen(k)
      BY <1>2, <2>3 DEF IsOpen
    <3>2. QED
      BY <1>0, <3>1, InUnread DEF Shape, Streams, Suspends
  <2>9. Balance'
    BY <1>0, <2>3, <2>4, <2>5, <2>6, <2>7, <2>8, BalanceSuspend
  <2>10. QED
    BY <2>1, <2>9 DEF Serving
<1>3. QED
  BY <1>2

LEMMA ServingAnswered ==
  ASSUME Serving, NEW c \in Client, Answered(c)
  PROVE  Serving' /\ answer'[c] = issued[c]
<1>0. Types /\ Shape /\ Balance
  BY DEF Serving, Shape
<1>1. /\ Shape' /\ answer'[c] = issued[c]
      /\ UNCHANGED <<issued, backlog, server>>
      /\ Conn' = Conn /\ \A j \in Conn : Owner(j)' = Owner(j) /\ In(j)' = In(j)
      /\ \E l \in {"idle", "out"} : cpc' = [cpc EXCEPT ![c] = l]
  BY <1>0, Answering
<1>2. Away' = Away
  <2>1. cpc[c] = "asking"
    BY DEF Answered
  <2>2. QED
    BY <1>0, <1>1, <2>1 DEF Away, Types
<1>3. \A x : Unread(x)' = Unread(x)
  BY <1>1, UnreadSame
<1>4. depth' = depth
  BY <1>1 DEF server
<1>5. Balance'
  BY <1>0, <1>1, <1>2, <1>3, <1>4, BalanceSame
<1>6. QED
  BY <1>1, <1>5 DEF Serving

\* Die and Accept.
LEMMA ServingStill ==
  ASSUME Serving, \/ \E c \in Client : Die(c)
                  \/ Accept
  PROVE  Serving'
<1>0. Types /\ Shape /\ Balance
  BY DEF Serving, Shape
<1>1. Shape'
  BY <1>0, Dying, Accepting
<1>2. conns' = conns /\ depth' = depth
  BY DEF Die, Accept, server
<1>3. Away' = Away
  BY <1>0 DEF Die, Goto, Accept, client, Away, Types
<1>4. Conn' = Conn /\ \A j \in Conn : Owner(j)' = Owner(j) /\ In(j)' = In(j)
  BY <1>2 DEF Conn, Owner, In
<1>5. \A x : Unread(x)' = Unread(x)
  BY <1>4, UnreadSame
<1>6. Balance'
  BY <1>0, <1>2, <1>3, <1>4, <1>5, BalanceSame
<1>7. QED
  BY <1>1, <1>6 DEF Serving

\* What the server reads is on the oldest connection that has anything unread.
LEMMA OldestFirst ==
  ASSUME Serving, NEW k, k = ssock
  PROVE  \A j \in Suspends \cup Resumes : k <= j
<1>1. ASSUME NEW j \in Suspends \cup Resumes
      PROVE  k <= j
  <2>0. Types /\ Queue
    BY DEF Serving, Shape
  <2>1. j \in Conn /\ \E i \in 1 .. Len(In(j)) : In(j)[i].op \in {"SUSPEND", "RESUME"}
    BY InUnread DEF Suspends, Resumes
  <2>2. Len(In(j)) # 0 /\ (In(j) = <<>> <=> Len(In(j)) = 0)
    BY <2>0, <2>1, ConnFacts
  <2>3. j = k \/ Pending(j)
    BY <2>0, <2>1, <2>2 DEF Queue
  <2>4. j \in Nat /\ k \in Nat
    BY <2>0, <2>1, ConnFacts DEF Types, None
  <2>5. QED
    BY <2>0, <2>3, <2>4 DEF Queue, Pending
<1>2. QED
  BY <1>1

LEMMA ServingHandled ==
  ASSUME Serving, NEW op \in Op, NEW r,
         r = <<>> \/ r \in {<<"CONNECT">>, <<"REFUSED">>, <<"ASK">>},
         Handle(op, r), NEW k, k = ssock
  PROVE  /\ \A j \in Conn : Owner(j)' = Owner(j)
         /\ Away' = Away
         /\ \A x : x # op => Unread(x)' = Unread(x)
         /\ op \in {"SUSPEND", "RESUME"} =>
              k \in Unread(op) /\ Unread(op)' = Unread(op) \ {k}
         /\ op = "SUSPEND" => k \notin Resumes
<1>0. Types /\ Shape
  BY DEF Serving, Shape
<1>1. /\ k \in Conn /\ Conn' = Conn /\ UNCHANGED client
      /\ \A j \in Conn : Owner(j)' = Owner(j)
      /\ \A j \in Conn \ {k} : In(j)' = In(j)
      /\ \A j : j = k => /\ Len(In(j)') = Len(In(j)) - 1 /\ Len(In(j)) \in Nat
                         /\ Len(In(j)) >= 1 /\ In(j)[1].op = op
                         /\ \A i \in 1 .. Len(In(j)) - 1 : (In(j)')[i] = In(j)[i + 1]
  <2>1. /\ k \in Conn /\ spc = "session"
        /\ conns' \in Seq(Connection) /\ Len(conns') = Len(conns) /\ Conn' = Conn
        /\ \A j \in Conn : Owner(j)' = Owner(j)
        /\ \A j \in Conn \ {k} : In(j)' = In(j) /\ Out(j)' = Out(j)
        /\ Len(In(k)) \in Nat /\ Len(In(k)) >= 1 /\ In(k)[1].op = op
        /\ \A j : j = k =>
             /\ Len(In(j)') = Len(In(j)) - 1 /\ (In(j)' = <<>> <=> Len(In(j)) = 1)
             /\ \A i \in 1 .. Len(In(j)) - 1 : (In(j)')[i] = In(j)[i + 1]
             /\ r = <<>> => Out(j)' = Out(j)
             /\ r # <<>> /\ Out(j) = <<>> =>
                  /\ Len(Out(j)') = 1
                  /\ (Out(j)')[1] = [op |-> r[1], no |-> In(j)[1].no]
        /\ done' = [done EXCEPT ![Owner(k)] = In(k)[1].no]
        /\ UNCHANGED <<client, backlog>>
    BY <1>0, Handled
  <2>2. \A j : j = k => Len(In(j)) \in Nat /\ Len(In(j)) >= 1 /\ In(j)[1].op = op
    BY <2>1
  <2>3. QED
    BY <2>1, <2>2
<1>2. Away' = Away
  BY <1>1 DEF client, Away
<1>3. op \in {"SUSPEND", "RESUME"} =>
        \A i \in 1 .. Len(In(k)) : In(k)[i].op = op => i = 1
  <2>1. 1 \in 1 .. Len(In(k)) /\ Len(In(k)) >= 1 /\ In(k)[1].op = op
    BY <1>1
  <2>2. op = "SUSPEND" => Len(In(k)) = 1
    BY <1>0, <1>1, <2>1 DEF Shape, Streams
  <2>3. QED
    BY <1>0, <1>1, <2>2 DEF Shape, Streams
<1>4. op = "SUSPEND" => k \notin Resumes
  <2>1. 1 \in 1 .. Len(In(k)) /\ In(k)[1].op = op
    BY <1>1
  <2>2. ASSUME op = "SUSPEND", NEW i \in 1 .. Len(In(k))
        PROVE  In(k)[i].op # "RESUME"
    BY <1>0, <1>1, <2>1, <2>2 DEF Shape, Streams
  <2>3. QED
    BY <2>2, InUnread DEF Resumes
<1>5. /\ \A x : x # op => Unread(x)' = Unread(x)
      /\ (\A i \in 1 .. Len(In(k)) : In(k)[i].op = op => i = 1) =>
           k \in Unread(op) /\ Unread(op)' = Unread(op) \ {k}
  <2>1. Conn' = Conn /\ k \in Conn /\ (\A j \in Conn \ {k} : In(j)' = In(j))
    BY <1>1
  <2>2. \A j : j = k => /\ Len(In(j)') = Len(In(j)) - 1 /\ Len(In(j)) \in Nat
                        /\ Len(In(j)) >= 1 /\ In(j)[1].op = op
                        /\ \A i \in 1 .. Len(In(j)) - 1 : (In(j)')[i] = In(j)[i + 1]
    BY <1>1
  <2>3. QED
    BY ONLY <2>1, <2>2, UnreadHandled
<1>6. QED
  BY <1>1, <1>2, <1>3, <1>4, <1>5, Zenon

\* What is no SUSPEND or RESUME leaves the stack alone.
LEMMA ServingPlain ==
  ASSUME Serving, NEW op \in {"CONNECT", "ASK", "TELL", "DISCONNECT"}, NEW r, Handle(op, r),
         \/ /\ Stay
            /\ \/ op = "CONNECT" /\ r = <<"CONNECT">>
               \/ op = "ASK" /\ r = <<"ASK">>
               \/ op = "TELL" /\ r = <<>>
         \/ /\ Leave
            /\ \/ op = "CONNECT" /\ r = <<"REFUSED">>
               \/ op = "DISCONNECT" /\ r = <<>>,
         depth' = depth
  PROVE  Serving'
<1>0. Types /\ Shape /\ Balance
  BY DEF Serving, Shape
<1>1. op \in Op /\ op \notin {"SUSPEND", "RESUME"}
  BY DEF Op
<1>2. r = <<>> \/ r \in {<<"CONNECT">>, <<"REFUSED">>, <<"ASK">>}
  OBVIOUS
<1>3. depth' \in Nat
  BY <1>0 DEF Types
<1>4. Shape'
  BY <1>0, <1>1, <1>3, Handling
<1>5. /\ \A j \in Conn : Owner(j)' = Owner(j)
      /\ Away' = Away
      /\ \A x \in {"SUSPEND", "RESUME"} : Unread(x)' = Unread(x)
  BY <1>1, <1>2, ServingHandled
<1>6. Balance'
  BY <1>0, <1>5, BalanceSame
<1>7. QED
  BY <1>4, <1>6 DEF Serving

LEMMA ServingAccSuspend ==
  ASSUME Serving, AccSuspend
  PROVE  Serving'
<1>0. Types /\ Shape /\ Balance
  BY DEF Serving, Shape
<1>1. Handle("SUSPEND", <<>>) /\ Leave /\ depth' = depth + 1 /\ "SUSPEND" \in Op
  BY DEF AccSuspend, Op
<1>2. depth' \in Nat
  BY <1>0, <1>1 DEF Types
<1>3. Shape'
  BY <1>0, <1>1, <1>2, Handling
<1>4. ASSUME NEW k, k = ssock
      PROVE  Balance'
  <2>1. \A j \in Suspends \cup Resumes : k <= j
    BY <1>4, OldestFirst
  <2>2. /\ \A j \in Conn : Owner(j)' = Owner(j)
        /\ Away' = Away /\ Resumes' = Resumes
        /\ k \in Suspends /\ Suspends' = Suspends \ {k} /\ k \notin Resumes
    BY <1>1, <1>4, ServingHandled DEF Suspends, Resumes
  <2>3. QED
    BY <1>0, <1>1, <2>1, <2>2, BalanceAccSuspend
<1>5. QED
  BY <1>3, <1>4 DEF Serving

\* A RESUME finds a suspended Session.
LEMMA ServingAccResume ==
  ASSUME Serving, AccResume
  PROVE  Serving' /\ depth > 0
<1>0. Types /\ Shape /\ Balance
  BY DEF Serving, Shape
<1>1. Handle("RESUME", <<>>) /\ "RESUME" \in Op
  BY DEF AccResume, Op
<1>2. ASSUME NEW k, k = ssock
      PROVE  depth > 0 /\ Balance'
  <2>1. \A j \in Suspends \cup Resumes : k <= j
    BY <1>2, OldestFirst
  <2>2. /\ \A j \in Conn : Owner(j)' = Owner(j)
        /\ Away' = Away /\ Suspends' = Suspends
        /\ k \in Resumes /\ Resumes' = Resumes \ {k}
    BY <1>1, <1>2, ServingHandled DEF Suspends, Resumes
  <2>3. depth > 0
    BY <1>0, <1>2, <2>2, ResumeFinds DEF Balance, Alternate
  <2>4. depth' = depth - 1
    BY <1>0, <2>3 DEF AccResume, Resumed, Types
  <2>5. QED
    BY <1>0, <2>1, <2>2, <2>3, <2>4, BalanceAccResume
<1>3. depth > 0 /\ Balance'
  BY <1>2
<1>4. Stay /\ depth' \in Nat
  BY <1>0, <1>3 DEF AccResume, Resumed, Types
<1>5. Shape'
  BY <1>0, <1>1, <1>4, Handling
<1>6. QED
  BY <1>3, <1>5 DEF Serving

LEMMA ServingSession ==
  ASSUME Serving, Session
  PROVE  Serving'
<1>1. CASE AccConnect
  BY <1>1, ServingPlain DEF AccConnect
<1>2. CASE AccRefuse
  BY <1>2, ServingPlain DEF AccRefuse
<1>3. CASE AccAsk
  BY <1>3, ServingPlain DEF AccAsk
<1>4. CASE AccTell
  BY <1>4, ServingPlain DEF AccTell, TellReply
<1>5. CASE AccDisconnect
  BY <1>5, ServingPlain DEF AccDisconnect, Disconnected
<1>6. QED
  BY <1>1, <1>2, <1>3, <1>4, <1>5, ServingAccSuspend, ServingAccResume DEF Session

LEMMA ServingInit == Init => Serving
<1> SUFFICES ASSUME Init PROVE Serving
  OBVIOUS
<1>1. /\ conns = <<>> /\ backlog = <<>> /\ Conn = {} /\ ssock = None /\ depth = 0
      /\ Len(<<>>) = 0
  BY DEF Init, Conn
<1>2. Types
  <2>1. conns \in Seq(Connection) /\ backlog \in Seq(Nat)
    BY <1>1
  <2>2. QED
    BY <1>1, <2>1 DEF Init, Types, None
<1>3. /\ Queue /\ Served /\ Streams /\ Closed
      /\ Socks /\ Waits /\ Numbers
  BY <1>1, BoundAssumption DEF Init, Queue, Served, Streams, Closed, Socks, Waits, Numbers,
     Spare, None
<1>4. Suspends = {} /\ Resumes = {}
  BY <1>1 DEF Suspends, Resumes, Unread
<1>5. Away = {}
  BY DEF Init, Away
<1>6. DepthCounts
  BY <1>1, <1>4, <1>5, FS_EmptySet DEF DepthCounts
<1>7. QED
  BY <1>2, <1>3, <1>4, <1>6 DEF Serving, Shape, Balance, Alternate, ResumeFollows,
     SuspendFollows

LEMMA ServingNext == Serving /\ [Next]_vars => Serving'
<1> SUFFICES ASSUME Serving, [Next]_vars PROVE Serving'
  OBVIOUS
<1>1. CASE UNCHANGED vars
  <2>1. UNCHANGED <<cpc, sock, issued, answer, conns, backlog, spc, ssock, depth, done>>
    BY <1>1 DEF vars, client, server
  <2>2. /\ Conn' = Conn /\ Away' = Away
        /\ \A k : /\ Owner(k)' = Owner(k) /\ In(k)' = In(k) /\ Out(k)' = Out(k)
                  /\ Pending(k)' = Pending(k) /\ IsOpen(k)' = IsOpen(k)
                  /\ LastIn(k)' = LastIn(k)
    BY <2>1 DEF Conn, Away, Owner, In, Out, Pending, IsOpen, LastIn
  <2>3. Types' /\ Queue' /\ Served' /\ Streams' /\ Closed' /\ Socks' /\ Numbers'
    <3>1. Types'
      BY <2>1, <2>2 DEF Serving, Shape, Types
    <3>2. Queue'
      BY <2>1, <2>2 DEF Serving, Shape, Queue
    <3>3. Served'
      BY <2>1, <2>2 DEF Serving, Shape, Served
    <3>4. Streams'
      BY <2>1, <2>2 DEF Serving, Shape, Streams
    <3>5. Closed'
      BY <2>1, <2>2 DEF Serving, Shape, Closed
    <3>6. Socks'
      BY <2>1, <2>2 DEF Serving, Shape, Socks
    <3>7. Numbers'
      BY <2>1, <2>2 DEF Serving, Shape, Numbers
    <3>8. QED
      BY <3>1, <3>2, <3>3, <3>4, <3>5, <3>6, <3>7, Zenon
  <2>4. Waits'
    BY <2>1, <2>2 DEF Serving, Shape, Waits, Asked, Replied
  <2>5. \A x : Unread(x)' = Unread(x)
    BY <2>2, UnreadSame
  <2>6. Balance'
    BY <2>1, <2>2, <2>5, BalanceSame DEF Serving, Shape
  <2>7. QED
    BY <2>3, <2>4, <2>6 DEF Serving, Shape
<1>2. CASE Next
  BY <1>2, ServingConnect, ServingResume, ServingAsk, ServingSuspend, ServingAnswered,
     ServingStill, ServingSession DEF Next
<1>3. QED
  BY <1>1, <1>2

\* The server's bookkeeping, for any number of clients and requests, whatever
\* the order in which they connect, start shells, resume, or are killed there.
THEOREM ServingCorrect == Spec => []Serving
BY ServingInit, ServingNext, PTL DEF Spec

\* Types, and the data_sockets of clients and server name connections.
THEOREM TcpTypeCorrect == Spec => []TypeOK
<1>1. ASSUME Serving
      PROVE  TypeOK
  <2>0. Types /\ Queue /\ Socks /\ Numbers /\ Alternate /\ DepthCounts
    BY <1>1 DEF Serving, Shape, Balance
  <2>1. \A c \in Client : /\ sock[c] \in Conn \cup {None}
                          /\ sock[c] = None <=> cpc[c] \in {"out", "shell", "dead"}
                          /\ sock[c] # None => conns[sock[c]].owner = c
    BY <2>0 DEF Socks, Owner
  <2>2. \A c \in Client : /\ issued[c] \in 0 .. MaxReqs + 3 /\ answer[c] \in 0 .. MaxReqs + 3
                          /\ done[c] \in 0 .. MaxReqs + 3
    <3>1. \A c \in Client : /\ issued[c] <= MaxReqs + Spare(cpc[c])
                            /\ answer[c] <= issued[c] /\ done[c] <= issued[c]
      BY <2>0 DEF Numbers
    <3>2. \A c \in Client : issued[c] \in Nat /\ answer[c] \in Nat /\ done[c] \in Nat
      BY <2>0 DEF Types
    <3>3. \A l : Spare(l) \in 0 .. 2
      BY DEF Spare
    <3>4. MaxReqs \in Nat
      BY BoundAssumption
    <3>5. \A c \in Client : issued[c] <= MaxReqs + 2
      BY <3>1, <3>2, <3>3, <3>4
    <3>6. QED
      BY <3>1, <3>2, <3>4, <3>5
  <2>3. /\ issued \in [Client -> 0 .. MaxReqs + 3] /\ answer \in [Client -> 0 .. MaxReqs + 3]
        /\ done \in [Client -> 0 .. MaxReqs + 3]
    BY <2>0, <2>2 DEF Types
  <2>4. \A k \in 1 .. Len(backlog) : backlog[k] \in Conn /\ backlog[k] # ssock
    <3>1. ssock \in Nat
      BY <2>0, ConnFacts DEF Types, None
    <3>2. QED
      BY <2>0, <3>1 DEF Queue
  <2>5. depth \in 0 .. Cardinality(Client)
    BY <2>0, DepthBound, ClientAssumption, FS_CardinalityType DEF Types
  <2>6. QED
    BY <2>0, <2>1, <2>3, <2>4, <2>5 DEF TypeOK, Types
<1>2. QED
  BY <1>1, ServingCorrect, PTL

\* The stack holds one suspended Session for each client that is in its shell
\* or was killed there, up to the SUSPENDs and RESUMEs still under way.
THEOREM DepthCorrect == Spec => []DepthBalanced
<1>1. Serving => DepthBalanced
  BY DEF Serving, Balance, DepthCounts, DepthBalanced, Suspends, Resumes, Away
<1>2. QED
  BY <1>1, ServingCorrect, PTL

\* Neither end waits for data on a connection that the other end has closed.
THEOREM NobodyReadsEOFCorrect == Spec => []NobodyReadsEOF
<1>1. ASSUME Serving
      PROVE  NobodyReadsEOF
  <2>0. Types /\ Closed /\ Socks /\ Served
    BY <1>1 DEF Serving, Shape
  <2>1. ASSUME spc = "session", conns[ssock].toServer = <<>>
        PROVE  sock[conns[ssock].owner] = ssock
    <3>1. ssock \in Conn
      BY <2>0, <2>1 DEF Types
    <3>2. QED
      BY <2>0, <2>1, <3>1 DEF Closed, IsOpen, Owner, In
  <2>2. ASSUME NEW c \in Client, cpc[c] = "asking", conns[sock[c]].toClient = <<>>
        PROVE  sock[c] = ssock \/ \E k \in 1 .. Len(backlog) : backlog[k] = sock[c]
    <3>1. sock[c] \in Conn /\ IsOpen(sock[c])
      BY <2>0, <2>2 DEF Socks, IsOpen
    <3>2. QED
      BY <2>0, <2>2, <3>1 DEF Served, Pending, Out
  <2>3. QED
    BY <2>1, <2>2 DEF NobodyReadsEOF
<1>2. QED
  BY <1>1, ServingCorrect, PTL

\* REQ_RESUME is never read by the Session that main called.
THEOREM ResumeCorrect == Spec => ResumeFindsSession
<1>1. Serving => [AccResume => depth > 0]_vars
  BY ServingAccResume
<1>2. QED
  BY <1>1, ServingCorrect, PTL DEF ResumeFindsSession

\* A client takes the reply to its own last request.
THEOREM AnswerCorrect == Spec => ReplyMatches
<1>1. Serving => [\A c \in Client : Answered(c) => answer'[c] = issued[c]]_vars
  BY ServingAnswered
<1>2. QED
  BY <1>1, ServingCorrect, PTL DEF ReplyMatches
=============================================================================
