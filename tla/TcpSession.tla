----------------------------- MODULE TcpSession -----------------------------
(***************************************************************************)
(* A debug server that several clients share over TCP: the server's main   *)
(* loop and Session (common/serv.c, servacc.c), the clients' requests      *)
(* (common/remote.c) and the sockets between them (tcp/c/tcplink.c).       *)
(*                                                                         *)
(* A client that suspends (the debugger, while its user is in a shell)     *)
(* leaves a suspended Session on the server's call stack, and an inner     *)
(* Session serves whoever connects next; the inner Session that receives   *)
(* REQ_RESUME returns, and the one below goes on with the client that has  *)
(* just resumed.  Sessions keep no state of their own, so of the stack     *)
(* only its depth matters.                                                 *)
(*                                                                         *)
(* connect() succeeds as soon as the listening socket has room, long       *)
(* before the server accepts.  A packet is one item of a connection        *)
(* (TcpLink shows that the framing keeps them apart).                      *)
(***************************************************************************)
EXTENDS Naturals, Sequences, FiniteSets

CONSTANTS
  Client,      \* debuggers and file transfer programs
  OldClient,   \* those whose version the server refuses
  Backlog,     \* connections that wait to be accepted, at most (listen)
  MaxReqs,     \* bound: a client that has made so many requests only leaves
  MaxConns     \* bound: after so many connections clients only resume

ASSUME ClientAssumption == IsFiniteSet(Client) /\ OldClient \subseteq Client
ASSUME BoundAssumption == Backlog \in Nat \ {0} /\ MaxReqs \in Nat /\ MaxConns \in Nat

VARIABLES
  cpc,         \* what a client does: not connected, connected and idle, waiting
               \* for a reply, in its shell, or killed there
  sock,        \* a client's data_socket: a connection, or None
  issued,      \* requests a client has made, over all its connections
  answer,      \* the request whose reply a client got last
  conns,       \* every connection ever made
  backlog,     \* connections not accepted yet
  spc,         \* the server: "connect" in RemoteConnect, "session" in Session
  ssock,       \* the server's data_socket
  depth,       \* suspended Sessions on the server's stack
  done         \* history: the last request of each client that was executed

client == <<cpc, sock, issued, answer>>
server == <<spc, ssock, depth, done>>
vars == <<client, conns, backlog, server>>

None == 0

Init ==
  /\ cpc = [c \in Client |-> "out"]
  /\ sock = [c \in Client |-> None]
  /\ issued = [c \in Client |-> 0]
  /\ answer = [c \in Client |-> 0]
  /\ conns = <<>> /\ backlog = <<>>
  /\ spc = "connect" /\ ssock = None /\ depth = 0
  /\ done = [c \in Client |-> 0]

(***************************************************************************)
(* Clients.  connect() and the first packet that follows it are one step:  *)
(* until the packet is there the server only waits for it.                 *)
(***************************************************************************)
Issue(c) == issued' = [issued EXCEPT ![c] = @ + 1]
Packet(c, op) == [op |-> op, no |-> issued[c] + 1]

Open(c, op) ==
  /\ Len(backlog) < Backlog
  /\ conns' = Append(conns, [owner |-> c, toServer |-> <<Packet(c, op)>>,
                             toClient |-> <<>>])
  /\ backlog' = Append(backlog, Len(conns) + 1)
  /\ sock' = [sock EXCEPT ![c] = Len(conns) + 1]
  /\ Issue(c)

Send(c, op) ==
  /\ conns' = [conns EXCEPT ![sock[c]].toServer = Append(@, Packet(c, op))]
  /\ Issue(c)

\* DoRequest without a reply, then RemoteDisco.
SendAndClose(c, op) == Send(c, op) /\ sock' = [sock EXCEPT ![c] = None]

Goto(c, l) == cpc' = [cpc EXCEPT ![c] = l]
Willing(c, l) == cpc[c] = l /\ issued[c] < MaxReqs

Connect(c) == /\ Willing(c, "out") /\ Len(conns) < MaxConns
              /\ Open(c, "CONNECT") /\ Goto(c, "asking")
              /\ UNCHANGED <<answer, server>>

Ask(c) == /\ Willing(c, "idle")
          /\ Send(c, "ASK") /\ Goto(c, "asking")
          /\ UNCHANGED <<sock, answer, backlog, server>>

\* A request without a reply: the server sees REQ_WANT_RETURN.
Tell(c) == /\ Willing(c, "idle")
           /\ Send(c, "TELL")
           /\ UNCHANGED <<cpc, sock, answer, backlog, server>>

\* The reply; a client whose CONNECT was refused closes.
Answered(c) ==
  /\ cpc[c] = "asking" /\ conns[sock[c]].toClient # <<>>
  /\ LET r == Head(conns[sock[c]].toClient)
     IN /\ answer' = [answer EXCEPT ![c] = r.no]
        /\ conns' = [conns EXCEPT ![sock[c]].toClient = Tail(@)]
        /\ \/ r.op = "REFUSED" /\ sock' = [sock EXCEPT ![c] = None] /\ Goto(c, "out")
           \/ r.op # "REFUSED" /\ UNCHANGED sock /\ Goto(c, "idle")
  /\ UNCHANGED <<issued, backlog, server>>

\* The user starts a shell.
Suspend(c) == /\ Willing(c, "idle")
              /\ SendAndClose(c, "SUSPEND") /\ Goto(c, "shell")
              /\ UNCHANGED <<answer, backlog, server>>

\* The user has left the shell: ReqRemoteResume tries until it is connected.
Resume(c) == /\ cpc[c] = "shell"
             /\ Open(c, "RESUME") /\ Goto(c, "idle")
             /\ UNCHANGED <<answer, server>>

\* The debugger of a user who is in the shell is killed: the Session that was
\* suspended for it stays on the server's stack.
Die(c) == /\ cpc[c] = "shell"
          /\ Goto(c, "dead")
          /\ UNCHANGED <<sock, issued, answer, conns, backlog, server>>

Disconnect(c) == /\ cpc[c] = "idle"
                 /\ SendAndClose(c, "DISCONNECT") /\ Goto(c, "out")
                 /\ UNCHANGED <<answer, backlog, server>>

(***************************************************************************)
(* The server                                                              *)
(***************************************************************************)
\* RemoteConnect, in main's loop or in the loop of a suspended Session.
Accept ==
  /\ spc = "connect" /\ backlog # <<>>
  /\ ssock' = Head(backlog)
  /\ backlog' = Tail(backlog)
  /\ spc' = "session"
  /\ UNCHANGED <<client, conns, depth, done>>

\* GetPacket returned the packet p of kind op: AccTrap executes it, and r goes
\* back to the client.
Handle(op, r) ==
  /\ spc = "session" /\ conns[ssock].toServer # <<>>
  /\ LET p == Head(conns[ssock].toServer)
     IN /\ p.op = op
        /\ done' = [done EXCEPT ![conns[ssock].owner] = p.no]
        /\ conns' = [conns EXCEPT ![ssock] =
             [owner |-> @.owner, toServer |-> Tail(@.toServer),
              toClient |-> @.toClient \o [i \in 1 .. Len(r) |-> [op |-> r[i], no |-> p.no]]]]
  /\ UNCHANGED <<client, backlog>>

\* Session goes on with the next packet.
Stay == UNCHANGED <<spc, ssock>>

\* RemoteDisco, then RemoteConnect in the loop that called Session.  (The
\* server's end of a connection is closed once ssock has moved on.)
Leave == spc' = "connect" /\ ssock' = None

Refused == conns[ssock].owner \in OldClient

AccConnect == /\ Handle("CONNECT", <<"CONNECT">>) /\ ~Refused
              /\ Stay /\ UNCHANGED depth

AccRefuse == /\ Handle("CONNECT", <<"REFUSED">>) /\ Refused
             /\ Leave /\ UNCHANGED depth

AccAsk == Handle("ASK", <<"ASK">>) /\ Stay /\ UNCHANGED depth

\* A request without a reply.
TellReplyMut == <<"TELL">>
TellReply == <<>>
AccTell == Handle("TELL", TellReply) /\ Stay /\ UNCHANGED depth

AccSuspend == Handle("SUSPEND", <<>>) /\ Leave /\ depth' = depth + 1

\* After DISCONNECT the loop of the suspended Session goes on, if there is one.
DisconnectedMut == IF depth > 0 THEN depth - 1 ELSE depth
Disconnected == depth
AccDisconnect == Handle("DISCONNECT", <<>>) /\ Leave /\ depth' = Disconnected

\* RESUME ends the inner Session, and the one below keeps the connection; main
\* closes it.
ResumedMut == depth
Resumed == depth - 1
AccResume ==
  /\ Handle("RESUME", <<>>)
  /\ \/ depth > 0 /\ Stay /\ depth' = Resumed
     \/ depth = 0 /\ Leave /\ UNCHANGED depth

Session == AccConnect \/ AccRefuse \/ AccAsk \/ AccTell \/ AccSuspend
           \/ AccDisconnect \/ AccResume

Next == \/ \E c \in Client : \/ Connect(c) \/ Ask(c) \/ Tell(c) \/ Answered(c)
                             \/ Suspend(c) \/ Resume(c) \/ Die(c) \/ Disconnect(c)
        \/ Accept \/ Session

Spec == Init /\ [][Next]_vars

(***************************************************************************)
(* Fairness.  The server's loops never stop; a client reads its reply;     *)
(* a user who may leave, or start a shell, again and again does so.        *)
(* Nobody has to connect, to ask or to come back from a shell.             *)
(***************************************************************************)
FairSpec ==
  /\ Spec
  /\ WF_vars(Accept) /\ WF_vars(Session)
  /\ \A c \in Client : WF_vars(Answered(c)) /\ SF_vars(Suspend(c) \/ Disconnect(c))
-----------------------------------------------------------------------------
Conn == 1 .. Len(conns)

\* The connections on which the server still has to read such a packet.  (No
\* client sends two SUSPENDs or two RESUMEs on one connection.)
Unread(op) == {k \in Conn : \E i \in 1 .. Len(conns[k].toServer) :
                              conns[k].toServer[i].op = op}

\* Types; every data_socket is a connection, and the server's is no longer in
\* the backlog.
TypeOK ==
  /\ cpc \in [Client -> {"out", "idle", "asking", "shell", "dead"}]
  /\ \A c \in Client : /\ sock[c] \in Conn \cup {None}
                        /\ sock[c] = None <=> cpc[c] \in {"out", "shell", "dead"}
                        /\ sock[c] # None => conns[sock[c]].owner = c
  /\ issued \in [Client -> 0 .. MaxReqs + 3] /\ answer \in [Client -> 0 .. MaxReqs + 3]
  /\ \A k \in 1 .. Len(backlog) : backlog[k] \in Conn /\ backlog[k] # ssock
  /\ spc \in {"connect", "session"} /\ (spc = "session" <=> ssock # None)
  /\ ssock \in Conn \cup {None}
  /\ depth \in 0 .. Cardinality(Client)
  /\ done \in [Client -> 0 .. MaxReqs + 3]

\* The stack holds one Session for each client that has suspended, however the
\* clients' shells nest, whoever resumes first and whoever never does.
DepthBalanced ==
  depth + Cardinality(Unread("SUSPEND"))
    = Cardinality({c \in Client : cpc[c] \in {"shell", "dead"}}) + Cardinality(Unread("RESUME"))

\* A client that resumes finds a suspended Session, never main.
ResumeFindsSession == [][AccResume => depth > 0]_vars

\* Nobody waits for data on a connection that the other end has closed:
\* recvData would never return.
NobodyReadsEOF ==
  /\ spc = "session" /\ conns[ssock].toServer = <<>> => sock[conns[ssock].owner] = ssock
  /\ \A c \in Client :
       cpc[c] = "asking" /\ conns[sock[c]].toClient = <<>> =>
         sock[c] = ssock \/ \E k \in 1 .. Len(backlog) : backlog[k] = sock[c]

\* The reply a client takes is the reply to the request it waits for.
ReplyMatches == [][\A c \in Client : Answered(c) => answer'[c] = issued[c]]_vars

\* Every request is executed, also those made while other clients had the
\* server and those of clients that were killed in their shell since: it catches
\* up with every client (the bound makes each of them pause).
EveryRequestExecuted == \A c \in Client : []<>(done[c] = issued[c])
=============================================================================
