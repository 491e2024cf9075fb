# The remote debugging link of Open Watcom: models and proofs

Open Watcom is a compiler suite; its debugger (`bld/wv`) can debug a program on
another machine. The client (the "trap file" inside the debugger) and the debug
server talk through one of several *links* - serial line, parallel port, named
pipes, TCP, NetBIOS, DOS boxes - all behind the seven functions that
`bld/wv/doc/link.doc` describes. This is the part of the repository whose
correctness hangs on interleavings, lost messages, timeouts and retries, and
hardly at all on data; it is the part these modules model. The compilers,
linker, libraries and tools around it are sequential programs over large data
and are left out (see the last section).

## Inventory

| Component | State | Operations | Interacts with |
|---|---|---|---|
| Serial protocol `ser/c/serlink.c` | block counters, last response, error counts, baud index | RemoteConnect, RemotePut, RemoteGet, ReSync, RemoteDisco | the serial ports by bytes; its peer by tokens |
| Serial ports `ser/c/ser*.c` | receive buffer, on OS/2 a reader thread with a ring buffer and a semaphore | GetByte, WaitByte, SendByte, ClearCom, Baud | driver and timer |
| Parallel link `par/c/parlink.c`, `parproc.c` | handshake lines, cable type | RemoteGet, RemotePut, DataConnect, LineTest | its peer by wires both drive |
| TCP link `tcp/c/tcplink.c` | listening and data socket | RemoteConnect, RemoteGet, RemotePut, RemoteDisco | sockets |
| Named pipes `nmp/c/nmplink.c`, binder `nmp/c/nmpbind.c` | list of links; per link two ends with flags and pipe handles; a thread per end and per direction | open, connect, end of connect, disconnect, join | pipes, three processes, shared flags between threads |
| DOS box link `vdm/c/vdmlink.c` | one pipe | connect by polling, drain before disconnect | pipe |
| NetBIOS link `net/c/netlink.c`, NetWare `nov/c` | one control block shared by all calls | listen, call, send, receive, hangup | network driver |
| Client request layer `common/remote.c`, `packet.c` | the packet buffer | DoRequest, connect, disconnect, suspend, resume | a link; the debugger |
| Server session `common/servacc.c`, `serv.c` | packet buffer, a stack of suspended sessions | Session, AccTrap, AccConnect | a link; the local trap |
| Local traps `lcl/*` | the debuggee, breakpoints, watchpoints | REQ_PROG_GO and the other requests | the operating system's debug interface |

What is hard, and what makes each part correct:

* **Serial protocol.** Acknowledgements have no number, both ends time out and
  ask for a repetition, either may become the sender, and ReSync is decided
  separately at both ends. Correct means: every packet is delivered once,
  unchanged and in order; RemotePut returns only when the peer has the packet;
  a reply belongs to its request; every request comes back.
* **OS/2 serial port.** A reader thread and WaitByte share a ring buffer and an
  event semaphore without a lock. Correct means: bytes come out in order, none is
  made up, and WaitByte does not report silence while a byte is waiting.
* **Parallel link.** Both machines drive the same wires and swap direction after
  every byte. Correct means: a byte channel, with a turn-around in which neither
  end mistakes its own old data for a handshake.
* **Pipe binder.** Threads test and set the flags of both ends without a lock and
  free the link they share. Correct means: no link used after it was freed, at
  most one pair of join threads, no message left in a dead pipe.
* **Session.** Suspension keeps a session on the server's call stack while other
  clients use the link. Correct means: exclusion of clients, and every suspended
  session gets its resumption.
* **Parallel connection.** Two machines that know nothing of each other count
  pulses by polling and give up by their own clocks. Correct means: a client that
  believes in a connection has a server in that same connection, no broken cable
  gets through, and a fresh server answers.
* **Baud negotiation.** Only the clocks tell an end that its peer has given up on
  a rate. Correct means: no test overruns the time both have set aside for it, and
  the ends settle on the same rate.
* **TCP link.** Packets are framed on a byte stream that may split them anywhere.
  Correct means: the abstract channel, and a server that notices the end of it.

## Modules

| Module | Models | Extends / instantiates | Theorems in |
|---|---|---|---|
| `TrapChannel` | the abstract link of `link.doc`: two directions, each hands out what was put, once and in order | | |
| `SerLink` | `serlink.c` at both ends, the client's `DoRequest` and the server's `Session` on top of it, the line between them | instantiates `TrapChannel` | `SerLinkProofs` |
| `BytePort` | the abstract serial port of `serial.h`: a first-in first-out buffer | | |
| `SerReader` | the OS/2 port, `seros2.c`: reader thread, ring, semaphore, `WaitByte` | instantiates `BytePort` | `SerReaderProofs` |
| `ParLink` | the parallel link in a session: `DataGetByte`, `DataPutByte`, `DataGet` and `DataPut` of `parproc.c`, over three cables | instantiates `TrapChannel` | `ParLinkProofs` |
| `ParConnect` | how the ends of the parallel link find each other: `Twidle`, `CountTwidle`, `Synch`, `LineTest`, `DataConnect`, `DataDisconnect` of `parproc.c` | | `ParConnectProofs` |
| `SerBaud` | how the ends of the serial link settle on a rate: `Speed` of `serlink.c` with all it calls; one ReSync of `SerLink` | | `SerBaudProofs` |
| `PipeBinder` | the threads of the named pipe binder, `nmpbind.c`, with the server and its clients, `nmplink.c` | | `PipeBinderProofs` |
| `TcpLink` | packets on a byte stream, `RemotePut` and `RemoteGet` of `tcplink.c` | instantiates `TrapChannel` | `TcpLinkProofs` |
| `TcpSession` | several clients of one server: `RemoteConnect` and `RemoteDisco` of `tcplink.c`, the recursion of `Session`, connect / suspend / resume / disconnect of `remote.c`; clients that are killed in their shells | | `TcpSessionProofs` |

The constants are given in the `.cfg` files, one for each question; a passing run
is listed in `PROJECT.json` with the properties its `.cfg` names, and each of
those with a mutant: the operator ending in `Mut` next to a definition is a
plausible bug of that code, with which the property no longer holds.

### SerLink

`chan[e]` is what is under way to end `e` or in its receive buffer; a token is
one control byte (`SDATA_ACK`, `SDATA_NAK`, `SDATA_RLR`), a whole block, a block
that arrives short or fails its CRC (`BAD`), or bytes that mean nothing (`JUNK`).
`sendNo`, `recvNo`, `errors`, `prevErrors`, `lastResp` are the file's statics.
`pc` says where an end is: in its program (`app`), in `BlockSend`'s wait for a
response (`ackwait`) or in its wait for silence (`drain`), in `WaitReceive`
(`recv`), or in `ReSync` after a put or a get.

* `StartPut` is the beginning of `BlockSend` with its `ClearCom`; `RecvAck`,
  `RecvNak`, `RecvRlr`, `RecvOther` are the cases of its switch, `Timeout` and
  `DrainEnds` the two places that send RLR, `PutFails` its ten second limit.
* `StartGet`, `Accept`, `Repeated`, `Damaged`, `AnswerRlr`, `Ignore` are
  `WaitReceive` with `BlockReceive`. A block and the response to it are one step:
  the receiver does nothing in between that its peer could see.
* `ReSync` is taken as a single step of both ends (`ResyncBoth`). An end that is
  alone in it discards what it reads (`ResyncDrop`), the client's greeting still
  goes out (`ResyncHi`), and a lost greeting lets one end leave (`ResyncHalf`).
* `Cleared`: some ports drop received bytes in `ClearCom` (`serlnx.c:79`), some do
  not (`sernt.c:238`; the ring of `seros2.c`), and bytes may be under way: any
  suffix may remain, perhaps without the start of a block.
* `app`, `AfterPut`, `AfterGet`, `AfterFail` are the callers: the client puts a
  request and, unless the request wants no reply, gets one; the server executes
  what it got and puts the reply. What a request does is not modelled; a reply
  carries the number of the request that the server executed last, since
  `Session` builds it from `PackBuff`.
* Not reachable, so not modelled: a block longer than the buffer
  (`serlink.c:514`), since both programs pass a buffer of the greatest packet
  size. A junk byte that happens to equal a control byte is not modelled either:
  the serial fault model is loss and damage, never forgery.

`Prompt` is the timing assumption. Without it a wait of a second may end at any
moment while the line is silent at that end. With it a wait ends only when nothing is on
its way in either direction and the peer is not about to answer; a peer that
discards until 750 ms of silence asks before that. `GiveUp` allows the
ten second limit, which needs more unanswered one second waits than MAX_ERRORS.

### SerReader

One step per access to a shared variable. `rpc` walks through `Reader`
(read a byte from the driver, compute the new index and test it, store, publish,
post), `wpc` through `WaitByte`. `eventSem` is chosen initially: the 32-bit
build resets an event before it takes a byte, the 16-bit build sets a RAM
semaphore before it waits. `Preempt = FALSE` is the uniprocessor that OS/2 was:
both threads have the same time-critical priority, and `Reader` runs its few
instructions from one `DosRead` to the next. `Preempt = TRUE` is a multiprocessor,
or the end of a time slice. `Split` says whether the compiler stores
`ReadBuffRemove` between its increment and its mask.

`BytePort` has a variable `deaf`: the 16-bit `DosSemSetWait` forgets a signal
given just before it, so that `WaitByte` may time out beside a byte. The protocol
above treats that like any late byte, and asks for a repetition; so it is part of
the abstract port and not called an error. With `Split` and no preemption of
`Reader`, a full ring can be overwritten: `Reader` compares its index with one
that stands outside the ring. The theorems therefore assume
`Single == ~Preempt /\ ~Split`.

### ParLink

`port` and `ctl1` are what the two ends have written to the data port and to
control line 1; `Ctl1Hi`, `Ctl2Hi` and `ReadData` are what an end reads of the other's
(on the Watcom cable control line 1 is one wire that both drive). Each outp and
each inp is a step: `PeerReady`, `Write`, `RaiseCtl1`, `PeerTook`, `LowerCtl1`
are `DataPutByte`, and `RaiseCtl2`, `DataThere`, `Read`, `LowerCtl2`, `PeerHeard`
`DataGetByte`. `cable` is chosen initially, so that one run covers the three cables
between two PCs; the switch statements differ only in the size of a unit and in
which port carries control line 1. A byte read by two inp calls is one `Read`,
which `DataHeld` justifies: the peer does not change its port meanwhile. There are
no timeouts in a session (`RELINQUISH`, `KEEP`). The model starts where the line
test has ended, with its last byte still on the wires of the server.

### ParConnect

`line[e]` is what end `e` shows its peer: a pulse (`on`) or the pause after it
(`off`), "ready to read" (`ready`), a byte (`data`), or both control lines down
(`low`); on the LapLink cable all that is one port, and on the others the steps
are the same. `count`, `on` and `known` are `twidle_count`, `twidle_on` and whether
`cable_type` is set; `timer` counts down to the limit of the present wait, and `Tick` is the
clock of both machines. `TwidleOn` and `TwidleOff` are `CountTwidle`, called once per
turn of the server's main loop and in the client's `Twidle`; `NextHalf`,
`TwidleEnds`, `SynchSeen`, `SynchFails` are the rest of `DataConnect`; `PeerReady` to
`PeerHeard` are `LineTest` with the byte steps of `ParLink`, shortened to what an
end can see of the other; `TimesOut` is TWIDDLE_THUMBS. `Fails` shows what a
failed attempt leaves behind: the lines as they are, and the server's count.
`Link`, `Connect` and `Abort` are the user: a debugger is started, connects or, in
`ReqRemoteResume`, tries again, and may be killed anywhere.

`prompt` is chosen initially: when it is true both ends poll between two ticks.
`dead` is a data line that one end reads as zero, or none.

### SerBaud

Time is in ticks of a clock; `zero[e]` is when end `e` called
`ResetTimerTicks`, `sp[e]` and `next[e]` are `sync_point` of this rate and of the
next. `chan[e]` holds symbols with the rate they were sent at: at another rate they
read as `JUNK`, and at a rate outside `clean`, chosen initially as the rates from
some one down, any symbol may. `SendLok`, `MarchRead` and
`StartSpeed` are `MarchToTheSameDrummer`, `AtSync`, `SendHi` and `HiRead` the
beginning of `SetBaud`, `HandshakeRead` to `LastRead` `SetBaudSender`,
`ReceiverRead` to `AckRead` `SetBaudReceiver`, `GivesUp` the limit of every wait. The
256 bytes of the sync string are one symbol that takes their time. A symbol
arrives within a tick, and a program reads what is there before the clock
ticks; a byte that is lost is a garbled one. The server sends its first byte
before the client has waited two seconds.

### PipeBinder

`link` is the link in the list (there is one name), `present`, `started`,
`connected` are the flags of its two sides; `thr` the binder's threads, each with
the number of the link it was started for (`gen`). `rd[x]`, `wr[x]` are side `x`'s
data pipes and `rdBuf`, `wrBuf` the messages in them; a message carries
the number of its connection. A step of a thread reaches from one access of a
flag, or one call that may block, to the next: `EndConnect` sets a flag and
`StartJoin` tests the other, `Gone`, `CloseConn` and `FreeLink` are the end of a
`ConnectThread`. `OpenServ` and `OpenTrap` are the requests of the binder's main
thread; the actions after "nmplink.c" are the two programs, of which a user may
kill either (`Kill`): the system closes its pipes.

`Preempt = FALSE` is one processor on which no time slice ends between two such
accesses, and on which a join thread, once it has raised its priority, runs
first. `Prompt = TRUE` says that a program that is not waiting is done before a
`DosSleep` of 100 ms ends; `Tick` ends the sleeps.

### TcpLink

`wire[e]` is the byte stream towards end `e`; `RemotePut` sends a 16-bit length
and the data in two calls (`SendLen`, `SendData`), `recvData` takes any part of
what is there (`Recv`) until `need` is zero. The sockets block, as the code opens
them, so `send` takes everything. The channel of `TcpSession` has packets as its
items; that is what `Implements` justifies.

### TcpSession

`conns` is every connection ever made with the packets that were not read yet,
`backlog` the listening socket's queue, `depth` the number of `Session`
activations that wait for their client to resume. A `Session` has no local state that
survives a call, so a depth is the whole stack. The actions of a client are
the functions of `remote.c` (`Connect`, `Ask`, `Tell`, `Suspend`, `Resume`,
`Disconnect`, and `Answered` for the reply); those of the server are
`RemoteConnect` (`Accept`) and the cases of `Session`'s switch (`Acc...`), each
with the `RemoteDisco` and the return that follow it. `OldClient` are the clients
whose version `AccConnect` refuses; such a client closes when it has read the
refusal. `connect()` and the first packet are one step, because a server that
has accepted only waits for that packet. `Die` kills a client in its shell: its
`Session` stays on the server's stack for good, and the others go on. A client
that is killed in the middle of a session is not in the model: the server then
executes its last request again and again (`servacc.c:113`) or waits in `recvData`
for ever, and every statement about what follows would be about that.

## What each run shows

| Run | Question | Answer |
|---|---|---|
| `serial_safe` | Is every packet delivered once and in order, and does a reply belong to its request, with two faults and whatever the timing? | yes: the inductive `IndInv` (and with it `DeliveredPrefix`), `ReplyMatches`, and `Implements` |
| `serial_prompt` | On a prompt line, with one fault and wrapping numbers, does `RemotePut` return only after delivery, and does every request return? | yes, except when the ends part over a ReSync (see below) |
| `serial_giveup` | When `RemotePut` gives up, does the server still execute nothing twice or out of order? | yes |
| `serial_wide` | Counters of 32 bits against numbers of 16 | no: after the wrap every block is acknowledged as a repetition and dropped |
| `reader_port` | Is the ring of `seros2.c` a first-in first-out port on one processor? | yes, in both builds |
| `par_cables` | Do packets survive the turn of direction on each parallel cable, although an end may take old data for "ready to read"? | yes: a byte is read once and while it is held, at most one end puts, every request comes back |
| `par_connect` | Two ends find each other by pulses, on machines of any speed, over a cable that may have a dead line, with clients that fail, resume or are killed: who believes to be connected? | the client only when the server is in the session of that attempt; the server alone only when its client was killed or a machine polls slower than the clock; nobody over a dead line; a client that calls a fresh server is connected |
| `tcp_frames` | Do packets survive however `recv` cuts the stream? | yes, and all arrive |
| `tcp_share` | Do three clients that connect, suspend, resume, leave and are killed in their shells in any order leave the server's stack right? | yes: `DepthBalanced`, `ResumeFindsSession`; nobody reads from a closed connection, every request is executed |
| `pipe_bind` | A server started twice, three connections, two clients or servers killed: do the unlocked flags of the binder hold? | on one processor yes: `NoUseAfterFree`, `OnePair`, `Isolation`; nobody loses its peer unless somebody is killed |
| `pipe_reconnect` | After a disconnect, can the next debugger connect? | not always: one that is faster than the server's own disconnect is acknowledged and then waits for pipes that nobody makes |
| `serial_baud` | Do two ends that walk down the table of rates by their own clocks settle on one? | yes at a clean slowest rate, unless a lost greeting parts them; no test overruns the next sync point; the server takes no rate that the client has not, the client none alone at a rate that garbles nothing |

`RequestsComplete` excludes one outcome on purpose, and states it
(`LoneResync`): when errors have passed MAX_ERRORS and the one ACK that would
bring both ends into `ReSync` is lost, an end stays in `SetSyncTime` and discards
everything, for ever. `ClientNotAlone` says which end: with one fault never the
client. Even without any fault, `PutDelivered` needs `Prompt`: a late ACK
crosses an RLR, and the second ACK answers the next block.

### Observed with other constants or properties

TLC finds these in the same modules; there is no run for each of them in the list.

* `SerLink` with `Prompt = TRUE` and `MaxFaults = 2`: `PutDelivered` fails. When the ACK
  of a request and the first copy of its reply are both lost, the server answers the
  client's RLR with the ACK it last gave, and takes the client's ACK of the
  previous reply for its own: an ACK carries no number.
* `SerLink` with `GiveUp = TRUE`: `ReplyMatches` fails. `RemotePut` that gives up
  leaves `SendBlkNo` as it was, the next request is taken for a repetition, and
  the reply to the earlier one for its own.
* `SerReader` with `Preempt = TRUE`: `InOrder` fails. A post that is left over lets
  `WaitByte` return a byte nobody sent.
* `TcpSession`: a second client's `RemoteConnect` succeeds at once, since the listening
  socket takes it, where `link.doc:51` has it fail.
* `ParConnect`, `ServerHears`: a server whose attempt failed in `LineTest` does not
  answer the next client. `twidle_count` has gone past TWIDLE_NUM, is compared for
  equality only, and is cleared only for a different cable or by `DataReset`, which
  a failed `RemoteConnect` does not call; the server answers again when the count has
  wrapped. `FreshServerAnswers` excludes that with `spoilt`.
* `PipeBinder` with `Preempt = TRUE`: `OnePair` and `NoUseAfterFree` fail. Two
  `ConnectThread`s that set their own flag and then test the other's start two
  pairs, or free the link twice. With `Prompt = FALSE` `NoneLost` fails, and a
  join thread that gets no time outlives the link.

### Bounds, and why they are enough

* `SerLink`: three packets per end (six where numbers wrap modulo 3), of which
  one is a request without a reply; two faults, or one; at most three tokens on
  the way to an end that is being asked. The block protocol
  only relates a block to the one before and after it, so a third packet is as
  far as a stale token can reach in these runs; the theorems remove the bounds.
  `MaxErrors` stands at the code's 2. `WireMod` is 16 where numbers should not
  wrap and 3 where they should.
* `SerReader`: four slots and twelve bytes are three rounds of the ring, and the
  ring fills and overflows; the theorems hold for every size.
* `ParLink`: a nibble of two values keeps what matters of a byte: the bit that is
  control line 2, set or clear, and lengths on both sides of 0x80 (here 2), so that both forms
  of the header occur. Two requests of the client, with a reply, or without and
  followed at once by the next.
* `ParConnect`: two data lines and the byte 255 make three steps of `LineTest`,
  one more than it takes for an old byte to be followed by another; five pulses are
  one more than both ends need to count TWIDLE_NUM, which stands at the code's 2, one
  after the other; the count wraps at 8, and the limits of ten and five ticks are to a
  `Twidle` of ten what the code's 40 and 20 are to its 40. Three attempts:
  one that fails, one that is spoilt by it, and one more; one killed client.
* `SerBaud`: all waits are the code's, in ticks. Four rates in place of eight: a greeting
  that is lost at one rate shifts the sync points of all that follow, and three
  are left to show it. `StrUnit = 2`: the string takes two to eight ticks, which
  orders rates, byte waits and timeouts as the table does.
* `PipeBinder`: two starts of the server, since a freed link matters only to the next;
  three connections, so that what one leaves behind can meet the next but one; two
  requests in each, two kills. `NumThreads = 8` never holds anything up: there are two
  `ConnectThread`s, those of a link that ends, and two pairs of join threads.
* `TcpLink`: bytes of two values and packets of up to three bytes make a length
  that needs both bytes of the header; three packets let a `recv` return parts of
  two. The directions share no variable, so one talks.
* `TcpSession`: three clients, one refused, three connections besides those of
  resuming, four requests each besides leaving: two clients can be suspended at
  once while a third is served. `Backlog = 5` is the argument of `listen`, more
  than the clients there are.

### Fairness

`SerLink`: each end's polling loop goes on (weak fairness of `Sending`, of
`Receiving` and of the call of `RemoteGet`), the server answers the request it
has executed, and two ends in `ReSync` finish it. A new request is the user's
choice and faults are never owed. `ParLink`: both ends poll, and the server
replies. `TcpLink`: `RemotePut` finishes what it has
begun and `recv` returns what is there. `ParConnect`: both ends poll and their clocks
tick. `PipeBinder`: every thread of the binder gets its turn, the server goes on, a
client finishes what it has begun, and sleeps end; to connect, to ask and to leave is the
user's choice. `SerBaud` states none: its properties are invariants. `TcpSession`: the server's loops go on,
a client reads its reply, and, strongly fair, a debugger whose user keeps
getting the chance to leave or to start a shell does one of them some day:
without that the others wait for ever, and the code has no remedy. Each client
stops at its bound of requests, so `EveryRequestExecuted` says that the server
catches up with a client that pauses.

`CHECK_DEADLOCK FALSE` stands where the system may stop: the user makes no
further request (`SerLink`, `ParLink`), nobody puts (`TcpLink`) or connects (`TcpSession`,
`ParConnect`, `PipeBinder`). `SerReader` and `SerBaud` are checked for deadlock; in
`SerBaud` it is the statement that both calls of `Speed` return.

## What is proved

For every value of the constants, checked by TLAPS:

* `SerLinkProofs!TypeCorrect`: `Spec => []TypeOK`, with no assumption beyond the
  module's. The types need `HasPacket`: a block that is sent again
  exists, and the server has a request when it replies.
* `SerLinkProofs!Delivered`: `Spec => []DeliveredPrefix`, for any number of faults
  and requests, any timing and any MAX_ERRORS, as long as block numbers do not
  wrap and `RemotePut` does not give up (`WithinLimits`; the invariant does not hold
  without the second condition, since a number is then used for two packets). `DeliveredPrefix` is not inductive: nothing in it says
  what is under way. `IndInv` adds `Counters` (the block counters number the
  packets of `sent` and `got`) and `HonestChan` (a block under way is the packet
  of its number). `AcceptsNext` then gives the heart of it: a block
  whose number is `recvNo` is the next packet. The lemma `CountersNext`,
  `HonestNext`, `PrefixNext` each take one conjunct through every action.
* `SerLinkProofs!LinkImplementsChannel`: `Spec => Implements`; only `StartPut` and
  `Accept` change `sent` or `got`, and `IndInv` shows that they are `Put` and `Deliver`.
* `SerLinkProofs!IndCorrect`: the invariant itself, which the run `serial_safe`
  checks too.
* `SerLinkProofs!ReplyCorrect`: `Spec => []ReplyMatches` under `WithinLimits`.
  `ReplyMatches` speaks of the newest reply only and is true because of all the
  earlier ones. `Dialogue` says so: requests are numbered from 1
  (`RequestNumbers`), the server replies to distinct requests in their order
  (`RepliesInOrder`, `ReplyOwed`), the client asks nothing before it has the
  reply to its last request (`AllAnswered`), and what it got last is that reply
  (`NewestReply`).
* `SerLinkProofs!OrderCorrect`: `Spec => []AtMostOnceInOrder` under `NumbersFit`
  alone, so also when `RemotePut` gives up and `WithinLimits` is false. A number is then
  used for two packets, and `IndInv` does not hold; `Order` keeps what is left of it:
  later requests have no lower numbers (`NumbersFollow`), blocks are under way in the
  order of their requests (`BlocksInOrder`), and whatever the server may still
  accept is later than all it has executed (`NextIsNew`).
* `SerLinkProofs!PutDeliveredCorrect`, `ClientNotAloneCorrect`, `DeliveredOnWrap`:
  `Spec => []PutDelivered` and `Spec => []ClientNotAlone` under `Civil` (a prompt line that fails at most once, and no
  `GiveUp`) and `Narrow \/ NumbersFit`: the counter is no wider than its two bytes on the
  wire, and may then wrap as often as it likes, or it never gets beyond them. Under
  `Narrow` also `Spec => []DeliveredPrefix`: no wrap mixes up the packets. An ACK
  carries no number, so what makes it safe to believe is the phase of the whole
  conversation. `Course` lists the phases, each with what may be on the line and which
  packet is owed: `Turn`, `Offered` (the block is not got), `Taken` and `Prepared` (it is, and
  the sender does not know), `Crossed` (the answer is put before the ACK of the request is
  read), `Joined` and `Resyncs` (into `ReSync`), and `Parted`. One lemma for each phase says
  which phases a step leads to. What is on the line beyond the regular exchange
  is there only when the one fault is spent; that is why a second fault breaks it.
* `SerReaderProofs!TypeCorrect`, `Consistent`, `BytesInOrder`, `NoLostWakeUp`: types
  for every interleaving; under `Single` the invariant `IndInv` of ring, bytes in
  hand and semaphore, and from it that `WaitByte` returns bytes in order and that
  the 32-bit build reports silence only for an empty ring. `Sorted` orders the
  ring by distance from the oldest byte; `Signalled` says that a semaphore that would
  wake `WaitByte`, and a `WaitByte` past its test, find a byte, and that a
  waiter beside a byte will be woken. Both are needed: without `Signalled` the
  step `Load` could read a dead slot.
* `SerReaderProofs!PortCorrect`: under `Single`, `Spec => IsPort`, the refinement of
  `BytePort`. The ring is read as a sequence (`Place` is its k-th oldest slot), and
  each step of the two threads appends to it, takes its head, returns, or stutters;
  `CallInv` adds that the byte `WaitByte` has loaded is the one it is about to remove.
* `TcpSessionProofs!ServingCorrect` and the five theorems from it: types,
  `DepthBalanced`, `NobodyReadsEOF`, `ResumeFindsSession`, `ReplyMatches`, for any
  finite set of clients and any nesting of shells. `Serving` has two parts. `Shape`
  says what each connection holds, unread, for the place its client is in, and
  which connections the backlog and the server have; `Balance` that the server's
  depth is what the requests it has read, taken together with those it will read, leave
  it at. The properties hold neither without the unread requests nor
  without the connections that only wait in the backlog.
* `ParLinkProofs!HandshakeCorrect`, and from it `ParTypeCorrect`, `DataHeldCorrect`,
  `OneWriterCorrect` and `ParLinkImplementsChannel` (`Spec => Implements`), for every cable, every
  packet and every size of a nibble. What a handshake line means depends on
  where the other end is, so `IndInv` names the pairs of places the ends can be in:
  nothing under way (`Idle`), a packet in transfer (`Transfer`), the writer done while
  the reader has yet to see its control line go down (`Turned`), or the client already at its next
  request by then (`Ahead`). What
  the reader has and what is to come make the frame of the packet (`UnderWay`).
* `ParConnectProofs!ConnectCorrect`, and from it `ConnectTypeCorrect`,
  `ClientKnowsCorrect`, `LinesWorkCorrect`, for any number of lines above one and machines of
  any speed. `IndInv` says what an end shows in each step of `LineTest`
  (`Shown`), that what was read or tested came over lines that work
  (`Working`), and that a client that has read the last byte has its
  server there or one that gave up (`Told => Holds`). With one data line the first
  test byte would be DONE_LINE_TEST itself; the code has eight.
* `ParConnectProofs!ServerNotAloneCorrect`: an end that has sent its last byte to an end
  that polled as fast is not alone. It is a matter of time, and `NotAlone` says how
  the time goes by: once the server has an echo the client counts no more pulses
  (`Quiet`), its wait for a byte that the server is sending has not run out (`InTime`),
  and from the last byte on one of the ends is always `Busy`, so that no tick
  passes before the client has read the answer or was killed (`Together`).
* `SerBaudProofs!BaudTypeCorrect` and `ServerKnowsCorrect`, for any table of rates, any
  limits of the waits and whatever the line garbles. What the server hears may be
  of an earlier string or rate, so `TakInv` counts: until the client has
  taken a rate there is at most one TAK of it, under way or heard by a server that waits
  for the second (`Took`), and there is none before the client has found
  the server's string right (`Said`).
* `SerBaudProofs!OnTimeCorrect` needs `SerBaudRoom` too, two inequalities between the
  waits in `SerBaud` that the macros of `serial.h` satisfy with one tick and two to spare. `Due`
  bounds every wait by the time since the sync point. For that an answer must not come at
  the end of the wait for it: the server waits `SYNC_TIME_OUT_MS` three times, and there is room
  for two. `Echo` says that it does not: an answer
  that an end still waits for, or the byte that its peer will answer, is a tick or two
  old at most, because no program lets a byte lie for longer. It rests on what the
  ends know of each other: who hears HI at a rate has a peer that has come there
  (`Met`), who hears ACK as a server has one that has sent its string (`Heeded`), and
  neither begins to listen while the other waits (the lemma `Listening`). TLC checked all of
  this invariant on the run `serial_baud` before it was proved.
* `SerBaudProofs!TakenByBothCorrect`: at a rate that garbles nothing the client's last TAK
  is read by a server that still waits for it. `AloneInv` follows the end of the
  exchange: a client that has said TAK and waits for ACK hears no ACK but the one the server
  answers with (one behind the server's string answers nothing earlier), so the server stands
  in the wait of half a second with nothing else to read (`Awaiting`), and the client's
  last TAK is the one thing that is under way to it (`Known`). A byte is read within a tick:
  it comes in time when half a second is three ticks, as `SerBaudAnswers` says.
* `SerBaudProofs!SettlesCorrect`: when both calls of `Speed` have returned, the slowest rate
  garbles nothing and no greeting has parted the ends, the client has settled on a rate. The
  invariant is `PaceInv`: while no greeting parts them (`Live`), the ends are still in
  `MarchToTheSameDrummer` (`Marching`, which says what is under way and how old it is) or walk
  the table (`Walks`) with clocks a tick apart at most and the same sync points (`Abreast`), one
  of them waiting at the next rate if not both at the same (`Leads`). `Ending` is about the
  slowest rate: an end that comes there first has heard nothing when the other comes, for an end
  is silent at a rate well before the greeting at the next (the lemma `Silence`, which needs
  `SerBaudSilence`); from there on the ends are at a stage of one exchange (`Talk`: the greetings, the
  test of the line one way, the turn, the test the other way) that leaves only the next
  step possible, because the answer is there before the wait for it ends. That needs
  `SerBaudAnswers`: every wait is a few ticks longer than an answer takes. The macros of
  `serial.h` satisfy both. `GreetInv` records that an end which tests the line has been greeted,
  so that whether a greeting was heard one way only is known when the rate is left.
* `PipeBinderProofs!PipeTypeCorrect`, `OnePairCorrect`, `IsolationCorrect` under
  `~Preempt`, for any number of threads, links, connections and kills, whatever the timing.
  `IndInv` relates the threads, the two programs, the flags and the pipes: which
  thread stands between two accesses of a flag (`Turns`), what a program waits for and the
  state of its pipe for requests (`AllAsk`), one `ConnectThread` for a side (`AllServe`),
  the pipes for data (`AllPipes`), at most one join thread for a direction (`Single`),
  where messages can be (`Stored`) and to which connection they belong (`Tagged`).
* `PipeBinderProofs!NoUseAfterFreeCorrect` needs `Prompt` too: `Used` says that a join thread
  belongs to the link there is, and that one which has yet to look at the flags was
  started by a `ConnectThread` that still sleeps.
* `PipeBinderProofs!NoneLostCorrect`, under the same two conditions: as long as nobody is
  killed no program finds its pipe closed in the middle of a session. `Calm` is what holds
  until the first kill. The request that ends a connection is the last (`ByeLast`);
  `Hosting` and `Live` say that the server and the debugger are in a connection, and while
  either is, threads copy only when both are and none is about to close a pipe (`Marks`,
  `Whole`). A debugger that is granted a connection while a join thread of the last one still
  has a pipe gets nowhere (`Stuck`, the subject of `PipeBinder_reconnect`), but is not lost.
  The rest is a count of sleeps (`Timely`): the server's `ConnectThread` needs fewer until it
  has read END_CONNECT (`Ready`) than the debugger's until the debugger may hang up (`Left`),
  which is one more than without the sleep before the answer to DISCO_TRAP; and while there
  is no connection, fewer than until the next one is granted (`Away`). Once `Ready` is 0 the
  next tick finds the last request with the server (the lemma `Heard`), because whoever could
  still carry it would not be asleep.
* `TcpLinkProofs!FramesCorrect`, `TcpTypesCorrect`, `TcpLinkImplementsChannel`: packets of
  every size survive however `recv` cuts the stream, as long as `unsigned_16` can hold their
  length (`LengthFits`, which the buffers of both programs justify). The bytes read
  of the current packet, those under way and those not yet sent are one stream, and
  `Split` says that it is cut into frames: there are positions, one for each packet that was
  put and not got, at which its frame ends. To send moves a byte within the stream, to
  receive drops the first frame; no induction over the data is needed.

The assumptions are ones the code relies on, and each of these is needed: `serial_wide`
and `GiveUp = TRUE` show what happens without `NumbersFit` and `WithinLimits`, the observations
listed earlier what happens without `Single`, `~Preempt` and `Prompt`.

Only model-checked:

* all liveness, which is out of the prover's reach: it would need ENABLED;
* the two runs that show a violation.

## What is not modelled, and the plan

Every link of its own protocol is modelled, and every safety property that a passing run
checks is proved.

Not modelled, of components that are:

* a client that dies in the middle of a TCP session, or a server that dies (see
  `TcpSession`), and sockets that run out in `ReqRemoteResume`;
* the FMR cable, whose far end runs other software, and how four patterns tell the
  cable: an end knows it or not;
* `SetSyncTime` with the modem rate, and a `ReSync` that starts at a slower rate than the first;
  `SerLink` takes one `ReSync` as a single step, `SerBaud` shows what happens in it,
  and nothing yet relates the two formally;
* BIND_KILL, more than one name of a link, and the second write that carries the true
  length of a one byte packet (`nmplink.c:250`).

The DOS box, NetBIOS and NetWare links are thin layers over one pipe or over
a session service of the network driver, which would have to be modelled from its manual. A local
trap and its debug thread (`lcl/nt/c/dbgthrd.c`) hand over by a pair of semaphores
around calls of the operating system's debug interface.

Left out for good: the DESQview link and the front ends (no protocol of their own), the serial
ports of other systems (register access without shared state), what a request
does to a debuggee (the operating system's debug interface), and the
compilers, linker, librarian and libraries of the repository, which are
sequential translations of large data.
