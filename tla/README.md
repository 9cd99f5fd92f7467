# A verification of udt-link

`udt-link` is a copy of the UDT library (reliable streams and messages over
UDP, `src/udt`) with a small session layer on top (`src/zlink`).  This directory
holds TLA+ models of its core, the TLC runs that check them on small instances,
and TLAPS proofs of the most important results for every value of the
parameters.  `PROJECT.json` maps every definition to the lines it stands for.

## 1. The system

| Component | State | Operations | Meets the others through |
|---|---|---|---|
| `CUDT` data path (`core.cpp`) | sequence numbers, windows, flags, timers of one connection | `send`, `recv`, `packData`, `processData`, `processCtrl`, `sendCtrl`, `checkTimers`, `close` | buffers, loss lists, the two queues, epoll, the peer's packets |
| `CSndBuffer`, `CRcvBuffer` (`buffer.cpp`) | linked blocks and a counter; a ring of units | add, read, acknowledge, drop, scan for a message | application threads and workers share them |
| Loss lists (`list.cpp`) | ranges in a static array | insert, remove, first | workers |
| `CSeqNo` (`common.h`) | none | compare, offset, length, increment | everywhere |
| `CSndUList`, `CSndQueue` (`queue.cpp`) | a heap of sockets by next sending time | insert, update, pop, remove; the snd worker | `packData` under the list's lock |
| `CRcvQueue` and its tables (`queue.cpp`) | units, timer list, hash, connecting sockets | the rcv worker | dispatches packets and timers to sockets |
| `CACKWindow` (`window.cpp`) | ring of sent ACKs | store, acknowledge | ACK, ACK2 |
| Connection setup (`core.cpp`) | request, cookie, state flags | `connect`, `listen`, `connect(response)` | queues, `CUDTUnited` |
| `CUDTUnited` (`api.cpp`) | sockets, closed sockets, accept queues, multiplexers | the API calls, garbage collection | all of the above |
| `CEPoll` (`epoll.cpp`) | watched and ready sets | add, remove, wait, update | sockets set and clear events |
| ZLink (`src/zlink`) | host or client, sessions | init, listen, connect, read, write, close | UDT and TCP sockets |

Threads: the application's, one snd worker and one rcv worker per multiplexer,
and the garbage collector.  They share the objects above under a dozen locks,
and read many fields without one.  What is hard, and hard to test:

* reordered, repeated and lost packets of every kind, with cumulative state on
  both sides that must agree without ever being compared;
* steps of two threads between the unlock of one lock and the lock of the next
  (`packData` against ACKs, `send` against the worker, `recv` against `close`);
* condition variables whose conditions are set without their mutex;
* ring buffers and array lists at their boundaries, under numbers that wrap;
* liveness: a closed window, a lost ACK, a lost wakeup stop a transfer for ever.

`hazards` in `PROJECT.json` lists each of these at its line with the properties
that would catch it, or the reason why none does.

What makes each component correct: the *data path* delivers the stream in
order, exactly once, never releases what the peer does not hold, and delivers
everything while the connection lives; the *buffers* never mix positions up and
never block when full; the *loss lists* are exactly the sets they stand for; the
*blocking calls* never miss the event they wait for and always end after
`close`; *message mode* returns whole messages, once.  After *connection setup*
both ends mean the same attempt, and an attempt that nothing disturbs succeeds.
The *sending worker* serves every socket that has something to send.  *ZLink* loses
no socket on the way to a session, gives its lock back, and keeps the frames of a
channel whole.

## 2. The modules

| Module | What it models |
|---|---|
| `ReliableStream` | abstract specification: what a connected pair of stream sockets promises |
| `UdtTransfer` | the data path of a connected pair, both buffers, the loss lists as sets, close and shutdown, the network |
| `UdtTransfer_proofs` | its inductive invariant, its safety properties, the refinement, and that wrapped numbers may stand for the unbounded ones, proved |
| `SeqNo` | `CSeqNo`: numbers that wrap |
| `SndLossList`, `RcvLossList` | the two loss lists slot by slot, as operators on list values |
| `LossLists`, `LossLists_proofs` | the lists driven by the calls of `core.cpp`, against the sets of `UdtTransfer` |
| `MsgTransfer`, `MsgTransfer_proofs` | message mode: expiry, drop requests, reading ahead |
| `BlockingCalls`, `BlockingCalls_proofs` | the threads that meet in one socket: locks, conditions, flags, read and write events |
| `Handshake`, `Handshake_proofs` | two hosts that get connected: client and listener, or rendezvous, over a bad network |
| `SndScheduler`, `SndScheduler_proofs` | `CSndUList`, the sending worker and its sleep, and the threads that change the heap |
| `ZLinkSessions` | a ZLink host with its lock, its clients, and the three sockets of each session |
| `ZLinkFrames` | frames over one UDT channel, cut into pieces by partial sends and receives |
| `ZLink_proofs` | the proofs of both |
| `SocketLifecycle`, `SocketLifecycle_proofs` | the sockets of a process: accept queues, close, garbage collection, multiplexers |
| `MCUdtTransfer`, `MCLossLists`, `MCMsgTransfer`, `MCSocketLifecycle`, `MCHandshake`, `MCSndScheduler` | instances for TLC (the others need none) |

How they fit: `UdtTransfer` implements `ReliableStream` (`StreamSpec`,
`StreamFairSpec`).  It keeps sequence numbers unbounded and loss lists as sets;
theorem `LiveNumbersCompare` of
`UdtTransfer_proofs` justifies the first, and `LossLists` the second (the ghost set
`lost` is updated as in `UdtTransfer`, and the array list is proved to equal it).  `BlockingCalls`
takes the same send, receive and acknowledge operations, leaves the data out and
splits them at every lock and signal.  `SocketLifecycle` is about the sockets
themselves; of a connection it keeps whether it is connected, broken, closing, and
whether something is unsent.  `Handshake` ends where `UdtTransfer` starts and
covers the connecting side that `SocketLifecycle` leaves out.  `SndScheduler` is
the list in which `UdtTransfer` has only a place (`onSndUList`), for several
sockets.  `ZLinkFrames` takes a connection that keeps the promise of
`ReliableStream`, which `UdtTransfer` implements, and shows that frames sent over it
keep the same promise (`FrameStream` its safe part, `FramesArrive` its progress): the
abstract specification is used at two levels.

### UdtTransfer

State: block positions of `CSndBuffer` (`firstBlock`, `currBlock`, `lastBlock`,
`count`), the sender's numbers (`sndCurrSeqNo`, `sndLastAck`, `sndLastDataAck`,
`flowWindowSize`), its loss list and its place in `CSndUList`; the receiver's
numbers and loss list, `CRcvBuffer` as slots at absolute positions; both sides'
flags; the packets in flight.  `delivered` is what `recv` has returned.

Each handler is one action, split only where another thread can come between:

* `send` links blocks (`SendLink`) and later counts them (`SendCount`);
* `packData` takes a lost packet (`PopLost`) before it holds `m_AckLock`
  (`Retransmit`); a new packet is `PopNew`;
* an ACK moves `m_iSndLastAck` (`ProcessAck`) before it takes `m_AckLock`
  (`AckSndBuffer`), and reschedules the socket after it (`Reschedule`); the rcv
  worker serves no other packet of the sender meanwhile (`ackStage`), and
  everything that takes `m_ListLock` waits while the snd worker is inside
  `packData` (`lostSeq # None`).

Abstractions, all of them towards more behaviours unless noted:

* time is left out: an ACK, a light ACK, an expiry may happen whenever its other
  conditions hold; the congestion window is any value of a set at each look;
* an ACK2 carries the number it acknowledges (the ACK window looks it up) and
  may always be ignored;
* `sendCtrl` of an ACK is one step; the reader's only shared datum with it is
  `m_iLastAckPos`.  The assignment of `m_iFlowWindowSize` and `m_iSndLastAck`
  is one step as well (fewer behaviours: the worker could look between the two,
  and would only find a window that is larger or smaller for one packet);
* one application thread sends, and another may close the socket between the halves of
  its `send()`; `GracefulClose` is about what was counted by then, as core.cpp:925 is;
  packets are whole (`m_iNotch` is left out);
* packets that stay in the network until their numbers are half the number space
  old are left out: nothing in the protocol could tell them from new ones.

### LossLists

The lists' nodes are records of functions over the slots.  The code leaves the
links of empty slots stale; here they are reset to `Nil`, so that following one
would fail at once.  The loops that search, merge and delete nodes are
recursive functions over lists, slots or steps.  The driver makes the calls of
`core.cpp`, in every state in which the code may make them and in some more.

The sender's side: a light ACK (`TakeLiteAck`) moves `m_iSndLastAck` only; a full one
moves it first (`TakeAck`) and clears the list when it has `m_AckLock` (`AckData`); the
worker may come between, and takes a lost number (`TakeLost`) before it holds that lock.
It then sends the packet (`Retransmit`) or finds it expired (`DropExpired`): `packData`
removes everything up to one past the message from the list, and sets
`m_iSndCurrSeqNo` to one further if it was behind, without looking at the flow window
(core.cpp:2297-2301).  A new packet is sent only within the window (`SendNew`).  The
numbers that are skipped in this way have no blocks, but a timeout reports them lost as
well.  So the array must take in what the flow window permits, or what is in the send
buffer and two more, whichever is longer: see `LossListSkip_violation.cfg`.

The receiver's side: a packet beyond the newest (`ArriveNew`) or not (`ArriveOld`), an ACK
(`SendAck`), and a drop request (`DropMessage`), which may begin before the last ACK or
beyond the newest packet, and end beyond what could be stored.  It ends at most
`PeerBufSize` beyond the last ACK, since the sender has no blocks further on; one that
begins more than `PeerBufSize` before it ends before it, too, and changes nothing.
`WrappedDrops` says whether a message is dropped whose numbers run past the largest
one: the one call that the receiver's list is known to get wrong
(`LossListWrap_violation.cfg`).

What differs from the code:

* the rcv worker may do anything between `TakeLost` and what follows; in the code
  `m_ListLock`, which the snd worker holds, delays some of it (more behaviours);
* the flow window is read without a lock while an ACK sets it; the value read is one
  of the two, as if the worker had come earlier or later.  `m_dCongestionWindow` and the
  smaller windows a peer advertises only permit less;
* a full ACK that is older than the last one to clear the list changes nothing and is
  left out;
* a message is taken to end within `SndBufSize` blocks of the last ACK.  After a first
  drop, number and block no longer correspond, and `readData` may look at blocks of which
  this is not known: what the list is then told to remove is covered as far as it is in
  this range;
* no ACK advertises more than the handshake did, and the receiver's list is as long as
  what it can store: "Rcv buffer MUST NOT be bigger than Flight Flag size" (core.cpp:107).
  `setOpt` sees to it for `UDT_RCVBUF`, but not when `UDT_FC` is set below the buffer
  afterwards (core.cpp:263), and then neither holds.

By default the send buffer has 8192 blocks and the sender's list 16384 slots, twice the
peer's receive buffer (core.cpp:764), so that `SndBufSize + 2 <= SndListSize` holds.  It
is the applications that can set `UDT_SNDBUF`, `UDT_RCVBUF` and `UDT_FC` otherwise.

### MsgTransfer

Coarser than `UdtTransfer`: no windows, one step per call, an ACK is sent and
taken in one step each.  Finer where message mode is: boundary and order bits,
the search of `scanMsg` with its skipped prefix, heads, holes and the mark of
messages read ahead, expiry found by `readData`, and the drop request's effect on
the sender's position, the receiver's buffer, loss list and newest number.
The runs and the proof look at streams in which nothing follows an expiring message,
or at what happens before the first drop request.  What comes after one is different:
packets and blocks then no longer correspond.  `packData` names one packet too many
and skips two numbers (core.cpp:2293-2299), so that the receiver takes the first packet
of the next message off its loss list and acknowledges it unseen; a message that never
expired is lost, and if it was an ordered one the next is returned without it
(`MsgSkip_violation.cfg`).  The blocks of later retransmissions are one or two off as
well.  `FullBufferReadable` needs messages smaller than the ring: of one that fills it
the comment at buffer.cpp:646 promises a part, but `readMsg` copies nothing then
(`q + 1` is already `p`), which TLC confirms with such a stream.

### BlockingCalls

`pc` says where each thread is; a label is a place where the thread can be
overtaken or must wait.  The mutex of a condition makes "test and wait" atomic
and is folded into that step; spurious wakeups are left out (a woken thread
tests again anyway); both buffers are numbers of packets.  `Signal` wakes the one
thread that can wait, since it holds `m_RecvLock` or `m_SendLock` as it waits.
`OptionsDuringCalls` says whether the application calls `setOpt` while another
call may block, `Watched` whether an epoll watches the socket.

### SocketLifecycle

Four threads: the application (one thread in `accept`, one in `close`, the other
calls in one step), the rcv queue worker of the one port, and garbage
collection.  `worker.pc` follows `newConnection` from lock to lock: locate the
listener, look for the request's old connection, create, register, enqueue, set
the event, signal.  A new socket is on `m_vNewEntry` before it is in `m_Sockets`.
`sockets` and `closedSockets` are the two maps; the flags of `CUDT` are sets of
sockets; `Collect` is one pass of `checkBrokenSockets` with all its
`removeSocket` calls, which hold `m_ControlLock` throughout.

Time is a choice.  A pass takes any set of sockets whose second (a listener's
three) is over (`due`), any set of linger times that are up (`up`), and any set of
broken connections kept for their unread data (`unread`).  The one thing said
about the second is what the comment at api.cpp:849 says of it: it is longer than
any call takes from locating a socket to its last use of it (`InUse`).  A call that
waits is not covered: a second may pass while `accept` waits.  `cleanup` waits for
no second; it is called when no call is in progress.

Left out: the connecting side (`Handshake`), `select`, several ports, failing
allocations in the maps.  `AllocFails` lets `CUDT::connect` run out of memory.
`LateRequests = FALSE` says that no connection request arrives while its listener is
being deleted, three to four seconds after it was closed; `m_pListener` stays set
until then, and with `TRUE` TLC shows the worker inside a deleted listener, so
`NoDanglingSocket` does not hold.  No test, comment or assertion claims otherwise,
so this is a hazard in `PROJECT.json` and not a finding.

There is no liveness run: that every closed socket is deleted and every waiting
`accept` woken is stated by what it may wait for.  `DeletionNotBlocked`: a closed
socket can be deleted in the next pass, or is in use, or lingers, or the worker
still has it and will find that it is no longer live.  `NoLostAcceptWakeup`: where
a waiting `accept` has something to do, a thread is on its way to the signal.

### Handshake

One socket per host.  `kind` says whether it connects, listens or meets its peer in
rendezvous; a listener stands for `CUDT::listen` in its worker.  `entries` are the
socket's entries in `CRendezvousQueue` by number of attempt, `stored` the packets
kept for a blocking `connect()`, `req` and `res` the fields of `m_ConnReq` and
`m_ConnRes` that are ever compared.  A packet is put into `net` for good, or lost: it
may arrive at any time, any number of times.

`connect(response)` is one set of operators (`Completes`, `Continues`, `Answered`)
for its two callers: the loop of a blocking `connect()` (`TakeResponse`, one step:
its thread is the only one that touches the socket) and the worker of one that
returned at once, where it takes three steps (`WorkerConnect`, `SetConnected`,
`ConnectComplete`) between which `close()` may come.  When `connect_complete` throws
there, `throw()` ends the program: the host is `terminated`.

Time is a choice: a TTL passes at any moment (`PassTTL`), the minute of the cookie
too (`PassMinute`).  A cookie is the text it is the digest of, so the digest of the
minute before is not what the code compares with (core.cpp:2486).  Left out: a
`close()` by another thread during a blocking `connect()`, what the sizes in a
handshake set up, and the queues' locks, each of which covers a whole step.
`PacketAssumption` says that the two model values that stand for other packets, `Data`
and `NoHs`, are no handshakes.

### SndScheduler

The array of `CSndUList`, `m_iHeapLoc` and the time stamps.  `op` is what the holder
of `m_ListLock` is doing: each turn of the loops of `insert_` and `remove_` is a step,
since the worker looks at `m_iLastEntry` under another lock, and sleeps on a time
that `interrupt()` overwrites.  Times count from now (`Tick` moves them all); past
ones keep their order only.  `packData` packs nothing, a drop request, or a packet,
whatever the socket's state allows.  A call of `update()` comes some time after the
change it is for (`pending`, `rushed`), as in the code.  Not modelled: the growth of
the array, which only `insert()` does, and nobody calls it.

### ZLinkSessions

The host's threads call `Host_Init`, `Host_DeInit`, `Host_Listen` and
`Session_Close`; `pc` is where each is, `lock` who holds `_zlink_mutex`.  Tests made
before the lock is taken are steps of their own.  A UDT connection is named by
the client and the channel that made it; the queue of the UDT listener is in the
order in which connections came, and `UDT::accept` takes the last: IDs count down
(api.cpp:385), and it takes the smallest (653).  TCP descriptors are the lowest free.
A host thread that waits for its own lock, or keeps it when `at()` throws, is `stuck`.
The ghost `troubled` records this (for `Host_DeInit` only when a session is open;
otherwise it returns and gives the lock back), and clients that leave between their
connections, which is what a wait without limit needs to last.  Every client
connects once; its second `Client_Init` is modelled where it matters.  UDT drops the
connections of a client that has left from the queue, one by one (`Forget`).
Left out: the search service, the read of the map without the lock (`Session_Read`
and `_Write`; a data race with the other threads), the control channel's data.

### ZLinkFrames

One sender and one receiver per channel, as in `test_server.cpp` and `test_client.cpp`;
the code takes no lock here.  A frame is three parts (header, information, data) of
some cells; `SendSome` and `RecvSome` are one turn of the loops of `udt_send_all` and
`udt_recv_all` and move as many cells as there is room, or data, for.  A cell
remembers where it comes from, but the receiver looks at the header's mark and sizes
only (`Sizes`).  `Rounds` is the number of calls until the time limit is up, 0 for none.

## 3. The runs

| Run | Question | Result |
|---|---|---|
| `transfer_safety` | data path over a network that drops, repeats and reorders at will; both ends may close, the sender may give up | holds |
| `transfer_liveness` | data path over a network that loses and reorders, but not for ever | holds |
| `loss_lists` | array lists against sets, wrapping numbers | holds |
| `msg_transfer` | whole messages, at most once, in order, never stuck | holds |
| `blocking_calls` | wakeups, quiet after close, every call ends | holds |
| `socket_lifecycle` | sockets of an application, connections of two requests: no dangling pointer, no second connection, none lost, counts right, lingers honoured | holds |
| `handshake` | agreement of both ends, no entry left behind, undisturbed attempts succeed | holds |
| `scheduler_safety` | the heap knows every socket's place, nobody is forgotten | holds |
| `scheduler_liveness` | everybody on the heap is served | holds |
| `zlink_sessions` | every open socket has one holder, the lock comes back | holds |
| `zlink_frames` | ends in step; frames are a reliable stream; every frame arrives | holds |
| `zlink_channels` | "UDT Audio accept" (ZLink.cpp:146), "会话音频通道" (zlink_inner.h:39) | violated: the newest connection is accepted first, so audio and video are exchanged when both wait |

The following are not in `PROJECT.json`; each fails when TLC is run on it by hand,
and shows why the passing runs have the assumptions they have:

| Configuration (module) | Property, and what it is from | What the code does |
|---|---|---|
| `LossListWrap_violation.cfg` (`MCLossLists`) | `RcvListExact`; "Remove all packets between seqno1 and seqno2" (list.h:137) | list.cpp:640 stops one short when the range wraps |
| `LossListSkip_violation.cfg` (`MCLossLists`) | `SndListFits`; "it requires twice space" (core.cpp:763) | twice is not enough for a send buffer larger than the list: an expired message moves the newest number past the array (core.cpp:2301) |
| `MsgDrop_violation.cfg` (`MCMsgTransfer`) | `DropsOneMessage`; "last seqeunce number of the message" (packet.cpp:118) | core.cpp:2293 names one more |
| `MsgSkip_violation.cfg` (`MCMsgTransfer`) | `OrderedInOrder`; "if the message should be delivered in order" (core.h:196) | the message behind a dropped one is lost |
| `OptionHang_violation.cfg` (`BlockingCalls`) | `ReadersReleased`; "Signal the sender and recver if they are waiting" (core.cpp:975) | not if setOpt was called while recv waits |
| `PeerError_violation.cfg` (`BlockingCalls`) | `PeerErrorReleases`; a blocked send "should return immediately" (core.cpp:2246) | nobody is signalled |
| `Readiness_violation.cfg` (`BlockingCalls`) | `ReadinessKept`; "read is not available any more" (core.cpp:1200) | data may have come since |
| `LingerDelete_violation.cfg` (`MCSocketLifecycle`) | `DeletedIsClosed`; "return immediately and let GC to close it later" (core.cpp:933) | the close of removeSocket returns early again; the socket is deleted open |
| `HandshakeSuccess_violation.cfg` (`MCHandshake`) | `SuccessMeansConnected`; "the connection is setup successfully this returns 0" (core.cpp:696) | connect() also succeeds when the worker gave the attempt up |
| `ZLinkReply_violation.cfg` (`ZLinkSessions`) | `ConnectedIsAccepted` | any answer, "ERROR" too, counts as success (ZLink.cpp:379) |
| `ZLinkDeInit_violation.cfg` (`ZLinkSessions`) | `DeInitClosesSessions`; "关闭所有session" (ZLink.cpp:104) | Session_Close takes the lock that Host_DeInit holds |

Every property of a passing run has a mutant in `PROJECT.json`: a plausible bug
in a definition of the model, under which the run finds the property violated.

### Bounds

* `transfer_safety`: 3 packets, a send buffer of 2, a ring of 3 slots, a flight
  window of 2.  The third packet cannot be sent before the first is released, so
  the buffer fills and drains; the ring fills; a gap of one packet occurs in
  front of and behind the window's edge; packets may be received any number of
  times, so every ACK, NAK and ACK2 can be arbitrarily late.  The proofs remove
  the bounds.
* `transfer_liveness`: 2 packets, a ring of 2 slots, so that one unread packet
  closes the window; only the minimum window of 2 and the repetitions restart
  the transfer.
* `loss_lists`: a space of 28 numbers, compared with a threshold of 14; a sender's list
  of 4 slots, for a flow window of 2 and a send buffer of 2, which with the two numbers
  skipped fills the list; a receiver's list of 6 slots, of which 5 can be in use, and a
  peer's buffer of 6.  Two separate ranges, merges, splits, drops across ranges; numbers
  and slots wrap several times.  A flow window of 3 is too much for TLC; the proofs
  remove the bounds.
* `msg_transfer`: four packets in three messages (ordered; unordered, of two
  packets; expiring), a ring of 5.  `MaxNak` bounds the numbers that may be
  reported lost to those of the stream: after a drop request the sender's position
  and number disagree, and a timeout would ask `readData` for blocks that do not
  exist; the run does not show what the code does then.
* `blocking_calls`: one thread of each kind, at most one unread packet, a send
  buffer of one.  More readers only queue at `m_RecvLock`; the proofs are for any
  number of threads.
* `socket_lifecycle`: three sockets, at most two of them created by the application,
  two requests, a backlog of one: a listener with two connections (of one request
  repeated, or of two), or a listener and another socket on its port; everything
  blocking or nothing.  Requests are symmetric, sockets are not (their IDs count
  down).  No request arrives once all IDs are used.
* `handshake`: each pair of kinds that can meet; blocking and not; two attempts of
  a client, or one that crosses a minute; one attempt of a rendezvous socket; one
  stored packet (the loop takes them one by one).  Two attempts are what it takes
  for the entry and the packets of one to meet the other.  The proofs are for any
  number of attempts, minutes and packets.
* `scheduler_safety`: three sockets (the first place, an inner node's both
  children), two threads between a change and its `update()`, two calls that come
  of nothing the sender did.  `scheduler_liveness`: two sockets, one such thread.
  The heap's order among more than two levels is not looked at; the proofs, which
  need no order, are for any number of sockets.
* `zlink_sessions`: two threads of the host and two clients, one refused: two
  sessions at once, one being closed while another is accepted, a descriptor used
  again.
* `zlink_frames`: three frames with and without data, of 6 and of 3 cells, through a
  channel of 4: every part is cut at every place, and no frame of the larger kind
  fits in the channel.  The proofs are for all of these sizes and any number of frames.

### Fairness

`UdtTransfer!FairSpec`: threads go on (weak fairness of the snd worker, of the
handler in progress, of the EXP timer, of the reading application), which the
workers' endless loops justify; a packet that is sent again and again is not lost
every time, and the rcv worker takes what has arrived (strong fairness per
number).  `ExpResend` runs only on a timer that nothing can stop while data is
unacknowledged.  Answering an ACK is strong: `processCtrl` answers every ACK whose
number equals the last answered one or that comes a SYN interval later.  Nothing
is assumed of light ACKs, NAKs and shutdowns, nor that the application sends.

`BlockingCalls!FairSpec`: a thread inside a call and not blocked goes on.  No
call need be made, no timeout need pass, nothing need arrive.

`Handshake!FairSpec`: threads go on; a request is repeated every 250 ms for as long
as its entry lasts, and of each kind of packet sent again and again one arrives.
Nothing is assumed of blocking calls' stored packets, of time or of close.

`SndScheduler!FairSpec`: who works on the heap goes on (weak); the worker gets the
list lock in the end although others take it again and again, and time passes
although they do (strong: both are disabled while an operation is under way).

`ZLinkSessions!FairSpec`: `ZLink_Host_Listen` goes on where it has a time limit or
something to take, and clients go on; nobody need call anything.
`ZLinkFrames!FairFramesSpec`: the two threads go on, as long as the connection takes and
has cells; that it moves them is what `transfer_liveness` shows of the layer below.

`SocketLifecycle` assumes no fairness: it has no liveness property.

Deadlock checking is off where the system may really stop (closed sockets,
everything sent).

## 4. The proofs

`UdtTransfer_proofs` proves, for all buffer sizes, windows, networks, closing and
expiring sides and numbers of packets, every safety property of
`transfer_safety` and the refinement `Spec => StreamSpec`.  The assumptions are
those of the module: the sizes are positive, the ring has at least two slots.

The properties are not inductive.  That a released block is held by the receiver
depends on the ACKs in flight, on what the ACK handler has read and not yet done,
and on the loss list.  `IInv` says it all at once:

* `SndInv`: block positions are sequence numbers; counter and list agree up to
  what a `send` in progress has linked; losses are sent and unreleased numbers;
* `RcvInv`: the slots hold exactly the numbers from the reader's position to the
  newest one that are not in the loss list, which lies behind the last ACK;
* `LinkInv`: the receiver's numbers are behind the sender's; every ACK in flight
  or half processed covers only complete data (`Complete`); the number the
  receiver believes acknowledged is one the sender has (`SenderHas`); every packet
  in flight satisfies `MsgInv`.

One lemma per action shows that it is preserved; the properties follow without
further induction.  For the refinement every action is mapped to a step of
`ReliableStream` or to a stutter.

The last part is about numbers that wrap: `seqoff`, `seqcmp` and `seqlen` of wrapped
numbers are difference, order and count of the positions they stand for, as long as
these are less than the threshold apart, and `incseq`, `decseq` are steps by one.  With
`SeqSpan` this gives `LiveNumbersCompare`: number the packets with `incseq` from any
first number on, and in every reachable state the numbers of the two sides compare and
subtract as the unbounded ones of the model, if the send buffer is smaller than the
threshold.

`LossLists_proofs` proves all three properties of `loss_lists`: that each list holds
exactly the lost packets, with their number and the oldest first, and that the
sender's never needs more slots than it has.  They hold for any flow window and
receiver's window, any number space, wherever in it the window is, and with messages
that expire at any time.  It is assumed
that windows and buffers are far below the threshold of a comparison
(`LossListsAssumption`: three flow windows; the peer's send buffer and the receiver's list;
twice that buffer; by default all are below 50000, the threshold is 2^30).  The two
theorems on the sender's list assume `SndBufSize + 2 <= SndListSize`, without which an
expired message moves the newest number past the array, and the one on the receiver's
that no dropped message wraps: `RcvListIsExact` names `WrappedDrops = FALSE`.  Both
conditions are needed, as section 3 shows.

Numbers and slots go round, so nothing can be said of them one by one.  The argument
is about positions, which do not wrap: a function `w` gives positions their numbers and
another, `c`, their slots, both rings (`Rings`), and the code's arithmetic agrees with
that of positions within a window that fits the array.  A list is then a set `B` of
nodes, each the position of the first number of its range, and a function `E` to the
last.  `SndRep` and `RcvRep` say how the fields of the code represent `B` and `E`:
what is in the slots of nodes, that all other slots are empty, that links lead to the
next node (and back, in the receiver's list), that ranges ascend and are disjoint, that
the length is that of all ranges together, and that the hint `m_iLastInsertPos` is empty
or a node.  `SndHolds` and `RcvHolds` then hide the nodes: the list represents the set
`S` of positions.  The lemmas go operation by operation and place by place: an insert
into an empty list, before the head, at a node, between two, within a range, with the
merge of what it has grown into; a removal at either end of a range, within it, of all
of it.  The inductive invariants `SndInv` and `RcvInv` then only have to say that the
list holds `lost`, and which numbers are in the window.

The loops need induction, which the library's theorems cannot be used for.  It is done
by least counterexample: a loop is a recursive function that applies a step until it
gets into a set of states (`IsLoop`), a variant decreases with every step
(`Decreases`), and if the loop did not end from some state there would be one of least
variant, from which one step leads to a state with less (`LoopEnds`).  That such a
function exists at all, also outside of the states the program can be in, is
`LoopExists`.

`BlockingCalls_proofs` proves that no wakeup is lost and no call waits on a closed
socket, for any sets of threads, with options set at any time, watched or not.
`BlockingInv` adds where each kind of thread can be, which locks it holds there,
that only blocking calls wait, and that a broken or closed socket is closing.

`SndScheduler_proofs` proves `HeapLocExact` and `NobodyStranded` for any number of
sockets, threads and calls.  Neither is inductive: between the steps of an operation
the entry on its way has a stale place.  `SchedulerInv` says of every step of `Rise`
and `Sink` which places are exact (`Places`), and that a socket which leaves for good
does so in `close()` (`TakenOff`).

`ZLink_proofs` proves `SocketsHeld` for any number of threads and clients.
`SessionsInv` says where each connection is (`InSessions`, `InCalls`, `InQueue`, which
are disjoint), how far its client has come, that a client has one TCP connection, in
the queue or under one descriptor, and that sessions outlive the listening sockets
only where `Host_DeInit` is stuck (`ServerInv`), so that `m_mapSessions.clear()`
forgets none.  That a descriptor is free for every connection is the pigeonhole
principle: there are as many descriptors as clients.

`SocketLifecycle_proofs` proves every property of `socket_lifecycle`, for any number
of sockets, requests and backlogs, blocking or not, with and without failing
allocations.  The theorems assume `~LateRequests`, the condition under which TLC
finds `NoDanglingSocket` to hold at all (section 2).  None of the properties is
inductive: that garbage collection deletes nothing in use follows from what `worker`,
`accepter` and `closer` hold at each of their steps, that from where a socket is
registered at each status, and this from who made it.  `SharedInv` says so in parts:

* `Life`, `Flags`, `Origin`: where a socket is registered at each status; nothing is
  said of one that does not exist yet; accepted sockets, and only they, have a peer
  and a listener;
* `OnListExact`, `Listener`: `m_bOnList` is exactly membership in the worker's list or
  its new entries, so that `Removable` protects both; the listener of the receive queue
  is registered and open, so that the `CUDT::close()` of its deletion takes it out;
* `WorkerInv`, `CallsInv`, `Stopped`: what the three threads work on, and that a socket
  which is not queued yet can be in no other hands;
* `Queues`, `Orphanless`, `Requests`: a queued socket is registered and of its
  listener; of the connections of one request all but the newest are broken, and all
  when the next is on its way, which is the order in which the IDs count down;
* `MuxInv`, `Lingering`, `Lingerers`: the counts; a closed socket that is still live
  lingers, is served by the worker and found by no other call.

There is one lemma per part, with one case per action; `GarbageCollectIsPass` first
turns a pass into what it does to each variable (`Pass`), and shows that it deletes
nothing a thread uses.

`MsgTransfer_proofs` proves `WholeMessages`, `AtMostOnce`, `OrderedInOrder` and
`FullBufferReadable` for any stream of messages, ordered or not, with or without a time
to live, any ring, any loss reports (`MaxNak` has no part in it) and a network that
loses, repeats and reorders, up to the first drop request: `Undropped` is in the
theorems because the properties fail after one (section 2), not because of the proof.
`ImmortalMessages` does without it where no message has a time to live.
`FullIsReadable` assumes that every message has fewer packets than the ring has slots,
which nothing in the code checks (core.cpp:1224 looks at the sender's buffer only).
`Inv` says that packet number, block and slot are one (`SndOK`, `NetOK`), that the ring
holds exactly what came and is not in the loss list (`UnitOK`), and, which the
properties turn on, that a message has been returned exactly if all its packets are
behind the reader or carry the mark of those read ahead (`TakenOK`).  From this follows
that the search skips only what has been returned (`ScanFacts`), although it looks for
the beginning of a message and not at what was returned; that what it finds is one whole
message, since the stream's boundary bits bracket it (`ReadFacts`); and that an
acknowledged message is found only when it is the first (`StartIsCandidate`).

`Handshake_proofs` proves `Agreement` and `NoDanglingConnector` for any number of
attempts, minutes, packets in flight and stored packets.  `SocketInv` is about one
host: how far the call, the worker and the flags may be from each other (`CallOK`), and
that before a time to live has passed a socket has one entry at most, and only while
`connect()` is under way (`QueueOK`); `NoDanglingConnector` follows.  `Agreement` is about
two hosts that never compare notes, so it needs what every packet in flight and in
store says of its sender:

* `ClientInv`, where a client meets a listener: a packet to the listener carries a number
  the client has really used (`Asked`), a socket the listener made answers one of these,
  and a positive answer names such a socket (`Told`); so does `m_ConnRes` of a client
  that is connected, and it means the attempt under way (`ResOK`);
* `MeetInv`, where two sockets meet in rendezvous in their first attempts: who answers -1
  has its peer's request, and who sends -2, or data, has its answer (`FromPeer`), so that
  both have asked for the last time before either is connected.

A packet that is delayed or repeated does no harm, since nothing it says stops being
true: attempts and the listener's sockets only grow (`Grows`, `Remains`), and a request
type of -1 stays (`MeetRemains`).

`ZLink_proofs` also proves `InStep`, and `FrameStream` step by step, for any lengths of
the parts, any capacity and number of frames, under `Unlimited`: the calls have no time
limit and the receiver's buffer takes every frame that is sent.  Both are needed: with a
limit of 3 calls, or a buffer smaller than the data, TLC finds `InStep` violated, since
a part given up half-way leaves its other cells in the channel.  The code itself finds
the frames by position only, and so does the argument.  A position is a frame, how many
of its cells have gone by, and its size; the end of one frame is the beginning of the
next (`Same`).  `IInv` says that the receiver stands where the channel begins and the
sender where it ends (`EndsMeet`), that in the channel each cell is where the one before
it ended (`Chain`), and that what the receiver has of a part is the part's cells in order
(`RcvOK`), so that the size it reads from a header is the sender's.

Every invariant and every safety property of the passing runs is proved, under the
hypotheses named above.  Only model-checked: liveness (`StreamFairSpec`, `Drains`, `CallsEnd`, `HandshakeCompletes`,
`EverybodyServed`, `LockReleased`, `FramesArrive`), which is out of the prover's reach,
and message mode after a drop request, for the instance of `msg_transfer`.

## 5. Not modelled, and what could come next

Done: data path, sequence numbers, loss lists, message mode, blocking calls, sockets
and garbage collection, connection setup, send scheduling, ZLink sessions and frames.

Could be added, most important first:

1. `RcvQueue`: unit pool, timer list and hash table;
2. `Epoll`: watched and ready sets of several sockets, wait, release, removal;
3. `AckWindow`: the ring of stored ACKs, refining what `ProcessAck2` assumes;
4. `KeepAlive` and options: expirations counted; sizes in any order of calls;
5. readers and writers of a ZLink session while it is closed.

Not planned: congestion control and bandwidth estimation (floating point, no
effect on what is delivered), file transfer (`send` and `recv` with an `fstream`), the
info cache, MD5, the UDP channel, the LAN search, the demo.
