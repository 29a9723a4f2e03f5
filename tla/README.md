# xvcSupport: models and proofs

TLA+ models of the XVC server with all of its drivers, of the protocol between
driver and firmware, and of the firmware itself, with the TLC runs that check
them and TLAPS proofs of what the protocol, the connection, the TAP with its
sniffers, the register and the FIFO drivers and the emulator promise, for every
value of their constants.

## 1. The system

An XVC client (e.g., vivado) connects to the *server* over TCP and sends
`getinfo:`, `settck:` and `shift:` messages. The server hands the vectors of a
shift to a *driver*, which packs them into messages and sends them, over UDP or
through registers, to the *firmware*. The firmware drives TMS and TDI, and the
TDO it samples goes the same way back. Behind the JTAG pins there may be a
*TAP in fabric* that offers a BSCAN port to a user's debug hub.

| part | source | state | operations |
|---|---|---|---|
| XVC connection, server | `xvcConn.cc`, `xvcSrv.cc` (XvcServer) | receive and transmit buffer, read position, chunk size | accept, `read`, `fill`, `bump`, `run`, `flush` |
| driver | `xvcSrv.cc` (JtagDriverAxisToJtag) | `xid_`, `wordSize_`, `memDepth_`, `periodNs_`, `retry_`, `txBuf_` | `init`, `query`, `sendVectors`, `xferRel` |
| UDP transport | `xvcDrvUdp.cc` | socket, MTU | `xfer`, `getMaxVectorSize` |
| protocol firmware | `AxisToJtag.vhd` | state, remembered id, TDO memory with its two indices | query, shift, replay, errors |
| stream to JTAG | `AxisToJtagCore.vhd`, `JtagSerDesCore.vhd`, `AxiStreamSelector.vhd` | counters, word registers, shift registers, divider | a clock |
| TAP, BSCAN port | `JtagTapFSM.vhd`, `JtagTapIR.vhd`, `Jtag2BSCAN.vhd` | TAP state, IR, DR, registered outputs | an edge of TCK |
| sniffers | `jtagDump.cc`, `JtagSniffer.py` | TAP state, bits seen | a bit |
| FIFO transports | `xvcDrvAxisTmem.cc` (FIFO mode) with `Axis2TmemFifo.vhd`, `xvcDrvAxisFifo.cc` with a FIFO of the vendor | the FIFOs and who owns them, word counts, reset, interrupt enable | `reset`, `wait`, `xfer`; a clock |
| register transports | `xvcDrvAxiDbgBridgeIP.cc`, `xvcDrvAxisTmem.cc` (raw serialiser, bit-banging) with `Tmem2BSCANWrapper.vhd` | vectors, length, RUN, TDO; bit-banged pins | `reset`, `xfer`, `xfer32sdes`, `xfer32bb` |
| registry, `main()` | `xvcSrv.cc`, `xvcDriver.h` | `entries_`, the driver that was created | `registerFactory`, `find`, `create`; start-up |
| loopback, emulator | `xvcDrvLoopBack.cc` | position in the playback file, `tsiz_`, `tbuf_`, `drop_` | `xfer`, `run` |
| other test equipment | test benches, scripts, stub bridge | | |

How they interact: the server is one thread, so there is one call of the driver
at a time. Driver and firmware only share the datagrams, the FIFO or the
registers between them. The firmware's blocks share a clock and hand words over
with valid/ready pairs. The emulator of the firmware is a second thread that
shares nothing with the first but datagrams.

What is hard about it:

* a request may be lost, repeated or overtaken, and its reply may come after
  the driver gave up and asked something else; JTAG is not idempotent;
* the server may be killed and restarted, with an id that nothing initialises,
  against a firmware that keeps its memory;
* TCP cuts and joins messages anywhere, and the buffer has to take a message
  that begins in what was read with the one before;
* two streams may pause in any clock; words are in flight between three state
  machines while a request ends early;
* TAP and BSCAN outputs change on opposite edges of TCK;
* a FIFO belongs to the bus and to the stream in turn; software resets it while
  the stream side runs, may be killed between any two accesses, and cannot see
  when a reset is over;
* an interrupt may come between a look at the status and the wait for it.

What makes the parts correct: a shift is driven at most once and in order;
`sendVectors` returns the TDO of its own vectors; the driver's parameters are
the target's; no access is outside a buffer; every message is answered with its
own bytes, in order, if its client takes the answers; the clocked firmware computes the replies and drives the
bits that a request asks for; scans go through the selected register, and the
sniffers report what happened; through a FIFO the target sees whole frames and
the driver the whole reply to its own message, whatever an earlier process left
behind; a driver that works by registers drives each bit once and stores each
TDO bit in its place.

## 2. Modules

```
XvcHeader   XvcNet              JtagSerDesCore          XvcConn      JtagTap
   |  \      /                       |                     |            |
   |   XferRel------.           AxisToJtagCore          MCXvcConn    MCJtagTap
   |      \          \               |
AxisToJtagMsg    LoopBack       AxisToJtag              SendVectors  Axis2TmemFifo
        \   |       |  \             |                      |            |
        XvcOverUdp -|-> JtagOnce AxisToJtagRef           RegDrivers   FifoDrivers
        /       \   |                |                      |
MCXvcOverUdp     \ MCLoopBack   MCAxisToJtag            MCRegDrivers
                XvcOverUdpProofs
```

The theorems about a component are in a module that extends it:
`XvcOverUdpProofs` and, on top of it, `XvcOwnTdoProofs`; `XvcConnProofs` and, on top
of it, `XvcAnswersProofs`; `JtagTapProofs`; `RegDriversProofs`, which has those of
SendVectors too; `FifoDriversProofs`, with those of Axis2TmemFifo; `LoopBackProofs`.

* **XvcHeader** – the 32-bit header as its fields, with the getters of both
  ends. Bits 27:20 are one field, because the code uses them as the id of a shift and
  as the period in the reply to a query. The low field is packed and unpacked
  (`memDepth * 16 + wordSize - 1`), not copied. The period byte is logarithmic
  (`cvtPerNs`, 10^(byte/64) periods of 200 MHz): the constant `CvtTable` is its
  scale, and byte 0 stands for an unknown period.
* **XvcNet** (external) – two sequences of datagrams, with actions for loss,
  duplication and reordering, enabled by the constant `Faults` and counted up
  to `MaxFaults`. A reply to a process that is gone is dropped (another port).
* **XferRel** – the driver and the calls the server makes of it. `Begin` is the
  entry of `xferRel`; `Write` and the four ways a `poll`/`readv` can end
  (`PollTimeout`, `ReplyRejected`, `ReplyStale`, `QueryDone`/`ShiftDone`) are
  one action each. `ReplyRejected` and running out of attempts end the
  process, since `XvcServer::run` only catches `SysErr`. `Start` leaves `xid`
  open: the constructor does not set it.
* **AxisToJtagMsg** – the firmware a request at a time: query, truncated,
  execute, replay. `tap` is the history of shifts driven.
* **JtagOnce** – what the protocol promises: shifts are issued one by one,
  driven at most once and in order, and returned only if driven.
* **XvcOverUdp** – the three together; its properties, the inductive invariant
  and the refinement mapping.
* **SendVectors** – `query()`'s buffer and `sendVectors()`'s copies, octet by
  octet: where in `txBuf_` every octet of TMS and TDI goes. A limit of 0, with which
  a driver allows any size, becomes the connection's own `MaxVecLen`
  (`xvcConn.cc:126-128`). A copy may go beyond what was reserved for `txBuf_`, since
  nothing checks it; the memory behind is then somebody else's and the process is
  in no defined state (`Overrun`), or it is nobody's and the octets are kept.
* **RegDrivers** – what becomes of that message in the drivers that take it
  apart. `mode` is the driver: `"bridge"`, `"sdes"` (raw serialiser), `"bb"` and
  `"bbsdes"` (bit-banging, without and with a serialiser beside it), and
  `"stream"` for the drivers that pass it on. The hardware below is `eng` (a
  word being shifted, bit by bit) and `pins` (TCK, TMS, TDI as bit-banged); a
  TDO bit is the number of the edge of TCK it was sampled at, so a bit in the
  wrong place, of another call or of nowhere shows. `Kill` ends the process
  anywhere in `xfer()`, and `Start` resets as the constructor and `init()` do.
* **Axis2TmemFifo** – the FIFO a clock at a time; signals and processes as in the
  VHDL. `TmemClock` is one edge, with the bus access and the streams' handshakes
  as parameters. A read is one clock, the pulse that `tmemRDENOnce` makes of it.
* **FifoDrivers** – `reset()`, `wait()` and `xfer()` of both FIFO drivers, each
  access of the bus an action, with a target that may pause on both streams. The
  driver may be killed between any two accesses and started again, and in test
  mode it throws replies away and sends its request again. The target is the stream
  side of `AxisToJtag.vhd`: a new request is answered word by word as it comes, the
  last one again is answered out of the memory, without waiting for the words behind
  its header (`REPLAY_S`). The vendor's FIFO (`Z...`) is external: it is
  modelled from what the driver expects of it.
* **LoopBack** – `main()` and the registry, then the loopback driver, or XferRel
  with the emulator in its own thread in place of the firmware. The playback
  file is the number of the next record, the vectors of a shift are the number
  of the record that the test has for it.
* **XvcConn** – the connection. An octet is named by message and offset, so an
  answer tells which octets it was made from. `pc` is the place in `run()`;
  `Fill` is one `read` in `fill`, `FlushSome` one `write`; a read may return any
  part of what is there, and a write takes any part, if the client reads at all. A
  write to a client that closed fails or, by SIGPIPE, which nothing handles, ends the
  process (`FlushFails`). Accepting includes `allocBufs`, whose result is any of
  `SupVecLens`. The driver below is abstract and may throw.
* **JtagSerDesCore, AxisToJtagCore, AxisToJtag** – the firmware a clock at a
  time. Registers are records named as in the VHDL, each process is an operator
  from the present to the next record and `Clock` joins them. The generics are the
  record `design`, one of the constant `Designs`, and do not change.
  A bit is named by its request and position, so a misplaced or repeated bit
  shows.
* **AxisToJtagRef** – what a list of requests should lead to, as a fold over
  whole requests, and the properties that compare the clocked design with it.
* **JtagTap** – FSM, instruction and data registers, both variants of the BSCAN
  port, a user register (external), and the two sniffers, half a period of TCK
  at a time. A register of `jtagDump` is kept as the bits that were added; `Ones` is
  what the words of `v_` make of them, with the shift of an `int` in `addBit()`.

Operators marked "a mutant of" are single defects put into a definition, kept beside it to
show that the property that they name would notice; no specification uses them.

## 3. Runs

Passing runs:

| run | shows | bounds |
|---|---|---|
| `udp_faults` | types, at most once in order, own TDO, the inductive invariant, implements JtagOnce | 3 shifts, one too long for the memory or not, 3 queries, 2 processes, 3 faults of all kinds but reordering, 2 ids: ids wrap and collide |
| `udp_nomem` | a target without memory gets nothing twice; true parameters | 4 faults (loss, late replies, kills), 2 processes |
| `udp_live` | calls return if faults are no more than retries; own TDO even under reordering | 4 faults, 4 retries, 3 shifts |
| `conn` | within the buffers, right answers, each bit driven once; complete messages are answered, clients are not left waiting, unless the client served does not read | messages of all kinds, too long and unknown ones; 2 clients, 2 messages, 1 error; the second message may begin in the first chunk and end in the spill-over area |
| `axis` | replies and JTAG bits equal the reference; memory writes in range, core quiet between requests, everything answered | three requests: every header kind, new and repeated ids, lengths from 1 bit to the whole memory, requests too short at the start and too long; any pauses; two designs: words of 2 bits, a memory and the fastest clock, and words of 4 bits, no memory and a divided clock |
| `tap` | see below | IR of 3, DR of 2, scans of 4 bits, as many as an `int` has here (`INT_BITS`), any TMS and TDI forever |
| `regs` | octets in their place; each bit of the vectors at one edge of TCK, in order; TDO in place; transfers end | 5 targets with words of 4, 6, 8 octets, one that takes any size, 32 octets reserved, so that some vectors fit and some do not, vectors of 1 to 144 bits (a bit, full words, a rest); 4 register drivers, 2 calls, 2 processes |
| `fifo` | whole frames, whole own replies, nothing left behind, no wait for ever | FIFOs of 7 words (a frame of 3 and one of 7), replies with whole and part words, every second reply dropped and its request repeated, 4 calls, 3 processes, polled and with interrupts |
| `loopback` | the driver asked for, playback in step, own TDO, calls return, implements JtagOnce | 5 driver names, with and without file, 4 shifts and 2 queries on 2 records, every third datagram dropped, 2 more lost |

`tap` checks that the two sniffers are always in the TAP's state, that, in scans of
fewer bits than an `int` has, the bits
reported as received are what the selected register captured followed by the bits sent, that
the TAP's instruction is the last complete one reported (IDCODE after reset),
that the BSCAN port of the two variants agrees, that the user's register sees
exactly one edge per bit, and that the simulation's sniffer knows the instruction
unless it raised its error or the TAP was reset.

Why these bounds are enough. The protocol compares ids for equality and
remembers one: two or three ids give every coincidence of remembered, current
and stale id, and three shifts a successor and a predecessor of the one that
is repeated. The connection's positions only depend on lengths; the scaled-down
lengths keep the order among tag, headers, overhead and vectors of the code
(2 < 8 < 10 < 11 <= 128), so that messages end before, at and after the end of
a chunk. A word of the clocked design has two bits at least, so a
word has a first and a last bit that differ; the core never holds more than two
words, and the lengths cover zero to three words and a word not full. For the
data registers two bits tell order; three for the instruction leave
one code that is neither of the four decoded. A FIFO's pointers matter only when
it is empty or full: seven words hold the longest frame exactly, and a reply out of
the memory, of four words, is complete while most of its request is still in the
FIFO. A register
driver's word is 32 bits as in the code; vectors of up to two words and a
rest have a first, a middle and a last word. Two records and four shifts make
the playback end within, and begin again after, a query.

Runs that end in a counterexample, each a finding in `PROJECT.json`:

| run | what the code does | what is said |
|---|---|---|
| `udp_stale_query` | a query takes a late shift reply for its answer; parameters are then bits of a length | `xvcDriver.h:59-62`: `query` returns the supported vector size |
| `send_overrun` | with the debug bridge driver's default limit of 1024 octets, and no memory in the target, `sendVectors` writes 2052 octets to `txBuf_`, for which the constructor reserves 2048 | `xvcDriver.h:69-72`: "the driver must consider" two vectors and a header |
| `send_round` | with the TMEM driver's limit of 1022 octets, rounding up to words makes a message of 2052 octets, one word more than its FIFO and than `txBuf_` hold | `xvcDriver.h:213-216`, `xvcDrvAxisTmem.cc:120` |

`send_overrun` has the constants of the code. The same happens with the TMEM driver
when it does not use the FIFO (1022 octets, rounded up to words), and by far with the
loopback driver, whose limit of 0 lets vectors of 32768 octets through. `PairsInOrder`,
`BitsInOrder` and `TdoInPlace` are stated for those messages too, for a process that
survives them.

Other limits of the code that the constants of the passing runs avoid, and that
show when they are changed:

* with reordering (`"swap"` and `"late"` among the `Faults` of `udp_faults`) a
  copy of shift n that arrives behind shift n+1 is executed again, since the
  firmware remembers one id; this is why AtMostOnce assumes that there is none;
* with a `Period` that is a valid id, a late query reply passes for the reply to
  the shift with that id, and `OwnTdo` fails;
* calls of `query` after a late shift reply (`MaxQueries` of `udp_live`) may set
  `retry_` and the word size from that reply, and calls then fail for good;
* a request cut with TLAST at the TMS word of its second or a later pair, when
  nothing is in flight: the core goes to `IDLE_S` with `running` set and the
  reply has no last word, although `AxisToJtag.vhd:116-119` speaks of a
  truncated reply (`AllAnswered`, stream `<<Shift(1, 2 * WIDTH, 3)>>`);
* for word widths that are not a power of two, `checkLen` counts words of
  `2**ALGN_C` bits and admits a shift that does not fit the memory, against
  `README.md:215-218` of the repository (`WritesInRange`, a design with `WIDTH` 3);
* accesses of the bus less than eight clocks apart lose the interrupt enable
  that `reset()` writes while the FIFO is still in reset (`FifoClean` with
  `Gap < 7`, which `FifoAssumption` excludes);
* a late datagram makes the emulator answer a query with a shift's reply still
  under way, as in `udp_stale_query`; the word size is then wrong and `check()`
  throws (`PlaybackInStep` with `"late"` among the `Faults` of `loopback`);
* an object that registers no driver makes `main()` take the last driver that
  was linked (excluded by `LoopBackAssumption`);
* TLAST with a TMS word while a word is in the serialiser ends the reply a word
  early, and the core is still busy when the next header is read (`CoreQuiet`);
* the last step of replaying a full memory reads at `MEM_DEPTH_G`, which is an
  error in simulation only: the value is not used (`Ram` yields `Bogus`, and
  `RepliesMatch` holds).

Late and reordered datagrams do happen on routed networks but hardly on a point
to point link.

### Fairness

* `XvcOverUdp!FairSpec`: weak fairness of the driver's transfer steps and of the
  firmware. The server's thread runs and `poll` has a timeout; the firmware
  handles what arrives. Nothing is assumed of clients, faults and restarts.
* `XvcConn!FairSpec`: weak fairness of the server's steps as one, but not of
  `FlushSome`: the server is one thread, and its `write` waits for the client to read.
  Clients may stop at any point, and need not read. `Answered` and `ClientsHandled`
  except the behaviours that end that way (`<>[]Blocked`): a client that is served,
  keeps its connection and never takes its answer does leave all others hanging, since
  `flush()` has no timeout and the listening socket is looked at in `read()` only.
* `AxisToJtag!FairSpec`: the clock runs, the master does not withhold a word
  forever, the slave is not busy forever. That is the AXI stream contract.
* `RegDrivers!Spec`: the server's thread runs, and the hardware shifts the word it
  was given. Nothing is assumed of clients and kills.
* `FifoDrivers!Spec`: the process runs, the clock ticks, interrupts are delivered,
  and the target neither refuses words nor holds its reply back for ever
  (what `axis` shows of it). The poll loops of the code have no other end.
* `LoopBack!Spec`: both threads run.

## 4. Proofs

Each theorem holds for every value of the constants that the `ASSUME`s of the
modules allow and, where it says so, under an assumption of its own; section 3
tells what happens without it. All of them are of the form `Spec => []Inv`, from
an inductive invariant that was checked by TLC first, except the two refinements.

| theorem | property | own assumptions | inductive invariant |
|---|---|---|---|
| TypeCorrect | `XvcOverUdp!TypeOK` | | itself |
| QueueInOrder | `QueueInv` | target with memory, no reordering | itself |
| AtMostOnce | `AtMostOnceInOrder` | the same | `QueueInv` |
| AtMostOnceNoMemory | `AtMostOnceInOrder` | no memory, `Period = 0`, `PlainFaults` | `NoMemInv` |
| ParametersTrue | `TrueParameters` | the same | `NoMemInv` |
| OwnTdoReturned | `OwnTdo` | `Period = 0`, no reordering, `[]FewFailures` | `ReplyInv` |
| DriverImplementsOnce | `ImplementsOnce` (refinement) | the same, and memory | `QueueInv`, `ReplyInv` |
| ConnTypes, BuffersInBounds | `XvcConn!TypeOK`, `InBounds` | | `BoundsInv` |
| AnswersInOrder | `AnswersMatch` | | `AnswersInv` |
| BitsOnce | `EachBitOnce` | no bit count within 7 of 2^32 | `AnswersInv` |
| StatesInStep, PortsAgree | `StatesAgree`, `VariantsAgree` | | `PortsInv` |
| InstructionReported, SnifferFollows | `InstructionKnown`, `SnifferKnows` | | `InstrInv` |
| ScannedThrough, UserScanned | `ScanThrough`, `UserScan` | four different instructions | `DataInv` |
| MessageInOrder | `PairsInOrder` | | `SendInv` |
| BitsDriven, TdoStored | `BitsInOrder`, `TdoInPlace` | | `SendInv`, `BitsInv` |
| FramesWhole, ReplyIsOwn, FifosClean | `FrameWhole`, `OwnReply`, `FifoClean` | `FramesFit` | `FifoInv` |
| DriverRequested | `RequestedDriver` | no option `-D ""` | `RegistryInv` |
| PlaybackStaysInStep, PlaybackTdo | `PlaybackInStep`, `LoopTdo` | no late replies, two ids besides `XID_ANY` | `LoopInv` |
| LoopImplementsOnce | `LoopOnce` (refinement) | the same | `LoopInv` |

### At most once (`XvcOverUdpProofs`)

For every number of ids, word size, memory depth, retry count, MTU, and any
number of calls, faults and restarts. Types hold with reordering, too. AtMostOnce
assumes a target with memory (`MemDepth > 0`) and no reordering
(`"swap" \notin Faults`); for a target without memory see AtMostOnceNoMemory below.

`AtMostOnceInOrder` is not inductive: it says nothing of the requests under way.
`QueueInv` adds that (1) requests in the queue are ordered by call, and copies
of one shift carry one id; (2) none is older than the last shift driven, and one
for that very shift carries the remembered id, and then the memory is valid;
(3) what the driver is sending is at least as new as everything in the queue.
So the head of the queue is either the shift driven last, which is replayed, or
a newer one. A query between a shift and its copy would reset the memory and let
the copy run: that is why (1) also says that a query is strictly older than the
shifts behind it. Conditions are operators on constants (`QueueOrdered`,
`NewestRequest`, `NotOutdated`), so that every step of the queue — append, remove
the head, repeat the head, execute, query — is one lemma, and the step lemmas
choose among them. `QueueInv` is an invariant of the run `udp_faults` too.

A target without memory drives whatever it is sent; what protects it is that the
driver makes no second attempt (`retry_ = 0`), provided it knows that there is no
memory. So the two theorems are one argument. `NoMemInv` says that `par` is the
target's whenever a shift can be sent, that the shifts in the queue are newer than
what was driven, and that in the present process a shift's request or
reply is under way only while `sendVectors` waits for it (`NoShiftUnderWay`,
`OneShiftUnderWay`): when it gives up the process ends, and its socket with it, so that a
query can only meet replies to queries. `PlainFaults` (losses, late replies, kills)
is what that needs: with a copy or a reordering a request is driven twice, and a
`SysErr` leaves a late reply on a socket that goes on to be used. With
`Period = 0` the reply to a query is not taken for that to a shift.

### Own TDO, and the refinement (`XvcOwnTdoProofs`)

The driver takes a reply by its id alone. `ReplyInv` says which call an id stands
for: ids count calls modulo `XidMax` and step over `XID_ANY`, so that within
`XidMax` calls in a row the distance of two ids is the distance of the calls
(`Stamped`, for every request and reply of the present process under way and for
the firmware's memory). Replies are no newer than the requests behind
them, nothing of an older process is left once the firmware has answered the
query in `init()`, and the memory holds the last shift driven. A reply with the
id that is waited for is therefore the reply to the present call.
`FewFailures` (fewer than `XidMax`, 255 in the code, calls of `sendVectors` in a
row that do not return) keeps an id from coming up again while an old reply may
be under way; `Period = 0` (a target that does not tell its period) keeps the
reply to a query from looking like the reply to a shift. DriverImplementsOnce
maps `Issue`, `Drive` and `Return` of JtagOnce to `SendVectors`, the execution of
a shift and `ShiftDone`: each step of the system is one of these or a stutter.

### The connection (`XvcConnProofs`, `XvcAnswersProofs`)

Bounds: `read()` at the top of the loop ends within a chunk; `fill()` may go
beyond, but then the buffer holds no more than the command asks for, so it is
empty, with `rp_` back at 0, when the command is done (`BufferInv`). The octets of
the chunks sent, and what is left, add up to the vector (`ChunkInv`). All bit
counts are covered, those for which `bits + 7` wraps included.

Answers: what was received and not yet taken, in the buffer and on the wire, is a
piece of the stream without gaps that begins where `run()` is (`InStream`,
`Begins`, `Whole`); the answer sent, together with what is in `txb_`, is the
answers to the requests before that place and the part of the present one that
the chunks have covered. `AnswersMatch` compares with a concatenation over all
requests, for which induction over the number of requests is needed; it is done
by the set of counterexamples and its least element (`SetInduction`), since
induction over a predicate cannot be instantiated. BitsOnce excludes bit counts
that wrap because it would be false: the vector then counts as empty, and the
loop drives chunks of no bits for ever.

### TAP and sniffers (`JtagTapProofs`)

For registers of any length and contents; what ScannedThrough says of the report of
the server's sniffer is, as `ScanThrough` is, about scans of fewer bits than an `int`
has, whatever a shift beyond it does in the build (`Beyond`). `PortsInv`: the pairs of state vectors
and names are those of `TapStates`, and before TCK rises both variants of the
BSCAN port have what state and instruction call for. `InstrInv` and `DataInv` add,
for the middle of a scan, what the shift registers hold: the last bits of the
captured value followed by what was sent so far, also across pauses, and
which bit is on TDO. ScannedThrough and UserScanned assume that IDCODE,
USERCODE, USER and BYPASS are four different instructions, as in `JtagTapIR.vhd`:
of two with one code only one can be selected.

### Messages and register drivers (`RegDriversProofs`)

For every limit, 0 included, every word size and length of vector, with nothing
assumed of the room in `txBuf_`: that it suffices is false of the code
(`send_overrun`), and where it does not the theorems are about the process that goes
on as if it did; of one that ends up in `Overrun` they say nothing more. `CopyInv` keeps the
loop's two positions in step (`wp = wordSize + 2 * idx`), `FilledInv` says that
each octet before `idx` is in both of its places (`Places`: different octets have
different places, for all word sizes).

`BitsInv` says, for every place of the code in `xfer()` and in `reset()`, which
bits TCK has driven, where TDO is, and what is to come: in between words 8 * `po`
bits are driven and `pi = 4 + 2 * po` is the next pair of words (`LoadInv`); within
a word `eng.cnt` more are driven and as many bits of TDO are at the bottom of
the register, or at the top for the serialiser (`WordInv`, `PollInv`, `LowInv`,
`HighInv`); what is stored is TDO from edge `start` + 1 on (`XferInv`). A word of
the message is a word of the vectors by `PairsInOrder` (`MessageWord`). The three
ways of driving a word meet in `WordDone`, from where on they are one proof.

### FIFO drivers (`FifoDriversProofs`)

For every depth of the FIFO, size of messages, distance of two accesses of at least
seven clocks, number of calls and processes, pauses on both streams in every
clock, polled and with interrupts. The only assumption, `FramesFit`, is that the
messages sent fit the FIFO. It is not always true of the code: the limit of the
vendor's FIFO implies it (`xvcDrvAxisFifo.cc:46-51`), but that of the TMEM driver,
rounded up to words, is a word too long (`send_round`).

`FifoInv` follows the words of a message, and of its reply, through the hardware.
From the write that hands the FIFO over until the last word of the reply is stored
(`Sending`, `ZSending`) the frame that the target has, the word in the register and
the words in the FIFO are the message, in order and without gaps, the frame has
ended exactly if nothing is left, and the incoming FIFO holds the reply so far
(`Flow`). Since TLAST is made of the FIFO running empty, that is what puts it in its
place. A reply out of the memory overtakes its request: it is complete, and `xfer()` may
read it, while the target takes the rest of the request (`Draining`). Nothing tells
software when that is over; it is before the next message since the target then takes
a word in each clock, and accesses are at least `Gap` clocks apart: for each word of
the reply that was read, two words of the request are gone, and with the last one all
(`Behind`). Then the count of words is the length of the reply and nothing moves, until
`xfer()` has read as many words as it was told (`XferInv`). The process may end
anywhere: of the FIFOs of a process that is gone nothing is said, only that a message
under way remains one (`HwSending`, `ZFlow`). What a new process finds is cleared by
the reset: in the state behind its request the FIFO is empty, or the reset has gone
on for as many clocks as have passed (`HwPc`, `"unrst"`), and an access is at
least `Gap` clocks later; once it is asked for no more, it is over before the next
access (`HwReset`), so no word that is written is lost and the interrupt
enable survives. For the vendor's FIFO a side is waiting, its bit is set, or the
driver has seen it (`ZSide`).

### Registry, loopback and emulator (`LoopBackProofs`)

DriverRequested holds for any table of drivers and options: `find()` returns the last
entry with the name (`FindLast`). An empty name, as `-D ""` gives, asks for no
driver in particular, and is excluded.

The emulator plays a file, and a record played for the wrong shift makes it throw.
`LoopInv`: of a call there is one message under way at a time, a request or a reply
(`OneMessage`), which holds since replies are not late. While a shift is under way
either its record was played, and then the emulator has its reply for a retry, or it
was not, and then the emulator's last message has another id (`ShiftInv`; this
takes two ids besides `XID_ANY`, `XidMax > 1`). A query opens the file again, and
the test begins again with it. With a late reply this fails, as section 3 says. The
refinement of JtagOnce maps the playing of a record to `Drive`: the emulator is
shown to implement what the firmware does.

### Only model-checked

Liveness, since the prover has neither fairness nor ENABLED: `CallsReturn`,
`Answered`, `ClientsHandled`, `AllAnswered`, `TransfersEnd`, `XferReturns`,
`LoopReturns`. The clocked firmware: `RepliesMatch` compares it with a fold over
whole requests, and what a fold computes for every input takes induction over
data; `WritesInRange` and `CoreQuiet` relate three state machines in every clock
and have no proof yet.

## 5. Not modelled

* Synchronous resets of the firmware and TKEEP; hardware metastability.
* Printing, debug output and help texts; the conversion of numbers in options.
* A bit count near 2^32 in a `shift:` message, for which `bits + 7` wraps, is in
  the model (`Wrap`) and in the theorems, but in no run.
* What `jtagDump` shows of scans of 32 bits and more, like that of an IDCODE. The
  model has it (`1<<bitpos_` is an `int` shift, `jtagDump.cc:42`: bit 31 sets all bits
  above it, bits 32 to 63 are undefined), and with `MaxBits` up to `INT_BITS` a report
  with wrong bits is reached; `ScanThrough` is not stated for it, nor does a line of
  the repository promise it.
* A truncated reply, whose end `sendVectors` would not notice
  (`xvcSrv.cc:471`): UDP cuts no requests.
* IP fragmentation and `IP_MTU` counting headers: a datagram too large shows as
  a `SysErr`.
* The values of uninitialised members other than `xid_` and `tbuf_`: `useSdes_`
  when the probe finds no serialiser, and `f_` without a file. They are taken as
  FALSE and 0; the hazards of `PROJECT.json` name the first.
* The measurement that lets a register driver sleep between two looks at the
  status: it changes when `Poll` happens, not what it does. (`~useSdes_` is never
  0, so the TMEM driver does not measure at all.)
* Errors that the loopback driver makes for a wrong version or command: no
  driver of the repository sends such a message.
* In FifoDrivers, how the vendor's FIFO sets bit 0 of its reset registers, which the
  driver polls (`xvcDrvAxisFifo.cc:106,112`): it is taken to be clear exactly while the
  reset is under way (`RstBit`). With that FIFO, which has no clock in the model, the
  last word of a reply out of the memory waits until its request is absorbed (`ZIn`).
  Whole words beyond the caller's vector, which `xfer()` would discard, come from no
  target of the model.
* In FifoDrivers, a process that is started while the target still works for
  the one before: no reset of a driver reaches the target, so its reply would
  meet the successor. `Quiescent` states the assumption.
* `mmioHelper.h` (mmap), `xvcDrvFoo.cc` (a skeleton), `xvcDrvSerDesTmem.h` (no code
  uses it), the stub `AxisJtagDebugBridge.vhd`, vendor primitives, test benches
  and scripts.
* In JtagTap the registers of the sniffers are dropped where they are not read
  any more (at Update, until the next Capture), to keep the state space small.

## 6. What is left

All modules and runs of sections 2 and 3 and the theorems of section 4 are done.
A next step would be the clocked firmware: `WritesInRange` and `CoreQuiet` do not
need the fold, but an invariant over the registers of AxisToJtag, AxisToJtagCore
and JtagSerDesCore together.
