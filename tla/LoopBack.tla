------------------------------- MODULE LoopBack -------------------------------
(***************************************************************************)
(* main() (xvcSrv.cc) from its options to a running server, with the two   *)
(* drivers that need no hardware (xvcDrvLoopBack.cc): "loopback", whose    *)
(* xfer() answers by itself, and "udpLoopback", where the UDP driver       *)
(* (XferRel) talks to an emulator of the firmware in another thread.       *)
(*                                                                         *)
(* Both play TDO back from a file that holds the vectors of a test, one    *)
(* record for each shift after a query, and check TMS and TDI against it.  *)
(* When it ends they loop TDI back.  The vectors of a shift are stood for  *)
(* by the record that the test has for it.                                 *)
(***************************************************************************)
EXTENDS XferRel

CONSTANTS
    Builtin,    \* entries that the linked drivers have registered, in order
    Objects,    \* shared object -> entries that it registers when it is loaded
    Options,    \* what the command line may say: driver, whether there is a target
                \* (for a loopback the file), whether the file has nothing but TDO
    EmuDepth,   \* UdpLoopBack::emulMemDepth() (180)
    DropEvery,  \* 256: the emulator ignores one datagram out of so many
    Records     \* records in the playback file

ASSUME LoopBackAssumption ==
    /\ EmuDepth \in Nat \ {0} /\ DropEvery \in Nat /\ DropEvery > 1
    /\ Records \in Nat \ {0}
    /\ Builtin \in Seq([name : STRING, needTarget : BOOLEAN])
    /\ \A o \in DOMAIN Objects :
          Objects[o] \in Seq([name : STRING, needTarget : BOOLEAN]) \ {<<>>}
    /\ Options \subseteq [drvnam : STRING, target : BOOLEAN, tdoOnly : BOOLEAN]

VARIABLES
    opt,      \* the options in effect
    boot,     \* how far main() is: "args", "loop", "thread", "init", "up", "exit"
    entries,  \* entries_ of the registry
    drv,      \* name of the driver that was created
    emu,      \* the emulator: thread runs, nothing thrown, tsiz_ >= 0, tbuf_, file, drop_
    played,   \* shifts that went to the file or were looped back, in order
    vec       \* record that the test has for a shift

mainVars == <<opt, boot, entries, drv>>
loopVars == <<emu, played>>
vars == <<drvVars, netVars, mainVars, loopVars, vec>>

udp == drv = "udpLoopback"

\* A reply: TDO is that of the shift called id, or of none
Answer(h, id) == [hdr |-> h, id |-> id, words |-> IF h.cmd = CMD_S THEN NumWords(h) ELSE 0]

noFile == ~opt.target

\* Nothing has been written to tbuf_
EmuInit(x) ==
    [up |-> FALSE, ok |-> TRUE, tsiz |-> FALSE, tbuf |-> Answer(mkShift(x, 1), 0),
     line |-> 0, skip |-> noFile, drop |-> 0]

Init ==
    /\ NetInit /\ DrvInit
    /\ opt \in Options
    /\ boot = "args" /\ entries = Builtin /\ drv = ""
    /\ \E x \in 0..XidMax : emu = EmuInit(x)
    /\ played = <<>> /\ vec = <<>>

-----------------------------------------------------------------------------
(* The registry *)

Entry(name, needTarget) == [name |-> name, needTarget |-> needTarget]

\* What the registrars of a driver's object do when it is loaded
registerFactory(reg, new) == reg \o new

\* A mutant of find: from the front
findFirst(reg, name) ==
    LET hits == {i \in 1..Len(reg) : name = "" \/ reg[i].name = name}
    IN  IF hits = {} THEN 0 ELSE CHOOSE i \in hits : \A j \in hits : i <= j
\* The last one of that name, or the last one of all
find(reg, name) ==
    LET hits == {i \in 1..Len(reg) : name = "" \/ reg[i].name = name}
    IN  IF hits = {} THEN 0 ELSE CHOOSE i \in hits : \A j \in hits : i >= j

has(name) == find(entries, name) # 0

\* create() finds a driver, and throws when it needs a target and there is none
create(reg, name) ==
    LET e == reg[find(reg, name)]
    IN  IF e.needTarget /\ ~opt.target
        THEN boot' = "exit" /\ UNCHANGED drv
        ELSE boot' = "init" /\ drv' = e.name

-----------------------------------------------------------------------------
(* main() *)

CreateUdpLoopback ==
    /\ boot = "args" /\ opt.drvnam = "udpLoopback"
    /\ drv' = "udpLoopback"
    /\ boot' = "loop"
    /\ UNCHANGED <<opt, entries>>

CreateRegistered ==
    /\ boot = "args" /\ opt.drvnam # "udpLoopback"
    /\ has(opt.drvnam)
    /\ create(entries, opt.drvnam)
    /\ UNCHANGED <<opt, entries>>

\* A driver that nobody registered is the name of a shared object; its drivers
\* register themselves, and the last one is taken.
LoadAndCreate ==
    /\ boot = "args" /\ opt.drvnam # "udpLoopback"
    /\ ~has(opt.drvnam)
    /\ IF opt.drvnam \in DOMAIN Objects
       THEN entries' = registerFactory(entries, Objects[opt.drvnam]) /\ create(entries', "")
       ELSE boot' = "exit" /\ UNCHANGED <<entries, drv>>
    /\ UNCHANGED opt

\* "must fire up the loopback UDP (FW emulation) first": it queries itself, ...
LoopInit == boot = "loop" /\ boot' = "thread" /\ UNCHANGED <<opt, entries, drv>>

\* ... and its thread may run before or after drv->init() has sent its query
ThreadStart ==
    /\ udp /\ boot \in {"init", "up"} /\ ~emu.up
    /\ emu' = [emu EXCEPT !.up = TRUE]
    /\ UNCHANGED <<drvVars, netVars, mainVars, played, vec>>

ThreadCreate == boot = "thread" /\ boot' = "init" /\ UNCHANGED <<opt, entries, drv>>

Main ==
    /\ CreateUdpLoopback \/ CreateRegistered \/ LoadAndCreate \/ LoopInit \/ ThreadCreate
    /\ UNCHANGED <<drvVars, netVars, loopVars, vec>>

DrvStart ==
    /\ boot = "init" /\ drv \in {"loopback", "udpLoopback"}
    /\ boot' = "up"
    /\ Start
    /\ UNCHANGED <<opt, entries, drv, loopVars, vec>>

\* The calls of the server.  A query makes the file start again, so the test's
\* next shift is that of the first record.
DrvCalls ==
    /\ boot = "up"
    /\ Calls
    /\ vec' = IF nShift' = nShift THEN vec
              ELSE Append(vec, IF cur.hdr.cmd = CMD_S THEN vec[nShift] + 1 ELSE 1)
    /\ UNCHANGED <<mainVars, loopVars>>

-----------------------------------------------------------------------------
(* xfer() of JtagDriverLoopBack *)

emulMemDepth == IF udp THEN EmuDepth ELSE 0

\* A mutant of QueryXfer: the file is opened once and for all
QueryXferGoesOn(m) ==
    [emu |-> emu, reply |-> Answer([m.hdr EXCEPT !.low = emulMemDepth * 16 + (WordSize - 1)], 0)]
\* A query makes the file, if there is one, start again
QueryXfer(m) ==
    [emu |-> [emu EXCEPT !.line = 0, !.skip = noFile],
     reply |-> Answer([m.hdr EXCEPT !.low = emulMemDepth * 16 + (WordSize - 1)], 0)]

\* There is a line left in the file
rdl == ~emu.skip /\ emu.line < Records

\* LEN, TMS and TDI are those of the next record, else check() throws
check(m) == ~rdl \/ opt.tdoOnly \/ emu.line + 1 = vec[m.id]

\* TDO of the next record.  At the end of the file TDI is looped back, if the file
\* was looked at in time: with nothing but TDO in it, it is not.
getTDO(m) ==
    LET looped == emu.skip \/ (~rdl /\ ~opt.tdoOnly)
    IN  IF looped \/ (rdl /\ emu.line + 1 = vec[m.id]) THEN m.id ELSE 0

ShiftXfer(m) ==
    [emu |-> [emu EXCEPT !.skip = ~rdl, !.line = IF rdl THEN @ + 1 ELSE @, !.ok = check(m)],
     reply |-> Answer(m.hdr, getTDO(m))]

LoopXfer(m) == IF m.hdr.cmd = CMD_Q THEN QueryXfer(m) ELSE ShiftXfer(m)

(* xfer() of UdpLoopBack: the header of the last reply is still in tbuf_ *)

\* A mutant of isRetry: any shift after the first
isRetryAny(m) == m.hdr.cmd = CMD_S /\ emu.tsiz
isRetry(m) == m.hdr.cmd = CMD_S /\ getXid(m.hdr) = getXid(emu.tbuf.hdr)

UdpXfer(m) ==
    IF isRetry(m)
    THEN [emu |-> [emu EXCEPT !.ok = emu.tsiz], reply |-> emu.tbuf]
    ELSE LET x == LoopXfer(m)
         IN  [emu |-> [x.emu EXCEPT !.tsiz = m.hdr.cmd = CMD_S, !.tbuf = x.reply],
              reply |-> x.reply]

Executed(m) == played' = IF m.hdr.cmd = CMD_S THEN Append(played, m.id) ELSE played

\* run(): the emulator's thread
DropRequest ==
    /\ (emu.drop + 1) % DropEvery = 0
    /\ emu' = [emu EXCEPT !.drop = 0]
    /\ UNCHANGED <<rep, played>>

\* A mutant of AnswerRequest: a retry goes to the file like a new shift
AnswerAgain ==
    LET m == Head(req)
        x == LoopXfer(m)
    IN  /\ (emu.drop + 1) % DropEvery # 0
        /\ emu' = [x.emu EXCEPT !.drop = @ + 1]
        /\ IF x.emu.ok THEN Reply(m, x.reply) ELSE UNCHANGED rep
        /\ Executed(m)
AnswerRequest ==
    LET m == Head(req)
        x == UdpXfer(m)
    IN  /\ (emu.drop + 1) % DropEvery # 0
        /\ emu' = [x.emu EXCEPT !.drop = @ + 1]
        /\ IF x.emu.ok THEN Reply(m, x.reply) ELSE UNCHANGED rep
        /\ IF isRetry(m) THEN UNCHANGED played ELSE Executed(m)

EmulatorRun ==
    /\ udp /\ emu.up /\ emu.ok /\ req # <<>>
    /\ DropRequest \/ AnswerRequest
    /\ req' = Tail(req)
    /\ UNCHANGED <<faults, epoch, drvVars, mainVars, vec>>

\* Without UDP, in the thread that called
InProcess ==
    /\ ~udp /\ emu.ok /\ req # <<>>
    /\ LET m == Head(req)
           x == LoopXfer(m)
       IN  /\ emu' = x.emu
           /\ IF x.emu.ok THEN Reply(m, x.reply) ELSE UNCHANGED rep
           /\ Executed(m)
    /\ req' = Tail(req)
    /\ UNCHANGED <<faults, epoch, drvVars, mainVars, vec>>

-----------------------------------------------------------------------------
DrvXfer == Xfer /\ (~udp => faults' = faults) /\ UNCHANGED <<mainVars, loopVars, vec>>

Lost == udp /\ (LoseReq \/ LoseRep) /\ UNCHANGED <<drvVars, mainVars, loopVars, vec>>

Next == Main \/ ThreadStart \/ DrvStart \/ DrvCalls \/ DrvXfer \/ EmulatorRun \/ InProcess \/ Lost

\* Both threads run
Spec ==
    /\ Init /\ [][Next]_vars
    /\ WF_vars(ThreadStart) /\ WF_vars(DrvXfer) /\ WF_vars(EmulatorRun) /\ WF_vars(InProcess)

-----------------------------------------------------------------------------
\* The file stays in step with the test: no retry of a dropped request or of a lost
\* answer makes the emulator play a record for the wrong shift, so check() does not
\* throw, and neither does a retry find the emulator without a message.
PlaybackInStep ==
    /\ emu.ok
    /\ \A k \in 1..Len(played) : \A j \in (k + 1)..Len(played) : played[k] < played[j]

\* sendVectors returns the TDO that belongs to its own vectors: from the file as
\* far as it reaches, then TDI looped back.  The first shift behind the end of a
\* file with nothing but TDO is answered with zeros.
LoopTdo ==
    delivered.shift > 0 /\ delivered.wordSize = WordSize =>
        \/ delivered.tdo = delivered.shift
        \/ opt.tdoOnly /\ vec[delivered.shift] = Records + 1

\* Every call returns although the emulator drops one datagram out of DropEvery and
\* its thread may start after the driver's first query was sent.  What the network
\* itself loses is counted by faults.
LoopReturns == pc \in {"send", "wait"} ~> (pc = "idle" \/ faults > 0)

Once == INSTANCE JtagOnce WITH issued <- nShift, jtag <- played, returned <- delivered.shift

\* The emulator stands for the firmware: it implements the same abstract
\* specification, a shift at most once and in order.
LoopOnce == Once!OnceSpec

\* The driver that main() created is the one that was asked for: by its name, or as
\* the last one that the object of that name registered, whatever the drivers
\* before it are called.
RequestedDriver ==
    drv # "" =>
        \/ drv = opt.drvnam
        \/ /\ opt.drvnam \in DOMAIN Objects
           /\ drv = Objects[opt.drvnam][Len(Objects[opt.drvnam])].name
===============================================================================
