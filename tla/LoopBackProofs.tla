---------------------------- MODULE LoopBackProofs ----------------------------
(***************************************************************************)
(* Theorems about LoopBack, for every value of its constants: the driver   *)
(* that main() creates, and a playback that stays in step over a transport *)
(* that loses datagrams but whose replies are never late.                  *)
(***************************************************************************)
EXTENDS LoopBack, WellFoundedInduction, TLAPS

\* A set of numbers that is not empty has a least one.
LEMMA SmallestNat ==
    ASSUME NEW T, T \subseteq Nat, T # {}
    PROVE  \E t \in T : \A u \in T : t <= u
  <1> DEFINE R == OpToRel(<, Nat)
  <1>1. IsWellFoundedOn(R, Nat)
    BY NatLessThanWellFounded, Zenon
  <1>2. \A x, y \in Nat : x < y => <<x, y>> \in R
    BY Zenon DEF OpToRel
  <1> HIDE DEF R
  <1>3. PICK t \in T : \A u \in T : ~(<<u, t>> \in R)
    BY <1>1, WFMin
  <1>4. \A u \in T : ~(u < t)
    BY <1>2, <1>3, Zenon
  <1>5. QED
    BY <1>4

\* A set of positions that is not empty has a last one.
LEMMA LastPosition ==
    ASSUME NEW n \in Nat, NEW S, S \subseteq 1..n, S # {}
    PROVE  \E i \in S : \A j \in S : i >= j
  <1> DEFINE T == {k \in Nat : n - k \in S}
  <1>1. \A i \in S : n - i \in T
    <2> SUFFICES ASSUME NEW i \in S PROVE n - i \in Nat /\ n - (n - i) = i
      OBVIOUS
    <2>1. i \in 1..n
      OBVIOUS
    <2>2. QED
      BY <2>1
  <1>2. T \subseteq Nat /\ T # {}
    BY <1>1
  <1>3. PICK t \in T : \A u \in T : t <= u
    BY <1>2, SmallestNat
  <1>4. n - t \in S /\ t \in Nat
    BY <1>3
  <1>5. ASSUME NEW j \in S PROVE n - t >= j
    <2>1. t <= n - j /\ j \in 1..n
      BY <1>1, <1>3
    <2>2. QED
      BY <1>4, <2>1
  <1>6. QED
    BY <1>4, <1>5

\* The entries that find() looks for
Hits(reg, name) == {i \in 1..Len(reg) : name = "" \/ reg[i].name = name}

\* find() returns the last of them.
LEMMA FindLast ==
    ASSUME NEW S, NEW reg \in Seq(S), NEW name, Hits(reg, name) # {}
    PROVE  find(reg, name) \in Hits(reg, name) /\ \A j \in Hits(reg, name) : find(reg, name) >= j
  <1> DEFINE H == Hits(reg, name)
             Best(i) == \A j \in H : i >= j
  <1>1. find(reg, name) = CHOOSE i \in H : Best(i)
    BY Zenon DEF find, Hits
  <1>2. H \subseteq 1..Len(reg) /\ Len(reg) \in Nat
    <2>1. \A i \in H : i \in 1..Len(reg)
      BY Zenon DEF Hits
    <2>2. QED
      BY <2>1
  <1>3. \E i \in H : Best(i)
    <2>1. H # {}
      OBVIOUS
    <2> HIDE DEF H
    <2>2. \E i \in H : \A j \in H : i >= j
      BY <1>2, <2>1, LastPosition
    <2>3. QED
      BY <2>2, Zenon
  <1> HIDE DEF Best, H
  <1>4. find(reg, name) \in H /\ Best(find(reg, name))
    BY <1>1, <1>3, Zenon
  <1>5. QED
    BY <1>4, Zenon DEF Best, H

\* An entry that find() returns has the name.
LEMMA FindHits ==
    ASSUME NEW S, NEW reg \in Seq(S), NEW name, name # "", find(reg, name) # 0
    PROVE  reg[find(reg, name)].name = name
  <1>1. Hits(reg, name) # {}
    BY Zenon DEF find, Hits
  <1>2. find(reg, name) \in Hits(reg, name)
    BY <1>1, FindLast
  <1>3. QED
    BY <1>2, Zenon DEF Hits

\* Without a name it returns the last entry of all.
LEMMA FindAny ==
    ASSUME NEW S, NEW reg \in Seq(S), reg # <<>>
    PROVE  find(reg, "") = Len(reg)
  <1> DEFINE n == Len(reg)
  <1>1. \A i : i \in Hits(reg, "") <=> i \in 1..n
    BY Zenon DEF Hits
  <1>2. n \in Nat /\ n # 0
    OBVIOUS
  <1> HIDE DEF n
  <1>3. n \in Hits(reg, "")
    <2>1. n \in 1..n
      BY <1>2
    <2>2. QED
      BY <1>1, <2>1, Zenon
  <1>4. find(reg, "") \in Hits(reg, "") /\ find(reg, "") >= n
    <2>1. Hits(reg, "") # {}
      BY <1>3
    <2>2. QED
      BY <1>3, <2>1, FindLast
  <1>5. find(reg, "") \in 1..n
    BY <1>1, <1>4, Zenon
  <1>6. \A f \in 1..n : f >= n => f = n
    BY <1>2
  <1>7. QED
    BY <1>4, <1>5, <1>6, Zenon DEF n

\* The last element of two sequences joined.
LEMMA LastOfJoined ==
    ASSUME NEW S, NEW s \in Seq(S), NEW t \in Seq(S), t # <<>>
    PROVE  s \o t \in Seq(S) /\ s \o t # <<>> /\ (s \o t)[Len(s \o t)] = t[Len(t)]
  <1>1. Len(s) \in Nat /\ Len(t) \in Nat \ {0} /\ s \o t \in Seq(S) /\ Len(s \o t) = Len(s) + Len(t)
    OBVIOUS
  <1>2. (s \o t)[Len(s) + Len(t)] = t[Len(t)]
    BY <1>1
  <1>3. QED
    BY <1>1, <1>2

\* Before a driver is created the registry has what was linked.
RegistryInv ==
    /\ opt \in Options
    /\ boot = "args" => entries = Builtin /\ drv = ""

\* The driver that runs is the one that the command line asks for, whatever other
\* entries the registry has: by its name, or as the last one of the object that was
\* loaded for it.  An empty name asks for no driver in particular.
THEOREM DriverRequested ==
    ASSUME \A o \in Options : o.drvnam # ""
    PROVE  Spec => []RequestedDriver
  <1> DEFINE Entries == [name : STRING, needTarget : BOOLEAN]
             Inv == RegistryInv /\ RequestedDriver
  <1>1. Init => Inv
    BY DEF Init, RegistryInv, RequestedDriver
  <1>2. Inv /\ [Next]_vars => Inv'
    <2> SUFFICES ASSUME RegistryInv, RequestedDriver, [Next]_vars PROVE Inv'
      OBVIOUS
    <2>1. CASE UNCHANGED <<opt, entries, drv>> /\ boot' # "args"
      BY <2>1 DEF RegistryInv, RequestedDriver
    <2>2. CASE UNCHANGED mainVars
      BY <2>2 DEF RegistryInv, RequestedDriver, mainVars
    <2>3. CASE CreateUdpLoopback
      BY <2>3 DEF RegistryInv, RequestedDriver, CreateUdpLoopback
    <2>4. CASE CreateRegistered
      <3>1. /\ boot = "args" /\ find(entries, opt.drvnam) # 0 /\ opt' = opt
            /\ create(entries, opt.drvnam)
        BY <2>4 DEF CreateRegistered, has
      <3>2. entries \in Seq(Entries) /\ opt.drvnam # "" /\ drv = ""
        BY <3>1, LoopBackAssumption DEF RegistryInv
      <3>3. entries[find(entries, opt.drvnam)].name = opt.drvnam
        BY <3>1, <3>2, FindHits
      <3>4. boot' # "args" /\ (drv' = drv \/ drv' = opt.drvnam)
        BY <3>1, <3>3 DEF create
      <3>5. QED
        BY <3>1, <3>2, <3>4 DEF RegistryInv, RequestedDriver
    <2>5. CASE LoadAndCreate
      <3> DEFINE o == Objects[opt.drvnam]
      <3>1. boot = "args" /\ opt' = opt /\ drv = ""
        BY <2>5 DEF LoadAndCreate, RegistryInv
      <3>2. CASE opt.drvnam \notin DOMAIN Objects
        BY <2>5, <3>1, <3>2 DEF LoadAndCreate, RegistryInv, RequestedDriver
      <3>3. CASE opt.drvnam \in DOMAIN Objects
        <4>1. /\ entries' = entries \o o /\ create(entries', "")
          BY <2>5, <3>3 DEF LoadAndCreate, registerFactory
        <4>2. entries \in Seq(Entries) /\ o \in Seq(Entries) /\ o # <<>>
          BY <3>1, <3>3, LoopBackAssumption DEF RegistryInv
        <4>3. entries' \in Seq(Entries) /\ entries' # <<>> /\ entries'[Len(entries')] = o[Len(o)]
          BY <4>1, <4>2, LastOfJoined
        <4>4. find(entries', "") = Len(entries')
          BY <4>3, FindAny
        <4>5. boot' # "args" /\ (drv' = drv \/ drv' = o[Len(o)].name)
          BY <4>1, <4>3, <4>4 DEF create
        <4>6. QED
          BY <3>1, <3>3, <4>5 DEF RegistryInv, RequestedDriver
      <3>4. QED
        BY <3>2, <3>3
    <2>6. CASE LoopInit \/ ThreadCreate \/ DrvStart
      BY <2>1, <2>6 DEF LoopInit, ThreadCreate, DrvStart
    <2>7. CASE ThreadStart \/ DrvCalls \/ DrvXfer \/ EmulatorRun \/ InProcess \/ Lost \/ UNCHANGED vars
      BY <2>2, <2>7 DEF ThreadStart, DrvCalls, DrvXfer, EmulatorRun, InProcess, Lost, vars
    <2>8. QED
      BY <2>3, <2>4, <2>5, <2>6, <2>7 DEF Next, Main
  <1>3. QED
    BY <1>1, <1>2, PTL DEF Spec
-----------------------------------------------------------------------------
LastOf(s) == IF s = <<>> THEN 0 ELSE s[Len(s)]

\* With emulator e and options o the file is behind its first v records; behind its
\* end TDI is looped back
InFile(e, o, v) ==
    IF ~o.target THEN e.line = 0 /\ e.skip = TRUE
    ELSE IF v <= Records THEN e.line = v /\ e.skip = FALSE ELSE e.line = Records /\ e.skip = TRUE

\* The record that the test was at when it made the last call
LastVec == IF call = "shift" THEN vec[nShift] ELSE 0

\* t is the TDO of shift n, where shift k has record v[k]
TdoOf(o, v, n, t) == t = n \/ (o.tdoOnly /\ v[n] = Records + 1)

Answers == [hdr : Header, id : Nat, words : Nat]

\* cur is what the last call sends: a query, or the shift with the last id
CurInv ==
    /\ cur \in [hdr : Header, id : Nat, epoch : Nat] /\ cur.epoch = epoch
    /\ call # "shift" => cur.hdr = mkQuery
    /\ call = "shift" => /\ cur.hdr.cmd = CMD_S /\ cur.hdr.xid = xid /\ xid # XID_ANY
                         /\ cur.id = nShift /\ nShift > 0

\* One message at most is under way, and only while the driver waits for its reply
OneMessage ==
    /\ pc # "wait" => req = <<>> /\ rep = <<>>
    /\ pc = "wait" => \/ req = <<cur>> /\ rep = <<>>
                      \/ req = <<>> /\ Len(rep) = 1
                      \/ req = <<>> /\ rep = <<>> /\ udp

\* A query that is answered has opened the file again
QueryInv ==
    pc = "wait" /\ call # "shift" /\ rep # <<>> =>
        InFile(emu, opt, 0) /\ (udp => emu.tbuf.hdr.xid = XID_ANY)

\* A shift went to the file, and can be answered again, or it did not
PlayedInv ==
    /\ InFile(emu, opt, LastVec) /\ LastOf(played) = nShift
    /\ udp => emu.tsiz = TRUE /\ emu.tbuf.hdr = cur.hdr /\ TdoOf(opt, vec, nShift, emu.tbuf.id)
    /\ ~udp => rep # <<>>
    /\ rep # <<>> => Head(rep).hdr = cur.hdr /\ TdoOf(opt, vec, nShift, Head(rep).id)
NotPlayedInv ==
    /\ InFile(emu, opt, LastVec - 1) /\ LastOf(played) < nShift
    /\ udp => emu.tbuf.hdr.xid # xid
    /\ rep = <<>>
ShiftInv == pc \in {"send", "wait"} /\ call = "shift" => PlayedInv \/ NotPlayedInv

IdleInv ==
    pc = "idle" => InFile(emu, opt, LastVec) /\ (udp => emu.tbuf.hdr.xid \in {XID_ANY, xid})

PlayedInOrder(s, n) ==
    /\ s \in Seq(Nat) /\ LastOf(s) <= n
    /\ \A k, j \in 1..Len(s) : k < j => s[k] < s[j]

HistoryInv ==
    /\ PlayedInOrder(played, nShift)
    /\ vec \in Seq(Nat \ {0}) /\ Len(vec) = nShift
    /\ delivered.shift \in 0..nShift
    /\ delivered.shift > 0 => TdoOf(opt, vec, delivered.shift, delivered.tdo)

\* Before init() nothing happened
BootInv ==
    boot # "up" => /\ pc = "down" /\ req = <<>> /\ rep = <<>>
                   /\ nShift = 0 /\ played = <<>> /\ InFile(emu, opt, 0)

EmuType(e) ==
    e \in [up : BOOLEAN, ok : {TRUE}, tsiz : BOOLEAN, tbuf : Answers,
           line : Nat, skip : BOOLEAN, drop : Nat]

LoopType ==
    /\ pc \in {"down", "idle", "send", "wait"} /\ call \in {"init", "connect", "getinfo", "shift"}
    /\ xid \in 0..XidMax /\ nShift \in Nat /\ epoch \in Nat
    /\ EmuType(emu) /\ rep \in Seq(Answers) /\ opt \in Options

LoopInv ==
    /\ LoopType /\ HistoryInv /\ BootInv
    /\ boot = "up" => CurInv /\ OneMessage /\ QueryInv /\ ShiftInv /\ IdleInv

-----------------------------------------------------------------------------
\* The numbers that the protocol has.
LEMMA Numbers ==
    /\ XidMax \in Nat \ {0} /\ WordSize \in 4..16 /\ Low20 \in Nat
    /\ Records \in Nat \ {0} /\ EmuDepth \in Nat
    /\ Lens \subseteq 1..Low20
  <1>1. Low20 \in Nat
    BY SMT DEF Low20
  <1>2. QED
    BY <1>1, ProtocolAssumption, DriverAssumption, LoopBackAssumption

\* Headers stay headers, and an answer of either kind is one.
LEMMA AnswerTypes ==
    /\ mkQuery \in Header
    /\ \A h \in Header : NumWords(h) \in Nat
    /\ \A h \in Header, id \in Nat : Answer(h, id) \in Answers /\ Answer(h, id).hdr = h
                                     /\ Answer(h, id).id = id
    /\ \A h \in Header, l \in Nat : [h EXCEPT !.low = l] \in Header /\ [h EXCEPT !.low = l].xid = h.xid
  <1>1. mkQuery \in Header
    BY Numbers DEF mkQuery, XID_ANY, Header
  <1>2. ASSUME NEW h \in Header PROVE NumWords(h) \in Nat
    <2>1. h.low \in Nat /\ WordSize \in 4..16
      BY Numbers DEF Header
    <2>2. 8 * WordSize \in Nat \ {0}
      BY <2>1
    <2>3. \A a \in Nat, b \in Nat \ {0} : (a + b - 1) \div b \in Nat
      OBVIOUS
    <2>4. h.low + 1 \in Nat
      BY <2>1
    <2>5. QED
      BY <2>2, <2>3, <2>4 DEF NumWords, getLen
  <1>3. ASSUME NEW h \in Header, NEW id \in Nat
        PROVE  Answer(h, id) \in Answers /\ Answer(h, id).hdr = h /\ Answer(h, id).id = id
    BY <1>2 DEF Answer, Answers
  <1>4. ASSUME NEW h \in Header, NEW l \in Nat
        PROVE  [h EXCEPT !.low = l] \in Header /\ [h EXCEPT !.low = l].xid = h.xid
    BY DEF Header
  <1>5. QED
    BY <1>1, <1>2, <1>3, <1>4

\* The next transaction id is neither the last one nor XID_ANY.
LEMMA NewId ==
    ASSUME NEW x \in 0..XidMax, XidMax > 1
    PROVE  newXid(x) \in 1..XidMax /\ newXid(x) # x
  <1>1. XidMax \in Nat
    BY Numbers
  <1>2. CASE x = XidMax
    BY <1>1, <1>2 DEF newXid, Increment, XID_ANY
  <1>3. CASE x < XidMax
    BY <1>1, <1>3 DEF newXid, Increment, XID_ANY
  <1>4. QED
    BY <1>1, <1>2, <1>3

\* What the fields of the emulator are.
LEMMA EmuFields ==
    ASSUME NEW e
    PROVE  EmuType(e) => /\ e.up \in BOOLEAN /\ e.ok = TRUE /\ e.tsiz \in BOOLEAN /\ e.tbuf \in Answers
                         /\ e.line \in Nat /\ e.skip \in BOOLEAN /\ e.drop \in Nat
                         /\ e.tbuf.hdr \in Header /\ e.tbuf.id \in Nat
  <1>1. ASSUME EmuType(e)
        PROVE  /\ e.up \in BOOLEAN /\ e.ok = TRUE /\ e.tsiz \in BOOLEAN /\ e.tbuf \in Answers
               /\ e.line \in Nat /\ e.skip \in BOOLEAN /\ e.drop \in Nat
    BY <1>1, Zenon DEF EmuType
  <1>2. QED
    BY <1>1 DEF Answers

\* The part of the record that a step of the file changes, ...
SetFile(e, l, s, k) == [e EXCEPT !.skip = s, !.line = l, !.ok = k]

\* The fields after that.
LEMMA SetFileFields ==
    ASSUME NEW e, EmuType(e), NEW l \in Nat, NEW s \in BOOLEAN
    PROVE  /\ EmuType(SetFile(e, l, s, TRUE))
           /\ SetFile(e, l, s, TRUE).line = l /\ SetFile(e, l, s, TRUE).skip = s
           /\ SetFile(e, l, s, TRUE).tsiz = e.tsiz /\ SetFile(e, l, s, TRUE).tbuf = e.tbuf
  BY DEF EmuType, SetFile

\* A shift that the file is ready for plays the record of the test, and TDO is that
\* of the record; behind the end of the file TDI is looped back.
LEMMA ShiftPlays ==
    ASSUME LoopType, HistoryInv, CurInv, call = "shift", InFile(emu, opt, LastVec - 1)
    PROVE  /\ EmuType(ShiftXfer(cur).emu) /\ InFile(ShiftXfer(cur).emu, opt, LastVec)
           /\ ShiftXfer(cur).emu.tsiz = emu.tsiz /\ ShiftXfer(cur).emu.tbuf = emu.tbuf
           /\ ShiftXfer(cur).reply \in Answers /\ ShiftXfer(cur).reply.hdr = cur.hdr
           /\ TdoOf(opt, vec, nShift, ShiftXfer(cur).reply.id)
  <1> DEFINE v == LastVec
             E == ShiftXfer(cur).emu
  <1>1. /\ v \in Nat \ {0} /\ v = vec[cur.id] /\ cur.id = nShift /\ nShift \in Nat
        /\ cur.hdr \in Header /\ Records \in Nat \ {0}
    <2>1. nShift \in 1..Len(vec) /\ vec \in Seq(Nat \ {0}) /\ cur.id = nShift
      BY DEF HistoryInv, CurInv, LoopType
    <2>2. v = vec[nShift]
      BY DEF LastVec
    <2>3. vec[nShift] \in Nat \ {0}
      BY <2>1
    <2>4. cur.hdr \in Header
      BY DEF CurInv
    <2>5. QED
      BY <2>1, <2>2, <2>3, <2>4, Numbers DEF LoopType
  <1>2. EmuType(emu) /\ emu.line \in Nat /\ emu.skip \in BOOLEAN
    BY EmuFields DEF LoopType
  <1>3. InFile(emu, opt, v - 1)
    OBVIOUS
  <1>4. ShiftXfer(cur).reply = Answer(cur.hdr, getTDO(cur))
    BY DEF ShiftXfer
  <1>5. E = SetFile(emu, IF rdl THEN emu.line + 1 ELSE emu.line, ~rdl, check(cur))
    BY Zenon DEF ShiftXfer, SetFile
  <1> HIDE DEF v, E
  <1>6. CASE rdl
    <2>1. emu.skip = FALSE /\ emu.line < Records
      BY <1>6, <1>2 DEF rdl
    <2>2. emu.line = v - 1 /\ opt.target /\ v <= Records
      BY <1>1, <1>2, <1>3, <2>1 DEF InFile
    <2>3. check(cur) = TRUE /\ (~rdl) = FALSE
      <3>1. emu.line + 1 = vec[cur.id]
        BY <1>1, <2>2
      <3>2. QED
        BY <1>6, <3>1, Zenon DEF check
    <2>4. getTDO(cur) = nShift
      BY <1>1, <1>6, <2>2 DEF getTDO
    <2>5. E = SetFile(emu, emu.line + 1, FALSE, TRUE)
      BY <1>5, <1>6, <2>3, Zenon
    <2>6. /\ EmuType(E) /\ E.line = emu.line + 1 /\ E.skip = FALSE
          /\ E.tsiz = emu.tsiz /\ E.tbuf = emu.tbuf
      <3>1. emu.line + 1 \in Nat /\ FALSE \in BOOLEAN
        BY <1>2
      <3>2. QED
        BY <1>2, <2>5, <3>1, SetFileFields, Zenon
    <2>7. InFile(E, opt, v)
      BY <1>1, <2>2, <2>6 DEF InFile
    <2>8. QED
      BY <1>1, <1>4, <2>4, <2>6, <2>7, AnswerTypes DEF TdoOf, v, E
  <1>7. CASE ~rdl
    <2>1. check(cur) = TRUE /\ (~rdl) = TRUE
      BY <1>7, Zenon DEF check
    <2>2. E = SetFile(emu, emu.line, TRUE, TRUE)
      BY <1>5, <1>7, <2>1, Zenon
    <2>3. /\ EmuType(E) /\ E.line = emu.line /\ E.skip = TRUE
          /\ E.tsiz = emu.tsiz /\ E.tbuf = emu.tbuf
      BY <1>2, <2>2, SetFileFields, Zenon
    <2>4. opt.target => v > Records /\ emu.line = Records
      BY <1>1, <1>2, <1>3, <1>7 DEF InFile, rdl
    <2>5. ~opt.target => emu.line = 0
      BY <1>3 DEF InFile
    <2>6. InFile(E, opt, v)
      BY <1>1, <2>3, <2>4, <2>5 DEF InFile
    <2>7. getTDO(cur) = nShift \/ (getTDO(cur) = 0 /\ opt.tdoOnly /\ ~emu.skip)
      BY <1>1, <1>7 DEF getTDO
    <2>8. ~emu.skip => v = Records + 1
      BY <1>1, <1>2, <1>3, <2>4 DEF InFile
    <2>9. getTDO(cur) \in Nat /\ TdoOf(opt, vec, nShift, getTDO(cur))
      BY <1>1, <2>7, <2>8 DEF TdoOf
    <2>10. QED
      BY <1>1, <1>4, <2>3, <2>6, <2>9, AnswerTypes DEF v, E
  <1>8. QED
    BY <1>6, <1>7

\* The part that opening it changes.
OpenFile(e, s) == [e EXCEPT !.line = 0, !.skip = s]

\* The fields after that.
LEMMA OpenFileFields ==
    ASSUME NEW e, EmuType(e), NEW s \in BOOLEAN
    PROVE  EmuType(OpenFile(e, s)) /\ OpenFile(e, s).line = 0 /\ OpenFile(e, s).skip = s
  BY DEF EmuType, OpenFile

\* A query makes the file start again.
LEMMA QueryOpens ==
    ASSUME LoopType, CurInv, call # "shift"
    PROVE  /\ EmuType(QueryXfer(cur).emu) /\ InFile(QueryXfer(cur).emu, opt, 0)
           /\ QueryXfer(cur).reply \in Answers /\ QueryXfer(cur).reply.hdr.xid = XID_ANY
  <1> DEFINE E == QueryXfer(cur).emu
             l == emulMemDepth * 16 + (WordSize - 1)
  <1>1. EmuType(emu) /\ opt.target \in BOOLEAN
    BY LoopBackAssumption DEF LoopType
  <1>2. E = OpenFile(emu, ~opt.target)
    BY Zenon DEF QueryXfer, noFile, OpenFile
  <1>3. ASSUME opt.target PROVE EmuType(E) /\ InFile(E, opt, 0)
    <2>1. E = OpenFile(emu, FALSE)
      BY <1>2, <1>3, Zenon
    <2>2. EmuType(E) /\ E.line = 0 /\ E.skip = FALSE
      BY <1>1, <2>1, OpenFileFields, Zenon
    <2>3. QED
      BY <1>3, <2>2, Numbers DEF InFile
  <1>4. ASSUME ~opt.target PROVE EmuType(E) /\ InFile(E, opt, 0)
    <2>1. E = OpenFile(emu, TRUE)
      BY <1>2, <1>4, Zenon
    <2>2. EmuType(E) /\ E.line = 0 /\ E.skip = TRUE
      BY <1>1, <2>1, OpenFileFields, Zenon
    <2>3. QED
      BY <1>4, <2>2 DEF InFile
  <1>5. EmuType(E) /\ InFile(E, opt, 0)
    BY <1>3, <1>4
  <1>6. l \in Nat
    BY Numbers DEF emulMemDepth
  <1>7. cur.hdr \in Header /\ cur.hdr.xid = XID_ANY
    BY DEF CurInv, mkQuery
  <1>8. QueryXfer(cur).reply = Answer([cur.hdr EXCEPT !.low = l], 0)
    BY Zenon DEF QueryXfer
  <1> HIDE DEF l, E
  <1>9. [cur.hdr EXCEPT !.low = l] \in Header /\ [cur.hdr EXCEPT !.low = l].xid = XID_ANY
    BY <1>6, <1>7, AnswerTypes
  <1> DEFINE H == [cur.hdr EXCEPT !.low = l]
  <1> HIDE DEF H
  <1>10. Answer(H, 0) \in Answers /\ Answer(H, 0).hdr = H
    <2>1. H \in Header /\ 0 \in Nat
      BY <1>9 DEF H
    <2>2. QED
      BY <2>1, AnswerTypes
  <1>11. QED
    BY <1>5, <1>8, <1>9, <1>10, Zenon DEF E, H

-----------------------------------------------------------------------------
(* The steps of the emulator, by what they do *)

\* The emulator's turn: one request is under way, the driver waits
Turn ==
    /\ LoopInv /\ boot = "up" /\ req # <<>> /\ req' = Tail(req)
    /\ UNCHANGED <<epoch, drvVars, mainVars, vec>>

\* The message is the one that the driver waits for, and the driver stands still.
LEMMA TurnFacts ==
    ASSUME Turn
    PROVE  /\ pc = "wait" /\ req = <<cur>> /\ Head(req) = cur /\ rep = <<>> /\ req' = <<>>
           /\ UNCHANGED <<pc, call, cur, xid, delivered, nShift, opt, boot, drv, vec, epoch>>
           /\ udp' = udp /\ LastVec' = LastVec /\ CurInv /\ CurInv'
           /\ LoopType /\ HistoryInv /\ ShiftInv
  <1>1. pc = "wait" /\ req = <<cur>> /\ rep = <<>> /\ CurInv /\ LoopType /\ HistoryInv /\ ShiftInv
    BY DEF Turn, LoopInv, OneMessage
  <1>2. Head(req) = cur /\ req' = <<>>
    BY <1>1 DEF Turn
  <1>3. UNCHANGED <<pc, call, cur, xid, delivered, nShift, opt, boot, drv, vec, epoch>>
    BY DEF Turn, drvVars, mainVars
  <1>4. udp' = udp /\ LastVec' = LastVec /\ CurInv'
    BY <1>1, <1>3 DEF udp, LastVec, CurInv
  <1>5. QED
    BY <1>1, <1>2, <1>3, <1>4

\* A request is thrown away.
LEMMA DropTurn ==
    ASSUME Turn, udp, EmuType(emu'), rep' = rep, played' = played,
           emu'.line = emu.line, emu'.skip = emu.skip, emu'.tsiz = emu.tsiz, emu'.tbuf = emu.tbuf
    PROVE  LoopInv'
  <1>1. LoopType' /\ HistoryInv' /\ BootInv' /\ CurInv'
    BY TurnFacts DEF LoopType, HistoryInv, BootInv, Turn
  <1>2. OneMessage' /\ QueryInv' /\ IdleInv'
    BY TurnFacts DEF OneMessage, QueryInv, IdleInv
  <1>3. \A v : InFile(emu, opt, v) => InFile(emu', opt', v)
    BY TurnFacts DEF InFile
  <1>4. ShiftInv'
    BY <1>3, TurnFacts DEF ShiftInv, PlayedInv, NotPlayedInv
  <1>5. QED
    BY <1>1, <1>2, <1>4 DEF LoopInv

\* A query is answered.
LEMMA QueryTurn ==
    ASSUME Turn, call # "shift", EmuType(emu'), InFile(emu', opt, 0), played' = played,
           NEW r \in Answers, rep' = Append(rep, r), udp => emu'.tbuf.hdr.xid = XID_ANY
    PROVE  LoopInv'
  <1>1. rep' = <<r>> /\ Len(rep') = 1
    BY TurnFacts
  <1>2. LoopType' /\ HistoryInv' /\ BootInv' /\ CurInv'
    BY <1>1, TurnFacts DEF LoopType, HistoryInv, BootInv, Turn
  <1>3. OneMessage' /\ QueryInv' /\ IdleInv' /\ ShiftInv'
    BY <1>1, TurnFacts DEF OneMessage, QueryInv, IdleInv, ShiftInv
  <1>4. QED
    BY <1>2, <1>3 DEF LoopInv

\* A shift that was played is answered again.
LEMMA RetryTurn ==
    ASSUME Turn, call = "shift", udp, PlayedInv, EmuType(emu'), played' = played,
           rep' = Append(rep, emu.tbuf),
           emu'.line = emu.line, emu'.skip = emu.skip, emu'.tsiz = emu.tsiz, emu'.tbuf = emu.tbuf
    PROVE  LoopInv'
  <1>1. rep' = <<emu.tbuf>> /\ Len(rep') = 1 /\ emu.tbuf \in Answers /\ Head(rep') = emu.tbuf
    <2>1. emu.tbuf \in Answers
      BY TurnFacts, EmuFields DEF LoopType
    <2>2. rep' = <<emu.tbuf>>
      BY TurnFacts
    <2>3. QED
      BY <2>1, <2>2
  <1>2. LoopType' /\ HistoryInv' /\ BootInv' /\ CurInv'
    BY <1>1, TurnFacts DEF LoopType, HistoryInv, BootInv, Turn
  <1>3. OneMessage' /\ QueryInv' /\ IdleInv'
    BY <1>1, TurnFacts DEF OneMessage, QueryInv, IdleInv
  <1>4. InFile(emu', opt', LastVec')
    BY TurnFacts DEF InFile, PlayedInv
  <1>5. PlayedInv'
    BY <1>1, <1>4, TurnFacts DEF PlayedInv
  <1>6. QED
    BY <1>2, <1>3, <1>5 DEF LoopInv, ShiftInv

\* What is played last is the largest number so far.
LEMMA PlayedAppend ==
    ASSUME NEW s, NEW n \in Nat, PlayedInOrder(s, n), LastOf(s) < n
    PROVE  PlayedInOrder(Append(s, n), n) /\ LastOf(Append(s, n)) = n
  <1>1. s \in Seq(Nat) /\ Len(s) \in Nat /\ \A k, j \in 1..Len(s) : k < j => s[k] < s[j]
    BY DEF PlayedInOrder
  <1>2. /\ Append(s, n) \in Seq(Nat) /\ Len(Append(s, n)) = Len(s) + 1 /\ Append(s, n) # <<>>
        /\ \A k \in 1..(Len(s) + 1) : Append(s, n)[k] = IF k = Len(s) + 1 THEN n ELSE s[k]
    BY <1>1
  <1>3. LastOf(Append(s, n)) = n
    BY <1>1, <1>2 DEF LastOf
  <1>4. \A k \in 1..Len(s) : s[k] \in Nat /\ s[k] < n
    BY <1>1 DEF LastOf
  <1>5. QED
    BY <1>1, <1>2, <1>3, <1>4 DEF PlayedInOrder

\* A shift that was not is played.
LEMMA PlayTurn ==
    ASSUME Turn, call = "shift", NotPlayedInv, EmuType(emu'), played' = Append(played, cur.id),
           NEW r \in Answers, rep' = Append(rep, r), r.hdr = cur.hdr, TdoOf(opt, vec, nShift, r.id),
           InFile(emu', opt, LastVec), udp => emu'.tsiz = TRUE /\ emu'.tbuf = r
    PROVE  LoopInv'
  <1>1. rep' = <<r>> /\ Len(rep') = 1 /\ Head(rep') = r /\ rep' # <<>>
    BY TurnFacts
  <1>2. PlayedInOrder(played', nShift) /\ LastOf(played') = nShift
    <2>1. PlayedInOrder(played, nShift) /\ nShift \in Nat /\ LastOf(played) < nShift /\ cur.id = nShift
      BY TurnFacts DEF HistoryInv, NotPlayedInv, LoopType, CurInv
    <2>2. QED
      BY <2>1, PlayedAppend
  <1>3. LoopType' /\ HistoryInv' /\ BootInv' /\ CurInv'
    BY <1>1, <1>2, TurnFacts DEF LoopType, HistoryInv, BootInv, Turn
  <1>4. OneMessage' /\ QueryInv' /\ IdleInv'
    BY <1>1, TurnFacts DEF OneMessage, QueryInv, IdleInv
  <1>5. PlayedInv'
    BY <1>1, <1>2, TurnFacts DEF PlayedInv
  <1>6. QED
    BY <1>3, <1>4, <1>5 DEF LoopInv, ShiftInv

-----------------------------------------------------------------------------
\* The parts of its record that the emulator's own code changes.
SetDrop(e, d) == [e EXCEPT !.drop = d]
SetOk(e, k) == [e EXCEPT !.ok = k]
SetReply(e, t, r) == [e EXCEPT !.tsiz = t, !.tbuf = r]

SameFile(e, f) == f.line = e.line /\ f.skip = e.skip
HasReply(f, t, r) == f.tsiz = t /\ f.tbuf = r
SameReply(e, f) == f.tsiz = e.tsiz /\ f.tbuf = e.tbuf

\* Counting a datagram changes neither the file nor the last reply.
LEMMA SetDropFields ==
    ASSUME NEW e, EmuType(e), NEW d \in Nat
    PROVE  EmuType(SetDrop(e, d)) /\ SameFile(e, SetDrop(e, d)) /\ SameReply(e, SetDrop(e, d))
  BY DEF EmuType, SetDrop, SameFile, SameReply

\* Nor does a retry that finds its message.
LEMMA SetOkFields ==
    ASSUME NEW e, EmuType(e)
    PROVE  EmuType(SetOk(e, TRUE)) /\ SameFile(e, SetOk(e, TRUE)) /\ SameReply(e, SetOk(e, TRUE))
  BY DEF EmuType, SetOk, SameFile, SameReply

\* A reply goes to tbuf_ and leaves the file alone.
LEMMA SetReplyFields ==
    ASSUME NEW e, EmuType(e), NEW t \in BOOLEAN, NEW r \in Answers
    PROVE  /\ EmuType(SetReply(e, t, r)) /\ SameFile(e, SetReply(e, t, r))
           /\ HasReply(SetReply(e, t, r), t, r)
  BY DEF EmuType, SetReply, SameFile, HasReply

\* The position in the file is all that InFile speaks of.
LEMMA SameInFile ==
    ASSUME NEW e, NEW f, NEW o, NEW v, SameFile(e, f), InFile(e, o, v)
    PROVE  InFile(f, o, v)
  BY DEF SameFile, InFile

\* The reply goes to the socket of this process.
LEMMA ReplyArrives ==
    ASSUME Turn, NEW r, NEW k, k = TRUE, IF k THEN Reply(cur, r) ELSE UNCHANGED rep
    PROVE  rep' = Append(rep, r)
  BY TurnFacts DEF Reply, CurInv

\* The emulator's answer: to a query and to a shift, new or repeated.
LEMMA AnswerStep ==
    ASSUME Turn, udp, AnswerRequest
    PROVE  LoopInv'
  <1> DEFINE x == UdpXfer(cur)
  <1>1. EmuType(emu) /\ ShiftInv /\ pc = "wait" /\ LoopType /\ HistoryInv /\ CurInv
    BY TurnFacts DEF LoopType
  <1>2. /\ emu' = [x.emu EXCEPT !.drop = @ + 1]
        /\ IF x.emu.ok THEN Reply(cur, x.reply) ELSE UNCHANGED rep
        /\ IF isRetry(cur) THEN UNCHANGED played ELSE Executed(cur)
    BY TurnFacts, Zenon DEF AnswerRequest
  <1>3. EmuType(x.emu) => /\ EmuType(emu') /\ SameFile(x.emu, emu') /\ SameReply(x.emu, emu')
                          /\ rep' = Append(rep, x.reply)
    <2> HIDE DEF x
    <2> SUFFICES ASSUME EmuType(x.emu)
                 PROVE  /\ EmuType(emu') /\ SameFile(x.emu, emu') /\ SameReply(x.emu, emu')
                        /\ rep' = Append(rep, x.reply)
      OBVIOUS
    <2>1. x.emu.drop + 1 \in Nat /\ x.emu.ok = TRUE
      <3>1. x.emu.drop \in Nat /\ x.emu.ok = TRUE
        BY EmuFields
      <3>2. QED
        BY <3>1
    <2>2. emu' = SetDrop(x.emu, x.emu.drop + 1)
      BY <1>2, Zenon DEF SetDrop
    <2>3. EmuType(emu') /\ SameFile(x.emu, emu') /\ SameReply(x.emu, emu')
      BY <2>1, <2>2, SetDropFields, Zenon
    <2>4. rep' = Append(rep, x.reply)
      BY <1>2, <2>1, ReplyArrives
    <2>5. QED
      BY <2>3, <2>4
  <1>4. CASE call # "shift"
    <2> DEFINE y == QueryXfer(cur)
    <2>1. cur.hdr.cmd = CMD_Q /\ CMD_Q # CMD_S
      BY <1>1, <1>4 DEF CurInv, mkQuery, CMD_Q, CMD_S
    <2>2. ~isRetry(cur) /\ played' = played
      BY <1>2, <2>1 DEF isRetry, Executed
    <2>3. x.emu = SetReply(y.emu, cur.hdr.cmd = CMD_S, y.reply) /\ x.reply = y.reply
      BY <2>1, <2>2, Zenon DEF UdpXfer, LoopXfer, SetReply
    <2>4. x.emu = SetReply(y.emu, FALSE, y.reply)
      <3>1. (cur.hdr.cmd = CMD_S) = FALSE
        BY <2>1
      <3>2. QED
        BY <2>3, <3>1, Zenon
    <2>5. /\ EmuType(y.emu) /\ InFile(y.emu, opt, 0)
          /\ y.reply \in Answers /\ y.reply.hdr.xid = XID_ANY
      BY <1>1, <1>4, QueryOpens
    <2> HIDE DEF x, y
    <2>6. EmuType(x.emu) /\ SameFile(y.emu, x.emu) /\ x.emu.tbuf = y.reply
      <3>1. EmuType(x.emu) /\ SameFile(y.emu, x.emu) /\ HasReply(x.emu, FALSE, y.reply)
        BY <2>4, <2>5, SetReplyFields, Zenon
      <3>2. QED
        BY <3>1, Zenon DEF HasReply
    <2>7. InFile(emu', opt, 0)
      BY <1>3, <2>5, <2>6, SameInFile
    <2>8. emu'.tbuf.hdr.xid = XID_ANY /\ EmuType(emu') /\ rep' = Append(rep, y.reply)
      BY <1>3, <2>3, <2>5, <2>6 DEF SameReply
    <2>9. QED
      BY <1>4, <2>2, <2>5, <2>7, <2>8, QueryTurn
  <1>5. CASE call = "shift" /\ PlayedInv
    <2>1. isRetry(cur) /\ emu.tsiz = TRUE
      BY <1>1, <1>5 DEF CurInv, PlayedInv, isRetry
    <2>2. x.emu = SetOk(emu, emu.tsiz) /\ x.reply = emu.tbuf /\ played' = played
      BY <1>2, <2>1, Zenon DEF UdpXfer, SetOk
    <2> HIDE DEF x
    <2>3. EmuType(x.emu) /\ SameFile(emu, x.emu) /\ SameReply(emu, x.emu)
      BY <1>1, <2>1, <2>2, SetOkFields, Zenon
    <2>4. /\ EmuType(emu') /\ emu'.line = emu.line /\ emu'.skip = emu.skip
          /\ emu'.tsiz = emu.tsiz /\ emu'.tbuf = emu.tbuf /\ rep' = Append(rep, emu.tbuf)
      BY <1>3, <2>2, <2>3, Zenon DEF SameFile, SameReply
    <2>5. QED
      BY <1>5, <2>2, <2>4, RetryTurn
  <1>6. CASE call = "shift" /\ NotPlayedInv
    <2> DEFINE y == ShiftXfer(cur)
    <2>1. cur.hdr.cmd = CMD_S /\ CMD_Q # CMD_S /\ ~isRetry(cur)
      BY <1>1, <1>6 DEF CurInv, NotPlayedInv, isRetry, getXid, CMD_Q, CMD_S
    <2>2. played' = Append(played, cur.id)
      BY <1>2, <2>1 DEF Executed
    <2>3. x.emu = SetReply(y.emu, cur.hdr.cmd = CMD_S, y.reply) /\ x.reply = y.reply
      BY <2>1, Zenon DEF UdpXfer, LoopXfer, SetReply
    <2>4. x.emu = SetReply(y.emu, TRUE, y.reply)
      <3>1. (cur.hdr.cmd = CMD_S) = TRUE
        BY <2>1
      <3>2. QED
        BY <2>3, <3>1, Zenon
    <2>5. /\ EmuType(y.emu) /\ InFile(y.emu, opt, LastVec)
          /\ y.reply \in Answers /\ y.reply.hdr = cur.hdr /\ TdoOf(opt, vec, nShift, y.reply.id)
      BY <1>1, <1>6, ShiftPlays DEF NotPlayedInv
    <2> HIDE DEF x, y
    <2>6. EmuType(x.emu) /\ SameFile(y.emu, x.emu) /\ x.emu.tsiz = TRUE /\ x.emu.tbuf = y.reply
      <3>1. EmuType(x.emu) /\ SameFile(y.emu, x.emu) /\ HasReply(x.emu, TRUE, y.reply)
        BY <2>4, <2>5, SetReplyFields, Zenon
      <3>2. QED
        BY <3>1, Zenon DEF HasReply
    <2>7. InFile(emu', opt, LastVec)
      BY <1>3, <2>5, <2>6, SameInFile
    <2>8. emu'.tsiz = TRUE /\ emu'.tbuf = y.reply /\ EmuType(emu') /\ rep' = Append(rep, y.reply)
      BY <1>3, <2>3, <2>6, Zenon DEF SameReply
    <2>9. QED
      BY <1>6, <2>2, <2>5, <2>7, <2>8, PlayTurn
  <1>7. QED
    BY <1>1, <1>4, <1>5, <1>6 DEF ShiftInv

\* It has messages only once init() runs.
LEMMA UpWithMessages ==
    ASSUME LoopInv, req # <<>> \/ pc # "down"
    PROVE  boot = "up"
  BY DEF LoopInv, BootInv

\* run() drops the request or answers it.
LEMMA EmulatorStep ==
    ASSUME LoopInv, EmulatorRun
    PROVE  LoopInv'
  <1>1. Turn /\ udp
    BY UpWithMessages DEF EmulatorRun, Turn
  <1>2. CASE DropRequest
    <2>1. emu' = SetDrop(emu, 0) /\ rep' = rep /\ played' = played
      BY <1>2 DEF DropRequest, SetDrop
    <2>2. EmuType(emu') /\ SameFile(emu, emu') /\ SameReply(emu, emu')
      <3>1. EmuType(emu) /\ 0 \in Nat
        BY DEF LoopInv, LoopType
      <3>2. QED
        BY <2>1, <3>1, SetDropFields, Zenon
    <2>3. QED
      BY <1>1, <2>1, <2>2, DropTurn DEF SameFile, SameReply
  <1>3. CASE AnswerRequest
    BY <1>1, <1>3, AnswerStep
  <1>4. QED
    BY <1>2, <1>3 DEF EmulatorRun

\* The loopback driver's own xfer(), in the same thread.
LEMMA InProcessStep ==
    ASSUME LoopInv, InProcess
    PROVE  LoopInv'
  <1>1. Turn /\ ~udp
    BY UpWithMessages DEF InProcess, Turn
  <1> DEFINE x == LoopXfer(cur)
  <1>2. ShiftInv /\ pc = "wait" /\ LoopType /\ HistoryInv /\ CurInv /\ rep = <<>>
    BY <1>1, TurnFacts
  <1>3. /\ emu' = x.emu /\ Executed(cur)
        /\ IF x.emu.ok THEN Reply(cur, x.reply) ELSE UNCHANGED rep
    BY <1>1, TurnFacts, Zenon DEF InProcess
  <1>4. EmuType(x.emu) => rep' = Append(rep, x.reply)
    <2> HIDE DEF x
    <2>1. EmuType(x.emu) => x.emu.ok = TRUE
      BY EmuFields
    <2>2. QED
      BY <1>1, <1>3, <2>1, ReplyArrives
  <1>5. CASE call # "shift"
    <2>1. cur.hdr.cmd = CMD_Q /\ CMD_Q # CMD_S
      BY <1>2, <1>5 DEF CurInv, mkQuery, CMD_Q, CMD_S
    <2>2. x = QueryXfer(cur) /\ played' = played
      BY <1>3, <2>1 DEF Executed, LoopXfer
    <2> HIDE DEF x
    <2>3. /\ EmuType(x.emu) /\ InFile(x.emu, opt, 0) /\ x.reply \in Answers
      BY <1>2, <1>5, <2>2, QueryOpens
    <2>4. QED
      BY <1>1, <1>3, <1>4, <1>5, <2>2, <2>3, QueryTurn
  <1>6. CASE call = "shift"
    <2>1. NotPlayedInv
      BY <1>1, <1>2, <1>6 DEF ShiftInv, PlayedInv
    <2>2. cur.hdr.cmd = CMD_S /\ CMD_Q # CMD_S
      BY <1>2, <1>6 DEF CurInv, CMD_Q, CMD_S
    <2>3. x = ShiftXfer(cur) /\ played' = Append(played, cur.id)
      BY <1>3, <2>2 DEF Executed, LoopXfer
    <2> HIDE DEF x
    <2>4. /\ EmuType(x.emu) /\ InFile(x.emu, opt, LastVec)
          /\ x.reply \in Answers /\ x.reply.hdr = cur.hdr /\ TdoOf(opt, vec, nShift, x.reply.id)
      BY <1>2, <1>6, <2>1, <2>3, ShiftPlays DEF NotPlayedInv
    <2>5. QED
      BY <1>1, <1>3, <1>4, <1>6, <2>1, <2>3, <2>4, PlayTurn
  <1>7. QED
    BY <1>5, <1>6

-----------------------------------------------------------------------------
(* main() and the driver *)

\* Nothing has happened when main() begins.
LEMMA LoopInit0 == Init => LoopInv
  <1> SUFFICES ASSUME Init PROVE LoopInv
    OBVIOUS
  <1>1. PICK x \in 0..XidMax : emu = EmuInit(x)
    BY DEF Init
  <1>2. opt \in Options /\ opt.target \in BOOLEAN
    BY LoopBackAssumption DEF Init
  <1>3. mkShift(x, 1) \in Header
    BY DEF mkShift, Header
  <1>4. Answer(mkShift(x, 1), 0) \in Answers
    BY <1>3, AnswerTypes
  <1>5. EmuType(emu)
    <2>1. (~opt.target) \in BOOLEAN
      BY <1>2
    <2>2. QED
      BY <1>1, <1>4, <2>1 DEF EmuInit, EmuType, noFile
  <1>6. emu.line = 0 /\ emu.skip = ~opt.target
    BY <1>1 DEF EmuInit, noFile
  <1>7. InFile(emu, opt, 0)
    <2>1. CASE opt.target
      <3>1. emu.skip = FALSE
        BY <1>6, <2>1
      <3>2. QED
        BY <1>6, <2>1, <3>1, Numbers DEF InFile
    <2>2. CASE ~opt.target
      BY <1>6, <2>2 DEF InFile
    <2>3. QED
      BY <2>1, <2>2
  <1>8. LoopType
    <2>1. pc = "down" /\ call = "init" /\ xid = 0 /\ nShift = 0 /\ epoch = 0 /\ rep = <<>>
      BY DEF Init, DrvInit, NetInit
    <2>2. 0 \in 0..XidMax /\ <<>> \in Seq(Answers)
      BY Numbers
    <2>3. QED
      BY <1>2, <1>5, <2>1, <2>2 DEF LoopType
  <1>9. HistoryInv
    <2>1. nShift = 0 /\ played = <<>> /\ vec = <<>> /\ delivered.shift = 0
      BY DEF Init, DrvInit
    <2>2. PlayedInOrder(<<>>, 0)
      BY DEF PlayedInOrder, LastOf
    <2>3. QED
      BY <2>1, <2>2 DEF HistoryInv
  <1>10. BootInv /\ boot # "up"
    BY <1>7 DEF BootInv, Init, NetInit, DrvInit
  <1>11. QED
    BY <1>8, <1>9, <1>10 DEF LoopInv

\* main() creates the driver and the emulator before there are messages.
LEMMA MainStep ==
    ASSUME LoopInv, Main
    PROVE  LoopInv'
  <1>1. /\ boot # "up" /\ boot' # "up" /\ opt' = opt
        /\ UNCHANGED <<drvVars, netVars, loopVars, vec>>
    BY DEF Main, CreateUdpLoopback, CreateRegistered, LoadAndCreate, LoopInit, ThreadCreate, create
  <1>2. QED
    BY <1>1 DEF LoopInv, LoopType, HistoryInv, BootInv, drvVars, netVars, loopVars

\* The emulator's thread starts.
LEMMA ThreadStep ==
    ASSUME LoopInv, ThreadStart
    PROVE  LoopInv'
  <1>1. UNCHANGED <<drvVars, netVars, mainVars, played, vec>>
    BY DEF ThreadStart
  <1>2. EmuType(emu') /\ SameFile(emu, emu') /\ SameReply(emu, emu')
    BY DEF ThreadStart, EmuType, SameFile, SameReply, LoopInv, LoopType
  <1>3. \A v : InFile(emu, opt, v) => InFile(emu', opt, v)
    BY <1>2, SameInFile
  <1>4. UNCHANGED <<pc, call, cur, xid, delivered, nShift, req, rep, epoch, opt, boot, drv>>
        /\ udp' = udp /\ LastVec' = LastVec
    BY <1>1 DEF drvVars, netVars, mainVars, udp, LastVec
  <1>5. LoopType' /\ HistoryInv' /\ BootInv'
    BY <1>1, <1>2, <1>3, <1>4 DEF LoopInv, LoopType, HistoryInv, BootInv
  <1>6. boot = "up" => CurInv' /\ OneMessage' /\ QueryInv' /\ IdleInv'
    BY <1>2, <1>3, <1>4 DEF LoopInv, CurInv, OneMessage, QueryInv, IdleInv, SameReply
  <1>7. boot = "up" => ShiftInv'
    BY <1>1, <1>2, <1>3, <1>4 DEF LoopInv, ShiftInv, PlayedInv, NotPlayedInv, SameReply
  <1>8. QED
    BY <1>4, <1>5, <1>6, <1>7 DEF LoopInv

\* A query begins, with nothing under way.
LEMMA QueryBegins ==
    ASSUME LoopInv, NEW who \in {"init", "connect", "getinfo"}, Query(who, epoch'),
           epoch' \in Nat, req = <<>>, req' = <<>>, rep' = <<>>, boot' = "up",
           UNCHANGED <<opt, drv, emu, played, vec, delivered, nShift>>, xid' \in 0..XidMax
    PROVE  LoopInv'
  <1>1. pc' = "send" /\ call' = who
        /\ cur' = [hdr |-> mkQuery, id |-> nShift, epoch |-> epoch']
    BY DEF Query, Begin
  <1>2. LoopType'
    BY <1>1 DEF LoopInv, LoopType
  <1>3. HistoryInv' /\ BootInv'
    BY DEF LoopInv, HistoryInv, BootInv
  <1>4. CurInv'
    BY <1>1, AnswerTypes DEF CurInv, LoopInv, LoopType
  <1>5. OneMessage' /\ QueryInv' /\ ShiftInv' /\ IdleInv'
    BY <1>1 DEF OneMessage, QueryInv, ShiftInv, IdleInv
  <1>6. QED
    BY <1>2, <1>3, <1>4, <1>5 DEF LoopInv

\* init() sends the first query.
LEMMA StartStep ==
    ASSUME LoopInv, DrvStart
    PROVE  LoopInv'
  <1>1. /\ boot = "init" /\ boot' = "up" /\ Start
        /\ UNCHANGED <<opt, entries, drv, loopVars, vec>>
    BY DEF DrvStart
  <1>2. /\ epoch' = epoch + 1 /\ rep' = <<>> /\ xid' \in 0..XidMax /\ Query("init", epoch')
        /\ UNCHANGED <<req, delivered, nShift>>
    BY <1>1 DEF Start
  <1>3. req = <<>> /\ epoch' \in Nat
    BY <1>1, <1>2 DEF LoopInv, BootInv, LoopType
  <1>4. UNCHANGED <<opt, drv, emu, played, vec, delivered, nShift>>
    BY <1>1, <1>2 DEF loopVars
  <1>5. QED
    BY <1>1, <1>2, <1>3, <1>4, QueryBegins

\* A shift begins: its record is the next one of the test.
LEMMA ShiftBegins ==
    ASSUME LoopInv, XidMax > 1, DrvCalls, NEW len \in Lens, SendVectors(len)
    PROVE  LoopInv'
  <1>1. /\ boot = "up" /\ pc = "idle" /\ pc' = "send" /\ call' = "shift" /\ nShift' = nShift + 1
        /\ xid' = newXid(xid) /\ UNCHANGED <<delivered, epoch, req, rep, opt, boot, drv, emu, played>>
        /\ cur' = [hdr |-> mkShift(xid', len), id |-> nShift + 1, epoch |-> epoch]
    BY DEF DrvCalls, SendVectors, Begin, netVars, mainVars, loopVars
  <1>2. /\ LoopType /\ HistoryInv /\ CurInv /\ req = <<>> /\ rep = <<>>
        /\ InFile(emu, opt, LastVec) /\ (udp => emu.tbuf.hdr.xid \in {XID_ANY, xid})
    BY <1>1 DEF LoopInv, OneMessage, IdleInv
  <1>3. xid' \in 1..XidMax /\ xid' # xid
    BY <1>1, <1>2, NewId DEF LoopType
  <1>4. XidMax \in Nat /\ nShift \in Nat /\ epoch \in Nat
    BY <1>2, Numbers DEF LoopType
  <1>5. mkShift(xid', len) \in Header
    <2>1. len \in Nat \ {0}
      BY Numbers
    <2>2. QED
      BY <1>3, <1>4, <2>1 DEF mkShift, Header
  <1>6. CurInv'
    <2>1. cur' \in [hdr : Header, id : Nat, epoch : Nat]
      BY <1>1, <1>4, <1>5
    <2>2. cur'.hdr.cmd = CMD_S /\ cur'.hdr.xid = xid' /\ cur'.id = nShift' /\ cur'.epoch = epoch'
      BY <1>1 DEF mkShift
    <2>3. xid' # XID_ANY /\ nShift' > 0
      BY <1>1, <1>3, <1>4 DEF XID_ANY
    <2>4. QED
      BY <1>1, <2>1, <2>2, <2>3 DEF CurInv
  <1>7. /\ vec' = Append(vec, LastVec + 1) /\ LastVec \in Nat
        /\ vec \in Seq(Nat \ {0}) /\ Len(vec) = nShift
    <2>1. nShift' # nShift
      BY <1>1, <1>4
    <2>2. vec' = Append(vec, IF cur.hdr.cmd = CMD_S THEN vec[nShift] + 1 ELSE 1)
      BY <2>1 DEF DrvCalls
    <2>3. vec \in Seq(Nat \ {0}) /\ Len(vec) = nShift
      BY <1>2 DEF HistoryInv
    <2>4. CASE call = "shift"
      <3>1. cur.hdr.cmd = CMD_S /\ nShift \in 1..Len(vec) /\ LastVec = vec[nShift]
        BY <1>2, <1>4, <2>3, <2>4 DEF CurInv, LastVec
      <3>2. QED
        BY <2>2, <2>3, <3>1
    <2>5. CASE call # "shift"
      <3>1. cur.hdr.cmd # CMD_S /\ LastVec = 0
        BY <1>2, <2>5 DEF CurInv, LastVec, mkQuery, CMD_Q, CMD_S
      <3>2. QED
        BY <2>2, <2>3, <3>1
    <2>6. QED
      BY <2>4, <2>5
  <1>8. /\ vec' \in Seq(Nat \ {0}) /\ Len(vec') = nShift + 1 /\ vec'[nShift + 1] = LastVec + 1
        /\ \A k \in 1..nShift : vec'[k] = vec[k]
    BY <1>4, <1>7
  <1>9. LastVec' = LastVec + 1
    BY <1>1, <1>8 DEF LastVec
  <1>10. LastVec' - 1 = LastVec
    BY <1>7, <1>9
  <1>11. LoopType'
    BY <1>1, <1>2, <1>3, <1>4 DEF LoopType
  <1>12. HistoryInv'
    <2>1. PlayedInOrder(played, nShift) /\ delivered.shift \in 0..nShift
          /\ (delivered.shift > 0 => TdoOf(opt, vec, delivered.shift, delivered.tdo))
      BY <1>2 DEF HistoryInv
    <2>2. LastOf(played) \in Nat
      BY <2>1 DEF PlayedInOrder, LastOf
    <2>3. PlayedInOrder(played, nShift + 1)
      BY <1>4, <2>1, <2>2 DEF PlayedInOrder
    <2>4. delivered.shift \in 0..(nShift + 1)
      BY <1>4, <2>1
    <2>5. delivered.shift > 0 => TdoOf(opt, vec', delivered.shift, delivered.tdo)
      BY <1>4, <1>8, <2>1 DEF TdoOf
    <2>6. QED
      BY <1>1, <1>8, <2>3, <2>4, <2>5 DEF HistoryInv
  <1>13. NotPlayedInv'
    <2>1. LastOf(played) < nShift + 1
      <3>1. LastOf(played) \in Nat /\ LastOf(played) <= nShift
        BY <1>2 DEF HistoryInv, PlayedInOrder, LastOf
      <3>2. QED
        BY <1>4, <3>1
    <2>2. udp => emu.tbuf.hdr.xid # xid'
      BY <1>2, <1>3 DEF XID_ANY
    <2>3. InFile(emu', opt', LastVec' - 1)
      BY <1>1, <1>2, <1>10
    <2>4. udp' = udp
      BY <1>1 DEF udp
    <2>5. QED
      BY <1>1, <1>2, <2>1, <2>2, <2>3, <2>4 DEF NotPlayedInv
  <1>14. BootInv' /\ OneMessage' /\ QueryInv' /\ IdleInv' /\ ShiftInv'
    BY <1>1, <1>2, <1>13 DEF BootInv, OneMessage, QueryInv, IdleInv, ShiftInv
  <1>15. QED
    BY <1>6, <1>11, <1>12, <1>14 DEF LoopInv

\* The calls of the server.
LEMMA CallsStep ==
    ASSUME LoopInv, XidMax > 1, DrvCalls
    PROVE  LoopInv'
  <1>1. ASSUME NEW who \in {"connect", "getinfo"}, Query(who, epoch), pc = "idle",
               UNCHANGED <<xid, par, delivered, nShift, nStart, netVars>>
        PROVE  LoopInv'
    <2>1. /\ boot = "up" /\ boot' = "up" /\ vec' = vec /\ epoch' = epoch
          /\ UNCHANGED <<opt, drv, emu, played, delivered, nShift, req, rep, xid>>
      BY <1>1 DEF DrvCalls, mainVars, loopVars, netVars
    <2>2. req = <<>> /\ rep = <<>> /\ epoch \in Nat /\ xid \in 0..XidMax
      BY <1>1, <2>1 DEF LoopInv, OneMessage, LoopType
    <2>3. Query(who, epoch')
      BY <1>1, <2>1
    <2>4. QED
      BY <1>1, <2>1, <2>2, <2>3, QueryBegins
  <1>2. CASE Connect
    BY <1>1, <1>2 DEF Connect
  <1>3. CASE GetInfo
    BY <1>1, <1>3 DEF GetInfo
  <1>4. QED
    BY <1>2, <1>3, ShiftBegins DEF DrvCalls, Calls

-----------------------------------------------------------------------------
(* The transfer *)

\* What every step of the transfer leaves alone
Same == UNCHANGED <<call, cur, xid, nShift, epoch, opt, boot, drv, emu, played, vec>>

\* What follows from that.
LEMMA SameFacts ==
    ASSUME LoopInv, Same, boot = "up"
    PROVE  /\ udp' = udp /\ LastVec' = LastVec /\ boot' = "up"
           /\ CurInv /\ CurInv' /\ OneMessage /\ QueryInv /\ ShiftInv /\ IdleInv
           /\ LoopType /\ HistoryInv /\ BootInv'
  <1>1. UNCHANGED <<call, cur, xid, nShift, epoch, opt, boot, drv, emu, played, vec>>
    BY DEF Same
  <1>2. udp' = udp /\ LastVec' = LastVec /\ boot' = "up" /\ BootInv'
    BY <1>1 DEF udp, LastVec, BootInv
  <1>3. CurInv /\ OneMessage /\ QueryInv /\ ShiftInv /\ IdleInv /\ LoopType /\ HistoryInv
    BY DEF LoopInv
  <1>4. CurInv'
    BY <1>1, <1>3 DEF CurInv
  <1>5. QED
    BY <1>2, <1>3, <1>4

\* A step of the transfer that hands over no TDO.
LEMMA QuietStep ==
    ASSUME LoopInv, Same, boot = "up", delivered' = delivered,
           pc' \in {"down", "idle", "send", "wait"}, rep' \in Seq(Answers),
           OneMessage', QueryInv', ShiftInv', IdleInv'
    PROVE  LoopInv'
  <1>1. UNCHANGED <<call, cur, xid, nShift, epoch, opt, boot, drv, emu, played, vec>>
    BY DEF Same
  <1>2. LoopType'
    BY <1>1, SameFacts DEF LoopType
  <1>3. HistoryInv'
    BY <1>1, SameFacts DEF HistoryInv
  <1>4. QED
    BY <1>2, <1>3, SameFacts DEF LoopInv

\* Whether the last shift was played is not for the driver to change, as long as
\* it takes no reply from the loopback driver.
LEMMA ShiftKept ==
    ASSUME LoopInv, Same, boot = "up", udp \/ rep' = rep, rep' = rep \/ rep' = <<>>
    PROVE  (PlayedInv => PlayedInv') /\ (NotPlayedInv => NotPlayedInv')
  <1>1. UNCHANGED <<call, cur, xid, nShift, epoch, opt, boot, drv, emu, played, vec>>
    BY DEF Same
  <1>2. udp' = udp /\ LastVec' = LastVec
    BY SameFacts
  <1>3. PlayedInv => PlayedInv'
    BY <1>1, <1>2 DEF PlayedInv
  <1>4. NotPlayedInv => NotPlayedInv'
    BY <1>1, <1>2 DEF NotPlayedInv
  <1>5. QED
    BY <1>3, <1>4

\* xfer() sends the message; nothing else is under way.
LEMMA WriteStep ==
    ASSUME LoopInv, boot = "up", Same, Write
    PROVE  LoopInv'
  <1>1. pc = "send" /\ pc' = "wait" /\ req' = Append(req, cur) /\ rep' = rep /\ delivered' = delivered
    BY DEF Write
  <1>2. req = <<>> /\ rep = <<>> /\ call' = call /\ cur' = cur
    BY <1>1, SameFacts DEF OneMessage, Same
  <1>3. req' = <<cur>> /\ rep' \in Seq(Answers)
    BY <1>1, <1>2
  <1>4. OneMessage' /\ QueryInv' /\ IdleInv'
    BY <1>1, <1>2, <1>3 DEF OneMessage, QueryInv, IdleInv
  <1>5. ShiftInv'
    BY <1>1, <1>2, SameFacts, ShiftKept DEF ShiftInv
  <1>6. QED
    BY <1>1, <1>3, <1>4, <1>5, QuietStep

\* A timeout: the message and its reply are gone, since no reply is late.
LEMMA TimeoutStep ==
    ASSUME LoopInv, boot = "up", Same, PollTimeout, "late" \notin Faults
    PROVE  LoopInv'
  <1>1. /\ pc = "wait" /\ pc' \in {"send", "down"} /\ req = <<>> /\ rep = <<>>
        /\ req' = <<>> /\ rep' = <<>> /\ delivered' = delivered
    BY DEF PollTimeout, NextAttempt, Fault
  <1>2. udp
    BY <1>1, SameFacts DEF OneMessage
  <1>3. OneMessage' /\ QueryInv' /\ IdleInv'
    BY <1>1 DEF OneMessage, QueryInv, IdleInv
  <1>4. ShiftInv'
    <2>1. call' = call
      BY DEF Same
    <2>2. QED
      BY <1>1, <1>2, <2>1, SameFacts, ShiftKept DEF ShiftInv
  <1>5. rep' \in Seq(Answers)
    BY <1>1
  <1>6. QED
    BY <1>1, <1>3, <1>4, <1>5, QuietStep

\* A reply is taken: it was the only message.
LEMMA TakeReply ==
    ASSUME LoopInv, boot = "up", pc = "wait", rep # <<>>, rep' = Tail(rep), req' = req
    PROVE  /\ req' = <<>> /\ rep' = <<>> /\ rep' \in Seq(Answers) /\ Head(rep) \in Answers
           /\ call = "shift" => PlayedInv
  <1>1. req = <<>> /\ Len(rep) = 1 /\ rep \in Seq(Answers) /\ ShiftInv
    BY DEF LoopInv, OneMessage, LoopType
  <1>2. rep' = <<>> /\ Head(rep) \in Answers
    BY <1>1
  <1>3. call = "shift" => PlayedInv
    BY <1>1 DEF ShiftInv, NotPlayedInv
  <1>4. QED
    BY <1>1, <1>2, <1>3

\* The reply ends the process.
LEMMA EndStep ==
    ASSUME LoopInv, boot = "up", Same, pc = "wait", rep # <<>>, rep' = Tail(rep), req' = req,
           pc' = "down", delivered' = delivered
    PROVE  LoopInv'
  <1>1. OneMessage' /\ QueryInv' /\ IdleInv' /\ ShiftInv' /\ rep' \in Seq(Answers)
    BY TakeReply DEF OneMessage, QueryInv, IdleInv, ShiftInv
  <1>2. QED
    BY <1>1, QuietStep

\* There is no reply of another transaction.
LEMMA NoStale ==
    ASSUME LoopInv, boot = "up", pc = "wait", rep # <<>>
    PROVE  Accepted(Head(rep))
  <1>1. CurInv /\ ShiftInv
    BY DEF LoopInv
  <1>2. CASE call # "shift"
    BY <1>1, <1>2 DEF CurInv, Accepted, getXid, mkQuery
  <1>3. CASE call = "shift"
    <2>1. PlayedInv
      BY <1>1, <1>3 DEF ShiftInv, NotPlayedInv
    <2>2. Head(rep).hdr = cur.hdr
      BY <2>1 DEF PlayedInv
    <2>3. QED
      BY <2>2 DEF Accepted
  <1>4. QED
    BY <1>2, <1>3

\* A query returns: the file is at its start.
LEMMA QueryDoneStep ==
    ASSUME LoopInv, boot = "up", Same, QueryDone
    PROVE  LoopInv'
  <1>1. /\ pc = "wait" /\ call # "shift" /\ rep # <<>> /\ rep' = Tail(rep) /\ req' = req
        /\ delivered' = delivered /\ pc' \in {"down", "idle"}
    BY DEF QueryDone
  <1>2. CASE pc' = "down"
    BY <1>1, <1>2, EndStep
  <1>3. CASE pc' = "idle"
    <2>1. /\ UNCHANGED <<call, emu, opt, xid>> /\ udp' = udp
          /\ LastVec = 0 /\ LastVec' = LastVec /\ QueryInv
      BY <1>1, SameFacts DEF Same, LastVec
    <2>2. InFile(emu, opt, 0) /\ (udp => emu.tbuf.hdr.xid = XID_ANY)
      BY <1>1, <2>1 DEF QueryInv
    <2>3. IdleInv'
      BY <2>1, <2>2 DEF IdleInv
    <2>4. OneMessage' /\ QueryInv' /\ ShiftInv' /\ rep' \in Seq(Answers)
      BY <1>1, <1>3, TakeReply DEF OneMessage, QueryInv, ShiftInv
    <2>5. QED
      BY <1>1, <2>3, <2>4, QuietStep
  <1>4. QED
    BY <1>1, <1>2, <1>3

\* sendVectors returns the TDO of its own vectors.
LEMMA ShiftDoneStep ==
    ASSUME LoopInv, boot = "up", Same, ShiftDone
    PROVE  LoopInv' /\ LastOf(played) = nShift /\ delivered'.shift = nShift
  <1>1. /\ pc = "wait" /\ call = "shift" /\ rep # <<>> /\ rep' = Tail(rep) /\ req' = req
        /\ delivered'.shift = cur.id /\ delivered'.tdo = Head(rep).id /\ pc' = "idle"
    BY DEF ShiftDone
  <1>2. /\ PlayedInv /\ CurInv /\ LoopType /\ HistoryInv
        /\ req' = <<>> /\ rep' = <<>> /\ rep' \in Seq(Answers)
    BY <1>1, TakeReply, SameFacts
  <1>3. UNCHANGED <<call, cur, xid, nShift, epoch, opt, boot, drv, emu, played, vec>>
        /\ udp' = udp /\ LastVec' = LastVec
    BY SameFacts DEF Same
  <1>4. cur.id = nShift /\ nShift \in Nat /\ cur.hdr.xid = xid
    BY <1>1, <1>2 DEF CurInv, LoopType
  <1>5. HistoryInv'
    <2>1. delivered'.shift \in 0..nShift /\ TdoOf(opt, vec, delivered'.shift, delivered'.tdo)
      BY <1>1, <1>2, <1>4 DEF PlayedInv
    <2>2. QED
      BY <1>2, <1>3, <2>1 DEF HistoryInv
  <1>6. IdleInv'
    <2>1. InFile(emu, opt, LastVec) /\ (udp => emu.tbuf.hdr.xid = xid)
      BY <1>2, <1>4 DEF PlayedInv
    <2>2. QED
      BY <1>3, <2>1 DEF IdleInv
  <1>7. OneMessage' /\ QueryInv' /\ ShiftInv'
    BY <1>1, <1>2 DEF OneMessage, QueryInv, ShiftInv
  <1>8. LoopType'
    BY <1>1, <1>2, <1>3 DEF LoopType
  <1>9. LastOf(played) = nShift
    BY <1>2 DEF PlayedInv
  <1>10. QED
    BY <1>1, <1>4, <1>5, <1>6, <1>7, <1>8, <1>9, SameFacts DEF LoopInv

\* Every step of the transfer.
LEMMA XferStep ==
    ASSUME LoopInv, DrvXfer, "late" \notin Faults
    PROVE  LoopInv'
  <1>1. boot = "up"
    <2>1. pc # "down"
      BY DEF DrvXfer, Xfer, Write, PollTimeout, ReplyRejected, ReplyStale, QueryDone, ShiftDone
    <2>2. QED
      BY <2>1, UpWithMessages
  <1>2. Same
    BY DEF DrvXfer, Xfer, Write, PollTimeout, ReplyRejected, ReplyStale, QueryDone, ShiftDone,
           Same, mainVars, loopVars
  <1>3. CASE Write
    BY <1>1, <1>2, <1>3, WriteStep
  <1>4. CASE PollTimeout
    BY <1>1, <1>2, <1>4, TimeoutStep
  <1>5. CASE ReplyRejected
    BY <1>1, <1>2, <1>5, EndStep DEF ReplyRejected
  <1>6. CASE ReplyStale
    BY <1>1, <1>6, NoStale DEF ReplyStale
  <1>7. CASE QueryDone
    BY <1>1, <1>2, <1>7, QueryDoneStep
  <1>8. CASE ShiftDone
    BY <1>1, <1>2, <1>8, ShiftDoneStep
  <1>9. QED
    BY <1>3, <1>4, <1>5, <1>6, <1>7, <1>8 DEF DrvXfer, Xfer

\* The transport loses the message, or its reply.
LEMMA LostStep ==
    ASSUME LoopInv, Lost
    PROVE  LoopInv'
  <1>1. /\ udp /\ (LoseReq \/ LoseRep) /\ pc' = pc /\ delivered' = delivered /\ Same
    BY DEF Lost, LoseReq, LoseRep, Same, drvVars, mainVars, loopVars
  <1>2. req # <<>> \/ rep # <<>>
    BY <1>1 DEF LoseReq, LoseRep
  <1>3. boot = "up"
    BY <1>2 DEF LoopInv, BootInv
  <1>4. pc = "wait" /\ req' = <<>> /\ rep' = <<>>
    <2>1. OneMessage
      BY <1>3 DEF LoopInv
    <2>2. pc = "wait"
      BY <1>2, <2>1 DEF OneMessage
    <2>3. CASE LoseReq
      BY <2>1, <2>2, <2>3 DEF OneMessage, LoseReq
    <2>4. CASE LoseRep
      <3>1. req = <<>> /\ Len(rep) = 1 /\ rep' = Tail(rep) /\ req' = req
        BY <2>1, <2>2, <2>4 DEF OneMessage, LoseRep
      <3>2. rep \in Seq(Answers)
        BY DEF LoopInv, LoopType
      <3>3. QED
        BY <2>2, <3>1, <3>2
    <2>5. QED
      BY <1>1, <2>3, <2>4
  <1>5. OneMessage' /\ QueryInv' /\ IdleInv' /\ rep' \in Seq(Answers)
    BY <1>1, <1>3, <1>4, SameFacts DEF OneMessage, QueryInv, IdleInv
  <1>6. ShiftInv'
    <2>1. call' = call
      BY <1>1 DEF Same
    <2>2. QED
      BY <1>1, <1>3, <1>4, <2>1, SameFacts, ShiftKept DEF ShiftInv
  <1>7. pc' \in {"down", "idle", "send", "wait"}
    BY <1>1, <1>4
  <1>8. QED
    BY <1>1, <1>3, <1>5, <1>6, <1>7, QuietStep

-----------------------------------------------------------------------------
(* The theorems *)

\* Every step keeps the invariant.
LEMMA LoopStep ==
    ASSUME LoopInv, [Next]_vars, "late" \notin Faults, XidMax > 1
    PROVE  LoopInv'
  <1>1. CASE UNCHANGED vars
    <2>1. UNCHANGED <<pc, call, cur, xid, delivered, nShift, req, rep, epoch,
                    opt, boot, drv, emu, played, vec>>
      BY <1>1 DEF vars, drvVars, netVars, mainVars, loopVars
    <2>2. udp' = udp /\ LastVec' = LastVec
      BY <2>1 DEF udp, LastVec
    <2>3. LoopType' /\ HistoryInv' /\ BootInv'
      BY <2>1 DEF LoopInv, LoopType, HistoryInv, BootInv
    <2>4. boot = "up" => CurInv' /\ OneMessage' /\ QueryInv' /\ IdleInv'
      BY <2>1, <2>2 DEF LoopInv, CurInv, OneMessage, QueryInv, IdleInv
    <2>5. boot = "up" => ShiftInv'
      BY <2>1, <2>2 DEF LoopInv, ShiftInv, PlayedInv, NotPlayedInv
    <2>6. QED
      BY <2>1, <2>3, <2>4, <2>5 DEF LoopInv
  <1>2. QED
    BY <1>1, MainStep, ThreadStep, StartStep, CallsStep, XferStep, EmulatorStep, InProcessStep, LostStep
    DEF Next

\* The playback of the test's file stays in step with the test, whatever the length
\* of the file, the number of shifts and of lost or dropped datagrams: check() never
\* throws, no retry finds the emulator without its message, and no shift goes to the
\* file twice or behind a later one.
THEOREM PlaybackStaysInStep ==
    ASSUME "late" \notin Faults, XidMax > 1
    PROVE  Spec => []PlaybackInStep
  <1>1. LoopInv => PlaybackInStep
    <2> SUFFICES ASSUME LoopInv PROVE PlaybackInStep
      OBVIOUS
    <2>1. emu.ok
      BY EmuFields DEF LoopInv, LoopType
    <2>2. played \in Seq(Nat) /\ \A k, j \in 1..Len(played) : k < j => played[k] < played[j]
      BY DEF LoopInv, HistoryInv, PlayedInOrder
    <2>3. ASSUME NEW k \in 1..Len(played), NEW j \in (k + 1)..Len(played)
          PROVE  played[k] < played[j]
      <3>1. j \in 1..Len(played) /\ k < j
        BY <2>2
      <3>2. QED
        BY <2>2, <3>1
    <2>4. QED
      BY <2>1, <2>3 DEF PlaybackInStep
  <1>2. LoopInv /\ [Next]_vars => LoopInv'
    BY LoopStep
  <1>3. QED
    BY <1>1, <1>2, LoopInit0, PTL DEF Spec

\* sendVectors returns the TDO of its own vectors, from the file or looped back; only
\* the first shift behind the end of a file with nothing but TDO gets zeros.
THEOREM PlaybackTdo ==
    ASSUME "late" \notin Faults, XidMax > 1
    PROVE  Spec => []LoopTdo
  <1>1. LoopInv => LoopTdo
    BY DEF LoopInv, HistoryInv, TdoOf, LoopTdo
  <1>2. LoopInv /\ [Next]_vars => LoopInv'
    BY LoopStep
  <1>3. QED
    BY <1>1, <1>2, LoopInit0, PTL DEF Spec

\* A shift goes to the file or is looped back when it had not been, and it is the
\* last one that was called.
LEMMA PlayedOnce ==
    ASSUME LoopInv, EmulatorRun \/ InProcess
    PROVE  \/ played' = played
           \/ nShift \in Nat \ {0} /\ LastOf(played) < nShift /\ played' = Append(played, nShift)
  <1>1. Turn
    BY UpWithMessages DEF EmulatorRun, InProcess, Turn
  <1>2. CurInv /\ LoopType /\ Head(req) = cur /\ pc = "wait" /\ ShiftInv /\ rep = <<>>
    BY <1>1, TurnFacts
  <1>3. \/ played' = played
        \/ Executed(cur) /\ (udp => ~isRetry(cur))
    BY <1>2, Zenon DEF EmulatorRun, InProcess, DropRequest, AnswerRequest
  <1>4. CASE played' # played
    <2>1. cur.hdr.cmd = CMD_S /\ played' = Append(played, cur.id)
      BY <1>3, <1>4 DEF Executed
    <2>2. call = "shift"
      BY <1>2, <2>1 DEF CurInv, mkQuery, CMD_Q, CMD_S
    <2>3. cur.id = nShift /\ nShift \in Nat \ {0}
      BY <1>2, <2>2 DEF CurInv, LoopType
    <2>4. ~PlayedInv
      <3>1. udp => ~isRetry(cur)
        BY <1>3, <1>4
      <3>2. QED
        BY <1>2, <2>1, <3>1 DEF PlayedInv, isRetry
    <2>5. NotPlayedInv
      BY <1>2, <2>2, <2>4 DEF ShiftInv
    <2>6. QED
      BY <2>1, <2>3, <2>5 DEF NotPlayedInv
  <1>5. QED
    BY <1>4

\* Every step is a step of JtagOnce, or none.
LEMMA LoopOnceStep ==
    ASSUME LoopInv, [Next]_vars
    PROVE  [Once!OnceNext]_Once!onceVars
  <1>1. ASSUME UNCHANGED <<nShift, played, delivered>>
        PROVE  UNCHANGED Once!onceVars
    BY <1>1 DEF Once!onceVars
  <1>2. CASE Main \/ ThreadStart \/ Lost \/ UNCHANGED vars
    BY <1>1, <1>2 DEF Main, ThreadStart, Lost, vars, drvVars, loopVars
  <1>3. CASE DrvStart
    BY <1>1, <1>3 DEF DrvStart, Start, loopVars
  <1>4. CASE DrvCalls
    <2>1. CASE Connect \/ GetInfo
      BY <1>1, <1>4, <2>1 DEF DrvCalls, Connect, GetInfo, loopVars
    <2>2. CASE \E len \in Lens : SendVectors(len)
      <3>1. Once!Issue
        BY <1>4, <2>2 DEF DrvCalls, SendVectors, loopVars, Once!Issue
      <3>2. QED
        BY <3>1 DEF Once!OnceNext
    <2>3. QED
      BY <1>4, <2>1, <2>2 DEF DrvCalls, Calls
  <1>5. CASE DrvXfer
    <2>1. CASE Write \/ PollTimeout \/ ReplyRejected \/ ReplyStale \/ QueryDone
      BY <1>1, <1>5, <2>1 DEF DrvXfer, Write, PollTimeout, ReplyRejected, ReplyStale, QueryDone, loopVars
    <2>2. CASE ShiftDone
      <3>1. Same /\ boot = "up"
        BY <1>5, <2>2, UpWithMessages DEF DrvXfer, ShiftDone, Same, mainVars, loopVars
      <3>2. LastOf(played) = nShift /\ delivered'.shift = nShift
        BY <2>2, <3>1, ShiftDoneStep
      <3>3. nShift' = nShift /\ played' = played
        BY <3>1 DEF Same
      <3>4. Once!Return
        BY <3>2, <3>3 DEF Once!Return, Once!LastDriven, LastOf
      <3>5. QED
        BY <3>4 DEF Once!OnceNext
    <2>3. QED
      BY <1>5, <2>1, <2>2 DEF DrvXfer, Xfer
  <1>6. CASE EmulatorRun \/ InProcess
    <2>1. UNCHANGED <<nShift, delivered>>
      BY <1>6 DEF EmulatorRun, InProcess, drvVars
    <2>2. CASE played' = played
      BY <1>1, <2>1, <2>2
    <2>3. CASE nShift \in Nat \ {0} /\ LastOf(played) < nShift /\ played' = Append(played, nShift)
      <3>1. LastOf(played) \in Nat
        BY DEF LoopInv, HistoryInv, PlayedInOrder, LastOf
      <3>2. Once!LastDriven = LastOf(played)
        BY DEF Once!LastDriven, LastOf
      <3>3. Once!Drive(nShift) /\ nShift \in 1..nShift
        BY <2>1, <2>3, <3>1, <3>2 DEF Once!Drive
      <3>4. QED
        BY <3>3 DEF Once!OnceNext
    <2>4. QED
      BY <1>6, <2>2, <2>3, PlayedOnce
  <1>7. QED
    BY <1>2, <1>3, <1>4, <1>5, <1>6 DEF Next

\* The loopback driver, and the UDP driver with the emulator behind it, implement
\* JtagOnce: every shift is played at most once and in order, and a call that
\* returns has had its own vectors played, as the last ones so far.
THEOREM LoopImplementsOnce ==
    ASSUME "late" \notin Faults, XidMax > 1
    PROVE  Spec => LoopOnce
  <1>1. Init => Once!OnceInit
    <2> SUFFICES ASSUME Init PROVE Once!OnceInit
      OBVIOUS
    <2>1. nShift = 0 /\ played = <<>> /\ delivered.shift = 0
      BY DEF Init, DrvInit
    <2>2. QED
      BY <2>1 DEF Once!OnceInit
  <1>2. LoopInv /\ [Next]_vars => LoopInv'
    BY LoopStep
  <1>3. LoopInv /\ [Next]_vars => [Once!OnceNext]_Once!onceVars
    BY LoopOnceStep
  <1>4. QED
    BY <1>1, <1>2, <1>3, LoopInit0, PTL DEF Spec, LoopOnce, Once!OnceSpec
===============================================================================
