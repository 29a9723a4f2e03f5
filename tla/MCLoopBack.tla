------------------------------ MODULE MCLoopBack ------------------------------
(***************************************************************************)
(* The instances of LoopBack that TLC checks.                              *)
(***************************************************************************)
EXTENDS LoopBack

PeriodTable == [x \in 0..XidMax |-> 5]

\* The drivers of the Makefile's default build, and two objects
BuiltinDrivers == <<Entry("loopback", TRUE), Entry("udp", TRUE)>>
LoadableDrivers ==
    [tmemObject |-> <<Entry("tmem", TRUE)>>, twoDrivers |-> <<Entry("udp", FALSE), Entry("mine", FALSE)>>]

CommandLines ==
    [drvnam : {"loopback", "udpLoopback", "tmemObject", "twoDrivers", "noSuchObject"},
     target : BOOLEAN, tdoOnly : BOOLEAN]
===============================================================================
