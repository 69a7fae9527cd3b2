------------------------------ MODULE MCReaders ------------------------------
(***************************************************************************)
(* The two readers of what other programs print: parse_ssh_args over the   *)
(* command lines ps lists, and parse_scan over the output of a scan.       *)
(* Neither knows of the other; a behaviour is of one of them, with nothing *)
(* for the other to do.                                                    *)
(***************************************************************************)
EXTENDS ParseSshArgs, RemoteScan

NoCommandLine == argv = <<>> /\ values = {} /\ pos = 1 /\ st = Unread
NoScan ==
    /\ server = <<>> /\ whole = TRUE /\ stage = "done" /\ at = 1 /\ fmt = NoName
    /\ listeners = <<>> /\ procRows = <<>> /\ inodes = {}
    /\ byPort = NoRows /\ apps = NoRows

ReadersInit == (ArgInit /\ NoScan) \/ (Init /\ NoCommandLine)
ReadersNext == (ArgNext /\ UNCHANGED vars) \/ (Next /\ UNCHANGED argVars)
ReadersSpec == ReadersInit /\ [][ReadersNext]_<<vars, argVars>>

----------------------------------------------------------------------------
(* Every command line of up to four words from these.                      *)

Words ==
    {Word("web"), Word("x"),
     Opt("v"),                              \* takes no value
     Opt("p"), OptWith("p", "2"),           \* taken over
     Opt("L"), OptWith("L", "a"),           \* a claim
     Opt("S"), OptWith("o", "x"),           \* read past
     Opt("O"), OptWith("W", "x"),           \* no session
     Opt("G"), Opt("Q"), Opt("Z"),          \* only print
     Opt("--"), Opt("-")}

SomeArgvs == UNION {[1..n -> Words] : n \in 0..4}
SomeTexts == ({w.text : w \in Words} \cup {w.val : w \in Words}) \ {""}
SomeLetters == {w.opt : w \in Words}

(* There is one way to tell the values from the other words. *)
ASSUME OneReading ==
    \A a \in SomeArgvs : \E V \in SUBSET DOMAIN a :
        AreValues(a, V) /\ \A W \in SUBSET DOMAIN a : AreValues(a, W) => W = V

----------------------------------------------------------------------------
(* Servers: two ports in every shape beside a fixed rest.                  *)

SomeProcs == {"py", "node", "named"}

Sock(p, bind, proc, own) ==
    [port |-> p, bind |-> bind, proc |-> proc, own |-> own, listens |-> TRUE]

(* Nothing; a local one, seen or not; one bound to another address; one for
   IPv4 and one for IPv6, of which one is seen; a system service. *)
Shapes(p) ==
    {<<>>, <<Sock(p, "lo", "py", TRUE)>>, <<Sock(p, "lo", "py", FALSE)>>,
     <<Sock(p, "other", "py", TRUE)>>,
     <<Sock(p, "lo", "py", TRUE), Sock(p, "any", "py", FALSE)>>,
     <<Sock(p, "lo", "py", FALSE), Sock(p, "lo", "py", TRUE)>>,
     <<Sock(p, "lo", "named", TRUE)>>}

(* A dev port and an ephemeral one of the same name, the sshd, and a
   connection that does not listen. *)
Rest == <<Sock(8888, "lo", "py", TRUE), Sock(40000, "any", "node", TRUE),
          Sock(2222, "any", "node", TRUE),
          [Sock(5005, "any", "py", TRUE) EXCEPT !.listens = FALSE]>>

SomeServers ==
    UNION {{A \o R \o B, Reverse(A \o R \o B)} :
               A \in Shapes(9000), B \in Shapes(9001), R \in {<<>>, Rest}}

Denied == {22, 53}
DeniedProcs == {"sshd", "named"}
Dev == {3000, 8888}
=============================================================================
