------------------------------- MODULE RemoteScan -------------------------------
(***************************************************************************)
(* From what a scan prints to rows: parse_scan, dedupe and classify of     *)
(* src/src/remote.rs, and the count of same-named listeners that on_scan   *)
(* gives to classify (src/src/worker.rs).                                  *)
(*                                                                         *)
(* The tools of the server are external: ss and netstat list listening     *)
(* sockets with the process where the user may see it, /proc lists sockets *)
(* in every state and then whose they are.  An address is reduced to       *)
(* loopback, every address, or another one; the text of a line is left     *)
(* out.  The connection may break at the end of any line, and what has     *)
(* been printed then counts as the scan (MasterRef::scan).                 *)
(*                                                                         *)
(* A step is one round of a loop: over the lines, over the rows of /proc   *)
(* that are joined with their owners, and over what dedupe merges.         *)
(***************************************************************************)
EXTENDS Naturals, SequencesExt

CONSTANTS
    Procs,          \* names of processes
    Servers,        \* the sockets of one server, in the order they are listed
    SshdPort,       \* the port of the connection we scan over
    DenyPorts, DenyProcs, DevPorts,     \* the tables of remote.rs
    EphemeralStart, ClusterMin

Tools == {"ss", "netstat", "proc"}
PortNumbers == 1..65535
Binds == {"lo", "any", "other"}
NoName == ""

(* own: the user may see whose it is. *)
Socket == [port : PortNumbers, bind : Binds, proc : Procs,
           own : BOOLEAN, listens : BOOLEAN]

ASSUME ServersAssumption == Servers \subseteq Seq(Socket)
ASSUME NamesAssumption == NoName \notin Procs \cup DenyProcs
ASSUME TablesAssumption ==
    EphemeralStart \in Nat /\ ClusterMin \in Nat /\ SshdPort \in Nat

VARIABLES
    server,     \* the sockets of the server
    whole,      \* whether the scan has not been cut short
    stage,      \* the loop that runs; in_map is stage = "map"
    at,         \* how far it has come
    fmt, listeners, procRows, inodes,   \* locals of parse_scan
    byPort,     \* of dedupe: a function from ports
    apps        \* the rows, a function from ports, or NoRows before that

vars == <<server, whole, stage, at, fmt, listeners, procRows, inodes, byPort, apps>>

Stages == {"lines", "map", "join", "dedupe", "done"}
NoRows == [p \in {} |-> NoName]

(* The loop of a stage takes the element of list it has come to. *)
Loop(of, list) ==
    /\ stage = of /\ at \in DOMAIN list
    /\ at' = at + 1
    /\ UNCHANGED <<server, whole, stage, fmt, apps>>

Enter(next) == stage' = next /\ at' = 1

----------------------------------------------------------------------------
(* parse_scan: one line after the other, as the script prints them.        *)

App(s, name) == [port |-> s.port, addr |-> s.bind, proc |-> name]

ReadFmt ==
    /\ stage = "lines" /\ fmt = NoName
    /\ fmt' \in Tools
    /\ UNCHANGED <<server, whole, stage, at, listeners, procRows, inodes, byPort, apps>>

(* ss -l and netstat -l leave out what does not listen; parse_ss_line and
   parse_netstat_line take the name where there is one. *)
Printed(s) == s.listens
ReadListener ==
    /\ fmt \in {"ss", "netstat"} /\ Loop("lines", server)
    /\ LET s == server[at] IN
       listeners' = IF Printed(s)
                    THEN Append(listeners, App(s, IF s.own THEN s.proc ELSE NoName))
                    ELSE listeners
    /\ UNCHANGED <<procRows, inodes, byPort>>

(* /proc lists every state; parse_proc_line takes LISTEN only. *)
Listening_Any(s) == TRUE
Listening(s) == s.listens
ReadProcRow ==
    /\ fmt = "proc" /\ Loop("lines", server)
    /\ LET s == server[at] IN
       procRows' = IF Listening(s) THEN Append(procRows, s) ELSE procRows
    /\ UNCHANGED <<listeners, inodes, byPort>>

ReadMapMark ==
    /\ fmt = "proc" /\ stage = "lines" /\ at > Len(server)
    /\ Enter("map")
    /\ UNCHANGED <<server, whole, fmt, listeners, procRows, inodes, byPort, apps>>

ReadOwner ==    \* the socket stands for its inode
    /\ Loop("map", server)
    /\ inodes' = IF server[at].own THEN inodes \cup {server[at]} ELSE inodes
    /\ UNCHANGED <<listeners, procRows, byPort>>

(* The output ends, with its last line or because the connection breaks;
   what comes out before the first line is no scan. *)
LastLine == at > Len(server) /\ (fmt = "proc" => stage = "map")
EndOfOutput ==
    /\ stage \in {"lines", "map"} /\ fmt /= NoName
    /\ whole' = LastLine
    /\ Enter("join")
    /\ UNCHANGED <<server, fmt, listeners, procRows, inodes, byPort, apps>>

(* Rows of /proc are joined with their owners; one without stays. *)
Joined_Known(s) ==
    IF s \in inodes THEN Append(listeners, App(s, s.proc)) ELSE listeners
Joined(s) ==
    Append(listeners, App(s, IF s \in inodes THEN s.proc ELSE NoName))
Join ==
    /\ Loop("join", procRows)
    /\ listeners' = Joined(procRows[at])
    /\ UNCHANGED <<procRows, inodes, byPort>>

----------------------------------------------------------------------------
(* dedupe: a named entry gives its name, a wildcard its address.           *)

Merge_First(cur, app) ==
    [cur EXCEPT !.proc = IF @ = NoName THEN app.proc ELSE @]
Merge(cur, app) ==
    [cur EXCEPT !.proc = IF @ = NoName THEN app.proc ELSE @,
                !.addr = IF app.addr = "any" THEN "any" ELSE @]

Dedupe ==
    /\ stage = "join" /\ at > Len(procRows)
    /\ Enter("dedupe")
    /\ UNCHANGED <<server, whole, fmt, listeners, procRows, inodes, byPort, apps>>

Add ==
    /\ Loop("dedupe", listeners)
    /\ LET app == listeners[at] IN
       byPort' = [p \in DOMAIN byPort \cup {app.port} |->
                     IF p /= app.port THEN byPort[p]
                     ELSE IF p \in DOMAIN byPort THEN Merge(byPort[p], app) ELSE app]
    /\ UNCHANGED <<listeners, procRows, inodes>>

----------------------------------------------------------------------------
(* classify, for the row r of rows.                                        *)

IsSystem(r) == r.port = SshdPort \/ r.port \in DenyPorts \/ r.proc \in DenyProcs

LoCount(rows, name) == Cardinality({p \in DOMAIN rows : rows[p].addr = "lo"
                                                        /\ rows[p].proc = name})
InCluster(rows, r) ==
    r.addr = "lo" /\ r.proc /= NoName /\ LoCount(rows, r.proc) >= ClusterMin

Tier(rows, r) ==
    IF IsSystem(r) THEN "system"
    ELSE IF r.port \in DevPorts THEN "app"
    ELSE IF r.port >= EphemeralStart \/ InCluster(rows, r) THEN "bg" ELSE "app"

Classify ==
    /\ stage = "dedupe" /\ at > Len(listeners)
    /\ stage' = "done"
    /\ apps' = [p \in DOMAIN byPort |-> [proc |-> byPort[p].proc,
                                         tier |-> Tier(byPort, byPort[p])]]
    /\ UNCHANGED <<server, whole, at, fmt, listeners, procRows, inodes, byPort>>

Init ==
    /\ server \in Servers
    /\ whole = TRUE
    /\ stage = "lines" /\ at = 1 /\ fmt = NoName
    /\ listeners = <<>> /\ procRows = <<>> /\ inodes = {}
    /\ byPort = NoRows /\ apps = NoRows

Next == ReadFmt \/ ReadListener \/ ReadProcRow \/ ReadMapMark \/ ReadOwner
        \/ EndOfOutput \/ Join \/ Dedupe \/ Add \/ Classify

Spec == Init /\ [][Next]_vars

----------------------------------------------------------------------------
(* Properties.                                                             *)

On(p) == {s \in ToSet(server) : s.port = p /\ s.listens}
Visible(p) == {s.proc : s \in {t \in On(p) : t.own}}

(* Whatever tool the server has and wherever the connection breaks, a row is
   a port somebody listens on there, under the name of one who does. *)
Real ==
    \A p \in DOMAIN apps :
        On(p) /= {} /\ apps[p].proc \in Visible(p) \cup {NoName}

(* A scan that came through finds every listener, and its name where the
   user may see one, also when only one of two sockets shows it. *)
Complete ==
    whole /\ stage = "done" =>
        \A s \in ToSet(server) : s.listens =>
            /\ s.port \in DOMAIN apps
            /\ Visible(s.port) /= {} => apps[s.port].proc /= NoName

(* What a port is, said of the server and not of lines: the tier does not
   depend on the tool, on the order of its lines, or on a port being bound
   for IPv4 and IPv6 separately.  Only a listener that can be reached from
   outside by no socket counts as local. *)
LocalOnly(p) == \A s \in On(p) : s.bind = "lo"
Like(p) == {q \in {s.port : s \in ToSet(server)} :
               /\ On(q) /= {} /\ LocalOnly(q) /\ Visible(q) = Visible(p)}
TierOf(p) ==
    IF \/ p = SshdPort \/ p \in DenyPorts \/ Visible(p) \cap DenyProcs /= {}
    THEN "system"
    ELSE IF p \in DevPorts THEN "app"
    ELSE IF p >= EphemeralStart THEN "bg"
    ELSE IF LocalOnly(p) /\ Visible(p) /= {} /\ Cardinality(Like(p)) >= ClusterMin
    THEN "bg" ELSE "app"

TierRight == whole => \A p \in DOMAIN apps : apps[p].tier = TierOf(p)
=============================================================================
