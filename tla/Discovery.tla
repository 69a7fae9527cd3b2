------------------------------- MODULE Discovery -------------------------------
(***************************************************************************)
(* Which servers the user is connected to: ps is read and every ssh        *)
(* command line parsed (src/src/discover.rs), each destination is resolved *)
(* once with ssh -G, and a tick takes over the hosts and the local ports   *)
(* their sessions claim to forward (src/src/worker.rs).                    *)
(*                                                                         *)
(* How a command line is read is in SshArgs.  Which ports an -L value      *)
(* names is a constant: splitting it is left out.                          *)
(*                                                                         *)
(* What the worker does about a host is in Worker; of it only this is      *)
(* here: while a host is known, ssh processes of ours may run.             *)
(***************************************************************************)
EXTENDS SshArgs

CONSTANTS
    Pids,       \* bound: ssh processes of the user at a time, numbers above 0
    UserLines,  \* lines of ps for sessions and other ssh processes of the user
    OurLines,   \* lines of ps for the ssh processes of this program
    Canon,      \* function from destinations to the server each leads to
    Claim,      \* function from -L values to {<<rport, lport>>}, or {} if the
                \* value is not valid or leads on to another machine
    Config      \* function from servers to the claims of the user's config

ASSUME PidsAssumption == Pids \subseteq Nat \ {0}

VARIABLES
    procs,      \* command line of each process of the user, NoLine if none
    ours,       \* an ssh process of ours that runs, or NoLine
    cache,      \* resolve_cache, without the values that follow from Canon
    known,      \* keys of the hosts
    ext         \* ext_forwards of each host

vars == <<procs, ours, cache, known, ext>>

NoLine == [prog |-> "", mark |-> FALSE, argv |-> <<>>]

----------------------------------------------------------------------------
(* discover.                                                               *)

(* parse_ps_line: an ssh that does not name our directory of sockets. *)
ParseLine(l) == IF l.prog /= "ssh" \/ l.mark THEN NoConn ELSE ParseArgs(l.argv)

ConnOf == [l \in UserLines \cup OurLines \cup {NoLine} |-> ParseLine(l)]

(* discover: of connections with the same destination and options the first
   that ps lists is kept. *)
SameConn_Dest(c, d) == c.dest = d.dest
SameConn(c, d) == c.dest = d.dest /\ c.extra = d.extra

Discovered ==
    LET table == {<<p, ConnOf[procs[p]]>> : p \in Pids} \cup {<<0, ConnOf[ours]>>}
        found == {e \in table : e[2] /= NoConn}
    IN  {e[2] : e \in {d \in found :
                   \A f \in found : SameConn(d[2], f[2]) => d[1] <= f[1]}}

----------------------------------------------------------------------------
(* on_tick.                                                                *)

(* user@hostname:port *)
Key(c) == <<Canon[c.dest], {o \in ToSet(c.extra) : o[1] \in {"p", "l"}}>>

Name(c) == [dest |-> c.dest, extra |-> c.extra]

(* resolved: asked once per destination and options, whatever the answer. *)
Resolve(conns) ==
    LET new == {Name(c) : c \in conns} \ {[dest |-> r.dest, extra |-> r.extra] : r \in cache}
    IN  \E good \in SUBSET new :
            cache' = cache \cup
                {[dest |-> n.dest, extra |-> n.extra, ok |-> n \in good] : n \in new}

Resolved(c) == [dest |-> c.dest, extra |-> c.extra, ok |-> TRUE] \in cache'

Claims(c) == Config[Canon[c.dest]] \cup UNION {Claim[v] : v \in ToSet(c.lfs)}

(* Of several claims for one remote port one is kept. *)
OnePerPort(all) ==
    {E \in SUBSET all : \A a \in all : Cardinality({e \in E : e[1] = a[1]}) = 1}

(* The claims a host is left with: those of this tick. *)
Fresh_Merged(k, all) ==
    OnePerPort(all \cup IF k \in known THEN ext[k] ELSE {})
Fresh(k, all) == OnePerPort(all)

Tick(conns) ==
    /\ Resolve(conns)
    /\ LET seen == {c \in conns : Resolved(c)} IN
       /\ known' = {Key(c) : c \in seen}
       /\ ext' \in [known' -> SUBSET UNION {Claims(c) : c \in seen}]
       /\ \A k \in known' :
             ext'[k] \in Fresh(k, UNION {Claims(c) : c \in {d \in seen : Key(d) = k}})
    /\ UNCHANGED <<procs, ours>>

Look == Tick(Discovered)
LookFails == Tick({})           \* ps fails or takes more than 5 s

----------------------------------------------------------------------------
(* The processes.                                                          *)

Start(p) ==
    /\ procs[p] = NoLine
    /\ \E l \in UserLines : procs' = [procs EXCEPT ![p] = l]
    /\ UNCHANGED <<ours, cache, known, ext>>

End(p) ==
    /\ procs[p] /= NoLine
    /\ procs' = [procs EXCEPT ![p] = NoLine]
    /\ UNCHANGED <<ours, cache, known, ext>>

(* As long as there are hosts, one process of ours or the other may run. *)
Ours ==
    /\ ours' \in IF known = {} THEN {NoLine} ELSE OurLines \cup {NoLine}
    /\ UNCHANGED <<procs, cache, known, ext>>

Init ==
    /\ procs \in [Pids -> UserLines \cup {NoLine}]
    /\ ours = NoLine
    /\ cache = {} /\ known = {} /\ ext = <<>>

Next == Look \/ LookFails \/ Ours \/ \E p \in Pids : Start(p) \/ End(p)

(* Ticks come, ps does not fail for ever, and what we started for a host
   ends once there is none. *)
Fairness == WF_vars(Look) /\ WF_vars(known = {} /\ Ours)

Spec == Init /\ [][Next]_vars
FairSpec == Spec /\ Fairness

----------------------------------------------------------------------------
(* Properties.                                                             *)

Lines == {procs[p] : p \in Pids} \ {NoLine}

(* A session of the user's, or an ssh that only prints: for as long as that
   runs it is taken for one. *)
IsUsers(l) ==
    /\ l.prog = "ssh"
    /\ \E V \in SUBSET DOMAIN l.argv : AreValues(l.argv, V) /\ NamesHost(l.argv, V)

(* A host goes with the user's last session (or ssh -G and the like),
   although we go on talking to it through ssh processes of our own that ps
   lists as well: none of them, a master, a scan, a request or a relay to it,
   keeps itself alive. *)
EndsWithSession ==
    <>[](\A l \in Lines : ~IsUsers(l)) => <>[](known = {})

(* A session that stays is a host, however often ps fails and whatever other
   sessions to the same destination there are, provided ssh -G has worked
   for it the one time it was asked. *)
Refused(n) == [dest |-> n.dest, extra |-> n.extra, ok |-> FALSE] \in cache
Runs(n) == \E p \in Pids : Name(ConnOf[procs[p]]) = n
Names == {Name(ConnOf[l]) : l \in UserLines} \ {Name(NoConn)}
Seen ==
    \A n \in Names : <>[](Runs(n) /\ ~Refused(n)) => []<>(Key(n) \in known)

(* A claim ends with the session that made it: when the sessions have
   settled, a host is left with no claim but those of its config and of the
   sessions that run (on_tick gathers them anew each time). *)
ClaimsEnd ==
    \A v \in DOMAIN Claim :
        <>[](\A l \in Lines : v \notin ToSet(ConnOf[l].lfs))
            => <>[](\A k \in known : ext[k] \cap Claim[v] \subseteq Config[k[1]])
=============================================================================
