------------------------------ MODULE Network ------------------------------
(***************************************************************************)
(* What surrounds the worker: local TCP ports (src/src/ports.rs), the ssh  *)
(* masters that hold forwards (the mux operations of src/src/control.rs),  *)
(* the user's sessions and the applications listening on the servers.      *)
(*                                                                         *)
(* A forward is a record naming the master that holds it and its two       *)
(* ports.  A master is addressed by its control socket, so <<host, via>>   *)
(* is all that identifies it: "own" is the socket this program makes for   *)
(* the host, "shared" the one of the user's ControlMaster.                 *)
(***************************************************************************)
EXTENDS Integers, Sequences, FiniteSetsExt

CONSTANTS
    Hosts,      \* servers, as numbers in the order of their keys
    RPorts,     \* remote ports applications may listen on
    LPorts,     \* local ports of the instance
    Ephemeral,  \* those the kernel may hand out for a bind to port 0
    Shared,     \* hosts for which the user's config runs a ControlMaster
    Events      \* kinds of environment events the instance allows

ASSUME HostsAssumption == Hosts \subseteq Nat
ASSUME PortsAssumption == LPorts \subseteq Nat \ {0}     \* 0 is no port
ASSUME PreferredAssumption ==
    /\ RPorts \subseteq LPorts      \* the remote number is a local preference
    /\ Ephemeral \subseteq LPorts
ASSUME SharedAssumption == Shared \subseteq Hosts

None == 0                           \* "no local port"
Ports == LPorts \cup {None}
Apps == Hosts \X RPorts
Vias == {"own", "shared"}
Forwards == [host : Hosts, via : Vias, lport : LPorts, rport : RPorts]

VARIABLES
    live,       \* masters whose control socket answers
    tunnels,    \* forwards currently bound
    foreign,    \* local ports bound by other programs
    listening,  \* <<host, rport>> with a listener on the server
    sessions    \* hosts with an ssh session of the user

netVars == <<live, tunnels, foreign, listening, sessions>>

NetTypeOK ==
    /\ live \subseteq Hosts \X Vias
    /\ tunnels \subseteq Forwards
    /\ foreign \subseteq LPorts
    /\ listening \subseteq Apps
    /\ sessions \subseteq Hosts

----------------------------------------------------------------------------
(* Local ports.                                                            *)

IsFree(p) == p \notin foreign /\ \A t \in tunnels : t.lport /= p

(* The ports find_free may return: the first usable preference, else any
   port the kernel hands out, which is free but not checked against taken. *)
FindFree(prefs, taken) ==
    LET usable == {i \in DOMAIN prefs : /\ prefs[i] >= 1024
                                        /\ prefs[i] \notin taken
                                        /\ IsFree(prefs[i])}
        kernel == {p \in Ephemeral : IsFree(p)}
    IN  IF usable /= {}
        THEN {prefs[i] : i \in {j \in usable : \A k \in usable : j <= k}}
        ELSE IF kernel /= {} THEN kernel ELSE {None}

----------------------------------------------------------------------------
(* Requests to a master: ssh -O forward and ssh -O cancel.  A request for  *)
(* a forward the master already holds succeeds; a cancel of one it does    *)
(* not hold fails.  A request that times out may or may not take effect.   *)

Up(t) == <<t.host, t.via>> \in live
MayTimeOut == "timeout" \in Events
OrLate(res) == {res} \cup IF MayTimeOut THEN {"fail"} ELSE {}

MuxForward(t, res) ==
    \/ Up(t) /\ t \in tunnels /\ res = "ok" /\ UNCHANGED tunnels
    \/ /\ Up(t) /\ IsFree(t.lport)
       /\ tunnels' = tunnels \cup {t}
       /\ res \in OrLate("ok")
    \/ /\ Up(t) /\ t \notin tunnels /\ ~IsFree(t.lport)
       /\ res \in {"bind", "fail"}
       /\ UNCHANGED tunnels
    \/ (~Up(t) \/ MayTimeOut) /\ res = "fail" /\ UNCHANGED tunnels

(* One request for all of T: ok when every forward of T was held. *)
MuxCancel(T, res) ==
    LET held == {t \in T : Up(t) /\ t \in tunnels} IN
    \/ /\ tunnels' = tunnels \ held
       /\ res \in IF held = T THEN OrLate("ok") ELSE {"fail"}
    \/ MayTimeOut /\ res = "fail" /\ UNCHANGED tunnels

MasterExit(h, via) ==
    /\ live' = live \ {<<h, via>>}
    /\ tunnels' = {t \in tunnels : t.host /= h \/ t.via /= via}

----------------------------------------------------------------------------
(* The environment.                                                        *)

ListenChange ==
    /\ "listen" \in Events
    /\ \E a \in Apps : listening' = SymDiff(listening, {a})
    /\ UNCHANGED <<live, tunnels, foreign, sessions>>

SessionChange ==
    /\ "session" \in Events
    /\ \E h \in Hosts : sessions' = SymDiff(sessions, {h})
    /\ UNCHANGED <<live, tunnels, foreign, listening>>

ForeignChange ==
    /\ "foreign" \in Events
    /\ \E p \in LPorts : /\ p \in foreign \/ IsFree(p)
                         /\ foreign' = SymDiff(foreign, {p})
    /\ UNCHANGED <<live, tunnels, listening, sessions>>

MasterDies ==
    /\ "drop" \in Events
    /\ \E m \in live : MasterExit(m[1], m[2])
    /\ UNCHANGED <<foreign, listening, sessions>>

UserMaster ==
    /\ "user" \in Events
    /\ \E h \in Shared \cap sessions : live' = live \cup {<<h, "shared">>}
    /\ UNCHANGED <<tunnels, foreign, listening, sessions>>

NetInit ==
    /\ live \in SUBSET (Shared \X {"shared"})
    /\ tunnels = {}
    /\ foreign = {}
    /\ listening = Apps
    /\ sessions = Hosts

NetNext ==
    \/ ListenChange \/ SessionChange \/ ForeignChange
    \/ MasterDies \/ UserMaster
=============================================================================
