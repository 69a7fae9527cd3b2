-------------------------- MODULE WorkerProperties --------------------------
(***************************************************************************)
(* What the worker should keep true, stated over Worker's variables.  The  *)
(* last section holds what comments and the README say and the code does   *)
(* not keep.                                                               *)
(***************************************************************************)
EXTENDS Worker

HasForward(a) == \E t \in tunnels : Row(t) = a /\ t.lport = app[a].lport
Dead(h) == <<h, host[h].master>> \notin live
Eligible(a) == /\ auto /\ a[1] \notin paused /\ Ready(a[1])
               /\ ~app[a].muted /\ Tier(app[a]) = "app"

----------------------------------------------------------------------------
(* Safety.                                                                 *)

(* Every flag that stands for "a thread will report" has its thread: a
   pending row a forward of its very port, a host that scans or connects a
   scan or a connect.  No timer resets these flags (worker.rs:93-99, 656),
   so without its thread a row or a host would wait for ever. *)
NoLostWakeup ==
    /\ \A a \in Apps : app[a].status = "pending" =>
          \E f \in fwds : Row(f.to) = a /\ f.to.lport = app[a].lport
    /\ \A h \in Hosts : /\ host[h].scanning => OfHost(scans, h) /= {}
                        /\ host[h].connecting => OfHost(connects, h) /= {}

(* A row the user switched off is off in state.json too, whatever results of
   earlier forwards arrive meanwhile (on_fwd clears the saved flag), so that
   a restart does not forward it again. *)
MuteRemembered ==
    \A a \in Apps : app[a].muted => mem[a].muted /\ disk[a].muted

(* A row the user hid is hidden in state.json too. *)
HideRemembered ==
    \A a \in Apps :
        app[a].override = "bg" => mem[a].tier = "bg" /\ disk[a].tier = "bg"

(* No forward is left behind while nothing fails: each belongs to a row that
   claims it, or its request has yet to report, or a cancel or a teardown
   that will remove it is under way.  Only then do the off-switches really
   stop what they say they stop (on_fwd's stray handling, spawn_cancels). *)
NoOrphanForward ==
    \A t \in tunnels :
        \/ Claimed(app[Row(t)]) /\ app[Row(t)].lport = t.lport
        \/ \E f \in fwds : (f.to = t /\ f.res = "ok") \/ t \in f.undo
        \/ \E c \in cancels : t \in c.todo /\ c.pc \in {"batch", "each"}
        \/ \E d \in teardowns : d.host = t.host /\ d.via = t.via

(* A row becomes pending only while no switch that covers it is off: not
   muted, not hidden, its host not paused, forwarding on; unless the user
   starts that very row.  Scans, results and retries must all respect it. *)
StartsAllowed ==
    \A a \in Apps :
       app[a].status /= "pending" /\ app'[a].status = "pending" =>
          /\ ~app'[a].muted /\ Tier(app'[a]) = "app"
          /\ \/ auto' /\ a[1] \notin paused'
             \/ ToggleOn(a) \/ \E lp \in LPorts : AssignOther(a, lp)
OffIsOff == [][StartsAllowed]_vars

(* on_scan never takes a forward of ours, being cancelled or not yet up, for
   one of the user's own sessions: the port it adopts is held by another
   program. *)
NoSelfAdoption ==
    [][\A a \in Apps :
          app[a].status /= "external" /\ app'[a].status = "external" =>
             app'[a].lport \in foreign]_vars

(* The worker keeps the books of Ownership: rows and threads pass forwards
   between them, and at no step one is open that none of them has, or closes
   that no thread has in hand (worker.rs:625-722, 860-922). *)
InHand == {f.to : f \in fwds} \cup (UNION {f.undo : f \in fwds})
          \cup (UNION {c.todo : c \in cancels}) \cup UNION {d.todo : d \in teardowns}
Unreported == UNION {c.sent : c \in cancels}

Books == INSTANCE Ownership WITH
    Lines <- Forwards,
    open <- tunnels,
    rows <- Held(app, Apps),
    busy <- InHand \cup Unreported
KeepsBooks == Books!Spec

----------------------------------------------------------------------------
(* Liveness, under Fairness.                                               *)

(* A pending row does not stay pending. *)
PendingResolves ==
    \A a \in Apps : app[a].status = "pending" ~> app[a].status /= "pending"

(* A row that stays switched off ends up without a forward, however the
   cancels and the forwards under way at that moment interleave. *)
StoppedForGood ==
    \A a \in Apps : <>[]app[a].muted => <>[](\A t \in tunnels : Row(t) /= a)

(* A row that is shown as forwarded through a master that has died is not
   shown so for ever: the next scan notices. *)
LossNoticed ==
    \A a \in Apps : app[a].status = "active" /\ Dead(a[1])
                      ~> app[a].status /= "active" \/ ~Dead(a[1])

(* A host with a session gets a master again after losing one. *)
Reconnects == \A h \in Hosts : Known(h) ~> ~Known(h) \/ Ready(h)

(* A row that should be forwarded does not stay off: after a loss it is
   forwarded again without the user's help. *)
AutoForwarded ==
    \A a \in Apps : Eligible(a) /\ app[a].status = "off"
                      ~> ~Eligible(a) \/ app[a].status /= "off"

(* Two servers with an application on the same port: one gets the local port
   of that number, the other another one, and both stay forwarded. *)
CollisionsSettle ==
    auto /\ paused = {} => <>[](\A a \in Apps :
                                  app[a].status = "active" /\ HasForward(a))

(* A forward credited to the user's session is given up when nothing holds
   its port any more, so that we can provide it. *)
TakenOver ==
    \A a \in Apps : app[a].status = "external" /\ app[a].lport \notin foreign
                      ~> app[a].status /= "external" \/ app[a].lport \in foreign

(* When the session to a host has ended, so do our forwards there. *)
ClosedTornDown ==
    \A h \in Hosts : <>[](h \notin sessions) =>
                        <>[](\A t \in tunnels : t.host /= h)

----------------------------------------------------------------------------
(* What comments and the README promise and the code does not keep: each   *)
(* of these is refuted by a run.                                           *)

(* "Stay truthful" (worker.rs:181) and "The result only applies if this
   exact forward is still awaited" (worker.rs:678): a row shown as forwarded
   has its forward, or soon has it again, or is no longer shown so. *)
TruthfulRows ==
    \A a \in Apps : app[a].status = "active"
                      ~> app[a].status /= "active" \/ HasForward(a)

(* "already forwarding another app on it" (worker.rs:758), "Whoever gets
   local 8888 first keeps it" (README.md:52): no two rows claim one local
   port. *)
OnePortPerRow ==
    \A a, b \in Apps : a /= b /\ Claimed(app[a]) /\ Claimed(app[b]) =>
        app[a].lport /= app[b].lport
=============================================================================
