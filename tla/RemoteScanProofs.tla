-------------------------- MODULE RemoteScanProofs --------------------------
(***************************************************************************)
(* Proofs, for every server and every table, that the rows of a scan are   *)
(* real, that a whole scan has them all, and that tiers depend on the      *)
(* server alone.                                                           *)
(***************************************************************************)
EXTENDS RemoteScan, TLAPS

Entry == [port : PortNumbers, addr : Binds, proc : Procs \cup {NoName}]

TypeOK ==
    /\ server \in Servers /\ whole \in BOOLEAN
    /\ stage \in Stages /\ at \in Nat \ {0}
    /\ fmt \in Tools \cup {NoName}
    /\ listeners \in Seq(Entry) /\ procRows \in Seq(Socket)
    /\ inodes \subseteq Socket
    /\ \A p \in DOMAIN byPort : byPort[p] \in Entry /\ byPort[p].port = p

(* What the user may know of a socket, and an entry that is about it. *)
Name(s) == IF s.own THEN s.proc ELSE NoName
About(e, s) ==
    /\ s.listens /\ e.port = s.port /\ e.addr = s.bind
    /\ e.proc \in {NoName, Name(s)}

(* Nothing is made up on the way. *)
Sound ==
    /\ \A j \in DOMAIN procRows : procRows[j].listens /\ procRows[j] \in ToSet(server)
    /\ \A s \in inodes : s.own
    /\ \A j \in DOMAIN listeners : \E s \in ToSet(server) : About(listeners[j], s)

(* What dedupe has merged so far: each port has the address and the name of
   an entry for it, a name and the wildcard if there is one. *)
Taken == {j \in DOMAIN listeners : stage \in {"dedupe", "done"} /\ j < at}
Merged ==
    /\ \A p \in DOMAIN byPort :
          /\ \E j \in Taken : listeners[j].port = p /\ byPort[p].addr = listeners[j].addr
          /\ \E j \in Taken : listeners[j].port = p /\ byPort[p].proc = listeners[j].proc
    /\ \A j \in Taken : LET e == listeners[j] IN
          /\ e.port \in DOMAIN byPort
          /\ e.proc /= NoName => byPort[e.port].proc /= NoName
          /\ e.addr = "any" => byPort[e.port].addr = "any"

(* Nothing is lost on the way: what has been read is in procRows or among
   the listeners, under its name once the map has been read. *)
Seen(s) == \E i \in DOMAIN server : i < at /\ server[i] = s
Kept(s) == \E j \in DOMAIN procRows : procRows[j] = s
Carried(s) == \E j \in DOMAIN listeners : listeners[j] = App(s, Name(s))
Waits(s) == \E j \in DOMAIN procRows : j >= at /\ procRows[j] = s
Got ==
    /\ fmt = NoName => stage = "lines" /\ at = 1
    /\ fmt /= "proc" => procRows = <<>> /\ stage /= "map"
    /\ stage = "lines" => \A s \in ToSet(server) :
          Seen(s) /\ s.listens => IF fmt = "proc" THEN Kept(s) ELSE Carried(s)
    /\ stage = "map" => \A s \in ToSet(server) :
          /\ s.listens => Kept(s)
          /\ Seen(s) /\ s.own => s \in inodes
    /\ stage = "join" /\ whole => \A s \in ToSet(server) :
          /\ s.listens => Carried(s) \/ Waits(s)
          /\ fmt = "proc" /\ s.own => s \in inodes
    /\ stage \in {"dedupe", "done"} /\ whole =>
          \A s \in ToSet(server) : s.listens => Carried(s)

Rows == [p \in DOMAIN byPort |-> [proc |-> byPort[p].proc,
                                  tier |-> Tier(byPort, byPort[p])]]
Result == IF stage = "done" THEN at > Len(listeners) /\ apps = Rows ELSE apps = NoRows

ScanInv == TypeOK /\ Sound /\ Merged /\ Got /\ Result

----------------------------------------------------------------------------
(* Every step keeps the invariant, one part after the other.               *)

LEMMA SocketsOfServer ==
    ASSUME TypeOK, ServersAssumption
    PROVE  /\ server \in Seq(Socket)
           /\ \A s \in ToSet(server) : s \in Socket
           /\ \A s : s \in ToSet(server) <=> \E i \in DOMAIN server : server[i] = s
BY DEF TypeOK, ServersAssumption, ToSet

LEMMA AppType ==
    ASSUME NEW s \in Socket, NEW name \in Procs \cup {NoName}
    PROVE  App(s, name) \in Entry
BY DEF App, Entry, Socket

LEMMA MergeType ==
    ASSUME NEW cur \in Entry, NEW e \in Entry
    PROVE  Merge(cur, e) \in Entry /\ Merge(cur, e).port = cur.port
BY DEF Merge, Entry, Binds

LEMMA TypeStep ==
    ASSUME TypeOK, [Next]_vars, ServersAssumption
    PROVE  TypeOK'
<1> USE SocketsOfServer
<1>1. CASE ReadFmt
    BY <1>1 DEF ReadFmt, TypeOK
<1>2. CASE ReadListener
    <2>1. server[at] \in Socket
        BY <1>2 DEF ReadListener, Loop
    <2>2. App(server[at], IF server[at].own THEN server[at].proc ELSE NoName) \in Entry
        BY <2>1 DEF App, Entry, Socket
    <2> QED BY <1>2, <2>2 DEF ReadListener, Loop, TypeOK
<1>3. CASE ReadProcRow
    BY <1>3 DEF ReadProcRow, Loop, TypeOK
<1>4. CASE ReadMapMark
    BY <1>4 DEF ReadMapMark, Enter, TypeOK, Stages
<1>5. CASE ReadOwner
    BY <1>5 DEF ReadOwner, Loop, TypeOK
<1>6. CASE EndOfOutput
    BY <1>6 DEF EndOfOutput, LastLine, Enter, TypeOK, Stages
<1>7. CASE Join
    <2>1. procRows[at] \in Socket
        BY <1>7 DEF Join, Loop, TypeOK
    <2>2. App(procRows[at], IF procRows[at] \in inodes THEN procRows[at].proc ELSE NoName)
             \in Entry
        BY <2>1 DEF App, Entry, Socket
    <2> QED BY <1>7, <2>2 DEF Join, Joined, Loop, TypeOK
<1>8. CASE Dedupe
    BY <1>8 DEF Dedupe, Enter, TypeOK, Stages
<1>9. CASE Add
    <2> DEFINE e == listeners[at]
    <2>1. e \in Entry
        BY <1>9 DEF Add, Loop, TypeOK
    <2>2. byPort' = [p \in DOMAIN byPort \cup {e.port} |->
                        IF p /= e.port THEN byPort[p]
                        ELSE IF p \in DOMAIN byPort THEN Merge(byPort[p], e) ELSE e]
        BY <1>9 DEF Add
    <2> HIDE DEF e
    <2>3. \A p \in DOMAIN byPort' : byPort'[p] \in Entry /\ byPort'[p].port = p
        BY <2>1, <2>2, MergeType DEF TypeOK
    <2>4. at' \in Nat \ {0}
        BY <1>9 DEF Add, Loop, TypeOK
    <2>5. UNCHANGED <<server, whole, stage, fmt, listeners, procRows, inodes>>
        BY <1>9 DEF Add, Loop
    <2> QED BY <2>3, <2>4, <2>5 DEF TypeOK
<1>10. CASE Classify
    BY <1>10 DEF Classify, TypeOK, Stages
<1>11. CASE UNCHANGED vars
    BY <1>11 DEF vars, TypeOK
<1> QED BY <1>1, <1>2, <1>3, <1>4, <1>5, <1>6, <1>7, <1>8, <1>9, <1>10, <1>11 DEF Next

LEMMA OneMore ==
    ASSUME NEW T, NEW l \in Seq(T), NEW e
    PROVE  /\ DOMAIN Append(l, e) = DOMAIN l \cup {Len(l) + 1}
           /\ \A j \in DOMAIN l : Append(l, e)[j] = l[j] /\ j <= Len(l)
           /\ Append(l, e)[Len(l) + 1] = e
OBVIOUS

LEMMA AboutOneMore ==
    ASSUME NEW S, NEW l \in Seq(Entry), \A j \in DOMAIN l : \E s \in S : About(l[j], s),
           NEW e, NEW t \in S, About(e, t)
    PROVE  \A j \in DOMAIN Append(l, e) : \E s \in S : About(Append(l, e)[j], s)
<1> SUFFICES ASSUME NEW j \in DOMAIN Append(l, e)
             PROVE  \E s \in S : About(Append(l, e)[j], s)
    OBVIOUS
<1>1. CASE j \in DOMAIN l
    <2>1. Append(l, e)[j] = l[j]
        BY <1>1, OneMore
    <2> QED BY <1>1, <2>1
<1>2. CASE j \notin DOMAIN l
    <2>1. Append(l, e)[j] = e
        BY <1>2, OneMore
    <2> QED BY <2>1
<1> QED BY <1>1, <1>2

LEMMA SoundStep ==
    ASSUME TypeOK, Sound, [Next]_vars, ServersAssumption
    PROVE  Sound'
<1> USE SocketsOfServer
<1>1. CASE ReadListener
    <2> DEFINE s == server[at]
               e == App(s, IF s.own THEN s.proc ELSE NoName)
    <2>1. s \in ToSet(server)
        BY <1>1 DEF ReadListener, Loop
    <2>2. CASE ~Printed(s)
        BY <1>1, <2>2 DEF ReadListener, Loop, Sound
    <2>3. CASE Printed(s)
        <3>1. About(e, s)
            BY <2>3 DEF About, Name, App, Printed
        <3>2. listeners' = Append(listeners, e)
            BY <1>1, <2>3 DEF ReadListener
        <3> HIDE DEF e, s
        <3>3. \A j \in DOMAIN listeners' : \E t \in ToSet(server) : About(listeners'[j], t)
            BY <2>1, <3>1, <3>2, AboutOneMore DEF Sound, TypeOK
        <3>4. UNCHANGED <<server, procRows, inodes>>
            BY <1>1 DEF ReadListener, Loop
        <3> QED BY <3>3, <3>4 DEF Sound
    <2> QED BY <2>2, <2>3
<1>2. CASE ReadProcRow
    <2> DEFINE s == server[at]
    <2>1. s \in ToSet(server) /\ s \in Socket
        BY <1>2 DEF ReadProcRow, Loop
    <2>2. \A j \in DOMAIN procRows' : procRows'[j].listens /\ procRows'[j] \in ToSet(server)
        BY <1>2, <2>1 DEF ReadProcRow, Listening, Sound, TypeOK
    <2> QED BY <1>2, <2>2 DEF ReadProcRow, Loop, Sound
<1>3. CASE ReadOwner
    BY <1>3 DEF ReadOwner, Loop, Sound
<1>4. CASE Join
    <2> DEFINE s == procRows[at]
               e == App(s, IF s \in inodes THEN s.proc ELSE NoName)
    <2>1. s \in ToSet(server) /\ s.listens /\ (s \in inodes => s.own)
        BY <1>4 DEF Join, Loop, Sound
    <2>2. About(e, s)
        BY <2>1 DEF About, Name, App
    <2>3. listeners' = Append(listeners, e)
        BY <1>4 DEF Join, Joined
    <2> HIDE DEF e, s
    <2>4. \A j \in DOMAIN listeners' : \E t \in ToSet(server) : About(listeners'[j], t)
        BY <2>1, <2>2, <2>3, AboutOneMore DEF Sound, TypeOK
    <2>5. UNCHANGED <<server, procRows, inodes>>
        BY <1>4 DEF Join, Loop
    <2> QED BY <2>4, <2>5 DEF Sound
<1>5. CASE UNCHANGED <<server, listeners, procRows, inodes>>
    BY <1>5 DEF Sound
<1> QED BY <1>1, <1>2, <1>3, <1>4, <1>5
        DEF Next, vars, ReadFmt, ReadMapMark, EndOfOutput, Dedupe, Add, Classify, Loop

LEMMA MergedStep ==
    ASSUME TypeOK, Merged, Result, [Next]_vars
    PROVE  Merged'
<1>1. CASE Add
    <2> DEFINE e == listeners[at]
    <2>1. e \in Entry /\ at \in DOMAIN listeners /\ at \in Nat
        BY <1>1 DEF Add, Loop, TypeOK
    <2>2. byPort' = [p \in DOMAIN byPort \cup {e.port} |->
                        IF p /= e.port THEN byPort[p]
                        ELSE IF p \in DOMAIN byPort THEN Merge(byPort[p], e) ELSE e]
        BY <1>1 DEF Add
    <2>3. UNCHANGED listeners /\ Taken' = Taken \cup {at}
        BY <1>1, <2>1 DEF Add, Loop, Taken, TypeOK
    <2>4. \A j \in Taken : j \in DOMAIN listeners /\ listeners[j] \in Entry
        BY DEF Taken, TypeOK
    <2>5. ASSUME NEW cur \in Entry
          PROVE  /\ Merge(cur, e).addr = IF e.addr = "any" THEN "any" ELSE cur.addr
                 /\ Merge(cur, e).proc = IF cur.proc = NoName THEN e.proc ELSE cur.proc
        BY DEF Merge, Entry
    <2>6. \A p \in DOMAIN byPort : byPort[p] \in Entry
        BY DEF TypeOK
    <2>7. listeners[at] = e
        OBVIOUS
    <2> HIDE DEF e
    <2>8. ASSUME NEW p \in DOMAIN byPort'
          PROVE  \E j \in Taken' : /\ listeners[j].port = p
                                   /\ byPort'[p].addr = listeners[j].addr
        <3>1. CASE p /= e.port
            BY <2>2, <2>3, <3>1 DEF Merged
        <3>2. CASE p = e.port /\ p \notin DOMAIN byPort
            BY <2>2, <2>3, <2>7, <3>2
        <3>3. CASE p = e.port /\ p \in DOMAIN byPort
            <4>1. byPort'[p].addr = IF e.addr = "any" THEN "any" ELSE byPort[p].addr
                BY <2>2, <2>5, <2>6, <3>3
            <4> QED BY <2>3, <2>7, <3>3, <4>1 DEF Merged
        <3> QED BY <3>1, <3>2, <3>3
    <2>9. ASSUME NEW p \in DOMAIN byPort'
          PROVE  \E j \in Taken' : /\ listeners[j].port = p
                                   /\ byPort'[p].proc = listeners[j].proc
        <3>1. CASE p /= e.port
            BY <2>2, <2>3, <3>1 DEF Merged
        <3>2. CASE p = e.port /\ p \notin DOMAIN byPort
            BY <2>2, <2>3, <2>7, <3>2
        <3>3. CASE p = e.port /\ p \in DOMAIN byPort
            <4>1. byPort'[p].proc = IF byPort[p].proc = NoName THEN e.proc ELSE byPort[p].proc
                BY <2>2, <2>5, <2>6, <3>3
            <4> QED BY <2>3, <2>7, <3>3, <4>1 DEF Merged
        <3> QED BY <3>1, <3>2, <3>3
    <2>10. ASSUME NEW j \in Taken'
           PROVE  /\ listeners[j].port \in DOMAIN byPort'
                  /\ listeners[j].proc /= NoName => byPort'[listeners[j].port].proc /= NoName
                  /\ listeners[j].addr = "any" => byPort'[listeners[j].port].addr = "any"
        <3> DEFINE p == listeners[j].port
        <3>1. p \in DOMAIN byPort \/ j = at
            BY <2>3 DEF Merged
        <3>2. j /= at => /\ listeners[j].proc /= NoName => byPort[p].proc /= NoName
                         /\ listeners[j].addr = "any" => byPort[p].addr = "any"
            BY <2>3 DEF Merged
        <3>3. p = e.port /\ p \in DOMAIN byPort =>
                 /\ byPort'[p].addr = IF e.addr = "any" THEN "any" ELSE byPort[p].addr
                 /\ byPort'[p].proc = IF byPort[p].proc = NoName THEN e.proc ELSE byPort[p].proc
            BY <2>2, <2>5, <2>6
        <3>4. p = e.port /\ p \notin DOMAIN byPort => byPort'[p] = e
            BY <2>2
        <3>5. p /= e.port => j /= at /\ byPort'[p] = byPort[p]
            BY <2>2, <2>7, <3>1
        <3>6. p \in DOMAIN byPort'
            BY <2>2, <2>7, <3>1
        <3> HIDE DEF p
        <3> QED BY <2>7, <3>1, <3>2, <3>3, <3>4, <3>5, <3>6 DEF p
    <2> QED BY <2>3, <2>8, <2>9, <2>10 DEF Merged
<1>2. CASE ~Add
    <2>1. UNCHANGED byPort
        BY <1>2 DEF Next, vars, ReadFmt, ReadListener, ReadProcRow, ReadMapMark, ReadOwner,
                    EndOfOutput, Join, Dedupe, Classify, Loop
    <2>2. Taken' = Taken /\ \A j \in Taken : listeners'[j] = listeners[j]
        <3>1. CASE UNCHANGED vars
            BY <3>1 DEF vars, Taken
        <3>2. CASE ReadFmt \/ ReadMapMark \/ EndOfOutput
            BY <3>2 DEF ReadFmt, ReadMapMark, EndOfOutput, Enter, Taken
        <3>3. CASE ReadListener \/ ReadProcRow \/ ReadOwner \/ Join
            BY <3>3 DEF ReadListener, ReadProcRow, ReadOwner, Join, Loop, Taken
        <3>4. CASE Dedupe
            BY <3>4 DEF Dedupe, Enter, Taken, TypeOK
        <3>5. CASE Classify
            BY <3>5 DEF Classify, Taken
        <3> QED BY <1>2, <3>1, <3>2, <3>3, <3>4, <3>5 DEF Next
    <2> QED BY <2>1, <2>2 DEF Merged
<1> QED BY <1>1, <1>2

(* What has been kept or carried stays so. *)
LEMMA StaysCarried ==
    ASSUME listeners \in Seq(Entry), NEW e, listeners' = Append(listeners, e), NEW s,
           Carried(s) \/ e = App(s, Name(s))
    PROVE  Carried(s)'
BY OneMore DEF Carried

LEMMA StaysKept ==
    ASSUME procRows \in Seq(Socket), NEW r, procRows' = Append(procRows, r), NEW s,
           Kept(s) \/ s = r
    PROVE  Kept(s)'
BY OneMore DEF Kept

LEMMA SeenOneMore ==
    ASSUME TypeOK, ServersAssumption, at' = at + 1, UNCHANGED server,
           NEW s, Seen(s)', s /= server[at]
    PROVE  Seen(s)
BY SocketsOfServer DEF Seen, TypeOK

LEMMA SeenAll ==
    ASSUME TypeOK, ServersAssumption, at > Len(server), NEW s \in ToSet(server)
    PROVE  Seen(s)
BY SocketsOfServer DEF Seen, TypeOK

LEMMA SeenNone ==
    ASSUME TypeOK, ServersAssumption, at' = 1, UNCHANGED server, NEW s
    PROVE  ~Seen(s)'
BY SocketsOfServer DEF Seen, TypeOK

LEMMA GotListener ==
    ASSUME TypeOK, Got, ReadListener, ServersAssumption
    PROVE  Got'
<1>1. /\ fmt /= "proc" /\ fmt /= NoName /\ stage = "lines"
      /\ at' = at + 1 /\ UNCHANGED <<server, stage, fmt, procRows>>
    BY DEF ReadListener, Loop, NoName
<1>2. ASSUME NEW s \in ToSet(server), Seen(s)', s.listens
      PROVE  Carried(s)'
    <2>1. CASE s = server[at]
        <3>1. listeners' = Append(listeners, App(s, Name(s)))
            BY <1>2, <2>1 DEF ReadListener, Printed, Name
        <3> QED BY <3>1, StaysCarried DEF TypeOK
    <2>2. CASE s /= server[at]
        <3>1. Carried(s)
            BY <1>1, <1>2, <2>2, SeenOneMore DEF Got
        <3>2. CASE UNCHANGED listeners
            BY <3>1, <3>2 DEF Carried
        <3>3. CASE \E e : listeners' = Append(listeners, e)
            BY <3>1, <3>3, StaysCarried DEF TypeOK
        <3> QED BY <3>2, <3>3 DEF ReadListener
    <2> QED BY <2>1, <2>2
<1> QED BY <1>1, <1>2 DEF Got

LEMMA GotProcRow ==
    ASSUME TypeOK, Got, ReadProcRow, ServersAssumption
    PROVE  Got'
<1>1. /\ fmt = "proc" /\ stage = "lines"
      /\ at' = at + 1 /\ UNCHANGED <<server, stage, fmt>>
    BY DEF ReadProcRow, Loop
<1>2. ASSUME NEW s \in ToSet(server), Seen(s)', s.listens
      PROVE  Kept(s)'
    <2>1. CASE s = server[at]
        <3>1. procRows' = Append(procRows, s)
            BY <1>2, <2>1 DEF ReadProcRow, Listening
        <3> QED BY <3>1, StaysKept DEF TypeOK
    <2>2. CASE s /= server[at]
        <3>1. Kept(s)
            BY <1>1, <1>2, <2>2, SeenOneMore DEF Got
        <3>2. CASE UNCHANGED procRows
            BY <3>1, <3>2 DEF Kept
        <3>3. CASE \E r : procRows' = Append(procRows, r)
            BY <3>1, <3>3, StaysKept DEF TypeOK
        <3> QED BY <3>2, <3>3 DEF ReadProcRow
    <2> QED BY <2>1, <2>2
<1> QED BY <1>1, <1>2 DEF Got, NoName

LEMMA GotMap ==
    ASSUME TypeOK, Got, ReadMapMark \/ ReadOwner, ServersAssumption
    PROVE  Got'
<1>1. CASE ReadMapMark
    <2>1. /\ fmt = "proc" /\ stage = "lines" /\ stage' = "map" /\ at' = 1
          /\ at > Len(server) /\ UNCHANGED <<server, fmt, procRows>>
        BY <1>1 DEF ReadMapMark, Enter
    <2>2. ASSUME NEW s \in ToSet(server)
          PROVE  ~Seen(s)' /\ (s.listens => Kept(s)')
        <3>1. Seen(s) /\ ~Seen(s)'
            BY <2>1, SeenAll, SeenNone
        <3>2. Kept(s)' <=> Kept(s)
            BY <2>1 DEF Kept
        <3> QED BY <2>1, <3>1, <3>2 DEF Got
    <2> QED BY <2>1, <2>2 DEF Got, NoName
<1>2. CASE ReadOwner
    <2>1. stage = "map" /\ at' = at + 1 /\ UNCHANGED <<server, stage, fmt, procRows>>
        BY <1>2 DEF ReadOwner, Loop
    <2>2. fmt = "proc" /\ fmt /= NoName
        BY <2>1 DEF Got, NoName
    <2>3. ASSUME NEW s \in ToSet(server)
          PROVE  (s.listens => Kept(s)') /\ (Seen(s)' /\ s.own => s \in inodes')
        <3>1. Kept(s)' <=> Kept(s)
            BY <2>1 DEF Kept
        <3>2. inodes \subseteq inodes' /\ (s = server[at] /\ s.own => s \in inodes')
            BY <1>2 DEF ReadOwner
        <3>3. s /= server[at] /\ Seen(s)' => Seen(s)
            BY <2>1, SeenOneMore
        <3> QED BY <2>1, <3>1, <3>2, <3>3 DEF Got
    <2> QED BY <2>1, <2>2, <2>3 DEF Got
<1> QED BY <1>1, <1>2

LEMMA GotEnd ==
    ASSUME TypeOK, Got, EndOfOutput, ServersAssumption
    PROVE  Got'
<1>1. /\ stage \in {"lines", "map"} /\ fmt /= NoName
      /\ stage' = "join" /\ at' = 1 /\ whole' = LastLine
      /\ UNCHANGED <<server, fmt, listeners, procRows, inodes>>
    BY DEF EndOfOutput, Enter
<1>2. ASSUME LastLine, NEW s \in ToSet(server)
      PROVE  /\ s.listens => Carried(s)' \/ Waits(s)'
             /\ fmt = "proc" /\ s.own => s \in inodes
    <2>1. Seen(s)
        BY <1>2, SeenAll DEF LastLine
    <2>2. Carried(s) => Carried(s)'
        BY <1>1 DEF Carried
    <2>3. Kept(s) => Waits(s)'
        BY <1>1 DEF Kept, Waits, TypeOK
    <2>4. fmt /= "proc" => stage = "lines"
        BY <1>1 DEF Got
    <2> QED BY <1>2, <2>1, <2>2, <2>3, <2>4 DEF LastLine, Got
<1> QED BY <1>1, <1>2 DEF Got

LEMMA GotJoin ==
    ASSUME TypeOK, Sound, Got, Join
    PROVE  Got'
<1>1. /\ stage = "join" /\ at \in DOMAIN procRows /\ at' = at + 1
      /\ UNCHANGED <<server, whole, stage, fmt, procRows, inodes>>
    BY DEF Join, Loop
<1>2. fmt = "proc"
    <2>1. procRows /= <<>>
        BY <1>1
    <2> QED BY <2>1 DEF Got
<1>3. ASSUME whole, NEW s \in ToSet(server), s.listens
      PROVE  Carried(s)' \/ Waits(s)'
    <2>1. s \in inodes <=> s.own
        BY <1>1, <1>2, <1>3 DEF Got, Sound
    <2>2. PICK e : listeners' = Append(listeners, e) /\ (s = procRows[at] => e = App(s, Name(s)))
        BY <2>1 DEF Join, Joined, Name
    <2>3. CASE s = procRows[at] \/ Carried(s)
        BY <2>2, <2>3, StaysCarried DEF TypeOK
    <2>4. CASE s /= procRows[at] /\ Waits(s)
        BY <1>1, <2>4 DEF Waits, TypeOK
    <2> QED BY <1>1, <1>3, <2>3, <2>4 DEF Got
<1> QED BY <1>1, <1>2, <1>3 DEF Got, NoName

LEMMA GotStep ==
    ASSUME TypeOK, Sound, Got, [Next]_vars, ServersAssumption
    PROVE  Got'
<1>1. CASE ReadFmt
    <2>1. /\ stage = "lines" /\ at = 1 /\ procRows = <<>> /\ fmt' /= NoName
          /\ UNCHANGED <<server, stage, at, procRows>>
        BY <1>1 DEF ReadFmt, Got, NoName, Tools
    <2>2. \A s : ~Seen(s)'
        BY <2>1, SeenNone
    <2> QED BY <2>1, <2>2 DEF Got
<1>2. CASE Dedupe
    <2>1. \A s : ~Waits(s)
        BY <1>2 DEF Dedupe, Waits, TypeOK
    <2>2. \A s : Carried(s) => Carried(s)'
        BY <1>2 DEF Dedupe, Carried
    <2> QED BY <1>2, <2>1, <2>2 DEF Dedupe, Enter, Got
<1>3. CASE Add
    <2>1. \A s : Carried(s) => Carried(s)'
        BY <1>3 DEF Add, Carried
    <2> QED BY <1>3, <2>1 DEF Add, Loop, Got
<1>4. CASE Classify
    <2>1. \A s : Carried(s) => Carried(s)'
        BY <1>4 DEF Classify, Carried
    <2> QED BY <1>4, <2>1 DEF Classify, Got
<1>5. CASE UNCHANGED vars
    BY <1>5 DEF vars, Got, Seen, Kept, Carried, Waits
<1> QED BY <1>1, <1>2, <1>3, <1>4, <1>5, GotListener, GotProcRow, GotMap, GotEnd, GotJoin
        DEF Next

LEMMA ResultStep ==
    ASSUME Result, [Next]_vars
    PROVE  Result'
<1>1. CASE Classify
    BY <1>1 DEF Classify, Result, Rows
<1>2. CASE ~Classify
    BY <1>2 DEF Next, vars, ReadFmt, ReadListener, ReadProcRow, ReadMapMark, ReadOwner,
                EndOfOutput, Join, Dedupe, Add, Enter, Loop, Result, Rows
<1> QED BY <1>1, <1>2

LEMMA ScanStart ==
    ASSUME Init, ServersAssumption
    PROVE  ScanInv
<1>1. TypeOK
    BY DEF Init, TypeOK, NoRows, Stages
<1>2. /\ stage = "lines" /\ at = 1 /\ DOMAIN listeners = {} /\ DOMAIN procRows = {}
      /\ inodes = {} /\ DOMAIN byPort = {} /\ apps = NoRows /\ procRows = <<>>
    BY DEF Init, NoRows
<1>3. Sound /\ Merged /\ Result
    BY <1>2 DEF Sound, Merged, Taken, Result
<1>4. \A s : ~Seen(s)
    BY <1>1, <1>2, SocketsOfServer DEF Seen
<1>5. Got
    BY <1>2, <1>4 DEF Got
<1> QED BY <1>1, <1>3, <1>5 DEF ScanInv

LEMMA ScanInvariant == Spec => []ScanInv
<1>1. Init => ScanInv
    BY ScanStart, ServersAssumption
<1>2. ScanInv /\ [Next]_vars => ScanInv'
    BY TypeStep, SoundStep, MergedStep, GotStep, ResultStep, ServersAssumption DEF ScanInv
<1> QED BY <1>1, <1>2, PTL DEF Spec

----------------------------------------------------------------------------
(* What the invariant says of rows.                                        *)

LEMMA RowOrigin ==
    ASSUME ScanInv, NEW p \in DOMAIN byPort
    PROVE  /\ byPort[p].port = p
           /\ \E s \in On(p) : byPort[p].addr = s.bind
           /\ byPort[p].proc \in Visible(p) \cup {NoName}
<1>1. PICK i \in DOMAIN listeners : listeners[i].port = p /\ byPort[p].addr = listeners[i].addr
    BY DEF ScanInv, Merged, Taken
<1>2. PICK j \in DOMAIN listeners : listeners[j].port = p /\ byPort[p].proc = listeners[j].proc
    BY DEF ScanInv, Merged, Taken
<1>3. PICK s \in ToSet(server) : About(listeners[i], s)
    BY DEF ScanInv, Sound
<1>4. PICK t \in ToSet(server) : About(listeners[j], t)
    BY DEF ScanInv, Sound
<1>5. s \in On(p) /\ t \in On(p)
    BY <1>1, <1>2, <1>3, <1>4 DEF About, On
<1>6. byPort[p].proc = NoName \/ (t.own /\ byPort[p].proc = t.proc)
    BY <1>2, <1>4 DEF About, Name
<1>7. t.own => t.proc \in Visible(p)
    BY <1>5 DEF Visible
<1>8. byPort[p].proc \in Visible(p) \cup {NoName}
    BY <1>6, <1>7
<1>9. byPort[p].addr = s.bind
    BY <1>1, <1>3 DEF About
<1> QED BY <1>5, <1>8, <1>9 DEF ScanInv, TypeOK

LEMMA RowOfListener ==
    ASSUME ScanInv, whole, stage = "done", ServersAssumption, NamesAssumption,
           NEW s \in ToSet(server), s.listens
    PROVE  /\ s.port \in DOMAIN byPort
           /\ s.own => byPort[s.port].proc /= NoName
           /\ s.bind = "any" => byPort[s.port].addr = "any"
<1>1. PICK j \in DOMAIN listeners : listeners[j] = App(s, Name(s))
    BY DEF ScanInv, Got, Carried
<1>2. j \in Taken
    BY <1>1 DEF ScanInv, TypeOK, Result, Taken
<1>3. s.own => Name(s) /= NoName
    BY SocketsOfServer, NamesAssumption DEF ScanInv, Name, Socket
<1> QED BY <1>1, <1>2, <1>3 DEF ScanInv, Merged, App

(* A row is never made up, whatever the tool, the order and the place where
   the output breaks off (parse_scan, dedupe). *)
THEOREM RowsAreReal == Spec => []Real
<1>1. ASSUME ScanInv
      PROVE  Real
    <2> SUFFICES ASSUME NEW p \in DOMAIN apps
                 PROVE  On(p) /= {} /\ apps[p].proc \in Visible(p) \cup {NoName}
        BY DEF Real
    <2>1. p \in DOMAIN byPort /\ apps[p].proc = byPort[p].proc
        BY <1>1 DEF ScanInv, Result, Rows, NoRows
    <2> QED BY <1>1, <2>1, RowOrigin
<1> QED BY <1>1, ScanInvariant, PTL

(* A scan that came through misses no listener and no name (parse_scan,
   dedupe). *)
THEOREM RowsAreComplete == Spec => []Complete
<1>1. ASSUME ScanInv
      PROVE  Complete
    <2> SUFFICES ASSUME whole, stage = "done", NEW s \in ToSet(server), s.listens
                 PROVE  /\ s.port \in DOMAIN apps
                        /\ Visible(s.port) /= {} => apps[s.port].proc /= NoName
        BY DEF Complete
    <2>1. apps = Rows
        BY <1>1 DEF ScanInv, Result
    <2>2. s.port \in DOMAIN byPort
        BY <1>1, RowOfListener, ServersAssumption, NamesAssumption
    <2>3. ASSUME NEW t \in On(s.port), t.own
          PROVE  byPort[s.port].proc /= NoName
        BY <1>1, <2>3, RowOfListener, ServersAssumption, NamesAssumption DEF On
    <2> QED BY <2>1, <2>2, <2>3 DEF Rows, Visible
<1> QED BY <1>1, ScanInvariant, PTL

(* What the tier needs to be a matter of the server alone: nobody sees two
   names on one port, and a port that is bound to loopback and to another
   single address is bound to every address as well. *)
OneName ==
    \A S \in Servers : \A s, t \in ToSet(S) :
        s.listens /\ t.listens /\ s.own /\ t.own /\ s.port = t.port => s.proc = t.proc
ClearBinds ==
    \A S \in Servers : \A s, t \in ToSet(S) :
        s.listens /\ t.listens /\ s.port = t.port /\ s.bind = "lo" /\ t.bind /= "lo" =>
           \E u \in ToSet(S) : u.listens /\ u.port = s.port /\ u.bind = "any"

LEMMA RowIsPort ==
    ASSUME ScanInv, whole, stage = "done", OneName, ClearBinds,
           ServersAssumption, NamesAssumption, NEW p \in DOMAIN byPort
    PROVE  /\ byPort[p].addr = "lo" <=> LocalOnly(p)
           /\ Visible(p) = IF byPort[p].proc = NoName THEN {} ELSE {byPort[p].proc}
<1>1. PICK o \in On(p) : byPort[p].addr = o.bind
    BY RowOrigin
<1>2. server \in Servers
    BY DEF ScanInv, TypeOK
<1>3. ASSUME byPort[p].addr = "lo", NEW s \in On(p)
      PROVE  s.bind = "lo"
    <2>1. ASSUME NEW u \in ToSet(server), u.listens, u.port = p
          PROVE  u.bind /= "any"
        BY <1>3, <2>1, RowOfListener
    <2>2. s \in ToSet(server) /\ s.listens /\ s.port = p
        BY DEF On
    <2>3. o \in ToSet(server) /\ o.listens /\ o.port = p /\ o.bind = "lo"
        BY <1>1, <1>3 DEF On
    <2> QED BY <1>2, <2>1, <2>2, <2>3 DEF ClearBinds
<1>4. LocalOnly(p) => byPort[p].addr = "lo"
    BY <1>1 DEF LocalOnly
<1>5. byPort[p].addr = "lo" => LocalOnly(p)
    BY <1>3 DEF LocalOnly
<1>6. \A n, m \in Visible(p) : n = m
    BY <1>2 DEF OneName, Visible, On
<1>7. \A n \in Visible(p) : n /= NoName /\ byPort[p].proc /= NoName
    <2> SUFFICES ASSUME NEW t \in On(p), t.own
                 PROVE  t.proc /= NoName /\ byPort[p].proc /= NoName
        BY DEF Visible
    <2>1. t \in ToSet(server) /\ t.listens /\ t.port = p
        BY DEF On
    <2>2. t.proc /= NoName
        BY <2>1, SocketsOfServer, NamesAssumption DEF ScanInv, Socket
    <2> QED BY <2>1, <2>2, RowOfListener
<1>8. byPort[p].proc \in Visible(p) \cup {NoName}
    BY RowOrigin
<1> QED BY <1>4, <1>5, <1>6, <1>7, <1>8

LEMMA ClusterIsLike ==
    ASSUME ScanInv, whole, stage = "done", OneName, ClearBinds,
           ServersAssumption, NamesAssumption, NEW p \in DOMAIN byPort,
           byPort[p].proc /= NoName
    PROVE  LoCount(byPort, byPort[p].proc) = Cardinality(Like(p))
<1> DEFINE L == {q \in DOMAIN byPort : byPort[q].addr = "lo" /\ byPort[q].proc = byPort[p].proc}
<1>1. Visible(p) = {byPort[p].proc}
    BY RowIsPort
<1>2. ASSUME NEW q \in L
      PROVE  q \in Like(p)
    <2>1. LocalOnly(q) /\ Visible(q) = {byPort[q].proc}
        BY RowIsPort
    <2>2. PICK s \in On(q) : TRUE
        BY RowOrigin
    <2>3. q \in {t.port : t \in ToSet(server)} /\ On(q) /= {}
        BY <2>2 DEF On
    <2> QED BY <1>1, <2>1, <2>3 DEF Like
<1>3. ASSUME NEW q \in Like(p)
      PROVE  q \in L
    <2>1. PICK s \in On(q) : TRUE
        BY DEF Like
    <2>2. q \in DOMAIN byPort
        BY <2>1, RowOfListener DEF On
    <2>3. byPort[q].addr = "lo"
        BY <2>2, RowIsPort DEF Like
    <2>4. Visible(q) = {byPort[p].proc}
        BY <1>1 DEF Like
    <2>5. byPort[q].proc = byPort[p].proc
        BY <2>2, <2>4, RowIsPort
    <2> QED BY <2>2, <2>3, <2>5
<1>4. L = Like(p)
    BY <1>2, <1>3
<1> QED BY <1>4 DEF LoCount

(* The tier is a matter of the server alone: neither the tool nor the order
   of its lines nor separate sockets for IPv4 and IPv6 change it (dedupe,
   classify, on_scan). *)
THEOREM TiersAreRight == OneName /\ ClearBinds => (Spec => []TierRight)
<1>1. ASSUME ScanInv, OneName, ClearBinds
      PROVE  TierRight
    <2> SUFFICES ASSUME whole, NEW p \in DOMAIN apps
                 PROVE  apps[p].tier = TierOf(p)
        BY DEF TierRight
    <2>1. stage = "done" /\ p \in DOMAIN byPort /\ apps[p].tier = Tier(byPort, byPort[p])
        BY <1>1 DEF ScanInv, Result, Rows, NoRows
    <2>2. byPort[p].port = p
        BY <1>1, <2>1, RowOrigin
    <2>3. /\ byPort[p].addr = "lo" <=> LocalOnly(p)
          /\ Visible(p) = IF byPort[p].proc = NoName THEN {} ELSE {byPort[p].proc}
        BY <1>1, <2>1, RowIsPort, ServersAssumption, NamesAssumption
    <2>4. byPort[p].proc /= NoName =>
             LoCount(byPort, byPort[p].proc) = Cardinality(Like(p))
        BY <1>1, <2>1, ClusterIsLike, ServersAssumption, NamesAssumption
    <2>5. byPort[p].proc \in DenyProcs <=> Visible(p) \cap DenyProcs /= {}
        BY <2>3, NamesAssumption
    <2>6. IsSystem(byPort[p]) <=>
             p = SshdPort \/ p \in DenyPorts \/ Visible(p) \cap DenyProcs /= {}
        BY <2>2, <2>5 DEF IsSystem
    <2>7. InCluster(byPort, byPort[p]) <=>
             LocalOnly(p) /\ Visible(p) /= {} /\ Cardinality(Like(p)) >= ClusterMin
        BY <2>3, <2>4 DEF InCluster
    <2> QED BY <2>1, <2>2, <2>6, <2>7 DEF Tier, TierOf
<1>2. OneName /\ ClearBinds => [](OneName /\ ClearBinds)
    <2>1. OneName /\ ClearBinds => (OneName /\ ClearBinds)'
        BY DEF OneName, ClearBinds
    <2> QED BY <2>1, PTL
<1> QED BY <1>1, <1>2, ScanInvariant, PTL
=============================================================================
