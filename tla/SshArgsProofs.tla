----------------------------- MODULE SshArgsProofs -----------------------------
(***************************************************************************)
(* Proof, for every command line, that parse_ssh_args reads it as ssh does.*)
(***************************************************************************)
EXTENDS ParseSshArgs, TLAPS

Wanted == CarryOpts \cup {"L"}

Conns == [dest : Texts \cup {""}, extra : Seq(CarryOpts \X Texts), lfs : Seq(Texts)]
States == [conn : Conns, want : ArgOpts \cup {""}, dashed : BOOLEAN, no : BOOLEAN]

TypeOK ==
    /\ argv \in Argvs /\ values \in SUBSET DOMAIN argv /\ AreValues(argv, values)
    /\ pos \in 1..Len(argv) + 1
    /\ st \in States

(* The options and the plain words of the line, and which values of an
   option have been read. *)
Opts == Options(argv, values)
Plains == Plain(argv, values)
ValueOf(i) == IF argv[i].val = "" THEN argv[i + 1].text ELSE argv[i].val
Past(i, n) == i < n /\ (argv[i].val = "" => i + 1 < n)
KnownBefore(o, n) == {ValueOf(i) : i \in {j \in Opts : argv[j].opt = o /\ Past(j, n)}}
Known(o) == KnownBefore(o, pos)
Have(conn, o) ==
    IF o = "L" THEN ToSet(conn.lfs)
    ELSE {conn.extra[i][2] : i \in {j \in DOMAIN conn.extra : conn.extra[j][1] = o}}

AwaitsValue(i) == i \in Opts /\ argv[i].opt \in ArgOpts /\ argv[i].val = ""

(* What s is when the words before n have been read: while it reads options;
   at the host; and once it has given up. *)
Searching(s, n) ==
    /\ \A i \in Plains : i >= n
    /\ s.dashed <=> Ended(argv, values, n)
    /\ s.want /= "" <=> AwaitsValue(n - 1)
    /\ s.want /= "" => s.want = argv[n - 1].opt
AtHost(s, n) ==
    /\ n - 1 \in Plains /\ argv[n - 1].text = s.conn.dest
    /\ \A i \in Plains : i >= n - 1
    /\ ~AwaitsValue(n - 1)

NoSession(i) == argv[i].opt \in {"O", "W", "-"}
Refused == (\E i \in Opts : NoSession(i)) \/ OptionsLast(argv, values)

Right(s, n) ==
    IF s.no THEN Refused
    ELSE /\ IF s.conn.dest = "" THEN Searching(s, n) ELSE AtHost(s, n)
         /\ \A i \in Opts : i < n => ~NoSession(i)
         /\ \A o \in Wanted : KnownBefore(o, n) = Have(s.conn, o)

ReadInv == Right(st, pos)

----------------------------------------------------------------------------
(* The tables, and what ssh and the program call an option with a value.   *)

LEMMA Tables ==
    /\ ArgOpts = SshArgOpts
    /\ Wanted \subseteq ArgOpts /\ "L" \notin CarryOpts
    /\ "" \notin ArgOpts /\ "--" \notin ArgOpts /\ "--" \notin Wanted
    /\ Wanted \cap {"O", "W", "-"} = {}
BY DEF ArgOpts, SshArgOpts, CarryOpts, Wanted

LEMMA Line ==
    ASSUME TypeOK
    PROVE  /\ Len(argv) \in Nat /\ DOMAIN argv = 1..Len(argv)
           /\ pos \in 1..Len(argv) + 1 /\ pos \in Nat \ {0}
           /\ pos - 1 \in Nat /\ pos - 1 + 1 = pos /\ pos - 1 /= pos
           /\ pos \in DOMAIN argv <=> pos <= Len(argv)
           /\ \A i \in DOMAIN argv : /\ argv[i].text \in Texts /\ argv[i].opt \in Letters
                                     /\ argv[i].val \in Texts \cup {""}
<1> DEFINE W == [text : Texts, opt : Letters, val : Texts \cup {""}]
<1>1. argv \in Seq(W)
    BY ArgvsAssumption DEF TypeOK
<1>2. \A w \in W : w.text \in Texts /\ w.opt \in Letters /\ w.val \in Texts \cup {""}
    OBVIOUS
<1> HIDE DEF W
<1>3. Len(argv) \in Nat /\ DOMAIN argv = 1..Len(argv)
    BY <1>1
<1>4. \A i \in DOMAIN argv : argv[i] \in W
    BY <1>1
<1>5. pos \in 1..Len(argv) + 1
    BY DEF TypeOK
<1>6. /\ pos \in Nat \ {0} /\ (pos \in 1..Len(argv) <=> pos <= Len(argv))
      /\ pos - 1 \in Nat /\ pos - 1 + 1 = pos /\ pos - 1 /= pos
    BY <1>3, <1>5
<1> QED BY <1>2, <1>3, <1>4, <1>5, <1>6

(* The words are of three kinds. *)
LEMMA Kinds ==
    ASSUME TypeOK, NEW i \in DOMAIN argv
    PROVE  /\ i \in Opts <=> IsOption(argv, values, i)
           /\ i \in values <=> AwaitsValue(i - 1)
           /\ i \in Plains <=> i \notin values /\ i \notin Opts
           /\ i \in Opts => i \notin values
<1>1. i \in Opts <=> IsOption(argv, values, i)
    BY DEF Opts, Options
<1>2. i \in values <=> AwaitsValue(i - 1)
    <2>1. i \in values <=> /\ i > 1 /\ IsOption(argv, values, i - 1)
                          /\ argv[i - 1].opt \in ArgOpts /\ argv[i - 1].val = ""
        BY Tables DEF TypeOK, AreValues
    <2>2. i > 1 <=> i - 1 \in DOMAIN argv
        <3>1. i \in 1..Len(argv) /\ Len(argv) \in Nat /\ DOMAIN argv = 1..Len(argv)
            BY Line
        <3> QED BY <3>1
    <2> QED BY <2>1, <2>2 DEF AwaitsValue, Opts, Options
<1> QED BY <1>1, <1>2 DEF Plains, Plain, Opts, IsOption

(* What is known after one more word. *)
Late(i) == \/ i = pos /\ argv[i].val /= ""
           \/ i = pos - 1 /\ argv[i].val = ""

LEMMA OneOn ==
    ASSUME NEW i \in Nat, NEW n \in Nat \ {0}
    PROVE  /\ i < n + 1 <=> i < n \/ i = n
           /\ i + 1 < n + 1 <=> i + 1 < n \/ i = n - 1
           /\ i + 1 < n => i < n
           /\ i = n - 1 => i < n
OBVIOUS

LEMMA KnownNext ==
    ASSUME TypeOK, NEW o
    PROVE  KnownBefore(o, pos + 1) =
              Known(o) \cup {ValueOf(i) : i \in {j \in Opts : argv[j].opt = o /\ Late(j)}}
<1>1. ASSUME NEW i \in Opts
      PROVE  Past(i, pos + 1) <=> Past(i, pos) \/ Late(i)
    <2>1. i \in Nat /\ pos \in Nat \ {0}
        <3>1. i \in DOMAIN argv
            BY <1>1 DEF Opts, Options
        <3>2. i \in 1..Len(argv) /\ Len(argv) \in Nat /\ pos \in Nat \ {0}
            BY <3>1, Line, Zenon
        <3> QED BY <3>2
    <2>2. CASE argv[i].val = ""
        BY <2>1, <2>2, OneOn, Zenon DEF Past, Late
    <2>3. CASE argv[i].val /= ""
        BY <2>1, <2>3, OneOn, Zenon DEF Past, Late
    <2> QED BY <2>2, <2>3
<1> QED BY <1>1 DEF Known, KnownBefore

(* A word that is the value of the option before, an option with its value,
   and any other. *)
LEMMA KnownValue ==
    ASSUME TypeOK, pos \in DOMAIN argv, AwaitsValue(pos - 1), NEW o
    PROVE  KnownBefore(o, pos + 1) =
              IF argv[pos - 1].opt = o THEN Known(o) \cup {argv[pos].text} ELSE Known(o)
<1>1. pos \notin Opts /\ pos - 1 \in Opts /\ argv[pos - 1].val = ""
    BY Kinds DEF AwaitsValue
<1>2. pos - 1 + 1 = pos /\ pos - 1 /= pos
    BY Line, Zenon
<1>3. ValueOf(pos - 1) = argv[pos].text
    BY <1>1, <1>2 DEF ValueOf
<1>4. {j \in Opts : argv[j].opt = o /\ Late(j)} =
         IF argv[pos - 1].opt = o THEN {pos - 1} ELSE {}
    BY <1>1, <1>2 DEF Late
<1>5. KnownBefore(o, pos + 1) =
         Known(o) \cup {ValueOf(i) : i \in {j \in Opts : argv[j].opt = o /\ Late(j)}}
    BY KnownNext
<1> QED BY <1>3, <1>4, <1>5

LEMMA KnownOption ==
    ASSUME TypeOK, pos \in DOMAIN argv, ~AwaitsValue(pos - 1), NEW o \in ArgOpts
    PROVE  KnownBefore(o, pos + 1) =
              IF pos \in Opts /\ argv[pos].val /= "" /\ argv[pos].opt = o
              THEN Known(o) \cup {argv[pos].val} ELSE Known(o)
<1>1. ASSUME NEW j \in Opts, argv[j].opt = o, Late(j)
      PROVE  j = pos /\ argv[pos].val /= ""
    BY <1>1 DEF Late, AwaitsValue
<1>2. KnownBefore(o, pos + 1) =
         Known(o) \cup {ValueOf(i) : i \in {j \in Opts : argv[j].opt = o /\ Late(j)}}
    BY KnownNext
<1>3. CASE pos \in Opts /\ argv[pos].val /= "" /\ argv[pos].opt = o
    <2>1. {j \in Opts : argv[j].opt = o /\ Late(j)} = {pos}
        BY <1>1, <1>3 DEF Late
    <2>2. ValueOf(pos) = argv[pos].val
        BY <1>3 DEF ValueOf
    <2> QED BY <1>2, <1>3, <2>1, <2>2
<1>4. CASE ~(pos \in Opts /\ argv[pos].val /= "" /\ argv[pos].opt = o)
    <2>1. {j \in Opts : argv[j].opt = o /\ Late(j)} = {}
        BY <1>1, <1>4
    <2> QED BY <1>2, <1>4, <2>1
<1> QED BY <1>3, <1>4

LEMMA TakeDoes ==
    ASSUME NEW s \in States, NEW o \in ArgOpts, NEW v \in Texts
    PROVE  LET t == Take(s, o, v) IN
           /\ t \in States /\ t.want = "" /\ t.no = s.no /\ t.dashed = s.dashed
           /\ t.conn.dest = s.conn.dest
           /\ \A p \in Wanted : Have(t.conn, p) =
                 IF p = o THEN Have(s.conn, p) \cup {v} ELSE Have(s.conn, p)
<1> DEFINE u == [s EXCEPT !.want = ""]
           t == Take(s, o, v)
<1>0. u \in States /\ u.want = "" /\ u.no = s.no /\ u.dashed = s.dashed /\ u.conn = s.conn
    BY DEF States
<1>00. s.conn \in Conns
    BY DEF States
<1>1. CASE o \in CarryOpts
    <2> DEFINE x == Append(s.conn.extra, <<o, v>>)
               c == [s.conn EXCEPT !.extra = x]
    <2>1. t = [u EXCEPT !.conn = c]
        BY <1>1, <1>0, <1>00 DEF Take, States, Conns
    <2>2. s.conn.extra \in Seq(CarryOpts \X Texts) /\ <<o, v>> \in CarryOpts \X Texts
        BY <1>1, <1>00 DEF Conns
    <2>3. x \in Seq(CarryOpts \X Texts)
        BY <2>2
    <2>4. c \in Conns /\ c.extra = x /\ c.lfs = s.conn.lfs /\ c.dest = s.conn.dest
        BY <2>3, <1>00 DEF Conns
    <2>5. /\ DOMAIN x = DOMAIN s.conn.extra \cup {Len(s.conn.extra) + 1}
          /\ \A i \in DOMAIN s.conn.extra : x[i] = s.conn.extra[i]
          /\ Len(s.conn.extra) + 1 \notin DOMAIN s.conn.extra
          /\ x[Len(s.conn.extra) + 1] = <<o, v>>
        BY <2>2
    <2> HIDE DEF x, c
    <2>6. t \in States /\ t.want = "" /\ t.no = s.no /\ t.dashed = s.dashed /\ t.conn = c
        BY <2>1, <2>4, <1>0 DEF States
    <2>7. ASSUME NEW p \in Wanted, p /= "L"
          PROVE  Have(c, p) = IF p = o THEN Have(s.conn, p) \cup {v} ELSE Have(s.conn, p)
        BY <2>4, <2>5, <2>7 DEF Have
    <2>8. Have(c, "L") = Have(s.conn, "L") /\ o /= "L"
        BY <1>1, <2>4, Tables DEF Have
    <2> QED BY <2>4, <2>6, <2>7, <2>8
<1>2. CASE o = "L"
    <2> DEFINE x == Append(s.conn.lfs, v)
               c == [s.conn EXCEPT !.lfs = x]
    <2>1. t = [u EXCEPT !.conn = c]
        BY <1>2, <1>0, <1>00, Tables DEF Take, States, Conns
    <2>2. s.conn.lfs \in Seq(Texts)
        BY <1>00 DEF Conns
    <2>3. x \in Seq(Texts)
        BY <2>2
    <2>4. c \in Conns /\ c.lfs = x /\ c.extra = s.conn.extra /\ c.dest = s.conn.dest
        BY <2>3, <1>00 DEF Conns
    <2>5. /\ DOMAIN x = DOMAIN s.conn.lfs \cup {Len(s.conn.lfs) + 1}
          /\ \A i \in DOMAIN s.conn.lfs : x[i] = s.conn.lfs[i]
          /\ Len(s.conn.lfs) + 1 \notin DOMAIN s.conn.lfs
          /\ x[Len(s.conn.lfs) + 1] = v
        BY <2>2
    <2> HIDE DEF x, c
    <2>6. t \in States /\ t.want = "" /\ t.no = s.no /\ t.dashed = s.dashed /\ t.conn = c
        BY <2>1, <2>4, <1>0 DEF States
    <2>7. ASSUME NEW p \in Wanted, p /= "L"
          PROVE  Have(c, p) = Have(s.conn, p)
        BY <2>4, <2>7 DEF Have
    <2>8. Have(c, "L") = Have(s.conn, "L") \cup {v}
        BY <2>4, <2>5 DEF Have, ToSet
    <2> QED BY <1>2, <2>4, <2>6, <2>7, <2>8
<1>3. CASE o \notin CarryOpts /\ o /= "L"
    <2>1. Take(s, o, v) = u
        BY <1>3 DEF Take
    <2>2. \A p \in Wanted : p /= o
        BY <1>3 DEF Wanted
    <2> HIDE DEF u
    <2> QED BY <1>0, <2>1, <2>2
<1> QED BY <1>1, <1>2, <1>3

----------------------------------------------------------------------------
(* One more word.                                                          *)

LEMMA Facts ==
    ASSUME TypeOK
    PROVE  /\ st.conn \in Conns /\ st.want \in ArgOpts \cup {""}
           /\ st.dashed \in BOOLEAN /\ st.no \in BOOLEAN
BY DEF TypeOK, States

(* The words before pos + 1 are those before pos and the one there. *)
LEMMA Before ==
    ASSUME TypeOK, pos \in DOMAIN argv
    PROVE  /\ (pos + 1) - 1 = pos
           /\ \A i \in DOMAIN argv : i < pos + 1 <=> i < pos \/ i = pos
           /\ \A i \in DOMAIN argv : i >= pos /\ i /= pos => i >= pos + 1
           /\ \A i \in DOMAIN argv : i >= pos => i >= (pos + 1) - 1
           /\ Ended(argv, values, pos + 1) <=>
                 Ended(argv, values, pos) \/ (pos \notin values /\ argv[pos].opt = "--")
<1>1. \A i \in 1..Len(argv) : /\ i < pos + 1 <=> i < pos \/ i = pos
                              /\ i >= pos /\ i /= pos => i >= pos + 1
                              /\ i >= pos => i >= (pos + 1) - 1
    <2>1. Len(argv) \in Nat /\ pos \in Nat
        BY Line, Zenon
    <2> QED BY <2>1
<1>2. (pos + 1) - 1 = pos
    <2>1. pos \in Nat
        BY Line, Zenon
    <2> QED BY <2>1
<1>3. DOMAIN argv = 1..Len(argv)
    BY Line, Zenon
<1>4. \A i \in DOMAIN argv : i < pos + 1 <=> i < pos \/ i = pos
    BY <1>1, <1>3, Zenon
<1>5. Ended(argv, values, pos + 1) <=>
         Ended(argv, values, pos) \/ (pos \notin values /\ argv[pos].opt = "--")
    BY <1>4, Zenon DEF Ended
<1> QED BY <1>1, <1>2, <1>3, <1>5, Zenon

(* The word is the value of the option before. *)
LEMMA ValueRead ==
    ASSUME TypeOK, pos \in DOMAIN argv, Right(st, pos),
           ~st.no, st.conn.dest = "", st.want /= ""
    PROVE  LET t == Take(st, st.want, argv[pos].text) IN t \in States /\ Right(t, pos + 1)
<1> DEFINE t == Take(st, st.want, argv[pos].text)
<1>1. Searching(st, pos) /\ \A i \in Opts : i < pos => ~NoSession(i)
    BY DEF Right
<1>2. AwaitsValue(pos - 1) /\ st.want = argv[pos - 1].opt /\ st.want \in ArgOpts
    BY <1>1, Facts DEF Searching
<1>3. pos \in values /\ pos \notin Opts /\ pos \notin Plains
    BY <1>2, Kinds
<1>4. /\ t \in States /\ t.want = "" /\ t.no = st.no /\ t.dashed = st.dashed
      /\ t.conn.dest = st.conn.dest
      /\ \A p \in Wanted : Have(t.conn, p) =
            IF p = st.want THEN Have(st.conn, p) \cup {argv[pos].text} ELSE Have(st.conn, p)
    BY <1>2, TakeDoes, Line DEF TypeOK
<1>5. \A o \in Wanted : KnownBefore(o, pos + 1) =
         IF st.want = o THEN Known(o) \cup {argv[pos].text} ELSE Known(o)
    BY <1>2, KnownValue
<1>6. \A o \in Wanted : Known(o) = Have(st.conn, o)
    BY DEF Right, Known
<1> HIDE DEF t
<1>7. Searching(t, pos + 1)
    <2>1. \A i \in Plains : i \in DOMAIN argv
        BY DEF Plains, Plain
    <2>2. \A i \in Plains : i >= pos + 1
        BY <1>1, <1>3, <2>1, Before DEF Searching
    <2>3. t.dashed <=> Ended(argv, values, pos + 1)
        BY <1>1, <1>3, <1>4, Before DEF Searching
    <2>4. ~AwaitsValue((pos + 1) - 1)
        BY <1>3, Before DEF AwaitsValue
    <2> QED BY <1>4, <2>2, <2>3, <2>4 DEF Searching
<1>8. \A i \in Opts : i < pos + 1 => ~NoSession(i)
    BY <1>1, <1>3, Before DEF Opts, Options
<1>9. \A o \in Wanted : KnownBefore(o, pos + 1) = Have(t.conn, o)
    BY <1>4, <1>5, <1>6
<1> QED BY <1>4, <1>7, <1>8, <1>9 DEF Right, t

(* The word is the host. *)
LEMMA HostRead ==
    ASSUME TypeOK, pos \in DOMAIN argv, Right(st, pos),
           ~st.no, st.conn.dest = "", st.want = "", st.dashed \/ argv[pos].opt = ""
    PROVE  LET t == [st EXCEPT !.conn.dest = argv[pos].text] IN
           t \in States /\ Right(t, pos + 1)
<1> DEFINE c == [st.conn EXCEPT !.dest = argv[pos].text]
           t == [st EXCEPT !.conn = c]
<1>1. Searching(st, pos) /\ \A i \in Opts : i < pos => ~NoSession(i)
    BY DEF Right
<1>2. ~AwaitsValue(pos - 1) /\ pos \notin values
    BY <1>1, Kinds DEF Searching
<1>3. pos \notin Opts /\ pos \in Plains
    BY <1>1, <1>2, Kinds DEF Searching, IsOption
<1>4. argv[pos].text \in Texts /\ argv[pos].text /= ""
    BY Line, TextsAssumption
<1>5. /\ c \in Conns /\ c.dest = argv[pos].text
      /\ c.extra = st.conn.extra /\ c.lfs = st.conn.lfs
    BY <1>4, Facts DEF Conns
<1> HIDE DEF c
<1>6. t \in States /\ t.conn = c /\ t.no = st.no
    BY <1>5, Facts DEF States, TypeOK
<1>7. [st EXCEPT !.conn.dest = argv[pos].text] = t
    BY DEF c
<1> HIDE DEF t
<1>8. AtHost(t, pos + 1)
    <2>1. \A i \in Plains : i \in DOMAIN argv
        BY DEF Plains, Plain
    <2>2. \A i \in Plains : i >= (pos + 1) - 1
        BY <1>1, <2>1, Before DEF Searching
    <2>3. ~AwaitsValue((pos + 1) - 1) /\ (pos + 1) - 1 = pos
        BY <1>3, Before DEF AwaitsValue
    <2> QED BY <1>3, <1>5, <1>6, <2>2, <2>3 DEF AtHost
<1>9. \A i \in Opts : i < pos + 1 => ~NoSession(i)
    BY <1>1, <1>3, Before DEF Opts, Options
<1>10. \A o \in Wanted : KnownBefore(o, pos + 1) = Have(c, o)
    <2>1. \A o \in Wanted : KnownBefore(o, pos + 1) = Known(o)
        BY <1>2, <1>3, KnownOption, Tables
    <2>2. \A o \in Wanted : Known(o) = Have(st.conn, o)
        BY DEF Right, Known
    <2>3. \A o : Have(c, o) = Have(st.conn, o)
        BY <1>5 DEF Have
    <2> QED BY <2>1, <2>2, <2>3
<1> QED BY <1>4, <1>5, <1>6, <1>7, <1>8, <1>9, <1>10 DEF Right

(* The word is an option. *)
LEMMA OptionRead ==
    ASSUME TypeOK, pos \in DOMAIN argv, Right(st, pos),
           ~st.no, st.conn.dest = "", st.want = "", ~st.dashed, argv[pos].opt /= ""
    PROVE  LET t == ReadOption(st, argv[pos]) IN t \in States /\ Right(t, pos + 1)
<1> DEFINE w == argv[pos]
           t == ReadOption(st, w)
<1>1. Searching(st, pos) /\ \A i \in Opts : i < pos => ~NoSession(i)
    BY DEF Right
<1>2. ~AwaitsValue(pos - 1) /\ pos \notin values /\ ~Ended(argv, values, pos)
    BY <1>1, Kinds DEF Searching
<1>3. pos \in Opts /\ pos \notin Plains
    BY <1>2, Kinds DEF IsOption
<1>4. \A o \in Wanted : KnownBefore(o, pos + 1) =
         IF w.val /= "" /\ w.opt = o THEN Known(o) \cup {w.val} ELSE Known(o)
    BY <1>2, <1>3, KnownOption, Tables
<1>5. \A o \in Wanted : Known(o) = Have(st.conn, o)
    BY DEF Right, Known
<1>6. st \in States /\ st.conn \in Conns
    BY Facts DEF TypeOK
<1>7. \A i \in Plains : i >= pos + 1
    <2>1. \A i \in Plains : i \in DOMAIN argv
        BY DEF Plains, Plain
    <2> QED BY <1>1, <1>3, <2>1, Before DEF Searching
<1>8. Ended(argv, values, pos + 1) <=> w.opt = "--"
    BY <1>2, Before
<1>9. AwaitsValue((pos + 1) - 1) <=> w.opt \in ArgOpts /\ w.val = ""
    BY <1>3, Before DEF AwaitsValue
<1>10. ~NoSession(pos) => \A i \in Opts : i < pos + 1 => ~NoSession(i)
    BY <1>1, Before DEF Opts, Options
<1>11. NoSession(pos) <=> w.opt \in {"-", "O", "W"}
    BY DEF NoSession
<1>12. CASE w.opt = "--"
    <2> DEFINE u == [st EXCEPT !.dashed = TRUE]
    <2>1. /\ u \in States /\ u.dashed = TRUE /\ u.want = st.want
          /\ u.no = st.no /\ u.conn = st.conn
        BY <1>6 DEF States
    <2>2. t = u
        BY <1>12 DEF ReadOption
    <2> HIDE DEF u
    <2>3. Searching(u, pos + 1)
        BY <1>7, <1>8, <1>9, <1>12, <2>1, Tables DEF Searching
    <2>4. ~NoSession(pos)
        BY <1>11, <1>12
    <2>5. \A o \in Wanted : KnownBefore(o, pos + 1) = Have(u.conn, o)
        BY <1>4, <1>5, <1>12, <2>1, Tables
    <2>6. Right(u, pos + 1)
        BY <1>10, <2>1, <2>3, <2>4, <2>5 DEF Right
    <2> QED BY <2>1, <2>2, <2>6
<1>13. CASE w.opt \in {"-", "O", "W"}
    <2>1. t = Reject(st)
        BY <1>13 DEF ReadOption
    <2>2. t \in States /\ t.no = TRUE
        BY <2>1, <1>6 DEF Reject, States
    <2>3. Refused
        BY <1>3, <1>11, <1>13 DEF Refused
    <2> QED BY <2>2, <2>3 DEF Right
<1>14. CASE w.opt \notin ArgOpts /\ w.opt \notin {"-", "O", "W", "--"}
    <2>1. t = st
        BY <1>14 DEF ReadOption
    <2>2. Searching(st, pos + 1)
        BY <1>1, <1>2, <1>7, <1>8, <1>9, <1>14 DEF Searching
    <2>3. \A o \in Wanted : KnownBefore(o, pos + 1) = Have(st.conn, o)
        BY <1>4, <1>5, <1>14, Tables
    <2>4. Right(st, pos + 1)
        BY <1>10, <1>11, <1>14, <2>2, <2>3 DEF Right
    <2> QED BY <1>6, <2>1, <2>4
<1>15. CASE w.opt \in ArgOpts /\ w.opt \notin {"-", "O", "W"} /\ w.val = ""
    <2> DEFINE u == [st EXCEPT !.want = w.opt]
    <2>1. /\ u \in States /\ u.dashed = st.dashed /\ u.want = w.opt
          /\ u.no = st.no /\ u.conn = st.conn
        BY <1>6, <1>15 DEF States
    <2>2. t = u /\ w.opt /= "" /\ w.opt /= "--"
        BY <1>15, Tables DEF ReadOption
    <2> HIDE DEF u
    <2>3. Searching(u, pos + 1)
        BY <1>7, <1>8, <1>9, <1>15, <2>1, <2>2, Before DEF Searching
    <2>4. \A o \in Wanted : KnownBefore(o, pos + 1) = Have(u.conn, o)
        BY <1>4, <1>5, <1>15, <2>1
    <2>5. Right(u, pos + 1)
        BY <1>10, <1>11, <1>15, <2>1, <2>3, <2>4 DEF Right
    <2> QED BY <2>1, <2>2, <2>5
<1>16. CASE w.opt \in ArgOpts /\ w.opt \notin {"-", "O", "W"} /\ w.val /= ""
    <2> DEFINE u == Take(st, w.opt, w.val)
    <2>1. t = u /\ w.opt /= "--"
        BY <1>16, Tables DEF ReadOption
    <2>2. w.val \in Texts
        BY <1>16, Line
    <2>3. /\ u \in States /\ u.want = "" /\ u.no = st.no /\ u.dashed = st.dashed
          /\ u.conn.dest = st.conn.dest
          /\ \A p \in Wanted : Have(u.conn, p) =
                IF p = w.opt THEN Have(st.conn, p) \cup {w.val} ELSE Have(st.conn, p)
        BY <1>6, <1>16, <2>2, TakeDoes
    <2> HIDE DEF u
    <2>4. Searching(u, pos + 1)
        BY <1>7, <1>8, <1>9, <1>16, <2>1, <2>3 DEF Searching
    <2>5. \A o \in Wanted : KnownBefore(o, pos + 1) = Have(u.conn, o)
        BY <1>4, <1>5, <1>16, <2>3
    <2>6. Right(u, pos + 1)
        BY <1>10, <1>11, <1>16, <2>3, <2>4, <2>5 DEF Right
    <2> QED BY <2>1, <2>3, <2>6
<1> QED BY <1>12, <1>13, <1>14, <1>15, <1>16

LEMMA WordRead ==
    ASSUME TypeOK, pos \in DOMAIN argv, Right(st, pos)
    PROVE  LET t == ReadWord(st, argv[pos]) IN t \in States /\ Right(t, pos + 1)
<1> DEFINE t == ReadWord(st, argv[pos])
<1>1. CASE st.no
    <2>1. t = st /\ Refused
        BY <1>1 DEF ReadWord, Right
    <2> QED BY <1>1, <2>1 DEF Right, TypeOK
<1>2. CASE ~st.no /\ st.conn.dest /= ""
    <2>1. t = Reject(st)
        BY <1>2 DEF ReadWord, AfterDest
    <2>2. t \in States /\ t.no = TRUE
        BY <2>1 DEF Reject, States, TypeOK
    <2>3. pos - 1 \in Plains
        BY <1>2 DEF Right, AtHost
    <2>4. pos - 1 < Len(argv)
        <3>1. pos \in Nat /\ Len(argv) \in Nat /\ pos <= Len(argv)
            BY Line, Zenon
        <3> QED BY <3>1
    <2>5. Refused
        BY <2>3, <2>4 DEF Refused, OptionsLast, Plains
    <2> QED BY <2>2, <2>5 DEF Right
<1>3. CASE ~st.no /\ st.conn.dest = "" /\ st.want /= ""
    <2>1. t = Take(st, st.want, argv[pos].text)
        BY <1>3 DEF ReadWord
    <2> QED BY <1>3, <2>1, ValueRead
<1>4. CASE ~st.no /\ st.conn.dest = "" /\ st.want = "" /\ (st.dashed \/ argv[pos].opt = "")
    <2>1. t = [st EXCEPT !.conn.dest = argv[pos].text]
        BY <1>4 DEF ReadWord
    <2> QED BY <1>4, <2>1, HostRead
<1>5. CASE ~st.no /\ st.conn.dest = "" /\ st.want = "" /\ ~(st.dashed \/ argv[pos].opt = "")
    <2>1. t = ReadOption(st, argv[pos])
        BY <1>5 DEF ReadWord
    <2> QED BY <1>5, <2>1, OptionRead
<1> QED BY <1>1, <1>2, <1>3, <1>4, <1>5

----------------------------------------------------------------------------
(* The theorem.                                                            *)

LEMMA Begins == ArgInit => TypeOK /\ ReadInv
<1> SUFFICES ASSUME ArgInit PROVE TypeOK /\ ReadInv
    OBVIOUS
<1>1. argv \in Argvs /\ values \in SUBSET DOMAIN argv /\ AreValues(argv, values)
    BY DEF ArgInit
<1>2. pos = 1 /\ st = Unread
    BY DEF ArgInit
<1>3. 1 \in 1..Len(argv) + 1
    <2> DEFINE W == [text : Texts, opt : Letters, val : Texts \cup {""}]
    <2>1. argv \in Seq(W)
        BY <1>1, ArgvsAssumption
    <2> HIDE DEF W
    <2> QED BY <2>1
<1>4. Unread \in States /\ Unread.conn = NoConn
    <2>1. NoConn \in Conns
        BY DEF NoConn, Conns
    <2> QED BY <2>1 DEF Unread, States
<1>5. TypeOK
    BY <1>1, <1>2, <1>3, <1>4 DEF TypeOK
<1>6. \A i \in DOMAIN argv : i \in Nat /\ i >= 1 /\ ~(i < 1)
    <2>1. DOMAIN argv = 1..Len(argv) /\ Len(argv) \in Nat
        BY <1>5, Line
    <2> QED BY <2>1
<1>7. 0 \notin DOMAIN argv
    BY <1>6
<1>8. Searching(Unread, 1)
    <2>1. \A i \in Plains : i >= 1
        BY <1>6 DEF Plains, Plain
    <2>2. ~Ended(argv, values, 1)
        BY <1>6 DEF Ended
    <2>3. ~AwaitsValue(1 - 1)
        <3>1. ~AwaitsValue(0)
            BY <1>7 DEF AwaitsValue, Opts, Options
        <3>2. 1 - 1 = 0
            OBVIOUS
        <3> QED BY <3>1, <3>2
    <2> QED BY <2>1, <2>2, <2>3 DEF Searching, Unread
<1>9. \A i \in Opts : ~(i < 1)
    BY <1>6 DEF Opts, Options
<1>10. \A o \in Wanted : KnownBefore(o, 1) = Have(NoConn, o)
    <2>1. \A o : KnownBefore(o, 1) = {}
        BY <1>9 DEF KnownBefore, Past
    <2>2. \A o : Have(NoConn, o) = {}
        BY DEF Have, NoConn, ToSet
    <2> QED BY <2>1, <2>2
<1>11. Right(Unread, 1)
    BY <1>4, <1>8, <1>9, <1>10 DEF Right, Unread, NoConn
<1> QED BY <1>2, <1>5, <1>11 DEF ReadInv

LEMMA RightPrime ==
    ASSUME NEW s, NEW n, st' = s, pos' = n, UNCHANGED <<argv, values>>, Right(s, n)
    PROVE  ReadInv'
<1>1. /\ Opts' = Opts /\ Plains' = Plains
      /\ \A i : AwaitsValue(i)' = AwaitsValue(i)
      /\ Ended(argv, values, n)' = Ended(argv, values, n)
      /\ OptionsLast(argv, values)' = OptionsLast(argv, values)
      /\ \A i : NoSession(i)' = NoSession(i)
    BY DEF Opts, Plains, Options, Plain, AwaitsValue, Ended, OptionsLast, NoSession
<1>2. Searching(st, pos)' <=> Searching(s, n)
    BY DEF Searching, Plains, Ended, AwaitsValue, Plain, Opts, Options
<1>3. AtHost(st, pos)' <=> AtHost(s, n)
    BY DEF AtHost, Plains, AwaitsValue, Plain, Opts, Options
<1>4. Refused' <=> Refused
    BY DEF Refused, NoSession, OptionsLast, Opts, Options, Plain
<1>5. (\A i \in Opts : i < pos => ~NoSession(i))' <=> (\A i \in Opts : i < n => ~NoSession(i))
    BY DEF NoSession, Opts, Options
<1>6. (\A o \in Wanted : KnownBefore(o, pos) = Have(st.conn, o))'
        <=> (\A o \in Wanted : KnownBefore(o, n) = Have(s.conn, o))
    BY DEF KnownBefore, ValueOf, Past, Opts, Options, Have
<1> QED BY <1>2, <1>3, <1>4, <1>5, <1>6 DEF Right, ReadInv

LEMMA Goes == TypeOK /\ ReadInv /\ [ArgNext]_argVars => (TypeOK /\ ReadInv)'
<1> SUFFICES ASSUME TypeOK, ReadInv, [ArgNext]_argVars PROVE (TypeOK /\ ReadInv)'
    OBVIOUS
<1>1. CASE ArgNext
    <2>1. PICK s, n : s = ReadWord(st, argv[pos]) /\ n = pos + 1
        OBVIOUS
    <2>2. pos \in DOMAIN argv
        BY <1>1, Line DEF ArgNext
    <2>3. s \in States /\ Right(s, n)
        BY <2>1, <2>2, WordRead DEF ReadInv
    <2>4. st' = s /\ pos' = n /\ UNCHANGED <<argv, values>>
        BY <1>1, <2>1 DEF ArgNext
    <2>5. ReadInv'
        BY <2>3, <2>4, RightPrime
    <2>6. n \in 1..Len(argv) + 1
        <3>1. pos \in 1..Len(argv) + 1 /\ Len(argv) \in Nat /\ pos <= Len(argv)
            BY <2>2, Line, Zenon
        <3> QED BY <2>1, <3>1
    <2>7. TypeOK'
        BY <2>3, <2>4, <2>6 DEF TypeOK, AreValues, IsOption, Ended
    <2> QED BY <2>5, <2>7
<1>2. CASE UNCHANGED argVars
    <2>1. PICK s, n : s = st /\ n = pos
        OBVIOUS
    <2>2. st' = s /\ pos' = n /\ UNCHANGED <<argv, values>>
        BY <1>2, <2>1 DEF argVars
    <2>3. ReadInv'
        BY <2>1, <2>2, RightPrime DEF ReadInv
    <2>4. TypeOK'
        BY <1>2 DEF argVars, TypeOK, AreValues, IsOption, Ended
    <2> QED BY <2>3, <2>4
<1> QED BY <1>1, <1>2

LEMMA Understood == TypeOK /\ ReadInv => ReadsAsSsh
<1> SUFFICES ASSUME TypeOK, ReadInv, pos > Len(argv) PROVE ReadsAsSsh
    BY DEF ReadsAsSsh
<1> DEFINE c == Read(st)
<1>1. /\ pos = Len(argv) + 1 /\ pos - 1 = Len(argv)
      /\ Len(argv) \in Nat /\ DOMAIN argv = 1..Len(argv)
    <2>1. pos \in 1..Len(argv) + 1 /\ Len(argv) \in Nat /\ DOMAIN argv = 1..Len(argv)
        BY Line, Zenon
    <2> QED BY <2>1
<1>2. \A i \in DOMAIN argv : i < pos /\ i <= Len(argv)
    BY <1>1
<1>3. ASSUME c /= NoConn
      PROVE  /\ NamesHost(argv, values)
             /\ \A i \in Plain(argv, values) : argv[i].text = c.dest
             /\ \A o \in CarryOpts :
                   OptValues(argv, values, o) =
                      {c.extra[i][2] : i \in {j \in DOMAIN c.extra : c.extra[j][1] = o}}
             /\ OptValues(argv, values, "L") = ToSet(c.lfs)
    <2>1. ~st.no /\ st.conn.dest /= "" /\ c = st.conn
        BY <1>3 DEF Read
    <2>2. AtHost(st, pos) /\ \A i \in Opts : ~NoSession(i)
        BY <1>2, <2>1 DEF Right, ReadInv, Opts, Options
    <2>3. Plains = {pos - 1}
        <3>1. \A i \in Plains : i \in DOMAIN argv
            BY DEF Plains, Plain
        <3>2. \A i \in Plains : i >= pos - 1
            BY <2>2 DEF AtHost
        <3>3. \A i \in DOMAIN argv : i >= pos - 1 => i = pos - 1
            BY <1>1
        <3> QED BY <2>2, <3>1, <3>2, <3>3 DEF AtHost
    <2>4. pos - 1 \in DOMAIN argv
        BY <2>3 DEF Plains, Plain
    <2>5. NamesHost(argv, values)
        BY <2>2, <2>3, <2>4 DEF NamesHost, NoSession, Plains, Opts
    <2>6. \A i \in Plain(argv, values) : argv[i].text = c.dest
        BY <2>1, <2>2, <2>3 DEF Plains, AtHost
    <2>7. ASSUME NEW o \in Wanted PROVE OptValues(argv, values, o) = Have(c, o)
        <3>1. \A i \in Opts : argv[i].opt = o => Past(i, pos)
            <4> SUFFICES ASSUME NEW i \in Opts, argv[i].opt = o PROVE Past(i, pos)
                OBVIOUS
            <4>1. i \in DOMAIN argv /\ i < pos
                BY <1>2 DEF Opts, Options
            <4>2. argv[i].val = "" => i /= pos - 1
                BY <2>2, <2>7, Tables DEF AtHost, AwaitsValue
            <4>3. i /= pos - 1 => i + 1 < pos
                BY <1>1, <4>1
            <4> QED BY <4>1, <4>2, <4>3 DEF Past
        <3>2. OptValues(argv, values, o) = Known(o)
            BY <3>1 DEF OptValues, Known, KnownBefore, ValueOf, Opts
        <3> QED BY <2>1, <2>7, <3>2 DEF Right, ReadInv, Known
    <2>8. \A o \in CarryOpts : o \in Wanted /\ o /= "L"
        BY Tables DEF Wanted
    <2>9. "L" \in Wanted
        BY DEF Wanted
    <2> HIDE DEF c
    <2> QED BY <2>5, <2>6, <2>7, <2>8, <2>9 DEF Have
<1>4. ASSUME IsSession(argv, values), ~OptionsLast(argv, values) PROVE c /= NoConn
    <2>1. ~Refused
        BY <1>4 DEF Refused, IsSession, NamesHost, NoSession, Opts
    <2>2. PICK h \in DOMAIN argv : Plain(argv, values) = {h}
        BY <1>4 DEF IsSession, NamesHost
    <2>3. ~(h >= pos)
        BY <1>1, <2>2
    <2>4. ~Searching(st, pos)
        BY <2>2, <2>3 DEF Searching, Plains
    <2>5. ~st.no /\ st.conn.dest /= ""
        BY <2>1, <2>4 DEF Right, ReadInv
    <2>6. c = st.conn
        BY <2>5 DEF Read
    <2>7. NoConn.dest = ""
        BY DEF NoConn
    <2> HIDE DEF c
    <2> QED BY <2>5, <2>6, <2>7
<1> HIDE DEF c
<1>5. NamesHost(argv, values) => IsSession(argv, values) \/ OnlyPrints(argv, values)
    BY DEF IsSession
<1> QED BY <1>3, <1>4, <1>5 DEF ReadsAsSsh, c

(* parse_ssh_args reads every command line as ssh reads it: whatever the
   words, a line it takes for a session is one or makes ssh only print
   something; it is read with the host, identity options and claims it has;
   and no session is missed but those with options after the host. *)
THEOREM LinesReadAsSsh == ArgSpec => []ReadsAsSsh
<1>1. ArgSpec => [](TypeOK /\ ReadInv)
    BY Begins, Goes, PTL DEF ArgSpec
<1> QED BY <1>1, Understood, PTL
=============================================================================
