-------------------------------- MODULE SshArgs --------------------------------
(***************************************************************************)
(* The command line of an ssh process, word by word: what parse_ssh_args   *)
(* of src/src/discover.rs makes of it, and what ssh does.                  *)
(*                                                                         *)
(* A word of several options stands as a word for each (-Gvp2 as -G -v     *)
(* -p2); both read it letter by letter.                                    *)
(***************************************************************************)
EXTENDS Naturals, SequencesExt

(* text: the word as a value or a host; val: "" if it is the next word. *)
Word(t) == [text |-> t, opt |-> "", val |-> ""]
Opt(o) == [text |-> "-", opt |-> o, val |-> ""]
OptWith(o, v) == [text |-> "-", opt |-> o, val |-> v]

CarryOpts == {"F", "p", "l", "i", "J"}
ArgOpts_Few == CarryOpts \cup {"L", "O", "W"}
ArgOpts == {"b", "B", "c", "D", "E", "e", "F", "I", "i", "J", "L", "l", "m", "O", "o",
            "p", "Q", "R", "S", "W", "w"}

NoConn == [dest |-> "", extra |-> <<>>, lfs |-> <<>>]

----------------------------------------------------------------------------
(* parse_ssh_args: one word after the other.                               *)

Unread == [conn |-> NoConn, want |-> "", dashed |-> FALSE, no |-> FALSE]

Reject(st) == [st EXCEPT !.no = TRUE]
Take(st, o, v) ==
    LET s == [st EXCEPT !.want = ""] IN
    IF o \in CarryOpts THEN [s EXCEPT !.conn.extra = Append(@, <<o, v>>)]
    ELSE IF o = "L" THEN [s EXCEPT !.conn.lfs = Append(@, v)]
    ELSE s

ReadOption(st, w) ==
    IF w.opt = "--" THEN [st EXCEPT !.dashed = TRUE]
    ELSE IF w.opt \in {"-", "O", "W"} THEN Reject(st)
    ELSE IF w.opt \notin ArgOpts THEN st
    ELSE IF w.val = "" THEN [st EXCEPT !.want = w.opt]
    ELSE Take(st, w.opt, w.val)

(* A word after the destination is a remote command. *)
AfterDest_Ignored(st) == st
AfterDest(st) == Reject(st)

ReadWord(st, w) ==
    IF st.no THEN st
    ELSE IF st.conn.dest /= "" THEN AfterDest(st)
    ELSE IF st.want /= "" THEN Take(st, st.want, w.text)
    ELSE IF st.dashed \/ w.opt = "" THEN [st EXCEPT !.conn.dest = w.text]
    ELSE ReadOption(st, w)

Read(st) == IF st.no \/ st.conn.dest = "" THEN NoConn ELSE st.conn

ParseArgs(argv) == Read(FoldLeft(ReadWord, Unread, argv))

----------------------------------------------------------------------------
(* What ssh itself makes of it.  Given V, the positions of the words that   *)
(* it takes for values of the options before them; -- ends the options, and *)
(* every word after it is plain.  The first plain word is the host, the     *)
(* next starts a command, and options may stand between them.               *)

SshArgOpts ==   \* of OpenSSH up to 9.3; -P came later
    {"B", "b", "c", "D", "E", "e", "F", "I", "i", "J", "L", "l", "m", "O", "o", "p",
     "Q", "R", "S", "W", "w"}
SshFlags ==
    {"1", "2", "4", "6", "A", "a", "C", "f", "G", "g", "K", "k", "M", "N", "n", "P", "q",
     "s", "T", "t", "V", "v", "X", "x", "Y", "y"}

Ended(argv, V, i) == \E j \in DOMAIN argv \ V : j < i /\ argv[j].opt = "--"

IsOption(argv, V, i) == i \notin V /\ argv[i].opt /= "" /\ ~Ended(argv, V, i)

AreValues(argv, V) ==
    \A i \in DOMAIN argv :
        i \in V <=> /\ i > 1 /\ IsOption(argv, V, i - 1)
                   /\ argv[i - 1].opt \in SshArgOpts /\ argv[i - 1].val = ""

Options(argv, V) == {i \in DOMAIN argv : IsOption(argv, V, i)}
Plain(argv, V) == DOMAIN argv \ (V \cup Options(argv, V))
OptValues(argv, V, o) ==
    {IF argv[i].val = "" THEN argv[i + 1].text ELSE argv[i].val :
        i \in {j \in Options(argv, V) : argv[j].opt = o}}

(* A host and nothing else: no command, no control request, no relay, and no
   lone dash, which is no host. *)
NamesHost(argv, V) ==
    /\ \E h \in DOMAIN argv : Plain(argv, V) = {h}
    /\ \A i \in Options(argv, V) : argv[i].opt \notin {"O", "W", "-"}

(* ssh prints its configuration, what it supports, its version, or how it is
   to be used if it does not know an option, and ends without a connection.
   (What it says of bad values, or of options that do not go together, is
   left out.) *)
OnlyPrints(argv, V) ==
    \E i \in Options(argv, V) :
        \/ argv[i].opt \in {"G", "Q", "V"}
        \/ argv[i].opt \notin SshArgOpts \cup SshFlags \cup {"--"}

IsSession(argv, V) == NamesHost(argv, V) /\ ~OnlyPrints(argv, V)
OptionsLast(argv, V) == \E i \in Plain(argv, V) : i < Len(argv)
=============================================================================
