----------------------------- MODULE ParseSshArgs -----------------------------
(***************************************************************************)
(* parse_ssh_args of src/src/discover.rs over any command line: a step     *)
(* reads a word.                                                           *)
(***************************************************************************)
EXTENDS SshArgs

CONSTANTS Texts, Letters,   \* what words and options consist of
          Argvs             \* the words after ssh

ASSUME TextsAssumption == "" \notin Texts
ASSUME ArgvsAssumption ==
    Argvs \subseteq Seq([text : Texts, opt : Letters, val : Texts \cup {""}])

VARIABLES
    argv,       \* the command line
    values,     \* which of its words ssh takes for values
    pos, st     \* the next word, and what those before it have come to

argVars == <<argv, values, pos, st>>

ArgInit ==
    /\ argv \in Argvs
    /\ values \in {V \in SUBSET DOMAIN argv : AreValues(argv, V)}
    /\ pos = 1 /\ st = Unread

ArgNext ==
    /\ pos <= Len(argv)
    /\ st' = ReadWord(st, argv[pos])
    /\ pos' = pos + 1
    /\ UNCHANGED <<argv, values>>

ArgSpec == ArgInit /\ [][ArgNext]_argVars

----------------------------------------------------------------------------
(* Properties.                                                             *)

(* A command line is read as ssh reads it: a line we take for a session is
   one, unless ssh only prints something for it (parse_ssh_args does not look
   for -G, -Q, -V and options that ssh does not know); it is read with the
   host, the identity options and the claims it has; and no session is missed
   unless it has options after the host (parse_ssh_args takes these for a
   command). *)
ReadsAsSsh ==
    pos > Len(argv) =>
        LET c == Read(st) IN
        /\ c /= NoConn =>
              /\ IsSession(argv, values) \/ OnlyPrints(argv, values)
              /\ NamesHost(argv, values)
              /\ \A i \in Plain(argv, values) : argv[i].text = c.dest
              /\ \A o \in CarryOpts :
                    OptValues(argv, values, o) =
                       {c.extra[i][2] : i \in {j \in DOMAIN c.extra : c.extra[j][1] = o}}
              /\ OptValues(argv, values, "L") = ToSet(c.lfs)
        /\ IsSession(argv, values) /\ ~OptionsLast(argv, values) => c /= NoConn
=============================================================================
