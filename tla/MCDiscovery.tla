----------------------------- MODULE MCDiscovery -----------------------------
(* Command lines as the tests of discover.rs have them, and ours as          *)
(* control.rs builds them.                                                   *)
EXTENDS Discovery

Ssh(argv) == [prog |-> "ssh", mark |-> FALSE, argv |-> argv]

SomeUserLines ==
    {Ssh(<<Word("web")>>),                                      \* ssh web
     Ssh(<<OptWith("L", "a"), Word("web")>>),
     Ssh(<<Opt("o"), Word("x"), Opt("p"), Word("2"), Word("web01")>>),
     Ssh(<<OptWith("p", "2"), Opt("v"), Opt("--"), Word("web")>>),
     Ssh(<<Word("web"), Opt("v")>>),                            \* options last
     Ssh(<<Opt("L"), Word("b"), Word("web"), Word("uptime")>>),
     Ssh(<<OptWith("l", "bob"), OptWith("L", "c"), Opt("L"), Word("b"), Word("db")>>),
     Ssh(<<Opt("G"), Word("web")>>),                            \* only prints
     Ssh(<<Opt("-"), Word("web")>>)}

SomeOurLines ==
    {[prog |-> "ssh", mark |-> TRUE,                            \* master
      argv |-> <<Opt("M"), Opt("N"), Opt("S"), Word("sock"), Word("web")>>],
     Ssh(<<Opt("S"), Word("theirs"), OptWith("O", "check"), Word("web")>>),
     Ssh(<<Opt("S"), Word("theirs"), Opt("T"), Word("web"), Opt("--"), Word("sh")>>),
     Ssh(<<OptWith("W", "web:22"), Word("web")>>)}              \* relay

(* Two names of one server, and another server, whose config has a claim for
   the port that a session claims, too; c leads on to another machine. *)
TwoServers == [d \in {"web", "web01", "db"} |-> IF d = "db" THEN "two" ELSE "one"]
Claims3 == [v \in {"a", "b", "c"} |->
    CASE v = "a" -> {<<80, 8080>>} [] v = "b" -> {<<80, 8081>>} [] v = "c" -> {}]
OneConfig == [s \in {"one", "two"} |-> IF s = "two" THEN {<<80, 8082>>} ELSE {}]
=============================================================================
