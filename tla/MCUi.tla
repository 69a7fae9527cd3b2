--------------------------------- MODULE MCUi ---------------------------------
(* Two servers, with two rows and one row; port 2 is background. *)
EXTENDS Ui

Full == [hosts |-> Hosts, ready |-> Hosts, rows |-> {<<1, 1>>, <<1, 2>>, <<2, 1>>},
         plain |-> {<<1, 1>>, <<2, 1>>}]

(* Everything; the first row has vanished and the background row is
   forwarded, and so in view; the first host has lost its master; only a
   host without rows is left. *)
SomeViews ==
    {Full,
     [Full EXCEPT !.rows = @ \ {<<1, 1>>}, !.plain = {<<1, 2>>, <<2, 1>>}],
     [Full EXCEPT !.ready = {2}],
     [Full EXCEPT !.hosts = {2}, !.ready = {2}, !.rows = {}, !.plain = {}]}
=============================================================================
