---------------------------- MODULE MCGdbTarget ----------------------------
(* One vCont list of every shape. *)
EXTENDS GdbTarget

MCActionLists == {<<"c">>, <<"s">>, <<"s", "c">>, <<"c", "r">>, <<"r0", "c">>, <<"s", "t">>}

============================================================================
