----------------------------- MODULE MCSnmpCfg -----------------------------
(* Values of the constants of SnmpCfg for TLC: two plain names, one of them  *)
(* the beginning of the other, the longer one with quotes around it, and one *)
(* with a newline and a com2sec line in it.  Of a line there may be left     *)
(* nothing, a line without a name, a shorter name, or all but the newline.   *)
EXTENDS SnmpCfg

MCWritten == [v \in Names |->
    CASE v = "quoted public" -> <<"public">>
      [] v = "two lines" -> <<"pub", "public">>
      [] OTHER -> <<v>>]

MCTorn == [line \in Names \union Lines |->
    CASE line = "public" -> {<<>>, <<Other>>, <<"pub">>, <<"public">>}
      [] line = "two lines" -> {<<Other>>, <<"pub">>, <<"pub", Other>>}
      [] OTHER -> {<<>>, <<Other>>}]
=============================================================================
