---------------------------- MODULE MCScheduleKill ----------------------------
(***************************************************************************)
(* Two process ids, three process generations (so an id can be freed and  *)
(* reused), delays of 0 and 100 ms (two waits) and the reasons 0, a       *)
(* numbered reason, and -1 (SBIE1308 logged).                              *)
(***************************************************************************)
EXTENDS ScheduleKill

MCReasons == {0, 3, -1}

=============================================================================
