---------------------------- MODULE MCKeyDelete ----------------------------
(***************************************************************************)
(* Finite instances of KeyDelete for the runs that look for a violation.  *)
(* Two registry paths, a key K and a subkey.                               *)
(***************************************************************************)
EXTENDS KeyDelete

\* A key and one subkey: enough for truncation and for a deletion to be
\* lost by a rewrite, small enough for runs of two processes.
MCPathsSmall == {<<"K">>, <<"K", "A">>}

\* Two processes of the same box with one thread each.
TwoProcs == {"p1", "p2"}
TwoProcThreads == {"t1", "t2"}
TwoProcThreadProc == [t \in TwoProcThreads |-> IF t = "t1" THEN "p1" ELSE "p2"]
TwoProcMain == [p \in TwoProcs |-> IF p = "p1" THEN "t1" ELSE "t2"]

\* Two processes; the first runs a second thread beside its main thread.
ThreeThreads == {"t1", "t2", "t3"}
ThreeThreadProc == [t \in ThreeThreads |-> IF t = "t3" THEN "p2" ELSE "p1"]
ThreeThreadMain == [p \in TwoProcs |-> IF p = "p1" THEN "t1" ELSE "t3"]

=============================================================================
