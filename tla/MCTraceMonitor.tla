---------------------------- MODULE MCTraceMonitor ----------------------------
(***************************************************************************)
(* Four trace entries, so that a log can be cleared and refilled past the *)
(* length the view had, and trimmed while the view is behind; the user    *)
(* may show and hide two of the five columns, one at either end of the    *)
(* range, so that changed ranges start, end and are split by a hidden one. *)
(***************************************************************************)
EXTENDS TraceMonitor

MCToggleCols == {1, 4}

=============================================================================
