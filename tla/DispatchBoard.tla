---------------------------- MODULE DispatchBoard ----------------------------
(***************************************************************************)
(* The queue seen as a board of jobs: what a step of the dispatch path is  *)
(* to somebody who only sees which rows wait, which printer each printing  *)
(* row has, and which jobs have begun.                                     *)
(***************************************************************************)
EXTENDS DispatchQueue

StateOf(status) ==
    CASE status = "absent"   -> "new"
      [] status = "pending"  -> "waiting"
      [] status = "printing" -> "assigned"
      [] OTHER               -> "closed"

Board == INSTANCE JobBoard WITH
    Jobs    <- Items,
    Nowhere <- NoPrinter,
    state   <- [i \in Items |-> StateOf(row[i].status)],
    place   <- [i \in Items |-> IF row[i].status = "printing" THEN row[i].printer
                                ELSE NoPrinter],
    runs    <- prints

\* The dispatch path implements the board: every step of a pass, an upload, a
\* watchdog, a callback or a restart is a step of the board or none at all.
ImplementsBoard == Board!Spec

=============================================================================
