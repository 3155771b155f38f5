----------------------------- MODULE EventLog -----------------------------
(***************************************************************************)
(* What the audit log promises, without files, hashes or crashes: a        *)
(* sequence of events that only grows, in which the k-th event carries the *)
(* number k, until it is closed for good.  The closing may cost the last   *)
(* event, and no other.  The promise is made to commands that record one   *)
(* after the other; it ends, and the log is Void, once two have overlapped *)
(* or somebody has changed the file by hand.  AuditLog is shown to         *)
(* implement this, and Release uses the log at this level of abstraction.  *)
(***************************************************************************)
EXTENDS Naturals, Sequences

CONSTANTS
    Events,        \* what an entry says, apart from its place
    Void           \* nothing is promised any more

VARIABLES
    events,        \* the recorded events, each with its number
    closed         \* nothing can be recorded any more

Init == events = <<>> /\ closed = FALSE

\* append_event: the event is recorded behind all others, in one step.
Record(e) ==
    /\ ~closed
    /\ events' = Append(events, [seq |-> Len(events) + 1, event |-> e])
    /\ closed' = FALSE

\* An unreadable line: read_log raises from now on.
Close ==
    /\ ~closed
    /\ closed' = TRUE
    /\ \/ events' = events
       \/ events # <<>> /\ events' = SubSeq(events, 1, Len(events) - 1)

Disturb == events' = Void /\ closed' = TRUE

Next == (\E e \in Events : Record(e)) \/ Close \/ Disturb

Spec == Init /\ [][Next]_<<events, closed>>
=============================================================================
