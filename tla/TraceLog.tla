------------------------------ MODULE TraceLog ------------------------------
(***************************************************************************)
(* What the trace facility of a libpcapcie context promises its callers,   *)
(* with no memory in sight: an append-only log of records that can be      *)
(* cleared.  A request to record may be dropped, silently, but never while *)
(* the log is shorter than it has already been since the context was       *)
(* opened: storage once obtained is kept across resets.                    *)
(***************************************************************************)
EXTENDS Naturals, Sequences

CONSTANTS
    Direction,        \* which way a TLP went
    Tlp,              \* the TLPs that can be recorded
    RecordOf(_, _)    \* the record a direction and a TLP stand for

VARIABLES
    log,     \* the records, oldest first
    high,    \* the greatest length log has had since the context was opened
    req      \* the latest request: its number, direction and TLP

logvars == <<log, high, req>>

NoRequest == [n |-> 0]

Init == /\ log = << >>
        /\ high = 0
        /\ req = NoRequest

Record(d, t) ==
    /\ req' = [n |-> req.n + 1, dir |-> d, tlp |-> t]
    /\ \/ /\ log' = Append(log, RecordOf(d, t))
          /\ high' = IF Len(log) = high THEN high + 1 ELSE high
       \/ /\ Len(log) = high
          /\ UNCHANGED <<log, high>>

Reset == /\ log' = << >>
         /\ UNCHANGED <<high, req>>

(* Closing the context forgets everything; the next one starts afresh.      *)
Close == /\ log' = << >>
         /\ high' = 0
         /\ req' = NoRequest

Next == \/ \E d \in Direction, t \in Tlp : Record(d, t)
        \/ Reset
        \/ Close

Spec == Init /\ [][Next]_logvars
=============================================================================
