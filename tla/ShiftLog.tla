------------------------------ MODULE ShiftLog ------------------------------
(***************************************************************************)
(* What the clock actions promise of the immutable AttendanceEvent table:  *)
(* it only grows, one event at a time, each later than all before it, each *)
(* under a key of its own, and it always reads as a history of shifts: an  *)
(* employee is off, working or on a break, and a shift keeps the work date *)
(* of its clock-in until its clock-out, even past midnight.                *)
(***************************************************************************)
EXTENDS Naturals

CONSTANTS Event

VARIABLE log

\* What the employee is doing once this event is the last one.
Phase(type) ==
  CASE type \in {"CLOCK_IN", "BREAK_END"} -> "working"
    [] type = "BREAK_START"               -> "break"
    [] OTHER                              -> "off"

\* The phase each action needs.
Needs(type) ==
  CASE type = "CLOCK_IN"                   -> "off"
    [] type = "BREAK_END"                  -> "break"
    [] OTHER                               -> "working"

\* e may directly follow l.
Follows(e, l) ==
  /\ Needs(e.type) = Phase(l.type)
  /\ IF e.type = "CLOCK_IN" THEN e.day >= l.day ELSE e.day = l.day

Init == log = {}

Record(e) ==
  /\ \A f \in log : f.at < e.at /\ f.key # e.key
  /\ IF log = {}
     THEN e.type = "CLOCK_IN"
     ELSE \E l \in log : (\A f \in log : f.at <= l.at) /\ Follows(e, l)
  /\ log' = log \cup {e}

Next == \E e \in Event : Record(e)

Spec == Init /\ [][Next]_log
=============================================================================
