--------------------------- MODULE AttendanceRules ---------------------------
(***************************************************************************)
(* The rules of a working day, as pure operators: which clock action may   *)
(* follow which, and what state and exception codes calculateTimesheet     *)
(* gives a day from its events.  The minutes the calculator also computes  *)
(* are the subject of TimesheetCalculator; here a row only remembers which *)
(* events they were computed from.                                         *)
(***************************************************************************)
EXTENDS Naturals, Sequences, FiniteSets

CONSTANT MeasuredCodes
  \* The exception codes that depend on minutes and on the schedule, which
  \* these modules leave open: a recalculation may raise any subset of them.

ScheduleAndHoursCodes == {"LATE_ARRIVAL", "EARLY_DEPARTURE", "EXCESSIVE_HOURS"}

ASSUME MeasuredCodesAssumption == MeasuredCodes \subseteq ScheduleAndHoursCodes

EventType == {"CLOCK_IN", "BREAK_START", "BREAK_END", "CLOCK_OUT"}

SheetState == {"OPEN", "COMPLETE", "EXCEPTION", "APPROVED", "LOCKED"}

\* What the calculator itself can raise from the order of the events.
PairingCodes == {"DUPLICATE_CLOCK_IN", "UNPAIRED_BREAK_START", "UNPAIRED_BREAK_END",
                 "BREAK_NOT_ENDED", "UNPAIRED_CLOCK_OUT", "MISSING_CLOCK_OUT"}

\* Every code a timesheet can carry in these modules.
ExceptionCode == PairingCodes \cup ScheduleAndHoursCodes
                   \cup {"GPS_ACCURACY_REJECTED", "ABSENT", "MISSED_CLOCK_OUT"}

-----------------------------------------------------------------------------
(* The transition rule of the v2 clock actions; "NONE" is an employee who  *)
(* has no event yet.                                                       *)

transitionAllowed(lastType, requestedType) ==
  \/ requestedType = "CLOCK_IN" /\ lastType \in {"NONE", "CLOCK_OUT"}
  \/ requestedType \in {"CLOCK_OUT", "BREAK_START"} /\ lastType \in {"CLOCK_IN", "BREAK_END"}
  \/ requestedType = "BREAK_END" /\ lastType = "BREAK_START"

-----------------------------------------------------------------------------
(* The pairing loop of calculateTimesheet.  mode is which of workStartedAt *)
(* and breakStartedAt is set: neither ("off"), the first ("working") or    *)
(* the second ("break"); the loop never sets both.                         *)

ScanStart == [mode |-> "off", codes |-> {}]

ScanEvent(s, type) ==
  LET accept(mode)  == [s EXCEPT !.mode = mode]
      reject(code)  == [s EXCEPT !.codes = @ \cup {code}]
  IN CASE type = "CLOCK_IN"    -> IF s.mode = "off" THEN accept("working") ELSE reject("DUPLICATE_CLOCK_IN")
       [] type = "BREAK_START" -> IF s.mode = "working" THEN accept("break") ELSE reject("UNPAIRED_BREAK_START")
       [] type = "BREAK_END"   -> IF s.mode = "break" THEN accept("working") ELSE reject("UNPAIRED_BREAK_END")
       [] type = "CLOCK_OUT"   -> CASE s.mode = "break"   -> [reject("BREAK_NOT_ENDED") EXCEPT !.mode = "off"]
                                    [] s.mode = "working" -> accept("off")
                                    [] s.mode = "off"     -> reject("UNPAIRED_CLOCK_OUT")

Scan(types) ==
  LET scan[i \in 0..Len(types)] ==
        IF i = 0 THEN ScanStart ELSE ScanEvent(scan[i - 1], types[i])
  IN scan[Len(types)]

\* State and exception codes of a day whose events have these types, in order;
\* measured are the codes the minutes and the schedule add.  An open shift stays
\* OPEN whatever its codes; a closed one is COMPLETE only without any code.
DayCodes(types, measured) ==
  {c \in ExceptionCode : \/ c \in Scan(types).codes
                         \/ c \in measured
                         \/ c = "MISSING_CLOCK_OUT" /\ Scan(types).mode # "off"}

DayState(types, measured) ==
  CASE Scan(types).mode # "off"           -> "OPEN"
    [] Scan(types).mode = "off" /\ DayCodes(types, measured) # {} -> "EXCEPTION"
    [] OTHER                              -> "COMPLETE"

\* The types of a set of event rows, ordered by occurredAt; rows of the same
\* instant have the same type in these modules.
TypesInOrder(rows) ==
  [i \in 1..Cardinality(rows) |->
     (CHOOSE e \in rows : /\ Cardinality({f \in rows : f.at < e.at}) < i
                          /\ Cardinality({f \in rows : f.at <= e.at}) >= i).type]
=============================================================================
