----------------------------- MODULE MCRequests -----------------------------
(***************************************************************************)
(* What employees ask for beside the plain clock actions, on small         *)
(* instances: the day that AttendanceRequests writes and the page of       *)
(* ClockClient.  The two share nothing, so a behaviour is about one of     *)
(* them, the one part names, and the other stays in its initial state.     *)
(*                                                                         *)
(*   races     one day, two requests at a time, everything that writes it  *)
(*   reviews   one day, one request at a time, no legacy clock, no edits   *)
(*   lossy     the page on a network that loses requests and answers       *)
(*   reliable  the page on one that does not, during one day               *)
(***************************************************************************)
EXTENDS AttendanceRequests, TLC

CONSTANTS NoKey, NoHandler

VARIABLES part,
          pageEvents, pageRecord, pageSheet, today, pageNow, handler,
          page, pending, made, acked, waiting, request

pageVars == <<pageEvents, pageRecord, pageSheet, today, pageNow, handler,
              page, pending, made, acked, waiting, request>>

suiteVars == <<part, vars, pageVars>>

Lossy == INSTANCE ClockClient WITH
  MaxDay <- 2, Key <- Correction, Handler <- Flight, MeasuredCodes <- {},
  CoordinatorSerializes <- FALSE, MayLose <- TRUE,
  events <- pageEvents, record <- pageRecord, sheet <- pageSheet, now <- pageNow

Reliable == INSTANCE ClockClient WITH
  MaxDay <- 1, Key <- Correction, Handler <- Flight, MeasuredCodes <- {},
  CoordinatorSerializes <- TRUE, MayLose <- FALSE,
  events <- pageEvents, record <- pageRecord, sheet <- pageSheet, now <- pageNow

ASSUME PageParameters == Lossy!Parameters /\ Reliable!Parameters

SuiteInit ==
  /\ Init
  /\ \/ part \in {"races", "reviews", "lossy"} /\ Lossy!Init
     \/ part = "reliable" /\ Reliable!Init

\* No request overlaps another one, and nobody edits times or uses the v1 clock.
OneByOne ==
  /\ \A f, g \in Flight : flight'[f] # Idle /\ flight'[g] # Idle => f = g
  /\ \A f \in Flight : flight'[f].pc \notin {"edit", "v1 record"}

SuiteNext ==
  /\ UNCHANGED part
  /\ \/ part = "races" /\ UNCHANGED pageVars /\ Next
     \/ part = "reviews" /\ UNCHANGED pageVars /\ Next /\ OneByOne
     \/ part = "lossy" /\ UNCHANGED vars /\ Lossy!Next
     \/ part = "reliable" /\ UNCHANGED vars /\ Reliable!Next

Suite == SuiteInit /\ [][SuiteNext]_suiteVars

\* Keys, handlers, requests and ids are compared only by equality.
Symmetry == Permutations(Correction) \cup Permutations(Flight)

-----------------------------------------------------------------------------

\* Without the legacy clock and one request at a time, the clock actions after an approved
\* GPS request recalculate the day from an event that the approval recorded
\* (reviewCorrectionOnD1, gpsAdjustmentOperations).
ApprovalsStay == part = "reviews" => ApprovedTimesAreKept

\* Repeating an action that nothing acknowledged adds no second event, and every button the
\* page offers on a reliable network is one the server accepts (clockAction, EmployeePage).
RetryAddsNothing ==
  /\ part = "lossy" => Lossy!TypeOK /\ Lossy!RetriesAddNothing
  /\ part = "reliable" => Reliable!OfferedIsAllowed

\* What the page reports as done has its event, of its own type, whatever was lost before;
\* and the page keeps the promises about retries.
PageTellsTheTruth == []RetryAddsNothing /\ Lossy!DoneIsRecorded
=============================================================================
