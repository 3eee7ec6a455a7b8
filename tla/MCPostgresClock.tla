--------------------------- MODULE MCPostgresClock ---------------------------
(***************************************************************************)
(* PostgresClock in two settings.                                          *)
(*   "period"  the requests of one day, next to the transitions of the pay *)
(*             period that covers it.                                      *)
(*   "nights"  the requests of two days and the midnight between them,     *)
(*             with the period left in DRAFT.                              *)
(***************************************************************************)
EXTENDS PostgresClock

VARIABLE part

suiteVars == <<vars, part>>

SuiteInit == Init /\ part \in {"period", "nights"}

SuiteNext ==
  /\ Next
  /\ part' = part
  /\ IF part = "period" THEN today' = today ELSE transition' = transition

\* The fairness of FairSpec, for the steps of the suite.
SuiteSpec ==
  /\ SuiteInit
  /\ [][SuiteNext]_suiteVars
  /\ \A h \in Handler :
       SF_vars(Acquire(h)) /\ WF_vars(Refuse(h) \/ Check(h) \/ Commit(h))
=============================================================================
