------------------------ MODULE StatutoryContributions ------------------------
(***************************************************************************)
(* The contributions to EPF, SOCSO and EIS for the wages of a month, in    *)
(* sen (malaysia-statutory-contributions.ts).  Wages are natural numbers,  *)
(* so the rounding of the argument changes nothing.  Rates are per mille,  *)
(* where the code has basis points, to stay within TLC's integers.         *)
(***************************************************************************)
EXTENDS Integers, Sequences

EpfCategory == {"STANDARD_UNDER_60", "PR_OR_PRE_1998_60_PLUS", "MALAYSIAN_60_PLUS",
                "NON_MALAYSIAN", "EXEMPT"}

SocsoCategory == {"FIRST", "SECOND", "EXEMPT"}

LOCAL Smaller(a, b) == IF a <= b THEN a ELSE b

CeilDiv(a, b) == (a + b - 1) \div b

NoContribution == [employee |-> 0, employer |-> 0]

-----------------------------------------------------------------------------
(* EPF.                                                                    *)

EpfBandWidth(wages) == IF wages <= 500000 THEN 2000 ELSE 10000

epfBandCeilingSen(wages) == CeilDiv(wages, EpfBandWidth(wages)) * EpfBandWidth(wages)

\* Of an amount in thousandths of a sen.
wholeRinggitCeiling(perMilleSen) == CeilDiv(perMilleSen, 100000) * 100

\* Employee and employer, per mille.
EpfRates(wages, category) ==
  LET reduced == wages > 500000
  IN CASE category = "STANDARD_UNDER_60"      -> <<110, IF reduced THEN 120 ELSE 130>>
       [] category = "PR_OR_PRE_1998_60_PLUS" -> <<55, IF reduced THEN 60 ELSE 65>>
       [] category = "MALAYSIAN_60_PLUS"      -> <<0, 40>>
       [] category = "NON_MALAYSIAN"          -> <<20, 20>>
       [] category = "EXEMPT"                 -> <<0, 0>>

\* Above 20,000 ringgit the share is the exact one, to the nearest sen.
EpfShare(wages, rate) ==
  IF wages > 2000000 THEN (wages * rate + 500) \div 1000
  ELSE wholeRinggitCeiling(epfBandCeilingSen(wages) * rate)

calculateEpfContribution(wages, category) ==
  IF category = "EXEMPT" \/ wages <= 1000 THEN NoContribution
  ELSE [employee |-> EpfShare(wages, EpfRates(wages, category)[1]),
        employer |-> EpfShare(wages, EpfRates(wages, category)[2])]

-----------------------------------------------------------------------------
(* SOCSO and EIS.                                                          *)

\* The first row whose upper end is not exceeded.
FirstBand(bands, wages) ==
  CHOOSE i \in 1..Len(bands) : /\ wages <= bands[i].upper
                               /\ \A j \in 1..(i - 1) : wages > bands[j].upper

\* The bands of 100 ringgit above 200 ringgit, up to the ceiling.
BandIndex(wages) == Smaller(57, CeilDiv(Smaller(wages, 600000) - 20000, 10000) - 1)

socsoSpecialBands ==
  << [upper |->  3000, firstEmployer |->  60, firstEmployee |-> 10, secondEmployer |->  50],
     [upper |->  5000, firstEmployer |-> 100, firstEmployee |-> 20, secondEmployer |->  80],
     [upper |->  7000, firstEmployer |-> 160, firstEmployee |-> 30, secondEmployer |-> 130],
     [upper |-> 10000, firstEmployer |-> 215, firstEmployee |-> 40, secondEmployer |-> 175],
     [upper |-> 14000, firstEmployer |-> 300, firstEmployee |-> 60, secondEmployer |-> 240],
     [upper |-> 20000, firstEmployer |-> 420, firstEmployee |-> 85, secondEmployer |-> 335] >>

HalfStep(index, sen) == IF index % 2 = 1 THEN sen ELSE 0

socsoScheduledBand(wages) ==
  IF wages <= 20000 THEN socsoSpecialBands[FirstBand(socsoSpecialBands, wages)]
  ELSE LET index  == BandIndex(wages)
           pair   == index \div 2
           injury == 185 + pair * 150 + HalfStep(index, 80)
       IN [firstEmployer  |-> 435 + pair * 350 + HalfStep(index, 180) + injury,
           firstEmployee  |-> 125 + index * 50,
           secondEmployer |-> 310 + pair * 250 + HalfStep(index, 130) + injury]

calculateSocsoContribution(wages, category) ==
  LET band == socsoScheduledBand(wages)
  IN CASE category = "EXEMPT" \/ wages = 0 -> NoContribution
       [] category = "FIRST" /\ wages > 0  -> [employee |-> band.firstEmployee, employer |-> band.firstEmployer]
       [] category = "SECOND" /\ wages > 0 -> [employee |-> 0, employer |-> band.secondEmployer]

eisSpecialBands ==
  << [upper |->  3000, share |->  5], [upper |->  5000, share |-> 10],
     [upper |->  7000, share |-> 10], [upper |-> 10000, share |-> 20],
     [upper |-> 14000, share |-> 20], [upper |-> 20000, share |-> 30] >>

EisShare(wages) ==
  IF wages <= 20000 THEN eisSpecialBands[FirstBand(eisSpecialBands, wages)].share
  ELSE 50 + BandIndex(wages) * 20

calculateEisContribution(wages, eligible) ==
  IF ~eligible \/ wages = 0 THEN NoContribution
  ELSE [employee |-> EisShare(wages), employer |-> EisShare(wages)]

-----------------------------------------------------------------------------

\* wages: a record with the wages each fund counts.
calculateMalaysiaStatutoryContributions(wages, epfCategory, socsoCategory, eisEligible) ==
  LET epf   == calculateEpfContribution(wages.epf, epfCategory)
      socso == calculateSocsoContribution(wages.socso, socsoCategory)
      eis   == calculateEisContribution(wages.eis, eisEligible)
  IN [epf |-> epf, socso |-> socso, eis |-> eis,
      employeeTotal |-> epf.employee + socso.employee + eis.employee,
      employerTotal |-> epf.employer + socso.employer + eis.employer]

-----------------------------------------------------------------------------
(* Properties, of the tables at given wages.                               *)

LOCAL Distance(a, b) == IF a >= b THEN a - b ELSE b - a

\* A rise from the wages low to the wages high never lowers what an employee contributes to
\* a fund, across the band edges, the formulas that take over from the tables, and the
\* ceilings; nor what the employer contributes, but for EPF where its rate falls.
RisesNeverLowerContributions(low, high) ==
  /\ \A category \in EpfCategory :
       LET before == calculateEpfContribution(low, category)
           after  == calculateEpfContribution(high, category)
       IN /\ after.employee >= before.employee
          /\ (low <= 500000 <=> high <= 500000) => after.employer >= before.employer
  /\ \A category \in SocsoCategory :
       LET before == calculateSocsoContribution(low, category)
           after  == calculateSocsoContribution(high, category)
       IN after.employee >= before.employee /\ after.employer >= before.employer
  /\ calculateEisContribution(high, TRUE).employee >= calculateEisContribution(low, TRUE).employee

\* The middle of the band of 100 ringgit that the wages are in, up to the ceiling.
BandMiddle(wages) == CeilDiv(Smaller(wages, 600000), 10000) * 10000 - 5000

\* The formulas for SOCSO and EIS are the rates of the funds on the middle of the band:
\* 0.5% of the employee and 2.5% of the employer in the first category, 2% of the employer
\* in the second, 0.2% of both for EIS, to 5 sen.
FormulasFollowTheRates(wages) ==
  wages > 20000 =>
    LET near(sen, perMille) == Distance(1000 * sen, perMille * BandMiddle(wages)) <= 5000
        first  == calculateSocsoContribution(wages, "FIRST")
        second == calculateSocsoContribution(wages, "SECOND")
        eis    == calculateEisContribution(wages, TRUE)
    IN /\ near(first.employee, 5) /\ near(first.employer, 25) /\ near(second.employer, 20)
       /\ near(eis.employee, 2) /\ near(eis.employer, 2)

\* Up to 20,000 ringgit an EPF share is whole ringgit, covers the rate, and exceeds it by
\* less than the rate on one band and a ringgit; above, it is within a sen of the rate.
EpfCoversTheRate(wages) ==
  wages > 1000 =>
    \A category \in EpfCategory, side \in {1, 2} :
      LET rate  == EpfRates(wages, category)[side]
          epf   == calculateEpfContribution(wages, category)
          share == IF side = 1 THEN epf.employee ELSE epf.employer
      IN IF wages <= 2000000
         THEN share % 100 = 0 /\ 1000 * share >= rate * wages
                /\ 1000 * (share - 100) < rate * (wages + EpfBandWidth(wages))
         ELSE Distance(1000 * share, rate * wages) <= 1000

\* From 15 sen on, the employee can pay the contributions out of the wages.
ContributionsFitTheWages(wages) ==
  wages >= 15 =>
    \A epf \in EpfCategory, socso \in SocsoCategory, eis \in BOOLEAN :
      calculateMalaysiaStatutoryContributions(
        [epf |-> wages, socso |-> wages, eis |-> wages], epf, socso, eis).employeeTotal <= wages
=============================================================================
