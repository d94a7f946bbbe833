------------------------------- MODULE Pricing -------------------------------
(***************************************************************************)
(* What a rental costs (calculate_cost in services/rental_service.py), and *)
(* the endpoints of api/rentals.py that show and bill it.                  *)
(*                                                                         *)
(* One rental is looked at while it runs, ended and looked at again.  Its  *)
(* times are read from the clocks of API replicas, each of which is off by *)
(* up to Skew.  Money is counted in the units of RatePerHour.              *)
(***************************************************************************)
EXTENDS Integers

CONSTANTS
    HourLength,     \* clock units in an hour
    RatePerHour,
    Skew,           \* how far the clock of a replica may be off
    LastMoment,     \* bound: the last moment that is looked at
    NotYet          \* no timestamp

ASSUME TariffAssumption ==
    /\ HourLength \in Nat \ {0}
    /\ RatePerHour \in Nat
    /\ Skew \in Nat
    /\ LastMoment \in Nat
    /\ NotYet \notin Int

VARIABLES
    clock,      \* the true time
    started_at, ended_at,
    rode,       \* history: how long the rental has really lasted
    quoted      \* history: the largest cost shown while it was active

pricingVars == <<clock, started_at, ended_at, rode, quoted>>

-----------------------------------------------------------------------------
(* Cost                                                                    *)

MIN_BILLABLE_HOURS == 1

AtLeast(n, bound) == IF n < bound THEN bound ELSE n

\* math.ceil of a duration in hours.
StartedHours(duration) == -((-duration) \div HourLength)

\* Mutant of BillableHours: only completed hours are charged.
BillableHoursFloor(duration) == AtLeast(duration \div HourLength, MIN_BILLABLE_HOURS)

BillableHours(duration) == AtLeast(StartedHours(duration), MIN_BILLABLE_HOURS)

calculate_cost(start, end) == BillableHours(end - start) * RatePerHour

Active == started_at # NotYet /\ ended_at = NotYet
Ended  == ended_at # NotYet

\* What the clock of a replica may show.
Readings == (clock - Skew)..(clock + Skew)

\* The cost accrued so far, by the clock of the replica that answers, or the
\* final cost.
rental_with_cost(now) == calculate_cost(started_at, IF Ended THEN ended_at ELSE now)

\* What the summary counts of this rental: its bill, once it has ended.
completed_rental_revenue == IF Ended THEN calculate_cost(started_at, ended_at) ELSE 0

PricingInit ==
    /\ clock = 0
    /\ started_at = NotYet
    /\ ended_at = NotYet
    /\ rode = 0
    /\ quoted = 0

Elapse ==
    /\ clock < LastMoment
    /\ clock' = clock + 1
    /\ rode' = IF Active THEN rode + 1 ELSE rode
    /\ UNCHANGED <<started_at, ended_at, quoted>>

start_rental ==
    /\ started_at = NotYet
    /\ started_at' \in Readings
    /\ UNCHANGED <<clock, ended_at, rode, quoted>>

list_rentals ==
    /\ Active
    /\ \E now \in Readings : quoted' = AtLeast(quoted, rental_with_cost(now))
    /\ UNCHANGED <<clock, started_at, ended_at, rode>>

end_rental ==
    /\ Active
    /\ ended_at' \in Readings
    /\ UNCHANGED <<clock, started_at, rode, quoted>>

PricingNext == Elapse \/ start_rental \/ list_rentals \/ end_rental

PricingSpec == PricingInit /\ [][PricingNext]_pricingVars

-----------------------------------------------------------------------------
(* Properties                                                              *)

PricingTypeOK ==
    /\ clock \in 0..LastMoment
    /\ started_at \in Int \cup {NotYet}
    /\ ended_at \in Int \cup {NotYet}
    /\ rode \in Nat
    /\ quoted \in Nat

FinalCost == completed_rental_revenue

\* How many hours the clocks of two replicas can add to a duration.
SkewHours == StartedHours(2 * Skew)

\* The inductive invariant: how far the timestamps and the quotes are from
\* the truth.
PricingInv ==
    /\ PricingTypeOK
    /\ started_at = NotYet => ended_at = NotYet /\ rode = 0 /\ quoted = 0
    /\ Active => /\ started_at - (clock - rode) \in -Skew..Skew
                 /\ quoted <= rental_with_cost(clock + Skew)
    /\ Ended => /\ (ended_at - started_at) - rode \in (-2 * Skew)..(2 * Skew)
                /\ quoted <= calculate_cost(started_at, ended_at + 2 * Skew)

(***************************************************************************)
(* The bill fits the ride: it never charges more than the started hours of *)
(* the true ride and of the clocks' difference, at least an hour, and it   *)
(* leaves no more of the ride unpaid than the clocks are apart             *)
(* (calculate_cost; a return can be stamped before its start when two      *)
(* replicas handle them).                                                  *)
(***************************************************************************)
BillFitsRide ==
    Ended => /\ FinalCost <= RatePerHour * BillableHours(rode + 2 * Skew)
             /\ FinalCost * HourLength >= RatePerHour * (rode - 2 * Skew)
             /\ FinalCost >= RatePerHour

(***************************************************************************)
(* A renter is never shown, while riding, a cost above the final one by    *)
(* more than the clocks' difference accounts for; with one clock the cost  *)
(* shown only grows up to the bill (rental_with_cost: "Active rentals get  *)
(* the cost accrued so far, completed ones the final cost").               *)
(***************************************************************************)
QuoteIsHonoured == Ended => quoted <= FinalCost + RatePerHour * SkewHours

\* What a rental is said to cost is fair, by whichever clocks: the bill, which
\* is what the summary counts, fits the ride, and what was shown during the
\* ride fits the bill (calculate_cost, rental_with_cost, rentals_summary).
PriceIsFair == BillFitsRide /\ QuoteIsHonoured
=============================================================================
