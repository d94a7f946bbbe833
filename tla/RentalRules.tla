----------------------------- MODULE RentalRules -----------------------------
(***************************************************************************)
(* The decisions of services/rental_service.py: which discount a renter    *)
(* gets (calculate_discount) and whether a renter may rent                 *)
(* (validate_rental_eligibility).  Both replaced branching code by tables; *)
(* the module states both versions and lets a client ask about any renter. *)
(***************************************************************************)
EXTENDS Integers, Sequences

CONSTANTS
    RentalCounts,   \* how many rentals a renter has
    ZoneLists,      \* lists of station zones
    TripHours,      \* durations in half hours: the rules name 1 and 3 hours
    Nobody

ASSUME RulesAssumption ==
    /\ RentalCounts \subseteq Nat
    /\ TripHours \subseteq Nat

VARIABLES
    renter,         \* the DiscountContext a discount was asked for
    applicant       \* the RentalEligibilityContext that was validated

rulesVars == <<renter, applicant>>

-----------------------------------------------------------------------------
(* Discounts                                                               *)

\* table.get(key, _NO_DISCOUNT)
If(condition, amount) == IF condition THEN amount ELSE 0

DiscountContext ==
    [rental_count: RentalCounts, is_vip: BOOLEAN, vehicle_type: {"standard", "premium", "electric"},
     station_zones: ZoneLists, has_coupon: BOOLEAN, is_weekend: BOOLEAN, is_holiday: BOOLEAN,
     is_corporate: BOOLEAN, is_night: BOOLEAN, trip_hours: TripHours, is_birthday: BOOLEAN,
     returned_charged: BOOLEAN]

\* Keyed by: more than 10 rentals, premium vehicle.
VIP_DISCOUNT(many, premium) ==
    CASE many /\ premium   -> 5
      [] many /\ ~premium  -> 10
      [] ~many /\ premium  -> 2
      [] ~many /\ ~premium -> 5

\* bisect_left in (5, 20): how many bounds are below the count.  The mutant is
\* bisect_right.
TierRight(count) == If(5 <= count, 1) + If(20 <= count, 1)

Tier(count) == If(5 < count, 1) + If(20 < count, 1)

\* Keyed by: tier, has_coupon.
REGULAR_DISCOUNT(tier, coupon) ==
    CASE tier = 0            -> 0
      [] tier = 1 /\ ~coupon -> 1
      [] tier = 1 /\ coupon  -> 4
      [] tier = 2            -> 3

ZONE_DISCOUNTS(zone) == If(zone = "center", 1) + If(zone = "suburb", -1)

weekend_zone_discount(zones) ==
    LET sum[n \in 0..Len(zones)] == If(n > 0, sum[n - 1] + ZONE_DISCOUNTS(zones[n]))
    IN sum[Len(zones)]

HOLIDAY_DISCOUNT(coupon) == IF coupon THEN 2 ELSE 1

BASE_DISCOUNT(c) ==
    IF c.is_vip THEN VIP_DISCOUNT(c.rental_count > 10, c.vehicle_type = "premium")
    ELSE REGULAR_DISCOUNT(Tier(c.rental_count), c.has_coupon)

\* The keys of each truth table that earn a discount.
CorporateKeys == {<<TRUE, TRUE, TRUE>>}
NightKeys     == {<<TRUE, TRUE, FALSE>>}
BirthdayKeys == {<<TRUE, TRUE, TRUE>>, <<TRUE, TRUE, FALSE>>, <<TRUE, FALSE, TRUE>>}
ChargedKeys   == {<<TRUE, TRUE, TRUE>>}

SURCHARGE_RULES(c) ==
    If(c.is_weekend, weekend_zone_discount(c.station_zones))
    + If(c.is_holiday, HOLIDAY_DISCOUNT(c.has_coupon))
    + If(<<c.is_corporate, c.rental_count > 5, c.vehicle_type # "premium">> \in CorporateKeys, 3)
    + If(<<c.is_night, c.trip_hours >= 6, c.has_coupon>> \in NightKeys, 4)
    + If(<<c.is_birthday, c.is_vip, c.rental_count > 3>> \in BirthdayKeys, 6)
    + If(<<c.returned_charged, c.vehicle_type = "electric", c.trip_hours > 2>> \in ChargedKeys, 2)

calculate_discount(c) == BASE_DISCOUNT(c) + SURCHARGE_RULES(c)

\* The version the tables replaced, as the golden-master test keeps it
\* (tests/unit/test_discount_equivalence.py).
legacy_base(c) ==
    IF c.is_vip
    THEN IF c.rental_count > 10 THEN IF c.vehicle_type = "premium" THEN 5 ELSE 10
         ELSE IF c.vehicle_type = "premium" THEN 2 ELSE 5
    ELSE IF c.rental_count > 20 THEN 3
    ELSE IF c.rental_count <= 5 THEN 0
    ELSE IF c.has_coupon THEN 4 ELSE 1

legacy_calculate_discount(c) ==
    legacy_base(c)
    + (If(c.is_weekend, weekend_zone_discount(c.station_zones))
       + If(c.is_holiday, IF c.has_coupon THEN 2 ELSE 1)
       + If(c.is_corporate /\ c.rental_count > 5 /\ c.vehicle_type # "premium", 3)
       + If(c.is_night /\ c.trip_hours >= 6 /\ ~c.has_coupon, 4)
       + If(c.is_birthday /\ (c.is_vip \/ c.rental_count > 3), 6)
       + If(c.returned_charged /\ c.vehicle_type = "electric" /\ c.trip_hours > 2, 2))

-----------------------------------------------------------------------------
(* Eligibility                                                             *)

RentalEligibilityContext ==
    [renter_is_blacklisted: BOOLEAN, license_expired: BOOLEAN, has_unpaid_fees: BOOLEAN,
     active_rental_count: RentalCounts, vehicle_status: {"AVAILABLE", "RENTED", "MAINTENANCE"},
     station_is_open: BOOLEAN, is_weekend: BOOLEAN, weekend_requires_deposit: BOOLEAN,
     has_deposit_on_file: BOOLEAN]

deposit_missing(c) == c.is_weekend /\ c.weekend_requires_deposit /\ ~c.has_deposit_on_file

\* A rule is named by its reason.
is_violated(reason, c) ==
    \/ reason = "blacklisted" /\ c.renter_is_blacklisted
    \/ reason = "license expired" /\ c.license_expired
    \/ reason = "unpaid fees, active rental" /\ c.has_unpaid_fees /\ c.active_rental_count > 0
    \/ reason = "unpaid fees, no deposit" /\ c.has_unpaid_fees /\ deposit_missing(c)
    \/ reason = "vehicle not available" /\ c.vehicle_status # "AVAILABLE"
    \/ reason = "station closed" /\ ~c.station_is_open
    \/ reason = "no deposit" /\ deposit_missing(c)

\* Ordered by priority.
ELIGIBILITY_RULES ==
    << "blacklisted", "license expired", "unpaid fees, active rental", "unpaid fees, no deposit",
       "vehicle not available", "station closed", "no deposit" >>

\* The first violated rule decides.
validate_rental_eligibility(c) ==
    LET violated == {i \in 1..7 : is_violated(ELIGIBILITY_RULES[i], c)}
    IN IF violated = {} THEN "OK"
       ELSE ELIGIBILITY_RULES[CHOOSE i \in violated : \A j \in violated : i <= j]

\* The version the rules replaced, as the golden-master test keeps it
\* (tests/unit/test_rental_eligibility_characterization.py).
legacy_validate(c) ==
    IF c.renter_is_blacklisted THEN "blacklisted"
    ELSE IF c.license_expired THEN "license expired"
    ELSE IF c.has_unpaid_fees /\ c.active_rental_count > 0 THEN "unpaid fees, active rental"
    ELSE IF c.has_unpaid_fees /\ deposit_missing(c) THEN "unpaid fees, no deposit"
    ELSE IF c.vehicle_status # "AVAILABLE" THEN "vehicle not available"
    ELSE IF ~c.station_is_open THEN "station closed"
    ELSE IF deposit_missing(c) THEN "no deposit"
    ELSE "OK"

-----------------------------------------------------------------------------
RulesInit == renter = Nobody /\ applicant = Nobody

ask_discount == renter' \in DiscountContext /\ UNCHANGED applicant

ask_eligibility == applicant' \in RentalEligibilityContext /\ UNCHANGED renter

RulesNext == ask_discount \/ ask_eligibility

RulesSpec == RulesInit /\ [][RulesNext]_rulesVars

-----------------------------------------------------------------------------
(* Properties                                                              *)

\* Every renter gets from the lookup tables the discount that the branches
\* they replaced gave (calculate_discount; "must equal the original
\* monolith").
DiscountIsLegacy ==
    renter # Nobody => calculate_discount(renter) = legacy_calculate_discount(renter)

\* The rule list accepts and refuses as the branches it replaced and for the
\* same reason (validate_rental_eligibility; "the first violated rule
\* determines the rejection reason").
EligibilityIsLegacy ==
    applicant # Nobody => validate_rental_eligibility(applicant) = legacy_validate(applicant)

\* The tables and rules decide as the code they replaced (calculate_discount,
\* validate_rental_eligibility).
RulesAreLegacy == DiscountIsLegacy /\ EligibilityIsLegacy
=============================================================================
