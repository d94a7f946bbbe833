-------------------------- MODULE StandaloneProofs --------------------------
(***************************************************************************)
(* Proofs about components that stand by themselves: the price of a rental,*)
(* the rental rules, the retries, the simulator and the demo data.         *)
(***************************************************************************)
EXTENDS Retry, Pricing, RentalRules, Simulator, SeedDemo, FiniteSetTheorems, TLAPS

-----------------------------------------------------------------------------
(* Recursion on the naturals                                               *)

\* Every non-empty set of naturals has a least element: induction, for sets.
LEMMA LeastNatural ==
    ASSUME NEW T \in SUBSET Nat, T # {}
    PROVE  \E x \in T : \A y \in T : x <= y
<1>1. PICK x \in T : \A y \in T : ~(<<y, x>> \in OpToRel(<, Nat))  BY NatLessThanWellFounded, WFMin
<1>2. \A y \in T : ~(y < x)  BY <1>1 DEF OpToRel
<1> QED  BY <1>2

\* A set that holds 0, and the successor of what it holds, holds every natural.
LEMMA SetInduction ==
    ASSUME NEW T, 0 \in T, \A n \in Nat : n \in T => n + 1 \in T
    PROVE  \A n \in Nat : n \in T
<1> DEFINE Missing == {n \in Nat : n \notin T}
<1> SUFFICES ASSUME Missing # {} PROVE FALSE
  OBVIOUS
<1>1. PICK x \in Missing : \A y \in Missing : x <= y  BY LeastNatural
<1>2. x # 0 /\ x - 1 \in Nat  BY <1>1
<1>3. x - 1 \in T  BY <1>1, <1>2
<1> QED  BY <1>1, <1>2, <1>3

\* A function is defined by its value at 0 and how each value follows from the
\* one before.
Steps(S) == [Nat -> [S -> S]]

LEMMA RecursionExists ==
    ASSUME NEW S, NEW c \in S, NEW h \in Steps(S)
    PROVE  \E g \in [Nat -> S] : g[0] = c /\ \A n \in Nat : g[n + 1] = h[n][g[n]]
<1> DEFINE Starts(n) == {g \in [0..n -> S] : g[0] = c /\ \A m \in 0..(n - 1) : g[m + 1] = h[m][g[m]]}
           Reached   == {n \in Nat : Starts(n) # {}}
<1>0. h \in [Nat -> [S -> S]]  BY DEF Steps
<1>1. \A n \in Nat : n \in Reached
  <2>1. 0 \in Reached
    <3>1. [m \in 0..0 |-> c] \in Starts(0)  OBVIOUS
    <3> QED  BY <3>1
  <2>2. ASSUME NEW n \in Nat, n \in Reached  PROVE n + 1 \in Reached
    <3>1. PICK g : g \in Starts(n)  BY <2>2
    <3>2. g \in [0..n -> S] /\ g[0] = c /\ \A m \in 0..(n - 1) : g[m + 1] = h[m][g[m]]  BY <3>1
    <3> DEFINE k == [m \in 0..(n + 1) |-> IF m = n + 1 THEN h[n][g[n]] ELSE g[m]]
    <3>3. h[n][g[n]] \in S  BY <1>0, <3>2
    <3>4. k \in [0..(n + 1) -> S] /\ k[0] = c  BY <3>2, <3>3
    <3>5. ASSUME NEW m \in 0..((n + 1) - 1)  PROVE k[m + 1] = h[m][k[m]]
      <4>1. CASE m = n  BY <4>1
      <4>2. CASE m # n
        <5>1. m \in 0..(n - 1) /\ m + 1 \in 0..n  BY <4>2
        <5> QED  BY <3>2, <5>1
      <4> QED  BY <4>1, <4>2
    <3>6. k \in Starts(n + 1)  BY <3>4, <3>5
    <3>7. n + 1 \in Nat  OBVIOUS
    <3> HIDE DEF k, Starts
    <3> QED  BY <3>6, <3>7
  <2> HIDE DEF Reached
  <2> QED  BY <2>1, <2>2, SetInduction
<1>2. ASSUME NEW n \in Nat, NEW m \in Nat, NEW a \in Starts(n), NEW b \in Starts(m)
      PROVE  \A i \in Nat : i <= n /\ i <= m => a[i] = b[i]
  <2> DEFINE Same == {i \in Nat : i <= n /\ i <= m => a[i] = b[i]}
  <2>1. 0 \in Same  OBVIOUS
  <2>2. ASSUME NEW i \in Nat, i \in Same  PROVE i + 1 \in Same
    <3> SUFFICES ASSUME i + 1 <= n, i + 1 <= m PROVE a[i + 1] = b[i + 1]
      OBVIOUS
    <3>1. a[i] = b[i] /\ i \in 0..(n - 1) /\ i \in 0..(m - 1)  BY <2>2
    <3>2. a[i + 1] = h[i][a[i]] /\ b[i + 1] = h[i][b[i]]  BY <3>1
    <3> QED  BY <3>1, <3>2
  <2>3. \A i \in Nat : i \in Same
    <3> HIDE DEF Same
    <3> QED  BY <2>1, <2>2, SetInduction
  <2> QED  BY <2>3
<1> DEFINE pick == [n \in Nat |-> CHOOSE a : a \in Starts(n)]
           g    == [n \in Nat |-> pick[n][n]]
<1>3. \A n \in Nat : pick[n] \in Starts(n)  BY <1>1
<1> HIDE DEF pick
<1>4. ASSUME NEW n \in Nat  PROVE g[n] \in S /\ g[n + 1] = h[n][g[n]]
  <2>0. n + 1 \in Nat /\ n <= n /\ n <= n + 1  OBVIOUS
  <2>1. pick[n] \in Starts(n) /\ pick[n + 1] \in Starts(n + 1)
    <3> HIDE DEF Starts
    <3> QED  BY <1>3, <2>0
  <2>2. pick[n] \in [0..n -> S]  BY <2>1
  <2>3. pick[n + 1][n + 1] = h[n][pick[n + 1][n]]  BY <2>1
  <2>4. pick[n + 1][n] = pick[n][n]
    <3> HIDE DEF Starts
    <3> QED  BY <1>2, <2>0, <2>1
  <2> QED  BY <2>2, <2>3, <2>4
<1>5. g[0] = c
  <2>1. pick[0] \in Starts(0)  BY <1>3
  <2> QED  BY <2>1
<1>6. g \in [Nat -> S]  BY <1>4
<1> HIDE DEF g
<1> QED  BY <1>4, <1>5, <1>6

LEMMA NatRecursion ==
    ASSUME NEW c \in Nat, NEW h \in Steps(Nat)
    PROVE  \E g \in [Nat -> Nat] : g[0] = c /\ \A n \in Nat : g[n + 1] = h[n][g[n]]
<1> DEFINE S == Nat
           d == c
<1>1. d \in S /\ h \in Steps(S)  OBVIOUS
<1> HIDE DEF S, d
<1>2. \E g \in [Nat -> S] : g[0] = d /\ \A n \in Nat : g[n + 1] = h[n][g[n]]  BY <1>1, RecursionExists
<1> QED  BY <1>2 DEF S, d

-----------------------------------------------------------------------------
(* Started hours                                                           *)

\* Multiplying by an hour, or by the rate, keeps the order.
LEMMA TimesMonotone ==
    ASSUME NEW m \in Int, NEW n \in Int, NEW k \in Nat, m <= n
    PROVE  m * k <= n * k
<1>1. (n - m) * k >= 0  BY Z3
<1>2. (n - m) * k = n * k - m * k  BY Z3
<1> QED  BY <1>1, <1>2, Z3

\* Started hours cover the duration, and one less would not.
LEMMA StartedHoursBound ==
    ASSUME NEW d \in Int
    PROVE  /\ StartedHours(d) \in Int
           /\ StartedHours(d) * HourLength >= d
           /\ (StartedHours(d) - 1) * HourLength < d
<1> DEFINE q == (-d) \div HourLength
<1>1. q \in Int /\ q * HourLength <= -d /\ -d < q * HourLength + HourLength
  BY TariffAssumption, Z3
<1>2. StartedHours(d) = -q  BY DEF StartedHours
<1>3. (-q) * HourLength = -(q * HourLength)  BY <1>1, TariffAssumption, Z3
<1>4. (-q - 1) * HourLength = -(q * HourLength) - HourLength  BY <1>1, TariffAssumption, Z3
<1> QED  BY <1>1, <1>2, <1>3, <1>4, TariffAssumption, Z3

\* An hour less than the started ones of e falls short of it: the number of
\* started hours is the least that covers.
LEMMA StartedHoursLeast ==
    ASSUME NEW e \in Int, NEW n \in Int, n * HourLength >= e
    PROVE  StartedHours(e) <= n
<1>1. ASSUME n <= StartedHours(e) - 1  PROVE FALSE
  <2> DEFINE m == StartedHours(e) - 1
  <2>0. m \in Int /\ HourLength \in Nat  BY StartedHoursBound, TariffAssumption, Z3
  <2>1. n * HourLength <= m * HourLength
    <3> HIDE DEF m
    <3> QED  BY <1>1, <2>0, TimesMonotone DEF m
  <2>2. n * HourLength \in Int /\ (StartedHours(e) - 1) * HourLength \in Int
    BY StartedHoursBound, TariffAssumption, Z3
  <2> QED  BY <2>1, <2>2, StartedHoursBound, Z3
<1> QED  BY <1>1, StartedHoursBound, Z3

LEMMA BillableHoursType ==
    ASSUME NEW d \in Int
    PROVE  BillableHours(d) \in Nat \ {0} /\ BillableHours(d) >= StartedHours(d)
BY StartedHoursBound, Z3 DEF BillableHours, AtLeast, MIN_BILLABLE_HOURS

\* A longer ride is never cheaper.
LEMMA BillableHoursMonotone ==
    ASSUME NEW d \in Int, NEW e \in Int, d <= e
    PROVE  BillableHours(d) <= BillableHours(e)
<1>1. StartedHours(d) <= StartedHours(e)
  <2>1. StartedHours(e) * HourLength >= d
    <3>1. StartedHours(e) * HourLength \in Int  BY StartedHoursBound, TariffAssumption, Z3
    <3> QED  BY <3>1, StartedHoursBound, Z3
  <2> QED  BY <2>1, StartedHoursBound, StartedHoursLeast
<1> QED  BY <1>1, StartedHoursBound, Z3 DEF BillableHours, AtLeast, MIN_BILLABLE_HOURS

\* More time adds at most the started hours of what is added.
LEMMA BillableHoursAdd ==
    ASSUME NEW d \in Int, NEW x \in Nat
    PROVE  BillableHours(d + x) <= BillableHours(d) + StartedHours(x)
<1> DEFINE s == StartedHours(d)
           t == StartedHours(x)
<1>1. s \in Int /\ t \in Int  BY StartedHoursBound
<1>2. (s + t) * HourLength = s * HourLength + t * HourLength
  BY <1>1, TariffAssumption, Z3
<1>3. s * HourLength \in Int /\ t * HourLength \in Int  BY <1>1, TariffAssumption, Z3
<1>4. s * HourLength >= d /\ t * HourLength >= x  BY StartedHoursBound
<1>5. (s + t) * HourLength >= d + x  BY <1>2, <1>3, <1>4, Z3
<1>6. StartedHours(d + x) <= s + t
  <2> HIDE DEF s, t
  <2> QED  BY <1>1, <1>5, StartedHoursLeast
<1>7. t >= 0
  <2>1. ASSUME t <= -1  PROVE FALSE
    <3>1. t * HourLength <= (-1) * HourLength  BY <1>1, <2>1, TimesMonotone, TariffAssumption
    <3>2. (-1) * HourLength < 0  BY TariffAssumption, Z3
    <3> QED  BY <1>3, <1>4, <3>1, <3>2, TariffAssumption, Z3
  <2> QED  BY <1>1, <2>1, Z3
<1>8. StartedHours(d + x) \in Int  BY StartedHoursBound
<1>9. /\ BillableHours(d) = IF s < 1 THEN 1 ELSE s
      /\ BillableHours(d + x) = IF StartedHours(d + x) < 1 THEN 1 ELSE StartedHours(d + x)
  BY DEF BillableHours, AtLeast, MIN_BILLABLE_HOURS
<1> HIDE DEF s, t
<1>10. BillableHours(d + x) <= BillableHours(d) + t
  BY <1>1, <1>6, <1>7, <1>8, <1>9, Z3
<1> QED  BY <1>10 DEF t

-----------------------------------------------------------------------------
(* The bill                                                                *)

LEMMA CostType ==
    ASSUME NEW a \in Int, NEW b \in Int
    PROVE  calculate_cost(a, b) \in Nat
<1>1. b - a \in Int  OBVIOUS
<1>2. BillableHours(b - a) \in Nat  BY <1>1, BillableHoursType
<1> QED  BY <1>2, TariffAssumption, Z3 DEF calculate_cost

\* A later end never lowers the cost.
LEMMA CostMonotone ==
    ASSUME NEW a \in Int, NEW b \in Int, NEW c \in Int, b <= c
    PROVE  calculate_cost(a, b) <= calculate_cost(a, c)
<1> DEFINE m == BillableHours(b - a)
           n == BillableHours(c - a)
<1>1. b - a \in Int /\ c - a \in Int /\ b - a <= c - a  OBVIOUS
<1>2. m \in Int /\ n \in Int  BY <1>1, BillableHoursType
<1>3. m <= n  BY <1>1, BillableHoursMonotone
<1>4. m * RatePerHour <= n * RatePerHour
  <2> HIDE DEF m, n
  <2> QED  BY <1>2, <1>3, TimesMonotone, TariffAssumption
<1> QED  BY <1>4 DEF calculate_cost

\* However the clocks of the replicas differ, the timestamps stay within the
\* difference of the truth and no quote is above what the latest clock shows
\* (start_rental, rental_with_cost, end_rental).
THEOREM TimesAreClose == PricingSpec => []PricingInv
<1> USE TariffAssumption
<1>1. PricingInit => PricingInv
  BY DEF PricingInit, PricingInv, PricingTypeOK, Active, Ended
<1>2. ASSUME PricingInv, [PricingNext]_pricingVars
      PROVE  PricingInv'
  <2> USE <1>2 DEF PricingInv, PricingTypeOK, Active, Ended
  <2>1. CASE Elapse
    <3> USE <2>1 DEF Elapse
    <3>1. PricingTypeOK'  OBVIOUS
    <3>2. ASSUME Active
          PROVE  quoted <= calculate_cost(started_at, clock + 1 + Skew)
      <4>1. /\ started_at \in Int
            /\ clock + Skew \in Int /\ clock + 1 + Skew \in Int
            /\ clock + Skew <= clock + 1 + Skew
        BY <3>2
      <4>2. calculate_cost(started_at, clock + Skew)
              <= calculate_cost(started_at, clock + 1 + Skew)
        BY <4>1, CostMonotone
      <4>3. quoted <= calculate_cost(started_at, clock + Skew)
        BY <3>2 DEF rental_with_cost
      <4> QED  BY <4>1, <4>2, <4>3, CostType
    <3> QED  BY <3>1, <3>2 DEF rental_with_cost
  <2>2. CASE start_rental
    <3> USE <2>2 DEF start_rental, Readings
    <3>1. PricingTypeOK'  OBVIOUS
    <3>2. clock + Skew \in Int /\ started_at' \in Int  OBVIOUS
    <3>3. 0 <= calculate_cost(started_at', clock + Skew)  BY <3>2, CostType
    <3> QED  BY <3>1, <3>2, <3>3 DEF rental_with_cost
  <2>3. CASE list_rentals
    <3> USE <2>3 DEF list_rentals
    <3>1. PICK now \in Readings : quoted' = AtLeast(quoted, rental_with_cost(now))
      OBVIOUS
    <3>2. /\ started_at \in Int /\ now \in Int
          /\ clock + Skew \in Int /\ now <= clock + Skew
      BY DEF Readings
    <3>3. calculate_cost(started_at, now) <= calculate_cost(started_at, clock + Skew)
      BY <3>2, CostMonotone
    <3>4. calculate_cost(started_at, now) \in Nat  BY <3>2, CostType
    <3>5. quoted' \in Nat /\ quoted' <= calculate_cost(started_at, clock + Skew)
      BY <3>1, <3>3, <3>4 DEF AtLeast, rental_with_cost
    <3> QED  BY <3>5 DEF rental_with_cost
  <2>4. CASE end_rental
    <3> USE <2>4 DEF end_rental, Readings
    <3>1. /\ started_at \in Int /\ ended_at' \in Int
          /\ clock + Skew \in Int /\ ended_at' + 2 * Skew \in Int
          /\ clock + Skew <= ended_at' + 2 * Skew
      OBVIOUS
    <3>2. calculate_cost(started_at, clock + Skew)
            <= calculate_cost(started_at, ended_at' + 2 * Skew)
      BY <3>1, CostMonotone
    <3>3. quoted <= calculate_cost(started_at, clock + Skew)
      BY DEF rental_with_cost
    <3>4. quoted <= calculate_cost(started_at, ended_at' + 2 * Skew)
      BY <3>1, <3>2, <3>3, CostType
    <3>5. (ended_at' - started_at) - rode \in (-2 * Skew)..(2 * Skew)
      BY <3>1
    <3> QED  BY <3>1, <3>4, <3>5
  <2>5. CASE UNCHANGED pricingVars
    BY <2>5 DEF pricingVars, rental_with_cost
  <2> QED  BY <1>2, <2>1, <2>2, <2>3, <2>4, <2>5 DEF PricingNext
<1> QED  BY <1>1, <1>2, PTL DEF PricingSpec

\* For every tariff and every difference between the clocks: the bill fits the
\* ride (calculate_cost).
THEOREM BillIsFair == PricingSpec => []BillFitsRide
<1> USE TariffAssumption
<1>1. ASSUME PricingInv, Ended
      PROVE  /\ FinalCost <= RatePerHour * BillableHours(rode + 2 * Skew)
             /\ FinalCost * HourLength >= RatePerHour * (rode - 2 * Skew)
             /\ FinalCost >= RatePerHour
  <2> DEFINE d == ended_at - started_at
             h == BillableHours(d)
  <2>1. /\ started_at \in Int /\ ended_at \in Int /\ rode \in Nat
        /\ d \in Int /\ rode - 2 * Skew <= d /\ d <= rode + 2 * Skew
    BY <1>1 DEF PricingInv, PricingTypeOK, Ended
  <2>2. FinalCost = h * RatePerHour
    BY <1>1 DEF FinalCost, completed_rental_revenue, calculate_cost
  <2>3. /\ h \in Nat \ {0} /\ h >= StartedHours(d) /\ h <= BillableHours(rode + 2 * Skew)
        /\ BillableHours(rode + 2 * Skew) \in Nat
    BY <2>1, BillableHoursType, BillableHoursMonotone
  <2>4. h * HourLength >= rode - 2 * Skew
    <3>1. StartedHours(d) \in Int /\ StartedHours(d) * HourLength >= d
      BY <2>1, StartedHoursBound
    <3>2. StartedHours(d) * HourLength <= h * HourLength
      <4> HIDE DEF h, d
      <4> QED  BY <2>3, <3>1, TimesMonotone
    <3>3. StartedHours(d) * HourLength \in Int /\ h * HourLength \in Int
      BY <2>3, <3>1, Z3
    <3> HIDE DEF h, d
    <3> QED  BY <2>1, <3>1, <3>2, <3>3, Z3
  <2> HIDE DEF h, d
  <2>5. h * RatePerHour <= BillableHours(rode + 2 * Skew) * RatePerHour
    BY <2>3, TimesMonotone
  <2>6. (rode - 2 * Skew) * RatePerHour <= (h * HourLength) * RatePerHour
    <3>1. h * HourLength \in Int /\ rode - 2 * Skew \in Int  BY <2>1, <2>3, Z3
    <3> QED  BY <2>4, <3>1, TimesMonotone
  <2>7. (h * HourLength) * RatePerHour = (h * RatePerHour) * HourLength
    BY <2>3, Z3
  <2>8. (rode - 2 * Skew) * RatePerHour = RatePerHour * (rode - 2 * Skew)
    BY <2>1, Z3
  <2>9. h * RatePerHour >= RatePerHour
    <3>1. 1 * RatePerHour <= h * RatePerHour  BY <2>3, TimesMonotone
    <3> QED  BY <3>1, Z3
  <2>10. BillableHours(rode + 2 * Skew) * RatePerHour
           = RatePerHour * BillableHours(rode + 2 * Skew)
    BY <2>3, Z3
  <2> QED  BY <2>2, <2>5, <2>6, <2>7, <2>8, <2>9, <2>10
<1>2. PricingInv => BillFitsRide  BY <1>1 DEF BillFitsRide
<1> QED  BY <1>2, TimesAreClose, PTL

\* For every tariff and every difference between the clocks: the cost shown
\* during the ride exceeds the bill by no more than the started hours of that
\* difference (rental_with_cost).
THEOREM QuotesAreHonoured == PricingSpec => []QuoteIsHonoured
<1> USE TariffAssumption
<1>1. ASSUME PricingInv, Ended
      PROVE  quoted <= FinalCost + RatePerHour * SkewHours
  <2> DEFINE d == ended_at - started_at
  <2>1. /\ started_at \in Int /\ ended_at \in Int /\ quoted \in Nat
        /\ d \in Int /\ 2 * Skew \in Nat /\ (ended_at + 2 * Skew) - started_at = d + 2 * Skew
    BY <1>1 DEF PricingInv, PricingTypeOK, Ended
  <2>2. quoted <= BillableHours(d + 2 * Skew) * RatePerHour
    BY <1>1, <2>1 DEF PricingInv, calculate_cost
  <2>3. /\ BillableHours(d + 2 * Skew) <= BillableHours(d) + SkewHours
        /\ BillableHours(d) \in Int /\ BillableHours(d + 2 * Skew) \in Int /\ SkewHours \in Int
    BY <2>1, BillableHoursAdd, BillableHoursType, StartedHoursBound DEF SkewHours
  <2>4. FinalCost = BillableHours(d) * RatePerHour
    BY <1>1 DEF FinalCost, completed_rental_revenue, calculate_cost
  <2> HIDE DEF d
  <2>5. BillableHours(d + 2 * Skew) * RatePerHour <= (BillableHours(d) + SkewHours) * RatePerHour
    <3>1. BillableHours(d) + SkewHours \in Int  BY <2>3
    <3> QED  BY <2>3, <3>1, TimesMonotone
  <2>6. (BillableHours(d) + SkewHours) * RatePerHour
          = BillableHours(d) * RatePerHour + RatePerHour * SkewHours
    BY <2>3, Z3
  <2>7. /\ BillableHours(d + 2 * Skew) * RatePerHour \in Int
        /\ BillableHours(d) * RatePerHour \in Int /\ RatePerHour * SkewHours \in Int
    BY <2>3, Z3
  <2> QED  BY <2>1, <2>2, <2>4, <2>5, <2>6, <2>7, Z3
<1>2. PricingInv => QuoteIsHonoured  BY <1>1 DEF QuoteIsHonoured
<1> QED  BY <1>2, TimesAreClose, PTL

\* What a rental is said to cost is fair for every tariff and every difference
\* between the clocks (calculate_cost, rental_with_cost, rentals_summary).
THEOREM PricesAreFair == PricingSpec => []PriceIsFair
BY BillIsFair, QuotesAreHonoured, PTL DEF PriceIsFair

-----------------------------------------------------------------------------
(* The rules                                                               *)

\* For every rental count, trip and list of zones: the lookup tables equal the
\* branches they replaced (calculate_discount).
THEOREM TablesEqualBranches == RulesSpec => []DiscountIsLegacy
<1>1. ASSUME NEW c \in DiscountContext
      PROVE  BASE_DISCOUNT(c) = legacy_base(c)
  <2>1. c.rental_count \in Nat  BY RulesAssumption DEF DiscountContext
  <2>2. CASE c.is_vip
    BY <2>1, <2>2 DEF BASE_DISCOUNT, legacy_base, VIP_DISCOUNT
  <2>3. CASE ~c.is_vip
    BY <2>1, <2>3 DEF BASE_DISCOUNT, legacy_base, REGULAR_DISCOUNT, Tier, If
  <2> QED  BY <2>2, <2>3
<1>2. ASSUME NEW c \in DiscountContext
      PROVE  calculate_discount(c) = legacy_calculate_discount(c)
  <2>1. /\ c.is_corporate \in BOOLEAN /\ c.is_night \in BOOLEAN /\ c.has_coupon \in BOOLEAN
        /\ c.is_birthday \in BOOLEAN /\ c.is_vip \in BOOLEAN /\ c.returned_charged \in BOOLEAN
    BY DEF DiscountContext
  <2>2. ASSUME NEW x \in BOOLEAN, NEW y \in BOOLEAN, NEW z \in BOOLEAN
        PROVE  /\ <<x, y, z>> \in CorporateKeys <=> x /\ y /\ z
               /\ <<x, y, z>> \in NightKeys <=> x /\ y /\ ~z
               /\ <<x, y, z>> \in BirthdayKeys <=> x /\ (y \/ z)
               /\ <<x, y, z>> \in ChargedKeys <=> x /\ y /\ z
    BY DEF CorporateKeys, NightKeys, BirthdayKeys, ChargedKeys
  <2>3. /\ (c.rental_count > 5) \in BOOLEAN /\ (c.vehicle_type # "premium") \in BOOLEAN
        /\ (c.trip_hours >= 6) \in BOOLEAN /\ (c.trip_hours > 2) \in BOOLEAN
        /\ (c.rental_count > 3) \in BOOLEAN /\ (c.vehicle_type = "electric") \in BOOLEAN
    OBVIOUS
  <2>4. <<c.is_corporate, c.rental_count > 5, c.vehicle_type # "premium">> \in CorporateKeys
          <=> c.is_corporate /\ c.rental_count > 5 /\ c.vehicle_type # "premium"
    BY <2>1, <2>2, <2>3
  <2>5. <<c.is_night, c.trip_hours >= 6, c.has_coupon>> \in NightKeys
          <=> c.is_night /\ c.trip_hours >= 6 /\ ~c.has_coupon
    BY <2>1, <2>2, <2>3
  <2>6. <<c.is_birthday, c.is_vip, c.rental_count > 3>> \in BirthdayKeys
          <=> c.is_birthday /\ (c.is_vip \/ c.rental_count > 3)
    BY <2>1, <2>2, <2>3
  <2>7. <<c.returned_charged, c.vehicle_type = "electric", c.trip_hours > 2>> \in ChargedKeys
          <=> c.returned_charged /\ c.vehicle_type = "electric" /\ c.trip_hours > 2
    BY <2>1, <2>2, <2>3
  <2>8. SURCHARGE_RULES(c)
          = If(c.is_weekend, weekend_zone_discount(c.station_zones))
            + If(c.is_holiday, IF c.has_coupon THEN 2 ELSE 1)
            + If(c.is_corporate /\ c.rental_count > 5 /\ c.vehicle_type # "premium", 3)
            + If(c.is_night /\ c.trip_hours >= 6 /\ ~c.has_coupon, 4)
            + If(c.is_birthday /\ (c.is_vip \/ c.rental_count > 3), 6)
            + If(c.returned_charged /\ c.vehicle_type = "electric" /\ c.trip_hours > 2, 2)
    BY <2>4, <2>5, <2>6, <2>7 DEF SURCHARGE_RULES, HOLIDAY_DISCOUNT, If
  <2> QED  BY <1>1, <2>8 DEF calculate_discount, legacy_calculate_discount
<1>3. RulesInit => renter = Nobody  BY DEF RulesInit
<1>4. (renter = Nobody \/ renter \in DiscountContext) /\ [RulesNext]_rulesVars
        => (renter = Nobody \/ renter \in DiscountContext)'
  BY DEF RulesNext, ask_discount, ask_eligibility, rulesVars
<1>5. renter = Nobody \/ renter \in DiscountContext => DiscountIsLegacy
  BY <1>2 DEF DiscountIsLegacy
<1> QED  BY <1>3, <1>4, <1>5, PTL DEF RulesSpec

\* For every number of active rentals: the rule list gives the verdict and the
\* reason of the branches it replaced (validate_rental_eligibility).
THEOREM RulesEqualBranches == RulesSpec => []EligibilityIsLegacy
<1>1. ASSUME NEW c \in RentalEligibilityContext
      PROVE  validate_rental_eligibility(c) = legacy_validate(c)
  <2> DEFINE V(i) == is_violated(ELIGIBILITY_RULES[i], c)
             violated == {i \in 1..7 : V(i)}
  <2>1. ASSUME NEW i \in 1..7, V(i), \A j \in 1..7 : j < i => ~V(j)
        PROVE  validate_rental_eligibility(c) = ELIGIBILITY_RULES[i]
    <3>1. i \in violated /\ \A j \in violated : i <= j
      <4> HIDE DEF V
      <4> QED  BY <2>1
    <3>2. (CHOOSE k \in violated : \A j \in violated : k <= j) = i
      <4> HIDE DEF V
      <4> QED  BY <3>1
    <3> QED  BY <3>1, <3>2 DEF validate_rental_eligibility
  <2>2. ASSUME \A i \in 1..7 : ~V(i)
        PROVE  validate_rental_eligibility(c) = "OK"
    BY <2>2 DEF validate_rental_eligibility
  <2>3. /\ V(1) <=> c.renter_is_blacklisted
        /\ V(2) <=> c.license_expired
        /\ V(3) <=> c.has_unpaid_fees /\ c.active_rental_count > 0
        /\ V(4) <=> c.has_unpaid_fees /\ deposit_missing(c)
        /\ V(5) <=> c.vehicle_status # "AVAILABLE"
        /\ V(6) <=> ~c.station_is_open
        /\ V(7) <=> deposit_missing(c)
    BY DEF is_violated, ELIGIBILITY_RULES
  <2> HIDE DEF V
  <2>4. ASSUME NEW i \in 1..7, V(i), \A j \in 1..7 : j < i => ~V(j)
        PROVE  legacy_validate(c) = ELIGIBILITY_RULES[i]
    <3>1. \A j \in 1..7 : j < i => ~V(j)  BY <2>4
    <3>2. CASE i = 1  BY <2>3, <2>4, <3>2 DEF legacy_validate, ELIGIBILITY_RULES
    <3>3. CASE i = 2  BY <2>3, <2>4, <3>1, <3>3 DEF legacy_validate, ELIGIBILITY_RULES
    <3>4. CASE i = 3  BY <2>3, <2>4, <3>1, <3>4 DEF legacy_validate, ELIGIBILITY_RULES
    <3>5. CASE i = 4  BY <2>3, <2>4, <3>1, <3>5 DEF legacy_validate, ELIGIBILITY_RULES
    <3>6. CASE i = 5  BY <2>3, <2>4, <3>1, <3>6 DEF legacy_validate, ELIGIBILITY_RULES
    <3>7. CASE i = 6  BY <2>3, <2>4, <3>1, <3>7 DEF legacy_validate, ELIGIBILITY_RULES
    <3>8. CASE i = 7  BY <2>3, <2>4, <3>1, <3>8 DEF legacy_validate, ELIGIBILITY_RULES
    <3> QED  BY <3>2, <3>3, <3>4, <3>5, <3>6, <3>7, <3>8
  <2>5. ASSUME \A i \in 1..7 : ~V(i)
        PROVE  legacy_validate(c) = "OK"
    BY <2>3, <2>5 DEF legacy_validate
  <2>6. \/ \A i \in 1..7 : ~V(i)
        \/ \E i \in 1..7 : V(i) /\ \A j \in 1..7 : j < i => ~V(j)
    OBVIOUS
  <2> QED  BY <2>1, <2>2, <2>4, <2>5, <2>6
<1>2. RulesInit => applicant = Nobody  BY DEF RulesInit
<1>3. (applicant = Nobody \/ applicant \in RentalEligibilityContext) /\ [RulesNext]_rulesVars
        => (applicant = Nobody \/ applicant \in RentalEligibilityContext)'
  BY DEF RulesNext, ask_discount, ask_eligibility, rulesVars
<1>4. applicant = Nobody \/ applicant \in RentalEligibilityContext => EligibilityIsLegacy
  BY <1>1 DEF EligibilityIsLegacy
<1> QED  BY <1>2, <1>3, <1>4, PTL DEF RulesSpec

\* The tables and the rule list decide every case as the branches they
\* replaced (calculate_discount, validate_rental_eligibility).
THEOREM DecisionsUnchanged == RulesSpec => []RulesAreLegacy
BY TablesEqualBranches, RulesEqualBranches, PTL DEF RulesAreLegacy

-----------------------------------------------------------------------------
(* Retries                                                                 *)

LEMMA FailuresInit == Init => FailuresCounted
BY PolicyAssumption DEF Init, FailuresCounted

LEMMA FailuresNext == FailuresCounted /\ [Next]_vars => FailuresCounted'
<1> SUFFICES ASSUME FailuresCounted, [Next]_vars PROVE FailuresCounted'
  OBVIOUS
<1> USE PolicyAssumption DEF FailuresCounted, Ends
<1>1. CASE Succeed  BY <1>1 DEF Succeed
<1>2. CASE RaisePermanent  BY <1>2 DEF RaisePermanent
<1>3. CASE FailTransient  BY <1>3 DEF FailTransient
<1>4. CASE Sleep  BY <1>4 DEF Sleep
<1>5. CASE UNCHANGED vars  BY <1>5 DEF vars
<1> QED  BY <1>1, <1>2, <1>3, <1>4, <1>5 DEF Next

\* For every policy, the call reports exhaustion exactly when all attempts it
\* allows have failed: none is skipped, and none is made too many
\* (call_with_retry).
THEOREM AllAttemptsAreMade == Spec => []ExhaustedMeansAllFailed
<1>1. FailuresCounted => ExhaustedMeansAllFailed
  BY PolicyAssumption DEF FailuresCounted, ExhaustedMeansAllFailed, Ends
<1> QED  BY <1>1, FailuresInit, FailuresNext, PTL DEF Spec

\* 2 ** n is what doubling n times makes, and a natural.
LEMMA TwoToDef ==
    /\ TwoTo = [n \in Nat |-> IF n = 0 THEN 1 ELSE 2 * TwoTo[n - 1]]
    /\ TwoTo \in [Nat -> Nat]
<1> DEFINE h == [n \in Nat |-> [x \in Nat |-> 2 * x]]
<1>1. h \in Steps(Nat)  BY DEF Steps
<1> HIDE DEF h
<1>2. PICK g \in [Nat -> Nat] : g[0] = 1 /\ \A n \in Nat : g[n + 1] = h[n][g[n]]
  <2>1. 1 \in Nat  OBVIOUS
  <2> QED  BY <1>1, <2>1, NatRecursion
<1>3. \A n \in Nat : g[n] = IF n = 0 THEN 1 ELSE 2 * g[n - 1]
  <2>1. \A n \in Nat : g[n + 1] = 2 * g[n]  BY <1>2 DEF h
  <2>2. ASSUME NEW n \in Nat, n # 0  PROVE g[n] = 2 * g[n - 1]
    <3>1. n - 1 \in Nat /\ (n - 1) + 1 = n  BY <2>2
    <3> QED  BY <2>1, <3>1
  <2> QED  BY <1>2, <2>2
<1>4. g = [n \in Nat |-> IF n = 0 THEN 1 ELSE 2 * g[n - 1]]  BY <1>2, <1>3
<1>5. TwoTo = [n \in Nat |-> IF n = 0 THEN 1 ELSE 2 * TwoTo[n - 1]]  BY <1>4 DEF TwoTo
<1>6. \A n \in Nat : TwoTo[n] \in Nat
  <2> DEFINE T == {n \in Nat : TwoTo[n] \in Nat}
  <2>1. 0 \in T  BY <1>5
  <2>2. ASSUME NEW n \in Nat, n \in T  PROVE n + 1 \in T
    <3>1. TwoTo[n + 1] = 2 * TwoTo[n]  BY <1>5
    <3> QED  BY <2>2, <3>1
  <2>3. \A n \in Nat : n \in T
    <3> HIDE DEF T
    <3> QED  BY <2>1, <2>2, SetInduction
  <2> QED  BY <2>3
<1> QED  BY <1>5, <1>6

LEMMA ExponentialType == \A k \in Nat \ {0} : Exponential(k) \in Nat
<1> SUFFICES ASSUME NEW k \in Nat \ {0} PROVE Exponential(k) \in Nat
  OBVIOUS
<1>1. TwoTo[k - 1] \in Nat  BY TwoToDef
<1>2. BaseDelay * TwoTo[k - 1] \in Nat  BY <1>1, PolicyAssumption
<1> QED  BY <1>2, PolicyAssumption DEF Exponential

\* The pauses so far grow by the longest the next attempt can bring.
LEMMA PausesDef ==
    /\ Pauses \in [Nat -> Nat] /\ Pauses[0] = 0
    /\ \A n \in Nat : Pauses[n + 1] = Pauses[n] + Exponential(n + 1)
<1> DEFINE h == [n \in Nat |-> [x \in Nat |-> x + Exponential(n + 1)]]
<1>1. h \in Steps(Nat)  BY ExponentialType DEF Steps
<1> HIDE DEF h
<1>2. PICK g \in [Nat -> Nat] : g[0] = 0 /\ \A n \in Nat : g[n + 1] = h[n][g[n]]  BY <1>1, NatRecursion
<1>3. \A n \in Nat : g[n] = IF n = 0 THEN 0 ELSE g[n - 1] + Exponential(n)
  <2>1. \A n \in Nat : g[n + 1] = g[n] + Exponential(n + 1)  BY <1>2 DEF h
  <2>2. ASSUME NEW n \in Nat, n # 0  PROVE g[n] = g[n - 1] + Exponential(n)
    <3>1. n - 1 \in Nat /\ (n - 1) + 1 = n  BY <2>2
    <3> QED  BY <2>1, <3>1
  <2> QED  BY <1>2, <2>2
<1>4. g = [n \in Nat |-> IF n = 0 THEN 0 ELSE g[n - 1] + Exponential(n)]  BY <1>2, <1>3
<1>5. Pauses = [n \in Nat |-> IF n = 0 THEN 0 ELSE Pauses[n - 1] + Exponential(n)]  BY <1>4 DEF Pauses
<1>6. Pauses[0] = 0  BY <1>5
<1>7. \A n \in Nat : Pauses[n + 1] = Pauses[n] + Exponential(n + 1)  BY <1>5
<1>8. \A n \in Nat : Pauses[n] \in Nat
  <2> DEFINE T == {n \in Nat : Pauses[n] \in Nat}
  <2>1. 0 \in T  BY <1>6
  <2>2. ASSUME NEW n \in Nat, n \in T  PROVE n + 1 \in T
    BY <1>7, <2>2, ExponentialType
  <2>3. \A n \in Nat : n \in T
    <3> HIDE DEF T
    <3> QED  BY <2>1, <2>2, SetInduction
  <2> QED  BY <2>3
<1>9. Pauses \in [Nat -> Nat]  BY <1>5, <1>8
<1> QED  BY <1>6, <1>7, <1>9

LEMMA PausesGrow == \A n, m \in Nat : n <= m => Pauses[n] <= Pauses[m]
<1> SUFFICES ASSUME NEW n \in Nat, NEW m \in Nat, n <= m PROVE Pauses[n] <= Pauses[m]
  OBVIOUS
<1> DEFINE T == {k \in Nat : Pauses[n] <= Pauses[n + k]}
<1>1. 0 \in T  BY PausesDef
<1>2. ASSUME NEW k \in Nat, k \in T  PROVE k + 1 \in T
  <2>1. Pauses[(n + k) + 1] = Pauses[n + k] + Exponential((n + k) + 1)  BY PausesDef
  <2>2. Exponential((n + k) + 1) \in Nat  BY ExponentialType
  <2>3. Pauses[n] \in Nat /\ Pauses[n + k] \in Nat /\ Pauses[(n + k) + 1] \in Nat  BY PausesDef
  <2>4. (n + k) + 1 = n + (k + 1) /\ Pauses[n] <= Pauses[n + k]  BY <1>2
  <2> QED  BY <2>1, <2>2, <2>3, <2>4
<1>3. \A k \in Nat : k \in T
  <2> HIDE DEF T
  <2> QED  BY <1>1, <1>2, SetInduction
<1>4. m - n \in Nat /\ n + (m - n) = m  OBVIOUS
<1>5. m - n \in T  BY <1>3, <1>4
<1> QED  BY <1>4, <1>5

\* How long the call has taken, step by step.
LEMMA ElapsedNext ==
    ASSUME FailuresCounted, ElapsedBounded, [Next]_vars
    PROVE  ElapsedBounded'
<1> USE PolicyAssumption
<1>0. /\ attempt \in Nat \ {0} /\ elapsed \in Nat /\ attempt - 1 \in Nat
      /\ Pauses[attempt - 1] \in Nat /\ Pauses[attempt] \in Nat
      /\ Pauses[attempt] = Pauses[attempt - 1] + Exponential(attempt) /\ Exponential(attempt) \in Nat
  <2>1. attempt \in Nat \ {0} /\ elapsed \in Nat  BY DEF FailuresCounted, ElapsedBounded
  <2>2. attempt - 1 \in Nat /\ (attempt - 1) + 1 = attempt  BY <2>1
  <2>3. Pauses[(attempt - 1) + 1] = Pauses[attempt - 1] + Exponential((attempt - 1) + 1)  BY <2>2, PausesDef
  <2>4. Pauses[attempt - 1] \in Nat /\ Pauses[attempt] \in Nat  BY <2>1, <2>2, PausesDef
  <2> QED  BY <2>1, <2>2, <2>3, <2>4, ExponentialType
<1>1. attempt * AttemptTimeout = (attempt - 1) * AttemptTimeout + AttemptTimeout
      /\ attempt * AttemptTimeout \in Nat /\ (attempt - 1) * AttemptTimeout \in Nat
  <2>1. attempt \in Nat \ {0} /\ AttemptTimeout \in Nat  BY <1>0
  <2> HIDE PolicyAssumption
  <2>2. attempt * AttemptTimeout = (attempt - 1) * AttemptTimeout + AttemptTimeout  BY <2>1, Z3
  <2>3. attempt * AttemptTimeout \in Nat /\ (attempt - 1) * AttemptTimeout \in Nat  BY <2>1, Z3
  <2> QED  BY <2>2, <2>3
<1> DEFINE t == attempt * AttemptTimeout
           b == (attempt - 1) * AttemptTimeout
<1>2. t = b + AttemptTimeout /\ t \in Nat /\ b \in Nat  BY <1>1
<1>3. elapsed <= (IF pc = "attempt" THEN b ELSE t) + Pauses[attempt - 1]
  BY DEF ElapsedBounded
<1>4. CASE Succeed \/ RaisePermanent \/ FailTransient
  <2>1. pc = "attempt" /\ pc' # "attempt" /\ attempt' = attempt
    BY <1>4 DEF Succeed, RaisePermanent, FailTransient
  <2>2. PICK d \in 0..AttemptTimeout : elapsed' = elapsed + d
    BY <1>4 DEF Succeed, RaisePermanent, FailTransient, Takes
  <2> HIDE DEF t, b
  <2>3. elapsed' \in Nat /\ elapsed' <= t + Pauses[attempt - 1]  BY <1>0, <1>2, <1>3, <2>1, <2>2
  <2> QED  BY <2>1, <2>3 DEF ElapsedBounded, t
<1>5. CASE Sleep
  <2>1. pc = "pause" /\ pc' = "attempt" /\ attempt' = attempt + 1  BY <1>5 DEF Sleep
  <2>2. PICK d \in BackoffDelay(attempt) : elapsed' = elapsed + d  BY <1>5 DEF Sleep
  <2>3. d \in Nat /\ d <= Exponential(attempt)  BY <1>0 DEF BackoffDelay
  <2> HIDE DEF t, b
  <2>4. elapsed' \in Nat /\ elapsed' <= t + Pauses[attempt]  BY <1>0, <1>2, <1>3, <2>1, <2>2, <2>3
  <2>5. attempt' - 1 = attempt  BY <1>0, <2>1
  <2> QED  BY <2>1, <2>4, <2>5 DEF ElapsedBounded, t
<1>6. CASE UNCHANGED vars  BY <1>6 DEF vars, ElapsedBounded
<1> QED  BY <1>4, <1>5, <1>6 DEF Next

\* For every policy the call ends within the time worst_case_seconds says, and
\* it gives up exactly when all attempts have failed (call_with_retry).
THEOREM PoliciesAreKept == Spec => []PolicyIsKept
<1>1. Init => ElapsedBounded
  <2>1. ASSUME Init  PROVE elapsed = 0 /\ attempt = 1 /\ pc = "attempt" /\ (attempt - 1) * AttemptTimeout = 0
    <3>1. attempt - 1 = 0 /\ 0 * AttemptTimeout = 0  BY <2>1, PolicyAssumption DEF Init
    <3> QED  BY <2>1, <3>1 DEF Init
  <2> QED  BY <2>1, PausesDef DEF ElapsedBounded
<1>2. FailuresCounted /\ ElapsedBounded /\ [Next]_vars => ElapsedBounded'  BY ElapsedNext
<1>3. FailuresCounted /\ ElapsedBounded => TypeOK /\ WithinWorstCase
  <2> SUFFICES ASSUME FailuresCounted, ElapsedBounded PROVE TypeOK /\ WithinWorstCase
    OBVIOUS
  <2>1. attempt \in 1..MaxAttempts /\ elapsed \in Nat /\ MaxAttempts \in Nat /\ AttemptTimeout \in Nat
    BY PolicyAssumption DEF FailuresCounted, ElapsedBounded
  <2>2. TypeOK  BY <2>1 DEF FailuresCounted, TypeOK, Ends
  <2> DEFINE n == IF pc = "attempt" THEN attempt - 1 ELSE attempt
  <2>3. n \in Int /\ n <= MaxAttempts  BY <2>1
  <2>4. n * AttemptTimeout <= MaxAttempts * AttemptTimeout  BY <2>1, <2>3, TimesMonotone
  <2>5. Pauses[attempt - 1] <= Pauses[MaxAttempts - 1]  BY <2>1, PausesGrow
  <2>6. elapsed <= n * AttemptTimeout + Pauses[attempt - 1]  BY DEF ElapsedBounded
  <2>7. /\ n * AttemptTimeout \in Int /\ MaxAttempts * AttemptTimeout \in Int
        /\ Pauses[attempt - 1] \in Nat /\ Pauses[MaxAttempts - 1] \in Nat
    <3>1. attempt - 1 \in Nat /\ MaxAttempts - 1 \in Nat  BY <2>1
    <3> QED  BY <2>1, <2>3, <3>1, PausesDef
  <2> DEFINE x == n * AttemptTimeout
             y == MaxAttempts * AttemptTimeout
  <2>8. x <= y /\ elapsed <= x + Pauses[attempt - 1] /\ x \in Int /\ y \in Int  BY <2>4, <2>6, <2>7
  <2> HIDE DEF x
  <2>9. elapsed <= y + Pauses[MaxAttempts - 1]
    <3> HIDE DEF y
    <3> QED  BY <2>1, <2>5, <2>7, <2>8
  <2>10. WithinWorstCase  BY <2>9 DEF WithinWorstCase, WorstCase
  <2> QED  BY <2>2, <2>10
<1>4. Spec => []FailuresCounted  BY FailuresInit, FailuresNext, PTL DEF Spec
<1> QED  BY <1>1, <1>2, <1>3, <1>4, AllAttemptsAreMade, PTL DEF Spec, PolicyIsKept

-----------------------------------------------------------------------------
(* The simulator                                                           *)

SimTypeOK ==
    /\ fleet \subseteq Cars /\ left \subseteq fleet
    /\ DOMAIN seen = Cars /\ DOMAIN status = Cars /\ DOMAIN list.status = Cars
    /\ parked \in [Cars -> Stops] /\ station \in [Cars -> Stops] /\ list.station \in [Cars -> Stops]
    /\ DOMAIN place = Cars /\ DOMAIN bank = Cars /\ DOMAIN target = Cars /\ DOMAIN reading = Cars

\* A vehicle that is known stands at a hub of its bank, and drives only to
\* another of that bank, when it is rented.
OnItsBank(v) ==
    /\ place[v] \in Hubs /\ bank[v] = BankOf[place[v]]
    /\ target[v] # NoHub => target[v] \in Hubs /\ BankOf[target[v]] = bank[v] /\ seen[v] = "rented"

\* Its reading is still to come in this tick, or would be had run() not ended.
Pending(v) == loop \in {"publish", "ended"} /\ v \in left

\* The last reading of a vehicle that is known: between two polls every vehicle
\* is published, so that no poll finds a reading that is older than the one
\* before it.
ShownParked(v) == reading[v].locked /\ reading[v].place # NoHub

ReadingOK(v) ==
    /\ ~Pending(v) => reading[v].place # NoHub /\ (reading[v].locked <=> seen[v] # "rented")
    /\ ShownParked(v) => place[v] = reading[v].place
    /\ Pending(v) /\ seen[v] # "rented" /\ ~ShownParked(v) => place[v] = HubOf[parked[v]]

SimInv ==
    /\ SimTypeOK
    /\ \A v \in fleet : OnItsBank(v) /\ ReadingOK(v)
    /\ \A v \in Cars \ fleet : reading[v] = NoReading
    /\ \A v \in Cars : reading[v].target # NoHub => BankOf[reading[v].target] = BankOf[reading[v].place]

LEMMA SimInvInit == SimulatorInit => SimInv
BY SimulatorAssumption DEF SimulatorInit, SimInv, SimTypeOK, NoReading

\* A poll parks what is new or was returned, and moves nothing else.
LEMMA SyncKeeps == SimInv /\ Sync => SimInv'
<1> SUFFICES ASSUME SimInv, Sync PROVE SimInv'
  OBVIOUS
<1> USE SimulatorAssumption
<1> DEFINE park == (Cars \ fleet) \cup {v \in fleet : seen[v] = "rented" /\ list.status[v] # "rented"}
<1>0. SimTypeOK  BY DEF SimInv
<1>1. /\ loop = "sync" /\ loop' = "publish" /\ left' = Cars /\ fleet' = Cars
      /\ seen' = list.status /\ parked' = list.station
      /\ park_at_station(park) /\ UNCHANGED <<status, station, reading, list>>
  BY DEF Sync, sync_fleet, apiVars
<1>2. SimTypeOK'  BY <1>0, <1>1 DEF SimTypeOK, park_at_station
<1>3. ASSUME NEW v \in Cars  PROVE OnItsBank(v)' /\ ReadingOK(v)'
  <2>1. CASE v \in park
    <3>1. place'[v] = HubOf[list.station[v]] /\ bank'[v] = BankOf[HubOf[list.station[v]]] /\ target'[v] = NoHub
      BY <1>1, <2>1 DEF park_at_station, station_hub
    <3>2. HubOf[list.station[v]] \in Hubs  BY <1>0 DEF SimTypeOK
    <3>3. ~ShownParked(v)
      <4>1. CASE v \notin fleet  BY <4>1 DEF SimInv, NoReading, ShownParked
      <4>2. CASE v \in fleet
        <5>1. ReadingOK(v) /\ seen[v] = "rented"  BY <2>1, <4>2 DEF SimInv
        <5> QED  BY <1>1, <5>1 DEF ReadingOK, Pending, ShownParked
      <4> QED  BY <4>1, <4>2
    <3>4. OnItsBank(v)'  BY <3>1, <3>2 DEF OnItsBank
    <3> QED  BY <1>1, <3>1, <3>3, <3>4 DEF ReadingOK, Pending, ShownParked
  <2>2. CASE v \notin park
    <3>1. v \in fleet /\ OnItsBank(v) /\ ReadingOK(v) /\ (seen[v] = "rented" => list.status[v] = "rented")
      BY <2>2 DEF SimInv
    <3>2. place'[v] = place[v] /\ bank'[v] = bank[v] /\ target'[v] = target[v]  BY <1>1, <2>2 DEF park_at_station
    <3>3. OnItsBank(v)'  BY <1>1, <3>1, <3>2 DEF OnItsBank
    <3>4. seen[v] # "rented" => ShownParked(v)  BY <1>1, <3>1 DEF ReadingOK, Pending, ShownParked
    <3> QED  BY <1>1, <3>1, <3>2, <3>3, <3>4 DEF ReadingOK, Pending, ShownParked
  <2> QED  BY <2>1, <2>2
<1> QED  BY <1>1, <1>2, <1>3 DEF SimInv

\* What a step of a vehicle does to it: it stays on its bank, and one that is
\* parked does not move.
LEMMA AdvanceKeepsBank ==
    ASSUME SimInv, NEW v \in fleet, Advance(v), bank' = bank, seen' = seen
    PROVE  /\ OnItsBank(v)' /\ DOMAIN place' = Cars /\ DOMAIN target' = Cars
           /\ \A w \in Cars \ {v} : place'[w] = place[w] /\ target'[w] = target[w]
           /\ seen[v] # "rented" => place'[v] = place[v] /\ target'[v] = NoHub
<1> USE SimulatorAssumption
<1>0. SimTypeOK /\ OnItsBank(v) /\ v \in Cars  BY DEF SimInv, SimTypeOK
<1>1. CASE seen[v] # "rented"
  <2>1. UNCHANGED <<place, target>>  BY <1>1 DEF Advance
  <2> QED  BY <1>0, <1>1, <2>1 DEF OnItsBank, SimTypeOK
<1>2. CASE seen[v] = "rented"
  <2>1. PICK h \in IF target[v] = NoHub THEN pick_target(v) ELSE {target[v]} :
            \/ target' = [target EXCEPT ![v] = h] /\ UNCHANGED place
            \/ target' = [target EXCEPT ![v] = NoHub] /\ place' = [place EXCEPT ![v] = h]
    BY <1>2 DEF Advance
  <2>2. h \in Hubs /\ BankOf[h] = bank[v]  BY <1>0 DEF pick_target, OnItsBank
  <2>3. OnItsBank(v)'  BY <1>0, <1>2, <2>1, <2>2 DEF OnItsBank, SimTypeOK
  <2> QED  BY <1>0, <1>2, <2>1, <2>3 DEF SimTypeOK
<1> QED  BY <1>1, <1>2

LEMMA PublishKeeps ==
    ASSUME SimInv, NEW v \in Cars, Publish(v)
    PROVE  /\ SimInv'
           /\ \A w \in Cars \ {v} : reading'[w] = reading[w]
           /\ reading'[v].locked =>
                /\ reading'[v].target = NoHub
                /\ reading'[v].place = IF ShownParked(v) THEN reading[v].place ELSE HubOf[parked[v]]
<1> USE SimulatorAssumption
<1>0. SimTypeOK  BY DEF SimInv
<1>1. /\ loop = "publish" /\ loop' = "publish" /\ v \in left /\ Advance(v) /\ left' = left \ {v}
      /\ UNCHANGED <<status, station, fleet, seen, parked, bank, list>>
      /\ reading' = [reading EXCEPT ![v] = to_message(v)']
  BY DEF Publish, apiVars
<1>2. v \in fleet /\ ReadingOK(v) /\ Pending(v)  BY <1>0, <1>1 DEF SimTypeOK, SimInv, Pending
<1>3. /\ OnItsBank(v)' /\ DOMAIN place' = Cars /\ DOMAIN target' = Cars
      /\ \A w \in Cars \ {v} : place'[w] = place[w] /\ target'[w] = target[w]
      /\ seen[v] # "rented" => place'[v] = place[v] /\ target'[v] = NoHub
  BY <1>1, <1>2, AdvanceKeepsBank
<1>4. /\ reading'[v].place = place'[v] /\ reading'[v].target = target'[v]
      /\ reading'[v].locked = (seen[v] # "rented")
  BY <1>0, <1>1 DEF to_message, SimTypeOK
<1>5. \A w \in Cars \ {v} : reading'[w] = reading[w]  BY <1>0, <1>1 DEF SimTypeOK
<1>6. SimTypeOK'  BY <1>0, <1>1, <1>3 DEF SimTypeOK
<1>7. place'[v] # NoHub  BY <1>3 DEF OnItsBank
<1>8. ReadingOK(v)'  BY <1>1, <1>4, <1>7 DEF ReadingOK, Pending, ShownParked
<1>9. ASSUME NEW w \in fleet' \ {v}  PROVE OnItsBank(w)' /\ ReadingOK(w)'
  <2>1. w \in Cars /\ OnItsBank(w) /\ ReadingOK(w)  BY <1>0, <1>1 DEF SimInv, SimTypeOK
  <2>2. place'[w] = place[w] /\ target'[w] = target[w] /\ reading'[w] = reading[w]  BY <1>3, <1>5, <2>1
  <2>3. OnItsBank(w)'  BY <1>1, <2>1, <2>2 DEF OnItsBank
  <2>4. Pending(w)' <=> Pending(w)  BY <1>1 DEF Pending
  <2>5. ShownParked(w)' <=> ShownParked(w)  BY <2>2 DEF ShownParked
  <2> QED  BY <1>1, <2>1, <2>2, <2>3, <2>4, <2>5 DEF ReadingOK
<1>10. \A w \in Cars \ fleet' : reading'[w] = NoReading  BY <1>1, <1>2, <1>5 DEF SimInv
<1>11. \A w \in Cars : reading'[w].target # NoHub => BankOf[reading'[w].target] = BankOf[reading'[w].place]
  BY <1>1, <1>3, <1>4, <1>5 DEF SimInv, OnItsBank
<1>12. SimInv'  BY <1>1, <1>3, <1>6, <1>8, <1>9, <1>10, <1>11 DEF SimInv
<1>13. reading'[v].locked =>
         /\ reading'[v].target = NoHub
         /\ reading'[v].place = IF ShownParked(v) THEN reading[v].place ELSE HubOf[parked[v]]
  BY <1>2, <1>3, <1>4 DEF ReadingOK
<1> QED  BY <1>5, <1>12, <1>13

\* The rest of the loop, and the API, move no vehicle.  A new tick makes every
\* vehicle that is known publish, and none is left when it ends.
LEMMA LoopKeeps ==
    ASSUME SimInv, Tick \/ Fetch \/ RunFails \/ EndTick \/ (\E v \in Cars : Trip(v)) \/ UNCHANGED simVars
    PROVE  SimInv' /\ reading' = reading
<1>0. SimTypeOK  BY DEF SimInv
<1>1. UNCHANGED <<fleet, seen, parked, place, bank, target, reading>>
  BY DEF Tick, Fetch, RunFails, EndTick, Trip, carVars, simVars
<1>2. left' \in {left, fleet}  BY DEF Tick, Fetch, RunFails, EndTick, Trip, simVars
<1>3. /\ DOMAIN status' = Cars /\ station' \in [Cars -> Stops]
      /\ DOMAIN list'.status = Cars /\ list'.station \in [Cars -> Stops]
  <2>1. CASE \E v \in Cars : Trip(v)  BY <1>0, <2>1 DEF Trip, SimTypeOK
  <2>2. CASE Fetch
    <3>1. UNCHANGED <<status, station>> /\ (list' = list \/ list' = [status |-> status, station |-> station])
      BY <2>2 DEF Fetch, apiVars
    <3> QED  BY <1>0, <3>1 DEF SimTypeOK
  <2>3. CASE Tick \/ RunFails \/ EndTick \/ UNCHANGED simVars
    <3>1. UNCHANGED <<status, station, list>>  BY <2>3 DEF Tick, RunFails, EndTick, simVars, apiVars
    <3> QED  BY <1>0, <3>1 DEF SimTypeOK
  <2> QED  BY <2>1, <2>2, <2>3
<1>4. SimTypeOK'  BY <1>0, <1>1, <1>2, <1>3 DEF SimTypeOK
<1>5. ASSUME NEW v \in fleet  PROVE ReadingOK(v)' /\ OnItsBank(v)'
  <2>1. ReadingOK(v) /\ OnItsBank(v)  BY DEF SimInv
  <2>2. OnItsBank(v)' /\ (ShownParked(v)' <=> ShownParked(v))  BY <1>1, <2>1 DEF OnItsBank, ShownParked
  <2>3. Pending(v) => Pending(v)'
    BY <1>1, <1>2 DEF Pending, Tick, Fetch, RunFails, EndTick, Trip, simVars
  <2> QED  BY <1>1, <2>1, <2>2, <2>3 DEF ReadingOK, ShownParked
<1> QED  BY <1>1, <1>4, <1>5 DEF SimInv

LEMMA SimInvNext == SimInv /\ [SimulatorNext]_simVars => SimInv'
BY SyncKeeps, PublishKeeps, LoopKeeps DEF SimulatorNext, RunStep

LEMMA SimInvariant == SimulatorSpec => []SimInv
BY SimInvInit, SimInvNext, PTL DEF SimulatorSpec

\* No vehicle drives, and no reading shows one driving, across the river, for
\* any map of hubs and stations and however rentals, polls and ticks
\* interleave (sync_fleet, pick_target).
THEOREM RidesStayOnTheirBank == SimulatorSpec => []NeverCrossesTheRiver
<1>1. SimInv => NeverCrossesTheRiver
  BY DEF SimInv, OnItsBank, NeverCrossesTheRiver
<1> QED  BY <1>1, SimInvariant, PTL

\* A vehicle that is shown locked stands still, at the station the last poll
\* gave or where it was shown locked before (advance, park_at_station).
THEOREM ParkedStaysPut == SimulatorSpec => LockedStaysPut
<1>1. SimInv /\ [SimulatorNext]_simVars =>
        [\A v \in Cars : reading'[v] # reading[v] /\ reading'[v].locked =>
            reading'[v].target = NoHub /\ reading'[v].place \in ParkingPlaces(v)]_simVars
  <2> SUFFICES ASSUME SimInv, SimulatorNext, NEW v \in Cars, reading'[v] # reading[v], reading'[v].locked
               PROVE  reading'[v].target = NoHub /\ reading'[v].place \in ParkingPlaces(v)
    OBVIOUS
  <2>1. ASSUME Sync  PROVE reading' = reading  BY <2>1 DEF Sync
  <2>2. ASSUME Tick \/ Fetch \/ RunFails \/ EndTick \/ (\E w \in Cars : Trip(w))
        PROVE  reading' = reading
    BY <2>2, LoopKeeps
  <2>3. PICK w \in Cars : Publish(w)  BY <2>1, <2>2 DEF SimulatorNext, RunStep
  <2>4. v = w  BY <2>3, PublishKeeps
  <2>5. /\ reading'[v].target = NoHub
        /\ reading'[v].place = IF ShownParked(v) THEN reading[v].place ELSE HubOf[parked[v]]
    BY <2>3, <2>4, PublishKeeps
  <2> QED  BY <2>5 DEF ShownParked, ParkingPlaces
<1> QED  BY <1>1, SimInvariant, PTL DEF SimulatorSpec, LockedStaysPut

-----------------------------------------------------------------------------
(* The demo data                                                           *)

(***************************************************************************)
(* The inductive invariant.  Within a run, everything before the call the  *)
(* script is at is there, and the list it read says what it has not        *)
(* changed since; of the rentals that no trip under way accounts for, one  *)
(* belongs to each account that keeps one, and an interruption explains    *)
(* every other.                                                            *)
(***************************************************************************)
RidesOK ==
    /\ IsFiniteSet(rides)
    /\ \A r \in rides : /\ r = [id |-> r.id, renter |-> r.renter, car |-> r.car, status |-> r.status]
                         /\ r.id \in 1..Cardinality(rides) /\ r.status \in {"active", "completed"}
    /\ \A r, s \in rides : r.id = s.id => r = s

SeedTypeOK ==
    /\ sites \subseteq Sites /\ cars \subseteq Plates
    /\ account \in [Accounts -> {"none", "user", "renter"}]
    /\ step \in {"idle", "stations", "vehicles", "register", "profile", "rentals", "trip", "return", "keep", "next"}
    /\ who \in Accounts /\ stops \in 0..MaxStops /\ finished \in BOOLEAN
    /\ RidesOK

UnderWay(r) == step = "return" /\ r.id = Cardinality(rides)
Settled     == {r \in rides : r.status = "active" /\ ~UnderWay(r)}
Excess      == {r \in Settled : r.renter \in KeepActive => \E s \in Settled : s.renter = r.renter /\ s.id < r.id}
Provided(a) == /\ account[a] = "renter" /\ Rides(a, "completed") # {}
               /\ a \in KeepActive => Rides(a, "active") # {}

RunOK ==
    /\ step \in {"idle", "stations", "vehicles"} => who = 1
    /\ step = "stations" => todo = Sites \ sites
    /\ step = "vehicles" => todo = Plates \ cars
    /\ step \notin {"idle", "stations"} => sites = Sites
    /\ step \notin {"idle", "stations", "vehicles"} => cars = Plates
    /\ \A a \in Accounts : a < who => Provided(a)
    /\ step \in {"rentals", "trip", "return", "keep", "next"} => account[who] = "renter"
    /\ step = "trip" => mine = {r \in rides : r.renter = who}
    /\ step = "return" => /\ mine = {r \in rides : r.renter = who /\ ~UnderWay(r)}
                          /\ \E r \in rides : UnderWay(r) /\ r.renter = who /\ r.status = "active"
    /\ step = "keep" => /\ Rides(who, "completed") # {}
                        /\ \A r \in mine : r \in rides /\ r.renter = who
                        /\ Rides(who, "active") \subseteq mine
    /\ step = "next" => Provided(who)

SeedInv ==
    /\ SeedTypeOK /\ RunOK
    /\ Cardinality(Excess) <= stops
    /\ finished => step # "return" /\ sites = Sites /\ cars = Plates /\ \A a \in Accounts : Provided(a)

LEMMA SeedInvInit == SeedInit => SeedInv
<1> SUFFICES ASSUME SeedInit PROVE SeedInv
  OBVIOUS
<1> USE DEF SeedInit
<1>1. 1 \in Accounts /\ \A a \in Accounts : ~(a < 1)
  <2>1. Cardinality(Accounts) \in Nat /\ Cardinality(Accounts) # 0
    BY SeedAssumption, FS_CardinalityType, FS_EmptySet
  <2> QED  BY <2>1, SeedAssumption
<1>2. RidesOK  BY FS_EmptySet DEF RidesOK
<1>3. SeedTypeOK
  <2>1. stops \in 0..MaxStops  BY SeedAssumption
  <2>2. account \in [Accounts -> {"none", "user", "renter"}] /\ finished \in BOOLEAN  OBVIOUS
  <2>3. who \in Accounts /\ step = "idle" /\ sites = {} /\ cars = {}  BY <1>1
  <2> QED  BY <1>2, <2>1, <2>2, <2>3 DEF SeedTypeOK
<1>4. RunOK
  <2>1. step = "idle" /\ who = 1  OBVIOUS
  <2> QED  BY <1>1, <2>1 DEF RunOK
<1>5. Cardinality(Excess) <= stops
  <2>1. Excess = {}  BY DEF Excess, Settled
  <2> QED  BY <2>1, FS_EmptySet
<1> QED  BY <1>3, <1>4, <1>5 DEF SeedInv

\* The script takes the first of what it lists.
LEMMA MinIsIn ==
    ASSUME NEW S \in SUBSET Nat, S # {}
    PROVE  Min(S) \in S
BY LeastNatural DEF Min

LEMMA RideCount ==
    ASSUME RidesOK
    PROVE  /\ Cardinality(rides) \in Nat /\ IsFiniteSet(Settled) /\ IsFiniteSet(Excess)
           /\ Cardinality(Settled) \in Nat /\ Cardinality(Excess) \in Nat /\ Excess \in SUBSET Settled
           /\ \A r \in rides : r.id \in Nat
<1>1. IsFiniteSet(rides) /\ Cardinality(rides) \in Nat  BY FS_CardinalityType DEF RidesOK
<1>2. Settled \in SUBSET rides /\ Excess \in SUBSET Settled  BY DEF Settled, Excess
<1>3. IsFiniteSet(Settled)  BY <1>1, <1>2, FS_Subset
<1>4. IsFiniteSet(Excess)  BY <1>2, <1>3, FS_Subset
<1>5. Cardinality(Settled) \in Nat /\ Cardinality(Excess) \in Nat  BY <1>3, <1>4, FS_CardinalityType
<1>6. \A r \in rides : r.id \in Nat  BY <1>1 DEF RidesOK
<1> QED  BY <1>1, <1>2, <1>3, <1>4, <1>5, <1>6

\* One rental of each account that keeps one, and the excess: so many settled
\* rentals there are at most.
LEMMA SettledBound ==
    ASSUME RidesOK
    PROVE  Cardinality(Settled) <= Cardinality(Excess) + Cardinality(KeepActive)
<1> DEFINE Kept == Settled \ Excess
           f    == [r \in Kept |-> r.renter]
<1>1. IsFiniteSet(KeepActive) /\ Cardinality(KeepActive) \in Nat
  <2>1. IsFiniteSet(KeepActive)  BY SeedAssumption, FS_Subset
  <2> QED  BY <2>1, FS_CardinalityType
<1>2. \A r \in Kept : r \in rides /\ r.id \in Nat /\ r.renter \in KeepActive
                      /\ \A s \in Settled : s.renter = r.renter => ~(s.id < r.id)
  BY RideCount DEF Excess, Settled
<1>3. ASSUME NEW r \in Kept, NEW s \in Kept, r.renter = s.renter  PROVE r = s
  <2>1. ~(r.id < s.id) /\ ~(s.id < r.id) /\ r.id \in Nat /\ s.id \in Nat  BY <1>2, <1>3
  <2>2. r.id = s.id  BY <2>1
  <2> QED  BY <1>2, <2>2 DEF RidesOK
<1>4. f \in Injection(Kept, KeepActive)
  <2>1. f \in [Kept -> KeepActive]  BY <1>2
  <2>2. ASSUME NEW r \in Kept, NEW s \in Kept, f[r] = f[s]  PROVE r = s
    <3> HIDE DEF Kept
    <3>1. r.renter = s.renter  BY <2>2
    <3> QED  BY <1>3, <3>1
  <2> HIDE DEF f, Kept
  <2> QED  BY <2>1, <2>2 DEF Injection, IsInjective
<1>5. Cardinality(Kept) <= Cardinality(KeepActive)
  <2> HIDE DEF f, Kept
  <2> QED  BY ONLY <1>1, <1>4, FS_Injection, Zenon
<1>6. Settled \cap Excess = Excess  BY DEF Excess
<1>7. Cardinality(Kept) = Cardinality(Settled) - Cardinality(Excess)  BY <1>6, RideCount, FS_Difference
<1>8. IsFiniteSet(Kept) /\ Cardinality(Kept) \in Nat
  <2>1. IsFiniteSet(Kept)  BY RideCount, FS_Difference
  <2> QED  BY <2>1, FS_CardinalityType
<1> HIDE DEF Kept
<1> QED  BY <1>1, <1>5, <1>6, <1>7, <1>8, RideCount

\* Interrupted runs leave a vehicle for whoever needs one (available_vehicle).
LEMMA VehicleLeft ==
    ASSUME SeedInv, step \in {"trip", "keep"}
    PROVE  Available # {}
<1>0. SeedTypeOK /\ RidesOK /\ cars = Plates /\ stops \in Nat /\ stops <= MaxStops
      /\ Cardinality(Excess) <= stops
  BY SeedAssumption DEF SeedInv, SeedTypeOK, RunOK
<1> DEFINE f == [r \in Settled |-> r.car]
<1>1. Rented = {r.car : r \in Settled}  BY DEF Rented, Settled, UnderWay
<1>2. f \in Surjection(Settled, Rented)
  <2>1. f \in [Settled -> Rented]  BY <1>1
  <2>2. \A c \in Rented : \E r \in Settled : f[r] = c  BY <1>1
  <2> HIDE DEF f
  <2> QED  BY <2>1, <2>2 DEF Surjection
<1>3. IsFiniteSet(Rented) /\ Cardinality(Rented) <= Cardinality(Settled)
  <2> HIDE DEF f
  <2> QED  BY <1>0, <1>2, RideCount, FS_Surjection
<1>4. IsFiniteSet(KeepActive) /\ Cardinality(KeepActive) \in Nat /\ Cardinality(Plates) \in Nat /\ Cardinality(Rented) \in Nat
  <2>1. IsFiniteSet(KeepActive)  BY SeedAssumption, FS_Subset
  <2> QED  BY <1>3, <2>1, SeedAssumption, FS_CardinalityType
<1>5. Cardinality(Settled) <= Cardinality(Excess) + Cardinality(KeepActive)  BY <1>0, SettledBound
<1>6. Cardinality(Settled) \in Nat /\ Cardinality(Excess) \in Nat  BY <1>0, RideCount
<1>7. MaxStops \in Nat /\ Cardinality(Plates) > MaxStops + Cardinality(KeepActive)  BY SeedAssumption
<1>8. Cardinality(Rented) < Cardinality(Plates)  BY <1>0, <1>3, <1>4, <1>5, <1>6, <1>7
<1>9. ASSUME Available = {}  PROVE FALSE
  <2>1. Plates \in SUBSET Rented  BY <1>0, <1>9 DEF Available
  <2>2. Cardinality(Plates) <= Cardinality(Rented)  BY <1>3, <2>1, FS_Subset
  <2> QED  BY <1>4, <1>8, <2>2
<1> QED  BY <1>9

\* The rental that is started: the newest, and its renter's.
Started(ride, next) ==
    /\ rides' = rides \cup {ride} /\ ride \notin rides /\ ride.id = Cardinality(rides) + 1
    /\ ride.renter = who /\ ride.status = "active"
    /\ Cardinality(rides') = Cardinality(rides) + 1 /\ RidesOK' /\ step' = next
    /\ \A r \in rides : r.id < ride.id

LEMMA RideStarts ==
    ASSUME SeedInv, step \in {"trip", "keep"}, NEW next, StartRide(next)
    PROVE  \E ride : Started(ride, next)
<1> DEFINE n    == Cardinality(rides)
           ride == [id |-> n + 1, renter |-> who, car |-> Min(Available), status |-> "active"]
<1>0. RidesOK /\ IsFiniteSet(rides) /\ n \in Nat /\ \A r \in rides : r.id \in 1..n
  BY RideCount DEF SeedInv, SeedTypeOK, RidesOK
<1>1. rides' = rides \cup {ride} /\ step' = next  BY VehicleLeft DEF StartRide
<1>2. ride.id = n + 1 /\ ride.renter = who /\ ride.status = "active" /\ ride.car = Min(Available)  OBVIOUS
<1>3. \A r \in rides : r.id < ride.id  BY <1>0, <1>2
<1>4. ride \notin rides  BY <1>0, <1>2, <1>3
<1>5. ride = [id |-> ride.id, renter |-> ride.renter, car |-> ride.car, status |-> ride.status]  OBVIOUS
<1> HIDE DEF ride
<1>6. IsFiniteSet(rides') /\ Cardinality(rides') = n + 1  BY <1>0, <1>1, <1>4, FS_AddElement
<1>7. RidesOK'
  <2>1. \A r \in rides' : /\ r = [id |-> r.id, renter |-> r.renter, car |-> r.car, status |-> r.status]
                          /\ r.status \in {"active", "completed"}
    BY <1>0, <1>1, <1>2, <1>5 DEF RidesOK
  <2>2. \A r \in rides' : r.id \in 1..(n + 1)  BY <1>0, <1>1, <1>2
  <2>3. \A r, s \in rides' : r.id = s.id => r = s
    <3>1. \A r, s \in rides : r.id = s.id => r = s  BY <1>0 DEF RidesOK
    <3>2. \A r \in rides : r.id # ride.id  BY <1>0, <1>2
    <3> QED  BY <1>1, <3>1, <3>2
  <2> QED  BY <1>6, <2>1, <2>2, <2>3 DEF RidesOK
<1> QED  BY <1>1, <1>2, <1>3, <1>4, <1>6, <1>7 DEF Started

\* The trip that is returned: its rental t is completed, the others stay.
Returned(t, c) ==
    /\ t \in rides /\ t.renter = who /\ t.status = "active" /\ t.id = Cardinality(rides)
    /\ rides' = (rides \ {t}) \cup {c} /\ c \notin rides
    /\ c.id = t.id /\ c.renter = who /\ c.status = "completed"
    /\ Cardinality(rides') = Cardinality(rides) /\ RidesOK'
    /\ \A r \in rides : r.id = Cardinality(rides) => r = t

LEMMA TripReturned ==
    ASSUME SeedInv, ReturnTrip
    PROVE  \E t, c : Returned(t, c)
<1> DEFINE n == Cardinality(rides)
<1>0. /\ RidesOK /\ IsFiniteSet(rides) /\ n \in Nat /\ \A r, s \in rides : r.id = s.id => r = s
      /\ \A r \in rides : r.id \in 1..n /\ r.status \in {"active", "completed"}
                          /\ r = [id |-> r.id, renter |-> r.renter, car |-> r.car, status |-> r.status]
  BY RideCount DEF SeedInv, SeedTypeOK, RidesOK
<1>1. PICK t \in rides : t.id = n /\ t.renter = who /\ t.status = "active"
  BY DEF SeedInv, RunOK, ReturnTrip, UnderWay
<1> DEFINE c == [id |-> t.id, renter |-> t.renter, car |-> t.car, status |-> "completed"]
<1>2. \A r \in rides : r.id = n => r = t  BY <1>0, <1>1
<1>3. c.id = n /\ c.renter = who /\ c.status = "completed" /\ c.car = t.car  BY <1>1
<1>4. c = [id |-> c.id, renter |-> c.renter, car |-> c.car, status |-> c.status]  OBVIOUS
<1>5. [t EXCEPT !.status = "completed"] = c
  <2>1. t = [id |-> t.id, renter |-> t.renter, car |-> t.car, status |-> t.status]  BY <1>0
  <2> QED  BY <2>1
<1>6. c # t  BY <1>1, <1>3
<1>7. c \notin rides  BY <1>2, <1>3, <1>6
<1>8. rides' = (rides \ {t}) \cup {c}
  <2>1. rides' = {IF r.id = n THEN [r EXCEPT !.status = "completed"] ELSE r : r \in rides}  BY DEF ReturnTrip
  <2>2. \A r \in rides : (IF r.id = n THEN [r EXCEPT !.status = "completed"] ELSE r) = IF r = t THEN c ELSE r
    BY <1>1, <1>2, <1>5
  <2> HIDE DEF c, n
  <2>3. rides' = {IF r = t THEN c ELSE r : r \in rides}  BY <2>1, <2>2
  <2> QED  BY <1>1, <2>3
<1> HIDE DEF c
<1>9. IsFiniteSet(rides') /\ Cardinality(rides') = n
  <2>1. IsFiniteSet(rides \ {t}) /\ Cardinality(rides \ {t}) = n - 1  BY <1>0, <1>1, FS_RemoveElement
  <2>2. c \notin rides \ {t}  BY <1>7
  <2>3. IsFiniteSet((rides \ {t}) \cup {c}) /\ Cardinality((rides \ {t}) \cup {c}) = (n - 1) + 1
    BY <2>1, <2>2, FS_AddElement
  <2> QED  BY <1>0, <1>8, <2>3
<1>10. RidesOK'
  <2>1. \A r \in rides' : /\ r = [id |-> r.id, renter |-> r.renter, car |-> r.car, status |-> r.status]
                          /\ r.status \in {"active", "completed"}
    BY <1>0, <1>3, <1>4, <1>8
  <2>2. \A r \in rides' : r.id \in 1..n  BY <1>0, <1>1, <1>3, <1>8
  <2>3. \A r, s \in rides' : r.id = s.id => r = s  BY <1>0, <1>2, <1>3, <1>8
  <2> QED  BY <1>9, <2>1, <2>2, <2>3 DEF RidesOK
<1> QED  BY <1>1, <1>2, <1>3, <1>7, <1>8, <1>9, <1>10 DEF Returned

\* What is provided stays so while rentals are only added and no account loses
\* its profile.
LEMMA ProvidedStays ==
    ASSUME NEW a \in Accounts, Provided(a), rides \subseteq rides', account[a] = "renter" => account'[a] = "renter"
    PROVE  Provided(a)'
<1>1. Rides(a, "completed") \subseteq Rides(a, "completed")' /\ Rides(a, "active") \subseteq Rides(a, "active")'
  BY DEF Rides
<1> QED  BY <1>1 DEF Provided

\* Steps that touch no rental and neither begin nor end a trip.
LEMMA QuietStep ==
    ASSUME SeedInv, rides' = rides, step # "return", step' # "return",
           stops' \in Nat, stops <= stops',
           \A a \in Accounts : account[a] = "renter" => account'[a] = "renter",
           SeedTypeOK', RunOK',
           finished' => sites' = Sites /\ cars' = Plates /\ \A a \in Accounts : Provided(a)'
    PROVE  SeedInv'
<1>1. Excess' = Excess  BY DEF Excess, Settled, UnderWay
<1>2. Cardinality(Excess) \in Nat /\ stops \in Nat /\ Cardinality(Excess) <= stops
  BY SeedAssumption, RideCount DEF SeedInv, SeedTypeOK
<1>3. Cardinality(Excess') <= stops'  BY <1>1, <1>2
<1> QED  BY <1>3 DEF SeedInv

\* Once a run has come to its end, a call finds nothing left to do.
LEMMA FinishedIsFixed ==
    ASSUME SeedInv, SeedNext, finished
    PROVE  UNCHANGED demoVars
<1>0. /\ SeedTypeOK /\ RunOK /\ step # "return" /\ sites = Sites /\ cars = Plates
      /\ who \in Accounts /\ \A a \in Accounts : Provided(a)
  BY DEF SeedInv, SeedTypeOK
<1>1. CASE BeginSeed \/ my_rentals \/ NextRenter \/ StopSeed  BY <1>1 DEF BeginSeed, my_rentals, NextRenter, StopSeed
<1>2. CASE ensure_stations
  <2>1. todo = {}  BY <1>0, <1>2 DEF RunOK, ensure_stations
  <2> QED  BY <1>2, <2>1 DEF ensure_stations, demoVars
<1>3. CASE ensure_vehicles
  <2>1. todo = {}  BY <1>0, <1>3 DEF RunOK, ensure_vehicles
  <2> QED  BY <1>3, <2>1 DEF ensure_vehicles, demoVars
<1>4. CASE Register \/ AddProfile
  <2>1. account[who] = "renter"  BY <1>0 DEF Provided
  <2>2. account' = account  BY <1>0, <1>4, <2>1 DEF Register, AddProfile, my_renter_profile, SeedTypeOK
  <2> QED  BY <1>4, <2>2 DEF Register, AddProfile, demoVars
<1>5. CASE TakeTrip
  <2>1. mine = {r \in rides : r.renter = who}  BY <1>0, <1>5 DEF RunOK, TakeTrip
  <2>2. Rides(who, "completed") # {}  BY <1>0 DEF Provided
  <2>3. Has("completed")  BY <2>1, <2>2 DEF Rides, Has
  <2> QED  BY <1>5, <2>3 DEF TakeTrip, demoVars
<1>6. CASE KeepRide
  <2>1. who \in KeepActive => Has("active")
    <3>1. Rides(who, "active") \subseteq mine  BY <1>0, <1>6 DEF RunOK, KeepRide
    <3>2. who \in KeepActive => Rides(who, "active") # {}  BY <1>0 DEF Provided
    <3> QED  BY <3>1, <3>2 DEF Rides, Has
  <2> QED  BY <1>6, <2>1 DEF KeepRide, demoVars
<1>7. CASE ReturnTrip  BY <1>0, <1>7 DEF ReturnTrip
<1> QED  BY <1>1, <1>2, <1>3, <1>4, <1>5, <1>6, <1>7 DEF SeedNext

\* A trip begins, or the one that is kept: the excess stays as it was.
LEMMA TakeTripKeeps == ASSUME SeedInv, TakeTrip PROVE SeedInv'
<1>0. /\ SeedTypeOK /\ RunOK /\ step = "trip" /\ RidesOK /\ who \in Accounts
      /\ UNCHANGED <<sites, cars, account, todo, who, mine, seedings, stops, finished>>
  BY DEF SeedInv, SeedTypeOK, TakeTrip
<1>1. CASE Has("completed") /\ step' = "keep" /\ rides' = rides
  <2>1. mine = {r \in rides : r.renter = who}  BY <1>0 DEF RunOK
  <2>2. Rides(who, "completed") # {}  BY <1>1, <2>1 DEF Rides, Has
  <2>3. SeedTypeOK'  BY <1>0, <1>1 DEF SeedTypeOK, RidesOK
  <2>4. \A a \in Accounts : Provided(a) => Provided(a)'  BY <1>0, <1>1, ProvidedStays
  <2>5. Rides(who, "completed")' = Rides(who, "completed") /\ Rides(who, "active")' = {r \in rides : r.renter = who /\ r.status = "active"}
    BY <1>0, <1>1 DEF Rides
  <2>6. RunOK'
    <3>1. \A a \in Accounts : a < who' => Provided(a)'  BY <1>0, <2>4 DEF RunOK
    <3>2. /\ Rides(who, "completed")' # {}
          /\ \A r \in mine' : r \in rides' /\ r.renter = who'
          /\ Rides(who, "active")' \subseteq mine'
      BY <1>0, <1>1, <2>1, <2>2, <2>5
    <3> QED  BY <1>0, <1>1, <3>1, <3>2 DEF RunOK
  <2>7. finished' => sites' = Sites /\ cars' = Plates /\ \A a \in Accounts : Provided(a)'
    BY <1>0, <2>4 DEF SeedInv
  <2>8. stops' \in Nat /\ stops <= stops'  BY <1>0, SeedAssumption DEF SeedTypeOK
  <2> QED  BY <1>0, <1>1, <2>3, <2>6, <2>7, <2>8, QuietStep
<1>2. CASE ~Has("completed") /\ StartRide("return")
  <2>1. PICK ride : Started(ride, "return")  BY <1>0, <1>2, RideStarts
  <2>2. /\ rides' = rides \cup {ride} /\ ride \notin rides /\ ride.renter = who /\ ride.status = "active"
        /\ ride.id = Cardinality(rides') /\ RidesOK' /\ step' = "return"
        /\ \A r \in rides : r.id # Cardinality(rides')
    <3>1. Cardinality(rides) \in Nat /\ \A r \in rides : r.id \in Nat  BY <1>0, RideCount
    <3>2. Cardinality(rides') = ride.id /\ ride.id \in Nat /\ \A r \in rides : r.id < ride.id
      BY <2>1, <3>1 DEF Started
    <3>3. \A r \in rides : r.id # ride.id  BY <3>1, <3>2
    <3> QED  BY <2>1, <3>2, <3>3 DEF Started
  <2>3. UnderWay(ride)' /\ \A r \in rides : ~UnderWay(r)'  BY <2>2 DEF UnderWay
  <2>4. mine = {r \in rides : r.renter = who}  BY <1>0 DEF RunOK
  <2>5. ~finished  BY <1>2, <2>2, FinishedIsFixed DEF SeedNext, demoVars
  <2>6. SeedTypeOK'  BY <1>0, <2>2 DEF SeedTypeOK
  <2>7. \A a \in Accounts : Provided(a) => Provided(a)'
    <3>1. rides \subseteq rides'  BY <2>2
    <3> QED  BY <1>0, <3>1, ProvidedStays
  <2>8. RunOK'
    <3>1. \A a \in Accounts : a < who' => Provided(a)'  BY <1>0, <2>7 DEF RunOK
    <3>2. mine' = {r \in rides' : r.renter = who' /\ ~UnderWay(r)'}  BY <1>0, <2>2, <2>3, <2>4
    <3>3. \E r \in rides' : UnderWay(r)' /\ r.renter = who' /\ r.status = "active"  BY <1>0, <2>2, <2>3
    <3> QED  BY <1>0, <2>2, <3>1, <3>2, <3>3 DEF RunOK
  <2>9. Settled' = Settled
    <3>1. \A r \in rides : ~UnderWay(r)  BY <1>0 DEF UnderWay
    <3>2. Settled' = {r \in rides' : r.status = "active" /\ ~UnderWay(r)'}  BY DEF Settled
    <3> QED  BY <2>2, <2>3, <3>1, <3>2 DEF Settled
  <2>10. Excess' = Excess  BY <2>9 DEF Excess
  <2> QED  BY <1>0, <2>5, <2>6, <2>8, <2>10 DEF SeedInv
<1> QED  BY <1>0, <1>1, <1>2 DEF TakeTrip

LEMMA KeepRideKeeps == ASSUME SeedInv, KeepRide PROVE SeedInv'
<1>0. /\ SeedTypeOK /\ RunOK /\ step = "keep" /\ RidesOK /\ who \in Accounts /\ account[who] = "renter"
      /\ UNCHANGED <<sites, cars, account, todo, who, mine, seedings, stops, finished>>
  BY DEF SeedInv, SeedTypeOK, KeepRide, RunOK
<1>1. /\ Rides(who, "completed") # {} /\ Rides(who, "active") \subseteq mine
      /\ \A r \in mine : r \in rides /\ r.renter = who
  BY <1>0 DEF RunOK
<1>2. CASE (who \notin KeepActive \/ Has("active")) /\ step' = "next" /\ rides' = rides
  <2>1. who \in KeepActive => Rides(who, "active") # {}  BY <1>1, <1>2 DEF Has, Rides
  <2>2. Provided(who)  BY <1>0, <1>1, <2>1 DEF Provided
  <2>3. \A a \in Accounts : Provided(a) => Provided(a)'  BY <1>0, <1>2, ProvidedStays
  <2>4. SeedTypeOK'  BY <1>0, <1>2 DEF SeedTypeOK, RidesOK
  <2>5. RunOK'
    <3>1. \A a \in Accounts : a < who' => Provided(a)'  BY <1>0, <2>3 DEF RunOK
    <3>2. Provided(who)'  BY <1>0, <2>2, <2>3
    <3> QED  BY <1>0, <1>2, <3>1, <3>2 DEF RunOK
  <2>6. finished' => sites' = Sites /\ cars' = Plates /\ \A a \in Accounts : Provided(a)'
    BY <1>0, <2>3 DEF SeedInv
  <2>7. stops' \in Nat /\ stops <= stops'  BY <1>0, SeedAssumption DEF SeedTypeOK
  <2> QED  BY <1>0, <1>2, <2>4, <2>5, <2>6, <2>7, QuietStep
<1>3. CASE who \in KeepActive /\ ~Has("active") /\ StartRide("next")
  <2>1. PICK ride : Started(ride, "next")  BY <1>0, <1>3, RideStarts
  <2>2. /\ rides' = rides \cup {ride} /\ ride \notin rides /\ ride.renter = who /\ ride.status = "active"
        /\ RidesOK' /\ step' = "next" /\ \A r \in rides : r.id < ride.id
    BY <2>1 DEF Started
  <2>3. ~finished  BY <1>3, <2>2, FinishedIsFixed DEF SeedNext, demoVars
  <2>4. rides \subseteq rides'  BY <2>2
  <2>5. \A a \in Accounts : Provided(a) => Provided(a)'  BY <1>0, <2>4, ProvidedStays
  <2>6. Provided(who)'
    <3>1. Rides(who, "completed") \subseteq Rides(who, "completed")'  BY <1>0, <2>4 DEF Rides
    <3>2. ride \in Rides(who, "active")'  BY <1>0, <2>2 DEF Rides
    <3> QED  BY <1>0, <1>1, <3>1, <3>2 DEF Provided
  <2>7. SeedTypeOK'  BY <1>0, <2>2 DEF SeedTypeOK
  <2>8. RunOK'
    <3>1. \A a \in Accounts : a < who' => Provided(a)'  BY <1>0, <2>5 DEF RunOK
    <3>2. Provided(who)'  BY <1>0, <2>6
    <3> QED  BY <1>0, <2>2, <3>1, <3>2 DEF RunOK
  <2>9. \A r \in rides : r.status = "active" => r.renter # who
    BY <1>1, <1>3 DEF Has, Rides
  <2>10. Settled' = Settled \cup {ride} /\ Settled \subseteq rides
    <3>1. \A r : ~UnderWay(r) /\ ~UnderWay(r)'  BY <1>0, <2>2 DEF UnderWay
    <3>2. Settled' = {r \in rides' : r.status = "active" /\ ~UnderWay(r)'}  BY DEF Settled
    <3> QED  BY <2>2, <3>1, <3>2 DEF Settled
  <2>11. Excess' = Excess
    <3>1. \A r \in Settled : r.renter # ride.renter /\ r.id < ride.id /\ ~(ride.id < r.id)
      <4>1. \A r \in rides : r.id \in Nat /\ ride.id \in Nat
        BY <1>0, <2>1, RideCount DEF Started
      <4> QED  BY <2>2, <2>9, <2>10, <4>1 DEF Settled
    <3>2. Excess' = {r \in Settled' : r.renter \in KeepActive => \E s \in Settled' : s.renter = r.renter /\ s.id < r.id}
      BY DEF Excess
    <3>3. ~(ride.id < ride.id)
      <4>1. ride.id \in Nat  BY <1>0, <2>1, RideCount DEF Started
      <4> QED  BY <4>1
    <3>4. ride \notin Excess'  BY <1>3, <2>2, <2>10, <3>1, <3>2, <3>3
    <3>5. \A r \in Settled : r \in Excess' <=> r \in Excess  BY <2>10, <3>1, <3>2 DEF Excess
    <3>6. Excess \subseteq Settled /\ Excess' \subseteq Settled \cup {ride}  BY <2>10, <3>2 DEF Excess
    <3> QED  BY <3>4, <3>5, <3>6
  <2> QED  BY <1>0, <2>3, <2>7, <2>8, <2>11 DEF SeedInv
<1> QED  BY <1>0, <1>2, <1>3 DEF KeepRide

LEMMA ReturnTripKeeps == ASSUME SeedInv, ReturnTrip PROVE SeedInv'
<1>0. /\ SeedTypeOK /\ RunOK /\ step = "return" /\ step' = "keep" /\ RidesOK /\ who \in Accounts /\ account[who] = "renter"
      /\ UNCHANGED <<sites, cars, account, todo, who, mine, seedings, stops, finished>> /\ ~finished
  BY DEF SeedInv, SeedTypeOK, ReturnTrip, RunOK
<1>1. PICK t, c : Returned(t, c)  BY TripReturned
<1>2. /\ t \in rides /\ t.renter = who /\ t.status = "active" /\ t.id = Cardinality(rides)
      /\ rides' = (rides \ {t}) \cup {c} /\ c.renter = who /\ c.status = "completed"
      /\ RidesOK' /\ \A r \in rides : r.id = Cardinality(rides) => r = t
  BY <1>1 DEF Returned
<1>3. \A r \in rides : UnderWay(r) <=> r = t  BY <1>0, <1>2 DEF UnderWay
<1>4. mine = {r \in rides : r.renter = who /\ ~UnderWay(r)}  BY <1>0 DEF RunOK
<1>5. SeedTypeOK'  BY <1>0, <1>2 DEF SeedTypeOK
<1>6. ASSUME NEW a \in Accounts, a < who, Provided(a)  PROVE Provided(a)'
  <2>1. a # who
    <3>1. Cardinality(Accounts) \in Nat  BY SeedAssumption, FS_CardinalityType
    <3>2. a \in Nat /\ who \in Nat  BY <1>0, <3>1, SeedAssumption
    <3> QED  BY <1>6, <3>2
  <2>2. \A r \in rides : r.renter = a => r \in rides'  BY <1>2, <2>1
  <2>3. Rides(a, "completed") \subseteq Rides(a, "completed")' /\ Rides(a, "active") \subseteq Rides(a, "active")'
    BY <2>2 DEF Rides
  <2> QED  BY <1>0, <1>6, <2>3 DEF Provided
<1>7. RunOK'
  <2>1. \A a \in Accounts : a < who' => Provided(a)'  BY <1>0, <1>6 DEF RunOK
  <2>2. c \in Rides(who, "completed")'  BY <1>0, <1>2 DEF Rides
  <2>3. \A r \in mine' : r \in rides' /\ r.renter = who'  BY <1>0, <1>2, <1>3, <1>4
  <2>4. Rides(who, "active")' \subseteq mine'  BY <1>0, <1>2, <1>3, <1>4 DEF Rides
  <2> QED  BY <1>0, <2>1, <2>2, <2>3, <2>4 DEF RunOK
<1>8. Settled' = Settled
  <2>1. \A r : ~UnderWay(r)'  BY <1>0 DEF UnderWay
  <2>2. Settled' = {r \in rides' : r.status = "active" /\ ~UnderWay(r)'}  BY DEF Settled
  <2> QED  BY <1>2, <1>3, <2>1, <2>2 DEF Settled
<1>9. Excess' = Excess  BY <1>8 DEF Excess
<1> QED  BY <1>0, <1>5, <1>7, <1>9 DEF SeedInv

LEMMA AccountNumbers ==
    /\ Cardinality(Accounts) \in Nat /\ 1 \in Accounts
    /\ \A a \in Accounts : a \in Nat /\ ~(a < 1) /\ a <= Cardinality(Accounts)
<1>1. Cardinality(Accounts) \in Nat /\ Cardinality(Accounts) # 0
  BY SeedAssumption, FS_CardinalityType, FS_EmptySet
<1> QED  BY <1>1, SeedAssumption

\* The calls before the rentals: each leaves behind what the next relies on.
LEMMA SetupKeeps ==
    ASSUME SeedInv, BeginSeed \/ ensure_stations \/ ensure_vehicles
    PROVE  SeedInv'
<1>0. /\ SeedTypeOK /\ RunOK /\ who = 1 /\ step \in {"idle", "stations", "vehicles"} /\ rides' = rides /\ account' = account
      /\ who' = 1 /\ mine' = mine /\ stops' = stops /\ finished' = finished
  BY DEF SeedInv, SeedTypeOK, RunOK, BeginSeed, ensure_stations, ensure_vehicles, demoVars
<1>1. \A a \in Accounts : Provided(a) => Provided(a)'  BY <1>0, ProvidedStays
<1>2. \A a \in Accounts : a < who' => Provided(a)'  BY <1>0, AccountNumbers
<1>3. RidesOK'  BY <1>0 DEF SeedTypeOK, RidesOK
<1>4. stops' \in Nat /\ stops <= stops'  BY <1>0, SeedAssumption DEF SeedTypeOK
<1>5. /\ sites \subseteq sites' /\ sites' \subseteq Sites /\ cars \subseteq cars' /\ cars' \subseteq Plates
      /\ step' \in {"stations", "vehicles", "register"}
      /\ step' = "stations" => todo' = Sites \ sites'
      /\ step' = "vehicles" => todo' = Plates \ cars'
      /\ step' # "stations" => sites' = Sites
      /\ step' = "register" => cars' = Plates
  <2>0. sites \subseteq Sites /\ cars \subseteq Plates  BY <1>0 DEF SeedTypeOK
  <2>1. CASE BeginSeed  BY <2>0, <2>1 DEF BeginSeed, demoVars
  <2>2. CASE ensure_stations
    <3>1. todo = Sites \ sites /\ cars' = cars  BY <1>0, <2>2 DEF RunOK, ensure_stations
    <3>2. CASE todo # {} /\ sites' = sites \cup {Min(todo)} /\ todo' = todo \ {Min(todo)} /\ UNCHANGED step
      <4>1. Min(todo) \in todo  BY <3>1, <3>2, MinIsIn, SeedAssumption
      <4>2. step' = "stations"  BY <2>2, <3>2 DEF ensure_stations
      <4> QED  BY <2>0, <3>1, <3>2, <4>1, <4>2
    <3>3. CASE todo = {} /\ todo' = Plates \ cars /\ step' = "vehicles" /\ UNCHANGED sites
      BY <2>0, <3>1, <3>3
    <3> QED  BY <2>2, <3>2, <3>3 DEF ensure_stations
  <2>3. CASE ensure_vehicles
    <3>1. todo = Plates \ cars /\ sites = Sites /\ sites' = sites  BY <1>0, <2>3 DEF RunOK, ensure_vehicles
    <3>2. CASE todo # {} /\ cars' = cars \cup {Min(todo)} /\ todo' = todo \ {Min(todo)} /\ UNCHANGED step
      <4>1. Min(todo) \in todo  BY <3>1, <3>2, MinIsIn, SeedAssumption
      <4>2. step' = "vehicles"  BY <2>3, <3>2 DEF ensure_vehicles
      <4> QED  BY <2>0, <3>1, <3>2, <4>1, <4>2
    <3>3. CASE todo = {} /\ step' = "register" /\ UNCHANGED <<cars, todo>>
      BY <2>0, <3>1, <3>3
    <3> QED  BY <2>3, <3>2, <3>3 DEF ensure_vehicles
  <2> QED  BY <2>1, <2>2, <2>3
<1>6. SeedTypeOK'  BY <1>0, <1>3, <1>5 DEF SeedTypeOK
<1>7. RunOK'  BY <1>0, <1>2, <1>5 DEF RunOK
<1>8. finished' => sites' = Sites /\ cars' = Plates /\ \A a \in Accounts : Provided(a)'
  BY <1>0, <1>1, <1>5 DEF SeedInv
<1>9. step # "return" /\ step' # "return"  BY <1>0, <1>5
<1> QED  BY <1>0, <1>4, <1>6, <1>7, <1>8, <1>9, QuietStep

\* Registering, adding a profile and listing the rentals.
LEMMA RenterKeeps ==
    ASSUME SeedInv, Register \/ AddProfile \/ my_rentals
    PROVE  SeedInv'
<1>0. /\ SeedTypeOK /\ RunOK /\ step \in {"register", "profile", "rentals"} /\ step' \in {"profile", "rentals", "trip"}
      /\ sites = Sites /\ cars = Plates /\ who \in Accounts
      /\ UNCHANGED <<sites, cars, rides, todo, who, seedings, stops, finished>>
  BY DEF SeedInv, SeedTypeOK, RunOK, Register, AddProfile, my_rentals, demoVars
<1>1. account \in [Accounts -> {"none", "user", "renter"}]  BY <1>0 DEF SeedTypeOK
<1>2. /\ account' \in [Accounts -> {"none", "user", "renter"}]
      /\ \A a \in Accounts : account[a] = "renter" => account'[a] = "renter"
      /\ step' # "profile" => account'[who] = "renter"
      /\ step' = "trip" => mine' = {r \in rides : r.renter = who}
  <2>1. CASE Register  BY <1>0, <1>1, <2>1 DEF Register
  <2>2. CASE AddProfile  BY <1>0, <1>1, <2>2 DEF AddProfile, my_renter_profile
  <2>3. CASE my_rentals
    <3>1. account[who] = "renter"  BY <1>0, <2>3 DEF RunOK, my_rentals
    <3> QED  BY <1>0, <1>1, <2>3, <3>1 DEF my_rentals, demoVars
  <2> QED  BY <2>1, <2>2, <2>3
<1>3. \A a \in Accounts : Provided(a) => Provided(a)'  BY <1>0, <1>2, ProvidedStays
<1>4. RidesOK'  BY <1>0 DEF SeedTypeOK, RidesOK
<1>5. stops' \in Nat /\ stops <= stops'  BY <1>0, SeedAssumption DEF SeedTypeOK
<1>6. SeedTypeOK'  BY <1>0, <1>2, <1>4 DEF SeedTypeOK
<1>7. RunOK'
  <2>1. \A a \in Accounts : a < who' => Provided(a)'  BY <1>0, <1>3 DEF RunOK
  <2> QED  BY <1>0, <1>2, <2>1 DEF RunOK
<1>8. finished' => sites' = Sites /\ cars' = Plates /\ \A a \in Accounts : Provided(a)'
  BY <1>0, <1>3 DEF SeedInv
<1>9. step # "return" /\ step' # "return"  BY <1>0
<1> QED  BY <1>0, <1>2, <1>5, <1>6, <1>7, <1>8, <1>9, QuietStep

\* The last renter served is the last there is: then all are provided for.
LEMMA NextRenterKeeps == ASSUME SeedInv, NextRenter PROVE SeedInv'
<1>0. /\ SeedTypeOK /\ RunOK /\ step = "next" /\ sites = Sites /\ cars = Plates /\ who \in Accounts /\ Provided(who)
      /\ UNCHANGED <<sites, cars, account, rides, todo, seedings, stops>>
  BY DEF SeedInv, SeedTypeOK, RunOK, NextRenter, demoVars
<1>1. \A a \in Accounts : Provided(a) => Provided(a)'  BY <1>0, ProvidedStays
<1>2. \A a \in Accounts : a <= who => Provided(a)'
  <2>1. \A a \in Accounts : a < who => Provided(a)  BY <1>0 DEF RunOK
  <2>2. \A a \in Accounts : a <= who => a < who \/ a = who  BY <1>0, AccountNumbers
  <2> QED  BY <1>0, <1>1, <2>1, <2>2
<1>3. RidesOK'  BY <1>0 DEF SeedTypeOK, RidesOK
<1>4. stops' \in Nat /\ stops <= stops'  BY <1>0, SeedAssumption DEF SeedTypeOK
<1>5. CASE who + 1 \in Accounts /\ who' = who + 1 /\ step' = "register" /\ UNCHANGED finished
  <2>1. \A a \in Accounts : a < who' => Provided(a)'
    <3>1. \A a \in Accounts : a < who + 1 => a <= who  BY <1>0, AccountNumbers
    <3> QED  BY <1>2, <1>5, <3>1
  <2>2. SeedTypeOK'  BY <1>0, <1>3, <1>5 DEF SeedTypeOK
  <2>3. RunOK'  BY <1>0, <1>5, <2>1 DEF RunOK
  <2>4. finished' => sites' = Sites /\ cars' = Plates /\ \A a \in Accounts : Provided(a)'
    BY <1>0, <1>1, <1>5 DEF SeedInv
  <2> QED  BY <1>0, <1>4, <1>5, <2>2, <2>3, <2>4, QuietStep
<1>6. CASE who + 1 \notin Accounts /\ who' = 1 /\ step' = "idle" /\ finished' = TRUE
  <2>1. \A a \in Accounts : a <= who
    <3>1. who = Cardinality(Accounts)  BY <1>0, <1>6, AccountNumbers, SeedAssumption
    <3> QED  BY <3>1, AccountNumbers
  <2>2. \A a \in Accounts : Provided(a)'  BY <1>2, <2>1
  <2>3. SeedTypeOK'  BY <1>0, <1>3, <1>6, AccountNumbers DEF SeedTypeOK
  <2>4. RunOK'  BY <1>0, <1>6, <2>2 DEF RunOK
  <2> QED  BY <1>0, <1>4, <1>6, <2>2, <2>3, <2>4, QuietStep
<1> QED  BY <1>5, <1>6 DEF NextRenter

\* An interruption leaves at most the rental of the trip under way behind.
LEMMA StopSeedKeeps == ASSUME SeedInv, StopSeed PROVE SeedInv'
<1>0. /\ SeedTypeOK /\ RunOK /\ RidesOK /\ step' = "idle" /\ who' = 1 /\ stops' = stops + 1 /\ stops < MaxStops
      /\ UNCHANGED <<sites, cars, account, rides, finished>>
  BY DEF SeedInv, SeedTypeOK, StopSeed, demoVars
<1>1. \A a \in Accounts : Provided(a) => Provided(a)'  BY <1>0, ProvidedStays
<1>2. stops \in Nat /\ stops' \in 0..MaxStops /\ stops' \in Nat /\ stops <= stops'
  BY <1>0, SeedAssumption DEF SeedTypeOK
<1>3. RidesOK'  BY <1>0 DEF RidesOK
<1>4. SeedTypeOK'  BY <1>0, <1>2, <1>3, AccountNumbers DEF SeedTypeOK
<1>5. RunOK'
  <2>1. \A a \in Accounts : a < who' => Provided(a)'  BY <1>0, AccountNumbers
  <2> QED  BY <1>0, <2>1 DEF RunOK
<1>6. finished' => sites' = Sites /\ cars' = Plates /\ \A a \in Accounts : Provided(a)'
  BY <1>0, <1>1 DEF SeedInv
<1>7. CASE step # "return"
  BY <1>0, <1>2, <1>4, <1>5, <1>6, <1>7, QuietStep
<1>8. CASE step = "return"
  <2>1. PICK t \in rides : t.id = Cardinality(rides)  BY <1>0, <1>8 DEF RunOK, UnderWay
  <2>2. \A r \in rides : UnderWay(r) <=> r = t  BY <1>0, <1>8, <2>1 DEF UnderWay, RidesOK
  <2>3. Settled' = {r \in rides : r.status = "active"}  BY <1>0 DEF Settled, UnderWay
  <2>4. Settled' \subseteq Settled \cup {t}  BY <2>2, <2>3 DEF Settled
  <2>5. Cardinality(rides) \in Nat /\ \A r \in rides : r.id \in Nat /\ r.id <= Cardinality(rides)
    BY <1>0, RideCount DEF RidesOK
  <2>6. \A r \in rides : ~(t.id < r.id)  BY <2>1, <2>5
  <2>7. Excess' \in SUBSET (Excess \cup {t})
    <3>1. SUFFICES ASSUME NEW r \in Excess', r # t  PROVE r \in Excess
      OBVIOUS
    <3>2. r \in Settled' /\ (r.renter \in KeepActive => \E s \in Settled' : s.renter = r.renter /\ s.id < r.id)
      BY <3>1 DEF Excess
    <3>3. r \in Settled /\ r \in rides  BY <2>3, <2>4, <3>1, <3>2
    <3>4. \A s \in Settled' : s.id < r.id => s \in Settled  BY <2>4, <2>6, <3>3
    <3> QED  BY <3>2, <3>3, <3>4 DEF Excess
  <2>8. IsFiniteSet(Excess) /\ Cardinality(Excess) \in Nat /\ Cardinality(Excess) <= stops
    BY <1>0, RideCount DEF SeedInv
  <2>9. IsFiniteSet(Excess \cup {t}) /\ Cardinality(Excess \cup {t}) <= stops + 1 /\ Cardinality(Excess \cup {t}) \in Nat
    <3>1. IsFiniteSet(Excess \cup {t})  BY <2>8, FS_AddElement
    <3>2. Cardinality(Excess \cup {t}) = Cardinality(Excess) \/ Cardinality(Excess \cup {t}) = Cardinality(Excess) + 1
      BY <2>8, FS_AddElement
    <3> QED  BY <1>2, <2>8, <3>1, <3>2
  <2>10. Cardinality(Excess') <= stops'
    <3>1. IsFiniteSet(Excess') /\ Cardinality(Excess') <= Cardinality(Excess \cup {t})  BY <2>7, <2>9, FS_Subset
    <3>2. Cardinality(Excess') \in Nat  BY <3>1, FS_CardinalityType
    <3> QED  BY <1>0, <1>2, <2>9, <3>1, <3>2
  <2> QED  BY <1>0, <1>4, <1>5, <1>6, <2>10 DEF SeedInv
<1> QED  BY <1>7, <1>8

LEMMA SeedInvNext == ASSUME SeedInv, [SeedNext]_seedVars PROVE SeedInv'
<1>1. CASE BeginSeed \/ ensure_stations \/ ensure_vehicles  BY <1>1, SetupKeeps
<1>2. CASE Register \/ AddProfile \/ my_rentals  BY <1>2, RenterKeeps
<1>3. CASE TakeTrip  BY <1>3, TakeTripKeeps
<1>4. CASE ReturnTrip  BY <1>4, ReturnTripKeeps
<1>5. CASE KeepRide  BY <1>5, KeepRideKeeps
<1>6. CASE NextRenter  BY <1>6, NextRenterKeeps
<1>7. CASE StopSeed  BY <1>7, StopSeedKeeps
<1>8. CASE UNCHANGED seedVars
  BY <1>8 DEF seedVars, demoVars, scriptVars, SeedInv, SeedTypeOK, RidesOK, RunOK, UnderWay, Settled, Excess, Provided, Rides
<1> QED  BY <1>1, <1>2, <1>3, <1>4, <1>5, <1>6, <1>7, <1>8 DEF SeedNext

LEMMA SeedInvHolds == SeedSpec => []SeedInv
<1>1. SeedInv /\ [SeedNext]_seedVars => SeedInv'  BY SeedInvNext
<1> QED  BY SeedInvInit, <1>1, PTL DEF SeedSpec

\* For every list of stations, vehicles and renters: a vehicle is left for
\* whoever needs one however often runs were interrupted, and once a run has
\* come to its end everything the script promises is there, with a rental that
\* nobody asked for only where a run was interrupted during a trip.
THEOREM SeedingDelivers == SeedSpec => []SeedDelivers
<1>1. SeedInv => SeedDelivers
  <2> SUFFICES ASSUME SeedInv PROVE SeedDelivers
    OBVIOUS
  <2>0. SeedTypeOK /\ Cardinality(Excess) <= stops  BY DEF SeedInv
  <2>1. step # "no vehicle" /\ RidesOK /\ stops \in Nat
    <3>1. stops \in Nat  BY <2>0, SeedAssumption DEF SeedTypeOK
    <3>2. step # "no vehicle"  BY <2>0 DEF SeedTypeOK
    <3>3. RidesOK  BY <2>0 DEF SeedTypeOK
    <3> QED  BY <3>1, <3>2, <3>3
  <2> SUFFICES ASSUME finished
               PROVE  /\ sites = Sites /\ cars = Plates
                      /\ \A a \in Accounts : account[a] = "renter" /\ Rides(a, "completed") # {}
                      /\ \A a \in KeepActive : Rides(a, "active") # {}
                      /\ Cardinality(UNION {Rides(a, "active") : a \in Accounts \ KeepActive}) <= stops
    BY <2>1 DEF SeedDelivers
  <2>2. step # "return" /\ sites = Sites /\ cars = Plates /\ \A a \in Accounts : Provided(a)  BY DEF SeedInv
  <2>3. \A a \in KeepActive : a \in Accounts /\ Rides(a, "active") # {}  BY <2>2, SeedAssumption DEF Provided
  <2> DEFINE Left == UNION {Rides(a, "active") : a \in Accounts \ KeepActive}
  <2>4. Left \in SUBSET Excess
    <3>1. SUFFICES ASSUME NEW r \in Left PROVE r \in Excess
      OBVIOUS
    <3>2. PICK a \in Accounts \ KeepActive : r \in Rides(a, "active")  OBVIOUS
    <3>3. r \in rides /\ r.renter = a /\ r.status = "active"  BY <3>2 DEF Rides
    <3>4. r \in Settled  BY <2>2, <3>3 DEF Settled, UnderWay
    <3> QED  BY <3>2, <3>3, <3>4 DEF Excess
  <2> HIDE DEF Left
  <2>5. Cardinality(Left) <= stops
    <3>1. IsFiniteSet(Excess) /\ Cardinality(Excess) \in Nat  BY <2>1, RideCount
    <3>2. IsFiniteSet(Left) /\ Cardinality(Left) <= Cardinality(Excess)  BY <2>4, <3>1, FS_Subset
    <3>3. Cardinality(Left) \in Nat  BY <3>2, FS_CardinalityType
    <3>4. Cardinality(Excess) <= stops /\ stops \in Nat  BY <2>0, <2>1
    <3> QED  BY ONLY <3>1, <3>2, <3>3, <3>4
  <2>6. \A a \in Accounts : account[a] = "renter" /\ Rides(a, "completed") # {}  BY <2>2 DEF Provided
  <2> QED  BY <2>2, <2>3, <2>5, <2>6 DEF Left
<1> QED  BY SeedInvHolds, <1>1, PTL

\* "Safe to re-run": after a run that came to its end no call of a later run,
\* interrupted or not, changes a station, a vehicle, an account or a rental.
THEOREM RerunsChangeNothing == SeedSpec => RerunChangesNothing
<1>1. SeedInv /\ [SeedNext]_seedVars => [finished => UNCHANGED demoVars]_seedVars
  <2> SUFFICES ASSUME SeedInv, [SeedNext]_seedVars PROVE [finished => UNCHANGED demoVars]_seedVars
    OBVIOUS
  <2>1. CASE SeedNext  BY <2>1, FinishedIsFixed
  <2> QED  BY <2>1
<1> QED  BY SeedInvHolds, <1>1, PTL DEF SeedSpec, RerunChangesNothing
=============================================================================
