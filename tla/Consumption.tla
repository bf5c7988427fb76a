------------------------------ MODULE Consumption ------------------------------
(***************************************************************************)
(* What the billing engine (packages/billing-engine/src/index.ts) and the  *)
(* dashboard (dashboard/route.ts) compute from the readings of a meter, in *)
(* every history that ReadingHistory allows.                               *)
(*                                                                         *)
(* Amounts are integers: rounding is left out.  A result is a set where    *)
(* the database may choose (two readings at one timestamp), and a sequence *)
(* of rows has any order where no ORDER BY gives one.                      *)
(***************************************************************************)
EXTENDS ReadingHistory, Integers, Sequences, SequencesExt

CONSTANTS
    Time,           \* Time[k]: timestamp of a reading
    Value,          \* Value[k]: its value
    Instants,       \* bound: where billing periods begin and end
    MonthLength,    \* of a calendar month, in the units of Time
    Multiplier,     \* of the meter
    Meters,         \* the meters of a unit: [id, type]
    Tariffs         \* [type, validFrom, validTo, price, fixed, fee]

Period == {p \in Instants \X Instants : p[1] < p[2]}

ASSUME ConsumptionAssumption ==
    /\ Time \in [Keys -> Int] /\ Value \in [Keys -> Int]
    /\ Instants \subseteq Int
    /\ MonthLength \in Nat \ {0} /\ Multiplier \in Nat \ {0}
    /\ IsFiniteSet(Meters) /\ IsFiniteSet(Tariffs)
    /\ \A tariff \in Tariffs : tariff.price \in Int /\ tariff.fee \in Int

-----------------------------------------------------------------------------
\* computeMeterConsumption

Until(t) == {k \in Present : Time[k] <= t}

\* findFirst(timestamp <= t, orderBy timestamp desc): among readings at the latest
\* timestamp any may be first, one that a correction superseded as well.
Latest(t) == {k \in Until(t) : \A j \in Until(t) : Time[j] <= Time[k]}

\* Variant of the next definition: the reading at the beginning counts as well.
WithinClosed(from, to) == {k \in Present : from <= Time[k] /\ Time[k] <= to}

Within(from, to) == {k \in Present : from < Time[k] /\ Time[k] <= to}

ValuesOf(S) == MapThenSumSet(LAMBDA k : Value[k], S)
Interval(from, to) == Multiplier * ValuesOf(Within(from, to))

\* A reading below the opening one counts as zero (warning NEGATIVE_DELTA), a
\* missing one as well (MISSING_READINGS).
Delta(start, end) == IF Value[end] > Value[start] THEN Value[end] - Value[start] ELSE 0
Cumulative(from, to) ==
    IF Latest(from) = {} \/ Latest(to) = {} THEN {0}
    ELSE {Multiplier * Delta(start, end) : start \in Latest(from), end \in Latest(to)}

-----------------------------------------------------------------------------
\* buildInvoiceDraftComputation: ms and ts are the meters of the unit and the tenant's
\* tariffs in the order in which the database returned them (no ORDER BY), c what
\* each meter consumed.

Active(tariff, type, p) ==
    tariff.type = type /\ tariff.validFrom <= p[2] /\ tariff.validTo >= p[1]

\* The lines of the draft, by the meter's place in ms: those of the meters with an
\* active tariff, each with the first such tariff (tariffs.find); for the others there
\* is a warning.
LinesOf(ms, ts, c, p) ==
    LET active(i) == {j \in DOMAIN ts : Active(ts[j], ms[i].type, p)}
    IN  [i \in {i \in DOMAIN ms : active(i) # {}} |->
           [consumption |-> c[ms[i]], tariff |-> ts[Min(active(i))]]]

Usage(lines) ==
    MapThenSumSet(LAMBDA i : lines[i].consumption * lines[i].tariff.price, DOMAIN lines)

\* Variant of the next definition: the fee is added for each meter.
FeePerMeter(lines) == MapThenSumSet(LAMBDA i : lines[i].tariff.fee, DOMAIN lines)

\* baseFeeApplied: the fee of the first meter whose tariff has one, once.
BaseFee(lines) ==
    LET withFee == {i \in DOMAIN lines : lines[i].tariff.fixed}
    IN  IF withFee = {} THEN 0 ELSE lines[Min(withFee)].tariff.fee

Subtotal(ms, ts, c, p) ==
    LET lines == LinesOf(ms, ts, c, p) IN Usage(lines) + BaseFee(lines)

-----------------------------------------------------------------------------
\* GET dashboard/buildings/:id/consumption: the monthly chart of a meter.

Months(S) == {Time[k] \div MonthLength : k \in S}
InMonth(S, month) == {k \in S : Time[k] \div MonthLength = month}

Values(S) == {Value[k] : k \in S}

\* Variant of the next definition: the meter's highest value in the month.
MonthPeak(S, month) == Max(Values(InMonth(S, month)))

\* Of a cumulative meter and of an interval meter (without the Multiplier).
MonthValue(S, month) == Max(Values(InMonth(S, month))) - Min(Values(InMonth(S, month)))
MonthSum(S, month) == ValuesOf(InMonth(S, month))

\* timestamp >= from AND timestamp <= to, grouped by month.
Charted(from, to) == {k \in Present : from <= Time[k] /\ Time[k] <= to}
ChartTotal(from, to) ==
    LET S == Charted(from, to)
    IN  MapThenSumSet(LAMBDA month : MonthValue(S, month), Months(S))
IntervalChartTotal(from, to) ==
    LET S == Charted(from, to)
    IN  MapThenSumSet(LAMBDA month : MonthSum(S, month), Months(S))

-----------------------------------------------------------------------------
\* A meter whose readings only rise, and are never two at one time.
InOrder == \A j, k \in Present : Time[j] < Time[k] => Value[j] <= Value[k]
Distinct == \A j, k \in Present : Time[j] = Time[k] => j = k

\* The bill of two adjacent periods is the bill of both together: no reading of an
\* interval meter is billed twice or left out, whatever was imported or corrected;
\* and a cumulative meter that rises opens a period where it closed the one before.
AdjacentPeriodsAddUp ==
    \A p, q \in Period : p[2] = q[1] =>
        /\ Interval(p[1], p[2]) + Interval(q[1], q[2]) = Interval(p[1], q[2])
        /\ InOrder /\ Distinct /\ Latest(p[1]) # {} =>
             \A x \in Cumulative(p[1], p[2]), y \in Cumulative(q[1], q[2]) :
                 x + y \in Cumulative(p[1], q[2])

\* The chart beside the consumption, in the units of the meter (the multiplier is in
\* the consumption only).  Of a cumulative meter that rises it shows no more than the
\* difference that is billed: what was used between the last reading of one month and
\* the first of the next is in no bar.  Of an interval meter it shows every reading
\* of the period once, and those at its first instant besides, which the engine bills
\* with the period before.
ChartAgreesWithTotal ==
    \A p \in Period :
        /\ InOrder /\ Distinct /\ Latest(p[1]) # {} =>
             \A start \in Latest(p[1]), end \in Latest(p[2]) :
                 ChartTotal(p[1], p[2]) <= Delta(start, end)
        /\ IntervalChartTotal(p[1], p[2])
             = ValuesOf(Within(p[1], p[2])) + ValuesOf({k \in Present : Time[k] = p[1]})

\* In whatever order the database returns meters and tariffs, a draft bills each
\* meter at its tariff, for what its readings say by either method, and the fee once
\* per unit, as long as no two tariffs compete: two of one type, or two with a fee.
Consumed(p) == {Interval(p[1], p[2])} \cup Cumulative(p[1], p[2])
InUse(T, p) == {t \in T : \E m \in Meters : Active(t, m.type, p)}
Competing(t1, t2) == t1 # t2 /\ (t1.type = t2.type \/ (t1.fixed /\ t2.fixed))
Charge(t, c) == (IF t.fixed THEN t.fee ELSE 0)
    + t.price * MapThenSumSet(LAMBDA m : c[m], {m \in Meters : m.type = t.type})
Reference(T, c, p) == MapThenSumSet(LAMBDA t : Charge(t, c), InUse(T, p))
EveryDraftIsReference ==
    \A p \in Period, T \in SUBSET Tariffs :
        (\A t1, t2 \in InUse(T, p) : ~Competing(t1, t2)) =>
            \A ms \in SetToSeqs(Meters), ts \in SetToSeqs(T), c \in [Meters -> Consumed(p)] :
                Subtotal(ms, ts, c, p) = Reference(T, c, p)

\* Bound: checked while no user has stored a reading or is about to.  The amounts
\* depend on the readings alone, not on who stored them or asks for them.
GatewayAlone ==
    /\ \A k \in Present : reading[k] = NewRow("original", "gateway")
    /\ \A q \in Requests : request[q] = Idle
DraftIsReference == GatewayAlone => EveryDraftIsReference
=============================================================================
