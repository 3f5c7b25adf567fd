---------------------------- MODULE RunningStats ----------------------------
(***************************************************************************)
(* The running statistics of hw1 and hw2 (stats.h): samples are added one  *)
(* at a time to a count, a minimum, a maximum, a mean and a sum of squared *)
(* deviations.  Both versions do the same in another order.                *)
(*                                                                         *)
(* A double is a fraction, exact instead of rounded.  Its special values   *)
(* have the denominator zero: 1/0 and -1/0 are the infinities, 0/0 is not  *)
(* a number; the arithmetic of fractions then does what that of the        *)
(* processor does.  The square root of stddev is left out.                 *)
(***************************************************************************)
EXTENDS Integers, Sequences, FiniteSetsExt

CONSTANT DBL_MAX     \* the largest double, more than any sample

ASSUME StatsAssumption == DBL_MAX \in Nat

Fraction(num, den) == [num |-> num, den |-> den]
Whole(n) == Fraction(n, 1)
Inf == Fraction(1, 0)
NaN == Fraction(0, 0)

IsFinite(x) == x.den # 0

Size(n) == IF n < 0 THEN -n ELSE n

\* The divisors numerator and denominator have in common.
Common(x) == {c \in 1..Size(x.den) : x.num % c = 0 /\ x.den % c = 0}

\* The one way to write a value: lowest terms, the denominator not negative.
Reduced(x) ==
    IF x.den = 0
    THEN Fraction(IF x.num > 0 THEN 1 ELSE IF x.num < 0 THEN -1 ELSE 0, 0)
    ELSE LET common == Max(Common(x))
             sign   == IF x.den < 0 THEN -1 ELSE 1
         IN  Fraction(sign * (x.num \div common), sign * (x.den \div common))

\* The processor's +, -, *, / and <.
Plus(x, y) ==
    IF x = y /\ ~IsFinite(x)
    THEN x
    ELSE Reduced(Fraction(x.num * y.den + y.num * x.den, x.den * y.den))
Subtract(x, y) == Plus(x, Fraction(-y.num, y.den))
Times(x, y)   == Reduced(Fraction(x.num * y.num, x.den * y.den))
Over(x, n)    == Reduced(Fraction(x.num, x.den * n))
Less(x, y)    == x.num * y.den < y.num * x.den

\* Stats::Stats.
NewStats ==
    [count |-> 0, min |-> Whole(DBL_MAX), max |-> Whole(-DBL_MAX),
     mean |-> Whole(0), m2 |-> Whole(0)]

\* Both factors of the square taken from the old mean.
addSample_OldMean(s, value) ==
    LET delta == Subtract(value, s.mean)
    IN  [count |-> s.count + 1,
         min   |-> IF Less(value, s.min) THEN value ELSE s.min,
         max   |-> IF Less(s.max, value) THEN value ELSE s.max,
         mean  |-> Plus(s.mean, Over(delta, s.count + 1)),
         m2    |-> Plus(s.m2, Times(delta, delta))]

\* Stats::addSample: one factor is from the old mean, one from the new.
addSample(s, value) ==
    LET delta == Subtract(value, s.mean)
        mean  == Plus(s.mean, Over(delta, s.count + 1))
    IN  [count |-> s.count + 1,
         min   |-> IF Less(value, s.min) THEN value ELSE s.min,
         max   |-> IF Less(s.max, value) THEN value ELSE s.max,
         mean  |-> mean,
         m2    |-> Plus(s.m2, Times(delta, Subtract(value, mean)))]

\* The square of stddev: of two samples there is none yet.
variance(s) == IF s.count > 2 THEN Over(s.m2, s.count - 1) ELSE Whole(0)

-----------------------------------------------------------------------------
(* What the statistics of a sequence of samples should be.                 *)

SumOf(values) ==
    LET upTo[n \in Nat] == IF n = 0 THEN Whole(0) ELSE Plus(upTo[n - 1], values[n])
    IN  upTo[Len(values)]

MeanOf(samples) == Over(SumOf(samples), Len(samples))

\* The sum of the squared deviations from the mean.
SquaresOf(samples) ==
    LET mean == MeanOf(samples)
        Deviation(x) == Subtract(x, mean)
    IN  SumOf([i \in DOMAIN samples |-> Times(Deviation(samples[i]), Deviation(samples[i]))])

\* The statistics of finite samples are their moments; an infinite one makes
\* the mean infinite if it is the last and no number at all otherwise, and
\* spoils the deviation for good.
AreStatisticsOf(s, samples) ==
    LET values == {samples[i] : i \in DOMAIN samples}
        finite == \A x \in values : IsFinite(x)
    IN  /\ s.count = Len(samples)
        /\ \A x \in values : ~Less(x, s.min) /\ ~Less(s.max, x)
        /\ (finite /\ values # {}) => {s.min, s.max} \subseteq values
        /\ (finite /\ values # {})
              => s.mean = MeanOf(samples) /\ s.m2 = SquaresOf(samples)
        /\ (finite /\ Len(samples) > 2)
              => variance(s) = Over(SquaresOf(samples), Len(samples) - 1)
        /\ ~finite
              => /\ s.mean = IF \A i \in 1..(Len(samples) - 1) : IsFinite(samples[i])
                             THEN Inf ELSE NaN
                 /\ s.m2 = NaN
=============================================================================
