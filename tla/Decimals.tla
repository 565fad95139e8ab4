------------------------------ MODULE Decimals ------------------------------
(***************************************************************************)
(* The fixed-point arithmetic of internal/model's Decimal.  A decimal is   *)
(* its integer mantissa; the mantissa's width is not modelled here, every  *)
(* value the other modules feed in is far from its limit.                  *)
(***************************************************************************)
EXTENDS Integers

\* Go's integer division and remainder: truncated toward zero.
TruncDiv(n, d) == IF n >= 0 THEN n \div d ELSE -((-n) \div d)
TruncRem(n, d) == n - d * TruncDiv(n, d)

AbsOf(n) == IF n < 0 THEN -n ELSE n
SignOf(n) == IF n < 0 THEN -1 ELSE IF n > 0 THEN 1 ELSE 0

\* Whether a truncated quotient with the non-zero remainder r of a division by
\* den > 0 moves one further from zero.
RoundsAway(r, den, mode) ==
  \/ mode = "floor" /\ r < 0
  \/ mode = "ceil" /\ r > 0
  \/ mode \in {"halfAwayFromZero", "nearest"} /\ 2 * AbsOf(r) >= den

\* What roundQuotient adds to the truncated quotient.
RoundQuotient(r, den, mode) == IF r # 0 /\ RoundsAway(r, den, mode) THEN SignOf(r) ELSE 0

\* d * num / den for a non-zero den, rounded as mode says.
MulRat(d, num, den, mode) ==
  LET n == IF den < 0 THEN -(d * num) ELSE d * num
      r == TruncRem(n, AbsOf(den))
  IN  TruncDiv(n, AbsOf(den)) + RoundQuotient(r, AbsOf(den), mode)

MulBps(d, bps) == MulRat(d, bps, 10000, "halfAwayFromZero")

\* d aligned to a multiple of inc > 0, in direction floor, ceil or nearest; its
\* remainder has its sign, so that RoundQuotient decides here as well.
RoundToIncrement(d, inc, dir) == (TruncDiv(d, inc) + RoundQuotient(TruncRem(d, inc), inc, dir)) * inc
=============================================================================
