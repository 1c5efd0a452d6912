-------------------------------- MODULE Units --------------------------------
(***************************************************************************)
(* Units of a holding and how a timeline moves them: src/app/queries.py    *)
(* (`split_units`) and the rounding of Python's decimal.  Units are whole  *)
(* multiples of queries.UNIT, the last place of a quantity column.         *)
(***************************************************************************)
EXTENDS Integers

\* `Decimal.quantize` rounds half to even; \div and % floor, so this is the
\* nearest integer to n/d for a negative n too.
RoundHalfEven(n, d) ==
    LET q == n \div d
        twice == 2 * (n % d)
    IN  IF twice > d \/ (twice = d /\ q % 2 = 1) THEN q + 1 ELSE q

\* queries.split_units: `new` units for every `old`, rounded once.
SplitUnits(units, new, old) == RoundHalfEven(units * new, old)

=============================================================================
