------------------------------ MODULE MCImporter ------------------------------
(* Values for TLC of the constants of Importer that a cfg cannot write. *)
EXTENDS Importer

CONSTANTS ax, ay, ann

AnnTwice == [s \in SignIns |-> ann]
Alike == Permutations(SignIns)

Trade(i, l, d, c, k, q) == [id |-> i, listing |-> l, day |-> d, time |-> c, type |-> k, quantity |-> q]
Line(k, l, d, c, q, ok) ==
    [type |-> k, listing |-> l, day |-> d, clock |-> c, quantity |-> q,
     priced |-> ok, dated |-> TRUE, sound |-> TRUE]

\* A sell that later rows may strand; a holding that is short already.
TwoBooks ==
    {{Trade(1, ax, 1, 2, "buy", 2), Trade(2, ax, 3, 2, "sell", 2)},
     {Trade(1, ax, 2, 2, "sell", 1), Trade(2, ax, 2, 2, "buy", 1), Trade(3, ay, 1, 3, "buy", 1)}}

\* Two identical fills and a sell, padded dates; a sell before its buy with a
\* reinvestment the export has no price for; a date that cannot be read.
ThreeFiles ==
    {[format |-> "csv", lines |-> <<Line("buy", ax, 1, 0, 1, TRUE), Line("buy", ax, 1, 3, 1, TRUE),
                                    Line(NULL, ax, 1, 0, 1, TRUE), Line("sell", ax, 2, 5, 1, TRUE)>>],
     [format |-> "ofx", lines |-> <<Line("sell", ax, 2, 0, 2, TRUE), Line("drp", ay, 1, 0, 1, FALSE),
                                    Line("buy", ax, 2, 5, 1, TRUE)>>],
     [format |-> "csv", lines |-> <<[Line("buy", ax, 1, 0, 1, TRUE) EXCEPT !.dated = FALSE]>>]}

Fund(l, exact, d, units) == [listing |-> l, exact |-> exact, day |-> d, amount |-> 1, units |-> units]

\* A fund twice, named once without its exchange and once with it.
OneAdvice == {<<Fund(ax, FALSE, 1, 1), Fund(ax, TRUE, 1, 0)>>, <<Fund(ax, TRUE, 1, 0)>>}
=============================================================================
