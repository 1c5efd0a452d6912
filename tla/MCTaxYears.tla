------------------------------ MODULE MCTaxYears ------------------------------
(* Values for TLC of the constants of TaxYears that a cfg cannot write. *)
EXTENDS TaxYears

Parcel(acquired, cost, value, moved, proceeds) ==
    [acquired |-> acquired, cost |-> cost, value |-> value, moved |-> moved,
     proceeds |-> proceeds]

Disposed(ticker, event, matched, uses) ==
    [ticker |-> ticker, event |-> event, matched |-> matched, uses |-> uses]

\* Two parcels at a gain, one of them held the longer; a parcel at a loss; one
\* with money spent on it since 2027, beside one at a loss to then and a gain
\* after; the loss again at a nearer rate, and that at a later close; a return of
\* capital beyond the cost; a sale of more than was held.
Sold ==
    {Disposed("AAA", "sale", TRUE, <<Parcel(2025, 6, 10, <<>>, 14),
                                     Parcel(2026, 4, 8, <<>>, 10)>>),
     Disposed("BBB", "sale", TRUE, <<Parcel(2025, 12, 4, <<>>, 6)>>),
     Disposed("BBB", "sale", TRUE, <<Parcel(2025, 10, 4, <<>>, 8)>>),
     Disposed("BBB", "sale", TRUE,
              <<Parcel(2025, 2, 8, <<[when |-> 2028, amount |-> 10]>>, 20),
                Parcel(2027, 14, 6, <<>>, 8)>>),
     Disposed("BBB", "sale", TRUE, <<Parcel(2025, 10, 6, <<>>, 8)>>),
     Disposed("AAA", "capital_return", TRUE, <<Parcel(2025, 0, 0, <<>>, 4)>>),
     Disposed("AAA", "sale", FALSE, <<>>)}

Numbers == {100, 130}
=============================================================================
