------------------------------- MODULE MCLedger -------------------------------
(* Values for TLC of the constants of Ledger and Holdings that a cfg cannot    *)
(* write.  The portfolios are interchangeable.                                 *)
EXTENDS Holdings, TLC

Halving == {<<1, 2>>}
Uneven == {<<2, 1>>, <<1, 3>>}

\* Every choice of closes, in AUD with the holdings charted apart and together; and
\* with one in a currency that has a rate late or none, closes on the same days.
Apart == [h \in Portfolios |-> {h}]
Together == [h \in Portfolios |-> Portfolios]

Stored ==
    {[closes |-> closes, foreign |-> {}, rates |-> {}, group |-> group] :
        closes \in [Portfolios -> SUBSET Days], group \in {Apart, Together}}
    \cup
    {[closes |-> [g \in Portfolios |-> on], foreign |-> {h}, rates |-> days, group |-> Apart] :
        on \in SUBSET Days, h \in Portfolios, days \in {{}, {2}}}

Symmetry == Permutations(Portfolios)
=============================================================================
