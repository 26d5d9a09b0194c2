---------------------------- MODULE MCBenchmark -----------------------------
(* Constants for model checking Benchmark.                                 *)
EXTENDS Benchmark, TLC

CONSTANTS t1, p1, a, b, c, header, broken, blank

OneColumnParts == [r \in LongRow |-> <<a, b>>]

\* Old data of other rows, and a header alone.
OldFiles == {<<header>>, <<header, b, blank, b>>}

\* Every row number has a row of its own, as a column has that is not age.
DistinctRows == (1 :> a) @@ (2 :> b) @@ (3 :> c)
=============================================================================
