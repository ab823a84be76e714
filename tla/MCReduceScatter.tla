-------------------------- MODULE MCReduceScatter ---------------------------
(***************************************************************************)
(* Reduce-scatter of four elements among two ranks, distributed the way the *)
(* repository's own test does: every rank receives ceil(4 / 2) elements.    *)
(***************************************************************************)
EXTENDS MCCollective

EvenCase == << Once(ReduceScatter(<<2, 2>>)) >>
EvenListedCode == CodeOf(EvenCase)
EvenListedProgress == ProgressOf(EvenCase)
EvenListedSizes == SizesOf(EvenCase)
EvenListedRegistered == RegisteredOf(EvenCase)
EvenListedExpected == ExpectedOf(EvenCase)

\* The values of the constants, as in MCCollective.
EvenCases == LET cases == EvenCase IN cases
EvenCode == LET code == EvenListedCode IN code
EvenProgress == LET progress == EvenListedProgress IN progress
EvenSizes == LET sizes == EvenListedSizes IN sizes
EvenRegistered == LET registered == EvenListedRegistered IN registered
EvenExpected == LET expected == EvenListedExpected IN expected
=============================================================================
