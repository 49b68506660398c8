---------------------------- MODULE MCDataStream ----------------------------
(* Instances of DataStream for TLC. *)
EXTENDS DataStream

CONSTANTS NoValue

\* Column 1 is UNIQUE, 2 nullable with two values, 3 derived from 2 with a
\* range that excludes the value 3, and 4 filled in by the database; (2, 3)
\* is UNIQUE and a CHECK compares 1 with 2.  The configurations choose which
\* of 1 and 2 is a foreign key sampled for coverage.
Digits == {1, 2, 3}
FourSources == [c \in 1 .. 4 |-> IF c = 3 THEN {2} ELSE {}]
FourDomains == << {1, 2, 3, NoValue}, {1, 2, NoValue}, {1, 2, 3}, {} >>
FourRanges == << {1, 2, 3}, Digits, {1, 2}, Digits >>
FourComposites == {{2, 3}}
OneCheck == {<<1, 2>>}
Differ == [e \in OneCheck |-> {p \in Digits \X Digits : p[1] # p[2]}]
TwoKeys == {[c \in {1} |-> 3], [c \in {2, 3} |-> c - 1]}

\* A covered foreign key 1 that must differ from column 2.
TwoSources == << {}, {} >>
TwoDomains == << {1, 2}, {1, 2} >>
TwoRanges == << Digits, Digits >>
=============================================================================
