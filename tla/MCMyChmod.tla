------------------------------ MODULE MCMyChmod ------------------------------
(* Instances of MyChmod for TLC.                                           *)
EXTENDS MyChmod

CONSTANTS Alphabet, MaxLen

\* Every string over the alphabet of at most MaxLen characters.
MCInputs == UNION { [1 .. n -> Alphabet] : n \in 0 .. MaxLen }

Mode640 == {<<"u", "r">>, <<"u", "w">>, <<"g", "r">>}
Mine(mode) == [exists |-> TRUE, owned |-> TRUE, mode |-> mode]
Theirs == [exists |-> TRUE, owned |-> FALSE, mode |-> Mode640]
NoFile == [exists |-> FALSE, owned |-> FALSE, mode |-> {}]

\* Two files of different modes, one of which may be missing or not ours.
MCFiles == { <<Mine(Mode640), f>> : f \in {Mine({<<"o", "x">>}), Theirs, NoFile} }
=============================================================================
