------------------------------- MODULE MCLaunch -------------------------------
(***************************************************************************)
(* Instances of Launch for TLC.                                            *)
(***************************************************************************)
EXTENDS Launch

\* Files of no, one, a few and of hundreds of pieces, with and without a short one.
SomeLengths == 0 .. 9 \cup {199, 200, 201, 400, 401, 603}
SomePercents == {0, 40, 99, 100, 150}
=============================================================================
