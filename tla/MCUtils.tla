------------------------------ MODULE MCUtils ------------------------------
(* Up to six fields: empty, in range, out of range, and with a wrong         *)
(* character in front or behind a digit.                                     *)
EXTENDS Utils

SomeFields == {<<>>, <<7>>, <<2, 5, 5>>, <<2, 5, 6>>, <<Junk>>, <<1, Junk>>}
============================================================================
