------------------------------ MODULE MCCaseUsers ------------------------------
(***************************************************************************)
(* Instance for TLC: two Profiles, a first run that stores rows of each     *)
(* Commit State, two of the write-ahead log with one key, and a second one  *)
(* that replaces both results.                                              *)
(***************************************************************************)
EXTENDS CaseUsers

Row(p, run, key, id, state) == [of |-> <<p, run>>, key |-> key, id |-> id, state |-> state]

MCRows ==
    {Row("a", 1, 5, 1, Saved),
     Row("a", 1, 3, 2, Wal), Row("b", 1, 3, 3, Wal),
     Row("a", 1, 1, 4, Journal), Row("a", 1, 2, 5, Journal),
     Row("a", 2, 5, 6, Saved), Row("b", 2, 2, 7, Saved)}

MCOutcomes == {{"a", "b"}}
================================================================================
