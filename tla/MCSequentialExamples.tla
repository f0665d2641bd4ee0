------------------------ MODULE MCSequentialExamples -----------------------
(* Players of the driver in lists of three; vectors of up to five numbers.   *)
EXTENDS SequentialExamples
MCPlayers == {
    [name_ |-> "timmy", level_ |-> 1, score_ |-> 12],
    [name_ |-> "zhang", level_ |-> 2, score_ |-> 43],
    [name_ |-> "liu",   level_ |-> 2, score_ |-> 23],
    [name_ |-> "tommy", level_ |-> 1, score_ |-> 52],
    [name_ |-> "jack",  level_ |-> 3, score_ |-> 12]}
=============================================================================
