---------------------------- MODULE MCJudgePool -----------------------------
EXTENDS JudgePool

CONSTANTS w1, w2

MCWorkers == {w1, w2}

F(path, line, rule, message) == [path |-> path, line |-> line, rule |-> rule, message |-> message]

\* Two findings of one key in a file, one of them seen on two lines, and a second
\* file; three files with a finding each, of which --max-files cuts one off.
MCInputs ==
    {<<F("a", 1, "r", "m1"), F("a", 1, "r", "m2"), F("b", 1, "r", "m1"), F("a", 2, "r", "m1")>>,
     <<F("a", 1, "r", "m1"), F("b", 1, "r", "m1"), F("c", 1, "r", "m1")>>}

MCOnly == {None, "b"}

MCMaxFiles == {2}

\* The echo is the key of the first file's findings, in whichever file's answer,
\* or incomplete, with a class that is none.
MCRaws ==
    {[echo |-> <<"a", 1, "r">>, class |-> "real"], [echo |-> None, class |-> "Real"]}
=============================================================================
