--------------------------------- MODULE MCShell ---------------------------------
EXTENDS Shell, Numix
MCPrompt == <<">", " ">>
MCSudo == <<"s", " ">>
MCCommand == <<"n">>

\* Expressions of up to three operands, and everything of up to three characters.
Operands == {<<"2">>, <<"7">>, <<"-", "3">>, <<"(", "2", "-", "5", ")">>}
BinaryOps == {<<"+">>, <<"-">>, <<"*">>, <<"/">>, <<"/", "/">>, <<"%">>, <<"^">>, <<"*", "*">>}
Ended == {<<>>} \cup {o \o a : o \in BinaryOps, a \in Operands}
Expressions == {a \o b \o c : a \in Operands, b \in Ended, c \in Ended}
Symbols == {"2", "3", "-", "*", "/", "(", ")", "^", " "}
Scraps == UNION {[1 .. n -> Symbols] : n \in 0 .. 3}

\* Lines to edit: a short one, one under sudo, one that ends just before the row does, and
\* one that leaves room for a single character.
Edited == {<<"n", " ", "2">>, <<"s", " ", "n">>, <<"n", " ", "2", "-", "2", "-", "2">>,
           [i \in 1 .. 20 |-> IF i = 2 THEN " " ELSE "n"]}
MCPast == Edited \cup {<<"n", " ">> \o e : e \in Expressions \cup Scraps}
MCKeys(text) == IF text \in Edited THEN 6 ELSE 2

\* cmd_numix: the answer to every line is its value, and an error only when it has none or
\* leaves the integers: precedence, signs, rounding and overflow.
NumixAgrees == answer.name = Command => Correct(answer.text, Run(answer.text))
=============================================================================
