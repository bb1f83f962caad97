---------------------------- MODULE MCJudgePrefs ----------------------------
(* A judge with two settings pages and two contacts. *)
EXTENDS JudgePrefs, TLC

CONSTANTS ann, p1, p2, t1, t2

TwoContacts == {p1, p2}
OneJudge == {ann}
TwoTabs == {t1, t2}
OwnerTwo == [t \in TwoTabs |-> ann]

\* An overnight window of the last day of the week, and half a window, which
\* takes its start from the row.
SomeChoices ==
  { [roomEnabled |-> TRUE, quiet |-> [start |-> 2, end |-> 1, weekdays |-> {2}]],
    [roomEnabled |-> TRUE, quiet |-> [start |-> None, end |-> 3, weekdays |-> {0, 2}]] }

Sym == Permutations(TwoTabs) \cup Permutations(TwoContacts)
=============================================================================
