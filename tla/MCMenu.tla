------------------------------- MODULE MCMenu -------------------------------
(* The table of Menu.c (lines 107-197) as values for the constants of Menu.  *)
(* A node is <<level, group, row>>.                                          *)
EXTENDS Menu, Naturals

Groups == <<"A", "B", "C", "D", "E", "F">>
Rows == [g \in 1..5 |-> IF g = 4 THEN 7 ELSE 6]  \* the last row is ESC

TheRoot == <<0, 0, 0>>
Level1 == {<<1, g, 0>> : g \in 1..6}
Level2 == UNION {{<<2, g, r>> : r \in 1..Rows[g]} : g \in 1..5}
Level3 == UNION {{<<3, g, r>> : r \in 1..(Rows[g] - 1)} : g \in 1..5}
AllNodes == {TheRoot} \cup Level1 \cup Level2 \cup Level3

Above(i, n) == IF i = 1 THEN n ELSE i - 1
Below(i, n) == IF i = n THEN 1 ELSE i + 1

UpOf(n) == CASE n[1] = 1 -> <<1, Above(n[2], 6), 0>>
             [] n[1] = 2 -> <<2, n[2], Above(n[3], Rows[n[2]])>>
             [] OTHER -> n
DownOf(n) == CASE n[1] = 1 -> <<1, Below(n[2], 6), 0>>
               [] n[1] = 2 -> <<2, n[2], Below(n[3], Rows[n[2]])>>
               [] OTHER -> n
EnterOf(n) == CASE n[1] = 0 -> <<1, 1, 0>>
                [] n[1] = 1 -> IF n[2] <= 4 THEN <<2, n[2], 1>> ELSE TheRoot
                [] n[1] = 2 -> IF n[3] = Rows[n[2]] THEN <<1, n[2], 0>>
                               ELSE <<3, n[2], n[3]>>
                [] n[1] = 3 -> <<2, n[2], n[3]>>

Table == [up |-> [n \in AllNodes |-> UpOf(n)],
          down |-> [n \in AllNodes |-> DownOf(n)],
          enter |-> [n \in AllNodes |-> EnterOf(n)]]

None == <<9, 9, 9>>
GroupD == <<1, 4, 0>>
TestPages == {<<3, 4, 2>>, <<3, 4, 3>>, <<3, 4, 4>>, <<3, 4, 6>>}

\* A forced stop of the remote control ends the test of D3 in the tick after its
\* start, while the page still draws; D2 and D4 have the same callback
\* (Menu.c:699-723). A stopped rotation is not done, and one that ends by itself
\* brakes for a while first.
EndAtOnce == {<<3, 4, 3>>}
=============================================================================
