------------------------------- MODULE MCTrie -------------------------------
(***************************************************************************)
(* Values of the constants of Trie for TLC.                                *)
(***************************************************************************)
EXTENDS Trie, TLC

\* "A", "AB", "ab" and "ac".
Spelling == 1 :> <<"a">> @@ 2 :> <<"a", "b">> @@ 3 :> <<"a", "b">> @@ 4 :> <<"a", "c">>

W(x, w) == [text |-> x, weight |-> w]

Insertions == {<<W(1, 1)>>, <<W(2, 1)>>, <<W(3, 0), W(4, 1)>>}

=============================================================================
