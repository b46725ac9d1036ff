--------------------------- MODULE MCVerifyFiles ----------------------------
(***************************************************************************)
(* Discs of up to two files, at one block or at two, with files of equal   *)
(* and of different length and sum; their IRDs, IRDs with the hashes in    *)
(* the other order or for other sectors, and one with a hash to spare.     *)
(***************************************************************************)
EXTENDS VerifyFiles

MCNames == {"a", "b"}

Rec(n, b, l, m) == [name |-> n, block |-> b, len |-> l, sum |-> m]
HashIn(r) == [sector |-> r.block, sum |-> r.sum]

Tables ==
    {<<>>, <<Rec("a", 3, 1, 1)>>}
    \cup {<<Rec("a", 1, 0, 1), Rec("b", c, l, m)>> :
            c \in {1, 2}, l \in Lens, m \in Sums}

Own(t) == [recs |-> t, hashes |-> [i \in DOMAIN t |-> HashIn(t[i])]]
Swapped(t) ==
    [recs |-> t, hashes |-> [i \in DOMAIN t |-> HashIn(t[Len(t) + 1 - i])]]
Longer(t) ==
    [recs |-> t, hashes |-> Append(Own(t).hashes, [sector |-> 9, sum |-> 1])]

AllDiscs == {Own(t) : t \in Tables} \cup {Swapped(t) : t \in Tables}
            \cup {Longer(t) : t \in Tables}
=============================================================================
