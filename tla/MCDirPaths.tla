----------------------------- MODULE MCDirPaths -----------------------------
(***************************************************************************)
(* Path tables of up to five directories, one more than fit: chains and    *)
(* siblings, of which the blocks are in the order of the table or not;     *)
(* a child before its parent, and a second directory that is its own       *)
(* parent.  Paths are shorter than, as long as and longer than the buffer. *)
(* Names are of one to five letters, of characters with two, three and     *)
(* four bytes, and so long that their length wraps (ByteMod is 16).        *)
(***************************************************************************)
EXTENDS DirPaths

(* Identifiers: n letters, or the given words; a file has its ";1".        *)
Letters(n) == [k \in 1 .. (2 * n) |-> IF k % 2 = 1 THEN 0 ELSE 64 + (k \div 2)]
Word(w) == <<w \div 256, w % 256>>
Version == <<0, 59, 0, 49>>

Kana(n) == [k \in 1 .. (2 * n) |-> IF k % 2 = 1 THEN 48 ELSE 66 + (k \div 2)]
TwoBytes == Word(233)                        \* U+00E9
ThreeBytes == Word(16640)                    \* U+4100
FourBytes == Word(55357) \o Word(56832)      \* U+1F600

D(b, p, l) == [block |-> b, parent |-> p, id |-> Letters(l)]
N(b, p, id) == [block |-> b, parent |-> p, id |-> id]
F(d, l) == [dir |-> d, id |-> Letters(l) \o Version]
G(d, id) == [dir |-> d, id |-> id \o Version]

Table(recs, fs, cut) ==
    LET at[i \in 1 .. (Len(recs) + 1)] ==
            IF i = 1 THEN 4
            ELSE LET l == RecHdr + Len(recs[i - 1].id) IN at[i - 1] + l + (l % 2)
    IN  [recs |-> recs, files |-> fs, at |-> at, block |-> 2, loc |-> 2,
         end |-> at[Len(recs) + 1] - cut]

Root == N(1, 1, <<0>>)
Files(n) == {<<F(n, l), F(1, m), F(n, 1)>> : l \in 1 .. 4, m \in {1, 5}}

Tables ==
    {<<Root>>}
    \cup {<<Root, D(b, 1, l)>> : b \in {0, 2}, l \in 1 .. 3}
    \cup {<<Root, D(b, 1, l), D(c, p, m)>> :
            b \in {0, 3}, c \in {2, 4}, p \in {1, 2, 3}, l \in {1, 2}, m \in {1, 2}}
    \cup {<<Root, D(2, 3, 1), D(3, 1, 1)>>}
    \cup {<<Root, D(5, 1, 1), D(3, 2, 1), N(4, 3, <<0>>)>>,
          <<Root, D(5, 1, 1), D(3, 2, 1), D(4, 2, 1), D(2, 1, 1)>>}

Foreign == {TwoBytes, FourBytes, Kana(1), Kana(6)}

AllDiscs ==
    UNION {{Table(t, fs, 0) : fs \in Files(Len(t))} : t \in Tables}
    \cup {Table(<<Root, D(2, 1, 1)>>, <<F(2, 1)>>, c) : c \in {2, 5, 8}}
    \cup {Table(<<Root, D(2, 3, 1), D(3, 1, 1)>>, <<F(2, 1)>>, 0), Table(<<>>, <<>>, 0)}
    \cup {Table(<<Root, N(2, 1, id)>>, <<F(2, 1), G(1, id)>>, 0) : id \in Foreign}
    \cup {Table(<<Root, D(2, 1, 1)>>, <<G(2, TwoBytes), G(1, ThreeBytes \o Letters(1))>>, 0)}
=============================================================================
