----------------------------- MODULE MCPipeline -----------------------------
(***************************************************************************)
(* Two runs.  They have everything in common, or nothing, or only the      *)
(* signature, the rip or the output; each with or without -p.              *)
(***************************************************************************)
EXTENDS Pipeline

O(s, r, o, p) == [sig |-> s, rip |-> r, out |-> o, pup |-> p, given |-> "no"]

Pairs ==
    {[p \in Runs |-> IF p = 1 THEN O(1, 1, 1, a) ELSE O(s, r, o, b)] :
        <<s, r, o>> \in {<<1, 1, 1>>, <<1, 2, 2>>, <<2, 1, 2>>, <<2, 2, 1>>,
                        <<2, 2, 2>>},
        a \in BOOLEAN, b \in BOOLEAN}

(* A run to which a directory, or an IRD file, is given with -r.           *)
GivenDir ==
    {[p \in Runs |-> IF p = 1 THEN [O(1, 1, 1, FALSE) EXCEPT !.given = "dir"]
                     ELSE O(1, 1, 1, FALSE)]}
GivenFile ==
    {[p \in Runs |-> IF p = 1 THEN [O(1, 1, 1, FALSE) EXCEPT !.given = "file"]
                     ELSE O(1, 1, 1, FALSE)]}

AllOptions == Pairs \cup GivenDir \cup GivenFile
=============================================================================
