----------------------------- MODULE MCIdentify -----------------------------
(***************************************************************************)
(* PARAM.SFO files that are sorted, unsorted, short of a key, short of a   *)
(* byte in a value, or cut; an archive that answers with one name, with    *)
(* several, with empty lines, with nothing, or with too much.              *)
(***************************************************************************)
EXTENDS Identify

E(key, val, len) == [key |-> key, val |-> val, len |-> len]
App(len)   == E("APP_VER", "app", len)
Title(len) == E("TITLE_ID", "title", len)
Sys(len)   == E("PS3_SYSTEM_VER", "sys", len)
Ver(len)   == E("VERSION", "disc", len)
Other      == E("CATEGORY", "category", 4)

Sorted == <<App(6), Other, Sys(8), Title(16), Ver(6)>>

Tables ==
    {Sorted,
     <<App(5), Sys(5), Title(9), Ver(5)>>, <<Ver(6), App(6), Title(10), Sys(8)>>,
     <<Title(16), App(6), Sys(8), Ver(6)>>, <<Other>>, <<>>,
     <<App(4), Sys(8), Title(16), Ver(6)>>, <<App(6), Sys(4), Title(16), Ver(6)>>,
     <<App(6), Sys(8), Title(8), Ver(6)>>, <<App(6), Sys(8), Title(16), Ver(4)>>}
    \cup {SelectSeq(Sorted, LAMBDA e : e.key # key) :
             key \in {"APP_VER", "PS3_SYSTEM_VER", "TITLE_ID", "VERSION"}}

MCFiles == {[entries |-> t, whole |-> 3 + Len(t)] : t \in Tables}
           \cup {[entries |-> Sorted, whole |-> n] : n \in {0, 1, 2, 5}}

KnownSigs == {TrueSig(f) : f \in {g \in MCFiles : Sound(g)}}

Known == {<<"a">>, <<"a", "b">>, <<"a", NL>>, <<"a", NL, "b", NL>>, <<NL, "b", "a">>,
          <<"a", "b", "a", "b">>, <<"a", NL, "b", NL, "a">>, <<NL, NL>>}
Unknown == {<<>>, <<"b">>}

MCReplies == Known \cup Unknown
MCAnswers(s) == IF s \in KnownSigs THEN Known ELSE Unknown

MCServed ==
    {<<"ird", name>> : name \in {<<"a">>, <<"b">>, <<"a", "b">>, <<"b", "a">>,
                                 <<"a", "b", "a", "b">>}}
    \cup {<<"pup", s[2]>> : s \in KnownSigs}
=============================================================================
