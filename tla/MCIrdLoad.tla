----------------------------- MODULE MCIrdLoad ------------------------------
(***************************************************************************)
(* IRDs with sections of no, one or two units, or with hashes whose size   *)
(* is negative as an int (5 of 2) or wraps (9 of 2), of the versions the   *)
(* code tells apart, read from streams that end or fail at every place,    *)
(* within every section and after the last; with images whose own streams  *)
(* are whole, cut off or bad.                                              *)
(***************************************************************************)
EXTENDS IrdLoad

SmallIrds == [version: {7, 9}, title: {0, 2}, header: {1, 2}, footer: {1, 2},
              regions: {0, 1}, files: {0, 2, 5, 9},
              inner: {[header |-> "whole", footer |-> "whole"],
                      [header |-> "cut", footer |-> "bad"],
                      [header |-> "whole", footer |-> "cut"]}]
=============================================================================
