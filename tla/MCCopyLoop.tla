----------------------------- MODULE MCCopyLoop -----------------------------
(***************************************************************************)
(* Sources of up to five bytes and a buffer of two, so that calls take up  *)
(* to three iterations and the last one is full, short or empty; devices   *)
(* that are full within the first, the second or no iteration.             *)
(***************************************************************************)
EXTENDS CopyLoop

Sizes == {0, 1, 2, 3, 4, 5, Unbounded}

FileJobs == [kind: {"file"}, size: Sizes, len: 0 .. 5, bad: {FALSE}]
GzJobs == [kind: {"gz"}, size: Sizes, len: 0 .. 5, bad: BOOLEAN]
AllJobs == FileJobs \cup GzJobs
=============================================================================
