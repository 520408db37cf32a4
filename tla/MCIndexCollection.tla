------------------------- MODULE MCIndexCollection --------------------------
(***************************************************************************)
(* Small instances of IndexCollection: files of up to MaxSize rows, no     *)
(* more than MaxTotal files and rows together, and subsets of MaxSelected  *)
(* rows in any order.                                                      *)
(***************************************************************************)
EXTENDS IndexCollection

CONSTANTS MaxSize, MaxTotal, MaxSelected

SomeCollections ==
  {files \in UNION {[1 .. n -> 0 .. MaxSize] : n \in 1 .. MaxTotal} :
     Len(files) + SumFunction(files) <= MaxTotal}

SomeSelections(n) ==
  IF n = 0 THEN {<<>>} ELSE [1 .. MaxSelected -> 0 .. (n - 1)]
=============================================================================
