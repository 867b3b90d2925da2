---------------------------- MODULE MCFileStorage -----------------------------
(* A small instance of FileStorage for TLC.  Data are values the code only *)
(* copies, so they may be permuted.                                        *)
EXTENDS FileStorage, TLC

Symmetry == Permutations(Data)

(* Bound: after two saves overlapped no other damage is followed; nothing  *)
(* is promised of the file then, whatever else happens to it.              *)
OverlapAlone == "overlap" \in damage => damage = {"overlap"}
=============================================================================
