------------------------------ MODULE MCArchive ------------------------------
(* Model-checking module of Archive: five paths on three levels, of which    *)
(* two are in the same directory and two are directories one in the other.   *)
EXTENDS Archive

FivePaths == {<<1>>, <<1, 1>>, <<1, 1, 1>>, <<1, 2>>, <<2>>}
=============================================================================
