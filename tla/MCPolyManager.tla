------------------------------ MODULE MCPolyManager ------------------------------
(* Two threads, a screen of two rows and arrays that three polygons fill. *)
EXTENDS PolyManager

NoneOnly == {None}

================================================================================
