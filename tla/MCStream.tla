------------------------------ MODULE MCStream ------------------------------
(* Instances of Stream for TLC.                                             *)
EXTENDS Stream

MCTotal == [e \in Ends |-> IF e = Client THEN 2 ELSE 1]
MCMarks == [e \in Ends |-> IF e = Server THEN {<<2, 0>>, <<0, 1>>, <<1, 2>>, <<2, 1>>} ELSE {}]
=============================================================================
