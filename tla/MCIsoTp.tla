------------------------------- MODULE MCIsoTp -------------------------------
(* Three kinds of request: a short one with a long answer (a seed or a     *)
(* DID), a long one with a short answer (a block of 0x36), and 10 01.      *)
EXTENDS IsoTp

MCKinds  == {"read", "block", "reset"}
MCReq    == [k \in MCKinds |-> IF k = "block" THEN 4 ELSE 0]
MCAns    == [k \in MCKinds |-> IF k = "read" THEN 2 ELSE 0]
MCResets == {"reset"}
=============================================================================
