---------------------------- MODULE MCOtaSystem ----------------------------
(* Instance for TLC: a factory image, an upgrade that fills the region, an  *)
(* image that is well formed but unsigned, and, in the larger instance, a   *)
(* signed one with an initial stack pointer that the jump refuses.          *)
EXTENDS OtaInvariants, OtaRefinement, OtaClaims

CONSTANTS old, new, forged, odd

MCImages == {old, new, forged}
MCSize   == [i \in MCImages |-> CASE i = old -> NUnits - 1
                                   [] i = new -> NUnits
                                   [] OTHER -> 1]
MCSigned == {new}

MCAllImages == MCImages \union {odd}
MCAllSize   == [i \in MCAllImages |-> IF i = odd THEN 1 ELSE MCSize[i]]
MCAllSigned == MCSigned \union {odd}
=============================================================================
