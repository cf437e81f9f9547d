------------------------------ MODULE OtaClaims ------------------------------
(***************************************************************************)
(* What comments and documents of the repository say of the upgrade and    *)
(* the code does not do.                                                   *)
(***************************************************************************)
EXTENDS OtaSystem

(* boot_trial.c:12 "Interruptions at any point leave the flag set; the     *)
(* next power-on re-runs the whole sequence": a power loss in a boot that  *)
(* has loaded a pending flag and not yet cleared it leaves it on flash.    *)
InterruptionKeepsFlag ==
  [][(PowerLoss /\ pc \in BootPC \ {"init"} /\ meta.backup_valid)
       => Loaded'.backup_valid]_vars

=============================================================================
