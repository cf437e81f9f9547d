------------------------------- MODULE Upgrade -------------------------------
(***************************************************************************)
(* What the dual-region upgrade promises, without flash, pages or boots.   *)
(* One image is installed: the one the device runs, or will run as soon as *)
(* it is left in peace.  At most one is staged to replace it, and the host *)
(* may hold a promise for it.  A flash operation that fails voids all of   *)
(* it: what a broken device does is left open.                             *)
(***************************************************************************)
CONSTANTS Images, Factory, None

VARIABLES installed, staged, promised, broken

uvars == <<installed, staged, promised, broken>>

UpgradeTypeOK ==
  /\ installed \in Images
  /\ staged \in Images \cup {None}
  /\ promised \in Images \cup {None}
  /\ broken \in BOOLEAN

Init == /\ installed = Factory
        /\ staged = None
        /\ promised = None
        /\ broken = FALSE

(* One upgrade at a time: not before the host has started over. *)
Stage(i) ==
  /\ staged = None
  /\ promised = None
  /\ staged' = i
  /\ UNCHANGED <<installed, promised>>

Promise ==
  /\ staged # None
  /\ promised' = staged
  /\ UNCHANGED <<installed, staged>>

(* The point of no return: all of the staged image, or nothing of it. *)
Install ==
  /\ staged # None
  /\ installed' = staged
  /\ UNCHANGED <<staged, promised>>

Clear ==
  /\ staged # None
  /\ installed = staged
  /\ staged' = None
  /\ UNCHANGED <<installed, promised>>

(* A staged image that nobody was promised may be lost. *)
Lose ==
  /\ staged # None
  /\ promised # staged
  /\ staged' = None
  /\ UNCHANGED <<installed, promised>>

(* The host starts over. *)
StartOver ==
  /\ staged = None
  /\ promised' = None
  /\ UNCHANGED <<installed, staged>>

Step ==
  \/ \E i \in Images : Stage(i)
  \/ Promise
  \/ Install
  \/ Clear
  \/ Lose
  \/ StartOver

Break == broken'

Next == Break \/ (Step /\ UNCHANGED broken)

Spec == Init /\ [][Next]_uvars
=============================================================================
