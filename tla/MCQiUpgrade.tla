---------------------------- MODULE MCQiUpgrade ----------------------------
(* An instance of QiUpgrade for TLC: the tool on a bad link, and a host    *)
(* that keeps to the announced P2 on a better one.                         *)
EXTENDS QiUpgrade

MCTool == [eager |-> FALSE, retries |-> 2, losses |-> 2, noise |-> 2]
MCHasty == [eager |-> TRUE, retries |-> 1, losses |-> 1, noise |-> 1]
MCKinds == {MCTool, MCHasty}
MCToolOnly == {MCTool}
=============================================================================
