------------------------------ MODULE MCQiLink ------------------------------
(* Chips for TLC: one whose frames hold single header bytes, one with      *)
(* frames of the greatest length, one that sends the shortest frames only, *)
(* one with a frame that ends like a header begins, one whose report holds *)
(* whole headers and lengths, and one whose command is the greatest length *)
(* to a parser that has lost the length before it.                         *)
EXTENDS QiLink

Report(data, seq) == [cmd |-> 1, data |-> data, seq |-> seq]
IapAck(data) == [cmd |-> CmdIap, data |-> data, seq |-> 0]

MCPlain == <<Report(<<0, Header1, 3, 1>>, 1), IapAck(<<1>>), Report(<<2>>, 7)>>
MCLong  == <<Report([k \in 1..MaxData |-> k], 1), Report(<<>>, 2)>>
MCShort == <<IapAck(<<>>)>>
MCStray == <<Report(<<80>>, 2), IapAck(<<>>)>>
MCTricky == <<Report(<<Header1, Header2, 5, 1>>, 1), IapAck(<<>>)>>
MCLength == <<[cmd |-> MaxData + 2, data |-> [k \in 1..13 |-> k], seq |-> 7]>>
MCScripts == {MCPlain, MCLong, MCShort, MCStray, MCTricky, MCLength}
MCNoise == {0, Header1, Header2, CmdIap, MaxData + 2}
=============================================================================
