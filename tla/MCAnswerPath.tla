---------------------------- MODULE MCAnswerPath ----------------------------
(* Instances of AnswerPath for TLC.                                         *)
EXTENDS AnswerPath

(* Prefixes below, between and above the entries.                          *)
MCPrefixes == 1..7
MCTable == <<2, 4, 6>>
MCUnreadable == {4}
MCOrder == <<"sogou", "360">>
=============================================================================
