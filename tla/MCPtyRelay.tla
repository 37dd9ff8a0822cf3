----------------------------- MODULE MCPtyRelay -----------------------------
(* The instances of PtyRelay that TLC checks. *)
EXTENDS PtyRelay

NoInput == <<>>
OneLine == <<"line">>
TwoLines == <<"line", "line">>
ThreeLines == <<"line", "line", "line">>
Unfinished == <<"line", "part">>
=============================================================================
