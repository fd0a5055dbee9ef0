----------------------------- MODULE MCHostGroups -----------------------------
(* TLC instance of HostGroups: two nodes, two host groups. *)
EXTENDS HostGroups

MCOptions == OptionType
XcpOptions == {[platform |-> "xcpng", garbled |-> FALSE]}
VmeOptions == {[platform |-> "hpevme", garbled |-> FALSE]}
=============================================================================
