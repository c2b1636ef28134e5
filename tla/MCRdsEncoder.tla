----------------------------- MODULE MCRdsEncoder -----------------------------
(* RdsEncoder with the group types of an instance.                           *)
EXTENDS RdsEncoder

ThreeKinds == <<"0A", "2A", "3A">>
=============================================================================
