------------------------------- MODULE MCPages -------------------------------
(***************************************************************************)
(* Pages with three units, two of them in one group.                       *)
(***************************************************************************)
EXTENDS Pages

CONSTANTS u1, u2, u3, tower, alone

MCGroupOf == [u \in Unit |-> IF u = u3 THEN alone ELSE tower]
=============================================================================
