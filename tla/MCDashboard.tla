----------------------------- MODULE MCDashboard -----------------------------
(* A small estate: one exception, one unit, one group, one manager, and    *)
(* another browser or a webhook beside her.                                *)
EXTENDS Dashboard

CONSTANTS e1, a, g

MCClicks ==
  {[name |-> "resolve", exc |-> e1], [name |-> "assign", unit |-> a, group |-> g]}

MCOutsideOps ==
  {[name |-> "raise", exc |-> e1], [name |-> "deleteGroup", group |-> g]}
=============================================================================
