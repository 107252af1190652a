-------------------------------- MODULE Screen --------------------------------
(***************************************************************************)
(* What the dashboard promises its manager: it "updates without a manual   *)
(* refresh" (use-live-updates.ts 6-8, PRD 8).  The books change, what is   *)
(* shown may be redrawn or edited, the dashboard is left and opened again; *)
(* but while it is open it does not go on to show anything but the books.  *)
(***************************************************************************)
CONSTANT Copy   \* what the books may hold and a screen may show

VARIABLES
  truth,   \* what the books hold
  shown,   \* what the screen shows
  on       \* a manager is looking at the dashboard

vars == <<truth, shown, on>>

Init == truth \in Copy /\ shown \in Copy /\ on = FALSE

Change == truth' \in Copy /\ UNCHANGED <<shown, on>>
Redraw == shown' \in Copy /\ UNCHANGED <<truth, on>>
Switch == on' = ~on /\ shown' \in Copy /\ UNCHANGED truth

Next == Change \/ Redraw \/ Switch

CatchesUp == []<>(on => shown = truth)

Spec == Init /\ [][Next]_vars /\ CatchesUp
===============================================================================
