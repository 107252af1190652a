------------------------------- MODULE Payouts -------------------------------
(***************************************************************************)
(* Payments to vendors: payVendor (payouts.service.ts) inserts a payout    *)
(* row, asks Nomba for a bank transfer and writes what it was told into    *)
(* the row, while the payout webhooks (webhook.controller.ts) write what   *)
(* became of the transfer into the same row.  The transfer call may fail   *)
(* before Nomba hears of it, be answered late, or not be answered in time; *)
(* the request may die at any await.  Every request draws a merchantTxRef  *)
(* of its own, so a payout and the request that makes it have one name.    *)
(* The vendor's row is only read here and is left out.                     *)
(***************************************************************************)
CONSTANT Payout   \* payVendor requests, each with its payout

VARIABLES
  pc,       \* where each request is
  status,   \* the status in each payout row; "none" if there is no row
  result,   \* what each request was told: its local variable `status`
  bank      \* what Nomba has done with each transfer

vars == <<pc, status, result, bank>>

PayoutStatus == {"PENDING", "SUCCESS", "FAILED", "REVERSED"}
Event        == {"payout_success", "payout_failed", "payout_refund"}

Init ==
  /\ pc = [p \in Payout |-> "start"]
  /\ status = [p \in Payout |-> "none"]
  /\ result = [p \in Payout |-> "PENDING"]
  /\ bank = [p \in Payout |-> "unknown"]
-----------------------------------------------------------------------------
\* payVendor.

Goto(p, label)       == pc' = [pc EXCEPT ![p] = label]
Answered(p, outcome) == Goto(p, "answered") /\ result' = [result EXCEPT ![p] = outcome]

(* The row is inserted before the transfer is asked for.                   *)
CreatePayout(p) ==
  /\ pc[p] = "start"
  /\ Goto(p, "created")
  /\ status' = [status EXCEPT ![p] = "PENDING"]
  /\ UNCHANGED <<result, bank>>

\* Mutant of MaySend: the transfer is asked for before the row is written.
SendBeforeCreating(p) == pc[p] \in {"start", "created"}

MaySend(p) == pc[p] = "created"

(* Nomba receives the request of transferToBank.                           *)
SendTransfer(p) ==
  /\ MaySend(p)
  /\ Goto(p, "sent")
  /\ bank' = [bank EXCEPT ![p] = "processing"]
  /\ UNCHANGED <<status, result>>

(* No token, or no connection: transferToBank throws, nothing was sent.    *)
NotSent(p) ==
  /\ MaySend(p)
  /\ Answered(p, "FAILED")
  /\ UNCHANGED <<status, bank>>

\* Mutant of AnswerStatus: a transfer that Nomba accepted is taken for done.
AcceptedIsSuccess(reply) == IF reply = "failed" THEN "PENDING" ELSE "SUCCESS"

(* Everything but the word SUCCESS is pending, a failure in words as well. *)
AnswerStatus(reply) == IF reply = "executed" THEN "SUCCESS" ELSE "PENDING"

(* What Nomba may have replied: the transfer's state now or before.        *)
Replies(p) ==
  {"processing"} \cup {reply \in {"executed", "failed"} :
                         bank[p] = reply \/ (bank[p] = "refunded" /\ reply = "executed")}

Answer(p) ==
  /\ pc[p] = "sent"
  /\ \E reply \in Replies(p) : Answered(p, AnswerStatus(reply))
  /\ UNCHANGED <<status, bank>>

(* An error response, or none within 20 seconds: transferToBank throws.    *)
Throws(p) ==
  /\ pc[p] = "sent"
  /\ Answered(p, "FAILED")
  /\ UNCHANGED <<status, bank>>

(* The last update writes the outcome of the call, whatever the row says.  *)
UpdatePayout(p) ==
  /\ pc[p] = "answered"
  /\ Goto(p, "done")
  /\ status' = [status EXCEPT ![p] = result[p]]
  /\ UNCHANGED <<result, bank>>

(* The process dies or the last update fails: the row stays as it is.      *)
Abort(p) ==
  /\ pc[p] \in {"created", "sent", "answered"}
  /\ Goto(p, "dead")
  /\ UNCHANGED <<status, result, bank>>
-----------------------------------------------------------------------------
\* Nomba.

Becomes(p, from, to) ==
  /\ bank[p] = from
  /\ bank' = [bank EXCEPT ![p] = to]
  /\ UNCHANGED <<pc, status, result>>

Execute(p) == Becomes(p, "processing", "executed")
Decline(p) == Becomes(p, "processing", "failed")
Refund(p)  == Becomes(p, "executed", "refunded")

(* The events Nomba has raised for a transfer.                             *)
RaisedIn == [payout_success |-> {"executed", "refunded"},
             payout_failed  |-> {"failed"},
             payout_refund  |-> {"refunded"}]

Raised(p) == {e \in Event : bank[p] \in RaisedIn[e]}

\* dispatch, the payout branch.

(* The row is found by merchantTxRef, whatever its status.                 *)
Recorded(p) == status[p] # "none"

EventStatus(e) == IF e = "payout_success" THEN "SUCCESS"
                  ELSE IF e = "payout_refund" THEN "REVERSED" ELSE "FAILED"

(* Webhooks come at any time, in any order, again and again, or never.  A  *)
(* row that is not found is answered with a 200 all the same.              *)
HandleEvent(p, e) ==
  /\ e \in Raised(p)
  /\ status' = IF Recorded(p) THEN [status EXCEPT ![p] = EventStatus(e)] ELSE status
  /\ UNCHANGED <<pc, result, bank>>

Call(p)     == SendTransfer(p) \/ NotSent(p) \/ Answer(p) \/ Throws(p) \/ UpdatePayout(p)
Transfer(p) == Execute(p) \/ Decline(p)
Webhook(p)  == \E e \in Event : HandleEvent(p, e)

Next == \E p \in Payout :
          \/ CreatePayout(p) \/ Call(p) \/ Abort(p)
          \/ Transfer(p) \/ Refund(p) \/ Webhook(p)

Spec == Init /\ [][Next]_vars
-----------------------------------------------------------------------------
(* Every variable is of its type.                                          *)
TypeOK ==
  /\ pc \in [Payout -> {"start", "created", "sent", "answered", "done", "dead"}]
  /\ status \in [Payout -> PayoutStatus \cup {"none"}]
  /\ result \in [Payout -> PayoutStatus]
  /\ bank \in [Payout -> {"unknown", "processing", "executed", "failed", "refunded"}]

(* Money never leaves without a record, wherever the request dies: a       *)
(* transfer that Nomba knows of has a row, so each of its events finds one.*)
MoneyIsRecorded == \A p \in Payout : bank[p] # "unknown" => status[p] # "none"

(* A row never claims more than what happened, however calls and webhooks  *)
(* interleave: SUCCESS was executed, REVERSED was refunded, and FAILED was *)
(* declined or is the request's own guess after a call that threw.         *)
StatusHasReason ==
  \A p \in Payout :
    /\ status[p] = "SUCCESS"  => bank[p] \in {"executed", "refunded"}
    /\ status[p] = "REVERSED" => bank[p] = "refunded"
    /\ status[p] = "FAILED"   => bank[p] = "failed" \/ result[p] = "FAILED"

(* The inductive invariant.                                                *)
RequestInv ==
  \A p \in Payout :
    /\ status[p] = "none" <=> pc[p] = "start"
    /\ pc[p] \in {"start", "created"} => bank[p] = "unknown"
    /\ result[p] = "SUCCESS" => bank[p] \in {"executed", "refunded"}
    /\ pc[p] \in {"start", "created", "sent"} => result[p] = "PENDING"
    /\ result[p] # "REVERSED"

IInv == TypeOK /\ RequestInv /\ StatusHasReason
=============================================================================
