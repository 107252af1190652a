--------------------------- MODULE VendorPayments ---------------------------
(***************************************************************************)
(* Payouts over the access token: transferToBank (nomba.service.ts) awaits *)
(* getAccessToken before it posts the transfer, so each payVendor is one   *)
(* of the callers of NombaToken, beside those that create accounts, look   *)
(* them up or list banks.                                                  *)
(***************************************************************************)
EXTENDS Payouts, NombaToken

ASSUME PayoutsCallNomba == Payout \subseteq Caller

PayingInit == Init /\ TokenInit

(* The first statement of transferToBank.                                  *)
AskToken(p) == MaySend(p) /\ Asks(p)

(* With a token the transfer is sent, or the connection fails; without one *)
(* transferToBank has thrown.                                              *)
Posts(p) ==
  \/ caller[p].at = "sent" /\ SendTransfer(p)
  \/ caller[p].at \in {"sent", "failed"} /\ NotSent(p)

Pays(p) ==
  \/ CreatePayout(p) \/ Posts(p) \/ Answer(p) \/ Throws(p) \/ UpdatePayout(p) \/ Abort(p)
  \/ Transfer(p) \/ Refund(p) \/ Webhook(p)

(* The rest of what goes on around the token.                              *)
Tokens ==
  \/ \E p \in Payout : AskToken(p)
  \/ \E c \in Caller \ Payout : Asks(c) \/ EndRequest(c)
  \/ \E f \in Fetch : Refresh(f) \/ Complete(f)
  \/ Tick

PayingNext ==
  \/ (\E p \in Payout : Pays(p)) /\ UNCHANGED tokenVars
  \/ Tokens /\ UNCHANGED vars

PayingSpec == PayingInit /\ [][PayingNext]_<<vars, tokenVars>> /\ TokenFairness
=============================================================================
