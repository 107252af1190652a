-------------------------- MODULE MCVendorPayments --------------------------
(***************************************************************************)
(* VendorPayments with one payout, as payouts share nothing but the token, *)
(* one other caller, and three fetches under way at a time.                *)
(***************************************************************************)
EXTENDS VendorPayments
=============================================================================
