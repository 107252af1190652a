------------------------------ MODULE MCIngest ------------------------------
(***************************************************************************)
(* Two transfers, two webhook workers and the backfill job, for Ingest.    *)
(***************************************************************************)
EXTENDS Ingest, TLC

CONSTANTS t1, t2

MCTransfer == {t1, t2}

(* One reference for the webhook and the API, and some of neither.        *)
MCRef     == 1 .. 4
OneRef    == (t1 :> 1) @@ (t2 :> 2)

(* Transfers that are far apart and have senders of their own.             *)
Itself == {<<t, t>> : t \in MCTransfer}
=============================================================================
