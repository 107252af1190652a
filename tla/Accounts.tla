------------------------------ MODULE Accounts ------------------------------
(***************************************************************************)
(* Units and their virtual accounts: createUnits (onboarding.service.ts),  *)
(* which creates each unit's account at Nomba and then the rows, all units *)
(* of a request at the same time, and softDelete (units.service.ts), which *)
(* marks the unit, then the account, then expires the account at Nomba.    *)
(* No two of these are in one transaction.  A unit that failed is asked    *)
(* for again as a new one, since every attempt has its own accountRef.     *)
(***************************************************************************)
CONSTANTS
  Unit,      \* units that are asked for, each with the account made for it
  Request,   \* createUnits requests
  Of,        \* the request each unit is part of
  Deleter,   \* softDelete requests
  NoUnit

ASSUME AccountsAssumption == Of \in [Unit -> Request] /\ NoUnit \notin Unit

VARIABLES
  creation,  \* where the creation of each unit is
  request,   \* where each createUnits request is
  report,    \* the units each request reported as created
  nomba,     \* each account at Nomba
  unit,      \* the unit rows: "none", "live" or "deleted" (deletedAt is set)
  account,   \* the account rows, likewise
  deletion,  \* where each softDelete request is
  spoilt     \* history: units whose last deletion died or was refused by Nomba

vars == <<creation, request, report, nomba, unit, account, deletion, spoilt>>

UnitsOf(r) == {u \in Unit : Of[u] = r}

Init ==
  /\ creation = [u \in Unit |-> "todo"]
  /\ request = [r \in Request |-> "todo"]
  /\ report = [r \in Request |-> {}]
  /\ nomba = [u \in Unit |-> "none"]
  /\ unit = [u \in Unit |-> "none"]
  /\ account = [u \in Unit |-> "none"]
  /\ deletion = [d \in Deleter |-> [at |-> "idle", unit |-> NoUnit]]
  /\ spoilt = {}
-----------------------------------------------------------------------------
\* createUnits, createSingleUnitWithAccount.

rows == <<unit, account>>

(* A unit's promise goes on, also after the answer of its request.         *)
Moves(u, from, to) ==
  /\ creation[u] = from /\ request[Of[u]] \in {"running", "reported"}
  /\ creation' = [creation EXCEPT ![u] = to]

Start(r) ==
  /\ request[r] = "todo"
  /\ request' = [request EXCEPT ![r] = "running"]
  /\ UNCHANGED <<creation, report, nomba, rows, deletion, spoilt>>

(* createVirtualAccount has its token and sends the request.               *)
AskAccount(u) ==
  /\ Moves(u, "todo", "asked")
  /\ nomba' = [nomba EXCEPT ![u] = "asked"]
  /\ UNCHANGED <<request, report, rows, deletion, spoilt>>

(* Nomba may do so long after the request has given up.                    *)
OpenAccount(u) ==
  /\ nomba[u] = "asked"
  /\ nomba' = [nomba EXCEPT ![u] = "open"]
  /\ UNCHANGED <<creation, request, report, rows, deletion, spoilt>>

AnswerAccount(u) ==
  /\ nomba[u] = "open"
  /\ Moves(u, "asked", "account")
  /\ UNCHANGED <<request, report, nomba, rows, deletion, spoilt>>

\* Mutant of MayPersist: the unit is written without waiting for the account.
MayPersistEarly(u) == creation[u] \in {"asked", "account"}

MayPersist(u) == creation[u] = "account"

(* Unit, account and resident link land in one transaction.                *)
Persist(u) ==
  /\ MayPersist(u)
  /\ Moves(u, creation[u], "created")
  /\ unit' = [unit EXCEPT ![u] = "live"]
  /\ account' = [account EXCEPT ![u] = "live"]
  /\ UNCHANGED <<request, report, nomba, deletion, spoilt>>

(* No token, no answer within 20 seconds, an error, or a failed            *)
(* transaction: this unit's promise is rejected.                           *)
CreationFails(u) ==
  /\ \E from \in {"todo", "asked", "account"} : Moves(u, from, "failed")
  /\ UNCHANGED <<request, report, nomba, rows, deletion, spoilt>>

\* Mutant of Settled: the first rejection answers the request (Promise.all).
AnyRejected(r) ==
  \/ \A u \in UnitsOf(r) : creation[u] = "created"
  \/ \E u \in UnitsOf(r) : creation[u] = "failed"

(* Promise.allSettled.                                                     *)
Settled(r) == \A u \in UnitsOf(r) : creation[u] \in {"created", "failed"}

(* With no success at all the answer is an error: nothing was created.     *)
Report(r) ==
  /\ request[r] = "running"
  /\ Settled(r)
  /\ request' = [request EXCEPT ![r] = "reported"]
  /\ report' = [report EXCEPT ![r] = {u \in UnitsOf(r) : creation[u] = "created"}]
  /\ UNCHANGED <<creation, nomba, rows, deletion, spoilt>>

(* The process dies with the request, wherever its units are.              *)
RequestDies(r) ==
  /\ request[r] = "running"
  /\ request' = [request EXCEPT ![r] = "dead"]
  /\ UNCHANGED <<creation, report, nomba, rows, deletion, spoilt>>
-----------------------------------------------------------------------------
\* softDelete.

Goes(d, from, to) ==
  /\ deletion[d].at = from
  /\ deletion' = [deletion EXCEPT ![d].at = to]

(* assertUnit, and the account's row.                                      *)
StartDeletion(d, u) ==
  /\ deletion[d].at = "idle"
  /\ unit[u] = "live"
  /\ deletion' = [deletion EXCEPT ![d] = [at |-> "unit", unit |-> u]]
  /\ UNCHANGED <<creation, request, report, nomba, rows, spoilt>>

DeleteUnit(d) ==
  /\ Goes(d, "unit", "account")
  /\ unit' = [unit EXCEPT ![deletion[d].unit] = "deleted"]
  /\ UNCHANGED <<creation, request, report, nomba, account, spoilt>>

DeleteAccount(d) ==
  /\ Goes(d, "account", "expire")
  /\ account' = [account EXCEPT ![deletion[d].unit] = "deleted"]
  /\ UNCHANGED <<creation, request, report, nomba, unit, spoilt>>

\* Mutant of MayExpire: the unit is asserted once more.
MayExpireLive(d) == deletion[d].at = "expire" /\ unit[deletion[d].unit] = "live"

MayExpire(d) == deletion[d].at = "expire"

(* expireVirtualAccount; one that is expired already is answered with a    *)
(* 404, which is as good.                                                  *)
ExpireAccount(d) ==
  /\ MayExpire(d)
  /\ Goes(d, "expire", "idle")
  /\ nomba' = [nomba EXCEPT ![deletion[d].unit] = "expired"]
  /\ UNCHANGED <<creation, request, report, rows, spoilt>>

(* No other request is deleting the same unit.                             *)
Alone(d) ==
  \A e \in Deleter \ {d} : deletion[e].at # "idle" => deletion[e].unit # deletion[d].unit

(* Nomba refuses, or does it and is not heard, which is logged; or the     *)
(* request dies at an await.                                               *)
DeletionFails(d) ==
  /\ \E from \in {"unit", "account", "expire"} : Goes(d, from, "idle")
  /\ spoilt' = IF Alone(d) THEN spoilt \cup {deletion[d].unit} ELSE spoilt
  /\ \/ UNCHANGED nomba
     \/ /\ deletion[d].at = "expire"
        /\ nomba' = [nomba EXCEPT ![deletion[d].unit] = "expired"]
  /\ UNCHANGED <<creation, request, report, rows>>

Delete(d) == DeleteUnit(d) \/ DeleteAccount(d) \/ ExpireAccount(d)

Next ==
  \/ \E r \in Request : Start(r) \/ Report(r) \/ RequestDies(r)
  \/ \E u \in Unit : \/ AskAccount(u) \/ OpenAccount(u) \/ AnswerAccount(u)
                     \/ Persist(u) \/ CreationFails(u)
  \/ \E d \in Deleter : \/ \E u \in Unit : StartDeletion(d, u)
                        \/ Delete(d) \/ DeletionFails(d)

(* Node runs a deletion under way to its end, unless it dies.              *)
Fairness == \A d \in Deleter : WF_vars(Delete(d))

Spec == Init /\ [][Next]_vars /\ Fairness
-----------------------------------------------------------------------------
(* Every variable is of its type.                                          *)
TypeOK ==
  /\ creation \in [Unit -> {"todo", "asked", "account", "created", "failed"}]
  /\ request \in [Request -> {"todo", "running", "reported", "dead"}]
  /\ report \in [Request -> SUBSET Unit]
  /\ nomba \in [Unit -> {"none", "asked", "open", "expired"}]
  /\ unit \in [Unit -> {"none", "live", "deleted"}]
  /\ account \in [Unit -> {"none", "live", "deleted"}]
  /\ deletion \in [Deleter -> [at : {"idle", "unit", "account", "expire"},
                               unit : Unit \cup {NoUnit}]]
  /\ spoilt \subseteq Unit

(* A unit that is shown has an account that takes money, whatever fails    *)
(* while it is created and however many requests delete it: "a unit is     *)
(* never persisted without its account" (onboarding.service.ts 251-255).   *)
LiveUnitCanBePaid ==
  \A u \in Unit : unit[u] = "live" => account[u] = "live" /\ nomba[u] = "open"

(* The answer to the manager is the truth once it is given, although the   *)
(* units are created side by side and fail on their own: what it names     *)
(* exists, and what it leaves out will not come into being later (lines    *)
(* 195-228).                                                               *)
ReportIsTrue ==
  \A r \in Request : request[r] = "reported" =>
    report[r] = {u \in UnitsOf(r) : unit[u] # "none"}

(* The account of a deleted unit takes no more money in the end, also if   *)
(* several requests delete the unit and some of them die half-way, unless  *)
(* the last of them was cut short or Nomba refused it                      *)
(* (units.service.ts 32-35).                                               *)
DeletedAccountsExpire ==
  \A u \in Unit : unit[u] = "deleted" ~> (nomba[u] = "expired" \/ u \in spoilt)

(* The inductive invariant: rows and account follow the creation, and what *)
(* a deletion has still to do bounds what it can have undone.              *)
CreationInv ==
  \A u \in Unit :
    /\ creation[u] = "created" <=> unit[u] # "none"
    /\ unit[u] = "none" <=> account[u] = "none"
    /\ unit[u] = "none" => nomba[u] # "expired"
    /\ creation[u] = "account" => nomba[u] = "open"
DeletionInv ==
  \A d \in Deleter : deletion[d].at # "idle" =>
    LET u == deletion[d].unit
    IN  /\ u \in Unit /\ unit[u] # "none"
        /\ deletion[d].at \in {"account", "expire"} => unit[u] = "deleted"
ReportInv ==
  \A r \in Request : request[r] = "reported" =>
    /\ Settled(r)
    /\ report[r] = {u \in UnitsOf(r) : creation[u] = "created"}
IInv == TypeOK /\ CreationInv /\ DeletionInv /\ ReportInv /\ LiveUnitCanBePaid
=============================================================================
