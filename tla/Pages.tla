-------------------------------- MODULE Pages --------------------------------
(***************************************************************************)
(* Two forms with a life of their own on top of that of Forms: the vendor  *)
(* dialog, which looks the holder of an account up at Nomba                *)
(* (vendor-dialog.tsx), and the dialog that creates a billing run, which   *)
(* splits a total over the units that are picked (app.billing.tsx,         *)
(* unit-picker.tsx).                                                       *)
(***************************************************************************)
EXTENDS Forms, FiniteSets

CONSTANTS
  Account,   \* pairs of a bank and an account number
  NoAccount,
  Lookup,    \* lookups of an account's holder, each made once
  Unit,      \* units the page may list
  Group,     \* what the picker's sections are made by, "no group" included
  GroupOf,   \* the group of each unit
  AllUnits,  \* the choice of all units, however many there are
  Amount     \* totals and amounts that may be typed

ASSUME PagesAssumption ==
  /\ NoAccount \notin Account /\ AllUnits \notin Unit
  /\ IsFiniteSet(Unit) /\ GroupOf \in [Unit -> Group]
  /\ Amount \subseteq Nat \ {0}

VARIABLES
  page,       \* what is looked at: any "form", the "vendor" or the "billing" one
  entered,    \* the account in the vendor's fields, if it is valid
  verifying,
  confirmed,  \* the account whose holder's name is shown as confirmed
  named,      \* the opening its name field was filled, typed or looked up in
  lookup,     \* every lookup, with the account and the opening it is for
  units,      \* the units the page lists
  selected,   \* AllUnits, or the units that are ticked
  total,      \* the total to divide, or 0
  amount,     \* the charge of each unit
  relisted    \* history: the list has changed under AllUnits since the split

lookupVars  == <<entered, verifying, confirmed, named, lookup>>
billingVars == <<units, selected, total, amount, relisted>>
pageVars    == <<formVars, page, lookupVars, billingVars>>

NotLooked == [at |-> "unsent", account |-> NoAccount, mount |-> Blank, opening |-> Blank]

InitPages ==
  /\ InitForm
  /\ page \in {"form", "vendor", "billing"}
  /\ page = "vendor" => form = VendorDialog
  /\ page = "billing" => form = CreateBillingDialog
  /\ entered = NoAccount /\ verifying = FALSE /\ confirmed = NoAccount
  /\ named = Blank
  /\ lookup = [l \in Lookup |-> NotLooked]
  /\ units = Unit /\ selected = AllUnits
  /\ total = 0 /\ amount = 0 /\ relisted = FALSE
-----------------------------------------------------------------------------
\* The vendor dialog.

(* hydrate: the fields of the vendor, or none for a new one.               *)
Hydrate(a) ==
  /\ Open
  /\ entered' = a
  /\ named' \in IF a = NoAccount THEN {Blank, opening'} ELSE {opening'}
  /\ confirmed' = NoAccount /\ verifying' = FALSE
  /\ UNCHANGED lookup

(* Another bank or number: clearConfirmation.                              *)
EnterAccount(a) ==
  /\ editing
  /\ entered' = a
  /\ confirmed' = NoAccount
  /\ UNCHANGED <<formVars, verifying, named, lookup>>

EnterName ==
  /\ editing
  /\ named' \in {Blank, opening}
  /\ UNCHANGED <<formVars, entered, verifying, confirmed, lookup>>

Verify(l) ==
  /\ editing /\ entered # NoAccount /\ ~verifying
  /\ lookup[l].at = "unsent"
  /\ lookup' = [lookup EXCEPT ![l] = [at |-> "sent", account |-> entered,
                                      mount |-> mount, opening |-> opening]]
  /\ verifying' = TRUE
  /\ confirmed' = NoAccount
  /\ UNCHANGED <<formVars, entered, named>>

(* The holder is shown and written into the name field, whatever the       *)
(* fields say and whichever opening it is by now; a failure changes        *)
(* neither.                                                                *)
LookupEnds(l) ==
  /\ lookup[l].at = "sent"
  /\ lookup' = [lookup EXCEPT ![l].at = "over"]
  /\ IF lookup[l].mount = mount
     THEN /\ verifying' = FALSE
          /\ \/ confirmed' = lookup[l].account /\ named' = lookup[l].opening
             \/ UNCHANGED <<confirmed, named>>
     ELSE UNCHANGED <<verifying, confirmed, named>>
  /\ UNCHANGED <<formVars, entered>>

VendorLeft ==
  /\ Unmount
  /\ entered' = NoAccount /\ confirmed' = NoAccount /\ named' = Blank
  /\ verifying' = FALSE
  /\ UNCHANGED lookup

(* Saving asks for a name and a valid account, not for a confirmed one.    *)
Vendor ==
  \/ VendorLeft \/ EnterName
  \/ \E a \in Account \cup {NoAccount} : Hydrate(a) \/ EnterAccount(a)
  \/ \E l \in Lookup : Verify(l) \/ LookupEnds(l)
  \/ /\ \/ Close
        \/ \E r \in Request : \/ entered # NoAccount /\ named # Blank /\ Submit(r)
                              \/ Fails(r) \/ Succeeds(r) \/ Unheard(r)
     /\ UNCHANGED lookupVars
-----------------------------------------------------------------------------
\* The billing dialog and its picker.

Picked(choice) == IF choice = AllUnits THEN units ELSE choice
Target(choice) == Cardinality(Picked(choice))

(* Math.round.                                                             *)
Share(t, n) == (2 * t + n) \div (2 * n)

Splits(choice, t) == t # 0 /\ Target(choice) > 0

Split(choice, t) ==
  /\ amount' = IF Splits(choice, t) THEN Share(t, Target(choice)) ELSE amount
  /\ relisted' = (relisted /\ ~Splits(choice, t))

\* Mutant of Resplit: picking units leaves the amount as it is.
NotResplit(choice) == UNCHANGED <<amount, relisted>>

(* The effect on the selection.                                            *)
Resplit(choice) == Split(choice, total)

TypeTotal(t) ==
  /\ total' = t
  /\ Split(selected, t)
  /\ UNCHANGED <<units, selected>>

TypeAmount(a) ==
  /\ amount' = a
  /\ total' = 0 /\ relisted' = FALSE
  /\ UNCHANGED <<units, selected>>

Pick(choice) ==
  /\ selected' = choice
  /\ Resplit(choice)
  /\ UNCHANGED <<units, total>>

Ticked == IF selected = AllUnits THEN {} ELSE selected

Section(g) == {u \in units : GroupOf[u] = g}

(* A group's box ticks the rest of it, or takes all of it out.             *)
Toggled(s) == IF s \subseteq Ticked THEN Ticked \ s ELSE Ticked \cup s

Picks ==
  \/ selected # AllUnits /\ Pick(AllUnits)
  \/ selected = AllUnits /\ Pick({})
  \/ selected # AllUnits /\ \E g \in Group : Section(g) # {} /\ Pick(Toggled(Section(g)))
  \/ selected # AllUnits /\ \E u \in units : Pick(Toggled({u}))

(* A refetch; units that are gone stay ticked, and nothing is split anew.  *)
Relist ==
  /\ \E listed \in SUBSET Unit : units' = listed
  /\ relisted' = (relisted \/ selected = AllUnits)
  /\ UNCHANGED <<selected, total, amount>>

BillingLeft ==
  /\ Unmount
  /\ selected' = AllUnits /\ total' = 0 /\ amount' = 0 /\ relisted' = FALSE
  /\ UNCHANGED units

Billing ==
  \/ BillingLeft
  \/ Relist /\ UNCHANGED formVars
  \/ /\ editing /\ UNCHANGED formVars
     /\ \/ Picks
        \/ \E a \in Amount \cup {0} : TypeTotal(a) \/ TypeAmount(a)
  \/ /\ \/ Open \/ Close
        \/ \E r \in Request : \/ Target(selected) > 0 /\ Submit(r)
                              \/ Fails(r) \/ Succeeds(r) \/ Unheard(r)
     /\ UNCHANGED billingVars
-----------------------------------------------------------------------------
NextPages ==
  \/ page = "form" /\ NextForm /\ UNCHANGED <<page, lookupVars, billingVars>>
  \/ page = "vendor" /\ Vendor /\ UNCHANGED <<page, billingVars>>
  \/ page = "billing" /\ Billing /\ UNCHANGED <<page, lookupVars>>

PagesSpec == InitPages /\ [][NextPages]_pageVars
-----------------------------------------------------------------------------
PagesTypeOK ==
  /\ FormTypeOK
  /\ page \in {"form", "vendor", "billing"}
  /\ {entered, confirmed} \subseteq Account \cup {NoAccount}
  /\ verifying \in BOOLEAN /\ named \in Opening \cup {Blank}
  /\ lookup \in [Lookup -> [at : {"unsent", "sent", "over"},
                            account : Account \cup {NoAccount},
                            mount : Mounting \cup {Blank},
                            opening : Opening \cup {Blank}]]
  /\ units \subseteq Unit
  /\ selected \in SUBSET Unit \cup {AllUnits}
  /\ total \in Nat /\ amount \in Nat /\ relisted \in BOOLEAN

(* The name that is shown as confirmed is that of the account in the       *)
(* fields, for which editing them clears it, "to avoid showing a name that *)
(* no longer applies" (vendor-dialog.tsx 58-60).  The code does not keep   *)
(* it: a lookup that is under way when they are edited shows its answer.   *)
ConfirmationApplies == confirmed # NoAccount => confirmed = entered

(* The name that the vendor dialog shows, and sends when it is saved, was  *)
(* filled in, typed or looked up since it was opened, "so a reopened       *)
(* dialog reflects the current vendor, not stale edits" (46-47).  The code *)
(* does not keep it: the answer to a lookup of an earlier opening is       *)
(* written into the name field of the one that is open by then.            *)
NameIsOfThisOpening == page = "vendor" /\ editing => named \in {opening, Blank}

(* While a total is entered, every unit that is picked is charged its      *)
(* share of it, which the dialog shows beside the total ("Re-split when    *)
(* unit selection changes while a total is entered", app.billing.tsx 167), *)
(* however units, groups, totals and amounts are changed about and the     *)
(* dialog is closed and reopened - unless the list of units has changed    *)
(* under "all units", which nothing splits anew.                           *)
ShareIsSplit ==
  Splits(selected, total) /\ ~relisted => amount = Share(total, Target(selected))
=============================================================================
