-------------------------------- MODULE Forms --------------------------------
(***************************************************************************)
(* The life of a form of the frontend: it is mounted with its page, opened *)
(* on one thing after another, filled in, submitted, closed and opened     *)
(* again, while the answers to earlier submissions are still to come.  All *)
(* forms are components of the same make (useState, an effect or a handler *)
(* that resets, an async submit); they share no state, so one of them is   *)
(* picked, and a record says in what it differs from the others.           *)
(***************************************************************************)
EXTENDS Naturals

CONSTANTS
  MaxMounts,    \* bound: times the form is mounted
  MaxOpenings,  \* bound: times it is opened, on any thing
  MaxRequests   \* bound: times it is submitted

ASSUME FormsAssumption ==
  MaxMounts \in Nat \ {0} /\ MaxOpenings \in Nat /\ MaxRequests \in Nat

Mounting == 1..MaxMounts
Opening  == 1..MaxOpenings
Blank    == 0
Request  == 1..MaxRequests

(* place: what shows it - a "dialog", a "sheet" in which editing has to be *)
(*   started, a "page", of which it is part;                               *)
(* fills: opening it (or starting to edit) fills it from what it is        *)
(*   opened on; forgets: closing it empties it, or stops the editing;      *)
(* guarded: it cannot be submitted while busy, with no key either;         *)
(* awaits: it waits for the answer; empties: a success empties it;         *)
(* after: what a success does - "closes" it, "stops" the editing, "leaves" *)
(*   the page, or "stays".                                                 *)
Kind == [place : {"dialog", "sheet", "page"}, fills : BOOLEAN, forgets : BOOLEAN,
         guarded : BOOLEAN, awaits : BOOLEAN, empties : BOOLEAN,
         after : {"closes", "stops", "leaves", "stays"}]

(* Fields kept from one opening to the next; closes when all went well.    *)
Plain == [place |-> "dialog", fills |-> FALSE, forgets |-> FALSE, guarded |-> TRUE,
          awaits |-> TRUE, empties |-> FALSE, after |-> "closes"]

Filled == [Plain EXCEPT !.fills = TRUE]
Tile   == [Filled EXCEPT !.place = "page", !.after = "stays"]
Door   == [Plain EXCEPT !.place = "page", !.after = "leaves"]

CreateBillingDialog == Plain
CreateLevyDialog    == [Plain EXCEPT !.empties = TRUE]
RerunBillingDialog  == Filled
ResendAlertDialog   == Filled
SendStatementDialog == Filled
AddUnitDialog       == [Plain EXCEPT !.forgets = TRUE, !.empties = TRUE]
VendorDialog        == Filled

(* Enter submits once more.                                                *)
CreateGroupDialog == [AddUnitDialog EXCEPT !.guarded = FALSE]
RenameRun == [Filled EXCEPT !.place = "sheet", !.forgets = TRUE,
                            !.guarded = FALSE, !.after = "stops"]

EditContact == [RenameRun EXCEPT !.guarded = TRUE]

(* The confirming button is never disabled.                                *)
RemoveUnit   == [RenameRun EXCEPT !.empties = TRUE, !.after = "closes"]
RemoveVendor == [Filled EXCEPT !.guarded = FALSE, !.after = "stays"]

(* "Payout sent", whatever comes of it.                                    *)
PayVendorDialog == [Plain EXCEPT !.awaits = FALSE, !.empties = TRUE]
SimulatePayment == [Plain EXCEPT !.awaits = FALSE]

EstateTab  == Tile
RulesTab   == Tile
LoginPage  == Door
SignupPage == Door
StepEstate == Door
StepUnits  == [Door EXCEPT !.after = "stays"]

Forms ==
  {CreateBillingDialog, CreateLevyDialog, RerunBillingDialog, ResendAlertDialog,
   SendStatementDialog, AddUnitDialog, VendorDialog, CreateGroupDialog, RenameRun,
   EditContact, RemoveUnit, RemoveVendor, PayVendorDialog, SimulatePayment,
   EstateTab, RulesTab, LoginPage, SignupPage, StepEstate, StepUnits}

VARIABLES
  form,     \* the form this is about
  mount,    \* which mounting of it
  opening,  \* the opening it is in, or was in last
  open,
  editing,  \* its fields are shown
  draft,    \* the opening its fields were filled or typed in, or Blank
  busy,
  request   \* every submission, with the mounting it was made in

formVars == <<form, mount, opening, open, editing, draft, busy, request>>

Unsent == [at |-> "unsent", mount |-> Blank]

InitForm ==
  /\ form \in Forms
  /\ mount = 1 /\ opening = Blank
  /\ open = FALSE /\ editing = FALSE
  /\ draft = Blank /\ busy = FALSE
  /\ request = [r \in Request |-> Unsent]
-----------------------------------------------------------------------------
\* Mutant of Transient: the effect on what is shown does not run.
Leaking == editing

(* What an opening or a closing leaves of the editing in a sheet.          *)
Transient == FALSE

\* Mutant of BusyWhenOpened: opening a form makes it ready again.
Ready == FALSE

(* Opening a form does not ask about submissions under way.                *)
BusyWhenOpened == busy

Open ==
  /\ ~open /\ opening < MaxOpenings
  /\ opening' = opening + 1
  /\ open' = TRUE
  /\ editing' = (form.place # "sheet" \/ Transient)
  /\ draft' = IF form.fills /\ form.place # "sheet" THEN opening + 1 ELSE draft
  /\ busy' = BusyWhenOpened
  /\ UNCHANGED <<form, mount, request>>

StartEditing ==
  /\ form.place = "sheet" /\ open /\ ~editing
  /\ editing' = TRUE
  /\ draft' = opening
  /\ UNCHANGED <<form, mount, opening, open, busy, request>>

Type ==
  /\ editing /\ draft = Blank
  /\ draft' = opening
  /\ UNCHANGED <<form, mount, opening, open, editing, busy, request>>

(* Its own buttons, Escape, a click beside it.                             *)
Shut == open' = FALSE /\ editing' = Transient

Close ==
  /\ open /\ form.place # "page"
  /\ Shut
  /\ draft' = IF form.forgets THEN Blank ELSE draft
  /\ UNCHANGED <<form, mount, opening, busy, request>>

StopEditing ==
  /\ form.place = "sheet" /\ editing
  /\ editing' = FALSE
  /\ draft' = Blank
  /\ UNCHANGED <<form, mount, opening, open, busy, request>>

(* Another page, another tab of it, the sheet around it closes: what React *)
(* held of the form is gone, its submissions are not.                      *)
Unmounted ==
  /\ mount < MaxMounts
  /\ mount' = mount + 1
  /\ open' = FALSE /\ editing' = FALSE
  /\ draft' = Blank /\ busy' = FALSE

Unmount == Unmounted /\ UNCHANGED <<form, opening, request>>
-----------------------------------------------------------------------------
\* Submissions.

Submit(r) ==
  /\ editing
  /\ form.guarded => ~busy
  /\ request[r].at = "unsent" /\ \A q \in Request : q < r => request[q].at # "unsent"
  /\ request' = [request EXCEPT ![r] = [at |-> "sent", mount |-> mount]]
  /\ IF form.awaits
     THEN busy' = TRUE /\ UNCHANGED <<open, editing, draft>>
     ELSE /\ Shut
          /\ draft' = IF form.empties THEN Blank ELSE draft
          /\ UNCHANGED busy
  /\ UNCHANGED <<form, mount, opening>>

Ends(r) ==
  /\ request[r].at = "sent"
  /\ request' = [request EXCEPT ![r].at = "over"]
  /\ UNCHANGED <<form, opening>>

(* Nobody hears the answer: the form is gone, or has never waited.         *)
Unheard(r) ==
  /\ Ends(r)
  /\ ~form.awaits \/ request[r].mount # mount
  /\ UNCHANGED <<mount, open, editing, draft, busy>>

Heard(r) == Ends(r) /\ form.awaits /\ request[r].mount = mount

\* Mutant of BusyAfterFailure: the handler has no finally.
BusyStays == busy

BusyAfterFailure == FALSE

Fails(r) ==
  /\ Heard(r)
  /\ busy' = BusyAfterFailure
  /\ UNCHANGED <<mount, open, editing, draft>>

(* The handler does not ask whether it is still the opening it was         *)
(* submitted in.                                                           *)
Succeeds(r) ==
  /\ Heard(r)
  /\ \/ form.after = "leaves" /\ Unmounted
     \/ /\ form.after # "leaves"
        /\ UNCHANGED mount
        /\ busy' = FALSE
        /\ open' = (open /\ form.after # "closes")
        /\ editing' = (editing /\ form.after = "stays")
        /\ draft' = IF form.empties \/ form.after = "stops" THEN Blank ELSE draft

NextForm ==
  \/ Open \/ StartEditing \/ Type \/ Close \/ StopEditing \/ Unmount
  \/ \E r \in Request : Submit(r) \/ Unheard(r) \/ Fails(r) \/ Succeeds(r)

FormSpec == InitForm /\ [][NextForm]_formVars
-----------------------------------------------------------------------------
FormTypeOK ==
  /\ form \in Forms
  /\ mount \in Mounting
  /\ opening \in Opening \cup {Blank}
  /\ open \in BOOLEAN /\ editing \in BOOLEAN /\ busy \in BOOLEAN
  /\ draft \in Opening \cup {Blank}
  /\ request \in [Request -> [at : {"unsent", "sent", "over"},
                              mount : Mounting \cup {Blank}]]

(* Nothing that was typed for one thing, or filled in from it, is shown or *)
(* sent for another, however late answers close, stop and empty what is    *)
(* open by then: "so nothing leaks into the next unit"                     *)
(* (unit-detail-sheet.tsx 45-46).  What an answer types for the user, as   *)
(* it does in the vendor dialog, is another matter: NameIsOfThisOpening.   *)
NothingTypedLeaks ==
  editing /\ (form.fills \/ form.forgets) => draft \in {opening, Blank}

UnderWay == {r \in Request : request[r].at = "sent" /\ request[r].mount = mount}

(* A form is busy while it waits, however it is closed and opened again    *)
(* meanwhile, and never stays disabled when nothing will answer any more;  *)
(* one that cannot be submitted while busy has one request under way at    *)
(* the most, so that a bill, a vendor or a unit is not sent twice.         *)
BusyIsTruthful ==
  form.awaits =>
    /\ busy => UnderWay # {}
    /\ form.guarded => /\ UnderWay # {} => busy
                       /\ \A q, r \in UnderWay : q = r

(* The inductive invariant behind NothingTypedLeaks.                       *)
FieldsInv ==
  /\ editing => open
  /\ open => opening # Blank
  /\ form.place = "page" /\ open => editing
  /\ form.place = "sheet" => form.fills /\ form.forgets
  /\ ~open /\ form.forgets => draft = Blank
=============================================================================
