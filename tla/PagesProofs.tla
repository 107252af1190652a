----------------------------- MODULE PagesProofs -----------------------------
(***************************************************************************)
(* Proofs about the forms: for every form, any number of openings,         *)
(* mountings and submissions (Forms), and any accounts, lookups, units,    *)
(* groups and amounts (Pages); and about the payouts that one of the forms *)
(* asks for (Payouts): what a payout's row may say, for any number of      *)
(* payouts and however the webhooks come; about the token that every call  *)
(* to Nomba needs (NombaToken): its age and the number of fetches, for any *)
(* number of callers and any thresholds; and about both together           *)
(* (VendorPayments).                                                       *)
(***************************************************************************)
EXTENDS Pages, VendorPayments, FiniteSetTheorems, TLAPS

(* Answers come to mountings that there have been.                         *)
AnswersInv == \A r \in Request : request[r].mount <= mount

FormInv == FormTypeOK /\ FieldsInv /\ NothingTypedLeaks /\ AnswersInv /\ BusyIsTruthful

(* What the records of Forms have in common.                               *)
LEMMA KindsOfForms ==
  \A f \in Forms : /\ f \in Kind
                   /\ f.place = "sheet" => f.fills /\ f.forgets
                   /\ f.place = "page" => ~f.forgets /\ f.after # "stops"
                   /\ ~f.awaits => ~f.forgets
                   /\ f.after = "closes" /\ f.forgets => f.empties
PROOF
<1> DEFINE Fits(f) == /\ f \in Kind
                      /\ f.place = "sheet" => f.fills /\ f.forgets
                      /\ f.place = "page" => ~f.forgets /\ f.after # "stops"
                      /\ ~f.awaits => ~f.forgets
                      /\ f.after = "closes" /\ f.forgets => f.empties
<1>1. Fits(Plain) /\ Plain.place = "dialog"
  BY DEF Plain, Kind
<1>2. Fits(Filled) /\ Filled.place = "dialog" /\ Filled.fills /\ ~Filled.forgets /\ Filled.awaits
  BY DEF Filled, Plain, Kind
<1>3. Fits(Tile) /\ Tile.place = "page"
  BY <1>2 DEF Tile, Kind
<1>4. Fits(Door) /\ Door.place = "page"
  BY DEF Door, Plain, Kind
<1>5. Fits(CreateLevyDialog) /\ Fits(PayVendorDialog) /\ Fits(SimulatePayment)
  BY DEF CreateLevyDialog, PayVendorDialog, SimulatePayment, Plain, Kind
<1>6. Fits(AddUnitDialog) /\ AddUnitDialog.place = "dialog" /\ AddUnitDialog.awaits
  BY DEF AddUnitDialog, Plain, Kind
<1>7. Fits(CreateGroupDialog)
  BY <1>6 DEF CreateGroupDialog, Kind
<1>8. Fits(RenameRun) /\ RenameRun.fills /\ RenameRun.forgets /\ RenameRun.awaits
  BY <1>2 DEF RenameRun, Kind
<1>9. Fits(EditContact) /\ Fits(RemoveUnit)
  BY <1>8 DEF EditContact, RemoveUnit, Kind
<1>10. Fits(RemoveVendor)
  BY <1>2 DEF RemoveVendor, Kind
<1>11. Fits(StepUnits)
  BY <1>4 DEF StepUnits, Kind, Door, Plain
<1> HIDE DEF Fits
<1>12. \A f \in Forms : Fits(f)
  BY <1>1, <1>2, <1>3, <1>4, <1>5, <1>6, <1>7, <1>8, <1>9, <1>10, <1>11
     DEF Forms, CreateBillingDialog, RerunBillingDialog, ResendAlertDialog,
         SendStatementDialog, VendorDialog, EstateTab, RulesTab, LoginPage, SignupPage,
         StepEstate
<1> QED
  BY <1>12 DEF Fits

(* A form that has just been mounted.                                      *)
LEMMA FormInvInit == InitForm => FormInv
PROOF
<1> SUFFICES ASSUME InitForm PROVE FormInv
  OBVIOUS
<1> USE FormsAssumption
<1>1. FormTypeOK
  <2>1. 1 \in Mounting /\ 0 \in Opening \cup {Blank}
    BY DEF Mounting, Blank
  <2>2. Unsent \in [at : {"unsent", "sent", "over"}, mount : Mounting \cup {Blank}]
    BY DEF Unsent
  <2> QED
    BY <2>1, <2>2 DEF InitForm, FormTypeOK, Blank
<1>2. FieldsInv /\ NothingTypedLeaks
  BY KindsOfForms DEF InitForm, FieldsInv, NothingTypedLeaks, Blank
<1>3. AnswersInv /\ BusyIsTruthful
  BY DEF InitForm, AnswersInv, BusyIsTruthful, UnderWay, Unsent, Blank
<1> QED
  BY <1>1, <1>2, <1>3 DEF FormInv

(* Every step of a form keeps its fields to the opening they were filled   *)
(* in, and "busy" to the request that is under way.                        *)
LEMMA FormInvStep == FormInv /\ [NextForm]_formVars => FormInv'
PROOF
<1> SUFFICES ASSUME FormInv, [NextForm]_formVars PROVE FormInv'
  OBVIOUS
<1> USE FormsAssumption DEF FormInv
<1>k. /\ form \in Kind
      /\ form.place = "sheet" => form.fills /\ form.forgets
      /\ form.place = "page" => ~form.forgets /\ form.after # "stops"
      /\ ~form.awaits => ~form.forgets
      /\ form.after = "closes" /\ form.forgets => form.empties
  BY KindsOfForms DEF FormTypeOK
<1>1. CASE Open
  <2>1. FormTypeOK'
    BY <1>1, <1>k DEF Open, FormTypeOK, Opening, Blank, Kind, BusyWhenOpened, Transient
  <2>2. /\ ~open /\ open' = TRUE /\ form' = form
        /\ editing' <=> form.place # "sheet"
        /\ form.fills /\ form.place # "sheet" => draft' = opening'
        /\ ~form.fills \/ form.place = "sheet" => draft' = draft
    BY <1>1 DEF Open, Transient
  <2>3. opening' # Blank
    BY <1>1 DEF Open, FormTypeOK, Opening, Blank
  <2>4. "page" # "sheet"
    OBVIOUS
  <2>5. FieldsInv'
    BY <1>k, <2>2, <2>3, <2>4, Zenon DEF FieldsInv
  <2>6. NothingTypedLeaks'
    BY <2>2, Zenon DEF FieldsInv, NothingTypedLeaks
  <2>7. AnswersInv' /\ BusyIsTruthful'
    BY <1>1 DEF Open, AnswersInv, BusyIsTruthful, UnderWay, BusyWhenOpened
  <2> QED
    BY <2>1, <2>5, <2>6, <2>7
<1>2. CASE StartEditing
  BY <1>2, <1>k DEF StartEditing, FormTypeOK, FieldsInv, NothingTypedLeaks, AnswersInv,
                    BusyIsTruthful, UnderWay
<1>3. CASE Type
  BY <1>3, <1>k DEF Type, FormTypeOK, FieldsInv, NothingTypedLeaks, AnswersInv,
                    BusyIsTruthful, UnderWay
<1>4. CASE Close
  BY <1>4, <1>k DEF Close, Shut, Transient, FormTypeOK, FieldsInv, NothingTypedLeaks, AnswersInv,
                    BusyIsTruthful, UnderWay
<1>5. CASE StopEditing
  BY <1>5, <1>k DEF StopEditing, FormTypeOK, FieldsInv, NothingTypedLeaks, AnswersInv,
                    BusyIsTruthful, UnderWay
<1>m. ASSUME Unmounted, UNCHANGED <<form, opening>>,
             request' \in [Request -> [at : {"unsent", "sent", "over"},
                                       mount : Mounting \cup {Blank}]],
             \A r \in Request : request'[r].mount = request[r].mount
      PROVE  FormInv'
  <2>1. mount \in Nat /\ mount' = mount + 1 /\ mount' \in Mounting
    BY <1>m DEF Unmounted, FormTypeOK, Mounting
  <2>2. \A r \in Request : request'[r].mount <= mount /\ request'[r].mount \in Nat
    BY <1>m DEF AnswersInv, Mounting, Blank
  <2>3. UnderWay' = {}
    BY <2>1, <2>2 DEF UnderWay
  <2>4. FormTypeOK'
    BY <1>m, <2>1 DEF Unmounted, FormTypeOK
  <2>5. FieldsInv' /\ NothingTypedLeaks'
    BY <1>m, <1>k DEF Unmounted, FieldsInv, NothingTypedLeaks
  <2>6. AnswersInv'
    BY <2>1, <2>2 DEF AnswersInv
  <2>7. BusyIsTruthful'
    BY <1>m, <2>3 DEF Unmounted, BusyIsTruthful
  <2> QED
    BY <2>4, <2>5, <2>6, <2>7
<1>6. CASE Unmount
  BY <1>6, <1>m DEF Unmount, FormTypeOK
<1>7. ASSUME NEW r \in Request, Submit(r)
      PROVE  FormInv'
  <2>1. FormTypeOK'
    BY <1>7, <1>k DEF Submit, Shut, Transient, FormTypeOK, Kind
  <2>2. FieldsInv' /\ NothingTypedLeaks'
    <3>1. CASE form.awaits
      <4>1. /\ form' = form /\ opening' = opening /\ draft' = draft
            /\ (open' <=> open) /\ (editing' <=> editing)
        BY <1>7, <3>1 DEF Submit
      <4> QED
        BY <4>1, Zenon DEF FieldsInv, NothingTypedLeaks
    <3>2. CASE ~form.awaits
      <4>1. ~open' /\ ~editing' /\ form' = form
        BY <1>7, <3>2 DEF Submit, Shut, Transient
      <4>2. ~form.forgets
        BY <1>k, <3>2
      <4> QED
        BY <1>k, <4>1, <4>2, Zenon DEF FieldsInv, NothingTypedLeaks
    <3> QED
      BY <3>1, <3>2
  <2>3. AnswersInv'
    BY <1>7 DEF Submit, AnswersInv, FormTypeOK, Mounting
  <2>4. UnderWay' = UnderWay \cup {r}
    BY <1>7 DEF Submit, UnderWay, FormTypeOK
  <2>5. BusyIsTruthful'
    BY <1>7, <2>4 DEF Submit, BusyIsTruthful
  <2> QED
    BY <2>1, <2>2, <2>3, <2>5
<1>e. ASSUME NEW r \in Request, Ends(r)
      PROVE  /\ request' \in [Request -> [at : {"unsent", "sent", "over"},
                                          mount : Mounting \cup {Blank}]]
             /\ \A q \in Request : request'[q].mount = request[q].mount
             /\ mount' = mount => /\ AnswersInv'
                                  /\ UnderWay' = UnderWay \ {r}
                                  /\ request[r].mount = mount => r \in UnderWay
                                  /\ request[r].mount # mount => UnderWay' = UnderWay
             /\ UNCHANGED <<form, opening>>
  <2>1. /\ request[r].at = "sent" /\ UNCHANGED <<form, opening>>
        /\ request' = [request EXCEPT ![r].at = "over"]
    BY <1>e DEF Ends
  <2>2. /\ request' \in [Request -> [at : {"unsent", "sent", "over"},
                                     mount : Mounting \cup {Blank}]]
        /\ \A q \in Request : request'[q].mount = request[q].mount
    BY <2>1 DEF FormTypeOK
  <2>3. ASSUME mount' = mount
        PROVE  AnswersInv' /\ UnderWay' = UnderWay \ {r}
    BY <2>1, <2>2, <2>3 DEF FormTypeOK, AnswersInv, UnderWay
  <2> QED
    BY <2>1, <2>2, <2>3 DEF UnderWay
<1>8. ASSUME NEW r \in Request, Unheard(r)
      PROVE  FormInv'
  <2>1. /\ Ends(r) /\ (~form.awaits \/ request[r].mount # mount)
        /\ UNCHANGED <<mount, open, editing, draft, busy>>
    BY <1>8 DEF Unheard
  <2>2. FormTypeOK' /\ FieldsInv' /\ NothingTypedLeaks' /\ AnswersInv'
    BY <1>e, <2>1 DEF FormTypeOK, FieldsInv, NothingTypedLeaks
  <2>3. BusyIsTruthful'
    BY <1>e, <2>1 DEF BusyIsTruthful
  <2> QED
    BY <2>2, <2>3
<1>9. ASSUME NEW r \in Request, Fails(r)
      PROVE  FormInv'
  <2>1. /\ Ends(r) /\ form.awaits /\ request[r].mount = mount
        /\ busy' = FALSE /\ UNCHANGED <<mount, open, editing, draft>>
    BY <1>9 DEF Fails, Heard, BusyAfterFailure
  <2>2. FormTypeOK' /\ FieldsInv' /\ NothingTypedLeaks' /\ AnswersInv'
    BY <1>e, <2>1 DEF FormTypeOK, FieldsInv, NothingTypedLeaks
  <2>3. UnderWay' = UnderWay \ {r} /\ r \in UnderWay /\ UNCHANGED form
    BY <1>e, <2>1
  <2>4. BusyIsTruthful'
    BY <2>1, <2>3 DEF BusyIsTruthful
  <2> QED
    BY <2>2, <2>4
<1>10. ASSUME NEW r \in Request, Succeeds(r)
       PROVE  FormInv'
  <2>1. Ends(r) /\ form.awaits /\ request[r].mount = mount
    BY <1>10 DEF Succeeds, Heard
  <2>2. CASE Unmounted
    BY <1>e, <1>m, <2>1, <2>2
  <2>3. CASE /\ form.after # "leaves"
             /\ UNCHANGED mount
             /\ busy' = FALSE
             /\ open' = (open /\ form.after # "closes")
             /\ editing' = (editing /\ form.after = "stays")
             /\ draft' = IF form.empties \/ form.after = "stops" THEN Blank ELSE draft
    <3>1. FormTypeOK'
      BY <1>e, <2>1, <2>3 DEF FormTypeOK
    <3>2. FieldsInv' /\ NothingTypedLeaks'
      <4>1. form' = form /\ opening' = opening
        BY <1>e, <2>1
      <4>2. /\ open' <=> open /\ form.after # "closes"
            /\ editing' <=> editing /\ form.after = "stays"
            /\ form.empties \/ form.after = "stops" => draft' = Blank
            /\ ~(form.empties \/ form.after = "stops") => draft' = draft
        BY <2>3
      <4>3. form.after \in {"closes", "stops", "stays"}
        BY <1>k, <2>3 DEF Kind
      <4>4. "closes" # "stops" /\ "closes" # "stays" /\ "stops" # "stays"
        OBVIOUS
      <4> QED
        BY <1>k, <4>1, <4>2, <4>3, <4>4, Zenon DEF FieldsInv, NothingTypedLeaks
    <3>3. AnswersInv' /\ UnderWay' = UnderWay \ {r} /\ r \in UnderWay /\ UNCHANGED form
      BY <1>e, <2>1, <2>3
    <3>4. BusyIsTruthful'
      BY <2>1, <2>3, <3>3 DEF BusyIsTruthful
    <3> QED
      BY <3>1, <3>2, <3>3, <3>4
  <2> QED
    BY <1>10, <2>2, <2>3 DEF Succeeds
<1>11. CASE UNCHANGED formVars
  BY <1>11 DEF formVars, FormTypeOK, FieldsInv, NothingTypedLeaks, AnswersInv, BusyIsTruthful, UnderWay
<1> QED
  BY <1>1, <1>2, <1>3, <1>4, <1>5, <1>6, <1>7, <1>8, <1>9, <1>10, <1>11 DEF NextForm

(* The invariant of every form: types, what its fields are from, and what  *)
(* it waits for.                                                           *)
THEOREM FormInvariant == FormSpec => []FormInv
PROOF
BY FormInvInit, FormInvStep, PTL DEF FormSpec
-----------------------------------------------------------------------------
(* What Pages adds is done beside the steps of a form.                     *)
LEMMA PagesAreForms == [NextPages]_pageVars => [NextForm]_formVars
PROOF
<1> SUFFICES ASSUME [NextPages]_pageVars PROVE [NextForm]_formVars
  OBVIOUS
<1>1. CASE page = "form" /\ NextForm
  BY <1>1
<1>2. CASE Vendor
  <2>1. ASSUME NEW a, Hydrate(a) \/ EnterAccount(a) \/ EnterName PROVE [NextForm]_formVars
    BY <2>1 DEF Hydrate, EnterAccount, EnterName, NextForm
  <2>2. ASSUME NEW l \in Lookup, Verify(l) \/ LookupEnds(l) PROVE UNCHANGED formVars
    BY <2>2 DEF Verify, LookupEnds
  <2> QED
    BY <1>2, <2>1, <2>2 DEF Vendor, VendorLeft, NextForm
<1>3. CASE Billing
  BY <1>3 DEF Billing, BillingLeft, NextForm
<1>4. CASE UNCHANGED pageVars
  BY <1>4 DEF pageVars
<1> QED
  BY <1>1, <1>2, <1>3, <1>4 DEF NextPages

(* So Pages implements Forms, and what holds of every form holds of these. *)
LEMMA PagesFormInvariant == PagesSpec => []FormInv
PROOF
<1>1. InitPages => InitForm
  BY DEF InitPages
<1> QED
  BY <1>1, FormInvInit, FormInvStep, PagesAreForms, PTL DEF PagesSpec

(* Nothing typed for one unit, vendor or run is shown or sent for another, *)
(* for any number of openings, mountings and late answers.  (The name that *)
(* a lookup types in the vendor dialog may be: NameIsOfThisOpening.)       *)
THEOREM NothingTypedEverLeaks == PagesSpec => []NothingTypedLeaks
PROOF
<1>1. FormInv => NothingTypedLeaks
  BY DEF FormInv
<1> QED
  BY <1>1, PagesFormInvariant, PTL

(* A form is busy exactly while it waits, and sends nothing twice.         *)
THEOREM BusyIsAlwaysTruthful == PagesSpec => []BusyIsTruthful
PROOF
<1>1. FormInv => BusyIsTruthful
  BY DEF FormInv
<1> QED
  BY <1>1, PagesFormInvariant, PTL
-----------------------------------------------------------------------------
(* The billing dialog.                                                     *)
LEMMA ShareStep == ShareIsSplit /\ [NextPages]_pageVars => ShareIsSplit'
PROOF
<1> SUFFICES ASSUME ShareIsSplit, [NextPages]_pageVars PROVE ShareIsSplit'
  OBVIOUS
<1>1. CASE UNCHANGED billingVars
  BY <1>1 DEF billingVars, ShareIsSplit, Splits, Target, Picked
<1>2. ASSUME NEW choice, NEW t, Split(choice, t),
             selected' = choice, total' = t, UNCHANGED units
      PROVE  ShareIsSplit'
  BY <1>2 DEF ShareIsSplit, Split, Splits, Target, Picked
<1>3. CASE BillingLeft
  BY <1>3 DEF BillingLeft, ShareIsSplit, Splits
<1>4. CASE Relist
  BY <1>4 DEF Relist, ShareIsSplit, Splits, Target, Picked
<1>5. ASSUME NEW choice, Pick(choice) PROVE ShareIsSplit'
  BY <1>2, <1>5 DEF Pick, Resplit
<1>6. ASSUME NEW t, TypeTotal(t) \/ TypeAmount(t) PROVE ShareIsSplit'
  <2>1. CASE TypeTotal(t)
    BY <1>2, <2>1 DEF TypeTotal
  <2>2. CASE TypeAmount(t)
    BY <2>2 DEF TypeAmount, ShareIsSplit, Splits
  <2> QED
    BY <1>6, <2>1, <2>2
<1>7. CASE Billing
  BY <1>1, <1>3, <1>4, <1>5, <1>6, <1>7 DEF Billing, Picks
<1> QED
  BY <1>1, <1>7 DEF NextPages, pageVars

(* While a total is entered, each unit that is picked is charged its share.*)
THEOREM ShareIsAlwaysSplit == PagesSpec => []ShareIsSplit
PROOF
<1>1. InitPages => ShareIsSplit
  BY DEF InitPages, ShareIsSplit, Splits
<1> QED
  BY <1>1, ShareStep, PTL DEF PagesSpec
-----------------------------------------------------------------------------
\* Payouts.

(* The invariant holds before any request.                                 *)
LEMMA PayoutInit == Init => IInv
BY DEF Init, IInv, TypeOK, PayoutStatus, Event, RequestInv, StatusHasReason

(* A step of payVendor keeps the invariant: the row's status is written    *)
(* from the outcome of the call, which is only SUCCESS if Nomba said so.   *)
LEMMA PayoutCall ==
  ASSUME IInv, NEW p \in Payout,
         CreatePayout(p) \/ Call(p) \/ Abort(p)
  PROVE  IInv'
<1> USE DEF IInv, TypeOK, PayoutStatus, Event
<1>1. CASE CreatePayout(p)
  BY <1>1 DEF CreatePayout, Goto, RequestInv, StatusHasReason
<1>2. CASE SendTransfer(p)
  BY <1>2 DEF SendTransfer, MaySend, Goto, RequestInv, StatusHasReason
<1>3. CASE NotSent(p)
  BY <1>3 DEF NotSent, MaySend, Answered, Goto, RequestInv, StatusHasReason
<1>4. CASE Answer(p)
  <2>1. PICK reply \in Replies(p) : Answered(p, AnswerStatus(reply))
    BY <1>4 DEF Answer
  <2>2. /\ AnswerStatus(reply) \in {"SUCCESS", "PENDING"}
        /\ AnswerStatus(reply) = "SUCCESS" => bank[p] \in {"executed", "refunded"}
    BY DEF AnswerStatus, Replies
  <2>3. /\ pc[p] = "sent" /\ pc' = [pc EXCEPT ![p] = "answered"]
        /\ result' = [result EXCEPT ![p] = AnswerStatus(reply)]
        /\ UNCHANGED <<status, bank>>
    BY <1>4, <2>1 DEF Answer, Answered, Goto
  <2> QED BY <2>2, <2>3 DEF RequestInv, StatusHasReason
<1>5. CASE Throws(p)
  BY <1>5 DEF Throws, Answered, Goto, RequestInv, StatusHasReason
<1>6. CASE UpdatePayout(p)
  BY <1>6 DEF UpdatePayout, Goto, RequestInv, StatusHasReason
<1>7. CASE Abort(p)
  BY <1>7 DEF Abort, Goto, RequestInv, StatusHasReason
<1> QED BY <1>1, <1>2, <1>3, <1>4, <1>5, <1>6, <1>7 DEF Call

(* What Nomba does with a transfer keeps the invariant: executed stays     *)
(* executed or refunded, and no event is taken back.                       *)
LEMMA PayoutBank ==
  ASSUME IInv, NEW p \in Payout, Transfer(p) \/ Refund(p)
  PROVE  IInv'
BY DEF Transfer, Execute, Decline, Refund, Becomes, IInv, TypeOK, PayoutStatus, Event,
       RequestInv, StatusHasReason

(* A webhook keeps the invariant: it is about something that happened.     *)
LEMMA PayoutWebhook ==
  ASSUME IInv, NEW p \in Payout, Webhook(p)
  PROVE  IInv'
<1>1. PICK e \in Event : HandleEvent(p, e)
  BY DEF Webhook
<1>2. /\ e \in Raised(p)
      /\ status' = IF Recorded(p) THEN [status EXCEPT ![p] = EventStatus(e)] ELSE status
      /\ UNCHANGED <<pc, result, bank>>
  BY <1>1 DEF HandleEvent
<1>3. /\ EventStatus(e) \in {"SUCCESS", "FAILED", "REVERSED"}
      /\ EventStatus(e) = "SUCCESS"  => bank[p] \in {"executed", "refunded"}
      /\ EventStatus(e) = "REVERSED" => bank[p] = "refunded"
      /\ EventStatus(e) = "FAILED"   => bank[p] = "failed"
  BY <1>2 DEF EventStatus, Raised, RaisedIn, Event
<1>4. TypeOK'
  BY <1>2, <1>3 DEF IInv, TypeOK, PayoutStatus, Event
<1>5. StatusHasReason'
  BY <1>2, <1>3 DEF IInv, TypeOK, StatusHasReason, Recorded
<1>6. RequestInv'
  BY <1>2, <1>3 DEF IInv, TypeOK, RequestInv, Recorded, PayoutStatus
<1> QED BY <1>4, <1>5, <1>6 DEF IInv

(* The inductive invariant holds in every reachable state.                 *)
THEOREM PayoutInvariant == Spec => []IInv
<1>1. IInv /\ [Next]_vars => IInv'
  <2> SUFFICES ASSUME IInv, [Next]_vars PROVE IInv'
    OBVIOUS
  <2>1. CASE UNCHANGED vars
    BY <2>1 DEF vars, IInv, TypeOK, RequestInv, StatusHasReason
  <2>2. CASE Next
    BY <2>2, PayoutCall, PayoutBank, PayoutWebhook DEF Next
  <2> QED BY <2>1, <2>2
<1> QED BY PayoutInit, <1>1, PTL DEF Spec

(* A payout's row never claims what did not happen, for any number of      *)
(* payouts, wherever requests die and in whatever order webhooks come.     *)
THEOREM StatusAlwaysHasReason == Spec => []StatusHasReason
BY PayoutInvariant, PTL DEF IInv

(* No transfer is ever under way without its row: the row is written first *)
(* and is never removed.                                                   *)
THEOREM MoneyAlwaysRecorded == Spec => []MoneyIsRecorded
<1>1. IInv => MoneyIsRecorded
  BY DEF IInv, RequestInv, MoneyIsRecorded
<1> QED BY PayoutInvariant, <1>1, PTL
-----------------------------------------------------------------------------
(* The fetches under way can be counted.                                   *)
LEMMA FlyingIsFinite ==
  ASSUME flying \subseteq Fetch
  PROVE  IsFiniteSet(flying) /\ Cardinality(flying) \in Nat
BY TokenAssumption, FS_Subset, FS_CardinalityType

(* The invariant holds when the process starts.                            *)
LEMMA TokenInitInv == TokenInit => TokenInv
<1> SUFFICES ASSUME TokenInit PROVE TokenInv
  OBVIOUS
<1> USE TokenAssumption DEF TokenInit
<1>1. TokenTypeOK
  BY DEF TokenTypeOK, Token, NoToken, Idle
<1>2. PromiseInv
  BY FS_EmptySet DEF PromiseInv, Waiting, Idle, On
<1>3. AgeInv /\ TokenIsValid
  BY DEF AgeInv, TokenIsValid, NoToken, Idle
<1> QED
  BY <1>1, <1>2, <1>3 DEF TokenInv

(* A caller that is served from the cache has a token below the threshold, *)
(* and its age is at most one unit above that of its place in the cache.   *)
LEMMA TokenServeInv ==
  ASSUME TokenInv, NEW c \in Caller, Serve(c) \/ Join(c) \/ EndRequest(c)
  PROVE  TokenInv'
<1> USE TokenAssumption
<1>1. UNCHANGED <<cache, shared, flying, elapsed, cron, overlaps>>
  BY DEF Serve, Join, EndRequest
<1>2. CASE Serve(c)
  <2>1. /\ cache.age \in 0 .. Lifetime /\ cache.age < Lifetime
        /\ caller' = [caller EXCEPT ![c] = Sent(cache.age)]
    BY <1>2 DEF TokenInv, TokenTypeOK, Token, AgeInv, Serve, Fresh
  <2>2. TokenTypeOK'
    BY <1>1, <2>1 DEF TokenInv, TokenTypeOK
  <2>3. PromiseInv' /\ AgeInv' /\ TokenIsValid'
    BY <1>1, <2>1 DEF TokenInv, TokenTypeOK, PromiseInv, AgeInv, TokenIsValid, Waiting, On, Sent
  <2> QED
    BY <2>2, <2>3 DEF TokenInv
<1>3. CASE Join(c)
  <2>1. shared \in Fetch /\ shared \in flying /\ caller' = [caller EXCEPT ![c] = On(shared)]
    BY <1>3 DEF TokenInv, TokenTypeOK, PromiseInv, Join
  <2>2. TokenTypeOK'
    BY <1>1, <2>1 DEF TokenInv, TokenTypeOK
  <2>3. PromiseInv' /\ AgeInv' /\ TokenIsValid'
    BY <1>1, <2>1 DEF TokenInv, TokenTypeOK, PromiseInv, AgeInv, TokenIsValid, Waiting, On
  <2> QED
    BY <2>2, <2>3 DEF TokenInv
<1>4. CASE EndRequest(c)
  <2>1. caller' = [caller EXCEPT ![c] = Idle]
    BY <1>4 DEF EndRequest
  <2>2. TokenTypeOK'
    BY <1>1, <2>1 DEF TokenInv, TokenTypeOK
  <2>3. PromiseInv' /\ AgeInv' /\ TokenIsValid'
    BY <1>1, <2>1 DEF TokenInv, TokenTypeOK, PromiseInv, AgeInv, TokenIsValid, Waiting, On, Idle
  <2> QED
    BY <2>2, <2>3 DEF TokenInv
<1> QED
  BY <1>2, <1>3, <1>4

(* A new fetch takes the room there is, or that its overlap makes.         *)
LEMMA TokenStartInv ==
  ASSUME TokenInv, NEW f \in Fetch,
         (\E c \in Caller : FetchFor(c, f)) \/ Refresh(f)
  PROVE  TokenInv'
<1> USE TokenAssumption
<1>1. /\ f \notin flying /\ flying' = flying \cup {f} /\ shared' = f
      /\ elapsed' = [elapsed EXCEPT ![f] = 0] /\ cache' = cache
  BY DEF FetchFor, Refresh, StartFetch
<1>2. Cardinality(flying') = Cardinality(flying) + 1
  BY <1>1, FlyingIsFinite, FS_AddElement DEF TokenInv, TokenTypeOK
<1>3. Cardinality(flying) \in Nat /\ overlaps \in Nat
  BY FlyingIsFinite DEF TokenInv, TokenTypeOK
<1>4. f # NoFetch
  OBVIOUS
<1>5. CASE \E c \in Caller : FetchFor(c, f)
  <2>1. PICK c \in Caller : FetchFor(c, f)
    BY <1>5
  <2>2. /\ shared = NoFetch /\ caller' = [caller EXCEPT ![c] = On(f)]
        /\ cron' = cron /\ overlaps' = overlaps
    BY <2>1 DEF FetchFor, MayFetch
  <2>3. TokenTypeOK'
    BY <1>1, <2>2 DEF TokenInv, TokenTypeOK
  <2>4. Cardinality(flying') <= 1 + overlaps'
    BY <1>2, <1>3, <2>2 DEF TokenInv, PromiseInv
  <2>5. PromiseInv'
    BY <1>1, <1>4, <1>2, <1>3, <2>2, <2>4 DEF TokenInv, TokenTypeOK, PromiseInv, Waiting, On
  <2>6. AgeInv' /\ TokenIsValid'
    BY <1>1, <2>2 DEF TokenInv, TokenTypeOK, AgeInv, TokenIsValid, On
  <2> QED
    BY <2>3, <2>5, <2>6 DEF TokenInv
<1>6. CASE Refresh(f)
  <2>1. /\ cron' = f /\ caller' = caller
        /\ overlaps' = IF flying = {} THEN 0 ELSE overlaps + 1
        /\ flying = {} \/ overlaps < MaxOverlaps
    BY <1>6 DEF Refresh
  <2>2. TokenTypeOK'
    BY <1>1, <2>1 DEF TokenInv, TokenTypeOK
  <2>3. Cardinality(flying') <= 1 + overlaps'
    BY <1>2, <1>3, <2>1, FS_EmptySet DEF TokenInv, PromiseInv
  <2>4. PromiseInv'
    BY <1>1, <1>2, <1>3, <1>4, <2>1, <2>3 DEF TokenInv, TokenTypeOK, PromiseInv, Waiting
  <2>5. AgeInv' /\ TokenIsValid'
    BY <1>1, <2>1 DEF TokenInv, AgeInv, TokenIsValid
  <2> QED
    BY <2>2, <2>4, <2>5 DEF TokenInv
<1> QED
  BY <1>5, <1>6

(* The end of a fetch makes room for at most the one that it was, and what *)
(* it brings is younger than a unit of time and a bit.                     *)
LEMMA TokenCompleteInv ==
  ASSUME TokenInv, NEW f \in Fetch, Complete(f)
  PROVE  TokenInv'
<1> USE TokenAssumption
<1>1. PICK next : /\ FetchEnds(f, next) /\ shared' = NoFetch
                  /\ \/ next = Failed /\ cache' = cache
                     \/ \E age \in 0 .. elapsed[f] :
                          next = Sent(age) /\ cache' = [filled |-> 0, age |-> age]
  BY DEF Complete, FetchAnswered, FetchFails
<1>2. elapsed[f] \in 0 .. 1 /\ 1 < Lifetime
  BY DEF TokenInv, TokenTypeOK
<1>3. \/ next = Failed /\ cache' = cache
      \/ \E age \in 0 .. 1 : next = Sent(age) /\ cache' = [filled |-> 0, age |-> age]
  BY <1>1, <1>2
<1>4. /\ f \in flying /\ flying' = flying \ {f} /\ elapsed' = elapsed
      /\ cron' = IF cron = f THEN NoFetch ELSE cron
      /\ caller' = [c \in Caller |-> IF Waiting(c, f) THEN next ELSE caller[c]]
      /\ overlaps' = IF flying = {f} THEN 0 ELSE overlaps
  BY <1>1 DEF FetchEnds
<1>5. next = Failed \/ \E age \in 0 .. Lifetime : next = Sent(age) /\ age < Lifetime
  BY <1>2, <1>3
<1>6. cache' \in Token /\ AgeInv'
  <2>1. CASE cache' = cache
    BY <2>1 DEF TokenInv, TokenTypeOK, AgeInv
  <2>2. CASE \E age \in 0 .. 1 : cache' = [filled |-> 0, age |-> age]
    BY <1>2, <2>2 DEF Token, AgeInv
  <2> QED
    BY <1>3, <2>1, <2>2
<1>7. TokenTypeOK'
  BY <1>1, <1>4, <1>5, <1>6 DEF TokenInv, TokenTypeOK
<1>8. Cardinality(flying') + 1 <= 1 + overlaps'
  <2> IsFiniteSet(flying) /\ Cardinality(flying) \in Nat /\ overlaps \in Nat
    BY FlyingIsFinite DEF TokenInv, TokenTypeOK
  <2>1. Cardinality(flying') = Cardinality(flying) - 1
    BY <1>4, FS_RemoveElement
  <2>2. CASE flying = {f}
    BY <1>4, <2>2, FS_EmptySet
  <2>3. CASE flying # {f}
    BY <1>4, <2>1, <2>3 DEF TokenInv, PromiseInv
  <2> QED
    BY <2>2, <2>3
<1>9. PromiseInv'
  <2>1. \A c \in Caller, g \in Fetch : Waiting(c, g)' => g \in flying'
    BY <1>4, <1>5 DEF TokenInv, PromiseInv, Waiting, On, Sent, Failed
  <2>2. cron' # NoFetch => cron' \in flying'
    BY <1>4 DEF TokenInv, PromiseInv
  <2> QED
    BY <1>1, <1>8, <2>1, <2>2 DEF PromiseInv
<1>10. TokenIsValid'
  BY <1>4, <1>5 DEF TokenInv, TokenIsValid, Sent, Failed
<1> QED
  BY <1>6, <1>7, <1>9, <1>10 DEF TokenInv

(* Time makes the cache older; who waits, waits on.                        *)
LEMMA TokenTickInv ==
  ASSUME TokenInv, Tick
  PROVE  TokenInv'
<1> USE TokenAssumption
<1>1. /\ cache' = [filled |-> Older(cache.filled), age |-> Older(cache.age)]
      /\ elapsed' = [f \in Fetch |-> IF f \in flying THEN 1 ELSE 0]
      /\ UNCHANGED <<shared, flying, cron, caller, overlaps>>
  BY DEF Tick
<1>2. cache' \in Token /\ AgeInv'
  BY <1>1 DEF TokenInv, TokenTypeOK, Token, AgeInv, Older
<1>3. TokenTypeOK'
  BY <1>1, <1>2 DEF TokenInv, TokenTypeOK
<1>4. PromiseInv' /\ TokenIsValid'
  BY <1>1 DEF TokenInv, PromiseInv, TokenIsValid, Waiting
<1> QED
  BY <1>2, <1>3, <1>4 DEF TokenInv

(* Every step of callers, fetches, cron job and clock keeps it.            *)
LEMMA TokenNextInv == TokenInv /\ [TokenNext]_tokenVars => TokenInv'
<1> SUFFICES ASSUME TokenInv, [TokenNext]_tokenVars PROVE TokenInv'
  OBVIOUS
<1>1. CASE \E c \in Caller : Asks(c) \/ EndRequest(c)
  BY <1>1, TokenServeInv, TokenStartInv DEF Asks
<1>2. CASE \E f \in Fetch : Refresh(f) \/ Complete(f)
  BY <1>2, TokenStartInv, TokenCompleteInv
<1>3. CASE Tick
  BY <1>3, TokenTickInv
<1>4. CASE UNCHANGED tokenVars
  BY <1>4 DEF tokenVars, TokenInv, TokenTypeOK, PromiseInv, AgeInv, TokenIsValid, Waiting
<1> QED
  BY <1>1, <1>2, <1>3, <1>4 DEF TokenNext

(* The inductive invariant of NombaToken: whoever waits, waits for a fetch *)
(* that is under way, and tokens are hardly older than the cache says.     *)
THEOREM TokenInvariant == TokenSpec => []TokenInv
<1> QED
  BY TokenInitInv, TokenNextInv, PTL DEF TokenSpec

(* No request leaves with a token that has expired (nomba.service.ts 19,   *)
(* 56-66), for any threshold below the lifetime.                           *)
THEOREM TokenIsAlwaysValid == TokenSpec => []TokenIsValid
<1>1. TokenInv => TokenIsValid
  BY DEF TokenInv
<1> QED
  BY <1>1, TokenInvariant, PTL

(* The number of fetches does not depend on the number of callers          *)
(* (nomba.service.ts 22-25, 69-92).                                        *)
THEOREM StampedeIsAlwaysBounded == TokenSpec => []StampedeIsBounded
<1>1. TokenInv => StampedeIsBounded
  <2> SUFFICES ASSUME TokenInv PROVE StampedeIsBounded
    OBVIOUS
  <2>1. Cardinality(flying) \in Nat /\ overlaps \in Nat
    BY FlyingIsFinite DEF TokenInv, TokenTypeOK
  <2> QED
    BY <2>1 DEF TokenInv, PromiseInv, StampedeIsBounded
<1> QED
  BY <1>1, TokenInvariant, PTL
-----------------------------------------------------------------------------
(* Paying over the token: what holds of payouts and what holds of tokens   *)
(* holds where payVendor waits for a token first (nomba.service.ts 234),   *)
(* since each step is one of a payout, of the token, or both.              *)
THEOREM PayingIsBoth == PayingSpec => Spec /\ TokenSpec
PROOF
<1> USE PayoutsCallNomba
<1>1. PayingInit => Init /\ TokenInit
  BY DEF PayingInit
<1>2. [PayingNext]_<<vars, tokenVars>> => [Next]_vars /\ [TokenNext]_tokenVars
  <2> SUFFICES ASSUME [PayingNext]_<<vars, tokenVars>>
               PROVE  [Next]_vars /\ [TokenNext]_tokenVars
    OBVIOUS
  <2>1. CASE (\E p \in Payout : Pays(p)) /\ UNCHANGED tokenVars
    BY <2>1 DEF Pays, Posts, Next, Call
  <2>2. CASE Tokens /\ UNCHANGED vars
    BY <2>2 DEF Tokens, AskToken, TokenNext
  <2>3. CASE UNCHANGED <<vars, tokenVars>>
    BY <2>3
  <2> QED
    BY <2>1, <2>2, <2>3 DEF PayingNext
<1> QED
  BY <1>1, <1>2, PTL DEF PayingSpec, Spec, TokenSpec

(* Hence, however long a transfer waits for its token, no row claims what  *)
(* did not happen and no transfer is without a row.                        *)
THEOREM PayingIsRecorded ==
  PayingSpec => [](StatusHasReason /\ MoneyIsRecorded /\ TokenIsValid /\ StampedeIsBounded)
PROOF
BY PayingIsBoth, StatusAlwaysHasReason, MoneyAlwaysRecorded, TokenIsAlwaysValid,
   StampedeIsAlwaysBounded, PTL
=============================================================================
