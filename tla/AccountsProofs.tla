--------------------------- MODULE AccountsProofs ---------------------------
(***************************************************************************)
(* The inductive invariants of Accounts, for any number of units, requests *)
(* and deletions, and of Onboarding, for any number of tabs and estates,   *)
(* and what follows from them.                                             *)
(***************************************************************************)
EXTENDS Onboarding, TLAPS

(* Where a unit's creation stands decides what there is of it.             *)
LEMMA InitInv == Init => IInv
<1> SUFFICES ASSUME Init PROVE IInv
  OBVIOUS
<1> USE AccountsAssumption DEF Init
<1>1. TypeOK
  BY DEF TypeOK
<1>2. CreationInv /\ DeletionInv /\ ReportInv /\ LiveUnitCanBePaid
  BY DEF CreationInv, DeletionInv, ReportInv, LiveUnitCanBePaid
<1> QED
  BY <1>1, <1>2 DEF IInv

(* The steps of a createUnits request as a whole.                          *)
LEMMA RequestInv ==
  ASSUME IInv, NEW r \in Request, Start(r) \/ Report(r) \/ RequestDies(r)
  PROVE  IInv'
<1> USE AccountsAssumption
<1>1. UNCHANGED <<creation, nomba, unit, account, deletion, spoilt>>
  BY DEF Start, Report, RequestDies, rows
<1>2. TypeOK'
  BY <1>1 DEF IInv, TypeOK, Start, Report, RequestDies, UnitsOf
<1>3. CreationInv' /\ DeletionInv' /\ LiveUnitCanBePaid'
  BY <1>1 DEF IInv, CreationInv, DeletionInv, LiveUnitCanBePaid
<1>4. ReportInv'
  BY <1>1 DEF IInv, TypeOK, ReportInv, Settled, UnitsOf, Start, Report, RequestDies
<1> QED
  BY <1>2, <1>3, <1>4 DEF IInv

(* A request reports only when all its units are settled, so a unit whose  *)
(* creation moves on is part of no report.                                 *)
LEMMA CreationKeepsReports ==
  ASSUME IInv, NEW u \in Unit, NEW to,
         NEW from \in {"todo", "asked", "account"}, Moves(u, from, to),
         UNCHANGED <<request, report>>
  PROVE  ReportInv'
<1> USE AccountsAssumption
<1>1. request[Of[u]] # "reported"
  BY DEF Moves, IInv, ReportInv, Settled, UnitsOf
<1>2. \A v \in Unit : v # u => creation'[v] = creation[v]
  BY DEF Moves, IInv, TypeOK
<1>3. ASSUME NEW r \in Request, request[r] = "reported"
      PROVE  \A v \in UnitsOf(r) : creation'[v] = creation[v]
  BY <1>1, <1>2, <1>3 DEF UnitsOf
<1> QED
  BY <1>3 DEF IInv, ReportInv, Settled, UnitsOf

(* The steps of one unit's creation, and of Nomba.                         *)
LEMMA UnitInv ==
  ASSUME IInv, NEW u \in Unit,
         \/ AskAccount(u) \/ OpenAccount(u) \/ AnswerAccount(u)
         \/ Persist(u) \/ CreationFails(u)
  PROVE  IInv'
<1> USE AccountsAssumption
<1>1. UNCHANGED <<request, report, deletion, spoilt>>
  BY DEF AskAccount, OpenAccount, AnswerAccount, Persist, CreationFails
<1>2. TypeOK'
  BY <1>1 DEF IInv, TypeOK, AskAccount, OpenAccount, AnswerAccount, Persist, CreationFails,
              Moves, MayPersist, rows
<1>3. ReportInv'
  <2>1. CASE OpenAccount(u)
    BY <1>1, <2>1 DEF IInv, OpenAccount, ReportInv, Settled, UnitsOf
  <2>2. CASE \E from \in {"todo", "asked", "account"} : \E to : Moves(u, from, to)
    BY <1>1, <2>2, CreationKeepsReports
  <2> QED
    BY <2>1, <2>2 DEF AskAccount, AnswerAccount, Persist, MayPersist, CreationFails
<1>4. CreationInv' /\ DeletionInv' /\ LiveUnitCanBePaid'
  <2>1. CASE AskAccount(u)
    BY <1>1, <2>1 DEF IInv, TypeOK, CreationInv, DeletionInv, LiveUnitCanBePaid,
                      AskAccount, Moves, rows
  <2>2. CASE OpenAccount(u)
    BY <1>1, <2>2 DEF IInv, TypeOK, CreationInv, DeletionInv, LiveUnitCanBePaid,
                      OpenAccount, rows
  <2>3. CASE AnswerAccount(u)
    BY <1>1, <2>3 DEF IInv, TypeOK, CreationInv, DeletionInv, LiveUnitCanBePaid,
                      AnswerAccount, Moves, rows
  <2>4. CASE Persist(u)
    BY <1>1, <2>4 DEF IInv, TypeOK, CreationInv, DeletionInv, LiveUnitCanBePaid,
                      Persist, MayPersist, Moves
  <2>5. CASE CreationFails(u)
    BY <1>1, <2>5 DEF IInv, TypeOK, CreationInv, DeletionInv, LiveUnitCanBePaid,
                      CreationFails, Moves, rows
  <2> QED
    BY <2>1, <2>2, <2>3, <2>4, <2>5
<1> QED
  BY <1>2, <1>3, <1>4 DEF IInv

(* The steps of a deletion: they take a unit out of sight before they      *)
(* touch its account.                                                      *)
LEMMA DeleteInv ==
  ASSUME IInv, NEW d \in Deleter,
         (\E u \in Unit : StartDeletion(d, u)) \/ Delete(d) \/ DeletionFails(d)
  PROVE  IInv'
<1> USE AccountsAssumption
<1>1. UNCHANGED <<creation, request, report>>
  BY DEF StartDeletion, Delete, DeleteUnit, DeleteAccount, ExpireAccount, DeletionFails
<1>2. ReportInv'
  BY <1>1 DEF IInv, ReportInv, Settled, UnitsOf
<1>3. CASE \E u \in Unit : StartDeletion(d, u)
  <2>1. PICK u \in Unit : StartDeletion(d, u)
    BY <1>3
  <2>2. TypeOK'
    BY <2>1 DEF IInv, TypeOK, StartDeletion, rows
  <2>3. CreationInv' /\ DeletionInv' /\ LiveUnitCanBePaid'
    BY <2>1 DEF IInv, TypeOK, CreationInv, DeletionInv, LiveUnitCanBePaid, StartDeletion, rows
  <2> QED
    BY <1>2, <2>2, <2>3 DEF IInv
<1>4. CASE DeleteUnit(d)
  <2>1. TypeOK'
    BY <1>4 DEF IInv, TypeOK, DeleteUnit, Goes
  <2>2. CreationInv' /\ DeletionInv' /\ LiveUnitCanBePaid'
    BY <1>4 DEF IInv, TypeOK, CreationInv, DeletionInv, LiveUnitCanBePaid, DeleteUnit, Goes
  <2> QED
    BY <1>2, <2>1, <2>2 DEF IInv
<1>5. CASE DeleteAccount(d)
  <2>1. TypeOK'
    BY <1>5 DEF IInv, TypeOK, DeleteAccount, Goes
  <2>5. /\ UNCHANGED <<creation, nomba, unit>>
        /\ \A u \in Unit : account'[u] = IF u = deletion[d].unit THEN "deleted" ELSE account[u]
        /\ deletion[d].unit \in Unit /\ unit[deletion[d].unit] # "none"
    <3>1. deletion[d].at = "account"
      BY <1>5 DEF DeleteAccount, Goes
    <3>2. deletion[d].unit \in Unit /\ unit[deletion[d].unit] # "none"
      BY <3>1 DEF IInv, DeletionInv
    <3> QED
      BY <1>5, <3>2 DEF IInv, TypeOK, DeleteAccount
  <2>2. CreationInv'
    BY <2>5 DEF IInv, CreationInv
  <2>3. DeletionInv'
    BY <1>5 DEF IInv, TypeOK, DeletionInv, DeleteAccount, Goes
  <2>4. LiveUnitCanBePaid'
    BY <1>5 DEF IInv, TypeOK, DeletionInv, LiveUnitCanBePaid, DeleteAccount, Goes
  <2> QED
    BY <1>2, <2>1, <2>2, <2>3, <2>4 DEF IInv
<1>6. CASE ExpireAccount(d)
  <2>1. TypeOK'
    BY <1>6 DEF IInv, TypeOK, ExpireAccount, MayExpire, Goes, rows
  <2>2. CreationInv' /\ DeletionInv' /\ LiveUnitCanBePaid'
    BY <1>6 DEF IInv, TypeOK, CreationInv, DeletionInv, LiveUnitCanBePaid, ExpireAccount,
                MayExpire, Goes, rows
  <2> QED
    BY <1>2, <2>1, <2>2 DEF IInv
<1>7. CASE DeletionFails(d)
  <2>1. /\ deletion[d].at # "idle"
        /\ deletion' = [deletion EXCEPT ![d].at = "idle"]
        /\ spoilt' \in {spoilt, spoilt \cup {deletion[d].unit}}
        /\ UNCHANGED <<creation, request, report, unit, account>>
    BY <1>7 DEF DeletionFails, Goes, rows
  <2>2. deletion[d].unit \in Unit
    BY <2>1 DEF IInv, DeletionInv
  <2>3. \/ nomba' = nomba
        \/ /\ unit[deletion[d].unit] = "deleted"
           /\ nomba' = [nomba EXCEPT ![deletion[d].unit] = "expired"]
    BY <1>7 DEF IInv, DeletionInv, DeletionFails
  <2>4. TypeOK'
    <3>1. nomba' \in [Unit -> {"none", "asked", "open", "expired"}]
      BY <2>3 DEF IInv, TypeOK
    <3>2. deletion' \in [Deleter -> [at : {"idle", "unit", "account", "expire"},
                                     unit : Unit \cup {NoUnit}]]
      BY <2>1 DEF IInv, TypeOK
    <3> QED
      BY <2>1, <2>2, <3>1, <3>2 DEF IInv, TypeOK
  <2>5. CreationInv' /\ DeletionInv' /\ LiveUnitCanBePaid'
    BY <2>1, <2>2, <2>3 DEF IInv, TypeOK, CreationInv, DeletionInv, LiveUnitCanBePaid
  <2> QED
    BY <1>2, <2>4, <2>5 DEF IInv
<1> QED
  BY <1>3, <1>4, <1>5, <1>6, <1>7 DEF Delete

(* Every step of the units' creations and deletions keeps the invariant.   *)
LEMMA NextInv == IInv /\ [Next]_vars => IInv'
<1> SUFFICES ASSUME IInv, [Next]_vars PROVE IInv'
  OBVIOUS
<1>1. CASE Next
  BY <1>1, RequestInv, UnitInv, DeleteInv DEF Next
<1>2. CASE UNCHANGED vars
  BY <1>2 DEF vars, IInv, TypeOK, CreationInv, DeletionInv, ReportInv, LiveUnitCanBePaid,
              Settled, UnitsOf
<1> QED
  BY <1>1, <1>2

(* The inductive invariant of Accounts: rows and accounts follow the       *)
(* creation of each unit, and a deletion hides a unit first.               *)
THEOREM Invariant == Spec => []IInv
<1> QED
  BY InitInv, NextInv, PTL DEF Spec

(* A unit that is shown has a row for its account, and the account is open *)
(* (onboarding.service.ts 251-255, units.service.ts 36-56).                *)
THEOREM LiveUnitCanAlwaysBePaid == Spec => []LiveUnitCanBePaid
<1>1. IInv => LiveUnitCanBePaid
  BY DEF IInv
<1> QED
  BY <1>1, Invariant, PTL

(* What createUnits tells the manager is so, then and later                *)
(* (onboarding.service.ts 195-228).                                        *)
THEOREM ReportIsAlwaysTrue == Spec => []ReportIsTrue
<1>1. IInv => ReportIsTrue
  BY DEF IInv, ReportInv, CreationInv, ReportIsTrue, UnitsOf
<1> QED
  BY <1>1, Invariant, PTL

-----------------------------------------------------------------------------
\* Onboarding.

WizardInv == IInv /\ OnboardingTypeOK /\ WalkInv

(* The manager's own steps, and those of her createEstate requests.        *)
Clicks ==
  \/ \E t \in Tab : \/ SignUp(t) \/ LogIn(t) \/ LogOut(t) \/ Reload(t) \/ Gate(t) \/ Resume(t)
                    \/ \E c \in Call, n \in Name : CreateEstate(t, c, n)
                    \/ Created(t) \/ NotCreated(t) \/ StepNomba(t)
                    \/ Provisioned(t) \/ NotProvisioned(t) \/ OpenDashboard(t)
  \/ \E c \in Call : CheckName(c) \/ InsertEstate(c) \/ EstateFails(c)

(* A step of the walk starts a request for units, leaves the accounts      *)
(* alone, or is a step of the accounts alone.                              *)
LEMMA StepsOfTheWalk ==
  ASSUME TypeOK, OnboardingNext
  PROVE  \/ \E t \in Tab, r \in Request : Provision(t, r)
         \/ Clicks /\ UNCHANGED vars
         \/ /\ Next /\ UNCHANGED walk
            /\ \A r \in Request : request[r] = "todo" <=> request'[r] = "todo"
<1>1. ASSUME NEW t \in Tab, Walks(t)
      PROVE  (\E r \in Request : Provision(t, r)) \/ (Clicks /\ UNCHANGED vars)
  BY <1>1 DEF Walks, Clicks, SignUp, LogIn, LogOut, Reload, Gate, Resume, CreateEstate,
              Created, NotCreated, StepNomba, Provisioned, NotProvisioned, OpenDashboard
<1>2. ASSUME NEW c \in Call, CheckName(c) \/ InsertEstate(c) \/ EstateFails(c)
      PROVE  Clicks /\ UNCHANGED vars
  BY <1>2 DEF Clicks, CheckName, InsertEstate, EstateFails, Served
<1>3. CASE Works
  <2>1. Next /\ UNCHANGED walk
    BY <1>3 DEF Works, Next
  <2>2. \A r \in Request : request[r] = "todo" <=> request'[r] = "todo"
    BY <1>3 DEF TypeOK, Works, Report, RequestDies, AskAccount, OpenAccount, AnswerAccount,
                Persist, CreationFails, StartDeletion, DeletionFails
  <2> QED
    BY <2>1, <2>2
<1>4. CASE \E d \in Deleter : Deletes(d)
  <2>1. Next /\ UNCHANGED walk
    BY <1>4 DEF Deletes, Next
  <2>2. UNCHANGED request
    BY <1>4 DEF Deletes, Delete, DeleteUnit, DeleteAccount, ExpireAccount
  <2> QED
    BY <2>1, <2>2
<1> QED
  BY <1>1, <1>2, <1>3, <1>4 DEF OnboardingNext

(* Nothing has been made when nobody has signed up.                        *)
LEMMA OnboardingInitInv == OnboardingInit => WizardInv
<1> SUFFICES ASSUME OnboardingInit PROVE WizardInv
  OBVIOUS
<1>1. IInv
  BY InitInv DEF OnboardingInit
<1>2. OnboardingTypeOK
  <2> DEFINE some == CHOOSE n \in Name : TRUE
  <2>1. some \in Name
    BY OnboardingAssumption
  <2>2. call = [c \in Call |-> [at |-> "idle", name |-> some]]
    BY DEF OnboardingInit
  <2> HIDE DEF some
  <2>3. call \in [Call -> [at : {"idle", "asked", "free", "made", "refused"}, name : Name]]
    BY <2>1, <2>2
  <2>4. tab \in [Tab -> [at : {"login", "gate", "loading", "estate",
                              "nomba", "units", "done", "app"},
                        waits : Call \cup Request \cup {Nothing}]]
    BY DEF OnboardingInit
  <2>5. manager \in BOOLEAN
    BY Zenon DEF OnboardingInit
  <2>6. estates \in Seq(Call) /\ into \in [Request -> Call \cup {NoEstate}]
    BY DEF OnboardingInit
  <2>7. browser \in [token : BOOLEAN, estate : Call \cup {NoEstate}]
    BY DEF OnboardingInit
  <2> QED
    BY <1>1, <2>3, <2>4, <2>5, <2>6, <2>7 DEF IInv, OnboardingTypeOK
<1>3. WalkInv
  BY DEF OnboardingInit, Init, WalkInv
<1> QED
  BY <1>1, <1>2, <1>3 DEF WizardInv

(* The first estate is one of the estates.                                 *)
LEMMA FirstFacts ==
  ASSUME estates \in Seq(Call)
  PROVE  /\ Estates \subseteq Call
         /\ First \in Estates \cup {NoEstate}
         /\ Estates # {} => First = estates[1] /\ First \in Estates
BY DEF Estates, First

(* A unit's row is never removed.                                          *)
LEMMA UnitsStay ==
  ASSUME IInv, [Next]_vars
  PROVE  \A u \in Unit : unit[u] # "none" => unit'[u] # "none"
BY DEF IInv, TypeOK, vars, Next, Start, Report, RequestDies, AskAccount, OpenAccount,
       AnswerAccount, Persist, CreationFails, MayPersist, StartDeletion, Delete, DeleteUnit,
       DeleteAccount, ExpireAccount, DeletionFails, rows

(* The accounts go on, and the walk stands still: a unit that has been     *)
(* made stays one, and so does its request.                                *)
LEMMA AccountsWalk ==
  ASSUME WizardInv, Next, UNCHANGED walk,
         \A r \in Request : request[r] = "todo" <=> request'[r] = "todo"
  PROVE  WizardInv'
<1>1. IInv'
  BY NextInv DEF WizardInv
<1>2. OnboardingTypeOK'
  BY <1>1 DEF WizardInv, IInv, OnboardingTypeOK, walk
<1>3. \A u \in Unit : creation'[u] # "todo" => request'[Of[u]] # "todo"
  <2>1. \A u \in Unit : creation'[u] = creation[u] \/ request[Of[u]] # "todo"
    BY DEF WizardInv, IInv, TypeOK, Next, Start, Report, RequestDies, AskAccount,
           OpenAccount, AnswerAccount, Persist, CreationFails, MayPersist, Moves,
           StartDeletion, Delete, DeleteUnit, DeleteAccount, ExpireAccount, DeletionFails
  <2> QED
    BY <2>1, AccountsAssumption DEF WizardInv, WalkInv
<1>4. \A u \in Unit : unit[u] # "none" => unit'[u] # "none"
  BY UnitsStay DEF WizardInv
<1> QED
  BY <1>1, <1>2, <1>3, <1>4 DEF WizardInv, WalkInv, walk, Estates

(* A request for units is for an estate there is.                          *)
LEMMA ProvisionWalk ==
  ASSUME WizardInv, NEW t \in Tab, NEW r \in Request, Provision(t, r)
  PROVE  WizardInv'
<1>1. IInv'
  BY RequestInv DEF WizardInv, Provision
<1>2. /\ request' = [request EXCEPT ![r] = "running"]
      /\ into' = [into EXCEPT ![r] = browser.estate]
      /\ tab' = [tab EXCEPT ![t].waits = r]
      /\ tab[t].at # "done" /\ browser.estate \in Estates
      /\ UNCHANGED <<creation, unit, manager, estates, call, browser>>
  BY DEF WizardInv, WalkInv, Provision, Start, rows
<1>3. Estates \subseteq Call
  BY FirstFacts DEF WizardInv, OnboardingTypeOK
<1>4. OnboardingTypeOK'
  BY <1>1, <1>2, <1>3 DEF WizardInv, IInv, OnboardingTypeOK
<1>5. \A s \in Tab : tab'[s].at = tab[s].at
  BY <1>2 DEF WizardInv, OnboardingTypeOK
<1>6. WalkInv'
  BY <1>2, <1>5, AccountsAssumption
     DEF WizardInv, IInv, TypeOK, OnboardingTypeOK, WalkInv, Estates
<1> QED
  BY <1>1, <1>4, <1>6 DEF WizardInv

(* A page that turns to done has heard of a unit that was created.         *)
LEMMA DoneWalk ==
  ASSUME WizardInv, NEW t \in Tab, Provisioned(t)
  PROVE  \E u \in Unit : unit[u] # "none"
BY DEF WizardInv, IInv, ReportInv, CreationInv, Provisioned, Succeeded, UnitsOf

(* Estates are only added.                                                 *)
LEMMA EstatesGrow ==
  ASSUME WizardInv, Clicks
  PROVE  /\ estates' \in Seq(Call) /\ Estates \subseteq Estates'
         /\ estates # <<>> => First' = First
         /\ \A c \in Call : call'[c].at = "made" => c \in Estates'
<1>1. CASE \E c \in Call : InsertEstate(c)
  <2>1. PICK c \in Call : InsertEstate(c)
    BY <1>1
  <2>2. estates \in Seq(Call) /\ estates' = Append(estates, c)
    BY <2>1 DEF WizardInv, OnboardingTypeOK, InsertEstate
  <2>3. estates' \in Seq(Call) /\ Estates' = Estates \cup {c}
    BY <2>2 DEF Estates
  <2>4. estates # <<>> => First' = First
    BY <2>2 DEF First
  <2>5. \A x \in Call \ {c} : call'[x].at = call[x].at
    BY <2>1 DEF WizardInv, OnboardingTypeOK, InsertEstate, Served
  <2> QED
    BY <2>3, <2>4, <2>5 DEF WizardInv, WalkInv
<1>2. CASE ~\E c \in Call : InsertEstate(c)
  <2>1. estates' = estates
    BY <1>2 DEF Clicks, SignUp, LogIn, LogOut, Reload, Gate, Resume, CreateEstate, Created,
                NotCreated, StepNomba, Provisioned, NotProvisioned, OpenDashboard,
                CheckName, EstateFails
  <2>2. \A c \in Call : call'[c].at = "made" => call[c].at = "made"
    BY <1>2 DEF WizardInv, OnboardingTypeOK, Clicks, SignUp, LogIn, LogOut, Reload, Gate,
                Resume, CreateEstate, Created, NotCreated, StepNomba, Provisioned,
                NotProvisioned, OpenDashboard, CheckName, EstateFails, Served
  <2> QED
    BY <2>1, <2>2 DEF WizardInv, OnboardingTypeOK, WalkInv, Estates, First
<1> QED
  BY <1>1, <1>2

(* The browser remembers estates there are.                                *)
LEMMA BrowserWalk ==
  ASSUME WizardInv, Clicks
  PROVE  /\ browser' \in [token : BOOLEAN, estate : Call \cup {NoEstate}]
         /\ browser'.estate \in Estates \cup {NoEstate}
<1>1. /\ browser \in [token : BOOLEAN, estate : Call \cup {NoEstate}]
      /\ browser.estate \in Estates \cup {NoEstate}
      /\ Estates \subseteq Call /\ First \in Estates \cup {NoEstate}
  BY FirstFacts DEF WizardInv, OnboardingTypeOK, WalkInv
<1>2. \/ browser' = browser
      \/ browser' = [browser EXCEPT !.token = TRUE]
      \/ browser' = [token |-> FALSE, estate |-> NoEstate]
      \/ browser' = Remembers
      \/ \E e \in Estates : browser' = [browser EXCEPT !.estate = e]
  BY DEF WizardInv, WalkInv, Clicks, SignUp, LogIn, LogOut, Reload, Gate, Resume, CreateEstate,
         Created, NotCreated, StepNomba, Provisioned, NotProvisioned, OpenDashboard,
         CheckName, InsertEstate, EstateFails, Served
<1>3. Remembers = browser \/ \E e \in Estates : Remembers = [browser EXCEPT !.estate = e]
  <2>1. First = NoEstate => Remembers = browser
    BY <1>1 DEF Remembers
  <2>2. First # NoEstate => Remembers = [browser EXCEPT !.estate = First]
    BY DEF Remembers
  <2> QED
    BY <1>1, <2>1, <2>2
<1>4. \A e \in Call :
        [browser EXCEPT !.estate = e] \in [token : BOOLEAN, estate : Call \cup {NoEstate}]
        /\ [browser EXCEPT !.estate = e].estate = e
  BY <1>1
<1>5. /\ [browser EXCEPT !.token = TRUE] \in [token : BOOLEAN, estate : Call \cup {NoEstate}]
      /\ [browser EXCEPT !.token = TRUE].estate = browser.estate
  BY <1>1
<1>6. CASE \E e \in Estates : browser' = [browser EXCEPT !.estate = e]
  BY <1>1, <1>4, <1>6
<1>7. CASE browser' = browser \/ browser' = [browser EXCEPT !.token = TRUE]
  BY <1>1, <1>5, <1>7
<1>8. CASE browser' = [token |-> FALSE, estate |-> NoEstate]
  BY <1>8
<1> QED
  BY <1>2, <1>3, <1>6, <1>7, <1>8

(* The other steps of the manager and her createEstate requests.           *)
LEMMA ClicksWalk ==
  ASSUME WizardInv, Clicks, UNCHANGED vars
  PROVE  WizardInv'
<1>1. IInv'
  BY NextInv DEF WizardInv
<1>2. into' = into /\ manager' \in BOOLEAN
  BY DEF WizardInv, OnboardingTypeOK, Clicks, SignUp, LogIn, LogOut, Reload, Gate, Resume,
         CreateEstate, Created, NotCreated, StepNomba, Provisioned, NotProvisioned,
         OpenDashboard, CheckName, InsertEstate, EstateFails, Served
<1>3. call' \in [Call -> [at : {"idle", "asked", "free", "made", "refused"}, name : Name]]
  BY DEF WizardInv, OnboardingTypeOK, Clicks, SignUp, LogIn, LogOut, Reload, Gate, Resume,
         CreateEstate, Created, NotCreated, StepNomba, Provisioned, NotProvisioned,
         OpenDashboard, CheckName, InsertEstate, EstateFails, Served
<1> DEFINE Pages == {"login", "gate", "loading", "estate", "nomba", "units", "done", "app"}
           Typed == tab' \in [Tab -> [at : Pages, waits : Call \cup Request \cup {Nothing}]]
           Arrives == \A t \in Tab : tab'[t].at = "done" => tab[t].at = "done" \/ Provisioned(t)
<1>4. Typed /\ Arrives
  <2>0. tab \in [Tab -> [at : Pages, waits : Call \cup Request \cup {Nothing}]]
    BY DEF WizardInv, OnboardingTypeOK
  <2>1. ASSUME NEW t \in Tab, SignUp(t) \/ LogIn(t) \/ LogOut(t) \/ Reload(t) \/ Gate(t) \/ Resume(t)
        PROVE  Typed /\ Arrives
    BY <2>0, <2>1 DEF SignUp, LogIn, LogOut, Reload, Gate, Resume, Shows, Step
  <2>2. ASSUME NEW t \in Tab, NEW c \in Call, NEW n \in Name, CreateEstate(t, c, n)
        PROVE  Typed /\ Arrives
    BY <2>0, <2>2 DEF CreateEstate, Shows
  <2>3. ASSUME NEW t \in Tab, Created(t) \/ NotCreated(t) \/ StepNomba(t)
        PROVE  Typed /\ Arrives
    BY <2>0, <2>3 DEF Created, NotCreated, StepNomba, Shows, Served
  <2>4. ASSUME NEW t \in Tab, Provisioned(t) \/ NotProvisioned(t) \/ OpenDashboard(t)
        PROVE  Typed /\ Arrives
    BY <2>0, <2>4 DEF Provisioned, NotProvisioned, OpenDashboard, Shows, Served
  <2>5. ASSUME NEW c \in Call, CheckName(c) \/ InsertEstate(c) \/ EstateFails(c)
        PROVE  Typed /\ Arrives
    BY <2>0, <2>5 DEF CheckName, InsertEstate, EstateFails, Served
  <2> HIDE DEF Typed, Arrives
  <2> QED
    BY <2>1, <2>2, <2>3, <2>4, <2>5 DEF Clicks
<1>5. OnboardingTypeOK'
  <2>1. estates' \in Seq(Call) /\ browser' \in [token : BOOLEAN, estate : Call \cup {NoEstate}]
    BY EstatesGrow, BrowserWalk
  <2>2. into' \in [Request -> Call \cup {NoEstate}]
    BY <1>2 DEF WizardInv, OnboardingTypeOK
  <2> QED
    BY <1>1, <1>2, <1>3, <1>4, <2>1, <2>2 DEF IInv, OnboardingTypeOK
<1>6. (\E t \in Tab : tab'[t].at = "done") => \E u \in Unit : unit'[u] # "none"
  BY <1>4, DoneWalk DEF WizardInv, WalkInv, vars
<1>7. WalkInv'
  BY <1>2, <1>6, EstatesGrow, BrowserWalk DEF WizardInv, WalkInv, vars
<1> QED
  BY <1>1, <1>5, <1>7 DEF WizardInv

(* Every step of the wizard, over the accounts, keeps the invariant.       *)
LEMMA OnboardingNextInv == WizardInv /\ [OnboardingNext]_all => WizardInv'
<1> SUFFICES ASSUME WizardInv, [OnboardingNext]_all PROVE WizardInv'
  OBVIOUS
<1>1. CASE OnboardingNext
  <2>1. TypeOK
    BY DEF WizardInv, IInv
  <2> QED
    BY <1>1, <2>1, StepsOfTheWalk, ProvisionWalk, ClicksWalk, AccountsWalk
<1>2. CASE UNCHANGED all
  <2>1. IInv'
    BY <1>2, NextInv DEF WizardInv, all
  <2> QED
    BY <1>2, <2>1 DEF WizardInv, IInv, OnboardingTypeOK, WalkInv, Estates, all, vars, walk
<1> QED
  BY <1>1, <1>2

(* The inductive invariant of the walk from signing up to the dashboard.   *)
THEOREM OnboardingInvariant == OnboardingSpec => []WizardInv
<1> QED
  BY OnboardingInitInv, OnboardingNextInv, PTL DEF OnboardingSpec

(* What holds of the accounts by themselves holds of them in the walk.     *)
THEOREM AccountsOfTheWalk == OnboardingSpec => [](LiveUnitCanBePaid /\ ReportIsTrue)
<1>1. WizardInv => LiveUnitCanBePaid /\ ReportIsTrue
  BY DEF WizardInv, IInv, ReportInv, CreationInv, ReportIsTrue, UnitsOf
<1> QED
  BY <1>1, OnboardingInvariant, PTL

(* Whoever has read that her units have their accounts is let into the     *)
(* dashboard, while she has one estate, whatever failed, was asked for     *)
(* twice or was deleted in another tab.                                    *)
THEOREM WhoFinishesIsAdmitted == OnboardingSpec => []FinishIsAdmitted
<1>1. WizardInv => FinishIsAdmitted
  <2> SUFFICES ASSUME WizardInv, NEW t \in Tab, tab[t].at = "done", Len(estates) = 1
               PROVE  Onboarded
    BY DEF FinishIsAdmitted
  <2>1. estates \in Seq(Call)
    BY DEF WizardInv, OnboardingTypeOK
  <2>2. Estates = {estates[1]} /\ First = estates[1] /\ First # NoEstate
    BY <2>1, OnboardingAssumption DEF Estates, First
  <2>3. PICK u \in Unit : unit[u] # "none"
    BY DEF WizardInv, WalkInv
  <2>4. request[Of[u]] # "todo" /\ Of[u] \in Request
    BY <2>3, AccountsAssumption DEF WizardInv, WalkInv, IInv, CreationInv
  <2>5. into[Of[u]] = First
    BY <2>2, <2>4 DEF WizardInv, WalkInv
  <2> QED
    BY <2>2, <2>3, <2>5 DEF Onboarded, Counted
<1> QED
  BY <1>1, OnboardingInvariant, PTL

(* Whoever has been let in is let in for good: the gate looks at the first *)
(* estate, estates are only added after it, and deleted units still count. *)
THEOREM TheAdmittedStayAdmitted == OnboardingSpec => AdmittedStaysAdmitted
<1>1. WizardInv /\ [OnboardingNext]_all => (Onboarded => Onboarded')
  <2> SUFFICES ASSUME WizardInv, [OnboardingNext]_all, Onboarded PROVE Onboarded'
    OBVIOUS
  <2>1. PICK u \in Unit : unit[u] # "none" /\ into[Of[u]] = First
    BY DEF Onboarded, Counted
  <2>2. estates # <<>> /\ First # NoEstate /\ IInv
    BY DEF Onboarded, First, WizardInv
  <2>3. request[Of[u]] # "todo" /\ Of[u] \in Request
    BY <2>1, AccountsAssumption DEF WizardInv, WalkInv, IInv, CreationInv
  <2>4. CASE UNCHANGED all
    BY <2>1, <2>2, <2>4 DEF all, vars, walk, Onboarded, Counted, First
  <2>5. ASSUME NEW t \in Tab, NEW r \in Request, Provision(t, r) PROVE Onboarded'
    <3>1. r # Of[u] /\ unit' = unit /\ estates' = estates
      BY <2>3, <2>5 DEF Provision, Start, rows
    <3>2. into'[Of[u]] = into[Of[u]]
      BY <2>3, <2>5, <3>1 DEF WizardInv, OnboardingTypeOK, Provision
    <3> QED
      BY <2>1, <2>2, <3>1, <3>2 DEF Onboarded, Counted, First
  <2>6. CASE Clicks /\ UNCHANGED vars
    <3>1. First' = First
      BY <2>2, <2>6, EstatesGrow
    <3>2. into' = into
      BY <2>6 DEF Clicks, SignUp, LogIn, LogOut, Reload, Gate, Resume, CreateEstate, Created,
                  NotCreated, StepNomba, Provisioned, NotProvisioned, OpenDashboard,
                  CheckName, InsertEstate, EstateFails, Served
    <3> QED
      BY <2>1, <2>2, <2>6, <3>1, <3>2 DEF vars, Onboarded, Counted
  <2>7. CASE Next /\ UNCHANGED walk
    <3>1. unit'[u] # "none"
      BY <2>1, <2>2, <2>7, UnitsStay
    <3> QED
      BY <2>1, <2>2, <2>7, <3>1 DEF walk, Onboarded, Counted, First
  <2> QED
    BY <2>2, <2>4, <2>5, <2>6, <2>7, StepsOfTheWalk DEF IInv
<1> QED
  BY <1>1, OnboardingInvariant, PTL DEF OnboardingSpec, AdmittedStaysAdmitted
=============================================================================
