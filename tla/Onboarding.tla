----------------------------- MODULE Onboarding -----------------------------
(***************************************************************************)
(* How a manager gets from signing up to her dashboard: the account and    *)
(* the session (auth.service.ts, login.tsx, signup.tsx, api.ts), the       *)
(* wizard with its estate and its units (onboarding.tsx,                   *)
(* onboarding.service.ts), the gates before wizard and dashboard           *)
(* (app.tsx), and the units themselves (Accounts), in several tabs of one  *)
(* browser, which share the token and the estate in local storage.         *)
(***************************************************************************)
EXTENDS Accounts, Sequences

CONSTANTS
  Tab,        \* tabs of the manager's browser
  Call,       \* createEstate requests, each with the estate it may make
  Name,       \* names of estates
  NoEstate, Nothing,
  Reloader   \* the tabs that are reloaded or logged out of

ASSUME OnboardingAssumption ==
  /\ NoEstate \notin Call /\ Nothing \notin Call \cup Request
  /\ Name # {}
  /\ Reloader \subseteq Tab

VARIABLES
  manager,  \* whether there is a manager with her e-mail
  estates,  \* the estates, in order of createdAt
  call,     \* where each createEstate request is
  into,     \* the estate each createUnits request is for
  browser,  \* local storage
  tab       \* the page each tab shows, and the request it waits for

walk == <<manager, estates, call, into, browser, tab>>
all == <<vars, walk>>

OnboardingInit ==
  /\ Init
  /\ manager = FALSE
  /\ estates = <<>>
  /\ call = [c \in Call |-> [at |-> "idle", name |-> CHOOSE n \in Name : TRUE]]
  /\ into = [r \in Request |-> NoEstate]
  /\ browser = [token |-> FALSE, estate |-> NoEstate]
  /\ tab = [t \in Tab |-> [at |-> "login", waits |-> Nothing]]
-----------------------------------------------------------------------------
\* What the server says of the manager's progress (me, getState).

First == IF estates = <<>> THEN NoEstate ELSE Head(estates)

\* Mutant of Counted: deleted units are left out.
CountedLive(e) == {u \in Unit : unit[u] = "live" /\ into[Of[u]] = e}

(* _count counts rows, those of deleted units too.                         *)
Counted(e) == {u \in Unit : unit[u] # "none" /\ into[Of[u]] = e}

Onboarded == First # NoEstate /\ Counted(First) # {}

(* The step of the wizard; what getState says of fees is clamped away.     *)
Step == IF First = NoEstate THEN "estate" ELSE "units"

(* fetchCurrentUser and fetchOnboardingState remember the estate.          *)
Remembers == [browser EXCEPT !.estate = IF First = NoEstate THEN @ ELSE First]

Shows(t, page) == tab' = [tab EXCEPT ![t] = [at |-> page, waits |-> Nothing]]
-----------------------------------------------------------------------------
\* The session.

(* register: a success that is not heard leaves her where she was.         *)
SignUp(t) ==
  /\ tab[t].at = "login" /\ ~manager
  /\ manager' = TRUE
  /\ \/ /\ browser' = [browser EXCEPT !.token = TRUE]
        /\ Shows(t, "gate")
     \/ UNCHANGED <<browser, tab>>
  /\ UNCHANGED <<vars, estates, call, into>>

LogIn(t) ==
  /\ tab[t].at = "login" /\ manager
  /\ browser' = [browser EXCEPT !.token = TRUE]
  /\ Shows(t, "gate")
  /\ UNCHANGED <<vars, manager, estates, call, into>>

(* clearAuth takes token and estate from every tab.                        *)
LogOut(t) ==
  /\ t \in Reloader /\ tab[t].at = "app"
  /\ browser' = [token |-> FALSE, estate |-> NoEstate]
  /\ Shows(t, "login")
  /\ UNCHANGED <<vars, manager, estates, call, into>>

(* The page is loaded once more, and its gate is passed once more.         *)
Reload(t) ==
  /\ t \in Reloader
  /\ tab[t].at \in {"estate", "nomba", "units", "done", "app"}
  /\ Shows(t, "gate")
  /\ UNCHANGED <<vars, manager, estates, call, into, browser>>
-----------------------------------------------------------------------------
\* The gate.

(* The routes of app and wizard ask who she is, and send her to each other *)
(* until they agree; no token, or no answer, is nobody.                    *)
Gate(t) ==
  /\ tab[t].at = "gate"
  /\ \/ Shows(t, "login") /\ UNCHANGED browser
     \/ /\ browser.token /\ browser' = Remembers
        /\ Shows(t, IF Onboarded THEN "app" ELSE "loading")
  /\ UNCHANGED <<vars, manager, estates, call, into>>

(* If the progress cannot be loaded the wizard starts afresh.              *)
Resume(t) ==
  /\ tab[t].at = "loading"
  /\ \/ Shows(t, "estate") /\ UNCHANGED browser
     \/ browser.token /\ Shows(t, Step) /\ browser' = Remembers
  /\ UNCHANGED <<vars, manager, estates, call, into>>
-----------------------------------------------------------------------------
\* The estate.

CreateEstate(t, c, n) ==
  /\ tab[t].at = "estate" /\ tab[t].waits = Nothing
  /\ browser.token /\ call[c].at = "idle"
  /\ call' = [call EXCEPT ![c] = [at |-> "asked", name |-> n]]
  /\ tab' = [tab EXCEPT ![t].waits = c]
  /\ UNCHANGED <<vars, manager, estates, into, browser>>

Served(c, from, to) ==
  /\ call[c].at = from
  /\ call' = [call EXCEPT ![c].at = to]
  /\ UNCHANGED <<vars, manager, into, browser, tab>>

Taken(n) == \E i \in DOMAIN estates : call[estates[i]].name = n

CheckName(c) ==
  /\ Served(c, "asked", IF Taken(call[c].name) THEN "refused" ELSE "free")
  /\ UNCHANGED estates

InsertEstate(c) ==
  /\ Served(c, "free", "made")
  /\ estates' = Append(estates, c)

EstateFails(c) ==
  /\ \E from \in {"asked", "free"} : Served(c, from, "refused")
  /\ UNCHANGED estates

Created(t) ==
  /\ tab[t].waits \in Call /\ call[tab[t].waits].at = "made"
  /\ browser' = [browser EXCEPT !.estate = tab[t].waits]
  /\ Shows(t, "nomba")
  /\ UNCHANGED <<vars, manager, estates, call, into>>

(* An error, or no answer, whatever the server has done or will do.        *)
NotCreated(t) ==
  /\ tab[t].waits \in Call
  /\ Shows(t, "estate")
  /\ UNCHANGED <<vars, manager, estates, call, into, browser>>

(* Two clicks that nothing but the page hears of.                          *)
StepNomba(t) ==
  /\ tab[t].at = "nomba"
  /\ Shows(t, "units")
  /\ UNCHANGED <<vars, manager, estates, call, into, browser>>
-----------------------------------------------------------------------------
\* The units: the wizard's last step, and the dialog of the app.

(* provisionUnitsFn names the estate that is in local storage by now.      *)
Provision(t, r) ==
  /\ tab[t].at \in {"units", "app"} /\ tab[t].waits = Nothing
  /\ browser.token /\ browser.estate # NoEstate
  /\ Start(r)
  /\ into' = [into EXCEPT ![r] = browser.estate]
  /\ tab' = [tab EXCEPT ![t].waits = r]
  /\ UNCHANGED <<manager, estates, call, browser>>

\* Mutant of Succeeded: any answer will do.
Answered(r) == request[r] = "reported"

(* With no unit created the answer is an error.                            *)
Succeeded(r) == request[r] = "reported" /\ report[r] # {}

Provisioned(t) ==
  /\ tab[t].waits \in Request /\ Succeeded(tab[t].waits)
  /\ Shows(t, IF tab[t].at = "units" THEN "done" ELSE "app")
  /\ UNCHANGED <<vars, manager, estates, call, into, browser>>

(* An error, or no answer: rows stay as they were typed.                   *)
NotProvisioned(t) ==
  /\ tab[t].waits \in Request
  /\ Shows(t, tab[t].at)
  /\ UNCHANGED <<vars, manager, estates, call, into, browser>>

OpenDashboard(t) ==
  /\ tab[t].at = "done"
  /\ Shows(t, "gate")
  /\ UNCHANGED <<vars, manager, estates, call, into, browser>>
-----------------------------------------------------------------------------
(* The server's work on units.                                             *)
Works ==
  /\ \/ \E r \in Request : Report(r) \/ RequestDies(r)
     \/ \E u \in Unit : \/ AskAccount(u) \/ OpenAccount(u) \/ AnswerAccount(u)
                        \/ Persist(u) \/ CreationFails(u)
     \/ \E d \in Deleter, u \in Unit : StartDeletion(d, u)
     \/ \E d \in Deleter : DeletionFails(d)
  /\ UNCHANGED walk

Deletes(d) == Delete(d) /\ UNCHANGED walk

Walks(t) ==
  \/ SignUp(t) \/ LogIn(t) \/ LogOut(t) \/ Reload(t)
  \/ Gate(t) \/ Resume(t)
  \/ \E c \in Call, n \in Name : CreateEstate(t, c, n)
  \/ Created(t) \/ NotCreated(t) \/ StepNomba(t)
  \/ \E r \in Request : Provision(t, r)
  \/ Provisioned(t) \/ NotProvisioned(t) \/ OpenDashboard(t)

OnboardingNext ==
  \/ \E t \in Tab : Walks(t)
  \/ \E c \in Call : CheckName(c) \/ InsertEstate(c) \/ EstateFails(c)
  \/ \E d \in Deleter : Deletes(d)
  \/ Works

OnboardingSpec ==
  OnboardingInit /\ [][OnboardingNext]_all /\ \A d \in Deleter : WF_all(Deletes(d))
-----------------------------------------------------------------------------
OnboardingTypeOK ==
  /\ TypeOK
  /\ manager \in BOOLEAN
  /\ estates \in Seq(Call)
  /\ call \in [Call -> [at : {"idle", "asked", "free", "made", "refused"}, name : Name]]
  /\ into \in [Request -> Call \cup {NoEstate}]
  /\ browser \in [token : BOOLEAN, estate : Call \cup {NoEstate}]
  /\ tab \in [Tab -> [at : {"login", "gate", "loading", "estate",
                            "nomba", "units", "done", "app"},
                      waits : Call \cup Request \cup {Nothing}]]

(* Whoever reads that her units have their accounts is let into the        *)
(* dashboard next, whatever failed or was asked for twice on the way, and  *)
(* also if another tab has deleted the units meanwhile.  With two estates  *)
(* it may be otherwise: the units go into the estate that was used last,   *)
(* and the gate looks at the first (api.ts 57-77).                         *)
FinishIsAdmitted ==
  \A t \in Tab : tab[t].at = "done" /\ Len(estates) = 1 => Onboarded

(* The inductive invariant: units are only made for requests that were     *)
(* sent, requests only for estates there are, and a wizard that is done    *)
(* has units behind it.                                                    *)
Estates == {estates[i] : i \in DOMAIN estates}

WalkInv ==
  /\ \A u \in Unit : creation[u] # "todo" => request[Of[u]] # "todo"
  /\ \A c \in Call : call[c].at = "made" => c \in Estates
  /\ browser.estate \in Estates \cup {NoEstate}
  /\ \A r \in Request : request[r] # "todo" => into[r] \in Estates
  /\ (\E t \in Tab : tab[t].at = "done") => \E u \in Unit : unit[u] # "none"

(* "Already onboarded managers must not re-enter the wizard"               *)
(* (onboarding.tsx 22-24): whoever has been let into the dashboard is let  *)
(* in for good, though estates are added and units deleted.                *)
AdmittedStaysAdmitted == [][Onboarded => Onboarded']_all
=============================================================================
