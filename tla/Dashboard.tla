------------------------------ MODULE Dashboard ------------------------------
(***************************************************************************)
(* A manager's browser and the estate it shows: the cached copy of the     *)
(* estate's state with its optimistic changes (store.ts), the session      *)
(* (api.ts, app.tsx), the stream of events (LiveUpdates), and the requests *)
(* that change the estate, of this browser and of others.                  *)
(*                                                                         *)
(* Of the state we keep what the optimistic changes touch: the exceptions, *)
(* the groups and the group of each unit.                                  *)
(***************************************************************************)
EXTENDS LiveUpdates

CONSTANTS
  Exc, Unit, Group, NoGroup,
  Tab,          \* calls of the store's functions, each made once
  Clicks,       \* the operations these calls may be
  Outside,      \* requests of webhooks and of other browsers, each made once
  OutsideOps,   \* the operations these may be
  Lasting,      \* TRUE if a session lasts, FALSE if the manager may sign out
  MaxSessions,  \* bound: sessions in this browser
  MaxFaults     \* bound: answers that are lost, fetches and streams that fail

Op == [name : {"resolve", "raise"}, exc : Exc]
        \cup [name : {"createGroup", "deleteGroup"}, group : Group]
        \cup [name : {"assign"}, unit : Unit, group : Group \cup {NoGroup}]

ASSUME DashboardAssumption ==
  /\ NoGroup \notin Group
  /\ Clicks \subseteq Op /\ OutsideOps \subseteq Op
  /\ MaxSessions \in Nat \ {0} /\ MaxFaults \in Nat
  /\ Lasting \in BOOLEAN

VARIABLES
  db,        \* the estate in the database
  cache,     \* what the browser shows, and the session it was fetched in
  fetch,     \* the query that is in flight
  call,      \* where each call and each outside request is
  session,   \* the number of the current or the last session
  signedIn,  \* there is a token in local storage
  faults,    \* history: the faults so far
  suspect,   \* history: the cache may be behind with no fetch to come
  revived    \* history: a rollback has put a session's copy back after it

vars == <<streamVars, db, cache, fetch, call, session, signedIn, faults, suspect, revived>>

State == [open : SUBSET Exc, groups : SUBSET Group,
          groupOf : [Unit -> Group \cup {NoGroup}]]

EmptyState == [open |-> {}, groups |-> {}, groupOf |-> [u \in Unit |-> NoGroup]]

NoData == 0   \* the session of an empty cache

Shows == [session : 0..MaxSessions, state : State]

Blank   == [session |-> NoData, state |-> EmptyState]
NoFetch == [got |-> {"none"}, joined |-> FALSE, copy |-> EmptyState]
Begun   == [NoFetch EXCEPT !.got = {}]
Fetches == [got : SUBSET {"none", "units", "rest"}, joined : BOOLEAN, copy : State]

Caller == Tab \cup Outside
NoOp   == [name |-> "none"]
Fresh  == [op |-> NoOp, server |-> "none", browser |-> "none", prev |-> Blank]
Past   == [Fresh EXCEPT !.server = "over"]

Active == [op : Op, server : {"asked", "written", "refused", "done"},
           browser : {"none", "waiting", "done"}, prev : Shows]
Calls  == {Fresh, Past} \cup Active

(* What is left of a call: nothing, once both ends have done with it.      *)
Left(r) == IF r.server \in {"refused", "done"} /\ r.browser # "waiting" THEN Past ELSE r

Init ==
  /\ InitStream
  /\ db \in {s \in State : s.groups = Group}
  /\ cache = Blank
  /\ fetch = NoFetch
  /\ call = [c \in Caller |-> Fresh]
  /\ session = 1 /\ signedIn = TRUE
  /\ faults = 0 /\ suspect = FALSE /\ revived = FALSE

Fetching == fetch # NoFetch
-----------------------------------------------------------------------------
\* The operations.

(* What a service does to the rows (exceptions, groups, payments).         *)
Effect(op, d) ==
  CASE op.name = "resolve"     -> [d EXCEPT !.open = @ \ {op.exc}]
    [] op.name = "raise"       -> [d EXCEPT !.open = @ \cup {op.exc}]
    [] op.name = "createGroup" -> [d EXCEPT !.groups = @ \cup {op.group}]
    [] op.name = "deleteGroup" -> [d EXCEPT !.groups = @ \ {op.group},
                                            !.groupOf = [u \in Unit |-> IF @[u] = op.group
                                                                        THEN NoGroup ELSE @[u]]]
    [] op.name = "assign"      -> [d EXCEPT !.groupOf[op.unit] = op.group]

(* What a service insists on before it writes.                             *)
Accepts(op, d) ==
  CASE op.name = "resolve"     -> op.exc \in d.open
    [] op.name = "deleteGroup" -> op.group \in d.groups
    [] op.name = "assign"      -> op.group \in d.groups \cup {NoGroup}
    [] OTHER                   -> TRUE

\* Mutant of Announced: groups are changed without an event.
AnnouncedButGroups(op) == op.name \in {"raise", "resolve"}

Announced(op) == op.name \in {"raise", "resolve", "createGroup", "deleteGroup", "assign"}

(* What the page offers, from what it shows.                               *)
Shown(op) ==
  LET s == cache.state
  IN  CASE op.name = "resolve"     -> op.exc \in s.open
        [] op.name = "deleteGroup" -> op.group \in s.groups
        [] op.name = "assign"      -> /\ cache.session # NoData
                                      /\ op.group \in s.groups \cup {NoGroup}
                                      /\ s.groupOf[op.unit] # op.group
        [] OTHER                   -> TRUE

Optimistic(op) == op.name \in {"resolve", "deleteGroup", "assign"}

(* The functional updates of store.ts: an empty cache stays empty.         *)
Patched(op) ==
  IF cache.session # NoData /\ Optimistic(op)
  THEN [cache EXCEPT !.state = Effect(op, @)] ELSE cache

(* assignUnitGroup takes back its own unit; the others restore all of the  *)
(* snapshot they took, in whatever state the cache is now.                 *)
RolledBack(op, prev) ==
  CASE op.name = "assign" ->
         IF cache.session # NoData
         THEN [cache EXCEPT !.state.groupOf[op.unit] = prev.state.groupOf[op.unit]] ELSE cache
    [] op.name \in {"resolve", "deleteGroup"} -> IF prev # Blank THEN prev ELSE cache
    [] OTHER -> cache
-----------------------------------------------------------------------------
\* The query for the estate's state (store.ts 55-68, query-client.ts).

(* A query with data is cancelled and sent again (cancelRefetch), the very *)
(* first one is not.                                                       *)
Restarts == cache.session # NoData

(* invalidateQueries: with no observer there is nothing to fetch.          *)
Invalidate ==
  fetch' = IF onScreen = Nobody \/ ~signedIn THEN fetch
           ELSE IF Fetching /\ ~Restarts THEN [fetch EXCEPT !.joined = TRUE]
           ELSE Begun

(* The server answers with several statements, in no transaction.          *)
ReadUnits ==
  /\ Fetching /\ "units" \notin fetch.got
  /\ fetch' = [fetch EXCEPT !.got = @ \cup {"units"}, !.copy.groupOf = db.groupOf]
  /\ UNCHANGED <<streamVars, db, cache, call, session, signedIn, faults, suspect, revived>>

ReadRest ==
  /\ Fetching /\ "rest" \notin fetch.got
  /\ fetch' = [fetch EXCEPT !.got = @ \cup {"rest"},
                            !.copy = [db EXCEPT !.groupOf = fetch.copy.groupOf]]
  /\ UNCHANGED <<streamVars, db, cache, call, session, signedIn, faults, suspect, revived>>

(* The copy replaces what is shown, optimistic changes included.           *)
FetchDone ==
  /\ fetch.got = {"units", "rest"}
  /\ cache' = [session |-> session, state |-> fetch.copy]
  /\ fetch' = NoFetch
  /\ suspect' = fetch.joined
  /\ UNCHANGED <<streamVars, db, call, session, signedIn, faults, revived>>

Fault == faults < MaxFaults /\ faults' = faults + 1

(* All the retries of the query fail: what is shown stays.                 *)
FetchFails ==
  /\ Fetching /\ Fault
  /\ fetch' = NoFetch
  /\ suspect' = TRUE
  /\ UNCHANGED <<streamVars, db, cache, call, session, signedIn, revived>>
-----------------------------------------------------------------------------
\* Calls of the store's functions, and the requests of others.

(* An optimistic change is shown before the request is sent.               *)
Click(c, op) ==
  /\ c \in Tab /\ call[c] = Fresh
  /\ onScreen # Nobody /\ signedIn
  /\ Shown(op)
  /\ call' = [call EXCEPT ![c] = [op |-> op, server |-> "asked", browser |-> "waiting",
                                  prev |-> IF Optimistic(op) THEN cache ELSE Blank]]
  /\ cache' = Patched(op)
  /\ UNCHANGED <<streamVars, db, fetch, session, signedIn, faults, suspect, revived>>

Arrive(c, op) ==
  /\ c \in Outside /\ call[c] = Fresh
  /\ call' = [call EXCEPT ![c] = [op |-> op, server |-> "asked", browser |-> "none",
                                  prev |-> Blank]]
  /\ UNCHANGED <<streamVars, db, cache, fetch, session, signedIn, faults, suspect, revived>>

Serves(c, from, to) ==
  /\ call[c].server = from
  /\ call' = [call EXCEPT ![c] = Left([@ EXCEPT !.server = to])]

Write(c) ==
  /\ Accepts(call[c].op, db)
  /\ Serves(c, "asked", "written")
  /\ db' = Effect(call[c].op, db)
  /\ UNCHANGED <<streamVars, cache, fetch, session, signedIn, faults, suspect, revived>>

Refuse(c) ==
  /\ call[c] # Fresh /\ ~Accepts(call[c].op, db)
  /\ Serves(c, "asked", "refused")
  /\ UNCHANGED <<streamVars, db, cache, fetch, session, signedIn, faults, suspect, revived>>

(* The event follows the write, and the answer follows the event.          *)
Announce(c) ==
  /\ Serves(c, "written", "done")
  /\ IF Announced(call[c].op) THEN Broadcast ELSE UNCHANGED streamVars
  /\ UNCHANGED <<db, cache, fetch, session, signedIn, faults, suspect, revived>>

Hears(c) ==
  /\ call[c].browser = "waiting"
  /\ call' = [call EXCEPT ![c] = Left([@ EXCEPT !.browser = "done", !.prev = Blank])]

Succeeds(c) ==
  /\ Hears(c) /\ call[c].server = "done"
  /\ Invalidate
  /\ UNCHANGED <<streamVars, db, cache, session, signedIn, faults, suspect, revived>>

(* The request is refused, or its answer is lost; the change may have been *)
(* made, or may be yet.                                                    *)
Fails(c) ==
  /\ Hears(c)
  /\ IF call[c].server = "refused" THEN UNCHANGED faults ELSE Fault
  /\ cache' = RolledBack(call[c].op, call[c].prev)
  /\ suspect' = (suspect \/ Optimistic(call[c].op))
  /\ revived' = (revived \/ (cache' # cache /\ (~signedIn \/ cache'.session # session)))
  /\ UNCHANGED <<streamVars, db, fetch, session, signedIn>>
-----------------------------------------------------------------------------
\* The session and the layout (app.tsx, api.ts).

(* Mounting fetches, unless what there is is younger than five seconds.    *)
Open(m) ==
  /\ signedIn
  /\ Enter(m, signedIn)
  /\ \/ fetch' = IF Fetching THEN fetch ELSE Begun
     \/ cache.session # NoData /\ UNCHANGED fetch
  /\ UNCHANGED <<db, cache, call, session, signedIn, faults, suspect, revived>>

(* Another page, or the login page after logging out.                      *)
Close == Leave /\ UNCHANGED <<db, cache, fetch, call, session, signedIn, faults, suspect, revived>>

\* Mutant of Forgotten: the cached queries are not dropped.
Remembered == cache

(* queryClient.clear().                                                    *)
Forgotten == Blank

(* logoutFn tears the session down at once, whatever its request brought.  *)
SignOut ==
  /\ ~Lasting /\ signedIn
  /\ signedIn' = FALSE
  /\ cache' = Forgotten
  /\ fetch' = NoFetch
  /\ UNCHANGED <<streamVars, db, call, session, faults, suspect, revived>>

SignIn ==
  /\ ~signedIn /\ onScreen = Nobody
  /\ session < MaxSessions
  /\ signedIn' = TRUE
  /\ session' = session + 1
  /\ UNCHANGED <<streamVars, db, cache, fetch, call, faults, suspect, revived>>
-----------------------------------------------------------------------------
\* The stream.

Calm == UNCHANGED <<db, cache, fetch, call, session, signedIn, suspect, revived>>

Connects(m) ==
  /\ TicketMinted(m) \/ Retry(m, signedIn) \/ Subscribe(m)
  /\ Calm /\ UNCHANGED faults

Disconnects(m) == (NoTicket(m) \/ Break(m)) /\ Fault /\ Calm

(* Twenty-five seconds apart: a query in flight has ended by then.         *)
Beat(m) == ~Fetching /\ Heartbeat(m) /\ Calm /\ UNCHANGED faults

Update(m) ==
  /\ Receive(m)
  /\ Invalidate
  /\ UNCHANGED <<db, cache, call, session, signedIn, faults, suspect, revived>>

Request(c) == Write(c) \/ Refuse(c) \/ Announce(c)
Answer(c)  == Succeeds(c) \/ Fails(c)
Query      == ReadUnits \/ ReadRest \/ FetchDone
Stream(m)  == Connects(m) \/ Beat(m) \/ Update(m)

Next ==
  \/ \E c \in Caller : Request(c) \/ Answer(c)
  \/ \E c \in Tab, op \in Clicks : Click(c, op)
  \/ \E c \in Outside, op \in OutsideOps : Arrive(c, op)
  \/ \E m \in Mount : Open(m) \/ Stream(m) \/ Disconnects(m)
  \/ Query \/ FetchFails \/ Close \/ SignOut \/ SignIn

(* Requests and queries end, timers fire, the wire delivers.  Managers owe *)
(* nothing.                                                                *)
Fairness ==
  /\ \A c \in Caller : WF_vars(Request(c) \/ Answer(c))
  /\ WF_vars(Query)
  /\ \A m \in Mount : WF_vars(Stream(m))

Spec == Init /\ [][Next]_vars /\ Fairness
-----------------------------------------------------------------------------
TypeOK ==
  /\ StreamTypeOK
  /\ db \in State
  /\ cache \in Shows
  /\ fetch \in Fetches
  /\ call \in [Caller -> Calls]
  /\ session \in 1..MaxSessions /\ signedIn \in BOOLEAN
  /\ faults \in 0..MaxFaults /\ suspect \in BOOLEAN /\ revived \in BOOLEAN

On == signedIn /\ onScreen # Nobody

(* Nothing is under way that would still change the cache or the books.    *)
Quiet ==
  /\ On /\ conn[onScreen] = "open" /\ ~told[onScreen]
  /\ ~Fetching
  /\ \A c \in Caller : /\ call[c].server \notin {"asked", "written"}
                       /\ call[c].browser # "waiting"

(* When all is quiet the screen shows the books, without waiting for a     *)
(* heartbeat, whatever events were lost while the stream was down, however *)
(* reads, writes, clicks and refetches overlapped, and although the server *)
(* reads in several statements.  Two things leave it behind (suspect): a   *)
(* rollback, which restores an old copy, and a query that failed, or was   *)
(* joined when there was no data yet.                                      *)
QuietScreenIsCurrent ==
  Quiet /\ ~suspect =>
    cache.session = session /\ cache.state = db

(* The inductive invariant behind it.  News of the books is on its way     *)
(* when a change is about to be announced, when the stream carries a       *)
(* message, and when the stream is yet to open, with its greeting.         *)
NewsIsComing ==
  \/ ~On \/ conn[onScreen] # "open" \/ told[onScreen]
  \/ \E c \in Caller : call[c].server = "written"

(* What a query has read so far is what the books hold, or it will be sent *)
(* again, or it was joined.                                                *)
FetchInv ==
  Fetching =>
    \/ fetch.joined \/ NewsIsComing
    \/ /\ "units" \in fetch.got => fetch.copy.groupOf = db.groupOf
       /\ "rest" \in fetch.got => /\ fetch.copy.open = db.open
                                  /\ fetch.copy.groups = db.groups

(* A screen that is behind the books has something to look forward to.     *)
ScreenInv ==
  \/ suspect \/ NewsIsComing \/ Fetching
  \/ \E c \in Caller : call[c].browser = "waiting" /\ Optimistic(call[c].op)
  \/ cache.session = session /\ cache.state = db

(* A copy that is shown is of the session of the manager who looks at it,  *)
(* whoever signed in before in this browser and whatever was in flight     *)
(* then ("the next ... view can't read the previous session's estate       *)
(* data", api.ts 50-53).  One thing escapes: a change that fails after its *)
(* session has ended rolls back into the cache that was cleared (revived). *)
OwnDataOnly == signedIn /\ ~revived => cache.session \in {NoData, session}

(* The inductive invariant behind it: a query is of a session that lasts,  *)
(* and an ended session leaves an empty cache.                             *)
SessionInv ==
  /\ Fetching => signedIn
  /\ ~signedIn /\ ~revived => cache.session = NoData

OwnInv == TypeOK /\ SessionInv /\ OwnDataOnly

Promise == INSTANCE Screen WITH Copy <- State, truth <- db, shown <- cache.state, on <- On

(* The dashboard does what Screen promises: with lost answers, failing     *)
(* queries, broken streams and rollbacks, it shows the books in the end.   *)
ImplementsScreen == Promise!Spec
=============================================================================
